---------------------------- MODULE MCProposals ----------------------------
(***************************************************************************)
(* One proposal and two actors, either of them its author; one is a        *)
(* moderator.  Two requests in progress.  Five versions are enough to      *)
(* create, open, gain eligibility and lose it or be archived or deleted.   *)
(* A client may expect the version after the one in the row.               *)
(***************************************************************************)
EXTENDS Proposals, TLC
MCSymmetry == Permutations(Requests)
=============================================================================
