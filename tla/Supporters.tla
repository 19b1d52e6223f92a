---------------------------- MODULE Supporters ----------------------------
(***************************************************************************)
(* What participation promises: each proposal has a set of supporters and  *)
(* shows how many they are.  Only joining and leaving change either, one   *)
(* subject at a time.  Keys, servers and attempts do not appear here.      *)
(***************************************************************************)
EXTENDS Integers

CONSTANTS Proposals, Subjects

VARIABLES
  supporters,   \* the subjects that support each proposal
  shown         \* the number shown

vars == <<supporters, shown>>

\* Some supported the proposals before this participation service existed.
Init ==
  /\ supporters \in [Proposals -> SUBSET Subjects]
  /\ shown \in [Proposals -> Nat]

Join(p, s) ==
  /\ s \notin supporters[p]
  /\ supporters' = [supporters EXCEPT ![p] = @ \cup {s}]
  /\ shown' = [shown EXCEPT ![p] = @ + 1]

Leave(p, s) ==
  /\ s \in supporters[p]
  /\ supporters' = [supporters EXCEPT ![p] = @ \ {s}]
  /\ shown' = [shown EXCEPT ![p] = @ - 1]

Next == \E p \in Proposals, s \in Subjects : Join(p, s) \/ Leave(p, s)

Spec == Init /\ [][Next]_vars
=============================================================================
