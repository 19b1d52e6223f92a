---------------------------- MODULE MCSupports ----------------------------
(***************************************************************************)
(* One proposal, two subjects, two servers, two calls at a time.  The key  *)
(* "old" is joined and then replaced by "new"; "forged" is other material  *)
(* under the id of "old".                                                  *)
(***************************************************************************)
EXTENDS Supports, TLC

MCKeys == {"old", "new", "forged"}
MCKeyIds == {"v1", "v2"}
MCKeyId == [k \in MCKeys |-> IF k = "new" THEN "v2" ELSE "v1"]
MCKeyrings == {<<"old">>, <<"new", "old">>, <<"new">>, <<"forged">>}

\* All servers stop and start with the same keyring ...
MCTogether == {Servers}
\* ... or one after another.
MCRolling == {{v} : v \in Servers}

MCRollingKeyrings == {<<"old">>, <<"new", "old">>}

MCSymmetry == Permutations(Subjects) \cup Permutations(Calls) \cup Permutations(Servers)
=============================================================================
