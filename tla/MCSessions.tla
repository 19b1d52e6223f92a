----------------------------- MODULE MCSessions -----------------------------
(***************************************************************************)
(* One identity that may have two active sessions and is issued three.     *)
(* Activation stands for moderation too: it asks for more.  A session may  *)
(* live longer than its authentication is recent.                          *)
(***************************************************************************)
EXTENDS Sessions, TLC

MCAges == {-1, 0, 1, 2}

MCAsked ==
  [operation : {"activate_score_policy"}, key : Keys, request : Contents]
  \cup [operation : {"revoke_session"}, key : Keys, request : {1, 2}]

MCSymmetry == Permutations(Calls)
=============================================================================
