------------------------------ MODULE MCOutbox ------------------------------
(***************************************************************************)
(* Two workers and two rows; batches of one row make the workers compete   *)
(* for the older row.  A lease of one tick can run out before, during and  *)
(* after every call of the worker that holds it.                           *)
(***************************************************************************)
EXTENDS Outbox
MCMessages == 1 .. 2
=============================================================================
