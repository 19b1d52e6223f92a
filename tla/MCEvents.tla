------------------------------ MODULE MCEvents ------------------------------
(***************************************************************************)
(* Two connections run three commands, of one or two events each, against  *)
(* one aggregate, so that stale, repeated and simultaneous runs meet; two  *)
(* deliveries race for one consumer.                                       *)
(***************************************************************************)
EXTENDS EventConsumer, TLC
MCSymmetry == Permutations(Commands) \cup Permutations(Writers) \cup Permutations(Deliveries)
=============================================================================
