---------------------------- MODULE MCCollection ----------------------------
(***************************************************************************)
(* Two sources, a range of two blocks, and answers that differ in a field, *)
(* in a transaction, in having one, or that share one with another block.  *)
(***************************************************************************)
EXTENDS Collection, TLC

CONSTANTS s1, s2, h

Fields(v) == [f \in {"blockHash"} |-> v]

Tx(x, v) == [hash |-> x, fields |-> [f \in {"result"} |-> v]]

Raw(n, v, txs) == [number |-> n, fields |-> Fields(v), txs |-> txs]

\* s2 may answer with block 1 when it is asked for another.
MCAnswer(s, n) ==
  IF n = 1
  THEN {Raw(1, 0, {Tx(h, 0), Tx(None, 0)}), Raw(1, 0, {Tx(h, 1)}), Raw(1, 1, {Tx(h, 0)})}
  ELSE {Raw(2, 0, {Tx(h, 0)}), IF s = s2 THEN Raw(1, 0, {}) ELSE Raw(2, 0, {})}

MCRanges == {<<1, 2>>}

MCBlockFields == {"blockHash"}

MCTxFields == {"result"}
=============================================================================
