--------------------------- MODULE CrossValidation ---------------------------
(***************************************************************************)
(* Comparison of what several sources say of one block                     *)
(* (src/src/blockchain/cross-validator.ts).                                *)
(*                                                                         *)
(* An observation is the block one source has given: its fields and its    *)
(* transactions, whose hashes differ.  `seen' is a function from sources to*)
(* observations, `order' the sources in the order of collection.           *)
(***************************************************************************)
EXTENDS Naturals, Sequences, FiniteSets

CONSTANTS
  BlockFields,   \* BLOCK_COMPARE_FIELDS
  TxFields       \* TX_COMPARE_FIELDS

First(positions) == CHOOSE k \in positions : \A j \in positions : k <= j

\* compareField: every value is compared with the first one.
Differs(value) ==
  \E k \in DOMAIN value : value[k] # value[First(DOMAIN value)]

\* compareBlocks.
BlockDiscrepancies(seen, order) ==
  {f \in BlockFields : Differs([k \in DOMAIN order |-> seen[order[k]].fields[f]])}

HashesIn(block) == {t.hash : t \in block.txs}

Transaction(block, h) == CHOOSE t \in block.txs : t.hash = h

Hashes(seen) == UNION {HashesIn(seen[s]) : s \in DOMAIN seen}

\* Fault: the first source is taken to have all there is.
MissingOfFirst(seen, order) ==
  {h \in HashesIn(seen[order[1]]) : \E s \in DOMAIN seen : h \notin HashesIn(seen[s])}

\* compareTransactions: in one source and not in another.
MissingTransactions(seen, order) ==
  {h \in Hashes(seen) : \E s \in DOMAIN seen : h \notin HashesIn(seen[s])}

Having(seen, order, h) == {k \in DOMAIN order : h \in HashesIn(seen[order[k]])}

\* compareTransactions: sources that have a transaction disagree about it.
TransactionDiscrepancies(seen, order) ==
  {h \in Hashes(seen) : \E f \in TxFields :
     Differs([k \in Having(seen, order, h) |-> Transaction(seen[order[k]], h).fields[f]])}

\* crossValidateBlock.
Verdict(seen, order) ==
  IF Len(order) < 2 THEN "INSUFFICIENT_SOURCES"
  ELSE IF /\ BlockDiscrepancies(seen, order) = {}
          /\ TransactionDiscrepancies(seen, order) = {}
          /\ MissingTransactions(seen, order) = {}
  THEN "CONSISTENT" ELSE "DISCREPANCY"
=============================================================================
