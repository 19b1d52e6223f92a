---------------------------- MODULE ReportLedger ----------------------------
(***************************************************************************)
(* What a reader of the audit reports is promised: a report is published   *)
(* once, as a whole, with all its findings, and its summary (the number of *)
(* findings of each severity and the overall risk) is that of the findings *)
(* published with it.  It does not change.                                 *)
(***************************************************************************)
EXTENDS Integers, FiniteSets

CONSTANT Scale   \* the severities, from the lightest to the gravest

VARIABLE ledger

Init == ledger = {}

Sound(report) ==
  /\ \A i \in DOMAIN Scale :
       report.counts[i] = Cardinality({f \in report.findings : f.severity = Scale[i]})
  /\ \A i \in DOMAIN Scale :
       Scale[i] = report.risk =>
         /\ \A j \in DOMAIN Scale : j > i => report.counts[j] = 0
         /\ i > 1 => report.counts[i] > 0

Publish(report) ==
  /\ Sound(report)
  /\ \A r \in ledger : r.id # report.id
  /\ ledger' = ledger \cup {report}

Next == \E report \in ledger' : Publish(report)

Spec == Init /\ [][Next]_ledger
=============================================================================
