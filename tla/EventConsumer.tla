---------------------------- MODULE EventConsumer ----------------------------
(***************************************************************************)
(* The idempotent consumer of src/src/events/idempotent-consumer.ts on top *)
(* of the event log, with updateAggregateEventCount as its handler.        *)
(*                                                                         *)
(* Committed events reach a consumer any number of times and in any order: *)
(* the outbox delivers at least once, a failed message is retried after    *)
(* later ones, and rows of one transaction are ordered by a random id.     *)
(***************************************************************************)
EXTENDS EventLog, FiniteSetsExt

CONSTANTS
  Consumers,    \* consumer names
  Deliveries    \* calls of process that may run at the same time

VARIABLES
  receipts,     \* consumer_receipts, by consumer
  call,         \* the transaction each delivery has open
  counts,       \* aggregate_event_counts: event_count and last_sequence
  handled       \* how many times each event's handler has committed

consumerVars == <<receipts, call, counts, handled>>
vars == <<logVars, consumerVars>>

NoCall == [consumer |-> None, event |-> None]

\* No row yet is last_sequence 0: sequences start at 1.
NoCount == [count |-> 0, last |-> 0]

Keys == Commands \X (1 .. MaxEvents)
Key(e) == <<e.command, e.index>>

Init ==
  /\ LogInit
  /\ receipts = [c \in Consumers |-> {}]
  /\ call = [d \in Deliveries |-> NoCall]
  /\ counts = [c \in Consumers |-> [a \in Aggregates |-> NoCount]]
  /\ handled = [c \in Consumers |-> [k \in Keys |-> 0]]

-----------------------------------------------------------------------------
\* The receipt's key is not being inserted by another open transaction: the
\* INSERT waits for that transaction to end.
ReceiptFree(c, e) ==
  \A d \in Deliveries :
    call[d] # NoCall => call[d].consumer # c \/ Key(call[d].event) # Key(e)

\* INSERT INTO consumer_receipts succeeds and the handler may run.
Accept(d, c, e) ==
  /\ call[d] = NoCall
  /\ e \in events
  /\ ReceiptFree(c, e)
  /\ Key(e) \notin receipts[c]
  /\ call' = [call EXCEPT ![d] = [consumer |-> c, event |-> e]]
  /\ UNCHANGED <<receipts, counts, handled>>

\* updateAggregateEventCount: insert the row, or update it if the event is
\* newer than the last one counted.
Count(row, e) ==
  IF e.sequence > row.last
    THEN [count |-> row.count + 1, last |-> e.sequence]
    ELSE row

\* The handler runs and the transaction commits the receipt with its effect.
\* The upsert locks the count's row to the end, so it reads what it replaces.
Process(d) ==
  LET c == call[d].consumer
      e == call[d].event
  IN  /\ call[d] # NoCall
      /\ receipts' = [receipts EXCEPT ![c] = @ \cup {Key(e)}]
      /\ counts' = [counts EXCEPT ![c][e.aggregate] = Count(@, e)]
      /\ handled' = [handled EXCEPT ![c][Key(e)] = @ + 1]
      /\ call' = [call EXCEPT ![d] = NoCall]

\* Fault: the receipt outlives a handler that fails.
FailKeepsReceipt(d) ==
  /\ call[d] # NoCall
  /\ receipts' = [receipts EXCEPT ![call[d].consumer] = @ \cup {Key(call[d].event)}]
  /\ call' = [call EXCEPT ![d] = NoCall]
  /\ UNCHANGED <<counts, handled>>

\* The handler throws, or the consumer stops: the receipt is rolled back.
Fail(d) ==
  /\ call[d] # NoCall
  /\ call' = [call EXCEPT ![d] = NoCall]
  /\ UNCHANGED <<receipts, counts, handled>>

\* A delivery of an event with a receipt returns DUPLICATE and changes nothing.

ConsumerNext ==
  \/ \E d \in Deliveries, c \in Consumers, e \in events : Accept(d, c, e)
  \/ \E d \in Deliveries : Process(d) \/ Fail(d)

Next ==
  \/ LogNext /\ UNCHANGED consumerVars
  \/ ConsumerNext /\ UNCHANGED logVars

Spec == Init /\ [][Next]_vars

-----------------------------------------------------------------------------
ConsumerTypeOK ==
  /\ receipts \in [Consumers -> SUBSET Keys]
  /\ call \in [Deliveries ->
                [consumer : Consumers, event : Event] \cup {NoCall}]
  /\ counts \in [Consumers -> [Aggregates -> [count : Nat, last : Nat]]]
  /\ handled \in [Consumers -> [Keys -> Nat]]

TypeOK == LogTypeOK /\ ConsumerTypeOK

Receipted(c, a) == {e \in Of(a) : Key(e) \in receipts[c]}

(* Exactly one effect per consumer and event: the handler has committed once *)
(* for an event with a receipt and never for one without, under duplicate    *)
(* and simultaneous deliveries and failing handlers.                         *)
EffectOnce ==
  \A c \in Consumers, k \in Keys :
    handled[c][k] = IF k \in receipts[c] THEN 1 ELSE 0

(* The projection never runs ahead of what was received: last_sequence is    *)
(* the newest received sequence and event_count is at most the number of     *)
(* events received and at most last_sequence.                                *)
CountsBounded ==
  \A c \in Consumers, a \in Aggregates :
    LET got == {e.sequence : e \in Receipted(c, a)}
        row == counts[c][a]
    IN  /\ row.last = IF got = {} THEN 0 ELSE Max(got)
        /\ row.count <= Cardinality(got)
        /\ (got # {}) => row.count >= 1

(* The effect of every event that has a receipt is in the projection.        *)
EveryReceiptCounted ==
  \A c \in Consumers, a \in Aggregates :
    counts[c][a].count = Cardinality(Receipted(c, a))
=============================================================================
