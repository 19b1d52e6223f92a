------------------------------ MODULE EventLog ------------------------------
(***************************************************************************)
(* The event store of src/src/events/event-store.ts: a command appends its *)
(* events to the stream of one aggregate, in one transaction with the      *)
(* mutation of the aggregate's state and one outbox row per event, and     *)
(* only if the stream still has the length the command expects.            *)
(*                                                                         *)
(* A command carries its event identifiers, so the same command may be     *)
(* run again, later or at the same time, by a caller that does not know    *)
(* how the first run ended.  The table's unique constraints on event_id    *)
(* and on (aggregate, sequence) are not guards here: the invariants below  *)
(* show that the comparison of sequences alone keeps them.                 *)
(***************************************************************************)
EXTENDS Integers

CONSTANTS
  Aggregates,   \* (aggregate_type, aggregate_id) pairs
  Commands,     \* prepared commands
  Writers,      \* database connections
  MaxEvents,    \* the most events one command appends
  None          \* no command, or no lock holder

ASSUME CommandsAssumption == None \notin Commands
ASSUME WritersAssumption == None \notin Writers
ASSUME MaxEventsAssumption == MaxEvents \in Nat \ {0}

VARIABLES
  command,   \* what each command asks for, once it is prepared
  stream,    \* aggregate_streams.current_sequence
  events,    \* domain_events
  outbox,    \* the event each row of outbox_messages refers to
  writer,    \* the transaction each connection has open
  lock       \* the writer that has updated each aggregate's stream row

logVars == <<command, stream, events, outbox, writer, lock>>

Unprepared == [aggregate |-> None, expected |-> 0, size |-> 0]

Prepared == [aggregate : Aggregates, expected : Nat, size : 1 .. MaxEvents]

Event == [command : Commands, index : 1 .. MaxEvents,
          aggregate : Aggregates, sequence : Nat]

\* written holds the events inserted and not yet committed, count how many.
Transaction == [command : Commands \cup {None}, written : SUBSET Event, count : 0 .. MaxEvents]

NoTx == [command |-> None, written |-> {}, count |-> 0]

LogInit ==
  /\ command = [c \in Commands |-> Unprepared]
  /\ stream = [a \in Aggregates |-> 0]
  /\ events = {}
  /\ outbox = {}
  /\ writer = [w \in Writers |-> NoTx]
  /\ lock = [a \in Aggregates |-> None]

-----------------------------------------------------------------------------
\* The caller reads the aggregate's version and builds the command on it.
Prepare(c) ==
  /\ command[c] = Unprepared
  /\ \E a \in Aggregates, n \in 1 .. MaxEvents :
       command' = [command EXCEPT ![c] =
                     [aggregate |-> a, expected |-> stream[a], size |-> n]]
  /\ UNCHANGED <<stream, events, outbox, writer, lock>>

\* transact, transactMany, transactPrepared: BEGIN and mutateState.
Begin(w, c) ==
  /\ writer[w] = NoTx
  /\ command[c] # Unprepared
  /\ writer' = [writer EXCEPT ![w] = [NoTx EXCEPT !.command = c]]
  /\ UNCHANGED <<command, stream, events, outbox, lock>>

\* Fault: the sequence is not compared, as with an unconditional UPDATE.
ExpectedAny(w) == TRUE

\* current_sequence = expectedSequence.  The n-th event of a command expects n - 1
\* more than the first, and the transaction sees its own n - 1 increments.
Expected(w) ==
  LET cmd == command[writer[w].command]
  IN  stream[cmd.aggregate] = cmd.expected

\* transactMany and appendMany go through the list of commands.
More(w) == writer[w].count < command[writer[w].command].size

\* The i-th event of command c.
EventOf(c, i) ==
  [command |-> c, index |-> i, aggregate |-> command[c].aggregate,
   sequence |-> stream[command[c].aggregate] + i]

\* append: advance the stream, which locks its row until the transaction ends,
\* insert the event and its outbox row.  A second writer waits for the lock.
AppendNext(w) ==
  LET tx == writer[w]
      a == command[tx.command].aggregate
  IN  /\ tx # NoTx /\ More(w)
      /\ lock[a] \in {None, w}
      /\ Expected(w)
      /\ lock' = [lock EXCEPT ![a] = w]
      /\ writer' = [writer EXCEPT ![w] =
                      [tx EXCEPT !.written = tx.written \cup {EventOf(tx.command, tx.count + 1)},
                                 !.count = tx.count + 1]]
      /\ UNCHANGED <<command, stream, events, outbox>>

\* A transaction ends: its locks are released.
End(w) ==
  /\ writer' = [writer EXCEPT ![w] = NoTx]
  /\ lock' = [a \in Aggregates |-> IF lock[a] = w THEN None ELSE lock[a]]
  /\ UNCHANGED command

\* Fault: the stream advances by one however many events were appended.
AdvanceByOne(w) ==
  [stream EXCEPT ![command[writer[w].command].aggregate] = @ + 1]

Advance(w) ==
  [stream EXCEPT ![command[writer[w].command].aggregate] =
     @ + writer[w].count]

\* Everything the transaction wrote becomes visible together.
Commit(w) ==
  LET tx == writer[w]
  IN  /\ tx # NoTx /\ ~More(w)
      /\ stream' = Advance(w)
      /\ events' = events \cup tx.written
      /\ outbox' = outbox \cup {<<e.command, e.index>> : e \in tx.written}
      /\ End(w)

\* EventConcurrencyError: the stream has moved on, everything is rolled back.
Conflict(w) ==
  /\ writer[w] # NoTx
  /\ lock[command[writer[w].command].aggregate] \in {None, w}
  /\ More(w)
  /\ ~Expected(w)
  /\ End(w)
  /\ UNCHANGED <<stream, events, outbox>>

\* mutateState throws, a later append fails, or the connection is lost.
Abort(w) ==
  /\ writer[w] # NoTx
  /\ End(w)
  /\ UNCHANGED <<stream, events, outbox>>

LogNext ==
  \/ \E c \in Commands : Prepare(c)
  \/ \E w \in Writers, c \in Commands : Begin(w, c)
  \/ \E w \in Writers : AppendNext(w) \/ Commit(w) \/ Conflict(w) \/ Abort(w)

LogSpec == LogInit /\ [][LogNext]_logVars

-----------------------------------------------------------------------------
LogTypeOK ==
  /\ command \in [Commands -> Prepared \cup {Unprepared}]
  /\ stream \in [Aggregates -> Nat]
  /\ events \subseteq Event
  /\ outbox \subseteq Commands \X (1 .. MaxEvents)
  /\ writer \in [Writers -> Transaction]
  /\ lock \in [Aggregates -> Writers \cup {None}]

\* The events of an aggregate.
Of(a) == {e \in events : e.aggregate = a}

(* Strict order per aggregate: the committed events of an aggregate carry    *)
(* each sequence number from 1 to its stream's length exactly once, whatever *)
(* transactions raced or were rolled back (event-store.ts append).           *)
GapFree ==
  \A a \in Aggregates :
    /\ {e.sequence : e \in Of(a)} = 1 .. stream[a]
    /\ \A d, e \in Of(a) : d.sequence = e.sequence => d = e

(* A command takes effect once or not at all: its events are all in the log, *)
(* one after another from the sequence it expected, each with one outbox     *)
(* row, or none is.  Running a command twice, or two commands prepared on    *)
(* the same version, never adds a second effect.                             *)
CommandAtomic ==
  \A c \in Commands :
    LET mine == {e \in events : e.command = c}
    IN  \/ mine = {} /\ \A i \in 1 .. MaxEvents : <<c, i>> \notin outbox
        \/ /\ mine = {[command |-> c, index |-> i, aggregate |-> command[c].aggregate,
                       sequence |-> command[c].expected + i] : i \in 1 .. command[c].size}
           /\ \A i \in 1 .. MaxEvents : <<c, i>> \in outbox <=> i <= command[c].size

\* The log seen as optimistic acceptance of whole commands.
Accepted == {e.command : e \in events}

Acceptance == INSTANCE OptimisticLog WITH
                Sizes <- 1 .. MaxEvents,
                size <- stream, accepted <- Accepted, request <- command

(* The store accepts each command whole or not at all.                       *)
AcceptanceSpec == Acceptance!Spec
=============================================================================
