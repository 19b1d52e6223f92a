--------------------------- MODULE Events_proofs ---------------------------
(***************************************************************************)
(* Proofs about the event log and its consumers, for any number of         *)
(* aggregates, commands, connections and deliveries.                       *)
(***************************************************************************)
EXTENDS EventConsumer, Outbox, TLAPS

\* The events command c writes once it is accepted.
Promised(c, i) ==
  [command |-> c, index |-> i, aggregate |-> command[c].aggregate,
   sequence |-> command[c].expected + i]

(* A transaction that has appended runs a prepared command, holds the lock   *)
(* of its stream, and the stream is as long as the command expects.          *)
OpenTransactions ==
  \A w \in Writers : writer[w] # NoTx =>
    LET c == writer[w].command
    IN  /\ c \in Commands /\ command[c] # Unprepared
        /\ writer[w].count <= command[c].size
        /\ writer[w].written = {Promised(c, i) : i \in 1 .. writer[w].count}
        /\ writer[w].count > 0 => /\ lock[command[c].aggregate] = w
                                  /\ stream[command[c].aggregate] = command[c].expected

(* The events of a command are in the log as promised, or none is, and its   *)
(* stream has grown past them.                                               *)
Outcome(c) ==
  \/ /\ \A e \in events : e.command # c
     /\ \A i \in 1 .. MaxEvents : <<c, i>> \notin outbox
  \/ /\ command[c] # Unprepared
     /\ {e \in events : e.command = c} = {Promised(c, i) : i \in 1 .. command[c].size}
     /\ \A i \in 1 .. MaxEvents : <<c, i>> \in outbox <=> i <= command[c].size
     /\ stream[command[c].aggregate] >= command[c].expected + command[c].size

Outcomes == \A c \in Commands : Outcome(c)

LogInv == LogTypeOK /\ OpenTransactions /\ Outcomes /\ GapFree

-----------------------------------------------------------------------------
\* A prepared command can be told from the others.
LEMMA PreparedFields ==
  ASSUME LogTypeOK, NEW c \in Commands, command[c] # Unprepared
  PROVE  /\ command[c] \in Prepared
         /\ command[c].aggregate \in Aggregates
         /\ command[c].expected \in Nat
         /\ command[c].size \in 1 .. MaxEvents
BY DEF LogTypeOK, Prepared

LEMMA NoTxType ==
  NoTx \in Transaction /\ \A c \in Commands : [NoTx EXCEPT !.command = c] \in Transaction
BY MaxEventsAssumption DEF NoTx, Transaction

LEMMA WriteType ==
  ASSUME NEW row \in Transaction, NEW more \in SUBSET Event, NEW n \in 0 .. MaxEvents
  PROVE  /\ [row EXCEPT !.written = more, !.count = n] \in Transaction
         /\ [row EXCEPT !.written = more, !.count = n].command = row.command
         /\ [row EXCEPT !.written = more, !.count = n].written = more
         /\ [row EXCEPT !.written = more, !.count = n].count = n
BY DEF Transaction

LEMMA LogInitInv == LogInit => LogInv
<1> SUFFICES ASSUME LogInit PROVE LogInv
  OBVIOUS
<1> USE DEF LogInit
<1>1. LogTypeOK
  BY NoTxType DEF LogTypeOK
<1>2. OpenTransactions
  BY DEF OpenTransactions
<1>3. Outcomes
  BY DEF Outcomes, Outcome
<1>4. GapFree
  <2>1. \A a \in Aggregates : Of(a) = {}
    BY DEF Of
  <2>2. \A a \in Aggregates : stream[a] = 0
    OBVIOUS
  <2>3. 1 .. 0 = {}
    OBVIOUS
  <2> QED
    BY <2>1, <2>2, <2>3 DEF GapFree
<1> QED
  BY <1>1, <1>2, <1>3, <1>4 DEF LogInv

\* Steps that only end or begin transactions, with the log unchanged.
LEMMA SameLog ==
  ASSUME LogInv, UNCHANGED <<command, stream, events, outbox>>
  PROVE  Outcomes' /\ GapFree'
BY DEF LogInv, Outcomes, Outcome, GapFree, Of, Promised

\* Ending a transaction without committing it.
LEMMA EndKeeps ==
  ASSUME LogInv, NEW w \in Writers, End(w), UNCHANGED <<stream, events, outbox>>
  PROVE  LogInv'
<1>1. LogTypeOK'
  BY NoTxType DEF LogInv, LogTypeOK, End
<1>2. OpenTransactions'
  <2>1. writer'[w] = NoTx
    BY DEF LogInv, LogTypeOK, End
  <2>2. \A v \in Writers \ {w} : writer'[v] = writer[v]
    BY DEF LogInv, LogTypeOK, End
  <2>3. \A a \in Aggregates, v \in Writers \ {w} : lock[a] = v => lock'[a] = v
    BY DEF End
  <2>4. command' = command
    BY DEF End
  <2>5. \A v \in Writers : \A i : Promised(writer[v].command, i)' = Promised(writer'[v].command, i)
    BY <2>4 DEF Promised
  <2> QED
    BY <2>1, <2>2, <2>3, <2>4, PreparedFields DEF LogInv, OpenTransactions, Promised
<1>3. Outcomes' /\ GapFree'
  BY SameLog DEF End
<1> QED
  BY <1>1, <1>2, <1>3 DEF LogInv

LEMMA PrepareKeeps ==
  ASSUME LogInv, NEW c \in Commands, Prepare(c)
  PROVE  LogInv'
<1>1. PICK a \in Aggregates, n \in 1 .. MaxEvents :
        command' = [command EXCEPT ![c] =
                      [aggregate |-> a, expected |-> stream[a], size |-> n]]
  BY DEF Prepare
<1>2. command[c] = Unprepared /\ UNCHANGED <<stream, events, outbox, writer, lock>>
  BY DEF Prepare
<1>3. \A d \in Commands \ {c} : command'[d] = command[d]
  BY <1>1 DEF LogInv, LogTypeOK
<1>4. LogTypeOK'
  BY <1>1, <1>2 DEF LogInv, LogTypeOK, Prepared
<1>5. \A w \in Writers : writer[w] # NoTx => writer[w].command # c
  BY <1>2 DEF LogInv, OpenTransactions
<1>6. OpenTransactions'
  BY <1>2, <1>3, <1>5 DEF LogInv, OpenTransactions, Promised
<1>7. Outcomes'
  <2>1. Outcome(c) /\ \A d \in Commands \ {c} : Outcome(d)
    BY DEF LogInv, Outcomes
  <2>2. Outcome(c)'
    BY <1>2, <2>1 DEF Outcome
  <2>3. \A d \in Commands \ {c} : Outcome(d)'
    BY <1>2, <1>3, <2>1 DEF Outcome, Promised
  <2> QED
    BY <2>2, <2>3 DEF Outcomes
<1>8. GapFree'
  BY <1>2 DEF LogInv, GapFree, Of
<1> QED
  BY <1>4, <1>6, <1>7, <1>8 DEF LogInv

LEMMA BeginKeeps ==
  ASSUME LogInv, NEW w \in Writers, NEW c \in Commands, Begin(w, c)
  PROVE  LogInv'
<1> DEFINE new == [NoTx EXCEPT !.command = c]
<1>1. new.command = c /\ new.written = {} /\ new.count = 0
  BY DEF NoTx
<1>2. new \in Transaction
  BY NoTxType
<1>3. writer' = [writer EXCEPT ![w] = new] /\ command[c] # Unprepared
  BY DEF Begin
<1>4. UNCHANGED <<command, stream, events, outbox, lock>>
  BY DEF Begin
<1>5. LogTypeOK'
  BY <1>2, <1>3, <1>4 DEF LogInv, LogTypeOK
<1>6. writer'[w] = new /\ \A v \in Writers \ {w} : writer'[v] = writer[v]
  BY <1>3 DEF LogInv, LogTypeOK
<1>7. OpenTransactions'
  <2>1. command[c].size \in 1 .. MaxEvents
    BY <1>3, PreparedFields DEF LogInv
  <2>2. 0 <= command[c].size /\ {Promised(c, i) : i \in 1 .. 0} = {}
    BY <2>1
  <2> QED
    BY <1>1, <1>3, <1>4, <1>6, <2>2 DEF LogInv, OpenTransactions, Promised
<1>8. Outcomes' /\ GapFree'
  BY <1>4, SameLog
<1> QED
  BY <1>5, <1>7, <1>8 DEF LogInv

LEMMA AppendKeeps ==
  ASSUME LogInv, NEW w \in Writers, AppendNext(w)
  PROVE  LogInv'
<1> DEFINE c == writer[w].command
           n == writer[w].count
           a == command[c].aggregate
           event == EventOf(c, n + 1)
           new == [writer[w] EXCEPT !.written = writer[w].written \cup {event}, !.count = n + 1]
<1>1. /\ writer[w] # NoTx /\ n < command[c].size
      /\ lock[a] \in {None, w}
      /\ stream[a] = command[c].expected
      /\ lock' = [lock EXCEPT ![a] = w]
      /\ writer' = [writer EXCEPT ![w] = new]
      /\ UNCHANGED <<command, stream, events, outbox>>
  BY DEF AppendNext, More, Expected
<1>2. /\ c \in Commands /\ command[c] # Unprepared
      /\ writer[w].written = {Promised(c, i) : i \in 1 .. n}
  BY <1>1 DEF LogInv, OpenTransactions
<1>3. a \in Aggregates /\ command[c].expected \in Nat /\ command[c].size \in 1 .. MaxEvents
  BY <1>2, PreparedFields DEF LogInv
<1>4. n \in 0 .. MaxEvents /\ n + 1 \in 1 .. MaxEvents /\ n + 1 \in 0 .. MaxEvents
  BY <1>1, <1>3, MaxEventsAssumption DEF LogInv, LogTypeOK, Transaction
<1>5. event = Promised(c, n + 1) /\ event \in Event
  BY <1>1, <1>2, <1>3, <1>4 DEF EventOf, Promised, Event
<1>6. writer[w] \in Transaction /\ writer[w].written \cup {event} \in SUBSET Event
  BY <1>5 DEF LogInv, LogTypeOK, Transaction
<1>7. /\ new \in Transaction /\ new.command = c /\ new.count = n + 1
      /\ new.written = writer[w].written \cup {event}
  <2>1. n + 1 \in 0 .. MaxEvents
    BY <1>4
  <2>2. \A more \in SUBSET Event, k \in 0 .. MaxEvents :
          /\ [writer[w] EXCEPT !.written = more, !.count = k] \in Transaction
          /\ [writer[w] EXCEPT !.written = more, !.count = k].command = c
          /\ [writer[w] EXCEPT !.written = more, !.count = k].written = more
          /\ [writer[w] EXCEPT !.written = more, !.count = k].count = k
    BY <1>6, WriteType
  <2> QED
    BY <1>6, <2>1, <2>2
<1>8. LogTypeOK'
  BY <1>1, <1>3, <1>7 DEF LogInv, LogTypeOK
<1>9. writer'[w] = new /\ \A v \in Writers \ {w} : writer'[v] = writer[v]
  BY <1>1 DEF LogInv, LogTypeOK
<1>10. new.written = {Promised(c, i) : i \in 1 .. n + 1}
  BY <1>2, <1>4, <1>5, <1>7
<1>11. lock'[a] = w /\ \A b \in Aggregates \ {a} : lock'[b] = lock[b]
  BY <1>1, <1>3 DEF LogInv, LogTypeOK
<1>12. OpenTransactions'
  <2> SUFFICES ASSUME NEW v \in Writers, writer'[v] # NoTx
               PROVE  LET d == writer'[v].command
                      IN  /\ d \in Commands /\ command[d] # Unprepared
                          /\ writer'[v].count <= command[d].size
                          /\ writer'[v].written = {Promised(d, i) : i \in 1 .. writer'[v].count}
                          /\ writer'[v].count > 0 =>
                               /\ lock'[command[d].aggregate] = v
                               /\ stream[command[d].aggregate] = command[d].expected
    BY <1>1 DEF OpenTransactions, Promised
  <2>1. CASE v = w
    BY <1>1, <1>2, <1>3, <1>4, <1>7, <1>9, <1>10, <1>11, <2>1
  <2>2. CASE v # w
    <3>1. writer[v] = writer'[v] /\ writer[v] # NoTx
      BY <1>9, <2>2
    <3>2. /\ writer[v].command \in Commands /\ command[writer[v].command] # Unprepared
          /\ writer[v].count <= command[writer[v].command].size
          /\ writer[v].written = {Promised(writer[v].command, i) : i \in 1 .. writer[v].count}
          /\ writer[v].count > 0 =>
               /\ lock[command[writer[v].command].aggregate] = v
               /\ stream[command[writer[v].command].aggregate] = command[writer[v].command].expected
      BY <3>1 DEF LogInv, OpenTransactions
    <3>3. command[writer[v].command].aggregate \in Aggregates
      BY <3>2, PreparedFields DEF LogInv
    <3>4. writer[v].count > 0 => command[writer[v].command].aggregate # a
      BY <1>1, <2>2, <3>2, WritersAssumption
    <3> QED
      BY <1>11, <3>1, <3>2, <3>3, <3>4
  <2> QED
    BY <2>1, <2>2
<1>13. Outcomes' /\ GapFree'
  BY <1>1, SameLog
<1> QED
  BY <1>8, <1>12, <1>13 DEF LogInv

LEMMA CommitKeeps ==
  ASSUME LogInv, NEW w \in Writers, Commit(w)
  PROVE  /\ LogInv'
         /\ LET c == writer[w].command
            IN  /\ c \in Commands /\ command[c] # Unprepared /\ c \notin Accepted
                /\ stream[command[c].aggregate] = command[c].expected
                /\ stream' = [stream EXCEPT ![command[c].aggregate] = @ + command[c].size]
                /\ Accepted' = Accepted \cup {c}
                /\ UNCHANGED command
<1>0. PICK c \in Commands : c = writer[w].command
  BY DEF Commit, LogInv, OpenTransactions
<1> DEFINE a == command[c].aggregate
           size == command[c].size
           base == command[c].expected
           new == writer[w].written
<1>1. writer[w] # NoTx /\ ~(writer[w].count < size)
  BY <1>0 DEF Commit, More
<1>2. /\ c \in Commands /\ command[c] # Unprepared
      /\ writer[w].count <= size
      /\ new = {Promised(c, i) : i \in 1 .. writer[w].count}
      /\ writer[w].count > 0 => lock[a] = w /\ stream[a] = base
  BY <1>0, <1>1 DEF LogInv, OpenTransactions
<1>3. a \in Aggregates /\ base \in Nat /\ size \in 1 .. MaxEvents
  BY <1>2, PreparedFields DEF LogInv
<1>4. writer[w].count = size /\ size > 0
  BY <1>1, <1>2, <1>3, MaxEventsAssumption DEF LogInv, LogTypeOK, Transaction
<1>5. /\ stream[a] = base /\ lock[a] = w
      /\ new = {Promised(c, i) : i \in 1 .. size}
  BY <1>2, <1>4
<1>6. /\ stream' = [stream EXCEPT ![a] = @ + size]
      /\ events' = events \cup new
      /\ outbox' = outbox \cup {<<e.command, e.index>> : e \in new}
      /\ End(w) /\ UNCHANGED command
  BY <1>0, <1>4 DEF Commit, Advance, End
<1>7. \A e \in new : /\ e \in Event /\ e.command = c /\ e.aggregate = a
                     /\ e.index \in 1 .. size /\ e.sequence = base + e.index
  BY <1>2, <1>3, <1>5, MaxEventsAssumption DEF Promised, Event
<1>8. Accepted' = Accepted \cup {c}
  <2>1. Promised(c, 1) \in new
    BY <1>3, <1>5
  <2>2. Promised(c, 1).command = c
    BY DEF Promised
  <2> QED
    BY <1>6, <1>7, <2>1, <2>2 DEF Accepted
<1>9. c \notin Accepted /\ \A e \in events : e.command # c
  <2>1. Outcome(c)
    BY <1>2 DEF LogInv, Outcomes
  <2>2. stream[a] < base + size
    BY <1>3, <1>5
  <2>3. \A e \in events : e.command # c
    BY <2>1, <2>2, <1>3, <1>5 DEF Outcome
  <2> QED
    BY <2>3 DEF Accepted
<1>10. stream'[a] = base + size /\ \A b \in Aggregates \ {a} : stream'[b] = stream[b]
  BY <1>3, <1>5, <1>6 DEF LogInv, LogTypeOK
<1>11. LogTypeOK'
  <2>1. stream' \in [Aggregates -> Nat]
    BY <1>3, <1>6 DEF LogInv, LogTypeOK
  <2>2. events' \subseteq Event
    BY <1>6, <1>7 DEF LogInv, LogTypeOK
  <2>3. outbox' \subseteq Commands \X (1 .. MaxEvents)
    <3>1. \A e \in new : e.index \in 1 .. MaxEvents
      BY <1>7 DEF Event
    <3> QED
      BY <1>6, <1>7, <3>1 DEF LogInv, LogTypeOK
  <2>4. writer' \in [Writers -> Transaction] /\ lock' \in [Aggregates -> Writers \cup {None}]
    BY <1>6, NoTxType DEF End, LogInv, LogTypeOK
  <2> QED
    BY <1>6, <2>1, <2>2, <2>3, <2>4 DEF LogInv, LogTypeOK
<1>12. OpenTransactions'
  <2> SUFFICES ASSUME NEW v \in Writers, writer'[v] # NoTx
               PROVE  LET d == writer'[v].command
                      IN  /\ d \in Commands /\ command[d] # Unprepared
                          /\ writer'[v].count <= command[d].size
                          /\ writer'[v].written = {Promised(d, i) : i \in 1 .. writer'[v].count}
                          /\ writer'[v].count > 0 =>
                               /\ lock'[command[d].aggregate] = v
                               /\ stream'[command[d].aggregate] = command[d].expected
    BY <1>6 DEF OpenTransactions, Promised
  <2>1. writer'[w] = NoTx
    BY <1>6 DEF End, LogInv, LogTypeOK
  <2>2. v # w /\ writer'[v] = writer[v]
    BY <1>6, <2>1 DEF End, LogInv, LogTypeOK
  <2>3. /\ writer[v].command \in Commands /\ command[writer[v].command] # Unprepared
        /\ writer[v].count <= command[writer[v].command].size
        /\ writer[v].written = {Promised(writer[v].command, i) : i \in 1 .. writer[v].count}
        /\ writer[v].count > 0 =>
             /\ lock[command[writer[v].command].aggregate] = v
             /\ stream[command[writer[v].command].aggregate] = command[writer[v].command].expected
    BY <2>2 DEF LogInv, OpenTransactions
  <2>4. command[writer[v].command].aggregate \in Aggregates
    BY <2>3, PreparedFields DEF LogInv
  <2>5. writer[v].count > 0 => command[writer[v].command].aggregate # a
    BY <1>5, <2>2, <2>3
  <2>6. \A b \in Aggregates : lock[b] = v => lock'[b] = v
    BY <1>6, <2>2 DEF End
  <2> QED
    BY <1>10, <2>2, <2>3, <2>4, <2>5, <2>6
<1>13. Outcomes'
  <2>1. Outcome(c)'
    <3>1. {e \in events' : e.command = c} = new
      BY <1>6, <1>7, <1>9
    <3>2. \A i \in 1 .. MaxEvents : <<c, i>> \notin outbox
      BY <1>2, <1>3, <1>9, <1>5 DEF LogInv, Outcomes, Outcome
    <3>3. \A i \in 1 .. MaxEvents : <<c, i>> \in {<<e.command, e.index>> : e \in new} <=> i <= size
      <4>1. ASSUME NEW i \in 1 .. size PROVE <<c, i>> \in {<<e.command, e.index>> : e \in new}
        <5>1. Promised(c, i) \in new /\ Promised(c, i).command = c /\ Promised(c, i).index = i
          BY <1>5 DEF Promised
        <5> QED
          BY <5>1
      <4>2. ASSUME NEW i \in 1 .. MaxEvents, <<c, i>> \in {<<e.command, e.index>> : e \in new}
            PROVE  i <= size
        BY <4>2, <1>3, <1>7
      <4> QED
        BY <4>1, <4>2, <1>3
    <3>4. \A i \in 1 .. MaxEvents : <<c, i>> \in outbox' <=> i <= size
      BY <1>6, <3>2, <3>3
    <3>5. \A i : Promised(c, i)' = Promised(c, i)
      BY <1>6 DEF Promised
    <3>6. stream'[a] >= base + size
      BY <1>3, <1>10
    <3>7. {e \in events' : e.command = c} = {Promised(c, i)' : i \in 1 .. size}
      BY <1>5, <3>1, <3>5
    <3>8. command' = command
      BY <1>6
    <3> QED
      BY <1>2, <3>4, <3>6, <3>7, <3>8 DEF Outcome
  <2>2. ASSUME NEW d \in Commands, d # c PROVE Outcome(d)'
    <3>1. Outcome(d)
      BY DEF LogInv, Outcomes
    <3>2. {e \in events' : e.command = d} = {e \in events : e.command = d}
      BY <1>6, <1>7, <2>2
    <3>3. \A i : <<d, i>> \in outbox' <=> <<d, i>> \in outbox
      BY <1>6, <1>7, <2>2
    <3>4. \A b \in Aggregates : stream'[b] >= stream[b]
      BY <1>3, <1>5, <1>10 DEF LogInv, LogTypeOK
    <3>5. \A i : Promised(d, i)' = Promised(d, i)
      BY <1>6 DEF Promised
    <3>6. CASE (\A e \in events : e.command # d) /\ \A i \in 1 .. MaxEvents : <<d, i>> \notin outbox
      BY <3>2, <3>3, <3>6 DEF Outcome
    <3>7. CASE /\ command[d] # Unprepared
               /\ {e \in events : e.command = d} = {Promised(d, i) : i \in 1 .. command[d].size}
               /\ \A i \in 1 .. MaxEvents : <<d, i>> \in outbox <=> i <= command[d].size
               /\ stream[command[d].aggregate] >= command[d].expected + command[d].size
      <4>1. /\ command[d].aggregate \in Aggregates /\ command[d].expected \in Nat
            /\ command[d].size \in Nat
        BY <3>7, PreparedFields, MaxEventsAssumption DEF LogInv
      <4>2. stream'[command[d].aggregate] >= command[d].expected + command[d].size
        BY <3>4, <3>7, <4>1, <1>3, <1>10 DEF LogInv, LogTypeOK
      <4> QED
        BY <1>6, <3>2, <3>3, <3>5, <3>7, <4>2 DEF Outcome
    <3> QED
      BY <3>1, <3>6, <3>7 DEF Outcome
  <2> QED
    BY <2>1, <2>2 DEF Outcomes
<1>14. GapFree'
  <2> SUFFICES ASSUME NEW b \in Aggregates
               PROVE  /\ {e.sequence : e \in Of(b)'} = 1 .. stream'[b]
                      /\ \A d, e \in Of(b)' : d.sequence = e.sequence => d = e
    BY DEF GapFree
  <2>0. /\ {e.sequence : e \in Of(b)} = 1 .. stream[b]
        /\ \A d, e \in Of(b) : d.sequence = e.sequence => d = e
        /\ \A e \in Of(b) : e.sequence \in 1 .. stream[b]
    BY DEF LogInv, GapFree
  <2>1. CASE b # a
    <3>1. Of(b)' = Of(b)
      BY <1>6, <1>7, <2>1 DEF Of
    <3> QED
      BY <1>10, <2>0, <2>1, <3>1
  <2>2. CASE b = a
    <3>1. Of(b)' = Of(b) \cup new
      BY <1>6, <1>7, <2>2 DEF Of
    <3>2. \A e \in new : e.sequence \in base + 1 .. base + size
      BY <1>3, <1>7
    <3>3. {e.sequence : e \in new} = base + 1 .. base + size
      <4>1. ASSUME NEW n \in base + 1 .. base + size PROVE n \in {e.sequence : e \in new}
        <5>1. n - base \in 1 .. size /\ base + (n - base) = n
          BY <1>3
        <5>2. Promised(c, n - base) \in new
          BY <1>5, <5>1
        <5>3. Promised(c, n - base).sequence = n
          BY <5>1 DEF Promised
        <5> QED
          BY <5>2, <5>3
      <4> QED
        BY <3>2, <4>1
    <3>4. {e.sequence : e \in Of(b)'} = (1 .. base) \cup (base + 1 .. base + size)
      BY <1>5, <2>0, <2>2, <3>1, <3>3
    <3>5. (1 .. base) \cup (base + 1 .. base + size) = 1 .. (base + size)
      BY <1>3
    <3>6. \A d, e \in new : d.sequence = e.sequence => d = e
      <4>1. \A e \in new : e = Promised(c, e.index)
        BY <1>5 DEF Promised
      <4> QED
        BY <1>3, <1>7, <4>1
    <3>7. \A d \in Of(b), e \in new : d.sequence # e.sequence
      BY <1>3, <1>5, <2>0, <2>2, <3>2
    <3> QED
      BY <1>10, <2>0, <2>2, <3>1, <3>4, <3>5, <3>6, <3>7
  <2> QED
    BY <2>1, <2>2
<1> QED
  BY <1>0, <1>2, <1>5, <1>6, <1>8, <1>9, <1>11, <1>12, <1>13, <1>14 DEF LogInv

-----------------------------------------------------------------------------
\* Every step of a writer keeps the log's invariant.
LEMMA LogNextInv == LogInv /\ [LogNext]_logVars => LogInv'
<1> SUFFICES ASSUME LogInv, [LogNext]_logVars PROVE LogInv'
  OBVIOUS
<1>1. ASSUME NEW c \in Commands, Prepare(c) PROVE LogInv'
  BY <1>1, PrepareKeeps
<1>2. ASSUME NEW w \in Writers, NEW c \in Commands, Begin(w, c) PROVE LogInv'
  BY <1>2, BeginKeeps
<1>3. ASSUME NEW w \in Writers, AppendNext(w) PROVE LogInv'
  BY <1>3, AppendKeeps
<1>4. ASSUME NEW w \in Writers, Commit(w) PROVE LogInv'
  BY <1>4, CommitKeeps
<1>5. ASSUME NEW w \in Writers, Conflict(w) \/ Abort(w) PROVE LogInv'
  BY <1>5, EndKeeps DEF Conflict, Abort
<1>6. CASE UNCHANGED logVars
  <2>1. LogTypeOK' /\ OpenTransactions'
    BY <1>6 DEF logVars, LogInv, LogTypeOK, OpenTransactions, Promised
  <2> QED
    BY <1>6, <2>1, SameLog DEF logVars, LogInv
<1> QED
  BY <1>1, <1>2, <1>3, <1>4, <1>5, <1>6 DEF LogNext

\* Every step of the composition is a step of the log or leaves it alone.
LEMMA NextLog == [Next]_vars => [LogNext]_logVars
BY DEF Next, vars

LEMMA LogInvariant == Spec => []LogInv
<1>1. Init => LogInv
  BY LogInitInv DEF Init
<1>2. LogInv /\ [Next]_vars => LogInv'
  BY NextLog, LogNextInv
<1> QED
  BY <1>1, <1>2, PTL DEF Spec

(* Strict order per aggregate, for any number of commands and connections.   *)
THEOREM StrictOrder == Spec => []GapFree
<1>1. LogInv => GapFree
  BY DEF LogInv
<1> QED
  BY <1>1, LogInvariant, PTL

(* A command, however often it is run, takes effect once or not at all.      *)
THEOREM CommandsAtomic == Spec => []CommandAtomic
<1>1. LogInv => CommandAtomic
  <2> SUFFICES ASSUME LogInv, NEW c \in Commands, Outcome(c)
               PROVE  LET mine == {e \in events : e.command = c}
                      IN  \/ mine = {} /\ \A i \in 1 .. MaxEvents : <<c, i>> \notin outbox
                          \/ /\ mine = {[command |-> c, index |-> i,
                                         aggregate |-> command[c].aggregate,
                                         sequence |-> command[c].expected + i] :
                                          i \in 1 .. command[c].size}
                             /\ \A i \in 1 .. MaxEvents :
                                  <<c, i>> \in outbox <=> i <= command[c].size
    BY DEF CommandAtomic, LogInv, Outcomes
  <2> QED
    BY DEF Outcome, Promised
<1> QED
  BY <1>1, LogInvariant, PTL

(* The event store accepts each command whole, at most once, and only on the *)
(* version it was prepared on.                                               *)
THEOREM ImplementsAcceptance == Spec => AcceptanceSpec
<1>1. Init => Acceptance!Init
  BY DEF Init, LogInit, Acceptance!Init, Accepted
<1>2. ASSUME LogInv, [LogNext]_logVars PROVE [Acceptance!Next]_(Acceptance!vars)
  <2>1. ASSUME NEW c \in Commands, Prepare(c) PROVE Acceptance!Next
    <3>1. Acceptance!Ask(c)
      BY <2>1 DEF Prepare, Acceptance!Ask, Accepted
    <3> QED
      BY <3>1 DEF Acceptance!Next
  <2>2. ASSUME NEW w \in Writers, Commit(w) PROVE Acceptance!Next
    <3>1. PICK c \in Commands :
            /\ command[c] # Unprepared /\ c \notin Accepted
            /\ stream[command[c].aggregate] = command[c].expected
            /\ stream' = [stream EXCEPT ![command[c].aggregate] = @ + command[c].size]
            /\ Accepted' = Accepted \cup {c}
            /\ UNCHANGED command
      BY <1>2, <2>2, CommitKeeps
    <3>2. Acceptance!Accept(c)
      BY <3>1 DEF Acceptance!Accept
    <3> QED
      BY <3>2 DEF Acceptance!Next
  <2>3. ASSUME UNCHANGED <<command, stream, events>> PROVE UNCHANGED Acceptance!vars
    BY <2>3 DEF Acceptance!vars, Accepted
  <2> QED
    BY <1>2, <2>1, <2>2, <2>3
    DEF LogNext, Begin, AppendNext, Conflict, Abort, End, logVars
<1>3. LogInv /\ [Next]_vars => [Acceptance!Next]_(Acceptance!vars)
  BY <1>2, NextLog
<1> QED
  BY <1>1, <1>3, LogInvariant, PTL DEF Spec, AcceptanceSpec, Acceptance!Spec

-----------------------------------------------------------------------------
(* Open deliveries hold different receipts, none of them committed.          *)
OpenCalls ==
  \A d \in Deliveries : call[d] # NoCall =>
    /\ call[d].consumer \in Consumers /\ Key(call[d].event) \in Keys
    /\ call[d].event.aggregate \in Aggregates
    /\ Key(call[d].event) \notin receipts[call[d].consumer]
    /\ \A b \in Deliveries \ {d} : call[b] # NoCall =>
         call[b].consumer # call[d].consumer \/ Key(call[b].event) # Key(call[d].event)

ReceiptTypes ==
  /\ receipts \in [Consumers -> SUBSET Keys]
  /\ handled \in [Consumers -> [Keys -> Nat]]
  /\ DOMAIN call = Deliveries
  /\ call = [d \in Deliveries |-> call[d]]

EffectInv == ReceiptTypes /\ OpenCalls /\ EffectOnce

LEMMA EventKey ==
  ASSUME LogTypeOK, NEW e \in events
  PROVE  Key(e) \in Keys /\ e.aggregate \in Aggregates
BY DEF LogTypeOK, Event, Key, Keys

LEMMA ConsumerKeeps == LogInv /\ EffectInv /\ [Next]_vars => EffectInv'
<1> SUFFICES ASSUME LogInv, EffectInv, [Next]_vars PROVE EffectInv'
  OBVIOUS
<1>1. ASSUME NEW d \in Deliveries, NEW c \in Consumers, NEW e \in events, Accept(d, c, e)
      PROVE  EffectInv'
  <2> DEFINE new == [consumer |-> c, event |-> e]
  <2>1. /\ call' = [call EXCEPT ![d] = new]
        /\ UNCHANGED <<receipts, counts, handled>>
        /\ Key(e) \notin receipts[c] /\ ReceiptFree(c, e)
    BY <1>1 DEF Accept
  <2>2. call'[d] = new /\ \A b \in Deliveries \ {d} : call'[b] = call[b]
    BY <2>1 DEF EffectInv, ReceiptTypes
  <2>3. Key(e) \in Keys /\ e.aggregate \in Aggregates
    BY EventKey DEF LogInv
  <2>4. ReceiptTypes'
    BY <2>1 DEF EffectInv, ReceiptTypes
  <2>5. OpenCalls'
    BY <2>1, <2>2, <2>3 DEF EffectInv, OpenCalls, ReceiptFree
  <2> QED
    BY <2>1, <2>4, <2>5 DEF EffectInv, EffectOnce
<1>2. ASSUME NEW d \in Deliveries, Process(d) PROVE EffectInv'
  <2> DEFINE c == call[d].consumer
             k == Key(call[d].event)
  <2>1. /\ receipts' = [receipts EXCEPT ![c] = @ \cup {k}]
        /\ handled' = [handled EXCEPT ![c][k] = @ + 1]
        /\ call' = [call EXCEPT ![d] = NoCall] /\ call[d] # NoCall
    BY <1>2 DEF Process
  <2>2. c \in Consumers /\ k \in Keys /\ k \notin receipts[c]
    BY <2>1 DEF EffectInv, OpenCalls
  <2>3. call'[d] = NoCall /\ \A b \in Deliveries \ {d} : call'[b] = call[b]
    BY <2>1 DEF EffectInv, ReceiptTypes
  <2>4. \A x \in Consumers, y \in Keys :
          /\ y \in receipts'[x] <=> y \in receipts[x] \/ (x = c /\ y = k)
          /\ handled'[x][y] = IF x = c /\ y = k THEN handled[x][y] + 1 ELSE handled[x][y]
    BY <2>1, <2>2 DEF EffectInv, ReceiptTypes
  <2>5. ReceiptTypes'
    <3>1. receipts' \in [Consumers -> SUBSET Keys]
      BY <2>1, <2>2 DEF EffectInv, ReceiptTypes
    <3>2. [handled[c] EXCEPT ![k] = @ + 1] \in [Keys -> Nat]
      BY <2>2 DEF EffectInv, ReceiptTypes
    <3>3. handled' \in [Consumers -> [Keys -> Nat]]
      BY <2>1, <2>2, <3>2 DEF EffectInv, ReceiptTypes
    <3>4. DOMAIN call' = Deliveries /\ call' = [b \in Deliveries |-> call'[b]]
      BY <2>1 DEF EffectInv, ReceiptTypes
    <3> QED
      BY <3>1, <3>3, <3>4 DEF ReceiptTypes
  <2>6. OpenCalls'
    BY <2>1, <2>2, <2>3, <2>4 DEF EffectInv, OpenCalls
  <2>7. EffectOnce'
    BY <2>2, <2>4 DEF EffectInv, EffectOnce
  <2> QED
    BY <2>5, <2>6, <2>7 DEF EffectInv
<1>3. ASSUME NEW d \in Deliveries, Fail(d) PROVE EffectInv'
  <2>1. call'[d] = NoCall /\ \A b \in Deliveries \ {d} : call'[b] = call[b]
    BY <1>3 DEF Fail, EffectInv, ReceiptTypes
  <2>2. ReceiptTypes'
    BY <1>3 DEF Fail, EffectInv, ReceiptTypes
  <2>3. OpenCalls /\ receipts' = receipts
    BY <1>3 DEF Fail, EffectInv
  <2>4. OpenCalls'
    BY <2>1, <2>3 DEF OpenCalls
  <2> QED
    BY <1>3, <2>2, <2>4 DEF Fail, EffectInv, EffectOnce
<1>4. CASE UNCHANGED consumerVars
  BY <1>4 DEF consumerVars, EffectInv, ReceiptTypes, OpenCalls, EffectOnce
<1> QED
  BY <1>1, <1>2, <1>3, <1>4 DEF Next, ConsumerNext, vars

(* Exactly one effect per consumer and event, for any number of consumers    *)
(* and simultaneous deliveries.                                              *)
THEOREM EffectsOnce == Spec => []EffectOnce
<1>1. Init => EffectInv
  BY DEF Init, EffectInv, ReceiptTypes, OpenCalls, EffectOnce
<1>2. LogInv /\ EffectInv /\ [Next]_vars => EffectInv'
  BY ConsumerKeeps
<1>3. EffectInv => EffectOnce
  BY DEF EffectInv
<1> QED
  BY <1>1, <1>2, <1>3, LogInvariant, PTL DEF Spec

-----------------------------------------------------------------------------
(***************************************************************************)
(* The outbox, for any rows, workers, batch size, lease and retry delay.   *)
(***************************************************************************)

(* What keeps claims apart: rows locked by an open claim are claimable and   *)
(* belong to that claim alone.                                               *)
LockedRowsAreFree ==
  \A w \in Workers : tx[w].kind = "claim" =>
    /\ \A m \in tx[w].rows : Claimable(m)
    /\ \A v \in Workers \ {w} :
         tx[v].kind = "claim" => tx[v].rows \cap tx[w].rows = {}

OutboxInv == OutboxTypeOK /\ LiveClaimOwnsRow /\ LockedRowsAreFree

-----------------------------------------------------------------------------
\* Rows of an open claim are locked, and conversely.
LEMMA LockedRowsMembers ==
  \A m : m \in LockedRows <=> \E w \in Workers : tx[w].kind = "claim" /\ m \in tx[w].rows
BY DEF LockedRows

LEMMA LeftBounds ==
  ASSUME NEW age \in 0 .. MaxAge
  PROVE  LeaseLeft(age) \in -1 .. LeaseTicks /\ DelayLeft(age) \in 0 .. RetryTicks
BY DurationsAssumption DEF LeaseLeft, DelayLeft, MaxAge

LEMMA TickBounds ==
  /\ \A n \in -1 .. LeaseTicks : Later(n) \in -1 .. LeaseTicks
  /\ \A n \in 0 .. RetryTicks : Nearer(n) \in 0 .. RetryTicks
  /\ \A n \in 0 .. MaxAge : Older(n) \in 0 .. MaxAge
BY DurationsAssumption DEF Later, Nearer, Older, MaxAge

LEMMA ClosedType == Closed \in Transactions
BY DurationsAssumption DEF Closed, Transactions, MaxAge

LEMMA AgeType ==
  ASSUME NEW r \in Transactions, NEW age \in 0 .. MaxAge
  PROVE  [r EXCEPT !.age = age] \in Transactions
BY DEF Transactions

\* The initial state has every variable of its type.
LEMMA OutboxInitType == OutboxInit => OutboxTypeOK
<1> SUFFICES ASSUME OutboxInit PROVE OutboxTypeOK
  OBVIOUS
<1>1. status \in [Messages -> Statuses] /\ owner \in [Messages -> Workers \cup {NoWorker}]
  BY DEF OutboxInit, Statuses
<1>2. lease \in [Messages -> -1 .. LeaseTicks] /\ delay \in [Messages -> 0 .. RetryTicks]
  BY DurationsAssumption DEF OutboxInit
<1>3. tx \in [Workers -> Transactions]
  BY ClosedType DEF OutboxInit
<1>4. held \in [Workers -> [Messages -> -1 .. LeaseTicks]]
  BY DurationsAssumption DEF OutboxInit
<1> QED
  BY <1>1, <1>2, <1>3, <1>4 DEF OutboxTypeOK

\* Every step keeps every variable of its type.
LEMMA OutboxNextType == OutboxTypeOK /\ [OutboxNext]_outboxVars => OutboxTypeOK'
<1> SUFFICES ASSUME OutboxTypeOK, [OutboxNext]_outboxVars PROVE OutboxTypeOK'
  OBVIOUS
<1> USE DurationsAssumption, ClosedType DEF OutboxTypeOK
<1>1. ASSUME NEW m \in Messages, Insert(m) PROVE OutboxTypeOK'
  BY <1>1 DEF Insert, Statuses
<1>2. ASSUME NEW w \in Workers, ClaimSelect(w) PROVE OutboxTypeOK'
  <2>1. PICK batch \in SUBSET Messages :
          tx' = [tx EXCEPT ![w] = [Closed EXCEPT !.kind = "claim", !.rows = batch]]
    BY <1>2 DEF ClaimSelect
  <2>2. [Closed EXCEPT !.kind = "claim", !.rows = batch] \in Transactions
    BY DEF Closed, Transactions, MaxAge
  <2>3. tx' \in [Workers -> Transactions]
    BY <2>1, <2>2
  <2> QED
    BY <1>2, <2>3 DEF ClaimSelect
<1>3. ASSUME NEW w \in Workers, ClaimCommit(w) PROVE OutboxTypeOK'
  <2>1. tx[w].age \in 0 .. MaxAge
    BY DEF Transactions
  <2>2. LeaseLeft(tx[w].age) \in -1 .. LeaseTicks
    BY <2>1, LeftBounds
  <2>3. status' \in [Messages -> Statuses] /\ owner' \in [Messages -> Workers \cup {NoWorker}]
    BY <1>3 DEF ClaimCommit, Statuses
  <2>4. lease' \in [Messages -> -1 .. LeaseTicks]
    BY <1>3, <2>2 DEF ClaimCommit
  <2>5. held' \in [Workers -> [Messages -> -1 .. LeaseTicks]]
    BY <1>3, <2>2 DEF ClaimCommit
  <2>6. tx' \in [Workers -> Transactions] /\ delay' = delay
    BY <1>3 DEF ClaimCommit
  <2> QED
    BY <2>3, <2>4, <2>5, <2>6
<1>4. ASSUME NEW w \in Workers, NEW m \in Messages, NEW kind \in {"publish", "fail"},
             CompleteBegin(w, m, kind)
      PROVE OutboxTypeOK'
  <2> DEFINE new == [Closed EXCEPT !.kind = kind, !.rows = {m}, !.inTime = lease[m] >= 0]
  <2>1. new \in Transactions
    <3>1. (lease[m] >= 0) \in BOOLEAN
      OBVIOUS
    <3>2. \A b \in BOOLEAN :
            [Closed EXCEPT !.kind = kind, !.rows = {m}, !.inTime = b] \in Transactions
      BY DEF Closed, Transactions, MaxAge
    <3> HIDE DEF OutboxTypeOK
    <3> QED
      BY <3>1, <3>2, Zenon
  <2>2. tx' = [tx EXCEPT ![w] = new]
    BY <1>4 DEF CompleteBegin
  <2>3. tx' \in [Workers -> Transactions]
    BY <2>1, <2>2
  <2> QED
    BY <1>4, <2>3 DEF CompleteBegin
<1>5. ASSUME NEW w \in Workers, NEW m \in Messages, MarkPublished(w, m) PROVE OutboxTypeOK'
  BY <1>5 DEF MarkPublished, Release, Statuses
<1>6. ASSUME NEW w \in Workers, NEW m \in Messages, MarkFailed(w, m) PROVE OutboxTypeOK'
  <2>1. DelayLeft(tx[w].age) \in 0 .. RetryTicks
    BY LeftBounds DEF Transactions
  <2> QED
    BY <1>6, <2>1 DEF MarkFailed, Release, Statuses
<1>7. ASSUME NEW w \in Workers, NEW m \in Messages, LeaseError(w, m) PROVE OutboxTypeOK'
  <2>1. tx' \in [Workers -> Transactions]
    BY <1>7 DEF LeaseError
  <2>2. held' = [held EXCEPT ![w] = [held[w] EXCEPT ![m] = -1]]
    BY <1>7 DEF LeaseError
  <2>3. -1 \in -1 .. LeaseTicks
    OBVIOUS
  <2>4. [held[w] EXCEPT ![m] = -1] \in [Messages -> -1 .. LeaseTicks]
    BY <2>3
  <2>5. held' \in [Workers -> [Messages -> -1 .. LeaseTicks]]
    BY <2>2, <2>4
  <2> QED
    BY <1>7, <2>1, <2>5 DEF LeaseError
<1>8. ASSUME NEW w \in Workers, Crash(w) PROVE OutboxTypeOK'
  BY <1>8 DEF Crash
<1>9. CASE Tick
  <2>1. lease' \in [Messages -> -1 .. LeaseTicks]
    BY <1>9, TickBounds DEF Tick
  <2>2. delay' \in [Messages -> 0 .. RetryTicks]
    BY <1>9, TickBounds DEF Tick
  <2>3. held' \in [Workers -> [Messages -> -1 .. LeaseTicks]]
    BY <1>9, TickBounds DEF Tick
  <2>4. ASSUME NEW w \in Workers
        PROVE  [tx[w] EXCEPT !.age = Older(@)] \in Transactions
    <3>1. tx[w] \in Transactions /\ tx[w].age \in 0 .. MaxAge
      BY DEF Transactions
    <3> QED
      BY <3>1, TickBounds, AgeType
  <2>5. tx' \in [Workers -> Transactions]
    BY <1>9, <2>4 DEF Tick
  <2> QED
    BY <1>9, <2>1, <2>2, <2>3, <2>5 DEF Tick
<1>10. CASE UNCHANGED outboxVars
  BY <1>10 DEF outboxVars
<1> QED
  BY <1>1, <1>2, <1>3, <1>4, <1>5, <1>6, <1>7, <1>8, <1>9, <1>10 DEF OutboxNext, Complete

(* Every variable of the outbox keeps its type.                              *)
THEOREM OutboxTypeCorrect == OutboxSpec => []OutboxTypeOK
<1>1. OutboxTypeOK /\ [OutboxNext]_outboxVars => OutboxTypeOK'
  BY OutboxNextType
<1> QED
  BY OutboxInitType, <1>1, PTL DEF OutboxSpec

-----------------------------------------------------------------------------
\* Open claims keep to free rows, whatever the others do.
LEMMA NextLockedRows == OutboxInv /\ [OutboxNext]_outboxVars => LockedRowsAreFree'
<1> SUFFICES ASSUME OutboxInv, [OutboxNext]_outboxVars PROVE LockedRowsAreFree'
  OBVIOUS
<1> USE DEF OutboxInv
<1>1. ASSUME NEW n \in Messages, Insert(n) PROVE LockedRowsAreFree'
  BY <1>1 DEF Insert, LockedRowsAreFree, OutboxTypeOK, Claimable, Transactions
<1>2. ASSUME NEW u \in Workers, ClaimSelect(u) PROVE LockedRowsAreFree'
  <2>1. PICK batch \in SUBSET Messages :
          /\ IsBatch(batch)
          /\ tx' = [tx EXCEPT ![u] = [Closed EXCEPT !.kind = "claim", !.rows = batch]]
    BY <1>2 DEF ClaimSelect
  <2>2. batch \cap LockedRows = {} /\ \A m \in batch : Claimable(m)
    BY <2>1 DEF IsBatch, Free
  <2>3. tx'[u].kind = "claim" /\ tx'[u].rows = batch
    BY <2>1 DEF OutboxTypeOK, Closed
  <2>4. \A v \in Workers \ {u} : tx'[v] = tx[v]
    BY <2>1 DEF OutboxTypeOK
  <2>5. \A m : Claimable(m)' <=> Claimable(m)
    BY <1>2 DEF ClaimSelect, Claimable
  <2> QED
    BY <2>2, <2>3, <2>4, <2>5, LockedRowsMembers DEF LockedRowsAreFree
<1>3. ASSUME NEW u \in Workers, ClaimCommit(u) PROVE LockedRowsAreFree'
  <2>1. tx'[u].kind = "none"
    BY <1>3 DEF ClaimCommit, OutboxTypeOK, Closed
  <2>2. \A v \in Workers \ {u} : tx'[v] = tx[v]
    BY <1>3 DEF ClaimCommit, OutboxTypeOK
  <2>3. \A m \in Messages \ tx[u].rows : Claimable(m)' <=> Claimable(m)
    BY <1>3 DEF ClaimCommit, Claimable
  <2>4. tx[u].kind = "claim"
    BY <1>3 DEF ClaimCommit
  <2>5. \A v \in Workers : tx[v].rows \subseteq Messages
    BY DEF OutboxTypeOK, Transactions
  <2> QED
    BY <2>1, <2>2, <2>3, <2>4, <2>5 DEF LockedRowsAreFree
<1>4. ASSUME NEW u \in Workers, tx' = [tx EXCEPT ![u] = Closed],
             NEW n \in Messages, n \notin LockedRows,
             \A m \in Messages \ {n} : Claimable(m)' <=> Claimable(m)
      PROVE  LockedRowsAreFree'
  <2>1. tx'[u].kind = "none"
    BY <1>4 DEF OutboxTypeOK, Closed
  <2>2. \A v \in Workers \ {u} : tx'[v] = tx[v]
    BY <1>4 DEF OutboxTypeOK
  <2>3. \A v \in Workers : tx[v].rows \subseteq Messages
    BY DEF OutboxTypeOK, Transactions
  <2>4. \A v \in Workers : tx[v].kind = "claim" => n \notin tx[v].rows
    BY <1>4, LockedRowsMembers
  <2> QED
    BY <1>4, <2>1, <2>2, <2>3, <2>4 DEF LockedRowsAreFree
<1>5. ASSUME NEW u \in Workers, NEW n \in Messages, NEW kind \in {"publish", "fail"},
             CompleteBegin(u, n, kind)
      PROVE LockedRowsAreFree'
  <2>1. tx'[u].kind = kind
    BY <1>5 DEF CompleteBegin, OutboxTypeOK, Closed
  <2>2. \A v \in Workers \ {u} : tx'[v] = tx[v]
    BY <1>5 DEF CompleteBegin, OutboxTypeOK
  <2>3. \A m : Claimable(m)' <=> Claimable(m)
    BY <1>5 DEF CompleteBegin, Claimable
  <2> QED
    BY <2>1, <2>2, <2>3 DEF LockedRowsAreFree
<1>6. ASSUME NEW u \in Workers, NEW n \in Messages, MarkPublished(u, n)
      PROVE LockedRowsAreFree'
  <2>1. \A m \in Messages \ {n} : Claimable(m)' <=> Claimable(m)
    BY <1>6 DEF MarkPublished, Release, Claimable, OutboxTypeOK
  <2> QED
    BY <1>4, <1>6, <2>1 DEF MarkPublished, Release
<1>7. ASSUME NEW u \in Workers, NEW n \in Messages, MarkFailed(u, n)
      PROVE LockedRowsAreFree'
  <2>1. \A m \in Messages \ {n} : Claimable(m)' <=> Claimable(m)
    BY <1>7 DEF MarkFailed, Release, Claimable, OutboxTypeOK
  <2> QED
    BY <1>4, <1>7, <2>1 DEF MarkFailed, Release
<1>8. ASSUME NEW u \in Workers, NEW n \in Messages, LeaseError(u, n)
      PROVE LockedRowsAreFree'
  <2>1. \A m : Claimable(m)' <=> Claimable(m)
    BY <1>8 DEF LeaseError, Claimable
  <2> QED
    BY <1>4, <1>8, <2>1 DEF LeaseError
<1>9. ASSUME NEW u \in Workers, Crash(u) PROVE LockedRowsAreFree'
  <2>1. tx'[u].kind = "none"
    BY <1>9 DEF Crash, OutboxTypeOK, Closed
  <2>2. \A v \in Workers \ {u} : tx'[v] = tx[v]
    BY <1>9 DEF Crash, OutboxTypeOK
  <2>3. \A m : Claimable(m)' <=> Claimable(m)
    BY <1>9 DEF Crash, Claimable
  <2> QED
    BY <2>1, <2>2, <2>3 DEF LockedRowsAreFree
<1>10. CASE Tick
  <2>1. \A v \in Workers : tx'[v].kind = tx[v].kind /\ tx'[v].rows = tx[v].rows
    BY <1>10 DEF Tick, OutboxTypeOK, Transactions
  <2>2. \A m \in Messages : Claimable(m) => Claimable(m)'
    BY <1>10 DEF Tick, Claimable, Later, Nearer
  <2>3. \A v \in Workers : tx[v].rows \subseteq Messages
    BY DEF OutboxTypeOK, Transactions
  <2> QED
    BY <2>1, <2>2, <2>3 DEF LockedRowsAreFree
<1>11. CASE UNCHANGED outboxVars
  BY <1>11 DEF outboxVars, LockedRowsAreFree, Claimable
<1> QED
  BY <1>1, <1>2, <1>3, <1>5, <1>6, <1>7, <1>8, <1>9, <1>10, <1>11 DEF OutboxNext, Complete

-----------------------------------------------------------------------------
\* Nobody else holds a row that may be claimed.
LEMMA ClaimableNotHeld ==
  ASSUME OutboxInv, NEW m \in Messages, Claimable(m), NEW w \in Workers
  PROVE  ~(held[w][m] >= 0)
BY DEF OutboxInv, LiveClaimOwnsRow, Claimable, OutboxTypeOK

\* Every step leaves each live claim with the row it claimed.
LEMMA NextLiveClaim == OutboxInv /\ [OutboxNext]_outboxVars => LiveClaimOwnsRow'
<1> SUFFICES ASSUME OutboxInv, [OutboxNext]_outboxVars PROVE LiveClaimOwnsRow'
  OBVIOUS
<1>t. OutboxTypeOK /\ LiveClaimOwnsRow
  BY DEF OutboxInv
<1>1. ASSUME NEW n \in Messages, Insert(n) PROVE LiveClaimOwnsRow'
  BY <1>1, <1>t DEF Insert, LiveClaimOwnsRow, OutboxTypeOK
<1>2. ASSUME NEW u \in Workers, ClaimSelect(u) PROVE LiveClaimOwnsRow'
  BY <1>2, <1>t DEF ClaimSelect, LiveClaimOwnsRow
<1>3. ASSUME NEW u \in Workers, ClaimCommit(u) PROVE LiveClaimOwnsRow'
  <2> DEFINE rows == tx[u].rows
             left == LeaseLeft(tx[u].age)
  <2>1. \A m \in rows : m \in Messages /\ Claimable(m)
    BY <1>3, <1>t DEF ClaimCommit, OutboxInv, LockedRowsAreFree, OutboxTypeOK, Transactions
  <2>2. \A m \in rows, v \in Workers : ~(held[v][m] >= 0)
    BY <2>1, ClaimableNotHeld
  <2>3. \A m \in Messages :
          /\ m \in rows => status'[m] = "PROCESSING" /\ owner'[m] = u /\ lease'[m] = left
          /\ m \notin rows => /\ status'[m] = status[m]
                              /\ owner'[m] = owner[m]
                              /\ lease'[m] = lease[m]
    BY <1>3 DEF ClaimCommit
  <2>4. \A v \in Workers, m \in Messages :
          held'[v][m] = IF v = u /\ m \in rows THEN left ELSE held[v][m]
    BY <1>3, <1>t DEF ClaimCommit, OutboxTypeOK
  <2> QED
    BY <2>2, <2>3, <2>4, <1>t DEF LiveClaimOwnsRow
<1>4. ASSUME NEW u \in Workers, NEW n \in Messages, NEW kind \in {"publish", "fail"},
             CompleteBegin(u, n, kind)
      PROVE LiveClaimOwnsRow'
  BY <1>4, <1>t DEF CompleteBegin, LiveClaimOwnsRow
<1>5. ASSUME NEW u \in Workers, NEW n \in Messages, Release(u, n), MayComplete(u, n),
             \A m \in Messages \ {n} : status'[m] = status[m]
      PROVE LiveClaimOwnsRow'
  <2>1. \A v \in Workers, m \in Messages :
          held'[v][m] = IF v = u /\ m = n THEN -1 ELSE held[v][m]
    BY <1>5, <1>t DEF Release, OutboxTypeOK
  <2>2. \A m \in Messages \ {n} : owner'[m] = owner[m] /\ lease'[m] = lease[m]
    BY <1>5, <1>t DEF Release, OutboxTypeOK
  <2>3. owner[n] = u
    BY <1>5 DEF MayComplete
  <2> QED
    BY <1>5, <2>1, <2>2, <2>3, <1>t DEF LiveClaimOwnsRow
<1>6. ASSUME NEW u \in Workers, NEW n \in Messages, MarkPublished(u, n)
      PROVE LiveClaimOwnsRow'
  BY <1>5, <1>6, <1>t DEF MarkPublished, OutboxTypeOK
<1>7. ASSUME NEW u \in Workers, NEW n \in Messages, MarkFailed(u, n)
      PROVE LiveClaimOwnsRow'
  BY <1>5, <1>7, <1>t DEF MarkFailed, OutboxTypeOK
<1>8. ASSUME NEW u \in Workers, NEW n \in Messages, LeaseError(u, n)
      PROVE LiveClaimOwnsRow'
  <2>1. \A v \in Workers, m \in Messages :
          held'[v][m] = IF v = u /\ m = n THEN -1 ELSE held[v][m]
    BY <1>8, <1>t DEF LeaseError, OutboxTypeOK
  <2> QED
    BY <1>8, <2>1, <1>t DEF LeaseError, LiveClaimOwnsRow
<1>9. ASSUME NEW u \in Workers, Crash(u) PROVE LiveClaimOwnsRow'
  BY <1>9, <1>t DEF Crash, LiveClaimOwnsRow, OutboxTypeOK
<1>10. CASE Tick
  <2>1. \A w \in Workers, m \in Messages : held'[w][m] = Later(held[w][m])
    BY <1>10 DEF Tick
  <2>2. \A m \in Messages : lease'[m] = Later(lease[m])
    BY <1>10 DEF Tick
  <2>3. \A w \in Workers, m \in Messages : Later(held[w][m]) >= 0 => held[w][m] >= 0
    BY <1>t DEF Later, OutboxTypeOK
  <2>4. UNCHANGED <<status, owner>>
    BY <1>10 DEF Tick
  <2> QED
    BY <2>1, <2>2, <2>3, <2>4, <1>t DEF LiveClaimOwnsRow
<1>11. CASE UNCHANGED outboxVars
  BY <1>11, <1>t DEF outboxVars, LiveClaimOwnsRow
<1> QED
  BY <1>1, <1>2, <1>3, <1>4, <1>6, <1>7, <1>8, <1>9, <1>10, <1>11 DEF OutboxNext, Complete

(* The inductive invariant: types, live claims, and locked rows.             *)
THEOREM OutboxSafety == OutboxSpec => []OutboxInv
<1>1. OutboxInit => OutboxInv
  <2>1. OutboxInit => LiveClaimOwnsRow
    BY DEF OutboxInit, LiveClaimOwnsRow
  <2>2. OutboxInit => LockedRowsAreFree
    BY DEF OutboxInit, LockedRowsAreFree, Closed
  <2> QED
    BY <2>1, <2>2, OutboxInitType DEF OutboxInv
<1>2. OutboxInv /\ [OutboxNext]_outboxVars => OutboxInv'
  BY OutboxNextType, NextLockedRows, NextLiveClaim DEF OutboxInv
<1> QED
  BY <1>1, <1>2, PTL DEF OutboxSpec

(* A worker whose claim has not run out owns the row it claimed, for any     *)
(* number of rows and workers and any lease and delay.                       *)
THEOREM LeaseExclusion == OutboxSpec => []LiveClaimOwnsRow
<1>1. OutboxInv => LiveClaimOwnsRow
  BY DEF OutboxInv
<1> QED
  BY <1>1, OutboxSafety, PTL

(* PUBLISHED is final: the rows of a claim under way were never PUBLISHED,   *)
(* and a completion finds the row PROCESSING or does nothing.                *)
THEOREM PublishedStays == OutboxSpec => PublishedIsFinal
<1>1. ASSUME OutboxInv, [OutboxNext]_outboxVars, NEW m \in Messages, status[m] = "PUBLISHED"
      PROVE  status'[m] = "PUBLISHED"
  <2> USE <1>1 DEF OutboxInv
  <2>1. ASSUME NEW n \in Messages, Insert(n) PROVE status'[m] = "PUBLISHED"
    BY <2>1 DEF Insert, OutboxTypeOK
  <2>2. ASSUME NEW u \in Workers, ClaimCommit(u) PROVE status'[m] = "PUBLISHED"
    <3>1. m \notin tx[u].rows
      BY <2>2 DEF ClaimCommit, LockedRowsAreFree, Claimable
    <3> QED
      BY <2>2, <3>1 DEF ClaimCommit
  <2>3. ASSUME NEW u \in Workers, NEW n \in Messages, MarkPublished(u, n)
        PROVE  status'[m] = "PUBLISHED"
    BY <2>3 DEF MarkPublished, OutboxTypeOK
  <2>4. ASSUME NEW u \in Workers, NEW n \in Messages, MarkFailed(u, n)
        PROVE  status'[m] = "PUBLISHED"
    BY <2>4 DEF MarkFailed, MayComplete, OutboxTypeOK
  <2>5. ASSUME UNCHANGED status PROVE status'[m] = "PUBLISHED"
    BY <2>5
  <2> QED
    BY <2>1, <2>2, <2>3, <2>4, <2>5
    DEF OutboxNext, Complete, ClaimSelect, CompleteBegin, LeaseError, Crash, Tick, outboxVars
<1>2. OutboxInv /\ [OutboxNext]_outboxVars =>
        [\A m \in Messages : status[m] = "PUBLISHED" => status'[m] = "PUBLISHED"]_outboxVars
  BY <1>1
<1> QED
  BY <1>2, OutboxSafety, PTL DEF OutboxSpec, PublishedIsFinal

-----------------------------------------------------------------------------
\* The worker at work on a row is the one whose claim lives.
LEMMA HolderUnique ==
  ASSUME OutboxTypeOK, LiveClaimOwnsRow, NEW m \in Messages
  PROVE  /\ \A w \in Workers : Holder(m) = w <=> held[w][m] >= 0
         /\ Holder(m) = NoWorker <=> \A w \in Workers : ~(held[w][m] >= 0)
<1>1. \A v, w \in Workers : held[v][m] >= 0 /\ held[w][m] >= 0 => v = w
  BY DEF LiveClaimOwnsRow
<1>2. CASE \E w \in Workers : held[w][m] >= 0
  <2>1. Holder(m) \in Workers /\ held[Holder(m)][m] >= 0
    BY <1>2 DEF Holder
  <2> QED
    BY <1>1, <2>1, WorkersAssumption
<1>3. CASE ~\E w \in Workers : held[w][m] >= 0
  BY <1>3, WorkersAssumption DEF Holder
<1> QED
  BY <1>2, <1>3

\* Steps that leave the claims in the workers' memory and the statuses alone
\* leave the leased work alone.
LEMMA SameWork ==
  ASSUME UNCHANGED held,
         \A m \in Messages : status[m] = "PUBLISHED" <=> status'[m] = "PUBLISHED"
  PROVE  UNCHANGED Work!vars
BY DEF Work!vars, Holder

LEMMA StepImplements ==
  ASSUME OutboxInv, OutboxInv', [OutboxNext]_outboxVars
  PROVE  [Work!Next]_(Work!vars)
<1> DEFINE at == [m \in Messages |-> Holder(m)]
           done == {m \in Messages : status[m] = "PUBLISHED"}
<1>t. OutboxTypeOK /\ LiveClaimOwnsRow /\ OutboxTypeOK' /\ LiveClaimOwnsRow'
  BY DEF OutboxInv
<1>h. \A m \in Messages :
        /\ \A w \in Workers : Holder(m) = w <=> held[w][m] >= 0
        /\ Holder(m) = NoWorker <=> \A w \in Workers : ~(held[w][m] >= 0)
        /\ \A w \in Workers : Holder(m)' = w <=> held'[w][m] >= 0
        /\ Holder(m)' = NoWorker <=> \A w \in Workers : ~(held'[w][m] >= 0)
  <2>1. ASSUME NEW m \in Messages
        PROVE /\ \A w \in Workers : Holder(m) = w <=> held[w][m] >= 0
              /\ Holder(m) = NoWorker <=> \A w \in Workers : ~(held[w][m] >= 0)
    BY <1>t, HolderUnique
  <2>2. ASSUME OutboxTypeOK', LiveClaimOwnsRow', NEW m \in Messages
        PROVE /\ \A w \in Workers : Holder(m)' = w <=> held'[w][m] >= 0
              /\ Holder(m)' = NoWorker <=> \A w \in Workers : ~(held'[w][m] >= 0)
    <3>1. \A v, w \in Workers : held'[v][m] >= 0 /\ held'[w][m] >= 0 => v = w
      BY <2>2 DEF LiveClaimOwnsRow
    <3>2. CASE \E w \in Workers : held'[w][m] >= 0
      <4>1. Holder(m)' \in Workers /\ held'[Holder(m)'][m] >= 0
        BY <3>2 DEF Holder
      <4> QED
        BY <3>1, <4>1, WorkersAssumption
    <3>3. CASE ~\E w \in Workers : held'[w][m] >= 0
      BY <3>3, WorkersAssumption DEF Holder
    <3> QED
      BY <3>2, <3>3
  <2> QED
    BY <2>1, <2>2, <1>t
<1>w. \A m \in Messages : Holder(m) \in Workers \cup {NoWorker}
                       /\ Holder(m)' \in Workers \cup {NoWorker}
  BY DEF Holder
\* Claims that lapse: every holder that changes becomes NoWorker.
<1>l. ASSUME done' = done,
             \A m \in Messages : Holder(m)' \in {Holder(m), NoWorker}
      PROVE  Work!Next
  <2> DEFINE lapsed == {m \in Messages : Holder(m)' = NoWorker}
  <2>1. at' = [m \in Messages |-> IF m \in lapsed THEN NoWorker ELSE at[m]]
    BY <1>l
  <2>2. Work!Lapse(lapsed)
    BY <2>1, <1>l DEF Work!Lapse
  <2> QED
    BY <2>2 DEF Work!Next
<1>1. ASSUME NEW n \in Messages, Insert(n) PROVE UNCHANGED Work!vars
  BY <1>1, <1>t, SameWork DEF Insert, OutboxTypeOK
<1>2. ASSUME NEW u \in Workers, ClaimSelect(u) PROVE UNCHANGED Work!vars
  BY <1>2, SameWork DEF ClaimSelect
<1>3. ASSUME NEW u \in Workers, ClaimCommit(u) PROVE [Work!Next]_(Work!vars)
  <2> DEFINE rows == tx[u].rows
             left == LeaseLeft(tx[u].age)
  <2>1. \A m \in rows : m \in Messages /\ Claimable(m)
    BY <1>3, <1>t DEF ClaimCommit, OutboxInv, LockedRowsAreFree, OutboxTypeOK, Transactions
  <2>2. \A m \in rows : Holder(m) = NoWorker /\ status[m] # "PUBLISHED"
    BY <2>1, <1>h, ClaimableNotHeld DEF Claimable
  <2>3. \A m \in Messages : status'[m] = IF m \in rows THEN "PROCESSING" ELSE status[m]
    BY <1>3 DEF ClaimCommit
  <2>4. done' = done
    BY <2>2, <2>3
  <2>5. \A v \in Workers, m \in Messages :
          held'[v][m] = IF v = u /\ m \in rows THEN left ELSE held[v][m]
    BY <1>3, <1>t DEF ClaimCommit, OutboxTypeOK
  <2>6. \A m \in Messages \ rows : Holder(m)' = Holder(m)
    BY <2>5, <1>h, <1>w
  <2>7. CASE left >= 0
    <3>1. \A m \in rows : Holder(m)' = u
      BY <2>1, <2>5, <2>7, <1>h
    <3>2. at' = [m \in Messages |-> IF m \in rows THEN u ELSE at[m]]
      BY <2>6, <3>1
    <3>3. Work!Start(u, rows)
      BY <2>1, <2>2, <2>4, <3>2 DEF Work!Start
    <3>4. rows \in SUBSET Messages
      BY <2>1
    <3> QED
      BY <3>3, <3>4 DEF Work!Next
  <2>8. CASE ~(left >= 0)
    <3>1. \A m \in rows : Holder(m)' = NoWorker
      BY <2>1, <2>2, <2>5, <2>8, <1>h
    <3> QED
      BY <2>2, <2>4, <2>6, <3>1, <1>l
  <2> QED
    BY <2>7, <2>8
<1>4. ASSUME NEW u \in Workers, NEW n \in Messages, NEW kind \in {"publish", "fail"},
             CompleteBegin(u, n, kind)
      PROVE UNCHANGED Work!vars
  BY <1>4, SameWork DEF CompleteBegin
<1>5. ASSUME NEW u \in Workers, NEW n \in Messages, MarkPublished(u, n)
      PROVE  Work!Next
  <2>1. \A v \in Workers, m \in Messages :
          held'[v][m] = IF v = u /\ m = n THEN -1 ELSE held[v][m]
    BY <1>5, <1>t DEF MarkPublished, Release, OutboxTypeOK
  <2>2. status[n] = "PROCESSING" /\ owner[n] = u
    BY <1>5 DEF MarkPublished, MayComplete
  <2>3. Holder(n) \in {u, NoWorker}
    BY <2>2, <1>h, <1>w, <1>t DEF LiveClaimOwnsRow
  <2>4. Holder(n)' = NoWorker
    BY <2>1, <2>3, <1>h, <1>w, WorkersAssumption
  <2>5. \A m \in Messages \ {n} : Holder(m)' = Holder(m)
    BY <2>1, <1>h, <1>w
  <2>6. at' = [at EXCEPT ![n] = NoWorker]
    BY <2>4, <2>5
  <2>7. done' = done \cup {n}
    BY <1>5, <1>t DEF MarkPublished, OutboxTypeOK
  <2>8. at[n] \in {u, NoWorker} /\ n \notin done
    BY <2>2, <2>3
  <2>9. Work!Finish(u, n)
    BY <2>6, <2>7, <2>8 DEF Work!Finish
  <2> QED
    BY <2>9 DEF Work!Next
<1>6. ASSUME NEW u \in Workers, NEW n \in Messages, MarkFailed(u, n) \/ LeaseError(u, n)
      PROVE  Work!Next
  <2>1. \A v \in Workers, m \in Messages :
          held'[v][m] = IF v = u /\ m = n THEN -1 ELSE held[v][m]
    BY <1>6, <1>t DEF MarkFailed, LeaseError, Release, OutboxTypeOK
  <2>2. done' = done
    BY <1>6, <1>t DEF MarkFailed, LeaseError, MayComplete, OutboxTypeOK
  <2>3. \A m \in Messages : Holder(m)' \in {Holder(m), NoWorker}
    BY <2>1, <1>h, <1>w
  <2> QED
    BY <2>2, <2>3, <1>l
<1>7. ASSUME NEW u \in Workers, Crash(u) PROVE Work!Next
  <2>1. \A v \in Workers, m \in Messages :
          held'[v][m] = IF v = u THEN -1 ELSE held[v][m]
    BY <1>7, <1>t DEF Crash, OutboxTypeOK
  <2>2. done' = done
    BY <1>7 DEF Crash
  <2>3. \A m \in Messages : Holder(m)' \in {Holder(m), NoWorker}
    BY <2>1, <1>h, <1>w
  <2> QED
    BY <2>2, <2>3, <1>l
<1>8. CASE Tick
  <2>1. \A v \in Workers, m \in Messages : held'[v][m] >= 0 => held[v][m] >= 0
    BY <1>8, <1>t DEF Tick, Later, OutboxTypeOK
  <2>2. done' = done
    BY <1>8 DEF Tick
  <2>3. \A m \in Messages : Holder(m)' \in {Holder(m), NoWorker}
    BY <2>1, <1>h, <1>w
  <2> QED
    BY <2>2, <2>3, <1>l
<1>9. CASE UNCHANGED outboxVars
  BY <1>9, SameWork DEF outboxVars
<1> QED
  BY <1>1, <1>2, <1>3, <1>4, <1>5, <1>6, <1>7, <1>8, <1>9 DEF OutboxNext, Complete

(* The outbox implements leased work: a worker starts only on a row nobody   *)
(* is at work on, and a published row is never taken up again.               *)
THEOREM ImplementsLeasedWork == OutboxSpec => LeasedWorkSpec
<1>1. OutboxInit => Work!Init
  BY DEF OutboxInit, Work!Init, Holder
<1>2. OutboxInv /\ OutboxInv' /\ [OutboxNext]_outboxVars => [Work!Next]_(Work!vars)
  BY StepImplements
<1> QED
  BY <1>1, <1>2, OutboxSafety, PTL DEF OutboxSpec, LeasedWorkSpec, Work!Spec
=============================================================================
