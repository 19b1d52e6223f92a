-------------------------- MODULE Proposals_proofs --------------------------
(***************************************************************************)
(* Proofs about Proposals, for any number of proposals, actors and         *)
(* requests, and however far ahead of the row a client's version is.       *)
(***************************************************************************)
EXTENDS Proposals, TLAPS

USE DEF Live, Operations

-----------------------------------------------------------------------------
(* What a request in progress knows about its row: a version the row has     *)
(* had, and, as long as the row still has it, the row's status.              *)
ReadsHold ==
  \A r \in Requests : tx[r] # NoTx =>
    LET row == proposal[tx[r].proposal]
    IN  /\ tx[r].seen <= row.version
        /\ tx[r].seen = row.version => tx[r].from = row.status

IInv == TypeOK /\ VersionIsSequence /\ ReadsHold

(* A request in progress is one of the records of InProgress.                *)
LEMMA OpenRequest ==
  ASSUME TypeOK, NEW r \in Requests, tx[r] # NoTx
  PROVE  /\ tx[r] \in InProgress
         /\ tx[r].proposal \in Proposals /\ tx[r].op \in Operations
         /\ tx[r].actor \in Actors /\ tx[r].from \in Live
         /\ tx[r].seen \in Nat /\ tx[r].expected \in Nat
BY DEF TypeOK, InProgress

(* The row of an existing proposal, field by field; versions are numbers.    *)
LEMMA RowFields ==
  ASSUME TypeOK, NEW p \in Proposals
  PROVE  /\ proposal[p].version \in Nat
         /\ stream[p] \in Nat
         /\ log[p] \in Seq(Logged)
         /\ proposal[p].status # "ABSENT" =>
              /\ proposal[p].author \in Actors
              /\ proposal[p].status \in Live \cup {"DELETED"}
BY DEF TypeOK, Row, Absent

(* The rows keep their type when one of them gets a status and versions.     *)
LEMMA RowUpdate ==
  ASSUME TypeOK, NEW p \in Proposals, NEW status \in Live \cup {"DELETED"},
         NEW n \in Nat \ {0}, proposal[p].status # "ABSENT"
  PROVE  /\ Rewritten(p, status, n) \in [Proposals -> Row \cup {Absent}]
         /\ Rewritten(p, status, n)[p].status = status
         /\ Rewritten(p, status, n)[p].version = proposal[p].version + n
         /\ \A q \in Proposals : q # p => Rewritten(p, status, n)[q] = proposal[q]
<1>1. /\ proposal[p].author \in Actors /\ proposal[p].version \in Nat
      /\ proposal \in [Proposals -> Row \cup {Absent}]
  BY RowFields DEF TypeOK
<1>2. [author |-> proposal[p].author, status |-> status,
       version |-> proposal[p].version + n] \in Row
  BY <1>1 DEF Row
<1> QED
  BY <1>1, <1>2 DEF Rewritten

(* An event of the model's vocabulary is a Logged record.                    *)
LEMMA EventType ==
  ASSUME NEW type \in Operations \cup {"created", "threshold", "eligible", "lost"},
         NEW actor \in Actors \cup {Nobody}, NEW from \in Live \cup {"ABSENT"}
  PROVE  Event(type, actor, from) \in Logged
BY DEF Event, Logged

(* A service that holds the row's lock changes the status with as many       *)
(* versions as events, and disturbs no request's reading: the version moves. *)
LEMMA ChangeKeepsIInv ==
  ASSUME IInv, NEW p \in Proposals, NEW status \in Live,
         NEW events \in Seq(Logged), Len(events) > 0,
         proposal[p].status # "ABSENT", ChangeStatus(p, status, events)
  PROVE  IInv'
<1> DEFINE n == Len(events)
<1>1. n \in Nat /\ n > 0
  OBVIOUS
<1>2. /\ proposal[p].version \in Nat /\ stream[p] \in Nat /\ log[p] \in Seq(Logged)
      /\ stream \in [Proposals -> Nat] /\ log \in [Proposals -> Seq(Logged)]
  BY RowFields DEF IInv, TypeOK
<1>3. PICK v \in Nat \ {0} : v = proposal[p].version + n
  BY <1>1, <1>2
<1>4. proposal' = Rewritten(p, status, n) /\ TypeOK /\ n \in Nat \ {0}
  BY <1>1 DEF ChangeStatus, IInv
<1>5. /\ proposal' \in [Proposals -> Row \cup {Absent}]
      /\ proposal'[p].version = v
      /\ \A q \in Proposals : q # p => proposal'[q] = proposal[q]
  BY <1>3, <1>4, RowUpdate
<1>6. log[p] \o events \in Seq(Logged) /\ Len(log[p] \o events) = Len(log[p]) + n
  BY <1>2
<1>7. TypeOK'
  <2>1. stream' \in [Proposals -> Nat]
    BY <1>1, <1>2 DEF ChangeStatus
  <2>2. log' \in [Proposals -> Seq(Logged)]
    BY <1>2, <1>6 DEF ChangeStatus
  <2> QED
    BY <1>5, <2>1, <2>2 DEF IInv, TypeOK, ChangeStatus
<1>8. VersionIsSequence'
  <2> SUFFICES ASSUME NEW q \in Proposals
               PROVE  proposal'[q].version = stream'[q] /\ stream'[q] = Len(log'[q])
    BY DEF VersionIsSequence
  <2>1. CASE q = p
    BY <1>2, <1>3, <1>5, <1>6, <2>1 DEF IInv, VersionIsSequence, ChangeStatus
  <2>2. CASE q # p
    BY <1>2, <1>5, <2>2 DEF IInv, VersionIsSequence, ChangeStatus
  <2> QED
    BY <2>1, <2>2
<1>9. ReadsHold'
  <2> SUFFICES ASSUME NEW r \in Requests, tx[r] # NoTx
               PROVE  /\ tx[r].seen <= proposal'[tx[r].proposal].version
                      /\ tx[r].seen = proposal'[tx[r].proposal].version
                           => tx[r].from = proposal'[tx[r].proposal].status
    BY DEF ReadsHold, ChangeStatus
  <2>1. tx[r].proposal \in Proposals /\ tx[r].seen \in Nat
    BY OpenRequest DEF IInv
  <2>2. CASE tx[r].proposal = p
    BY <1>1, <1>2, <1>3, <1>5, <2>1, <2>2 DEF IInv, ReadsHold
  <2>3. CASE tx[r].proposal # p
    BY <1>5, <2>1, <2>3 DEF IInv, ReadsHold
  <2> QED
    BY <2>2, <2>3
<1> QED
  BY <1>7, <1>8, <1>9 DEF IInv

(* A request that ends without an effect.                                    *)
LEMMA EndKeepsIInv ==
  ASSUME IInv, NEW r \in Requests, tx' = [tx EXCEPT ![r] = NoTx],
         UNCHANGED <<proposal, stream, log>>
  PROVE  IInv'
<1>1. TypeOK'
  BY DEF IInv, TypeOK
<1>2. VersionIsSequence'
  BY DEF IInv, VersionIsSequence
<1>3. ReadsHold'
  BY DEF IInv, ReadsHold, TypeOK
<1> QED
  BY <1>1, <1>2, <1>3 DEF IInv

-----------------------------------------------------------------------------
LEMMA CreateKeepsIInv ==
  ASSUME IInv, NEW p \in Proposals, NEW actor \in Actors, Create(p, actor)
  PROVE  IInv'
<1>1. Event("created", actor, "ABSENT") \in Logged
  BY EventType
<1>2. [author |-> actor, status |-> "CREATED", version |-> 1] \in Row
  BY DEF Row
<1>3. TypeOK'
  BY <1>1, <1>2 DEF IInv, TypeOK, Create
<1>4. VersionIsSequence'
  BY DEF IInv, VersionIsSequence, TypeOK, Create
<1>5. ReadsHold'
  <2> SUFFICES ASSUME NEW r \in Requests, tx[r] # NoTx
               PROVE  /\ tx[r].seen <= proposal'[tx[r].proposal].version
                      /\ tx[r].seen = proposal'[tx[r].proposal].version
                           => tx[r].from = proposal'[tx[r].proposal].status
    BY DEF ReadsHold, Create
  <2>1. tx[r].proposal \in Proposals /\ tx[r].seen \in Nat /\ tx[r].from \in Live
    BY OpenRequest DEF IInv
  <2>2. tx[r].proposal # p
    <3>1. SUFFICES ASSUME tx[r].proposal = p PROVE FALSE
      OBVIOUS
    <3>2. tx[r].seen <= 0 /\ (tx[r].seen = 0 => tx[r].from = "ABSENT")
      BY <3>1 DEF IInv, ReadsHold, Create, Absent
    <3> QED
      BY <2>1, <3>2
  <2> QED
    BY <2>1, <2>2 DEF IInv, ReadsHold, Create, TypeOK
<1> QED
  BY <1>3, <1>4, <1>5 DEF IInv

LEMMA ReadKeepsIInv ==
  ASSUME IInv, NEW r \in Requests, NEW p \in Proposals, NEW op \in Operations,
         NEW actor \in Actors, Read(r, p, op, actor)
  PROVE  IInv'
<1>1. PICK t : /\ t.seen = proposal[p].version /\ t.from = proposal[p].status
               /\ t.proposal = p
               /\ t \in InProgress
               /\ tx' = [tx EXCEPT ![r] = t]
  <2>1. PICK expected \in 1 .. proposal[p].version + Ahead :
          tx' = [tx EXCEPT ![r] =
                   [proposal |-> p, op |-> op, actor |-> actor,
                    from |-> proposal[p].status, seen |-> proposal[p].version,
                    expected |-> expected]]
    BY DEF Read
  <2>2. expected \in Nat /\ proposal[p].version \in Nat
    BY <2>1, RowFields, BoundsAssumption DEF IInv
  <2>3. /\ proposal[p].status \in Live
        /\ op = "delete" /\ actor \notin Moderators => proposal[p].status = "CREATED"
    BY DEF Read, Checked, MayDelete
  <2> QED
    BY <2>1, <2>2, <2>3 DEF InProgress
<1>2. TypeOK'
  BY <1>1 DEF IInv, TypeOK, Read
<1>3. VersionIsSequence'
  BY DEF IInv, VersionIsSequence, Read
<1>4. ReadsHold'
  <2> SUFFICES ASSUME NEW s \in Requests, tx'[s] # NoTx
               PROVE  /\ tx'[s].seen <= proposal[tx'[s].proposal].version
                      /\ tx'[s].seen = proposal[tx'[s].proposal].version
                           => tx'[s].from = proposal[tx'[s].proposal].status
    BY DEF ReadsHold, Read
  <2>1. CASE s = r
    BY <1>1, <2>1, RowFields DEF IInv, TypeOK
  <2>2. CASE s # r
    BY <1>1, <2>2 DEF IInv, TypeOK, ReadsHold
  <2> QED
    BY <2>1, <2>2
<1> QED
  BY <1>2, <1>3, <1>4 DEF IInv

(* The row a request in progress works on exists.                            *)
LEMMA RequestedRow ==
  ASSUME IInv, NEW r \in Requests, tx[r] # NoTx
  PROVE  proposal[tx[r].proposal].status # "ABSENT"
<1> SUFFICES ASSUME proposal[tx[r].proposal].status = "ABSENT" PROVE FALSE
  OBVIOUS
<1>1. /\ tx[r].proposal \in Proposals /\ tx[r].seen \in Nat /\ tx[r].from \in Live
  BY OpenRequest DEF IInv
<1>2. proposal[tx[r].proposal] = Absent
  BY <1>1 DEF IInv, TypeOK, Row
<1>3. tx[r].seen <= 0 /\ (tx[r].seen = 0 => tx[r].from = "ABSENT")
  BY <1>2 DEF IInv, ReadsHold, Absent
<1> QED
  BY <1>1, <1>3

LEMMA ApplyKeepsIInv ==
  ASSUME IInv, NEW r \in Requests, tx[r] # NoTx,
         NEW status \in Live \cup {"DELETED"}, Apply(r, status)
  PROVE  IInv'
<1>1. tx[r] # NoTx
  OBVIOUS
<1>2. PICK p \in Proposals : p = tx[r].proposal
  BY <1>1, OpenRequest DEF IInv
<1>3. /\ proposal[p].version \in Nat /\ stream[p] \in Nat /\ log[p] \in Seq(Logged)
      /\ stream \in [Proposals -> Nat] /\ log \in [Proposals -> Seq(Logged)]
      /\ proposal[p].status \in Live \cup {"DELETED"}
  BY <1>1, <1>2, RowFields, RequestedRow DEF IInv, TypeOK
<1>4. PICK v \in Nat \ {0} : v = proposal[p].version + 1
  BY <1>3
<1>5. /\ proposal' = Rewritten(p, status, 1) /\ TypeOK
      /\ proposal[p].status # "ABSENT"
  BY <1>1, <1>2, RequestedRow DEF Apply, IInv
<1>7. /\ proposal' \in [Proposals -> Row \cup {Absent}]
      /\ proposal'[p].version = v
      /\ \A q \in Proposals : q # p => proposal'[q] = proposal[q]
  BY <1>4, <1>5, RowUpdate
<1>8. PICK e \in Logged : log' = [log EXCEPT ![p] = Append(log[p], e)]
  <2>1. Event(tx[r].op, tx[r].actor, tx[r].from) \in Logged
    BY <1>1, OpenRequest, EventType DEF IInv
  <2> QED
    BY <1>2, <2>1 DEF Apply
<1>9. /\ tx' = [tx EXCEPT ![r] = NoTx]
      /\ stream' = [stream EXCEPT ![p] = stream[p] + 1]
  BY <1>2 DEF Apply
<1>10. Append(log[p], e) \in Seq(Logged) /\ Len(Append(log[p], e)) = Len(log[p]) + 1
  BY <1>3, <1>8
<1>11. TypeOK'
  BY <1>3, <1>7, <1>8, <1>9, <1>10 DEF IInv, TypeOK
<1>12. VersionIsSequence'
  BY <1>3, <1>4, <1>7, <1>8, <1>9, <1>10 DEF IInv, VersionIsSequence
<1>13. ReadsHold'
  <2> SUFFICES ASSUME NEW s \in Requests, tx'[s] # NoTx
               PROVE  /\ tx'[s].seen <= proposal'[tx'[s].proposal].version
                      /\ tx'[s].seen = proposal'[tx'[s].proposal].version
                           => tx'[s].from = proposal'[tx'[s].proposal].status
    BY DEF ReadsHold
  <2>1. tx'[s] = tx[s] /\ tx[s] # NoTx
    BY <1>9 DEF IInv, TypeOK
  <2>2. tx[s].proposal \in Proposals /\ tx[s].seen \in Nat
    BY <2>1, OpenRequest DEF IInv
  <2>3. CASE tx[s].proposal = p
    BY <1>3, <1>4, <1>7, <2>1, <2>2, <2>3 DEF IInv, ReadsHold
  <2>4. CASE tx[s].proposal # p
    BY <1>7, <2>1, <2>2, <2>4 DEF IInv, ReadsHold
  <2> QED
    BY <2>3, <2>4
<1> QED
  BY <1>11, <1>12, <1>13 DEF IInv

LEMMA ServicesKeepIInv ==
  ASSUME IInv, NEW p \in Proposals, Gain(p) \/ Lose(p) \/ Invalidate(p)
  PROVE  IInv'
<1>1. CASE Gain(p)
  <2>1. proposal[p].status \in Live
    BY <1>1 DEF Gain
  <2>2. /\ Event("threshold", Nobody, proposal[p].status) \in Logged
        /\ Event("eligible", Nobody, proposal[p].status) \in Logged
    BY <2>1, EventType
  <2> DEFINE events == <<Event("threshold", Nobody, proposal[p].status),
                         Event("eligible", Nobody, proposal[p].status)>>
  <2>3. events \in Seq(Logged) /\ Len(events) > 0
    BY <2>2
  <2>4. ChangeStatus(p, "ELIGIBLE", events) /\ proposal[p].status # "ABSENT"
    BY <1>1 DEF Gain
  <2> HIDE DEF events
  <2> QED
    BY <2>3, <2>4, ChangeKeepsIInv
<1>2. CASE Lose(p) \/ Invalidate(p)
  <2>1. Event("lost", Nobody, "ELIGIBLE") \in Logged
    BY EventType
  <2> DEFINE events == <<Event("lost", Nobody, "ELIGIBLE")>>
  <2>2. events \in Seq(Logged) /\ Len(events) > 0
    BY <2>1
  <2>3. ChangeStatus(p, "COLLECTING", events) /\ proposal[p].status # "ABSENT"
    BY <1>2 DEF Lose, Invalidate
  <2> HIDE DEF events
  <2> QED
    BY <2>2, <2>3, ChangeKeepsIInv
<1> QED
  BY <1>1, <1>2

LEMMA Invariance == Spec => []IInv
<1>1. Init => IInv
  <2> SUFFICES ASSUME Init PROVE IInv
    OBVIOUS
  <2>1. TypeOK
    BY DEF Init, TypeOK
  <2>2. VersionIsSequence
    BY DEF Init, VersionIsSequence, Absent
  <2>3. ReadsHold
    BY DEF Init, ReadsHold
  <2> QED
    BY <2>1, <2>2, <2>3 DEF IInv
<1>2. IInv /\ [Next]_vars => IInv'
  <2> SUFFICES ASSUME IInv, [Next]_vars PROVE IInv'
    OBVIOUS
  <2>1. ASSUME NEW p \in Proposals, NEW actor \in Actors, Create(p, actor) PROVE IInv'
    BY <2>1, CreateKeepsIInv
  <2>2. ASSUME NEW r \in Requests, NEW p \in Proposals, NEW op \in Operations,
               NEW actor \in Actors, Read(r, p, op, actor)
        PROVE  IInv'
    BY <2>2, ReadKeepsIInv
  <2>3. ASSUME NEW r \in Requests,
               Update(r) \/ Open(r) \/ Archive(r) \/ Delete(r) \/ Support(r)
        PROVE  IInv'
    <3>1. tx[r] # NoTx /\ Found(r) \in Live \cup {"DELETED"}
      BY <2>3, OpenRequest, RowFields, RequestedRow
      DEF IInv, Found, Update, Open, Archive, Delete, Support
    <3>2. PICK status \in Live \cup {"DELETED"} : Apply(r, status)
      BY <2>3, <3>1 DEF Update, Open, Archive, Delete, Support
    <3> QED
      BY <3>1, <3>2, ApplyKeepsIInv
  <2>4. ASSUME NEW r \in Requests, Conflict(r) \/ Abort(r) PROVE IInv'
    BY <2>4, EndKeepsIInv DEF Conflict, Abort
  <2>5. ASSUME NEW p \in Proposals, Gain(p) \/ Lose(p) \/ Invalidate(p) PROVE IInv'
    BY <2>5, ServicesKeepIInv
  <2>6. CASE UNCHANGED vars
    BY <2>6 DEF vars, IInv, TypeOK, VersionIsSequence, ReadsHold
  <2> QED
    BY <2>1, <2>2, <2>3, <2>4, <2>5, <2>6 DEF Next
<1> QED
  BY <1>1, <1>2, PTL DEF Spec

-----------------------------------------------------------------------------
(* A proposal's version is the length of its stream and of its event log,    *)
(* whichever service changed the row and whatever clients sent.              *)
THEOREM VersionsAreSequences == Spec => []VersionIsSequence
<1>1. IInv => VersionIsSequence
  BY DEF IInv
<1> QED
  BY <1>1, Invariance, PTL

(* Reading without a lock is safe for every request whose client had seen    *)
(* the version it expects: what was checked is what is changed.              *)
THEOREM ChecksHoldWhenApplied == Spec => CheckedIsApplied
<1>1. IInv /\ [Next]_vars =>
        [\A r \in Requests :
           /\ tx[r] # NoTx /\ tx'[r] # tx[r]
           /\ log'[tx[r].proposal] # log[tx[r].proposal]
           /\ tx[r].expected <= tx[r].seen
           => tx[r].from = proposal[tx[r].proposal].status]_vars
  <2> SUFFICES ASSUME IInv, Next, NEW r \in Requests,
                      tx[r] # NoTx, tx'[r] # tx[r],
                      log'[tx[r].proposal] # log[tx[r].proposal],
                      tx[r].expected <= tx[r].seen
               PROVE  tx[r].from = proposal[tx[r].proposal].status
    BY DEF vars
  <2>1. \E status : Apply(r, status)
    <3>1. \A p \in Proposals, actor \in Actors : ~Create(p, actor)
      BY DEF Create
    <3>2. \A s \in Requests, p \in Proposals, op \in Operations, actor \in Actors :
            ~Read(s, p, op, actor)
      BY DEF Read
    <3>3. \A s \in Requests : ~Conflict(s) /\ ~Abort(s)
      BY DEF Conflict, Abort
    <3>4. \A p \in Proposals : ~(Gain(p) \/ Lose(p) \/ Invalidate(p))
      BY DEF Gain, Lose, Invalidate, ChangeStatus
    <3>5. \A s \in Requests : s # r => \A status : ~Apply(s, status)
      BY DEF Apply, IInv, TypeOK
    <3> QED
      BY <3>1, <3>2, <3>3, <3>4, <3>5 DEF Next, Update, Open, Archive, Delete, Support
  <2>2. proposal[tx[r].proposal].version = tx[r].expected
    BY <2>1 DEF Apply, Unmoved
  <2>3. tx[r].seen \in Nat /\ tx[r].expected \in Nat
    BY OpenRequest DEF IInv
  <2> QED
    BY <2>2, <2>3 DEF IInv, ReadsHold
<1> QED
  BY <1>1, Invariance, PTL DEF Spec, CheckedIsApplied
-----------------------------------------------------------------------------
(* The last entry that changes a status left this one behind.                *)
Tells(entries, status) ==
  \E i \in DOMAIN entries :
    /\ entries[i].type \in Changes
    /\ status = StatusOf(entries[i].type)
    /\ \A j \in i + 1 .. Len(entries) : entries[j].type \notin Changes

LEMMA ChangeTells ==
  ASSUME NEW entries \in Seq(Logged), NEW e \in Logged, e.type \in Changes
  PROVE  Tells(Append(entries, e), StatusOf(e.type))
<1> DEFINE longer == Append(entries, e)
           n == Len(entries) + 1
<1>1. /\ longer \in Seq(Logged) /\ Len(longer) = n /\ DOMAIN longer = 1 .. n
      /\ longer[n] = e /\ Len(entries) \in Nat
  OBVIOUS
<1>2. n \in DOMAIN longer /\ \A j \in n + 1 .. n : longer[j].type \notin Changes
  BY <1>1
<1> QED
  BY <1>1, <1>2 DEF Tells

LEMMA OtherEntryTellsNothing ==
  ASSUME NEW entries \in Seq(Logged), NEW e \in Logged, e.type \notin Changes,
         NEW status, Tells(entries, status)
  PROVE  Tells(Append(entries, e), status)
<1> DEFINE longer == Append(entries, e)
           n == Len(entries) + 1
<1>1. /\ longer \in Seq(Logged) /\ Len(longer) = n /\ DOMAIN longer = 1 .. n
      /\ longer[n] = e /\ Len(entries) \in Nat /\ DOMAIN entries = 1 .. Len(entries)
      /\ \A j \in DOMAIN entries : longer[j] = entries[j]
  OBVIOUS
<1>2. PICK i \in DOMAIN entries :
        /\ entries[i].type \in Changes
        /\ status = StatusOf(entries[i].type)
        /\ \A j \in i + 1 .. Len(entries) : entries[j].type \notin Changes
  BY DEF Tells
<1>3. \A j \in i + 1 .. n : longer[j].type \notin Changes
  BY <1>1, <1>2
<1>4. i \in DOMAIN longer /\ longer[i] = entries[i] /\ Len(longer) = n
  BY <1>1, <1>2
<1> HIDE DEF longer, n
<1>5. Tells(longer, status)
  BY <1>2, <1>3, <1>4 DEF Tells
<1> QED
  BY <1>5 DEF longer

(* A step that gives one proposal a status, and its log entries that tell    *)
(* it, keeps LogTellsStatus.                                                 *)
LEMMA EntryKeepsLog ==
  ASSUME IInv, LogTellsStatus, NEW p \in Proposals, NEW status, NEW entries,
         log' = [log EXCEPT ![p] = entries], proposal'[p].status = status,
         \A q \in Proposals : q # p => proposal'[q] = proposal[q],
         Tells(entries, status)
  PROVE  LogTellsStatus'
<1> SUFFICES ASSUME NEW q \in Proposals, log'[q] # <<>>
             PROVE  Tells(log'[q], proposal'[q].status)
  BY DEF LogTellsStatus, Tells
<1>1. log \in [Proposals -> Seq(Logged)]
  BY DEF IInv, TypeOK
<1>2. CASE q = p
  BY <1>1, <1>2
<1>3. CASE q # p
  BY <1>1, <1>3 DEF LogTellsStatus, Tells
<1> QED
  BY <1>2, <1>3

LEMMA ApplyKeepsLog ==
  ASSUME IInv, LogTellsStatus, NEW r \in Requests, tx[r] # NoTx,
         Update(r) \/ Open(r) \/ Archive(r) \/ Delete(r) \/ Support(r)
  PROVE  LogTellsStatus'
<1> DEFINE p == tx[r].proposal
           e == Event(tx[r].op, tx[r].actor, tx[r].from)
<1>1. /\ p \in Proposals /\ e \in Logged /\ e.type = tx[r].op
      /\ tx[r].op \in Operations
  BY OpenRequest, EventType DEF IInv, Event
<1>2. /\ TypeOK /\ proposal[p].status # "ABSENT"
      /\ proposal[p].status \in Live \cup {"DELETED"}
      /\ log[p] \in Seq(Logged) /\ Len(log[p]) = proposal[p].version
  BY <1>1, RowFields, RequestedRow DEF IInv, VersionIsSequence
<1>3. log[p] # <<>>
  BY <1>1, <1>2 DEF TypeOK, Row, Absent
<1>4. Tells(log[p], proposal[p].status)
  BY <1>1, <1>3 DEF LogTellsStatus, Tells
<1>5. PICK status \in Live \cup {"DELETED"} :
        /\ Apply(r, status)
        /\ \/ tx[r].op \in {"update", "support"} /\ status = proposal[p].status
           \/ tx[r].op \in {"open", "archive", "delete"} /\ status = StatusOf(tx[r].op)
  BY <1>2 DEF Update, Open, Archive, Delete, Support, Found, StatusOf
<1>6. /\ proposal'[p].status = status
      /\ \A q \in Proposals : q # p => proposal'[q] = proposal[q]
      /\ log' = [log EXCEPT ![p] = Append(log[p], e)]
  BY <1>1, <1>2, <1>5, RowUpdate DEF Apply
<1>7. Tells(Append(log[p], e), status)
  <2>1. CASE tx[r].op \in {"update", "support"}
    <3>1. e.type \notin Changes /\ status = proposal[p].status
      BY <1>1, <1>5, <2>1 DEF Changes
    <3> HIDE DEF p, e
    <3> QED
      BY <1>1, <1>2, <1>4, <3>1, OtherEntryTellsNothing
  <2>2. CASE tx[r].op \in {"open", "archive", "delete"}
    <3>1. e.type \in Changes /\ status = StatusOf(e.type)
      BY <1>1, <1>5, <2>2 DEF Changes
    <3> HIDE DEF p, e
    <3> QED
      BY <1>1, <1>2, <3>1, ChangeTells
  <2> QED
    BY <1>1, <2>1, <2>2
<1> HIDE DEF p, e
<1> QED
  BY <1>1, <1>6, <1>7, EntryKeepsLog

(* Two entries at once are one after the other.                              *)
LEMMA TwoEntries ==
  ASSUME NEW entries \in Seq(Logged), NEW a \in Logged, NEW b \in Logged
  PROVE  /\ Append(entries, a) \in Seq(Logged)
         /\ entries \o <<a, b>> = Append(Append(entries, a), b)
         /\ Len(<<a, b>>) = 2
<1>1. /\ Append(entries, a) \in Seq(Logged) /\ <<a, b>> \in Seq(Logged)
      /\ Len(<<a, b>>) = 2
  OBVIOUS
<1> DEFINE left == entries \o <<a, b>>
           right == Append(Append(entries, a), b)
<1>2. left \in Seq(Logged) /\ right \in Seq(Logged)
  BY <1>1
<1>3. Len(left) = Len(entries) + 2 /\ Len(right) = Len(entries) + 2
  BY <1>1
<1>4. \A i \in 1 .. Len(entries) + 2 : left[i] = right[i]
  BY <1>1
<1> HIDE DEF left, right
<1>5. left = right
  BY <1>2, <1>3, <1>4
<1> QED
  BY <1>1, <1>5 DEF left, right

LEMMA ServicesKeepLog ==
  ASSUME IInv, LogTellsStatus, NEW p \in Proposals, Gain(p) \/ Lose(p) \/ Invalidate(p)
  PROVE  LogTellsStatus'
<1>1. /\ TypeOK /\ proposal[p].status # "ABSENT" /\ proposal[p].status \in Live
      /\ log[p] \in Seq(Logged)
  BY RowFields DEF IInv, Gain, Lose, Invalidate
<1>2. PICK first \in Seq(Logged), e \in Logged, status \in Live, n \in Nat \ {0} :
        /\ proposal' = Rewritten(p, status, n)
        /\ log' = [log EXCEPT ![p] = Append(first, e)]
        /\ e.type \in Changes /\ status = StatusOf(e.type)
  <2>1. CASE Gain(p)
    <3> DEFINE a == Event("threshold", Nobody, proposal[p].status)
               b == Event("eligible", Nobody, proposal[p].status)
    <3>1. a \in Logged /\ b \in Logged
      BY <1>1, EventType
    <3> HIDE DEF a, b
    <3>2. /\ Append(log[p], a) \in Seq(Logged)
          /\ log[p] \o <<a, b>> = Append(Append(log[p], a), b)
          /\ Len(<<a, b>>) = 2
      BY <1>1, <3>1, TwoEntries
    <3>3. b.type \in Changes /\ "ELIGIBLE" = StatusOf(b.type)
      BY DEF b, Event, Changes, StatusOf
    <3>4. /\ proposal' = Rewritten(p, "ELIGIBLE", Len(<<a, b>>))
          /\ log' = [log EXCEPT ![p] = log[p] \o <<a, b>>]
      BY <2>1 DEF Gain, ChangeStatus, a, b
    <3>5. /\ proposal' = Rewritten(p, "ELIGIBLE", 2)
          /\ log' = [log EXCEPT ![p] = Append(Append(log[p], a), b)]
      BY <3>2, <3>4, Zenon
    <3>6. "ELIGIBLE" \in Live /\ 2 \in Nat \ {0}
      OBVIOUS
    <3> QED
      BY <3>1, <3>2, <3>3, <3>5, <3>6, Zenon
  <2>2. CASE Lose(p) \/ Invalidate(p)
    <3> DEFINE e == Event("lost", Nobody, "ELIGIBLE")
    <3>1. e \in Logged
      BY EventType
    <3>2. log[p] \o <<e>> = Append(log[p], e) /\ Len(<<e>>) = 1
      BY <1>1, <3>1
    <3>3. e.type \in Changes /\ "COLLECTING" = StatusOf(e.type)
      BY DEF Event, Changes, StatusOf
    <3>4. /\ proposal' = Rewritten(p, "COLLECTING", Len(<<e>>))
          /\ log' = [log EXCEPT ![p] = log[p] \o <<e>>]
      BY <2>2 DEF Lose, Invalidate, ChangeStatus
    <3> HIDE DEF e
    <3>5. /\ proposal' = Rewritten(p, "COLLECTING", 1)
          /\ log' = [log EXCEPT ![p] = Append(log[p], e)]
      BY <3>2, <3>4, Zenon
    <3>6. "COLLECTING" \in Live /\ 1 \in Nat \ {0}
      OBVIOUS
    <3> QED
      BY <1>1, <3>1, <3>3, <3>5, <3>6, Zenon
  <2> QED
    BY <2>1, <2>2
<1>3. Tells(Append(first, e), status)
  BY <1>2, ChangeTells
<1>4. /\ proposal'[p].status = status
      /\ \A q \in Proposals : q # p => proposal'[q] = proposal[q]
  BY <1>1, <1>2, RowUpdate
<1> QED
  BY <1>2, <1>3, <1>4, EntryKeepsLog

(* Whichever of the four services changed a proposal, its event log alone    *)
(* tells its status.                                                         *)
THEOREM LogsTellStatuses == Spec => []LogTellsStatus
<1>1. Init => LogTellsStatus
  BY DEF Init, LogTellsStatus
<1>2. IInv /\ LogTellsStatus /\ [Next]_vars => LogTellsStatus'
  <2> SUFFICES ASSUME IInv, LogTellsStatus, [Next]_vars PROVE LogTellsStatus'
    OBVIOUS
  <2>1. ASSUME NEW p \in Proposals, NEW actor \in Actors, Create(p, actor)
        PROVE  LogTellsStatus'
    <3> DEFINE e == Event("created", actor, "ABSENT")
    <3>1. e \in Logged /\ e.type \in Changes /\ "CREATED" = StatusOf(e.type)
      BY EventType DEF Event, Changes, StatusOf
    <3>2. <<e>> = Append(<<>>, e) /\ <<>> \in Seq(Logged)
      OBVIOUS
    <3>3. /\ log' = [log EXCEPT ![p] = <<e>>]
          /\ proposal'[p].status = "CREATED"
          /\ \A q \in Proposals : q # p => proposal'[q] = proposal[q]
      BY <2>1 DEF Create, IInv, TypeOK
    <3> HIDE DEF e
    <3>4. Tells(<<e>>, "CREATED")
      BY <3>1, <3>2, ChangeTells
    <3> QED
      BY <3>3, <3>4, EntryKeepsLog
  <2>2. ASSUME NEW r \in Requests,
               Update(r) \/ Open(r) \/ Archive(r) \/ Delete(r) \/ Support(r)
        PROVE  LogTellsStatus'
    BY <2>2, ApplyKeepsLog DEF Update, Open, Archive, Delete, Support
  <2>3. ASSUME NEW p \in Proposals, Gain(p) \/ Lose(p) \/ Invalidate(p)
        PROVE  LogTellsStatus'
    BY <2>3, ServicesKeepLog
  <2>4. CASE UNCHANGED <<proposal, log>>
    BY <2>4 DEF LogTellsStatus
  <2> QED
    BY <2>1, <2>2, <2>3, <2>4 DEF Next, vars, Read, Conflict, Abort
<1> QED
  BY <1>1, <1>2, Invariance, PTL DEF Spec
=============================================================================
