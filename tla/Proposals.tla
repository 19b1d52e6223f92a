----------------------------- MODULE Proposals -----------------------------
(***************************************************************************)
(* The life of a proposal: src/src/proposals/proposal-service.ts, with the *)
(* steps by which the support, score and administration services change    *)
(* the same row.                                                           *)
(*                                                                         *)
(* A request of the proposal or support service reads the row without a    *)
(* lock, checks permission and status, and builds its event; later, in the *)
(* same READ COMMITTED transaction, it updates the row if the row has the  *)
(* expected version, and appends the event if the stream has it too.  The  *)
(* expected version of a proposal request is what the client sent, not     *)
(* what was read: a client that pipelines requests sends the version its   *)
(* own earlier request will lead to.                                       *)
(*                                                                         *)
(* The UPDATE locks the row, every writer of the stream has locked the row *)
(* first, and a transaction that loses takes all it did back: so UPDATE,   *)
(* append and COMMIT are one step.  Nothing in src writes authorizations   *)
(* or research_jobs, whose rows would make delete fail.                    *)
(***************************************************************************)
EXTENDS Integers, Sequences, FiniteSets

CONSTANTS
  Proposals,    \* public_id
  Actors,       \* authenticated actors
  Moderators,   \* those with a role in PRIVILEGED_ROLES
  Requests,     \* requests that may be in progress at the same time
  Nobody,       \* no author, or no request
  Ahead,        \* how far a client's expectedVersion may be ahead of the row
  MaxVersion    \* bound: the versions modelled

ASSUME ActorsAssumption == Moderators \subseteq Actors /\ Nobody \notin Actors
ASSUME ProposalsAssumption == Nobody \notin Proposals
ASSUME BoundsAssumption == Ahead \in Nat /\ MaxVersion \in Nat \ {0}

VARIABLES
  proposal,   \* the row: author, status and version
  stream,     \* aggregate_streams.current_sequence of the proposal
  log,        \* the proposal's events, in the order of their sequences
  tx          \* the request in progress: what it checked and what it will write

vars == <<proposal, stream, log, tx>>

Live == {"CREATED", "OPEN", "COLLECTING", "THRESHOLD_REACHED", "ELIGIBLE", "ARCHIVED"}

Operations == {"update", "open", "archive", "delete", "support"}

Absent == [author |-> Nobody, status |-> "ABSENT", version |-> 0]

\* from is the status that was read, in the events' payload as from or
\* previousStatus; seen is the version that was read.
NoTx == [proposal |-> Nobody, op |-> "update", actor |-> Nobody,
         from |-> "CREATED", seen |-> 0, expected |-> 0]

Init ==
  /\ proposal = [p \in Proposals |-> Absent]
  /\ stream = [p \in Proposals |-> 0]
  /\ log = [p \in Proposals |-> <<>>]
  /\ tx = [r \in Requests |-> NoTx]

-----------------------------------------------------------------------------
\* Bound: n more versions fit.
Room(p, n) == proposal[p].version + n <= MaxVersion

\* The events a mutation appends; only their type, actor and from matter here.
Event(type, actor, from) == [type |-> type, actor |-> actor, from |-> from]

\* The rows when one of them gets a status and n versions.
Rewritten(p, status, n) ==
  [proposal EXCEPT ![p] = [author |-> proposal[p].author, status |-> status,
                           version |-> proposal[p].version + n]]

\* create: the row and its first event, in one transaction.
Create(p, actor) ==
  /\ proposal[p] = Absent /\ Room(p, 1)
  /\ stream[p] = 0
  /\ proposal' = [proposal EXCEPT ![p] =
                    [author |-> actor, status |-> "CREATED", version |-> 1]]
  /\ stream' = [stream EXCEPT ![p] = 1]
  /\ log' = [log EXCEPT ![p] = <<Event("created", actor, "ABSENT")>>]
  /\ UNCHANGED tx

\* requireManage.
Manages(actor, row) == actor \in Moderators \cup {row.author}

MayUpdate(actor, row) ==
  Manages(actor, row) /\ row.status \in {"CREATED", "OPEN", "COLLECTING"}

MayOpen(actor, row) == Manages(actor, row) /\ row.status = "CREATED"

\* Nothing in src writes THRESHOLD_REACHED, but archive allows for it.
MayArchive(actor, row) ==
  /\ Manages(actor, row)
  /\ row.status \in {"CREATED", "OPEN", "COLLECTING", "THRESHOLD_REACHED", "ELIGIBLE"}

MayDelete(actor, row) ==
  /\ Manages(actor, row)
  /\ actor \in Moderators \/ row.status = "CREATED"

\* proposalForSupport: anybody, while the proposal collects support.
MaySupport(row) == row.status \in {"OPEN", "COLLECTING"}

\* The check each operation makes on the row it has read.
Checked(op, actor, row) ==
  \/ op = "update" /\ MayUpdate(actor, row)
  \/ op = "open" /\ MayOpen(actor, row)
  \/ op = "archive" /\ MayArchive(actor, row)
  \/ op = "delete" /\ MayDelete(actor, row)
  \/ op = "support" /\ MaySupport(row)

\* The first half of a request.  A support request expects the version it read.
Read(r, p, op, actor) ==
  /\ tx[r] = NoTx
  /\ proposal[p].status \in Live
  /\ Checked(op, actor, proposal[p])
  /\ \E expected \in 1 .. proposal[p].version + Ahead :
       /\ op = "support" => expected = proposal[p].version
       /\ tx' = [tx EXCEPT ![r] =
                   [proposal |-> p, op |-> op, actor |-> actor,
                    from |-> proposal[p].status, seen |-> proposal[p].version,
                    expected |-> expected]]
  /\ UNCHANGED <<proposal, stream, log>>

\* Fault: the versions are not compared.
UnmovedAny(r) == TRUE

\* UPDATE ... WHERE version = expectedVersion, and append's comparison.
Unmoved(r) ==
  /\ proposal[tx[r].proposal].version = tx[r].expected
  /\ stream[tx[r].proposal] = tx[r].expected

\* The second half, in one transaction: the row gets a version and perhaps a
\* status, the stream advances, the event is logged.
Apply(r, status) ==
  LET p == tx[r].proposal
  IN  /\ Unmoved(r) /\ Room(p, 1)
      /\ proposal' = Rewritten(p, status, 1)
      /\ stream' = [stream EXCEPT ![p] = stream[p] + 1]
      /\ log' = [log EXCEPT ![p] =
                   Append(log[p], Event(tx[r].op, tx[r].actor, tx[r].from))]
      /\ tx' = [tx EXCEPT ![r] = NoTx]

\* The status the row has when the statement runs, not the one that was read.
Found(r) == proposal[tx[r].proposal].status

Update(r) == tx[r] # NoTx /\ tx[r].op = "update" /\ Apply(r, Found(r))
Open(r) == tx[r] # NoTx /\ tx[r].op = "open" /\ Apply(r, "OPEN")
Archive(r) == tx[r] # NoTx /\ tx[r].op = "archive" /\ Apply(r, "ARCHIVED")
Delete(r) == tx[r] # NoTx /\ tx[r].op = "delete" /\ Apply(r, "DELETED")
Support(r) == tx[r] # NoTx /\ tx[r].op = "support" /\ Apply(r, Found(r))

\* ProposalConflictError or EventConcurrencyError.
Conflict(r) ==
  /\ tx[r] # NoTx /\ ~Unmoved(r)
  /\ tx' = [tx EXCEPT ![r] = NoTx]
  /\ UNCHANGED <<proposal, stream, log>>

\* Any other failure, the request's own checks or a lost connection.
Abort(r) ==
  /\ tx[r] # NoTx
  /\ tx' = [tx EXCEPT ![r] = NoTx]
  /\ UNCHANGED <<proposal, stream, log>>

\* A status change by a service that holds the row's lock.
ChangeStatus(p, status, events) ==
  /\ Room(p, Len(events))
  /\ proposal' = Rewritten(p, status, Len(events))
  /\ stream' = [stream EXCEPT ![p] = stream[p] + Len(events)]
  /\ log' = [log EXCEPT ![p] = log[p] \o events]
  /\ UNCHANGED tx

\* Fault: the version is raised by one for two events.
GainOneVersion(p) ==
  /\ proposal[p].status \in {"OPEN", "COLLECTING"} /\ Room(p, 2)
  /\ proposal' = Rewritten(p, "ELIGIBLE", 1)
  /\ stream' = [stream EXCEPT ![p] = stream[p] + 2]
  /\ log' = [log EXCEPT ![p] =
               log[p] \o <<Event("threshold", Nobody, proposal[p].status),
                           Event("eligible", Nobody, proposal[p].status)>>]
  /\ UNCHANGED tx

\* recalculate finds the proposal eligible: two events, two versions.
Gain(p) ==
  /\ proposal[p].status \in {"OPEN", "COLLECTING"}
  /\ stream[p] = proposal[p].version
  /\ ChangeStatus(p, "ELIGIBLE",
       <<Event("threshold", Nobody, proposal[p].status),
         Event("eligible", Nobody, proposal[p].status)>>)

\* recalculate finds it no longer eligible.
Lose(p) ==
  /\ proposal[p].status = "ELIGIBLE"
  /\ stream[p] = proposal[p].version
  /\ ChangeStatus(p, "COLLECTING", <<Event("lost", Nobody, "ELIGIBLE")>>)

\* Fault: eligibility is withdrawn without a new version and without an event.
InvalidateSilently(p) ==
  /\ proposal[p].status = "ELIGIBLE"
  /\ proposal' = [proposal EXCEPT ![p].status = "COLLECTING"]
  /\ UNCHANGED <<stream, log, tx>>

\* moderate withdraws eligibility; it appends after whatever the stream holds.
Invalidate(p) ==
  /\ proposal[p].status = "ELIGIBLE"
  /\ ChangeStatus(p, "COLLECTING", <<Event("lost", Nobody, "ELIGIBLE")>>)

Next ==
  \/ \E p \in Proposals, actor \in Actors : Create(p, actor)
  \/ \E r \in Requests, p \in Proposals, op \in Operations, actor \in Actors :
       Read(r, p, op, actor)
  \/ \E r \in Requests :
       Update(r) \/ Open(r) \/ Archive(r) \/ Delete(r) \/ Support(r)
  \/ \E r \in Requests : Conflict(r) \/ Abort(r)
  \/ \E p \in Proposals : Gain(p) \/ Lose(p) \/ Invalidate(p)

Spec == Init /\ [][Next]_vars

-----------------------------------------------------------------------------
Row == [author : Actors, status : Live \cup {"DELETED"}, version : Nat \ {0}]

Logged == [type : Operations \cup {"created", "threshold", "eligible", "lost"},
           actor : Actors \cup {Nobody}, from : Live \cup {"ABSENT"}]

\* An author's request to delete in progress has found the proposal unopened.
InProgress ==
  {t \in [proposal : Proposals, op : Operations, actor : Actors,
          from : Live, seen : Nat, expected : Nat] :
     t.op = "delete" /\ t.actor \notin Moderators => t.from = "CREATED"}

TypeOK ==
  /\ proposal \in [Proposals -> Row \cup {Absent}]
  /\ stream \in [Proposals -> Nat]
  /\ log \in [Proposals -> Seq(Logged)]
  /\ tx \in [Requests -> InProgress \cup {NoTx}]

(* The version of a proposal is the length of its event log, whichever of    *)
(* the four services changed it: the version a client is shown is always a   *)
(* sequence the event store will accept (PROPOSALS.md, Concurrencia).        *)
VersionIsSequence ==
  \A p \in Proposals :
    /\ proposal[p].version = stream[p]
    /\ stream[p] = Len(log[p])

\* The status the last event to change it left behind.
Changes == {"created", "open", "archive", "delete", "eligible", "lost"}

StatusOf(type) ==
  CASE type = "created" -> "CREATED"
    [] type = "open" -> "OPEN"
    [] type = "archive" -> "ARCHIVED"
    [] type = "delete" -> "DELETED"
    [] type = "eligible" -> "ELIGIBLE"
    [] type = "lost" -> "COLLECTING"

(* The status of a proposal can be told from its event log alone: no service *)
(* changes it without an event that says so.                                 *)
LogTellsStatus ==
  \A p \in Proposals : log[p] # <<>> =>
    \E i \in DOMAIN log[p] :
      /\ log[p][i].type \in Changes
      /\ proposal[p].status = StatusOf(log[p][i].type)
      /\ \A j \in i + 1 .. Len(log[p]) : log[p][j].type \notin Changes

(* A request whose client had seen the version it expects is applied to the  *)
(* status it was checked against, though the row was read without a lock:    *)
(* no transition that was not checked, no event with a false from.           *)
CheckedIsApplied ==
  [][\A r \in Requests :
       /\ tx[r] # NoTx /\ tx'[r] # tx[r]
       /\ log'[tx[r].proposal] # log[tx[r].proposal]
       /\ tx[r].expected <= tx[r].seen
       => tx[r].from = proposal[tx[r].proposal].status]_vars

(* An author deletes only a proposal that was never opened, by the event     *)
(* log: after it was opened only moderation may (PROPOSALS.md, Permisos).    *)
AuthorsDeleteUnopened ==
  \A p \in Proposals : \A i, j \in DOMAIN log[p] :
    /\ log[p][j].type = "delete" /\ log[p][j].actor \notin Moderators
    /\ i < j
    => log[p][i].type # "open"
=============================================================================
