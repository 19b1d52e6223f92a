------------------------------- MODULE Outbox -------------------------------
(***************************************************************************)
(* The transactional outbox of src/src/events/outbox.ts: rows of           *)
(* outbox_messages are claimed by workers under a lease, completed as      *)
(* PUBLISHED or FAILED by the worker that holds the lease, and claimed     *)
(* again once a lease has run out or a retry delay has passed.             *)
(*                                                                         *)
(* A row is named by its place in ORDER BY created_at, id.  created_at is  *)
(* the start of the inserting transaction and id a random UUID, so rows    *)
(* become visible in any order of their names.                             *)
(*                                                                         *)
(* Timestamps are kept as distances from the current time: the database    *)
(* compares them with CURRENT_TIMESTAMP and never reads them otherwise.    *)
(***************************************************************************)
EXTENDS Integers, FiniteSets

CONSTANTS
  Messages,     \* rows, numbered by (created_at, id)
  Workers,      \* worker identities
  NoWorker,     \* lease_owner IS NULL
  BatchSize,    \* claim's batchSize
  LeaseTicks,   \* claim's leaseSeconds
  RetryTicks    \* markFailed's retryDelaySeconds

ASSUME MessagesAssumption == Messages \subseteq Nat
ASSUME WorkersAssumption == NoWorker \notin Workers
ASSUME DurationsAssumption ==
  /\ BatchSize \in Nat \ {0}
  /\ LeaseTicks \in Nat \ {0}
  /\ RetryTicks \in Nat \ {0}

VARIABLES
  status,   \* the row's status, "ABSENT" before its transaction commits
  owner,    \* lease_owner
  lease,    \* lease_expires_at - now, -1 when the lease has run out
  delay,    \* available_at - now, 0 when the row is available
  tx,       \* the transaction each worker has open
  held      \* what each worker remembers of its claims: ticks left, -1 if none

outboxVars == <<status, owner, lease, delay, tx, held>>

Statuses == {"ABSENT", "PENDING", "PROCESSING", "PUBLISHED", "FAILED"}

\* age is the time since BEGIN, which CURRENT_TIMESTAMP keeps reporting; beyond
\* LeaseTicks + RetryTicks it makes no difference and is no longer counted.
MaxAge == LeaseTicks + RetryTicks

Transactions ==
  [kind : {"none", "claim", "publish", "fail"}, rows : SUBSET Messages,
   age : 0 .. MaxAge, inTime : BOOLEAN]

Closed == [kind |-> "none", rows |-> {}, age |-> 0, inTime |-> FALSE]

OutboxInit ==
  /\ status = [m \in Messages |-> "ABSENT"]
  /\ owner = [m \in Messages |-> NoWorker]
  /\ lease = [m \in Messages |-> -1]
  /\ delay = [m \in Messages |-> 0]
  /\ tx = [w \in Workers |-> Closed]
  /\ held = [w \in Workers |-> [m \in Messages |-> -1]]

-----------------------------------------------------------------------------
\* Fault: the claim does not lock the rows it selects.
LockedRowsNone == {}

(* Rows another transaction has locked.  Only a claim keeps its rows locked  *)
(* across steps: a completion locks its row when it updates it, as the last  *)
(* thing it does, so update and commit are one step, and a claim that        *)
(* skipped the row meanwhile is a claim made after that step.                *)
LockedRows == UNION {tx[w].rows : w \in {v \in Workers : tx[v].kind = "claim"}}

\* Fault: a lease counts as expired at the instant it expires.
ClaimableAtExpiry(m) ==
  \/ status[m] \in {"PENDING", "FAILED"} /\ delay[m] = 0
  \/ status[m] = "PROCESSING" /\ lease[m] <= 0

\* Fault: expired leases are not recovered.
ClaimableWithoutRecovery(m) ==
  status[m] \in {"PENDING", "FAILED"} /\ delay[m] = 0

\* The WHERE clause of the claim.
Claimable(m) ==
  \/ status[m] \in {"PENDING", "FAILED"} /\ delay[m] = 0
  \/ status[m] = "PROCESSING" /\ lease[m] < 0

\* FOR UPDATE SKIP LOCKED.
Free == {m \in Messages : Claimable(m)} \ LockedRows

\* ORDER BY created_at, id LIMIT batchSize over the rows not skipped.
IsBatch(batch) ==
  /\ batch \subseteq Free
  /\ \A m \in batch : Cardinality({n \in Free : n < m}) < BatchSize
  /\ \A m \in Free \ batch : Cardinality({n \in Free : n < m}) >= BatchSize

\* EventStore.append commits a row: PENDING and available at once.
Insert(m) ==
  /\ status[m] = "ABSENT"
  /\ status' = [status EXCEPT ![m] = "PENDING"]
  /\ UNCHANGED <<owner, lease, delay, tx, held>>

\* claim: the candidates are selected and locked.
ClaimSelect(w) ==
  /\ tx[w].kind = "none"
  /\ \E batch \in SUBSET Messages :
       /\ batch # {} /\ IsBatch(batch)
       /\ tx' = [tx EXCEPT ![w] = [Closed EXCEPT !.kind = "claim", !.rows = batch]]
  /\ UNCHANGED <<status, owner, lease, delay, held>>

\* Fault: the lease lasts one unit longer than asked for.
LeaseLeftOffByOne(age) == IF age > LeaseTicks THEN -1 ELSE LeaseTicks - age + 1

\* A lease of LeaseTicks counted from the start of the claiming transaction.
LeaseLeft(age) == IF age > LeaseTicks THEN -1 ELSE LeaseTicks - age

\* claim: the update commits and the worker receives the messages.
ClaimCommit(w) ==
  /\ tx[w].kind = "claim"
  /\ LET rows == tx[w].rows
         left == LeaseLeft(tx[w].age)
     IN  /\ status' = [m \in Messages |-> IF m \in rows THEN "PROCESSING" ELSE status[m]]
         /\ owner' = [m \in Messages |-> IF m \in rows THEN w ELSE owner[m]]
         /\ lease' = [m \in Messages |-> IF m \in rows THEN left ELSE lease[m]]
         /\ held' = [held EXCEPT ![w] =
                       [m \in Messages |-> IF m \in rows THEN left ELSE @[m]]]
  /\ tx' = [tx EXCEPT ![w] = Closed]
  /\ UNCHANGED delay

\* markPublished or markFailed: BEGIN.  The caller names any message, its own
\* or not, whether or not the lease is still running.  lease_expires_at >=
\* CURRENT_TIMESTAMP compares with this moment: the lease of a row this worker
\* still owns when the UPDATE runs cannot have changed in between.
CompleteBegin(w, m, kind) ==
  /\ tx[w].kind = "none"
  /\ status[m] # "ABSENT"
  /\ tx' = [tx EXCEPT ![w] = [Closed EXCEPT !.kind = kind, !.rows = {m},
                                          !.inTime = lease[m] >= 0]]
  /\ UNCHANGED <<status, owner, lease, delay, held>>

\* Fault: a completion does not check who owns the lease.
MayCompleteAnyOwner(w, m) == status[m] = "PROCESSING" /\ tx[w].inTime

\* The WHERE clause of updateLeasedMessage.
MayComplete(w, m) ==
  /\ status[m] = "PROCESSING"
  /\ owner[m] = w
  /\ tx[w].inTime

\* A retry delay counted from the start of the completing transaction.
DelayLeft(age) == IF age > RetryTicks THEN 0 ELSE RetryTicks - age

Release(w, m) ==
  /\ owner' = [owner EXCEPT ![m] = NoWorker]
  /\ lease' = [lease EXCEPT ![m] = -1]
  /\ held' = [held EXCEPT ![w][m] = -1]
  /\ tx' = [tx EXCEPT ![w] = Closed]

MarkPublished(w, m) ==
  /\ tx[w].kind = "publish" /\ tx[w].rows = {m}
  /\ m \notin LockedRows
  /\ MayComplete(w, m)
  /\ status' = [status EXCEPT ![m] = "PUBLISHED"]
  /\ Release(w, m)
  /\ UNCHANGED delay

MarkFailed(w, m) ==
  /\ tx[w].kind = "fail" /\ tx[w].rows = {m}
  /\ m \notin LockedRows
  /\ MayComplete(w, m)
  /\ status' = [status EXCEPT ![m] = "FAILED"]
  /\ delay' = [delay EXCEPT ![m] = DelayLeft(tx[w].age)]
  /\ Release(w, m)

\* No row matched: OutboxLeaseError, and the worker gives the message up.
LeaseError(w, m) ==
  /\ tx[w].kind \in {"publish", "fail"} /\ tx[w].rows = {m}
  /\ m \notin LockedRows
  /\ ~MayComplete(w, m)
  /\ tx' = [tx EXCEPT ![w] = Closed]
  /\ held' = [held EXCEPT ![w][m] = -1]
  /\ UNCHANGED <<status, owner, lease, delay>>

\* The worker's process stops: its open transaction is rolled back and it
\* forgets its messages.  It may come back under the same identity.
Crash(w) ==
  /\ tx[w].kind # "none" \/ \E m \in Messages : held[w][m] >= 0
  /\ tx' = [tx EXCEPT ![w] = Closed]
  /\ held' = [held EXCEPT ![w] = [m \in Messages |-> -1]]
  /\ UNCHANGED <<status, owner, lease, delay>>

\* One unit of time, for each kind of distance.
Later(left) == IF left < 0 THEN -1 ELSE left - 1
Nearer(wait) == IF wait = 0 THEN 0 ELSE wait - 1
Older(age) == IF age = MaxAge THEN age ELSE age + 1

Tick ==
  /\ lease' = [m \in Messages |-> Later(lease[m])]
  /\ delay' = [m \in Messages |-> Nearer(delay[m])]
  /\ held' = [w \in Workers |-> [m \in Messages |-> Later(held[w][m])]]
  /\ tx' = [w \in Workers |->
              IF tx[w].kind = "none" THEN tx[w] ELSE [tx[w] EXCEPT !.age = Older(@)]]
  /\ UNCHANGED <<status, owner>>

Complete(w, m) ==
  \/ \E kind \in {"publish", "fail"} : CompleteBegin(w, m, kind)
  \/ MarkPublished(w, m)
  \/ MarkFailed(w, m)
  \/ LeaseError(w, m)

OutboxNext ==
  \/ \E m \in Messages : Insert(m)
  \/ \E w \in Workers : ClaimSelect(w) \/ ClaimCommit(w) \/ Crash(w)
  \/ \E w \in Workers, m \in Messages : Complete(w, m)
  \/ Tick

\* Time passes, whatever the workers do.
OutboxSpec == OutboxInit /\ [][OutboxNext]_outboxVars /\ WF_outboxVars(Tick)

-----------------------------------------------------------------------------
OutboxTypeOK ==
  /\ status \in [Messages -> Statuses]
  /\ owner \in [Messages -> Workers \cup {NoWorker}]
  /\ lease \in [Messages -> -1 .. LeaseTicks]
  /\ delay \in [Messages -> 0 .. RetryTicks]
  /\ tx \in [Workers -> Transactions]
  /\ held \in [Workers -> [Messages -> -1 .. LeaseTicks]]

(* A worker whose claim has not run out by its own reckoning still owns the  *)
(* row: no other worker has claimed or completed the message behind its      *)
(* back.  "Mutual exclusion by lease", for outbox.ts claim and               *)
(* updateLeasedMessage together.                                             *)
LiveClaimOwnsRow ==
  \A w \in Workers, m \in Messages :
    held[w][m] >= 0 => /\ status[m] = "PROCESSING"
                       /\ owner[m] = w
                       /\ lease[m] = held[w][m]

(* Once a completion has committed PUBLISHED, no claim or failure report     *)
(* that was already under way brings the message back.                       *)
PublishedIsFinal ==
  [][\A m \in Messages : status[m] = "PUBLISHED" => status'[m] = "PUBLISHED"]_outboxVars

(* A claimed message is never stranded: it is completed or becomes claimable *)
(* again even when the worker that claimed it has crashed.                   *)
ClaimsEnd ==
  \A m \in Messages :
    status[m] = "PROCESSING" ~> status[m] = "PUBLISHED" \/ Claimable(m)

\* The outbox seen as leased work: a worker is at an item while its claim lives.
Holder(m) ==
  IF \E w \in Workers : held[w][m] >= 0
    THEN CHOOSE w \in Workers : held[w][m] >= 0
    ELSE NoWorker

Work == INSTANCE LeasedWork WITH
          Items <- Messages,
          Nobody <- NoWorker,
          at <- [m \in Messages |-> Holder(m)],
          done <- {m \in Messages : status[m] = "PUBLISHED"}

(* The outbox implements leased work.                                        *)
LeasedWorkSpec == Work!Spec
=============================================================================
