------------------------------ MODULE Collection ------------------------------
(***************************************************************************)
(* Collection of blocks (src/src/blockchain/blockchain-service.ts, with the*)
(* statements of blockchain-repository.ts).                                *)
(*                                                                         *)
(* A call fetches a block from its source outside any transaction and      *)
(* stores it in one.  A range does so block by block under one run.        *)
(***************************************************************************)
EXTENDS CrossValidation, Integers, SequencesExt, FiniteSetsExt

CONSTANTS
  Sources,     \* data sources of the network, by name
  Numbers,     \* block numbers
  Ranges,      \* ranges that are asked, pairs of numbers
  Runs,        \* identifiers for collection runs
  Calls,       \* calls that may be running at the same time
  Answer(_, _),  \* the blocks that a source may answer with to a number
  None

ASSUME SourcesAssumption == IsFiniteSet(Sources)

ASSUME NumbersAssumption ==
  /\ Numbers \subseteq Nat
  /\ \A p \in Ranges : /\ p \in Numbers \X Numbers /\ p[1] <= p[2]
                       /\ p[1] .. p[2] \subseteq Numbers

ASSUME AnswerAssumption ==
  \A s \in Sources, n \in Numbers : \A raw \in Answer(s, n) :
    /\ raw.number \in Numbers
    /\ raw.fields = [f \in BlockFields |-> raw.fields[f]]
    /\ IsFiniteSet(raw.txs)
    /\ \A t \in raw.txs :
         t = [hash |-> t.hash, fields |-> [f \in TxFields |-> t.fields[f]]]

Raws == UNION {Answer(a[1], a[2]) : a \in Sources \X Numbers}

\* What insertTransactions keeps: an entry without a hash is passed over.
Kept(raw) == [fields |-> raw.fields, txs |-> {t \in raw.txs : t.hash # None}]

Count(raw) == Cardinality(Kept(raw).txs)

Block ==
  [fields : {raw.fields : raw \in Raws},
   txs : SUBSET {t \in UNION {raw.txs : raw \in Raws} : t.hash # None}]

ASSUME NoneAssumption == None \notin Sources \cup Runs \cup Raws \cup Block

VARIABLES
  stored,      \* blockchain_blocks with its blockchain_transactions
  run,         \* data_collection_runs
  events,      \* blockchain_block_collected events, the stream of each run
  call         \* what each running call has in memory

vars == <<stored, run, events, call>>

NoRun == [status |-> "ABSENT", source |-> None, first |-> 0, last |-> 0, blocks |-> 0, txs |-> 0]

NoCall == [at |-> "idle", run |-> None, source |-> None, number |-> 0, last |-> 0,
           collected |-> 0, txs |-> 0, raw |-> None]

Init ==
  /\ stored = [b \in Sources \X Numbers |-> None]
  /\ run = [r \in Runs |-> NoRun]
  /\ events = [r \in Runs |-> <<>>]
  /\ call = [c \in Calls |-> NoCall]

\* A new identifier; which one is of no matter.
NewRun == CHOOSE r \in Runs : run[r] = NoRun

RunsLeft == \E r \in Runs : run[r] = NoRun

Go(c, t) == call' = [call EXCEPT ![c] = t]

Write(r, v) == run' = [run EXCEPT ![r] = v]

-----------------------------------------------------------------------------
\* collectRange and collectBlock.  A block alone has no run before it is stored.
StartRange(c, s, p) ==
  /\ call[c] = NoCall
  /\ RunsLeft
  /\ Write(NewRun, [NoRun EXCEPT !.status = "RUNNING", !.source = s,
                                 !.first = p[1], !.last = p[2]])
  /\ Go(c, [NoCall EXCEPT !.at = "fetching", !.run = NewRun, !.source = s,
                          !.number = p[1], !.last = p[2]])
  /\ UNCHANGED <<stored, events>>

StartBlock(c, s, n) ==
  /\ call[c] = NoCall
  /\ Go(c, [NoCall EXCEPT !.at = "fetching", !.source = s, !.number = n, !.last = n])
  /\ UNCHANGED <<stored, run, events>>

Fetching(c) == call[c].at = "fetching" /\ call[c].number <= call[c].last

\* Fault: a block that cannot be fetched is passed over.
RangeFailsOn(c) ==
  /\ Fetching(c) /\ call[c].run # None
  /\ Go(c, [call[c] EXCEPT !.number = call[c].number + 1])
  /\ UNCHANGED <<stored, run, events>>

\* failCollectionRun, with the counters of the call.
RangeFails(c) ==
  LET t == call[c]
  IN  /\ Fetching(c) /\ t.run # None
      /\ Write(t.run, [run[t.run] EXCEPT
                          !.status = IF t.collected > 0 THEN "PARTIAL" ELSE "FAILED",
                          !.blocks = t.collected, !.txs = t.txs])
      /\ Go(c, NoCall)
      /\ UNCHANGED <<stored, events>>

\* insertFailedRun.
BlockFails(c) ==
  LET t == call[c]
  IN  /\ Fetching(c) /\ t.run = None
      /\ RunsLeft
      /\ Write(NewRun, [NoRun EXCEPT !.status = "FAILED", !.source = t.source,
                                     !.first = t.number, !.last = t.number])
      /\ Go(c, NoCall)
      /\ UNCHANGED <<stored, events>>

\* What is asked, and where the answer is stored: under the number it says it has.
Asked(c) == <<call[c].source, call[c].number>>

Cell(c) == <<call[c].source, call[c].raw.number>>

\* On to the next block of the range.
OnFrom(t) == [t EXCEPT !.at = "fetching", !.number = t.number + 1, !.raw = None]

\* Fault: the range stays at the block that is there.
SkippedStays(t) == t

Skipped(t) == OnFrom(t)

\* The source has answered, whenever it did, and blockExistsForSource finds the
\* block: a range passes over it, a block alone is refused.
Exists(c) ==
  /\ Fetching(c)
  /\ stored[Asked(c)] # None
  /\ Go(c, IF call[c].run = None THEN NoCall ELSE Skipped(call[c]))
  /\ UNCHANGED <<stored, run, events>>

Missing(c) ==
  /\ Fetching(c)
  /\ stored[Asked(c)] = None
  /\ \E raw \in Answer(call[c].source, call[c].number) :
       Go(c, [call[c] EXCEPT !.at = "inserting", !.raw = raw])
  /\ UNCHANGED <<stored, run, events>>

\* UNIQUE (network_id, block_number, data_source_id) and
\* UNIQUE (network_id, tx_hash, data_source_id), the second within a block as well.
Unique(s, raw) ==
  LET txs == Kept(raw).txs
  IN  /\ stored[<<s, raw.number>>] = None
      /\ \A t, u \in txs : t.hash = u.hash => t = u
      /\ \A m \in Numbers : stored[<<s, m>>] # None =>
           HashesIn(stored[<<s, m>>]) \cap {t.hash : t \in txs} = {}

Insert(c) ==
  /\ call[c].at = "inserting"
  /\ Unique(call[c].source, call[c].raw)
  /\ stored' = [stored EXCEPT ![Cell(c)] = Kept(call[c].raw)]

\* Fault: the counters of the run are written as they were.
ProgressBefore(t) == [blocks |-> t.collected, txs |-> t.txs]

\* updateRunProgress.
Progress(t) == [blocks |-> t.collected + 1, txs |-> t.txs + Count(t.raw)]

Told(t) == [number |-> t.raw.number, count |-> Count(t.raw)]

\* The transaction that stores a block of a range commits.  It waits for others
\* that insert the same, so their order is that of their commits.
StoreInRange(c) ==
  LET t == call[c]
      p == Progress(t)
  IN  /\ t.run # None
      /\ Insert(c)
      /\ Len(events[t.run]) = t.collected
      /\ events' = [events EXCEPT ![t.run] = Append(events[t.run], Told(t))]
      /\ Write(t.run, [run[t.run] EXCEPT !.blocks = p.blocks, !.txs = p.txs])
      /\ Go(c, [OnFrom(t) EXCEPT !.collected = t.collected + 1, !.txs = t.txs + Count(t.raw)])

\* The transaction that stores a block alone, with its run.
StoreBlock(c) ==
  LET t == call[c]
  IN  /\ t.run = None
      /\ RunsLeft
      /\ Insert(c)
      /\ events' = [events EXCEPT ![NewRun] = <<Told(t)>>]
      /\ Write(NewRun, [status |-> "COMPLETED", source |-> t.source, first |-> t.number,
                        last |-> t.number, blocks |-> 1, txs |-> Count(t.raw)])
      /\ Go(c, NoCall)

\* An insertion violates a unique constraint: the transaction is rolled back and
\* the call ends.  Nobody ends its run.
Violate(c) ==
  /\ call[c].at = "inserting"
  /\ ~Unique(call[c].source, call[c].raw)
  /\ Go(c, NoCall)
  /\ UNCHANGED <<stored, run, events>>

\* The process stops, the database fails or a raw block is too large.
Throw(c) ==
  /\ call[c] # NoCall
  /\ Go(c, NoCall)
  /\ UNCHANGED <<stored, run, events>>

\* completeRangeCollectionRun, with the counters of the call.
Finish(c) ==
  LET t == call[c]
  IN  /\ t.at = "fetching" /\ t.number > t.last
      /\ Write(t.run, [run[t.run] EXCEPT !.status = "COMPLETED", !.blocks = t.collected,
                                         !.txs = t.txs])
      /\ Go(c, NoCall)
      /\ UNCHANGED <<stored, events>>

\* What a call does by itself when the source answers.
Proceed(c) ==
  Exists(c) \/ Missing(c) \/ StoreInRange(c) \/ StoreBlock(c) \/ Violate(c) \/ Finish(c)

Next ==
  \E c \in Calls :
    \/ \E s \in Sources :
         \/ \E p \in Ranges : StartRange(c, s, p)
         \/ \E n \in Numbers : StartBlock(c, s, n)
    \/ Proceed(c)
    \/ RangeFails(c) \/ BlockFails(c) \/ Throw(c)

Spec == Init /\ [][Next]_vars

\* A fetch that does not fail within its timeout is answered, and the loop goes on.
FairSpec == Spec /\ \A c \in Calls : WF_vars(Proceed(c))

-----------------------------------------------------------------------------
Run ==
  [status : {"ABSENT", "RUNNING", "COMPLETED", "FAILED", "PARTIAL"},
   source : Sources \cup {None}, first : Nat, last : Nat, blocks : Nat, txs : Nat]

Call ==
  [at : {"idle", "fetching", "inserting"}, run : Runs \cup {None},
   source : Sources \cup {None}, number : Nat, last : Nat,
   collected : Nat, txs : Nat, raw : Raws \cup {None}]

TypeOK ==
  /\ stored \in [Sources \X Numbers -> Block \cup {None}]
  /\ run \in [Runs -> Run]
  /\ events \in [Runs -> Seq([number : Numbers, count : Nat])]
  /\ call \in [Calls -> Call]

\* The counts of the events es add up to n.
AddUp(es, n) ==
  \E sum \in [0 .. Len(es) -> 0 .. n] :
    /\ sum[0] = 0
    /\ \A k \in 1 .. Len(es) : sum[k] = sum[k - 1] + es[k].count
    /\ sum[Len(es)] = n

\* The k-th event of the run r tells that the block b was stored.
Tells(r, k, b) ==
  /\ run[r].source = b[1]
  /\ k \in DOMAIN events[r]
  /\ events[r][k].number = b[2]

RunAgrees(r) ==
  /\ run[r].blocks = Len(events[r])
  /\ AddUp(events[r], run[r].txs)
  /\ run[r].status = "FAILED" => run[r].blocks = 0
  /\ run[r].status = "PARTIAL" => run[r].blocks > 0

ToldOnce(b) ==
  /\ stored[b] # None => \E r \in Runs : \E k \in DOMAIN events[r] : Tells(r, k, b)
  /\ \A r, q \in Runs : \A k \in DOMAIN events[r], m \in DOMAIN events[q] :
       Tells(r, k, b) /\ Tells(q, m, b) => r = q /\ k = m
  /\ \A r \in Runs : \A k \in DOMAIN events[r] : Tells(r, k, b) =>
       stored[b] # None /\ events[r][k].count = Cardinality(stored[b].txs)

(* The counters of a run, which every step writes from memory, are those of its *)
(* events; and a block is stored exactly when one event of one run tells it.    *)
CountersAgree ==
  /\ \A r \in Runs : RunAgrees(r)
  /\ \A b \in Sources \X Numbers : ToldOnce(b)

\* A source that answers with the block it was asked for.  Nobody compares them.
Honest(s) == \A n \in Numbers : \A raw \in Answer(s, n) : raw.number = n

(* A completed run has the source's block for every number it was asked for,    *)
(* whoever stored it, if the source answers with the blocks it is asked for.    *)
CompletedCovers ==
  \A r \in Runs : run[r].status = "COMPLETED" /\ Honest(run[r].source) =>
    \A n \in run[r].first .. run[r].last : stored[<<run[r].source, n>>] # None

Seen(n) ==
  [s \in {s \in Sources : stored[<<s, n>>] # None} |-> stored[<<s, n>>]]

(* validateBlock says CONSISTENT exactly when at least two sources have the     *)
(* block and all have the same fields and the same transactions, whichever was  *)
(* collected first, though every source is only compared with the first one.    *)
VerdictIsAgreement ==
  \A n \in Numbers : LET seen == Seen(n)
                     IN  \A order \in SetToSeqs(DOMAIN seen) :
    Verdict(seen, order) =
      IF Cardinality(DOMAIN seen) < 2 THEN "INSUFFICIENT_SOURCES"
      ELSE IF \A s, t \in DOMAIN seen : seen[s] = seen[t] THEN "CONSISTENT"
      ELSE "DISCREPANCY"

(* A run that is RUNNING ends, unless its call has ended with an error first:   *)
(* the loop does not hang, and it does not stay at a block that exists.         *)
RunsEnd ==
  \A r \in Runs :
    run[r].status = "RUNNING" ~> \/ run[r].status # "RUNNING"
                                 \/ \A c \in Calls : call[c].run # r
=============================================================================
