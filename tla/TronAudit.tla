----------------------------- MODULE TronAudit -----------------------------
(***************************************************************************)
(* The collection of metrics (src/scripts/tron-audit.ts): phases one after *)
(* another, each a few rounds of requests through the two clients, whose   *)
(* records go to a store in memory and then, in chunks, to the database.   *)
(* A phase that fails is skipped.  Within a phase some requests are        *)
(* needed; the failure of another one counts as an empty answer.           *)
(*                                                                         *)
(* A request is named by its phase, what it asks and a number.             *)
(***************************************************************************)
EXTENDS HttpClient, OnchainAnalytics, SequencesExt

CONSTANTS
  Answers,        \* what the endpoints may answer, by what is asked
  MaxStakers,     \* stakers that are looked at closer: 10
  MaxAnalyses,    \* tokens whose holders are listed: 5
  Platforms,      \* energy rental platforms: 1
  ChunkSize       \* records of one INSERT: 200

ASSUME ScriptAssumption ==
  /\ {"trongrid", "tronscan"} \subseteq Clients
  /\ {MaxStakers, MaxAnalyses, Platforms, MaxBalances} \subseteq Nat
  /\ ChunkSize \in Nat \ {0}

\* How many holders, witnesses or stakers there are, and lists: of tokens, with
\* their holders and supply, and of the balances of holders.
ASSUME AnswersAssumption ==
  /\ \A asks \in {"holders", "witnesses", "stakers"} : Answers[asks] \subseteq Nat
  /\ \A asks \in {"tokens", "tokenHolders"} : \A list \in Answers[asks] :
       Len(list) \in Nat /\ DOMAIN list = 1 .. Len(list)
  /\ \A list \in Answers["tokens"] : \A i \in DOMAIN list :
       list[i].holders \in Nat /\ list[i].supply \in Nat
  /\ \A list \in Answers["tokenHolders"] : \A i \in DOMAIN list : list[i] \in Nat

Phases == <<"network", "governance", "resources", "trc20", "rental", "analytics">>

\* What the store is told of: analytics and findings are of one phase.
Batches == {Phases[i] : i \in DOMAIN Phases} \cup {"findings"}

VARIABLES
  step,        \* the number of the phase
  doing,       \* collect, persist, or end
  memory,      \* records of a batch in the memory store
  sql,         \* records of a batch in the database
  toStore,     \* batches that are yet to be written to the database
  warned,      \* batches whose writing failed
  total,       \* totalMetrics
  network,     \* what the phases leave to the analytics
  tokenList,
  analyses,
  findings

scriptVars ==
  <<step, doing, memory, sql, toStore, warned, total, network, tokenList, analyses, findings>>

vars == <<clientVars, scriptVars>>

Init ==
  /\ ClientInit
  /\ step = 1 /\ doing = "collect"
  /\ memory = [b \in Batches |-> 0]
  /\ sql = [b \in Batches |-> 0]
  /\ toStore = <<>>
  /\ warned = {}
  /\ total = 0
  /\ network = None
  /\ tokenList = <<>>
  /\ analyses = <<>>
  /\ findings = {}

Phase == Phases[step]

-----------------------------------------------------------------------------
\* Requests.
Id(asks, n) == [phase |-> Phase, asks |-> asks, n |-> n]

ClientOf(r) ==
  IF r.asks \in {"holders", "stakers", "tokens", "tokenHolders", "outgoing",
                 "incoming", "balance"}
  THEN "tronscan" ELSE "trongrid"

Needed(r) ==
  r.asks \in {"chainParameters", "witnesses", "proposals"}

Has(r) == r \in DOMAIN request /\ request[r].pc = "done"

\* What was answered, or what stands for a failure.
ValueOf(r, default) == IF Has(r) THEN request[r].value ELSE default

Stakers == MinOf(MaxStakers, ValueOf(Id("stakers", 1), 0))

Tokens == ValueOf(Id("tokens", 1), <<>>)

Analyzed == MinOf(MaxAnalyses, Len(Tokens))

One(asks) == <<<<Id(asks, 1)>>>>

EachOf(asks, n) == [i \in 1 .. n |-> <<Id(asks, i)>>]

\* The rounds of a phase, as far as they are known: the requests of a round are
\* made in one turn.
NetworkRounds == One("chainParameters") \o One("holders")

GovernanceRounds ==
  <<<<Id("witnesses", 1), Id("proposals", 1), Id("chainParameters", 1)>>>>

ResourceRounds ==
  One("stakers") \o (<<[i \in 1 .. Stakers |-> Id("resource", i)]>>
                       \o EachOf("delegation", Stakers))

Trc20Rounds == One("tokens") \o EachOf("tokenHolders", Analyzed)

RentalRounds ==
  [i \in 1 .. Platforms |->
     <<Id("outgoing", i), Id("incoming", i), Id("delegation", i), Id("resource", i),
       Id("balance", i)>>]

AnalyticsRounds == IF network = None THEN One("chainParameters") ELSE <<>>

Rounds ==
  CASE Phase = "network" -> NetworkRounds
    [] Phase = "governance" -> GovernanceRounds
    [] Phase = "resources" -> ResourceRounds
    [] Phase = "trc20" -> Trc20Rounds
    [] Phase = "rental" -> RentalRounds
    [] Phase = "analytics" -> AnalyticsRounds

Asked(round) == Range(round) \subseteq DOMAIN request

\* Fault: nobody waits for the requests of a round.
SettledEarly(round) == Asked(round)

\* Fault: a failure that could be left out is waited for.
SettledWell(round) == Asked(round) /\ \A r \in Range(round) : request[r].pc = "done"

Settled(round) == Asked(round) /\ \A r \in Range(round) : Over(r)

\* A needed request that fails ends its phase, whatever the others do.
Broken == \E r \in DOMAIN request :
            r.phase = Phase /\ Needed(r) /\ request[r].pc = "failed"

\* The round that comes next, once the one before it is settled.
Due ==
  LET next(i) == ~Asked(Rounds[i]) /\ (i = 1 \/ Settled(Rounds[i - 1]))
  IN  {Rounds[i] : i \in {j \in DOMAIN Rounds : next(j)}}

WithRound(round) ==
  [r \in DOMAIN request \cup Range(round) |->
     IF r \in Range(round) THEN NewRequest(ClientOf(r)) ELSE request[r]]

StartRound ==
  /\ doing = "collect" /\ ~Broken
  /\ \E round \in Due :
       Acquire(round, WithRound(round))
  /\ UNCHANGED scriptVars

Collected == ~Broken /\ \A i \in DOMAIN Rounds : Settled(Rounds[i])

-----------------------------------------------------------------------------
\* The records of a batch (metric-adapters.ts).
NetworkRecords == 16 + ValueOf(Id("holders", 1), 0)

GovernanceRecords == 4 + 6 * ValueOf(Id("witnesses", 1), 0)

ResourceRecords == 9 * Stakers

Analyses ==
  [i \in 1 .. Analyzed |->
     [token |-> Tokens[i], supply |-> Tokens[i].supply,
      balances |-> ValueOf(Id("tokenHolders", i), <<>>)]]

\* The holders that are listed, by the place of their token and their own.
HoldersOf(list) == UNION {{<<i, j>> : j \in DOMAIN list[i].balances} : i \in DOMAIN list}

Trc20Records == 5 * Len(Tokens) + Cardinality(HoldersOf(Analyses))

\* A platform that nobody paid has no ratio of outgoing to incoming volume.
RentalRecords ==
  2 * Platforms + Cardinality({i \in 1 .. Platforms : ValueOf(Id("incoming", i), 0) > 0})

\* The tokens that have a velocity, and those whose concentration is measured.
Moving == {i \in DOMAIN tokenList : Held(tokenList[i])}

MeasuredAnalyses == {i \in DOMAIN analyses : Measured(analyses[i])}

AnalyticsRecords == 14 + 2 * Cardinality(Moving) + 2 * Cardinality(MeasuredAnalyses)

\* Requests that have ended are forgotten; others go on unheard.
Forget ==
  /\ request' = Restrict(request, {r \in DOMAIN request : ~Over(r)})
  /\ UNCHANGED <<bucket, load, faults>>

Keep(batch, records) ==
  /\ memory' = [memory EXCEPT ![batch] = records]
  /\ total' = total + records
  /\ toStore' = <<batch>>
  /\ doing' = "persist"
  /\ UNCHANGED <<step, sql, warned>>

IngestNetwork ==
  /\ doing = "collect" /\ Phase = "network" /\ Collected
  /\ Keep("network", NetworkRecords)
  /\ network' = request[Id("chainParameters", 1)].value
  /\ UNCHANGED <<tokenList, analyses, findings>>
  /\ Forget

IngestTrc20 ==
  /\ doing = "collect" /\ Phase = "trc20" /\ Collected
  /\ Keep("trc20", Trc20Records)
  /\ tokenList' = Tokens
  /\ analyses' = Analyses
  /\ UNCHANGED <<network, findings>>
  /\ Forget

IngestOther ==
  /\ doing = "collect" /\ Phase \in {"governance", "resources", "rental"} /\ Collected
  /\ LET records == [governance |-> GovernanceRecords, resources |-> ResourceRecords,
                     rental |-> RentalRecords]
     IN  Keep(Phase, records[Phase])
  /\ UNCHANGED <<network, tokenList, analyses, findings>>
  /\ Forget

Analyze ==
  /\ doing = "collect" /\ Phase = "analytics" /\ Collected
  /\ LET n == IF network # None THEN network ELSE request[Id("chainParameters", 1)].value
     IN  \E found \in {MetricFindings(n, tokenList, analyses)} :
           /\ findings' = found
           /\ memory' = [memory EXCEPT !["analytics"] = AnalyticsRecords,
                                       !["findings"] = Cardinality(found)]
           /\ total' = total + AnalyticsRecords + Cardinality(found)
  /\ toStore' = <<"analytics", "findings">>
  /\ doing' = "persist"
  /\ UNCHANGED <<step, sql, warned, network, tokenList, analyses>>
  /\ Forget

NextPhase ==
  /\ step' = MinOf(step + 1, Len(Phases))
  /\ doing' = IF step = Len(Phases) THEN "end" ELSE "collect"

Skip ==
  /\ doing = "collect" /\ Broken
  /\ NextPhase
  /\ UNCHANGED <<memory, sql, toStore, warned, total, network, tokenList, analyses, findings>>
  /\ Forget

-----------------------------------------------------------------------------
\* insertBatch: each chunk is a statement, and a transaction, of its own.
Rest(batch) == memory[batch] - sql[batch]

InsertChunk ==
  /\ doing = "persist" /\ toStore # <<>> /\ Rest(Head(toStore)) > 0
  /\ sql' = [sql EXCEPT ![Head(toStore)] = @ + MinOf(ChunkSize, Rest(Head(toStore)))]
  /\ UNCHANGED <<clientVars, step, doing, memory, toStore, warned, total, network, tokenList,
                 analyses, findings>>

\* Fault: the writing goes on after an error.
Onward == toStore

\* persistToSql: the error ends the batch with a warning.
AfterError == Tail(toStore)

FailChunk ==
  /\ doing = "persist" /\ toStore # <<>> /\ Rest(Head(toStore)) > 0
  /\ faults < MaxFaults
  /\ faults' = faults + 1
  /\ warned' = warned \cup {Head(toStore)}
  /\ toStore' = AfterError
  /\ UNCHANGED <<bucket, load, request, step, doing, memory, sql, total, network, tokenList,
                 analyses, findings>>

Persisted ==
  /\ doing = "persist" /\ toStore # <<>> /\ Rest(Head(toStore)) = 0
  /\ toStore' = Tail(toStore)
  /\ UNCHANGED <<clientVars, step, doing, memory, sql, warned, total, network, tokenList,
                 analyses, findings>>

EndPhase ==
  /\ doing = "persist" /\ toStore = <<>>
  /\ NextPhase
  /\ UNCHANGED <<clientVars, memory, sql, toStore, warned, total, network, tokenList,
                 analyses, findings>>

ScriptStep ==
  \/ StartRound \/ IngestNetwork \/ IngestTrc20 \/ IngestOther \/ Analyze \/ Skip
  \/ InsertChunk \/ Persisted \/ EndPhase

RequestStep(r) ==
  /\ r \in DOMAIN request
  /\ ClientStep(r, Answers[r.asks])
  /\ UNCHANGED scriptVars

Next ==
  \/ ScriptStep
  \/ FailChunk
  \/ \E r \in DOMAIN request : RequestStep(r)
  \/ \E r \in DOMAIN request : \E f \in Faults : Disappoint(r, f) /\ UNCHANGED scriptVars
  \/ Tick /\ UNCHANGED scriptVars

Spec == Init /\ [][Next]_vars

\* The script goes on when it can, a timer fires, and a request ends: the client
\* gives it up after a timeout.
FairSpec ==
  /\ Spec
  /\ WF_vars(ScriptStep)
  /\ WF_vars(\E r \in DOMAIN request : RequestStep(r))
  /\ WF_vars(Tick /\ UNCHANGED scriptVars)

-----------------------------------------------------------------------------
IsOpen(r) == r \in DOMAIN request /\ ~Over(r)

\* Requests nobody waits for any more.
Unheard == {r \in DOMAIN request : IsOpen(r) /\ (r.phase # Phase \/ doing # "collect")}

(***************************************************************************)
(* A request is open only while its phase waits for it, and the rounds of  *)
(* a phase do not overlap.  The exception is governance: when one of its   *)
(* three requests fails, the other two may run on, through later phases,   *)
(* and take tokens from them; but they leave nothing in the stores.        *)
(***************************************************************************)
RoundsInTurn ==
  /\ \A r \in Unheard : r.phase = "governance" /\ memory["governance"] = 0
  /\ Cardinality(Unheard) <= 2
  /\ doing = "collect" =>
       \A i, j \in DOMAIN Rounds : i < j =>
         \A r \in Range(Rounds[i]), q \in Range(Rounds[j]) : q \in DOMAIN request => ~IsOpen(r)

\* What the phase leaves to the database.
PhaseBatches == IF Phase = "analytics" THEN {"analytics", "findings"} ELSE {Phase}

Past(batch) ==
  \/ doing = "end"
  \/ \E i \in 1 .. step - 1 : Phases[i] = batch
  \/ doing = "persist" /\ batch \in PhaseBatches \ Range(toStore)

(***************************************************************************)
(* Whatever fails: the total is what the memory store holds; the database  *)
(* holds of each batch a beginning, in whole chunks, and all of it exactly *)
(* if there was no warning; and a batch is begun only when the one before  *)
(* it is written or has been warned about.                                 *)
(***************************************************************************)
StoresAgree ==
  /\ total = memory["network"] + memory["governance"] + memory["resources"] + memory["trc20"]
               + memory["rental"] + memory["analytics"] + memory["findings"]
  /\ \A b \in Batches :
       /\ sql[b] <= memory[b]
       /\ sql[b] = memory[b] \/ \E n \in 0 .. memory[b] : sql[b] = n * ChunkSize
       /\ Past(b) => (b \in warned <=> sql[b] < memory[b])
       /\ sql[b] > 0 => Past(b) \/ (toStore # <<>> /\ b = Head(toStore))

\* Half of the mean difference between two holders, as a sum over all pairs.
PairDifferences(balances) ==
  LET apart(i, j) == IF balances[i] > balances[j] THEN balances[i] - balances[j] ELSE 0
  IN  TotalOf([i \in DOMAIN balances |-> TotalOf([j \in DOMAIN balances |-> apart(i, j)])])

(***************************************************************************)
(* The sum over the sorted balances is the sum of the differences of all   *)
(* pairs, the bounds 0 and 1 never cut it, and the findings that end in    *)
(* the stores tell of extreme concentration exactly if it is, for a token  *)
(* whose holders were collected, at least 0.85 of its largest value.       *)
(***************************************************************************)
GiniIsMeanDifference ==
  LET whole(i) == Len(BalancesOf(analyses[i])) * TotalOf(BalancesOf(analyses[i]))
      apart(i) == PairDifferences(BalancesOf(analyses[i]))
      extreme(i) == /\ analyses[i].token.holders >= 2 /\ whole(i) > 0
                    /\ 100 * apart(i) >= 85 * whole(i)
  IN  findings # {} =>
        /\ \A i \in MeasuredAnalyses :
             /\ Weighted(BalancesOf(analyses[i])) = apart(i)
             /\ apart(i) <= whole(i)
        /\ (\E i \in MeasuredAnalyses : extreme(i)) <=>
             \E f \in findings : f.category = "extreme-gini-concentration"

\* Whatever fails, tron-audit.ts comes to its summary: no phase waits for ever.
ScriptEnds == <>(doing = "end")
=============================================================================
