------------------------------- MODULE Audit -------------------------------
(***************************************************************************)
(* Audits of the blockchain API (src/src/blockchain/audit-api.ts): a       *)
(* request is charged by the rate limiter, the orchestrator asks the       *)
(* collectors one after another, the analyzers judge what was answered,    *)
(* and the report is written in one transaction.  Several requests run at  *)
(* the same time; a source may fail, and a request may fail anywhere.      *)
(*                                                                         *)
(* An answer is taken from a fact of the chain, which may be another one   *)
(* at each question.  heard is a history of the answers.                   *)
(***************************************************************************)
EXTENDS RateLimits, Analyzers, SequencesExt

CONSTANTS
  Facts,       \* facts of the chain, by type of question
  Registries,  \* registries that are tried
  TargetOf,    \* the address a request is about
  MaxTokens    \* tokens of an account that are asked about: 10

Types == {"account", "contract", "token", "staking", "governance"}

Sources == {"trongrid", "tronscan"}

ASSUME MaxTokensAssumption == MaxTokens \in Nat

ASSUME RegistriesAssumption == Registries \subseteq [Types -> Seq(Sources)]

\* An account is a record that tells whether it is a contract and lists holdings.
ASSUME AccountsAssumption ==
  \A f \in Facts["account"] :
    /\ f = [k \in DOMAIN f |-> f[k]]
    /\ {"isContract", "holdings"} \subseteq DOMAIN f
    /\ f.isContract \in BOOLEAN
    /\ Len(f.holdings) \in Nat
    /\ f.holdings = [i \in 1 .. Len(f.holdings) |-> f.holdings[i]]

VARIABLES
  registry,    \* the collectors registered for a type, in order
  kind,        \* what a request is: an audit, or another request of the API
  audit,
  heard,
  reports,     \* audit_reports
  findings     \* audit_findings

auditVars == <<registry, kind, audit, heard, reports, findings>>

vars == <<limitVars, auditVars>>

Kinds == {"ACCOUNT", "CONTRACT", "FULL"}

NoAudit == [pc |-> "idle", todo |-> <<>>, asked |-> {}, got |-> [t \in Types |-> <<>>],
            sources |-> {}, points |-> 0, found |-> {}, rows |-> {}, saved |-> {}]

Init ==
  /\ LimitInit
  /\ registry \in Registries
  /\ kind \in [Strict -> Kinds \cup {"OTHER"}]
  /\ audit = [c \in Strict |-> NoAudit]
  /\ heard = [c \in Strict |-> <<>>]
  /\ reports = {}
  /\ findings = {}

-----------------------------------------------------------------------------
\* Collectors.  TronGrid does not tell a contract from an account.
AccountBy(source, f) ==
  [f EXCEPT !.isContract = @ /\ source = "tronscan"]

\* TronGrid knows neither the age of a contract nor its calls.
ContractBy(source, f) ==
  IF source = "tronscan" THEN f
  ELSE [f EXCEPT !.age = None, !.calls = None, !.callers = None]

TokenBy(source, f) ==
  IF source = "tronscan" THEN f
  ELSE [f EXCEPT !.holders = 0, !.transfers = 0, !.market = None]

\* What is frozen for anything but energy is frozen for bandwidth.
StakingBy(f) ==
  LET frozen(energy) ==
        LET amount(i) == f.frozen[i].amount
        IN  MapThenSumSet(amount, {i \in DOMAIN f.frozen :
                                     (f.frozen[i].type = "ENERGY") = energy})
  IN  [frozenEnergy |-> frozen(TRUE), frozenBandwidth |-> frozen(FALSE),
       delegated |-> f.delegatedEnergy + f.delegatedBandwidth, rewards |-> f.rewards]

Productivity(w) ==
  IF w.produced + w.missed = 0 THEN 0
  ELSE (20000 * w.produced + w.produced + w.missed) \div (2 * (w.produced + w.missed))

GovernanceBy(f) ==
  LET votes(i) == f[i].votes
  IN  [witnesses |-> [i \in DOMAIN f |->
                        [isElected |-> f[i].isElected, votes |-> f[i].votes,
                         blocks |-> f[i].produced + f[i].missed,
                         productivity |-> Productivity(f[i])]],
       totalVotes |-> MapThenSumSet(votes, DOMAIN f),
       elected |-> Cardinality({i \in DOMAIN f : f[i].isElected})]

AnswersTo(q) ==
  {CASE q.type = "account" -> AccountBy(q.source, f)
     [] q.type = "contract" -> ContractBy(q.source, f)
     [] q.type = "token" -> TokenBy(q.source, f)
     [] q.type = "staking" -> StakingBy(f)
     [] q.type = "governance" -> GovernanceBy(f) : f \in Facts[q.type]}

-----------------------------------------------------------------------------
\* TronCollectorRegistry: all collectors of a type, or the first.
AskAll(type, subject) ==
  [i \in DOMAIN registry[type] |->
     [type |-> type, source |-> registry[type][i], subject |-> subject]]

ToFirst(type, subject) ==
  [type |-> type, source |-> Head(registry[type]), subject |-> subject]

AskFirst(type, subject) ==
  IF registry[type] = <<>> THEN <<>> ELSE <<ToFirst(type, subject)>>

Plan(c) ==
  LET x == TargetOf[c]
  IN  CASE kind[c] = "ACCOUNT" -> AskAll("account", x) \o AskFirst("staking", x)
        [] kind[c] = "CONTRACT" ->
             AskAll("contract", x) \o AskFirst("account", x) \o AskFirst("token", x)
        [] kind[c] = "FULL" -> AskFirst("governance", None)

\* What an account audit asks next follows from the account.
Details(c) ==
  LET x == TargetOf[c]
      account == audit[c].got["account"]
  IN  IF x \notin DOMAIN account THEN <<>>
      ELSE (IF account[x].isContract THEN AskFirst("contract", x) ELSE <<>>)
             \o (IF registry["token"] = <<>> THEN <<>>
                 ELSE [i \in 1 .. Min({MaxTokens, Len(account[x].holdings)}) |->
                         ToFirst("token", account[x].holdings[i].token)])

Snapshot(got) ==
  [accounts |-> got["account"], tokens |-> got["token"], contracts |-> got["contract"],
   staking |-> got["staking"],
   governance |-> IF None \in DOMAIN got["governance"] THEN got["governance"][None]
                  ELSE None]

Set(c, t) ==
  /\ audit' = [audit EXCEPT ![c] = t]
  /\ UNCHANGED <<registry, kind>>
  /\ UNCHANGED limitVars

\* The limiter has let the request pass.
Begin(c) ==
  /\ call[c].pc = "admitted" /\ kind[c] \in Kinds
  /\ audit[c].pc = "idle"
  /\ Set(c, [NoAudit EXCEPT !.pc = "asking", !.todo = Plan(c)])
  /\ UNCHANGED <<heard, reports, findings>>

\* Fault: the first answer about a subject is kept.
KeepFirst(got, q, answer) ==
  [got EXCEPT ![q.type] = [x \in DOMAIN @ \cup {q.subject} |->
                             IF x \in DOMAIN @ THEN @[x] ELSE answer]]

\* Answers are kept by address: a later one replaces an earlier one.
Keep(got, q, answer) ==
  [got EXCEPT ![q.type] = [x \in DOMAIN @ \cup {q.subject} |->
                             IF x = q.subject THEN answer ELSE @[x]]]

Ask(c) ==
  LET q == Head(audit[c].todo)
  IN  /\ audit[c].pc \in {"asking", "detailing"} /\ audit[c].todo # <<>>
      /\ \E answer \in AnswersTo(q) :
           /\ Set(c, [audit[c] EXCEPT !.todo = Tail(@), !.asked = @ \cup {q},
                                      !.got = Keep(@, q, answer), !.points = @ + 1,
                                      !.sources = @ \cup {q.source}])
           /\ heard' = [heard EXCEPT ![c] = Append(@, [asked |-> q, answer |-> answer])]
      /\ UNCHANGED <<reports, findings>>

\* Fault: a source that fails is asked again after the others.
RetryLater(todo) == Append(Tail(todo), Head(todo))

GoOn(todo) == Tail(todo)

\* The error of a source is caught.
AskInVain(c) ==
  LET q == Head(audit[c].todo)
  IN  /\ audit[c].pc \in {"asking", "detailing"} /\ audit[c].todo # <<>>
      /\ Set(c, [audit[c] EXCEPT !.todo = GoOn(@), !.asked = @ \cup {q}])
      /\ UNCHANGED <<heard, reports, findings>>

Detail(c) ==
  /\ audit[c].pc = "asking" /\ audit[c].todo = <<>> /\ kind[c] = "ACCOUNT"
  /\ Set(c, [audit[c] EXCEPT !.pc = "detailing", !.todo = Details(c)])
  /\ UNCHANGED <<heard, reports, findings>>

\* An error that is not caught.  The limiter does not take its charge back.
GiveUp(c) ==
  /\ Set(c, [NoAudit EXCEPT !.pc = "failed"])
  /\ heard' = [heard EXCEPT ![c] = <<>>]
  /\ UNCHANGED <<reports, findings>>

Analyze(c) ==
  LET s == Snapshot(audit[c].got)
  IN  /\ audit[c].pc = IF kind[c] = "ACCOUNT" THEN "detailing" ELSE "asking"
      /\ audit[c].todo = <<>>
      /\ IF Malformed(s) THEN GiveUp(c)
         ELSE /\ Set(c, [audit[c] EXCEPT !.pc = "analyzed", !.found = FindingsOf(s)])
              /\ UNCHANGED <<heard, reports, findings>>

\* buildReport
Report(c) ==
  [id |-> c, type |-> kind[c], risk |-> MaxSeverity(audit[c].found),
   counts |-> CountFindings(audit[c].found), sources |-> audit[c].sources,
   points |-> audit[c].points]

-----------------------------------------------------------------------------
\* persistReport: a transaction that inserts the report and then each finding,
\* the gravest first.
InsertReport(c) ==
  /\ audit[c].pc = "analyzed"
  /\ Set(c, [audit[c] EXCEPT !.pc = "saving", !.rows = {Report(c)}])
  /\ UNCHANGED <<heard, reports, findings>>

Unsaved(c) == audit[c].found \ audit[c].saved

IsNext(c, f) == \A g \in Unsaved(c) : Rank(g.severity) <= Rank(f.severity)

InsertFinding(c) ==
  /\ audit[c].pc = "saving" /\ Unsaved(c) # {}
  /\ LET f == CHOOSE g \in Unsaved(c) : IsNext(c, g)
     IN  Set(c, [audit[c] EXCEPT !.saved = @ \cup {f}])
  /\ UNCHANGED <<heard, reports, findings>>

\* Fault: the report is committed before its findings.
SavedReport(c) == TRUE

Saved(c) == Unsaved(c) = {}

CommitReport(c) ==
  /\ audit[c].pc = "saving" /\ Saved(c)
  /\ reports' = reports \cup audit[c].rows
  /\ findings' = findings \cup {[report |-> c, finding |-> f] : f \in audit[c].saved}
  /\ Set(c, [NoAudit EXCEPT !.pc = "done"])
  /\ heard' = [heard EXCEPT ![c] = <<>>]

\* An error of the database, or a crash.
Fail(c) ==
  /\ audit[c].pc \notin {"idle", "done", "failed"}
  /\ GiveUp(c)

AuditStep(c) ==
  \/ Begin(c) \/ Ask(c) \/ AskInVain(c) \/ Detail(c) \/ Analyze(c)
  \/ InsertReport(c) \/ InsertFinding(c) \/ CommitReport(c)

Next ==
  \/ LimitNext /\ UNCHANGED auditVars
  \/ \E c \in Strict : AuditStep(c) \/ Fail(c)

Spec == Init /\ [][Next]_vars

\* A question ends: the client of the collectors has a timeout.
FairSpec == Spec /\ \A c \in Strict : WF_vars(AuditStep(c))

-----------------------------------------------------------------------------
\* The answers about a subject, by their places.
About(c, type, x) ==
  {i \in DOMAIN heard[c] : heard[c][i].asked.type = type /\ heard[c][i].asked.subject = x}

LastAbout(c, type, x) == heard[c][Max(About(c, type, x))].answer

AskedOf(c, type) == {q.subject : q \in {p \in audit[c].asked : p.type = type}}

\* The contract and the tokens that follow from an account.
FollowsFrom(c, account) ==
  /\ AskedOf(c, "contract") # {} <=> account.isContract /\ registry["contract"] # <<>>
  /\ AskedOf(c, "token") =
       {account.holdings[i].token : i \in {j \in DOMAIN account.holdings :
                                             j <= MaxTokens /\ registry["token"] # <<>>}}

(***************************************************************************)
(* However many sources answer, and whichever fail: a report is about one  *)
(* answer for each subject, the last one; an account audit has asked for   *)
(* the contract and the tokens of the account in that answer, and of no    *)
(* other; and the report counts every answer, with its source.             *)
(***************************************************************************)
EvidenceIsLastAnswer ==
  \A c \in Strict : audit[c].pc \in {"analyzed", "saving"} =>
    /\ audit[c].points = Len(heard[c])
    /\ audit[c].sources = {heard[c][i].asked.source : i \in DOMAIN heard[c]}
    /\ \A type \in Types : \A x \in DOMAIN audit[c].got[type] :
         About(c, type, x) # {} /\ audit[c].got[type][x] = LastAbout(c, type, x)
    /\ kind[c] = "ACCOUNT" =>
         IF About(c, "account", TargetOf[c]) = {}
         THEN AskedOf(c, "contract") \cup AskedOf(c, "token") = {}
         ELSE FollowsFrom(c, LastAbout(c, "account", TargetOf[c]))

\* The reports with their findings, as the reader selects them.
Published ==
  {[id |-> r.id, risk |-> r.risk, counts |-> r.counts,
    findings |-> {f.finding : f \in {g \in findings : g.report = r.id}}] : r \in reports}

Ledger == INSTANCE ReportLedger WITH Scale <- Severities, ledger <- Published

(***************************************************************************)
(* A reader sees a report with all its findings or not at all, and its     *)
(* summary is that of its findings, for any order of the inserts and any   *)
(* failure between them.                                                   *)
(***************************************************************************)
LedgerSpec == Ledger!Spec

\* An audit that was let through ends, with a report or with an error.
AuditsEnd ==
  \A c \in Strict :
    call[c].pc = "admitted" /\ kind[c] \in Kinds ~> audit[c].pc \in {"done", "failed"}
=============================================================================
