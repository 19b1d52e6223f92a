------------------------------ MODULE Analyzers ------------------------------
(***************************************************************************)
(* The analyzers of an audit (src/src/blockchain/*-analyzer.ts): what each *)
(* finds in a snapshot, which holds the answers of the collectors by       *)
(* address.  A finding is a record; its title, description, evidence and   *)
(* recommendation follow from it.                                          *)
(*                                                                         *)
(* Amounts of TRX are in TRX, percentages with two decimals in hundredths, *)
(* ages and times of inactivity in days.  A name that contains a signature *)
(* is the signature.                                                       *)
(***************************************************************************)
EXTENDS Integers, Sequences, FiniteSets, FiniteSetsExt

CONSTANT None

Severities == <<"INFO", "LOW", "MEDIUM", "HIGH", "CRITICAL">>

\* SEVERITY_ORDER
Rank(severity) == CHOOSE i \in 1 .. 5 : Severities[i] = severity

\* The rows of a table of checks that raise a finding about a subject.
Raised(analyzer, subject, checks) ==
  {[analyzer |-> analyzer, subject |-> subject, severity |-> check[2],
    category |-> check[3]] : check \in {k \in checks : k[1]}}

\* used / limit * 100 > percent
Above(percent, used, limit) == limit > 0 /\ used * 100 > percent * limit

-----------------------------------------------------------------------------
\* wallet-risk
OverDelegated(a) ==
  /\ a.frozen > 0 /\ a.delegated > 0
  /\ (a.delegated * 100) \div (a.frozen + a.delegated) > 80

Dormant(a) == a.balance >= 1000000 /\ a.idle # None /\ a.idle > 90

Unknown(a, tokens) ==
  {i \in DOMAIN a.holdings : /\ a.holdings[i].balance # 0
                             /\ a.holdings[i].token \notin DOMAIN tokens}

WalletChecks(a, tokens) ==
  {<<Above(95, a.energyUsed, a.energyLimit), "MEDIUM", "energy-exhaustion">>,
   <<Above(95, a.bandwidthUsed, a.bandwidthLimit), "LOW", "bandwidth-exhaustion">>,
   <<OverDelegated(a), "MEDIUM", "over-delegation">>,
   <<Dormant(a), "MEDIUM", "dormant-high-value">>,
   <<Cardinality(Unknown(a, tokens)) > 5, "LOW", "many-unknown-tokens">>}

WalletRisk(s) ==
  UNION {Raised("wallet-risk", x, WalletChecks(s.accounts[x], s.tokens))
         : x \in DOMAIN s.accounts}

\* security
SingleKey(a) == a.owner # None /\ a.owner.keys = 1 /\ a.owner.threshold = 1

WeakThreshold(a) ==
  a.owner # None /\ a.owner.keys >= 2 /\ a.owner.threshold <= 1 /\ a.owner.weight > 1

UnverifiedOwn(s, x) ==
  s.accounts[x].isContract /\ x \in DOMAIN s.contracts /\ ~s.contracts[x].isVerified

SecurityChecks(a, unverified) ==
  {<<SingleKey(a), "HIGH", "single-key-owner">>,
   <<WeakThreshold(a), "HIGH", "weak-multisig-threshold">>,
   <<a.operations, "INFO", "custom-active-permissions">>,
   <<unverified, "HIGH", "unverified-contract">>}

Security(s) ==
  UNION {Raised("security", x, SecurityChecks(s.accounts[x], UnverifiedOwn(s, x)))
         : x \in DOMAIN s.accounts}

\* concentration
Majorities(s) ==
  LET balance(x) == s.accounts[x].balance
      total == MapThenSumSet(balance, DOMAIN s.accounts)
  IN  {x \in DOMAIN s.accounts : /\ Cardinality(DOMAIN s.accounts) >= 2
                                 /\ total > 0
                                 /\ (balance(x) * 10000) \div total > 5000}

TrxConcentration(s) ==
  UNION {Raised("concentration", x, {<<TRUE, "CRITICAL", "single-holder-majority">>})
         : x \in Majorities(s)}

\* The holdings of a token, by account and place.
Holdings(s, t) ==
  {h \in {<<x, i>> : x \in DOMAIN s.accounts, i \in 1 .. 10} :
     /\ h[2] \in DOMAIN s.accounts[h[1]].holdings
     /\ s.accounts[h[1]].holdings[h[2]].token = t
     /\ s.accounts[h[1]].holdings[h[2]].balance > 0}

Concentrated(s) ==
  LET amount(h) == s.accounts[h[1]].holdings[h[2]].balance
      total(t) == MapThenSumSet(amount, Holdings(s, t))
      held == UNION {{a.holdings[i].token : i \in DOMAIN a.holdings}
                     : a \in {s.accounts[x] : x \in DOMAIN s.accounts}}
  IN  {t \in held : /\ Cardinality(Holdings(s, t)) >= 2
                    /\ \E h \in Holdings(s, t) :
                         (amount(h) * 10000) \div total(t) > 8000}

TokenConcentration(s) ==
  UNION {Raised("concentration", t, {<<TRUE, "HIGH", "token-concentration">>})
         : t \in Concentrated(s)}

-----------------------------------------------------------------------------
\* contract
ProxySignatures ==
  {"upgradeTo", "upgradeToAndCall", "implementation", "setImplementation", "changeAdmin"}

DangerousFunctions == {"selfdestruct", "delegatecall", "suicide"}

StandardFunctions ==
  {"transfer", "approve", "transferFrom", "balanceOf", "totalSupply", "allowance"}

Upgradeable(c) == c.functions # None /\ c.functions \cap ProxySignatures # {}

Delayed(c) == c.functions \cap {"timelock", "delay"} # {}

IncompleteToken(c, isToken) ==
  c.functions # None /\ isToken /\ ~(StandardFunctions \subseteq c.functions)

Dangerous(c) == c.functions # None /\ c.functions \cap DangerousFunctions # {}

Unused(c) == c.calls # None /\ c.calls = 0 /\ c.age # None /\ c.age > 30

CodeChecks(c, isToken) ==
  {<<~c.isVerified, "HIGH", "unverified-source">>,
   <<Upgradeable(c) /\ Delayed(c), "MEDIUM", "proxy-pattern">>,
   <<Upgradeable(c) /\ ~Delayed(c), "CRITICAL", "proxy-pattern">>,
   <<IncompleteToken(c, isToken), "MEDIUM", "incomplete-token-abi">>,
   <<Dangerous(c), "HIGH", "dangerous-functions">>,
   <<Unused(c), "MEDIUM", "unused-contract">>}

ContractCode(s) ==
  UNION {Raised("contract", x, CodeChecks(s.contracts[x], x \in DOMAIN s.tokens))
         : x \in DOMAIN s.contracts}

\* activity
LongInactive(a) == a.age # None /\ a.idle # None /\ a.age > 30 /\ a.idle > 180

NewAndRich(a) == a.age # None /\ a.idle # None /\ a.age < 7 /\ a.balance > 100000

OneCaller(c) == c.calls # None /\ c.callers # None /\ c.calls > 0 /\ c.callers = 1

FewCallers(c) ==
  /\ c.calls # None /\ c.callers # None
  /\ c.calls > 0 /\ c.calls > 1000 * c.callers /\ c.callers < 10

SlowNetwork(g) ==
  /\ g.witnesses # <<>> /\ g.elected > 0
  /\ LET elected == {i \in DOMAIN g.witnesses : g.witnesses[i].isElected}
         productivity(i) == g.witnesses[i].productivity
     IN  MapThenSumSet(productivity, elected) < 9500 * g.elected

UseOfAccount(a) ==
  {<<LongInactive(a), "LOW", "long-inactive-account">>,
   <<NewAndRich(a), "MEDIUM", "new-high-value-account">>}

UseOfContract(c) ==
  {<<OneCaller(c), "MEDIUM", "single-caller-contract">>,
   <<FewCallers(c), "LOW", "concentrated-contract-usage">>}

UseOfNetwork(g) ==
  {<<g # None /\ SlowNetwork(g), "MEDIUM", "low-network-productivity">>}

Activity(s) ==
  (UNION {Raised("activity", x, UseOfAccount(s.accounts[x])) : x \in DOMAIN s.accounts})
    \cup (UNION {Raised("activity", x, UseOfContract(s.contracts[x]))
                : x \in DOMAIN s.contracts})
    \cup Raised("activity", None, UseOfNetwork(s.governance))

-----------------------------------------------------------------------------
\* governance
Centralized(g) ==
  LET votes(i) == g.witnesses[i].votes
  IN  /\ g.totalVotes # 0
      /\ \E top \in SUBSET DOMAIN g.witnesses :
           Cardinality(top) <= 3 /\ MapThenSumSet(votes, top) * 100 > 33 * g.totalVotes

SlowWitnesses(g) ==
  {i \in DOMAIN g.witnesses : /\ g.witnesses[i].isElected
                              /\ g.witnesses[i].productivity < 9000
                              /\ g.witnesses[i].blocks > 100}

VoteChecks(g) ==
  {<<Centralized(g), "HIGH", "vote-centralization">>,
   <<g.elected > 0 /\ g.elected < 27, "MEDIUM", "low-elected-count">>}

Governance(s) ==
  LET g == s.governance
  IN  IF g = None THEN {}
      ELSE Raised("governance", None, VoteChecks(g))
             \cup (UNION {Raised("governance", i, {<<TRUE, "MEDIUM", "low-sr-productivity">>})
                         : i \in SlowWitnesses(g)})

\* staking
HighDelegation(k) ==
  k.frozenEnergy + k.frozenBandwidth > 0 /\
  (k.delegated * 100) \div (k.frozenEnergy + k.frozenBandwidth) > 80

IdleStake(limit, used, frozen) == limit > 0 /\ used = 0 /\ frozen > 0

StakeChecks(k) ==
  {<<HighDelegation(k), "MEDIUM", "high-delegation-ratio">>,
   <<k.rewards > 10, "INFO", "unclaimed-rewards">>}

UseOfStake(k, a) ==
  {<<IdleStake(a.energyLimit, a.energyUsed, k.frozenEnergy), "LOW", "unused-energy-stake">>,
   <<IdleStake(a.bandwidthLimit, a.bandwidthUsed, k.frozenBandwidth),
     "LOW", "unused-bandwidth-stake">>}

Staking(s) ==
  (UNION {Raised("staking", x, StakeChecks(s.staking[x])) : x \in DOMAIN s.staking})
    \cup (UNION {Raised("staking", x, UseOfStake(s.staking[x], s.accounts[x]))
                : x \in DOMAIN s.staking \cap DOMAIN s.accounts})

\* tokenomics
LowVolume(t) == t.market # None /\ t.market.cap > 0 /\ t.market.volume * 1000 < t.market.cap

NoSupply(t) == t.supply = 0

FewHolders(t) == t.holders > 0 /\ t.holders < 10

LowHolders(t) == t.holders >= 10 /\ t.holders < 100

Untransferred(t) == t.holders > 100 /\ t.transfers = 0

TokenChecks(t) ==
  {<<NoSupply(t), "HIGH", "zero-supply">>,
   <<FewHolders(t), "HIGH", "very-few-holders">>,
   <<LowHolders(t), "MEDIUM", "low-holder-count">>,
   <<LowVolume(t), "MEDIUM", "extremely-low-volume">>,
   <<Untransferred(t), "MEDIUM", "no-recent-transfers">>}

Tokenomics(s) ==
  UNION {Raised("tokenomics", x, TokenChecks(s.tokens[x])) : x \in DOMAIN s.tokens}

-----------------------------------------------------------------------------
\* BigInt throws on a balance that is not an integer, and the audit with it.
Malformed(s) ==
  \E x \in DOMAIN s.accounts : \E i \in DOMAIN s.accounts[x].holdings :
    s.accounts[x].holdings[i].balance = None

\* runAnalyzers
FindingsOf(s) ==
  WalletRisk(s) \cup Security(s) \cup TrxConcentration(s) \cup TokenConcentration(s)
    \cup ContractCode(s) \cup Activity(s) \cup Governance(s) \cup Staking(s) \cup Tokenomics(s)

\* maxSeverity
MaxSeverity(findings) == Severities[Max({Rank(f.severity) : f \in findings} \cup {1})]

\* countFindings
CountFindings(findings) ==
  [i \in 1 .. 5 |-> Cardinality({f \in findings : f.severity = Severities[i]})]
=============================================================================
