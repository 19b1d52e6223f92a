-------------------------- MODULE OnchainAnalytics --------------------------
(***************************************************************************)
(* The analytics of the metrics (src/src/blockchain/onchain-analytics.ts): *)
(* emission against burning, the velocity of tokens, the concentration of  *)
(* their holders, and a score of the network with its findings.            *)
(*                                                                         *)
(* Fractions are kept as a numerator over a denominator.  A network is a   *)
(* record of chain parameters; staked is its staking ratio in 1/10000.     *)
(***************************************************************************)
EXTENDS Integers, Sequences, FiniteSets, FiniteSetsExt, Functions, TLC

CONSTANTS
  MaxBalances   \* holders outside the list that are counted: 1000

\* Math.round of a / b.
Rounded(a, b) == (2 * a + b) \div (2 * b)

Total(s, part) == LET value(i) == s[i] IN MapThenSumSet(value, part)

TotalOf(s) == Total(s, DOMAIN s)

-----------------------------------------------------------------------------
\* 28800 blocks a day, a million SUN in a TRX.
Emitted(pay) == Rounded(288 * pay, 10000)

\* A tenth of the energy weight is taken to be used each day, and never more
\* than all the energy there is.
BurnedSun(n) ==
  IF n.limit > 0 /\ n.weight > 0 THEN Min({n.weight, 10 * n.limit}) * n.fee ELSE 0

DeflationOf(n) ==
  [emission |-> Emitted(n.pay + n.partnerPay),
   burn |-> Rounded(BurnedSun(n), 10000000),
   isDeflationary |-> BurnedSun(n) > 288000 * (n.pay + n.partnerPay)]

-----------------------------------------------------------------------------
VelocityOf(token) ==
  CASE token.transfers >= 100 * token.holders -> "high"
    [] token.transfers >= 10 * token.holders /\ token.transfers < 100 * token.holders -> "medium"
    [] token.transfers >= 2 * token.holders /\ token.transfers < 10 * token.holders -> "low"
    [] token.transfers < 2 * token.holders -> "dormant"

Held(token) == token.holders > 0

VelocitiesOf(tokens) ==
  {VelocityOf(tokens[i]) : i \in {j \in DOMAIN tokens : Held(tokens[j])}}

-----------------------------------------------------------------------------
\* An analysis is a token, its supply and the balances of its first holders.
Listed(a) == TotalOf(a.balances)

Unlisted(a) == Max({1, a.token.holders - Len(a.balances)})

\* The balances, in parts of which Unlisted(a) make a unit: the holders that are
\* not listed share what is left of the supply.
BalancesOf(a) ==
  LET rest == Max({0, a.supply - Listed(a)})
  IN  [i \in 1 .. Len(a.balances) |-> a.balances[i] * Unlisted(a)]
        \o [i \in 1 .. Min({Unlisted(a), MaxBalances}) |-> rest]

\* balances.sort: from the smallest, and equal ones as they were.
Before(balances, i, j) == balances[i] < balances[j] \/ (balances[i] = balances[j] /\ i < j)

PlaceOf(balances, i) == 1 + Cardinality({j \in DOMAIN balances : Before(balances, j, i)})

Sorted(balances) ==
  [k \in DOMAIN balances |->
     balances[CHOOSE i \in DOMAIN balances : PlaceOf(balances, i) = k]]

ByPlace(balances) ==
  TotalOf([k \in DOMAIN balances |-> (2 * k - Len(balances) - 1) * balances[k]])

\* Fault: the balances are weighted in the order of the list.
WeightedListed(balances) == ByPlace(balances)

Weighted(balances) == ByPlace(Sorted(balances))

\* What a token's holders are known to have.
HoldingOf(a) == [holders |-> a.token.holders, balances |-> BalancesOf(a)]

\* In hundredths, rounded down.  (The bounds 0 and 1 do not change the class.)
GiniOf(h) ==
  IF h.holders < 2 \/ TotalOf(h.balances) = 0 THEN 0
  ELSE (100 * Weighted(h.balances)) \div (Len(h.balances) * TotalOf(h.balances))

GiniClassOf(h) ==
  LET gini == GiniOf(h)
  IN  IF gini < 40 THEN "egalitarian" ELSE IF gini < 60 THEN "moderate"
      ELSE IF gini < 85 THEN "concentrated" ELSE "extreme"

Measured(a) == Len(a.balances) >= 2 /\ a.supply > 0

GinisOf(analyses) ==
  LET measured == {i \in DOMAIN analyses : Measured(analyses[i])}
  IN  {GiniClassOf(h) : h \in {HoldingOf(analyses[i]) : i \in measured}}

-----------------------------------------------------------------------------
\* In 1/200.
StakingScore(n) ==
  IF n.staked >= 5000 THEN 20000
  ELSE IF n.staked >= 3000 THEN 14000 + 3 * (n.staked - 3000)
  ELSE IF n.staked >= 1000 THEN 6000 + 4 * (n.staked - 1000)
  ELSE 200 * Rounded(3 * n.staked, 100)

\* In 1/(6 * partnerPay), or whole when a pay is zero.
DecentralizationScore(n) ==
  LET a == n.pay
      b == n.partnerPay
  IN  IF a = 0 \/ b = 0 THEN 50
      ELSE IF a <= 5 * b THEN 600 * b
      ELSE IF a <= 20 * b THEN 360 * b + 16 * (20 * b - a)
      ELSE IF a <= 100 * b THEN 120 * b + 3 * (100 * b - a)
      ELSE 60 * b

EnergyScore(n) ==
  100 - (IF n.fee >= 1000 THEN 40 ELSE IF n.fee >= 420 THEN 20 ELSE 0)
      - (IF n.maxFactor >= 10 THEN 30 ELSE IF n.maxFactor > 1 THEN 10 ELSE 0)

DiversityScore(tokens) ==
  LET total == TotalOf([i \in DOMAIN tokens |-> tokens[i].marketCap])
      above(percent) == 100 * tokens[1].marketCap > percent * total
  IN  IF Len(tokens) < 2 THEN 30
      ELSE IF total = 0 THEN 50
      ELSE IF above(90) THEN 15 ELSE IF above(70) THEN 35 ELSE IF above(50) THEN 55 ELSE 80

EmissionScore(d) ==
  LET burns(percent) == 100 * d.burn >= percent * d.emission
  IN  IF d.isDeflationary THEN 100
      ELSE IF d.emission = 0 THEN 50
      ELSE IF burns(80) THEN 85 ELSE IF burns(50) THEN 65 ELSE IF burns(20) THEN 45 ELSE 25

\* Staking, decentralization and energy count a fifth each, the tokens 15 and
\* emission 25 hundredths.  (Without a token list the tokens would count as 50.)
HealthOf(n, tokens) ==
  LET part == IF n.pay = 0 \/ n.partnerPay = 0 THEN 1 ELSE 6 * n.partnerPay
  IN  Rounded(20 * (part * StakingScore(n) + 200 * DecentralizationScore(n)
                      + 200 * part * EnergyScore(n))
                + 200 * part * (15 * DiversityScore(tokens)
                                  + 25 * EmissionScore(DeflationOf(n))),
              20000 * part)

SeverityOf(score) ==
  IF score >= 65 THEN "INFO" ELSE IF score >= 50 THEN "LOW"
  ELSE IF score >= 35 THEN "MEDIUM" ELSE "HIGH"

-----------------------------------------------------------------------------
\* analyze: the category and the severity of each finding.
MetricFindings(n, tokens, analyses) ==
  LET given(condition, category, severity) ==
        IF condition THEN {[category |-> category, severity |-> severity]} ELSE {}
  IN  given(TRUE, "network-emission-status",
            IF DeflationOf(n).isDeflationary THEN "INFO" ELSE "LOW")
        \cup given("dormant" \in VelocitiesOf(tokens), "dormant-tokens-detected", "LOW")
        \cup given("high" \in VelocitiesOf(tokens), "high-velocity-tokens", "INFO")
        \cup given("extreme" \in GinisOf(analyses), "extreme-gini-concentration", "HIGH")
        \cup given(TRUE, "network-health-score", SeverityOf(HealthOf(n, tokens)))
=============================================================================
