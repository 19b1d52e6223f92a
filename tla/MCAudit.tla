------------------------------ MODULE MCAudit ------------------------------
(***************************************************************************)
(* Two requests of the blockchain API and two of participation.  Either    *)
(* no request is an audit and the limiters are explored for themselves, or *)
(* two audits run and participation is left out: it shares nothing with    *)
(* them.                                                                   *)
(***************************************************************************)
EXTENDS Audit

CONSTANTS a1, a2, p1, p2, actor, global, subject, everyone, addr, coinA, coinB

MCKeysOf ==
  (a1 :> <<actor, global>>) @@ (a2 :> <<actor, global>>)
    @@ (p1 :> <<subject, everyone>>) @@ (p2 :> <<subject, everyone>>)

MCLimit == (actor :> 1) @@ (global :> 2) @@ (subject :> 1) @@ (everyone :> 1)

MCTargetOf == (a1 :> addr) @@ (a2 :> addr)

Wallet ==
  [isContract |-> FALSE, energyUsed |-> 96, energyLimit |-> 100,
   bandwidthUsed |-> 95, bandwidthLimit |-> 100, frozen |-> 1, delegated |-> 5,
   balance |-> 1000000, idle |-> 181, age |-> 200,
   owner |-> [keys |-> 1, threshold |-> 1, weight |-> 1], operations |-> TRUE,
   holdings |-> <<>>]

Program ==
  [Wallet EXCEPT !.isContract = TRUE, !.idle = 1, !.age = 6, !.energyUsed = 0,
                 !.owner = [keys |-> 2, threshold |-> 1, weight |-> 2],
                 !.holdings = [i \in 1 .. 6 |-> [token |-> IF i = 1 THEN coinA ELSE coinB,
                                                 balance |-> IF i = 2 THEN 0 ELSE 7]]]

Broken == [Wallet EXCEPT !.holdings = <<[token |-> coinA, balance |-> None]>>]

Proxy ==
  [isVerified |-> FALSE, functions |-> {"upgradeTo", "transfer"},
   age |-> 31, calls |-> 0, callers |-> 0]

Token ==
  [supply |-> 5, holders |-> 10, transfers |-> 0, market |-> [cap |-> 2000, volume |-> 1]]

Stake ==
  [frozen |-> <<[type |-> "ENERGY", amount |-> 4], [type |-> "BANDWIDTH", amount |-> 1]>>,
   delegatedEnergy |-> 4, delegatedBandwidth |-> 1, rewards |-> 11]

Witness(votes, produced, missed) ==
  [isElected |-> TRUE, votes |-> votes, produced |-> produced, missed |-> missed]

MCFacts ==
  [t \in Types |->
     CASE t = "account" -> {Wallet, Program, Broken}
       [] t = "contract" -> {Proxy}
       [] t = "token" -> {Token}
       [] t = "staking" -> {Stake}
       [] t = "governance" -> {<<Witness(5, 85, 16), Witness(1, 1, 0)>>, <<>>}]

\* In the order of the code's tests, in the other one, and with less.
MCRegistries ==
  {[t \in Types |-> CASE t \in {"account", "contract", "token"} -> order
                      [] OTHER -> <<"trongrid">>]
     : order \in {<<"trongrid", "tronscan">>, <<"tronscan", "trongrid">>}}
    \cup {[t \in Types |-> IF t = "account" THEN <<"tronscan">> ELSE <<>>]}

MCKinds == {(a1 :> "OTHER") @@ (a2 :> "OTHER"),
            (a1 :> "ACCOUNT") @@ (a2 :> "OTHER"), (a1 :> "CONTRACT") @@ (a2 :> "FULL")}

Focus ==
  /\ kind \in MCKinds
  /\ (\A c \in Strict : kind[c] = "OTHER") => registry["token"] = <<>>
  /\ (\E c \in Strict : kind[c] # "OTHER") =>
       /\ now <= IF "ACCOUNT" \in Range(kind) THEN 0 ELSE Window
       /\ \A c \in Calls \ Strict : call[c].pc = "new"
=============================================================================
