---------------------------- MODULE MCTronAudit ----------------------------
(***************************************************************************)
(* One run of the script with small lists, chunks of nine records and two  *)
(* faults, which is enough to exhaust the attempts of a request.           *)
(***************************************************************************)
EXTENDS TronAudit, TLC

MCCapacity == ("trongrid" :> 2) @@ ("tronscan" :> 1)

\* Two requests of governance run on while two resources are asked for.
MCCallers == ("trongrid" :> 4) @@ ("tronscan" :> 3)

MCParts == ("trongrid" :> 1) @@ ("tronscan" :> 2)

Network ==
  [pay |-> 10, partnerPay |-> 2, fee |-> 420, limit |-> 2000, weight |-> 9000,
   maxFactor |-> 2, staked |-> 3100]

Coin == [holders |-> 9, transfers |-> 400, marketCap |-> 9, supply |-> 100]

Rare == [holders |-> 2, transfers |-> 3, marketCap |-> 1, supply |-> 100]

MCAnswers ==
  [asks \in {"chainParameters", "holders", "witnesses", "proposals", "stakers", "resource",
             "delegation", "tokens", "tokenHolders", "outgoing", "incoming", "balance"} |->
     CASE asks = "chainParameters" -> {Network}
       [] asks = "tokens" -> {<<Coin, Rare>>}
       [] asks = "tokenHolders" -> {<<20, 30>>, <<1, 99>>}
       [] asks \in {"holders", "stakers"} -> {2}
       [] asks = "witnesses" -> {1}
       [] OTHER -> {1}]

\* Up to the resources there may be two faults, afterwards one.
Focus == faults <= 1 \/ step <= 3
=============================================================================
