----------------------------- MODULE HttpClient -----------------------------
(***************************************************************************)
(* The client of the TRON APIs (src/src/blockchain/tron-http-client.ts):   *)
(* one bucket of tokens for each endpoint, which all requests share, and   *)
(* for each request a number of attempts with a delay that doubles.        *)
(*                                                                         *)
(* A tick is the time in which the bucket of a client gains one part of a  *)
(* token; Parts make a token.  A timer fires within the tick it is due in. *)
(*                                                                         *)
(* load and answers are histories: what a store that gains a token for     *)
(* each caller in the time of one would have given out, and the answers a  *)
(* request had.                                                            *)
(***************************************************************************)
EXTENDS Integers, Sequences, FiniteSets, FiniteSetsExt

CONSTANTS
  Clients,     \* endpoints
  Capacity,    \* tokens of a full bucket: requests per second
  Parts,       \* ticks in which a client gains a token
  MaxRetries,
  RetryBase,   \* the first delay, in ticks
  Callers,     \* bound on the requests of a client that are open at a time
  MaxFaults,   \* bound on the faults of a behaviour
  None

ASSUME ClientsAssumption ==
  /\ Capacity \in [Clients -> Nat \ {0}]
  /\ Parts \in [Clients -> Nat \ {0}]
  /\ MaxRetries \in Nat
  /\ RetryBase \in Nat
  /\ Callers \in [Clients -> Nat \ {0}]

VARIABLES
  bucket,      \* parts of tokens in the bucket of a client
  load,
  request,     \* the requests that run or have ended, by what they ask
  faults

clientVars == <<bucket, load, request, faults>>

Full(client) == Capacity[client] * Parts[client]

ClientInit ==
  /\ bucket = [client \in Clients |-> Full(client)]
  /\ load = [client \in Clients |-> 0]
  /\ request = <<>>
  /\ faults = 0

NewRequest(client) ==
  [client |-> client, pc |-> "calling", attempt |-> 0, wait |-> 0, answers |-> <<>>,
   value |-> None]

\* A busy answer has status 429, 502, 503 or 504; a refusal has another one.  A
\* timeout, a connection that fails and a body that is no JSON have none.
Faults == {"busy", "refused", "unreachable"}

\* Fault: a request that found no server is made again.
RetryableAll(fault) == fault # "refused"

\* An error without status reaches the loop as an error of the client's own
\* class, which isRetryableError does not know.
Retryable(fault) == fault = "busy"

Over(r) == request[r].pc \in {"done", "failed"}

Live(client) ==
  {r \in DOMAIN request : request[r].client = client /\ ~Over(r)}

MaxOf(a, b) == IF a >= b THEN a ELSE b

MinOf(a, b) == IF a <= b THEN a ELSE b

-----------------------------------------------------------------------------
\* acquire, for calls that are made in one turn: the first of them on a client
\* take its whole tokens and are sent, the others wait for what is missing of one.
On(calls, asking, client) == {i \in DOMAIN calls : asking[calls[i]].client = client}

WholeTokens(client) == bucket[client] \div Parts[client]

Served(calls, asking, client) ==
  MinOf(Cardinality(On(calls, asking, client)), WholeTokens(client))

IsServed(r, calls, asking) ==
  LET on == On(calls, asking, asking[r].client)
  IN  \E i \in on :
        /\ calls[i] = r
        /\ Cardinality({j \in on : j < i}) < WholeTokens(asking[r].client)

Admitted(r, calls, asking) ==
  LET client == asking[r].client
  IN  IF asking[r].pc # "calling" THEN asking[r]
      ELSE IF IsServed(r, calls, asking) THEN [asking[r] EXCEPT !.pc = "sent"]
      ELSE [asking[r] EXCEPT !.pc = "waiting",
                             !.wait = Parts[client] - (bucket[client] % Parts[client])]

Acquire(calls, asking) ==
  /\ request' = [r \in DOMAIN asking |-> Admitted(r, calls, asking)]
  /\ bucket' = [client \in Clients |->
                  bucket[client] - Parts[client] * Served(calls, asking, client)]
  /\ load' = [client \in Clients |->
                load[client] + Parts[client] * Served(calls, asking, client)]
  /\ UNCHANGED faults

\* The bucket does not owe what others have taken meanwhile.
Left(parts, cost) == MaxOf(0, parts - cost)

Wake(r) ==
  LET client == request[r].client
  IN  /\ request[r].pc = "waiting" /\ request[r].wait = 0
      /\ request' = [request EXCEPT ![r].pc = "sent"]
      /\ bucket' = [bucket EXCEPT ![client] = Left(@, Parts[client])]
      /\ load' = [load EXCEPT ![client] = @ + Parts[client]]
      /\ UNCHANGED faults

Succeed(r, value) ==
  /\ request[r].pc = "sent"
  /\ request' = [request EXCEPT ![r].pc = "done", ![r].value = value,
                                ![r].answers = Append(@, "ok")]
  /\ UNCHANGED <<bucket, load, faults>>

Disappoint(r, fault) ==
  /\ request[r].pc = "sent" /\ faults < MaxFaults
  /\ faults' = faults + 1
  /\ request' =
       IF Retryable(fault) /\ request[r].attempt < MaxRetries
       THEN [request EXCEPT ![r].pc = "delayed", ![r].attempt = @ + 1,
                            ![r].wait = RetryBase * 2 ^ request[r].attempt,
                            ![r].answers = Append(@, fault)]
       ELSE [request EXCEPT ![r].pc = "failed", ![r].answers = Append(@, fault)]
  /\ UNCHANGED <<bucket, load>>

Retry(r) ==
  /\ request[r].pc = "delayed" /\ request[r].wait = 0
  /\ Acquire(<<r>>, [request EXCEPT ![r].pc = "calling"])

\* Fault: a bucket grows while nobody asks.
RefilledAll(client) == bucket[client] + 1

Refilled(client) == MinOf(Full(client), bucket[client] + 1)

Tick ==
  /\ \A r \in DOMAIN request :
       request[r].pc \in {"waiting", "delayed"} => request[r].wait > 0
  /\ bucket' = [client \in Clients |-> Refilled(client)]
  /\ load' = [client \in Clients |-> MaxOf(0, load[client] - Callers[client])]
  /\ request' = [r \in DOMAIN request |->
                   [request[r] EXCEPT !.wait = MaxOf(0, @ - 1)]]
  /\ UNCHANGED faults

ClientStep(r, values) ==
  \/ Wake(r) \/ Retry(r)
  \/ \E value \in values : Succeed(r, value)

-----------------------------------------------------------------------------
(***************************************************************************)
(* A request is repeated only after a busy answer, for no other reason     *)
(* and at most MaxRetries times; it ends with its first answer of another  *)
(* kind, and with a failure on a busy one only when no retry is left.      *)
(***************************************************************************)
RetriesJustified ==
  \A r \in DOMAIN request :
    LET answers == request[r].answers
        last == answers[Len(answers)]
    IN  /\ \A i \in 1 .. Len(answers) - 1 : answers[i] = "busy"
        /\ Len(answers) <= MaxRetries + 1
        /\ request[r].pc = "done" <=> Len(answers) > 0 /\ last = "ok"
        /\ request[r].pc = "failed" <=>
             /\ Len(answers) > 0
             /\ \/ last \in {"refused", "unreachable"}
                \/ last = "busy" /\ Len(answers) = MaxRetries + 1
        /\ request[r].value # None => request[r].pc = "done"

CallersKept == \A client \in Clients : Cardinality(Live(client)) <= Callers[client]

(***************************************************************************)
(* The rate the bucket keeps is that of each caller, not of the client:    *)
(* requests that wait at the same time are all sent when the first token   *)
(* comes.  With at most Callers[client] requests open at a time, what is   *)
(* sent is never more than a store gives out that gains a token for each   *)
(* caller in the time of one, and holds what the bucket holds and one for  *)
(* each caller but the first.                                              *)
(***************************************************************************)
RateIsPerCaller ==
  \A client \in Clients :
    load[client] <= Parts[client] * (Capacity[client] + Callers[client] - 1)
=============================================================================
