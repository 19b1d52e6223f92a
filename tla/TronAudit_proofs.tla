--------------------------- MODULE TronAudit_proofs ---------------------------
(***************************************************************************)
(* Proofs about the collection of metrics, for any endpoints, limits,      *)
(* retries, answers, lists and chunks.                                     *)
(***************************************************************************)
EXTENDS TronAudit, FiniteSetTheorems, TLAPS

-----------------------------------------------------------------------------
IsRequest(t) ==
  t = [client |-> t.client, pc |-> t.pc, attempt |-> t.attempt, wait |-> t.wait,
       answers |-> t.answers, value |-> t.value]

\* Requests.  One that is open has had busy answers only, one for each attempt
\* that it has behind it.
Justified(t) ==
  /\ IsRequest(t)
  /\ t.attempt \in 0 .. MaxRetries
  /\ t.answers \in Seq(Faults \cup {"ok"})
  /\ \A i \in 1 .. Len(t.answers) - 1 : t.answers[i] = "busy"
  /\ \/ /\ t.pc \in {"calling", "waiting", "sent", "delayed"}
        /\ Len(t.answers) = t.attempt
        /\ \A i \in 1 .. Len(t.answers) : t.answers[i] = "busy"
        /\ t.value = None
     \/ /\ t.pc = "done"
        /\ Len(t.answers) = t.attempt + 1
        /\ t.answers[Len(t.answers)] = "ok"
     \/ /\ t.pc = "failed"
        /\ Len(t.answers) = t.attempt + 1
        /\ t.answers[Len(t.answers)] \in Faults
        /\ t.answers[Len(t.answers)] = "busy" => t.attempt = MaxRetries
        /\ t.value = None

RequestInv ==
  /\ request = [r \in DOMAIN request |-> request[r]]
  /\ \A r \in DOMAIN request :
       /\ Justified(request[r]) /\ request[r].pc # "calling"
       /\ request[r].client = ClientOf(r)
       /\ request[r].pc = "done" => request[r].value \in Answers[r.asks]

LEMMA NewIsJustified ==
  ASSUME NEW client
  PROVE  /\ Justified(NewRequest(client)) /\ NewRequest(client).pc = "calling"
         /\ NewRequest(client).client = client
BY ClientsAssumption DEF Justified, IsRequest, NewRequest

\* What an open request becomes.
LEMMA Moved ==
  ASSUME NEW t, Justified(t), t.pc \in {"calling", "waiting", "sent", "delayed"},
         NEW pc \in {"calling", "waiting", "sent", "delayed"}, NEW wait,
         NEW u, u = [t EXCEPT !.pc = pc, !.wait = wait]
  PROVE  /\ Justified(u) /\ u.pc = pc /\ u.answers = t.answers /\ u.client = t.client
BY DEF Justified, IsRequest

\* One answer more.
LEMMA Appended ==
  ASSUME NEW S, NEW s \in Seq(S), NEW e \in S, NEW n \in Nat, n = Len(s)
  PROVE  /\ Append(s, e) \in Seq(S) /\ Len(Append(s, e)) = n + 1
         /\ Append(s, e)[n + 1] = e
         /\ \A i \in 1 .. n : Append(s, e)[i] = s[i]
OBVIOUS

LEMMA Ended ==
  ASSUME NEW t, Justified(t), t.pc = "sent", NEW value,
         NEW u, u = [client |-> t.client, pc |-> "done", attempt |-> t.attempt,
                     wait |-> t.wait, answers |-> Append(t.answers, "ok"), value |-> value]
  PROVE  Justified(u) /\ u.pc = "done" /\ u.value = value
<1>1. PICK n \in Nat : n = Len(t.answers) /\ n = t.attempt
  BY DEF Justified, IsRequest
<1>2. PICK more : more = Append(t.answers, "ok")
  OBVIOUS
<1>3. /\ t.answers \in Seq(Faults \cup {"ok"}) /\ \A i \in 1 .. n : t.answers[i] = "busy"
      /\ "ok" \in Faults \cup {"ok"}
  BY <1>1 DEF Justified, IsRequest, Faults
<1>4. /\ more \in Seq(Faults \cup {"ok"}) /\ Len(more) = n + 1 /\ more[n + 1] = "ok"
      /\ \A i \in 1 .. n : more[i] = "busy"
  <2>1. PICK S : S = Faults \cup {"ok"}
    OBVIOUS
  <2>2. PICK s \in Seq(S) : s = t.answers
    BY <1>3, <2>1
  <2>3. PICK e \in S : e = "ok"
    BY <1>3, <2>1
  <2>4. n = Len(s) /\ more = Append(s, e)
    BY <1>1, <1>2, <2>2, <2>3
  <2>5. QED
    BY <1>3, <2>1, <2>2, <2>3, <2>4, Appended
<1>5. /\ u.client = t.client /\ u.pc = "done" /\ u.attempt = t.attempt /\ u.wait = t.wait
      /\ u.answers = more /\ u.value = value
      /\ u = [client |-> u.client, pc |-> u.pc, attempt |-> u.attempt, wait |-> u.wait,
              answers |-> u.answers, value |-> u.value]
  BY <1>2 DEF Justified, IsRequest
<1>6. u.attempt \in 0 .. MaxRetries
  BY <1>5 DEF Justified, IsRequest
<1>7. QED
  BY <1>1, <1>4, <1>5, <1>6 DEF Justified, IsRequest

LEMMA Failed ==
  ASSUME NEW t, Justified(t), t.pc = "sent", NEW fault \in Faults,
         NEW u, u = [client |-> t.client, pc |-> "failed", attempt |-> t.attempt,
                     wait |-> t.wait, answers |-> Append(t.answers, fault),
                     value |-> t.value],
         fault = "busy" => t.attempt = MaxRetries
  PROVE  Justified(u) /\ u.pc = "failed"
<1>1. PICK n \in Nat : n = Len(t.answers) /\ n = t.attempt
  BY DEF Justified, IsRequest
<1>2. PICK more : more = Append(t.answers, fault)
  OBVIOUS
<1>3. /\ t.answers \in Seq(Faults \cup {"ok"}) /\ \A i \in 1 .. n : t.answers[i] = "busy"
      /\ fault \in Faults \cup {"ok"}
  BY <1>1 DEF Justified, IsRequest, Faults
<1>4. /\ more \in Seq(Faults \cup {"ok"}) /\ Len(more) = n + 1 /\ more[n + 1] = fault
      /\ \A i \in 1 .. n : more[i] = "busy"
  <2>1. PICK S : S = Faults \cup {"ok"}
    OBVIOUS
  <2>2. PICK s \in Seq(S) : s = t.answers
    BY <1>3, <2>1
  <2>3. PICK e \in S : e = fault
    BY <1>3, <2>1
  <2>4. n = Len(s) /\ more = Append(s, e)
    BY <1>1, <1>2, <2>2, <2>3
  <2>5. QED
    BY <1>3, <2>1, <2>2, <2>3, <2>4, Appended
<1>5. /\ u.client = t.client /\ u.pc = "failed" /\ u.attempt = t.attempt /\ u.wait = t.wait
      /\ u.answers = more /\ u.value = t.value /\ t.value = None
      /\ u = [client |-> u.client, pc |-> u.pc, attempt |-> u.attempt, wait |-> u.wait,
              answers |-> u.answers, value |-> u.value]
  BY <1>2 DEF Justified, IsRequest
<1>6. u.attempt \in 0 .. MaxRetries
  BY <1>5 DEF Justified, IsRequest
<1>7. QED
  BY <1>1, <1>4, <1>5, <1>6 DEF Justified, IsRequest

LEMMA Delayed ==
  ASSUME NEW t, Justified(t), t.pc = "sent", t.attempt < MaxRetries, NEW wait,
         NEW u, u = [client |-> t.client, pc |-> "delayed", attempt |-> t.attempt + 1,
                     wait |-> wait, answers |-> Append(t.answers, "busy"), value |-> t.value]
  PROVE  Justified(u) /\ u.pc = "delayed"
<1>1. PICK n \in Nat : n = Len(t.answers) /\ n = t.attempt
  BY DEF Justified, IsRequest
<1>2. PICK more : more = Append(t.answers, "busy")
  OBVIOUS
<1>3. /\ t.answers \in Seq(Faults \cup {"ok"}) /\ \A i \in 1 .. n : t.answers[i] = "busy"
      /\ "busy" \in Faults \cup {"ok"}
  BY <1>1 DEF Justified, IsRequest, Faults
<1>4. /\ more \in Seq(Faults \cup {"ok"}) /\ Len(more) = n + 1 /\ more[n + 1] = "busy"
      /\ \A i \in 1 .. n : more[i] = "busy"
  <2>1. PICK S : S = Faults \cup {"ok"}
    OBVIOUS
  <2>2. PICK s \in Seq(S) : s = t.answers
    BY <1>3, <2>1
  <2>3. PICK e \in S : e = "busy"
    BY <1>3, <2>1
  <2>4. n = Len(s) /\ more = Append(s, e)
    BY <1>1, <1>2, <2>2, <2>3
  <2>5. QED
    BY <1>3, <2>1, <2>2, <2>3, <2>4, Appended
<1>5. /\ u.client = t.client /\ u.pc = "delayed" /\ u.attempt = n + 1 /\ u.wait = wait
      /\ u.answers = more /\ u.value = t.value /\ t.value = None
      /\ u = [client |-> u.client, pc |-> u.pc, attempt |-> u.attempt, wait |-> u.wait,
              answers |-> u.answers, value |-> u.value]
  BY <1>1, <1>2 DEF Justified, IsRequest
<1>6. u.attempt \in 0 .. MaxRetries
  BY <1>1, <1>5, ClientsAssumption
<1>7. \A i \in 1 .. n + 1 : more[i] = "busy"
  BY <1>4
<1>8. QED
  BY <1>1, <1>4, <1>5, <1>6, <1>7 DEF Justified, IsRequest

-----------------------------------------------------------------------------
\* What a turn of calls does to the requests: who calls is sent or waits, and
\* the others are as they were.
Asking(asking) ==
  /\ asking = [r \in DOMAIN asking |-> asking[r]]
  /\ \A r \in DOMAIN asking :
       /\ Justified(asking[r]) /\ asking[r].client = ClientOf(r)
       /\ asking[r].pc = "done" => asking[r].value \in Answers[r.asks]

LEMMA AdmittedIsJustified ==
  ASSUME NEW r, NEW calls, NEW asking, Justified(asking[r])
  PROVE  /\ Justified(Admitted(r, calls, asking))
         /\ Admitted(r, calls, asking).client = asking[r].client
         /\ asking[r].pc = "calling" => Admitted(r, calls, asking).pc \in {"sent", "waiting"}
         /\ asking[r].pc # "calling" => Admitted(r, calls, asking) = asking[r]
<1>1. PICK t : t = asking[r]
  OBVIOUS
<1>2. PICK wait : wait = Parts[t.client] - (bucket[t.client] % Parts[t.client])
  OBVIOUS
<1>3. \/ t.pc # "calling" /\ Admitted(r, calls, asking) = t
      \/ t.pc = "calling" /\ Admitted(r, calls, asking) = [t EXCEPT !.pc = "sent"]
      \/ t.pc = "calling"
         /\ Admitted(r, calls, asking) = [t EXCEPT !.pc = "waiting", !.wait = wait]
  BY <1>1, <1>2 DEF Admitted
<1>4. Justified(t)
  BY <1>1
<1>5. ASSUME t.pc = "calling", NEW u,
             u = [t EXCEPT !.pc = "sent"] \/ u = [t EXCEPT !.pc = "waiting", !.wait = wait]
      PROVE  Justified(u) /\ u.pc \in {"sent", "waiting"} /\ u.client = t.client
  BY <1>4, <1>5 DEF Justified, IsRequest
<1>6. QED
  BY <1>1, <1>3, <1>4, <1>5

LEMMA AcquireIsJustified ==
  ASSUME NEW calls, NEW asking, Asking(asking), Acquire(calls, asking)
  PROVE  /\ DOMAIN request' = DOMAIN asking
         /\ request' = [r \in DOMAIN request' |-> request'[r]]
         /\ \A r \in DOMAIN asking :
              /\ Justified(request'[r]) /\ request'[r].client = ClientOf(r)
              /\ asking[r].pc = "calling" => request'[r].pc \in {"sent", "waiting"}
              /\ asking[r].pc # "calling" => request'[r] = asking[r]
<1>1. request' = [r \in DOMAIN asking |-> Admitted(r, calls, asking)]
  BY DEF Acquire
<1>2. QED
  BY <1>1, AdmittedIsJustified DEF Asking

\* What the answer to a request, its delay or its turn changes: that request only.
Turned(r) ==
  /\ RequestInv'
  /\ DOMAIN request' = DOMAIN request
  /\ \A q \in DOMAIN request : q # r => request'[q] = request[q]

LEMMA OneRequestTurned ==
  ASSUME RequestInv, NEW r \in DOMAIN request, NEW u,
         request' = [request EXCEPT ![r] = u], Justified(u), u.pc # "calling",
         u.client = request[r].client, u.pc = "done" => u.value \in Answers[r.asks]
  PROVE  Turned(r) /\ request'[r] = u
<1>1. /\ request' = [q \in DOMAIN request |-> IF q = r THEN u ELSE request[q]]
  BY DEF RequestInv
<1>2. /\ DOMAIN request' = DOMAIN request /\ request'[r] = u
      /\ \A q \in DOMAIN request : q # r => request'[q] = request[q]
      /\ request' = [q \in DOMAIN request' |-> request'[q]]
  BY <1>1
<1>3. \A q \in DOMAIN request' :
        /\ Justified(request'[q]) /\ request'[q].pc # "calling"
        /\ request'[q].client = ClientOf(q)
        /\ request'[q].pc = "done" => request'[q].value \in Answers[q.asks]
  BY <1>2 DEF RequestInv
<1>4. QED
  BY <1>2, <1>3 DEF Turned, RequestInv

LEMMA WakeTurns ==
  ASSUME RequestInv, NEW r \in DOMAIN request, Wake(r)
  PROVE  Turned(r)
<1>1. PICK t : t = request[r] /\ Justified(t) /\ t.pc = "waiting"
  BY DEF RequestInv, Wake
<1>2. PICK u : u = [t EXCEPT !.pc = "sent"]
  OBVIOUS
<1>3. Justified(u) /\ u.pc = "sent" /\ u.client = t.client
  BY <1>1, <1>2 DEF Justified, IsRequest
<1>4. request' = [request EXCEPT ![r] = u]
  BY <1>1, <1>2 DEF Wake
<1>5. QED
  BY <1>1, <1>3, <1>4, OneRequestTurned

LEMMA SucceedTurns ==
  ASSUME RequestInv, NEW r \in DOMAIN request, NEW value \in Answers[r.asks],
         Succeed(r, value)
  PROVE  Turned(r)
<1>1. PICK t : t = request[r] /\ Justified(t) /\ t.pc = "sent"
  BY DEF RequestInv, Succeed
<1>2. PICK u : u = [client |-> t.client, pc |-> "done", attempt |-> t.attempt,
                    wait |-> t.wait, answers |-> Append(t.answers, "ok"), value |-> value]
  OBVIOUS
<1>3. Justified(u) /\ u.pc = "done" /\ u.value = value /\ u.client = t.client
  BY <1>1, <1>2, Ended
<1>4. request' = [request EXCEPT ![r] = u]
  <2>0. IsRequest(t)
    BY <1>1 DEF Justified
  <2>1. PICK more : more = Append(t.answers, "ok")
    OBVIOUS
  <2>2. request' = [request EXCEPT ![r] = [t EXCEPT !.pc = "done", !.value = value,
                                                    !.answers = more]]
    BY <1>1, <2>1 DEF Succeed
  <2>3. u = [client |-> t.client, pc |-> "done", attempt |-> t.attempt, wait |-> t.wait,
             answers |-> more, value |-> value]
    BY <1>2, <2>1
  <2>4. PICK v : v = [t EXCEPT !.pc = "done", !.value = value, !.answers = more]
    OBVIOUS
  <2>5. /\ IsRequest(v) /\ v.client = t.client /\ v.pc = "done" /\ v.attempt = t.attempt
        /\ v.wait = t.wait /\ v.answers = more /\ v.value = value
    BY <2>0, <2>4 DEF IsRequest
  <2>6. v = u
    BY <2>3, <2>5 DEF IsRequest
  <2>7. QED
    BY <2>2, <2>4, <2>6
<1>5. QED
  BY <1>1, <1>3, <1>4, OneRequestTurned

LEMMA DisappointTurns ==
  ASSUME RequestInv, NEW r \in DOMAIN request, NEW fault \in Faults, Disappoint(r, fault)
  PROVE  Turned(r) /\ request[r].pc = "sent"
<1>1. PICK t : t = request[r] /\ Justified(t) /\ t.pc = "sent"
  BY DEF RequestInv, Disappoint
<1>2. t.attempt \in 0 .. MaxRetries
  BY <1>1 DEF Justified, IsRequest
<1>3. IsRequest(t)
  BY <1>1 DEF Justified
<1>4. CASE fault = "busy" /\ t.attempt < MaxRetries
  <2>1. PICK wait : wait = RetryBase * 2 ^ t.attempt
    OBVIOUS
  <2>2. PICK u : u = [client |-> t.client, pc |-> "delayed", attempt |-> t.attempt + 1,
                      wait |-> wait, answers |-> Append(t.answers, "busy"),
                      value |-> t.value]
    OBVIOUS
  <2>3. Justified(u) /\ u.pc = "delayed" /\ u.client = t.client
    BY <1>1, <1>4, <2>2, Delayed
  <2>4. request' = [request EXCEPT ![r] = u]
    <3>1. PICK more : more = Append(t.answers, "busy")
      OBVIOUS
    <3>2. request' = [request EXCEPT ![r] = [t EXCEPT !.pc = "delayed", !.attempt = @ + 1,
                                                      !.wait = wait, !.answers = more]]
      BY <1>1, <1>4, <2>1, <3>1 DEF Disappoint, Retryable
    <3>3. u = [client |-> t.client, pc |-> "delayed", attempt |-> t.attempt + 1,
               wait |-> wait, answers |-> more, value |-> t.value]
      BY <2>2, <3>1
    <3>4. PICK v : v = [t EXCEPT !.pc = "delayed", !.attempt = @ + 1, !.wait = wait,
                                 !.answers = more]
      OBVIOUS
    <3>5. /\ IsRequest(v) /\ v.client = t.client /\ v.pc = "delayed"
          /\ v.attempt = t.attempt + 1 /\ v.wait = wait /\ v.answers = more
          /\ v.value = t.value
      BY <1>3, <3>4 DEF IsRequest
    <3>6. v = u
      BY <3>3, <3>5 DEF IsRequest
    <3>7. QED
      BY <3>2, <3>4, <3>6
  <2>5. QED
    BY <1>1, <2>3, <2>4, OneRequestTurned
<1>5. CASE ~(fault = "busy" /\ t.attempt < MaxRetries)
  <2>1. PICK u : u = [client |-> t.client, pc |-> "failed", attempt |-> t.attempt,
                      wait |-> t.wait, answers |-> Append(t.answers, fault),
                      value |-> t.value]
    OBVIOUS
  <2>2. fault = "busy" => t.attempt = MaxRetries
    BY <1>2, <1>5, ClientsAssumption
  <2>3. Justified(u) /\ u.pc = "failed" /\ u.client = t.client
    BY <1>1, <2>1, <2>2, Failed
  <2>4. request' = [request EXCEPT ![r] = u]
    <3>1. PICK more : more = Append(t.answers, fault)
      OBVIOUS
    <3>2. request' = [request EXCEPT ![r] = [t EXCEPT !.pc = "failed", !.answers = more]]
      BY <1>1, <1>5, <3>1 DEF Disappoint, Retryable
    <3>3. u = [client |-> t.client, pc |-> "failed", attempt |-> t.attempt, wait |-> t.wait,
               answers |-> more, value |-> t.value]
      BY <2>1, <3>1
    <3>4. PICK v : v = [t EXCEPT !.pc = "failed", !.answers = more]
      OBVIOUS
    <3>5. /\ IsRequest(v) /\ v.client = t.client /\ v.pc = "failed"
          /\ v.attempt = t.attempt /\ v.wait = t.wait /\ v.answers = more
          /\ v.value = t.value
      BY <1>3, <3>4 DEF IsRequest
    <3>6. v = u
      BY <3>3, <3>5 DEF IsRequest
    <3>7. QED
      BY <3>2, <3>4, <3>6
  <2>5. QED
    BY <1>1, <2>3, <2>4, OneRequestTurned
<1>6. QED
  BY <1>4, <1>5

LEMMA RetryTurns ==
  ASSUME RequestInv, NEW r \in DOMAIN request, Retry(r)
  PROVE  Turned(r)
<1>1. PICK t : t = request[r] /\ Justified(t) /\ t.pc = "delayed"
  BY DEF RequestInv, Retry
<1>2. PICK u : u = [t EXCEPT !.pc = "calling"]
  OBVIOUS
<1>3. Justified(u) /\ u.pc = "calling" /\ u.client = t.client
  BY <1>1, <1>2 DEF Justified, IsRequest
<1>4. PICK asking : asking = [q \in DOMAIN request |-> IF q = r THEN u ELSE request[q]]
  OBVIOUS
<1>5. [request EXCEPT ![r].pc = "calling"] = asking
  BY <1>1, <1>2, <1>4 DEF RequestInv
<1>6. Acquire(<<r>>, asking)
  BY <1>5 DEF Retry
<1>7. Asking(asking)
  BY <1>1, <1>3, <1>4 DEF Asking, RequestInv
<1>8. DOMAIN asking = DOMAIN request
  BY <1>4
<1>9. \A q \in DOMAIN request : q # r => asking[q] = request[q] /\ asking[q].pc # "calling"
  BY <1>4 DEF RequestInv
<1>10. asking[r].pc = "calling"
  BY <1>3, <1>4
<1>11. /\ DOMAIN request' = DOMAIN asking
       /\ request' = [q \in DOMAIN request' |-> request'[q]]
       /\ \A q \in DOMAIN asking :
            /\ Justified(request'[q]) /\ request'[q].client = ClientOf(q)
            /\ asking[q].pc = "calling" => request'[q].pc \in {"sent", "waiting"}
            /\ asking[q].pc # "calling" => request'[q] = asking[q]
  BY <1>6, <1>7, AcquireIsJustified
<1>12. \A q \in DOMAIN request : q # r => request'[q] = request[q]
  BY <1>8, <1>9, <1>11
<1>13. request'[r].pc \in {"sent", "waiting"}
  BY <1>8, <1>10, <1>11
<1>14. RequestInv'
  BY <1>8, <1>11, <1>12, <1>13 DEF RequestInv
<1>15. QED
  BY <1>8, <1>11, <1>12, <1>14 DEF Turned

\* A request that has ended takes no part in any of this.
LEMMA RequestTurns ==
  ASSUME RequestInv, NEW r \in DOMAIN request,
         RequestStep(r) \/ \E fault \in Faults : Disappoint(r, fault)
  PROVE  Turned(r) /\ ~Over(r)
<1>1. CASE RequestStep(r)
  <2>1. Wake(r) \/ Retry(r) \/ \E value \in Answers[r.asks] : Succeed(r, value)
    BY <1>1 DEF RequestStep, ClientStep
  <2>2. ~Over(r)
    BY <2>1 DEF Wake, Retry, Succeed, Over
  <2>3. QED
    BY <2>1, <2>2, WakeTurns, RetryTurns, SucceedTurns, Zenon
<1>2. ASSUME NEW fault \in Faults, Disappoint(r, fault)
      PROVE  Turned(r) /\ ~Over(r)
  BY <1>2, DisappointTurns DEF Over
<1>3. QED
  BY <1>1, <1>2

\* Time only shortens what is waited for.
LEMMA TickTurnsNone ==
  ASSUME RequestInv, Tick
  PROVE  /\ RequestInv'
         /\ DOMAIN request' = DOMAIN request
         /\ \A r \in DOMAIN request : /\ request'[r].pc = request[r].pc
                                      /\ request'[r].value = request[r].value
<1>1. /\ DOMAIN request' = DOMAIN request
      /\ request' = [r \in DOMAIN request' |-> request'[r]]
      /\ \A r \in DOMAIN request :
           request'[r] = [request[r] EXCEPT !.wait = MaxOf(0, @ - 1)]
  BY DEF Tick
<1>2. ASSUME NEW r \in DOMAIN request
      PROVE  /\ Justified(request'[r]) /\ request'[r].pc = request[r].pc
             /\ request'[r].value = request[r].value
             /\ request'[r].client = request[r].client
  <2>1. PICK t : t = request[r] /\ Justified(t)
    BY DEF RequestInv
  <2>2. PICK wait : wait = MaxOf(0, t.wait - 1)
    OBVIOUS
  <2>3. request'[r] = [t EXCEPT !.wait = wait]
    BY <1>1, <2>1, <2>2
  <2>4. PICK u : u = [t EXCEPT !.wait = wait]
    OBVIOUS
  <2>5. Justified(u) /\ u.pc = t.pc /\ u.value = t.value /\ u.client = t.client
    BY <2>1, <2>4 DEF Justified, IsRequest
  <2>6. QED
    BY <2>1, <2>3, <2>4, <2>5
<1>3. QED
  BY <1>1, <1>2 DEF RequestInv

LEMMA ForgetTurnsNone ==
  ASSUME RequestInv, Forget
  PROVE  /\ RequestInv'
         /\ DOMAIN request' = {r \in DOMAIN request : ~Over(r)}
         /\ \A r \in DOMAIN request' : request'[r] = request[r]
<1>1. request' = [r \in {q \in DOMAIN request : ~Over(q)} |-> request[r]]
  BY DEF Forget, Restrict
<1>2. QED
  BY <1>1 DEF RequestInv

LEMMA RoundTurns ==
  ASSUME RequestInv, NEW round, Acquire(round, WithRound(round))
  PROVE  /\ RequestInv'
         /\ DOMAIN request' = DOMAIN request \cup Range(round)
         /\ \A r \in DOMAIN request \ Range(round) : request'[r] = request[r]
         /\ \A r \in Range(round) : request'[r].pc \in {"sent", "waiting"}
<1>1. PICK asking : asking = WithRound(round)
  OBVIOUS
<1>2. /\ DOMAIN asking = DOMAIN request \cup Range(round)
      /\ asking = [r \in DOMAIN asking |-> asking[r]]
      /\ \A r \in Range(round) : asking[r] = NewRequest(ClientOf(r))
      /\ \A r \in DOMAIN request \ Range(round) : asking[r] = request[r]
  BY <1>1 DEF WithRound
<1>3. \A r \in Range(round) : /\ Justified(asking[r]) /\ asking[r].pc = "calling"
                              /\ asking[r].client = ClientOf(r)
  BY <1>2, NewIsJustified
<1>4. \A r \in DOMAIN request \ Range(round) :
        /\ Justified(asking[r]) /\ asking[r].pc # "calling"
        /\ asking[r].client = ClientOf(r)
        /\ asking[r].pc = "done" => asking[r].value \in Answers[r.asks]
  BY <1>2 DEF RequestInv
<1>5. Asking(asking)
  BY <1>2, <1>3, <1>4 DEF Asking
<1>6. /\ DOMAIN request' = DOMAIN asking
      /\ request' = [r \in DOMAIN request' |-> request'[r]]
      /\ \A r \in DOMAIN asking :
           /\ Justified(request'[r]) /\ request'[r].client = ClientOf(r)
           /\ asking[r].pc = "calling" => request'[r].pc \in {"sent", "waiting"}
           /\ asking[r].pc # "calling" => request'[r] = asking[r]
  BY <1>1, <1>5, AcquireIsJustified
<1>7. \A r \in Range(round) : request'[r].pc \in {"sent", "waiting"}
  BY <1>2, <1>3, <1>6
<1>8. \A r \in DOMAIN request \ Range(round) : request'[r] = request[r]
  BY <1>2, <1>4, <1>6
<1>9. RequestInv'
  BY <1>2, <1>6, <1>7, <1>8 DEF RequestInv
<1>10. QED
  BY <1>2, <1>6, <1>7, <1>8, <1>9

LEMMA InitRequests == Init => RequestInv
BY DEF Init, ClientInit, RequestInv

\* What a step does to the requests.
LEMMA NextRequests == RequestInv /\ [Next]_vars => RequestInv'
<1> SUFFICES ASSUME RequestInv, [Next]_vars
             PROVE  RequestInv'
  OBVIOUS
<1>1. CASE StartRound
  BY <1>1, RoundTurns DEF StartRound
<1>2. CASE IngestNetwork \/ IngestTrc20 \/ IngestOther \/ Analyze \/ Skip
  <2>1. Forget
    BY <1>2 DEF IngestNetwork, IngestTrc20, IngestOther, Analyze, Skip
  <2>2. QED
    BY <2>1, ForgetTurnsNone
<1>3. CASE InsertChunk \/ Persisted \/ EndPhase \/ FailChunk
  <2>1. UNCHANGED request
    BY <1>3 DEF InsertChunk, Persisted, EndPhase, FailChunk, clientVars
  <2>2. QED
    BY <2>1 DEF RequestInv
<1>4. ASSUME NEW r \in DOMAIN request, RequestStep(r) \/ \E f \in Faults : Disappoint(r, f)
      PROVE  RequestInv'
  BY <1>4, RequestTurns DEF Turned
<1>5. CASE Tick
  BY <1>5, TickTurnsNone
<1>6. CASE UNCHANGED vars
  BY <1>6 DEF vars, clientVars, RequestInv
<1>7. QED
  BY <1>1, <1>2, <1>3, <1>4, <1>5, <1>6 DEF Next, ScriptStep

\* Whatever is answered and whatever fails, an open request of tron-http-client.ts has
\* had busy answers only, and a value that was taken is one its endpoint may give.
THEOREM RequestsAreSound == Spec => []RequestInv
<1>1. QED
  BY InitRequests, NextRequests, PTL DEF Spec

(***************************************************************************)
(* tron-http-client.ts repeats a request only after a busy answer and at   *)
(* most MaxRetries times, and ends it with the first other answer; every   *)
(* failure it reports is one of a kind that is not retried, or the busy    *)
(* answer to the last attempt.                                             *)
(***************************************************************************)
THEOREM RetriesAreJustified == Spec => []RetriesJustified
<1>1. RequestInv => RetriesJustified
  <2> SUFFICES ASSUME RequestInv, NEW r \in DOMAIN request
               PROVE  LET answers == request[r].answers
                          last == answers[Len(answers)]
                      IN  /\ \A i \in 1 .. Len(answers) - 1 : answers[i] = "busy"
                          /\ Len(answers) <= MaxRetries + 1
                          /\ request[r].pc = "done" <=> Len(answers) > 0 /\ last = "ok"
                          /\ request[r].pc = "failed" <=>
                               /\ Len(answers) > 0
                               /\ \/ last \in {"refused", "unreachable"}
                                  \/ last = "busy" /\ Len(answers) = MaxRetries + 1
                          /\ request[r].value # None => request[r].pc = "done"
    BY DEF RetriesJustified
  <2>1. PICK t : t = request[r] /\ Justified(t) /\ t.pc # "calling"
    BY DEF RequestInv
  <2>2. PICK s \in Seq(Faults \cup {"ok"}) : s = t.answers
    BY <2>1 DEF Justified
  <2>3. PICK n \in Nat : n = Len(s)
    OBVIOUS
  <2>4. /\ \A i \in 1 .. n - 1 : s[i] = "busy"
        /\ t.attempt \in 0 .. MaxRetries
    BY <2>1, <2>2, <2>3 DEF Justified
  <2>5. \/ /\ t.pc \in {"waiting", "sent", "delayed"} /\ n = t.attempt /\ t.value = None
           /\ n > 0 => s[n] = "busy"
        \/ t.pc = "done" /\ n = t.attempt + 1 /\ s[n] = "ok"
        \/ t.pc = "failed" /\ n = t.attempt + 1 /\ s[n] \in Faults /\ t.value = None
           /\ (s[n] = "busy" => t.attempt = MaxRetries)
    BY <2>1, <2>2, <2>3 DEF Justified
  <2>6. /\ n <= MaxRetries + 1
        /\ t.pc = "done" <=> n > 0 /\ s[n] = "ok"
        /\ t.pc = "failed" <=> /\ n > 0
                               /\ \/ s[n] \in {"refused", "unreachable"}
                                  \/ s[n] = "busy" /\ n = MaxRetries + 1
        /\ t.value # None => t.pc = "done"
    BY <2>4, <2>5, ClientsAssumption DEF Faults
  <2>7. QED
    BY <2>1, <2>2, <2>3, <2>4, <2>6
<1>2. QED
  BY <1>1, RequestsAreSound, PTL

-----------------------------------------------------------------------------
\* The records that a phase tells of are counted, whatever has failed.
LEMMA CountOfAnswer ==
  ASSUME RequestInv, NEW asks \in {"holders", "witnesses", "stakers"}
  PROVE  ValueOf(Id(asks, 1), 0) \in Nat
<1>1. PICK r : r = Id(asks, 1)
  OBVIOUS
<1>2. r.asks = asks
  BY <1>1 DEF Id
<1>3. CASE Has(r)
  BY <1>1, <1>2, <1>3, AnswersAssumption DEF ValueOf, Has, RequestInv
<1>4. CASE ~Has(r)
  BY <1>1, <1>4 DEF ValueOf
<1>5. QED
  BY <1>3, <1>4

IsList(list) == Len(list) \in Nat /\ DOMAIN list = 1 .. Len(list)

LEMMA ListOfAnswer ==
  ASSUME RequestInv, NEW asks \in {"tokens", "tokenHolders"}, NEW n
  PROVE  IsList(ValueOf(Id(asks, n), <<>>))
<1>1. PICK r : r = Id(asks, n)
  OBVIOUS
<1>2. r.asks = asks
  BY <1>1 DEF Id
<1>3. CASE Has(r)
  <2>1. request[r].value \in Answers[asks]
    BY <1>2, <1>3 DEF Has, RequestInv
  <2>2. IsList(request[r].value)
    BY <2>1, AnswersAssumption DEF IsList
  <2>3. QED
    BY <1>1, <1>3, <2>2 DEF ValueOf
<1>4. CASE ~Has(r)
  BY <1>1, <1>4 DEF ValueOf, IsList
<1>5. QED
  BY <1>3, <1>4

LEMMA LeastIsCount ==
  ASSUME NEW a \in Nat, NEW b \in Nat
  PROVE  MinOf(a, b) \in Nat /\ MinOf(a, b) <= a /\ MinOf(a, b) <= b
BY DEF MinOf

LEMMA AnalysesAreFinite ==
  ASSUME RequestInv
  PROVE  /\ IsList(Tokens) /\ Analyzed \in Nat /\ DOMAIN Analyses = 1 .. Analyzed
         /\ \A i \in 1 .. Analyzed : IsList(Analyses[i].balances)
<1>1. IsList(Tokens)
  BY ListOfAnswer DEF Tokens
<1>2. Analyzed \in Nat
  BY <1>1, LeastIsCount, ScriptAssumption DEF Analyzed, IsList
<1>3. DOMAIN Analyses = 1 .. Analyzed
  BY DEF Analyses
<1>4. ASSUME NEW i \in 1 .. Analyzed
      PROVE  IsList(Analyses[i].balances)
  <2>1. Analyses[i].balances = ValueOf(Id("tokenHolders", i), <<>>)
    BY DEF Analyses
  <2>2. QED
    BY <2>1, ListOfAnswer
<1>5. QED
  BY <1>1, <1>2, <1>3, <1>4

LEMMA ValuesAreFinite ==
  ASSUME NEW f, IsFiniteSet(DOMAIN f), f = [x \in DOMAIN f |-> f[x]]
  PROVE  IsFiniteSet({f[x] : x \in DOMAIN f})
<1>1. PICK T : T = {f[x] : x \in DOMAIN f}
  OBVIOUS
<1>2. f \in Surjection(DOMAIN f, T)
  BY <1>1 DEF Surjection
<1>3. QED
  BY <1>1, <1>2, FS_Surjection

LEMMA HoldersAreFinite ==
  ASSUME NEW n \in Nat, NEW list, DOMAIN list = 1 .. n,
         \A i \in 1 .. n : IsList(list[i].balances)
  PROVE  IsFiniteSet(HoldersOf(list))
<1>1. PICK places : places = {{<<i, j>> : j \in DOMAIN list[i].balances} : i \in 1 .. n}
  OBVIOUS
<1>2. IsFiniteSet(1 .. n)
  BY FS_Interval
<1>3. IsFiniteSet(places)
  <2>1. PICK f : f = [i \in 1 .. n |-> {<<i, j>> : j \in DOMAIN list[i].balances}]
    OBVIOUS
  <2>2. DOMAIN f = 1 .. n /\ f = [i \in DOMAIN f |-> f[i]]
    BY <2>1
  <2>3. places = {f[i] : i \in DOMAIN f}
    BY <1>1, <2>1
  <2>4. QED
    BY <1>2, <2>2, <2>3, ValuesAreFinite
<1>4. ASSUME NEW P \in places
      PROVE  IsFiniteSet(P)
  <2>1. PICK i \in 1 .. n : P = {<<i, j>> : j \in DOMAIN list[i].balances}
    BY <1>1
  <2>2. PICK m \in Nat : DOMAIN list[i].balances = 1 .. m
    BY DEF IsList
  <2>3. IsFiniteSet(1 .. m)
    BY FS_Interval
  <2>4. PICK f : f = [j \in 1 .. m |-> <<i, j>>]
    OBVIOUS
  <2>5. DOMAIN f = 1 .. m /\ f = [j \in DOMAIN f |-> f[j]]
    BY <2>4
  <2>6. P = {f[j] : j \in DOMAIN f}
    BY <2>1, <2>2, <2>4
  <2>7. QED
    BY <2>3, <2>5, <2>6, ValuesAreFinite
<1>5. IsFiniteSet(UNION places)
  BY <1>3, <1>4, FS_UNION
<1>6. QED
  BY <1>1, <1>5 DEF HoldersOf

LEMMA CollectedCounts ==
  ASSUME RequestInv
  PROVE  /\ NetworkRecords \in Nat /\ GovernanceRecords \in Nat
         /\ ResourceRecords \in Nat /\ Trc20Records \in Nat /\ RentalRecords \in Nat
<1>1. NetworkRecords \in Nat
  BY CountOfAnswer DEF NetworkRecords
<1>2. GovernanceRecords \in Nat
  BY CountOfAnswer DEF GovernanceRecords
<1>3. ResourceRecords \in Nat
  <2>1. Stakers \in Nat
    BY CountOfAnswer, LeastIsCount, ScriptAssumption DEF Stakers
  <2>2. QED
    BY <2>1 DEF ResourceRecords
<1>4. Trc20Records \in Nat
  <2>1. IsFiniteSet(HoldersOf(Analyses))
    BY AnalysesAreFinite, HoldersAreFinite
  <2>2. Cardinality(HoldersOf(Analyses)) \in Nat /\ Len(Tokens) \in Nat
    BY <2>1, FS_CardinalityType, AnalysesAreFinite DEF IsList
  <2>3. QED
    BY <2>2 DEF Trc20Records
<1>5. RentalRecords \in Nat
  <2>1. PICK paid : paid = {i \in 1 .. Platforms : ValueOf(Id("incoming", i), 0) > 0}
    OBVIOUS
  <2>2. IsFiniteSet(1 .. Platforms) /\ Platforms \in Nat
    BY FS_Interval, ScriptAssumption
  <2>3. IsFiniteSet(paid)
    BY <2>1, <2>2, FS_Subset
  <2>4. Cardinality(paid) \in Nat
    BY <2>3, FS_CardinalityType
  <2>5. QED
    BY <2>1, <2>2, <2>4 DEF RentalRecords
<1>6. QED
  BY <1>1, <1>2, <1>3, <1>4, <1>5

\* What the analytics are given is finite, and so is what they find.
Lists == IsFiniteSet(DOMAIN tokenList) /\ IsFiniteSet(DOMAIN analyses)

LEMMA AnalyticsCounts ==
  ASSUME Lists
  PROVE  AnalyticsRecords \in Nat
<1>1. IsFiniteSet(Moving) /\ IsFiniteSet(MeasuredAnalyses)
  BY FS_Subset DEF Lists, Moving, MeasuredAnalyses
<1>2. QED
  BY <1>1, FS_CardinalityType DEF AnalyticsRecords

LEMMA FindingsAreFinite ==
  ASSUME NEW n, NEW tokens, NEW list
  PROVE  Cardinality(MetricFindings(n, tokens, list)) \in Nat
<1>1. PICK f1 : f1 = [category |-> "network-emission-status",
                      severity |-> IF DeflationOf(n).isDeflationary THEN "INFO" ELSE "LOW"]
  OBVIOUS
<1>2. PICK f2 : f2 = [category |-> "dormant-tokens-detected", severity |-> "LOW"]
  OBVIOUS
<1>3. PICK f3 : f3 = [category |-> "high-velocity-tokens", severity |-> "INFO"]
  OBVIOUS
<1>4. PICK f4 : f4 = [category |-> "extreme-gini-concentration", severity |-> "HIGH"]
  OBVIOUS
<1>5. PICK f5 : f5 = [category |-> "network-health-score",
                      severity |-> SeverityOf(HealthOf(n, tokens))]
  OBVIOUS
<1>6. MetricFindings(n, tokens, list) \subseteq {f1, f2, f3, f4, f5}
  BY <1>1, <1>2, <1>3, <1>4, <1>5, Zenon DEF MetricFindings
<1>7. IsFiniteSet({f1, f2, f3, f4, f5})
  <2>1. IsFiniteSet({f1}) /\ IsFiniteSet({f2}) /\ IsFiniteSet({f3}) /\ IsFiniteSet({f4})
        /\ IsFiniteSet({f5})
    BY FS_Singleton
  <2>2. IsFiniteSet({f1} \cup {f2} \cup {f3} \cup {f4} \cup {f5})
    BY <2>1, FS_Union
  <2>3. {f1} \cup {f2} \cup {f3} \cup {f4} \cup {f5} = {f1, f2, f3, f4, f5}
    OBVIOUS
  <2>4. QED
    BY <2>2, <2>3
<1>8. QED
  BY <1>6, <1>7, FS_Subset, FS_CardinalityType

-----------------------------------------------------------------------------
\* The stores.  A batch is told to the memory store when its phase has collected
\* it, and is then written, chunk by chunk, until it is whole or warned about.
InChunks(records, written) ==
  written = records \/ \E n \in 0 .. records : written = n * ChunkSize

IsNext(b) == toStore # <<>> /\ b = Head(toStore)

BatchAgrees(b) ==
  /\ memory[b] \in Nat /\ sql[b] \in Nat /\ sql[b] <= memory[b]
  /\ InChunks(memory[b], sql[b])
  /\ Past(b) => (b \in warned <=> sql[b] < memory[b])
  /\ ~Past(b) => b \notin warned
  /\ ~Past(b) /\ ~IsNext(b) => sql[b] = 0
  /\ ~Past(b) /\ b \notin Range(toStore) => memory[b] = 0

Remaining ==
  IF doing # "persist" THEN {<<>>}
  ELSE IF Phase = "analytics" THEN {<<"analytics", "findings">>, <<"findings">>, <<>>}
  ELSE {<<Phase>>, <<>>}

SumOf(m) ==
  m["network"] + m["governance"] + m["resources"] + m["trc20"] + m["rental"]
    + m["analytics"] + m["findings"]

StoreInv ==
  /\ step \in 1 .. 6 /\ doing \in {"collect", "persist", "end"}
  /\ doing = "end" => step = 6
  /\ memory = [b \in Batches |-> memory[b]] /\ sql = [b \in Batches |-> sql[b]]
  /\ toStore \in Remaining
  /\ \A b \in Batches : BatchAgrees(b)
  /\ total = SumOf(memory)

LEMMA PhasesInOrder ==
  /\ DOMAIN Phases = 1 .. 6 /\ Len(Phases) = 6
  /\ Batches = {"network", "governance", "resources", "trc20", "rental", "analytics",
                "findings"}
  /\ \A i \in 1 .. 6 : Phases[i] \in Batches /\ Phases[i] # "findings"
  /\ \A i, j \in 1 .. 6 : Phases[i] = Phases[j] => i = j
  /\ \A b \in Batches : b = "findings" \/ \E i \in 1 .. 6 : Phases[i] = b
  /\ \A i \in 1 .. 6 : Phases[i] = "analytics" <=> i = 6
<1>1. DOMAIN Phases = 1 .. 6 /\ Len(Phases) = 6
  BY DEF Phases
<1>2. /\ Phases[1] = "network" /\ Phases[2] = "governance" /\ Phases[3] = "resources"
      /\ Phases[4] = "trc20" /\ Phases[5] = "rental" /\ Phases[6] = "analytics"
  BY DEF Phases
<1>3. \A i \in 1 .. 6 : i = 1 \/ i = 2 \/ i = 3 \/ i = 4 \/ i = 5 \/ i = 6
  OBVIOUS
<1>4. Batches = {"network", "governance", "resources", "trc20", "rental", "analytics",
                 "findings"}
  <2>1. \A x : x \in {Phases[i] : i \in 1 .. 6} <=> \E i \in 1 .. 6 : x = Phases[i]
    OBVIOUS
  <2>2. \A x : (\E i \in 1 .. 6 : x = Phases[i]) <=>
          x \in {"network", "governance", "resources", "trc20", "rental", "analytics"}
    BY <1>2, <1>3
  <2>3. QED
    BY <1>1, <2>1, <2>2 DEF Batches
<1>5. QED
  BY <1>1, <1>2, <1>3, <1>4

LEMMA RangesOfStore ==
  /\ Range(<<>>) = {}
  /\ \A x : Range(<<x>>) = {x}
  /\ \A x, y : Range(<<x, y>>) = {x, y}
  /\ \A x : Head(<<x>>) = x /\ Tail(<<x>>) = <<>> /\ <<x>> # <<>>
  /\ \A x, y : Head(<<x, y>>) = x /\ Tail(<<x, y>>) = <<y>> /\ <<x, y>> # <<>>
BY DEF Range

LEMMA SumOfOneMore ==
  ASSUME NEW m, NEW more, NEW p \in Batches, NEW n \in Nat, m[p] = 0, more[p] = n,
         \A b \in Batches : m[b] \in Nat,
         \A b \in Batches : b # p => more[b] = m[b]
  PROVE  SumOf(more) = SumOf(m) + n
<1>1. /\ m["network"] \in Nat /\ m["governance"] \in Nat /\ m["resources"] \in Nat
      /\ m["trc20"] \in Nat /\ m["rental"] \in Nat /\ m["analytics"] \in Nat
      /\ m["findings"] \in Nat
  BY PhasesInOrder
<1>2. \A b \in {"network", "governance", "resources", "trc20", "rental", "analytics",
                "findings"} : b # p => more[b] = m[b]
  BY PhasesInOrder
<1>3. p \in {"network", "governance", "resources", "trc20", "rental", "analytics",
            "findings"}
  BY PhasesInOrder
<1>4. CASE p = "network"
  BY <1>1, <1>2, <1>4 DEF SumOf
<1>5. CASE p = "governance"
  BY <1>1, <1>2, <1>5 DEF SumOf
<1>6. CASE p = "resources"
  BY <1>1, <1>2, <1>6 DEF SumOf
<1>7. CASE p = "trc20"
  BY <1>1, <1>2, <1>7 DEF SumOf
<1>8. CASE p = "rental"
  BY <1>1, <1>2, <1>8 DEF SumOf
<1>9. CASE p = "analytics"
  BY <1>1, <1>2, <1>9 DEF SumOf
<1>10. CASE p = "findings"
  BY <1>1, <1>2, <1>10 DEF SumOf
<1>11. QED
  BY <1>3, <1>4, <1>5, <1>6, <1>7, <1>8, <1>9, <1>10

\* What is past while a phase collects, persists, or nothing is left.
LEMMA PastWhileCollecting ==
  ASSUME StoreInv, doing = "collect"
  PROVE  /\ toStore = <<>>
         /\ Phase \in Batches
         /\ \A b \in Batches : Past(b) <=> \E i \in 1 .. step - 1 : Phases[i] = b
         /\ ~Past(Phase) /\ ~Past("findings")
         /\ memory[Phase] = 0 /\ sql[Phase] = 0
         /\ memory["findings"] = 0 /\ sql["findings"] = 0
<1>1. toStore = <<>> /\ Range(toStore) = {}
  BY RangesOfStore DEF StoreInv, Remaining
<1>2. \A b \in Batches : Past(b) <=> \E i \in 1 .. step - 1 : Phases[i] = b
  BY DEF Past
<1>3. Phase \in Batches /\ "findings" \in Batches
  BY PhasesInOrder DEF StoreInv, Phase
<1>4. ~Past(Phase) /\ ~Past("findings")
  BY <1>2, <1>3, PhasesInOrder DEF StoreInv, Phase
<1>5. memory[Phase] = 0 /\ memory["findings"] = 0
  BY <1>1, <1>3, <1>4 DEF StoreInv, BatchAgrees
<1>6. sql[Phase] = 0 /\ sql["findings"] = 0
  BY <1>1, <1>3, <1>4 DEF StoreInv, BatchAgrees, IsNext
<1>7. QED
  BY <1>1, <1>2, <1>3, <1>4, <1>5, <1>6

LEMMA InitStores == Init => StoreInv
<1> SUFFICES ASSUME Init
             PROVE  StoreInv
  OBVIOUS
<1>1. /\ step = 1 /\ doing = "collect" /\ toStore = <<>> /\ warned = {} /\ total = 0
      /\ memory = [b \in Batches |-> 0] /\ sql = [b \in Batches |-> 0]
  BY DEF Init
<1>2. \A b \in Batches : ~Past(b)
  BY <1>1 DEF Past
<1>3. \A b \in Batches : BatchAgrees(b)
  BY <1>1, <1>2 DEF BatchAgrees, InChunks
<1>4. total = SumOf(memory)
  BY <1>1, PhasesInOrder DEF SumOf
<1>5. QED
  BY <1>1, <1>3, <1>4 DEF StoreInv, Remaining

\* Steps that change neither store, nor what is past.
LEMMA BatchesCarried ==
  ASSUME StoreInv, UNCHANGED <<memory, sql, warned>>,
         \A b \in Batches : Past(b)' <=> Past(b),
         \A b \in Batches : IsNext(b) /\ ~Past(b) => IsNext(b)' \/ sql[b] = 0,
         \A b \in Batches : b \in Range(toStore) /\ ~Past(b) => b \in Range(toStore')
  PROVE  \A b \in Batches : BatchAgrees(b)'
BY DEF StoreInv, BatchAgrees

LEMMA KeepStores ==
  ASSUME StoreInv, doing = "collect", Phase # "analytics", NEW n \in Nat, Keep(Phase, n)
  PROVE  StoreInv'
<1>1. PICK p : p = Phase
  OBVIOUS
<1>2. /\ memory' = [memory EXCEPT ![p] = n] /\ sql' = sql /\ warned' = warned
      /\ total' = total + n /\ toStore' = <<p>> /\ doing' = "persist" /\ step' = step
  BY <1>1 DEF Keep
<1>3. /\ toStore = <<>> /\ p \in Batches /\ p # "findings" /\ p # "analytics"
      /\ \A b \in Batches : Past(b) <=> \E i \in 1 .. step - 1 : Phases[i] = b
      /\ ~Past(p) /\ memory[p] = 0 /\ sql[p] = 0
  BY <1>1, PastWhileCollecting, PhasesInOrder DEF StoreInv, Phase
<1>4. Phase' = p /\ PhaseBatches' = {p}
  BY <1>1, <1>2, <1>3 DEF Phase, PhaseBatches
<1>5. Range(toStore') = {p} /\ \A b : IsNext(b)' <=> b = p
  BY <1>2, RangesOfStore DEF IsNext
<1>6. \A b \in Batches : Past(b)' <=> Past(b)
  BY <1>2, <1>3, <1>4, <1>5 DEF Past
<1>7. memory'[p] = n /\ \A b \in Batches : b # p => memory'[b] = memory[b]
  BY <1>2, <1>3 DEF StoreInv
<1>8. InChunks(n, 0)
  <2>1. 0 \in 0 .. n /\ 0 = 0 * ChunkSize
    BY ScriptAssumption
  <2>2. QED
    BY <2>1 DEF InChunks
<1>9. BatchAgrees(p)'
  BY <1>2, <1>3, <1>5, <1>6, <1>7, <1>8 DEF StoreInv, BatchAgrees
<1>10. ASSUME NEW b \in Batches, b # p
       PROVE  BatchAgrees(b)'
  <2>1. b \notin Range(toStore) /\ ~IsNext(b)
    BY <1>3, RangesOfStore DEF IsNext
  <2>2. memory'[b] = memory[b] /\ sql'[b] = sql[b] /\ (b \in warned' <=> b \in warned)
    BY <1>2, <1>7, <1>10
  <2>3. b \notin Range(toStore') /\ ~IsNext(b)' /\ (Past(b)' <=> Past(b))
    BY <1>5, <1>6, <1>10
  <2>4. BatchAgrees(b)
    BY DEF StoreInv
  <2>5. QED
    BY <2>1, <2>2, <2>3, <2>4 DEF BatchAgrees
<1>11. total' = SumOf(memory')
  <2>1. PICK m : m = memory
    OBVIOUS
  <2>2. PICK more : more = memory'
    OBVIOUS
  <2>3. \A b \in Batches : m[b] \in Nat
    BY <2>1 DEF StoreInv, BatchAgrees
  <2>4. SumOf(more) = SumOf(m) + n
    BY <1>3, <1>7, <2>1, <2>2, <2>3, SumOfOneMore
  <2>5. QED
    BY <1>2, <2>1, <2>2, <2>4 DEF StoreInv
<1>12. toStore' \in Remaining'
  BY <1>2, <1>3, <1>4 DEF Remaining
<1>13. QED
  BY <1>2, <1>3, <1>9, <1>10, <1>11, <1>12 DEF StoreInv

LEMMA AnalyzeStores ==
  ASSUME RequestInv, Lists, StoreInv, Analyze
  PROVE  StoreInv'
<1>1. PICK n : n = AnalyticsRecords /\ n \in Nat
  BY AnalyticsCounts
<1>2. PICK found : /\ Cardinality(found) \in Nat
                   /\ memory' = [memory EXCEPT !["analytics"] = n,
                                               !["findings"] = Cardinality(found)]
                   /\ total' = total + n + Cardinality(found)
  BY <1>1, FindingsAreFinite DEF Analyze
<1>3. PICK k \in Nat : k = Cardinality(found)
  BY <1>2
<1>4. /\ doing = "collect" /\ Phase = "analytics" /\ sql' = sql /\ warned' = warned
      /\ toStore' = <<"analytics", "findings">> /\ doing' = "persist" /\ step' = step
  BY DEF Analyze
<1>5. /\ toStore = <<>> /\ "analytics" \in Batches /\ "findings" \in Batches
      /\ \A b \in Batches : Past(b) <=> \E i \in 1 .. step - 1 : Phases[i] = b
      /\ ~Past("analytics") /\ ~Past("findings")
      /\ memory["analytics"] = 0 /\ sql["analytics"] = 0
      /\ memory["findings"] = 0 /\ sql["findings"] = 0
  BY <1>4, PastWhileCollecting, PhasesInOrder
<1>6. Phase' = "analytics" /\ PhaseBatches' = {"analytics", "findings"}
  BY <1>4 DEF Phase, PhaseBatches
<1>7. Range(toStore') = {"analytics", "findings"} /\ \A b : IsNext(b)' <=> b = "analytics"
  BY <1>4, RangesOfStore DEF IsNext
<1>8. \A b \in Batches : Past(b)' <=> Past(b)
  BY <1>4, <1>5, <1>6, <1>7 DEF Past
<1>9. /\ memory'["analytics"] = n /\ memory'["findings"] = k
      /\ \A b \in Batches : b # "analytics" /\ b # "findings" => memory'[b] = memory[b]
  BY <1>2, <1>3, <1>5 DEF StoreInv
<1>10. InChunks(n, 0) /\ InChunks(k, 0)
  <2>1. 0 \in 0 .. n /\ 0 \in 0 .. k /\ 0 = 0 * ChunkSize
    BY <1>1, ScriptAssumption
  <2>2. QED
    BY <2>1 DEF InChunks
<1>11. BatchAgrees("analytics")' /\ BatchAgrees("findings")'
  BY <1>1, <1>4, <1>5, <1>7, <1>8, <1>9, <1>10 DEF StoreInv, BatchAgrees
<1>12. ASSUME NEW b \in Batches, b # "analytics", b # "findings"
       PROVE  BatchAgrees(b)'
  <2>1. b \notin Range(toStore) /\ ~IsNext(b)
    BY <1>5, RangesOfStore DEF IsNext
  <2>2. QED
    BY <1>4, <1>7, <1>8, <1>9, <1>12, <2>1 DEF StoreInv, BatchAgrees
<1>13. total' = SumOf(memory')
  <2>1. PICK m : m = memory
    OBVIOUS
  <2>2. PICK more : more = [m EXCEPT !["analytics"] = n]
    OBVIOUS
  <2>3. PICK most : most = memory'
    OBVIOUS
  <2>4. /\ \A b \in Batches : m[b] \in Nat
        /\ m = [b \in Batches |-> m[b]] /\ m["analytics"] = 0 /\ m["findings"] = 0
    BY <1>5, <2>1 DEF StoreInv, BatchAgrees
  <2>5. /\ more["analytics"] = n /\ more["findings"] = 0
        /\ \A b \in Batches : b # "analytics" => more[b] = m[b]
    BY <1>5, <2>2, <2>4
  <2>6. \A b \in Batches : more[b] \in Nat
    BY <1>1, <2>4, <2>5
  <2>7. SumOf(more) = SumOf(m) + n
    <3>1. PICK p \in Batches : p = "analytics"
      BY <1>5
    <3>2. PICK l \in Nat : l = n
      BY <1>1
    <3>3. m[p] = 0 /\ more[p] = l /\ \A b \in Batches : b # p => more[b] = m[b]
      BY <2>4, <2>5, <3>1, <3>2
    <3>4. SumOf(more) = SumOf(m) + l
      BY <2>4, <3>3, SumOfOneMore
    <3>5. QED
      BY <3>2, <3>4
  <2>8. most["findings"] = k /\ \A b \in Batches : b # "findings" => most[b] = more[b]
    BY <1>9, <2>1, <2>3, <2>5
  <2>9. SumOf(most) = SumOf(more) + k
    <3>1. PICK p \in Batches : p = "findings"
      BY <1>5
    <3>2. more[p] = 0 /\ most[p] = k /\ \A b \in Batches : b # p => most[b] = more[b]
      BY <2>5, <2>8, <3>1
    <3>3. QED
      BY <2>6, <3>2, SumOfOneMore
  <2>10. total' = total + n + k /\ total = SumOf(m)
    BY <1>2, <1>3, <2>1 DEF StoreInv
  <2>11. QED
    BY <2>3, <2>7, <2>9, <2>10
<1>14. toStore' \in Remaining'
  BY <1>4, <1>6 DEF Remaining
<1>15. memory' = [b \in Batches |-> memory'[b]] /\ sql' = [b \in Batches |-> sql'[b]]
  BY <1>2, <1>4 DEF StoreInv
<1>16. QED
  BY <1>4, <1>11, <1>12, <1>13, <1>14, <1>15 DEF StoreInv

\* A phase that is skipped leaves nothing.
LEMMA SkipStores ==
  ASSUME StoreInv, Skip
  PROVE  StoreInv'
<1>1. /\ doing = "collect" /\ UNCHANGED <<memory, sql, toStore, warned, total>>
      /\ step' = MinOf(step + 1, 6) /\ doing' = IF step = 6 THEN "end" ELSE "collect"
  BY PhasesInOrder DEF Skip, NextPhase
<1>2. /\ toStore = <<>> /\ Range(toStore) = {}
      /\ \A b \in Batches : Past(b) <=> \E i \in 1 .. step - 1 : Phases[i] = b
      /\ memory[Phase] = 0 /\ sql[Phase] = 0 /\ memory["findings"] = 0 /\ sql["findings"] = 0
      /\ ~Past(Phase) /\ ~Past("findings")
  BY <1>1, PastWhileCollecting, RangesOfStore
<1>3. ~\E b : IsNext(b) \/ IsNext(b)'
  BY <1>1, <1>2 DEF IsNext
<1>4. step \in 1 .. 6 /\ step' \in 1 .. 6 /\ (step < 6 => step' = step + 1)
      /\ (step = 6 => step' = 6)
  BY <1>1 DEF StoreInv, MinOf
<1>5. ASSUME NEW b \in Batches
      PROVE  BatchAgrees(b)'
  <2>1. CASE Past(b)
    <3>1. Past(b)'
      <4>1. PICK i \in 1 .. step - 1 : Phases[i] = b
        BY <1>2, <2>1
      <4>2. i \in 1 .. step' - 1 \/ doing' = "end"
        BY <1>1, <1>4
      <4>3. QED
        BY <4>1, <4>2 DEF Past
    <3>2. QED
      BY <1>1, <1>2, <1>3, <2>1, <3>1 DEF StoreInv, BatchAgrees
  <2>2. CASE ~Past(b)
    <3>1. memory[b] = 0 /\ sql[b] = 0 /\ b \notin warned
      BY <1>2, <1>3, <2>2 DEF StoreInv, BatchAgrees
    <3>2. QED
      BY <1>1, <1>2, <1>3, <3>1 DEF StoreInv, BatchAgrees
  <2>3. QED
    BY <2>1, <2>2
<1>6. toStore' \in Remaining'
  BY <1>1, <1>2 DEF Remaining
<1>7. QED
  BY <1>1, <1>4, <1>5, <1>6 DEF StoreInv

LEMMA EndPhaseStores ==
  ASSUME StoreInv, EndPhase
  PROVE  StoreInv'
<1>1. /\ doing = "persist" /\ toStore = <<>> /\ UNCHANGED <<memory, sql, toStore, warned, total>>
      /\ step' = MinOf(step + 1, 6) /\ doing' = IF step = 6 THEN "end" ELSE "collect"
  BY PhasesInOrder DEF EndPhase, NextPhase
<1>2. Range(toStore) = {} /\ ~\E b : IsNext(b) \/ IsNext(b)'
  BY <1>1, RangesOfStore DEF IsNext
<1>3. step \in 1 .. 6 /\ step' \in 1 .. 6 /\ (step < 6 => step' = step + 1)
      /\ (step = 6 => step' = 6)
  BY <1>1 DEF StoreInv, MinOf
<1>4. \A b \in Batches : Past(b)' <=> Past(b)
  <2>1. CASE step = 6
    <3>1. PhaseBatches = {"analytics", "findings"}
      BY <2>1, PhasesInOrder DEF PhaseBatches, Phase
    <3>2. \A b \in Batches : Past(b)
      <4>1. SUFFICES ASSUME NEW b \in Batches
                     PROVE  Past(b)
        OBVIOUS
      <4>2. CASE b = "findings"
        BY <1>1, <1>2, <3>1, <4>2 DEF Past
      <4>3. ASSUME NEW i \in 1 .. 6, Phases[i] = b
            PROVE  Past(b)
        <5>1. CASE i = 6
          BY <1>1, <1>2, <3>1, <4>3, <5>1, PhasesInOrder DEF Past
        <5>2. CASE i # 6
          BY <2>1, <4>3, <5>2 DEF Past
        <5>3. QED
          BY <5>1, <5>2
      <4>4. QED
        BY <4>2, <4>3, PhasesInOrder
    <3>3. \A b \in Batches : Past(b)'
      BY <1>1, <2>1 DEF Past
    <3>4. QED
      BY <3>2, <3>3
  <2>2. CASE step < 6
    <3>1. PhaseBatches = {Phase} /\ Phase = Phases[step]
      BY <1>3, <2>2, PhasesInOrder DEF PhaseBatches, Phase
    <3>2. \A b \in Batches :
            Past(b) <=> (b = Phases[step] \/ \E i \in 1 .. step - 1 : Phases[i] = b)
      BY <1>1, <1>2, <3>1 DEF Past
    <3>3. \A b \in Batches : Past(b)' <=> \E i \in 1 .. step : Phases[i] = b
      BY <1>1, <1>3, <2>2 DEF Past
    <3>4. \A i \in 1 .. step : i = step \/ i \in 1 .. step - 1
      BY <1>3
    <3>5. step \in 1 .. step /\ \A i \in 1 .. step - 1 : i \in 1 .. step
      BY <1>3
    <3>6. QED
      BY <3>2, <3>3, <3>4, <3>5
  <2>3. QED
    BY <1>3, <2>1, <2>2
<1>5. \A b \in Batches : BatchAgrees(b)'
  BY <1>1, <1>2, <1>4, BatchesCarried
<1>6. toStore' \in Remaining'
  BY <1>1 DEF Remaining
<1>7. QED
  BY <1>1, <1>3, <1>5, <1>6 DEF StoreInv

\* The batch that is being written.
LEMMA NextBatch ==
  ASSUME StoreInv, doing = "persist", toStore # <<>>
  PROVE  \E h \in Batches :
           /\ h = Head(toStore) /\ h \in PhaseBatches /\ ~Past(h)
           /\ \A b : IsNext(b) <=> b = h
           /\ h \in Range(toStore) /\ h \notin Range(Tail(toStore))
           /\ Range(Tail(toStore)) \subseteq Range(toStore)
           /\ Range(toStore) \subseteq Range(Tail(toStore)) \cup {h}
           /\ Tail(toStore) \in Remaining
<1>1. Phase \in Batches /\ Phase # "findings" /\ "findings" \in Batches
  BY PhasesInOrder DEF StoreInv, Phase
<1>2. \/ /\ Phase = "analytics" /\ toStore = <<"analytics", "findings">>
      \/ /\ Phase = "analytics" /\ toStore = <<"findings">>
      \/ /\ Phase # "analytics" /\ toStore = <<Phase>>
  BY DEF StoreInv, Remaining
<1>3. \A b \in Batches : Past(b) => b \in PhaseBatches \ Range(toStore)
                                     \/ \E i \in 1 .. step - 1 : Phases[i] = b
  BY DEF Past
<1>4. \A i \in 1 .. step - 1 : Phases[i] # Phase /\ Phases[i] # "findings"
  BY PhasesInOrder DEF StoreInv, Phase
<1>5. CASE Phase = "analytics" /\ toStore = <<"analytics", "findings">>
  <2>1. /\ Head(toStore) = "analytics" /\ Range(toStore) = {"analytics", "findings"}
        /\ Tail(toStore) = <<"findings">> /\ Range(Tail(toStore)) = {"findings"}
    BY <1>5, RangesOfStore
  <2>2. Tail(toStore) \in Remaining /\ PhaseBatches = {"analytics", "findings"}
    BY <1>5, <2>1 DEF Remaining, PhaseBatches
  <2>3. ~Past("analytics")
    BY <1>1, <1>3, <1>4, <1>5, <2>1
  <2>4. QED
    BY <1>1, <1>5, <2>1, <2>2, <2>3 DEF IsNext
<1>6. CASE Phase = "analytics" /\ toStore = <<"findings">>
  <2>1. /\ Head(toStore) = "findings" /\ Range(toStore) = {"findings"}
        /\ Tail(toStore) = <<>> /\ Range(Tail(toStore)) = {}
    BY <1>6, RangesOfStore
  <2>2. Tail(toStore) \in Remaining /\ PhaseBatches = {"analytics", "findings"}
    BY <1>6, <2>1 DEF Remaining, PhaseBatches
  <2>3. ~Past("findings")
    BY <1>1, <1>3, <1>4, <2>1
  <2>4. QED
    BY <1>1, <2>1, <2>2, <2>3 DEF IsNext
<1>7. CASE Phase # "analytics" /\ toStore = <<Phase>>
  <2>1. /\ Head(toStore) = Phase /\ Range(toStore) = {Phase}
        /\ Tail(toStore) = <<>> /\ Range(Tail(toStore)) = {}
    BY <1>7, RangesOfStore
  <2>2. Tail(toStore) \in Remaining /\ PhaseBatches = {Phase}
    BY <1>7, <2>1 DEF Remaining, PhaseBatches
  <2>3. ~Past(Phase)
    BY <1>1, <1>3, <1>4, <2>1
  <2>4. QED
    BY <1>1, <2>1, <2>2, <2>3 DEF IsNext
<1>8. QED
  BY <1>2, <1>5, <1>6, <1>7

LEMMA ChunksFit ==
  ASSUME NEW n \in Nat
  PROVE  n * ChunkSize \in Nat /\ n <= n * ChunkSize
         /\ (n + 1) * ChunkSize = n * ChunkSize + ChunkSize
<1>1. PICK k \in Nat : ChunkSize = k + 1
  <2>1. ChunkSize - 1 \in Nat /\ ChunkSize = (ChunkSize - 1) + 1
    BY ScriptAssumption
  <2>2. QED
    BY <2>1
<1>2. n * k \in Nat /\ n * (k + 1) = n * k + n /\ (n + 1) * (k + 1) = n * (k + 1) + (k + 1)
  OBVIOUS
<1>3. QED
  BY <1>1, <1>2

LEMMA ChunkStores ==
  ASSUME StoreInv, InsertChunk
  PROVE  StoreInv'
<1>1. doing = "persist" /\ toStore # <<>> /\ Rest(Head(toStore)) > 0
  BY DEF InsertChunk
<1>2. PICK h \in Batches :
        /\ h = Head(toStore) /\ ~Past(h) /\ \A b : IsNext(b) <=> b = h
        /\ h \in Range(toStore)
  BY <1>1, NextBatch
<1>3. /\ sql' = [sql EXCEPT ![h] = sql[h] + MinOf(ChunkSize, Rest(h))]
      /\ UNCHANGED <<step, doing, memory, toStore, warned, total>>
  BY <1>2 DEF InsertChunk
<1>4. PICK m \in Nat : m = memory[h]
  BY <1>2 DEF StoreInv, BatchAgrees
<1>5. PICK w \in Nat : w = sql[h]
  BY <1>2 DEF StoreInv, BatchAgrees
<1>6. w < m /\ Rest(h) = m - w
  BY <1>1, <1>2, <1>4, <1>5 DEF Rest
<1>7. PICK n \in 0 .. m : w = n * ChunkSize
  BY <1>2, <1>4, <1>5, <1>6 DEF StoreInv, BatchAgrees, InChunks
<1>8. PICK more : more = sql'[h]
  OBVIOUS
<1>9. more = w + MinOf(ChunkSize, m - w) /\ \A b \in Batches : b # h => sql'[b] = sql[b]
  BY <1>2, <1>3, <1>5, <1>6, <1>8 DEF StoreInv
<1>10. more \in Nat /\ more <= m /\ InChunks(m, more)
  <2>1. CASE ChunkSize <= m - w
    <3>1. more = w + ChunkSize
      BY <1>9, <2>1 DEF MinOf
    <3>2. more = (n + 1) * ChunkSize /\ n + 1 <= more
      BY <1>7, <3>1, ChunksFit, ScriptAssumption
    <3>3. more \in Nat /\ more <= m
      BY <2>1, <3>1, ScriptAssumption
    <3>4. n + 1 \in 0 .. m
      BY <3>2, <3>3
    <3>5. QED
      BY <3>2, <3>3, <3>4 DEF InChunks
  <2>2. CASE ~(ChunkSize <= m - w)
    <3>1. more = m
      BY <1>6, <1>9, <2>2 DEF MinOf
    <3>2. QED
      BY <3>1 DEF InChunks
  <2>3. QED
    BY <2>1, <2>2
<1>11. /\ \A b \in Batches : Past(b)' <=> Past(b)
       /\ \A b : IsNext(b)' <=> IsNext(b)
  BY <1>3 DEF Past, PhaseBatches, Phase, IsNext
<1>12. BatchAgrees(h)'
  BY <1>2, <1>3, <1>4, <1>8, <1>10, <1>11 DEF StoreInv, BatchAgrees
<1>13. ASSUME NEW b \in Batches, b # h
       PROVE  BatchAgrees(b)'
  BY <1>3, <1>9, <1>11, <1>13 DEF StoreInv, BatchAgrees
<1>14. toStore' \in Remaining'
  BY <1>3 DEF StoreInv, Remaining, Phase
<1>15. sql' = [b \in Batches |-> sql'[b]]
  BY <1>3 DEF StoreInv
<1>16. QED
  BY <1>3, <1>12, <1>13, <1>14, <1>15 DEF StoreInv

\* The batch that is being written is done with: whole, or warned about.
LEMMA BatchEnds ==
  ASSUME StoreInv, doing = "persist", toStore # <<>>,
         UNCHANGED <<step, doing, memory, sql, total>>, toStore' = Tail(toStore),
         \A b \in Batches : b # Head(toStore) => (b \in warned' <=> b \in warned),
         Head(toStore) \in warned' <=> sql[Head(toStore)] < memory[Head(toStore)]
  PROVE  StoreInv'
<1>1. PICK h \in Batches :
        /\ h = Head(toStore) /\ h \in PhaseBatches /\ ~Past(h) /\ \A b : IsNext(b) <=> b = h
        /\ h \in Range(toStore) /\ h \notin Range(Tail(toStore))
        /\ Range(Tail(toStore)) \subseteq Range(toStore)
        /\ Range(toStore) \subseteq Range(Tail(toStore)) \cup {h}
        /\ Tail(toStore) \in Remaining
  BY NextBatch
<1>2. PhaseBatches' = PhaseBatches /\ Remaining' = Remaining
  BY DEF PhaseBatches, Phase, Remaining
<1>3. Past(h)'
  BY <1>1, <1>2 DEF Past
<1>4. \A b \in Batches : b # h => (Past(b)' <=> Past(b))
  BY <1>1, <1>2 DEF Past
<1>5. BatchAgrees(h)'
  BY <1>1, <1>3 DEF StoreInv, BatchAgrees
<1>6. ASSUME NEW b \in Batches, b # h
      PROVE  BatchAgrees(b)'
  <2>1. BatchAgrees(b) /\ ~IsNext(b) /\ (Past(b)' <=> Past(b))
        /\ (b \in warned' <=> b \in warned)
        /\ (b \notin Range(toStore') => b \notin Range(toStore))
    BY <1>1, <1>4, <1>6 DEF StoreInv
  <2>2. QED
    BY <2>1 DEF BatchAgrees
<1>7. QED
  BY <1>1, <1>2, <1>5, <1>6 DEF StoreInv

LEMMA EndedBatchStores ==
  ASSUME StoreInv, Persisted \/ FailChunk
  PROVE  StoreInv'
<1>1. /\ doing = "persist" /\ toStore # <<>> /\ UNCHANGED <<step, doing, memory, sql, total>>
      /\ toStore' = Tail(toStore)
  BY DEF Persisted, FailChunk, AfterError
<1>2. PICK h \in Batches : h = Head(toStore) /\ ~Past(h)
  BY <1>1, NextBatch
<1>3. memory[h] \in Nat /\ sql[h] \in Nat /\ h \notin warned
  BY <1>2 DEF StoreInv, BatchAgrees
<1>4. CASE Persisted
  <2>1. warned' = warned /\ sql[h] = memory[h]
    BY <1>2, <1>3, <1>4 DEF Persisted, Rest
  <2>2. QED
    BY <1>1, <1>2, <1>3, <2>1, BatchEnds
<1>5. CASE FailChunk
  <2>1. warned' = warned \cup {h} /\ sql[h] < memory[h]
    BY <1>2, <1>3, <1>5 DEF FailChunk, Rest
  <2>2. QED
    BY <1>1, <1>2, <1>3, <2>1, BatchEnds
<1>6. QED
  BY <1>4, <1>5

LEMMA InitLists == Init => Lists
BY FS_EmptySet DEF Init, Lists

LEMMA NextLists == RequestInv /\ Lists /\ [Next]_vars => Lists'
<1> SUFFICES ASSUME RequestInv, Lists, [Next]_vars
             PROVE  Lists'
  OBVIOUS
<1>1. CASE IngestTrc20
  <2>1. tokenList' = Tokens /\ analyses' = Analyses
    BY <1>1 DEF IngestTrc20
  <2>2. PICK n \in Nat : DOMAIN Tokens = 1 .. n
    BY AnalysesAreFinite DEF IsList
  <2>3. PICK k \in Nat : DOMAIN Analyses = 1 .. k
    BY AnalysesAreFinite
  <2>4. IsFiniteSet(1 .. n) /\ IsFiniteSet(1 .. k)
    BY FS_Interval
  <2>5. QED
    BY <2>1, <2>2, <2>3, <2>4 DEF Lists
<1>2. CASE UNCHANGED <<tokenList, analyses>>
  BY <1>2 DEF Lists
<1>3. QED
  BY <1>1, <1>2 DEF Next, ScriptStep, StartRound, IngestNetwork, IngestOther, Analyze, Skip,
     InsertChunk, Persisted, EndPhase, FailChunk, RequestStep, vars, scriptVars

LEMMA UnchangedStores ==
  ASSUME StoreInv, UNCHANGED <<step, doing, memory, sql, toStore, warned, total>>
  PROVE  StoreInv'
<1>1. \A b \in Batches : (Past(b)' <=> Past(b)) /\ (IsNext(b)' <=> IsNext(b))
  BY DEF Past, PhaseBatches, Phase, IsNext
<1>2. \A b \in Batches : BatchAgrees(b)'
  BY <1>1 DEF StoreInv, BatchAgrees
<1>3. toStore' \in Remaining'
  BY DEF StoreInv, Remaining, Phase
<1>4. QED
  BY <1>2, <1>3 DEF StoreInv

LEMMA NextStores == RequestInv /\ Lists /\ StoreInv /\ [Next]_vars => StoreInv'
<1> SUFFICES ASSUME RequestInv, Lists, StoreInv, [Next]_vars
             PROVE  StoreInv'
  OBVIOUS
<1>1. CASE StartRound
  BY <1>1, UnchangedStores DEF StartRound, scriptVars
<1>2. CASE IngestNetwork
  <2>1. Phase = "network" /\ doing = "collect" /\ Keep(Phase, NetworkRecords)
    BY <1>2 DEF IngestNetwork
  <2>2. PICK n \in Nat : n = NetworkRecords
    BY CollectedCounts
  <2>3. QED
    BY <2>1, <2>2, KeepStores
<1>3. CASE IngestTrc20
  <2>1. Phase = "trc20" /\ doing = "collect" /\ Keep(Phase, Trc20Records)
    BY <1>3 DEF IngestTrc20
  <2>2. PICK n \in Nat : n = Trc20Records
    BY CollectedCounts
  <2>3. QED
    BY <2>1, <2>2, KeepStores
<1>4. CASE IngestOther
  <2>1. PICK records : records = [governance |-> GovernanceRecords,
                                  resources |-> ResourceRecords, rental |-> RentalRecords]
    OBVIOUS
  <2>2. /\ Phase \in {"governance", "resources", "rental"} /\ doing = "collect"
        /\ Keep(Phase, records[Phase])
    BY <1>4, <2>1, Zenon DEF IngestOther
  <2>3. records[Phase] \in Nat
    BY <2>1, <2>2, CollectedCounts
  <2>4. PICK n \in Nat : n = records[Phase]
    BY <2>3
  <2>5. QED
    BY <2>2, <2>4, KeepStores
<1>5. CASE Analyze
  BY <1>5, AnalyzeStores
<1>6. CASE Skip
  BY <1>6, SkipStores
<1>7. CASE InsertChunk
  BY <1>7, ChunkStores
<1>8. CASE Persisted \/ FailChunk
  BY <1>8, EndedBatchStores
<1>9. CASE EndPhase
  BY <1>9, EndPhaseStores
<1>10. CASE UNCHANGED scriptVars
  BY <1>10, UnchangedStores DEF scriptVars
<1>11. QED
  BY <1>1, <1>2, <1>3, <1>4, <1>5, <1>6, <1>7, <1>8, <1>9, <1>10
     DEF Next, ScriptStep, RequestStep, vars

\* Through every phase, chunk and failure of tron-audit.ts, each batch is where the
\* phase and the list of what is to be written say, as far as they say.
THEOREM StoresAreSound == Spec => [](RequestInv /\ Lists /\ StoreInv)
<1>1. Init => RequestInv /\ Lists /\ StoreInv
  BY InitRequests, InitLists, InitStores
<1>2. RequestInv /\ Lists /\ StoreInv /\ [Next]_vars => (RequestInv /\ Lists /\ StoreInv)'
  BY NextRequests, NextLists, NextStores
<1>3. QED
  BY <1>1, <1>2, PTL DEF Spec

(***************************************************************************)
(* Whichever requests and chunks fail, tron-audit.ts reports the total     *)
(* that its memory store holds, and onchain_metrics holds of each batch a  *)
(* beginning in whole chunks: all of it, or less and there was a warning.  *)
(***************************************************************************)
THEOREM StoresAlwaysAgree == Spec => []StoresAgree
<1>1. StoreInv => StoresAgree
  <2> SUFFICES ASSUME StoreInv
               PROVE  StoresAgree
    OBVIOUS
  <2>1. total = SumOf(memory)
    BY DEF StoreInv
  <2>2. ASSUME NEW b \in Batches
        PROVE  /\ sql[b] <= memory[b]
               /\ sql[b] = memory[b] \/ \E n \in 0 .. memory[b] : sql[b] = n * ChunkSize
               /\ Past(b) => (b \in warned <=> sql[b] < memory[b])
               /\ sql[b] > 0 => Past(b) \/ (toStore # <<>> /\ b = Head(toStore))
    <3>1. BatchAgrees(b)
      BY DEF StoreInv
    <3>2. QED
      BY <3>1 DEF BatchAgrees, InChunks, IsNext
  <2>3. QED
    BY <2>1, <2>2 DEF StoresAgree, SumOf
<1>2. QED
  BY <1>1, StoresAreSound, PTL

-----------------------------------------------------------------------------
\* The rounds of a phase.
LEMMA RoundsOfPhase ==
  /\ Phase = "network" => Rounds = NetworkRounds
  /\ Phase = "governance" => Rounds = GovernanceRounds
  /\ Phase = "resources" => Rounds = ResourceRounds
  /\ Phase = "trc20" => Rounds = Trc20Rounds
  /\ Phase = "rental" => Rounds = RentalRounds
  /\ Phase = "analytics" => Rounds = AnalyticsRounds
BY Zenon DEF Rounds

LEMMA Joined ==
  ASSUME NEW m \in Nat, NEW n \in Nat,
         NEW s, s = [i \in 1 .. m |-> s[i]], NEW t, t = [i \in 1 .. n |-> t[i]]
  PROVE  /\ s \o t = [i \in 1 .. m + n |-> (s \o t)[i]]
         /\ \A i \in 1 .. m : (s \o t)[i] = s[i]
         /\ \A i \in 1 .. n : (s \o t)[m + i] = t[i]
<1>1. PICK S : S = {s[i] : i \in 1 .. m} \cup {t[i] : i \in 1 .. n}
  OBVIOUS
<1>2. s \in Seq(S) /\ Len(s) = m
  BY <1>1
<1>3. t \in Seq(S) /\ Len(t) = n
  BY <1>1
<1>4. PICK u : u = s \o t
  OBVIOUS
<1>5. u \in Seq(S) /\ Len(u) = m + n
  BY <1>2, <1>3, <1>4
<1>6. u = [i \in 1 .. m + n |-> u[i]]
  BY <1>5
<1>7. \A i \in 1 .. m : u[i] = s[i]
  BY <1>2, <1>3, <1>4
<1>8. \A i \in 1 .. n : u[m + i] = t[i]
  BY <1>2, <1>3, <1>4
<1>9. QED
  BY <1>4, <1>6, <1>7, <1>8

\* The place of a request among the rounds of its phase.
Level(r) ==
  IF r.phase = "rental" THEN r.n
  ELSE IF r.asks \in {"holders", "resource"} THEN 2
  ELSE IF r.asks = "delegation" THEN 2 + r.n
  ELSE IF r.asks = "tokenHolders" THEN 1 + r.n
  ELSE 1

InRound(i, r) == i \in DOMAIN Rounds /\ r \in Range(Rounds[i])

Decisive == {"network", "governance", "analytics"}

\* No request is in two rounds, only a first round holds requests that are
\* needed, and only the last one may be empty.
Levelled ==
  /\ \E k \in Nat : DOMAIN Rounds = 1 .. k
  /\ \A i, r : InRound(i, r) =>
       /\ r.phase = Phase /\ Level(r) = i
       /\ Needed(r) => i = 1 /\ Phase \in Decisive
  /\ \A i \in DOMAIN Rounds : i + 1 \in DOMAIN Rounds => \E r : InRound(i, r)

LEMMA OneIsRound ==
  ASSUME NEW asks
  PROVE  /\ One(asks) = [i \in 1 .. 1 |-> One(asks)[i]]
         /\ One(asks)[1] = <<Id(asks, 1)>>
BY DEF One

LEMMA EachIsRound ==
  ASSUME NEW asks, NEW n \in Nat
  PROVE  /\ EachOf(asks, n) = [i \in 1 .. n |-> EachOf(asks, n)[i]]
         /\ \A i \in 1 .. n : EachOf(asks, n)[i] = <<Id(asks, i)>>
BY DEF EachOf

LEMMA IdIsRequest ==
  ASSUME NEW asks, NEW n
  PROVE  Id(asks, n).phase = Phase /\ Id(asks, n).asks = asks /\ Id(asks, n).n = n
BY DEF Id

GovernanceRequests ==
  {[phase |-> "governance", asks |-> asks, n |-> 1]
     : asks \in {"witnesses", "proposals", "chainParameters"}}

\* What the requests of a phase ask, and about how many.
Known(r) ==
  /\ r = Id(r.asks, r.n)
  /\ \/ Phase = "network" /\ r.asks \in {"chainParameters", "holders"} /\ r.n = 1
     \/ Phase = "governance" /\ r \in GovernanceRequests
     \/ Phase = "resources" /\ r.asks = "stakers" /\ r.n = 1
     \/ Phase = "resources" /\ r.asks = "resource" /\ r.n \in 1 .. Stakers
     \/ Phase = "resources" /\ r.asks = "delegation" /\ r.n \in 1 .. Stakers
     \/ Phase = "trc20" /\ r.asks = "tokens" /\ r.n = 1
     \/ Phase = "trc20" /\ r.asks = "tokenHolders" /\ r.n \in Nat
     \/ Phase = "rental" /\ r.asks \in {"outgoing", "incoming", "delegation", "resource",
                                        "balance"}
     \/ Phase = "analytics" /\ r.asks = "chainParameters" /\ r.n = 1

RoundsKnown ==
  \A i \in DOMAIN Rounds : /\ IsFiniteSet(DOMAIN Rounds[i])
                           /\ \A r : InRound(i, r) => Known(r)

LEMMA OneCall ==
  ASSUME NEW r
  PROVE  /\ IsFiniteSet(DOMAIN <<r>>) /\ DOMAIN <<r>> = {1} /\ <<r>>[1] = r
<1>1. DOMAIN <<r>> = {1} /\ <<r>>[1] = r
  OBVIOUS
<1>2. QED
  BY <1>1, FS_Singleton

LEMMA ManyCalls ==
  /\ \A a, b, c : IsFiniteSet(DOMAIN <<a, b, c>>)
  /\ \A a, b, c, d, e : IsFiniteSet(DOMAIN <<a, b, c, d, e>>)
  /\ \A n \in Nat : IsFiniteSet(1 .. n)
<1>1. /\ \A a, b, c : DOMAIN <<a, b, c>> = 1 .. 3
      /\ \A a, b, c, d, e : DOMAIN <<a, b, c, d, e>> = 1 .. 5
  OBVIOUS
<1>2. \A n \in Nat : IsFiniteSet(1 .. n)
  BY FS_Interval
<1>3. QED
  BY <1>1, <1>2

LEMMA NetworkLevels ==
  ASSUME Phase = "network"
  PROVE  /\ Levelled /\ RoundsKnown
         /\ \A r : InRound(1, r) <=> r = Id("chainParameters", 1)
<1>1. PICK s : s = One("chainParameters")
  OBVIOUS
<1>2. PICK t : t = One("holders")
  OBVIOUS
<1>3. /\ s = [i \in 1 .. 1 |-> s[i]] /\ t = [i \in 1 .. 1 |-> t[i]]
      /\ s[1] = <<Id("chainParameters", 1)>> /\ t[1] = <<Id("holders", 1)>>
  BY <1>1, <1>2, OneIsRound
<1>4. Rounds = s \o t
  BY <1>1, <1>2, RoundsOfPhase DEF NetworkRounds
<1>5. /\ DOMAIN Rounds = 1 .. 2
      /\ Rounds[1] = <<Id("chainParameters", 1)>> /\ Rounds[2] = <<Id("holders", 1)>>
  BY <1>3, <1>4, Joined
<1>6. /\ \A r : InRound(1, r) <=> r = Id("chainParameters", 1)
      /\ \A r : InRound(2, r) <=> r = Id("holders", 1)
      /\ \A i, r : InRound(i, r) => i = 1 \/ i = 2
  BY <1>5, RangesOfStore DEF InRound
<1>7. Levelled
  BY <1>5, <1>6, IdIsRequest DEF Levelled, Level, Needed, Decisive
<1>8. RoundsKnown
  <2>1. \A i \in 1 .. 2 : i = 1 \/ i = 2
    OBVIOUS
  <2>2. \A i \in DOMAIN Rounds : IsFiniteSet(DOMAIN Rounds[i])
    BY <1>5, <2>1, OneCall
  <2>3. \A r : r = Id("chainParameters", 1) \/ r = Id("holders", 1) => Known(r)
    BY IdIsRequest DEF Known
  <2>4. QED
    BY <1>6, <2>2, <2>3 DEF RoundsKnown
<1>9. QED
  BY <1>6, <1>7, <1>8

LEMMA GovernanceLevels ==
  ASSUME Phase = "governance"
  PROVE  /\ Levelled /\ RoundsKnown
         /\ \A i, r : InRound(i, r) <=> i = 1 /\ r \in GovernanceRequests
<1>1. Rounds = <<<<Id("witnesses", 1), Id("proposals", 1), Id("chainParameters", 1)>>>>
  BY RoundsOfPhase DEF GovernanceRounds
<1>2. Range(<<Id("witnesses", 1), Id("proposals", 1), Id("chainParameters", 1)>>)
      = {Id("witnesses", 1), Id("proposals", 1), Id("chainParameters", 1)}
  BY DEF Range
<1>3. {Id("witnesses", 1), Id("proposals", 1), Id("chainParameters", 1)} = GovernanceRequests
  BY DEF Id, GovernanceRequests
<1>4. \A i, r : InRound(i, r) <=> i = 1 /\ r \in GovernanceRequests
  BY <1>1, <1>2, <1>3 DEF InRound
<1>5. DOMAIN Rounds = 1 .. 1
  BY <1>1
<1>6. \A r \in GovernanceRequests : r.phase = Phase /\ Level(r) = 1
  BY DEF GovernanceRequests, Level
<1>7. Levelled
  BY <1>4, <1>5, <1>6 DEF Levelled, Decisive
<1>8. RoundsKnown
  <2>1. \A r \in GovernanceRequests : Known(r)
    BY DEF GovernanceRequests, Known, Id
  <2>2. \A i \in DOMAIN Rounds : IsFiniteSet(DOMAIN Rounds[i])
    BY <1>1, <1>5, ManyCalls
  <2>3. QED
    BY <1>4, <2>1, <2>2 DEF RoundsKnown
<1>9. QED
  BY <1>4, <1>7, <1>8

LEMMA ResourceLevels ==
  ASSUME Phase = "resources", Stakers \in Nat
  PROVE  /\ Levelled /\ RoundsKnown
         /\ \A r : InRound(1, r) <=> r = Id("stakers", 1)
<1>1. PICK n \in Nat : n = Stakers
  OBVIOUS
<1>2. PICK s : s = One("stakers")
  OBVIOUS
<1>3. PICK all : all = [i \in 1 .. n |-> Id("resource", i)]
  OBVIOUS
<1>4. PICK u : u = EachOf("delegation", n)
  OBVIOUS
<1>5. PICK t : t = <<all>> \o u
  OBVIOUS
<1>6. /\ s = [i \in 1 .. 1 |-> s[i]] /\ s[1] = <<Id("stakers", 1)>>
      /\ u = [i \in 1 .. n |-> u[i]] /\ \A i \in 1 .. n : u[i] = <<Id("delegation", i)>>
      /\ <<all>> = [i \in 1 .. 1 |-> <<all>>[i]] /\ <<all>>[1] = all
  BY <1>2, <1>4, OneIsRound, EachIsRound
<1>7. /\ t = [i \in 1 .. 1 + n |-> t[i]] /\ t[1] = all
      /\ \A i \in 1 .. n : t[1 + i] = <<Id("delegation", i)>>
  <2>1. PICK v : v = <<all>>
    OBVIOUS
  <2>2. v = [i \in 1 .. 1 |-> v[i]] /\ v[1] = all /\ t = v \o u
    BY <1>5, <1>6, <2>1
  <2>3. QED
    BY <1>6, <2>2, Joined
<1>8. Rounds = s \o t
  BY <1>1, <1>2, <1>3, <1>4, <1>5, RoundsOfPhase DEF ResourceRounds
<1>9. PICK l \in Nat : l = 1 + n
  OBVIOUS
<1>10. /\ DOMAIN Rounds = 1 .. 1 + l
       /\ Rounds[1] = s[1] /\ \A i \in 1 .. l : Rounds[1 + i] = t[i]
  BY <1>6, <1>7, <1>8, <1>9, Joined
<1>11. /\ DOMAIN Rounds = 1 .. 2 + n
       /\ Rounds[1] = <<Id("stakers", 1)>> /\ Rounds[2] = all
       /\ \A i \in 1 .. n : Rounds[2 + i] = <<Id("delegation", i)>>
  <2>1. 1 \in 1 .. l /\ \A i \in 1 .. n : 1 + i \in 1 .. l /\ 1 + (1 + i) = 2 + i
    BY <1>9
  <2>2. 1 + l = 2 + n
    BY <1>9
  <2>3. DOMAIN Rounds = 1 .. 2 + n
    BY <1>10, <2>2
  <2>4. Rounds[1] = <<Id("stakers", 1)>>
    BY <1>6, <1>10
  <2>5. Rounds[2] = all
    <3>1. PICK j \in 1 .. l : j = 1
      BY <2>1
    <3>2. Rounds[1 + j] = t[j] /\ 1 + j = 2
      BY <1>10, <3>1
    <3>3. QED
      BY <1>7, <3>1, <3>2
  <2>6. ASSUME NEW i \in 1 .. n
        PROVE  Rounds[2 + i] = <<Id("delegation", i)>>
    <3>1. PICK j \in 1 .. l : j = 1 + i
      BY <2>1
    <3>2. Rounds[1 + j] = t[j] /\ 1 + j = 2 + i
      BY <1>10, <3>1
    <3>3. QED
      BY <1>7, <3>1, <3>2
  <2>7. QED
    BY <2>3, <2>4, <2>5, <2>6
<1>12. /\ \A r : InRound(1, r) <=> r = Id("stakers", 1)
       /\ \A r : InRound(2, r) <=> \E i \in 1 .. n : r = Id("resource", i)
       /\ \A i \in 1 .. n : \A r : InRound(2 + i, r) <=> r = Id("delegation", i)
  <2>1. Range(all) = {Id("resource", i) : i \in 1 .. n}
    BY <1>3 DEF Range
  <2>2. QED
    BY <1>11, <2>1, RangesOfStore DEF InRound
<1>13. \A i, r : InRound(i, r) => i = 1 \/ i = 2 \/ \E j \in 1 .. n : i = 2 + j
  <2>1. \A i \in 1 .. 2 + n : i = 1 \/ i = 2 \/ (i - 2 \in 1 .. n /\ i = 2 + (i - 2))
    OBVIOUS
  <2>2. QED
    BY <1>11, <2>1 DEF InRound
<1>14. \A i, r : InRound(i, r) => \/ r.phase = Phase /\ Level(r) = i /\ ~Needed(r)
                                  \/ r = Id("stakers", 1) /\ i = 1
  <2>1. ASSUME NEW i \in 1 .. n, NEW r, r = Id("resource", i)
        PROVE  r.phase = Phase /\ Level(r) = 2 /\ ~Needed(r)
    BY <2>1, IdIsRequest DEF Level, Needed
  <2>2. ASSUME NEW i \in 1 .. n, NEW r, r = Id("delegation", i)
        PROVE  r.phase = Phase /\ Level(r) = 2 + i /\ ~Needed(r)
    BY <2>2, IdIsRequest DEF Level, Needed
  <2>3. ASSUME NEW i, NEW r, InRound(i, r)
        PROVE  \/ r.phase = Phase /\ Level(r) = i /\ ~Needed(r)
               \/ r = Id("stakers", 1) /\ i = 1
    <3>1. CASE i = 1
      BY <1>12, <2>3, <3>1
    <3>2. CASE i = 2
      BY <1>12, <2>1, <2>3, <3>2
    <3>3. ASSUME NEW j \in 1 .. n, i = 2 + j
          PROVE  r.phase = Phase /\ Level(r) = i /\ ~Needed(r)
      <4>1. r = Id("delegation", j)
        BY <1>12, <2>3, <3>3
      <4>2. QED
        BY <2>2, <3>3, <4>1
    <3>4. QED
      BY <1>13, <2>3, <3>1, <3>2, <3>3
  <2>4. QED
    BY <2>3
<1>15. Id("stakers", 1).phase = Phase /\ Level(Id("stakers", 1)) = 1 /\ ~Needed(Id("stakers", 1))
  BY IdIsRequest DEF Level, Needed
<1>16. \A i \in DOMAIN Rounds : i + 1 \in DOMAIN Rounds => \E r : InRound(i, r)
  <2> SUFFICES ASSUME NEW i \in 1 .. 2 + n, i + 1 \in 1 .. 2 + n
               PROVE  \E r : InRound(i, r)
    BY <1>11
  <2>1. CASE i = 1
    BY <1>12, <2>1
  <2>2. CASE i = 2
    <3>1. 1 \in 1 .. n
      BY <2>2
    <3>2. QED
      BY <1>12, <2>2, <3>1
  <2>3. CASE i > 2
    <3>1. PICK j \in 1 .. n : i = 2 + j
      <4>1. i - 2 \in 1 .. n /\ i = 2 + (i - 2)
        BY <2>3
      <4>2. QED
        BY <4>1
    <3>2. QED
      BY <1>12, <3>1
  <2>4. QED
    BY <2>1, <2>2, <2>3
<1>17. Levelled
  BY <1>11, <1>14, <1>15, <1>16 DEF Levelled
<1>18. RoundsKnown
  <2>1. ASSUME NEW i \in DOMAIN Rounds
        PROVE  IsFiniteSet(DOMAIN Rounds[i])
    <3>1. IsFiniteSet(DOMAIN all)
      BY <1>3, ManyCalls
    <3>2. i \in 1 .. 2 + n
      BY <1>11, <2>1
    <3>3. CASE i = 1 \/ i = 2
      BY <1>11, <3>1, <3>3, OneCall
    <3>4. ASSUME NEW j \in 1 .. n, i = 2 + j
          PROVE  IsFiniteSet(DOMAIN Rounds[i])
      BY <1>11, <3>4, OneCall
    <3>5. i = 1 \/ i = 2 \/ \E j \in 1 .. n : i = 2 + j
      <4>1. i = 1 \/ i = 2 \/ (i - 2 \in 1 .. n /\ i = 2 + (i - 2))
        BY <3>2
      <4>2. QED
        BY <4>1
    <3>6. QED
      BY <3>3, <3>4, <3>5
  <2>2. /\ Known(Id("stakers", 1))
        /\ \A i \in 1 .. n : Known(Id("resource", i)) /\ Known(Id("delegation", i))
    BY <1>1, IdIsRequest DEF Known
  <2>3. QED
    BY <1>12, <1>13, <2>1, <2>2 DEF RoundsKnown
<1>19. QED
  BY <1>12, <1>17, <1>18

LEMMA Trc20Levels ==
  ASSUME Phase = "trc20", Analyzed \in Nat
  PROVE  /\ Levelled /\ RoundsKnown
         /\ \A r : InRound(1, r) <=> r = Id("tokens", 1)
<1>1. PICK n \in Nat : n = Analyzed
  OBVIOUS
<1>2. PICK s : s = One("tokens")
  OBVIOUS
<1>3. PICK t : t = EachOf("tokenHolders", n)
  OBVIOUS
<1>4. /\ s = [i \in 1 .. 1 |-> s[i]] /\ s[1] = <<Id("tokens", 1)>>
      /\ t = [i \in 1 .. n |-> t[i]] /\ \A i \in 1 .. n : t[i] = <<Id("tokenHolders", i)>>
  BY <1>2, <1>3, OneIsRound, EachIsRound
<1>5. Rounds = s \o t
  BY <1>1, <1>2, <1>3, RoundsOfPhase DEF Trc20Rounds
<1>6. /\ DOMAIN Rounds = 1 .. 1 + n
      /\ Rounds[1] = s[1] /\ \A i \in 1 .. n : Rounds[1 + i] = t[i]
  BY <1>4, <1>5, Joined
<1>7. /\ \A r : InRound(1, r) <=> r = Id("tokens", 1)
      /\ \A i \in 1 .. n : \A r : InRound(1 + i, r) <=> r = Id("tokenHolders", i)
  <2>1. 1 \in DOMAIN Rounds /\ Rounds[1] = <<Id("tokens", 1)>>
    BY <1>4, <1>6
  <2>2. ASSUME NEW i \in 1 .. n, NEW r
        PROVE  InRound(1 + i, r) <=> r = Id("tokenHolders", i)
    <3>1. PICK k : k = 1 + i
      OBVIOUS
    <3>2. k \in DOMAIN Rounds /\ Rounds[k] = <<Id("tokenHolders", i)>>
      BY <1>4, <1>6, <3>1
    <3>3. InRound(k, r) <=> r = Id("tokenHolders", i)
      BY <3>2, RangesOfStore DEF InRound
    <3>4. QED
      BY <3>1, <3>3
  <2>3. QED
    BY <2>1, <2>2, RangesOfStore DEF InRound
<1>8. \A i \in 1 .. 1 + n : i = 1 \/ \E j \in 1 .. n : i = 1 + j
  <2>1. \A i \in 1 .. 1 + n : i = 1 \/ (i - 1 \in 1 .. n /\ i = 1 + (i - 1))
    OBVIOUS
  <2>2. QED
    BY <2>1
<1>9. ASSUME NEW i, NEW r, InRound(i, r)
      PROVE  r.phase = Phase /\ Level(r) = i /\ ~Needed(r)
  <2>1. CASE i = 1
    <3>1. r = Id("tokens", 1)
      BY <1>7, <1>9, <2>1
    <3>2. QED
      BY <2>1, <3>1, IdIsRequest DEF Level, Needed
  <2>2. ASSUME NEW j \in 1 .. n, i = 1 + j
        PROVE  r.phase = Phase /\ Level(r) = i /\ ~Needed(r)
    <3>1. r = Id("tokenHolders", j)
      BY <1>7, <1>9, <2>2
    <3>2. QED
      BY <2>2, <3>1, IdIsRequest DEF Level, Needed
  <2>3. i \in 1 .. 1 + n
    BY <1>6, <1>9 DEF InRound
  <2>4. QED
    BY <1>8, <2>1, <2>2, <2>3
<1>10. \A i \in DOMAIN Rounds : \E r : InRound(i, r)
  BY <1>6, <1>7, <1>8
<1>11. RoundsKnown
  <2>1. ASSUME NEW i \in 1 .. 1 + n
        PROVE  IsFiniteSet(DOMAIN Rounds[i])
    BY <1>4, <1>6, <1>8, OneCall
  <2>2. /\ Known(Id("tokens", 1))
        /\ \A i \in 1 .. n : Known(Id("tokenHolders", i))
    BY IdIsRequest DEF Known
  <2>3. ASSUME NEW i, NEW r, InRound(i, r)
        PROVE  Known(r)
    <3>1. i \in 1 .. 1 + n
      BY <1>6, <2>3 DEF InRound
    <3>2. CASE i = 1
      BY <1>7, <2>2, <2>3, <3>2
    <3>3. ASSUME NEW j \in 1 .. n, i = 1 + j
          PROVE  Known(r)
      BY <1>7, <2>2, <2>3, <3>3
    <3>4. QED
      BY <1>8, <3>1, <3>2, <3>3
  <2>4. QED
    BY <1>6, <2>1, <2>3 DEF RoundsKnown
<1>12. QED
  BY <1>6, <1>7, <1>9, <1>10, <1>11 DEF Levelled

LEMMA RentalLevels ==
  ASSUME Phase = "rental"
  PROVE  Levelled /\ RoundsKnown
<1>1. /\ DOMAIN Rounds = 1 .. Platforms
      /\ \A i \in 1 .. Platforms :
           Rounds[i] = <<Id("outgoing", i), Id("incoming", i), Id("delegation", i),
                         Id("resource", i), Id("balance", i)>>
  BY RoundsOfPhase DEF RentalRounds
<1>2. \A i \in 1 .. Platforms : \A r : InRound(i, r) <=>
        r \in {Id("outgoing", i), Id("incoming", i), Id("delegation", i),
               Id("resource", i), Id("balance", i)}
  <2>1. \A a, b, c, d, e : Range(<<a, b, c, d, e>>) = {a, b, c, d, e}
    BY DEF Range
  <2>2. QED
    BY <1>1, <2>1 DEF InRound
<1>3. ASSUME NEW i, NEW r, InRound(i, r)
      PROVE  r.phase = Phase /\ Level(r) = i /\ ~Needed(r)
  <2>1. i \in 1 .. Platforms
    BY <1>1, <1>3 DEF InRound
  <2>2. PICK asks \in {"outgoing", "incoming", "delegation", "resource", "balance"} :
          r = Id(asks, i)
    BY <1>2, <1>3, <2>1
  <2>3. QED
    BY <2>2, IdIsRequest DEF Level, Needed
<1>4. RoundsKnown
  <2>1. \A i \in DOMAIN Rounds : IsFiniteSet(DOMAIN Rounds[i])
    BY <1>1, ManyCalls
  <2>2. ASSUME NEW i, NEW r, InRound(i, r)
        PROVE  Known(r)
    <3>1. i \in 1 .. Platforms
      BY <1>1, <2>2 DEF InRound
    <3>2. PICK asks \in {"outgoing", "incoming", "delegation", "resource", "balance"} :
            r = Id(asks, i)
      BY <1>2, <2>2, <3>1
    <3>3. QED
      BY <3>2, IdIsRequest DEF Known
  <2>3. QED
    BY <2>1, <2>2 DEF RoundsKnown
<1>5. QED
  BY <1>1, <1>2, <1>3, <1>4, ScriptAssumption DEF Levelled

LEMMA AnalyticsLevels ==
  ASSUME Phase = "analytics"
  PROVE  /\ Levelled /\ RoundsKnown
         /\ \A r : InRound(1, r) => r = Id("chainParameters", 1)
<1>1. CASE network = None
  <2>1. Rounds = One("chainParameters")
    BY <1>1, RoundsOfPhase DEF AnalyticsRounds
  <2>2. DOMAIN Rounds = 1 .. 1 /\ Rounds[1] = <<Id("chainParameters", 1)>>
    BY <2>1, OneIsRound
  <2>3. /\ \A r : InRound(1, r) <=> r = Id("chainParameters", 1)
        /\ \A i, r : InRound(i, r) => i = 1
    BY <2>2, RangesOfStore DEF InRound
  <2>4. Known(Id("chainParameters", 1))
    BY IdIsRequest DEF Known
  <2>5. RoundsKnown
    BY <2>2, <2>3, <2>4, OneCall DEF RoundsKnown
  <2>6. QED
    BY <2>2, <2>3, <2>5, IdIsRequest DEF Levelled, Level, Needed, Decisive
<1>2. CASE network # None
  <2>1. Rounds = <<>>
    BY <1>2, RoundsOfPhase DEF AnalyticsRounds
  <2>2. DOMAIN Rounds = 1 .. 0
    BY <2>1
  <2>3. QED
    BY <2>2 DEF Levelled, RoundsKnown, InRound
<1>3. QED
  BY <1>1, <1>2

LEMMA RoundsAreLevelled ==
  ASSUME RequestInv, step \in 1 .. 6
  PROVE  Levelled /\ RoundsKnown
<1>1. Stakers \in Nat /\ Analyzed \in Nat
  BY CountOfAnswer, LeastIsCount, AnalysesAreFinite, ScriptAssumption DEF Stakers
<1>2. \/ Phase = "network" \/ Phase = "governance" \/ Phase = "resources"
      \/ Phase = "trc20" \/ Phase = "rental" \/ Phase = "analytics"
  BY DEF Phase, Phases
<1>3. QED
  BY <1>1, <1>2, NetworkLevels, GovernanceLevels, ResourceLevels, Trc20Levels, RentalLevels,
     AnalyticsLevels

\* The rounds change only when the list is known that they ask about.
LEMMA RoundsKept ==
  ASSUME UNCHANGED <<step, network>>, step \in 1 .. 6,
         Phase = "resources" => Stakers' = Stakers,
         Phase = "trc20" => Analyzed' = Analyzed
  PROVE  Rounds' = Rounds
<1>1. Phase' = Phase
  BY DEF Phase
<1>2. NetworkRounds' = NetworkRounds
  BY DEF NetworkRounds, One, Id, Phase
<1>3. GovernanceRounds' = GovernanceRounds
  BY DEF GovernanceRounds, Id, Phase
<1>4. Phase = "resources" => ResourceRounds' = ResourceRounds
  BY DEF ResourceRounds, One, EachOf, Id, Phase
<1>5. Phase = "trc20" => Trc20Rounds' = Trc20Rounds
  BY DEF Trc20Rounds, One, EachOf, Id, Phase
<1>6. RentalRounds' = RentalRounds
  BY DEF RentalRounds, Id, Phase
<1>7. AnalyticsRounds' = AnalyticsRounds
  BY DEF AnalyticsRounds, One, Id, Phase
<1>8. /\ Phase' = "network" => Rounds' = NetworkRounds'
      /\ Phase' = "governance" => Rounds' = GovernanceRounds'
      /\ Phase' = "resources" => Rounds' = ResourceRounds'
      /\ Phase' = "trc20" => Rounds' = Trc20Rounds'
      /\ Phase' = "rental" => Rounds' = RentalRounds'
      /\ Phase' = "analytics" => Rounds' = AnalyticsRounds'
  BY Zenon DEF Rounds
<1>9. \/ Phase = "network" \/ Phase = "governance" \/ Phase = "resources"
      \/ Phase = "trc20" \/ Phase = "rental" \/ Phase = "analytics"
  BY DEF Phase, Phases
<1>10. QED
  BY <1>1, <1>2, <1>3, <1>4, <1>5, <1>6, <1>7, <1>8, <1>9, RoundsOfPhase

-----------------------------------------------------------------------------
\* The turns of requests.  A request is of a round of the phase, or one that a
\* failed governance phase has left; rounds before its own have been answered.
FirstRounds ==
  /\ Phase = "network" => \A r : InRound(1, r) <=> r = Id("chainParameters", 1)
  /\ Phase = "governance" => \A r : InRound(1, r) <=> r \in GovernanceRequests
  /\ Phase = "resources" => \A r : InRound(1, r) <=> r = Id("stakers", 1)
  /\ Phase = "trc20" => \A r : InRound(1, r) <=> r = Id("tokens", 1)
  /\ Phase = "analytics" => \A r : InRound(1, r) => r = Id("chainParameters", 1)

Shape ==
  /\ Levelled /\ FirstRounds
  /\ \A r : step > 2 /\ r \in GovernanceRequests => \A i : ~InRound(i, r)
  /\ step = 2 <=> Phase = "governance"

LeftOver(r) == step > 2 /\ r \in GovernanceRequests /\ memory["governance"] = 0

Answered(round) ==
  Settled(round) /\ \A r \in Range(round) : Needed(r) => request[r].pc = "done"

InPlace ==
  \A r \in DOMAIN request : LeftOver(r) \/ (doing = "collect" /\ InRound(Level(r), r))

Missing == step > 2 => \E g \in GovernanceRequests : g \notin DOMAIN request

Ordered ==
  doing = "collect" =>
    \A q \in DOMAIN request : InRound(Level(q), q) =>
      \A k \in DOMAIN Rounds : k < Level(q) => Answered(Rounds[k])

\* The requests of a round are made together.
Whole ==
  doing = "collect" =>
    \A i \in DOMAIN Rounds :
      Asked(Rounds[i]) \/ \A r \in Range(Rounds[i]) : r \notin DOMAIN request

TurnInv == InPlace /\ Missing /\ Ordered /\ Whole

LEMMA RoundsHaveShape == RequestInv /\ StoreInv => Shape
<1> SUFFICES ASSUME RequestInv, StoreInv
             PROVE  Shape
  OBVIOUS
<1>1. step \in 1 .. 6
  BY DEF StoreInv
<1>2. Levelled
  BY <1>1, RoundsAreLevelled
<1>3. Stakers \in Nat /\ Analyzed \in Nat
  BY CountOfAnswer, LeastIsCount, AnalysesAreFinite, ScriptAssumption DEF Stakers
<1>4. FirstRounds
  BY <1>3, NetworkLevels, GovernanceLevels, ResourceLevels, Trc20Levels, AnalyticsLevels
  DEF FirstRounds
<1>5. step = 2 <=> Phase = "governance"
  BY <1>1 DEF Phase, Phases
<1>6. \A r : step > 2 /\ r \in GovernanceRequests => \A i : ~InRound(i, r)
  <2>1. \A r \in GovernanceRequests : r.phase = "governance"
    BY DEF GovernanceRequests
  <2>2. \A i, r : InRound(i, r) => r.phase = Phase
    BY <1>2 DEF Levelled
  <2>3. step > 2 => Phase # "governance"
    BY <1>1, <1>5
  <2>4. QED
    BY <2>1, <2>2, <2>3
<1>7. QED
  BY <1>2, <1>4, <1>5, <1>6 DEF Shape

\* Steps that keep the rounds and do not touch what is over.
LEMMA SameRoundsInTurn ==
  ASSUME TurnInv, Rounds' = Rounds, UNCHANGED <<step, doing, memory>>,
         DOMAIN request' = DOMAIN request,
         \A r \in DOMAIN request : Over(r) => request'[r].pc = request[r].pc
  PROVE  TurnInv'
<1>1. \A i, r : InRound(i, r)' <=> InRound(i, r)
  BY DEF InRound
<1>2. \A r : LeftOver(r)' <=> LeftOver(r)
  BY DEF LeftOver
<1>3. ASSUME NEW k \in DOMAIN Rounds, Answered(Rounds[k])
      PROVE  Answered(Rounds[k])'
  <2>1. \A r \in Range(Rounds[k]) : r \in DOMAIN request /\ Over(r)
    BY <1>3 DEF Answered, Settled, Asked
  <2>2. \A r \in Range(Rounds[k]) : r \in DOMAIN request' /\ Over(r)'
    BY <2>1 DEF Over
  <2>3. \A r \in Range(Rounds[k]) : Needed(r) => request'[r].pc = "done"
    BY <1>3, <2>1 DEF Answered
  <2>4. QED
    BY <2>2, <2>3 DEF Answered, Settled, Asked
<1>4. InPlace'
  BY <1>1, <1>2 DEF TurnInv, InPlace
<1>5. Missing'
  BY DEF TurnInv, Missing
<1>6. Ordered'
  BY <1>1, <1>3 DEF TurnInv, Ordered
<1>7. Whole'
  BY DEF TurnInv, Whole, Asked
<1>8. QED
  BY <1>4, <1>5, <1>6, <1>7 DEF TurnInv

\* Steps that leave nothing but what governance has left.
LEMMA OnlyLeftOversInTurn ==
  ASSUME Shape', \A r \in DOMAIN request' : LeftOver(r)', Missing'
  PROVE  TurnInv'
<1>1. InPlace'
  BY DEF InPlace
<1>2. Ordered'
  BY DEF Ordered, LeftOver, Shape
<1>3. Whole'
  BY DEF Whole, LeftOver, Shape, InRound
<1>4. QED
  BY <1>1, <1>2, <1>3 DEF TurnInv

\* An answer changes the rounds only when it is the one that tells how many more
\* there are; then nothing but the first round has been asked for.
LEMMA RequestInTurn ==
  ASSUME StoreInv, Shape, Shape', TurnInv, NEW r \in DOMAIN request, Turned(r), ~Over(r),
         UNCHANGED scriptVars
  PROVE  TurnInv'
<1>1. UNCHANGED <<step, doing, memory, network>> /\ step \in 1 .. 6
  BY DEF scriptVars, StoreInv
<1>2. /\ DOMAIN request' = DOMAIN request
      /\ \A q \in DOMAIN request : q # r => request'[q] = request[q]
  BY DEF Turned
<1>3. Phase' = Phase /\ \A asks, n : Id(asks, n)' = Id(asks, n)
  BY <1>1 DEF Phase, Id
<1>4. CASE /\ Phase = "resources" => r # Id("stakers", 1)
           /\ Phase = "trc20" => r # Id("tokens", 1)
  <2>1. ASSUME NEW q, q # r, NEW default
        PROVE  ValueOf(q, default)' = ValueOf(q, default)
    BY <1>2, <2>1 DEF ValueOf, Has
  <2>2. Phase = "resources" => Stakers' = Stakers
    BY <1>3, <1>4, <2>1 DEF Stakers
  <2>3. Phase = "trc20" => Analyzed' = Analyzed
    BY <1>3, <1>4, <2>1 DEF Analyzed, Tokens
  <2>4. Rounds' = Rounds
    BY <1>1, <2>2, <2>3, RoundsKept
  <2>5. QED
    BY <1>1, <1>2, <2>4, SameRoundsInTurn
<1>5. ASSUME \/ Phase = "resources" /\ r = Id("stakers", 1)
             \/ Phase = "trc20" /\ r = Id("tokens", 1)
      PROVE  TurnInv'
  <2>1. (\A q : InRound(1, q) <=> q = r) /\ (\A q : InRound(1, q)' <=> q = r)
    BY <1>3, <1>5 DEF Shape, FirstRounds
  <2>2. Level(r) = 1
    BY <2>1 DEF Shape, Levelled
  <2>3. doing = "collect" /\ ~LeftOver(r)
    BY <2>1 DEF TurnInv, InPlace, LeftOver, Shape
  <2>4. ASSUME NEW q \in DOMAIN request, InRound(Level(q), q)
        PROVE  q = r
    <3>1. PICK m \in Nat : DOMAIN Rounds = 1 .. m
      BY DEF Shape, Levelled
    <3>2. PICK l : l = Level(q)
      OBVIOUS
    <3>3. l \in 1 .. m /\ 1 \in 1 .. m
      BY <2>4, <3>1, <3>2 DEF InRound
    <3>4. CASE l = 1
      BY <2>1, <2>4, <3>2, <3>4
    <3>5. CASE l > 1
      <4>1. Answered(Rounds[1])
        BY <2>3, <2>4, <3>1, <3>2, <3>3, <3>5 DEF TurnInv, Ordered
      <4>2. r \in Range(Rounds[1])
        BY <2>1 DEF InRound
      <4>3. QED
        BY <4>1, <4>2 DEF Answered, Settled
    <3>6. QED
      BY <3>3, <3>4, <3>5
  <2>5. \A q : LeftOver(q)' <=> LeftOver(q)
    BY <1>1 DEF LeftOver
  <2>6. InPlace'
    BY <1>1, <1>2, <2>1, <2>2, <2>3, <2>4, <2>5 DEF TurnInv, InPlace
  <2>7. Missing'
    BY <1>1, <1>2 DEF TurnInv, Missing
  <2>8. ASSUME NEW q \in DOMAIN request, InRound(Level(q), q)', NEW k \in DOMAIN Rounds',
               k < Level(q)
        PROVE  FALSE
    <3>1. ~LeftOver(q)'
      BY <2>8 DEF LeftOver, Shape
    <3>2. q = r
      BY <2>4, <2>5, <3>1 DEF TurnInv, InPlace
    <3>3. PICK m \in Nat : DOMAIN Rounds' = 1 .. m
      BY DEF Shape, Levelled
    <3>4. QED
      BY <2>2, <2>8, <3>2, <3>3
  <2>9. Ordered'
    BY <1>2, <2>8 DEF Ordered
  <2>10. ASSUME NEW i \in DOMAIN Rounds'
         PROVE  Asked(Rounds[i])' \/ \A q \in Range(Rounds[i])' : q \notin DOMAIN request'
    <3>1. CASE i = 1
      <4>1. Range(Rounds[i])' = {r}
        BY <2>1, <3>1 DEF InRound
      <4>2. QED
        BY <1>2, <4>1 DEF Asked
    <3>2. ASSUME i # 1, NEW q \in Range(Rounds[i])', q \in DOMAIN request
          PROVE  FALSE
      <4>1. InRound(i, q)' /\ Level(q) = i
        BY DEF InRound, Shape, Levelled
      <4>2. q # r
        BY <2>2, <3>2, <4>1
      <4>3. ~LeftOver(q)
        BY <2>5, <4>1 DEF Shape, LeftOver
      <4>4. QED
        BY <2>4, <3>2, <4>2, <4>3 DEF TurnInv, InPlace
    <3>3. QED
      BY <1>2, <3>1, <3>2
  <2>11. Whole'
    BY <2>10 DEF Whole
  <2>12. QED
    BY <2>6, <2>7, <2>9, <2>11 DEF TurnInv
<1>6. QED
  BY <1>4, <1>5

LEMMA TickInTurn ==
  ASSUME RequestInv, StoreInv, TurnInv, Tick, UNCHANGED scriptVars
  PROVE  TurnInv'
<1>1. UNCHANGED <<step, doing, memory, network>> /\ step \in 1 .. 6
  BY DEF scriptVars, StoreInv
<1>2. /\ DOMAIN request' = DOMAIN request
      /\ \A r \in DOMAIN request : /\ request'[r].pc = request[r].pc
                                   /\ request'[r].value = request[r].value
  BY TickTurnsNone
<1>3. \A q, default : ValueOf(q, default)' = ValueOf(q, default)
  BY <1>2 DEF ValueOf, Has
<1>4. \A asks, n : Id(asks, n)' = Id(asks, n)
  BY <1>1 DEF Id, Phase
<1>5. Stakers' = Stakers /\ Analyzed' = Analyzed
  BY <1>3, <1>4 DEF Stakers, Analyzed, Tokens
<1>6. QED
  BY <1>1, <1>2, <1>5, RoundsKept, SameRoundsInTurn

\* A round begins when the one before it, and so every one before that, has
\* been answered.
LEMMA DueInTurn ==
  ASSUME Shape, TurnInv, doing = "collect", ~Broken, NEW j \in DOMAIN Rounds,
         ~Asked(Rounds[j]), j = 1 \/ Settled(Rounds[j - 1])
  PROVE  /\ \A k \in DOMAIN Rounds : k < j => Answered(Rounds[k])
         /\ \A q \in DOMAIN request : InRound(Level(q), q) => Level(q) <= j
<1>1. PICK m \in Nat : DOMAIN Rounds = 1 .. m
  BY DEF Shape, Levelled
<1>2. ASSUME NEW q \in DOMAIN request, InRound(Level(q), q), ~(Level(q) <= j)
      PROVE  FALSE
  <2>1. PICK l : l = Level(q)
    OBVIOUS
  <2>2. l \in 1 .. m /\ j \in 1 .. m
    BY <1>1, <1>2, <2>1 DEF InRound
  <2>3. j < l
    BY <1>2, <2>1, <2>2
  <2>4. Answered(Rounds[j])
    BY <1>2, <2>1, <2>3 DEF TurnInv, Ordered
  <2>5. QED
    BY <2>4 DEF Answered, Settled
<1>3. ASSUME NEW i \in DOMAIN Rounds, i + 1 = j
      PROVE  Answered(Rounds[i])
  <2>1. j # 1 /\ i = j - 1
    BY <1>1, <1>3
  <2>2. Settled(Rounds[i])
    BY <2>1
  <2>3. ASSUME NEW p \in Range(Rounds[i]), Needed(p)
        PROVE  request[p].pc = "done"
    <3>1. p \in DOMAIN request /\ Over(p)
      BY <2>2 DEF Settled, Asked
    <3>2. p.phase = Phase
      BY DEF InRound, Shape, Levelled
    <3>3. QED
      BY <2>3, <3>1, <3>2 DEF Broken, Over
  <2>4. QED
    BY <2>2, <2>3 DEF Answered
<1>4. ASSUME NEW k \in DOMAIN Rounds, k < j
      PROVE  Answered(Rounds[k])
  <2>1. PICK i \in DOMAIN Rounds : i + 1 = j
    BY <1>1, <1>4
  <2>2. CASE k = i
    BY <1>3, <2>1, <2>2
  <2>3. CASE k # i
    <3>1. k < i
      BY <1>1, <1>4, <2>1, <2>3
    <3>2. PICK p : InRound(i, p)
      BY <2>1 DEF Shape, Levelled
    <3>3. Level(p) = i
      BY <3>2 DEF Shape, Levelled
    <3>4. p \in DOMAIN request
      BY <1>3, <2>1, <3>2 DEF Answered, Settled, Asked, InRound
    <3>5. QED
      BY <3>1, <3>2, <3>3, <3>4 DEF TurnInv, Ordered
  <2>4. QED
    BY <2>2, <2>3
<1>5. QED
  BY <1>2, <1>4

LEMMA StartRoundInTurn ==
  ASSUME RequestInv, StoreInv, Shape, TurnInv, StartRound
  PROVE  TurnInv'
<1>1. UNCHANGED <<step, doing, memory, network>> /\ step \in 1 .. 6 /\ doing = "collect"
  BY DEF StartRound, scriptVars, StoreInv
<1>2. PICK j \in DOMAIN Rounds : /\ ~Asked(Rounds[j]) /\ (j = 1 \/ Settled(Rounds[j - 1]))
                                 /\ Acquire(Rounds[j], WithRound(Rounds[j]))
  BY DEF StartRound, Due
<1>3. PICK round : round = Rounds[j]
  OBVIOUS
<1>4. /\ DOMAIN request' = DOMAIN request \cup Range(round)
      /\ \A r \in DOMAIN request \ Range(round) : request'[r] = request[r]
      /\ \A r \in Range(round) : request'[r].pc \in {"sent", "waiting"}
  BY <1>2, <1>3, RoundTurns
<1>5. /\ \A k \in DOMAIN Rounds : k < j => Answered(Rounds[k])
      /\ \A q \in DOMAIN request : InRound(Level(q), q) => Level(q) <= j
  BY <1>1, <1>2, DueInTurn DEF StartRound
<1>6. \A r \in Range(round) : InRound(j, r) /\ Level(r) = j
  BY <1>3 DEF InRound, Shape, Levelled
<1>7. PICK m \in Nat : DOMAIN Rounds = 1 .. m
  BY DEF Shape, Levelled
<1>8. ASSUME NEW p, \A q : InRound(1, q) <=> q = p
      PROVE  \A default : ValueOf(p, default)' = ValueOf(p, default)
  <2>1. CASE p \in Range(round)
    <3>1. Level(p) = 1 /\ j = 1
      BY <1>6, <1>8, <2>1 DEF Shape, Levelled
    <3>2. p \notin DOMAIN request
      BY <1>2, <1>3, <1>8, <3>1 DEF Asked, InRound
    <3>3. ~Has(p) /\ ~Has(p)'
      BY <1>4, <2>1, <3>2 DEF Has
    <3>4. QED
      BY <3>3 DEF ValueOf
  <2>2. CASE p \notin Range(round)
    BY <1>4, <2>2 DEF ValueOf, Has
  <2>3. QED
    BY <2>1, <2>2
<1>9. \A asks, n : Id(asks, n)' = Id(asks, n)
  BY <1>1 DEF Id, Phase
<1>10. Phase = "resources" => Stakers' = Stakers
  BY <1>8, <1>9 DEF Stakers, Shape, FirstRounds
<1>11. Phase = "trc20" => Analyzed' = Analyzed
  BY <1>8, <1>9 DEF Analyzed, Tokens, Shape, FirstRounds
<1>12. Rounds' = Rounds
  BY <1>1, <1>10, <1>11, RoundsKept
<1>13. \A i, r : InRound(i, r)' <=> InRound(i, r)
  BY <1>12 DEF InRound
<1>14. \A r : LeftOver(r)' <=> LeftOver(r)
  BY <1>1 DEF LeftOver
<1>15. InPlace'
  BY <1>1, <1>4, <1>6, <1>13, <1>14 DEF TurnInv, InPlace
<1>16. Missing'
  <2>1. ASSUME step > 2, NEW g \in GovernanceRequests
        PROVE  g \notin Range(round)
    BY <1>6, <2>1 DEF Shape
  <2>2. QED
    BY <1>1, <1>4, <2>1 DEF TurnInv, Missing
<1>17. ASSUME NEW k \in DOMAIN Rounds, k < j
       PROVE  Answered(Rounds[k])'
  <2>1. \A r \in Range(Rounds[k]) : Level(r) = k
    BY <1>17 DEF InRound, Shape, Levelled
  <2>2. \A r \in Range(Rounds[k]) : r \in DOMAIN request /\ r \notin Range(round)
    BY <1>5, <1>6, <1>7, <1>17, <2>1 DEF Answered, Settled, Asked
  <2>3. \A r \in Range(Rounds[k]) : r \in DOMAIN request' /\ request'[r] = request[r]
    BY <1>4, <2>2
  <2>4. Answered(Rounds[k])
    BY <1>5, <1>17
  <2>5. QED
    BY <1>12, <2>3, <2>4 DEF Answered, Settled, Asked, Over
<1>18. ASSUME NEW q \in DOMAIN request', InRound(Level(q), q)', NEW k \in DOMAIN Rounds',
              k < Level(q)
       PROVE  Answered(Rounds[k])'
  <2>1. PICK l : l = Level(q)
    OBVIOUS
  <2>2. l \in 1 .. m /\ k \in 1 .. m /\ j \in 1 .. m /\ k < l
    BY <1>7, <1>12, <1>18, <2>1 DEF InRound
  <2>3. l <= j
    <3>1. CASE q \in Range(round)
      BY <1>6, <2>1, <2>2, <3>1
    <3>2. CASE q \in DOMAIN request
      BY <1>5, <1>13, <1>18, <2>1, <3>2
    <3>3. QED
      BY <1>4, <3>1, <3>2
  <2>4. k < j
    BY <2>2, <2>3
  <2>5. QED
    BY <1>7, <1>17, <2>2, <2>4
<1>19. Ordered'
  BY <1>12, <1>18 DEF Ordered
<1>20. ASSUME NEW i \in DOMAIN Rounds
       PROVE  Asked(Rounds[i])' \/ \A r \in Range(Rounds[i])' : r \notin DOMAIN request'
  <2>1. Rounds'[i] = Rounds[i]
    BY <1>12
  <2>2. CASE i = j
    BY <1>3, <1>4, <2>1, <2>2 DEF Asked
  <2>3. CASE i # j
    <3>1. \A r \in Range(Rounds[i]) : r \notin Range(round)
      BY <1>6, <2>3 DEF InRound, Shape, Levelled
    <3>2. QED
      BY <1>1, <1>4, <2>1, <3>1 DEF TurnInv, Whole, Asked
  <2>4. QED
    BY <2>2, <2>3
<1>21. Whole'
  BY <1>12, <1>20 DEF Whole
<1>22. QED
  BY <1>15, <1>16, <1>19, <1>21 DEF TurnInv

\* When a phase has all it asked for, its requests are over and are forgotten.
LEMMA CollectedInTurn ==
  ASSUME RequestInv, StoreInv, Shape, Shape', TurnInv, doing = "collect", Collected, Forget,
         step' = step, memory'["governance"] = memory["governance"]
  PROVE  TurnInv'
<1>1. DOMAIN request' = {r \in DOMAIN request : ~Over(r)}
  BY ForgetTurnsNone
<1>2. ASSUME NEW r \in DOMAIN request'
      PROVE  LeftOver(r)'
  <2>1. CASE InRound(Level(r), r)
    <3>1. Settled(Rounds[Level(r)])
      BY <2>1 DEF Collected, InRound
    <3>2. Over(r)
      BY <2>1, <3>1 DEF Settled, InRound
    <3>3. QED
      BY <1>1, <3>2
  <2>2. CASE LeftOver(r)
    BY <2>2 DEF LeftOver
  <2>3. QED
    BY <1>1, <2>1, <2>2 DEF TurnInv, InPlace
<1>3. Missing'
  BY <1>1 DEF TurnInv, Missing
<1>4. QED
  BY <1>2, <1>3, OnlyLeftOversInTurn

LEMMA IngestInTurn ==
  ASSUME RequestInv, StoreInv, Shape, Shape', TurnInv,
         IngestNetwork \/ IngestTrc20 \/ IngestOther \/ Analyze
  PROVE  TurnInv'
<1>1. /\ doing = "collect" /\ Collected /\ Forget /\ step' = step
  BY DEF IngestNetwork, IngestTrc20, IngestOther, Analyze, Keep
<1>2. CASE Phase = "governance"
  <2>1. step = 2
    BY <1>2 DEF Shape
  <2>2. \A r \in DOMAIN request : Over(r)
    <3>1. ASSUME NEW r \in DOMAIN request
          PROVE  Over(r)
      <4>1. InRound(Level(r), r)
        BY <2>1 DEF TurnInv, InPlace, LeftOver
      <4>2. QED
        BY <1>1, <4>1 DEF Collected, Settled, InRound
    <3>2. QED
      BY <3>1
  <2>3. DOMAIN request' = {}
    BY <1>1, <2>2, ForgetTurnsNone
  <2>4. Missing'
    BY <1>1, <2>1 DEF Missing
  <2>5. QED
    BY <2>3, <2>4, OnlyLeftOversInTurn
<1>3. CASE Phase # "governance"
  <2>1. /\ Phase \in Batches /\ "governance" \in Batches
        /\ memory = [b \in Batches |-> memory[b]]
    BY <1>1, PastWhileCollecting, PhasesInOrder DEF StoreInv
  <2>2. CASE IngestNetwork \/ IngestTrc20 \/ IngestOther
    <3>1. \E records : memory' = [memory EXCEPT ![Phase] = records]
      BY <2>2 DEF IngestNetwork, IngestTrc20, IngestOther, Keep
    <3>2. memory'["governance"] = memory["governance"]
      BY <1>3, <2>1, <3>1
    <3>3. QED
      BY <1>1, <3>2, CollectedInTurn
  <2>3. CASE Analyze
    <3>1. \E records, found : memory' = [memory EXCEPT !["analytics"] = records,
                                                       !["findings"] = found]
      BY <2>3 DEF Analyze
    <3>2. memory'["governance"] = memory["governance"]
      BY <2>1, <3>1
    <3>3. QED
      BY <1>1, <3>2, CollectedInTurn
  <2>4. QED
    BY <2>2, <2>3
<1>4. QED
  BY <1>2, <1>3

\* A phase that is skipped leaves open requests only if it is governance.
LEMMA SkipInTurn ==
  ASSUME RequestInv, StoreInv, Shape, Shape', TurnInv, Skip
  PROVE  TurnInv'
<1>1. /\ doing = "collect" /\ Forget /\ memory' = memory /\ step \in 1 .. 6
      /\ DOMAIN request' = {r \in DOMAIN request : ~Over(r)}
  BY ForgetTurnsNone DEF Skip, StoreInv
<1>2. step' = IF step = 6 THEN 6 ELSE step + 1
  BY <1>1, PhasesInOrder DEF Skip, NextPhase, MinOf
<1>3. PICK p \in DOMAIN request : p.phase = Phase /\ Needed(p) /\ request[p].pc = "failed"
  BY DEF Skip, Broken
<1>4. ~LeftOver(p)
  <2>1. \A g \in GovernanceRequests : g.phase = "governance"
    BY DEF GovernanceRequests
  <2>2. QED
    BY <1>1, <1>3, <2>1 DEF LeftOver, Shape
<1>5. InRound(1, p) /\ Level(p) = 1 /\ Phase \in Decisive /\ Over(p)
  BY <1>3, <1>4 DEF TurnInv, InPlace, Shape, Levelled, Over
<1>6. PICK m \in Nat : DOMAIN Rounds = 1 .. m
  BY DEF Shape, Levelled
<1>7. ASSUME NEW r \in DOMAIN request', ~LeftOver(r)
      PROVE  step = 2 /\ r \in GovernanceRequests
  <2>1. r \in DOMAIN request /\ ~Over(r) /\ InRound(Level(r), r)
    BY <1>1, <1>7 DEF TurnInv, InPlace
  <2>2. PICK l : l = Level(r)
    OBVIOUS
  <2>3. l \in 1 .. m
    BY <1>6, <2>1, <2>2 DEF InRound
  <2>4. CASE l = 1
    BY <1>5, <2>1, <2>2, <2>4 DEF Shape, FirstRounds, Decisive
  <2>5. CASE l > 1
    <3>1. 1 \in DOMAIN Rounds /\ 1 < l
      BY <1>6, <2>3, <2>5
    <3>2. Answered(Rounds[1])
      BY <1>1, <2>1, <2>2, <3>1 DEF TurnInv, Ordered
    <3>3. request[p].pc = "done"
      BY <1>3, <1>5, <3>2 DEF Answered, InRound
    <3>4. QED
      BY <1>3, <3>3
  <2>6. QED
    BY <2>3, <2>4, <2>5
<1>8. ASSUME NEW r \in DOMAIN request'
      PROVE  LeftOver(r)'
  <2>1. CASE LeftOver(r)
    BY <1>1, <1>2, <2>1 DEF LeftOver
  <2>2. CASE ~LeftOver(r)
    <3>1. step = 2 /\ r \in GovernanceRequests /\ Phase = "governance"
      BY <1>7, <2>2 DEF Shape
    <3>2. memory["governance"] = 0
      BY <1>1, <3>1, PastWhileCollecting
    <3>3. QED
      BY <1>1, <1>2, <3>1, <3>2 DEF LeftOver
  <2>3. QED
    BY <2>1, <2>2
<1>9. Missing'
  <2>1. CASE step = 2
    <3>1. p \in GovernanceRequests
      BY <1>5, <2>1 DEF Shape, FirstRounds
    <3>2. QED
      BY <1>1, <1>5, <3>1 DEF Missing
  <2>2. CASE step > 2
    BY <1>1, <2>2 DEF TurnInv, Missing
  <2>3. CASE step = 1
    BY <1>2, <2>3 DEF Missing
  <2>4. QED
    BY <1>1, <2>1, <2>2, <2>3
<1>10. QED
  BY <1>8, <1>9, OnlyLeftOversInTurn

\* While a phase writes, only what governance has left may run.
LEMMA PersistInTurn ==
  ASSUME StoreInv, Shape, Shape', TurnInv,
         InsertChunk \/ FailChunk \/ Persisted \/ EndPhase
  PROVE  TurnInv'
<1>1. doing = "persist" /\ UNCHANGED <<request, memory>> /\ step \in 1 .. 6
  BY DEF InsertChunk, FailChunk, Persisted, EndPhase, clientVars, StoreInv
<1>2. step' = step \/ step' = step + 1
  BY <1>1, PhasesInOrder DEF InsertChunk, FailChunk, Persisted, EndPhase, NextPhase, MinOf
<1>3. \A r \in DOMAIN request : LeftOver(r)
  BY <1>1 DEF TurnInv, InPlace
<1>4. \A r \in DOMAIN request' : LeftOver(r)'
  BY <1>1, <1>2, <1>3 DEF LeftOver
<1>5. Missing'
  <2>1. CASE step > 2
    BY <1>1, <2>1 DEF TurnInv, Missing
  <2>2. CASE ~(step > 2)
    <3>1. DOMAIN request' = {}
      BY <1>1, <1>3, <2>2 DEF LeftOver
    <3>2. QED
      BY <3>1 DEF Missing, GovernanceRequests
  <2>3. QED
    BY <2>1, <2>2
<1>6. QED
  BY <1>4, <1>5, OnlyLeftOversInTurn

LEMMA InitInTurn == Init => TurnInv
BY DEF Init, ClientInit, TurnInv, InPlace, Missing, Ordered, Whole

LEMMA NextInTurn ==
  RequestInv /\ StoreInv /\ Shape /\ Shape' /\ TurnInv /\ [Next]_vars => TurnInv'
<1> SUFFICES ASSUME RequestInv, StoreInv, Shape, Shape', TurnInv, [Next]_vars
             PROVE  TurnInv'
  OBVIOUS
<1>1. CASE StartRound
  BY <1>1, StartRoundInTurn
<1>2. CASE IngestNetwork \/ IngestTrc20 \/ IngestOther \/ Analyze
  BY <1>2, IngestInTurn
<1>3. CASE Skip
  BY <1>3, SkipInTurn
<1>4. CASE InsertChunk \/ FailChunk \/ Persisted \/ EndPhase
  BY <1>4, PersistInTurn
<1>5. ASSUME NEW r \in DOMAIN request, RequestStep(r)
      PROVE  TurnInv'
  <2>1. UNCHANGED scriptVars
    BY <1>5 DEF RequestStep
  <2>2. QED
    BY <1>5, <2>1, RequestTurns, RequestInTurn
<1>6. ASSUME NEW r \in DOMAIN request, NEW f \in Faults, Disappoint(r, f),
             UNCHANGED scriptVars
      PROVE  TurnInv'
  BY <1>6, RequestTurns, RequestInTurn
<1>7. CASE Tick /\ UNCHANGED scriptVars
  BY <1>7, TickInTurn
<1>8. CASE UNCHANGED vars
  <2>1. UNCHANGED <<request, step, doing, memory, network>>
    BY <1>8 DEF vars, clientVars, scriptVars
  <2>2. Stakers' = Stakers /\ Analyzed' = Analyzed
    BY <2>1 DEF Stakers, Analyzed, Tokens, ValueOf, Has, Id, Phase
  <2>3. Rounds' = Rounds
    BY <2>1, <2>2, RoundsKept DEF StoreInv
  <2>4. QED
    BY <2>1, <2>3, SameRoundsInTurn
<1>9. QED
  BY <1>1, <1>2, <1>3, <1>4, <1>5, <1>6, <1>7, <1>8 DEF Next, ScriptStep

\* The rounds of every phase of tron-audit.ts are asked for one after another, each
\* whole, and nothing is open but a round of the phase and what governance left.
THEOREM TurnsAreKept == Spec => [](StoreInv /\ Shape /\ TurnInv)
<1>1. RequestInv /\ Lists /\ StoreInv => Shape
  BY RoundsHaveShape
<1>2. QED
  BY <1>1, InitInTurn, NextInTurn, StoresAreSound, PTL DEF Spec

\* Two of the three requests of governance at most.
LEMMA TwoAreLeft ==
  ASSUME NEW g \in GovernanceRequests, NEW S, S \subseteq GovernanceRequests \ {g}
  PROVE  Cardinality(S) <= 2
<1>1. PICK a, b, c : GovernanceRequests = {a, b, c}
  <2> DEFINE of(asks) == [phase |-> "governance", asks |-> asks, n |-> 1]
  <2>1. GovernanceRequests = {of("witnesses"), of("proposals"), of("chainParameters")}
    BY DEF GovernanceRequests
  <2> HIDE DEF of
  <2>2. QED
    BY <2>1
<1>2. PICK x, y : S \subseteq {x, y}
  BY <1>1
<1>3. IsFiniteSet({y}) /\ Cardinality({y}) = 1
  BY FS_Singleton
<1>4. {x, y} = {y} \cup {x}
  OBVIOUS
<1>5. IsFiniteSet({x, y}) /\ Cardinality({x, y}) <= 2
  <2>1. CASE x \in {y}
    BY <1>3, <1>4, <2>1, FS_AddElement
  <2>2. CASE x \notin {y}
    BY <1>3, <1>4, <2>2, FS_AddElement
  <2>3. QED
    BY <2>1, <2>2
<1>6. QED
  BY <1>2, <1>5, FS_Subset, FS_CardinalityType

(***************************************************************************)
(* The script of tron-audit.ts never has requests of two rounds open at a  *)
(* time, and a phase leaves requests running behind it only when           *)
(* governance fails: two at most, whose answers no store ever holds.       *)
(***************************************************************************)
THEOREM RoundsAlwaysInTurn == Spec => []RoundsInTurn
<1>1. StoreInv /\ Shape /\ TurnInv => RoundsInTurn
  <2> SUFFICES ASSUME StoreInv, Shape, TurnInv
               PROVE  RoundsInTurn
    OBVIOUS
  <2>1. ASSUME NEW r \in Unheard
        PROVE  LeftOver(r)
    BY DEF Unheard, IsOpen, TurnInv, InPlace, Shape, Levelled
  <2>2. \A r \in Unheard : r.phase = "governance" /\ memory["governance"] = 0
    BY <2>1 DEF LeftOver, GovernanceRequests
  <2>3. Cardinality(Unheard) <= 2
    <3>1. CASE step > 2
      <4>1. PICK g \in GovernanceRequests : g \notin DOMAIN request
        BY <3>1 DEF TurnInv, Missing
      <4>2. Unheard \subseteq GovernanceRequests \ {g}
        BY <2>1, <4>1 DEF LeftOver, Unheard, IsOpen
      <4>3. QED
        BY <4>2, TwoAreLeft
    <3>2. CASE ~(step > 2)
      <4>1. Unheard = {}
        BY <2>1, <3>2 DEF LeftOver
      <4>2. QED
        BY <4>1, FS_EmptySet
    <3>3. QED
      BY <3>1, <3>2
  <2>4. ASSUME doing = "collect", NEW i \in DOMAIN Rounds, NEW j \in DOMAIN Rounds, i < j,
               NEW r \in Range(Rounds[i]), NEW q \in Range(Rounds[j]), q \in DOMAIN request
        PROVE  ~IsOpen(r)
    <3>1. InRound(j, q) /\ Level(q) = j
      BY DEF InRound, Shape, Levelled
    <3>2. Answered(Rounds[i])
      BY <2>4, <3>1 DEF TurnInv, Ordered
    <3>3. QED
      BY <3>2 DEF Answered, Settled, IsOpen
  <2>5. QED
    BY <2>2, <2>3, <2>4 DEF RoundsInTurn
<1>2. QED
  BY <1>1, TurnsAreKept, PTL

-----------------------------------------------------------------------------
\* The rate of a client.  What was sent lately, z requests that are about to be
\* sent, a part of a token for each of the n callers, and what the bucket holds
\* beyond one token are never together more than a full bucket and n - 1 tokens.
Promised(sent, z, n, parts, held) ==
  sent + z * (parts - MinOf(held, parts)) + n * MinOf(held, parts) + MaxOf(0, held - parts)

LEMMA Products ==
  ASSUME NEW a \in Nat, NEW b \in Nat, NEW c \in Nat
  PROVE  /\ a * b \in Nat
         /\ a <= b => a * c <= b * c
         /\ a * (b + c) = a * b + a * c
         /\ (a + b) * c = a * c + b * c
OBVIOUS

LEMMA PromisedCoversSent ==
  ASSUME NEW l \in Nat, NEW z \in Nat, NEW n \in Nat, NEW p \in Nat, NEW b \in Nat
  PROVE  l <= Promised(l, z, n, p, b)
<1>1. PICK m \in Nat : m = MinOf(b, p) /\ m <= p
  BY DEF MinOf
<1>2. PICK x \in Nat : x = p - m
  BY <1>1
<1>3. z * x \in Nat /\ n * m \in Nat
  BY Products
<1>4. MaxOf(0, b - p) \in Nat
  BY DEF MaxOf
<1>5. QED
  BY <1>1, <1>2, <1>3, <1>4 DEF Promised

\* A tick: each caller gains a part of a token, and the store gives out one.
LEMMA TickKeepsPromise ==
  ASSUME NEW l \in Nat, NEW z \in Nat, NEW n \in Nat, NEW p \in Nat, NEW b \in Nat,
         NEW c \in Nat, n >= 1, p >= 1, c >= 1, b <= c * p,
         Promised(l, 0, n, p, b) <= p * (c + n - 1),
         b + 1 < p => z = 0
  PROVE  Promised(MaxOf(0, l - n), z, n, p, MinOf(c * p, b + 1)) <= p * (c + n - 1)
<1>1. PICK k \in Nat : k = c - 1
  OBVIOUS
<1>2. PICK s \in Nat, t \in Nat : s = n * p /\ t = k * p
  BY Products
<1>3. p * (c + n - 1) = s + t /\ c * p = t + p
  BY <1>1, <1>2
<1>4. CASE b < p
  <2>1. MinOf(c * p, b + 1) = b + 1 /\ MinOf(b, p) = b /\ MaxOf(0, b - p) = 0
    BY <1>2, <1>3, <1>4 DEF MinOf, MaxOf
  <2>2. MinOf(b + 1, p) = b + 1 /\ MaxOf(0, b + 1 - p) = 0
    BY <1>4 DEF MinOf, MaxOf
  <2>3. z * (p - (b + 1)) = 0
    <3>1. CASE b + 1 < p
      <4>1. z = 0
        BY <3>1
      <4>2. QED
        BY <4>1
    <3>2. CASE b + 1 = p
      BY <3>2
    <3>3. QED
      BY <1>4, <3>1, <3>2
  <2>4. PICK u \in Nat : u = n * b
    BY Products
  <2>5. n * (b + 1) = u + n /\ u + n <= s
    <3>1. n * (b + 1) = u + n
      BY <2>4
    <3>2. (b + 1) * n <= p * n
      BY <1>4, Products
    <3>3. QED
      BY <1>2, <3>1, <3>2
  <2>6. l + u <= s + t
    BY <1>3, <2>1, <2>4 DEF Promised
  <2>7. MaxOf(0, l - n) + u + n <= s + t
    BY <1>2, <2>5, <2>6 DEF MaxOf
  <2>8. Promised(MaxOf(0, l - n), z, n, p, b + 1) = MaxOf(0, l - n) + u + n
    <3>1. MaxOf(0, l - n) \in Nat
      BY DEF MaxOf
    <3>2. QED
      BY <2>2, <2>3, <2>4, <2>5, <3>1 DEF Promised
  <2>9. QED
    BY <1>3, <2>1, <2>7, <2>8
<1>5. CASE b >= p
  <2>1. PICK d \in Nat : d = MinOf(c * p, b + 1) /\ d >= p /\ d <= b + 1 /\ d <= t + p
    BY <1>2, <1>3, <1>5 DEF MinOf
  <2>2. /\ MinOf(b, p) = p /\ MaxOf(0, b - p) = b - p
        /\ MinOf(d, p) = p /\ MaxOf(0, d - p) = d - p
    BY <1>5, <2>1 DEF MinOf, MaxOf
  <2>3. l + s + (b - p) <= s + t
    BY <1>2, <1>3, <2>2 DEF Promised
  <2>4. MaxOf(0, l - n) + s + (d - p) <= s + t
    BY <1>2, <2>1, <2>3 DEF MaxOf
  <2>5. Promised(MaxOf(0, l - n), z, n, p, d) = MaxOf(0, l - n) + s + (d - p)
    <3>1. MaxOf(0, l - n) \in Nat /\ z * (p - p) = 0
      BY DEF MaxOf
    <3>2. QED
      BY <1>2, <2>2, <3>1 DEF Promised
  <2>6. QED
    BY <1>3, <2>1, <2>4, <2>5
<1>6. QED
  BY <1>4, <1>5

\* One that has waited is sent, and leaves nothing in the bucket.
LEMMA WakeKeepsPromise ==
  ASSUME NEW l \in Nat, NEW z \in Nat, NEW n \in Nat, NEW p \in Nat, NEW b \in Nat,
         z >= 1, z <= n, b <= p
  PROVE  Promised(l + p, z - 1, n, p, 0) <= Promised(l, z, n, p, b)
<1>1. PICK y \in Nat : y = z - 1
  OBVIOUS
<1>2. PICK u \in Nat, v \in Nat, w \in Nat : u = z * b /\ v = n * b /\ w = z * p
  BY Products
<1>3. u <= v
  BY <1>2, Products
<1>4. z * (p - b) = w - u
  BY <1>2
<1>5. y * p = w - p
  BY <1>1, <1>2
<1>6. MinOf(b, p) = b /\ MaxOf(0, b - p) = 0 /\ MinOf(0, p) = 0 /\ MaxOf(0, 0 - p) = 0
  BY DEF MinOf, MaxOf
<1>7. Promised(l, z, n, p, b) = l + (w - u) + v
  BY <1>2, <1>4, <1>6 DEF Promised
<1>8. Promised(l + p, y, n, p, 0) = l + w
  <2>1. y * (p - MinOf(0, p)) = w - p /\ n * MinOf(0, p) = 0
    BY <1>5, <1>6
  <2>2. QED
    BY <1>2, <1>6, <2>1 DEF Promised
<1>9. QED
  BY <1>1, <1>2, <1>3, <1>7, <1>8

\* Whole tokens are taken from the bucket, by callers of which one at least is
\* not about to be sent.
LEMMA ServeKeepsPromise ==
  ASSUME NEW l \in Nat, NEW z \in Nat, NEW n \in Nat, NEW p \in Nat, NEW b \in Nat,
         NEW s \in Nat, s >= 1, p >= 1, p * s <= b, z + 1 <= n
  PROVE  Promised(l + p * s, z, n, p, b - p * s) <= Promised(l, z, n, p, b)
<1>1. PICK x \in Nat : x = p * s /\ x >= p
  <2>1. 1 * p <= s * p /\ s * p \in Nat
    BY Products
  <2>2. QED
    BY <2>1
<1>2. PICK d \in Nat : d = b - x
  BY <1>1
<1>3. PICK w \in Nat : w = n * p
  BY Products
<1>4. Promised(l, z, n, p, b) = l + w + (b - p)
  <2>1. MinOf(b, p) = p /\ MaxOf(0, b - p) = b - p /\ z * (p - p) = 0
    BY <1>1 DEF MinOf, MaxOf
  <2>2. QED
    BY <1>3, <2>1 DEF Promised
<1>5. CASE d >= p
  <2>1. MinOf(d, p) = p /\ MaxOf(0, d - p) = d - p /\ z * (p - p) = 0
    BY <1>5 DEF MinOf, MaxOf
  <2>2. Promised(l + x, z, n, p, d) = l + x + w + (d - p)
    BY <1>3, <2>1 DEF Promised
  <2>3. QED
    BY <1>1, <1>2, <1>4, <2>2
<1>6. CASE d < p
  <2>1. MinOf(d, p) = d /\ MaxOf(0, d - p) = 0
    BY <1>6 DEF MinOf, MaxOf
  <2>2. PICK e \in Nat : e = p - d
    BY <1>6
  <2>3. PICK u \in Nat, v \in Nat, f \in Nat : u = z * e /\ v = n * e /\ f = n * d
    BY Products
  <2>4. u + e <= v
    <3>1. (z + 1) * e <= n * e
      BY Products
    <3>2. (z + 1) * e = u + e
      BY <2>3
    <3>3. QED
      BY <2>3, <3>1, <3>2
  <2>5. v + f = w
    <3>1. n * (e + d) = n * e + n * d
      BY Products
    <3>2. e + d = p
      BY <2>2
    <3>3. QED
      BY <1>3, <2>3, <3>1, <3>2
  <2>6. Promised(l + x, z, n, p, d) = l + x + u + f
    BY <2>1, <2>2, <2>3 DEF Promised
  <2>7. QED
    BY <1>1, <1>2, <1>4, <2>2, <2>4, <2>5, <2>6
<1>7. QED
  BY <1>1, <1>2, <1>5, <1>6

-----------------------------------------------------------------------------
\* A request that waits is sent when the bucket, left alone, would hold a token,
\* or at once.
Wakeable(client) ==
  {r \in DOMAIN request : /\ request[r].client = client
                          /\ request[r].pc = "waiting" /\ request[r].wait = 0}

Waits(t) ==
  t.pc = "waiting" =>
    /\ t.wait \in Nat
    /\ \/ t.wait = Parts[t.client] - bucket[t.client]
       \/ t.wait = 0 /\ bucket[t.client] = 0

Rated(client) ==
  /\ bucket[client] \in Nat /\ bucket[client] <= Full(client) /\ load[client] \in Nat
  /\ Promised(load[client], Cardinality(Wakeable(client)), Callers[client], Parts[client],
              bucket[client])
       <= Parts[client] * (Capacity[client] + Callers[client] - 1)

ClientInv ==
  /\ request = [r \in DOMAIN request |-> request[r]] /\ IsFiniteSet(DOMAIN request)
  /\ bucket = [client \in Clients |-> bucket[client]]
  /\ load = [client \in Clients |-> load[client]]
  /\ \A r \in DOMAIN request :
       /\ IsRequest(request[r]) /\ request[r].client \in Clients /\ request[r].pc # "calling"
       /\ Waits(request[r])
  /\ \A client \in Clients : Rated(client)

\* A step that neither opens a request nor forgets one.
ClientsStay ==
  /\ DOMAIN request' = DOMAIN request
  /\ \A r \in DOMAIN request : request'[r].client = request[r].client

LEMMA ClientNumbers ==
  ASSUME NEW client \in Clients
  PROVE  /\ Parts[client] \in Nat /\ Parts[client] >= 1
         /\ Capacity[client] \in Nat /\ Capacity[client] >= 1
         /\ Callers[client] \in Nat /\ Callers[client] >= 1
BY ClientsAssumption

LEMMA WakeablesAreLive ==
  ASSUME ClientInv, NEW client \in Clients
  PROVE  /\ IsFiniteSet(Live(client)) /\ Wakeable(client) \subseteq Live(client)
         /\ IsFiniteSet(Wakeable(client))
         /\ Cardinality(Wakeable(client)) \in Nat
         /\ Cardinality(Wakeable(client)) <= Cardinality(Live(client))
<1>1. Live(client) \subseteq DOMAIN request /\ Wakeable(client) \subseteq Live(client)
  BY DEF Live, Wakeable, Over
<1>2. IsFiniteSet(Live(client)) /\ IsFiniteSet(Wakeable(client))
  BY <1>1, FS_Subset DEF ClientInv
<1>3. QED
  BY <1>1, <1>2, FS_Subset, FS_CardinalityType

\* Steps that concern no request that waits.
LEMMA QuietSteps ==
  ASSUME ClientInv, UNCHANGED <<bucket, load>>,
         request' = [r \in DOMAIN request' |-> request'[r]], IsFiniteSet(DOMAIN request'),
         \A r \in DOMAIN request' :
           /\ IsRequest(request'[r]) /\ request'[r].client \in Clients
           /\ request'[r].pc # "calling"
           /\ request'[r].pc = "waiting" => r \in DOMAIN request /\ request'[r] = request[r],
         \A r \in DOMAIN request :
           request[r].pc = "waiting" => r \in DOMAIN request' /\ request'[r] = request[r]
  PROVE  ClientInv'
<1>1. ASSUME NEW client \in Clients
      PROVE  Rated(client)'
  <2>1. Wakeable(client)' = Wakeable(client)
    BY DEF Wakeable
  <2>2. QED
    BY <2>1 DEF ClientInv, Rated
<1>2. ASSUME NEW r \in DOMAIN request'
      PROVE  Waits(request[r])'
  BY DEF ClientInv, Waits
<1>3. QED
  BY <1>1, <1>2 DEF ClientInv

LEMMA WakeIsRated ==
  ASSUME ClientInv, CallersKept, NEW r \in DOMAIN request, Wake(r)
  PROVE  ClientInv' /\ ClientsStay
<1>1. PICK t : t = request[r]
  OBVIOUS
<1>2. PICK d \in Clients : d = t.client
  BY <1>1 DEF ClientInv
<1>3. /\ IsRequest(t) /\ t.pc = "waiting" /\ t.wait = 0
      /\ bucket[d] \in {0, Parts[d]} /\ bucket[d] <= Parts[d]
  BY <1>1, <1>2, ClientNumbers DEF ClientInv, Wake, Waits, Rated
<1>4. PICK u : u = [t EXCEPT !.pc = "sent"]
  OBVIOUS
<1>5. IsRequest(u) /\ u.pc = "sent" /\ u.client = d
  BY <1>2, <1>3, <1>4 DEF IsRequest
<1>6. request' = [q \in DOMAIN request |-> IF q = r THEN u ELSE request[q]]
  BY <1>1, <1>4 DEF Wake, ClientInv
<1>7. /\ DOMAIN request' = DOMAIN request /\ request'[r] = u
      /\ \A q \in DOMAIN request : q # r => request'[q] = request[q]
      /\ request' = [q \in DOMAIN request' |-> request'[q]]
  BY <1>6
<1>8. /\ bucket' = [client \in Clients |->
                      IF client = d THEN Left(bucket[d], Parts[d]) ELSE bucket[client]]
      /\ load' = [client \in Clients |->
                    IF client = d THEN load[d] + Parts[d] ELSE load[client]]
  BY <1>1, <1>2 DEF Wake, ClientInv
<1>9. bucket'[d] = 0 /\ load'[d] = load[d] + Parts[d]
  BY <1>2, <1>3, <1>8, ClientNumbers DEF Left, MaxOf, ClientInv, Rated
<1>10. \A client \in Clients : client # d =>
         bucket'[client] = bucket[client] /\ load'[client] = load[client]
  BY <1>8
<1>11. /\ bucket' = [client \in Clients |-> bucket'[client]]
       /\ load' = [client \in Clients |-> load'[client]]
  BY <1>8
<1>12. Rated(d)'
  <2>1. Wakeable(d)' = Wakeable(d) \ {r} /\ r \in Wakeable(d)
    BY <1>1, <1>2, <1>3, <1>5, <1>7 DEF Wakeable
  <2>2. PICK z \in Nat : z = Cardinality(Wakeable(d)) /\ IsFiniteSet(Wakeable(d))
                         /\ z <= Callers[d]
    BY WakeablesAreLive, FS_CardinalityType, ClientNumbers DEF CallersKept
  <2>3. Cardinality(Wakeable(d)') = z - 1
    BY <2>1, <2>2, FS_RemoveElement
  <2>4. z >= 1
    BY <2>1, <2>2, FS_EmptySet
  <2>5. /\ bucket[d] \in Nat /\ load[d] \in Nat /\ Parts[d] \in Nat /\ Callers[d] \in Nat
        /\ Parts[d] >= 1 /\ Capacity[d] \in Nat
    BY ClientNumbers DEF ClientInv, Rated
  <2>6. PICK bound \in Int : bound = Parts[d] * (Capacity[d] + Callers[d] - 1)
    BY <2>5
  <2>7. Promised(load[d], z, Callers[d], Parts[d], bucket[d]) <= bound
    BY <2>2, <2>6 DEF ClientInv, Rated
  <2>8. PICK before \in Int : before = Promised(load[d], z, Callers[d], Parts[d], bucket[d])
    BY <2>5 DEF Promised, MinOf, MaxOf
  <2>9. PICK after \in Int :
          after = Promised(load[d] + Parts[d], z - 1, Callers[d], Parts[d], 0)
    BY <2>5 DEF Promised, MinOf, MaxOf
  <2>10. after <= before
    BY <1>3, <2>2, <2>4, <2>5, <2>8, <2>9, WakeKeepsPromise
  <2>11. after <= bound
    BY <2>7, <2>8, <2>10
  <2>12. Full(d) \in Nat
    BY <2>5 DEF Full
  <2>13. QED
    BY <1>9, <2>3, <2>5, <2>6, <2>9, <2>11, <2>12 DEF Rated, Full
<1>13. ASSUME NEW client \in Clients, client # d
       PROVE  Rated(client)'
  <2>1. Wakeable(client)' = Wakeable(client)
    BY <1>1, <1>2, <1>5, <1>7, <1>13 DEF Wakeable
  <2>2. QED
    BY <1>10, <1>13, <2>1 DEF ClientInv, Rated, Full
<1>14. ASSUME NEW q \in DOMAIN request'
       PROVE  Waits(request[q])'
  <2>1. CASE q = r
    BY <1>5, <1>7, <2>1 DEF Waits
  <2>2. CASE q # r /\ request[q].client # d
    BY <1>7, <1>10, <2>2 DEF ClientInv, Waits
  <2>3. CASE q # r /\ request[q].client = d
    <3>1. PICK v : v = request[q]
      OBVIOUS
    <3>2. request'[q] = v /\ v.client = d /\ Waits(v)
      BY <1>7, <2>3, <3>1 DEF ClientInv
    <3>3. v.pc = "waiting" => v.wait = 0 \/ v.wait = Parts[d] - bucket[d]
      BY <3>2 DEF Waits
    <3>4. v.pc = "waiting" => v.wait = 0 \/ v.wait = Parts[d]
      BY <1>3, <3>3, ClientNumbers
    <3>5. QED
      BY <1>9, <3>2, <3>4, ClientNumbers DEF Waits
  <2>4. QED
    BY <2>1, <2>2, <2>3
<1>15. ClientsStay
  BY <1>1, <1>2, <1>5, <1>7 DEF ClientsStay
<1>16. QED
  BY <1>2, <1>5, <1>7, <1>11, <1>12, <1>13, <1>14, <1>15 DEF ClientInv

LEMMA TickIsRated ==
  ASSUME ClientInv, Tick
  PROVE  ClientInv' /\ ClientsStay
<1>1. /\ bucket' = [client \in Clients |-> MinOf(Full(client), bucket[client] + 1)]
      /\ load' = [client \in Clients |-> MaxOf(0, load[client] - Callers[client])]
      /\ request' = [r \in DOMAIN request |->
                       [request[r] EXCEPT !.wait = MaxOf(0, @ - 1)]]
  BY DEF Tick, Refilled
<1>2. /\ bucket' = [client \in Clients |-> bucket'[client]]
      /\ load' = [client \in Clients |-> load'[client]]
      /\ DOMAIN request' = DOMAIN request
      /\ request' = [r \in DOMAIN request' |-> request'[r]]
  BY <1>1
<1>3. ASSUME NEW r \in DOMAIN request
      PROVE  /\ IsRequest(request[r])' /\ request'[r].client = request[r].client
             /\ request'[r].pc = request[r].pc
             /\ request'[r].wait = MaxOf(0, request[r].wait - 1)
  <2>1. PICK t : t = request[r]
    OBVIOUS
  <2>2. IsRequest(t)
    BY <2>1 DEF ClientInv
  <2>3. request'[r] = [t EXCEPT !.wait = MaxOf(0, t.wait - 1)]
    BY <1>1, <2>1
  <2>4. QED
    BY <2>1, <2>2, <2>3 DEF IsRequest
<1>4. ASSUME NEW r \in DOMAIN request, request[r].pc = "waiting"
      PROVE  LET client == request[r].client
             IN  /\ bucket[client] \in Nat /\ bucket[client] < Parts[client]
                 /\ bucket'[client] = bucket[client] + 1
                 /\ request'[r].wait = Parts[client] - bucket'[client]
  <2>1. PICK client \in Clients : client = request[r].client
    BY DEF ClientInv
  <2>2. request[r].wait > 0 /\ request[r].wait \in Nat
    BY <1>4 DEF Tick, ClientInv, Waits
  <2>3. request[r].wait = Parts[client] - bucket[client]
    BY <1>4, <2>1, <2>2 DEF ClientInv, Waits
  <2>4. /\ bucket[client] \in Nat /\ bucket[client] < Parts[client]
    BY <2>1, <2>2, <2>3, ClientNumbers DEF ClientInv, Rated
  <2>5. bucket[client] + 1 <= Full(client) /\ Full(client) \in Nat
    <3>1. Capacity[client] \in Nat /\ Parts[client] \in Nat /\ Capacity[client] >= 1
      BY ClientNumbers
    <3>2. 1 * Parts[client] <= Capacity[client] * Parts[client]
      BY <3>1, Products
    <3>3. Capacity[client] * Parts[client] \in Nat
      BY <3>1, Products
    <3>4. QED
      BY <2>4, <3>1, <3>2, <3>3 DEF Full
  <2>6. bucket'[client] = bucket[client] + 1
    <3>1. bucket'[client] = MinOf(Full(client), bucket[client] + 1)
      BY <1>1
    <3>2. MinOf(Full(client), bucket[client] + 1) = bucket[client] + 1
      BY <2>4, <2>5 DEF MinOf
    <3>3. QED
      BY <3>1, <3>2
  <2>7. request'[r].wait = request[r].wait - 1
    BY <1>3, <2>2 DEF MaxOf
  <2>8. QED
    BY <2>1, <2>3, <2>4, <2>6, <2>7, ClientNumbers
<1>5. ASSUME NEW r \in DOMAIN request'
      PROVE  Waits(request[r])'
  <2>1. CASE request[r].pc = "waiting"
    <3>1. PICK client \in Clients : client = request[r].client
      BY <1>2 DEF ClientInv
    <3>2. /\ request'[r].wait = Parts[client] - bucket'[client]
          /\ bucket'[client] \in Nat /\ bucket'[client] <= Parts[client]
      BY <1>2, <1>4, <2>1, <3>1, ClientNumbers
    <3>3. request'[r].wait \in Nat
      BY <3>2, ClientNumbers
    <3>4. QED
      BY <1>2, <1>3, <3>1, <3>2, <3>3 DEF Waits
  <2>2. CASE request[r].pc # "waiting"
    BY <1>2, <1>3, <2>2 DEF Waits
  <2>3. QED
    BY <2>1, <2>2
<1>6. ASSUME NEW client \in Clients
      PROVE  Rated(client)'
  <2>1. /\ bucket[client] \in Nat /\ bucket[client] <= Full(client) /\ load[client] \in Nat
        /\ Parts[client] \in Nat /\ Parts[client] >= 1
        /\ Capacity[client] \in Nat /\ Capacity[client] >= 1
        /\ Callers[client] \in Nat /\ Callers[client] >= 1
        /\ Full(client) = Capacity[client] * Parts[client] /\ Full(client) \in Nat
    BY ClientNumbers, Products DEF ClientInv, Rated, Full
  <2>2. Wakeable(client) = {}
    <3>1. ASSUME NEW r \in Wakeable(client)
          PROVE  FALSE
      BY DEF Wakeable, Tick
    <3>2. QED
      BY <3>1
  <2>3. Cardinality(Wakeable(client)) = 0
    BY <2>2, FS_EmptySet
  <2>4. PICK z \in Nat : z = Cardinality(Wakeable(client)')
    <3>1. Wakeable(client)' \subseteq DOMAIN request
      BY <1>2 DEF Wakeable
    <3>2. QED
      BY <3>1, FS_Subset, FS_CardinalityType DEF ClientInv
  <2>5. bucket[client] + 1 < Parts[client] => z = 0
    <3>1. ASSUME bucket[client] + 1 < Parts[client], NEW r \in Wakeable(client)'
          PROVE  FALSE
      <4>1. r \in DOMAIN request /\ request[r].pc = "waiting" /\ request[r].client = client
        BY <1>2, <1>3 DEF Wakeable
      <4>2. request'[r].wait = Parts[client] - (bucket[client] + 1)
        BY <1>4, <4>1
      <4>3. request'[r].wait = 0
        BY DEF Wakeable
      <4>4. QED
        BY <2>1, <3>1, <4>2, <4>3
    <3>2. ASSUME bucket[client] + 1 < Parts[client]
          PROVE  Wakeable(client)' = {}
      BY <3>1, <3>2
    <3>3. QED
      BY <2>4, <3>2, FS_EmptySet
  <2>6. Promised(load[client], 0, Callers[client], Parts[client], bucket[client])
          <= Parts[client] * (Capacity[client] + Callers[client] - 1)
    BY <2>3 DEF ClientInv, Rated
  <2>7. Promised(MaxOf(0, load[client] - Callers[client]), z, Callers[client], Parts[client],
                 MinOf(Capacity[client] * Parts[client], bucket[client] + 1))
          <= Parts[client] * (Capacity[client] + Callers[client] - 1)
    BY <2>1, <2>5, <2>6, TickKeepsPromise
  <2>8. /\ bucket'[client] = MinOf(Capacity[client] * Parts[client], bucket[client] + 1)
        /\ load'[client] = MaxOf(0, load[client] - Callers[client])
    BY <1>1, <2>1
  <2>9. bucket'[client] \in Nat /\ bucket'[client] <= Full(client) /\ load'[client] \in Nat
    BY <2>1, <2>8 DEF MinOf, MaxOf
  <2>10. QED
    BY <2>4, <2>7, <2>8, <2>9 DEF Rated, Full
<1>7. QED
  BY <1>2, <1>3, <1>5, <1>6 DEF ClientInv, ClientsStay

LEMMA Division ==
  ASSUME NEW b \in Nat, NEW p \in Nat, p >= 1
  PROVE  /\ b \div p \in Nat /\ b % p \in Nat /\ b % p < p
         /\ b = p * (b \div p) + (b % p)
OBVIOUS

\* Calls made in one turn.
Made(calls, asking) ==
  /\ asking = [r \in DOMAIN asking |-> asking[r]] /\ IsFiniteSet(DOMAIN asking)
  /\ IsFiniteSet(DOMAIN calls)
  /\ \A i \in DOMAIN calls : calls[i] \in DOMAIN asking /\ asking[calls[i]].pc = "calling"
  /\ \A r \in DOMAIN asking :
       /\ IsRequest(asking[r]) /\ asking[r].client \in Clients
       /\ asking[r].pc = "calling" => \E i \in DOMAIN calls : calls[i] = r
       /\ asking[r].pc = "waiting" => r \in DOMAIN request /\ asking[r] = request[r]
  /\ \A r \in DOMAIN request :
       request[r].pc = "waiting" => r \in DOMAIN asking /\ asking[r] = request[r]

LEMMA TokensTaken ==
  ASSUME ClientInv, NEW calls, NEW asking, Made(calls, asking), NEW client \in Clients
  PROVE  LET s == Served(calls, asking, client)
             b == bucket[client]
             p == Parts[client]
         IN  /\ s \in Nat /\ p * s \in Nat /\ p * s <= b
             /\ s >= 1 => On(calls, asking, client) # {}
             /\ s >= 1 => b >= p
             /\ s >= 1 /\ b = p => p * s = p
             /\ \A r \in DOMAIN asking :
                  /\ asking[r].pc = "calling" /\ asking[r].client = client
                  /\ ~IsServed(r, calls, asking)
                  => b - p * s = b % p
<1>1. PICK on : on = On(calls, asking, client) /\ IsFiniteSet(on)
  <2>1. On(calls, asking, client) \subseteq DOMAIN calls
    BY DEF On
  <2>2. QED
    BY <2>1, FS_Subset DEF Made
<1>2. PICK k \in Nat : k = Cardinality(on)
  BY <1>1, FS_CardinalityType
<1>3. PICK b \in Nat, p \in Nat : b = bucket[client] /\ p = Parts[client] /\ p >= 1
  BY ClientNumbers DEF ClientInv, Rated
<1>4. PICK w \in Nat, m \in Nat : w = b \div p /\ m = b % p /\ m < p /\ b = p * w + m
  BY <1>3, Division
<1>5. WholeTokens(client) = w
  BY <1>3, <1>4 DEF WholeTokens
<1>6. PICK s \in Nat : s = Served(calls, asking, client) /\ s <= k /\ s <= w /\ (w <= k => s = w)
  BY <1>1, <1>2, <1>5 DEF Served, MinOf
<1>7. PICK x \in Nat, y \in Nat : x = p * s /\ y = p * w /\ x <= y
  <2>1. s * p <= w * p /\ s * p \in Nat /\ w * p \in Nat
    BY <1>3, <1>6, Products
  <2>2. QED
    BY <2>1
<1>8. x <= b
  BY <1>4, <1>7
<1>9. s >= 1 => on # {}
  BY <1>1, <1>2, <1>6, FS_EmptySet
<1>10. s >= 1 => x >= p
  <2>1. ASSUME s >= 1
        PROVE  1 * p <= s * p
    BY <1>3, <1>6, <2>1, Products
  <2>2. QED
    BY <2>1, <1>7
<1>11. ASSUME NEW r \in DOMAIN asking, asking[r].pc = "calling", asking[r].client = client,
              ~IsServed(r, calls, asking)
       PROVE  b - x = m
  <2>1. PICK i \in on : calls[i] = r
    BY <1>1, <1>11 DEF Made, On
  <2>2. PICK before : before = {j \in on : j < i} /\ before \subseteq on
    OBVIOUS
  <2>3. IsFiniteSet(before) /\ Cardinality(before) \in Nat /\ Cardinality(before) <= k
    BY <1>1, <1>2, <2>2, FS_Subset, FS_CardinalityType
  <2>4. ~(Cardinality(before) < w)
    BY <1>1, <1>5, <1>11, <2>1, <2>2 DEF IsServed
  <2>5. s = w
    BY <1>6, <2>3, <2>4
  <2>6. QED
    BY <1>4, <1>7, <2>5
<1>12. /\ s \in Nat /\ x \in Nat /\ x <= b
       /\ s >= 1 => on # {}
       /\ s >= 1 => b >= p
       /\ s >= 1 /\ b = p => x = p
       /\ \A r \in DOMAIN asking :
            /\ asking[r].pc = "calling" /\ asking[r].client = client
            /\ ~IsServed(r, calls, asking)
            => b - x = m
  BY <1>8, <1>9, <1>10, <1>11
<1>13. /\ s = Served(calls, asking, client) /\ on = On(calls, asking, client)
       /\ b = bucket[client] /\ p = Parts[client] /\ x = p * s /\ m = b % p
  BY <1>1, <1>3, <1>4, <1>6, <1>7
<1>14. QED
  BY <1>12, <1>13, Zenon

LEMMA AdmittedRequests ==
  ASSUME ClientInv, NEW calls, NEW asking, Made(calls, asking), NEW r \in DOMAIN asking
  PROVE  LET t == asking[r]
             u == Admitted(r, calls, asking)
         IN  /\ t.pc # "calling" => u = t
             /\ t.pc = "calling" =>
                  /\ IsRequest(u) /\ u.client = t.client
                  /\ \/ u.pc = "sent"
                     \/ /\ u.pc = "waiting" /\ ~IsServed(r, calls, asking)
                        /\ u.wait = Parts[t.client] - (bucket[t.client] % Parts[t.client])
<1>1. PICK t : t = asking[r] /\ IsRequest(t)
  BY DEF Made
<1>2. PICK w : w = Parts[t.client] - (bucket[t.client] % Parts[t.client])
  OBVIOUS
<1>3. PICK sent : sent = [t EXCEPT !.pc = "sent"]
  OBVIOUS
<1>4. IsRequest(sent) /\ sent.client = t.client /\ sent.pc = "sent"
  BY <1>1, <1>3 DEF IsRequest
<1>5. PICK waiting : waiting = [t EXCEPT !.pc = "waiting", !.wait = w]
  OBVIOUS
<1>6. IsRequest(waiting) /\ waiting.client = t.client /\ waiting.pc = "waiting"
      /\ waiting.wait = w
  BY <1>1, <1>5 DEF IsRequest
<1>7. Admitted(r, calls, asking) =
        IF t.pc # "calling" THEN t
        ELSE IF IsServed(r, calls, asking) THEN sent ELSE waiting
  BY <1>1, <1>2, <1>3, <1>5 DEF Admitted
<1>8. QED
  BY <1>1, <1>2, <1>4, <1>6, <1>7

LEMMA AcquireKeepsClients ==
  ASSUME ClientInv, NEW calls, NEW asking, Made(calls, asking), Acquire(calls, asking)
  PROVE  /\ DOMAIN request' = DOMAIN asking
         /\ \A r \in DOMAIN asking : request'[r].client = asking[r].client
<1>1. request' = [r \in DOMAIN asking |-> Admitted(r, calls, asking)]
  BY DEF Acquire
<1>2. QED
  BY <1>1, AdmittedRequests

LEMMA AcquireIsRated ==
  ASSUME ClientInv, CallersKept', NEW calls, NEW asking, Made(calls, asking),
         Acquire(calls, asking)
  PROVE  ClientInv'
<1>1. /\ request' = [r \in DOMAIN asking |-> Admitted(r, calls, asking)]
      /\ bucket' = [client \in Clients |->
                      bucket[client] - Parts[client] * Served(calls, asking, client)]
      /\ load' = [client \in Clients |->
                    load[client] + Parts[client] * Served(calls, asking, client)]
  BY DEF Acquire
<1>2. /\ bucket' = [client \in Clients |-> bucket'[client]]
      /\ load' = [client \in Clients |-> load'[client]]
      /\ DOMAIN request' = DOMAIN asking /\ IsFiniteSet(DOMAIN request')
      /\ request' = [r \in DOMAIN request' |-> request'[r]]
      /\ \A r \in DOMAIN asking : request'[r] = Admitted(r, calls, asking)
  BY <1>1 DEF Made
<1>3. ASSUME NEW r \in DOMAIN asking
      PROVE  /\ IsRequest(request'[r]) /\ request'[r].client = asking[r].client
             /\ request'[r].client \in Clients /\ request'[r].pc # "calling"
             /\ asking[r].pc # "calling" => request'[r] = asking[r]
  BY <1>2, AdmittedRequests DEF Made
<1>4. ASSUME NEW r \in DOMAIN asking, asking[r].pc = "calling",
             NEW client \in Clients, asking[r].client = client
      PROVE  /\ request'[r].pc \in {"sent", "waiting"}
             /\ request'[r].pc = "waiting" =>
                  /\ request'[r].wait = Parts[client] - bucket'[client]
                  /\ request'[r].wait \in Nat /\ request'[r].wait > 0
  <2>1. request'[r].pc \in {"sent", "waiting"}
    BY <1>2, <1>4, AdmittedRequests
  <2>2. ASSUME request'[r].pc = "waiting"
        PROVE  /\ request'[r].wait = Parts[client] - bucket'[client]
               /\ request'[r].wait \in Nat /\ request'[r].wait > 0
    <3>1. /\ ~IsServed(r, calls, asking)
          /\ request'[r].wait = Parts[client] - (bucket[client] % Parts[client])
      BY <1>2, <1>4, <2>2, AdmittedRequests
    <3>2. bucket'[client] = bucket[client] % Parts[client]
      BY <1>1, <1>4, <3>1, TokensTaken
    <3>3. /\ bucket[client] \in Nat /\ Parts[client] \in Nat /\ Parts[client] >= 1
      BY ClientNumbers DEF ClientInv, Rated
    <3>4. PICK m \in Nat : m = bucket[client] % Parts[client] /\ m < Parts[client]
      BY <3>3, Division
    <3>5. QED
      BY <3>1, <3>2, <3>3, <3>4
  <2>3. QED
    BY <2>1, <2>2
<1>5. ASSUME NEW r \in DOMAIN request'
      PROVE  Waits(request[r])'
  <2>1. PICK client \in Clients : client = asking[r].client
    BY <1>2 DEF Made
  <2>2. CASE asking[r].pc = "calling"
    BY <1>2, <1>3, <1>4, <2>1, <2>2 DEF Waits
  <2>3. CASE asking[r].pc # "calling" /\ asking[r].pc # "waiting"
    BY <1>2, <1>3, <2>3 DEF Waits
  <2>4. CASE asking[r].pc = "waiting"
    <3>1. PICK t : t = request[r]
      OBVIOUS
    <3>2. t = asking[r] /\ t = request'[r] /\ Waits(t)
      BY <1>2, <1>3, <2>4, <3>1 DEF Made, ClientInv
    <3>3. PICK b \in Nat, p \in Nat : b = bucket[client] /\ p = Parts[client] /\ p >= 1
      BY ClientNumbers DEF ClientInv, Rated
    <3>4. PICK s \in Nat, x \in Nat :
            /\ s = Served(calls, asking, client) /\ x = p * s /\ x <= b
            /\ s >= 1 => b >= p
            /\ s >= 1 /\ b = p => x = p
      BY <3>3, TokensTaken
    <3>5. t.wait \in Nat /\ (t.wait = p - b \/ (t.wait = 0 /\ b = 0))
      BY <2>1, <2>4, <3>2, <3>3 DEF Waits
    <3>6. bucket'[client] = b - x
      BY <1>1, <3>3, <3>4
    <3>7. CASE s = 0
      <4>1. bucket'[client] = b
        BY <3>3, <3>4, <3>6, <3>7
      <4>2. QED
        BY <2>1, <3>2, <3>3, <3>5, <4>1 DEF Waits
    <3>8. CASE s >= 1
      <4>1. b = p /\ t.wait = 0 /\ x = p
        BY <3>3, <3>4, <3>5, <3>8
      <4>2. bucket'[client] = 0
        BY <3>6, <4>1
      <4>3. QED
        BY <2>1, <3>2, <4>1, <4>2 DEF Waits
    <3>9. QED
      BY <3>4, <3>7, <3>8
  <2>5. QED
    BY <2>2, <2>3, <2>4
<1>6. ASSUME NEW client \in Clients
      PROVE  Wakeable(client)' = Wakeable(client)
  <2>1. ASSUME NEW r \in Wakeable(client)
        PROVE  r \in Wakeable(client)'
    <3>1. r \in DOMAIN asking /\ asking[r] = request[r] /\ request[r].pc = "waiting"
      BY DEF Wakeable, Made
    <3>2. request'[r] = request[r]
      BY <1>3, <3>1
    <3>3. QED
      BY <1>2, <3>1, <3>2 DEF Wakeable
  <2>2. ASSUME NEW r \in Wakeable(client)'
        PROVE  r \in Wakeable(client)
    <3>1. /\ r \in DOMAIN asking /\ request'[r].pc = "waiting" /\ request'[r].wait = 0
          /\ asking[r].client = client
      BY <1>2, <1>3 DEF Wakeable
    <3>2. asking[r].pc # "calling"
      BY <1>4, <3>1
    <3>3. r \in DOMAIN request /\ request'[r] = request[r]
      BY <1>3, <3>1, <3>2 DEF Made
    <3>4. QED
      BY <1>3, <3>1, <3>3 DEF Wakeable
  <2>3. QED
    BY <2>1, <2>2
<1>7. ASSUME NEW client \in Clients
      PROVE  Rated(client)'
  <2>1. PICK b \in Nat, p \in Nat, l \in Nat, n \in Nat :
          /\ b = bucket[client] /\ p = Parts[client] /\ l = load[client] /\ n = Callers[client]
          /\ p >= 1 /\ n >= 1
    BY ClientNumbers DEF ClientInv, Rated
  <2>2. PICK z \in Nat : z = Cardinality(Wakeable(client)) /\ IsFiniteSet(Wakeable(client))
    BY WakeablesAreLive
  <2>3. PICK s \in Nat, x \in Nat :
          /\ s = Served(calls, asking, client) /\ x = p * s /\ x <= b
          /\ s >= 1 => On(calls, asking, client) # {}
    BY <2>1, TokensTaken
  <2>4. bucket'[client] = b - x /\ load'[client] = l + x
    BY <1>1, <2>1, <2>3
  <2>5. PICK bound : bound = Parts[client] * (Capacity[client] + Callers[client] - 1)
                     /\ bound \in Int
    BY ClientNumbers
  <2>6. Promised(l, z, n, p, b) <= bound
    BY <2>1, <2>2, <2>5 DEF ClientInv, Rated
  <2>7. Promised(l + x, z, n, p, b - x) <= bound
    <3>1. CASE s = 0
      <4>1. x = 0
        BY <2>1, <2>3, <3>1
      <4>2. QED
        BY <2>1, <2>6, <4>1
    <3>2. CASE s >= 1
      <4>1. PICK i \in DOMAIN calls : asking[calls[i]].client = client
        BY <2>3, <3>2 DEF On
      <4>2. PICK r \in DOMAIN asking : r = calls[i] /\ asking[r].pc = "calling"
                                       /\ asking[r].client = client
        BY <4>1 DEF Made
      <4>3. r \in Live(client)' /\ r \notin Wakeable(client)'
        <5>1. r \in DOMAIN request' /\ request'[r].client = client
          BY <1>2, <1>3, <4>2
        <5>2. /\ request'[r].pc \in {"sent", "waiting"}
              /\ request'[r].pc = "waiting" => request'[r].wait > 0
          BY <1>4, <4>2
        <5>3. QED
          BY <5>1, <5>2 DEF Live, Wakeable, Over
      <4>4. Wakeable(client)' \cup {r} \subseteq Live(client)'
        BY <4>3 DEF Live, Wakeable, Over
      <4>5. IsFiniteSet(Live(client)')
        <5>1. Live(client)' \subseteq DOMAIN request'
          BY DEF Live
        <5>2. QED
          BY <1>2, <5>1, FS_Subset
      <4>6. /\ Cardinality(Wakeable(client) \cup {r}) <= Cardinality(Live(client)')
            /\ r \notin Wakeable(client)
        BY <1>6, <4>3, <4>4, <4>5, FS_Subset
      <4>7. Cardinality(Wakeable(client) \cup {r}) = z + 1
        BY <2>2, <4>6, FS_AddElement
      <4>8. Cardinality(Live(client)') <= n /\ Cardinality(Live(client)') \in Nat
        BY <2>1, <4>5, FS_CardinalityType DEF CallersKept
      <4>9. z + 1 <= n
        BY <4>6, <4>7, <4>8
      <4>10. Promised(l + x, z, n, p, b - x) <= Promised(l, z, n, p, b)
        BY <2>1, <2>3, <3>2, <4>9, ServeKeepsPromise
      <4>11. PICK before \in Int, after \in Int :
               before = Promised(l, z, n, p, b) /\ after = Promised(l + x, z, n, p, b - x)
        <5>1. PICK d \in Nat : d = b - x
          BY <2>3
        <5>2. Promised(l + x, z, n, p, d) \in Int /\ Promised(l, z, n, p, b) \in Int
          BY DEF Promised, MinOf, MaxOf
        <5>3. QED
          BY <5>1, <5>2
      <4>12. QED
        BY <2>5, <2>6, <4>10, <4>11
    <3>3. QED
      BY <2>3, <3>1, <3>2
  <2>8. /\ bucket'[client] \in Nat /\ bucket'[client] <= Full(client)
        /\ load'[client] \in Nat
    <3>1. b <= Full(client) /\ Full(client) \in Nat
      BY <2>1, ClientNumbers, Products DEF ClientInv, Rated, Full
    <3>2. PICK full \in Nat : full = Full(client) /\ b <= full
      BY <3>1
    <3>3. b - x \in Nat /\ b - x <= full
      BY <2>3, <3>2
    <3>4. QED
      BY <2>4, <3>2, <3>3
  <2>9. Cardinality(Wakeable(client)') = z
    BY <1>6, <2>2
  <2>10. QED
    BY <2>1, <2>4, <2>5, <2>7, <2>8, <2>9 DEF Rated, Full
<1>8. QED
  BY <1>2, <1>3, <1>5, <1>7 DEF ClientInv

\* One request changes that neither waits nor begins to wait.
LEMMA OneQuietStep ==
  ASSUME ClientInv, NEW r \in DOMAIN request, request[r].pc # "waiting", NEW u, IsRequest(u),
         u.client = request[r].client, u.pc \notin {"waiting", "calling"},
         request' = [request EXCEPT ![r] = u], UNCHANGED <<bucket, load>>
  PROVE  ClientInv' /\ ClientsStay
<1>1. request' = [q \in DOMAIN request |-> IF q = r THEN u ELSE request[q]]
  BY DEF ClientInv
<1>2. /\ DOMAIN request' = DOMAIN request /\ request'[r] = u
      /\ \A q \in DOMAIN request : q # r => request'[q] = request[q]
      /\ request' = [q \in DOMAIN request' |-> request'[q]]
  BY <1>1
<1>3. \A q \in DOMAIN request' :
        /\ IsRequest(request'[q]) /\ request'[q].client \in Clients
        /\ request'[q].pc # "calling"
        /\ request'[q].pc = "waiting" => q \in DOMAIN request /\ request'[q] = request[q]
  BY <1>2 DEF ClientInv
<1>4. \A q \in DOMAIN request :
        request[q].pc = "waiting" => q \in DOMAIN request' /\ request'[q] = request[q]
  BY <1>2
<1>5. IsFiniteSet(DOMAIN request')
  BY <1>2 DEF ClientInv
<1>6. ClientsStay
  BY <1>2 DEF ClientsStay
<1>7. QED
  BY <1>2, <1>3, <1>4, <1>5, <1>6, QuietSteps

LEMMA SucceedIsRated ==
  ASSUME ClientInv, NEW r \in DOMAIN request, NEW value, Succeed(r, value)
  PROVE  ClientInv' /\ ClientsStay
<1>1. PICK t : t = request[r] /\ IsRequest(t) /\ t.pc = "sent"
  BY DEF ClientInv, Succeed
<1>2. PICK more : more = Append(t.answers, "ok")
  OBVIOUS
<1>3. PICK u : u = [t EXCEPT !.pc = "done", !.value = value, !.answers = more]
  OBVIOUS
<1>4. IsRequest(u) /\ u.client = t.client /\ u.pc = "done"
  BY <1>1, <1>3 DEF IsRequest
<1>5. request' = [request EXCEPT ![r] = u] /\ UNCHANGED <<bucket, load>>
  BY <1>1, <1>2, <1>3 DEF Succeed
<1>6. QED
  BY <1>1, <1>4, <1>5, OneQuietStep

LEMMA DisappointIsRated ==
  ASSUME ClientInv, NEW r \in DOMAIN request, NEW fault, Disappoint(r, fault)
  PROVE  ClientInv' /\ ClientsStay
<1>1. PICK t : t = request[r] /\ IsRequest(t) /\ t.pc = "sent"
  BY DEF ClientInv, Disappoint
<1>2. PICK more : more = Append(t.answers, fault)
  OBVIOUS
<1>3. PICK wait : wait = RetryBase * 2 ^ t.attempt
  OBVIOUS
<1>4. PICK delayed : delayed = [t EXCEPT !.pc = "delayed", !.attempt = @ + 1, !.wait = wait,
                                         !.answers = more]
  OBVIOUS
<1>5. IsRequest(delayed) /\ delayed.client = t.client /\ delayed.pc = "delayed"
  BY <1>1, <1>4 DEF IsRequest
<1>6. PICK failed : failed = [t EXCEPT !.pc = "failed", !.answers = more]
  OBVIOUS
<1>7. IsRequest(failed) /\ failed.client = t.client /\ failed.pc = "failed"
  BY <1>1, <1>6 DEF IsRequest
<1>8. PICK u \in {delayed, failed} : request' = [request EXCEPT ![r] = u]
  BY <1>1, <1>2, <1>3, <1>4, <1>6 DEF Disappoint
<1>9. UNCHANGED <<bucket, load>>
  BY DEF Disappoint
<1>10. QED
  BY <1>1, <1>5, <1>7, <1>8, <1>9, OneQuietStep

LEMMA RetryIsMade ==
  ASSUME ClientInv, NEW r \in DOMAIN request, Retry(r)
  PROVE  \E asking : /\ Made(<<r>>, asking) /\ Acquire(<<r>>, asking)
                     /\ DOMAIN asking = DOMAIN request
                     /\ \A q \in DOMAIN request : asking[q].client = request[q].client
<1>1. PICK t : t = request[r] /\ IsRequest(t) /\ t.pc = "delayed"
  BY DEF ClientInv, Retry
<1>2. PICK u : u = [t EXCEPT !.pc = "calling"]
  OBVIOUS
<1>3. IsRequest(u) /\ u.client = t.client /\ u.pc = "calling"
  BY <1>1, <1>2 DEF IsRequest
<1>4. PICK asking : asking = [q \in DOMAIN request |-> IF q = r THEN u ELSE request[q]]
  OBVIOUS
<1>5. Acquire(<<r>>, asking)
  <2>1. asking = [request EXCEPT ![r].pc = "calling"]
    BY <1>1, <1>2, <1>4 DEF ClientInv
  <2>2. QED
    BY <2>1 DEF Retry
<1>6. /\ DOMAIN asking = DOMAIN request /\ asking[r] = u
      /\ \A q \in DOMAIN request : q # r => asking[q] = request[q]
      /\ asking = [q \in DOMAIN asking |-> asking[q]]
  BY <1>4
<1>7. Made(<<r>>, asking)
  <2>1. \A q \in DOMAIN asking :
          /\ IsRequest(asking[q]) /\ asking[q].client \in Clients
          /\ asking[q].pc = "calling" => q = r
          /\ asking[q].pc = "waiting" => q \in DOMAIN request /\ asking[q] = request[q]
    BY <1>1, <1>3, <1>6 DEF ClientInv
  <2>2. \A q \in DOMAIN request :
          request[q].pc = "waiting" => q \in DOMAIN asking /\ asking[q] = request[q]
    BY <1>1, <1>6
  <2>3. IsFiniteSet(DOMAIN asking)
    BY <1>6 DEF ClientInv
  <2>4. QED
    BY <1>3, <1>6, <2>1, <2>2, <2>3, OneCall DEF Made
<1>8. QED
  BY <1>1, <1>3, <1>5, <1>6, <1>7

-----------------------------------------------------------------------------
\* How many requests a client has at a time: those of one round, and what a
\* failed governance phase has left.
ScriptCallers ==
  Callers["tronscan"] >= 3 /\ Callers["trongrid"] >= MaxOf(2, MaxStakers) + 2

LEMMA FewAreCounted ==
  ASSUME NEW S, NEW a, NEW b, NEW c, S \subseteq {a, b, c}
  PROVE  /\ IsFiniteSet(S) /\ Cardinality(S) \in Nat /\ Cardinality(S) <= 3
         /\ S \subseteq {a, b} => Cardinality(S) <= 2
<1>1. IsFiniteSet({a}) /\ Cardinality({a}) = 1
  BY FS_Singleton
<1>2. IsFiniteSet({a, b}) /\ Cardinality({a, b}) \in Nat /\ Cardinality({a, b}) <= 2
  <2>1. {a, b} = {a} \cup {b}
    OBVIOUS
  <2>2. CASE b \in {a}
    BY <1>1, <2>1, <2>2, FS_AddElement
  <2>3. CASE b \notin {a}
    BY <1>1, <2>1, <2>3, FS_AddElement
  <2>4. QED
    BY <2>2, <2>3
<1>3. IsFiniteSet({a, b, c}) /\ Cardinality({a, b, c}) \in Nat /\ Cardinality({a, b, c}) <= 3
  <2>1. {a, b, c} = {a, b} \cup {c}
    OBVIOUS
  <2>2. CASE c \in {a, b}
    BY <1>2, <2>1, <2>2, FS_AddElement
  <2>3. CASE c \notin {a, b}
    BY <1>2, <2>1, <2>3, FS_AddElement
  <2>4. QED
    BY <2>2, <2>3
<1>4. IsFiniteSet(S) /\ Cardinality(S) \in Nat /\ Cardinality(S) <= 3
  BY <1>3, FS_Subset, FS_CardinalityType
<1>5. ASSUME S \subseteq {a, b}
      PROVE  Cardinality(S) <= 2
  BY <1>2, <1>4, <1>5, FS_Subset
<1>6. QED
  BY <1>4, <1>5

LEMMA TronscanRequests ==
  ASSUME NEW i, NEW S,
         \A r \in S : Known(r) /\ Level(r) = i /\ ClientOf(r) = "tronscan"
  PROVE  \E a, b, c : S \subseteq {a, b, c}
<1>1. CASE Phase = "rental"
  <2>1. ASSUME NEW r \in S
        PROVE  r \in {Id("outgoing", i), Id("incoming", i), Id("balance", i)}
    <3>1. r.phase = Phase
      BY IdIsRequest DEF Known
    <3>2. r = Id(r.asks, i)
      BY <1>1, <3>1 DEF Known, Level
    <3>3. r.asks \in {"outgoing", "incoming", "balance"}
      BY <1>1 DEF Known, ClientOf
    <3>4. QED
      BY <3>2, <3>3
  <2>2. QED
    BY <2>1
<1>2. CASE Phase = "trc20"
  <2>1. ASSUME NEW r \in S
        PROVE  r \in {Id("tokens", 1), Id("tokenHolders", i - 1)}
    <3>1. r.phase = Phase
      BY IdIsRequest DEF Known
    <3>2. CASE r.asks = "tokens"
      BY <1>2, <3>2 DEF Known
    <3>3. CASE r.asks = "tokenHolders"
      <4>1. r.n \in Nat /\ i = 1 + r.n
        BY <1>2, <3>1, <3>3 DEF Known, Level
      <4>2. r.n = i - 1
        BY <4>1
      <4>3. QED
        BY <3>3, <4>2 DEF Known
    <3>4. QED
      BY <1>2, <3>2, <3>3 DEF Known
  <2>2. QED
    BY <2>1
<1>3. CASE Phase \notin {"rental", "trc20"}
  <2>1. ASSUME NEW r \in S
        PROVE  r \in {Id("holders", 1), Id("stakers", 1)}
    <3>1. ~(r \in GovernanceRequests)
      BY DEF GovernanceRequests, ClientOf
    <3>2. r.asks \in {"holders", "stakers"} /\ r.n = 1
      BY <1>3, <3>1 DEF Known, ClientOf
    <3>3. QED
      BY <3>2 DEF Known
  <2>2. QED
    BY <2>1
<1>4. QED
  BY <1>1, <1>2, <1>3

LEMMA TrongridRequests ==
  ASSUME Phase # "governance", Stakers \in Nat, NEW i, NEW S,
         \A r \in S : Known(r) /\ Level(r) = i /\ ClientOf(r) = "trongrid"
  PROVE  \/ \E a, b : S \subseteq {a, b}
         \/ S \subseteq {Id("resource", j) : j \in 1 .. Stakers}
<1>1. CASE Phase = "rental"
  <2>1. ASSUME NEW r \in S
        PROVE  r \in {Id("delegation", i), Id("resource", i)}
    <3>1. r.phase = Phase
      BY IdIsRequest DEF Known
    <3>2. r = Id(r.asks, i)
      BY <1>1, <3>1 DEF Known, Level
    <3>3. r.asks \in {"delegation", "resource"}
      BY <1>1 DEF Known, ClientOf
    <3>4. QED
      BY <3>2, <3>3
  <2>2. QED
    BY <2>1
<1>2. CASE Phase = "resources" /\ i = 2
  <2>1. ASSUME NEW r \in S
        PROVE  r \in {Id("resource", j) : j \in 1 .. Stakers}
    <3>1. r.phase = Phase
      BY IdIsRequest DEF Known
    <3>2. r.asks # "delegation"
      <4>1. ASSUME r.asks = "delegation"
            PROVE  FALSE
        <5>1. r.n \in 1 .. Stakers /\ i = 2 + r.n
          BY <1>2, <3>1, <4>1 DEF Known, Level
        <5>2. QED
          BY <1>2, <5>1
      <4>2. QED
        BY <4>1
    <3>3. r.asks = "resource" /\ r.n \in 1 .. Stakers
      BY <1>2, <3>2 DEF Known, ClientOf
    <3>4. QED
      BY <3>3 DEF Known
  <2>2. QED
    BY <2>1
<1>3. CASE Phase = "resources" /\ i # 2
  <2>1. ASSUME NEW r \in S
        PROVE  r = Id("delegation", i - 2)
    <3>1. r.phase = Phase
      BY IdIsRequest DEF Known
    <3>2. r.asks # "resource"
      BY <1>3, <3>1 DEF Level
    <3>3. r.asks = "delegation" /\ r.n \in 1 .. Stakers
      BY <1>3, <3>2 DEF Known, ClientOf
    <3>4. i = 2 + r.n
      BY <1>3, <3>1, <3>3 DEF Level
    <3>5. r.n = i - 2
      BY <3>3, <3>4
    <3>6. QED
      BY <3>3, <3>5 DEF Known
  <2>2. QED
    BY <2>1
<1>4. CASE Phase \notin {"rental", "resources"}
  <2>1. ASSUME NEW r \in S
        PROVE  r = Id("chainParameters", 1)
    <3>1. r.asks = "chainParameters" /\ r.n = 1
      BY <1>4 DEF Known, ClientOf
    <3>2. QED
      BY <3>1 DEF Known
  <2>2. QED
    BY <2>1
<1>5. QED
  BY <1>1, <1>2, <1>3, <1>4

LEMMA ResourcesAreCounted ==
  ASSUME NEW n \in Nat, NEW S, S \subseteq {Id("resource", j) : j \in 1 .. n}
  PROVE  IsFiniteSet(S) /\ Cardinality(S) \in Nat /\ Cardinality(S) <= n
<1>1. PICK f : f = [j \in 1 .. n |-> Id("resource", j)]
  OBVIOUS
<1>2. PICK T : T = {Id("resource", j) : j \in 1 .. n}
  OBVIOUS
<1>3. f \in Surjection(1 .. n, T)
  BY <1>1, <1>2 DEF Surjection
<1>4. IsFiniteSet(1 .. n) /\ Cardinality(1 .. n) = n
  BY FS_Interval
<1>5. IsFiniteSet(T) /\ Cardinality(T) <= n /\ Cardinality(T) \in Nat
  BY <1>3, <1>4, FS_Surjection, FS_CardinalityType
<1>6. QED
  BY <1>2, <1>5, FS_Subset, FS_CardinalityType

LEMMA CallersAreCounted ==
  ASSUME ScriptCallers, RequestInv, StoreInv, Shape, RoundsKnown, TurnInv,
         NEW client \in Clients, IsFiniteSet(Live(client))
  PROVE  Cardinality(Live(client)) <= Callers[client]
<1>1. PICK left : left = {r \in Live(client) : LeftOver(r)}
  OBVIOUS
<1>2. PICK here : here = {r \in Live(client) : doing = "collect" /\ InRound(Level(r), r)}
  OBVIOUS
<1>3. /\ Live(client) = left \cup here /\ IsFiniteSet(left) /\ IsFiniteSet(here)
      /\ Cardinality(left) \in Nat /\ Cardinality(here) \in Nat
  <2>1. Live(client) = left \cup here
    BY <1>1, <1>2 DEF Live, TurnInv, InPlace
  <2>2. left \subseteq Live(client) /\ here \subseteq Live(client)
    BY <1>1, <1>2
  <2>3. QED
    BY <2>1, <2>2, FS_Subset, FS_CardinalityType
<1>4. /\ Cardinality(Live(client)) \in Nat
      /\ Cardinality(Live(client)) <= Cardinality(left) + Cardinality(here)
      /\ left = {} => Live(client) = here
  <2>1. Cardinality(left \cup here)
          = Cardinality(left) + Cardinality(here) - Cardinality(left \cap here)
    BY <1>3, FS_Union
  <2>2. IsFiniteSet(left \cap here) /\ Cardinality(left \cap here) \in Nat
    <3>1. left \cap here \subseteq left
      OBVIOUS
    <3>2. QED
      BY <1>3, <3>1, FS_Subset, FS_CardinalityType
  <2>3. Cardinality(Live(client)) \in Nat
    BY FS_CardinalityType
  <2>4. QED
    BY <1>3, <2>1, <2>2, <2>3
<1>5. \A r \in Live(client) : r \in DOMAIN request /\ ~Over(r) /\ client = ClientOf(r)
  BY DEF Live, RequestInv
<1>6. \A r \in here : InRound(Level(r), r) /\ Known(r)
  BY <1>2 DEF RoundsKnown, InRound
<1>7. \A q \in here, r \in here : Level(q) = Level(r)
  <2>1. ASSUME NEW q \in here, NEW r \in here, Level(q) < Level(r)
        PROVE  FALSE
    <3>1. /\ q \in DOMAIN request /\ ~Over(q) /\ r \in DOMAIN request /\ doing = "collect"
          /\ InRound(Level(q), q) /\ InRound(Level(r), r)
      BY <1>2, <1>5
    <3>2. Answered(Rounds[Level(q)])
      BY <2>1, <3>1 DEF TurnInv, Ordered, InRound
    <3>3. QED
      BY <3>1, <3>2 DEF Answered, Settled, InRound
  <2>2. \A q \in here : Level(q) \in Int
    <3>1. PICK k \in Nat : DOMAIN Rounds = 1 .. k
      BY DEF Shape, Levelled
    <3>2. QED
      BY <1>6, <3>1 DEF InRound
  <2>3. QED
    BY <2>1, <2>2
<1>8. PICK i : \A r \in here : Level(r) = i
  <2>1. CASE here = {}
    BY <2>1
  <2>2. ASSUME NEW q \in here
        PROVE  \E i : \A r \in here : Level(r) = i
    BY <1>7
  <2>3. QED
    BY <2>1, <2>2
<1>9. \A r \in left : ClientOf(r) = "trongrid" /\ client = "trongrid"
  <2>1. \A r \in GovernanceRequests : ClientOf(r) = "trongrid"
    BY DEF GovernanceRequests, ClientOf
  <2>2. QED
    BY <1>1, <1>5, <2>1 DEF LeftOver
<1>10. Cardinality(left) <= 2
  <2>1. CASE step > 2
    <3>1. PICK g \in GovernanceRequests : g \notin DOMAIN request
      BY <2>1 DEF TurnInv, Missing
    <3>2. left \subseteq GovernanceRequests \ {g}
      BY <1>1, <1>5, <3>1 DEF LeftOver
    <3>3. QED
      BY <3>2, TwoAreLeft
  <2>2. CASE ~(step > 2)
    <3>1. left = {}
      BY <1>1, <2>2 DEF LeftOver
    <3>2. QED
      BY <3>1, FS_EmptySet
  <2>3. QED
    BY <2>1, <2>2
<1>11. CASE client = "tronscan"
  <2>1. left = {}
    BY <1>9, <1>11
  <2>2. \A r \in here : Known(r) /\ Level(r) = i /\ ClientOf(r) = "tronscan"
    BY <1>2, <1>5, <1>6, <1>8, <1>11
  <2>3. PICK a, b, c : here \subseteq {a, b, c}
    BY <2>2, TronscanRequests
  <2>4. Cardinality(here) <= 3
    BY <2>3, FewAreCounted
  <2>5. QED
    BY <1>3, <1>4, <1>11, <2>1, <2>4, ClientNumbers DEF ScriptCallers
<1>12. CASE client = "trongrid"
  <2>1. \A r \in here : Known(r) /\ Level(r) = i /\ ClientOf(r) = "trongrid"
    BY <1>2, <1>5, <1>6, <1>8, <1>12
  <2>2. PICK m \in Nat, n \in Nat :
          m = MaxStakers /\ n = Callers["trongrid"] /\ n >= MaxOf(2, m) + 2
    BY <1>12, ScriptAssumption, ClientNumbers DEF ScriptCallers
  <2>3. m + 2 <= n /\ 4 <= n
    BY <2>2 DEF MaxOf
  <2>4. CASE Phase = "governance"
    <3>1. left = {}
      BY <1>1, <2>4 DEF Shape, LeftOver
    <3>2. here \subseteq GovernanceRequests
      BY <1>6, <2>4, GovernanceLevels
    <3>3. PICK a, b, c : GovernanceRequests = {a, b, c}
      <4> DEFINE of(asks) == [phase |-> "governance", asks |-> asks, n |-> 1]
      <4>1. GovernanceRequests = {of("witnesses"), of("proposals"), of("chainParameters")}
        BY DEF GovernanceRequests
      <4> HIDE DEF of
      <4>2. QED
        BY <4>1
    <3>4. Cardinality(here) <= 3
      BY <3>2, <3>3, FewAreCounted
    <3>5. QED
      BY <1>3, <1>4, <1>12, <2>2, <2>3, <3>1, <3>4
  <2>5. CASE Phase # "governance"
    <3>1. Stakers \in Nat /\ Stakers <= m
      BY <2>2, CountOfAnswer, LeastIsCount DEF Stakers, MinOf
    <3>2. \/ \E a, b : here \subseteq {a, b}
          \/ here \subseteq {Id("resource", j) : j \in 1 .. Stakers}
      BY <2>1, <2>5, <3>1, TrongridRequests
    <3>3. Cardinality(here) <= 2 \/ Cardinality(here) <= m
      <4>1. ASSUME NEW a, NEW b, here \subseteq {a, b}
            PROVE  Cardinality(here) <= 2
        BY <4>1, FewAreCounted
      <4>2. ASSUME here \subseteq {Id("resource", j) : j \in 1 .. Stakers}
            PROVE  Cardinality(here) <= m
        BY <1>3, <3>1, <4>2, ResourcesAreCounted
      <4>3. QED
        BY <3>2, <4>1, <4>2
    <3>4. QED
      BY <1>3, <1>4, <1>10, <1>12, <2>2, <2>3, <3>3
  <2>6. QED
    BY <2>4, <2>5
<1>13. CASE client \notin {"tronscan", "trongrid"}
  <2>1. Live(client) = {}
    BY <1>5, <1>13 DEF ClientOf
  <2>2. QED
    BY <2>1, FS_EmptySet, ClientNumbers
<1>14. QED
  BY <1>11, <1>12, <1>13

LEMMA RangeIsFinite ==
  ASSUME NEW round, IsFiniteSet(DOMAIN round)
  PROVE  IsFiniteSet(Range(round))
<1>1. PICK f : f = [i \in DOMAIN round |-> round[i]]
  OBVIOUS
<1>2. f \in Surjection(DOMAIN round, Range(round))
  BY <1>1 DEF Surjection, Range
<1>3. QED
  BY <1>2, FS_Surjection

FiniteRequests == IsFiniteSet(DOMAIN request)

LEMMA RequestsStayFinite ==
  RequestInv /\ RoundsKnown /\ FiniteRequests /\ [Next]_vars => FiniteRequests'
<1> SUFFICES ASSUME RequestInv, RoundsKnown, IsFiniteSet(DOMAIN request), [Next]_vars
             PROVE  IsFiniteSet(DOMAIN request')
  BY DEF FiniteRequests
<1>1. CASE StartRound
  <2>1. PICK j \in DOMAIN Rounds : Acquire(Rounds[j], WithRound(Rounds[j]))
    BY <1>1 DEF StartRound, Due
  <2>2. DOMAIN request' = DOMAIN request \cup Range(Rounds[j])
    BY <2>1, RoundTurns
  <2>3. IsFiniteSet(Range(Rounds[j]))
    BY RangeIsFinite DEF RoundsKnown
  <2>4. QED
    BY <2>2, <2>3, FS_Union
<1>2. CASE IngestNetwork \/ IngestTrc20 \/ IngestOther \/ Analyze \/ Skip
  <2>1. Forget
    BY <1>2 DEF IngestNetwork, IngestTrc20, IngestOther, Analyze, Skip
  <2>2. DOMAIN request' \subseteq DOMAIN request
    BY <2>1, ForgetTurnsNone
  <2>3. QED
    BY <2>2, FS_Subset
<1>3. CASE InsertChunk \/ Persisted \/ EndPhase \/ FailChunk
  BY <1>3 DEF InsertChunk, Persisted, EndPhase, FailChunk, clientVars
<1>4. ASSUME NEW r \in DOMAIN request, RequestStep(r) \/ \E f \in Faults : Disappoint(r, f)
      PROVE  IsFiniteSet(DOMAIN request')
  BY <1>4, RequestTurns DEF Turned
<1>5. CASE Tick
  BY <1>5, TickTurnsNone
<1>6. CASE UNCHANGED vars
  BY <1>6 DEF vars, clientVars
<1>7. QED
  BY <1>1, <1>2, <1>3, <1>4, <1>5, <1>6 DEF Next, ScriptStep

\* The script keeps the bound on the requests of a client that RateIsPerCaller
\* takes: three of tronscan; of trongrid a round, and two that governance left.
THEOREM CallersAreKept == ASSUME ScriptCallers PROVE Spec => []CallersKept
<1>1. Init => FiniteRequests
  BY FS_EmptySet DEF Init, ClientInit, FiniteRequests
<1>2. RequestInv /\ StoreInv => RoundsKnown
  BY RoundsAreLevelled DEF StoreInv
<1>3. RequestInv /\ StoreInv /\ Shape /\ RoundsKnown /\ TurnInv /\ FiniteRequests => CallersKept
  <2> SUFFICES ASSUME RequestInv, StoreInv, Shape, RoundsKnown, TurnInv,
                      IsFiniteSet(DOMAIN request), NEW client \in Clients
               PROVE  Cardinality(Live(client)) <= Callers[client]
    BY DEF CallersKept, FiniteRequests
  <2>1. IsFiniteSet(Live(client))
    <3>1. Live(client) \subseteq DOMAIN request
      BY DEF Live
    <3>2. QED
      BY <3>1, FS_Subset
  <2>2. QED
    BY <2>1, CallersAreCounted
<1>4. QED
  BY <1>1, <1>2, <1>3, RequestsStayFinite, RequestsAreSound, TurnsAreKept, PTL DEF Spec

-----------------------------------------------------------------------------
\* The rate of the script's clients.
LEMMA InitIsRated == ClientInit => ClientInv
<1>1. SUFFICES ASSUME ClientInit
               PROVE  ClientInv
  OBVIOUS
<1>2. DOMAIN request = {} /\ IsFiniteSet(DOMAIN request)
  BY <1>1, FS_EmptySet DEF ClientInit
<1>3. request = [r \in DOMAIN request |-> request[r]]
  BY <1>1 DEF ClientInit
<1>4. ASSUME NEW client \in Clients
      PROVE  Rated(client)
  <2>1. PICK p \in Nat, c \in Nat, n \in Nat :
          p = Parts[client] /\ c = Capacity[client] /\ n = Callers[client]
          /\ p >= 1 /\ c >= 1 /\ n >= 1
    BY ClientNumbers
  <2>2. PICK k \in Nat : k = c - 1
    BY <2>1
  <2>3. PICK s \in Nat, t \in Nat : s = n * p /\ t = k * p
    BY Products
  <2>4. c * p = t + p /\ p * (c + n - 1) = s + t
    BY <2>2, <2>3
  <2>5. bucket[client] = t + p /\ Full(client) = t + p /\ load[client] = 0
    BY <1>1, <2>1, <2>4 DEF ClientInit, Full
  <2>6. Cardinality(Wakeable(client)) = 0
    <3>1. Wakeable(client) = {}
      BY <1>2 DEF Wakeable
    <3>2. QED
      BY <3>1, FS_EmptySet
  <2>7. MinOf(t + p, p) = p /\ MaxOf(0, t + p - p) = t
    BY DEF MinOf, MaxOf
  <2>8. Promised(0, 0, n, p, t + p) = s + t
    BY <2>3, <2>7 DEF Promised
  <2>9. QED
    BY <2>1, <2>4, <2>5, <2>6, <2>8 DEF Rated
<1>5. QED
  BY <1>1, <1>2, <1>3, <1>4 DEF ClientInv, ClientInit

LEMMA RoundIsMade ==
  ASSUME ClientInv, NEW round, IsFiniteSet(DOMAIN round),
         \A r \in Range(round) : r \notin DOMAIN request
  PROVE  Made(round, WithRound(round))
<1>1. PICK asking : asking = WithRound(round)
  OBVIOUS
<1>2. /\ DOMAIN asking = DOMAIN request \cup Range(round)
      /\ asking = [r \in DOMAIN asking |-> asking[r]]
      /\ \A r \in Range(round) : asking[r] = NewRequest(ClientOf(r))
      /\ \A r \in DOMAIN request : asking[r] = request[r]
  BY <1>1 DEF WithRound
<1>3. IsFiniteSet(DOMAIN asking)
  <2>1. IsFiniteSet(Range(round)) /\ IsFiniteSet(DOMAIN request)
    BY RangeIsFinite DEF ClientInv
  <2>2. QED
    BY <1>2, <2>1, FS_Union
<1>4. \A r \in Range(round) : /\ IsRequest(asking[r]) /\ asking[r].client \in Clients
                              /\ asking[r].pc = "calling"
  <2>1. \A r : ClientOf(r) \in Clients
    BY ScriptAssumption DEF ClientOf
  <2>2. \A client : LET t == NewRequest(client)
                    IN  IsRequest(t) /\ t.client = client /\ t.pc = "calling"
    BY DEF NewRequest, IsRequest
  <2>3. QED
    BY <1>2, <2>1, <2>2
<1>5. \A r \in Range(round) : \E i \in DOMAIN round : round[i] = r
  BY DEF Range
<1>6. \A i \in DOMAIN round : round[i] \in Range(round)
  BY DEF Range
<1>7. \A r \in DOMAIN asking :
        /\ IsRequest(asking[r]) /\ asking[r].client \in Clients
        /\ asking[r].pc = "calling" => \E i \in DOMAIN round : round[i] = r
        /\ asking[r].pc = "waiting" => r \in DOMAIN request /\ asking[r] = request[r]
  <2>1. ASSUME NEW r \in Range(round)
        PROVE  /\ IsRequest(asking[r]) /\ asking[r].client \in Clients
               /\ asking[r].pc = "calling" => \E i \in DOMAIN round : round[i] = r
               /\ asking[r].pc # "waiting"
    BY <1>4, <1>5
  <2>2. ASSUME NEW r \in DOMAIN request
        PROVE  /\ IsRequest(asking[r]) /\ asking[r].client \in Clients
               /\ asking[r].pc # "calling" /\ asking[r] = request[r]
    BY <1>2 DEF ClientInv
  <2>3. QED
    BY <1>2, <2>1, <2>2
<1>8. QED
  BY <1>1, <1>2, <1>3, <1>4, <1>6, <1>7 DEF Made

LEMMA NextIsRated ==
  RequestInv /\ RoundsKnown /\ TurnInv /\ CallersKept /\ CallersKept' /\ ClientInv /\ [Next]_vars
    => ClientInv'
<1> SUFFICES ASSUME RequestInv, RoundsKnown, TurnInv, CallersKept, CallersKept', ClientInv,
                    [Next]_vars
             PROVE  ClientInv'
  OBVIOUS
<1>1. CASE StartRound
  <2>1. PICK j \in DOMAIN Rounds : /\ ~Asked(Rounds[j])
                                   /\ Acquire(Rounds[j], WithRound(Rounds[j]))
    BY <1>1 DEF StartRound, Due
  <2>2. \A r \in Range(Rounds[j]) : r \notin DOMAIN request
    BY <1>1, <2>1 DEF StartRound, TurnInv, Whole
  <2>3. Made(Rounds[j], WithRound(Rounds[j]))
    BY <2>2, RoundIsMade DEF RoundsKnown
  <2>4. QED
    BY <2>1, <2>3, AcquireIsRated
<1>2. CASE IngestNetwork \/ IngestTrc20 \/ IngestOther \/ Analyze \/ Skip
  <2>1. Forget
    BY <1>2 DEF IngestNetwork, IngestTrc20, IngestOther, Analyze, Skip
  <2>2. /\ DOMAIN request' = {r \in DOMAIN request : ~Over(r)}
        /\ \A r \in DOMAIN request' : request'[r] = request[r]
    BY <2>1, ForgetTurnsNone
  <2>3. IsFiniteSet(DOMAIN request')
    BY <2>2, FS_Subset DEF ClientInv
  <2>4. request' = [r \in DOMAIN request' |-> request'[r]] /\ UNCHANGED <<bucket, load>>
    BY <2>1 DEF Forget, Restrict
  <2>5. \A r \in DOMAIN request :
          request[r].pc = "waiting" => r \in DOMAIN request' /\ request'[r] = request[r]
    BY <2>2 DEF Over
  <2>6. QED
    BY <2>2, <2>3, <2>4, <2>5, QuietSteps DEF ClientInv
<1>3. CASE UNCHANGED <<bucket, load, request>>
  BY <1>3 DEF ClientInv, Waits, Rated, Wakeable
<1>4. CASE InsertChunk \/ Persisted \/ EndPhase \/ FailChunk
  BY <1>3, <1>4 DEF InsertChunk, Persisted, EndPhase, FailChunk, clientVars
<1>5. ASSUME NEW r \in DOMAIN request, RequestStep(r)
      PROVE  ClientInv'
  <2>1. CASE Retry(r)
    <3>1. PICK asking : Made(<<r>>, asking) /\ Acquire(<<r>>, asking)
      BY <2>1, RetryIsMade
    <3>2. QED
      BY <3>1, AcquireIsRated
  <2>2. QED
    BY <1>5, <2>1, WakeIsRated, SucceedIsRated DEF RequestStep, ClientStep
<1>6. ASSUME NEW r \in DOMAIN request, NEW f \in Faults, Disappoint(r, f)
      PROVE  ClientInv'
  BY <1>6, DisappointIsRated
<1>7. CASE Tick
  BY <1>7, TickIsRated
<1>8. CASE UNCHANGED vars
  BY <1>3, <1>8 DEF vars, clientVars
<1>9. QED
  BY <1>1, <1>2, <1>4, <1>5, <1>6, <1>7, <1>8 DEF Next, ScriptStep

(***************************************************************************)
(* For any capacity, rate and number of callers that is at least the       *)
(* script's, whatever is asked and answered: what a client of              *)
(* tron-http-client.ts sends is bounded as RateIsPerCaller says, because   *)
(* what was sent lately, what is promised to the requests that wait and    *)
(* what the bucket holds are together never more (Rated).                  *)
(***************************************************************************)
THEOREM RateIsAlwaysPerCaller == ASSUME ScriptCallers PROVE Spec => []RateIsPerCaller
<1>1. Init => ClientInv
  BY InitIsRated DEF Init
<1>2. RequestInv /\ StoreInv => RoundsKnown
  BY RoundsAreLevelled DEF StoreInv
<1>3. Spec => []ClientInv
  BY <1>1, <1>2, NextIsRated, CallersAreKept, RequestsAreSound, TurnsAreKept, PTL DEF Spec
<1>4. ClientInv => RateIsPerCaller
  <2>1. SUFFICES ASSUME ClientInv, NEW client \in Clients
                 PROVE  load[client]
                          <= Parts[client] * (Capacity[client] + Callers[client] - 1)
    BY DEF RateIsPerCaller
  <2>2. PICK b \in Nat, p \in Nat, l \in Nat, n \in Nat, z \in Nat :
          /\ b = bucket[client] /\ p = Parts[client] /\ l = load[client]
          /\ n = Callers[client] /\ z = Cardinality(Wakeable(client))
    BY <2>1, ClientNumbers, WakeablesAreLive DEF ClientInv, Rated
  <2>3. PICK bound \in Int :
          bound = Parts[client] * (Capacity[client] + Callers[client] - 1)
    BY ClientNumbers
  <2>4. Promised(l, z, n, p, b) <= bound
    BY <2>1, <2>2, <2>3 DEF ClientInv, Rated
  <2>5. l <= Promised(l, z, n, p, b)
    BY PromisedCoversSent
  <2>6. Promised(l, z, n, p, b) \in Int
    BY DEF Promised, MinOf, MaxOf
  <2>7. QED
    BY <2>2, <2>3, <2>4, <2>5, <2>6
<1>5. QED
  BY <1>3, <1>4, PTL

-----------------------------------------------------------------------------
\* Sums.  What holds of a finite set if it holds of its smaller subsets: a
\* set without it would have a least subset without it.
LEMMA SmallerSubsets ==
  ASSUME NEW S, IsFiniteSet(S), NEW P,
         \A T \in SUBSET S : (\A U \in SUBSET T : U # T => U \in P) => T \in P
  PROVE  S \in P
<1> DEFINE bad == {T \in SUBSET S : T \notin P}
<1>1. SUFFICES ASSUME bad # {} PROVE FALSE
  OBVIOUS
<1>2. bad \subseteq FiniteSubsetsOf(S)
  BY FS_Subset DEF FiniteSubsetsOf
<1>3. PICK T \in bad : \A U \in bad : ~(<<U, T>> \in StrictSubsetOrdering(S))
  <2> HIDE DEF bad
  <2> QED
    BY <1>1, <1>2, FS_StrictSubsetOrderingWellFounded, WFMin
<1>4. ASSUME NEW U \in SUBSET T, U # T PROVE U \in P
  BY <1>3, <1>4 DEF StrictSubsetOrdering
<1>5. QED
  BY <1>3, <1>4

\* The element that a sum takes next.
Picked(s) == CHOOSE x \in s : TRUE

IsSummed(f, g, D) ==
  f = [s \in D |-> IF s = {} THEN 0 ELSE g[Picked(s)] + f[s \ {Picked(s)}]]

Integral(g, S) == \A x \in S : g[x] \in Int

LEMMA TotalIsSummed ==
  ASSUME NEW g, NEW S
  PROVE  Total(g, S) = (CHOOSE f : IsSummed(f, g, SUBSET S))[S]
BY DEF Total, MapThenSumSet, MapThenFoldSet, IsSummed, Picked

LEMMA PickedIsIn == ASSUME NEW s, s # {} PROVE Picked(s) \in s
BY DEF Picked

\* Subsets of up to n elements.
UpTo(S, n) == {s \in SUBSET S : Cardinality(s) <= n}

LEMMA LeastNumber ==
  ASSUME NEW T, T \subseteq Nat, T # {}
  PROVE  \E x \in T : \A y \in T : x <= y
<1>1. PICK x \in T : \A y \in T : ~(<<y, x>> \in OpToRel(<, Nat))
  BY NatLessThanWellFounded, WFMin
<1>2. \A y \in T : ~(y < x)
  BY <1>1 DEF OpToRel
<1>3. QED
  BY <1>2

LEMMA SummedFurther ==
  ASSUME NEW S, IsFiniteSet(S), NEW g, NEW n \in Nat, NEW f, IsSummed(f, g, UpTo(S, n))
  PROVE  \E h : IsSummed(h, g, UpTo(S, n + 1))
<1> DEFINE h == [s \in UpTo(S, n + 1) |->
                   IF s = {} THEN 0 ELSE g[Picked(s)] + f[s \ {Picked(s)}]]
<1>1. ASSUME NEW s \in UpTo(S, n + 1), s # {}
      PROVE  /\ s \ {Picked(s)} \in UpTo(S, n) /\ s \ {Picked(s)} \in UpTo(S, n + 1)
  <2>1. s \in SUBSET S /\ IsFiniteSet(s) /\ Cardinality(s) <= n + 1
    BY FS_Subset DEF UpTo
  <2>2. PICK x : x = Picked(s)
    OBVIOUS
  <2>3. x \in s
    BY <1>1, <2>2, PickedIsIn
  <2>4. Cardinality(s \ {x}) = Cardinality(s) - 1 /\ Cardinality(s) \in Nat
    BY <2>1, <2>3, FS_RemoveElement, FS_CardinalityType
  <2>5. QED
    BY <2>1, <2>2, <2>4 DEF UpTo
<1>2. ASSUME NEW s \in UpTo(S, n) PROVE s \in UpTo(S, n + 1) /\ h[s] = f[s]
  <2>1. s \in UpTo(S, n + 1)
    <3>1. s \in SUBSET S /\ IsFiniteSet(s) /\ Cardinality(s) <= n
      BY FS_Subset DEF UpTo
    <3>2. Cardinality(s) \in Nat
      BY <3>1, FS_CardinalityType
    <3>3. QED
      BY <3>1, <3>2 DEF UpTo
  <2>2. f[s] = IF s = {} THEN 0 ELSE g[Picked(s)] + f[s \ {Picked(s)}]
    BY DEF IsSummed
  <2>3. QED
    BY <2>1, <2>2
<1>3. ASSUME NEW s \in UpTo(S, n + 1)
      PROVE  h[s] = IF s = {} THEN 0 ELSE g[Picked(s)] + h[s \ {Picked(s)}]
  <2>1. CASE s = {}
    BY <2>1
  <2>2. CASE s # {}
    <3>1. s \ {Picked(s)} \in UpTo(S, n)
      BY <1>1, <2>2
    <3>2. h[s \ {Picked(s)}] = f[s \ {Picked(s)}]
      BY <3>1, <1>2
    <3>3. h[s] = g[Picked(s)] + f[s \ {Picked(s)}]
      BY <2>2
    <3>4. QED
      BY <2>2, <3>2, <3>3
  <2>3. QED
    BY <2>1, <2>2
<1>4. h = [s \in UpTo(S, n + 1) |-> h[s]]
  OBVIOUS
<1>5. IsSummed(h, g, UpTo(S, n + 1))
  <2> HIDE DEF h
  <2> QED
    BY <1>3, <1>4 DEF IsSummed
<1>6. QED
  BY <1>5

LEMMA SummedExists ==
  ASSUME NEW S, IsFiniteSet(S), NEW g
  PROVE  \E f : IsSummed(f, g, SUBSET S)
<1> DEFINE bad == {n \in Nat : ~ \E f : IsSummed(f, g, UpTo(S, n))}
<1>1. bad = {}
  <2>1. SUFFICES ASSUME bad # {} PROVE FALSE
    OBVIOUS
  <2>2. PICK n \in bad : \A m \in bad : n <= m
    BY <2>1, LeastNumber
  <2>3. CASE n = 0
    <3>1. UpTo(S, 0) = {{}}
      <4>1. ASSUME NEW s \in UpTo(S, 0) PROVE s = {}
        <5>1. s \in SUBSET S /\ IsFiniteSet(s) /\ Cardinality(s) <= 0
          BY FS_Subset DEF UpTo
        <5>2. QED
          BY <5>1, FS_EmptySet, FS_CardinalityType
      <4>2. {} \in UpTo(S, 0)
        BY FS_EmptySet DEF UpTo
      <4>3. QED
        BY <4>1, <4>2
    <3>2. IsSummed([s \in {{}} |-> 0], g, {{}})
      BY DEF IsSummed
    <3>3. QED
      BY <2>2, <2>3, <3>1, <3>2
  <2>4. CASE n # 0
    <3>1. n - 1 \in Nat /\ n - 1 \notin bad /\ (n - 1) + 1 = n
      BY <2>2, <2>4
    <3>2. PICK f : IsSummed(f, g, UpTo(S, n - 1))
      BY <3>1
    <3>3. PICK m \in Nat : m = n - 1
      BY <3>1
    <3>4. \E h : IsSummed(h, g, UpTo(S, m + 1))
      BY <3>2, <3>3, SummedFurther
    <3>5. QED
      BY <2>2, <3>1, <3>3, <3>4
  <2>5. QED
    BY <2>3, <2>4
<1>2. PICK n \in Nat : n = Cardinality(S)
  BY FS_CardinalityType
<1>3. UpTo(S, n) = SUBSET S
  BY <1>2, FS_Subset DEF UpTo
<1>4. \E f : IsSummed(f, g, UpTo(S, n))
  BY <1>1
<1>5. QED
  BY <1>3, <1>4

\* A larger one agrees with a smaller one.
LEMMA SummedAgree ==
  ASSUME NEW g, NEW S, IsFiniteSet(S), NEW D, SUBSET S \subseteq D
  PROVE  \A f, h : IsSummed(f, g, D) /\ IsSummed(h, g, SUBSET S) => f[S] = h[S]
<1> SUFFICES ASSUME NEW f, IsSummed(f, g, D), NEW h, IsSummed(h, g, SUBSET S)
             PROVE  f[S] = h[S]
  OBVIOUS
<1> DEFINE P == {T \in SUBSET S : f[T] = h[T]}
<1>1. ASSUME NEW T \in SUBSET S, \A U \in SUBSET T : U # T => U \in P PROVE T \in P
  <2>1. /\ f[T] = IF T = {} THEN 0 ELSE g[Picked(T)] + f[T \ {Picked(T)}]
        /\ h[T] = IF T = {} THEN 0 ELSE g[Picked(T)] + h[T \ {Picked(T)}]
    BY DEF IsSummed
  <2>2. CASE T = {}
    BY <2>1, <2>2
  <2>3. CASE T # {}
    <3>1. T \ {Picked(T)} \in SUBSET T /\ T \ {Picked(T)} # T
      BY <2>3, PickedIsIn
    <3>2. f[T \ {Picked(T)}] = h[T \ {Picked(T)}]
      BY <1>1, <3>1
    <3>3. QED
      BY <2>1, <3>2
  <2>4. QED
    BY <2>2, <2>3
<1>2. S \in P
  <2> HIDE DEF P
  <2> QED
    BY <1>1, SmallerSubsets
<1>3. QED
  BY <1>2

LEMMA TotalTakesPicked ==
  ASSUME NEW S, IsFiniteSet(S), NEW g
  PROVE  /\ S = {} => Total(g, S) = 0
         /\ S # {} => Total(g, S) = g[Picked(S)] + Total(g, S \ {Picked(S)})
<1>1. PICK f : IsSummed(f, g, SUBSET S) /\ Total(g, S) = f[S]
  BY TotalIsSummed, SummedExists
<1>2. PICK T : T = S \ {Picked(S)}
  OBVIOUS
<1>3. T \in SUBSET S /\ IsFiniteSet(T)
  BY <1>2, FS_Subset
<1>4. PICK h : IsSummed(h, g, SUBSET T) /\ Total(g, T) = h[T]
  BY <1>3, TotalIsSummed, SummedExists
<1>5. f[T] = h[T]
  <2>1. PICK D : D = SUBSET S
    OBVIOUS
  <2>2. SUBSET T \subseteq D /\ IsSummed(f, g, D) /\ IsSummed(h, g, SUBSET T)
    BY <1>1, <1>3, <1>4, <2>1
  <2>3. QED
    BY <1>3, <2>2, SummedAgree
<1>6. f[S] = IF S = {} THEN 0 ELSE g[Picked(S)] + f[T]
  BY <1>1, <1>2 DEF IsSummed
<1>7. QED
  BY <1>1, <1>2, <1>4, <1>5, <1>6

\* A sum may take its elements in any order.
LEMMA TotalTakesAny ==
  ASSUME NEW S, IsFiniteSet(S), NEW g, Integral(g, S)
  PROVE  /\ Total(g, S) \in Int
         /\ \A x \in S : Total(g, S) = g[x] + Total(g, S \ {x})
<1> DEFINE P == {T \in SUBSET S : /\ Total(g, T) \in Int
                                  /\ \A x \in T : Total(g, T) = g[x] + Total(g, T \ {x})}
<1>1. ASSUME NEW T \in SUBSET S, \A U \in SUBSET T : U # T => U \in P PROVE T \in P
  <2>1. IsFiniteSet(T)
    BY FS_Subset
  <2>2. CASE T = {}
    BY <2>1, <2>2, TotalTakesPicked
  <2>3. CASE T # {}
    <3>1. PICK p \in T : p = Picked(T)
      BY <2>3, PickedIsIn
    <3>2. Total(g, T) = g[p] + Total(g, T \ {p})
      BY <2>1, <2>3, <3>1, TotalTakesPicked
    <3>3. \A x \in T : T \ {x} \in SUBSET T /\ T \ {x} # T
      OBVIOUS
    <3>4. \A x \in T : /\ g[x] \in Int /\ Total(g, T \ {x}) \in Int
                       /\ \A y \in T \ {x} :
                            Total(g, T \ {x}) = g[y] + Total(g, (T \ {x}) \ {y})
      BY <1>1, <3>3 DEF Integral
    <3>5. Total(g, T) \in Int
      BY <3>2, <3>4
    <3>6. ASSUME NEW x \in T, x # p PROVE Total(g, T) = g[x] + Total(g, T \ {x})
      <4>1. (T \ {p}) \ {x} = (T \ {x}) \ {p}
        OBVIOUS
      <4>2. PICK r : r = Total(g, (T \ {p}) \ {x})
        OBVIOUS
      <4>3. Total(g, T \ {p}) = g[x] + r /\ Total(g, T \ {x}) = g[p] + r
        BY <3>4, <3>6, <4>1, <4>2
      <4>4. r \in Int
        <5>1. T \ {p} \in SUBSET T /\ (T \ {p}) \ {x} \in SUBSET T /\ (T \ {p}) \ {x} # T
          OBVIOUS
        <5>2. QED
          BY <1>1, <4>2, <5>1
      <4>5. g[x] \in Int /\ g[p] \in Int
        BY <3>4
      <4>6. QED
        BY <3>2, <4>3, <4>4, <4>5
    <3>7. QED
      BY <3>2, <3>5, <3>6
  <2>4. QED
    BY <2>2, <2>3
<1>2. S \in P
  <2> HIDE DEF P
  <2> QED
    BY <1>1, SmallerSubsets
<1>3. QED
  BY <1>2

\* What holds of nothing, and of a set if it holds of it without an element.
LEMMA OneByOne ==
  ASSUME NEW S, IsFiniteSet(S), NEW P, {} \in P,
         \A T \in SUBSET S : \A x \in T : T \ {x} \in P => T \in P
  PROVE  S \in P
<1>1. ASSUME NEW T \in SUBSET S, \A U \in SUBSET T : U # T => U \in P PROVE T \in P
  <2>1. CASE T = {}
    BY <2>1
  <2>2. CASE T # {}
    <3>1. PICK x \in T : TRUE
      BY <2>2
    <3>2. T \ {x} \in SUBSET T /\ T \ {x} # T
      OBVIOUS
    <3>3. QED
      BY <1>1, <3>2
  <2>3. QED
    BY <2>1, <2>2
<1>2. QED
  BY <1>1, SmallerSubsets

\* The sum over a part of a set, an element taken.
Additive(g, S) ==
  \A T \in SUBSET S : \A x \in T :
    /\ g[x] \in Int /\ Total(g, T \ {x}) \in Int
    /\ Total(g, T) = g[x] + Total(g, T \ {x})

LEMMA TakeOne == ASSUME NEW S, IsFiniteSet(S), NEW g, Integral(g, S) PROVE Additive(g, S)
<1> SUFFICES ASSUME NEW T \in SUBSET S, NEW x \in T
             PROVE  /\ g[x] \in Int /\ Total(g, T \ {x}) \in Int
                    /\ Total(g, T) = g[x] + Total(g, T \ {x})
  BY DEF Additive
<1>1. IsFiniteSet(T) /\ Integral(g, T) /\ IsFiniteSet(T \ {x}) /\ Integral(g, T \ {x})
  BY FS_Subset, FS_RemoveElement DEF Integral
<1>2. QED
  BY <1>1, TotalTakesAny DEF Integral

LEMMA TotalOfNone == ASSUME NEW g PROVE Total(g, {}) = 0
BY FS_EmptySet, TotalTakesPicked

LEMMA SameTotal ==
  ASSUME NEW S, IsFiniteSet(S), NEW g, NEW h, Integral(g, S), \A x \in S : g[x] = h[x]
  PROVE  Total(g, S) = Total(h, S)
<1> DEFINE P == {T \in SUBSET S : Total(g, T) = Total(h, T)}
<1>1. Integral(h, S)
  BY DEF Integral
<1>2. {} \in P
  BY TotalOfNone
<1>3. ASSUME NEW T \in SUBSET S, NEW x \in T, T \ {x} \in P PROVE T \in P
  <2>1. Total(g, T) = g[x] + Total(g, T \ {x}) /\ Total(h, T) = h[x] + Total(h, T \ {x})
    BY <1>1, TakeOne DEF Additive
  <2>2. QED
    BY <1>3, <2>1
<1>4. S \in P
  <2> HIDE DEF P
  <2> QED
    BY <1>2, <1>3, OneByOne
<1>5. QED
  BY <1>4

LEMMA TotalOfDifferences ==
  ASSUME NEW S, IsFiniteSet(S), NEW g, NEW h, NEW d, Integral(g, S), Integral(h, S),
         \A x \in S : d[x] = g[x] - h[x]
  PROVE  Total(d, S) = Total(g, S) - Total(h, S)
<1> DEFINE P == {T \in SUBSET S : Total(d, T) = Total(g, T) - Total(h, T)}
<1>1. Integral(d, S)
  BY DEF Integral
<1>2. {} \in P
  BY TotalOfNone
<1>3. ASSUME NEW T \in SUBSET S, NEW x \in T, T \ {x} \in P PROVE T \in P
  <2>1. /\ g[x] \in Int /\ Total(g, T \ {x}) \in Int
        /\ h[x] \in Int /\ Total(h, T \ {x}) \in Int
        /\ Total(g, T) = g[x] + Total(g, T \ {x}) /\ Total(h, T) = h[x] + Total(h, T \ {x})
    BY TakeOne DEF Additive
  <2>2. Total(d, T) = d[x] + Total(d, T \ {x}) /\ d[x] = g[x] - h[x]
    BY <1>1, TakeOne DEF Additive
  <2>3. QED
    BY <1>3, <2>1, <2>2
<1>4. S \in P
  <2> HIDE DEF P
  <2> QED
    BY <1>2, <1>3, OneByOne
<1>5. QED
  BY <1>4

LEMMA Distributed ==
  ASSUME NEW c \in Int, NEW x \in Int, NEW y \in Int
  PROVE  c * (x + y) = c * x + c * y /\ c * 0 = 0 /\ c * x \in Int /\ c * x = x * c
OBVIOUS

LEMMA TotalOfMultiples ==
  ASSUME NEW S, IsFiniteSet(S), NEW g, NEW m, Integral(g, S), NEW c \in Int,
         \A x \in S : m[x] = c * g[x]
  PROVE  Total(m, S) = c * Total(g, S)
<1> DEFINE P == {T \in SUBSET S : Total(m, T) = c * Total(g, T)}
<1>1. Integral(m, S)
  BY DEF Integral
<1>2. {} \in P
  BY TotalOfNone, Distributed
<1>3. ASSUME NEW T \in SUBSET S, NEW x \in T, T \ {x} \in P PROVE T \in P
  <2>1. /\ Total(g, T) = g[x] + Total(g, T \ {x}) /\ m[x] = c * g[x]
        /\ Total(m, T) = m[x] + Total(m, T \ {x})
    BY <1>1, TakeOne DEF Additive
  <2>2. PICK a \in Int, b \in Int : a = g[x] /\ b = Total(g, T \ {x})
    BY TakeOne DEF Additive
  <2>3. Total(g, T) = a + b /\ Total(m, T) = c * a + c * b
    BY <1>3, <2>1, <2>2
  <2>4. QED
    BY <2>3, Distributed
<1>4. S \in P
  <2> HIDE DEF P
  <2> QED
    BY <1>2, <1>3, OneByOne
<1>5. QED
  BY <1>4

LEMMA TotalIsMonotonic ==
  ASSUME NEW S, IsFiniteSet(S), NEW g, NEW h, Integral(g, S), Integral(h, S),
         \A x \in S : g[x] <= h[x]
  PROVE  Total(g, S) <= Total(h, S)
<1> DEFINE P == {T \in SUBSET S : Total(g, T) <= Total(h, T)}
<1>1. {} \in P
  BY TotalOfNone
<1>2. ASSUME NEW T \in SUBSET S, NEW x \in T, T \ {x} \in P PROVE T \in P
  <2>1. /\ g[x] \in Int /\ Total(g, T \ {x}) \in Int
        /\ h[x] \in Int /\ Total(h, T \ {x}) \in Int
        /\ Total(g, T) = g[x] + Total(g, T \ {x}) /\ Total(h, T) = h[x] + Total(h, T \ {x})
        /\ g[x] <= h[x]
    BY TakeOne DEF Additive
  <2>2. QED
    BY <1>2, <2>1
<1>3. S \in P
  <2> HIDE DEF P
  <2> QED
    BY <1>1, <1>2, OneByOne
<1>4. QED
  BY <1>3

\* A number for each element of a part of the set.
LEMMA TotalOfShare ==
  ASSUME NEW S, IsFiniteSet(S), NEW A \in SUBSET S, NEW c \in Int, NEW g,
         \A x \in S : g[x] = IF x \in A THEN c ELSE 0
  PROVE  Total(g, S) = c * Cardinality(A)
<1> DEFINE P == {T \in SUBSET S : Total(g, T) = c * Cardinality(T \cap A)}
<1>1. Integral(g, S)
  BY DEF Integral
<1>2. {} \in P
  <2>1. {} \cap A = {}
    OBVIOUS
  <2>2. QED
    BY <2>1, TotalOfNone, FS_EmptySet, Distributed
<1>3. ASSUME NEW T \in SUBSET S, NEW x \in T, T \ {x} \in P PROVE T \in P
  <2>1. Total(g, T) = g[x] + Total(g, T \ {x}) /\ g[x] = IF x \in A THEN c ELSE 0
    BY <1>1, TakeOne DEF Additive
  <2>2. IsFiniteSet(T \cap A) /\ (T \cap A) \ {x} = (T \ {x}) \cap A
    BY FS_Subset
  <2>3. PICK k \in Nat, j \in Nat :
          /\ k = Cardinality(T \cap A) /\ j = Cardinality((T \ {x}) \cap A)
          /\ j = IF x \in A THEN k - 1 ELSE k
    <3>1. Cardinality((T \cap A) \ {x}) = IF x \in T \cap A THEN Cardinality(T \cap A) - 1
                                          ELSE Cardinality(T \cap A)
      BY <2>2, FS_RemoveElement
    <3>2. Cardinality(T \cap A) \in Nat /\ Cardinality((T \cap A) \ {x}) \in Nat
      BY <2>2, FS_CardinalityType, FS_RemoveElement
    <3>3. QED
      BY <2>2, <3>1, <3>2
  <2>4. Total(g, T) = (IF x \in A THEN c ELSE 0) + c * j
    BY <1>3, <2>1, <2>3
  <2>5. CASE x \in A
    <3>1. k = j + 1 /\ c * (j + 1) = c * j + c * 1
      BY <2>3, <2>5, Distributed
    <3>2. c * j \in Int
      BY Distributed
    <3>3. QED
      BY <2>3, <2>4, <2>5, <3>1, <3>2
  <2>6. CASE x \notin A
    BY <2>3, <2>4, <2>6, Distributed
  <2>7. QED
    BY <2>5, <2>6
<1>4. S \in P
  <2> HIDE DEF P
  <2> QED
    BY <1>2, <1>3, OneByOne
<1>5. S \cap A = A
  OBVIOUS
<1>6. QED
  BY <1>4, <1>5

\* A sum in another numbering.
LEMMA TotalRenumbered ==
  ASSUME NEW S, IsFiniteSet(S), NEW p, \A x, y \in S : p[x] = p[y] => x = y,
         NEW g, NEW h, \A x \in S : h[x] = g[p[x]] /\ h[x] \in Int
  PROVE  Total(h, S) = Total(g, {p[x] : x \in S})
<1> DEFINE P == {T \in SUBSET S : Total(h, T) = Total(g, {p[x] : x \in T})}
<1>1. Integral(h, S)
  BY DEF Integral
<1>2. {} \in P
  <2>1. {p[x] : x \in {}} = {}
    OBVIOUS
  <2>2. QED
    BY <2>1, TotalOfNone
<1>3. ASSUME NEW T \in SUBSET S, NEW x \in T, T \ {x} \in P PROVE T \in P
  <2>1. Total(h, T) = h[x] + Total(h, T \ {x})
    BY <1>1, TakeOne DEF Additive
  <2>2. PICK U : U = {p[y] : y \in T}
    OBVIOUS
  <2>3. {p[y] : y \in T \ {x}} = U \ {p[x]} /\ p[x] \in U
    BY <2>2
  <2>4. IsFiniteSet(U)
    <3>1. IsFiniteSet(T)
      BY FS_Subset
    <3>2. [y \in T |-> p[y]] \in Surjection(T, U)
      BY <2>2 DEF Surjection
    <3>3. QED
      BY <3>1, <3>2, FS_Surjection
  <2>5. Integral(g, U) /\ g[p[x]] = h[x]
    BY <2>2 DEF Integral
  <2>6. Total(g, U) = g[p[x]] + Total(g, U \ {p[x]})
    BY <2>3, <2>4, <2>5, TotalTakesAny
  <2>7. QED
    BY <1>3, <2>1, <2>2, <2>3, <2>5, <2>6
<1>4. S \in P
  <2> HIDE DEF P
  <2> QED
    BY <1>2, <1>3, OneByOne
<1>5. QED
  BY <1>4
\* A table of numbers by rows, and by columns.
IsTable(m, w, S, T) == \A i \in S : \A j \in T : m[i][j] \in Int /\ w[j][i] = m[i][j]

AreTotals(t, m, S, T) == \A i \in S : t[i] = Total(m[i], T)

LEMMA RowsOrColumns ==
  ASSUME NEW S, IsFiniteSet(S), NEW T, IsFiniteSet(T), NEW m, NEW w, IsTable(m, w, S, T),
         NEW row, AreTotals(row, m, S, T), NEW column, AreTotals(column, w, T, S)
  PROVE  Total(row, S) = Total(column, T)
<1> DEFINE columns(U) == [j \in T |-> Total(w[j], U)]
           P == {U \in SUBSET S : Total(row, U) = Total(columns(U), T)}
<1>1. \A i \in S : row[i] = Total(m[i], T) /\ Integral(m[i], T)
  BY DEF Integral, IsTable, AreTotals
<1>2. Integral(row, S)
  BY <1>1, TotalTakesAny DEF Integral
<1>3. \A j \in T : Integral(w[j], S)
  BY DEF Integral, IsTable
<1>4. \A U : \A j \in T : columns(U)[j] = Total(w[j], U)
  OBVIOUS
<1> HIDE DEF columns
<1>5. \A U \in SUBSET S : Integral(columns(U), T)
  <2> SUFFICES ASSUME NEW U \in SUBSET S, NEW j \in T PROVE columns(U)[j] \in Int
    BY DEF Integral
  <2>1. IsFiniteSet(U) /\ Integral(w[j], U)
    BY <1>3, FS_Subset DEF Integral
  <2>2. QED
    BY <1>4, <2>1, TotalTakesAny
<1>6. {} \in P
  <2>1. \A j \in T : columns({})[j] = 0
    BY <1>4, TotalOfNone
  <2>2. Total(columns({}), T) = 0 * Cardinality({})
    <3>1. {} \in SUBSET T /\ \A j \in T : columns({})[j] = IF j \in {} THEN 0 ELSE 0
      BY <2>1
    <3>2. QED
      BY <3>1, TotalOfShare
  <2>3. QED
    BY <2>2, TotalOfNone, FS_EmptySet, Distributed
<1>7. ASSUME NEW U \in SUBSET S, NEW x \in U, U \ {x} \in P PROVE U \in P
  <2>1. Total(row, U) = row[x] + Total(row, U \ {x}) /\ row[x] \in Int
    <3>1. Additive(row, S)
      BY <1>2, TakeOne
    <3>2. QED
      BY <3>1 DEF Additive
  <2>2. PICK V \in SUBSET S : V = U \ {x}
    OBVIOUS
  <2>3. PICK new : new = columns(U)
    OBVIOUS
  <2>4. PICK old : old = columns(V)
    OBVIOUS
  <2>5. PICK gain : gain = m[x]
    OBVIOUS
  <2>6. Integral(new, T) /\ Integral(old, T) /\ Integral(gain, T)
    BY <1>1, <1>5, <2>3, <2>4, <2>5
  <2>7. ASSUME NEW j \in T PROVE gain[j] = new[j] - old[j]
    <3>1. PICK c : c = w[j]
      OBVIOUS
    <3>2. Integral(c, S)
      BY <1>3, <3>1
    <3>3. Additive(c, S)
      BY <3>2, TakeOne
    <3>4. c[x] \in Int /\ Total(c, V) \in Int /\ Total(c, U) = c[x] + Total(c, V)
      BY <2>2, <3>3 DEF Additive
    <3>5. QED
      BY <1>4, <2>3, <2>4, <2>5, <3>1, <3>4 DEF IsTable
  <2>8. Total(gain, T) = Total(new, T) - Total(old, T)
    BY <2>6, <2>7, TotalOfDifferences
  <2>9. Total(new, T) \in Int /\ Total(old, T) \in Int
    BY <2>6, TotalTakesAny
  <2>10. row[x] = Total(gain, T)
    BY <1>1, <2>5
  <2>11. Total(row, V) = Total(old, T)
    BY <1>7, <2>2, <2>4
  <2>12. QED
    BY <2>1, <2>2, <2>3, <2>8, <2>9, <2>10, <2>11
<1>8. S \in P
  <2> HIDE DEF P
  <2> QED
    BY <1>6, <1>7, OneByOne
<1>9. Total(column, T) = Total(columns(S), T)
  <2>1. PICK c : c = columns(S)
    OBVIOUS
  <2>2. Integral(c, T) /\ \A j \in T : c[j] = column[j]
    BY <1>4, <1>5, <2>1 DEF AreTotals
  <2>3. QED
    BY <2>1, <2>2, SameTotal
<1>10. QED
  BY <1>8, <1>9

-----------------------------------------------------------------------------
\* The order of the balances.
IsBalances(b, n) == n \in Nat /\ Len(b) = n /\ DOMAIN b = 1 .. n /\ \A i \in 1 .. n : b[i] \in Int

Smaller(b, i) == {j \in DOMAIN b : Before(b, j, i)}

LEMMA BeforeIsOrder ==
  ASSUME NEW b, NEW n, IsBalances(b, n)
  PROVE  \A i, j, k \in 1 .. n :
           /\ ~Before(b, i, i)
           /\ Before(b, i, j) /\ Before(b, j, k) => Before(b, i, k)
           /\ i # j => (Before(b, i, j) <=> ~Before(b, j, i))
BY DEF IsBalances, Before

LEMMA PlacesGrow ==
  ASSUME NEW b, NEW n, IsBalances(b, n), NEW i \in 1 .. n
  PROVE  /\ IsFiniteSet(Smaller(b, i)) /\ PlaceOf(b, i) = 1 + Cardinality(Smaller(b, i))
         /\ PlaceOf(b, i) \in 1 .. n
         /\ \A j \in 1 .. n : Before(b, i, j) => PlaceOf(b, i) < PlaceOf(b, j)
<1>1. n \in Nat /\ DOMAIN b = 1 .. n /\ IsFiniteSet(1 .. n) /\ Cardinality(1 .. n) = n
  BY FS_Interval DEF IsBalances
<1>2. \A j \in 1 .. n : /\ Smaller(b, j) \in SUBSET (1 .. n) /\ IsFiniteSet(Smaller(b, j))
                        /\ PlaceOf(b, j) = 1 + Cardinality(Smaller(b, j))
                        /\ Cardinality(Smaller(b, j)) \in Nat
  <2> SUFFICES ASSUME NEW j \in 1 .. n
               PROVE  /\ Smaller(b, j) \in SUBSET (1 .. n) /\ IsFiniteSet(Smaller(b, j))
                      /\ PlaceOf(b, j) = 1 + Cardinality(Smaller(b, j))
                      /\ Cardinality(Smaller(b, j)) \in Nat
    OBVIOUS
  <2>1. Smaller(b, j) \in SUBSET (1 .. n)
    BY <1>1 DEF Smaller
  <2>2. IsFiniteSet(Smaller(b, j))
    BY <1>1, <2>1, FS_Subset
  <2>3. QED
    BY <2>1, <2>2, FS_CardinalityType DEF Smaller, PlaceOf
<1>3. i \notin Smaller(b, i)
  BY BeforeIsOrder DEF Smaller
<1>4. IsFiniteSet((1 .. n) \ {i}) /\ Cardinality((1 .. n) \ {i}) = n - 1
  BY <1>1, FS_RemoveElement
<1>5. Cardinality(Smaller(b, i)) <= n - 1
  <2>1. Smaller(b, i) \in SUBSET ((1 .. n) \ {i})
    BY <1>2, <1>3
  <2>2. QED
    BY <1>4, <2>1, FS_Subset
<1>6. ASSUME NEW j \in 1 .. n, Before(b, i, j) PROVE PlaceOf(b, i) < PlaceOf(b, j)
  <2>1. Smaller(b, i) \cup {i} \in SUBSET Smaller(b, j)
    BY <1>1, <1>6, BeforeIsOrder DEF Smaller
  <2>2. Cardinality(Smaller(b, i) \cup {i}) = Cardinality(Smaller(b, i)) + 1
    BY <1>2, <1>3, FS_AddElement
  <2>3. Cardinality(Smaller(b, i) \cup {i}) <= Cardinality(Smaller(b, j))
    BY <1>2, <2>1, FS_Subset
  <2>4. QED
    BY <1>2, <2>2, <2>3
<1>7. QED
  BY <1>1, <1>2, <1>5, <1>6

\* Every place is taken, by one balance.
LEMMA PlacesAreTaken ==
  ASSUME NEW b, NEW n, IsBalances(b, n)
  PROVE  /\ \A i, j \in 1 .. n : PlaceOf(b, i) = PlaceOf(b, j) => i = j
         /\ {PlaceOf(b, i) : i \in 1 .. n} = 1 .. n
<1>1. \A i \in 1 .. n : PlaceOf(b, i) \in 1 .. n
  BY PlacesGrow
<1>2. ASSUME NEW i \in 1 .. n, NEW j \in 1 .. n, i # j PROVE PlaceOf(b, i) # PlaceOf(b, j)
  <2>1. Before(b, i, j) \/ Before(b, j, i)
    BY <1>2, BeforeIsOrder
  <2>2. PlaceOf(b, i) < PlaceOf(b, j) \/ PlaceOf(b, j) < PlaceOf(b, i)
    BY <2>1, PlacesGrow
  <2>3. QED
    BY <1>1, <2>2
<1>3. PICK p : p = [i \in 1 .. n |-> PlaceOf(b, i)]
  OBVIOUS
<1>4. p \in Injection(1 .. n, 1 .. n)
  BY <1>1, <1>2, <1>3 DEF Injection, IsInjective
<1>5. p \in Surjection(1 .. n, 1 .. n)
  <2>1. IsFiniteSet(1 .. n)
    BY FS_Interval DEF IsBalances
  <2>2. QED
    BY <1>4, <2>1, FS_Injection
<1>6. QED
  BY <1>1, <1>2, <1>3, <1>5 DEF Surjection

LEMMA SortedHasAll ==
  ASSUME NEW b, NEW n, IsBalances(b, n)
  PROVE  /\ IsBalances(Sorted(b), n)
         /\ \A i \in 1 .. n : Sorted(b)[PlaceOf(b, i)] = b[i]
<1>1. n \in Nat /\ DOMAIN b = 1 .. n /\ Sorted(b) = [k \in 1 .. n |-> Sorted(b)[k]]
  BY DEF IsBalances, Sorted
<1>2. ASSUME NEW i \in 1 .. n PROVE Sorted(b)[PlaceOf(b, i)] = b[i]
  <2>1. PlaceOf(b, i) \in 1 .. n
    BY PlacesGrow
  <2>2. (CHOOSE j \in 1 .. n : PlaceOf(b, j) = PlaceOf(b, i)) = i
    BY PlacesAreTaken
  <2>3. QED
    BY <1>1, <2>1, <2>2 DEF Sorted
<1>3. ASSUME NEW k \in 1 .. n PROVE Sorted(b)[k] \in Int
  <2>1. PICK i \in 1 .. n : k = PlaceOf(b, i)
    BY PlacesAreTaken
  <2>2. QED
    BY <1>2, <2>1 DEF IsBalances
<1>4. Len(Sorted(b)) = n
  BY <1>1
<1>5. QED
  BY <1>1, <1>2, <1>3, <1>4 DEF IsBalances

Larger(b, i) == {j \in DOMAIN b : Before(b, i, j)}

LEMMA OthersAreLarger ==
  ASSUME NEW b, NEW n, IsBalances(b, n), NEW i \in 1 .. n
  PROVE  /\ Cardinality(Smaller(b, i)) \in Nat
         /\ Cardinality(Larger(b, i)) = n - 1 - Cardinality(Smaller(b, i))
<1>1. n \in Nat /\ DOMAIN b = 1 .. n /\ IsFiniteSet(1 .. n) /\ Cardinality(1 .. n) = n
  BY FS_Interval DEF IsBalances
<1>2. IsFiniteSet((1 .. n) \ {i}) /\ Cardinality((1 .. n) \ {i}) = n - 1
  BY <1>1, FS_RemoveElement
<1>3. PICK A : A = Smaller(b, i)
  OBVIOUS
<1>4. PICK C : C = Larger(b, i)
  OBVIOUS
<1>5. A \cup C = (1 .. n) \ {i} /\ A \cap C = {}
  BY <1>1, <1>3, <1>4, BeforeIsOrder DEF Smaller, Larger
<1>6. IsFiniteSet(A) /\ IsFiniteSet(C)
  BY <1>2, <1>5, FS_Subset
<1>7. Cardinality(A \cup C) = Cardinality(A) + Cardinality(C) - Cardinality(A \cap C)
  BY <1>6, FS_Union
<1>8. Cardinality(A) \in Nat /\ Cardinality(C) \in Nat
  BY <1>6, FS_CardinalityType
<1>9. Cardinality(A) + Cardinality(C) - 0 = n - 1
  BY <1>2, <1>5, <1>7, FS_EmptySet
<1>10. QED
  BY <1>1, <1>3, <1>4, <1>8, <1>9

\* The weights of the places, over the balances as they are listed.
LEMMA WeightedInPlace ==
  ASSUME NEW b, NEW n, IsBalances(b, n)
  PROVE  Weighted(b) = Total([i \in 1 .. n |-> (2 * PlaceOf(b, i) - n - 1) * b[i]], 1 .. n)
<1>1. n \in Nat /\ DOMAIN b = 1 .. n /\ IsFiniteSet(1 .. n)
  BY FS_Interval DEF IsBalances
<1>2. PICK g : g = [k \in 1 .. n |-> (2 * k - n - 1) * Sorted(b)[k]]
  OBVIOUS
<1>3. Weighted(b) = Total(g, 1 .. n)
  <2>1. DOMAIN Sorted(b) = 1 .. n /\ Len(Sorted(b)) = n
    BY SortedHasAll DEF IsBalances
  <2>2. Weighted(b) = TotalOf(g)
    BY <1>2, <2>1 DEF Weighted, ByPlace
  <2>3. DOMAIN g = 1 .. n
    BY <1>2
  <2>4. QED
    BY <2>2, <2>3 DEF TotalOf
<1>4. PICK p : p = [i \in 1 .. n |-> PlaceOf(b, i)]
  OBVIOUS
<1>5. PICK h : h = [i \in 1 .. n |-> (2 * PlaceOf(b, i) - n - 1) * b[i]]
  OBVIOUS
<1>6. ASSUME NEW i \in 1 .. n PROVE h[i] = g[p[i]] /\ h[i] \in Int
  <2>1. PlaceOf(b, i) \in 1 .. n /\ b[i] \in Int
    BY PlacesGrow DEF IsBalances
  <2>2. Sorted(b)[PlaceOf(b, i)] = b[i]
    BY SortedHasAll
  <2>3. h[i] = g[p[i]]
    BY <1>2, <1>4, <1>5, <2>1, <2>2
  <2>4. PICK c \in Int : c = 2 * PlaceOf(b, i) - n - 1
    BY <1>1, <2>1
  <2>5. c * b[i] \in Int
    BY <2>1, Distributed
  <2>6. QED
    BY <1>5, <2>3, <2>4, <2>5
<1>7. \A i, j \in 1 .. n : p[i] = p[j] => i = j
  BY <1>4, PlacesAreTaken
<1>8. {p[i] : i \in 1 .. n} = 1 .. n
  BY <1>4, PlacesAreTaken
<1>9. Total(h, 1 .. n) = Total(g, {p[i] : i \in 1 .. n})
  BY <1>1, <1>6, <1>7, TotalRenumbered
<1>10. QED
  BY <1>3, <1>5, <1>8, <1>9

LEMMA Balanced ==
  ASSUME NEW n \in Int, NEW k \in Int, NEW x \in Int
  PROVE  (2 * (1 + k) - n - 1) * x = x * k - x * (n - 1 - k)
OBVIOUS

\* The sorted balances, weighted, give the differences of all pairs.
LEMMA WeightedIsPairs ==
  ASSUME NEW b, NEW n, IsBalances(b, n)
  PROVE  Weighted(b) = PairDifferences(b)
<1> DEFINE D == 1 .. n
           gain == [i \in D |-> [j \in D |-> IF Before(b, j, i) THEN b[i] ELSE 0]]
           loss == [i \in D |-> [j \in D |-> IF Before(b, j, i) THEN b[j] ELSE 0]]
           apart == [i \in D |-> [j \in D |-> IF b[i] > b[j] THEN b[i] - b[j] ELSE 0]]
           lossOf(j) == [i \in D |-> loss[i][j]]
           few(i) == b[i] * Cardinality(Smaller(b, i))
           many(i) == b[i] * Cardinality(Larger(b, i))
           gains == [i \in D |-> Total(gain[i], D)]
           losses == [i \in D |-> Total(loss[i], D)]
           byColumn == [j \in D |-> Total(lossOf(j), D)]
           placed == [i \in D |-> (2 * PlaceOf(b, i) - n - 1) * b[i]]
           pairs == [i \in D |-> Total(apart[i], D)]
<1>1. n \in Nat /\ DOMAIN b = D /\ IsFiniteSet(D) /\ \A i \in D : b[i] \in Int
  BY FS_Interval DEF IsBalances
<1>2. PairDifferences(b) = Total(pairs, D)
  <2>1. ASSUME NEW i \in D
        PROVE  TotalOf([j \in D |-> IF b[i] > b[j] THEN b[i] - b[j] ELSE 0]) = Total(apart[i], D)
    BY DEF TotalOf
  <2>2. PairDifferences(b)
          = TotalOf([i \in D |-> TotalOf([j \in D |-> IF b[i] > b[j] THEN b[i] - b[j] ELSE 0])])
    BY <1>1 DEF PairDifferences
  <2>3. PairDifferences(b) = TotalOf(pairs) /\ DOMAIN pairs = D
    BY <2>1, <2>2
  <2>4. QED
    BY <2>3 DEF TotalOf
<1>3. \A i, j \in D : /\ gain[i][j] \in Int /\ loss[i][j] \in Int /\ lossOf(j)[i] \in Int
                      /\ apart[i][j] = gain[i][j] - loss[i][j]
  BY <1>1, BeforeIsOrder DEF Before
<1>4. ASSUME NEW i \in D
      PROVE  gains[i] = few(i) /\ gains[i] \in Int
  <2>1. Smaller(b, i) \in SUBSET D
           /\ \A j \in D : gain[i][j] = IF j \in Smaller(b, i) THEN b[i] ELSE 0
    BY <1>1 DEF Smaller
  <2>2. PICK A \in SUBSET D : A = Smaller(b, i)
    BY <2>1
  <2>3. PICK g : g = gain[i]
    OBVIOUS
  <2>4. Total(g, D) = b[i] * Cardinality(A)
    <3>1. \A j \in D : g[j] = IF j \in A THEN b[i] ELSE 0
      BY <2>1, <2>2, <2>3
    <3>2. b[i] \in Int
      BY <1>1
    <3> HIDE DEF D
    <3>3. QED
      BY <1>1, <3>1, <3>2, TotalOfShare
  <2>5. Integral(g, D)
    BY <1>3, <2>3 DEF Integral
  <2>6. Total(g, D) \in Int
    BY <1>1, <2>5, TotalTakesAny
  <2>7. QED
    BY <2>2, <2>3, <2>4, <2>6
<1>5. ASSUME NEW j \in D
      PROVE  byColumn[j] = many(j) /\ byColumn[j] \in Int
  <2>1. Larger(b, j) \in SUBSET D
           /\ \A i \in D : lossOf(j)[i] = IF i \in Larger(b, j) THEN b[j] ELSE 0
    BY <1>1 DEF Larger
  <2>2. PICK A \in SUBSET D : A = Larger(b, j)
    BY <2>1
  <2>3. PICK g : g = lossOf(j)
    OBVIOUS
  <2>4. Total(g, D) = b[j] * Cardinality(A)
    <3>1. \A i \in D : g[i] = IF i \in A THEN b[j] ELSE 0
      BY <2>1, <2>2, <2>3
    <3>2. b[j] \in Int
      BY <1>1
    <3> HIDE DEF D
    <3>3. QED
      BY <1>1, <3>1, <3>2, TotalOfShare
  <2>5. Integral(g, D)
    BY <1>3, <2>3 DEF Integral
  <2>6. Total(g, D) \in Int
    BY <1>1, <2>5, TotalTakesAny
  <2>7. QED
    BY <2>2, <2>3, <2>4, <2>6
<1>6. \A i \in D : losses[i] \in Int
  <2> SUFFICES ASSUME NEW i \in D PROVE losses[i] \in Int
    OBVIOUS
  <2>1. PICK g : g = loss[i]
    OBVIOUS
  <2>2. Integral(g, D)
    BY <1>3, <2>1 DEF Integral
  <2>3. Total(g, D) \in Int
    BY <1>1, <2>2, TotalTakesAny
  <2>4. QED
    BY <2>1, <2>3
<1>7. \A i \in D : pairs[i] = gains[i] - losses[i]
  <2> SUFFICES ASSUME NEW i \in D PROVE pairs[i] = gains[i] - losses[i]
    OBVIOUS
  <2>1. PICK a, g, l : a = apart[i] /\ g = gain[i] /\ l = loss[i]
    OBVIOUS
  <2>2. Integral(g, D) /\ Integral(l, D) /\ \A j \in D : a[j] = g[j] - l[j]
    <3>1. \A j \in D : g[j] \in Int /\ l[j] \in Int /\ a[j] = g[j] - l[j]
      BY <1>3, <2>1
    <3>2. QED
      BY <3>1 DEF Integral
  <2>3. Total(a, D) = Total(g, D) - Total(l, D)
    BY <1>1, <2>2, TotalOfDifferences
  <2>4. QED
    BY <2>1, <2>3
<1>8. \A i \in D : placed[i] = gains[i] - byColumn[i]
  <2> SUFFICES ASSUME NEW i \in D PROVE placed[i] = gains[i] - byColumn[i]
    OBVIOUS
  <2>1. PICK k \in Nat : k = Cardinality(Smaller(b, i))
    BY OthersAreLarger
  <2>2. Cardinality(Larger(b, i)) = n - 1 - k /\ PlaceOf(b, i) = 1 + k
    BY <2>1, OthersAreLarger, PlacesGrow
  <2>3. PICK x \in Int : x = b[i]
    BY <1>1
  <2>4. placed[i] = (2 * (1 + k) - n - 1) * x
    BY <2>2, <2>3
  <2>5. gains[i] = x * k /\ byColumn[i] = x * (n - 1 - k)
    BY <1>4, <1>5, <2>1, <2>2, <2>3
  <2>6. QED
    BY <1>1, <2>4, <2>5, Balanced
<1>9. Total(losses, D) = Total(byColumn, D)
  <2>1. PICK m, w : m = loss /\ w = [j \in D |-> lossOf(j)]
    OBVIOUS
  <2>2. IsTable(m, w, D, D)
    BY <1>3, <2>1 DEF IsTable
  <2>3. PICK r, c : r = losses /\ c = byColumn
    OBVIOUS
  <2>4. AreTotals(r, m, D, D) /\ AreTotals(c, w, D, D)
    BY <2>1, <2>3 DEF AreTotals
  <2>5. Total(r, D) = Total(c, D)
    <3> HIDE DEF D
    <3> QED
      BY <1>1, <2>2, <2>4, RowsOrColumns
  <2>6. QED
    BY <2>3, <2>5
<1> HIDE DEF D, gains, losses, byColumn, placed, pairs
<1>10. Integral(gains, D) /\ Integral(losses, D) /\ Integral(byColumn, D)
  BY <1>4, <1>5, <1>6 DEF Integral
<1>11. Total(placed, D) = Total(gains, D) - Total(byColumn, D)
  BY <1>1, <1>8, <1>10, TotalOfDifferences
<1>12. Total(pairs, D) = Total(gains, D) - Total(losses, D)
  BY <1>1, <1>7, <1>10, TotalOfDifferences
<1>13. Weighted(b) = Total(placed, D)
  BY WeightedInPlace DEF D, placed
<1>14. QED
  BY <1>2, <1>9, <1>11, <1>12, <1>13

LEMMA PairsAreBounded ==
  ASSUME NEW b, NEW n, IsBalances(b, n), \A i \in 1 .. n : b[i] >= 0
  PROVE  /\ TotalOf(b) \in Nat /\ PairDifferences(b) \in Int
         /\ PairDifferences(b) <= n * TotalOf(b)
<1> DEFINE D == 1 .. n
           apart == [i \in D |-> [j \in D |-> IF b[i] > b[j] THEN b[i] - b[j] ELSE 0]]
           pairs == [i \in D |-> Total(apart[i], D)]
           zero == [i \in D |-> 0]
           multiples == [i \in D |-> n * b[i]]
<1>1. n \in Nat /\ DOMAIN b = D /\ IsFiniteSet(D) /\ Cardinality(D) = n
        /\ \A i \in D : b[i] \in Int /\ b[i] >= 0
  <2>1. n \in Nat /\ DOMAIN b = D /\ \A i \in D : b[i] \in Int /\ b[i] >= 0
    BY DEF IsBalances
  <2>2. QED
    BY <2>1, FS_Interval
<1>2. PairDifferences(b) = Total(pairs, D)
  <2>1. ASSUME NEW i \in D
        PROVE  TotalOf([j \in D |-> IF b[i] > b[j] THEN b[i] - b[j] ELSE 0])
                 = Total(apart[i], D)
    BY DEF TotalOf
  <2>2. PairDifferences(b)
          = TotalOf([i \in D |-> TotalOf([j \in D |-> IF b[i] > b[j] THEN b[i] - b[j] ELSE 0])])
    BY <1>1 DEF PairDifferences
  <2>3. PairDifferences(b) = TotalOf(pairs) /\ DOMAIN pairs = D
    BY <2>1, <2>2
  <2>4. QED
    BY <2>3 DEF TotalOf
<1>3. TotalOf(b) = Total(b, D)
  BY <1>1 DEF TotalOf
<1>4. Integral(b, D)
  BY <1>1 DEF Integral
<1>5. Total(b, D) \in Nat
  <2>1. PICK z : z = zero
    OBVIOUS
  <2>2. Integral(z, D) /\ \A i \in D : z[i] <= b[i] /\ z[i] = 0 * b[i]
    BY <1>1, <2>1 DEF Integral
  <2> HIDE DEF D
  <2>3. Total(z, D) <= Total(b, D)
    BY <1>1, <1>4, <2>2, TotalIsMonotonic
  <2>4. Total(z, D) = 0 * Total(b, D)
    BY <1>1, <1>4, <2>2, TotalOfMultiples
  <2>5. Total(b, D) \in Int
    BY <1>1, <1>4, TotalTakesAny
  <2>6. QED
    BY <2>3, <2>4, <2>5
<1>6. ASSUME NEW i \in D PROVE pairs[i] \in Int /\ pairs[i] <= multiples[i]
  <2>1. PICK a, c : a = apart[i] /\ c = [j \in D |-> b[i]]
    OBVIOUS
  <2>2. Integral(a, D) /\ Integral(c, D) /\ \A j \in D : a[j] <= c[j]
    <3>1. \A j \in D : a[j] \in Int /\ c[j] \in Int /\ a[j] <= c[j]
      BY <1>1, <2>1
    <3>2. QED
      BY <3>1 DEF Integral
  <2>3. \A j \in D : c[j] = IF j \in D THEN b[i] ELSE 0
    BY <2>1
  <2>4. b[i] \in Int /\ D \in SUBSET D
    BY <1>1
  <2>5. Total(c, D) = b[i] * Cardinality(D)
    <3> HIDE DEF D
    <3> QED
      BY <1>1, <2>3, <2>4, TotalOfShare
  <2>6. Total(a, D) <= Total(c, D) /\ Total(a, D) \in Int
    <3> HIDE DEF D
    <3> QED
      BY <1>1, <2>2, TotalIsMonotonic, TotalTakesAny
  <2>7. b[i] * n = n * b[i]
    BY <1>1, <2>4
  <2>8. QED
    BY <1>1, <2>1, <2>5, <2>6, <2>7
<1>7. PICK p, m : p = pairs /\ m = multiples
  OBVIOUS
<1>8. \A i \in D : p[i] \in Int /\ m[i] \in Int /\ p[i] <= m[i] /\ m[i] = n * b[i]
  BY <1>1, <1>6, <1>7, Distributed
<1> HIDE DEF D
<1>9. Integral(p, D) /\ Integral(m, D)
  BY <1>8 DEF Integral
<1>10. Total(p, D) <= Total(m, D) /\ Total(p, D) \in Int
  BY <1>1, <1>8, <1>9, TotalIsMonotonic, TotalTakesAny
<1>11. Total(m, D) = n * Total(b, D)
  <2>1. n \in Int
    BY <1>1
  <2>2. QED
    BY <1>1, <1>4, <1>8, <2>1, TotalOfMultiples
<1>12. QED
  BY <1>2, <1>3, <1>5, <1>7, <1>10, <1>11

-----------------------------------------------------------------------------
\* What is known of a token's holders.
IsAnalysis(a) ==
  /\ Len(a.balances) \in Nat /\ DOMAIN a.balances = 1 .. Len(a.balances)
  /\ \A i \in DOMAIN a.balances : a.balances[i] \in Nat
  /\ a.token.holders \in Int /\ a.supply \in Int

LEMMA Longer ==
  ASSUME NEW f \in Seq(Nat), NEW g \in Seq(Nat)
  PROVE  /\ Len(f \o g) = Len(f) + Len(g) /\ Len(f \o g) \in Nat /\ f \o g \in Seq(Nat)
         /\ DOMAIN (f \o g) = 1 .. Len(f \o g)
         /\ \A i \in 1 .. Len(f \o g) : (f \o g)[i] \in Nat
OBVIOUS

LEMMA Extremes ==
  ASSUME NEW x \in Int, NEW y \in Int
  PROVE  /\ Max({x, y}) = IF x >= y THEN x ELSE y
         /\ Min({x, y}) = IF x <= y THEN x ELSE y
BY DEF Max, Min

LEMMA BalancesAreCounted ==
  ASSUME NEW a, IsAnalysis(a)
  PROVE  \E n \in Nat : /\ n >= Len(a.balances) /\ IsBalances(BalancesOf(a), n)
                        /\ \A i \in 1 .. n : BalancesOf(a)[i] >= 0
<1>1. Unlisted(a) \in Nat
  <2>1. a.token.holders - Len(a.balances) \in Int
    BY DEF IsAnalysis
  <2>2. QED
    BY <2>1, Extremes DEF Unlisted
<1>2. Listed(a) \in Int
  <2>1. PICK b, D : b = a.balances /\ D = DOMAIN b
    OBVIOUS
  <2>2. Len(b) \in Nat /\ D = 1 .. Len(b) /\ Integral(b, D)
    BY <2>1 DEF IsAnalysis, Integral
  <2>3. IsFiniteSet(D)
    BY <2>2, FS_Interval
  <2>4. Total(b, D) \in Int
    BY <2>2, <2>3, TotalTakesAny
  <2>5. QED
    BY <2>1, <2>4 DEF Listed, TotalOf
<1>3. PICK rest \in Nat : rest = Max({0, a.supply - Listed(a)})
  <2>1. a.supply - Listed(a) \in Int
    BY <1>2 DEF IsAnalysis
  <2>2. QED
    BY <2>1, Extremes
<1>4. PICK k \in Nat : k = Min({Unlisted(a), MaxBalances})
  <2>1. MaxBalances \in Nat
    BY ScriptAssumption
  <2>2. PICK u \in Nat, l \in Nat : u = Unlisted(a) /\ l = MaxBalances
    BY <1>1, <2>1
  <2>3. Min({u, l}) = IF u <= l THEN u ELSE l
    BY Extremes
  <2>4. QED
    BY <2>2, <2>3
<1>5. PICK m \in Nat : m = Len(a.balances)
  BY DEF IsAnalysis
<1>6. PICK u \in Nat : u = Unlisted(a)
  BY <1>1
<1>7. PICK f : f = [i \in 1 .. m |-> a.balances[i] * u]
  OBVIOUS
<1>8. PICK g : g = [i \in 1 .. k |-> rest]
  OBVIOUS
<1>9. f \in Seq(Nat) /\ g \in Seq(Nat) /\ Len(f) = m
  BY <1>5, <1>7, <1>8 DEF IsAnalysis
<1>10. BalancesOf(a) = f \o g
  BY <1>3, <1>4, <1>5, <1>6, <1>7, <1>8 DEF BalancesOf
<1>11. PICK n \in Nat : n = Len(f \o g)
  BY <1>9, Longer
<1>12. n >= m
  BY <1>9, <1>11, Longer
<1>13. DOMAIN (f \o g) = 1 .. n /\ \A i \in 1 .. n : (f \o g)[i] \in Nat
  BY <1>9, <1>11, Longer
<1>14. PICK b : b = f \o g
  OBVIOUS
<1>15. \A i \in 1 .. n : b[i] \in Int /\ b[i] >= 0
  BY <1>13, <1>14
<1>16. IsBalances(b, n)
  BY <1>11, <1>13, <1>14, <1>15 DEF IsBalances
<1>17. QED
  BY <1>5, <1>10, <1>12, <1>14, <1>15, <1>16

LEMMA AtLeast ==
  ASSUME NEW x \in Int, NEW d \in Int, d > 0, NEW c \in Int
  PROVE  x \div d \in Int /\ (x \div d >= c <=> x >= c * d)
<1>1. PICK q \in Int, r \in Int : q = x \div d /\ r = x % d
  OBVIOUS
<1>2. x = (q * d) + r /\ 0 <= r /\ r < d
  BY <1>1
<1>3. CASE q >= c
  <2>1. PICK e \in Nat : q = c + e
    <3>1. q - c \in Nat /\ q = c + (q - c)
      BY <1>3
    <3>2. QED
      BY <3>1
  <2>2. q * d = (c * d) + (e * d) /\ e * d \in Int /\ e * d >= 0 /\ c * d \in Int
    BY <2>1
  <2>3. QED
    BY <1>1, <1>2, <1>3, <2>2
<1>4. CASE q < c
  <2>1. PICK e \in Nat : c = (q + 1) + e
    <3>1. c - (q + 1) \in Nat /\ c = (q + 1) + (c - (q + 1))
      BY <1>4
    <3>2. QED
      BY <3>1
  <2>2. c * d = (q * d) + d + (e * d) /\ e * d \in Int /\ e * d >= 0 /\ q * d \in Int
    BY <2>1
  <2>3. QED
    BY <1>1, <1>2, <1>4, <2>2
<1>5. QED
  BY <1>3, <1>4

\* Extreme is what is at least 0.85 of the largest mean difference.
LEMMA ExtremeIsLarge ==
  ASSUME NEW a, IsAnalysis(a), Measured(a)
  PROVE  LET b == BalancesOf(a)
             whole == Len(b) * TotalOf(b)
             apart == PairDifferences(b)
         IN  /\ Weighted(b) = apart /\ apart <= whole
             /\ (GiniClassOf(HoldingOf(a)) = "extreme"
                   <=> a.token.holders >= 2 /\ whole > 0 /\ 100 * apart >= 85 * whole)
<1>1. PICK b : b = BalancesOf(a)
  OBVIOUS
<1>2. PICK n \in Nat : /\ n >= 2 /\ IsBalances(b, n) /\ \A i \in 1 .. n : b[i] >= 0
  BY <1>1, BalancesAreCounted DEF Measured, IsAnalysis
<1>3. PICK t \in Nat, p \in Int : t = TotalOf(b) /\ p = PairDifferences(b)
  BY <1>2, PairsAreBounded
<1>4. Weighted(b) = p
  BY <1>2, <1>3, WeightedIsPairs
<1>5. PICK w \in Int : w = n * t
  BY <1>2, <1>3
<1>6. p <= w
  BY <1>2, <1>3, <1>5, PairsAreBounded
<1>7. w > 0 <=> t # 0
  BY <1>2, <1>5
<1>8. Len(b) = n
  BY <1>2 DEF IsBalances
<1>9. PICK gini : gini = GiniOf(HoldingOf(a))
  OBVIOUS
<1>10. gini = IF a.token.holders < 2 \/ t = 0 THEN 0 ELSE (100 * p) \div w
  BY <1>1, <1>3, <1>4, <1>5, <1>8, <1>9 DEF GiniOf, HoldingOf
<1>11. GiniClassOf(HoldingOf(a)) = "extreme" <=> gini \in Int /\ gini >= 85
  <2>1. gini \in Int
    <3>1. CASE a.token.holders < 2 \/ t = 0
      BY <1>10, <3>1
    <3>2. CASE ~(a.token.holders < 2 \/ t = 0)
      BY <1>7, <1>10, <3>2, AtLeast
    <3>3. QED
      BY <3>1, <3>2
  <2>2. QED
    BY <1>9, <2>1 DEF GiniClassOf
<1>12. gini \in Int /\ gini >= 85
         <=> a.token.holders >= 2 /\ w > 0 /\ 100 * p >= 85 * w
  <2>1. CASE a.token.holders < 2 \/ t = 0
    BY <1>7, <1>10, <2>1 DEF IsAnalysis
  <2>2. CASE ~(a.token.holders < 2 \/ t = 0)
    <3>1. w > 0 /\ a.token.holders >= 2
      BY <1>7, <2>2 DEF IsAnalysis
    <3>2. 100 * p \in Int /\ 85 \in Int
      OBVIOUS
    <3>3. (100 * p) \div w \in Int /\ ((100 * p) \div w >= 85 <=> 100 * p >= 85 * w)
      BY <3>1, <3>2, AtLeast
    <3>4. QED
      BY <1>10, <2>2, <3>1, <3>3
  <2>3. QED
    BY <2>1, <2>2
<1>13. QED
  BY <1>1, <1>3, <1>4, <1>5, <1>6, <1>8, <1>11, <1>12

\* A finding tells of extreme concentration if an analysis is classified so.
IsExtreme(a) == Measured(a) /\ GiniClassOf(HoldingOf(a)) = "extreme"

LEMMA FindingsTell ==
  ASSUME NEW n, NEW tokens, NEW list
  PROVE  (\E f \in MetricFindings(n, tokens, list) : f.category = "extreme-gini-concentration")
           <=> \E i \in DOMAIN list : IsExtreme(list[i])
<1>1. PICK f1 : f1 = [category |-> "network-emission-status",
                      severity |-> IF DeflationOf(n).isDeflationary THEN "INFO" ELSE "LOW"]
  OBVIOUS
<1>2. PICK f2 : f2 = [category |-> "dormant-tokens-detected", severity |-> "LOW"]
  OBVIOUS
<1>3. PICK f3 : f3 = [category |-> "high-velocity-tokens", severity |-> "INFO"]
  OBVIOUS
<1>4. PICK f4 : f4 = [category |-> "extreme-gini-concentration", severity |-> "HIGH"]
  OBVIOUS
<1>5. PICK f5 : f5 = [category |-> "network-health-score",
                      severity |-> SeverityOf(HealthOf(n, tokens))]
  OBVIOUS
<1>6. PICK extreme \in BOOLEAN : extreme <=> "extreme" \in GinisOf(list)
  OBVIOUS
<1>7. MetricFindings(n, tokens, list)
        \subseteq {f1, f2, f3, f5} \cup (IF extreme THEN {f4} ELSE {})
  BY <1>1, <1>2, <1>3, <1>4, <1>5, <1>6, Zenon DEF MetricFindings
<1>8. extreme => f4 \in MetricFindings(n, tokens, list)
  BY <1>4, <1>6, Zenon DEF MetricFindings
<1>9. /\ f4.category = "extreme-gini-concentration"
      /\ \A f \in {f1, f2, f3, f5} : f.category # "extreme-gini-concentration"
  BY <1>1, <1>2, <1>3, <1>4, <1>5
<1>10. extreme <=> \E i \in DOMAIN list : IsExtreme(list[i])
  BY <1>6 DEF GinisOf, IsExtreme
<1>11. QED
  BY <1>7, <1>8, <1>9, <1>10

Found(found, list) == \E n, tokens : found = MetricFindings(n, tokens, list)

AnalysesInv ==
  /\ \A i \in DOMAIN analyses : IsAnalysis(analyses[i])
  /\ findings # {} => doing # "collect" /\ step = Len(Phases) /\ Found(findings, analyses)

LEMMA AnalysesAreKnown ==
  ASSUME RequestInv, NEW i \in DOMAIN Analyses
  PROVE  IsAnalysis(Analyses[i])
<1>1. /\ Analyses[i] = [token |-> Tokens[i], supply |-> Tokens[i].supply,
                        balances |-> ValueOf(Id("tokenHolders", i), <<>>)]
      /\ i \in 1 .. Analyzed /\ IsList(Tokens) /\ Analyzed \in Nat /\ i \in 1 .. Len(Tokens)
  <2>1. IsList(Tokens) /\ Analyzed \in Nat
    BY AnalysesAreFinite
  <2>2. Analyzed <= Len(Tokens)
    BY <2>1, LeastIsCount, ScriptAssumption DEF Analyzed, IsList
  <2>3. QED
    BY <2>1, <2>2 DEF Analyses, IsList
<1>2. Tokens[i].holders \in Nat /\ Tokens[i].supply \in Nat
  <2>1. PICK r : r = Id("tokens", 1)
    OBVIOUS
  <2>2. r.asks = "tokens" /\ i \in DOMAIN Tokens
    BY <1>1, <2>1 DEF Id, IsList
  <2>3. CASE Has(r)
    <3>1. request[r].value \in Answers["tokens"] /\ Tokens = request[r].value
      BY <2>1, <2>2, <2>3 DEF Has, RequestInv, Tokens, ValueOf
    <3>2. QED
      BY <2>2, <3>1, AnswersAssumption
  <2>4. CASE ~Has(r)
    <3>1. Tokens = <<>>
      BY <2>1, <2>4 DEF Tokens, ValueOf
    <3>2. QED
      BY <2>2, <3>1
  <2>5. QED
    BY <2>3, <2>4
<1>3. PICK list : list = ValueOf(Id("tokenHolders", i), <<>>)
  OBVIOUS
<1>4. IsList(list) /\ \A j \in DOMAIN list : list[j] \in Nat
  <2>1. PICK r : r = Id("tokenHolders", i)
    OBVIOUS
  <2>2. r.asks = "tokenHolders"
    BY <2>1 DEF Id
  <2>3. CASE Has(r)
    <3>1. request[r].value \in Answers["tokenHolders"] /\ list = request[r].value
      BY <1>3, <2>1, <2>2, <2>3 DEF Has, RequestInv, ValueOf
    <3>2. QED
      BY <3>1, AnswersAssumption DEF IsList
  <2>4. CASE ~Has(r)
    <3>1. list = <<>>
      BY <1>3, <2>1, <2>4 DEF ValueOf
    <3>2. QED
      BY <3>1 DEF IsList
  <2>5. QED
    BY <2>3, <2>4
<1>5. /\ Analyses[i].balances = list /\ Analyses[i].supply = Tokens[i].supply
      /\ Analyses[i].token = Tokens[i]
  BY <1>1, <1>3
<1>6. QED
  BY <1>2, <1>4, <1>5 DEF IsAnalysis, IsList

LEMMA InitAnalyses == Init => AnalysesInv
BY DEF Init, AnalysesInv

LEMMA NextAnalyses == RequestInv /\ StoreInv /\ AnalysesInv /\ [Next]_vars => AnalysesInv'
<1> SUFFICES ASSUME RequestInv, StoreInv, AnalysesInv, [Next]_vars
             PROVE  AnalysesInv'
  OBVIOUS
<1>1. Len(Phases) = 6
  BY DEF Phases
<1>2. CASE IngestTrc20
  <2>1. analyses' = Analyses /\ findings' = findings /\ doing = "collect"
    BY <1>2 DEF IngestTrc20
  <2>2. findings' = {}
    BY <2>1 DEF AnalysesInv
  <2>3. \A i \in DOMAIN analyses' : IsAnalysis(analyses'[i])
    BY <2>1, AnalysesAreKnown
  <2>4. QED
    BY <2>2, <2>3 DEF AnalysesInv
<1>3. CASE Analyze
  <2>1. /\ analyses' = analyses /\ doing' = "persist" /\ step' = step /\ Phase = "analytics"
        /\ Found(findings', analyses)
    BY <1>3, Zenon DEF Analyze, Found
  <2>2. step = Len(Phases)
    BY <1>1, <2>1, PhasesInOrder DEF StoreInv, Phase
  <2>3. QED
    BY <2>1, <2>2 DEF AnalysesInv
<1>4. CASE EndPhase
  <2>1. analyses' = analyses /\ findings' = findings /\ doing = "persist" /\ NextPhase
    BY <1>4 DEF EndPhase
  <2>2. step = Len(Phases) => step' = Len(Phases) /\ doing' = "end"
    BY <1>1, <2>1 DEF NextPhase, MinOf
  <2>3. QED
    BY <2>1, <2>2 DEF AnalysesInv
<1>5. CASE Skip \/ IngestNetwork \/ IngestOther
  BY <1>5 DEF AnalysesInv, Skip, IngestNetwork, IngestOther
<1>6. CASE UNCHANGED <<step, doing, analyses, findings>>
  BY <1>6 DEF AnalysesInv
<1>7. QED
  BY <1>2, <1>3, <1>4, <1>5, <1>6
     DEF Next, ScriptStep, StartRound, InsertChunk, Persisted, FailChunk, RequestStep, vars,
     scriptVars

LEMMA GiniOfKnown == AnalysesInv => GiniIsMeanDifference
<1> SUFFICES ASSUME AnalysesInv, findings # {}
             PROVE  GiniIsMeanDifference
  BY DEF GiniIsMeanDifference
<1> DEFINE whole(i) == Len(BalancesOf(analyses[i])) * TotalOf(BalancesOf(analyses[i]))
           apart(i) == PairDifferences(BalancesOf(analyses[i]))
           extreme(i) == /\ analyses[i].token.holders >= 2 /\ whole(i) > 0
                         /\ 100 * apart(i) >= 85 * whole(i)
<1>1. ASSUME NEW i \in MeasuredAnalyses
      PROVE  /\ Weighted(BalancesOf(analyses[i])) = apart(i) /\ apart(i) <= whole(i)
             /\ IsExtreme(analyses[i]) <=> extreme(i)
  <2>1. PICK a : a = analyses[i]
    OBVIOUS
  <2>2. IsAnalysis(a) /\ Measured(a)
    BY <2>1 DEF AnalysesInv, MeasuredAnalyses
  <2>3. LET b == BalancesOf(a)
        IN  /\ Weighted(b) = PairDifferences(b) /\ PairDifferences(b) <= Len(b) * TotalOf(b)
            /\ (GiniClassOf(HoldingOf(a)) = "extreme"
                  <=> /\ a.token.holders >= 2 /\ Len(b) * TotalOf(b) > 0
                      /\ 100 * PairDifferences(b) >= 85 * (Len(b) * TotalOf(b)))
    BY <2>2, ExtremeIsLarge, Zenon
  <2>4. QED
    BY <2>1, <2>2, <2>3, Zenon DEF IsExtreme
<1> HIDE DEF whole, apart, extreme
<1>2. (\E i \in MeasuredAnalyses : extreme(i))
        <=> \E f \in findings : f.category = "extreme-gini-concentration"
  <2>1. PICK n, tokens : findings = MetricFindings(n, tokens, analyses)
    BY DEF AnalysesInv, Found
  <2>2. (\E f \in findings : f.category = "extreme-gini-concentration")
          <=> \E i \in DOMAIN analyses : IsExtreme(analyses[i])
    BY <2>1, FindingsTell
  <2>3. QED
    BY <1>1, <2>2 DEF MeasuredAnalyses, IsExtreme
<1>3. QED
  BY <1>1, <1>2, Zenon DEF GiniIsMeanDifference, whole, apart, extreme

(***************************************************************************)
(* For any tokens, holders and balances, and whatever requests fail, the   *)
(* weights that approximateGini gives to the sorted balances make the mean *)
(* difference of the holders, the bounds 0 and 1 never cut it, and         *)
(* tron-audit.ts stores a finding of extreme concentration exactly if that *)
(* difference is, for a token it measured, at least 0.85 of its largest.   *)
(***************************************************************************)
THEOREM GiniIsAlwaysMeanDifference == Spec => []GiniIsMeanDifference
<1>1. RequestInv /\ Lists /\ StoreInv /\ AnalysesInv /\ [Next]_vars => AnalysesInv'
  BY NextAnalyses
<1>2. Spec => []AnalysesInv
  BY <1>1, InitAnalyses, StoresAreSound, PTL DEF Spec
<1>3. QED
  BY <1>2, GiniOfKnown, PTL
-----------------------------------------------------------------------------
(***************************************************************************)
(* The score of the network.                                               *)
(***************************************************************************)
\* A half is rounded up.
LEMMA RoundedIs ==
  ASSUME NEW a \in Int, NEW b \in Nat \ {0}
  PROVE  /\ Rounded(a, b) \in Int
         /\ 2 * b * Rounded(a, b) <= 2 * a + b
         /\ 2 * a + b < 2 * b * (Rounded(a, b) + 1)
BY DEF Rounded

\* The fraction a / b is closer to a number from low to high than to any other.
IsNear(a, b, low, high) == (2 * low - 1) * b <= 2 * a /\ 2 * a < (2 * high + 1) * b

\* Rounding keeps to bounds that are whole.
LEMMA RoundedWithin ==
  ASSUME NEW a \in Int, NEW b \in Nat \ {0}, NEW low \in Int, NEW high \in Int,
         IsNear(a, b, low, high)
  PROVE  Rounded(a, b) \in low .. high
<1>1. PICK r \in Int : r = Rounded(a, b)
  BY RoundedIs
<1>2. 2 * b * r <= 2 * a + b /\ 2 * a + b < 2 * b * (r + 1)
  BY <1>1, RoundedIs
<1>3. 2 * b * r < 2 * b * (high + 1)
  BY <1>2 DEF IsNear
<1>4. 2 * b * low < 2 * b * (r + 1)
  BY <1>2 DEF IsNear
<1>5. r < high + 1
  BY <1>3
<1>6. low < r + 1
  BY <1>4
<1>7. QED
  BY <1>1, <1>5, <1>6

LEMMA RoundedGrows ==
  ASSUME NEW a \in Int, NEW c \in Int, a <= c, NEW b \in Nat \ {0}
  PROVE  Rounded(a, b) <= Rounded(c, b)
<1>1. PICK r \in Int : r = Rounded(a, b)
  BY RoundedIs
<1>2. PICK s \in Int : s = Rounded(c, b)
  BY RoundedIs
<1>3. 2 * b * r <= 2 * a + b /\ 2 * c + b < 2 * b * (s + 1)
  BY <1>1, <1>2, RoundedIs
<1>4. 2 * b * r < 2 * b * (s + 1)
  BY <1>3
<1>5. r < s + 1
  BY <1>4
<1>6. QED
  BY <1>1, <1>2, <1>5

\* What the chain answers is not negative.
IsNetwork(n) ==
  /\ n.staked \in Nat /\ n.pay \in Nat /\ n.partnerPay \in Nat
  /\ n.fee \in Nat /\ n.maxFactor \in Nat /\ n.limit \in Nat /\ n.weight \in Nat

LEMMA StakingWithin ==
  ASSUME NEW n, IsNetwork(n)
  PROVE  StakingScore(n) \in Int /\ 0 <= StakingScore(n) /\ StakingScore(n) <= 20000
<1>1. PICK s \in Nat : s = n.staked
  BY DEF IsNetwork
<1>2. CASE s < 1000
  <2>1. PICK r \in 0 .. 30 : r = Rounded(3 * s, 100)
    BY <1>2 DEF Rounded
  <2>2. StakingScore(n) = 200 * r
    BY <1>1, <1>2, <2>1 DEF StakingScore
  <2>3. QED
    BY <2>2
<1>3. CASE 1000 <= s /\ s < 3000
  <2>1. StakingScore(n) = 6000 + 4 * (s - 1000)
    BY <1>1, <1>3 DEF StakingScore
  <2>2. QED
    BY <1>3, <2>1
<1>4. CASE 3000 <= s /\ s < 5000
  <2>1. StakingScore(n) = 14000 + 3 * (s - 3000)
    BY <1>1, <1>4 DEF StakingScore
  <2>2. QED
    BY <1>4, <2>1
<1>5. CASE s >= 5000
  <2>1. StakingScore(n) = 20000
    BY <1>1, <1>5 DEF StakingScore
  <2>2. QED
    BY <2>1
<1>6. s < 1000 \/ (1000 <= s /\ s < 3000) \/ (3000 <= s /\ s < 5000) \/ s >= 5000
  OBVIOUS
<1>7. QED
  BY <1>2, <1>3, <1>4, <1>5, <1>6

\* More staked TRX never lowers the score, across its four formulas.
LEMMA StakingGrows ==
  ASSUME NEW n, IsNetwork(n), NEW more, IsNetwork(more), n.staked <= more.staked
  PROVE  StakingScore(n) <= StakingScore(more)
<1>1. PICK s \in Nat : s = n.staked
  BY DEF IsNetwork
<1>2. PICK t \in Nat : t = more.staked
  BY DEF IsNetwork
<1>3. s <= t
  BY <1>1, <1>2
<1>4. CASE s < 1000
  <2>1. PICK r \in 0 .. 30 : r = Rounded(3 * s, 100)
    BY <1>4 DEF Rounded
  <2>2. CASE t < 1000
    <3>1. PICK q \in 0 .. 30 : q = Rounded(3 * t, 100)
      BY <2>2 DEF Rounded
    <3>2. r <= q
      BY <1>3, <2>1, <3>1, RoundedGrows
    <3>3. QED
      BY <1>1, <1>2, <1>4, <2>1, <2>2, <3>1, <3>2 DEF StakingScore
  <2>3. QED
    BY <1>1, <1>2, <1>4, <2>1, <2>2 DEF StakingScore
<1>5. QED
  BY <1>1, <1>2, <1>3, <1>4 DEF StakingScore

\* The parts a score of decentralization and the whole are counted in.
PartOf(n) == IF n.pay = 0 \/ n.partnerPay = 0 THEN 1 ELSE 6 * n.partnerPay

LEMMA DecentralizationWithin ==
  ASSUME NEW n, IsNetwork(n)
  PROVE  /\ PartOf(n) \in Nat \ {0}
         /\ DecentralizationScore(n) \in Int
         /\ 10 * PartOf(n) <= DecentralizationScore(n)
         /\ DecentralizationScore(n) <= 100 * PartOf(n)
<1>1. PICK a \in Nat : a = n.pay
  BY DEF IsNetwork
<1>2. PICK b \in Nat : b = n.partnerPay
  BY DEF IsNetwork
<1>3. CASE a = 0 \/ b = 0
  <2>1. DecentralizationScore(n) = 50 /\ PartOf(n) = 1
    BY <1>1, <1>2, <1>3 DEF DecentralizationScore, PartOf
  <2>2. QED
    BY <2>1
<1>4. CASE a # 0 /\ b # 0
  <2>1. PartOf(n) = 6 * b
    BY <1>1, <1>2, <1>4 DEF PartOf
  <2>2. DecentralizationScore(n) =
          IF a <= 5 * b THEN 600 * b
          ELSE IF a <= 20 * b THEN 360 * b + 16 * (20 * b - a)
          ELSE IF a <= 100 * b THEN 120 * b + 3 * (100 * b - a)
          ELSE 60 * b
    BY <1>1, <1>2, <1>4 DEF DecentralizationScore
  <2>3. PICK d : d = DecentralizationScore(n)
    OBVIOUS
  <2>4. d \in Int /\ 60 * b <= d /\ d <= 600 * b
    BY <1>4, <2>2, <2>3
  <2>5. QED
    BY <1>4, <2>1, <2>3, <2>4
<1>5. QED
  BY <1>3, <1>4

\* scoreEnergyMarket never reaches its bound at 0.
LEMMA EnergyWithin ==
  ASSUME NEW n, IsNetwork(n)
  PROVE  EnergyScore(n) \in 30 .. 100
<1>1. PICK f \in Nat : f = n.fee
  BY DEF IsNetwork
<1>2. PICK x \in Nat : x = n.maxFactor
  BY DEF IsNetwork
<1>3. EnergyScore(n) = 100 - (IF f >= 1000 THEN 40 ELSE IF f >= 420 THEN 20 ELSE 0)
                           - (IF x >= 10 THEN 30 ELSE IF x > 1 THEN 10 ELSE 0)
  BY <1>1, <1>2 DEF EnergyScore
<1>4. QED
  BY <1>3

LEMMA DiversityWithin ==
  ASSUME NEW tokens
  PROVE  DiversityScore(tokens) \in 15 .. 80
BY DEF DiversityScore

LEMMA EmissionWithin ==
  ASSUME NEW d
  PROVE  EmissionScore(d) \in 25 .. 100
BY DEF EmissionScore

(***************************************************************************)
(* For any network whose parameters are not negative, and any tokens, the  *)
(* rounded score of computeHealthScore is from 17 to 97: it stays in the   *)
(* scale of 0 to 100 without being cut, and never reaches either end.      *)
(***************************************************************************)
THEOREM HealthIsWithin ==
  ASSUME NEW n, IsNetwork(n), NEW tokens
  PROVE  HealthOf(n, tokens) \in 17 .. 97
<1>1. PICK p \in Nat \ {0} : p = PartOf(n)
  BY DecentralizationWithin
<1>2. PICK s \in Int : s = StakingScore(n) /\ 0 <= s /\ s <= 20000
  BY StakingWithin
<1>3. PICK d \in Int : d = DecentralizationScore(n) /\ 10 * p <= d /\ d <= 100 * p
  BY <1>1, DecentralizationWithin
<1>4. PICK e \in 30 .. 100 : e = EnergyScore(n)
  BY EnergyWithin
<1>5. PICK t \in 15 .. 80 : t = DiversityScore(tokens)
  BY DiversityWithin
<1>6. PICK m \in 25 .. 100 : m = EmissionScore(DeflationOf(n))
  BY EmissionWithin
<1> DEFINE parts == 20 * (p * s + 200 * d + 200 * p * e) + 200 * p * (15 * t + 25 * m)
<1>7. HealthOf(n, tokens) = Rounded(parts, 20000 * p)
  BY <1>1, <1>2, <1>3, <1>4, <1>5, <1>6 DEF HealthOf, PartOf
<1>8. /\ 0 <= p * s /\ p * s <= 20000 * p
      /\ 30 * p <= p * e /\ p * e <= 100 * p
      /\ 450 * p <= 15 * (p * t) + 225 * p /\ p * t <= 80 * p /\ 15 * p <= p * t
      /\ 25 * p <= p * m /\ p * m <= 100 * p
      /\ p * s \in Int /\ p * e \in Int /\ p * t \in Int /\ p * m \in Int
  BY <1>2
<1>9. parts = 20 * (p * s) + 4000 * d + 4000 * (p * e) + 3000 * (p * t) + 5000 * (p * m)
  OBVIOUS
<1> HIDE DEF parts
<1>10. PICK x \in Int : x = parts /\ 330000 * p <= x /\ x <= 1940000 * p
  <2>1. PICK ps \in Int : ps = p * s
    BY <1>8
  <2>2. PICK pe \in Int : pe = p * e
    BY <1>8
  <2>3. PICK pt \in Int : pt = p * t
    BY <1>8
  <2>4. PICK pm \in Int : pm = p * m
    BY <1>8
  <2>5. 0 <= ps /\ 30 * p <= pe /\ 15 * p <= pt /\ 25 * p <= pm
    BY <1>8, <2>1, <2>2, <2>3, <2>4
  <2>6. ps <= 20000 * p /\ pe <= 100 * p /\ pt <= 80 * p /\ pm <= 100 * p
    BY <1>8, <2>1, <2>2, <2>3, <2>4
  <2>7. parts = 20 * ps + 4000 * d + 4000 * pe + 3000 * pt + 5000 * pm
    BY <1>9, <2>1, <2>2, <2>3, <2>4
  <2>8. QED
    BY <1>3, <2>5, <2>6, <2>7
<1>11. PICK b \in Nat \ {0} : b = 20000 * p
  OBVIOUS
<1>12. PICK low \in Int : low = 17
  OBVIOUS
<1>13. PICK high \in Int : high = 97
  OBVIOUS
<1>14. IsNear(x, b, low, high)
  <2>1. 33 * b <= 2 * x /\ 2 * x < 195 * b
    BY <1>10, <1>11
  <2>2. 2 * low - 1 = 33 /\ 2 * high + 1 = 195
    BY <1>12, <1>13
  <2>3. QED
    BY <2>1, <2>2 DEF IsNear
<1>15. Rounded(x, b) \in low .. high
  BY <1>14, RoundedWithin
<1>16. QED
  BY <1>7, <1>10, <1>11, <1>12, <1>13, <1>15

\* Networks that differ at most in what is staked.
LikeNetworks(n, more) ==
  /\ n.pay = more.pay /\ n.partnerPay = more.partnerPay
  /\ n.fee = more.fee /\ n.maxFactor = more.maxFactor
  /\ n.limit = more.limit /\ n.weight = more.weight

(***************************************************************************)
(* Of two networks that differ only in what is staked, computeHealthScore  *)
(* never gives the one with more staked the lower score: no step between   *)
(* the four formulas of scoreStaking, and no rounding, turns the order.    *)
(***************************************************************************)
THEOREM StakingNeverLowersHealth ==
  ASSUME NEW n, IsNetwork(n), NEW more, IsNetwork(more), LikeNetworks(n, more),
         n.staked <= more.staked, NEW tokens
  PROVE  HealthOf(n, tokens) <= HealthOf(more, tokens)
<1>1. PICK p \in Nat \ {0} : p = PartOf(n)
  BY DecentralizationWithin
<1>2. PICK s \in Int : s = StakingScore(n)
  BY StakingWithin
<1>3. PICK r \in Int : r = StakingScore(more)
  BY StakingWithin
<1>4. s <= r
  BY <1>2, <1>3, StakingGrows
<1>5. PICK d \in Int : d = DecentralizationScore(n)
  BY DecentralizationWithin
<1>6. PICK e \in Int : e = EnergyScore(n)
  BY EnergyWithin
<1>7. PICK t \in Int : t = DiversityScore(tokens)
  BY DiversityWithin
<1>8. PICK m \in Int : m = EmissionScore(DeflationOf(n))
  BY EmissionWithin
<1>9. /\ PartOf(more) = p
      /\ DecentralizationScore(more) = d
      /\ EnergyScore(more) = e
      /\ EmissionScore(DeflationOf(more)) = m
  <2>1. PartOf(more) = p
    BY <1>1 DEF PartOf, LikeNetworks
  <2>2. DecentralizationScore(more) = d
    BY <1>5 DEF DecentralizationScore, LikeNetworks
  <2>3. EnergyScore(more) = e
    BY <1>6 DEF EnergyScore, LikeNetworks
  <2>4. DeflationOf(more) = DeflationOf(n)
    BY DEF DeflationOf, BurnedSun, LikeNetworks
  <2>5. QED
    BY <1>8, <2>1, <2>2, <2>3, <2>4
<1> DEFINE parts(staking) ==
      20 * (p * staking + 200 * d + 200 * p * e) + 200 * p * (15 * t + 25 * m)
<1>10. HealthOf(n, tokens) = Rounded(parts(s), 20000 * p)
  BY <1>1, <1>2, <1>5, <1>6, <1>7, <1>8 DEF HealthOf, PartOf
<1>11. HealthOf(more, tokens) = Rounded(parts(r), 20000 * p)
  BY <1>3, <1>7, <1>9 DEF HealthOf, PartOf
<1>12. PICK x \in Int : x = parts(s)
  OBVIOUS
<1>13. PICK y \in Int : y = parts(r)
  OBVIOUS
<1>14. x <= y
  <2>1. p * s <= p * r
    BY <1>4
  <2>2. y - x = 20 * (p * r) - 20 * (p * s)
    BY <1>12, <1>13
  <2>3. QED
    BY <2>1, <2>2
<1> HIDE DEF parts
<1>15. PICK b \in Nat \ {0} : b = 20000 * p
  OBVIOUS
<1>16. Rounded(x, b) <= Rounded(y, b)
  BY <1>14, RoundedGrows
<1>17. QED
  BY <1>10, <1>11, <1>12, <1>13, <1>15, <1>16
=============================================================================
