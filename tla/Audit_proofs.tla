---------------------------- MODULE Audit_proofs ----------------------------
(***************************************************************************)
(* Proofs about RateLimits and about Audit, whose requests pass a limiter  *)
(* first.                                                                  *)
(*                                                                         *)
(* The limiters: no key lets more calls through in a window than its       *)
(* limit, for any number of calls and keys and any times that              *)
(* TimesAssumption allows.  A row that a call has charged is not changed   *)
(* until the call ends (Locked), and is not deleted either, for a row that *)
(* has expired is of a window that is over for every transaction that may  *)
(* still be open (Timely).  So the count a call has read is the count it   *)
(* increments, and a row has let through no more than it has counted, as   *)
(* long as it may be charged (Counted).                                    *)
(***************************************************************************)
EXTENDS Audit, FiniteSetTheorems, TLAPS

OpenCalls == {c \in Calls : call[c].pc \in Open}

Gone(r) == r[1] \in StrictKeys /\ r[2] + Retention < now

Timely ==
  \A c \in Calls :
    /\ call[c].pc \in Open =>
         /\ call[c].at <= now /\ now <= call[c].at + Stall
         /\ call[c].step <= Len(KeysOf[c])
    /\ call[c].pc \notin Open => call[c].over = {}
    /\ call[c].pc # "charging" => call[c].gone = {}
    /\ \A r \in call[c].gone : Gone(r)

Locked ==
  /\ \A c, d \in Calls : c # d => Charged(c) \cap Charged(d) = {}
  /\ \A c \in Calls :
       call[c].over = {r \in Charged(c) : count[r] + 1 > Limit[r[1]]}

Counted ==
  \A r \in Rows :
    /\ passed[r] <= Limit[r[1]]
    /\ Gone(r) \/ passed[r] <= count[r]
    /\ r[1] \notin StrictKeys =>
         signals[r] = IF count[r] > Limit[r[1]] THEN count[r] - Limit[r[1]] ELSE 0

LimitInv == LimitTypeOK /\ Timely /\ Locked /\ Counted

-----------------------------------------------------------------------------
\* A window starts no later than the time it holds, and ends after it.
LEMMA WindowOf ==
  ASSUME NEW t \in 0 .. MaxTime
  PROVE  /\ StartOf(t) \in 0 .. MaxTime
         /\ StartOf(t) <= t
         /\ t < StartOf(t) + Window
<1>1. t % Window \in Nat /\ t % Window < Window
  BY TimesAssumption
<1>2. t % Window <= t
  BY TimesAssumption
<1>3. QED
  BY <1>1, <1>2, TimesAssumption DEF StartOf

LEMMA KeyTyping ==
  ASSUME NEW c \in Calls
  PROVE  /\ Len(KeysOf[c]) \in Nat
         /\ \A i \in 1 .. Len(KeysOf[c]) : KeysOf[c][i] \in Keys
BY CallsAssumption

\* A row that has been charged has not expired.
LEMMA ChargedIsLive ==
  ASSUME LimitTypeOK, Timely, NEW c \in Calls, NEW r \in Charged(c)
  PROVE  r \in Rows /\ ~Gone(r)
<1>1. r \in Rows /\ call[c].pc \in Open /\ r[2] = StartOf(call[c].at)
  BY DEF Charged, Row
<1>2. call[c].at \in 0 .. MaxTime /\ now \in 0 .. MaxTime
  BY DEF LimitTypeOK
<1>3. StartOf(call[c].at) \in Int /\ call[c].at < StartOf(call[c].at) + Window
  BY <1>2, WindowOf
<1>4. now <= call[c].at + Stall
  BY <1>1 DEF Timely
<1>5. now <= r[2] + Retention
  BY <1>1, <1>2, <1>3, <1>4, TimesAssumption
<1>6. QED
  BY <1>1, <1>2, <1>3, <1>5, TimesAssumption DEF Gone

\* A row of a counted call is of no strict key.
LEMMA StrictCharge ==
  ASSUME LimitTypeOK, NEW c \in Calls, NEW r \in Charged(c)
  PROVE  r[1] \in StrictKeys <=> c \in Strict
<1>1. PICK i \in 1 .. Len(KeysOf[c]) : r = Row(c, i)
  BY DEF Charged
<1>2. r[1] = KeysOf[c][i]
  BY <1>1 DEF Row
<1>3. c \in Strict => r[1] \in StrictKeys
  BY <1>1, <1>2 DEF StrictKeys
<1>4. ASSUME r[1] \in StrictKeys, c \notin Strict PROVE FALSE
  <2>1. PICK d \in Strict : \E j \in 1 .. Len(KeysOf[d]) : r[1] = KeysOf[d][j]
    BY <1>4 DEF StrictKeys
  <2>2. QED
    BY <2>1, <1>1, <1>2, <1>4, TablesAssumption
<1>5. QED
  BY <1>3, <1>4

-----------------------------------------------------------------------------
LEMMA InitInv == LimitInit => LimitInv
<1> SUFFICES ASSUME LimitInit PROVE LimitInv
  OBVIOUS
<1>1. \A c \in Calls : call[c] = NoCall
  BY DEF LimitInit
<1>2. \A c \in Calls : Charged(c) = {}
  BY <1>1 DEF Charged, NoCall, CallAt, Open
<1>3. LimitTypeOK
  BY TimesAssumption DEF LimitInit, LimitTypeOK, NoCall, CallAt
<1>4. Timely
  BY <1>1 DEF Timely, NoCall, CallAt, Open
<1>5. Locked
  BY <1>1, <1>2 DEF Locked, NoCall, CallAt
<1>6. Counted
  <2>1. \A r \in Rows : Limit[r[1]] \in Nat
    BY CallsAssumption DEF Rows
  <2>2. QED
    BY <2>1 DEF LimitInit, Counted
<1>7. QED
  BY <1>3, <1>4, <1>5, <1>6 DEF LimitInv

\* What a step that changes only one call must show.
LEMMA CallStep ==
  ASSUME LimitInv, NEW c \in Calls, NEW t,
         Go(c, t), UNCHANGED <<now, count, passed, signals>>,
         t \in [pc : Open \cup {"new", "admitted", "refused", "failed"},
                at : 0 .. MaxTime, step : Nat,
                over : SUBSET Rows, gone : SUBSET Rows],
         t.pc \in Open => /\ t.at <= now /\ now <= t.at + Stall
                          /\ t.step <= Len(KeysOf[c]),
         t.pc \notin Open => t.over = {},
         t.pc # "charging" => t.gone = {},
         \A r \in t.gone : Gone(r),
         \A d \in Calls \ {c} : Charged(c)' \cap Charged(d) = {},
         t.over = {r \in Charged(c)' : count[r] + 1 > Limit[r[1]]}
  PROVE  LimitInv'
<1>1. call' \in [Calls -> [pc : Open \cup {"new", "admitted", "refused", "failed"},
                           at : 0 .. MaxTime, step : Nat,
                           over : SUBSET Rows, gone : SUBSET Rows]]
  BY DEF LimitInv, LimitTypeOK, Go
<1>2. call'[c] = t /\ \A d \in Calls \ {c} : call'[d] = call[d]
  BY DEF LimitInv, LimitTypeOK, Go
<1>3. \A d \in Calls \ {c} : Charged(d)' = Charged(d)
  BY <1>2 DEF Charged, Row
<1>4. LimitTypeOK'
  BY <1>1 DEF LimitInv, LimitTypeOK
<1>5. Timely'
  BY <1>2 DEF LimitInv, Timely, Gone
<1>6. Locked'
  <2>1. ASSUME NEW d \in Calls, NEW e \in Calls, d # e
        PROVE  Charged(d)' \cap Charged(e)' = {}
    <3>1. CASE d = c
      BY <2>1, <3>1, <1>3
    <3>2. CASE e = c
      BY <2>1, <3>2, <1>3
    <3>3. CASE d # c /\ e # c
      BY <2>1, <3>3, <1>3 DEF LimitInv, Locked
    <3>4. QED
      BY <3>1, <3>2, <3>3
  <2>2. ASSUME NEW d \in Calls
        PROVE  call'[d].over = {r \in Charged(d)' : count'[r] + 1 > Limit[r[1]]}
    <3>1. CASE d = c
      BY <3>1, <1>2
    <3>2. CASE d # c
      BY <3>2, <1>2, <1>3 DEF LimitInv, Locked
    <3>3. QED
      BY <3>1, <3>2
  <2>3. QED
    BY <2>1, <2>2 DEF Locked
<1>7. Counted'
  BY DEF LimitInv, Counted, Gone
<1>8. QED
  BY <1>4, <1>5, <1>6, <1>7 DEF LimitInv
-----------------------------------------------------------------------------
LEMMA OpenCallInv ==
  ASSUME LimitInv, NEW c \in Calls, OpenCall(c)
  PROVE  LimitInv'
<1> DEFINE pc == IF c \in Strict THEN "open" ELSE "charging"
           t == CallAt(pc, now)
<1>1. /\ t.pc = pc /\ t.at = now /\ t.step = 0 /\ t.over = {} /\ t.gone = {}
      /\ t = [pc |-> pc, at |-> now, step |-> 0, over |-> {}, gone |-> {}]
  BY DEF CallAt
<1>2. Go(c, t) /\ UNCHANGED <<now, count, passed, signals>>
  BY DEF OpenCall
<1>3. now \in 0 .. MaxTime
  BY DEF LimitInv, LimitTypeOK
<1>4. call'[c] = t
  BY <1>2 DEF Go, LimitInv, LimitTypeOK
<1>5. Charged(c)' = {}
  <2>1. call'[c].step = 0
    BY <1>1, <1>4
  <2>2. QED
    BY <2>1 DEF Charged
<1>6. t \in [pc : Open \cup {"new", "admitted", "refused", "failed"},
             at : 0 .. MaxTime, step : Nat, over : SUBSET Rows, gone : SUBSET Rows]
  BY <1>1, <1>3 DEF Open
<1>7. t.pc \in Open => /\ t.at <= now /\ now <= t.at + Stall
                       /\ t.step <= Len(KeysOf[c])
  BY <1>1, <1>3, KeyTyping, TimesAssumption
<1> HIDE DEF t
<1>8. QED
  BY <1>1, <1>2, <1>5, <1>6, <1>7, CallStep

LEMMA PurgeInv ==
  ASSUME LimitInv, NEW c \in Calls, Purge(c)
  PROVE  LimitInv'
<1> DEFINE gone == {r \in Expired(call[c].at) : r[1] \in StrictKeys /\ count[r] > 0}
           t == [call[c] EXCEPT !.pc = "charging", !.gone = gone]
<1>1. /\ call[c].pc = "open"
      /\ Go(c, t) /\ UNCHANGED <<now, count, passed, signals>>
  BY DEF Purge
<1>2. call[c] \in [pc : Open \cup {"new", "admitted", "refused", "failed"},
                   at : 0 .. MaxTime, step : Nat, over : SUBSET Rows, gone : SUBSET Rows]
  BY DEF LimitInv, LimitTypeOK
<1>3. /\ t.pc = "charging" /\ t.at = call[c].at /\ t.step = call[c].step
      /\ t.over = call[c].over /\ t.gone = gone
      /\ t \in [pc : Open \cup {"new", "admitted", "refused", "failed"},
                at : 0 .. MaxTime, step : Nat, over : SUBSET Rows, gone : SUBSET Rows]
  BY <1>2 DEF Open, Expired
<1>4. call'[c] = t
  BY <1>1 DEF Go, LimitInv, LimitTypeOK
<1>5. Charged(c)' = Charged(c)
  BY <1>1, <1>3, <1>4 DEF Charged, Row, Open
<1>6. call[c].at <= now /\ now <= call[c].at + Stall /\ call[c].step <= Len(KeysOf[c])
  BY <1>1 DEF LimitInv, Timely, Open
<1>7. \A r \in gone : Gone(r)
  <2>1. now \in Int /\ call[c].at \in Int /\ Retention \in Int
    BY <1>2, TimesAssumption DEF LimitInv, LimitTypeOK
  <2>2. \A r \in Rows : r[2] \in Int
    BY DEF Rows
  <2>3. QED
    BY <1>6, <2>1, <2>2 DEF Gone, Expired
<1>8. \A d \in Calls \ {c} : Charged(c)' \cap Charged(d) = {}
  BY <1>5 DEF LimitInv, Locked
<1>9. t.over = {r \in Charged(c)' : count[r] + 1 > Limit[r[1]]}
  BY <1>3, <1>5 DEF LimitInv, Locked
<1> HIDE DEF t, gone
<1>10. QED
  BY <1>1, <1>3, <1>6, <1>7, <1>8, <1>9, CallStep

LEMMA ChargeInv ==
  ASSUME LimitInv, NEW c \in Calls, Charge(c)
  PROVE  LimitInv'
<1> DEFINE r == Row(c, call[c].step + 1)
           over == call[c].over \cup {q \in {r} : count[q] + 1 > Limit[q[1]]}
           t == [call[c] EXCEPT !.step = call[c].step + 1, !.over = over]
<1>1. /\ call[c].pc = "charging" /\ call[c].step < Len(KeysOf[c])
      /\ Free(c, r)
      /\ UNCHANGED <<now, count, passed, signals>>
  BY DEF Charge
<1>2. call[c] \in [pc : Open \cup {"new", "admitted", "refused", "failed"},
                   at : 0 .. MaxTime, step : Nat, over : SUBSET Rows, gone : SUBSET Rows]
  BY DEF LimitInv, LimitTypeOK
<1>3. Go(c, t)
  BY <1>2 DEF Charge
<1>4. r \in Rows
  BY <1>1, <1>2, WindowOf, KeyTyping DEF Row, Rows
<1>5. over \in SUBSET Rows
  BY <1>2, <1>4
<1> HIDE DEF over, r
<1>6. t.pc = "charging" /\ t.at = call[c].at
  BY <1>1, <1>2
<1>7. t.step = call[c].step + 1 /\ t.over = over /\ t.gone = call[c].gone
  BY <1>2
<1>8. t \in [pc : Open \cup {"new", "admitted", "refused", "failed"},
              at : 0 .. MaxTime, step : Nat, over : SUBSET Rows, gone : SUBSET Rows]
  <2>1. call[c].step + 1 \in Nat
    BY <1>2
  <2>2. QED
    BY <1>2, <1>5, <2>1
<1>9. call'[c] = t
  BY <1>3 DEF Go, LimitInv, LimitTypeOK
<1>10. Charged(c)' = Charged(c) \cup {r}
  <2>1. \A i \in 1 .. Len(KeysOf[c]) :
          i <= call[c].step + 1 <=> i <= call[c].step \/ i = call[c].step + 1
    BY <1>2
  <2>2. call[c].step + 1 \in 1 .. Len(KeysOf[c])
    BY <1>1, <1>2, KeyTyping
  <2>3. \A i \in 1 .. Len(KeysOf[c]) : Row(c, i)' = Row(c, i)
    BY <1>6, <1>7, <1>8, <1>9 DEF Row
  <2> HIDE DEF t
  <2>4. Charged(c)' = {q \in Rows : \E i \in 1 .. Len(KeysOf[c]) :
                          i <= call[c].step + 1 /\ q = Row(c, i)}
    BY <1>6, <1>7, <1>8, <1>9, <2>3 DEF Charged, Open
  <2>5. Charged(c) = {q \in Rows : \E i \in 1 .. Len(KeysOf[c]) :
                          i <= call[c].step /\ q = Row(c, i)}
    BY <1>1 DEF Charged, Open
  <2>6. QED
    BY <2>1, <2>2, <2>4, <2>5, <1>4 DEF r
<1>11. \A d \in Calls \ {c} : Charged(c)' \cap Charged(d) = {}
  BY <1>1, <1>10 DEF LimitInv, Locked, Free, r
<1>12. over = {q \in Charged(c)' : count[q] + 1 > Limit[q[1]]}
  BY <1>10 DEF LimitInv, Locked, over
<1>13. /\ call[c].at <= now /\ now <= call[c].at + Stall
       /\ \A q \in call[c].gone : Gone(q)
  BY <1>1 DEF LimitInv, Timely, Open
<1>14. t.step <= Len(KeysOf[c])
  BY <1>1, <1>2, <1>6, <1>7, <1>8, KeyTyping
<1> HIDE DEF t
<1>15. QED
  BY <1>1, <1>3, <1>6, <1>7, <1>8, <1>11, <1>12, <1>13, <1>14, CallStep DEF Open

\* A call that ends with nothing committed.
LEMMA EndInv ==
  ASSUME LimitInv, NEW c \in Calls, NEW pc \in {"refused", "failed"},
         End(c, pc), UNCHANGED <<now, count, passed, signals>>
  PROVE  LimitInv'
<1> DEFINE t == CallAt(pc, 0)
<1>1. /\ t.pc = pc /\ t.over = {} /\ t.gone = {}
      /\ t = [pc |-> pc, at |-> 0, step |-> 0, over |-> {}, gone |-> {}]
  BY DEF CallAt
<1>2. Go(c, t)
  BY DEF End
<1>3. call'[c] = t
  BY <1>2 DEF Go, LimitInv, LimitTypeOK
<1>4. Charged(c)' = {}
  BY <1>1, <1>3 DEF Charged, Open
<1>5. t \in [pc : Open \cup {"new", "admitted", "refused", "failed"},
             at : 0 .. MaxTime, step : Nat, over : SUBSET Rows, gone : SUBSET Rows]
  BY <1>1, TimesAssumption
<1>6. t.pc \notin Open /\ t.pc # "charging"
  BY <1>1 DEF Open
<1> HIDE DEF t
<1>7. QED
  BY <1>1, <1>2, <1>4, <1>5, <1>6, CallStep

LEMMA CommitInv ==
  ASSUME LimitInv, NEW c \in Calls, Commit(c)
  PROVE  LimitInv'
<1> DEFINE pc == IF call[c].over = {} THEN "admitted" ELSE "refused"
           t == CallAt(pc, 0)
           kept == [r \in Rows |-> IF r \in call[c].gone THEN 0 ELSE count[r]]
<1>1. /\ call[c].pc = "charging" /\ c \in Strict => call[c].over = {}
      /\ count' = Add(kept, Charged(c))
      /\ passed' = Add(passed, {r \in Charged(c) : call[c].over = {}})
      /\ signals' = Add(signals, call[c].over)
      /\ Go(c, t) /\ now' = now
  BY DEF Commit, End
<1>2. /\ t.pc = pc /\ t.over = {} /\ t.gone = {} /\ t.pc \notin Open
      /\ t \in [pc : Open \cup {"new", "admitted", "refused", "failed"},
                at : 0 .. MaxTime, step : Nat, over : SUBSET Rows, gone : SUBSET Rows]
  BY TimesAssumption DEF CallAt, Open
<1> HIDE DEF t, pc
<1>3. call'[c] = t /\ \A d \in Calls \ {c} : call'[d] = call[d]
  BY <1>1 DEF Go, LimitInv, LimitTypeOK
<1>4. Charged(c)' = {} /\ \A d \in Calls \ {c} : Charged(d)' = Charged(d)
  BY <1>2, <1>3 DEF Charged, Row
<1>5. /\ count \in [Rows -> Nat] /\ passed \in [Rows -> Nat] /\ signals \in [Rows -> Nat]
      /\ now \in 0 .. MaxTime
  BY DEF LimitInv, LimitTypeOK
<1>6. \A r \in Rows :
        /\ count'[r] = (IF r \in call[c].gone THEN 0 ELSE count[r])
                         + (IF r \in Charged(c) THEN 1 ELSE 0)
        /\ passed'[r] = passed[r]
                         + (IF r \in Charged(c) /\ call[c].over = {} THEN 1 ELSE 0)
        /\ signals'[r] = signals[r] + (IF r \in call[c].over THEN 1 ELSE 0)
  BY <1>1 DEF Add
<1>7. LimitTypeOK'
  <2>1. call' \in [Calls -> [pc : Open \cup {"new", "admitted", "refused", "failed"},
                             at : 0 .. MaxTime, step : Nat,
                             over : SUBSET Rows, gone : SUBSET Rows]]
    BY <1>1, <1>2 DEF LimitInv, LimitTypeOK, Go
  <2>2. /\ count' = [r \in Rows |-> count'[r]]
        /\ passed' = [r \in Rows |-> passed'[r]]
        /\ signals' = [r \in Rows |-> signals'[r]]
    BY <1>1 DEF Add
  <2>3. \A r \in Rows : count'[r] \in Nat /\ passed'[r] \in Nat /\ signals'[r] \in Nat
    BY <1>5, <1>6
  <2>4. count' \in [Rows -> Nat] /\ passed' \in [Rows -> Nat] /\ signals' \in [Rows -> Nat]
    BY <2>2, <2>3
  <2>5. QED
    BY <2>1, <2>4, <1>1, <1>5 DEF LimitTypeOK
<1>8. Timely'
  BY <1>1, <1>2, <1>3 DEF LimitInv, Timely, Gone
<1>9. \A d \in Calls : \A r \in Charged(d) : r \in Rows /\ ~Gone(r) /\ r \notin call[c].gone
  BY ChargedIsLive DEF LimitInv, Timely
<1>10. Locked'
  <2>1. \A d, e \in Calls : d # e => Charged(d)' \cap Charged(e)' = {}
    BY <1>4 DEF LimitInv, Locked
  <2>2. ASSUME NEW d \in Calls
        PROVE  call'[d].over = {r \in Charged(d)' : count'[r] + 1 > Limit[r[1]]}
    <3>1. CASE d = c
      BY <3>1, <1>2, <1>3, <1>4
    <3>2. CASE d # c
      <4>1. Charged(c) \cap Charged(d) = {}
        BY <3>2 DEF LimitInv, Locked
      <4>2. \A r \in Charged(d) : count'[r] = count[r]
        BY <4>1, <1>5, <1>6, <1>9
      <4>3. QED
        BY <3>2, <4>2, <1>3, <1>4 DEF LimitInv, Locked
    <3>3. QED
      BY <3>1, <3>2
  <2>3. QED
    BY <2>1, <2>2 DEF Locked
<1>11. Counted'
  <2> SUFFICES ASSUME NEW r \in Rows
               PROVE  /\ passed'[r] <= Limit[r[1]]
                      /\ Gone(r) \/ passed'[r] <= count'[r]
                      /\ r[1] \notin StrictKeys =>
                           signals'[r] = IF count'[r] > Limit[r[1]]
                                           THEN count'[r] - Limit[r[1]] ELSE 0
    BY <1>1 DEF Counted, Gone
  <2>1. Limit[r[1]] \in Nat /\ count[r] \in Nat /\ passed[r] \in Nat /\ signals[r] \in Nat
    BY <1>5, CallsAssumption DEF Rows
  <2>2. /\ passed[r] <= Limit[r[1]]
        /\ Gone(r) \/ passed[r] <= count[r]
        /\ r[1] \notin StrictKeys =>
             signals[r] = IF count[r] > Limit[r[1]] THEN count[r] - Limit[r[1]] ELSE 0
    BY DEF LimitInv, Counted
  <2>3. r \in call[c].over <=> r \in Charged(c) /\ count[r] + 1 > Limit[r[1]]
    BY DEF LimitInv, Locked
  <2>4. r \in call[c].gone => Gone(r) /\ r \notin Charged(c)
    BY <1>9 DEF LimitInv, Timely
  <2>5. CASE r \in Charged(c)
    <3>1. ~Gone(r) /\ r \notin call[c].gone
      BY <2>5, <1>9
    <3>2. passed[r] <= count[r] /\ count'[r] = count[r] + 1
      BY <2>1, <2>2, <2>5, <3>1, <1>6
    <3>3. passed'[r] <= Limit[r[1]] /\ passed'[r] <= count'[r]
      <4>1. CASE call[c].over = {}
        BY <4>1, <2>1, <2>3, <2>5, <3>2, <1>6
      <4>2. CASE call[c].over # {}
        BY <4>2, <2>1, <2>2, <3>2, <1>6
      <4>3. QED
        BY <4>1, <4>2
    <3>4. r[1] \notin StrictKeys =>
            signals'[r] = IF count'[r] > Limit[r[1]] THEN count'[r] - Limit[r[1]] ELSE 0
      BY <2>1, <2>2, <2>3, <2>5, <3>2, <1>6
    <3>5. QED
      BY <3>3, <3>4
  <2>6. CASE r \notin Charged(c)
    <3>1. passed'[r] = passed[r] /\ signals'[r] = signals[r]
      BY <2>1, <2>3, <2>6, <1>6
    <3>2. CASE r \in call[c].gone
      BY <3>1, <3>2, <2>2, <2>4 DEF Gone
    <3>3. CASE r \notin call[c].gone
      <4>1. count'[r] = count[r]
        BY <3>3, <2>1, <2>6, <1>6
      <4>2. QED
        BY <4>1, <3>1, <2>2
    <3>4. QED
      BY <3>2, <3>3
  <2>7. QED
    BY <2>5, <2>6
<1>12. QED
  BY <1>7, <1>8, <1>10, <1>11 DEF LimitInv

LEMMA TickInv ==
  ASSUME LimitInv, Tick
  PROVE  LimitInv'
<1>1. /\ now' = now + 1 /\ now < MaxTime /\ UNCHANGED <<count, passed, signals, call>>
      /\ \A c \in Calls : call[c].pc \in Open => now < call[c].at + Stall
  BY DEF Tick
<1>2. /\ now \in 0 .. MaxTime
      /\ \A c \in Calls : call[c].at \in 0 .. MaxTime
  BY DEF LimitInv, LimitTypeOK
<1>3. \A c \in Calls : Charged(c)' = Charged(c)
  BY <1>1 DEF Charged, Row
<1>4. \A r \in Rows : Gone(r) => Gone(r)'
  <2>1. \A r \in Rows : r[2] \in Int
    BY DEF Rows
  <2>2. QED
    BY <2>1, <1>1, <1>2, TimesAssumption DEF Gone
<1>5. LimitTypeOK'
  BY <1>1, <1>2, TimesAssumption DEF LimitInv, LimitTypeOK
<1>6. Timely'
  <2> SUFFICES ASSUME NEW c \in Calls
               PROVE  /\ call[c].pc \in Open =>
                           /\ call[c].at <= now' /\ now' <= call[c].at + Stall
                           /\ call[c].step <= Len(KeysOf[c])
                      /\ call[c].pc \notin Open => call[c].over = {}
                      /\ call[c].pc # "charging" => call[c].gone = {}
                      /\ \A r \in call[c].gone : Gone(r)'
    BY <1>1 DEF Timely
  <2>1. call[c].gone \subseteq Rows
    BY DEF LimitInv, LimitTypeOK
  <2>2. QED
    BY <2>1, <1>1, <1>2, <1>4, TimesAssumption DEF LimitInv, Timely
<1>7. Locked'
  BY <1>1, <1>3 DEF LimitInv, Locked
<1>8. Counted'
  BY <1>1, <1>4 DEF LimitInv, Counted
<1>9. QED
  BY <1>5, <1>6, <1>7, <1>8 DEF LimitInv

\* The invariant holds of every behaviour of the limiters.
THEOREM LimitInvariant == LimitSpec => []LimitInv
<1>1. LimitInit => LimitInv
  BY InitInv
<1>2. ASSUME LimitInv, [LimitNext]_limitVars PROVE LimitInv'
  <2>1. CASE Tick
    BY <2>1, <1>2, TickInv
  <2>2. ASSUME NEW c \in Calls, LimitStep(c) PROVE LimitInv'
    <3>1. CASE OpenCall(c)
      BY <3>1, <1>2, OpenCallInv
    <3>2. CASE Purge(c)
      BY <3>2, <1>2, PurgeInv
    <3>3. CASE Charge(c)
      BY <3>3, <1>2, ChargeInv
    <3>4. CASE RollBack(c)
      BY <3>4, <1>2, EndInv DEF RollBack
    <3>5. CASE Abort(c)
      BY <3>5, <1>2, EndInv DEF Abort
    <3>6. CASE Commit(c)
      BY <3>6, <1>2, CommitInv
    <3>7. QED
      BY <2>2, <3>1, <3>2, <3>3, <3>4, <3>5, <3>6 DEF LimitStep
  <2>3. CASE UNCHANGED limitVars
    <3>1. \A c \in Calls : Charged(c)' = Charged(c)
      BY <2>3 DEF limitVars, Charged, Row
    <3>2. LimitTypeOK'
      BY <2>3, <1>2 DEF limitVars, LimitInv, LimitTypeOK
    <3>3. Timely' /\ Locked' /\ Counted'
      BY <2>3, <3>1, <1>2 DEF limitVars, LimitInv, Timely, Locked, Counted, Gone
    <3>4. QED
      BY <3>2, <3>3 DEF LimitInv
  <2>4. QED
    BY <1>2, <2>1, <2>2, <2>3 DEF LimitNext
<1>3. QED
  BY <1>1, <1>2, PTL DEF LimitSpec

\* The counters, the clock and the calls keep their types.
THEOREM LimitTypes == LimitSpec => []LimitTypeOK
<1>1. LimitInv => LimitTypeOK
  BY DEF LimitInv
<1>2. QED
  BY <1>1, LimitInvariant, PTL

\* A key lets no more calls through in a window than its limit, whatever
\* the calls do at the same time and however they fail.
THEOREM LimitsAlwaysHold == LimitSpec => []LimitsHold
<1>1. LimitInv => LimitsHold
  BY DEF LimitInv, Counted, LimitsHold
<1>2. QED
  BY <1>1, LimitInvariant, PTL

-----------------------------------------------------------------------------
\* A severity of the scale.
IsSeverity(severity) == \E i \in 1 .. 5 : Severities[i] = severity

LEMMA Scale ==
  /\ Severities[1] = "INFO" /\ Severities[2] = "LOW" /\ Severities[3] = "MEDIUM"
  /\ Severities[4] = "HIGH" /\ Severities[5] = "CRITICAL"
  /\ DOMAIN Severities = 1 .. 5
  /\ IsSeverity("INFO") /\ IsSeverity("LOW") /\ IsSeverity("MEDIUM")
  /\ IsSeverity("HIGH") /\ IsSeverity("CRITICAL")
<1>1. /\ Severities[1] = "INFO" /\ Severities[2] = "LOW" /\ Severities[3] = "MEDIUM"
      /\ Severities[4] = "HIGH" /\ Severities[5] = "CRITICAL"
      /\ DOMAIN Severities = 1 .. 5
  BY DEF Severities
<1>2. 1 \in 1 .. 5 /\ 2 \in 1 .. 5 /\ 3 \in 1 .. 5 /\ 4 \in 1 .. 5 /\ 5 \in 1 .. 5
  OBVIOUS
<1>3. QED
  BY <1>1, <1>2, Zenon DEF IsSeverity

\* A severity has one rank.
LEMMA RankOf ==
  ASSUME NEW severity, IsSeverity(severity)
  PROVE  Rank(severity) \in 1 .. 5 /\ Severities[Rank(severity)] = severity
BY DEF Rank, IsSeverity

LEMMA RankIsUnique ==
  ASSUME NEW i \in 1 .. 5
  PROVE  Rank(Severities[i]) = i
<1>1. IsSeverity(Severities[i])
  BY DEF IsSeverity
<1>2. \A j \in 1 .. 5 : Severities[j] = Severities[i] => j = i
  <2>1. \A j, k \in 1 .. 5 : Severities[j] = Severities[k] => j = k
    BY Scale, SMT
  <2>2. QED
    BY <2>1
<1>3. QED
  BY <1>1, <1>2, RankOf

\* What a table of checks raises has the severities of the table.
LEMMA RaisedSeverity ==
  ASSUME NEW analyzer, NEW subject, NEW checks,
         \A k \in checks : IsSeverity(k[2]),
         NEW f \in Raised(analyzer, subject, checks)
  PROVE  IsSeverity(f.severity)
BY DEF Raised

\* A check is a row of a table: a condition, a severity and a category.
LEMMA SeverityOfTable ==
  ASSUME NEW a, NEW b
  PROVE  /\ \A k \in WalletChecks(a, b) : IsSeverity(k[2])
         /\ \A k \in SecurityChecks(a, b) : IsSeverity(k[2])
         /\ \A k \in CodeChecks(a, b) : IsSeverity(k[2])
         /\ \A k \in UseOfAccount(a) : IsSeverity(k[2])
         /\ \A k \in UseOfContract(a) : IsSeverity(k[2])
         /\ \A k \in UseOfNetwork(a) : IsSeverity(k[2])
         /\ \A k \in VoteChecks(a) : IsSeverity(k[2])
         /\ \A k \in StakeChecks(a) : IsSeverity(k[2])
         /\ \A k \in UseOfStake(a, b) : IsSeverity(k[2])
         /\ \A k \in TokenChecks(a) : IsSeverity(k[2])
<1>1. \A x, y : IsSeverity(<<x, "INFO", y>>[2])
  BY Scale, Zenon
<1>2. \A x, y : IsSeverity(<<x, "LOW", y>>[2])
  BY Scale, Zenon
<1>3. \A x, y : IsSeverity(<<x, "MEDIUM", y>>[2])
  BY Scale, Zenon
<1>4. \A x, y : IsSeverity(<<x, "HIGH", y>>[2])
  BY Scale, Zenon
<1>5. \A x, y : IsSeverity(<<x, "CRITICAL", y>>[2])
  BY Scale, Zenon
<1> USE <1>1, <1>2, <1>3, <1>4, <1>5
<1>6. \A k \in WalletChecks(a, b) : IsSeverity(k[2])
  BY Zenon DEF WalletChecks
<1>7. \A k \in SecurityChecks(a, b) : IsSeverity(k[2])
  BY Zenon DEF SecurityChecks
<1>8. \A k \in CodeChecks(a, b) : IsSeverity(k[2])
  BY Zenon DEF CodeChecks
<1>9. \A k \in UseOfAccount(a) : IsSeverity(k[2])
  BY Zenon DEF UseOfAccount
<1>10. \A k \in UseOfContract(a) : IsSeverity(k[2])
  BY Zenon DEF UseOfContract
<1>11. \A k \in UseOfNetwork(a) : IsSeverity(k[2])
  BY Zenon DEF UseOfNetwork
<1>12. \A k \in VoteChecks(a) : IsSeverity(k[2])
  BY Zenon DEF VoteChecks
<1>13. \A k \in StakeChecks(a) : IsSeverity(k[2])
  BY Zenon DEF StakeChecks
<1>14. \A k \in UseOfStake(a, b) : IsSeverity(k[2])
  BY Zenon DEF UseOfStake
<1>15. \A k \in TokenChecks(a) : IsSeverity(k[2])
  BY Zenon DEF TokenChecks
<1>16. QED
  BY <1>6, <1>7, <1>8, <1>9, <1>10, <1>11, <1>12, <1>13, <1>14, <1>15

\* Whatever the snapshot, a finding has a severity of the scale.
LEMMA SeverityOfFinding ==
  ASSUME NEW s, NEW f \in FindingsOf(s)
  PROVE  IsSeverity(f.severity)
<1> USE SeverityOfTable, RaisedSeverity
<1>1. \A g \in WalletRisk(s) : IsSeverity(g.severity)
  BY DEF WalletRisk
<1>2. \A g \in Security(s) : IsSeverity(g.severity)
  BY DEF Security
<1>3. \A g \in TrxConcentration(s) : IsSeverity(g.severity)
  <2>1. \A k \in {<<TRUE, "CRITICAL", "single-holder-majority">>} : IsSeverity(k[2])
    BY Scale
  <2>2. \A g \in TrxConcentration(s) : \E x \in Majorities(s) :
          g \in Raised("concentration", x, {<<TRUE, "CRITICAL", "single-holder-majority">>})
    BY Zenon DEF TrxConcentration
  <2>3. QED
    BY <2>1, <2>2
<1>4. \A g \in TokenConcentration(s) : IsSeverity(g.severity)
  <2>1. \A k \in {<<TRUE, "HIGH", "token-concentration">>} : IsSeverity(k[2])
    BY Scale
  <2>2. \A g \in TokenConcentration(s) : \E x \in Concentrated(s) :
          g \in Raised("concentration", x, {<<TRUE, "HIGH", "token-concentration">>})
    BY Zenon DEF TokenConcentration
  <2>3. QED
    BY <2>1, <2>2
<1>5. \A g \in ContractCode(s) : IsSeverity(g.severity)
  BY DEF ContractCode
<1>6. \A g \in Activity(s) : IsSeverity(g.severity)
  <2>1. \A g \in Activity(s) :
          \/ \E x \in DOMAIN s.accounts : g \in Raised("activity", x, UseOfAccount(s.accounts[x]))
          \/ \E x \in DOMAIN s.contracts : g \in Raised("activity", x, UseOfContract(s.contracts[x]))
          \/ g \in Raised("activity", None, UseOfNetwork(s.governance))
    BY Zenon DEF Activity
  <2>2. QED
    BY <2>1
<1>7. \A g \in Governance(s) : IsSeverity(g.severity)
  <2>1. \A k \in {<<TRUE, "MEDIUM", "low-sr-productivity">>} : IsSeverity(k[2])
    BY Scale
  <2>2. CASE s.governance = None
    BY <2>2 DEF Governance
  <2>3. CASE s.governance # None
    <3>1. \A g \in Governance(s) :
            \/ g \in Raised("governance", None, VoteChecks(s.governance))
            \/ \E i \in SlowWitnesses(s.governance) :
                 g \in Raised("governance", i, {<<TRUE, "MEDIUM", "low-sr-productivity">>})
      BY <2>3, Zenon DEF Governance
    <3>2. QED
      BY <2>1, <3>1
  <2>4. QED
    BY <2>2, <2>3
<1>8. \A g \in Staking(s) : IsSeverity(g.severity)
  <2>1. \A g \in Staking(s) :
          \/ \E x \in DOMAIN s.staking : g \in Raised("staking", x, StakeChecks(s.staking[x]))
          \/ \E x \in DOMAIN s.staking :
               g \in Raised("staking", x, UseOfStake(s.staking[x], s.accounts[x]))
    BY Zenon DEF Staking
  <2>2. QED
    BY <2>1
<1>9. \A g \in Tokenomics(s) : IsSeverity(g.severity)
  BY DEF Tokenomics
<1>10. QED
  BY <1>1, <1>2, <1>3, <1>4, <1>5, <1>6, <1>7, <1>8, <1>9 DEF FindingsOf

-----------------------------------------------------------------------------
IsAudit(a) ==
  a = [pc |-> a.pc, todo |-> a.todo, asked |-> a.asked, got |-> a.got,
       sources |-> a.sources, points |-> a.points, found |-> a.found, rows |-> a.rows,
       saved |-> a.saved]

Shape ==
  /\ audit = [c \in Strict |-> audit[c]]
  /\ \A c \in Strict : IsAudit(audit[c])

\* What an audit may publish.  Its findings are inserted one after another.
Publishable(c, a) ==
  /\ a.pc \in {"analyzed", "saving"} => \A f \in a.found : IsSeverity(f.severity)
  /\ a.pc # "saving" => a.saved = {}
  /\ a.pc = "saving" =>
       /\ a.saved \subseteq a.found
       /\ IsFiniteSet(a.saved)
       /\ \E report : /\ a.rows = {report}
                      /\ report.id = c
                      /\ report.risk = MaxSeverity(a.found)
                      /\ report.counts = CountFindings(a.found)

\* Nothing of the audit has been committed.
Unseen(c) ==
  /\ \A r \in reports : r.id # c
  /\ \A g \in findings : g.report # c

PublishInv ==
  /\ Shape
  /\ \A c \in Strict : /\ Publishable(c, audit[c])
                       /\ audit[c].pc # "done" => Unseen(c)

LEMMA NoAuditIsAudit ==
  /\ IsAudit(NoAudit) /\ NoAudit.pc = "idle" /\ NoAudit.saved = {} /\ NoAudit.todo = <<>>
  /\ NoAudit.asked = {} /\ NoAudit.got = [t \in Types |-> <<>>] /\ NoAudit.sources = {}
  /\ NoAudit.points = 0
BY DEF IsAudit, NoAudit

LEMMA SetStep ==
  ASSUME Shape, NEW c \in Strict, NEW t, IsAudit(t), Set(c, t)
  PROVE  /\ audit'[c] = t
         /\ \A d \in Strict : d # c => audit'[d] = audit[d]
         /\ Shape'
         /\ UNCHANGED <<registry, kind>>
<1>1. audit' = [audit EXCEPT ![c] = t]
  BY DEF Set
<1>2. /\ audit'[c] = t
      /\ \A d \in Strict : d # c => audit'[d] = audit[d]
  BY <1>1 DEF Shape
<1>3. audit' = [d \in Strict |-> audit'[d]]
  BY <1>1 DEF Shape
<1>4. QED
  BY <1>2, <1>3 DEF Shape, Set

LEMMA InitPublish == Init => PublishInv
<1>1. ASSUME Init
      PROVE  /\ audit = [c \in Strict |-> NoAudit] /\ reports = {} /\ findings = {}
  BY <1>1 DEF Init
<1> HIDE DEF NoAudit
<1>2. QED
  BY <1>1, NoAuditIsAudit DEF PublishInv, Shape, Publishable, Unseen

\* A step that publishes nothing.
LEMMA QuietStep ==
  ASSUME PublishInv, NEW c \in Strict, NEW t, IsAudit(t), Set(c, t), Publishable(c, t),
         audit[c].pc # "done", UNCHANGED <<reports, findings>>
  PROVE  PublishInv'
<1>1. /\ audit'[c] = t
      /\ \A d \in Strict : d # c => audit'[d] = audit[d]
      /\ Shape'
  BY SetStep DEF PublishInv
<1>2. \A d \in Strict : Publishable(d, audit'[d])
  BY <1>1 DEF PublishInv
<1>3. \A d \in Strict : audit'[d].pc # "done" => Unseen(d)'
  BY <1>1 DEF PublishInv, Unseen
<1>4. QED
  BY <1>1, <1>2, <1>3 DEF PublishInv

\* The questions are no matter to what is published.
LEMMA AskingPublish ==
  ASSUME PublishInv, NEW c \in Strict,
         \/ Begin(c) \/ Ask(c) \/ AskInVain(c) \/ Detail(c)
  PROVE  PublishInv'
<1> HIDE DEF NoAudit
<1>1. PICK a : a = audit[c] /\ IsAudit(a)
  BY DEF PublishInv, Shape
<1>2. a.pc \in {"idle", "asking", "detailing"} /\ UNCHANGED <<reports, findings>>
  BY <1>1 DEF Begin, Ask, AskInVain, Detail
<1>3. a.saved = {}
  BY <1>1, <1>2 DEF PublishInv, Publishable
<1>4. \E t : /\ IsAudit(t) /\ Set(c, t)
             /\ t.pc \in {"asking", "detailing"} /\ t.saved = {}
  <2>1. CASE Begin(c)
    <3>1. PICK t : t = [NoAudit EXCEPT !.pc = "asking", !.todo = Plan(c)]
      OBVIOUS
    <3>2. IsAudit(t) /\ t.pc = "asking" /\ t.saved = {}
      BY <3>1, NoAuditIsAudit DEF IsAudit
    <3>3. QED
      BY <2>1, <3>1, <3>2 DEF Begin
  <2>2. CASE Ask(c)
    <3>1. PICK q : q = Head(a.todo)
      OBVIOUS
    <3>2. PICK answer : Set(c, [a EXCEPT !.todo = Tail(@), !.asked = @ \cup {q},
                                         !.got = Keep(@, q, answer), !.points = @ + 1,
                                         !.sources = @ \cup {q.source}])
      BY <1>1, <2>2, <3>1 DEF Ask
    <3>3. PICK todo, asked, got, points, sources :
            /\ todo = Tail(a.todo) /\ asked = a.asked \cup {q} /\ got = Keep(a.got, q, answer)
            /\ points = a.points + 1 /\ sources = a.sources \cup {q.source}
      OBVIOUS
    <3>4. PICK t : t = [a EXCEPT !.todo = todo, !.asked = asked, !.got = got,
                                 !.points = points, !.sources = sources]
      OBVIOUS
    <3>5. Set(c, t)
      BY <3>2, <3>3, <3>4
    <3>6. IsAudit(t) /\ t.pc = a.pc /\ t.saved = a.saved
      BY <1>1, <3>4 DEF IsAudit
    <3>7. a.pc # "idle"
      BY <1>1, <2>2 DEF Ask
    <3>8. QED
      BY <1>2, <1>3, <3>5, <3>6, <3>7
  <2>3. CASE AskInVain(c)
    <3>1. PICK todo, asked :
            todo = GoOn(a.todo) /\ asked = a.asked \cup {Head(a.todo)}
      OBVIOUS
    <3>2. PICK t : t = [a EXCEPT !.todo = todo, !.asked = asked]
      OBVIOUS
    <3>3. Set(c, t)
      BY <1>1, <2>3, <3>1, <3>2 DEF AskInVain
    <3>4. IsAudit(t) /\ t.pc = a.pc /\ t.saved = a.saved
      BY <1>1, <3>2 DEF IsAudit
    <3>5. a.pc # "idle"
      BY <1>1, <2>3 DEF AskInVain
    <3>6. QED
      BY <1>2, <1>3, <3>3, <3>4, <3>5
  <2>4. CASE Detail(c)
    <3>1. PICK t : t = [a EXCEPT !.pc = "detailing", !.todo = Details(c)]
      OBVIOUS
    <3>2. IsAudit(t) /\ t.pc = "detailing" /\ t.saved = a.saved
      BY <1>1, <3>1 DEF IsAudit
    <3>3. QED
      BY <1>1, <1>3, <2>4, <3>1, <3>2 DEF Detail
  <2>5. QED
    BY <2>1, <2>2, <2>3, <2>4
<1>5. PICK t : /\ IsAudit(t) /\ Set(c, t)
               /\ t.pc \in {"asking", "detailing"} /\ t.saved = {}
  BY <1>4
<1>6. Publishable(c, t)
  BY <1>5 DEF Publishable
<1>7. QED
  BY <1>1, <1>2, <1>5, <1>6, QuietStep

\* An audit that fails publishes nothing.
LEMMA GiveUpPublish ==
  ASSUME PublishInv, NEW c \in Strict, GiveUp(c), audit[c].pc # "done"
  PROVE  PublishInv' /\ UNCHANGED <<reports, findings>>
<1> HIDE DEF NoAudit
<1>1. PICK t : t = [NoAudit EXCEPT !.pc = "failed"]
  OBVIOUS
<1>2. IsAudit(t) /\ t.pc = "failed" /\ t.saved = {}
  BY <1>1, NoAuditIsAudit DEF IsAudit
<1>3. Set(c, t) /\ UNCHANGED <<reports, findings>>
  BY <1>1 DEF GiveUp
<1>4. Publishable(c, t)
  BY <1>2 DEF Publishable
<1>5. QED
  BY <1>2, <1>3, <1>4, QuietStep

LEMMA AnalyzePublish ==
  ASSUME PublishInv, NEW c \in Strict, Analyze(c)
  PROVE  PublishInv' /\ UNCHANGED <<reports, findings>>
<1>1. PICK a : a = audit[c] /\ IsAudit(a)
  BY DEF PublishInv, Shape
<1>2. PICK s : s = Snapshot(a.got)
  OBVIOUS
<1>3. a.pc \in {"asking", "detailing"} /\ a.saved = {}
  BY <1>1 DEF Analyze, PublishInv, Publishable
<1>4. CASE GiveUp(c)
  BY <1>1, <1>3, <1>4, GiveUpPublish
<1>5. CASE ~GiveUp(c)
  <2>1. PICK found : found = FindingsOf(s)
    OBVIOUS
  <2>2. PICK t : t = [a EXCEPT !.pc = "analyzed", !.found = found]
    OBVIOUS
  <2>3. Set(c, t) /\ UNCHANGED <<reports, findings>>
    BY <1>1, <1>2, <1>5, <2>1, <2>2 DEF Analyze
  <2>4. IsAudit(t) /\ t.pc = "analyzed" /\ t.found = found /\ t.saved = {}
    BY <1>1, <1>3, <2>2 DEF IsAudit
  <2>5. \A f \in found : IsSeverity(f.severity)
    BY <2>1, SeverityOfFinding
  <2>6. Publishable(c, t)
    BY <2>4, <2>5 DEF Publishable
  <2>7. QED
    BY <1>1, <1>3, <2>3, <2>4, <2>6, QuietStep
<1>6. QED
  BY <1>4, <1>5

LEMMA InsertReportPublish ==
  ASSUME PublishInv, NEW c \in Strict, InsertReport(c)
  PROVE  PublishInv'
<1>1. PICK a : a = audit[c] /\ IsAudit(a)
  BY DEF PublishInv, Shape
<1>2. PICK report : report = Report(c)
  OBVIOUS
<1>3. /\ report.id = c /\ report.risk = MaxSeverity(a.found)
      /\ report.counts = CountFindings(a.found)
  BY <1>1, <1>2 DEF Report
<1>4. PICK t : t = [a EXCEPT !.pc = "saving", !.rows = {report}]
  OBVIOUS
<1>5. IsAudit(t) /\ t.pc = "saving" /\ t.rows = {report} /\ t.found = a.found /\ t.saved = a.saved
  BY <1>1, <1>4 DEF IsAudit
<1>6. a.pc = "analyzed" /\ Set(c, t) /\ UNCHANGED <<reports, findings>>
  BY <1>1, <1>2, <1>4 DEF InsertReport
<1>7. a.saved = {} /\ \A f \in a.found : IsSeverity(f.severity)
  BY <1>1, <1>6 DEF PublishInv, Publishable
<1>8. Publishable(c, t)
  BY <1>3, <1>5, <1>7, FS_EmptySet DEF Publishable
<1>9. QED
  BY <1>1, <1>5, <1>6, <1>8, QuietStep

LEMMA Gravest ==
  ASSUME NEW ranks, ranks \subseteq 1 .. 5, ranks # {}
  PROVE  \E m \in ranks : \A k \in ranks : k <= m
<1>1. \A k \in ranks : k = 1 \/ k = 2 \/ k = 3 \/ k = 4 \/ k = 5
  OBVIOUS
<1>2. CASE 5 \in ranks
  BY <1>1, <1>2
<1>3. CASE 5 \notin ranks /\ 4 \in ranks
  BY <1>1, <1>3
<1>4. CASE 5 \notin ranks /\ 4 \notin ranks /\ 3 \in ranks
  BY <1>1, <1>4
<1>5. CASE 5 \notin ranks /\ 4 \notin ranks /\ 3 \notin ranks /\ 2 \in ranks
  BY <1>1, <1>5
<1>6. CASE 5 \notin ranks /\ 4 \notin ranks /\ 3 \notin ranks /\ 2 \notin ranks
  <2>1. PICK m \in ranks : m = 1
    BY <1>1, <1>6
  <2>2. \A k \in ranks : k <= m
    BY <1>1, <1>6, <2>1
  <2>3. QED
    BY <2>2
<1>7. QED
  BY <1>2, <1>3, <1>4, <1>5, <1>6

LEMMA InsertFindingPublish ==
  ASSUME PublishInv, NEW c \in Strict, InsertFinding(c)
  PROVE  PublishInv'
<1>1. PICK a : a = audit[c] /\ IsAudit(a)
  BY DEF PublishInv, Shape
<1>2. /\ a.pc = "saving" /\ Unsaved(c) # {} /\ UNCHANGED <<reports, findings>>
  BY <1>1 DEF InsertFinding
<1>3. /\ a.saved \subseteq a.found /\ IsFiniteSet(a.saved)
      /\ \A f \in a.found : IsSeverity(f.severity)
      /\ \E report : /\ a.rows = {report} /\ report.id = c
                     /\ report.risk = MaxSeverity(a.found)
                     /\ report.counts = CountFindings(a.found)
  BY <1>1, <1>2 DEF PublishInv, Publishable
<1>4. \E g \in Unsaved(c) : IsNext(c, g)
  <2>1. PICK ranks : ranks = {Rank(g.severity) : g \in Unsaved(c)}
    OBVIOUS
  <2>2. Unsaved(c) \subseteq a.found
    BY <1>1 DEF Unsaved
  <2>3. \A g \in Unsaved(c) : Rank(g.severity) \in 1 .. 5
    BY <1>3, <2>2, RankOf
  <2>4. ranks \subseteq 1 .. 5 /\ ranks # {}
    BY <1>2, <2>1, <2>3
  <2>5. \E m \in ranks : \A k \in ranks : k <= m
    BY <2>4, Gravest
  <2>6. QED
    BY <2>1, <2>5 DEF IsNext
<1>5. PICK f \in Unsaved(c) : f = CHOOSE g \in Unsaved(c) : IsNext(c, g)
  BY <1>4
<1>6. f \in a.found
  BY <1>1, <1>5 DEF Unsaved
<1>7. PICK saved : saved = a.saved \cup {f}
  OBVIOUS
<1>8. PICK t : t = [a EXCEPT !.saved = saved]
  OBVIOUS
<1>9. Set(c, t)
  BY <1>1, <1>5, <1>7, <1>8 DEF InsertFinding
<1>10. IsAudit(t) /\ t.pc = "saving" /\ t.found = a.found /\ t.rows = a.rows /\ t.saved = saved
  BY <1>1, <1>2, <1>8 DEF IsAudit
<1>11. saved \subseteq a.found /\ IsFiniteSet(saved)
  BY <1>3, <1>6, <1>7, FS_AddElement
<1>12. Publishable(c, t)
  BY <1>3, <1>10, <1>11 DEF Publishable
<1>13. QED
  BY <1>1, <1>2, <1>9, <1>10, <1>12, QuietStep

\* The risk of a report is the severity of its gravest finding.
LEMMA RiskIsGravest ==
  ASSUME NEW found, \A f \in found : IsSeverity(f.severity),
         NEW i \in 1 .. 5, Severities[i] = MaxSeverity(found)
  PROVE  /\ \A f \in found : Rank(f.severity) <= i
         /\ i > 1 => \E f \in found : f.severity = Severities[i]
<1>1. PICK ranks : ranks = {Rank(f.severity) : f \in found} \cup {1}
  OBVIOUS
<1>2. ranks \subseteq 1 .. 5 /\ 1 \in ranks
  BY <1>1, RankOf
<1>3. \E m \in ranks : \A k \in ranks : m >= k
  BY <1>2
<1>4. PICK m \in ranks : m = Max(ranks) /\ \A k \in ranks : m >= k
  BY <1>3 DEF Max
<1>5. Severities[m] = Severities[i] /\ m \in 1 .. 5
  BY <1>1, <1>2, <1>4 DEF MaxSeverity
<1>6. m = i
  BY <1>5, RankIsUnique
<1>7. \A f \in found : Rank(f.severity) <= i
  BY <1>1, <1>2, <1>4, <1>6
<1>8. ASSUME i > 1
      PROVE  \E f \in found : f.severity = Severities[i]
  <2>1. PICK f \in found : Rank(f.severity) = i
    <3>1. i # 1 /\ i \in ranks
      BY <1>4, <1>6, <1>8
    <3>2. QED
      BY <1>1, <3>1
  <2>2. QED
    BY <2>1, RankOf
<1>9. QED
  BY <1>7, <1>8

LEMMA SameCardinality == \A S : Ledger!Cardinality(S) = Cardinality(S)
BY DEF Ledger!Cardinality, Cardinality

LEMMA SummaryIsSound ==
  ASSUME NEW found, IsFiniteSet(found), \A f \in found : IsSeverity(f.severity),
         NEW report, report.findings = found, report.risk = MaxSeverity(found),
         report.counts = CountFindings(found)
  PROVE  Ledger!Sound(report)
<1>1. \A i \in 1 .. 5 :
        report.counts[i] = Cardinality({f \in found : f.severity = Severities[i]})
  BY DEF CountFindings
<1>2. ASSUME NEW i \in 1 .. 5, Severities[i] = report.risk
      PROVE  /\ \A j \in 1 .. 5 : j > i => report.counts[j] = 0
             /\ i > 1 => report.counts[i] > 0
  <2>1. /\ \A f \in found : Rank(f.severity) <= i
        /\ i > 1 => \E f \in found : f.severity = Severities[i]
    BY <1>2, RiskIsGravest
  <2>2. ASSUME NEW j \in 1 .. 5, j > i
        PROVE  report.counts[j] = 0
    <3>1. \A f \in found : f.severity # Severities[j]
      BY <2>1, <2>2, RankIsUnique
    <3>2. {f \in found : f.severity = Severities[j]} = {}
      BY <3>1
    <3>3. QED
      BY <1>1, <3>2, FS_EmptySet
  <2>3. ASSUME i > 1
        PROVE  report.counts[i] > 0
    <3>1. PICK some : some = {f \in found : f.severity = Severities[i]}
      OBVIOUS
    <3>2. IsFiniteSet(some) /\ some # {}
      BY <2>1, <2>3, <3>1, FS_Subset
    <3>3. Cardinality(some) \in Nat /\ Cardinality(some) # 0
      BY <3>2, FS_CardinalityType, FS_EmptySet
    <3>4. report.counts[i] = Cardinality(some)
      BY <1>1, <3>1, Zenon
    <3>5. QED
      BY <3>3, <3>4
  <2>4. QED
    BY <2>2, <2>3
<1>3. QED
  BY <1>1, <1>2, Scale, SameCardinality, Zenon DEF Ledger!Sound

\* The transaction of a report, when it commits, publishes it.
LEMMA CommitPublish ==
  ASSUME PublishInv, NEW c \in Strict, CommitReport(c)
  PROVE  PublishInv' /\ Ledger!Next
<1> HIDE DEF NoAudit
<1>1. PICK a : a = audit[c] /\ IsAudit(a)
  BY DEF PublishInv, Shape
<1>2. PICK t : t = [NoAudit EXCEPT !.pc = "done"]
  OBVIOUS
<1>3. /\ a.pc = "saving" /\ a.found \ a.saved = {}
      /\ reports' = reports \cup a.rows
      /\ findings' = findings \cup {[report |-> c, finding |-> f] : f \in a.saved}
      /\ Set(c, t)
  BY <1>1, <1>2 DEF CommitReport, Saved, Unsaved
<1>4. IsAudit(t) /\ t.pc = "done" /\ t.saved = {}
  BY <1>2, NoAuditIsAudit DEF IsAudit
<1>5. Publishable(c, a) /\ Unseen(c)
  BY <1>1, <1>3 DEF PublishInv
<1>6. PICK report : /\ a.rows = {report} /\ report.id = c
                    /\ report.risk = MaxSeverity(a.found)
                    /\ report.counts = CountFindings(a.found)
  BY <1>3, <1>5 DEF Publishable
<1>7. /\ a.saved = a.found /\ IsFiniteSet(a.found)
      /\ \A f \in a.found : IsSeverity(f.severity)
  BY <1>3, <1>5 DEF Publishable
<1>8. PublishInv'
  <2>1. /\ audit'[c] = t
        /\ \A d \in Strict : d # c => audit'[d] = audit[d]
        /\ Shape'
    BY <1>3, <1>4, SetStep DEF PublishInv
  <2>2. \A d \in Strict : Publishable(d, audit'[d])
    BY <1>4, <2>1 DEF PublishInv, Publishable
  <2>3. ASSUME NEW d \in Strict, audit'[d].pc # "done"
        PROVE  Unseen(d)'
    <3>1. d # c /\ Unseen(d)
      BY <1>4, <2>1, <2>3 DEF PublishInv
    <3>2. \A r \in reports' : r \in reports \/ r = report
      BY <1>3, <1>6
    <3>3. \A g \in findings' : g \in findings \/ g.report = c
      BY <1>3
    <3>4. QED
      BY <1>6, <3>1, <3>2, <3>3 DEF Unseen
  <2>4. QED
    BY <2>1, <2>2, <2>3 DEF PublishInv
<1>9. PICK entry : entry = [id |-> c, risk |-> report.risk, counts |-> report.counts,
                            findings |-> a.found]
  OBVIOUS
<1>10. Published' = Published \cup {entry}
  <2>1. \A r : {f.finding : f \in {g \in findings' : g.report = r.id}}
                 = IF r.id = c THEN a.found
                   ELSE {f.finding : f \in {g \in findings : g.report = r.id}}
    <3>1. ASSUME NEW r, r.id = c
          PROVE  {f.finding : f \in {g \in findings' : g.report = r.id}} = a.found
      <4>1. PICK mine : mine = {[report |-> c, finding |-> f] : f \in a.found}
        OBVIOUS
      <4>2. /\ \A g \in mine : g.report = c /\ g.finding \in a.found
            /\ \A f \in a.found : \E g \in mine : g.finding = f
        <5>1. \A f : LET g == [report |-> c, finding |-> f]
                    IN  g.report = c /\ g.finding = f
          OBVIOUS
        <5>2. QED
          BY <4>1, <5>1, Zenon
      <4>3. findings' = findings \cup mine
        BY <1>3, <1>7, <4>1
      <4>4. {g \in findings' : g.report = r.id} = mine
        BY <1>5, <3>1, <4>2, <4>3 DEF Unseen
      <4>5. QED
        BY <4>2, <4>4
    <3>2. ASSUME NEW r, r.id # c
          PROVE  {g \in findings' : g.report = r.id} = {g \in findings : g.report = r.id}
      <4>1. \A g \in findings' : g \in findings \/ g.report = c
        BY <1>3
      <4>2. findings \subseteq findings'
        BY <1>3
      <4>3. QED
        BY <3>2, <4>1, <4>2
    <3>3. QED
      BY <3>1, <3>2
  <2>2. \A r \in reports : r.id # c
    BY <1>5 DEF Unseen
  <2>3. \A r \in reports' : r \in reports \/ r = report
    BY <1>3, <1>6
  <2>4. reports \subseteq reports' /\ report \in reports'
    BY <1>3, <1>6
  <2>5. \A r \in reports :
          [id |-> r.id, risk |-> r.risk, counts |-> r.counts,
           findings |-> {f.finding : f \in {g \in findings' : g.report = r.id}}]
          = [id |-> r.id, risk |-> r.risk, counts |-> r.counts,
             findings |-> {f.finding : f \in {g \in findings : g.report = r.id}}]
    BY <2>1, <2>2, Zenon
  <2>6. [id |-> report.id, risk |-> report.risk, counts |-> report.counts,
         findings |-> {f.finding : f \in {g \in findings' : g.report = report.id}}] = entry
    <3>1. {f.finding : f \in {g \in findings' : g.report = report.id}} = a.found
      BY <1>6, <2>1, Zenon
    <3>2. QED
      BY <1>6, <1>9, <3>1
  <2>7. ASSUME NEW x
        PROVE  x \in Published' <=> x \in Published \cup {entry}
    <3>1. x \in Published <=>
            \E r \in reports :
              x = [id |-> r.id, risk |-> r.risk, counts |-> r.counts,
                   findings |-> {f.finding : f \in {g \in findings : g.report = r.id}}]
      BY Zenon DEF Published
    <3>2. x \in Published' <=>
            \E r \in reports' :
              x = [id |-> r.id, risk |-> r.risk, counts |-> r.counts,
                   findings |-> {f.finding : f \in {g \in findings' : g.report = r.id}}]
      BY Zenon DEF Published
    <3>3. QED
      BY <2>3, <2>4, <2>5, <2>6, <3>1, <3>2, Zenon
  <2>8. QED
    BY <2>7
<1>11. Ledger!Sound(entry)
  BY <1>6, <1>7, <1>9, SummaryIsSound
<1>12. \A r \in Published : r.id # entry.id
  BY <1>5, <1>9 DEF Published, Unseen
<1>13. Ledger!Publish(entry)
  BY <1>10, <1>11, <1>12 DEF Ledger!Publish
<1>14. QED
  BY <1>8, <1>10, <1>13 DEF Ledger!Next

LEMMA PublishStep ==
  ASSUME PublishInv, [Next]_vars
  PROVE  PublishInv' /\ (Ledger!Next \/ UNCHANGED <<reports, findings>>)
<1>1. ASSUME NEW c \in Strict, AuditStep(c) \/ Fail(c)
      PROVE  PublishInv' /\ (Ledger!Next \/ UNCHANGED <<reports, findings>>)
  <2>1. CASE Begin(c) \/ Ask(c) \/ AskInVain(c) \/ Detail(c)
    <3>1. UNCHANGED <<reports, findings>>
      BY <2>1 DEF Begin, Ask, AskInVain, Detail
    <3>2. QED
      BY <2>1, <3>1, AskingPublish
  <2>2. CASE Analyze(c)
    BY <2>2, AnalyzePublish
  <2>3. CASE InsertReport(c)
    BY <2>3, InsertReportPublish DEF InsertReport
  <2>4. CASE InsertFinding(c)
    BY <2>4, InsertFindingPublish DEF InsertFinding
  <2>5. CASE CommitReport(c)
    BY <2>5, CommitPublish
  <2>6. CASE Fail(c)
    BY <2>6, GiveUpPublish DEF Fail
  <2>7. QED
    BY <1>1, <2>1, <2>2, <2>3, <2>4, <2>5, <2>6 DEF AuditStep
<1>2. CASE UNCHANGED auditVars
  BY <1>2 DEF auditVars, PublishInv, Shape, Unseen
<1>3. QED
  BY <1>1, <1>2 DEF Next, vars

(* What a reader sees of the reports are the states of ReportLedger: a report   *)
(* appears once, whole, with a summary that is that of its findings, whichever  *)
(* inserts of persistReport fail and whatever the analyzers find.               *)
THEOREM ReportsArePublishedWhole == Spec => LedgerSpec
<1>1. Init => Ledger!Init
  BY DEF Init, Ledger!Init, Published
<1>2. PublishInv /\ [Next]_vars => PublishInv' /\ [Ledger!Next]_Published
  BY PublishStep DEF Published
<1>3. QED
  BY <1>1, <1>2, InitPublish, PTL DEF Spec, LedgerSpec, Ledger!Spec

-----------------------------------------------------------------------------
\* An audit leaves the limiters alone.
LEMMA AuditLimits == Spec => LimitSpec
<1>1. Init => LimitInit
  BY DEF Init
<1>2. [Next]_vars => [LimitNext]_limitVars
  <2>1. \A c \in Strict : AuditStep(c) \/ Fail(c) => UNCHANGED limitVars
    BY DEF AuditStep, Fail, GiveUp, Begin, Ask, AskInVain, Detail, Analyze, InsertReport,
           InsertFinding, CommitReport, Set
  <2>2. QED
    BY <2>1 DEF Next, vars
<1>3. QED
  BY <1>1, <1>2, PTL DEF Spec, LimitSpec

(* The limits hold of the whole: no audit, whatever it asks and however it      *)
(* fails, lets more requests through than its key allows.                       *)
THEOREM AuditsAreLimited == Spec => []LimitsHold
  BY AuditLimits, LimitsAlwaysHold, PTL

-----------------------------------------------------------------------------
\* What may be asked about: the targets of the requests, the network and the
\* tokens that accounts hold.
Subjects ==
  {None} \cup {TargetOf[c] : c \in Strict}
    \cup (UNION {{f.holdings[i].token : i \in 1 .. Len(f.holdings)} : f \in Facts["account"]})

Question == [type : Types, source : Sources, subject : Subjects]

Heard == [asked : Question, answer : UNION {AnswersTo(q) : q \in Question}]

\* What the questions that follow from an account rely on.
IsAccount(account) ==
  /\ account.isContract \in BOOLEAN
  /\ Len(account.holdings) \in Nat
  /\ DOMAIN account.holdings = 1 .. Len(account.holdings)
  /\ \A i \in 1 .. Len(account.holdings) : account.holdings[i].token \in Subjects

\* The places of a history where a subject was answered.
Places(h, type, x) ==
  {i \in DOMAIN h : h[i].asked.type = type /\ h[i].asked.subject = x}

\* The memory of an audit is that of the answers it heard.
Memory(a, h) ==
  /\ a.todo \in Seq(Question)
  /\ a.asked \subseteq Question
  /\ h \in Seq(Heard)
  /\ a.points = Len(h)
  /\ a.sources = {h[i].asked.source : i \in DOMAIN h}
  /\ a.got = [type \in Types |-> a.got[type]]
  /\ \A type \in Types : DOMAIN a.got[type] \subseteq Subjects
  /\ \A type \in Types, x \in Subjects :
       /\ x \in DOMAIN a.got[type] <=> Places(h, type, x) # {}
       /\ x \in DOMAIN a.got[type] =>
            /\ Max(Places(h, type, x)) \in DOMAIN h
            /\ a.got[type][x] = h[Max(Places(h, type, x))].answer
  /\ \A x \in DOMAIN a.got["account"] : IsAccount(a.got["account"][x])

Follow(q) == q.type \in {"contract", "token"}

Detailed(pc) == pc \in {"detailing", "analyzed", "saving"}

\* An account audit asks first for the account, and then what follows from it.
Turn(a, following) ==
  /\ Detailed(a.pc) =>
       /\ \A q \in Range(a.todo) : Follow(q)
       /\ {q \in a.asked \cup Range(a.todo) : Follow(q)} = following
  /\ ~Detailed(a.pc) => \A q \in a.asked \cup Range(a.todo) : ~Follow(q)

Honest(c) ==
  /\ Memory(audit[c], heard[c])
  /\ kind[c] = "ACCOUNT" => Turn(audit[c], Range(Details(c)))
  /\ audit[c].pc \in {"analyzed", "saving"} => audit[c].todo = <<>>
  /\ audit[c].pc = "idle" => heard[c] = <<>>

EvidenceInv ==
  /\ Shape
  /\ heard = [c \in Strict |-> heard[c]]
  /\ registry \in [Types -> Seq(Sources)]
  /\ \A c \in Strict : Honest(c)

LEMMA TypesOf ==
  /\ "account" \in Types /\ "contract" \in Types /\ "token" \in Types
  /\ "staking" \in Types /\ "governance" \in Types
  /\ ~Follow([type |-> "account"]) /\ ~Follow([type |-> "staking"])
BY DEF Types, Follow

LEMMA RangeOfEmpty == Range(<<>>) = {}
BY DEF Range

LEMMA InRange ==
  ASSUME NEW s
  PROVE  /\ \A i \in DOMAIN s : s[i] \in Range(s)
         /\ \A v \in Range(s) : \E i \in DOMAIN s : v = s[i]
         /\ \A T : (\A i \in DOMAIN s : s[i] \in T) => Range(s) \subseteq T
BY DEF Range

LEMMA RangeOfConcat ==
  ASSUME NEW S, NEW s \in Seq(S), NEW t \in Seq(S)
  PROVE  s \o t \in Seq(S) /\ Range(s \o t) = Range(s) \cup Range(t)
<1>1. s \o t \in Seq(S)
  OBVIOUS
<1>2. /\ DOMAIN (s \o t) = 1 .. Len(s) + Len(t)
      /\ DOMAIN s = 1 .. Len(s) /\ DOMAIN t = 1 .. Len(t)
      /\ Len(s) \in Nat /\ Len(t) \in Nat
  OBVIOUS
<1>3. \A i \in 1 .. Len(s) + Len(t) :
        (s \o t)[i] = IF i <= Len(s) THEN s[i] ELSE t[i - Len(s)]
  OBVIOUS
<1>4. \A i \in DOMAIN (s \o t) : (s \o t)[i] \in Range(s) \cup Range(t)
  <2>1. ASSUME NEW i \in 1 .. Len(s) + Len(t), i <= Len(s)
        PROVE  (s \o t)[i] \in Range(s)
    <3>1. i \in DOMAIN s /\ (s \o t)[i] = s[i]
      BY <1>2, <1>3, <2>1
    <3>2. QED
      BY <3>1, InRange
  <2>2. ASSUME NEW i \in 1 .. Len(s) + Len(t), ~(i <= Len(s))
        PROVE  (s \o t)[i] \in Range(t)
    <3>1. i - Len(s) \in DOMAIN t /\ (s \o t)[i] = t[i - Len(s)]
      BY <1>2, <1>3, <2>2
    <3>2. QED
      BY <3>1, InRange
  <2>3. QED
    BY <1>2, <2>1, <2>2
<1>5. \A i \in DOMAIN s : s[i] \in Range(s \o t)
  <2>1. ASSUME NEW i \in DOMAIN s
        PROVE  i \in DOMAIN (s \o t) /\ (s \o t)[i] = s[i]
    BY <1>2, <1>3
  <2>2. QED
    BY <2>1, InRange
<1>6. \A i \in DOMAIN t : t[i] \in Range(s \o t)
  <2>1. ASSUME NEW i \in DOMAIN t
        PROVE  i + Len(s) \in DOMAIN (s \o t) /\ (s \o t)[i + Len(s)] = t[i]
    BY <1>2, <1>3
  <2>2. QED
    BY <2>1, InRange
<1>7. QED
  BY <1>1, <1>4, <1>5, <1>6, InRange, Zenon

\* The head of what is left to do, and the rest.
LEMMA RangeOfTodo ==
  ASSUME NEW S, NEW s \in Seq(S), s # <<>>
  PROVE  /\ Tail(s) \in Seq(S) /\ Head(s) \in S
         /\ Range(s) = {Head(s)} \cup Range(Tail(s))
<1>1. Tail(s) \in Seq(S) /\ Head(s) \in S /\ Head(s) = s[1] /\ 1 \in DOMAIN s
  OBVIOUS
<1>2. \A i \in DOMAIN Tail(s) : i + 1 \in DOMAIN s /\ Tail(s)[i] = s[i + 1]
  OBVIOUS
<1>3. \A i \in DOMAIN s : i = 1 \/ (i - 1 \in DOMAIN Tail(s) /\ Tail(s)[i - 1] = s[i])
  OBVIOUS
<1>4. \A i \in DOMAIN s : s[i] \in {Head(s)} \cup Range(Tail(s))
  BY <1>1, <1>3, InRange
<1>5. \A i \in DOMAIN Tail(s) : Tail(s)[i] \in Range(s)
  BY <1>2, InRange
<1>6. Head(s) \in Range(s)
  BY <1>1, InRange
<1>7. Range(s) \subseteq {Head(s)} \cup Range(Tail(s)) /\ Range(Tail(s)) \subseteq Range(s)
  BY <1>4, <1>5, InRange, Zenon
<1>8. QED
  BY <1>1, <1>6, <1>7

LEMMA QuestionsOfType ==
  ASSUME registry \in [Types -> Seq(Sources)], NEW type \in Types, NEW x \in Subjects
  PROVE  /\ AskAll(type, x) \in Seq(Question)
         /\ \A q \in Range(AskAll(type, x)) : q.type = type
         /\ AskFirst(type, x) \in Seq(Question)
         /\ Range(AskFirst(type, x)) = IF registry[type] = <<>> THEN {} ELSE {ToFirst(type, x)}
         /\ registry[type] # <<>> => ToFirst(type, x) \in Question
         /\ ToFirst(type, x).type = type /\ ToFirst(type, x).subject = x
<1>1. registry[type] \in Seq(Sources)
  OBVIOUS
<1>2. PICK n \in Nat : n = Len(registry[type]) /\ DOMAIN registry[type] = 1 .. n
  BY <1>1
<1>3. \A i \in 1 .. n :
        [type |-> type, source |-> registry[type][i], subject |-> x] \in Question
  BY <1>1, <1>2 DEF Question
<1>4. AskAll(type, x) \in [1 .. n -> Question]
  BY <1>2, <1>3 DEF AskAll
<1>5. AskAll(type, x) \in Seq(Question)
  BY <1>4
<1>6. \A q \in Range(AskAll(type, x)) : q.type = type
  <2>1. \A i \in DOMAIN AskAll(type, x) : AskAll(type, x)[i].type = type
    BY DEF AskAll
  <2>2. \A q \in Range(AskAll(type, x)) : \E i \in DOMAIN AskAll(type, x) :
          q = AskAll(type, x)[i]
    BY InRange, Zenon
  <2>3. QED
    BY <2>1, <2>2, Zenon
<1>7. registry[type] # <<>> => ToFirst(type, x) \in Question
  BY <1>1 DEF ToFirst, Question
<1>8. \A q \in Question : <<q>> \in Seq(Question) /\ Range(<<q>>) = {q}
  BY DEF Range
<1>9. /\ AskFirst(type, x) \in Seq(Question)
      /\ Range(AskFirst(type, x)) = IF registry[type] = <<>> THEN {} ELSE {ToFirst(type, x)}
  <2>1. CASE registry[type] = <<>>
    BY <2>1, RangeOfEmpty DEF AskFirst
  <2>2. CASE registry[type] # <<>>
    BY <2>2, <1>7, <1>8 DEF AskFirst
  <2>3. QED
    BY <2>1, <2>2
<1>10. ToFirst(type, x).type = type /\ ToFirst(type, x).subject = x
  BY DEF ToFirst
<1>11. QED
  BY <1>5, <1>6, <1>7, <1>9, <1>10

LEMMA PlanOf ==
  ASSUME registry \in [Types -> Seq(Sources)], NEW c \in Strict, kind[c] \in Kinds
  PROVE  /\ Plan(c) \in Seq(Question)
         /\ kind[c] = "ACCOUNT" => \A q \in Range(Plan(c)) : ~Follow(q)
<1>1. PICK x \in Subjects : x = TargetOf[c]
  BY DEF Subjects
<1>2. None \in Subjects
  BY DEF Subjects
<1>3. CASE kind[c] = "ACCOUNT"
  <2>1. Plan(c) = AskAll("account", x) \o AskFirst("staking", x)
    BY <1>1, <1>3, Zenon DEF Plan
  <2>2. /\ AskAll("account", x) \in Seq(Question) /\ AskFirst("staking", x) \in Seq(Question)
        /\ \A q \in Range(AskAll("account", x)) : q.type = "account"
        /\ Range(AskFirst("staking", x)) \subseteq {ToFirst("staking", x)}
        /\ ToFirst("staking", x).type = "staking"
    <3>1. "account" \in Types /\ "staking" \in Types
      BY TypesOf
    <3>2. Range(AskFirst("staking", x))
            = IF registry["staking"] = <<>> THEN {} ELSE {ToFirst("staking", x)}
      BY <3>1, QuestionsOfType
    <3>3. QED
      BY <3>1, <3>2, QuestionsOfType
  <2>3. /\ Plan(c) \in Seq(Question)
        /\ Range(Plan(c)) = Range(AskAll("account", x)) \cup Range(AskFirst("staking", x))
    BY <2>1, <2>2, RangeOfConcat
  <2>4. QED
    BY <2>2, <2>3 DEF Follow
<1>4. CASE kind[c] = "CONTRACT"
  <2>1. Plan(c) = (AskAll("contract", x) \o AskFirst("account", x)) \o AskFirst("token", x)
    BY <1>1, <1>4, Zenon DEF Plan
  <2>2. /\ AskAll("contract", x) \in Seq(Question) /\ AskFirst("account", x) \in Seq(Question)
        /\ AskFirst("token", x) \in Seq(Question)
    BY TypesOf, QuestionsOfType
  <2>3. AskAll("contract", x) \o AskFirst("account", x) \in Seq(Question)
    BY <2>2, RangeOfConcat
  <2>4. QED
    BY <1>4, <2>1, <2>2, <2>3, RangeOfConcat
<1>5. CASE kind[c] = "FULL"
  <2>1. Plan(c) = AskFirst("governance", None)
    BY <1>5, Zenon DEF Plan
  <2>2. QED
    BY <1>2, <1>5, <2>1, TypesOf, QuestionsOfType
<1>6. QED
  BY <1>3, <1>4, <1>5 DEF Kinds

LEMMA MinOfTwo ==
  ASSUME NEW a \in Nat, NEW b \in Nat
  PROVE  Min({a, b}) \in Nat /\ \A i \in Nat : i <= Min({a, b}) <=> i <= a /\ i <= b
<1>1. \E x \in {a, b} : \A y \in {a, b} : x <= y
  OBVIOUS
<1>2. Min({a, b}) \in {a, b} /\ \A y \in {a, b} : Min({a, b}) <= y
  BY <1>1 DEF Min
<1>3. PICK m \in {a, b} : m = Min({a, b}) /\ m <= a /\ m <= b
  BY <1>2
<1>4. QED
  BY <1>3

\* The questions that follow from an account: its contract, and tokens that it holds.
AreThoseOf(questions, x, account) ==
  \A q : q \in questions <=>
    \/ /\ account.isContract /\ registry["contract"] # <<>>
       /\ q = ToFirst("contract", x)
    \/ /\ registry["token"] # <<>>
       /\ \E i \in 1 .. Len(account.holdings) :
            i <= MaxTokens /\ q = ToFirst("token", account.holdings[i].token)

LEMMA DetailsOf ==
  ASSUME registry \in [Types -> Seq(Sources)], NEW c \in Strict, NEW x, x = TargetOf[c],
         \A y \in DOMAIN audit[c].got["account"] : IsAccount(audit[c].got["account"][y])
  PROVE  /\ Details(c) \in Seq(Question)
         /\ \A q \in Range(Details(c)) : Follow(q)
         /\ x \notin DOMAIN audit[c].got["account"] => Range(Details(c)) = {}
         /\ x \in DOMAIN audit[c].got["account"] =>
              AreThoseOf(Range(Details(c)), x, audit[c].got["account"][x])
<1>1. x \in Subjects
  BY DEF Subjects
<1>2. CASE x \notin DOMAIN audit[c].got["account"]
  <2>1. Details(c) = <<>>
    BY <1>2 DEF Details
  <2>2. QED
    BY <1>2, <2>1, RangeOfEmpty
<1>3. CASE x \in DOMAIN audit[c].got["account"]
  <2>1. PICK account : account = audit[c].got["account"][x] /\ IsAccount(account)
    BY <1>3
  <2>2. PICK n \in Nat : n = Len(account.holdings) /\ DOMAIN account.holdings = 1 .. n
    BY <2>1 DEF IsAccount
  <2>3. PICK m : m = Min({MaxTokens, n})
    OBVIOUS
  <2>4. m \in Nat /\ \A i \in Nat : i <= m <=> i <= MaxTokens /\ i <= n
    BY <2>3, MaxTokensAssumption, MinOfTwo
  <2>5. PICK contract :
          contract = IF account.isContract THEN AskFirst("contract", x) ELSE <<>>
    OBVIOUS
  <2>6. /\ contract \in Seq(Question)
        /\ \A q : q \in Range(contract) <=>
             /\ account.isContract /\ registry["contract"] # <<>>
             /\ q = ToFirst("contract", x)
    <3>1. /\ AskFirst("contract", x) \in Seq(Question)
          /\ Range(AskFirst("contract", x))
               = IF registry["contract"] = <<>> THEN {} ELSE {ToFirst("contract", x)}
      BY <1>1, TypesOf, QuestionsOfType
    <3>2. CASE account.isContract
      BY <2>5, <3>1, <3>2
    <3>3. CASE ~account.isContract
      BY <2>5, <3>3, RangeOfEmpty
    <3>4. QED
      BY <3>2, <3>3
  <2>7. PICK tokens :
          tokens = IF registry["token"] = <<>> THEN <<>>
                   ELSE [i \in 1 .. m |-> ToFirst("token", account.holdings[i].token)]
    OBVIOUS
  <2>8. /\ tokens \in Seq(Question)
        /\ \A q : q \in Range(tokens) <=>
             /\ registry["token"] # <<>>
             /\ \E i \in 1 .. n : /\ i <= MaxTokens
                                  /\ q = ToFirst("token", account.holdings[i].token)
    <3>1. CASE registry["token"] = <<>>
      BY <2>7, <3>1, RangeOfEmpty
    <3>2. CASE registry["token"] # <<>>
      <4>1. \A i \in 1 .. m : i \in 1 .. n /\ i <= MaxTokens
        BY <2>4
      <4>2. \A i \in 1 .. n : account.holdings[i].token \in Subjects
        BY <2>1, <2>2 DEF IsAccount
      <4>3. \A i \in 1 .. m : ToFirst("token", account.holdings[i].token) \in Question
        BY <3>2, <4>1, <4>2, TypesOf, QuestionsOfType
      <4>4. tokens \in [1 .. m -> Question] /\ DOMAIN tokens = 1 .. m
        BY <2>7, <3>2, <4>3
      <4>5. tokens \in Seq(Question)
        BY <2>4, <4>4
      <4>6. \A i \in 1 .. m : tokens[i] = ToFirst("token", account.holdings[i].token)
        BY <2>7, <3>2
      <4>7. \A i \in 1 .. n : i <= MaxTokens => i \in 1 .. m
        BY <2>4
      <4>8. ASSUME NEW q
            PROVE  q \in Range(tokens) <=>
                     \E i \in 1 .. n : /\ i <= MaxTokens
                                       /\ q = ToFirst("token", account.holdings[i].token)
        <5>1. ASSUME q \in Range(tokens)
              PROVE  \E i \in 1 .. n : /\ i <= MaxTokens
                                       /\ q = ToFirst("token", account.holdings[i].token)
          <6>1. PICK i \in DOMAIN tokens : q = tokens[i]
            BY <5>1, InRange, Zenon
          <6>2. QED
            BY <6>1, <4>1, <4>4, <4>6
        <5>2. ASSUME NEW i \in 1 .. n, i <= MaxTokens,
                     q = ToFirst("token", account.holdings[i].token)
              PROVE  q \in Range(tokens)
          <6>1. i \in DOMAIN tokens /\ tokens[i] = q
            BY <5>2, <4>4, <4>6, <4>7
          <6>2. QED
            BY <6>1, InRange
        <5>3. QED
          BY <5>1, <5>2
      <4>9. QED
        BY <3>2, <4>5, <4>8
    <3>3. QED
      BY <3>1, <3>2
  <2>9. Details(c) = contract \o tokens
    BY <1>3, <2>1, <2>2, <2>3, <2>5, <2>7, Zenon DEF Details
  <2>10. Details(c) \in Seq(Question) /\ Range(Details(c)) = Range(contract) \cup Range(tokens)
    BY <2>6, <2>8, <2>9, RangeOfConcat
  <2>11. Follow(ToFirst("contract", x)) /\ \A y : Follow(ToFirst("token", y))
    BY DEF Follow, ToFirst
  <2>12. \A q : q \in Range(Details(c)) <=>
            \/ /\ account.isContract /\ registry["contract"] # <<>>
               /\ q = ToFirst("contract", x)
            \/ /\ registry["token"] # <<>>
               /\ \E i \in 1 .. n : /\ i <= MaxTokens
                                    /\ q = ToFirst("token", account.holdings[i].token)
    BY <2>6, <2>8, <2>10
  <2>13. \A q \in Range(Details(c)) : Follow(q)
    BY <2>11, <2>12
  <2>14. 1 .. n = 1 .. Len(account.holdings)
    BY <2>2
  <2>15. AreThoseOf(Range(Details(c)), x, account)
    BY <2>12, <2>14, Zenon DEF AreThoseOf
  <2>16. QED
    BY <1>3, <2>1, <2>10, <2>13, <2>15
<1>4. QED
  BY <1>2, <1>3
LEMMA AnswerIsAccount ==
  ASSUME NEW q \in Question, q.type = "account", NEW answer \in AnswersTo(q)
  PROVE  IsAccount(answer)
<1>1. PICK f \in Facts["account"] : answer = AccountBy(q.source, f)
  BY Zenon DEF AnswersTo
<1>2. /\ f = [k \in DOMAIN f |-> f[k]] /\ {"isContract", "holdings"} \subseteq DOMAIN f
      /\ f.isContract \in BOOLEAN /\ Len(f.holdings) \in Nat
      /\ f.holdings = [i \in 1 .. Len(f.holdings) |-> f.holdings[i]]
  BY AccountsAssumption
<1>3. answer.holdings = f.holdings /\ answer.isContract \in BOOLEAN
  BY <1>1, <1>2 DEF AccountBy
<1>4. DOMAIN f.holdings = 1 .. Len(f.holdings)
  BY <1>2
<1>5. \A i \in 1 .. Len(f.holdings) : f.holdings[i].token \in Subjects
  BY DEF Subjects
<1>6. QED
  BY <1>2, <1>3, <1>4, <1>5 DEF IsAccount

\* The last of the places of a longer history.
LEMMA PlacesOfMore ==
  ASSUME NEW h \in Seq(Heard), NEW e \in Heard, NEW type, NEW x
  PROVE  IF e.asked.type = type /\ e.asked.subject = x
         THEN /\ Places(Append(h, e), type, x) # {}
              /\ Max(Places(Append(h, e), type, x)) = Len(h) + 1
         ELSE Places(Append(h, e), type, x) = Places(h, type, x)
<1>1. PICK n \in Nat : n = Len(h) /\ DOMAIN h = 1 .. n
  OBVIOUS
<1>2. PICK g : g = Append(h, e)
  OBVIOUS
<1>3. /\ DOMAIN g = 1 .. (n + 1) /\ g[n + 1] = e
      /\ \A i \in 1 .. n : g[i] = h[i]
  BY <1>1, <1>2
<1>4. CASE e.asked.type = type /\ e.asked.subject = x
  <2>1. n + 1 \in Places(g, type, x) /\ \A i \in Places(g, type, x) : i \in 1 .. (n + 1)
    BY <1>3, <1>4 DEF Places
  <2>2. PICK S : S = Places(g, type, x) /\ n + 1 \in S /\ \A i \in S : i \in 1 .. (n + 1)
    BY <2>1
  <2>3. n + 1 \in S /\ \A i \in S : n + 1 >= i
    BY <2>2
  <2>4. Max(S) \in S /\ \A i \in S : Max(S) >= i
    BY <2>3 DEF Max
  <2>5. Max(S) = n + 1
    BY <2>2, <2>3, <2>4
  <2>6. QED
    BY <1>1, <1>2, <1>4, <2>2, <2>5
<1>5. CASE ~(e.asked.type = type /\ e.asked.subject = x)
  <2>1. \A i : i \in Places(g, type, x) <=> i \in Places(h, type, x)
    BY <1>1, <1>3, <1>5 DEF Places
  <2>2. Places(g, type, x) \subseteq Places(h, type, x)
      /\ Places(h, type, x) \subseteq Places(g, type, x)
    BY <2>1
  <2>3. Places(g, type, x) = Places(h, type, x)
    BY <2>2
  <2>4. QED
    BY <1>2, <1>5, <2>3, Zenon
<1>6. QED
  BY <1>4, <1>5

\* Answers are kept by address.
LEMMA KeepsByAddress ==
  ASSUME NEW got, got = [type \in Types |-> got[type]], NEW q \in Question, NEW answer
  PROVE  /\ Keep(got, q, answer) = [type \in Types |-> Keep(got, q, answer)[type]]
         /\ \A type \in Types :
              type # q.type => Keep(got, q, answer)[type] = got[type]
         /\ DOMAIN Keep(got, q, answer)[q.type] = {q.subject} \cup DOMAIN got[q.type]
         /\ Keep(got, q, answer)[q.type][q.subject] = answer
         /\ \A x \in DOMAIN got[q.type] :
              x # q.subject => Keep(got, q, answer)[q.type][x] = got[q.type][x]
<1>1. PICK kept : kept = [x \in DOMAIN got[q.type] \cup {q.subject} |->
                            IF x = q.subject THEN answer ELSE got[q.type][x]]
  OBVIOUS
<1>2. /\ DOMAIN kept = {q.subject} \cup DOMAIN got[q.type]
      /\ kept[q.subject] = answer
      /\ \A x \in DOMAIN got[q.type] : x # q.subject => kept[x] = got[q.type][x]
  BY <1>1
<1>3. q.type \in Types
  BY DEF Question
<1>4. Keep(got, q, answer) = [got EXCEPT ![q.type] = kept]
  BY <1>1 DEF Keep
<1>5. QED
  BY <1>2, <1>3, <1>4

\* An audit that has heard nothing.
LEMMA EmptyMemory ==
  ASSUME NEW a, a.todo \in Seq(Question), a.asked = {}, a.sources = {}, a.points = 0,
         a.got = [type \in Types |-> <<>>]
  PROVE  Memory(a, <<>>)
<1>1. <<>> \in Seq(Heard) /\ Len(<<>>) = 0 /\ DOMAIN <<>> = {}
  OBVIOUS
<1>2. \A type, x : Places(<<>>, type, x) = {}
  BY <1>1 DEF Places
<1>3. \A type \in Types : a.got[type] = <<>> /\ DOMAIN a.got[type] = {}
  BY <1>1
<1>4. {<<>>[i].asked.source : i \in DOMAIN <<>>} = {}
  BY <1>1
<1>5. a.got = [type \in Types |-> a.got[type]] /\ a.asked \subseteq Question
  OBVIOUS
<1>6. "account" \in Types
  BY TypesOf
<1>7. QED
  BY <1>1, <1>2, <1>3, <1>4, <1>5, <1>6 DEF Memory

\* What was heard is not forgotten.
LEMMA SameMemory ==
  ASSUME NEW a, NEW b, NEW h, Memory(a, h), b.todo \in Seq(Question),
         b.asked \subseteq Question, b.got = a.got, b.points = a.points,
         b.sources = a.sources
  PROVE  Memory(b, h)
BY DEF Memory

LEMMA MoreMemory ==
  ASSUME NEW a, NEW b, NEW h, Memory(a, h), NEW q \in Question, NEW answer \in AnswersTo(q),
         b.todo \in Seq(Question), b.asked \subseteq Question,
         b.got = Keep(a.got, q, answer), b.points = a.points + 1,
         b.sources = a.sources \cup {q.source}
  PROVE  Memory(b, Append(h, [asked |-> q, answer |-> answer]))
<1>1. PICK e \in Heard : e = [asked |-> q, answer |-> answer]
  BY DEF Heard
<1>2. e.asked = q /\ e.answer = answer
  BY <1>1
<1>3. PICK g : g = Append(h, e)
  OBVIOUS
<1>4. h \in Seq(Heard) /\ Len(h) \in Nat /\ DOMAIN h = 1 .. Len(h)
  BY DEF Memory
<1>5. /\ g \in Seq(Heard) /\ Len(g) = Len(h) + 1
      /\ DOMAIN g = 1 .. Len(h) + 1 /\ g[Len(h) + 1] = e
      /\ \A i \in DOMAIN h : i \in DOMAIN g /\ g[i] = h[i]
  BY <1>3, <1>4
<1>6. q.type \in Types /\ q.subject \in Subjects
  BY DEF Question
<1>7. /\ b.got = [type \in Types |-> b.got[type]]
      /\ \A type \in Types : type # q.type => b.got[type] = a.got[type]
      /\ DOMAIN b.got[q.type] = {q.subject} \cup DOMAIN a.got[q.type]
      /\ b.got[q.type][q.subject] = answer
      /\ \A x \in DOMAIN a.got[q.type] : x # q.subject => b.got[q.type][x] = a.got[q.type][x]
  <2>1. PICK got : got = a.got /\ got = [type \in Types |-> got[type]]
    BY DEF Memory
  <2>2. PICK kept : kept = Keep(got, q, answer)
    OBVIOUS
  <2>3. /\ kept = [type \in Types |-> kept[type]]
        /\ \A type \in Types : type # q.type => kept[type] = got[type]
        /\ DOMAIN kept[q.type] = {q.subject} \cup DOMAIN got[q.type]
        /\ kept[q.type][q.subject] = answer
        /\ \A x \in DOMAIN got[q.type] : x # q.subject => kept[q.type][x] = got[q.type][x]
    BY <2>1, <2>2, KeepsByAddress
  <2>4. b.got = kept /\ a.got = got
    BY <2>1, <2>2
  <2>5. QED
    BY <2>3, <2>4
<1>8. b.sources = {g[i].asked.source : i \in DOMAIN g}
  <2>1. a.sources = {h[i].asked.source : i \in DOMAIN h}
    BY DEF Memory
  <2>2. DOMAIN g = DOMAIN h \cup {Len(h) + 1}
    BY <1>4, <1>5
  <2>3. /\ \A i \in DOMAIN h : g[i].asked.source = h[i].asked.source
        /\ g[Len(h) + 1].asked.source = q.source
    BY <1>2, <1>5
  <2>4. QED
    BY <2>1, <2>2, <2>3
<1>9. \A type \in Types : DOMAIN b.got[type] \subseteq Subjects
  BY <1>6, <1>7 DEF Memory
<1>10. ASSUME NEW type \in Types, NEW x \in Subjects
       PROVE  /\ x \in DOMAIN b.got[type] <=> Places(g, type, x) # {}
              /\ x \in DOMAIN b.got[type] =>
                   /\ Max(Places(g, type, x)) \in DOMAIN g
                   /\ b.got[type][x] = g[Max(Places(g, type, x))].answer
  <2>1. CASE q.type = type /\ q.subject = x
    <3>1. Places(g, type, x) # {} /\ Max(Places(g, type, x)) = Len(h) + 1
      BY <1>2, <1>3, <1>4, <2>1, PlacesOfMore
    <3>2. x \in DOMAIN b.got[type] /\ b.got[type][x] = answer
      BY <1>7, <2>1
    <3>3. Len(h) + 1 \in DOMAIN g /\ g[Len(h) + 1].answer = answer
      BY <1>2, <1>4, <1>5
    <3>4. QED
      BY <3>1, <3>2, <3>3
  <2>2. CASE ~(q.type = type /\ q.subject = x)
    <3>1. Places(g, type, x) = Places(h, type, x)
      BY <1>2, <1>3, <1>4, <2>2, PlacesOfMore
    <3>2. /\ x \in DOMAIN b.got[type] <=> x \in DOMAIN a.got[type]
          /\ x \in DOMAIN a.got[type] => b.got[type][x] = a.got[type][x]
      BY <1>7, <2>2
    <3>3. /\ x \in DOMAIN a.got[type] <=> Places(h, type, x) # {}
          /\ x \in DOMAIN a.got[type] =>
               /\ Max(Places(h, type, x)) \in DOMAIN h
               /\ a.got[type][x] = h[Max(Places(h, type, x))].answer
      BY DEF Memory
    <3>4. QED
      BY <1>5, <3>1, <3>2, <3>3
  <2>3. QED
    BY <2>1, <2>2
<1>11. ASSUME NEW x \in DOMAIN b.got["account"]
       PROVE  IsAccount(b.got["account"][x])
  <2>1. \A y \in DOMAIN a.got["account"] : IsAccount(a.got["account"][y])
    BY DEF Memory
  <2>2. CASE q.type = "account" /\ x = q.subject
    BY <1>7, <2>2, AnswerIsAccount
  <2>3. CASE q.type # "account"
    BY <1>7, <2>1, <2>3, TypesOf
  <2>4. CASE q.type = "account" /\ x # q.subject
    <3>1. x \in DOMAIN a.got["account"] /\ b.got["account"][x] = a.got["account"][x]
      BY <1>7, <2>4
    <3>2. QED
      BY <2>1, <3>1
  <2>5. QED
    BY <2>2, <2>3, <2>4
<1>12. b.points = Len(g)
  BY <1>5 DEF Memory
<1>13. Memory(b, g)
  BY <1>5, <1>7, <1>8, <1>9, <1>10, <1>11, <1>12 DEF Memory
<1>14. QED
  BY <1>1, <1>3, <1>13

\* What follows from an account, as a function of the registry and the answers.
Following(reg, x, accounts) ==
  LET first(type, y) ==
        [type |-> type, source |-> Head(reg[type]), subject |-> y]
      from(type, y) == IF reg[type] = <<>> THEN <<>> ELSE <<first(type, y)>>
  IN  IF x \notin DOMAIN accounts THEN <<>>
      ELSE (IF accounts[x].isContract THEN from("contract", x) ELSE <<>>)
             \o (IF reg["token"] = <<>> THEN <<>>
                 ELSE [i \in 1 .. Min({MaxTokens, Len(accounts[x].holdings)}) |->
                         first("token", accounts[x].holdings[i].token)])

LEMMA DetailsFollow ==
  ASSUME NEW c \in Strict
  PROVE  /\ Details(c) = Following(registry, TargetOf[c], audit[c].got["account"])
         /\ Details(c)' = Following(registry', TargetOf[c], audit'[c].got["account"])
BY DEF Details, AskFirst, ToFirst, Following

\* A step of one audit.
LEMMA StepIsHonest ==
  ASSUME EvidenceInv, NEW c \in Strict, NEW t, IsAudit(t), Set(c, t),
         NEW h, heard' = [heard EXCEPT ![c] = h], Memory(t, h),
         kind[c] = "ACCOUNT" =>
           Turn(t, Range(Following(registry, TargetOf[c], t.got["account"]))),
         t.pc \in {"analyzed", "saving"} => t.todo = <<>>,
         t.pc = "idle" => h = <<>>
  PROVE  EvidenceInv'
<1>1. /\ audit'[c] = t
      /\ \A d \in Strict : d # c => audit'[d] = audit[d]
      /\ Shape'
      /\ registry' = registry /\ kind' = kind
  BY SetStep DEF EvidenceInv
<1>2. /\ heard'[c] = h
      /\ \A d \in Strict : d # c => heard'[d] = heard[d]
      /\ heard' = [d \in Strict |-> heard'[d]]
  BY DEF EvidenceInv
<1>3. Details(c)' = Following(registry, TargetOf[c], t.got["account"])
  BY <1>1, DetailsFollow
<1>4. Honest(c)'
  BY <1>1, <1>2, <1>3 DEF Honest
<1>5. ASSUME NEW d \in Strict, d # c
      PROVE  Honest(d)'
  <2>1. Details(d)' = Details(d)
    BY <1>1, <1>5, DetailsFollow
  <2>2. QED
    BY <1>1, <1>2, <1>5, <2>1 DEF Honest, EvidenceInv
<1>6. QED
  BY <1>1, <1>2, <1>4, <1>5 DEF EvidenceInv

\* A step that hears nothing.
LEMMA SilentStepIsHonest ==
  ASSUME EvidenceInv, NEW c \in Strict, NEW t, IsAudit(t), Set(c, t), heard' = heard,
         Memory(t, heard[c]),
         kind[c] = "ACCOUNT" =>
           Turn(t, Range(Following(registry, TargetOf[c], t.got["account"]))),
         t.pc \in {"analyzed", "saving"} => t.todo = <<>>,
         t.pc # "idle"
  PROVE  EvidenceInv'
<1>1. heard' = [heard EXCEPT ![c] = heard[c]]
  BY DEF EvidenceInv
<1>2. QED
  BY <1>1, StepIsHonest

LEMMA BeginIsHonest ==
  ASSUME EvidenceInv, NEW c \in Strict, Begin(c)
  PROVE  EvidenceInv'
<1> HIDE DEF NoAudit
<1>1. PICK todo : todo = Plan(c)
  OBVIOUS
<1>2. /\ todo \in Seq(Question)
      /\ kind[c] = "ACCOUNT" => \A q \in Range(todo) : ~Follow(q)
  BY <1>1, PlanOf DEF Begin, EvidenceInv
<1>3. PICK t : t = [NoAudit EXCEPT !.pc = "asking", !.todo = todo]
  OBVIOUS
<1>4. /\ IsAudit(t) /\ t.pc = "asking" /\ t.todo = todo /\ t.asked = {} /\ t.sources = {}
      /\ t.points = 0 /\ t.got = [type \in Types |-> <<>>]
  BY <1>3, NoAuditIsAudit DEF IsAudit
<1>5. heard[c] = <<>> /\ heard' = heard
  BY DEF Begin, EvidenceInv, Honest
<1>6. Memory(t, <<>>)
  BY <1>2, <1>4, EmptyMemory
<1>7. kind[c] = "ACCOUNT" =>
        Turn(t, Range(Following(registry, TargetOf[c], t.got["account"])))
  BY <1>2, <1>4 DEF Turn, Detailed
<1>8. Set(c, t)
  BY <1>1, <1>3 DEF Begin
<1>9. QED
  BY <1>4, <1>5, <1>6, <1>7, <1>8, SilentStepIsHonest

\* What is left to do, once its head has been asked.
LEMMA TurnGoesOn ==
  ASSUME NEW a, a.todo \in Seq(Question), a.todo # <<>>, NEW following, Turn(a, following),
         NEW t, t.pc = a.pc, t.todo = Tail(a.todo), t.asked = a.asked \cup {Head(a.todo)}
  PROVE  Turn(t, following)
<1>1. Range(a.todo) = {Head(a.todo)} \cup Range(t.todo)
  BY RangeOfTodo
<1>2. a.asked \cup Range(a.todo) = t.asked \cup Range(t.todo)
  BY <1>1
<1>3. \A q \in Range(t.todo) : q \in Range(a.todo)
  BY <1>1
<1>4. QED
  BY <1>2, <1>3 DEF Turn

\* What follows from an account is asked when no account is asked any more.
LEMMA AccountIsKnown ==
  ASSUME NEW a, a.todo \in Seq(Question), a.todo # <<>>, NEW following, Turn(a, following),
         Detailed(a.pc)
  PROVE  Head(a.todo).type # "account"
<1>1. Head(a.todo) \in Range(a.todo)
  BY RangeOfTodo
<1>2. QED
  BY <1>1 DEF Turn, Follow

LEMMA AskIsHonest ==
  ASSUME EvidenceInv, NEW c \in Strict, Ask(c)
  PROVE  EvidenceInv'
<1>1. PICK a : a = audit[c] /\ IsAudit(a)
  BY DEF EvidenceInv, Shape
<1>2. PICK h : h = heard[c]
  OBVIOUS
<1>3. /\ Memory(a, h) /\ a.todo \in Seq(Question) /\ a.asked \subseteq Question
      /\ kind[c] = "ACCOUNT" => Turn(a, Range(Details(c)))
      /\ a.pc \in {"asking", "detailing"} /\ a.todo # <<>>
  <2>1. /\ Memory(a, h)
        /\ kind[c] = "ACCOUNT" => Turn(a, Range(Details(c)))
    BY <1>1, <1>2 DEF EvidenceInv, Honest
  <2>2. a.todo \in Seq(Question) /\ a.asked \subseteq Question
    BY <2>1 DEF Memory
  <2>3. a.pc \in {"asking", "detailing"} /\ a.todo # <<>>
    BY <1>1 DEF Ask
  <2>4. QED
    BY <2>1, <2>2, <2>3
<1>4. PICK q \in Question : q = Head(a.todo)
  BY <1>3, RangeOfTodo
<1>5. PICK answer \in AnswersTo(q) :
        /\ Set(c, [a EXCEPT !.todo = Tail(@), !.asked = @ \cup {q},
                            !.got = Keep(@, q, answer), !.points = @ + 1,
                            !.sources = @ \cup {q.source}])
        /\ heard' = [heard EXCEPT ![c] = Append(@, [asked |-> q, answer |-> answer])]
  BY <1>1, <1>4 DEF Ask
<1>6. PICK todo, asked, got, points, sources :
        /\ todo = Tail(a.todo) /\ asked = a.asked \cup {q} /\ got = Keep(a.got, q, answer)
        /\ points = a.points + 1 /\ sources = a.sources \cup {q.source}
  OBVIOUS
<1>7. PICK t : t = [a EXCEPT !.todo = todo, !.asked = asked, !.got = got,
                             !.points = points, !.sources = sources]
  OBVIOUS
<1>8. Set(c, t)
  BY <1>5, <1>6, <1>7
<1>9. /\ IsAudit(t) /\ t.pc = a.pc /\ t.todo = todo /\ t.asked = asked /\ t.got = got
      /\ t.points = points /\ t.sources = sources
  BY <1>1, <1>7 DEF IsAudit
<1>10. todo \in Seq(Question) /\ asked \subseteq Question
  BY <1>3, <1>4, <1>6, RangeOfTodo
<1>11. PICK g : g = Append(h, [asked |-> q, answer |-> answer])
  OBVIOUS
<1>12. Memory(t, g)
  BY <1>3, <1>6, <1>9, <1>10, <1>11, MoreMemory
<1>13. heard' = [heard EXCEPT ![c] = g]
  BY <1>2, <1>5, <1>11 DEF EvidenceInv
<1>14. kind[c] = "ACCOUNT" =>
         Turn(t, Range(Following(registry, TargetOf[c], t.got["account"])))
  <2>1. HAVE kind[c] = "ACCOUNT"
  <2>2. Turn(t, Range(Details(c)))
    BY <1>3, <1>4, <1>6, <1>9, <2>1, TurnGoesOn
  <2>3. CASE Detailed(a.pc)
    <3>1. q.type # "account"
      BY <1>3, <1>4, <2>1, <2>3, AccountIsKnown
    <3>2. PICK known : known = a.got /\ known = [type \in Types |-> known[type]]
      BY <1>3 DEF Memory
    <3>3. Keep(known, q, answer)["account"] = known["account"]
      BY <3>1, <3>2, TypesOf, KeepsByAddress
    <3>4. t.got["account"] = a.got["account"]
      BY <1>6, <1>9, <3>2, <3>3
    <3>5. Details(c) = Following(registry, TargetOf[c], t.got["account"])
      BY <1>1, <3>4, DetailsFollow
    <3>6. QED
      BY <2>2, <3>5
  <2>4. CASE ~Detailed(a.pc)
    BY <1>9, <2>2, <2>4 DEF Turn
  <2>5. QED
    BY <2>3, <2>4
<1>15. t.pc \in {"asking", "detailing"}
  BY <1>3, <1>9
<1>16. QED
  BY <1>8, <1>9, <1>12, <1>13, <1>14, <1>15, StepIsHonest

LEMMA AskInVainIsHonest ==
  ASSUME EvidenceInv, NEW c \in Strict, AskInVain(c)
  PROVE  EvidenceInv'
<1>1. PICK a : a = audit[c] /\ IsAudit(a)
  BY DEF EvidenceInv, Shape
<1>2. /\ Memory(a, heard[c]) /\ a.todo \in Seq(Question) /\ a.asked \subseteq Question
      /\ kind[c] = "ACCOUNT" => Turn(a, Range(Details(c)))
      /\ a.pc \in {"asking", "detailing"} /\ a.todo # <<>> /\ heard' = heard
  BY <1>1 DEF EvidenceInv, Honest, Memory, AskInVain
<1>3. PICK todo, asked : todo = Tail(a.todo) /\ asked = a.asked \cup {Head(a.todo)}
  OBVIOUS
<1>4. PICK t : t = [a EXCEPT !.todo = todo, !.asked = asked]
  OBVIOUS
<1>5. Set(c, t)
  BY <1>1, <1>3, <1>4 DEF AskInVain, GoOn
<1>6. /\ IsAudit(t) /\ t.pc = a.pc /\ t.todo = todo /\ t.asked = asked /\ t.got = a.got
      /\ t.points = a.points /\ t.sources = a.sources
  BY <1>1, <1>4 DEF IsAudit
<1>7. todo \in Seq(Question) /\ asked \subseteq Question
  BY <1>2, <1>3, RangeOfTodo
<1>8. Memory(t, heard[c])
  BY <1>2, <1>6, <1>7, SameMemory
<1>9. Details(c) = Following(registry, TargetOf[c], t.got["account"])
  BY <1>1, <1>6, DetailsFollow
<1>10. kind[c] = "ACCOUNT" => Turn(t, Range(Details(c)))
  BY <1>2, <1>3, <1>6, TurnGoesOn
<1>11. t.pc \in {"asking", "detailing"}
  BY <1>2, <1>6
<1>12. QED
  BY <1>2, <1>5, <1>6, <1>8, <1>9, <1>10, <1>11, SilentStepIsHonest

LEMMA DetailIsHonest ==
  ASSUME EvidenceInv, NEW c \in Strict, Detail(c)
  PROVE  EvidenceInv'
<1>1. PICK a : a = audit[c] /\ IsAudit(a)
  BY DEF EvidenceInv, Shape
<1>2. /\ Memory(a, heard[c]) /\ a.asked \subseteq Question /\ Turn(a, Range(Details(c)))
      /\ a.pc = "asking" /\ a.todo = <<>> /\ heard' = heard
  BY <1>1 DEF EvidenceInv, Honest, Memory, Detail
<1>3. \A x \in DOMAIN audit[c].got["account"] : IsAccount(audit[c].got["account"][x])
  BY <1>1, <1>2 DEF Memory
<1>4. PICK todo : todo = Details(c)
  OBVIOUS
<1>5. todo \in Seq(Question) /\ \A q \in Range(todo) : Follow(q)
  BY <1>3, <1>4, DetailsOf DEF EvidenceInv
<1>6. PICK t : t = [a EXCEPT !.pc = "detailing", !.todo = todo]
  OBVIOUS
<1>7. Set(c, t)
  BY <1>1, <1>4, <1>6 DEF Detail
<1>8. /\ IsAudit(t) /\ t.pc = "detailing" /\ t.todo = todo /\ t.asked = a.asked
      /\ t.got = a.got /\ t.points = a.points /\ t.sources = a.sources
  BY <1>1, <1>6 DEF IsAudit
<1>9. Memory(t, heard[c])
  BY <1>2, <1>5, <1>8, SameMemory
<1>10. Details(c) = Following(registry, TargetOf[c], t.got["account"])
  BY <1>1, <1>8, DetailsFollow
<1>11. \A q \in a.asked : ~Follow(q)
  BY <1>2 DEF Turn, Detailed
<1>12. {q \in t.asked \cup Range(t.todo) : Follow(q)} = Range(Details(c))
  BY <1>4, <1>5, <1>8, <1>11
<1>13. Turn(t, Range(Details(c)))
  BY <1>5, <1>8, <1>12 DEF Turn, Detailed
<1>14. QED
  BY <1>2, <1>7, <1>8, <1>9, <1>10, <1>13, SilentStepIsHonest

\* An audit that has ended has forgotten everything.
LEMMA EndIsHonest ==
  ASSUME EvidenceInv, NEW c \in Strict, NEW pc \in {"failed", "done"},
         Set(c, [NoAudit EXCEPT !.pc = pc]), heard' = [heard EXCEPT ![c] = <<>>]
  PROVE  EvidenceInv'
<1> HIDE DEF NoAudit
<1>1. PICK t : t = [NoAudit EXCEPT !.pc = pc]
  OBVIOUS
<1>2. /\ IsAudit(t) /\ t.pc = pc /\ t.todo = <<>> /\ t.asked = {} /\ t.sources = {}
      /\ t.points = 0 /\ t.got = [type \in Types |-> <<>>]
  BY <1>1, NoAuditIsAudit DEF IsAudit
<1>3. t.todo \in Seq(Question) /\ Range(t.todo) = {}
  BY <1>2, RangeOfEmpty
<1>4. Memory(t, <<>>)
  BY <1>2, <1>3, EmptyMemory
<1>5. Turn(t, Range(Following(registry, TargetOf[c], t.got["account"])))
  BY <1>2, <1>3 DEF Turn, Detailed
<1>6. Set(c, t)
  BY <1>1
<1>7. QED
  BY <1>2, <1>4, <1>5, <1>6, StepIsHonest

\* A step that asks nothing leaves the evidence as it is.
LEMMA SettledIsHonest ==
  ASSUME EvidenceInv, NEW c \in Strict, NEW a, a = audit[c], a.todo = <<>>,
         kind[c] = "ACCOUNT" => Detailed(a.pc),
         NEW t, IsAudit(t), Set(c, t), heard' = heard,
         t.pc \in {"analyzed", "saving"}, t.todo = a.todo, t.asked = a.asked,
         t.got = a.got, t.points = a.points, t.sources = a.sources
  PROVE  EvidenceInv'
<1>1. /\ Memory(a, heard[c])
      /\ kind[c] = "ACCOUNT" => Turn(a, Range(Details(c)))
  BY DEF EvidenceInv, Honest
<1>2. t.todo \in Seq(Question) /\ t.asked \subseteq Question
  BY <1>1 DEF Memory
<1>3. Memory(t, heard[c])
  BY <1>1, <1>2, SameMemory
<1>4. Details(c) = Following(registry, TargetOf[c], t.got["account"])
  BY DetailsFollow
<1>5. kind[c] = "ACCOUNT" => Turn(t, Range(Details(c)))
  BY <1>1 DEF Turn, Detailed
<1>6. QED
  BY <1>3, <1>4, <1>5, SilentStepIsHonest

LEMMA AnalyzeIsHonest ==
  ASSUME EvidenceInv, NEW c \in Strict, Analyze(c)
  PROVE  EvidenceInv'
<1>1. PICK a : a = audit[c] /\ IsAudit(a)
  BY DEF EvidenceInv, Shape
<1>2. PICK s : s = Snapshot(a.got)
  OBVIOUS
<1>3. a.pc = (IF kind[c] = "ACCOUNT" THEN "detailing" ELSE "asking") /\ a.todo = <<>>
  BY <1>1 DEF Analyze
<1>4. CASE Malformed(s)
  <2>1. GiveUp(c)
    BY <1>1, <1>2, <1>4 DEF Analyze
  <2>2. QED
    BY <2>1, EndIsHonest DEF GiveUp
<1>5. CASE ~Malformed(s)
  <2>1. PICK found : found = FindingsOf(s)
    OBVIOUS
  <2>2. PICK t : t = [a EXCEPT !.pc = "analyzed", !.found = found]
    OBVIOUS
  <2>3. Set(c, t) /\ heard' = heard
    BY <1>1, <1>2, <1>5, <2>1, <2>2 DEF Analyze
  <2>4. /\ IsAudit(t) /\ t.pc = "analyzed" /\ t.todo = a.todo /\ t.asked = a.asked
        /\ t.got = a.got /\ t.points = a.points /\ t.sources = a.sources
    BY <1>1, <2>2 DEF IsAudit
  <2>5. kind[c] = "ACCOUNT" => Detailed(a.pc)
    BY <1>3 DEF Detailed
  <2>6. QED
    BY <1>1, <1>3, <2>3, <2>4, <2>5, SettledIsHonest
<1>6. QED
  BY <1>4, <1>5

LEMMA InsertIsHonest ==
  ASSUME EvidenceInv, NEW c \in Strict, InsertReport(c) \/ InsertFinding(c)
  PROVE  EvidenceInv'
<1>1. PICK a : a = audit[c] /\ IsAudit(a)
  BY DEF EvidenceInv, Shape
<1>2. a.pc \in {"analyzed", "saving"} /\ heard' = heard
  BY <1>1 DEF InsertReport, InsertFinding
<1>3. a.todo = <<>>
  BY <1>1, <1>2 DEF EvidenceInv, Honest
<1>4. Detailed(a.pc)
  BY <1>2 DEF Detailed
<1>5. \E rows, saved : Set(c, [a EXCEPT !.pc = "saving", !.rows = rows, !.saved = saved])
  <2>1. CASE InsertReport(c)
    <3>1. PICK rows : rows = {Report(c)}
      OBVIOUS
    <3>2. Set(c, [a EXCEPT !.pc = "saving", !.rows = rows])
      BY <1>1, <2>1, <3>1 DEF InsertReport
    <3>3. [a EXCEPT !.pc = "saving", !.rows = rows]
            = [a EXCEPT !.pc = "saving", !.rows = rows, !.saved = a.saved]
      BY <1>1 DEF IsAudit
    <3>4. QED
      BY <3>2, <3>3, Zenon
  <2>2. CASE InsertFinding(c)
    <3>1. PICK f : Set(c, [a EXCEPT !.saved = @ \cup {f}]) /\ a.pc = "saving"
      BY <1>1, <2>2 DEF InsertFinding
    <3>2. PICK saved : saved = a.saved \cup {f}
      OBVIOUS
    <3>3. Set(c, [a EXCEPT !.saved = saved])
      BY <3>1, <3>2
    <3>4. [a EXCEPT !.saved = saved]
            = [a EXCEPT !.pc = "saving", !.rows = a.rows, !.saved = saved]
      BY <1>1, <3>1 DEF IsAudit
    <3>5. QED
      BY <3>3, <3>4, Zenon
  <2>3. QED
    BY <2>1, <2>2
<1>6. PICK rows, saved : Set(c, [a EXCEPT !.pc = "saving", !.rows = rows, !.saved = saved])
  BY <1>5
<1>7. PICK t : t = [a EXCEPT !.pc = "saving", !.rows = rows, !.saved = saved]
  OBVIOUS
<1>8. /\ IsAudit(t) /\ t.pc = "saving" /\ t.todo = a.todo /\ t.asked = a.asked
      /\ t.got = a.got /\ t.points = a.points /\ t.sources = a.sources
  BY <1>1, <1>7 DEF IsAudit
<1>9. QED
  BY <1>1, <1>2, <1>3, <1>4, <1>6, <1>7, <1>8, SettledIsHonest

LEMMA EvidenceStep ==
  ASSUME EvidenceInv, [Next]_vars
  PROVE  EvidenceInv'
<1>1. ASSUME NEW c \in Strict, AuditStep(c) \/ Fail(c)
      PROVE  EvidenceInv'
  <2>1. CASE Begin(c)
    BY <2>1, BeginIsHonest
  <2>2. CASE Ask(c)
    BY <2>2, AskIsHonest
  <2>3. CASE AskInVain(c)
    BY <2>3, AskInVainIsHonest
  <2>4. CASE Detail(c)
    BY <2>4, DetailIsHonest
  <2>5. CASE Analyze(c)
    BY <2>5, AnalyzeIsHonest
  <2>6. CASE InsertReport(c) \/ InsertFinding(c)
    BY <2>6, InsertIsHonest
  <2>7. CASE CommitReport(c)
    BY <2>7, EndIsHonest DEF CommitReport
  <2>8. CASE Fail(c)
    BY <2>8, EndIsHonest DEF Fail, GiveUp
  <2>9. QED
    BY <1>1, <2>1, <2>2, <2>3, <2>4, <2>5, <2>6, <2>7, <2>8 DEF AuditStep
<1>2. CASE UNCHANGED auditVars
  <2>1. /\ registry' = registry /\ kind' = kind /\ audit' = audit /\ heard' = heard
    BY <1>2 DEF auditVars
  <2>2. \A c \in Strict : Details(c)' = Details(c)
    BY <2>1, DetailsFollow
  <2>3. \A c \in Strict : Honest(c)'
    BY <2>1, <2>2 DEF EvidenceInv, Honest
  <2>4. QED
    BY <2>1, <2>3 DEF EvidenceInv, Shape
<1>3. QED
  BY <1>1, <1>2 DEF Next, vars

LEMMA InitIsHonest == Init => EvidenceInv
<1>1. SUFFICES ASSUME Init PROVE EvidenceInv
  OBVIOUS
<1>2. /\ audit = [c \in Strict |-> NoAudit] /\ heard = [c \in Strict |-> <<>>]
      /\ registry \in [Types -> Seq(Sources)]
  BY <1>1, RegistriesAssumption DEF Init
<1> HIDE DEF NoAudit
<1>3. NoAudit.todo \in Seq(Question) /\ Range(NoAudit.todo) = {}
  BY NoAuditIsAudit, RangeOfEmpty
<1>4. Memory(NoAudit, <<>>)
  BY <1>3, NoAuditIsAudit, EmptyMemory
<1>5. \A following : Turn(NoAudit, following)
  BY <1>3, NoAuditIsAudit DEF Turn, Detailed
<1>6. \A c \in Strict : audit[c] = NoAudit /\ heard[c] = <<>>
  BY <1>2
<1>7. \A c \in Strict : Honest(c)
  BY <1>4, <1>5, <1>6, NoAuditIsAudit DEF Honest
<1>8. Shape
  BY <1>2, NoAuditIsAudit DEF Shape
<1>9. QED
  BY <1>2, <1>7, <1>8 DEF EvidenceInv

LEMMA AskedBy ==
  ASSUME NEW c \in Strict, NEW type, NEW x
  PROVE  x \in AskedOf(c, type) <=> \E q \in audit[c].asked : q.type = type /\ x = q.subject
BY DEF AskedOf

\* What an audit that asks nothing any more has asked about the account's contract
\* and tokens.
LEMMA AskedWhatFollows ==
  ASSUME EvidenceInv, NEW c \in Strict, kind[c] = "ACCOUNT",
         audit[c].pc \in {"analyzed", "saving"}
  PROVE  /\ TargetOf[c] \notin DOMAIN audit[c].got["account"] =>
              AskedOf(c, "contract") \cup AskedOf(c, "token") = {}
         /\ TargetOf[c] \in DOMAIN audit[c].got["account"] =>
              FollowsFrom(c, audit[c].got["account"][TargetOf[c]])
<1>1. PICK x : x = TargetOf[c]
  OBVIOUS
<1>2. PICK a : a = audit[c]
  OBVIOUS
<1>3. /\ Memory(a, heard[c]) /\ Turn(a, Range(Details(c))) /\ a.todo = <<>>
      /\ Detailed(a.pc)
  BY <1>2 DEF EvidenceInv, Honest, Detailed
<1>4. {q \in a.asked : Follow(q)} = Range(Details(c))
  BY <1>3, RangeOfEmpty DEF Turn
<1>5. \A y \in DOMAIN a.got["account"] : IsAccount(a.got["account"][y])
  BY <1>3 DEF Memory
<1>6. CASE x \notin DOMAIN a.got["account"]
  <2>1. Range(Details(c)) = {}
    BY <1>1, <1>2, <1>5, <1>6, DetailsOf DEF EvidenceInv
  <2>2. \A q \in a.asked : q.type # "contract" /\ q.type # "token"
    BY <1>4, <2>1 DEF Follow
  <2>3. \A y : y \notin AskedOf(c, "contract") /\ y \notin AskedOf(c, "token")
    BY <1>2, <2>2, AskedBy
  <2>4. QED
    BY <1>1, <1>2, <1>6, <2>3
<1>7. CASE x \in DOMAIN a.got["account"]
  <2>1. PICK account : account = a.got["account"][x]
    OBVIOUS
  <2>2. PICK n \in Nat : n = Len(account.holdings) /\ DOMAIN account.holdings = 1 .. n
    BY <1>5, <1>7, <2>1 DEF IsAccount
  <2>3. \A q : q \in Range(Details(c)) <=>
          \/ /\ account.isContract /\ registry["contract"] # <<>>
             /\ q = ToFirst("contract", x)
          \/ /\ registry["token"] # <<>>
             /\ \E i \in 1 .. Len(account.holdings) :
                  i <= MaxTokens /\ q = ToFirst("token", account.holdings[i].token)
    <3>1. /\ registry \in [Types -> Seq(Sources)] /\ x \in DOMAIN audit[c].got["account"]
          /\ \A y \in DOMAIN audit[c].got["account"] : IsAccount(audit[c].got["account"][y])
      BY <1>2, <1>5, <1>7 DEF EvidenceInv
    <3>2. AreThoseOf(Range(Details(c)), x, audit[c].got["account"][x])
      BY <1>1, <3>1, DetailsOf
    <3>3. AreThoseOf(Range(Details(c)), x, account)
      BY <1>2, <2>1, <3>2
    <3>4. QED
      BY <3>3, Zenon DEF AreThoseOf
  <2>4. \A type, y : ToFirst(type, y).type = type /\ ToFirst(type, y).subject = y
    BY DEF ToFirst
  <2>5. \A q : q.type \in {"contract", "token"} => (q \in a.asked <=> q \in Range(Details(c)))
    BY <1>4 DEF Follow
  <2>6. AskedOf(c, "contract") # {} <=> account.isContract /\ registry["contract"] # <<>>
    <3>1. ASSUME AskedOf(c, "contract") # {}
          PROVE  account.isContract /\ registry["contract"] # <<>>
      <4>1. PICK q \in a.asked : q.type = "contract"
        BY <1>2, <3>1, AskedBy
      <4>2. QED
        BY <2>3, <2>4, <2>5, <4>1
    <3>2. ASSUME account.isContract, registry["contract"] # <<>>
          PROVE  AskedOf(c, "contract") # {}
      <4>1. ToFirst("contract", x) \in a.asked
        BY <2>3, <2>4, <2>5, <3>2
      <4>2. ToFirst("contract", x).subject \in AskedOf(c, "contract")
        BY <1>2, <2>4, <4>1, AskedBy
      <4>3. QED
        BY <4>2
    <3>3. QED
      BY <3>1, <3>2
  <2>7. \A y : y \in AskedOf(c, "token") <=>
          /\ registry["token"] # <<>>
          /\ \E i \in 1 .. n : i <= MaxTokens /\ y = account.holdings[i].token
    <3>1. ASSUME NEW y \in AskedOf(c, "token")
          PROVE  /\ registry["token"] # <<>>
                 /\ \E i \in 1 .. n : i <= MaxTokens /\ y = account.holdings[i].token
      <4>1. PICK q \in a.asked : q.type = "token" /\ y = q.subject
        BY <1>2, AskedBy
      <4>2. q \in Range(Details(c))
        BY <2>5, <4>1
      <4>3. QED
        BY <2>2, <2>3, <2>4, <4>1, <4>2
    <3>2. ASSUME NEW y, registry["token"] # <<>>, NEW i \in 1 .. n, i <= MaxTokens,
                 y = account.holdings[i].token
          PROVE  y \in AskedOf(c, "token")
      <4>1. ToFirst("token", y) \in Range(Details(c))
        BY <2>2, <2>3, <3>2
      <4>2. ToFirst("token", y) \in a.asked
        BY <2>4, <2>5, <4>1
      <4>3. QED
        BY <1>2, <2>4, <4>2, AskedBy
    <3>3. QED
      BY <3>1, <3>2
  <2>8. AskedOf(c, "token") =
          {account.holdings[i].token : i \in {j \in DOMAIN account.holdings :
                                                j <= MaxTokens /\ registry["token"] # <<>>}}
    BY <2>2, <2>7
  <2>9. FollowsFrom(c, account)
    BY <2>6, <2>8 DEF FollowsFrom
  <2>10. QED
    BY <1>1, <1>2, <1>7, <2>1, <2>9
<1>8. QED
  BY <1>1, <1>2, <1>6, <1>7

LEMMA EvidenceOfInv == EvidenceInv => EvidenceIsLastAnswer
<1>1. SUFFICES ASSUME EvidenceInv, NEW c \in Strict, audit[c].pc \in {"analyzed", "saving"}
      PROVE  /\ audit[c].points = Len(heard[c])
             /\ audit[c].sources = {heard[c][i].asked.source : i \in DOMAIN heard[c]}
             /\ \A type \in Types : \A x \in DOMAIN audit[c].got[type] :
                  /\ About(c, type, x) # {}
                  /\ audit[c].got[type][x] = LastAbout(c, type, x)
             /\ kind[c] = "ACCOUNT" =>
                  IF About(c, "account", TargetOf[c]) = {}
                  THEN AskedOf(c, "contract") \cup AskedOf(c, "token") = {}
                  ELSE FollowsFrom(c, LastAbout(c, "account", TargetOf[c]))
  BY Zenon DEF EvidenceIsLastAnswer
<1>2. Memory(audit[c], heard[c])
  BY <1>1 DEF EvidenceInv, Honest
<1>3. \A type, x : About(c, type, x) = Places(heard[c], type, x)
  BY DEF About, Places
<1>4. \A type, x : LastAbout(c, type, x) = heard[c][Max(Places(heard[c], type, x))].answer
  BY <1>3, Zenon DEF LastAbout
<1>5. /\ audit[c].points = Len(heard[c])
      /\ audit[c].sources = {heard[c][i].asked.source : i \in DOMAIN heard[c]}
  BY <1>2 DEF Memory
<1>6. \A type \in Types : \A x \in Subjects :
        /\ x \in DOMAIN audit[c].got[type] <=> About(c, type, x) # {}
        /\ x \in DOMAIN audit[c].got[type] => audit[c].got[type][x] = LastAbout(c, type, x)
  BY <1>2, <1>3, <1>4 DEF Memory
<1>7. \A type \in Types : DOMAIN audit[c].got[type] \subseteq Subjects
  BY <1>2 DEF Memory
<1>8. ASSUME kind[c] = "ACCOUNT"
      PROVE  IF About(c, "account", TargetOf[c]) = {}
             THEN AskedOf(c, "contract") \cup AskedOf(c, "token") = {}
             ELSE FollowsFrom(c, LastAbout(c, "account", TargetOf[c]))
  <2>1. TargetOf[c] \in Subjects /\ "account" \in Types
    BY TypesOf DEF Subjects
  <2>2. CASE TargetOf[c] \notin DOMAIN audit[c].got["account"]
    BY <1>1, <1>6, <1>8, <2>1, <2>2, AskedWhatFollows
  <2>3. CASE TargetOf[c] \in DOMAIN audit[c].got["account"]
    BY <1>1, <1>6, <1>8, <2>1, <2>3, AskedWhatFollows
  <2>4. QED
    BY <2>2, <2>3
<1>9. \A type \in Types : \A x \in DOMAIN audit[c].got[type] :
        About(c, type, x) # {} /\ audit[c].got[type][x] = LastAbout(c, type, x)
  BY <1>6, <1>7
<1>10. QED
  BY <1>5, <1>8, <1>9

(* A report is about one answer for each subject, the last one; an account      *)
(* audit has asked for the contract and the tokens of the account in that       *)
(* answer and of no other; and the report counts every answer with its source:  *)
(* for any facts, any collectors in any order, and any failures.                *)
THEOREM EvidenceIsAlwaysLast == Spec => []EvidenceIsLastAnswer
<1>1. EvidenceInv /\ [Next]_vars => EvidenceInv'
  BY EvidenceStep
<1>2. QED
  BY <1>1, InitIsHonest, EvidenceOfInv, PTL DEF Spec

=============================================================================
