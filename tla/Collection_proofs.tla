-------------------------- MODULE Collection_proofs --------------------------
(***************************************************************************)
(* Proofs about Collection.                                                *)
(***************************************************************************)
EXTENDS Collection, FiniteSetTheorems, TLAPS

\* What a call relies on.
CallOK(t) ==
  t # NoCall =>
    /\ t.at # "idle"
    /\ t.source \in Sources
    /\ t.number .. t.last \subseteq Numbers
    /\ t.run = None => t.number = t.last
    /\ t.at = "inserting" => t.number <= t.last /\ t.raw \in Answer(t.source, t.number)

\* The run R[t.run] of a call is as the call left it: nobody else writes it.
Follows(t, R) ==
  t.run # None =>
    /\ R[t.run].status = "RUNNING"
    /\ R[t.run].source = t.source
    /\ R[t.run].first <= t.number
    /\ R[t.run].last = t.last

\* The blocks St have what the call has passed.
Passed(t, R, St) ==
  t.run # None /\ Honest(t.source) =>
    \A n \in R[t.run].first .. (t.number - 1) : n \in Numbers /\ St[<<t.source, n>>] # None

\* A completed run v has its blocks among St.
Covers(v, St) ==
  v.status = "COMPLETED" =>
    /\ v.source \in Sources
    /\ Honest(v.source) =>
         \A n \in v.first .. v.last : n \in Numbers /\ St[<<v.source, n>>] # None

OneCallPerRun ==
  \A c, d \in Calls : call[c].run # None /\ call[c].run = call[d].run => c = d

Inv ==
  /\ TypeOK
  /\ \A c \in Calls : /\ CallOK(call[c])
                      /\ Follows(call[c], run)
                      /\ Passed(call[c], run, stored)
  /\ \A r \in Runs : Covers(run[r], stored)
  /\ OneCallPerRun

-----------------------------------------------------------------------------
LEMMA NothingYet ==
  /\ NoRun \in Run /\ NoRun.status = "ABSENT"
  /\ NoCall \in Call /\ NoCall.at = "idle" /\ NoCall.run = None /\ NoCall.collected = 0
  /\ NoCall.txs = 0 /\ NoCall.raw = None
  BY SMT DEF NoRun, NoCall, Run, Call

LEMMA RawOK ==
  ASSUME NEW s \in Sources, NEW n \in Numbers, NEW raw \in Answer(s, n)
  PROVE  /\ raw \in Raws
         /\ raw.number \in Numbers
         /\ IsFiniteSet(raw.txs)
  <1>1. PICK a \in Sources \X Numbers : a = <<s, n>>
    OBVIOUS
  <1>2. raw \in Answer(a[1], a[2])
    BY <1>1
  <1>3. raw \in Raws
    BY <1>1, <1>2, Zenon DEF Raws
  <1>4. raw.number \in Numbers /\ IsFiniteSet(raw.txs)
    BY AnswerAssumption, Zenon
  <1> QED
    BY <1>3, <1>4

LEMMA KeptOK ==
  ASSUME NEW s \in Sources, NEW n \in Numbers, NEW raw \in Answer(s, n)
  PROVE  /\ Kept(raw) \in Block
         /\ Kept(raw) # None
         /\ Count(raw) \in Nat
  <1>1. raw \in Raws /\ IsFiniteSet(raw.txs)
    BY RawOK
  <1>2. Kept(raw) \in Block
    BY <1>1 DEF Kept, Block
  <1>3. IsFiniteSet({t \in raw.txs : t.hash # None})
    BY <1>1, FS_Subset
  <1>4. Count(raw) \in Nat
    BY <1>3, FS_CardinalityType DEF Count, Kept
  <1> QED
    BY <1>2, <1>4, NoneAssumption

LEMMA InitInv == Init => Inv
  <1> SUFFICES ASSUME Init PROVE Inv
    OBVIOUS
  <1> HIDE DEF NoRun, NoCall
  <1> USE NothingYet DEF Init
  <1>1. TypeOK
    <2>1. \A r \in Runs : <<>> \in Seq([number : Numbers, count : Nat])
      OBVIOUS
    <2> QED
      BY <2>1 DEF TypeOK
  <1>2. ASSUME NEW c \in Calls
        PROVE  CallOK(call[c]) /\ Follows(call[c], run) /\ Passed(call[c], run, stored)
    BY DEF CallOK, Follows, Passed
  <1>3. \A r \in Runs : Covers(run[r], stored)
    BY DEF Covers
  <1>4. OneCallPerRun
    BY DEF OneCallPerRun
  <1> QED
    BY <1>1, <1>2, <1>3, <1>4 DEF Inv

\* A block that is stored stays.
Stays == \A b \in Sources \X Numbers : stored[b] # None => stored'[b] # None

\* What a step of another call leaves to a call.
LEMMA OtherCalls ==
  ASSUME Inv, Stays, NEW d \in Calls, call'[d] = call[d],
         call[d].run # None => run'[call[d].run] = run[call[d].run]
  PROVE  CallOK(call'[d]) /\ Follows(call'[d], run') /\ Passed(call'[d], run', stored')
  <1>1. CallOK(call[d]) /\ Follows(call[d], run) /\ Passed(call[d], run, stored)
    BY DEF Inv
  <1>2. CallOK(call'[d]) /\ Follows(call'[d], run')
    BY <1>1 DEF Follows
  <1>3. call[d].run # None => call[d].source \in Sources
    BY <1>1, NothingYet DEF CallOK
  <1>4. Passed(call'[d], run', stored')
    BY <1>1, <1>3 DEF Passed, Stays
  <1> QED
    BY <1>2, <1>4

\* What it leaves to a run that it does not write.
LEMMA OtherRuns ==
  ASSUME Inv, Stays, NEW r \in Runs, run'[r] = run[r]
  PROVE  Covers(run'[r], stored')
  BY DEF Inv, Covers, Stays

\* What a step does to a call and a run.
LEMMA Written ==
  ASSUME TypeOK, NEW c \in Calls, NEW t, Go(c, t)
  PROVE  /\ call'[c] = t
         /\ \A d \in Calls : d # c => call'[d] = call[d]
         /\ t \in Call => call' \in [Calls -> Call]
  BY DEF TypeOK, Go

LEMMA RunWritten ==
  ASSUME TypeOK, NEW r \in Runs, NEW v, Write(r, v)
  PROVE  /\ run'[r] = v
         /\ \A q \in Runs : q # r => run'[q] = run[q]
         /\ v \in Run => run' \in [Runs -> Run]
  BY DEF TypeOK, Write

\* The call that steps and the run that it writes are all that is to be shown.
LEMMA StepInv ==
  ASSUME Inv, TypeOK', Stays, NEW c \in Calls,
         \A d \in Calls : d # c => call'[d] = call[d],
         \A d \in Calls : d # c /\ call[d].run # None => run'[call[d].run] = run[call[d].run],
         \A r \in Runs : run'[r] = run[r] \/ Covers(run'[r], stored'),
         CallOK(call'[c]), Follows(call'[c], run'), Passed(call'[c], run', stored'),
         call'[c].run # None => \A d \in Calls : d # c => call[d].run # call'[c].run
  PROVE  Inv'
  <1>1. \A d \in Calls : /\ CallOK(call'[d])
                        /\ Follows(call'[d], run')
                        /\ Passed(call'[d], run', stored')
    BY OtherCalls
  <1>2. \A r \in Runs : Covers(run'[r], stored')
    BY OtherRuns
  <1>3. OneCallPerRun'
    BY DEF Inv, OneCallPerRun
  <1> QED
    BY <1>1, <1>2, <1>3 DEF Inv

\* A call that ends, having written no run.
LEMMA EndsInv ==
  ASSUME Inv, NEW c \in Calls, Go(c, NoCall), UNCHANGED <<stored, run, events>>
  PROVE  Inv'
  <1>1. TypeOK /\ TypeOK'
    BY Written, NothingYet DEF Inv, TypeOK
  <1>2. /\ call'[c] = NoCall
        /\ \A d \in Calls : d # c => call'[d] = call[d]
    BY <1>1, Written
  <1>3. CallOK(call'[c]) /\ Follows(call'[c], run') /\ Passed(call'[c], run', stored')
    BY <1>2, NothingYet DEF CallOK, Follows, Passed
  <1> QED
    BY <1>1, <1>2, <1>3, StepInv, NothingYet DEF Stays

\* A run that is absent is nobody's.
LEMMA AbsentRun ==
  ASSUME Inv, RunsLeft
  PROVE  \E r \in Runs : /\ r = NewRun
                        /\ run[r] = NoRun
                        /\ r # None
                        /\ \A d \in Calls : call[d].run # r
  <1>1. PICK r \in Runs : r = NewRun /\ run[r] = NoRun
    BY DEF RunsLeft, NewRun
  <1>2. r # None
    BY NoneAssumption
  <1>3. \A d \in Calls : call[d].run # r
    BY <1>1, <1>2, NothingYet DEF Inv, Follows
  <1> QED
    BY <1>1, <1>2, <1>3

LEMMA StartRangeInv ==
  ASSUME Inv, NEW c \in Calls, NEW s \in Sources, NEW p \in Ranges, StartRange(c, s, p)
  PROVE  Inv'
  <1> HIDE DEF NoRun, NoCall
  <1>1. PICK r \in Runs : /\ r = NewRun /\ run[r] = NoRun /\ r # None
                          /\ \A d \in Calls : call[d].run # r
    BY AbsentRun DEF StartRange
  <1>2. TypeOK /\ UNCHANGED <<stored, events>>
    BY DEF Inv, StartRange
  <1>3. PICK v : v = [NoRun EXCEPT !.status = "RUNNING", !.source = s,
                                   !.first = p[1], !.last = p[2]]
    OBVIOUS
  <1>4. PICK t : t = [NoCall EXCEPT !.at = "fetching", !.run = r, !.source = s,
                                    !.number = p[1], !.last = p[2]]
    OBVIOUS
  <1>5. p[1] \in Nat /\ p[2] \in Nat /\ p[1] .. p[2] \subseteq Numbers
    BY NumbersAssumption
  <1>6. /\ v \in Run /\ v.status = "RUNNING" /\ v.source = s /\ v.first = p[1] /\ v.last = p[2]
    BY <1>3, <1>5, NothingYet DEF Run
  <1>7. /\ t \in Call /\ t.at = "fetching" /\ t.run = r /\ t.source = s
        /\ t.number = p[1] /\ t.last = p[2]
    BY <1>4, <1>5, NothingYet DEF Call
  <1>8. Write(r, v) /\ Go(c, t)
    BY <1>1, <1>3, <1>4 DEF StartRange
  <1>9. /\ call'[c] = t
        /\ \A d \in Calls : d # c => call'[d] = call[d]
        /\ call' \in [Calls -> Call]
    BY <1>2, <1>7, <1>8, Written
  <1>10. /\ run'[r] = v
         /\ \A q \in Runs : q # r => run'[q] = run[q]
         /\ run' \in [Runs -> Run]
    BY <1>2, <1>6, <1>8, RunWritten
  <1>11. TypeOK'
    BY <1>2, <1>9, <1>10 DEF TypeOK
  <1>12. CallOK(t) /\ Follows(t, run') /\ Passed(t, run', stored')
    BY <1>1, <1>5, <1>6, <1>7, <1>10 DEF CallOK, Follows, Passed
  <1>13. \A q \in Runs : run'[q] = run[q] \/ Covers(run'[q], stored')
    BY <1>6, <1>10 DEF Covers
  <1>14. Stays
    BY <1>2 DEF Stays
  <1>15. \A d \in Calls : call[d].run # None => call[d].run \in Runs
    BY <1>2 DEF TypeOK, Call
  <1> QED
    BY <1>1, <1>7, <1>9, <1>10, <1>11, <1>12, <1>13, <1>14, <1>15, StepInv

LEMMA StartBlockInv ==
  ASSUME Inv, NEW c \in Calls, NEW s \in Sources, NEW n \in Numbers, StartBlock(c, s, n)
  PROVE  Inv'
  <1> HIDE DEF NoRun, NoCall
  <1>1. TypeOK /\ UNCHANGED <<stored, run, events>>
    BY DEF Inv, StartBlock
  <1>2. PICK t : t = [NoCall EXCEPT !.at = "fetching", !.source = s, !.number = n, !.last = n]
    OBVIOUS
  <1>3. /\ t \in Call /\ t.at = "fetching" /\ t.run = None /\ t.source = s
        /\ t.number = n /\ t.last = n
    BY <1>2, NumbersAssumption, NothingYet DEF Call
  <1>4. /\ call'[c] = t
        /\ \A d \in Calls : d # c => call'[d] = call[d]
        /\ call' \in [Calls -> Call]
    BY <1>1, <1>2, <1>3, Written DEF StartBlock
  <1>5. TypeOK'
    BY <1>1, <1>4 DEF TypeOK
  <1>6. n .. n \subseteq Numbers
    BY NumbersAssumption
  <1>7. CallOK(t) /\ Follows(t, run') /\ Passed(t, run', stored')
    BY <1>3, <1>6 DEF CallOK, Follows, Passed
  <1> QED
    BY <1>1, <1>3, <1>4, <1>5, <1>7, StepInv DEF Stays

\* What is known of a call that is not idle.
LEMMA CallFacts ==
  ASSUME Inv, NEW c \in Calls, NEW t, t = call[c], t.at # "idle"
  PROVE  /\ TypeOK
         /\ t \in Call
         /\ CallOK(t) /\ Follows(t, run) /\ Passed(t, run, stored)
         /\ t.source \in Sources
         /\ t.number .. t.last \subseteq Numbers
         /\ t.run = None => t.number = t.last
         /\ t.at = "inserting" => /\ t.number \in Numbers
                                 /\ t.number <= t.last
                                 /\ t.raw \in Answer(t.source, t.number)
         /\ t.run # None => /\ t.run \in Runs
                           /\ run[t.run] \in Run
                           /\ \A d \in Calls : d # c => call[d].run # t.run
  <1>1. TypeOK /\ CallOK(t) /\ Follows(t, run) /\ Passed(t, run, stored)
    BY DEF Inv
  <1>2. t \in Call /\ t # NoCall
    BY <1>1, NothingYet DEF TypeOK
  <1>3. t.number \in Nat /\ t.last \in Nat /\ t.run \in Runs \cup {None}
    BY <1>2 DEF Call
  <1>4. t.at = "inserting" => t.number \in t.number .. t.last
    BY <1>1, <1>2, <1>3 DEF CallOK
  <1>5. t.run # None => \A d \in Calls : d # c => call[d].run # t.run
    BY DEF Inv, OneCallPerRun
  <1>6. t.run # None => run[t.run] \in Run
    BY <1>1, <1>3 DEF TypeOK
  <1> QED
    BY <1>1, <1>2, <1>3, <1>4, <1>5, <1>6 DEF CallOK

\* A call that ends and writes its run.
LEMMA EndsWritingInv ==
  ASSUME Inv, NEW c \in Calls, NEW r \in Runs, NEW v \in Run,
         Write(r, v), Go(c, NoCall), Covers(v, stored'), Stays,
         stored' \in [Sources \X Numbers -> Block \cup {None}],
         events' \in [Runs -> Seq([number : Numbers, count : Nat])],
         \A d \in Calls : d # c => call[d].run # r
  PROVE  Inv'
  <1>1. TypeOK
    BY DEF Inv
  <1>2. /\ call'[c] = NoCall
        /\ \A d \in Calls : d # c => call'[d] = call[d]
        /\ call' \in [Calls -> Call]
    BY <1>1, Written, NothingYet
  <1>3. /\ run'[r] = v
        /\ \A q \in Runs : q # r => run'[q] = run[q]
        /\ run' \in [Runs -> Run]
    BY <1>1, RunWritten
  <1>4. TypeOK'
    BY <1>2, <1>3 DEF TypeOK
  <1>5. CallOK(call'[c]) /\ Follows(call'[c], run') /\ Passed(call'[c], run', stored')
    BY <1>2, NothingYet DEF CallOK, Follows, Passed
  <1>6. \A d \in Calls : call[d].run # None => call[d].run \in Runs
    BY <1>1 DEF TypeOK, Call
  <1>7. \A d \in Calls : d # c /\ call[d].run # None => run'[call[d].run] = run[call[d].run]
    BY <1>3, <1>6
  <1>8. \A q \in Runs : run'[q] = run[q] \/ Covers(run'[q], stored')
    BY <1>3
  <1>9. call'[c].run = None
    BY <1>2, NothingYet
  <1> QED
    BY <1>2, <1>4, <1>5, <1>7, <1>8, <1>9, StepInv

LEMMA RangeFailsInv ==
  ASSUME Inv, NEW c \in Calls, RangeFails(c)
  PROVE  Inv'
  <1>1. PICK t : t = call[c]
    OBVIOUS
  <1>2. t.at = "fetching" /\ t.run # None /\ UNCHANGED <<stored, events>> /\ Go(c, NoCall)
    BY <1>1 DEF RangeFails, Fetching
  <1>3. /\ TypeOK /\ t \in Call /\ t.run \in Runs /\ run[t.run] \in Run
        /\ \A d \in Calls : d # c => call[d].run # t.run
    BY <1>1, <1>2, CallFacts
  <1>4. PICK v : v = [run[t.run] EXCEPT
                        !.status = IF t.collected > 0 THEN "PARTIAL" ELSE "FAILED",
                        !.blocks = t.collected, !.txs = t.txs]
    OBVIOUS
  <1>5. v \in Run /\ v.status # "COMPLETED"
    BY <1>3, <1>4 DEF Run, Call
  <1>6. Write(t.run, v)
    BY <1>1, <1>4 DEF RangeFails
  <1>7. Covers(v, stored') /\ Stays
    BY <1>2, <1>5 DEF Covers, Stays
  <1>8. /\ stored' \in [Sources \X Numbers -> Block \cup {None}]
        /\ events' \in [Runs -> Seq([number : Numbers, count : Nat])]
    BY <1>2, <1>3 DEF TypeOK
  <1>9. PICK r \in Runs : r = t.run
    BY <1>3
  <1>10. Write(r, v) /\ \A d \in Calls : d # c => call[d].run # r
    BY <1>3, <1>6, <1>9
  <1>11. Go(c, NoCall) /\ v \in Run
    BY <1>2, <1>5
  <1> HIDE DEF NoRun, NoCall
  <1> QED
    BY <1>7, <1>8, <1>10, <1>11, EndsWritingInv, Zenon

LEMMA BlockFailsInv ==
  ASSUME Inv, NEW c \in Calls, BlockFails(c)
  PROVE  Inv'
  <1> HIDE DEF NoRun, NoCall
  <1>1. PICK t : t = call[c]
    OBVIOUS
  <1>2. t.at = "fetching" /\ UNCHANGED <<stored, events>> /\ Go(c, NoCall)
    BY <1>1 DEF BlockFails, Fetching
  <1>3. TypeOK /\ t \in Call
    BY <1>1, <1>2, CallFacts
  <1>4. PICK r \in Runs : r = NewRun /\ \A d \in Calls : call[d].run # r
    BY AbsentRun DEF BlockFails
  <1>5. PICK v : v = [NoRun EXCEPT !.status = "FAILED", !.source = t.source,
                                   !.first = t.number, !.last = t.number]
    OBVIOUS
  <1>6. v \in Run /\ v.status # "COMPLETED"
    BY <1>3, <1>5, NothingYet DEF Run, Call
  <1>7. Write(r, v)
    BY <1>1, <1>4, <1>5 DEF BlockFails
  <1>8. Covers(v, stored') /\ Stays
    BY <1>2, <1>6 DEF Covers, Stays
  <1>9. /\ stored' \in [Sources \X Numbers -> Block \cup {None}]
        /\ events' \in [Runs -> Seq([number : Numbers, count : Nat])]
    BY <1>2, <1>3 DEF TypeOK
  <1> QED
    BY <1>2, <1>3, <1>4, <1>6, <1>7, <1>8, <1>9, EndsWritingInv

LEMMA FinishInv ==
  ASSUME Inv, NEW c \in Calls, Finish(c)
  PROVE  Inv'
  <1>1. PICK t : t = call[c]
    OBVIOUS
  <1>2. /\ t.at = "fetching" /\ t.number > t.last
        /\ UNCHANGED <<stored, events>> /\ Go(c, NoCall)
    BY <1>1 DEF Finish
  <1>3. /\ TypeOK /\ t \in Call /\ t.source \in Sources
        /\ t.run = None => t.number = t.last
        /\ t.run # None => /\ t.run \in Runs
                          /\ run[t.run] \in Run
                          /\ \A d \in Calls : d # c => call[d].run # t.run
        /\ Follows(t, run) /\ Passed(t, run, stored)
    BY <1>1, <1>2, CallFacts
  <1>4. t.number \in Nat /\ t.last \in Nat /\ t.collected \in Nat /\ t.txs \in Nat
    BY <1>3 DEF Call
  <1>5. t.run # None
    BY <1>2, <1>3, <1>4
  <1>6. PICK v : v = [run[t.run] EXCEPT !.status = "COMPLETED", !.blocks = t.collected,
                                        !.txs = t.txs]
    OBVIOUS
  <1>7. /\ v \in Run /\ v.source = run[t.run].source
        /\ v.first = run[t.run].first /\ v.last = run[t.run].last
        /\ v.first \in Nat /\ v.last \in Nat
    BY <1>3, <1>4, <1>5, <1>6 DEF Run
  <1>8. Covers(v, stored')
    <2>1. v.source = t.source /\ v.last = t.last
      BY <1>3, <1>5, <1>7 DEF Follows
    <2>2. \A n \in v.first .. v.last : n \in v.first .. (t.number - 1)
      BY <1>2, <1>4, <1>7, <2>1
    <2> QED
      BY <1>2, <1>3, <1>5, <1>7, <2>1, <2>2 DEF Covers, Passed
  <1>9. Write(t.run, v) /\ Stays
    BY <1>1, <1>2, <1>6 DEF Finish, Stays
  <1>10. /\ stored' \in [Sources \X Numbers -> Block \cup {None}]
        /\ events' \in [Runs -> Seq([number : Numbers, count : Nat])]
    BY <1>2, <1>3 DEF TypeOK
  <1> QED
    BY <1>2, <1>3, <1>5, <1>7, <1>8, <1>9, <1>10, EndsWritingInv

\* The next block of a range: all before it is stored.
LEMMA OnFromOK ==
  ASSUME NEW t \in Call, CallOK(t), t # NoCall, t.run # None, t.number <= t.last
  PROVE  /\ OnFrom(t) \in Call
         /\ CallOK(OnFrom(t))
         /\ OnFrom(t).at = "fetching"
         /\ OnFrom(t).run = t.run
         /\ OnFrom(t).source = t.source
         /\ OnFrom(t).number = t.number + 1
         /\ OnFrom(t).last = t.last
         /\ OnFrom(t).collected = t.collected
         /\ OnFrom(t).txs = t.txs
  <1>1. t.number \in Nat /\ t.last \in Nat
    BY DEF Call
  <1>2. PICK u : u = OnFrom(t)
    OBVIOUS
  <1>3. /\ u \in Call /\ u.at = "fetching" /\ u.run = t.run /\ u.source = t.source
        /\ u.number = t.number + 1 /\ u.last = t.last /\ u.collected = t.collected
        /\ u.txs = t.txs
    <2>1. PICK n \in Nat : n = t.number + 1
      BY <1>1
    <2>2. u = [t EXCEPT !.at = "fetching", !.number = n, !.raw = None]
      BY <1>2, <2>1 DEF OnFrom
    <2>3. u \in Call
      BY <2>2 DEF Call
    <2> QED
      BY <2>1, <2>2, <2>3 DEF Call
  <1>4. u.number .. u.last \subseteq Numbers
    BY <1>1, <1>3 DEF CallOK
  <1>5. CallOK(u)
    BY <1>3, <1>4 DEF CallOK
  <1> QED
    BY <1>2, <1>3, <1>5

LEMMA ExistsInv ==
  ASSUME Inv, NEW c \in Calls, Exists(c)
  PROVE  Inv'
  <1>1. PICK t : t = call[c]
    OBVIOUS
  <1>2. /\ t.at = "fetching" /\ t.number <= t.last
        /\ stored[<<t.source, t.number>>] # None
        /\ Go(c, IF t.run = None THEN NoCall ELSE OnFrom(t))
        /\ UNCHANGED <<stored, run, events>>
    BY <1>1 DEF Exists, Fetching, Asked, Skipped
  <1>3. CASE t.run = None
    BY <1>2, <1>3, EndsInv
  <1>4. CASE t.run # None
    <2>1. /\ TypeOK /\ t \in Call /\ CallOK(t) /\ Follows(t, run) /\ Passed(t, run, stored)
          /\ t.run \in Runs /\ run[t.run] \in Run /\ t.number .. t.last \subseteq Numbers
          /\ \A d \in Calls : d # c => call[d].run # t.run
      BY <1>1, <1>2, <1>4, CallFacts
    <2>2. t # NoCall
      BY <1>2, NothingYet
    <2>3. PICK u : u = OnFrom(t)
      OBVIOUS
    <2>4. /\ u \in Call /\ CallOK(u) /\ u.run = t.run /\ u.source = t.source
          /\ u.number = t.number + 1 /\ u.last = t.last
      BY <1>2, <1>4, <2>1, <2>2, <2>3, OnFromOK
    <2>5. /\ call'[c] = u
          /\ \A d \in Calls : d # c => call'[d] = call[d]
          /\ call' \in [Calls -> Call]
      BY <1>2, <1>4, <2>1, <2>3, <2>4, Written
    <2>6. TypeOK'
      BY <1>2, <2>1, <2>5 DEF TypeOK
    <2>7. t.number \in Nat /\ t.last \in Nat /\ run[t.run].first \in Nat
      BY <2>1 DEF Call, Run
    <2>8. Follows(u, run')
      BY <1>2, <2>1, <2>4, <2>7 DEF Follows
    <2>9. t.number \in Numbers
      BY <1>2, <2>1, <2>7
    <2>10. Passed(u, run', stored')
      <3>1. SUFFICES ASSUME Honest(t.source), NEW n \in run[t.run].first .. t.number
                     PROVE  n \in Numbers /\ stored[<<t.source, n>>] # None
        BY <1>2, <2>4, <2>7 DEF Passed
      <3>2. CASE n = t.number
        BY <1>2, <2>9, <3>2
      <3>3. CASE n # t.number
        <4>1. n \in run[t.run].first .. (t.number - 1)
          BY <2>7, <3>3
        <4> QED
          BY <1>4, <2>1, <3>1, <4>1 DEF Passed
      <3> QED
        BY <3>2, <3>3
    <2> QED
      BY <1>2, <2>1, <2>4, <2>5, <2>6, <2>8, <2>10, StepInv DEF Stays
  <1> QED
    BY <1>3, <1>4

LEMMA MissingInv ==
  ASSUME Inv, NEW c \in Calls, Missing(c)
  PROVE  Inv'
  <1>1. PICK t : t = call[c]
    OBVIOUS
  <1>2. /\ t.at = "fetching" /\ t.number <= t.last /\ UNCHANGED <<stored, run, events>>
    BY <1>1 DEF Missing, Fetching
  <1>3. PICK raw \in Answer(t.source, t.number) :
          Go(c, [t EXCEPT !.at = "inserting", !.raw = raw])
    BY <1>1 DEF Missing
  <1>4. /\ TypeOK /\ t \in Call /\ CallOK(t) /\ Follows(t, run) /\ Passed(t, run, stored)
        /\ t.source \in Sources /\ t.number .. t.last \subseteq Numbers
        /\ t.run # None => \A d \in Calls : d # c => call[d].run # t.run
    BY <1>1, <1>2, CallFacts
  <1>5. t.number \in Numbers
    BY <1>2, <1>4 DEF Call
  <1>6. raw \in Raws
    BY <1>4, <1>5, RawOK
  <1>7. PICK u : u = [t EXCEPT !.at = "inserting", !.raw = raw]
    OBVIOUS
  <1>8. /\ u \in Call /\ u.at = "inserting" /\ u.raw = raw /\ u.run = t.run
        /\ u.source = t.source /\ u.number = t.number /\ u.last = t.last
    BY <1>4, <1>6, <1>7 DEF Call
  <1>9. /\ call'[c] = u
        /\ \A d \in Calls : d # c => call'[d] = call[d]
        /\ call' \in [Calls -> Call]
    BY <1>3, <1>4, <1>7, <1>8, Written
  <1>10. TypeOK'
    BY <1>2, <1>4, <1>9 DEF TypeOK
  <1>11. t # NoCall
    BY <1>2, NothingYet
  <1>12. CallOK(u) /\ Follows(u, run') /\ Passed(u, run', stored')
    BY <1>2, <1>4, <1>8, <1>11 DEF CallOK, Follows, Passed
  <1> QED
    BY <1>2, <1>4, <1>8, <1>9, <1>10, <1>12, StepInv DEF Stays

\* What an insertion does to the blocks.
LEMMA InsertOK ==
  ASSUME Inv, NEW c \in Calls, NEW t, t = call[c], Insert(c)
  PROVE  /\ t.at = "inserting"
         /\ stored' \in [Sources \X Numbers -> Block \cup {None}]
         /\ Stays
         /\ t.raw.number \in Numbers
         /\ stored'[<<t.source, t.raw.number>>] # None
         /\ Count(t.raw) \in Nat
         /\ Honest(t.source) => t.raw.number = t.number
  <1>1. t.at = "inserting"
    BY DEF Insert
  <1>2. /\ TypeOK /\ t.source \in Sources /\ t.number \in Numbers
        /\ t.raw \in Answer(t.source, t.number)
    BY <1>1, CallFacts
  <1>3. PICK s \in Sources, n \in Numbers : s = t.source /\ n = t.number
    BY <1>2
  <1>4. PICK raw \in Answer(s, n) : raw = t.raw
    BY <1>2, <1>3
  <1>5. raw.number \in Numbers
    BY RawOK
  <1>6. Kept(raw) \in Block /\ Kept(raw) # None /\ Count(raw) \in Nat
    BY KeptOK
  <1>7. PICK b \in Sources \X Numbers : b = <<s, raw.number>>
    BY <1>5
  <1>8. stored' = [stored EXCEPT ![b] = Kept(raw)]
    BY <1>3, <1>4, <1>7 DEF Insert, Cell
  <1>9. stored \in [Sources \X Numbers -> Block \cup {None}]
    BY <1>2 DEF TypeOK
  <1>10. stored' \in [Sources \X Numbers -> Block \cup {None}]
    BY <1>6, <1>8, <1>9
  <1>11. Stays /\ stored'[b] # None
    BY <1>6, <1>8, <1>9 DEF Stays
  <1>12. Honest(s) => raw.number = n
    BY DEF Honest
  <1> QED
    BY <1>1, <1>3, <1>4, <1>5, <1>6, <1>7, <1>10, <1>11, <1>12

LEMMA StoreBlockInv ==
  ASSUME Inv, NEW c \in Calls, StoreBlock(c)
  PROVE  Inv'
  <1> HIDE DEF NoRun, NoCall
  <1>1. PICK t : t = call[c]
    OBVIOUS
  <1>2. t.run = None /\ Insert(c) /\ Go(c, NoCall)
    BY <1>1 DEF StoreBlock
  <1>3. /\ t.at = "inserting" /\ Stays /\ t.raw.number \in Numbers /\ Count(t.raw) \in Nat
        /\ stored' \in [Sources \X Numbers -> Block \cup {None}]
        /\ stored'[<<t.source, t.raw.number>>] # None
        /\ Honest(t.source) => t.raw.number = t.number
    BY <1>1, <1>2, InsertOK
  <1>4. TypeOK /\ t \in Call /\ t.source \in Sources /\ t.number \in Numbers
    BY <1>1, <1>3, CallFacts
  <1>5. PICK r \in Runs : r = NewRun /\ \A d \in Calls : call[d].run # r
    BY AbsentRun DEF StoreBlock
  <1>6. PICK v : v = [status |-> "COMPLETED", source |-> t.source, first |-> t.number,
                      last |-> t.number, blocks |-> 1, txs |-> Count(t.raw)]
    OBVIOUS
  <1>7. /\ v \in Run /\ v.source = t.source /\ v.first = t.number /\ v.last = t.number
    BY <1>3, <1>4, <1>6 DEF Run, Call
  <1>8. Covers(v, stored')
    <2>1. \A n \in v.first .. v.last : n = t.number
      BY <1>4, <1>7 DEF Call
    <2> QED
      BY <1>3, <1>4, <1>7, <2>1 DEF Covers
  <1>9. Write(r, v)
    BY <1>1, <1>5, <1>6 DEF StoreBlock
  <1>10. events' \in [Runs -> Seq([number : Numbers, count : Nat])]
    <2>1. PICK e \in [number : Numbers, count : Nat] : e = Told(t)
      BY <1>3 DEF Told
    <2>2. events' = [events EXCEPT ![r] = <<e>>]
      BY <1>1, <1>5, <2>1 DEF StoreBlock
    <2>3. <<e>> \in Seq([number : Numbers, count : Nat])
      OBVIOUS
    <2> QED
      BY <1>4, <2>2, <2>3 DEF TypeOK
  <1> QED
    BY <1>2, <1>3, <1>5, <1>7, <1>8, <1>9, <1>10, EndsWritingInv

LEMMA StoreInRangeInv ==
  ASSUME Inv, NEW c \in Calls, StoreInRange(c)
  PROVE  Inv'
  <1>1. PICK t : t = call[c]
    OBVIOUS
  <1>2. t.run # None /\ Insert(c)
    BY <1>1 DEF StoreInRange
  <1>3. /\ t.at = "inserting" /\ Stays /\ t.raw.number \in Numbers /\ Count(t.raw) \in Nat
        /\ stored' \in [Sources \X Numbers -> Block \cup {None}]
        /\ stored'[<<t.source, t.raw.number>>] # None
        /\ Honest(t.source) => t.raw.number = t.number
    BY <1>1, <1>2, InsertOK
  <1>4. /\ TypeOK /\ t \in Call /\ CallOK(t) /\ Follows(t, run) /\ Passed(t, run, stored)
        /\ t.source \in Sources /\ t.number \in Numbers /\ t.number <= t.last
        /\ t.run \in Runs /\ run[t.run] \in Run
        /\ \A d \in Calls : d # c => call[d].run # t.run
    BY <1>1, <1>2, <1>3, CallFacts
  <1>5. t # NoCall
    BY <1>3, NothingYet
  <1>6. PICK k \in Nat, m \in Nat : k = t.collected + 1 /\ m = t.txs + Count(t.raw)
    BY <1>3, <1>4 DEF Call
  <1>7. PICK v : v = [run[t.run] EXCEPT !.blocks = k, !.txs = m]
    OBVIOUS
  <1>8. /\ v \in Run /\ v.status = run[t.run].status /\ v.source = run[t.run].source
        /\ v.first = run[t.run].first /\ v.last = run[t.run].last
    BY <1>4, <1>7 DEF Run
  <1>9. Write(t.run, v)
    BY <1>1, <1>6, <1>7 DEF StoreInRange, Progress
  <1>10. PICK o : o = OnFrom(t)
    OBVIOUS
  <1>11. /\ o \in Call /\ CallOK(o) /\ o.at = "fetching" /\ o.run = t.run
         /\ o.source = t.source /\ o.number = t.number + 1 /\ o.last = t.last
    BY <1>2, <1>4, <1>5, <1>10, OnFromOK
  <1>12. PICK u : u = [o EXCEPT !.collected = k, !.txs = m]
    OBVIOUS
  <1>13. /\ u \in Call /\ u.at = "fetching" /\ u.run = t.run /\ u.source = t.source
         /\ u.number = t.number + 1 /\ u.last = t.last
    BY <1>11, <1>12 DEF Call
  <1>14. Go(c, u)
    BY <1>1, <1>6, <1>10, <1>12 DEF StoreInRange
  <1>15. /\ call'[c] = u
         /\ \A d \in Calls : d # c => call'[d] = call[d]
         /\ call' \in [Calls -> Call]
    BY <1>4, <1>13, <1>14, Written
  <1>16. /\ run'[t.run] = v
         /\ \A q \in Runs : q # t.run => run'[q] = run[q]
         /\ run' \in [Runs -> Run]
    BY <1>4, <1>8, <1>9, RunWritten
  <1>17. events' \in [Runs -> Seq([number : Numbers, count : Nat])]
    <2>1. PICK e \in [number : Numbers, count : Nat] : e = Told(t)
      BY <1>3 DEF Told
    <2>2. events' = [events EXCEPT ![t.run] = Append(events[t.run], e)]
      BY <1>1, <2>1 DEF StoreInRange
    <2>3. events[t.run] \in Seq([number : Numbers, count : Nat])
      BY <1>4 DEF TypeOK
    <2>4. Append(events[t.run], e) \in Seq([number : Numbers, count : Nat])
      BY <2>3
    <2> QED
      BY <1>4, <2>2, <2>4 DEF TypeOK
  <1>18. TypeOK'
    BY <1>3, <1>15, <1>16, <1>17 DEF TypeOK
  <1>19. t.number \in Nat /\ t.last \in Nat /\ run[t.run].first \in Nat
    BY <1>4 DEF Call, Run
  <1>20. CallOK(u)
    BY <1>11, <1>13, <1>5, NothingYet DEF CallOK
  <1>21. Follows(u, run')
    BY <1>2, <1>4, <1>8, <1>13, <1>16, <1>19 DEF Follows
  <1>22. Passed(u, run', stored')
    <2>1. SUFFICES ASSUME Honest(t.source), NEW n \in run[t.run].first .. t.number
                   PROVE  n \in Numbers /\ stored'[<<t.source, n>>] # None
      BY <1>8, <1>13, <1>16, <1>19 DEF Passed
    <2>2. CASE n = t.number
      BY <1>3, <1>4, <2>1, <2>2
    <2>3. CASE n # t.number
      <3>1. n \in run[t.run].first .. (t.number - 1)
        BY <1>19, <2>3
      <3>2. n \in Numbers /\ stored[<<t.source, n>>] # None
        BY <1>2, <1>4, <2>1, <3>1 DEF Passed
      <3> QED
        BY <1>3, <1>4, <3>2 DEF Stays
    <2> QED
      BY <2>2, <2>3
  <1>23. \A d \in Calls : d # c /\ call[d].run # None => run'[call[d].run] = run[call[d].run]
    BY <1>4, <1>16 DEF TypeOK, Call
  <1>24. \A q \in Runs : run'[q] = run[q] \/ Covers(run'[q], stored')
    BY <1>2, <1>4, <1>8, <1>16 DEF Follows, Covers
  <1> QED
    BY <1>3, <1>4, <1>13, <1>15, <1>18, <1>20, <1>21, <1>22, <1>23, <1>24, StepInv

-----------------------------------------------------------------------------
LEMMA NextInv == Inv /\ [Next]_vars => Inv'
  <1> SUFFICES ASSUME Inv, [Next]_vars PROVE Inv'
    OBVIOUS
  <1>1. ASSUME NEW c \in Calls, NEW s \in Sources, NEW p \in Ranges, StartRange(c, s, p)
        PROVE  Inv'
    BY <1>1, StartRangeInv
  <1>2. ASSUME NEW c \in Calls, NEW s \in Sources, NEW n \in Numbers, StartBlock(c, s, n)
        PROVE  Inv'
    BY <1>2, StartBlockInv
  <1>3. ASSUME NEW c \in Calls, Proceed(c)
        PROVE  Inv'
    <2>1. CASE Exists(c)
      BY <2>1, ExistsInv
    <2>2. CASE Missing(c)
      BY <2>2, MissingInv
    <2>3. CASE StoreInRange(c)
      BY <2>3, StoreInRangeInv
    <2>4. CASE StoreBlock(c)
      BY <2>4, StoreBlockInv
    <2>5. CASE Violate(c)
      BY <2>5, EndsInv DEF Violate
    <2>6. CASE Finish(c)
      BY <2>6, FinishInv
    <2> QED
      BY <1>3, <2>1, <2>2, <2>3, <2>4, <2>5, <2>6 DEF Proceed
  <1>4. ASSUME NEW c \in Calls, RangeFails(c) \/ BlockFails(c) \/ Throw(c)
        PROVE  Inv'
    BY <1>4, RangeFailsInv, BlockFailsInv, EndsInv DEF Throw
  <1>5. CASE UNCHANGED vars
    <2>1. TypeOK' /\ OneCallPerRun'
      BY <1>5 DEF Inv, TypeOK, OneCallPerRun, vars
    <2>2. ASSUME NEW c \in Calls
          PROVE  CallOK(call'[c]) /\ Follows(call'[c], run') /\ Passed(call'[c], run', stored')
      BY <1>5 DEF Inv, Follows, Passed, vars
    <2>3. \A r \in Runs : Covers(run'[r], stored')
      BY <1>5 DEF Inv, vars
    <2> QED
      BY <2>1, <2>2, <2>3 DEF Inv
  <1> QED
    BY <1>1, <1>2, <1>3, <1>4, <1>5 DEF Next

LEMMA SpecInv == Spec => []Inv
  BY InitInv, NextInv, PTL DEF Spec

(* The variables of Collection keep their types, for any sources, ranges and    *)
(* calls: what a run and a call hold and what is stored.                        *)
THEOREM TypeCorrect == Spec => []TypeOK
  <1>1. Inv => TypeOK
    BY DEF Inv
  <1> QED
    BY <1>1, SpecInv, PTL

(* A run of collectRange or collectBlock that says COMPLETED has the block of   *)
(* every number it was asked for, stored by this call or by another, if the     *)
(* source answers with the blocks it is asked for.                              *)
THEOREM CompletedRunsCover == Spec => []CompletedCovers
  <1>1. Inv => CompletedCovers
    BY DEF Inv, Covers, CompletedCovers
  <1> QED
    BY <1>1, SpecInv, PTL

-----------------------------------------------------------------------------
\* The memory of a call that has a run is the row of the run.
InMemory(t, R) ==
  t.run # None => R[t.run].blocks = t.collected /\ R[t.run].txs = t.txs

Counted ==
  /\ CountersAgree
  /\ \A c \in Calls : InMemory(call[c], run)

LEMMA NothingAddsUp == AddUp(<<>>, 0)
  <1>1. PICK sum : sum = [k \in 0 .. 0 |-> 0]
    OBVIOUS
  <1>2. sum \in [0 .. 0 -> 0 .. 0] /\ sum[0] = 0
    BY <1>1
  <1>3. Len(<<>>) = 0
    OBVIOUS
  <1> QED
    BY <1>2, <1>3 DEF AddUp

\* One event more adds its count.
LEMMA OneMoreAddsUp ==
  ASSUME NEW T, NEW es \in Seq(T), NEW e \in T, NEW n \in Nat, NEW m \in Nat,
         AddUp(es, n), e.count = m
  PROVE  AddUp(Append(es, e), n + m)
  <1>1. PICK l \in Nat : l = Len(es)
    OBVIOUS
  <1>2. PICK sum \in [0 .. l -> 0 .. n] :
          /\ sum[0] = 0
          /\ \A k \in 1 .. l : sum[k] = sum[k - 1] + es[k].count
          /\ sum[l] = n
    BY <1>1 DEF AddUp
  <1>3. PICK more : more = [k \in 0 .. (l + 1) |-> IF k = l + 1 THEN n + m ELSE sum[k]]
    OBVIOUS
  <1>4. more \in [0 .. (l + 1) -> 0 .. (n + m)]
    BY <1>2, <1>3
  <1>5. PICK all : all = Append(es, e)
    OBVIOUS
  <1>6. /\ Len(all) = l + 1 /\ all[l + 1] = e
        /\ \A k \in 1 .. l : all[k] = es[k]
    BY <1>1, <1>5
  <1>7. more[0] = 0 /\ more[l + 1] = n + m
    BY <1>2, <1>3
  <1>8. ASSUME NEW k \in 1 .. (l + 1)
        PROVE  more[k] = more[k - 1] + all[k].count
    <2>1. CASE k = l + 1
      <3>1. k - 1 = l /\ more[l] = n
        BY <1>2, <1>3, <2>1
      <3> QED
        BY <1>6, <1>7, <2>1, <3>1
    <2>2. CASE k # l + 1
      <3>1. k \in 1 .. l /\ k - 1 \in 0 .. l /\ k \in 0 .. l
        BY <2>2
      <3>2. more[k] = sum[k] /\ more[k - 1] = sum[k - 1]
        BY <1>3, <3>1
      <3> QED
        BY <1>2, <1>6, <3>1, <3>2
    <2> QED
      BY <2>1, <2>2
  <1> QED
    BY <1>4, <1>5, <1>6, <1>7, <1>8 DEF AddUp

LEMMA InitCounted == Init => Counted
  <1> SUFFICES ASSUME Init PROVE Counted
    OBVIOUS
  <1>1. /\ \A r \in Runs : run[r].blocks = 0 /\ run[r].txs = 0 /\ run[r].status = "ABSENT"
        /\ \A r \in Runs : events[r] = <<>>
        /\ \A b \in Sources \X Numbers : stored[b] = None
    BY DEF Init, NoRun
  <1>2. Len(<<>>) = 0
    OBVIOUS
  <1>3. \A r \in Runs : RunAgrees(r)
    BY <1>1, <1>2, NothingAddsUp DEF RunAgrees
  <1>4. \A r \in Runs : DOMAIN events[r] = {}
    BY <1>1
  <1>5. \A b \in Sources \X Numbers : ToldOnce(b)
    BY <1>1, <1>4, Zenon DEF ToldOnce
  <1>6. \A c \in Calls : call[c].run = None
    BY NothingYet DEF Init
  <1> QED
    BY <1>3, <1>5, <1>6 DEF Counted, CountersAgree, InMemory

\* The other calls remember what they did, if nobody writes their runs.
LEMMA OthersRemember ==
  ASSUME Counted, NEW c \in Calls,
         \A d \in Calls : d # c => call'[d] = call[d],
         \A d \in Calls : d # c /\ call[d].run # None => run'[call[d].run] = run[call[d].run],
         InMemory(call'[c], run')
  PROVE  \A d \in Calls : InMemory(call'[d], run')
  BY DEF Counted, InMemory

\* A step that inserts nothing and writes at most a run r.
LEMMA NoInsertCounted ==
  ASSUME Inv, Counted, NEW c \in Calls, UNCHANGED <<stored, events>>,
         \A d \in Calls : d # c => call'[d] = call[d],
         \A d \in Calls : d # c /\ call[d].run # None => run'[call[d].run] = run[call[d].run],
         \A r \in Runs : \/ run'[r] = run[r]
                         \/ /\ RunAgrees(r)'
                            /\ events[r] = <<>> \/ run'[r].source = run[r].source,
         InMemory(call'[c], run')
  PROVE  Counted'
  <1>1. \A r \in Runs : RunAgrees(r)'
    BY DEF Counted, CountersAgree, RunAgrees
  <1>2. \A r \in Runs : DOMAIN events[r] = {} \/ run'[r].source = run[r].source
    <2>1. \A r \in Runs : events[r] = <<>> => DOMAIN events[r] = {}
      OBVIOUS
    <2> QED
      BY <2>1, Zenon
  <1>3. \A b \in Sources \X Numbers : ToldOnce(b)'
    <2> SUFFICES ASSUME NEW b \in Sources \X Numbers PROVE ToldOnce(b)'
      OBVIOUS
    <2>1. ToldOnce(b)
      BY DEF Counted, CountersAgree
    <2>2. \A r \in Runs : \A k \in DOMAIN events[r] : Tells(r, k, b)' <=> Tells(r, k, b)
      BY <1>2, Zenon DEF Tells
    <2> QED
      BY <2>1, <2>2 DEF ToldOnce
  <1> QED
    BY <1>1, <1>3, OthersRemember DEF Counted, CountersAgree

LEMMA EndsCounted ==
  ASSUME Inv, Counted, NEW c \in Calls, Go(c, NoCall), UNCHANGED <<stored, run, events>>
  PROVE  Counted'
  <1>1. /\ call'[c] = NoCall
        /\ \A d \in Calls : d # c => call'[d] = call[d]
    BY Written DEF Inv
  <1> QED
    BY <1>1, NoInsertCounted, NothingYet DEF InMemory

\* An insertion that is told by one more event of the run r.
LEMMA InsertCounted ==
  ASSUME Inv, Counted, NEW c \in Calls, NEW t, t = call[c], Insert(c), NEW r \in Runs,
         events' = [events EXCEPT ![r] = Append(events[r], Told(t))],
         \A d \in Calls : d # c => call'[d] = call[d],
         \A d \in Calls : d # c /\ call[d].run # None => run'[call[d].run] = run[call[d].run],
         \A q \in Runs : q # r => run'[q] = run[q],
         events[r] = <<>> \/ run[r].source = t.source,
         run'[r].source = t.source,
         run'[r].blocks = Len(events[r]) + 1,
         run'[r].txs = run[r].txs + Count(t.raw),
         run'[r].status \notin {"FAILED", "PARTIAL"},
         InMemory(call'[c], run')
  PROVE  Counted'
  <1>1. /\ t.at = "inserting" /\ Unique(t.source, t.raw)
        /\ stored' = [stored EXCEPT ![<<t.source, t.raw.number>>] = Kept(t.raw)]
    BY DEF Insert, Cell
  <1>2. /\ TypeOK /\ t.source \in Sources /\ t.number \in Numbers
        /\ t.raw \in Answer(t.source, t.number)
    BY <1>1, CallFacts
  <1>3. t.raw.number \in Numbers /\ Count(t.raw) \in Nat
    BY InsertOK
  <1>4. Kept(t.raw) # None
    BY <1>2, KeptOK
  <1>5. PICK cell \in Sources \X Numbers : cell = <<t.source, t.raw.number>>
    BY <1>2, <1>3
  <1>6. /\ stored[cell] = None
        /\ stored'[cell] = Kept(t.raw)
        /\ \A b \in Sources \X Numbers : b # cell => stored'[b] = stored[b]
    BY <1>1, <1>2, <1>5 DEF Unique, TypeOK
  <1>7. PICK e \in [number : Numbers, count : Nat] : e = Told(t)
    BY <1>3 DEF Told
  <1>8. e.number = t.raw.number /\ e.count = Count(t.raw)
    BY <1>7 DEF Told
  <1>9. PICK es \in Seq([number : Numbers, count : Nat]) : es = events[r]
    BY <1>2 DEF TypeOK
  <1>10. PICK l \in Nat : l = Len(es)
    BY <1>9
  <1>11. events'[r] = Append(es, e) /\ \A q \in Runs : q # r => events'[q] = events[q]
    BY <1>2, <1>7, <1>9 DEF TypeOK
  <1>12. /\ DOMAIN es = 1 .. l /\ DOMAIN events'[r] = 1 .. (l + 1)
         /\ Len(events'[r]) = l + 1 /\ events'[r][l + 1] = e
         /\ \A k \in 1 .. l : events'[r][k] = es[k]
    BY <1>10, <1>11
  <1>13. \A q \in Runs : RunAgrees(q)'
    <2>1. ASSUME NEW q \in Runs, q # r
          PROVE  RunAgrees(q)'
      BY <1>11, <2>1 DEF Counted, CountersAgree, RunAgrees
    <2>2. RunAgrees(r)'
      <3>1. AddUp(es, run[r].txs) /\ run[r].txs \in Nat
        BY <1>2, <1>9 DEF Counted, CountersAgree, RunAgrees, TypeOK, Run
      <3>2. AddUp(events'[r], run'[r].txs)
        <4>1. PICK n \in Nat, m \in Nat : n = run[r].txs /\ m = Count(t.raw)
          BY <1>3, <3>1
        <4>2. AddUp(Append(es, e), n + m)
          BY <1>8, <3>1, <4>1, OneMoreAddsUp
        <4> QED
          BY <1>11, <4>1, <4>2
      <3> QED
        BY <1>9, <1>10, <1>12, <3>2 DEF RunAgrees
    <2> QED
      BY <2>1, <2>2
  <1>14. /\ \A q \in Runs : q # r => DOMAIN events'[q] = DOMAIN events[q]
         /\ DOMAIN events[r] = 1 .. l
         /\ l + 1 \in DOMAIN events'[r] /\ l + 1 \notin DOMAIN events[r]
         /\ \A k \in DOMAIN events'[r] : k # l + 1 => k \in DOMAIN events[r]
    BY <1>9, <1>11, <1>12
  <1>15. ASSUME NEW b \in Sources \X Numbers
         PROVE  /\ \A q \in Runs : \A k \in DOMAIN events[q] :
                     /\ k \in DOMAIN events'[q]
                     /\ events'[q][k] = events[q][k]
                     /\ Tells(q, k, b)' <=> Tells(q, k, b)
                /\ Tells(r, l + 1, b)' <=> b = cell
    <2>1. ASSUME NEW q \in Runs, NEW k \in DOMAIN events[q]
          PROVE  /\ k \in DOMAIN events'[q] /\ events'[q][k] = events[q][k]
                 /\ run'[q].source = run[q].source
      <3>1. CASE q # r
        BY <1>11, <3>1
      <3>2. CASE q = r
        <4>1. es # <<>>
          BY <1>10, <1>14, <3>2
        <4> QED
          BY <1>9, <1>12, <1>14, <3>2, <4>1
      <3> QED
        BY <3>1, <3>2
    <2>2. Tells(r, l + 1, b)' <=> t.source = b[1] /\ t.raw.number = b[2]
      BY <1>8, <1>12, <1>14 DEF Tells
    <2>3. t.source = b[1] /\ t.raw.number = b[2] <=> b = cell
      BY <1>5
    <2> QED
      BY <2>1, <2>2, <2>3 DEF Tells
  <1>16. \A q \in Runs : \A k \in DOMAIN events[q] : ~Tells(q, k, cell)
    BY <1>6 DEF Counted, CountersAgree, ToldOnce
  <1>17. ASSUME NEW q \in Runs, NEW k \in DOMAIN events'[q]
         PROVE  k \in DOMAIN events[q] \/ (q = r /\ k = l + 1)
    BY <1>14
  <1>18. ASSUME NEW b \in Sources \X Numbers
         PROVE  ToldOnce(b)'
    <2>1. ToldOnce(b)
      BY DEF Counted, CountersAgree
    <2>2. stored'[b] # None => \E q \in Runs : \E k \in DOMAIN events'[q] : Tells(q, k, b)'
      <3>1. CASE b = cell
        BY <1>14, <1>15, <3>1
      <3>2. CASE b # cell
        BY <1>6, <1>15, <2>1, <3>2 DEF ToldOnce
      <3> QED
        BY <3>1, <3>2
    <2>3. ASSUME NEW p \in Runs, NEW q \in Runs,
                 NEW k \in DOMAIN events'[p], NEW m \in DOMAIN events'[q],
                 Tells(p, k, b)', Tells(q, m, b)'
          PROVE  p = q /\ k = m
      <3>1. CASE b = cell
        <4>1. p = r /\ k = l + 1
          BY <1>15, <1>16, <1>17, <2>3, <3>1
        <4>2. q = r /\ m = l + 1
          BY <1>15, <1>16, <1>17, <2>3, <3>1
        <4> QED
          BY <4>1, <4>2
      <3>2. CASE b # cell
        <4>1. k \in DOMAIN events[p] /\ Tells(p, k, b)
          BY <1>15, <1>17, <2>3, <3>2
        <4>2. m \in DOMAIN events[q] /\ Tells(q, m, b)
          BY <1>15, <1>17, <2>3, <3>2
        <4> QED
          BY <2>1, <4>1, <4>2 DEF ToldOnce
      <3> QED
        BY <3>1, <3>2
    <2>4. ASSUME NEW q \in Runs, NEW k \in DOMAIN events'[q], Tells(q, k, b)'
          PROVE  stored'[b] # None /\ events'[q][k].count = Cardinality(stored'[b].txs)
      <3>1. CASE b = cell
        <4>1. q = r /\ k = l + 1
          BY <1>15, <1>16, <1>17, <2>4, <3>1
        <4> QED
          BY <1>4, <1>6, <1>8, <1>12, <3>1, <4>1 DEF Count
      <3>2. CASE b # cell
        <4>1. k \in DOMAIN events[q] /\ Tells(q, k, b) /\ events'[q][k] = events[q][k]
          BY <1>15, <1>17, <2>4, <3>2
        <4> QED
          BY <1>6, <2>1, <3>2, <4>1 DEF ToldOnce
      <3> QED
        BY <3>1, <3>2
    <2> QED
      BY <2>2, <2>3, <2>4 DEF ToldOnce
  <1> QED
    BY <1>13, <1>18, OthersRemember DEF Counted, CountersAgree

\* A call that ends and writes its run r with the status that fits its counters.
LEMMA EndsWritingCounted ==
  ASSUME Inv, Counted, NEW c \in Calls, NEW r \in Runs, NEW v,
         Write(r, v), Go(c, NoCall), UNCHANGED <<stored, events>>,
         \A d \in Calls : d # c => call[d].run # r,
         v.blocks = run[r].blocks, v.txs = run[r].txs,
         v.status = "FAILED" => v.blocks = 0,
         v.status = "PARTIAL" => v.blocks > 0,
         events[r] = <<>> \/ v.source = run[r].source
  PROVE  Counted'
  <1>1. /\ call'[c] = NoCall
        /\ \A d \in Calls : d # c => call'[d] = call[d]
        /\ run'[r] = v
        /\ \A q \in Runs : q # r => run'[q] = run[q]
    BY Written, RunWritten DEF Inv
  <1>2. RunAgrees(r)'
    BY <1>1 DEF Counted, CountersAgree, RunAgrees
  <1>3. \A d \in Calls : d # c /\ call[d].run # None => run'[call[d].run] = run[call[d].run]
    BY <1>1 DEF Inv, TypeOK, Call
  <1>4. \A q \in Runs : \/ run'[q] = run[q]
                        \/ /\ RunAgrees(q)'
                           /\ events[q] = <<>> \/ run'[q].source = run[q].source
    BY <1>1, <1>2
  <1>5. InMemory(call'[c], run')
    BY <1>1, NothingYet DEF InMemory
  <1> QED
    BY <1>1, <1>3, <1>4, <1>5, NoInsertCounted

\* A run that is absent has no events.
LEMMA AbsentIsEmpty ==
  ASSUME Inv, Counted, NEW r \in Runs, run[r] = NoRun
  PROVE  events[r] = <<>> /\ run[r].blocks = 0 /\ run[r].txs = 0
  <1>1. run[r].blocks = 0 /\ run[r].txs = 0
    BY DEF NoRun
  <1>2. Len(events[r]) = 0 /\ events[r] \in Seq([number : Numbers, count : Nat])
    BY <1>1 DEF Counted, CountersAgree, RunAgrees, Inv, TypeOK
  <1> QED
    BY <1>1, <1>2

LEMMA StartCounted ==
  ASSUME Inv, Counted, NEW c \in Calls, NEW s \in Sources,
         \/ \E p \in Ranges : StartRange(c, s, p)
         \/ \E n \in Numbers : StartBlock(c, s, n)
  PROVE  Counted'
  <1> HIDE DEF NoRun, NoCall
  <1>1. ASSUME NEW p \in Ranges, StartRange(c, s, p)
        PROVE  Counted'
    <2>1. PICK r \in Runs : /\ r = NewRun /\ run[r] = NoRun /\ r # None
                            /\ \A d \in Calls : call[d].run # r
      BY <1>1, AbsentRun DEF StartRange
    <2>2. events[r] = <<>> /\ run[r].blocks = 0 /\ run[r].txs = 0
      BY <2>1, AbsentIsEmpty
    <2>3. UNCHANGED <<stored, events>>
      BY <1>1 DEF StartRange
    <2>4. PICK v : v = [NoRun EXCEPT !.status = "RUNNING", !.source = s,
                                     !.first = p[1], !.last = p[2]]
      OBVIOUS
    <2>5. /\ v.status = "RUNNING" /\ v.blocks = 0 /\ v.txs = 0
      BY <2>1, <2>2, <2>4, NothingYet DEF Run
    <2>6. PICK t : t = [NoCall EXCEPT !.at = "fetching", !.run = r, !.source = s,
                                      !.number = p[1], !.last = p[2]]
      OBVIOUS
    <2>7. t.run = r /\ t.collected = 0 /\ t.txs = 0
      BY <2>6, NothingYet DEF Call
    <2>8. Write(r, v) /\ Go(c, t)
      BY <1>1, <2>1, <2>4, <2>6 DEF StartRange
    <2>9. /\ call'[c] = t
          /\ \A d \in Calls : d # c => call'[d] = call[d]
          /\ run'[r] = v
          /\ \A q \in Runs : q # r => run'[q] = run[q]
      BY <2>8, Written, RunWritten DEF Inv
    <2>10. RunAgrees(r)'
      BY <2>2, <2>3, <2>5, <2>9 DEF Counted, CountersAgree, RunAgrees
    <2>11. InMemory(call'[c], run')
      BY <2>5, <2>7, <2>9 DEF InMemory
    <2>12. \A d \in Calls : d # c /\ call[d].run # None => run'[call[d].run] = run[call[d].run]
      BY <2>1, <2>9 DEF Inv, TypeOK, Call
    <2> QED
      BY <2>2, <2>3, <2>9, <2>10, <2>11, <2>12, NoInsertCounted
  <1>2. ASSUME NEW n \in Numbers, StartBlock(c, s, n)
        PROVE  Counted'
    <2>1. PICK t : t = [NoCall EXCEPT !.at = "fetching", !.source = s, !.number = n, !.last = n]
      OBVIOUS
    <2>2. t.run = None
      BY <2>1, NothingYet DEF Call
    <2>3. Go(c, t) /\ UNCHANGED <<stored, run, events>>
      BY <1>2, <2>1 DEF StartBlock
    <2>4. /\ call'[c] = t
          /\ \A d \in Calls : d # c => call'[d] = call[d]
      BY <2>3, Written DEF Inv
    <2> QED
      BY <2>2, <2>3, <2>4, NoInsertCounted DEF InMemory
  <1> QED
    BY <1>1, <1>2

LEMMA FailsCounted ==
  ASSUME Inv, Counted, NEW c \in Calls, RangeFails(c) \/ BlockFails(c)
  PROVE  Counted'
  <1> HIDE DEF NoRun, NoCall
  <1>1. PICK t : t = call[c]
    OBVIOUS
  <1>2. t.at = "fetching" /\ UNCHANGED <<stored, events>> /\ Go(c, NoCall)
    BY <1>1 DEF RangeFails, BlockFails, Fetching
  <1>3. /\ TypeOK /\ t \in Call
        /\ t.run # None => /\ t.run \in Runs /\ run[t.run] \in Run
                          /\ \A d \in Calls : d # c => call[d].run # t.run
    BY <1>1, <1>2, CallFacts
  <1>4. CASE RangeFails(c)
    <2>1. t.run # None
      BY <1>1, <1>4 DEF RangeFails
    <2>2. PICK r \in Runs : r = t.run /\ run[r] \in Run
      BY <1>3, <2>1
    <2>3. PICK v : v = [run[r] EXCEPT
                          !.status = IF t.collected > 0 THEN "PARTIAL" ELSE "FAILED",
                          !.blocks = t.collected, !.txs = t.txs]
      OBVIOUS
    <2>4. run[r].blocks = t.collected /\ run[r].txs = t.txs /\ t.collected \in Nat
      BY <1>1, <1>3, <2>1, <2>2 DEF Counted, InMemory, Call
    <2>5. /\ v.blocks = t.collected /\ v.txs = t.txs /\ v.source = run[r].source
          /\ v.status = IF t.collected > 0 THEN "PARTIAL" ELSE "FAILED"
      BY <2>2, <2>3 DEF Run
    <2>6. v.status = "FAILED" => v.blocks = 0
      BY <2>4, <2>5
    <2>7. v.status = "PARTIAL" => v.blocks > 0
      BY <2>4, <2>5
    <2>8. Write(r, v)
      BY <1>1, <1>4, <2>2, <2>3 DEF RangeFails
    <2> QED
      BY <1>2, <1>3, <2>1, <2>2, <2>4, <2>5, <2>6, <2>7, <2>8, EndsWritingCounted
  <1>5. CASE BlockFails(c)
    <2>1. PICK r \in Runs : /\ r = NewRun /\ run[r] = NoRun
                            /\ \A d \in Calls : call[d].run # r
      BY <1>5, AbsentRun DEF BlockFails
    <2>2. events[r] = <<>> /\ run[r].blocks = 0 /\ run[r].txs = 0
      BY <2>1, AbsentIsEmpty
    <2>3. PICK v : v = [NoRun EXCEPT !.status = "FAILED", !.source = t.source,
                                     !.first = t.number, !.last = t.number]
      OBVIOUS
    <2>4. v.blocks = 0 /\ v.txs = 0 /\ v.status = "FAILED"
      BY <2>1, <2>2, <2>3, NothingYet DEF Run
    <2>5. Write(r, v)
      BY <1>1, <1>5, <2>1, <2>3 DEF BlockFails
    <2> QED
      BY <1>2, <2>1, <2>2, <2>4, <2>5, EndsWritingCounted
  <1> QED
    BY <1>4, <1>5

LEMMA FinishCounted ==
  ASSUME Inv, Counted, NEW c \in Calls, Finish(c)
  PROVE  Counted'
  <1> HIDE DEF NoRun, NoCall
  <1>1. PICK t : t = call[c]
    OBVIOUS
  <1>2. /\ t.at = "fetching" /\ t.number > t.last
        /\ UNCHANGED <<stored, events>> /\ Go(c, NoCall)
    BY <1>1 DEF Finish
  <1>3. /\ TypeOK /\ t \in Call
        /\ t.run = None => t.number = t.last
        /\ t.run # None => /\ t.run \in Runs /\ run[t.run] \in Run
                          /\ \A d \in Calls : d # c => call[d].run # t.run
    BY <1>1, <1>2, CallFacts
  <1>4. t.run # None
    BY <1>2, <1>3 DEF Call
  <1>5. PICK r \in Runs : r = t.run /\ run[r] \in Run
    BY <1>3, <1>4
  <1>6. PICK v : v = [run[r] EXCEPT !.status = "COMPLETED", !.blocks = t.collected,
                                    !.txs = t.txs]
    OBVIOUS
  <1>7. run[r].blocks = t.collected /\ run[r].txs = t.txs
    BY <1>1, <1>4, <1>5 DEF Counted, InMemory
  <1>8. /\ v.blocks = t.collected /\ v.txs = t.txs /\ v.source = run[r].source
        /\ v.status = "COMPLETED"
    BY <1>5, <1>6 DEF Run
  <1>9. Write(r, v)
    BY <1>1, <1>5, <1>6 DEF Finish
  <1> QED
    BY <1>2, <1>3, <1>4, <1>5, <1>7, <1>8, <1>9, EndsWritingCounted

\* A step within a range that writes nothing.
LEMMA StaysCounted ==
  ASSUME Inv, Counted, NEW c \in Calls, NEW u, Go(c, u), UNCHANGED <<stored, run, events>>,
         u.run = call[c].run, u.collected = call[c].collected, u.txs = call[c].txs
  PROVE  Counted'
  <1>1. /\ call'[c] = u
        /\ \A d \in Calls : d # c => call'[d] = call[d]
    BY Written DEF Inv
  <1>2. InMemory(call'[c], run')
    BY <1>1 DEF Counted, InMemory
  <1> QED
    BY <1>1, <1>2, NoInsertCounted

LEMMA FetchCounted ==
  ASSUME Inv, Counted, NEW c \in Calls, Exists(c) \/ Missing(c)
  PROVE  Counted'
  <1> HIDE DEF NoRun, NoCall
  <1>1. PICK t : t = call[c]
    OBVIOUS
  <1>2. t.at = "fetching" /\ t.number <= t.last /\ UNCHANGED <<stored, run, events>>
    BY <1>1 DEF Exists, Missing, Fetching
  <1>3. t \in Call /\ CallOK(t) /\ t # NoCall
    BY <1>1, <1>2, CallFacts, NothingYet
  <1>4. CASE Exists(c)
    <2>1. Go(c, IF t.run = None THEN NoCall ELSE OnFrom(t))
      BY <1>1, <1>4 DEF Exists, Skipped
    <2>2. CASE t.run = None
      BY <1>2, <2>1, <2>2, EndsCounted
    <2>3. CASE t.run # None
      <3>1. PICK u : u = OnFrom(t)
        OBVIOUS
      <3>2. u.run = t.run /\ u.collected = t.collected /\ u.txs = t.txs
        BY <1>2, <1>3, <2>3, <3>1, OnFromOK
      <3> QED
        BY <1>1, <1>2, <2>1, <2>3, <3>1, <3>2, StaysCounted
    <2> QED
      BY <2>2, <2>3
  <1>5. CASE Missing(c)
    <2>1. PICK raw \in Answer(t.source, t.number) :
            Go(c, [t EXCEPT !.at = "inserting", !.raw = raw])
      BY <1>1, <1>5 DEF Missing
    <2>2. PICK u : u = [t EXCEPT !.at = "inserting", !.raw = raw]
      OBVIOUS
    <2>3. u.run = t.run /\ u.collected = t.collected /\ u.txs = t.txs
      BY <1>3, <2>2 DEF Call
    <2> QED
      BY <1>1, <1>2, <2>1, <2>2, <2>3, StaysCounted
  <1> QED
    BY <1>4, <1>5

LEMMA StoreBlockCounted ==
  ASSUME Inv, Counted, NEW c \in Calls, StoreBlock(c)
  PROVE  Counted'
  <1> HIDE DEF NoRun, NoCall
  <1>1. PICK t : t = call[c]
    OBVIOUS
  <1>2. t.run = None /\ Insert(c) /\ Go(c, NoCall)
    BY <1>1 DEF StoreBlock
  <1>3. t.raw.number \in Numbers /\ Count(t.raw) \in Nat
    BY <1>1, <1>2, InsertOK
  <1>4. PICK r \in Runs : /\ r = NewRun /\ run[r] = NoRun
                          /\ \A d \in Calls : call[d].run # r
    BY AbsentRun DEF StoreBlock
  <1>5. events[r] = <<>> /\ run[r].blocks = 0 /\ run[r].txs = 0
    BY <1>4, AbsentIsEmpty
  <1>6. PICK v : v = [status |-> "COMPLETED", source |-> t.source, first |-> t.number,
                      last |-> t.number, blocks |-> 1, txs |-> Count(t.raw)]
    OBVIOUS
  <1>7. v.status = "COMPLETED" /\ v.source = t.source /\ v.blocks = 1 /\ v.txs = Count(t.raw)
    BY <1>6
  <1>8. Write(r, v)
    BY <1>1, <1>4, <1>6 DEF StoreBlock
  <1>9. /\ call'[c] = NoCall
        /\ \A d \in Calls : d # c => call'[d] = call[d]
        /\ run'[r] = v
        /\ \A q \in Runs : q # r => run'[q] = run[q]
    BY <1>2, <1>8, Written, RunWritten DEF Inv
  <1>10. events' = [events EXCEPT ![r] = Append(events[r], Told(t))]
    <2>1. PICK e \in [number : Numbers, count : Nat] : e = Told(t)
      BY <1>3 DEF Told
    <2>2. Append(<<>>, e) = <<e>>
      OBVIOUS
    <2>3. events' = [events EXCEPT ![r] = <<e>>]
      BY <1>1, <1>4, <2>1 DEF StoreBlock
    <2> QED
      BY <1>5, <2>1, <2>2, <2>3
  <1>11. Len(events[r]) + 1 = 1 /\ run[r].txs + Count(t.raw) = Count(t.raw)
    BY <1>3, <1>5
  <1>12. InMemory(call'[c], run')
    BY <1>9, NothingYet DEF InMemory
  <1>13. \A d \in Calls : d # c /\ call[d].run # None => run'[call[d].run] = run[call[d].run]
    BY <1>4, <1>9 DEF Inv, TypeOK, Call
  <1>14. v.status \notin {"FAILED", "PARTIAL"}
    BY <1>7
  <1>15. /\ run'[r].source = t.source
         /\ run'[r].blocks = Len(events[r]) + 1
         /\ run'[r].txs = run[r].txs + Count(t.raw)
         /\ run'[r].status \notin {"FAILED", "PARTIAL"}
    <2>1. Len(events[r]) + 1 = 1
      BY <1>5
    <2> QED
      BY <1>7, <1>9, <1>11, <1>14, <2>1, Zenon
  <1>16. \A d \in Calls : d # c => call'[d] = call[d]
    BY <1>9
  <1>17. \A q \in Runs : q # r => run'[q] = run[q]
    BY <1>9
  <1> QED
    BY <1>1, <1>2, <1>5, <1>10, <1>12, <1>13, <1>15, <1>16, <1>17, InsertCounted, ZenonT(30)

LEMMA StoreInRangeCounted ==
  ASSUME Inv, Counted, NEW c \in Calls, StoreInRange(c)
  PROVE  Counted'
  <1> HIDE DEF NoRun, NoCall
  <1>1. PICK t : t = call[c]
    OBVIOUS
  <1>2. t.run # None /\ Insert(c) /\ Len(events[t.run]) = t.collected
    BY <1>1 DEF StoreInRange
  <1>3. t.at = "inserting" /\ Count(t.raw) \in Nat
    BY <1>1, <1>2, InsertOK
  <1>4. /\ TypeOK /\ t \in Call /\ CallOK(t) /\ Follows(t, run) /\ t.number <= t.last
        /\ t.run \in Runs /\ run[t.run] \in Run
        /\ \A d \in Calls : d # c => call[d].run # t.run
    BY <1>1, <1>2, <1>3, CallFacts
  <1>5. PICK r \in Runs : r = t.run /\ run[r] \in Run
    BY <1>4
  <1>6. run[r].blocks = t.collected /\ run[r].txs = t.txs
    BY <1>1, <1>2, <1>5 DEF Counted, InMemory
  <1>7. PICK k, m : k = t.collected + 1 /\ m = t.txs + Count(t.raw)
    OBVIOUS
  <1>8. PICK v : v = [run[r] EXCEPT !.blocks = k, !.txs = m]
    OBVIOUS
  <1>9. /\ v.status = run[r].status /\ v.source = run[r].source
        /\ v.blocks = k /\ v.txs = m
    BY <1>5, <1>8 DEF Run
  <1>10. v.status \notin {"FAILED", "PARTIAL"} /\ v.source = t.source /\ run[r].source = t.source
    BY <1>2, <1>4, <1>5, <1>9 DEF Follows
  <1>11. Write(r, v)
    BY <1>1, <1>5, <1>7, <1>8 DEF StoreInRange, Progress
  <1>12. PICK o : o = OnFrom(t)
    OBVIOUS
  <1>13. o \in Call /\ o.run = t.run
    BY <1>2, <1>3, <1>4, <1>12, NothingYet, OnFromOK
  <1>14. PICK u : u = [o EXCEPT !.collected = k, !.txs = m]
    OBVIOUS
  <1>15. u.run = t.run /\ u.collected = k /\ u.txs = m
    BY <1>13, <1>14 DEF Call
  <1>16. Go(c, u)
    BY <1>1, <1>7, <1>12, <1>14 DEF StoreInRange
  <1>17. /\ call'[c] = u
         /\ \A d \in Calls : d # c => call'[d] = call[d]
         /\ run'[r] = v
         /\ \A q \in Runs : q # r => run'[q] = run[q]
    BY <1>4, <1>11, <1>16, Written, RunWritten
  <1>18. events' = [events EXCEPT ![r] = Append(events[r], Told(t))]
    BY <1>1, <1>5 DEF StoreInRange
  <1>19. InMemory(call'[c], run')
    BY <1>5, <1>9, <1>15, <1>17 DEF InMemory
  <1>20. \A d \in Calls : d # c /\ call[d].run # None => run'[call[d].run] = run[call[d].run]
    BY <1>4, <1>5, <1>17 DEF TypeOK, Call
  <1>21. v.blocks = Len(events[r]) + 1 /\ v.txs = run[r].txs + Count(t.raw)
    BY <1>2, <1>5, <1>6, <1>7, <1>9
  <1>22. /\ run'[r].source = t.source
         /\ run'[r].blocks = Len(events[r]) + 1
         /\ run'[r].txs = run[r].txs + Count(t.raw)
         /\ run'[r].status \notin {"FAILED", "PARTIAL"}
    BY <1>10, <1>17, <1>21, Zenon
  <1>23. Counted /\ \A d \in Calls : d # c => call'[d] = call[d]
    BY <1>17
  <1>24. \A q \in Runs : q # r => run'[q] = run[q]
    BY <1>17
  <1> QED
    BY <1>1, <1>2, <1>10, <1>18, <1>19, <1>20, <1>22, <1>23, <1>24, InsertCounted, ZenonT(30)

LEMMA NextCounted == Inv /\ Counted /\ [Next]_vars => Counted'
  <1> SUFFICES ASSUME Inv, Counted, [Next]_vars PROVE Counted'
    OBVIOUS
  <1>1. ASSUME NEW c \in Calls, Proceed(c)
        PROVE  Counted'
    <2>1. CASE Exists(c) \/ Missing(c)
      BY <2>1, FetchCounted
    <2>2. CASE StoreInRange(c)
      BY <2>2, StoreInRangeCounted
    <2>3. CASE StoreBlock(c)
      BY <2>3, StoreBlockCounted
    <2>4. CASE Violate(c)
      BY <2>4, EndsCounted DEF Violate
    <2>5. CASE Finish(c)
      BY <2>5, FinishCounted
    <2> QED
      BY <1>1, <2>1, <2>2, <2>3, <2>4, <2>5 DEF Proceed
  <1>2. ASSUME NEW c \in Calls, RangeFails(c) \/ BlockFails(c) \/ Throw(c)
        PROVE  Counted'
    BY <1>2, FailsCounted, EndsCounted DEF Throw
  <1>3. CASE UNCHANGED vars
    BY <1>3 DEF vars, Counted, CountersAgree, RunAgrees, ToldOnce, Tells, InMemory
  <1> QED
    BY <1>1, <1>2, <1>3, StartCounted DEF Next

(* The counters of every run are those of its events, whatever the other calls  *)
(* do and whenever a call fails, and a stored block is told by one event of one *)
(* run: the counters a call writes from memory are never stale.                 *)
THEOREM CountersAlwaysAgree == Spec => []CountersAgree
  <1>1. Counted => CountersAgree
    BY DEF Counted
  <1> QED
    BY <1>1, InitCounted, NextCounted, SpecInv, PTL DEF Spec

-----------------------------------------------------------------------------
\* An observation is a record of fields and of transactions that differ in hash.
Observation(b) ==
  /\ b.fields = [f \in BlockFields |-> b.fields[f]]
  /\ \A t \in b.txs : t = [hash |-> t.hash, fields |-> [f \in TxFields |-> t.fields[f]]]
  /\ \A t, u \in b.txs : t.hash = u.hash => t = u

LEMMA TransactionOf ==
  ASSUME NEW b, Observation(b), NEW t \in b.txs
  PROVE  Transaction(b, t.hash) = t
  BY DEF Observation, Transaction

\* Positions that start at 1: the first is 1.
LEMMA FirstOf ==
  ASSUME NEW n \in Nat \ {0}
  PROVE  First(1 .. n) = 1
  <1>1. 1 \in 1 .. n /\ \A j \in 1 .. n : 1 <= j
    OBVIOUS
  <1>2. \A k \in 1 .. n : (\A j \in 1 .. n : k <= j) => k = 1
    BY <1>1
  <1> QED
    BY <1>1, <1>2 DEF First

LEMMA DiffersFromFirst ==
  ASSUME NEW value, NEW n \in Nat \ {0}, DOMAIN value = 1 .. n
  PROVE  Differs(value) <=> \E k \in 1 .. n : value[k] # value[1]
  BY FirstOf DEF Differs

\* An order of a set has every element.
LEMMA OrderIsOnto ==
  ASSUME NEW S, IsFiniteSet(S), NEW order \in SetToSeqs(S)
  PROVE  /\ order \in [1 .. Cardinality(S) -> S]
         /\ \A s \in S : \E k \in 1 .. Cardinality(S) : order[k] = s
  <1>1. PICK n \in Nat : n = Cardinality(S)
    BY FS_CardinalityType
  <1>2. /\ order \in [1 .. n -> S]
        /\ \A i, j \in 1 .. n : i # j => order[i] # order[j]
    BY <1>1 DEF SetToSeqs
  <1>3. IsFiniteSet(1 .. n) /\ Cardinality(1 .. n) = n
    BY FS_Interval
  <1>4. order \in Injection(1 .. n, S)
    BY <1>2 DEF Injection, IsInjective
  <1>5. order \in Surjection(1 .. n, S)
    BY <1>1, <1>3, <1>4, FS_Injection
  <1> QED
    BY <1>1, <1>2, <1>5 DEF Surjection

\* Two observations that agree on their transactions have the same.
LEMMA SameTransactions ==
  ASSUME NEW a, NEW b, Observation(a), Observation(b), HashesIn(a) \subseteq HashesIn(b),
         \A h \in HashesIn(a), f \in TxFields :
           Transaction(a, h).fields[f] = Transaction(b, h).fields[f]
  PROVE  a.txs \subseteq b.txs
  <1> SUFFICES ASSUME NEW t \in a.txs PROVE t \in b.txs
    OBVIOUS
  <1>1. t.hash \in HashesIn(a)
    BY DEF HashesIn
  <1>2. PICK u \in b.txs : u.hash = t.hash
    BY <1>1 DEF HashesIn
  <1>3. Transaction(a, t.hash) = t /\ Transaction(b, t.hash) = u
    BY <1>2, TransactionOf
  <1>4. [f \in TxFields |-> t.fields[f]] = [f \in TxFields |-> u.fields[f]]
    BY <1>1, <1>3
  <1>5. /\ t = [hash |-> t.hash, fields |-> [f \in TxFields |-> t.fields[f]]]
        /\ u = [hash |-> u.hash, fields |-> [f \in TxFields |-> u.fields[f]]]
    BY Zenon DEF Observation
  <1>6. t = u
    BY <1>2, <1>4, <1>5, Zenon
  <1> QED
    BY <1>6

(* crossValidateBlock says CONSISTENT exactly when the sources agree on all the  *)
(* block, for any number of sources in any order.                               *)
THEOREM VerdictOfAll ==
  ASSUME NEW seen, NEW S, S = DOMAIN seen, IsFiniteSet(S),
         \A s \in S : /\ Observation(seen[s])
                      /\ seen[s] = [fields |-> seen[s].fields, txs |-> seen[s].txs],
         NEW order \in SetToSeqs(S)
  PROVE  Verdict(seen, order) =
           IF Cardinality(S) < 2 THEN "INSUFFICIENT_SOURCES"
           ELSE IF \A s, t \in S : seen[s] = seen[t] THEN "CONSISTENT"
           ELSE "DISCREPANCY"
  <1>1. PICK n \in Nat : n = Cardinality(S)
    BY FS_CardinalityType
  <1>2. order \in [1 .. n -> S] /\ \A s \in S : \E k \in 1 .. n : order[k] = s
    BY <1>1, OrderIsOnto
  <1>3. Len(order) = n /\ DOMAIN order = 1 .. n
    BY <1>2
  <1>4. CASE n < 2
    BY <1>1, <1>3, <1>4 DEF Verdict
  <1>5. CASE ~(n < 2)
    <2> DEFINE All == \A s, t \in S : seen[s] = seen[t]
               None_ == /\ BlockDiscrepancies(seen, order) = {}
                        /\ TransactionDiscrepancies(seen, order) = {}
                        /\ MissingTransactions(seen, order) = {}
    <2>1. n \in Nat \ {0} /\ 1 \in 1 .. n /\ order[1] \in S
      BY <1>2, <1>5
    <2>2. ASSUME NEW f \in BlockFields
          PROVE  f \in BlockDiscrepancies(seen, order) <=>
                   \E k \in 1 .. n : seen[order[k]].fields[f] # seen[order[1]].fields[f]
      <3>1. PICK value : value = [k \in 1 .. n |-> seen[order[k]].fields[f]]
        OBVIOUS
      <3>2. Differs(value) <=> \E k \in 1 .. n : value[k] # value[1]
        BY <2>1, <3>1, DiffersFromFirst
      <3>3. f \in BlockDiscrepancies(seen, order) <=> Differs(value)
        BY <1>3, <3>1 DEF BlockDiscrepancies
      <3> QED
        BY <2>1, <3>1, <3>2, <3>3
    <2>3. ASSUME NEW h \in Hashes(seen), \A s \in S : h \in HashesIn(seen[s])
          PROVE  h \in TransactionDiscrepancies(seen, order) <=>
                   \E f \in TxFields, k \in 1 .. n :
                     Transaction(seen[order[k]], h).fields[f]
                       # Transaction(seen[order[1]], h).fields[f]
      <3>1. Having(seen, order, h) = 1 .. n
        BY <1>2, <1>3, <2>3 DEF Having
      <3>2. ASSUME NEW f \in TxFields
            PROVE  Differs([k \in Having(seen, order, h) |->
                              Transaction(seen[order[k]], h).fields[f]])
                   <=> \E k \in 1 .. n : Transaction(seen[order[k]], h).fields[f]
                                           # Transaction(seen[order[1]], h).fields[f]
        <4>1. PICK value : value = [k \in 1 .. n |-> Transaction(seen[order[k]], h).fields[f]]
          OBVIOUS
        <4>2. Differs(value) <=> \E k \in 1 .. n : value[k] # value[1]
          BY <2>1, <4>1, DiffersFromFirst
        <4> QED
          BY <2>1, <3>1, <4>1, <4>2
      <3> QED
        BY <3>2 DEF TransactionDiscrepancies
    <2>4. All => None_
      <3>1. SUFFICES ASSUME All PROVE None_
        OBVIOUS
      <3>2. \A k \in 1 .. n : seen[order[k]] = seen[order[1]]
        BY <1>2, <2>1, <3>1
      <3>3. \A h \in Hashes(seen), s \in S : h \in HashesIn(seen[s])
        BY <3>1 DEF Hashes
      <3>4. BlockDiscrepancies(seen, order) = {}
        BY <2>2, <3>2 DEF BlockDiscrepancies
      <3>5. TransactionDiscrepancies(seen, order) = {}
        BY <2>3, <3>2, <3>3 DEF TransactionDiscrepancies
      <3>6. MissingTransactions(seen, order) = {}
        BY <3>3 DEF MissingTransactions
      <3> QED
        BY <3>4, <3>5, <3>6
    <2>5. None_ => All
      <3>1. SUFFICES ASSUME None_, NEW s \in S PROVE seen[s] = seen[order[1]]
        BY <2>1
      <3>2. PICK k \in 1 .. n : order[k] = s
        BY <1>2
      <3>3. PICK a, b : a = seen[s] /\ b = seen[order[1]]
        OBVIOUS
      <3>4. /\ Observation(a) /\ Observation(b)
            /\ a = [fields |-> a.fields, txs |-> a.txs]
            /\ b = [fields |-> b.fields, txs |-> b.txs]
        BY <2>1, <3>3
      <3>5. \A f \in BlockFields : a.fields[f] = b.fields[f]
        BY <2>2, <3>1, <3>2, <3>3
      <3>6. \A h \in Hashes(seen), t \in S : h \in HashesIn(seen[t])
        BY <3>1 DEF MissingTransactions
      <3>7. HashesIn(a) = Hashes(seen) /\ HashesIn(b) = Hashes(seen)
        BY <2>1, <3>3, <3>6 DEF Hashes
      <3>8. \A h \in Hashes(seen), f \in TxFields :
              Transaction(a, h).fields[f] = Transaction(b, h).fields[f]
        BY <2>3, <3>1, <3>2, <3>3, <3>6
      <3>9. a.txs = b.txs
        <4>1. /\ HashesIn(a) \subseteq HashesIn(b) /\ HashesIn(b) \subseteq HashesIn(a)
              /\ \A h \in HashesIn(a), f \in TxFields :
                   Transaction(a, h).fields[f] = Transaction(b, h).fields[f]
              /\ \A h \in HashesIn(b), f \in TxFields :
                   Transaction(b, h).fields[f] = Transaction(a, h).fields[f]
          BY <3>7, <3>8
        <4>2. a.txs \subseteq b.txs
          BY <3>4, <4>1, SameTransactions
        <4>3. b.txs \subseteq a.txs
          BY <3>4, <4>1, SameTransactions
        <4> QED
          BY <4>2, <4>3
      <3>10. a.fields = b.fields
        BY <3>4, <3>5 DEF Observation
      <3> QED
        BY <3>3, <3>4, <3>9, <3>10
    <2>6. Len(order) >= 2 /\ ~(Len(order) < 2) /\ ~(Cardinality(S) < 2)
      BY <1>1, <1>3, <1>5
    <2>7. Verdict(seen, order) = IF None_ THEN "CONSISTENT" ELSE "DISCREPANCY"
      BY <2>6 DEF Verdict
    <2> QED
      BY <2>4, <2>5, <2>6, <2>7
  <1> QED
    BY <1>4, <1>5

\* What is stored are observations.
StoredOK ==
  \A b \in Sources \X Numbers : stored[b] # None => Observation(stored[b])

LEMMA KeptObservation ==
  ASSUME NEW s \in Sources, NEW n \in Numbers, NEW raw \in Answer(s, n), Unique(s, raw)
  PROVE  Observation(Kept(raw))
  <1>1. PICK b : b = Kept(raw)
    OBVIOUS
  <1>2. b.fields = raw.fields /\ b.txs = {t \in raw.txs : t.hash # None}
    BY <1>1 DEF Kept
  <1>3. /\ raw.fields = [f \in BlockFields |-> raw.fields[f]]
        /\ \A t \in raw.txs : t = [hash |-> t.hash, fields |-> [f \in TxFields |-> t.fields[f]]]
    BY AnswerAssumption, Zenon
  <1>4. \A t, u \in b.txs : t.hash = u.hash => t = u
    BY <1>1, Zenon DEF Unique
  <1>5. b.fields = [f \in BlockFields |-> b.fields[f]]
    BY <1>2, <1>3, Zenon
  <1>6. \A t \in b.txs : t = [hash |-> t.hash, fields |-> [f \in TxFields |-> t.fields[f]]]
    BY <1>2, <1>3, Zenon
  <1> QED
    BY <1>1, <1>4, <1>5, <1>6, Zenon DEF Observation

LEMMA InsertStoredOK ==
  ASSUME Inv, StoredOK, NEW c \in Calls, Insert(c)
  PROVE  StoredOK'
  <1>1. PICK t : t = call[c]
    OBVIOUS
  <1>2. /\ t.at = "inserting" /\ Unique(t.source, t.raw)
        /\ stored' = [stored EXCEPT ![<<t.source, t.raw.number>>] = Kept(t.raw)]
    BY <1>1 DEF Insert, Cell
  <1>3. /\ TypeOK /\ t.source \in Sources /\ t.number \in Numbers
        /\ t.raw \in Answer(t.source, t.number)
    BY <1>1, <1>2, CallFacts
  <1>4. Observation(Kept(t.raw))
    BY <1>2, <1>3, KeptObservation
  <1> QED
    BY <1>2, <1>3, <1>4 DEF StoredOK, TypeOK

LEMMA SpecStoredOK == Spec => []StoredOK
  <1>1. Init => StoredOK
    BY DEF Init, StoredOK
  <1>2. Inv /\ StoredOK /\ [Next]_vars => StoredOK'
    <2> SUFFICES ASSUME Inv, StoredOK, [Next]_vars PROVE StoredOK'
      OBVIOUS
    <2>1. CASE UNCHANGED stored
      BY <2>1 DEF StoredOK
    <2>2. \/ UNCHANGED stored
          \/ \E c \in Calls : Insert(c)
      BY DEF Next, vars, StartRange, StartBlock, RangeFails, BlockFails, Throw, Proceed,
             Exists, Missing, StoreInRange, StoreBlock, Violate, Finish
    <2> QED
      BY <2>1, <2>2, InsertStoredOK
  <1> QED
    BY <1>1, <1>2, SpecInv, PTL DEF Spec

(* validateBlock, at any time and in any order of collection, says CONSISTENT   *)
(* exactly when the sources that have the block agree on all of it.             *)
THEOREM VerdictsAreTrue == Spec => []VerdictIsAgreement
  <1>1. StoredOK /\ TypeOK => VerdictIsAgreement
    <2> SUFFICES ASSUME StoredOK, TypeOK, NEW n \in Numbers, NEW seen, seen = Seen(n),
                        NEW order \in SetToSeqs(DOMAIN seen)
                 PROVE  Verdict(seen, order) =
                          IF Cardinality(DOMAIN seen) < 2 THEN "INSUFFICIENT_SOURCES"
                          ELSE IF \A s, t \in DOMAIN seen : seen[s] = seen[t]
                          THEN "CONSISTENT" ELSE "DISCREPANCY"
      BY DEF VerdictIsAgreement
    <2>1. PICK S : S = DOMAIN seen
      OBVIOUS
    <2>2. /\ S = {s \in Sources : stored[<<s, n>>] # None}
          /\ \A s \in S : seen[s] = stored[<<s, n>>]
      BY <2>1 DEF Seen
    <2>3. IsFiniteSet(S)
      BY <2>2, SourcesAssumption, FS_Subset
    <2>4. \A s \in S : Observation(seen[s])
      BY <2>2 DEF StoredOK
    <2>5. \A s \in S : seen[s] \in Block
      BY <2>2 DEF TypeOK
    <2>6. \A s \in S : seen[s] = [fields |-> seen[s].fields, txs |-> seen[s].txs]
      BY <2>5 DEF Block
    <2> QED
      BY <2>1, <2>3, <2>4, <2>6, VerdictOfAll
  <1> QED
    BY <1>1, SpecStoredOK, TypeCorrect, PTL
=============================================================================
