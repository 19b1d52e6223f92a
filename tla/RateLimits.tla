----------------------------- MODULE RateLimits -----------------------------
(***************************************************************************)
(* Rate limiting by counters in the database, one row for each key and     *)
(* window.  Two forms: the limiters of knowledge and of the blockchain API *)
(* (knowledge/rate-limiter.ts, blockchain-rate-limiter.ts) delete what has *)
(* expired, charge, and roll everything back when a limit is passed; the   *)
(* one of participation (participation/rate-limiter.ts) counts every       *)
(* attempt, notes an abuse signal and commits before it refuses.           *)
(*                                                                         *)
(* CURRENT_TIMESTAMP is the start of the transaction, call[c].at.  An      *)
(* upsert locks its row until the transaction ends.                        *)
(***************************************************************************)
EXTENDS Integers, Sequences, FiniteSets

CONSTANTS
  Calls,       \* calls of consume, each made once
  Strict,      \* those of knowledge and of the blockchain API
  Keys,        \* (action, scope, hash of the actor or the network)
  KeysOf,      \* the keys a call charges, in order
  Limit,       \* of a key, in one window
  Window,
  Retention,   \* how long a row is kept from the start of its window
  Stall,       \* bound on the duration of a transaction
  MaxTime      \* bound on the clock

ASSUME CallsAssumption ==
  /\ Strict \subseteq Calls
  /\ KeysOf \in [Calls -> Seq(Keys)]
  /\ Limit \in [Keys -> Nat]

\* The limiters have tables of their own.
ASSUME TablesAssumption ==
  \A c \in Strict, d \in Calls \ Strict :
    \A i \in 1 .. Len(KeysOf[c]), j \in 1 .. Len(KeysOf[d]) :
      KeysOf[c][i] # KeysOf[d][j]

\* A call charges a key once: keys of different scopes are different.
ASSUME ScopesAssumption ==
  \A c \in Calls : \A i, j \in 1 .. Len(KeysOf[c]) :
    KeysOf[c][i] = KeysOf[c][j] => i = j

\* The constructors check that the retention covers the window.  That it
\* also covers a transaction that is slow is left to the policy.
ASSUME TimesAssumption ==
  /\ Window \in Nat \ {0} /\ Retention \in Nat /\ Stall \in Nat /\ MaxTime \in Nat
  /\ Window <= Retention
  /\ Window + Stall <= Retention

VARIABLES
  now,
  count,       \* the counter of a row, 0 when there is no row
  passed,      \* calls the row has let through, for ever
  signals,     \* abuse_signals of the row
  call

limitVars == <<now, count, passed, signals, call>>

Rows == Keys \X (0 .. MaxTime)

\* floor(extract(epoch FROM CURRENT_TIMESTAMP) / window) * window
StartOf(t) == t - (t % Window)

CallAt(pc, t) == [pc |-> pc, at |-> t, step |-> 0, over |-> {}, gone |-> {}]

NoCall == CallAt("new", 0)

LimitInit ==
  /\ now = 0
  /\ count = [r \in Rows |-> 0]
  /\ passed = [r \in Rows |-> 0]
  /\ signals = [r \in Rows |-> 0]
  /\ call = [c \in Calls |-> NoCall]

-----------------------------------------------------------------------------
Open == {"open", "charging"}

Row(c, i) == <<KeysOf[c][i], StartOf(call[c].at)>>

\* Rows a call has inserted or updated, and not committed.
Charged(c) ==
  {r \in Rows : /\ call[c].pc \in Open
                /\ \E i \in 1 .. Len(KeysOf[c]) : i <= call[c].step /\ r = Row(c, i)}

\* Fault: the counter is read without its lock.
FreeAlways(c, r) == TRUE

\* No other call has the row charged or deleted.
Free(c, r) == \A d \in Calls \ {c} : r \notin Charged(d) \cup call[d].gone

Go(c, t) == call' = [call EXCEPT ![c] = t]

OpenCall(c) ==
  /\ call[c].pc = "new"
  /\ Go(c, CallAt(IF c \in Strict THEN "open" ELSE "charging", now))
  /\ UNCHANGED <<now, count, passed, signals>>

Expired(t) == {r \in Rows : r[2] + Retention < t}

StrictKeys == UNION {{KeysOf[c][i] : i \in 1 .. Len(KeysOf[c])} : c \in Strict}

\* The rows that have expired are deleted; the 1000 of the code are all.
Purge(c) ==
  LET gone == {r \in Expired(call[c].at) : r[1] \in StrictKeys /\ count[r] > 0}
  IN  /\ call[c].pc = "open"
      /\ \A r \in gone : Free(c, r)
      /\ Go(c, [call[c] EXCEPT !.pc = "charging", !.gone = gone])
      /\ UNCHANGED <<now, count, passed, signals>>

\* INSERT ... ON CONFLICT DO UPDATE SET count = count + 1 RETURNING count
Charge(c) ==
  LET r == Row(c, call[c].step + 1)
  IN  /\ call[c].pc = "charging"
      /\ call[c].step < Len(KeysOf[c])
      /\ c \in Strict => call[c].over = {}
      /\ Free(c, r)
      /\ Go(c, [call[c] EXCEPT
                 !.step = @ + 1,
                 !.over = @ \cup {q \in {r} : count[q] + 1 > Limit[q[1]]}])
      /\ UNCHANGED <<now, count, passed, signals>>

End(c, pc) == Go(c, CallAt(pc, 0))

\* A strict call that passes a limit throws inside the transaction.
RollBack(c) ==
  /\ c \in Strict
  /\ call[c].pc = "charging" /\ call[c].over # {}
  /\ End(c, "refused")
  /\ UNCHANGED <<now, count, passed, signals>>

\* An error of the database, or a crash.
Abort(c) ==
  /\ call[c].pc \in Open
  /\ End(c, "failed")
  /\ UNCHANGED <<now, count, passed, signals>>

Add(counts, rows) == [r \in Rows |-> counts[r] + IF r \in rows THEN 1 ELSE 0]

Commit(c) ==
  /\ call[c].pc = "charging" /\ call[c].step = Len(KeysOf[c])
  /\ c \in Strict => call[c].over = {}
  /\ count' = Add([r \in Rows |-> IF r \in call[c].gone THEN 0 ELSE count[r]],
                  Charged(c))
  /\ passed' = Add(passed, {r \in Charged(c) : call[c].over = {}})
  /\ signals' = Add(signals, call[c].over)
  /\ End(c, IF call[c].over = {} THEN "admitted" ELSE "refused")
  /\ UNCHANGED now

Tick ==
  /\ now < MaxTime
  /\ \A c \in Calls : call[c].pc \in Open => now < call[c].at + Stall
  /\ now' = now + 1
  /\ UNCHANGED <<count, passed, signals, call>>

LimitStep(c) ==
  OpenCall(c) \/ Purge(c) \/ Charge(c) \/ RollBack(c) \/ Abort(c) \/ Commit(c)

LimitNext == Tick \/ \E c \in Calls : LimitStep(c)

LimitSpec == LimitInit /\ [][LimitNext]_limitVars

-----------------------------------------------------------------------------
LimitTypeOK ==
  /\ now \in 0 .. MaxTime
  /\ \A f \in {count, passed, signals} : f \in [Rows -> Nat]
  /\ call \in [Calls -> [pc : Open \cup {"new", "admitted", "refused", "failed"},
                         at : 0 .. MaxTime, step : Nat,
                         over : SUBSET Rows, gone : SUBSET Rows]]

(***************************************************************************)
(* Whatever the calls do at the same time, however they fail, and although *)
(* rows are deleted: in no window does a key let more calls through than   *)
(* its limit, and where attempts are counted every attempt above the limit *)
(* has left its signal.                                                    *)
(***************************************************************************)
LimitsHold ==
  \A r \in Rows :
    /\ passed[r] <= Limit[r[1]]
    /\ r[1] \notin StrictKeys =>
         signals[r] = IF count[r] > Limit[r[1]] THEN count[r] - Limit[r[1]] ELSE 0
=============================================================================
