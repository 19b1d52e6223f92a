--------------------------- MODULE Sessions_proofs ---------------------------
(***************************************************************************)
(* Proofs about Sessions, for any identities, sessions, calls and times.   *)
(***************************************************************************)
EXTENDS Sessions, FiniteSetTheorems, TLAPS

\* With an identity FOR UPDATE, or a session.
Holding == {"locked", "trimmed"} \cup Authorized

OfSession == {"session"} \cup Authorized

\* What a call has at t.
Typed(t) ==
  /\ t.at \in {"issuing", "locked", "trimmed"} => t.identity \in Identities
  /\ t.at \in {"begun", "answered"} \cup OfSession =>
       t.identity \in Identities /\ t.session \in Sessions /\ t.mutation \in Mutation

\* What holds of a call that is at t.
CallOK(t) ==
  /\ Typed(t)
  /\ t.at \in Authorized /\ t.mutation.operation # "revoke_session" =>
       /\ session[t.session].state = "OPEN" /\ session[t.session].identity = t.identity
       /\ role[t.identity] = RoleFor(t.mutation.operation)
  /\ t.at = "checked" => receipt[KeyOf(t)] = None
  /\ t.at = "answered" => applied[<<t.identity, t.mutation>>] = 1
  /\ t.at = "trimmed" => Cardinality(Active(t.identity, t.age) \ t.excess) <= Kept

\* What the locks exclude.
Compatible(t, u) ==
  /\ ~(t.at \in Holding /\ u.at \in Holding /\ t.identity = u.identity)
  /\ ~(t.at \in OfSession /\ t.session \in u.old \cup u.excess)
  /\ ~(t.at \in OfSession /\ u.at \in OfSession /\ t.session = u.session)

\* A mutation has had its effect as often as its receipt says.
Receipts ==
  \A i \in Identities, m \in Mutation :
    applied[<<i, m>>] = IF receipt[<<i, m.operation, m.key>>] = m.request THEN 1 ELSE 0

IInv ==
  /\ TypeOK /\ Receipts /\ SessionsLimited
  /\ \A c \in Calls : CallOK(call[c])
  /\ \A c, d \in Calls : c # d => Compatible(call[c], call[d])

-----------------------------------------------------------------------------
LEMMA Idle ==
  /\ NoCall \in Call /\ CallOK(NoCall)
  /\ \A u : Compatible(NoCall, u) /\ Compatible(u, NoCall)
BY TimesAssumption DEF NoCall, Call, CallOK, Typed, Compatible, Holding, OfSession, Authorized

\* The active sessions are finitely many.
LEMMA ActiveFinite ==
  ASSUME NEW S, S \subseteq Sessions
  PROVE  IsFiniteSet(S) /\ Cardinality(S) \in Nat
BY SessionsAssumption, FS_Subset, FS_CardinalityType

LEMMA Smaller ==
  ASSUME NEW S, NEW T, S \subseteq T, T \subseteq Sessions, Cardinality(T) <= Kept
  PROVE  Cardinality(S) <= Kept
<1>1. IsFiniteSet(T) /\ Cardinality(T) \in Nat /\ Cardinality(S) \in Nat
  BY ActiveFinite
<1>2. Cardinality(S) <= Cardinality(T)
  BY <1>1, FS_Subset
<1> QED  BY <1>1, <1>2, TimesAssumption

LEMMA Initially == Init => IInv
<1> SUFFICES ASSUME Init PROVE IInv
  OBVIOUS
<1>1. NoSession \in Session
  BY TimesAssumption DEF NoSession, Session, Left
<1>2. TypeOK
  BY <1>1, Idle DEF Init, TypeOK
<1>3. Receipts
  BY NoneAssumption DEF Init, Receipts, Mutation
<1>4. SessionsLimited
  <2>1. ASSUME NEW i \in Identities
        PROVE  Active(i, 0) = {}
    BY DEF Init, Active, NoSession
  <2> QED  BY <2>1, FS_EmptySet, TimesAssumption DEF SessionsLimited
<1> QED  BY <1>2, <1>3, <1>4, Idle DEF Init, IInv

-----------------------------------------------------------------------------
\* A call goes on to t, and nothing else happens.
LEMMA CallStep ==
  ASSUME IInv, NEW c \in Calls, NEW t \in Call, CallOK(t),
         \A d \in Calls \ {c} : Compatible(t, call[d]) /\ Compatible(call[d], t),
         call' = [call EXCEPT ![c] = t],
         UNCHANGED <<role, session, receipt, applied>>
  PROVE  IInv'
<1>1. TypeOK'
  BY DEF IInv, TypeOK
<1>2. Receipts' /\ SessionsLimited'
  BY DEF IInv, Receipts, SessionsLimited, Active
<1>3. call'[c] = t /\ \A d \in Calls \ {c} : call'[d] = call[d]
  BY DEF IInv, TypeOK
<1>4. \A d \in Calls : CallOK(call'[d])
  BY <1>3 DEF IInv
<1>5. \A d \in Calls : CallOK(call[d])'
  BY <1>4 DEF CallOK, Typed, Active, KeyOf
<1>6. \A d, e \in Calls : d # e => Compatible(call[d], call[e])'
  <2>1. \A d, e \in Calls : d # e => Compatible(call'[d], call'[e])
    BY <1>3 DEF IInv
  <2> QED  BY <2>1 DEF Compatible
<1> QED  BY <1>1, <1>2, <1>5, <1>6 DEF IInv

LEMMA StopStep ==
  ASSUME IInv, NEW c \in Calls, Stop(c)
  PROVE  IInv'
BY Idle, CallStep DEF Stop, Go

LEMMA IssueStartStep ==
  ASSUME IInv, NEW c \in Calls, NEW i \in Identities, IssueStart(c, i)
  PROVE  IInv'
<1>1. PICK old \in SUBSET Sessions :
        /\ \A s \in old : SessionHolders(s) = {}
        /\ call' = [call EXCEPT ![c] =
                      [NoCall EXCEPT !.at = "issuing", !.identity = i, !.old = old]]
  BY DEF IssueStart, Purgeable, Go
<1>2. PICK t : t = [NoCall EXCEPT !.at = "issuing", !.identity = i, !.old = old]
  OBVIOUS
<1>3. /\ t \in Call /\ t.at = "issuing" /\ t.identity = i
      /\ t.old = old /\ t.excess = {}
  BY <1>2, Idle, TimesAssumption DEF NoCall, Call
<1>4. CallOK(t)
  BY <1>3 DEF CallOK, Typed, OfSession, Authorized
<1>5. \A d \in Calls \ {c} : Compatible(t, call[d]) /\ Compatible(call[d], t)
  BY <1>1, <1>3 DEF Compatible, Holding, OfSession, Authorized, SessionHolders
<1> QED  BY <1>1, <1>2, <1>3, <1>4, <1>5, CallStep DEF IssueStart

LEMMA IssueLockStep ==
  ASSUME IInv, NEW c \in Calls, IssueLock(c)
  PROVE  IInv'
<1>1. PICK u \in Call : u = call[c] /\ CallOK(u) /\ u.at = "issuing"
  BY DEF IInv, TypeOK, IssueLock
<1>2. PICK t : t = [u EXCEPT !.at = "locked"]
  OBVIOUS
<1>3. /\ t \in Call /\ t.at = "locked" /\ t.identity = u.identity
      /\ t.old = u.old /\ t.excess = u.excess
  BY <1>1, <1>2 DEF Call
<1>4. CallOK(t)
  BY <1>1, <1>3 DEF CallOK, Typed, OfSession, Authorized
<1>5. \A d \in Calls \ {c} : Compatible(t, call[d]) /\ Compatible(call[d], t)
  <2>1. ASSUME NEW d \in Calls \ {c}
        PROVE  Compatible(call[d], u) /\ ~(call[d].at \in Holding /\ call[d].identity = u.identity)
    BY <1>1 DEF IInv, IssueLock, IdentityHolders, Holding
  <2> QED  BY <1>3, <2>1 DEF Compatible, OfSession, Authorized
<1> QED  BY <1>1, <1>2, <1>3, <1>4, <1>5, CallStep DEF IssueLock, Go

LEMMA IssueTrimStep ==
  ASSUME IInv, NEW c \in Calls, IssueTrim(c)
  PROVE  IInv'
<1>1. PICK u \in Call : u = call[c] /\ CallOK(u) /\ u.at = "locked"
  BY DEF IInv, TypeOK, IssueTrim
<1>2. PICK stay \in SUBSET Active(u.identity, u.age) :
        /\ Cardinality(stay) <= Kept
        /\ \A s \in Active(u.identity, u.age) \ stay : SessionHolders(s) \subseteq {c}
        /\ call' = [call EXCEPT ![c] =
             [u EXCEPT !.at = "trimmed", !.excess = Active(u.identity, u.age) \ stay]]
  BY <1>1 DEF IssueTrim, AreNewest, Go
<1>3. PICK excess \in SUBSET Sessions : excess = Active(u.identity, u.age) \ stay
  BY DEF Active
<1>4. PICK t : t = [u EXCEPT !.at = "trimmed", !.excess = excess]
  OBVIOUS
<1>5. /\ t \in Call /\ t.at = "trimmed" /\ t.identity = u.identity /\ t.age = u.age
      /\ t.old = u.old /\ t.excess = excess
  BY <1>1, <1>4 DEF Call
<1>6. CallOK(t)
  <2>1. Active(t.identity, t.age) \ t.excess = stay
    BY <1>2, <1>3, <1>5
  <2> QED  BY <1>1, <1>2, <1>5, <2>1 DEF CallOK, Typed, OfSession, Authorized
<1>7. \A d \in Calls \ {c} : Compatible(t, call[d]) /\ Compatible(call[d], t)
  <2>1. ASSUME NEW d \in Calls \ {c}
        PROVE  /\ Compatible(call[d], u) /\ Compatible(u, call[d])
               /\ ~(call[d].at \in OfSession /\ call[d].session \in excess)
    BY <1>1, <1>2, <1>3 DEF IInv, SessionHolders, OfSession
  <2> QED  BY <1>1, <1>5, <2>1 DEF Compatible, OfSession, Holding, Authorized
<1> QED  BY <1>2, <1>3, <1>4, <1>5, <1>6, <1>7, CallStep DEF IssueTrim

LEMMA AuthenticateStep ==
  ASSUME IInv, NEW c \in Calls, NEW i \in Identities, NEW s \in Sessions, NEW m \in Asked,
         Authenticate(c, i, s, m)
  PROVE  IInv'
<1>1. m \in Mutation
  BY AskedAssumption
<1>2. PICK t : t = [NoCall EXCEPT !.at = "begun", !.identity = i, !.session = s, !.mutation = m]
  OBVIOUS
<1>3. /\ t \in Call /\ t.at = "begun" /\ t.identity = i /\ t.session = s
      /\ t.mutation = m /\ t.old = {} /\ t.excess = {}
  BY <1>1, <1>2, Idle, TimesAssumption DEF NoCall, Call
<1>4. CallOK(t)
  BY <1>1, <1>3 DEF CallOK, Typed, OfSession, Authorized
<1>5. \A u : Compatible(t, u) /\ Compatible(u, t)
  BY <1>3 DEF Compatible, Holding, OfSession, Authorized
<1>6. call' = [call EXCEPT ![c] = t]
  BY <1>2 DEF Authenticate, Go
<1> QED  BY <1>3, <1>4, <1>5, <1>6, CallStep DEF Authenticate

LEMMA LockSessionStep ==
  ASSUME IInv, NEW c \in Calls, LockSession(c)
  PROVE  IInv'
<1>1. PICK u \in Call : u = call[c] /\ CallOK(u) /\ u.at = "begun"
  BY DEF IInv, TypeOK, LockSession
<1>2. PICK t : t = [u EXCEPT !.at = "session"]
  OBVIOUS
<1>3. /\ t \in Call /\ t.at = "session" /\ t.identity = u.identity /\ t.session = u.session
      /\ t.mutation = u.mutation /\ t.old = u.old /\ t.excess = u.excess
  BY <1>1, <1>2 DEF Call
<1>4. CallOK(t)
  BY <1>1, <1>3 DEF CallOK, Typed, OfSession, Authorized
<1>5. \A d \in Calls \ {c} : Compatible(t, call[d]) /\ Compatible(call[d], t)
  <2>1. ASSUME NEW d \in Calls \ {c}
        PROVE  /\ Compatible(call[d], u)
               /\ ~(call[d].at \in OfSession /\ call[d].session = u.session)
               /\ u.session \notin call[d].old \cup call[d].excess
    BY <1>1 DEF IInv, LockSession, SessionHolders, OfSession
  <2> QED  BY <1>3, <2>1 DEF Compatible, Holding, Authorized
<1> QED  BY <1>1, <1>2, <1>3, <1>4, <1>5, CallStep DEF LockSession, Go

LEMMA LockIdentityStep ==
  ASSUME IInv, NEW c \in Calls, LockIdentity(c)
  PROVE  IInv'
<1>1. PICK u \in Call : u = call[c] /\ CallOK(u) /\ u.at = "session" /\ Matches(u)
  BY DEF IInv, TypeOK, LockIdentity
<1>2. PICK t : t = [u EXCEPT !.at = "authorized"]
  OBVIOUS
<1>3. /\ t \in Call /\ t.at = "authorized" /\ t.identity = u.identity /\ t.session = u.session
      /\ t.mutation = u.mutation /\ t.old = u.old /\ t.excess = u.excess
  BY <1>1, <1>2 DEF Call, Authorized
<1>4. CallOK(t)
  BY <1>1, <1>3 DEF CallOK, Typed, OfSession, Authorized, Matches, Live, Active
<1>5. \A d \in Calls \ {c} : Compatible(t, call[d]) /\ Compatible(call[d], t)
  <2>1. ASSUME NEW d \in Calls \ {c}
        PROVE  /\ Compatible(call[d], u) /\ Compatible(u, call[d])
               /\ ~(call[d].at \in Holding /\ call[d].identity = u.identity)
    BY <1>1 DEF IInv, LockIdentity, IdentityHolders, Holding
  <2> QED  BY <1>1, <1>3, <2>1 DEF Compatible, Holding, OfSession, Authorized
<1> QED  BY <1>1, <1>2, <1>3, <1>4, <1>5, CallStep DEF LockIdentity, Go

\* The receipt of the request shows that it has had its effect.
LEMMA ReplayStep ==
  ASSUME IInv, NEW c \in Calls, Replay(c)
  PROVE  IInv'
<1>1. PICK u \in Call : u = call[c] /\ CallOK(u) /\ u.at = "authorized" /\ SameRequest(u)
  BY DEF IInv, TypeOK, Replay
<1>2. PICK t : t = [u EXCEPT !.at = "answered"]
  OBVIOUS
<1>3. /\ t \in Call /\ t.at = "answered" /\ t.identity = u.identity /\ t.session = u.session
      /\ t.mutation = u.mutation /\ t.old = u.old /\ t.excess = u.excess
  BY <1>1, <1>2 DEF Call
<1>4. u.identity \in Identities /\ u.session \in Sessions /\ u.mutation \in Mutation
  BY <1>1 DEF CallOK, Typed, OfSession, Authorized
<1>5. applied[<<u.identity, u.mutation>>] = 1
  BY <1>1, <1>4 DEF IInv, Receipts, SameRequest, KeyOf
<1>6. CallOK(t)
  BY <1>3, <1>4, <1>5 DEF CallOK, Typed, OfSession, Authorized
<1>7. \A d \in Calls \ {c} : Compatible(t, call[d]) /\ Compatible(call[d], t)
  <2>1. ASSUME NEW d \in Calls \ {c}
        PROVE  Compatible(call[d], u)
    BY <1>1 DEF IInv
  <2> QED  BY <1>3, <2>1 DEF Compatible, Holding, OfSession, Authorized
<1> QED  BY <1>1, <1>2, <1>3, <1>6, <1>7, CallStep DEF Replay, Go

LEMMA CheckStep ==
  ASSUME IInv, NEW c \in Calls, Check(c)
  PROVE  IInv'
<1>1. PICK u \in Call : u = call[c] /\ CallOK(u) /\ u.at = "authorized"
  BY DEF IInv, TypeOK, Check
<1>2. PICK t : t = [u EXCEPT !.at = "checked"]
  OBVIOUS
<1>3. /\ t \in Call /\ t.at = "checked" /\ t.identity = u.identity /\ t.session = u.session
      /\ t.mutation = u.mutation /\ t.old = u.old /\ t.excess = u.excess
  BY <1>1, <1>2 DEF Call, Authorized
<1>4. CallOK(t)
  BY <1>1, <1>3 DEF CallOK, Typed, OfSession, Authorized, Check, KeyOf
<1>5. \A d \in Calls \ {c} : Compatible(t, call[d]) /\ Compatible(call[d], t)
  <2>1. ASSUME NEW d \in Calls \ {c}
        PROVE  Compatible(call[d], u) /\ Compatible(u, call[d])
    BY <1>1 DEF IInv
  <2> QED  BY <1>1, <1>3, <2>1 DEF Compatible, Holding, OfSession, Authorized
<1> QED  BY <1>1, <1>2, <1>3, <1>4, <1>5, CallStep DEF Check, Go

-----------------------------------------------------------------------------
\* Where no session opens and the others stay as they are or are shut, no limit is
\* exceeded.
LEMMA ShutSessions ==
  ASSUME IInv, NEW i \in Identities,
         \A x \in Sessions : session'[x].state = "OPEN" /\ session'[x].identity = i =>
                             session'[x] = session[x]
  PROVE  /\ \A n : Active(i, n)' \subseteq Active(i, n)
         /\ Cardinality(Active(i, 0)') <= Kept + 1
<1>1. \A n : Active(i, n)' \subseteq Active(i, n)
  BY DEF Active
<1>2. Active(i, 0)' \subseteq Active(i, 0) /\ Active(i, 0) \subseteq Sessions
  BY <1>1 DEF Active
<1>3. IsFiniteSet(Active(i, 0)) /\ Cardinality(Active(i, 0)) \in Nat
      /\ Cardinality(Active(i, 0)') \in Nat
  BY <1>2, ActiveFinite
<1>4. Cardinality(Active(i, 0)') <= Cardinality(Active(i, 0))
  BY <1>2, <1>3, FS_Subset
<1> QED  BY <1>1, <1>3, <1>4, TimesAssumption DEF IInv, SessionsLimited

\* A call after a step, by what the step has made of the tables.
LEMMA CallAfter ==
  ASSUME NEW d \in Calls, NEW t, Typed(t), call'[d] = t,
         t.at \in Authorized /\ t.mutation.operation # "revoke_session" =>
           /\ session'[t.session].state = "OPEN" /\ session'[t.session].identity = t.identity
           /\ role'[t.identity] = RoleFor(t.mutation.operation),
         t.at = "checked" => receipt'[KeyOf(t)] = None,
         t.at = "answered" => applied'[<<t.identity, t.mutation>>] = 1,
         t.at = "trimmed" => Cardinality(Active(t.identity, t.age)' \ t.excess) <= Kept
  PROVE  CallOK(call[d])'
<1>1. Active(call[d].identity, call[d].age)' = Active(t.identity, t.age)'
  BY DEF Active
<1>2. t.at = "trimmed" =>
        Cardinality(Active(call[d].identity, call[d].age)' \ t.excess) <= Kept
  BY <1>1
<1> QED  BY <1>2 DEF CallOK, Typed, KeyOf

LEMMA Inserted ==
  ASSUME IInv, NEW c \in Calls, NEW s \in Sessions, NEW a \in Ages, IssueEnd(c, s, a)
  PROVE  \E u \in Call, new \in Session :
           /\ u = call[c] /\ CallOK(u) /\ u.at = "trimmed" /\ u.identity \in Identities
           /\ new.identity = u.identity
           /\ session[s].state = "ABSENT"
           /\ session' \in [Sessions -> Session] /\ session'[s] = new
           /\ \A x \in Sessions \ {s} :
                /\ session'[x].state = "OPEN" => session'[x] = session[x] /\ x \notin u.excess
                /\ x \notin u.old \cup u.excess => session'[x] = session[x]
<1>1. PICK u \in Call : u = call[c] /\ CallOK(u) /\ u.at = "trimmed"
  BY DEF IInv, TypeOK, IssueEnd
<1>2. u.identity \in Identities /\ u.age \in 0 .. MaxAge
  BY <1>1 DEF CallOK, Typed, Call
<1>3. Clip(Life - a - u.age) \in Left
  BY <1>2, TimesAssumption DEF IssueEnd, MayIssue, Clip, Left
<1>4. PICK new \in Session :
        new = [state |-> "OPEN", identity |-> u.identity, left |-> Clip(Life - a - u.age)]
  BY <1>2, <1>3 DEF Session
<1>5. session' = [x \in Sessions |->
                   IF x = s THEN new
                   ELSE IF x \in u.old THEN Purged
                   ELSE IF x \in u.excess THEN [session[x] EXCEPT !.state = "REVOKED"]
                   ELSE session[x]]
  BY <1>1, <1>4 DEF IssueEnd
<1>6. Purged \in Session /\ Purged.state = "PURGED"
  BY TimesAssumption DEF Purged, NoSession, Session, Left
<1>7. ASSUME NEW x \in Sessions
      PROVE  /\ [session[x] EXCEPT !.state = "REVOKED"] \in Session
             /\ [session[x] EXCEPT !.state = "REVOKED"].state = "REVOKED"
  BY DEF IInv, TypeOK, Session
<1>8. session' \in [Sessions -> Session]
  <2>1. \A x \in Sessions : session[x] \in Session
    BY DEF IInv, TypeOK
  <2> QED  BY <1>5, <1>6, <1>7, <2>1
<1>9. session[s].state = "ABSENT"
  BY DEF IssueEnd, NoSession
<1> QED  BY <1>1, <1>2, <1>4, <1>5, <1>6, <1>7, <1>8, <1>9

LEMMA IssueEndStep ==
  ASSUME IInv, NEW c \in Calls, NEW s \in Sessions, NEW a \in Ages, IssueEnd(c, s, a)
  PROVE  IInv'
<1>1. PICK u \in Call, new \in Session :
           /\ u = call[c] /\ CallOK(u) /\ u.at = "trimmed" /\ u.identity \in Identities
           /\ new.identity = u.identity
           /\ session[s].state = "ABSENT"
           /\ session' \in [Sessions -> Session] /\ session'[s] = new
           /\ \A x \in Sessions \ {s} :
                /\ session'[x].state = "OPEN" => session'[x] = session[x] /\ x \notin u.excess
                /\ x \notin u.old \cup u.excess => session'[x] = session[x]
  BY Inserted
<1>2. /\ call' \in [Calls -> Call] /\ call'[c] = NoCall
      /\ \A d \in Calls \ {c} : call'[d] = call[d]
  BY Idle DEF IInv, TypeOK, IssueEnd, Go
<1>3. TypeOK'
  BY <1>1, <1>2 DEF IInv, TypeOK, IssueEnd
<1>4. Receipts'
  BY DEF IInv, Receipts, IssueEnd
<1>5. ASSUME NEW i \in Identities, i # u.identity
      PROVE  /\ \A n : Active(i, n)' \subseteq Active(i, n)
             /\ Cardinality(Active(i, 0)') <= Kept + 1
  BY <1>1, <1>5, ShutSessions
<1>6. Cardinality(Active(u.identity, 0)') <= Kept + 1
  <2>1. PICK stay : stay = Active(u.identity, u.age) \ u.excess
    OBVIOUS
  <2>2. Active(u.identity, 0)' \subseteq stay \cup {s}
    <3>1. \A x \in Sessions : session[x].left \in Int /\ u.age \in Nat
      BY <1>1 DEF IInv, TypeOK, Session, Left, Call
    <3> QED  BY <1>1, <2>1, <3>1 DEF Active
  <2>3. IsFiniteSet(stay) /\ Cardinality(stay) \in Nat /\ Cardinality(stay) <= Kept
    BY <1>1, <2>1, ActiveFinite DEF Active, CallOK, Typed
  <2>4. IsFiniteSet(stay \cup {s}) /\ Cardinality(stay \cup {s}) <= Kept + 1
    <3>1. /\ IsFiniteSet(stay \cup {s})
          /\ \/ Cardinality(stay \cup {s}) = Cardinality(stay)
             \/ Cardinality(stay \cup {s}) = Cardinality(stay) + 1
      <4>1. CASE s \in stay
        <5>1. stay \cup {s} = stay
          BY <4>1
        <5> QED  BY <2>3, <5>1
      <4>2. CASE s \notin stay
        BY <2>3, <4>2, FS_AddElement
      <4> QED  BY <4>1, <4>2
    <3> QED  BY <2>3, <3>1, TimesAssumption
  <2>5. /\ Cardinality(Active(u.identity, 0)') \in Nat /\ Cardinality(stay \cup {s}) \in Nat
        /\ Cardinality(Active(u.identity, 0)') <= Cardinality(stay \cup {s})
    BY <2>2, <2>4, FS_Subset, FS_CardinalityType
  <2> QED  BY <2>4, <2>5, TimesAssumption
<1>7. SessionsLimited'
  BY <1>5, <1>6 DEF SessionsLimited
<1>8. ASSUME NEW d \in Calls \ {c}
      PROVE  CallOK(call[d])'
  <2>1. PICK t \in Call : t = call[d] /\ CallOK(t) /\ call'[d] = t
    BY <1>2 DEF IInv, TypeOK
  <2>2. Compatible(t, u)
    BY <1>1, <2>1 DEF IInv
  <2>3. ASSUME t.at \in Authorized, t.mutation.operation # "revoke_session"
        PROVE  session'[t.session] = session[t.session]
    <3>1. t.session \in Sessions /\ session[t.session].state = "OPEN"
      BY <2>1, <2>3 DEF CallOK, Typed, OfSession
    <3>2. t.session # s /\ t.session \notin u.old \cup u.excess
      BY <1>1, <2>2, <2>3, <3>1 DEF Compatible, OfSession
    <3> QED  BY <1>1, <3>1, <3>2
  <2>4. ASSUME t.at = "trimmed"
        PROVE  Cardinality(Active(t.identity, t.age)' \ t.excess) <= Kept
    <3>1. t.identity \in Identities /\ t.identity # u.identity
      BY <1>1, <2>1, <2>2, <2>4 DEF CallOK, Typed, Compatible, Holding
    <3>2. /\ Active(t.identity, t.age)' \ t.excess \subseteq Active(t.identity, t.age) \ t.excess
          /\ Active(t.identity, t.age) \ t.excess \subseteq Sessions
      BY <1>5, <3>1 DEF Active
    <3> QED  BY <2>1, <2>4, <3>2, Smaller DEF CallOK, Typed
  <2>5. t.at \in Authorized /\ t.mutation.operation # "revoke_session" =>
          /\ session'[t.session].state = "OPEN" /\ session'[t.session].identity = t.identity
          /\ role'[t.identity] = RoleFor(t.mutation.operation)
    BY <2>1, <2>3 DEF CallOK, Typed, IssueEnd
  <2>6. /\ t.at = "checked" => receipt'[KeyOf(t)] = None
        /\ t.at = "answered" => applied'[<<t.identity, t.mutation>>] = 1
    BY <2>1 DEF CallOK, Typed, IssueEnd
  <2> QED  BY <2>1, <2>4, <2>5, <2>6, CallAfter DEF CallOK
<1>9. CallOK(call[c])'
  BY <1>2 DEF NoCall, CallOK, Typed, OfSession, Authorized
<1>10. \A d, e \in Calls : d # e => Compatible(call[d], call[e])'
  <2>1. \A d, e \in Calls : d # e => Compatible(call'[d], call'[e])
    BY <1>2, Idle DEF IInv
  <2> QED  BY <2>1 DEF Compatible
<1> QED  BY <1>3, <1>4, <1>7, <1>8, <1>9, <1>10 DEF IInv

-----------------------------------------------------------------------------
LEMMA ApplyStep ==
  ASSUME IInv, NEW c \in Calls, Apply(c)
  PROVE  IInv'
<1>1. PICK u \in Call : u = call[c] /\ CallOK(u) /\ u.at = "checked"
  BY DEF IInv, TypeOK, Apply
<1>2. PICK i \in Identities, m \in Mutation : i = u.identity /\ m = u.mutation
  BY <1>1 DEF CallOK, Typed, OfSession, Authorized
<1>3. u.session \in Sessions /\ receipt[<<i, m.operation, m.key>>] = None
  BY <1>1, <1>2 DEF CallOK, Typed, OfSession, Authorized, KeyOf
<1>4. m.operation \in Operations /\ m.key \in Keys /\ m.request \in Contents \cup Sessions
  BY DEF Mutation
<1>5. applied[<<i, m>>] = 0
  <2>1. m.request # None
    BY <1>4, NoneAssumption
  <2> QED  BY <1>3, <2>1 DEF IInv, Receipts
<1>6. /\ receipt' = [receipt EXCEPT ![<<i, m.operation, m.key>>] = m.request]
      /\ applied' = [applied EXCEPT ![<<i, m>>] = 1]
      /\ role' = role
  BY <1>1, <1>2, <1>5 DEF Apply, KeyOf
<1>7. /\ session' \in [Sessions -> Session]
      /\ \A x \in Sessions \ {u.session} : session'[x] = session[x]
      /\ session'[u.session] # session[u.session] => session'[u.session].state = "REVOKED"
  <2>1. /\ [session[u.session] EXCEPT !.state = "REVOKED"] \in Session
        /\ [session[u.session] EXCEPT !.state = "REVOKED"].state = "REVOKED"
    BY <1>3 DEF IInv, TypeOK, Session
  <2>2. PICK r \in Session :
          r = [session[u.session] EXCEPT !.state = "REVOKED"] /\ r.state = "REVOKED"
    BY <2>1
  <2>3. session' = session \/ session' = [session EXCEPT ![u.session] = r]
    BY <1>1, <2>2 DEF Apply
  <2> QED  BY <1>3, <2>2, <2>3 DEF IInv, TypeOK
<1>8. PICK t : t = [u EXCEPT !.at = "answered"]
  OBVIOUS
<1>9. /\ t \in Call /\ t.at = "answered" /\ t.identity = u.identity /\ t.session = u.session
      /\ t.mutation = u.mutation /\ t.old = u.old /\ t.excess = u.excess
  BY <1>1, <1>8 DEF Call
<1>10. /\ call' \in [Calls -> Call] /\ call'[c] = t
       /\ \A d \in Calls \ {c} : call'[d] = call[d]
  BY <1>1, <1>8, <1>9 DEF IInv, TypeOK, Apply, Go
<1>11. TypeOK'
  BY <1>4, <1>6, <1>7, <1>10 DEF IInv, TypeOK
<1>12. \A j \in Identities, n \in Mutation :
         applied[<<j, n>>] = 1 \/ <<j, n>> = <<i, m>> => applied'[<<j, n>>] = 1
  BY <1>6 DEF IInv, TypeOK
<1>13. Receipts'
  <2>1. ASSUME NEW j \in Identities, NEW n \in Mutation
        PROVE  applied'[<<j, n>>] =
                 IF receipt'[<<j, n.operation, n.key>>] = n.request THEN 1 ELSE 0
    <3>1. n.operation \in Operations /\ n.key \in Keys /\ n.request \in Contents \cup Sessions
      BY DEF Mutation
    <3>2. n.request # None
      BY <3>1, NoneAssumption
    <3>3. applied[<<j, n>>] =
            IF receipt[<<j, n.operation, n.key>>] = n.request THEN 1 ELSE 0
      BY DEF IInv, Receipts
    <3>4. CASE j = i /\ n = m
      BY <1>4, <1>6, <3>4 DEF IInv, TypeOK
    <3>5. CASE j = i /\ n # m /\ n.operation = m.operation /\ n.key = m.key
      <4>1. n.request # m.request
        BY <3>5 DEF Mutation
      <4>2. receipt'[<<j, n.operation, n.key>>] = m.request
        BY <1>4, <1>6, <3>5 DEF IInv, TypeOK
      <4>3. applied'[<<j, n>>] = applied[<<j, n>>]
        BY <1>6, <3>5 DEF IInv, TypeOK
      <4> QED  BY <1>3, <3>2, <3>3, <3>5, <4>1, <4>2, <4>3
    <3>6. CASE ~(j = i /\ n.operation = m.operation /\ n.key = m.key)
      <4>1. receipt'[<<j, n.operation, n.key>>] = receipt[<<j, n.operation, n.key>>]
        BY <1>4, <1>6, <3>1, <3>6 DEF IInv, TypeOK
      <4>2. applied'[<<j, n>>] = applied[<<j, n>>]
        BY <1>6, <3>6 DEF IInv, TypeOK
      <4> QED  BY <3>3, <4>1, <4>2
    <3> QED  BY <3>4, <3>5, <3>6
  <2> QED  BY <2>1 DEF Receipts
<1>14. ASSUME NEW j \in Identities
       PROVE  /\ \A n : Active(j, n)' \subseteq Active(j, n)
              /\ Cardinality(Active(j, 0)') <= Kept + 1
  <2>1. \A x \in Sessions : session'[x].state = "OPEN" => session'[x] = session[x]
    BY <1>7
  <2> QED  BY <2>1, ShutSessions
<1>15. SessionsLimited'
  BY <1>14 DEF SessionsLimited
<1>16. ASSUME NEW d \in Calls \ {c}
       PROVE  CallOK(call[d])'
  <2>1. PICK w \in Call : w = call[d] /\ CallOK(w) /\ call'[d] = w
    BY <1>10 DEF IInv, TypeOK
  <2>2. Compatible(w, u)
    BY <1>1, <2>1 DEF IInv
  <2>3. w.at \in Authorized /\ w.mutation.operation # "revoke_session" =>
          /\ session'[w.session].state = "OPEN" /\ session'[w.session].identity = w.identity
          /\ role'[w.identity] = RoleFor(w.mutation.operation)
    BY <1>1, <1>6, <1>7, <2>1, <2>2 DEF CallOK, Typed, Compatible, OfSession, Authorized
  <2>4. w.at = "checked" => receipt'[KeyOf(w)] = None
    BY <1>1, <1>2, <1>6, <2>1, <2>2
    DEF CallOK, Typed, Compatible, Holding, Authorized, KeyOf, IInv, TypeOK
  <2>5. w.at = "answered" => applied'[<<w.identity, w.mutation>>] = 1
    BY <1>12, <2>1 DEF CallOK, Typed
  <2>6. w.at = "trimmed" => Cardinality(Active(w.identity, w.age)' \ w.excess) <= Kept
    <3>1. SUFFICES ASSUME w.at = "trimmed"
                   PROVE  Cardinality(Active(w.identity, w.age)' \ w.excess) <= Kept
      OBVIOUS
    <3>2. w.identity \in Identities
      BY <2>1, <3>1 DEF CallOK, Typed
    <3>3. /\ Active(w.identity, w.age)' \ w.excess \subseteq Active(w.identity, w.age) \ w.excess
          /\ Active(w.identity, w.age) \ w.excess \subseteq Sessions
      BY <1>14, <3>2 DEF Active
    <3> QED  BY <2>1, <3>1, <3>3, Smaller DEF CallOK
  <2> QED  BY <2>1, <2>3, <2>4, <2>5, <2>6, CallAfter DEF CallOK
<1>17. CallOK(call[c])'
  <2>1. Typed(t)
    BY <1>1, <1>9 DEF CallOK, Typed, OfSession, Authorized
  <2>2. applied'[<<t.identity, t.mutation>>] = 1
    BY <1>2, <1>9, <1>12
  <2> QED  BY <1>9, <1>10, <2>1, <2>2, CallAfter DEF Authorized
<1>18. \A d, e \in Calls : d # e => Compatible(call[d], call[e])'
  <2>1. \A d \in Calls \ {c} : Compatible(t, call[d]) /\ Compatible(call[d], t)
    <3>1. \A d \in Calls \ {c} : Compatible(call[d], u)
      BY <1>1 DEF IInv
    <3> QED  BY <1>9, <3>1 DEF Compatible, Holding, OfSession, Authorized
  <2>2. \A d, e \in Calls : d # e => Compatible(call'[d], call'[e])
    BY <1>10, <2>1 DEF IInv
  <2> QED  BY <2>2 DEF Compatible
<1> QED  BY <1>11, <1>13, <1>15, <1>16, <1>17, <1>18 DEF IInv

\* Nobody who relies on the identity's role holds it.
LEMMA ProvisionStep ==
  ASSUME IInv, NEW i \in Identities, Provision(i)
  PROVE  IInv'
<1>1. TypeOK'
  BY DEF IInv, TypeOK, Provision
<1>2. Receipts' /\ SessionsLimited'
  BY DEF IInv, Receipts, SessionsLimited, Active, Provision
<1>3. ASSUME NEW d \in Calls
      PROVE  CallOK(call[d])'
  <2>1. PICK t \in Call : t = call[d] /\ CallOK(t) /\ call'[d] = t
    BY DEF IInv, TypeOK, Provision
  <2>2. t.at \in Authorized => t.identity \in Identities /\ t.identity # i
    BY <2>1 DEF Provision, IdentityHolders, CallOK, Typed, OfSession
  <2>3. t.at \in Authorized /\ t.mutation.operation # "revoke_session" =>
          /\ session'[t.session].state = "OPEN" /\ session'[t.session].identity = t.identity
          /\ role'[t.identity] = RoleFor(t.mutation.operation)
    BY <2>1, <2>2 DEF CallOK, Provision, IInv, TypeOK
  <2>4. Active(t.identity, t.age)' = Active(t.identity, t.age)
    BY DEF Active, Provision
  <2>5. /\ t.at = "checked" => receipt'[KeyOf(t)] = None
        /\ t.at = "answered" => applied'[<<t.identity, t.mutation>>] = 1
        /\ t.at = "trimmed" => Cardinality(Active(t.identity, t.age)' \ t.excess) <= Kept
    BY <2>1, <2>4 DEF CallOK, Provision
  <2> QED  BY <2>1, <2>3, <2>5, CallAfter DEF CallOK
<1>4. \A d, e \in Calls : d # e => Compatible(call[d], call[e])'
  BY DEF IInv, Compatible, Provision
<1> QED  BY <1>1, <1>2, <1>3, <1>4 DEF IInv

\* What has ended at a time stays ended, and a transaction keeps its time.
LEMMA TickStep ==
  ASSUME IInv, Tick
  PROVE  IInv'
<1>1. \A s \in Sessions : session[s] \in Session /\ session[s].left \in Left
  BY DEF IInv, TypeOK, Session
<1>2. /\ session' \in [Sessions -> Session]
      /\ \A s \in Sessions : /\ session'[s].state = session[s].state
                             /\ session'[s].identity = session[s].identity
                             /\ session'[s].left = Clip(session[s].left - 1)
  <2>1. \A n \in Left : Clip(n - 1) \in Left
    BY TimesAssumption DEF Clip, Left
  <2>2. ASSUME NEW s \in Sessions
        PROVE  /\ session'[s] \in Session
               /\ session'[s].state = session[s].state
               /\ session'[s].identity = session[s].identity
               /\ session'[s].left = Clip(session[s].left - 1)
    <3>1. PICK n \in Left : n = Clip(session[s].left - 1)
      BY <1>1, <2>1
    <3>2. session'[s] = [session[s] EXCEPT !.left = n]
      BY <3>1 DEF Tick
    <3> QED  BY <1>1, <3>1, <3>2 DEF Session
  <2>3. session' = [s \in Sessions |-> session'[s]]
    BY DEF Tick
  <2> QED  BY <2>2, <2>3
<1>3. \A d \in Calls : /\ call'[d] \in Call
                       /\ \/ call'[d] = call[d] /\ ~InTransaction(call[d])
                          \/ /\ call'[d] = [call[d] EXCEPT !.age = call[d].age + 1]
                             /\ call[d].age + 1 \in 0 .. MaxAge
  <2>1. ASSUME NEW d \in Calls, ~InTransaction(call[d])
        PROVE  call'[d] \in Call /\ call'[d] = call[d]
    BY <2>1 DEF IInv, TypeOK, Tick
  <2>2. ASSUME NEW d \in Calls, InTransaction(call[d])
        PROVE  /\ call'[d] \in Call /\ call[d].age + 1 \in 0 .. MaxAge
               /\ call'[d] = [call[d] EXCEPT !.age = call[d].age + 1]
    <3>1. PICK t \in Call : t = call[d] /\ t.age \in 0 .. MaxAge
      BY DEF IInv, TypeOK, Call
    <3>2. PICK n \in 0 .. MaxAge : n = t.age + 1
      BY <2>2, <3>1, TimesAssumption DEF Tick
    <3>3. call'[d] = [t EXCEPT !.age = n]
      BY <2>2, <3>1, <3>2 DEF Tick
    <3> QED  BY <3>1, <3>2, <3>3 DEF Call
  <2> QED  BY <2>1, <2>2
<1>4. \A d \in Calls : /\ call'[d].at = call[d].at /\ call'[d].identity = call[d].identity
                       /\ call'[d].session = call[d].session
                       /\ call'[d].mutation = call[d].mutation
                       /\ call'[d].old = call[d].old /\ call'[d].excess = call[d].excess
  <2>1. \A d \in Calls : call[d] \in Call
    BY DEF IInv, TypeOK
  <2> QED  BY <1>3, <2>1 DEF Call
<1>5. TypeOK'
  <2>1. call' = [d \in Calls |-> call'[d]]
    BY DEF Tick
  <2>2. call' \in [Calls -> Call]
    BY <1>3, <2>1
  <2> QED  BY <1>2, <2>2 DEF IInv, TypeOK, Tick
<1>6. Receipts'
  BY DEF IInv, Receipts, Tick
<1>7. ASSUME NEW i
      PROVE  /\ Active(i, 0)' \subseteq Active(i, 0)
             /\ \A n \in 0 .. MaxAge : n + 1 \in 0 .. MaxAge => Active(i, n + 1)' \subseteq Active(i, n)
  BY <1>1, <1>2, TimesAssumption DEF Active, Clip, Left
<1>8. SessionsLimited'
  <2>1. ASSUME NEW i \in Identities
        PROVE  Cardinality(Active(i, 0)') <= Kept + 1
    <3>1. /\ IsFiniteSet(Active(i, 0)) /\ Cardinality(Active(i, 0)) \in Nat
          /\ Active(i, 0)' \subseteq Active(i, 0)
          /\ Cardinality(Active(i, 0)') \in Nat
      BY <1>7, ActiveFinite DEF Active
    <3>2. Cardinality(Active(i, 0)') <= Cardinality(Active(i, 0))
      BY <3>1, FS_Subset
    <3> QED  BY <3>1, <3>2, TimesAssumption DEF IInv, SessionsLimited
  <2> QED  BY <2>1 DEF SessionsLimited
<1>9. ASSUME NEW d \in Calls
      PROVE  CallOK(call[d])'
  <2>1. PICK u \in Call : u = call[d] /\ CallOK(u)
    BY DEF IInv, TypeOK
  <2>2. PICK t \in Call : t = call'[d]
    BY <1>3
  <2>3. /\ t.at = u.at /\ t.identity = u.identity /\ t.session = u.session
        /\ t.mutation = u.mutation /\ t.excess = u.excess
    BY <1>4, <2>1, <2>2
  <2>4. Typed(t)
    BY <2>1, <2>3 DEF CallOK, Typed
  <2>5. t.at \in Authorized /\ t.mutation.operation # "revoke_session" =>
          /\ session'[t.session].state = "OPEN" /\ session'[t.session].identity = t.identity
          /\ role'[t.identity] = RoleFor(t.mutation.operation)
    BY <1>2, <2>1, <2>3, <2>4 DEF CallOK, Typed, OfSession, Tick
  <2>6. /\ t.at = "checked" => receipt'[KeyOf(t)] = None
        /\ t.at = "answered" => applied'[<<t.identity, t.mutation>>] = 1
    BY <2>1, <2>3 DEF CallOK, KeyOf, Tick
  <2>7. t.at = "trimmed" => Cardinality(Active(t.identity, t.age)' \ t.excess) <= Kept
    <3>1. SUFFICES ASSUME t.at = "trimmed"
                   PROVE  Cardinality(Active(t.identity, t.age)' \ t.excess) <= Kept
      OBVIOUS
    <3>2. t.age = u.age + 1 /\ u.age \in 0 .. MaxAge /\ t.age \in 0 .. MaxAge
      BY <1>3, <2>1, <2>2, <2>3, <3>1 DEF InTransaction, Call
    <3>3. Active(t.identity, t.age)' \subseteq Active(u.identity, u.age)
      BY <1>7, <2>3, <3>2
    <3>4. /\ Active(t.identity, t.age)' \ t.excess \subseteq Active(u.identity, u.age) \ u.excess
          /\ Active(u.identity, u.age) \ u.excess \subseteq Sessions
      BY <2>3, <3>3 DEF Active
    <3> QED  BY <2>1, <2>3, <3>1, <3>4, Smaller DEF CallOK
  <2> QED  BY <2>2, <2>4, <2>5, <2>6, <2>7, CallAfter
<1>10. \A d, e \in Calls : d # e => Compatible(call[d], call[e])'
  BY <1>4 DEF IInv, Compatible
<1> QED  BY <1>5, <1>6, <1>8, <1>9, <1>10 DEF IInv

-----------------------------------------------------------------------------
LEMMA Step == IInv /\ [Next]_vars => IInv'
<1> SUFFICES ASSUME IInv, [Next]_vars PROVE IInv'
  OBVIOUS
<1>1. ASSUME NEW c \in Calls, NEW i \in Identities, IssueStart(c, i)
      PROVE  IInv'
  BY <1>1, IssueStartStep
<1>2. ASSUME NEW c \in Calls, NEW i \in Identities, NEW s \in Sessions, NEW m \in Asked,
             Authenticate(c, i, s, m)
      PROVE  IInv'
  BY <1>2, AuthenticateStep
<1>3. ASSUME NEW c \in Calls, IssueLock(c) \/ IssueTrim(c)
      PROVE  IInv'
  BY <1>3, IssueLockStep, IssueTrimStep
<1>4. ASSUME NEW c \in Calls, NEW s \in Sessions, NEW a \in Ages, IssueEnd(c, s, a)
      PROVE  IInv'
  BY <1>4, IssueEndStep
<1>5. ASSUME NEW c \in Calls, LockSession(c) \/ LockIdentity(c)
      PROVE  IInv'
  BY <1>5, LockSessionStep, LockIdentityStep
<1>6. ASSUME NEW c \in Calls, Replay(c) \/ Check(c) \/ Apply(c) \/ Stop(c)
      PROVE  IInv'
  BY <1>6, ReplayStep, CheckStep, ApplyStep, StopStep
<1>7. ASSUME NEW i \in Identities, Provision(i)
      PROVE  IInv'
  BY <1>7, ProvisionStep
<1>8. CASE Tick
  BY <1>8, TickStep
<1>9. CASE UNCHANGED vars
  BY <1>9 DEF vars, IInv, TypeOK, Receipts, SessionsLimited, CallOK, Typed, Compatible,
              Active, KeyOf
<1> QED  BY <1>1, <1>2, <1>3, <1>4, <1>5, <1>6, <1>7, <1>8, <1>9 DEF Next

\* The invariant that the theorems below follow from.
LEMMA Invariance == Spec => []IInv
<1>1. Init => IInv
  BY Initially
<1>2. IInv /\ [Next]_vars => IInv'
  BY Step
<1> QED  BY <1>1, <1>2, PTL DEF Spec

(* Sessions, receipts and running calls have the shape that the tables and    *)
(* the code of session-service.ts give them.                                  *)
THEOREM TypeCorrect == Spec => []TypeOK
<1>1. IInv => TypeOK
  BY DEF IInv
<1> QED  BY <1>1, Invariance, PTL

(* However logins, mutations and the clock interleave, issue leaves an        *)
(* identity at most ten active sessions.                                      *)
THEOREM ActiveSessionsLimited == Spec => []SessionsLimited
<1>1. IInv => SessionsLimited
  BY DEF IInv
<1> QED  BY <1>1, Invariance, PTL

(* The receipt that is read under the lock of the identity makes a mutation   *)
(* take effect once under its key, for every caller that is answered.         *)
THEOREM MutationsApplyOnce == Spec => []MutationsOnce
<1>1. IInv => MutationsOnce
  BY DEF IInv, Receipts, CallOK, MutationsOnce
<1> QED  BY <1>1, Invariance, PTL

(* What assertAdministrativeAuthority has found still holds when the mutation *)
(* takes effect: both rows have been locked since.                            *)
THEOREM AuthorityHolds == Spec => AuthorityIsLive
<1> DEFINE Step1(c) ==
      LET t == call[c]
          i == t.identity
      IN  t.at = "checked" /\ applied' # applied /\ call'[c] # t
          /\ t.mutation.operation # "revoke_session" =>
            /\ session[t.session].state = "OPEN" /\ session[t.session].identity = i
            /\ role[i] = RoleFor(t.mutation.operation)
<1>1. IInv => \A c \in Calls : Step1(c)
  BY DEF IInv, CallOK, Authorized
<1> QED  BY <1>1, Invariance, PTL DEF AuthorityIsLive
=============================================================================
