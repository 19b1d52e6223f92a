------------------------------ MODULE Sessions ------------------------------
(***************************************************************************)
(* Administrative sessions (src/src/admin/session-service.ts), the live    *)
(* authority of a mutation (authority.ts) and its idempotency receipt      *)
(* (administration-service.ts, policy-manager.ts).                         *)
(*                                                                         *)
(* A mutation is authenticated in one transaction and runs in another.     *)
(* What it does besides its receipt is in Eligibility.  Times are distances*)
(* from now, counted in ticks; CURRENT_TIMESTAMP is the start of the       *)
(* transaction, `age' ticks ago.                                           *)
(***************************************************************************)
EXTENDS Integers, FiniteSets

CONSTANTS
  Identities,
  Sessions,    \* a session's number is its place in ORDER BY created_at
  Calls,       \* calls that may be running at the same time
  Keys,        \* idempotency keys
  Contents,    \* what is asked under a key
  Asked,       \* the mutations that are asked
  None,
  Kept,        \* sessions of an identity that stay when one is issued: 9
  Life,        \* lifetime of a session, from its authentication
  Recent,      \* age at which an authentication is no longer recent: 5 minutes
  Skew,        \* how far in the future it may be: 1 minute
  Ages,        \* ages of the federated authentications that are tried
  MaxAge       \* bound on the age of a transaction

ASSUME SessionsAssumption == Sessions \subseteq Nat /\ IsFiniteSet(Sessions)

ASSUME NoneAssumption ==
  /\ None \notin Identities \cup Sessions \cup Contents \cup Keys
  /\ Contents \cap Sessions = {}

Roles == {"MODERATOR", "POLICY_ADMIN", "VALIDATOR"}

Operations == {"moderate", "activate_score_policy", "revoke_session"}

Mutation == [operation : Operations, key : Keys, request : Contents \cup Sessions]

ASSUME AskedAssumption ==
  /\ Asked \subseteq Mutation
  /\ \A m \in Asked : m.operation = "revoke_session" <=> m.request \in Sessions

ASSUME TimesAssumption ==
  /\ Kept \in Nat /\ Life \in Nat \ {0} /\ Recent \in Nat /\ Skew \in Nat
  /\ MaxAge \in Nat /\ Ages \subseteq Int

VARIABLES
  role,       \* the role of an identity that is ACTIVE, or None
  session,    \* administrative_sessions
  receipt,    \* administrative_mutation_receipts, by identity, operation and key
  applied,    \* how often a mutation has had its effect
  call        \* the calls that are running

vars == <<role, session, receipt, applied, call>>

Left == -MaxAge .. Life + Skew

NoSession == [state |-> "ABSENT", identity |-> None, left |-> -MaxAge]

\* Its number is not given again.
Purged == [NoSession EXCEPT !.state = "PURGED"]

NoCall == [at |-> "idle", identity |-> None, session |-> None, mutation |-> None,
           age |-> 0, old |-> {}, excess |-> {}]

Init ==
  /\ role \in [Identities -> Roles \cup {None}]
  /\ session = [s \in Sessions |-> NoSession]
  /\ receipt = [k \in Identities \X Operations \X Keys |-> None]
  /\ applied = [m \in Identities \X Mutation |-> 0]
  /\ call = [c \in Calls |-> NoCall]

-----------------------------------------------------------------------------
\* Locks, which follow from where the calls are.
Authorized == {"authorized", "checked"}

\* Fault: the identity is read without FOR UPDATE.
IdentityHoldersNone(i) == {}

\* Calls with an identity FOR UPDATE.
IdentityHolders(i) ==
  {c \in Calls : /\ call[c].at \in {"locked", "trimmed"} \cup Authorized
                 /\ call[c].identity = i}

\* Calls with a session FOR UPDATE, or with its row deleted or updated.
SessionHolders(s) ==
  {c \in Calls : \/ call[c].at \in {"session"} \cup Authorized /\ call[c].session = s
                 \/ s \in call[c].old \cup call[c].excess}

Go(c, t) == call' = [call EXCEPT ![c] = t]

\* Error, refusal, deadlock, or the end of a call that was answered.
Stop(c) ==
  /\ call[c] # NoCall
  /\ Go(c, NoCall)
  /\ UNCHANGED <<role, session, receipt, applied>>

-----------------------------------------------------------------------------
\* issue.  What is old is deleted; the 24 hours of the code are any time.
Purgeable ==
  {s \in Sessions : \/ session[s].state = "REVOKED"
                    \/ session[s].state = "OPEN" /\ session[s].left <= 0}

IssueStart(c, i) ==
  /\ call[c] = NoCall
  /\ \E old \in SUBSET Purgeable :
       /\ \A s \in old : SessionHolders(s) = {}
       /\ Go(c, [NoCall EXCEPT !.at = "issuing", !.identity = i, !.old = old])
  /\ UNCHANGED <<role, session, receipt, applied>>

IssueLock(c) ==
  LET i == call[c].identity
  IN  /\ call[c].at = "issuing"
      /\ IdentityHolders(i) = {}
      /\ role[i] # None
      /\ Go(c, [call[c] EXCEPT !.at = "locked"])
      /\ UNCHANGED <<role, session, receipt, applied>>

\* The active sessions of an identity at a time `age' ago.
Active(i, age) ==
  {s \in Sessions : /\ session[s].state = "OPEN" /\ session[s].identity = i
                    /\ session[s].left + age > 0}

\* ORDER BY created_at DESC OFFSET 9 passes over these.
AreNewest(stay, all) ==
  /\ stay \subseteq all
  /\ Cardinality(stay) <= Kept
  /\ stay # all => Cardinality(stay) = Kept
  /\ \A s \in stay, t \in all \ stay : t < s

\* The excess is revoked.
IssueTrim(c) ==
  LET all == Active(call[c].identity, call[c].age)
  IN  /\ call[c].at = "locked"
      /\ \E stay \in SUBSET all :
           /\ AreNewest(stay, all)
           /\ \A s \in all \ stay : SessionHolders(s) \subseteq {c}
           /\ Go(c, [call[c] EXCEPT !.at = "trimmed", !.excess = all \ stay])
      /\ UNCHANGED <<role, session, receipt, applied>>

\* Fault: the authentication may be of any time to come.
MayIssueFuture(a) == a <= Recent

MayIssue(a) == a >= -Skew /\ a <= Recent

Clip(n) == IF n < -MaxAge THEN -MaxAge ELSE n

\* The transaction commits: rows are deleted and revoked, session s is inserted.
IssueEnd(c, s, a) ==
  LET t == call[c]
      new == [state |-> "OPEN", identity |-> t.identity, left |-> Clip(Life - a - t.age)]
  IN  /\ t.at = "trimmed"
      /\ MayIssue(a)
      /\ session[s] = NoSession
      /\ session' = [x \in Sessions |->
                       IF x = s THEN new
                       ELSE IF x \in t.old THEN Purged
                       ELSE IF x \in t.excess THEN [session[x] EXCEPT !.state = "REVOKED"]
                       ELSE session[x]]
      /\ Go(c, NoCall)
      /\ UNCHANGED <<role, receipt, applied>>

-----------------------------------------------------------------------------
\* A mutation, and the revocation of a session.  Its own transaction begins at
\* once: what may happen before that may also happen while it waits.
Authenticate(c, i, s, m) ==
  /\ call[c] = NoCall
  /\ s \in Active(i, 0)
  /\ role[i] # None
  /\ m.operation = "revoke_session" => m.request = s
  /\ Go(c, [NoCall EXCEPT !.at = "begun", !.identity = i, !.session = s, !.mutation = m])
  /\ UNCHANGED <<role, session, receipt, applied>>

RoleFor(operation) ==
  IF operation = "moderate" THEN "MODERATOR" ELSE "POLICY_ADMIN"

\* Fault: the role is that of the context, and not looked at again.
LiveAnyRole(t) ==
  /\ t.session \in Active(t.identity, t.age)
  /\ t.mutation.operation = "activate_score_policy" =>
       session[t.session].left + t.age >= Life - Recent

\* assertAdministrativeAuthority.
Live(t) ==
  /\ t.session \in Active(t.identity, t.age)
  /\ role[t.identity] = RoleFor(t.mutation.operation)
  /\ t.mutation.operation = "activate_score_policy" =>
       session[t.session].left + t.age >= Life - Recent

\* The row that is found.  revoke only asks that it is there.
Matches(t) ==
  IF t.mutation.operation = "revoke_session"
  THEN session[t.session].state \in {"OPEN", "REVOKED"}
  ELSE Live(t)

\* FOR UPDATE OF session, identity locks one row and then the other, and looks
\* again at rows it has waited for.
LockSession(c) ==
  /\ call[c].at = "begun"
  /\ Matches(call[c])
  /\ SessionHolders(call[c].session) = {}
  /\ Go(c, [call[c] EXCEPT !.at = "session"])
  /\ UNCHANGED <<role, session, receipt, applied>>

LockIdentity(c) ==
  /\ call[c].at = "session"
  /\ Matches(call[c])
  /\ IdentityHolders(call[c].identity) = {}
  /\ Go(c, [call[c] EXCEPT !.at = "authorized"])
  /\ UNCHANGED <<role, session, receipt, applied>>

KeyOf(t) == <<t.identity, t.mutation.operation, t.mutation.key>>

\* Fault: a key that was used is taken for the same request.
SameRequestAny(t) == receipt[KeyOf(t)] # None

\* alreadyApplied.  The same key with another request is refused: Stop.
SameRequest(t) == receipt[KeyOf(t)] = t.mutation.request

Replay(c) ==
  /\ call[c].at = "authorized"
  /\ SameRequest(call[c])
  /\ Go(c, [call[c] EXCEPT !.at = "answered"])
  /\ UNCHANGED <<role, session, receipt, applied>>

Check(c) ==
  /\ call[c].at = "authorized"
  /\ receipt[KeyOf(call[c])] = None
  /\ Go(c, [call[c] EXCEPT !.at = "checked"])
  /\ UNCHANGED <<role, session, receipt, applied>>

\* The effect and the receipt are committed.
Apply(c) ==
  LET t == call[c]
      m == <<t.identity, t.mutation>>
  IN  /\ t.at = "checked"
      /\ receipt' = [receipt EXCEPT ![KeyOf(t)] = t.mutation.request]
      /\ applied' = [applied EXCEPT ![m] = applied[m] + 1]
      /\ session' = IF t.mutation.operation = "revoke_session"
                    THEN [session EXCEPT ![t.session].state = "REVOKED"]
                    ELSE session
      /\ Go(c, [t EXCEPT !.at = "answered"])
      /\ UNCHANGED role

-----------------------------------------------------------------------------
\* The identity provider's side changes an identity, waiting for its lock.
Provision(i) ==
  /\ IdentityHolders(i) = {}
  /\ \E r \in Roles \cup {None} : role' = [role EXCEPT ![i] = r]
  /\ UNCHANGED <<session, receipt, applied, call>>

InTransaction(t) == t.at \notin {"idle", "answered"}

Tick ==
  /\ \A c \in Calls : InTransaction(call[c]) => call[c].age < MaxAge
  /\ session' = [s \in Sessions |->
                   [session[s] EXCEPT !.left = Clip(session[s].left - 1)]]
  /\ call' = [c \in Calls |->
                IF InTransaction(call[c])
                THEN [call[c] EXCEPT !.age = call[c].age + 1]
                ELSE call[c]]
  /\ UNCHANGED <<role, receipt, applied>>

Next ==
  \/ \E c \in Calls :
       \/ \E i \in Identities :
            \/ IssueStart(c, i)
            \/ \E s \in Sessions, m \in Asked : Authenticate(c, i, s, m)
       \/ IssueLock(c) \/ IssueTrim(c)
       \/ \E s \in Sessions, a \in Ages : IssueEnd(c, s, a)
       \/ LockSession(c) \/ LockIdentity(c)
       \/ Replay(c) \/ Check(c) \/ Apply(c) \/ Stop(c)
  \/ \E i \in Identities : Provision(i)
  \/ Tick

Spec == Init /\ [][Next]_vars

-----------------------------------------------------------------------------
Session ==
  [state : {"ABSENT", "OPEN", "REVOKED", "PURGED"},
   identity : Identities \cup {None}, left : Left]

Call ==
  [at : {"idle", "issuing", "locked", "trimmed", "begun",
         "session", "answered"} \cup Authorized,
   identity : Identities \cup {None}, session : Sessions \cup {None},
   mutation : Mutation \cup {None}, age : 0 .. MaxAge,
   old : SUBSET Sessions, excess : SUBSET Sessions]

TypeOK ==
  /\ role \in [Identities -> Roles \cup {None}]
  /\ session \in [Sessions -> Session]
  /\ receipt \in [Identities \X Operations \X Keys -> Contents \cup Sessions \cup {None}]
  /\ applied \in [Identities \X Mutation -> Nat]
  /\ call \in [Calls -> Call]

(* An identity never has more than Kept + 1 active sessions, ten in the code, *)
(* however many logins race.                                                  *)
SessionsLimited ==
  \A i \in Identities : Cardinality(Active(i, 0)) <= Kept + 1

(* Under one key a mutation has its effect once, exactly the one its receipt  *)
(* names, and a caller is told that it succeeded only if it did, whether the  *)
(* call ran or found the receipt of another.                                  *)
MutationsOnce ==
  /\ \A i \in Identities, m \in Mutation :
       applied[<<i, m>>] =
         IF receipt[<<i, m.operation, m.key>>] = m.request THEN 1 ELSE 0
  /\ \A c \in Calls : call[c].at = "answered" =>
       applied[<<call[c].identity, call[c].mutation>>] = 1

(* A moderation or activation has its effect under a session that nobody has  *)
(* revoked and an identity that is active in the role it needs at this        *)
(* moment, though it was authenticated in another transaction.                *)
AuthorityIsLive ==
  [][\A c \in Calls :
       LET t == call[c]
           i == t.identity
       IN  t.at = "checked" /\ applied' # applied /\ call'[c] # t
           /\ t.mutation.operation # "revoke_session" =>
             /\ session[t.session].state = "OPEN" /\ session[t.session].identity = i
             /\ role[i] = RoleFor(t.mutation.operation)]_vars
=============================================================================
