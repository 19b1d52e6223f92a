----------------------------- MODULE Supports -----------------------------
(***************************************************************************)
(* Supports of proposals: src/src/participation/support-service.ts, with   *)
(* the keys of identity.ts and the registry and trigger of migration 0006. *)
(*                                                                         *)
(* A support row holds the HMAC of its subject under one key and the id of *)
(* that key; different keys, or different subjects, give different hashes. *)
(* A server knows the keys of its keyring, the first of which is primary,  *)
(* and finds the supports of a subject under any of them.                  *)
(*                                                                         *)
(* A call is several transactions: assertReady, the rate limiter,          *)
(* normalizeExistingSupport when adding, and up to three attempts that     *)
(* read the proposal's row without a lock and later change it if its       *)
(* version is still the one read.  Two attempts on one proposal that       *)
(* overlap after their reads therefore never both commit, whichever        *)
(* subject locks they take, and the second half of an attempt is one step. *)
(***************************************************************************)
EXTENDS Integers, Sequences, FiniteSets

CONSTANTS
  Proposals,
  Subjects,      \* subjectId
  Keys,          \* key material
  KeyIds,        \* the ids keys go by
  KeyId,         \* KeyId[k]: the id under which a keyring lists k
  Keyrings,      \* the keyrings servers are started with
  Servers,
  Deployments,   \* the sets of servers that are restarted at one time
  Legacy,        \* the key of supports older than the registry
  Calls,         \* calls that may be in progress at the same time
  None,          \* no key, no call
  MaxAttempts,   \* MAX_CONCURRENCY_RETRIES
  MaxVersion     \* bound: the versions of a proposal modelled

ASSUME NoneAssumption == None \notin Keys \cup Servers

ASSUME KeysAssumption == KeyId \in [Keys -> KeyIds] /\ Legacy \in Keys

\* The constructor of ParticipationKeyDeriver: at least one key, no id twice.
ASSUME KeyringsAssumption ==
  \A ring \in Keyrings :
    /\ ring \in Seq(Keys) /\ ring # <<>>
    /\ \A i, j \in DOMAIN ring : KeyId[ring[i]] = KeyId[ring[j]] => i = j

ASSUME DeploymentsAssumption == Deployments \subseteq SUBSET Servers

ASSUME BoundsAssumption == MaxAttempts \in Nat \ {0} /\ MaxVersion \in Nat \ {0}

VARIABLES
  keyring,    \* the keyring of each server
  supports,   \* the rows of supports with status ACTIVE
  registry,   \* participation_key_registry: verifier and active_support_count
  proposal,   \* version, support_count, and whether the status is supportable
  call        \* the calls in progress

vars == <<keyring, supports, registry, proposal, call>>

Support == [proposal : Proposals, key : Keys, subject : Subjects]

ASSUME FiniteAssumption == IsFiniteSet(Support)

Row(p, k, s) == [proposal |-> p, key |-> k, subject |-> s]

Unregistered == [key |-> None, active |-> 0]

\* stage is the last transaction that is over: a call that is "ready" has passed
\* assertReady, a "settled" one normalizeExistingSupport too; "read" is inside an
\* attempt.  seen is the version read, told the count put in the event.
Idle == [stage |-> "idle", server |-> None, op |-> "add", subject |-> None,
         proposal |-> None, attempt |-> 1, seen |-> 0, told |-> 0]

Of(p) == {t \in supports : t.proposal = p}

Under(id) == {t \in supports : KeyId[t.key] = id}

KeysOf(ring) == {ring[i] : i \in DOMAIN ring}

IdsOf(ring) == {KeyId[k] : k \in KeysOf(ring)}

\* INSERT ... SELECT count(*), for the keys of the ring not in the registry.
Registered(ring, known) ==
  [id \in KeyIds |->
     IF known[id] = Unregistered /\ id \in IdsOf(ring)
       THEN [key |-> CHOOSE k \in KeysOf(ring) : KeyId[k] = id,
             active |-> Cardinality(Under(id))]
       ELSE known[id]]

\* The servers have been activated: assertReady has run once, for a keyring that
\* lists the key of the supports that are older than the registry.
Init ==
  /\ supports \in SUBSET {t \in Support : t.key = Legacy}
  /\ \E ring \in Keyrings :
       /\ supports = {} \/ Legacy \in KeysOf(ring)
       /\ keyring = [v \in Servers |-> ring]
       /\ registry = Registered(ring, [id \in KeyIds |-> Unregistered])
  /\ proposal = [p \in Proposals |->
                   [version |-> 1, count |-> Cardinality(Of(p)), open |-> TRUE]]
  /\ call = [c \in Calls |-> Idle]

-----------------------------------------------------------------------------
Keyring(c) == keyring[call[c].server]

Primary(c) == Keyring(c)[1]

Goto(c, stage) == call' = [call EXCEPT ![c].stage = stage]

Return(c) == call' = [call EXCEPT ![c] = Idle]

\* No id is bound to other material than the ring's.
Verified(ring, known) == \A k \in KeysOf(ring) : known[KeyId[k]].key = k

\* Fault: keys in use that the ring lacks are not looked for.
CompleteAlways(ring, known) == TRUE

\* No key outside the ring has active supports.
Complete(ring, known) == \A id \in KeyIds \ IdsOf(ring) : known[id].active = 0

\* assertReady, the start of a call.  When it throws, its transaction is
\* rolled back, registrations included, and nothing has happened.
AssertReady(c, v, op, s, p) ==
  /\ call[c] = Idle
  /\ LET known == Registered(keyring[v], registry)
     IN  /\ Verified(keyring[v], known)
         /\ Complete(keyring[v], known)
         /\ registry' = known
  /\ call' = [call EXCEPT ![c] =
                [Idle EXCEPT !.stage = "ready", !.server = v, !.op = op,
                             !.subject = s, !.proposal = p]]
  /\ UNCHANGED <<keyring, supports, proposal>>

\* Fault: only the hash under the primary key is looked for.
MinePrimary(c) ==
  {t \in supports : /\ t.proposal = call[c].proposal
                    /\ t.subject = call[c].subject
                    /\ t.key = Primary(c)}

\* subject_key_hash IN (subjectCandidateHashes), on the call's proposal.
Mine(c) ==
  {t \in supports : /\ t.proposal = call[c].proposal
                    /\ t.subject = call[c].subject
                    /\ t.key \in KeysOf(Keyring(c))}

\* The row the call would insert.
New(c) == Row(call[c].proposal, Primary(c), call[c].subject)

\* Fault: the registry does not follow a row to another key.
TriggerWithoutMoves(gone, come) ==
  [id \in KeyIds |->
     LET n == Cardinality({t \in gone : KeyId[t.key] = id})
         m == Cardinality({t \in come : KeyId[t.key] = id})
     IN  IF gone # {} /\ come # {} THEN registry[id]
         ELSE [registry[id] EXCEPT
                 !.active = (IF registry[id].active < n THEN 0 ELSE registry[id].active - n) + m]]

\* maintain_participation_key_usage, for rows that stop and start being active.
Trigger(gone, come) ==
  [id \in KeyIds |->
     LET n == Cardinality({t \in gone : KeyId[t.key] = id})
         m == Cardinality({t \in come : KeyId[t.key] = id})
     IN  [registry[id] EXCEPT
            !.active = (IF registry[id].active < n THEN 0 ELSE registry[id].active - n) + m]]

\* Rows are replaced by others.  The unique index admits no row twice, and the
\* trigger no row under a key that is not registered.
Replace(gone, come) ==
  /\ come \cap (supports \ gone) = {}
  /\ \A t \in come : registry[KeyId[t.key]] # Unregistered
  /\ supports' = (supports \ gone) \cup come
  /\ registry' = Trigger(gone, come)

\* normalizeExistingSupport finds nothing: the call goes on to its attempts.
NoSupportYet(c) ==
  /\ call[c].stage = "ready" /\ call[c].op = "add"
  /\ proposal[call[c].proposal].open
  /\ Mine(c) = {}
  /\ Goto(c, "settled")
  /\ UNCHANGED <<keyring, supports, registry, proposal>>

\* It finds a support, brings it under the primary key unless it is under it,
\* and add throws DuplicateSupportError.
Normalize(c) ==
  /\ call[c].stage = "ready" /\ call[c].op = "add"
  /\ proposal[call[c].proposal].open
  /\ \E t \in Mine(c) : Replace({t} \ {New(c)}, {New(c)} \ {t})
  /\ Return(c)
  /\ UNCHANGED <<keyring, proposal>>

\* An attempt begins: proposalForSupport and supportEvent.
Read(c) ==
  LET row == proposal[call[c].proposal]
      told == IF call[c].op = "add" THEN row.count + 1
              ELSE IF row.count = 0 THEN 0 ELSE row.count - 1
  IN  /\ \/ call[c].op = "add" /\ call[c].stage = "settled"
         \/ call[c].op = "revoke" /\ call[c].stage = "ready"
      /\ row.open
      /\ call' = [call EXCEPT ![c] = [@ EXCEPT !.stage = "read", !.told = told,
                                               !.seen = row.version]]
      /\ UNCHANGED <<keyring, supports, registry, proposal>>

\* Fault: the version is not compared.
UnmovedAny(c) == TRUE

\* UPDATE proposals ... WHERE version = expectedSequence.
Unmoved(c) == proposal[call[c].proposal].version = call[c].seen

\* The row after the call's change of the count; the event is appended with it.
Counted(c, count) ==
  LET p == call[c].proposal
  IN  /\ proposal[p].version < MaxVersion
      /\ proposal' = [proposal EXCEPT ![p] =
                        [version |-> proposal[p].version + 1, count |-> count,
                         open |-> proposal[p].open]]

\* add, to the end of its transaction.
Add(c) ==
  /\ call[c].stage = "read" /\ call[c].op = "add"
  /\ Mine(c) = {}
  /\ Unmoved(c)
  /\ Replace({}, {New(c)})
  /\ Counted(c, proposal[call[c].proposal].count + 1)
  /\ Return(c)
  /\ UNCHANGED keyring

\* Fault: a revocation that ends no support is not an error.
SomethingToRevokeAlways(c) == TRUE

SomethingToRevoke(c) == Mine(c) # {}

\* revoke: GREATEST(0, support_count - 1), however many rows it has ended.
Revoke(c) ==
  /\ call[c].stage = "read" /\ call[c].op = "revoke"
  /\ SomethingToRevoke(c)
  /\ Unmoved(c)
  /\ Replace(Mine(c), {})
  /\ LET count == proposal[call[c].proposal].count
     IN  Counted(c, IF count = 0 THEN 0 ELSE count - 1)
  /\ Return(c)
  /\ UNCHANGED keyring

\* What an attempt looks for first: add a duplicate, revoke a support.
Refused(c) ==
  \/ call[c].op = "add" /\ Mine(c) # {}
  \/ call[c].op = "revoke" /\ ~SomethingToRevoke(c)

\* DuplicateSupportError of an attempt, or SupportNotFoundError.
Refuse(c) ==
  /\ call[c].stage = "read" /\ Refused(c)
  /\ Return(c)
  /\ UNCHANGED <<keyring, supports, registry, proposal>>

MayRetry(c) == call[c].attempt < MaxAttempts

\* EventConcurrencyError: another attempt, from its read on.
Retry(c) ==
  /\ call[c].stage = "read" /\ ~Refused(c) /\ ~Unmoved(c) /\ MayRetry(c)
  /\ call' = [call EXCEPT ![c] =
                [@ EXCEPT !.stage = IF call[c].op = "add" THEN "settled" ELSE "ready",
                          !.attempt = call[c].attempt + 1, !.seen = 0, !.told = 0]]
  /\ UNCHANGED <<keyring, supports, registry, proposal>>

\* The last attempt's conflict, RateLimitExceeded, a closed proposal, a unique
\* violation, a deadlock that PostgreSQL ends, a lost connection.
Abort(c) ==
  /\ call[c] # Idle
  /\ Return(c)
  /\ UNCHANGED <<keyring, supports, registry, proposal>>

\* Other services change the proposal's status, and with it its version.
StatusChanges(p) ==
  /\ proposal[p].version < MaxVersion
  /\ \E open \in BOOLEAN :
       proposal' = [proposal EXCEPT ![p] =
                      [version |-> proposal[p].version + 1,
                       count |-> proposal[p].count, open |-> open]]
  /\ UNCHANGED <<keyring, supports, registry, call>>

\* Servers are restarted with a keyring; what they were doing is rolled back.
Deploy(servers, ring) ==
  /\ keyring' = [v \in Servers |-> IF v \in servers THEN ring ELSE keyring[v]]
  /\ call' = [c \in Calls |-> IF call[c].server \in servers THEN Idle ELSE call[c]]
  /\ UNCHANGED <<supports, registry, proposal>>

Step(c) ==
  \/ \E v \in Servers, op \in {"add", "revoke"}, s \in Subjects, p \in Proposals :
       AssertReady(c, v, op, s, p)
  \/ NoSupportYet(c) \/ Normalize(c)
  \/ Read(c) \/ Add(c) \/ Revoke(c)
  \/ Refuse(c) \/ Retry(c) \/ Abort(c)

Next ==
  \/ \E c \in Calls : Step(c)
  \/ \E p \in Proposals : StatusChanges(p)
  \/ \E servers \in Deployments, ring \in Keyrings : Deploy(servers, ring)

Spec == Init /\ [][Next]_vars

-----------------------------------------------------------------------------
InProgress ==
  [stage : {"ready", "settled", "read"}, server : Servers, op : {"add", "revoke"},
   subject : Subjects, proposal : Proposals, attempt : 1 .. MaxAttempts,
   seen : Nat, told : Nat]

TypeOK ==
  /\ keyring \in [Servers -> Keyrings]
  /\ supports \subseteq Support
  /\ registry \in [KeyIds -> [key : Keys, active : Nat] \cup {Unregistered}]
  /\ proposal \in [Proposals -> [version : Nat, count : Nat, open : BOOLEAN]]
  /\ call \in [Calls -> InProgress \cup {Idle}]

(* A subject has at most one active support of a proposal, under whichever   *)
(* key ("no existe apoyo activo del mismo sujeto", PARTICIPATION.md).  The   *)
(* unique index sees hashes only; across keys it takes assertReady, the      *)
(* candidates and the version check together.                                *)
OneSupportPerSubject ==
  \A t, u \in supports :
    t.proposal = u.proposal /\ t.subject = u.subject => t = u

(* The support_count of a proposal is the number of its active supports,     *)
(* though additions and revocations only ever move it by one.                *)
CountIsActive ==
  \A p \in Proposals : proposal[p].count = Cardinality(Of(p))

(* The registry's count of a registered key, kept by the trigger, is the     *)
(* number of active supports under it: what assertReady decides by.          *)
RegistryCounts ==
  \A id \in KeyIds :
    registry[id] # Unregistered => registry[id].active = Cardinality(Under(id))

(* The resultingSupportCount of an event, computed from a row read without a *)
(* lock, is the count that the committed transaction leaves.                 *)
EventTellsCount ==
  [][\A c \in Calls :
       supports' # supports /\ call[c].stage = "read" /\ call'[c] # call[c]
       => call[c].told = proposal'[call[c].proposal].count]_vars

\* Participation seen as sets of supporters.
People == INSTANCE Supporters WITH
            supporters <- [p \in Proposals |-> {t.subject : t \in Of(p)}],
            shown <- [p \in Proposals |-> proposal[p].count]

(* The support service implements sets of supporters: bringing a support     *)
(* under another key, retrying and deploying change nobody's support.        *)
SupportersSpec == People!Spec
=============================================================================
