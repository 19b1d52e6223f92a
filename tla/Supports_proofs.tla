-------------------------- MODULE Supports_proofs --------------------------
(***************************************************************************)
(* Proofs about Supports, for any number of proposals, subjects, servers   *)
(* and calls and any keyrings, when all servers are restarted together.    *)
(***************************************************************************)
EXTENDS Supports, FiniteSetTheorems, TLAPS

(* No server runs while another one gets another keyring.                    *)
Together == Deployments \subseteq {Servers}

SameKeyring == \A v, w \in Servers : keyring[v] = keyring[w]

(* Supports are under keys the registry knows.                               *)
KeysRegistered == \A t \in supports : registry[KeyId[t.key]].key = t.key

(* What assertReady has found stays true for as long as the call lasts.      *)
CallsKnowKeys ==
  \A c \in Calls : call[c] # Idle =>
    /\ \A t \in supports : t.key \in KeysOf(Keyring(c))
    /\ \A k \in KeysOf(Keyring(c)) : registry[KeyId[k]].key = k

(* The count a call will leave on a proposal that now shows count.           *)
After(op, count) ==
  IF op = "add" THEN count + 1 ELSE IF count = 0 THEN 0 ELSE count - 1

(* What an attempt has read is still so while the version is.                *)
ReadsHold ==
  \A c \in Calls : call[c].stage = "read" =>
    LET row == proposal[call[c].proposal]
    IN  /\ call[c].seen <= row.version
        /\ call[c].seen = row.version => call[c].told = After(call[c].op, row.count)

(* The rows, and what the database knows about them.                         *)
RowsInv ==
  /\ OneSupportPerSubject /\ CountIsActive /\ RegistryCounts /\ KeysRegistered

IInv == TypeOK /\ RowsInv /\ SameKeyring /\ CallsKnowKeys /\ ReadsHold

-----------------------------------------------------------------------------
(* The size of a finite set after some elements are exchanged for others.    *)
LEMMA Exchange ==
  ASSUME NEW S, IsFiniteSet(S), NEW G \in SUBSET S,
         NEW C, IsFiniteSet(C), C \cap (S \ G) = {}
  PROVE  /\ Cardinality((S \ G) \cup C) = Cardinality(S) - Cardinality(G) + Cardinality(C)
         /\ Cardinality(S) \in Nat /\ Cardinality(G) \in Nat /\ Cardinality(C) \in Nat
         /\ Cardinality(G) <= Cardinality(S)
<1>1. IsFiniteSet(G) /\ Cardinality(G) <= Cardinality(S)
  BY FS_Subset
<1>2. IsFiniteSet(S \ G) /\ Cardinality(S \ G) = Cardinality(S) - Cardinality(S \cap G)
  BY FS_Difference
<1>3. S \cap G = G /\ (S \ G) \cap C = {}
  OBVIOUS
<1>4. Cardinality((S \ G) \cup C) = Cardinality(S \ G) + Cardinality(C) - Cardinality({})
  <2>1. PICK R : R = S \ G /\ IsFiniteSet(R)
    BY <1>2
  <2>2. Cardinality(R \cup C) = Cardinality(R) + Cardinality(C) - Cardinality(R \cap C)
    BY <2>1, FS_Union, Zenon
  <2> QED
    BY <1>3, <2>1, <2>2
<1>5. Cardinality({}) = 0
  BY FS_EmptySet
<1>6. Cardinality(S) \in Nat /\ Cardinality(G) \in Nat /\ Cardinality(C) \in Nat
  BY <1>1, FS_CardinalityType
<1>7. Cardinality(S \ G) = Cardinality(S) - Cardinality(G)
  BY <1>2, <1>3
<1>8. Cardinality((S \ G) \cup C) = Cardinality(S) - Cardinality(G) + Cardinality(C) - 0
  BY <1>4, <1>5, <1>7
<1>9. Cardinality((S \ G) \cup C) = Cardinality(S) - Cardinality(G) + Cardinality(C)
  BY <1>6, <1>8
<1> QED
  BY <1>1, <1>6, <1>9

(* Any set of supports is finite.                                            *)
LEMMA Finite ==
  ASSUME NEW S \in SUBSET Support
  PROVE  IsFiniteSet(S) /\ Cardinality(S) \in Nat
BY FiniteAssumption, FS_Subset, FS_CardinalityType

(* The fields of a call in progress, and the keys of its server.             *)
LEMMA CallFields ==
  ASSUME TypeOK, NEW c \in Calls, call[c] # Idle
  PROVE  /\ call[c] \in InProgress
         /\ call[c].server \in Servers /\ call[c].op \in {"add", "revoke"}
         /\ call[c].stage \in {"ready", "settled", "read"}
         /\ call[c].subject \in Subjects /\ call[c].proposal \in Proposals
         /\ call[c].attempt \in 1 .. MaxAttempts
         /\ call[c].seen \in Nat /\ call[c].told \in Nat
BY DEF TypeOK, InProgress

(* A call is idle when its stage is.                                         *)
LEMMA IdleStage ==
  ASSUME TypeOK, NEW c \in Calls
  PROVE  call[c].stage = "idle" <=> call[c] = Idle
BY CallFields DEF Idle

(* A keyring is a nonempty sequence of keys whose ids differ.                *)
LEMMA RingKeys ==
  ASSUME NEW ring \in Keyrings
  PROVE  /\ KeysOf(ring) \subseteq Keys
         /\ ring[1] \in KeysOf(ring)
         /\ \A k, l \in KeysOf(ring) : KeyId[k] = KeyId[l] => k = l
         /\ \A id \in IdsOf(ring) : \E k \in KeysOf(ring) : KeyId[k] = id
<1>1. ring \in Seq(Keys) /\ ring # <<>>
  BY KeyringsAssumption
<1>2. 1 \in DOMAIN ring
  BY <1>1
<1>3. \A i, j \in DOMAIN ring : KeyId[ring[i]] = KeyId[ring[j]] => i = j
  BY KeyringsAssumption
<1> QED
  BY <1>1, <1>2, <1>3 DEF KeysOf, IdsOf

(* The row a call would insert is a support under a key of its ring.         *)
LEMMA NewRow ==
  ASSUME TypeOK, NEW c \in Calls, call[c] # Idle
  PROVE  /\ New(c) \in Support
         /\ New(c).proposal = call[c].proposal /\ New(c).subject = call[c].subject
         /\ New(c).key = Primary(c) /\ Primary(c) \in KeysOf(Keyring(c))
         /\ Keyring(c) \in Keyrings
<1>1. Keyring(c) \in Keyrings
  BY CallFields DEF TypeOK, Keyring
<1>2. Primary(c) \in KeysOf(Keyring(c)) /\ Primary(c) \in Keys
  BY <1>1, RingKeys DEF Primary
<1> QED
  BY <1>1, <1>2, CallFields DEF New, Row, Support

-----------------------------------------------------------------------------
(* What the trigger makes of one entry of the registry.                      *)
LEMMA TriggerEntry ==
  ASSUME TypeOK, RowsInv, NEW gone \in SUBSET supports, NEW come \in SUBSET Support,
         Replace(gone, come), NEW id \in KeyIds
  PROVE  /\ registry'[id] = Unregistered <=> registry[id] = Unregistered
         /\ registry'[id].key = registry[id].key
         /\ registry'[id] \in [key : Keys, active : Nat] \cup {Unregistered}
         /\ registry'[id] # Unregistered =>
              registry'[id].active = Cardinality(Under(id)')
<1>1. PICK G : G = {t \in gone : KeyId[t.key] = id}
  OBVIOUS
<1>2. PICK C : C = {t \in come : KeyId[t.key] = id}
  OBVIOUS
<1>3. registry'[id] = [registry[id] EXCEPT !.active =
        (IF registry[id].active < Cardinality(G) THEN 0
         ELSE registry[id].active - Cardinality(G)) + Cardinality(C)]
  BY <1>1, <1>2 DEF Replace, Trigger
<1>4. registry[id] \in [key : Keys, active : Nat] \cup {Unregistered}
  BY DEF TypeOK
<1>5. CASE registry[id] = Unregistered
  <2>1. G = {}
    <3>1. \A t \in supports : t.key \in Keys /\ registry[KeyId[t.key]].key = t.key
      BY DEF TypeOK, Support, RowsInv, KeysRegistered
    <3> QED
      BY <1>1, <1>5, <3>1, NoneAssumption DEF Unregistered
  <2>2. C = {}
    BY <1>2, <1>5 DEF Replace
  <2>3. Cardinality(G) = 0 /\ Cardinality(C) = 0
    BY <2>1, <2>2, FS_EmptySet
  <2>4. registry'[id] = Unregistered
    BY <1>3, <1>5, <2>3 DEF Unregistered
  <2> QED
    BY <1>5, <2>4
<1>6. CASE registry[id] # Unregistered
  <2>1. PICK S : S = Under(id)
    OBVIOUS
  <2>2. S \in SUBSET Support /\ G \in SUBSET S /\ C \in SUBSET Support
    BY <1>1, <1>2, <2>1 DEF Under, TypeOK
  <2>3. C \cap (S \ G) = {}
    BY <1>1, <1>2, <2>1 DEF Under, Replace
  <2>4. Under(id)' = (S \ G) \cup C
    BY <1>1, <1>2, <2>1 DEF Under, Replace
  <2>5. /\ Cardinality((S \ G) \cup C) = Cardinality(S) - Cardinality(G) + Cardinality(C)
        /\ Cardinality(S) \in Nat /\ Cardinality(G) \in Nat /\ Cardinality(C) \in Nat
        /\ Cardinality(G) <= Cardinality(S)
    BY <2>2, <2>3, Finite, Exchange
  <2>6. registry[id].active = Cardinality(S) /\ registry[id] \in [key : Keys, active : Nat]
    BY <1>4, <1>6, <2>1 DEF RowsInv, RegistryCounts
  <2>7. registry'[id] = [registry[id] EXCEPT !.active =
                           Cardinality(S) - Cardinality(G) + Cardinality(C)]
    BY <1>3, <2>5, <2>6
  <2>8. Cardinality(S) - Cardinality(G) + Cardinality(C) \in Nat
    BY <2>5
  <2>9. registry'[id] \in [key : Keys, active : Nat] /\ registry'[id].key = registry[id].key
    BY <2>6, <2>7, <2>8
  <2>10. registry'[id].active = Cardinality(Under(id)')
    BY <2>4, <2>5, <2>6, <2>7
  <2>11. registry'[id] # Unregistered
    BY <2>9, NoneAssumption DEF Unregistered
  <2> QED
    BY <1>6, <2>9, <2>10, <2>11
<1> QED
  BY <1>5, <1>6

(* How many supports a proposal has after rows were replaced.                *)
LEMMA ReplaceCounts ==
  ASSUME TypeOK, NEW gone \in SUBSET supports, NEW come \in SUBSET Support,
         Replace(gone, come), NEW p \in Proposals
  PROVE  /\ Cardinality(Of(p)') = Cardinality(Of(p))
              - Cardinality({t \in gone : t.proposal = p})
              + Cardinality({t \in come : t.proposal = p})
         /\ Cardinality(Of(p)) \in Nat
<1>1. PICK G : G = {t \in gone : t.proposal = p}
  OBVIOUS
<1>2. PICK C : C = {t \in come : t.proposal = p}
  OBVIOUS
<1>3. PICK S : S = Of(p)
  OBVIOUS
<1>4. S \in SUBSET Support /\ G \in SUBSET S /\ C \in SUBSET Support
  BY <1>1, <1>2, <1>3 DEF Of, TypeOK
<1>5. C \cap (S \ G) = {} /\ Of(p)' = (S \ G) \cup C
  BY <1>1, <1>2, <1>3 DEF Of, Replace
<1>6. /\ Cardinality((S \ G) \cup C) = Cardinality(S) - Cardinality(G) + Cardinality(C)
      /\ Cardinality(S) \in Nat
  BY <1>4, <1>5, Finite, Exchange
<1> QED
  BY <1>1, <1>2, <1>3, <1>5, <1>6

(* Rows under registered keys can replace others: types, the registry's      *)
(* counts and its knowledge of keys are kept.                                *)
LEMMA ReplaceKeeps ==
  ASSUME TypeOK, RowsInv, NEW gone \in SUBSET supports, NEW come \in SUBSET Support,
         Replace(gone, come), \A t \in come : registry[KeyId[t.key]].key = t.key
  PROVE  /\ supports' \subseteq Support
         /\ registry' \in [KeyIds -> [key : Keys, active : Nat] \cup {Unregistered}]
         /\ \A id \in KeyIds : registry'[id].key = registry[id].key
         /\ RegistryCounts' /\ KeysRegistered'
<1>1. supports' \subseteq Support
  BY DEF Replace, TypeOK
<1>2. registry' \in [KeyIds -> [key : Keys, active : Nat] \cup {Unregistered}]
  <2>1. registry' = [id \in KeyIds |-> registry'[id]]
    BY DEF Replace, Trigger
  <2> QED
    BY <2>1, TriggerEntry
<1>3. \A id \in KeyIds : registry'[id].key = registry[id].key
  BY TriggerEntry
<1>4. RegistryCounts'
  BY TriggerEntry DEF RegistryCounts
<1>5. KeysRegistered'
  <2>1. \A t \in Support : KeyId[t.key] \in KeyIds
    BY KeysAssumption DEF Support
  <2>2. \A t \in supports' : registry[KeyId[t.key]].key = t.key
    BY DEF Replace, RowsInv, KeysRegistered
  <2> QED
    BY <1>1, <1>3, <2>1, <2>2 DEF KeysRegistered
<1> QED
  BY <1>1, <1>2, <1>3, <1>4, <1>5

-----------------------------------------------------------------------------
(* assertReady registers keys with their true counts, and changes no key     *)
(* that is registered.                                                       *)
LEMMA RegisteredEntries ==
  ASSUME NEW ring \in Keyrings, supports \subseteq Support,
         NEW known \in [KeyIds -> [key : Keys, active : Nat] \cup {Unregistered}],
         \A id \in KeyIds : known[id] # Unregistered =>
           known[id].active = Cardinality(Under(id))
  PROVE  LET new == Registered(ring, known)
         IN  /\ new \in [KeyIds -> [key : Keys, active : Nat] \cup {Unregistered}]
             /\ \A id \in KeyIds :
                  /\ new[id] # Unregistered => new[id].active = Cardinality(Under(id))
                  /\ known[id] # Unregistered => new[id] = known[id]
                  /\ known[id] = Unregistered => \A k \in KeysOf(ring) :
                       KeyId[k] = id => new[id].key = k
                  /\ new[id] = Unregistered => new[id].active = 0
<1> DEFINE new == Registered(ring, known)
<1>1. ASSUME NEW id \in KeyIds
      PROVE  /\ new[id] \in [key : Keys, active : Nat] \cup {Unregistered}
             /\ new[id] # Unregistered => new[id].active = Cardinality(Under(id))
             /\ known[id] # Unregistered => new[id] = known[id]
             /\ known[id] = Unregistered => \A k \in KeysOf(ring) :
                  KeyId[k] = id => new[id].key = k
             /\ new[id] = Unregistered => new[id].active = 0
  <2>1. Cardinality(Under(id)) \in Nat
    BY Finite DEF Under
  <2>2. CASE known[id] = Unregistered /\ id \in IdsOf(ring)
    <3>1. new[id] = [key |-> CHOOSE k \in KeysOf(ring) : KeyId[k] = id,
                     active |-> Cardinality(Under(id))]
      BY <2>2 DEF Registered
    <3>2. PICK k \in KeysOf(ring) : KeyId[k] = id
      BY <2>2, RingKeys
    <3>3. (CHOOSE l \in KeysOf(ring) : KeyId[l] = id) = k
      BY <3>2, RingKeys
    <3>4. new[id] = [key |-> k, active |-> Cardinality(Under(id))] /\ k \in Keys
      BY <3>1, <3>3, RingKeys
    <3>5. new[id] \in [key : Keys, active : Nat] /\ new[id].key = k
      BY <2>1, <3>4
    <3>6. \A l \in KeysOf(ring) : KeyId[l] = id => l = k
      BY <3>2, RingKeys
    <3>7. new[id].active = Cardinality(Under(id)) /\ new[id] # Unregistered
      BY <3>4, NoneAssumption DEF Unregistered
    <3> QED
      BY <2>2, <3>5, <3>6, <3>7
  <2>3. CASE ~(known[id] = Unregistered /\ id \in IdsOf(ring))
    <3>1. new[id] = known[id]
      BY <2>3 DEF Registered
    <3>2. \A k \in KeysOf(ring) : KeyId[k] \in IdsOf(ring)
      BY DEF IdsOf
    <3>3. Unregistered.active = 0
      BY DEF Unregistered
    <3> HIDE DEF new
    <3> QED
      BY <2>3, <3>1, <3>2, <3>3
  <2> QED
    BY <2>2, <2>3
<1>2. new = [id \in KeyIds |-> new[id]]
  BY DEF Registered
<1> HIDE DEF new
<1>3. new \in [KeyIds -> [key : Keys, active : Nat] \cup {Unregistered}]
  BY <1>1, <1>2
<1> QED
  BY <1>1, <1>3 DEF new

(* The servers are activated.                                                *)
LEMMA InitKeeps ==
  ASSUME Init
  PROVE  IInv
<1>1. PICK ring \in Keyrings :
        /\ supports = {} \/ Legacy \in KeysOf(ring)
        /\ keyring = [v \in Servers |-> ring]
        /\ registry = Registered(ring, [id \in KeyIds |-> Unregistered])
  BY DEF Init
<1>2. supports \subseteq Support /\ \A t \in supports : t.key = Legacy
  BY DEF Init
<1>3. PICK none : none = [id \in KeyIds |-> Unregistered]
  OBVIOUS
<1>4. /\ none \in [KeyIds -> [key : Keys, active : Nat] \cup {Unregistered}]
      /\ \A id \in KeyIds : none[id] = Unregistered
  BY <1>3
<1>5. /\ registry \in [KeyIds -> [key : Keys, active : Nat] \cup {Unregistered}]
      /\ \A id \in KeyIds :
           /\ registry[id] # Unregistered => registry[id].active = Cardinality(Under(id))
           /\ \A k \in KeysOf(ring) : KeyId[k] = id => registry[id].key = k
  BY <1>1, <1>2, <1>3, <1>4, RegisteredEntries
<1>6. OneSupportPerSubject
  BY <1>2 DEF OneSupportPerSubject, Support
<1>7. KeysRegistered
  BY <1>1, <1>2, <1>5, KeysAssumption DEF KeysRegistered
<1>8. \A p \in Proposals : Cardinality(Of(p)) \in Nat
  BY <1>2, Finite DEF Of
<1>9. CountIsActive /\ proposal \in [Proposals -> [version : Nat, count : Nat, open : BOOLEAN]]
  BY <1>8 DEF Init, CountIsActive
<1>10. \A c \in Calls : call[c] = Idle
  BY DEF Init
<1>11. ReadsHold
  BY <1>10 DEF ReadsHold, Idle
<1>12. CallsKnowKeys /\ SameKeyring
  BY <1>1, <1>10 DEF CallsKnowKeys, SameKeyring
<1>13. TypeOK
  BY <1>1, <1>2, <1>5, <1>9 DEF TypeOK, Init
<1> QED
  BY <1>5, <1>6, <1>7, <1>9, <1>11, <1>12, <1>13 DEF IInv, RowsInv, RegistryCounts

(* A call that passes assertReady knows every key in use: a key with rows is *)
(* registered with a positive count, so its id is in the ring, and the       *)
(* verifier says that it is the same key.                                    *)
LEMMA AssertReadyKeeps ==
  ASSUME IInv, NEW c \in Calls, NEW v \in Servers, NEW op \in {"add", "revoke"},
         NEW s \in Subjects, NEW p \in Proposals, AssertReady(c, v, op, s, p)
  PROVE  IInv'
<1>1. PICK ring \in Keyrings : ring = keyring[v]
  BY DEF IInv, TypeOK
<1>2. /\ registry' = Registered(ring, registry)
      /\ Verified(ring, registry') /\ Complete(ring, registry')
      /\ call[c] = Idle /\ UNCHANGED <<keyring, supports, proposal>>
  BY <1>1 DEF AssertReady
<1>3. /\ registry' \in [KeyIds -> [key : Keys, active : Nat] \cup {Unregistered}]
      /\ \A id \in KeyIds :
           /\ registry'[id] # Unregistered => registry'[id].active = Cardinality(Under(id))
           /\ registry[id] # Unregistered => registry'[id] = registry[id]
  <2>1. \A id \in KeyIds : registry[id] # Unregistered =>
          registry[id].active = Cardinality(Under(id))
    BY DEF IInv, RowsInv, RegistryCounts
  <2> QED
    BY <1>2, <2>1, RegisteredEntries DEF IInv, TypeOK
<1>4. PICK x : x = [Idle EXCEPT !.stage = "ready", !.server = v, !.op = op,
                                !.subject = s, !.proposal = p]
  OBVIOUS
<1>5. x \in InProgress /\ x.stage = "ready" /\ x.server = v
  <2>1. x = [stage |-> "ready", server |-> v, op |-> op, subject |-> s,
             proposal |-> p, attempt |-> 1, seen |-> 0, told |-> 0]
    BY <1>4 DEF Idle
  <2>2. 1 \in 1 .. MaxAttempts
    BY BoundsAssumption
  <2> QED
    BY <2>1, <2>2 DEF InProgress
<1>6. call' = [call EXCEPT ![c] = x]
  BY <1>4 DEF AssertReady
<1>7. \A k \in Keys : registry[KeyId[k]].key = k => registry'[KeyId[k]].key = k
  BY <1>3, KeysAssumption, NoneAssumption DEF Unregistered
<1>8. \A t \in supports : t.key \in Keys /\ registry'[KeyId[t.key]].key = t.key
  BY <1>7 DEF IInv, TypeOK, RowsInv, KeysRegistered, Support
<1>9. \A t \in supports : t.key \in KeysOf(ring)
  <2> SUFFICES ASSUME NEW t \in supports PROVE t.key \in KeysOf(ring)
    OBVIOUS
  <2>1. PICK id \in KeyIds : id = KeyId[t.key]
    BY <1>8, KeysAssumption
  <2>2. registry'[id] # Unregistered
    BY <1>8, <2>1, NoneAssumption DEF Unregistered
  <2>3. registry'[id].active # 0
    <3>1. t \in Under(id) /\ Under(id) \in SUBSET Support
      BY <2>1 DEF Under, IInv, TypeOK
    <3>2. Cardinality(Under(id)) # 0
      BY <3>1, Finite, FS_EmptySet
    <3> QED
      BY <1>3, <2>2, <3>2
  <2>4. id \in IdsOf(ring)
    BY <1>2, <2>3 DEF Complete
  <2>5. PICK k \in KeysOf(ring) : KeyId[k] = id
    BY <2>4, RingKeys
  <2> QED
    BY <1>2, <1>8, <2>1, <2>5 DEF Verified
<1>10. TypeOK'
  BY <1>2, <1>3, <1>5, <1>6 DEF IInv, TypeOK
<1>11. RowsInv'
  <2>1. RegistryCounts'
    BY <1>2, <1>3 DEF RegistryCounts, Under
  <2>2. KeysRegistered'
    BY <1>2, <1>8 DEF KeysRegistered
  <2> QED
    BY <1>2, <2>1, <2>2 DEF IInv, RowsInv, OneSupportPerSubject, CountIsActive, Of
<1>12. CallsKnowKeys'
  <2> SUFFICES ASSUME NEW d \in Calls, call'[d] # Idle
               PROVE  /\ \A t \in supports : t.key \in KeysOf(keyring[call'[d].server])
                      /\ \A k \in KeysOf(keyring[call'[d].server]) :
                           registry'[KeyId[k]].key = k
    BY <1>2 DEF CallsKnowKeys, Keyring
  <2>1. CASE d = c
    BY <1>1, <1>2, <1>5, <1>6, <1>9, <2>1 DEF Verified, IInv, TypeOK
  <2>2. CASE d # c
    <3>1. call'[d] = call[d]
      BY <1>6, <2>2 DEF IInv, TypeOK
    <3>2. Keyring(d) \in Keyrings
      BY <3>1, NewRow DEF IInv
    <3>3. KeysOf(Keyring(d)) \subseteq Keys
      BY <3>2, RingKeys
    <3> QED
      BY <1>7, <3>1, <3>3 DEF IInv, CallsKnowKeys, Keyring
  <2> QED
    BY <2>1, <2>2
<1>13. ReadsHold'
  BY <1>2, <1>5, <1>6 DEF IInv, TypeOK, ReadsHold
<1> QED
  BY <1>2, <1>10, <1>11, <1>12, <1>13 DEF IInv, SameKeyring

-----------------------------------------------------------------------------
(* A call goes on, or ends, and changes nothing else.                        *)
LEMMA CallStepKeeps ==
  ASSUME IInv, NEW c \in Calls, NEW x, call[c] # Idle,
         call' = [call EXCEPT ![c] = x],
         UNCHANGED <<keyring, supports, registry, proposal>>,
         \/ x = Idle
         \/ x \in InProgress /\ x.server = call[c].server,
         x.stage = "read" =>
           /\ x.seen <= proposal[x.proposal].version
           /\ x.seen = proposal[x.proposal].version =>
                x.told = After(x.op, proposal[x.proposal].count)
  PROVE  IInv'
<1>1. call'[c] = x /\ \A d \in Calls : d # c => call'[d] = call[d]
  BY DEF IInv, TypeOK
<1>2. TypeOK'
  BY DEF IInv, TypeOK
<1>3. RowsInv'
  BY DEF IInv, RowsInv, OneSupportPerSubject, CountIsActive, RegistryCounts,
         KeysRegistered, Of, Under
<1>4. CallsKnowKeys'
  <2> SUFFICES ASSUME NEW d \in Calls, call'[d] # Idle
               PROVE  /\ \A t \in supports : t.key \in KeysOf(keyring[call'[d].server])
                      /\ \A k \in KeysOf(keyring[call'[d].server]) :
                           registry[KeyId[k]].key = k
    BY DEF CallsKnowKeys, Keyring
  <2>1. call[d] # Idle /\ call'[d].server = call[d].server
    BY <1>1
  <2> QED
    BY <2>1 DEF IInv, CallsKnowKeys, Keyring
<1>5. ReadsHold'
  BY <1>1 DEF IInv, ReadsHold, Idle
<1> QED
  BY <1>2, <1>3, <1>4, <1>5 DEF IInv, SameKeyring

(* The proposal's row gets a new version: no attempt in progress has read    *)
(* that version.                                                             *)
LEMMA NewVersionKeepsReads ==
  ASSUME IInv, NEW p \in Proposals, NEW count \in Nat, NEW open \in BOOLEAN,
         proposal' = [proposal EXCEPT ![p] =
           [version |-> proposal[p].version + 1, count |-> count, open |-> open]],
         \A d \in Calls : call'[d] = call[d] \/ call'[d] = Idle
  PROVE  /\ ReadsHold'
         /\ proposal' \in [Proposals -> [version : Nat, count : Nat, open : BOOLEAN]]
         /\ proposal'[p].count = count
         /\ \A q \in Proposals : q # p => proposal'[q] = proposal[q]
<1>1. proposal \in [Proposals -> [version : Nat, count : Nat, open : BOOLEAN]]
  BY DEF IInv, TypeOK
<1>2. PICK n \in Nat : n = proposal[p].version
  BY <1>1
<1>3. proposal' = [proposal EXCEPT ![p] = [version |-> n + 1, count |-> count, open |-> open]]
  BY <1>2
<1>4. /\ proposal'[p].version = n + 1 /\ proposal'[p].count = count
      /\ \A q \in Proposals : q # p => proposal'[q] = proposal[q]
      /\ proposal' \in [Proposals -> [version : Nat, count : Nat, open : BOOLEAN]]
  BY <1>1, <1>3
<1>5. ReadsHold'
  <2> SUFFICES ASSUME NEW d \in Calls, call'[d].stage = "read"
               PROVE  LET row == proposal'[call'[d].proposal]
                      IN  /\ call'[d].seen <= row.version
                          /\ call'[d].seen = row.version =>
                               call'[d].told = After(call'[d].op, row.count)
    BY DEF ReadsHold, After
  <2>1. call'[d] = call[d] /\ call[d].stage = "read" /\ call[d] # Idle
    BY DEF Idle
  <2>2. call[d].seen \in Nat /\ call[d].proposal \in Proposals
    BY <2>1, CallFields DEF IInv
  <2>3. /\ call[d].seen <= proposal[call[d].proposal].version
        /\ call[d].seen = proposal[call[d].proposal].version =>
             call[d].told = After(call[d].op, proposal[call[d].proposal].count)
    BY <2>1 DEF IInv, ReadsHold
  <2>4. CASE call[d].proposal = p
    BY <1>2, <1>4, <2>1, <2>2, <2>3, <2>4
  <2>5. CASE call[d].proposal # p
    BY <1>4, <2>1, <2>2, <2>3, <2>5
  <2> QED
    BY <2>4, <2>5
<1> QED
  BY <1>4, <1>5

(* A call replaces rows by its new row, or ends them, and returns.           *)
LEMMA RowStepKeeps ==
  ASSUME IInv, NEW c \in Calls, call[c] # Idle,
         NEW gone \in SUBSET supports, NEW come \in SUBSET {New(c)},
         Replace(gone, come), Return(c), keyring' = keyring
  PROVE  /\ supports' \subseteq Support
         /\ registry' \in [KeyIds -> [key : Keys, active : Nat] \cup {Unregistered}]
         /\ call' \in [Calls -> InProgress \cup {Idle}]
         /\ \A d \in Calls : call'[d] = call[d] \/ call'[d] = Idle
         /\ RegistryCounts' /\ KeysRegistered' /\ CallsKnowKeys' /\ SameKeyring'
<1>1. come \in SUBSET Support /\ \A t \in come : registry[KeyId[t.key]].key = t.key
  BY NewRow DEF IInv, CallsKnowKeys
<1>2. TypeOK /\ RowsInv
  BY DEF IInv
<1>3. /\ supports' \subseteq Support
      /\ registry' \in [KeyIds -> [key : Keys, active : Nat] \cup {Unregistered}]
      /\ \A id \in KeyIds : registry'[id].key = registry[id].key
      /\ RegistryCounts' /\ KeysRegistered'
  BY <1>1, <1>2, ReplaceKeeps
<1>4. /\ call' \in [Calls -> InProgress \cup {Idle}]
      /\ \A d \in Calls : call'[d] = call[d] \/ call'[d] = Idle
  BY DEF IInv, TypeOK, Return
<1>5. CallsKnowKeys'
  <2> SUFFICES ASSUME NEW d \in Calls, call'[d] # Idle
               PROVE  /\ \A t \in supports' : t.key \in KeysOf(keyring[call'[d].server])
                      /\ \A k \in KeysOf(keyring[call'[d].server]) :
                           registry'[KeyId[k]].key = k
    BY DEF CallsKnowKeys, Keyring
  <2>1. call'[d] = call[d] /\ call[d] # Idle
    BY <1>4
  <2>2. Keyring(d) = Keyring(c) /\ Keyring(d) \in Keyrings
    BY <2>1, CallFields, NewRow DEF IInv, SameKeyring, Keyring
  <2>3. \A t \in supports' : t.key \in KeysOf(Keyring(d))
    BY <2>1, <2>2, NewRow DEF IInv, CallsKnowKeys, Replace
  <2>4. \A k \in KeysOf(Keyring(d)) : registry'[KeyId[k]].key = k
    BY <1>3, <2>1, <2>2, RingKeys, KeysAssumption DEF IInv, CallsKnowKeys
  <2> QED
    BY <2>1, <2>3, <2>4 DEF Keyring
<1>6. SameKeyring'
  BY DEF IInv, SameKeyring
<1> QED
  BY <1>3, <1>4, <1>5, <1>6

(* The supports found under a ring that knows every key are all there are.   *)
LEMMA MineAreAll ==
  ASSUME IInv, NEW c \in Calls, call[c] # Idle
  PROVE  \A t \in supports :
           t.proposal = call[c].proposal /\ t.subject = call[c].subject => t \in Mine(c)
BY DEF IInv, CallsKnowKeys, Mine

(* A support under another key is brought under the primary one.             *)
LEMMA NormalizeKeeps ==
  ASSUME IInv, NEW c \in Calls, Normalize(c)
  PROVE  IInv'
<1>1. call[c] # Idle
  BY DEF Normalize, Idle
<1>2. PICK t \in Mine(c) : Replace({t} \ {New(c)}, {New(c)} \ {t})
  BY DEF Normalize
<1>3. PICK gone : gone = {t} \ {New(c)}
  OBVIOUS
<1>4. PICK come : come = {New(c)} \ {t}
  OBVIOUS
<1>5. /\ t \in supports /\ t.proposal = New(c).proposal /\ t.subject = New(c).subject
      /\ New(c) \in Support
  BY <1>1, NewRow DEF IInv, Mine
<1>6. gone \in SUBSET supports /\ come \in SUBSET {New(c)} /\ come \in SUBSET Support
  BY <1>3, <1>4, <1>5
<1>7. Replace(gone, come) /\ Return(c) /\ UNCHANGED <<keyring, proposal>>
  BY <1>2, <1>3, <1>4 DEF Normalize
<1>8. /\ supports' \subseteq Support
      /\ registry' \in [KeyIds -> [key : Keys, active : Nat] \cup {Unregistered}]
      /\ call' \in [Calls -> InProgress \cup {Idle}]
      /\ \A d \in Calls : call'[d] = call[d] \/ call'[d] = Idle
      /\ RegistryCounts' /\ KeysRegistered' /\ CallsKnowKeys' /\ SameKeyring'
  BY <1>1, <1>6, <1>7, RowStepKeeps
<1>9. supports' = (supports \ {t}) \cup {New(c)}
  BY <1>3, <1>4, <1>5, <1>7 DEF Replace
<1>10. OneSupportPerSubject'
  BY <1>5, <1>9 DEF IInv, RowsInv, OneSupportPerSubject
<1>11. CountIsActive'
  <2> SUFFICES ASSUME NEW p \in Proposals PROVE Cardinality(Of(p)') = Cardinality(Of(p))
    BY <1>7 DEF IInv, RowsInv, CountIsActive
  <2>1. CASE gone = {} /\ come = {}
    BY <1>7, <2>1 DEF Replace, Of
  <2>2. CASE gone = {t} /\ come = {New(c)}
    <3>1. /\ Cardinality(Of(p)') = Cardinality(Of(p))
               - Cardinality({u \in gone : u.proposal = p})
               + Cardinality({u \in come : u.proposal = p})
          /\ Cardinality(Of(p)) \in Nat
      BY <1>6, <1>7, ReplaceCounts DEF IInv
    <3>2. Cardinality({u \in gone : u.proposal = p}) = Cardinality({u \in come : u.proposal = p})
      <4>1. CASE t.proposal = p
        <5>1. {u \in gone : u.proposal = p} = {t} /\ {u \in come : u.proposal = p} = {New(c)}
          BY <1>5, <2>2, <4>1
        <5> QED
          BY <5>1, FS_Singleton
      <4>2. CASE t.proposal # p
        <5>1. {u \in gone : u.proposal = p} = {} /\ {u \in come : u.proposal = p} = {}
          BY <1>5, <2>2, <4>2
        <5> QED
          BY <5>1
      <4> QED
        BY <4>1, <4>2
    <3>3. Cardinality({u \in come : u.proposal = p}) \in Nat
      BY <1>6, Finite
    <3> QED
      BY <3>1, <3>2, <3>3
  <2> QED
    BY <1>3, <1>4, <2>1, <2>2
<1>12. ReadsHold'
  BY <1>7, <1>8 DEF IInv, ReadsHold, Idle
<1> QED
  BY <1>7, <1>8, <1>10, <1>11, <1>12 DEF IInv, TypeOK, RowsInv

(* A new support is its subject's only one, and is counted.                  *)
LEMMA AddKeeps ==
  ASSUME IInv, NEW c \in Calls, Add(c)
  PROVE  IInv'
<1>1. PICK p \in Proposals : p = call[c].proposal /\ call[c] # Idle
  BY CallFields DEF Add, Idle, IInv
<1>2. PICK t \in Support : t = New(c) /\ t.proposal = p /\ t.subject = call[c].subject
  BY <1>1, NewRow DEF IInv
<1>3. PICK come : come = {t}
  OBVIOUS
<1>4. /\ Mine(c) = {} /\ Replace({}, come) /\ Return(c) /\ keyring' = keyring
      /\ Counted(c, proposal[p].count + 1)
  BY <1>1, <1>2, <1>3 DEF Add
<1>5. {} \in SUBSET supports /\ come \in SUBSET {New(c)} /\ come \in SUBSET Support
  BY <1>2, <1>3
<1>6. /\ supports' \subseteq Support
      /\ registry' \in [KeyIds -> [key : Keys, active : Nat] \cup {Unregistered}]
      /\ call' \in [Calls -> InProgress \cup {Idle}]
      /\ \A d \in Calls : call'[d] = call[d] \/ call'[d] = Idle
      /\ RegistryCounts' /\ KeysRegistered' /\ CallsKnowKeys' /\ SameKeyring'
  BY <1>1, <1>4, <1>5, RowStepKeeps
<1>7. supports' = supports \cup {t}
  BY <1>3, <1>4 DEF Replace
<1>8. OneSupportPerSubject'
  <2>1. \A u \in supports : ~(u.proposal = p /\ u.subject = t.subject)
    BY <1>1, <1>2, <1>4, MineAreAll
  <2> QED
    BY <1>2, <1>7, <2>1 DEF IInv, RowsInv, OneSupportPerSubject
<1>9. proposal[p].count \in Nat /\ proposal[p].count = Cardinality(Of(p))
      /\ proposal[p].open \in BOOLEAN
  BY DEF IInv, TypeOK, RowsInv, CountIsActive
<1>10. PICK n \in Nat : n = proposal[p].count + 1
  BY <1>9
<1>11. /\ ReadsHold'
       /\ proposal' \in [Proposals -> [version : Nat, count : Nat, open : BOOLEAN]]
       /\ proposal'[p].count = n
       /\ \A q \in Proposals : q # p => proposal'[q] = proposal[q]
  <2>1. proposal' = [proposal EXCEPT ![p] =
          [version |-> proposal[p].version + 1, count |-> n, open |-> proposal[p].open]]
    BY <1>1, <1>4, <1>10 DEF Counted
  <2> QED
    BY <1>6, <1>9, <2>1, NewVersionKeepsReads
<1>12. CountIsActive'
  <2> SUFFICES ASSUME NEW q \in Proposals PROVE proposal'[q].count = Cardinality(Of(q)')
    BY DEF CountIsActive
  <2>1. /\ Cardinality(Of(q)') = Cardinality(Of(q)) - Cardinality({u \in {} : u.proposal = q})
             + Cardinality({u \in come : u.proposal = q})
        /\ Cardinality(Of(q)) \in Nat
    BY <1>4, <1>5, ReplaceCounts DEF IInv
  <2>2. Cardinality({u \in {} : u.proposal = q}) = 0
    <3>1. {u \in {} : u.proposal = q} = {}
      OBVIOUS
    <3> QED
      BY <3>1, FS_EmptySet
  <2>3. CASE q = p
    <3>1. {u \in come : u.proposal = q} = {t}
      BY <1>2, <1>3, <2>3
    <3>2. Cardinality({u \in come : u.proposal = q}) = 1
      BY <3>1, FS_Singleton
    <3> QED
      BY <1>9, <1>10, <1>11, <2>1, <2>2, <2>3, <3>2
  <2>4. CASE q # p
    <3>1. {u \in come : u.proposal = q} = {}
      BY <1>2, <1>3, <2>4
    <3>2. Cardinality({u \in come : u.proposal = q}) = 0
      BY <3>1, FS_EmptySet
    <3>3. proposal[q].count = Cardinality(Of(q))
      BY DEF IInv, RowsInv, CountIsActive
    <3> QED
      BY <1>11, <2>1, <2>2, <2>4, <3>2, <3>3
  <2> QED
    BY <2>3, <2>4
<1> QED
  BY <1>4, <1>6, <1>8, <1>11, <1>12 DEF IInv, TypeOK, RowsInv

(* A revocation ends the one support of its subject, and counts it off.      *)
LEMMA RevokeKeeps ==
  ASSUME IInv, NEW c \in Calls, Revoke(c)
  PROVE  IInv'
<1>1. PICK p \in Proposals : p = call[c].proposal /\ call[c] # Idle
  BY CallFields DEF Revoke, Idle, IInv
<1>2. PICK t \in Mine(c) : Mine(c) = {t}
  BY DEF Revoke, SomethingToRevoke, Mine, IInv, RowsInv, OneSupportPerSubject
<1>3. PICK gone : gone = {t}
  OBVIOUS
<1>4. /\ Replace(gone, {}) /\ Return(c) /\ keyring' = keyring
      /\ Counted(c, IF proposal[p].count = 0 THEN 0 ELSE proposal[p].count - 1)
  BY <1>1, <1>2, <1>3 DEF Revoke
<1>5. t \in supports /\ t.proposal = p
  BY <1>1, <1>2 DEF Mine
<1>6. gone \in SUBSET supports /\ {} \in SUBSET {New(c)} /\ {} \in SUBSET Support
  BY <1>3, <1>5
<1>7. /\ supports' \subseteq Support
      /\ registry' \in [KeyIds -> [key : Keys, active : Nat] \cup {Unregistered}]
      /\ call' \in [Calls -> InProgress \cup {Idle}]
      /\ \A d \in Calls : call'[d] = call[d] \/ call'[d] = Idle
      /\ RegistryCounts' /\ KeysRegistered' /\ CallsKnowKeys' /\ SameKeyring'
  BY <1>1, <1>4, <1>6, RowStepKeeps
<1>8. OneSupportPerSubject'
  BY <1>4 DEF IInv, RowsInv, OneSupportPerSubject, Replace
<1>9. /\ proposal[p].count \in Nat /\ proposal[p].count = Cardinality(Of(p))
      /\ proposal[p].open \in BOOLEAN
  BY DEF IInv, TypeOK, RowsInv, CountIsActive
<1>10. proposal[p].count # 0
  <2>1. t \in Of(p) /\ Of(p) \in SUBSET Support
    BY <1>5 DEF Of, IInv, TypeOK
  <2> QED
    BY <1>9, <2>1, Finite, FS_EmptySet
<1>11. PICK n \in Nat : n = proposal[p].count - 1
  BY <1>9, <1>10
<1>12. proposal' = [proposal EXCEPT ![p] =
         [version |-> proposal[p].version + 1, count |-> n, open |-> proposal[p].open]]
  BY <1>1, <1>4, <1>10, <1>11 DEF Counted
<1>13. /\ ReadsHold'
       /\ proposal' \in [Proposals -> [version : Nat, count : Nat, open : BOOLEAN]]
       /\ proposal'[p].count = n
       /\ \A q \in Proposals : q # p => proposal'[q] = proposal[q]
  BY <1>7, <1>9, <1>12, NewVersionKeepsReads
<1>14. CountIsActive'
  <2> SUFFICES ASSUME NEW q \in Proposals PROVE proposal'[q].count = Cardinality(Of(q)')
    BY DEF CountIsActive
  <2>1. /\ Cardinality(Of(q)') = Cardinality(Of(q)) - Cardinality({u \in gone : u.proposal = q})
             + Cardinality({u \in {} : u.proposal = q})
        /\ Cardinality(Of(q)) \in Nat
    BY <1>4, <1>6, ReplaceCounts DEF IInv
  <2>2. Cardinality({u \in {} : u.proposal = q}) = 0
    <3>1. {u \in {} : u.proposal = q} = {}
      OBVIOUS
    <3> QED
      BY <3>1, FS_EmptySet
  <2>3. CASE q = p
    <3>1. {u \in gone : u.proposal = q} = {t}
      BY <1>3, <1>5, <2>3
    <3>2. Cardinality({u \in gone : u.proposal = q}) = 1
      BY <3>1, FS_Singleton
    <3> QED
      BY <1>9, <1>11, <1>13, <2>1, <2>2, <2>3, <3>2
  <2>4. CASE q # p
    <3>1. {u \in gone : u.proposal = q} = {}
      BY <1>3, <1>5, <2>4
    <3>2. Cardinality({u \in gone : u.proposal = q}) = 0
      BY <3>1, FS_EmptySet
    <3>3. proposal[q].count = Cardinality(Of(q))
      BY DEF IInv, RowsInv, CountIsActive
    <3> QED
      BY <1>13, <2>1, <2>2, <2>4, <3>2, <3>3
  <2> QED
    BY <2>3, <2>4
<1> QED
  BY <1>4, <1>7, <1>8, <1>13, <1>14 DEF IInv, TypeOK, RowsInv

-----------------------------------------------------------------------------
(* The steps of a call that change no row.                                   *)
LEMMA OtherStepsKeep ==
  ASSUME IInv, NEW c \in Calls,
         NoSupportYet(c) \/ Read(c) \/ Refuse(c) \/ Retry(c) \/ Abort(c)
  PROVE  IInv'
<1>1. call[c] # Idle
  BY DEF NoSupportYet, Read, Refuse, Retry, Abort, Idle
<1>2. /\ call[c] \in InProgress /\ call[c].proposal \in Proposals
      /\ call[c].op \in {"add", "revoke"} /\ call[c].attempt \in 1 .. MaxAttempts
      /\ MaxAttempts \in Nat
  BY <1>1, CallFields, BoundsAssumption DEF IInv
<1>3. ASSUME NoSupportYet(c) PROVE IInv'
  <2>1. PICK x : x = [call[c] EXCEPT !.stage = "settled"]
    OBVIOUS
  <2>2. x \in InProgress /\ x.server = call[c].server /\ x.stage = "settled"
    BY <1>2, <2>1 DEF InProgress
  <2>3. call' = [call EXCEPT ![c] = x]
    BY <1>3, <2>1 DEF NoSupportYet, Goto, IInv, TypeOK
  <2> QED
    BY <1>1, <1>3, <2>2, <2>3, CallStepKeeps DEF NoSupportYet
<1>4. ASSUME Read(c) PROVE IInv'
  <2>1. PICK row \in [version : Nat, count : Nat, open : BOOLEAN] :
          row = proposal[call[c].proposal]
    BY <1>2 DEF IInv, TypeOK
  <2>2. PICK told \in Nat : told = After(call[c].op, row.count)
    BY <2>1 DEF After
  <2>3. PICK x : x = [call[c] EXCEPT !.stage = "read", !.told = told, !.seen = row.version]
    OBVIOUS
  <2>4. call' = [call EXCEPT ![c] = x]
    BY <1>4, <2>1, <2>2, <2>3 DEF Read, After
  <2>5. /\ x \in InProgress /\ x.server = call[c].server /\ x.stage = "read"
        /\ x.proposal = call[c].proposal /\ x.op = call[c].op
        /\ x.seen = row.version /\ x.told = told
    BY <1>2, <2>1, <2>2, <2>3 DEF InProgress
  <2>6. UNCHANGED <<keyring, supports, registry, proposal>>
    BY <1>4 DEF Read
  <2>7. row.version \in Nat /\ proposal[x.proposal] = row
    BY <2>1, <2>5
  <2>8. x.seen <= row.version /\ x.told = After(x.op, row.count)
    BY <2>2, <2>5, <2>7
  <2> QED
    BY <1>1, <2>4, <2>5, <2>6, <2>7, <2>8, CallStepKeeps
<1>5. ASSUME Retry(c) PROVE IInv'
  <2>1. PICK stage \in {"ready", "settled"} :
          call' = [call EXCEPT ![c] = [call[c] EXCEPT !.stage = stage,
                     !.attempt = call[c].attempt + 1, !.seen = 0, !.told = 0]]
    BY <1>5 DEF Retry
  <2>2. PICK x : x = [call[c] EXCEPT !.stage = stage,
                     !.attempt = call[c].attempt + 1, !.seen = 0, !.told = 0]
    OBVIOUS
  <2>3. call[c].attempt + 1 \in 1 .. MaxAttempts
    BY <1>2, <1>5 DEF Retry, MayRetry
  <2>4. x \in InProgress /\ x.server = call[c].server /\ x.stage # "read"
    BY <1>2, <2>2, <2>3 DEF InProgress
  <2> QED
    BY <1>1, <1>5, <2>1, <2>2, <2>4, CallStepKeeps DEF Retry
<1>6. ASSUME Refuse(c) \/ Abort(c) PROVE IInv'
  <2>1. call' = [call EXCEPT ![c] = Idle] /\ Idle.stage # "read"
    BY <1>6 DEF Refuse, Abort, Return, Idle
  <2> QED
    BY <1>1, <1>6, <2>1, CallStepKeeps DEF Refuse, Abort
<1> QED
  BY <1>3, <1>4, <1>5, <1>6

(* Another service changes the status.                                       *)
LEMMA StatusChangesKeeps ==
  ASSUME IInv, NEW p \in Proposals, StatusChanges(p)
  PROVE  IInv'
<1>1. PICK open \in BOOLEAN :
        proposal' = [proposal EXCEPT ![p] =
          [version |-> proposal[p].version + 1, count |-> proposal[p].count, open |-> open]]
  BY DEF StatusChanges
<1>2. UNCHANGED <<keyring, supports, registry, call>> /\ proposal[p].count \in Nat
  BY DEF StatusChanges, IInv, TypeOK
<1>3. /\ ReadsHold'
      /\ proposal' \in [Proposals -> [version : Nat, count : Nat, open : BOOLEAN]]
      /\ proposal'[p].count = proposal[p].count
      /\ \A q \in Proposals : q # p => proposal'[q] = proposal[q]
  BY <1>1, <1>2, NewVersionKeepsReads
<1>4. CountIsActive'
  BY <1>2, <1>3 DEF IInv, RowsInv, CountIsActive, Of
<1>5. TypeOK'
  BY <1>2, <1>3 DEF IInv, TypeOK
<1>6. OneSupportPerSubject' /\ RegistryCounts' /\ KeysRegistered'
  BY <1>2 DEF IInv, RowsInv, OneSupportPerSubject, RegistryCounts, KeysRegistered, Under
<1> QED
  BY <1>2, <1>3, <1>4, <1>5, <1>6
  DEF IInv, RowsInv, SameKeyring, CallsKnowKeys, Keyring

(* All servers are restarted with one keyring: no call survives.             *)
LEMMA DeployKeeps ==
  ASSUME IInv, Together, NEW servers \in Deployments, NEW ring \in Keyrings,
         Deploy(servers, ring)
  PROVE  IInv'
<1>1. servers = Servers /\ UNCHANGED <<supports, registry, proposal>>
  BY DEF Together, Deploy
<1>2. keyring' = [v \in Servers |-> ring]
  BY <1>1 DEF Deploy
<1>3. \A c \in Calls : call'[c] = Idle
  BY <1>1, CallFields DEF Deploy, IInv
<1>4. TypeOK'
  BY <1>1, <1>2 DEF Deploy, IInv, TypeOK
<1>5. RowsInv'
  BY <1>1 DEF IInv, RowsInv, OneSupportPerSubject, CountIsActive, RegistryCounts,
              KeysRegistered, Of, Under
<1>6. CallsKnowKeys' /\ ReadsHold'
  BY <1>3 DEF CallsKnowKeys, ReadsHold, Idle
<1>7. SameKeyring'
  BY <1>2 DEF SameKeyring
<1> QED
  BY <1>4, <1>5, <1>6, <1>7 DEF IInv

LEMMA NextKeeps ==
  ASSUME IInv, Together, [Next]_vars
  PROVE  IInv'
<1>1. ASSUME NEW c \in Calls, Step(c) PROVE IInv'
  BY <1>1, AssertReadyKeeps, NormalizeKeeps, AddKeeps, RevokeKeeps, OtherStepsKeep DEF Step
<1>2. ASSUME NEW p \in Proposals, StatusChanges(p) PROVE IInv'
  BY <1>2, StatusChangesKeeps
<1>3. ASSUME NEW servers \in Deployments, NEW ring \in Keyrings, Deploy(servers, ring)
      PROVE  IInv'
  BY <1>3, DeployKeeps
<1>4. CASE UNCHANGED vars
  BY <1>4 DEF vars, IInv, TypeOK, RowsInv, OneSupportPerSubject, CountIsActive,
              RegistryCounts, KeysRegistered, Of, Under, SameKeyring, CallsKnowKeys,
              Keyring, ReadsHold
<1> QED
  BY <1>1, <1>2, <1>3, <1>4 DEF Next

LEMMA Invariance ==
  ASSUME Together
  PROVE  Spec => []IInv
<1>1. Init => IInv
  BY InitKeeps
<1>2. IInv /\ [Next]_vars => IInv'
  BY NextKeeps
<1> QED
  BY <1>1, <1>2, PTL DEF Spec

-----------------------------------------------------------------------------
(* Types are kept by every step.                                             *)
THEOREM TypeCorrect ==
  ASSUME Together
  PROVE  Spec => []TypeOK
<1>1. IInv => TypeOK
  BY DEF IInv
<1> QED
  BY <1>1, Invariance, PTL

(* When servers change their keyring together, no subject ever has two       *)
(* active supports of one proposal: neither racing calls, nor retries, nor   *)
(* keys that come and go in any order.                                       *)
THEOREM OneSupport ==
  ASSUME Together
  PROVE  Spec => []OneSupportPerSubject
<1>1. IInv => OneSupportPerSubject
  BY DEF IInv, RowsInv
<1> QED
  BY <1>1, Invariance, PTL

(* ... and a proposal shows the number of its active supports.               *)
THEOREM CountsAreTrue ==
  ASSUME Together
  PROVE  Spec => []CountIsActive
<1>1. IInv => CountIsActive
  BY DEF IInv, RowsInv
<1> QED
  BY <1>1, Invariance, PTL

(* The trigger keeps the registry's counts true through insertions,          *)
(* revocations and changes of key.                                           *)
THEOREM RegistryIsTrue ==
  ASSUME Together
  PROVE  Spec => []RegistryCounts
<1>1. IInv => RegistryCounts
  BY DEF IInv, RowsInv
<1> QED
  BY <1>1, Invariance, PTL

(* What an addition or a revocation makes of the row.                        *)
LEMMA Outcome ==
  ASSUME IInv, NEW c \in Calls, Add(c) \/ Revoke(c)
  PROVE  /\ call[c] # Idle /\ call[c].proposal \in Proposals
         /\ proposal' = [proposal EXCEPT ![call[c].proposal] =
              [version |-> proposal[call[c].proposal].version + 1,
               count |-> After(call[c].op, proposal[call[c].proposal].count),
               open |-> proposal[call[c].proposal].open]]
         /\ proposal'[call[c].proposal].count =
              After(call[c].op, proposal[call[c].proposal].count)
         /\ call[c].told = After(call[c].op, proposal[call[c].proposal].count)
<1>1. call[c] # Idle /\ call[c].proposal \in Proposals /\ call[c].stage = "read"
  BY CallFields DEF Add, Revoke, Idle, IInv
<1>2. proposal' = [proposal EXCEPT ![call[c].proposal] =
         [version |-> proposal[call[c].proposal].version + 1,
          count |-> After(call[c].op, proposal[call[c].proposal].count),
          open |-> proposal[call[c].proposal].open]]
  BY DEF Add, Revoke, Counted, After
<1>3. call[c].seen = proposal[call[c].proposal].version
  BY DEF Add, Revoke, Unmoved
<1>4. call[c].told = After(call[c].op, proposal[call[c].proposal].count)
  BY <1>1, <1>3 DEF IInv, ReadsHold
<1>5. proposal'[call[c].proposal].count =
        After(call[c].op, proposal[call[c].proposal].count)
  BY <1>1, <1>2 DEF IInv, TypeOK
<1> QED
  BY <1>1, <1>2, <1>4, <1>5

(* An event tells the count its transaction leaves.                          *)
THEOREM EventsTellCounts ==
  ASSUME Together
  PROVE  Spec => EventTellsCount
<1>1. IInv /\ [Next]_vars =>
        [\A c \in Calls :
           supports' # supports /\ call[c].stage = "read" /\ call'[c] # call[c]
           => call[c].told = proposal'[call[c].proposal].count]_vars
  <2> SUFFICES ASSUME IInv, Next, NEW c \in Calls, supports' # supports,
                      call[c].stage = "read", call'[c] # call[c]
               PROVE  call[c].told = proposal'[call[c].proposal].count
    BY DEF vars
  <2>1. \A p \in Proposals : ~StatusChanges(p)
    BY DEF StatusChanges
  <2>2. \A servers \in Deployments, ring \in Keyrings : ~Deploy(servers, ring)
    BY DEF Deploy
  <2>3. PICK d \in Calls : Step(d)
    BY <2>1, <2>2 DEF Next
  <2>4. Normalize(d) \/ Add(d) \/ Revoke(d)
    BY <2>3 DEF Step, AssertReady, NoSupportYet, Read, Refuse, Retry, Abort
  <2>5. d = c
    BY <2>4 DEF Normalize, Add, Revoke, Return, IInv, TypeOK
  <2>6. Add(c) \/ Revoke(c)
    BY <2>4, <2>5 DEF Normalize
  <2> QED
    BY <2>6, Outcome
<1> QED
  BY <1>1, Invariance, PTL DEF Spec, EventTellsCount

-----------------------------------------------------------------------------
(* The subjects with a support of a proposal.                                *)
SupportersOf(p) == {t.subject : t \in Of(p)}

(* Rows that are replaced without a change of subject change no supporters.  *)
LEMMA SameSupporters ==
  ASSUME supports' = supports, proposal' = proposal \/
           \A p \in Proposals : proposal'[p].count = proposal[p].count
  PROVE  UNCHANGED People!vars
BY DEF People!vars, Of

LEMMA InitImplements ==
  ASSUME Init
  PROVE  People!Init
<1>1. \A p \in Proposals : Of(p) \in SUBSET Support
  BY DEF Init, Of
<1>2. \A p \in Proposals : Cardinality(Of(p)) \in Nat
  BY <1>1, Finite
<1>3. \A p \in Proposals : proposal[p].count \in Nat
  BY <1>2 DEF Init
<1>4. \A p \in Proposals : \A t \in Of(p) : t.subject \in Subjects
  BY <1>1 DEF Support
<1> QED
  BY <1>3, <1>4 DEF People!Init

LEMMA AddJoins ==
  ASSUME IInv, NEW c \in Calls, Add(c)
  PROVE  People!Next
<1>1. PICK p \in Proposals, s \in Subjects :
        p = call[c].proposal /\ s = call[c].subject /\ call[c] # Idle
  BY CallFields DEF Add, Idle, IInv
<1>2. Mine(c) = {} /\ supports' = supports \cup {New(c)} /\ call[c].op = "add"
  BY DEF Add, Replace
<1>3. New(c).proposal = p /\ New(c).subject = s
  BY <1>1, NewRow DEF IInv
<1>4. s \notin SupportersOf(p)
  BY <1>1, <1>2, MineAreAll DEF SupportersOf, Of
<1>5. /\ SupportersOf(p)' = SupportersOf(p) \cup {s}
      /\ \A q \in Proposals : q # p => SupportersOf(q)' = SupportersOf(q)
  BY <1>2, <1>3 DEF SupportersOf, Of
<1>6. /\ proposal'[p].count = proposal[p].count + 1
      /\ \A q \in Proposals : q # p => proposal'[q].count = proposal[q].count
  BY <1>1, <1>2, Outcome DEF After, IInv, TypeOK
<1>7. People!Join(p, s)
  BY <1>4, <1>5, <1>6 DEF People!Join, SupportersOf
<1> QED
  BY <1>7 DEF People!Next

LEMMA RevokeLeaves ==
  ASSUME IInv, NEW c \in Calls, Revoke(c)
  PROVE  People!Next
<1>1. PICK p \in Proposals, s \in Subjects :
        p = call[c].proposal /\ s = call[c].subject /\ call[c] # Idle
  BY CallFields DEF Revoke, Idle, IInv
<1>2. PICK t \in Mine(c) : Mine(c) = {t}
  BY DEF Revoke, SomethingToRevoke, Mine, IInv, RowsInv, OneSupportPerSubject
<1>3. supports' = supports \ {t} /\ call[c].op = "revoke"
  BY <1>2 DEF Revoke, Replace
<1>4. t \in supports /\ t.proposal = p /\ t.subject = s
  BY <1>1, <1>2 DEF Mine
<1>5. \A u \in supports : u.proposal = p /\ u.subject = s => u = t
  BY <1>4 DEF IInv, RowsInv, OneSupportPerSubject
<1>6. s \in SupportersOf(p)
  BY <1>4 DEF SupportersOf, Of
<1>7. /\ SupportersOf(p)' = SupportersOf(p) \ {s}
      /\ \A q \in Proposals : q # p => SupportersOf(q)' = SupportersOf(q)
  BY <1>3, <1>4, <1>5 DEF SupportersOf, Of
<1>8. proposal[p].count # 0
  <2>1. t \in Of(p) /\ Of(p) \in SUBSET Support
    BY <1>4 DEF Of, IInv, TypeOK
  <2>2. Cardinality(Of(p)) # 0
    BY <2>1, Finite, FS_EmptySet
  <2> QED
    BY <2>2 DEF IInv, RowsInv, CountIsActive
<1>9. /\ proposal'[p].count = proposal[p].count - 1
      /\ \A q \in Proposals : q # p => proposal'[q].count = proposal[q].count
  BY <1>1, <1>3, <1>8, Outcome DEF After, IInv, TypeOK
<1>10. People!Leave(p, s)
  BY <1>6, <1>7, <1>9 DEF People!Leave, SupportersOf
<1> QED
  BY <1>10 DEF People!Next

LEMMA NormalizeStutters ==
  ASSUME IInv, NEW c \in Calls, Normalize(c)
  PROVE  UNCHANGED People!vars
<1>1. call[c] # Idle
  BY DEF Normalize, Idle
<1>2. PICK t \in Mine(c) : Replace({t} \ {New(c)}, {New(c)} \ {t})
  BY DEF Normalize
<1>3. t \in supports /\ t.proposal = New(c).proposal /\ t.subject = New(c).subject
  BY <1>1, NewRow DEF IInv, Mine
<1>4. supports' = (supports \ {t}) \cup {New(c)}
  BY <1>2, <1>3 DEF Replace
<1>5. \A p \in Proposals : SupportersOf(p)' = SupportersOf(p)
  BY <1>3, <1>4 DEF SupportersOf, Of
<1>6. proposal' = proposal
  BY DEF Normalize
<1> QED
  BY <1>5, <1>6 DEF People!vars, SupportersOf

(* The support service implements sets of supporters.                        *)
THEOREM ImplementsSupporters ==
  ASSUME Together
  PROVE  Spec => SupportersSpec
<1>1. Init => People!Init
  BY InitImplements
<1>2. IInv /\ [Next]_vars => [People!Next]_(People!vars)
  <2> SUFFICES ASSUME IInv, [Next]_vars
               PROVE  People!Next \/ UNCHANGED People!vars
    OBVIOUS
  <2>1. ASSUME NEW c \in Calls, Add(c) \/ Revoke(c) PROVE People!Next
    BY <2>1, AddJoins, RevokeLeaves
  <2>2. ASSUME NEW c \in Calls, Normalize(c) PROVE UNCHANGED People!vars
    BY <2>2, NormalizeStutters
  <2>3. ASSUME NEW c \in Calls, NoSupportYet(c) \/ Read(c) \/ Refuse(c) \/ Retry(c) \/ Abort(c)
        PROVE UNCHANGED People!vars
    <3>1. supports' = supports /\ proposal' = proposal
      BY <2>3 DEF NoSupportYet, Read, Refuse, Retry, Abort
    <3> QED
      BY <3>1, SameSupporters
  <2>4. ASSUME NEW c \in Calls, NEW v \in Servers, NEW op \in {"add", "revoke"},
               NEW s \in Subjects, NEW p \in Proposals, AssertReady(c, v, op, s, p)
        PROVE  UNCHANGED People!vars
    <3>1. supports' = supports /\ proposal' = proposal
      BY <2>4 DEF AssertReady
    <3> QED
      BY <3>1, SameSupporters
  <2>5. ASSUME NEW p \in Proposals, StatusChanges(p) PROVE UNCHANGED People!vars
    <3>1. supports' = supports /\ \A q \in Proposals : proposal'[q].count = proposal[q].count
      BY <2>5 DEF StatusChanges, IInv, TypeOK
    <3> QED
      BY <3>1, SameSupporters
  <2>6. ASSUME NEW servers \in Deployments, NEW ring \in Keyrings, Deploy(servers, ring)
        PROVE  UNCHANGED People!vars
    <3>1. supports' = supports /\ proposal' = proposal
      BY <2>6 DEF Deploy
    <3> QED
      BY <3>1, SameSupporters
  <2>7. CASE UNCHANGED vars
    BY <2>7, SameSupporters DEF vars
  <2> QED
    BY <2>1, <2>2, <2>3, <2>4, <2>5, <2>6, <2>7 DEF Next, Step
<1> QED
  BY <1>1, <1>2, Invariance, PTL DEF Spec, SupportersSpec, People!Spec
=============================================================================
