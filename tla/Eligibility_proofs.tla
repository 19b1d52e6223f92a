------------------------ MODULE Eligibility_proofs ------------------------
(***************************************************************************)
(* Proofs about Eligibility, for any proposals, knowledge, policies and    *)
(* number of transactions, whatever the thresholds are.                    *)
(***************************************************************************)
EXTENDS Eligibility, FiniteSetTheorems, TLAPS

\* Whether inputs reach thresholds is a truth value.
MeetsIsBoolean == \A f, in : Meets(f, in) \in BOOLEAN

PreviousPolicy == IF activations = <<>> THEN None ELSE Last.policy

\* What holds of a transaction that is at t: what it has read is still so.
TxOK(t) ==
  /\ t.at \in {"contributing", "deciding"} =>
       t.item \in Knowledge /\ t.proposal = ProposalOf(t.item)
  /\ t.at = "deciding" => knowledge[t.item] # "ABSENT"
  /\ t.at = "contributing" => proposal[t.proposal].status \in Collecting
  /\ t.at \in Scoring =>
       t.proposal \in Proposals /\ t.policy \in Policies /\ active = {t.policy}
  /\ t.at \in {"locked", "counted"} => t.row = proposal[t.proposal]
  /\ \A p \in Proposals :
       t.at = "counted" /\ t.proposal = p => t.inputs = InputsNow(p)
  /\ t.at = "activating" => t.policy \in Policies /\ t.previous = PreviousPolicy

\* What the locks exclude.
Compatible(t, u) ==
  /\ ~(/\ t.at \in {"locked", "counted"}
       /\ u.at \in {"locked", "counted", "contributing"}
       /\ t.proposal = u.proposal)
  /\ ~(t.at = "activating" /\ u.at \in Scoring \cup {"activating"})

\* A snapshot of the revision that is current shows the inputs of this moment.
SnapshotOK(p) ==
  LET s == proposal[p].snapshot
  IN  proposal[p].status = "ELIGIBLE" /\ s # None /\ s.run.eligible
      /\ s.run.revision = proposal[p].revision
      => s.run.inputs = InputsNow(p) /\ Meets(s.run.policy, s.run.inputs)

IInv ==
  /\ TypeOK /\ ActivationsChain
  /\ \A c \in Calls : TxOK(tx[c])
  /\ \A c, d \in Calls : c # d => Compatible(tx[c], tx[d])
  /\ \A p \in Proposals : SnapshotOK(p)

TxRecord ==
  [at : {"idle", "contributing", "deciding", "activating"} \cup Scoring,
   proposal : Proposals \cup {None}, item : Knowledge \cup {None},
   policy : Policies \cup {None}, previous : Policies \cup {None},
   decision : {"PENDING", "ACCEPTED", "REJECTED"},
   row : Row \cup {None}, inputs : Inputs \cup {None}]

-----------------------------------------------------------------------------
\* Everything is about a proposal.
LEMMA HomeIsProposal ==
  ASSUME NEW x \in Knowledge
  PROVE  ProposalOf(x) \in Proposals
BY RelationsAssumption DEF ProposalOf, Knowledge

LEMMA Counted ==
  ASSUME NEW S, S \subseteq Knowledge
  PROVE  Cardinality(S) \in Nat
BY KindsAssumption, FS_Subset, FS_CardinalityType

\* Inputs are counts, before and after a step.
LEMMA InputsTyped ==
  ASSUME NEW p \in Proposals, NEW n \in Nat
  PROVE  InputsOf(p, n) \in Inputs /\ InputsOf(p, n)' \in Inputs
<1>1. InputsOf(p, n) \in Inputs
  <2>1. /\ AcceptedSources(p) \subseteq Knowledge /\ AcceptedClaims(p) \subseteq Knowledge
        /\ AcceptedEvidence(p) \subseteq Knowledge
        /\ AcceptedEvidence(p) \cap Contradicting \subseteq Knowledge
    BY DEF AcceptedSources, AcceptedClaims, AcceptedEvidence, Knowledge
  <2>2. /\ Cardinality(AcceptedSources(p)) \in Nat /\ Cardinality(AcceptedClaims(p)) \in Nat
        /\ Cardinality(AcceptedEvidence(p)) \in Nat
        /\ Cardinality(AcceptedEvidence(p) \cap Contradicting) \in Nat
    BY <2>1, Counted
  <2> QED  BY <2>2 DEF InputsOf, Inputs
<1>2. InputsOf(p, n)' \in Inputs
  <2>1. /\ AcceptedSources(p)' \subseteq Knowledge /\ AcceptedClaims(p)' \subseteq Knowledge
        /\ AcceptedEvidence(p)' \subseteq Knowledge
        /\ AcceptedEvidence(p)' \cap Contradicting \subseteq Knowledge
    BY DEF AcceptedSources, AcceptedClaims, AcceptedEvidence, Knowledge
  <2>2. /\ Cardinality(AcceptedSources(p)') \in Nat /\ Cardinality(AcceptedClaims(p)') \in Nat
        /\ Cardinality(AcceptedEvidence(p)') \in Nat
        /\ Cardinality(AcceptedEvidence(p)' \cap Contradicting) \in Nat
    BY <2>1, Counted
  <2> QED  BY <2>2 DEF InputsOf, Inputs
<1> QED  BY <1>1, <1>2

\* A step that accepts and rejects nothing of a proposal leaves its inputs alone.
LEMMA SameInputs ==
  ASSUME NEW q \in Proposals,
         \A x \in Knowledge : ProposalOf(x) = q => (Accepted(x)' <=> Accepted(x))
  PROVE  \A n : InputsOf(q, n)' = InputsOf(q, n)
<1>1. \A a \in Sources : Home[a] = q => (Accepted(a)' <=> Accepted(a))
  BY KindsAssumption DEF ProposalOf, Knowledge
<1>2. \A k \in Claims : Home[k] = q => (Accepted(k)' <=> Accepted(k))
  BY KindsAssumption DEF ProposalOf, Knowledge
<1>3. \A e \in Evidence : Home[About[e]] = q => (Accepted(e)' <=> Accepted(e))
  BY DEF ProposalOf, Knowledge
<1>4. AcceptedSources(q)' = AcceptedSources(q)
  BY <1>1 DEF AcceptedSources
<1>5. AcceptedClaims(q)' = AcceptedClaims(q)
  <2>1. ASSUME NEW k \in Claims, Home[k] = q
        PROVE  /\ Cites[k] # None => (Accepted(Cites[k])' <=> Accepted(Cites[k]))
               /\ Accepted(k)' <=> Accepted(k)
    BY <1>1, <1>2, <2>1, RelationsAssumption
  <2> QED  BY <2>1 DEF AcceptedClaims
<1>6. AcceptedEvidence(q)' = AcceptedEvidence(q)
  <2>1. ASSUME NEW e \in Evidence, About[e] \in AcceptedClaims(q)
        PROVE  /\ Accepted(From[e])' <=> Accepted(From[e])
               /\ Accepted(e)' <=> Accepted(e)
    <3>1. Home[About[e]] = q
      BY <2>1 DEF AcceptedClaims
    <3> QED  BY <1>1, <1>3, <3>1, RelationsAssumption
  <2> QED  BY <1>5, <2>1 DEF AcceptedEvidence
<1> QED  BY <1>4, <1>5, <1>6 DEF InputsOf

-----------------------------------------------------------------------------
\* A transaction goes on to t, and nothing else happens but that knowledge arrives.
LEMMA TxStep ==
  ASSUME IInv, NEW c \in Calls, NEW t \in TxRecord, TxOK(t),
         \A d \in Calls \ {c} : Compatible(t, tx[d]) /\ Compatible(tx[d], t),
         tx' = [tx EXCEPT ![c] = t],
         knowledge' \in [Knowledge -> {"ABSENT", "PENDING", "ACCEPTED", "REJECTED"}],
         \A x \in Knowledge : Accepted(x)' <=> Accepted(x),
         \A x \in Knowledge : knowledge[x] # "ABSENT" => knowledge'[x] # "ABSENT",
         UNCHANGED <<proposal, registered, active, activations>>
  PROVE  IInv'
<1>1. TypeOK'
  BY DEF IInv, TypeOK, TxRecord
<1>2. ActivationsChain' /\ PreviousPolicy' = PreviousPolicy
  BY DEF IInv, ActivationsChain, Last, PreviousPolicy
<1>3. ASSUME NEW q \in Proposals
      PROVE  InputsNow(q)' = InputsNow(q)
  <2>1. \A n : InputsOf(q, n)' = InputsOf(q, n)
    BY SameInputs
  <2> QED  BY <2>1 DEF InputsNow
<1>4. \A q \in Proposals : SnapshotOK(q)'
  BY <1>3 DEF IInv, SnapshotOK
<1>5. tx'[c] = t /\ \A d \in Calls \ {c} : tx'[d] = tx[d]
  BY DEF IInv, TypeOK
<1>6. \A d \in Calls : TxOK(tx'[d])
  BY <1>5 DEF IInv
<1>7. \A d \in Calls : TxOK(tx[d])'
  BY <1>2, <1>3, <1>6 DEF TxOK
<1>8. \A d, e \in Calls : d # e => Compatible(tx[d], tx[e])'
  <2>1. \A d, e \in Calls : d # e => Compatible(tx'[d], tx'[e])
    BY <1>5 DEF IInv
  <2> QED  BY <2>1 DEF Compatible
<1> QED  BY <1>1, <1>2, <1>4, <1>7, <1>8 DEF IInv

\* A step on the row of a proposal p, and perhaps on the knowledge about it, while no
\* transaction that stays open has the row locked.
LEMMA RowStep ==
  ASSUME IInv, NEW p \in Proposals, NEW r \in Row,
         proposal' = [proposal EXCEPT ![p] = r],
         knowledge' \in [Knowledge -> {"ABSENT", "PENDING", "ACCEPTED", "REJECTED"}],
         \A x \in Knowledge : ProposalOf(x) # p => (Accepted(x)' <=> Accepted(x)),
         \A x \in Knowledge : knowledge[x] # "ABSENT" => knowledge'[x] # "ABSENT",
         tx' \in [Calls -> TxRecord],
         \A d \in Calls : tx'[d] = tx[d] \/ tx'[d] = NoTx,
         \A d \in Calls :
           tx'[d].at \in {"locked", "counted", "contributing"} => tx'[d].proposal # p,
         SnapshotOK(p)',
         UNCHANGED <<registered, active, activations>>
  PROVE  IInv'
<1>1. proposal' \in [Proposals -> Row] /\ \A q \in Proposals \ {p} : proposal'[q] = proposal[q]
  BY DEF IInv, TypeOK
<1>2. TypeOK'
  BY <1>1 DEF IInv, TypeOK, TxRecord
<1>3. ActivationsChain'
  BY DEF IInv, ActivationsChain, Last
<1>4. ASSUME NEW q \in Proposals \ {p}
      PROVE  InputsNow(q)' = InputsNow(q)
  <2>1. \A n : InputsOf(q, n)' = InputsOf(q, n)
    BY SameInputs
  <2> QED  BY <1>1, <2>1 DEF InputsNow
<1>5. ASSUME NEW q \in Proposals
      PROVE  SnapshotOK(q)'
  <2>1. CASE q = p
    BY <2>1
  <2>2. CASE q # p
    BY <1>1, <1>4, <2>2 DEF SnapshotOK, IInv
  <2> QED  BY <2>1, <2>2
<1>6. ASSUME NEW d \in Calls
      PROVE  TxOK(tx[d])'
  <2>1. CASE tx'[d] = NoTx
    BY <2>1 DEF TxOK, NoTx, Scoring
  <2>2. CASE tx'[d] = tx[d]
    <3> DEFINE t == tx[d]
    <3>1. TxOK(t) /\ t \in TxRecord
      BY DEF IInv, TypeOK, TxRecord
    <3>2. t.at \in {"contributing", "deciding"} =>
            /\ t.item \in Knowledge /\ t.proposal = ProposalOf(t.item)
            /\ t.proposal \in Proposals
            /\ t.at = "deciding" => knowledge'[t.item] # "ABSENT"
      BY <3>1, HomeIsProposal DEF TxOK
    <3>3. t.at = "contributing" => proposal'[t.proposal].status \in Collecting
      BY <1>1, <2>2, <3>1, <3>2 DEF TxOK
    <3>4. t.at \in {"locked", "counted"} =>
            t.proposal \in Proposals \ {p} /\ t.row = proposal'[t.proposal]
      BY <1>1, <2>2, <3>1 DEF TxOK, Scoring
    <3>5. ASSUME NEW q \in Proposals, t.at = "counted", t.proposal = q
          PROVE  t.inputs = InputsNow(q)'
      BY <1>4, <3>1, <3>4, <3>5 DEF TxOK
    <3>6. PreviousPolicy' = PreviousPolicy
      BY DEF PreviousPolicy, Last
    <3>7. /\ t.at \in Scoring =>
               t.proposal \in Proposals /\ t.policy \in Policies /\ active' = {t.policy}
          /\ t.at = "activating" => t.policy \in Policies /\ t.previous = PreviousPolicy'
      BY <3>1, <3>6 DEF TxOK
    <3> QED  BY <2>2, <3>2, <3>3, <3>4, <3>5, <3>7 DEF TxOK
  <2> QED  BY <2>1, <2>2
<1>7. ASSUME NEW d \in Calls, NEW e \in Calls, d # e
      PROVE  Compatible(tx[d], tx[e])'
  <2>1. Compatible(tx[d], tx[e])
    BY <1>7 DEF IInv
  <2> QED  BY <2>1 DEF Compatible, NoTx, Scoring
<1> QED  BY <1>2, <1>3, <1>5, <1>6, <1>7 DEF IInv

\* The transaction that is closed holds nothing.
LEMMA Closed ==
  /\ NoTx \in TxRecord /\ TxOK(NoTx)
  /\ \A u : Compatible(NoTx, u) /\ Compatible(u, NoTx)
BY DEF NoTx, TxRecord, TxOK, Compatible, Scoring

LEMMA Initially == Init => IInv
<1> SUFFICES ASSUME Init PROVE IInv
  OBVIOUS
<1>1. proposal \in [Proposals -> Row] /\ \A p \in Proposals : proposal[p].snapshot = None
  BY BoundsAssumption DEF Init, Row, Statuses
<1>2. \A c \in Calls : tx[c] = NoTx
  BY DEF Init
<1>3. CASE registered = {} /\ activations = <<>>
  <2>1. ActivationsChain
    BY <1>3 DEF Init, ActivationsChain
  <2>2. activations \in Seq([policy : Policies, previous : Policies \cup {None}])
    BY <1>3
  <2> QED  BY <1>1, <1>2, <1>3, <2>1, <2>2, Closed
        DEF Init, TypeOK, TxRecord, IInv, SnapshotOK
<1>4. ASSUME NEW f \in Policies, registered = {f},
             activations = <<[policy |-> f, previous |-> None]>>
      PROVE  IInv
  <2>1. PICK a \in [policy : Policies, previous : Policies \cup {None}] :
          a = [policy |-> f, previous |-> None]
    OBVIOUS
  <2>2. activations = <<a>> /\ Len(activations) = 1 /\ Last.policy = f
    BY <1>4, <2>1 DEF Last
  <2>3. activations \in Seq([policy : Policies, previous : Policies \cup {None}])
    BY <2>2
  <2>4. ActivationsChain
    BY <1>4, <2>2 DEF Init, ActivationsChain
  <2> QED  BY <1>1, <1>2, <1>4, <2>3, <2>4, Closed
        DEF Init, TypeOK, TxRecord, IInv, SnapshotOK
<1> QED  BY <1>3, <1>4 DEF Init

LEMMA ContributeStartStep ==
  ASSUME IInv, NEW c \in Calls, NEW x \in Knowledge, ContributeStart(c, x)
  PROVE  IInv'
<1>1. PICK p \in Proposals : p = ProposalOf(x)
  BY HomeIsProposal
<1>2. PICK t : t = [NoTx EXCEPT !.at = "contributing", !.proposal = p, !.item = x]
  OBVIOUS
<1>3. t \in TxRecord /\ t.at = "contributing" /\ t.proposal = p /\ t.item = x
  BY <1>2, Closed DEF TxRecord
<1>4. tx' = [tx EXCEPT ![c] = t]
  BY <1>1, <1>2 DEF ContributeStart, Open
<1>5. TxOK(t)
  BY <1>1, <1>3 DEF ContributeStart, TxOK, Scoring
<1>6. \A d \in Calls \ {c} : Compatible(t, tx[d]) /\ Compatible(tx[d], t)
  BY <1>1, <1>3 DEF ContributeStart, Holders, Compatible, Scoring
<1>7. UNCHANGED <<knowledge, proposal, registered, active, activations>>
  BY DEF ContributeStart
<1> QED  BY <1>3, <1>4, <1>5, <1>6, <1>7, TxStep DEF IInv, TypeOK, Accepted

LEMMA ContributeEndStep ==
  ASSUME IInv, NEW c \in Calls, ContributeEnd(c)
  PROVE  IInv'
<1>1. tx' = [tx EXCEPT ![c] = NoTx]
  BY DEF ContributeEnd, Close
<1>2. tx[c].item \in Knowledge
  BY DEF IInv, ContributeEnd, TxOK
<1>3. /\ knowledge' \in [Knowledge -> {"ABSENT", "PENDING", "ACCEPTED", "REJECTED"}]
      /\ \A x \in Knowledge : Accepted(x)' <=> Accepted(x)
      /\ \A x \in Knowledge : knowledge[x] # "ABSENT" => knowledge'[x] # "ABSENT"
  BY <1>2 DEF ContributeEnd, IInv, TypeOK, Accepted
<1>4. UNCHANGED <<proposal, registered, active, activations>>
  BY DEF ContributeEnd
<1> QED  BY <1>1, <1>3, <1>4, Closed, TxStep

LEMMA DecideStartStep ==
  ASSUME IInv, NEW c \in Calls, NEW x \in Knowledge, NEW d \in {"ACCEPTED", "REJECTED"},
         DecideStart(c, x, d)
  PROVE  IInv'
<1>1. PICK p \in Proposals : p = ProposalOf(x)
  BY HomeIsProposal
<1>2. PICK t : t = [NoTx EXCEPT !.at = "deciding", !.proposal = p, !.item = x, !.decision = d]
  OBVIOUS
<1>3. t \in TxRecord /\ t.at = "deciding" /\ t.proposal = p /\ t.item = x
  BY <1>2, Closed DEF TxRecord
<1>4. tx' = [tx EXCEPT ![c] = t]
  BY <1>1, <1>2 DEF DecideStart, Open
<1>5. TxOK(t) /\ \A u : Compatible(t, u) /\ Compatible(u, t)
  <2>1. knowledge[x] # "ABSENT"
    BY DEF DecideStart
  <2> QED  BY <1>1, <1>3, <2>1 DEF TxOK, Compatible, Scoring
<1>6. UNCHANGED <<knowledge, proposal, registered, active, activations>>
  BY DEF DecideStart
<1> QED  BY <1>3, <1>4, <1>5, <1>6, TxStep DEF IInv, TypeOK, Accepted

LEMMA ScoreStartStep ==
  ASSUME IInv, NEW c \in Calls, NEW p \in Proposals, NEW f \in Policies, ScoreStart(c, p, f)
  PROVE  IInv'
<1>1. PICK t : t = [NoTx EXCEPT !.at = "scoring", !.proposal = p, !.policy = f]
  OBVIOUS
<1>2. t \in TxRecord /\ t.at = "scoring" /\ t.proposal = p /\ t.policy = f
  BY <1>1, Closed DEF TxRecord, Scoring
<1>3. tx' = [tx EXCEPT ![c] = t]
  BY <1>1 DEF ScoreStart, Open
<1>4. TxOK(t)
  BY <1>2 DEF ScoreStart, TxOK, Scoring
<1>5. \A d \in Calls \ {c} : Compatible(t, tx[d]) /\ Compatible(tx[d], t)
  BY <1>2 DEF ScoreStart, PolicyLockFree, Compatible, Scoring
<1>6. UNCHANGED <<knowledge, proposal, registered, active, activations>>
  BY DEF ScoreStart
<1> QED  BY <1>2, <1>3, <1>4, <1>5, <1>6, TxStep DEF IInv, TypeOK, Accepted

LEMMA ActivateStartStep ==
  ASSUME IInv, NEW c \in Calls, NEW f \in Policies, ActivateStart(c, f)
  PROVE  IInv'
<1>1. PreviousPolicy \in Policies \cup {None}
      /\ (IF active = {} THEN None ELSE CHOOSE g \in active : TRUE) = PreviousPolicy
  <2>1. activations # <<>> => Last.policy \in active
    BY DEF IInv, ActivationsChain
  <2>2. CASE activations = <<>>
    BY <2>2 DEF IInv, ActivationsChain, PreviousPolicy
  <2>3. CASE activations # <<>>
    <3>1. active = {Last.policy} /\ active \subseteq Policies
      BY <2>3 DEF IInv, ActivationsChain, TypeOK
    <3> QED  BY <2>3, <3>1 DEF PreviousPolicy
  <2> QED  BY <2>2, <2>3
<1>2. PICK t : t = [NoTx EXCEPT !.at = "activating", !.policy = f, !.previous = PreviousPolicy]
  OBVIOUS
<1>3. t \in TxRecord /\ t.at = "activating" /\ t.policy = f /\ t.previous = PreviousPolicy
  BY <1>1, <1>2, Closed DEF TxRecord
<1>4. tx' = [tx EXCEPT ![c] = t]
  BY <1>1, <1>2 DEF ActivateStart, Open
<1>5. TxOK(t)
  BY <1>3 DEF TxOK, Scoring
<1>6. \A d \in Calls \ {c} : Compatible(t, tx[d]) /\ Compatible(tx[d], t)
  BY <1>3 DEF ActivateStart, PolicyLockFree, Compatible, Scoring
<1>7. UNCHANGED <<knowledge, proposal, registered, active, activations>>
  BY DEF ActivateStart
<1> QED  BY <1>3, <1>4, <1>5, <1>6, <1>7, TxStep DEF IInv, TypeOK, Accepted

LEMMA AbortStep ==
  ASSUME IInv, NEW c \in Calls, Abort(c)
  PROVE  IInv'
BY Closed, TxStep DEF Abort, Close, IInv, TypeOK, Accepted

LEMMA ScoreLockStep ==
  ASSUME IInv, NEW c \in Calls, ScoreLock(c)
  PROVE  IInv'
<1> DEFINE p == tx[c].proposal
<1>1. tx[c] \in TxRecord /\ TxOK(tx[c]) /\ tx[c].at = "scoring"
  BY DEF IInv, TypeOK, TxRecord, ScoreLock
<1>2. p \in Proposals /\ tx[c].policy \in Policies /\ active = {tx[c].policy}
  BY <1>1 DEF TxOK, Scoring
<1>3. PICK t : t = [tx[c] EXCEPT !.at = "locked", !.row = proposal[p]]
  OBVIOUS
<1>4. tx' = [tx EXCEPT ![c] = t]
  BY <1>3 DEF ScoreLock
<1>5. t \in TxRecord
  <2>1. proposal[p] \in Row
    BY <1>2 DEF IInv, TypeOK
  <2> QED  BY <1>1, <1>3, <2>1 DEF TxRecord, Scoring
<1>6. /\ t.at = "locked" /\ t.proposal = p /\ t.row = proposal[p]
      /\ t.policy = tx[c].policy
  BY <1>1, <1>3 DEF TxRecord
<1>7. TxOK(t)
  BY <1>2, <1>6 DEF TxOK, Scoring
<1>8. \A d \in Calls \ {c} : Compatible(t, tx[d]) /\ Compatible(tx[d], t)
  <2>1. \A d \in Calls \ {c} : Compatible(tx[c], tx[d]) /\ Compatible(tx[d], tx[c])
    BY DEF IInv
  <2>2. \A d \in Calls :
          tx[d].at \in {"locked", "counted", "contributing"} => tx[d].proposal # p
    BY DEF ScoreLock, RowFree, Holders, Sharers
  <2> QED  BY <1>1, <1>6, <2>1, <2>2 DEF Compatible, Scoring
<1>9. UNCHANGED <<knowledge, proposal, registered, active, activations>>
  BY DEF ScoreLock
<1> QED  BY <1>4, <1>5, <1>7, <1>8, <1>9, TxStep DEF IInv, TypeOK, Accepted

LEMMA ScoreCountStep ==
  ASSUME IInv, NEW c \in Calls, ScoreCount(c)
  PROVE  IInv'
<1>1. tx[c] \in TxRecord /\ TxOK(tx[c]) /\ tx[c].at = "locked"
  BY DEF IInv, TypeOK, TxRecord, ScoreCount
<1>2. PICK p \in Proposals : p = tx[c].proposal
  BY <1>1 DEF TxOK, Scoring
<1>3. /\ tx[c].policy \in Policies /\ active = {tx[c].policy}
      /\ tx[c].row = proposal[p] /\ proposal[p] \in Row
  BY <1>1, <1>2 DEF TxOK, Scoring, IInv, TypeOK
<1>4. PICK t : t = [tx[c] EXCEPT !.at = "counted", !.inputs = InputsOf(p, tx[c].row.supports)]
  OBVIOUS
<1>5. tx' = [tx EXCEPT ![c] = t]
  BY <1>2, <1>4 DEF ScoreCount
<1>6. InputsOf(p, tx[c].row.supports) = InputsNow(p) /\ InputsNow(p) \in Inputs
  BY <1>3, InputsTyped DEF InputsNow, Row
<1>7. t \in TxRecord
  BY <1>1, <1>4, <1>6 DEF TxRecord, Scoring
<1>8. /\ t.at = "counted" /\ t.proposal = p /\ t.row = proposal[p]
      /\ t.policy = tx[c].policy /\ t.inputs = InputsNow(p)
  BY <1>1, <1>2, <1>3, <1>4, <1>6 DEF TxRecord
<1>9. TxOK(t)
  BY <1>3, <1>8 DEF TxOK, Scoring
<1>10. \A d \in Calls \ {c} : Compatible(t, tx[d]) /\ Compatible(tx[d], t)
  <2>1. \A d \in Calls \ {c} : Compatible(tx[c], tx[d]) /\ Compatible(tx[d], tx[c])
    BY DEF IInv
  <2> QED  BY <1>1, <1>2, <1>8, <2>1 DEF Compatible, Scoring
<1>11. UNCHANGED <<knowledge, proposal, registered, active, activations>>
  BY DEF ScoreCount
<1> QED  BY <1>5, <1>7, <1>9, <1>10, <1>11, TxStep DEF IInv, TypeOK, Accepted

-----------------------------------------------------------------------------
\* The steps that change a proposal, or which policy is active.
LEMMA ClosedOne ==
  ASSUME IInv, NEW c \in Calls, Close(c)
  PROVE  /\ tx' \in [Calls -> TxRecord] /\ tx'[c] = NoTx
         /\ \A d \in Calls \ {c} : tx'[d] = tx[d]
BY Closed DEF IInv, TypeOK, TxRecord, Close

LEMMA DecideEndStep ==
  ASSUME IInv, NEW c \in Calls, DecideEnd(c)
  PROVE  IInv'
<1>1. PICK x \in Knowledge, p \in Proposals :
        x = tx[c].item /\ p = tx[c].proposal /\ p = ProposalOf(x)
  BY HomeIsProposal DEF IInv, TxOK, DecideEnd
<1>2. PICK r \in Row : r = Withdrawn(proposal[p]) /\ r.snapshot = None
  <2>1. PICK old \in Row : old = proposal[p]
    BY DEF IInv, TypeOK
  <2>2. PICK status \in Statuses :
          status = IF old.status = "ELIGIBLE" THEN "COLLECTING" ELSE old.status
    BY <2>1 DEF Row, Statuses, Collecting
  <2>3. PICK r : r = [status |-> status, supports |-> old.supports,
                      revision |-> old.revision + 1, snapshot |-> None]
    OBVIOUS
  <2>4. r \in Row /\ r.snapshot = None
    BY <2>1, <2>2, <2>3 DEF Row
  <2> QED  BY <2>1, <2>2, <2>3, <2>4 DEF Withdrawn
<1>3. proposal' = [proposal EXCEPT ![p] = r] /\ proposal'[p] = r
  BY <1>1, <1>2 DEF DecideEnd, IInv, TypeOK
<1>4. /\ knowledge' \in [Knowledge -> {"ABSENT", "PENDING", "ACCEPTED", "REJECTED"}]
      /\ \A y \in Knowledge : knowledge[y] # "ABSENT" => knowledge'[y] # "ABSENT"
  <2>1. tx[c].decision \in {"PENDING", "ACCEPTED", "REJECTED"}
    BY DEF IInv, TypeOK
  <2> QED  BY <2>1 DEF DecideEnd, IInv, TypeOK
<1>5. \A y \in Knowledge : ProposalOf(y) # p => (Accepted(y)' <=> Accepted(y))
  BY <1>1 DEF DecideEnd, Accepted, IInv, TypeOK
<1>6. /\ tx' \in [Calls -> TxRecord] /\ tx'[c] = NoTx
      /\ \A d \in Calls \ {c} : tx'[d] = tx[d]
  BY ClosedOne DEF DecideEnd
<1>7. \A d \in Calls :
        tx'[d].at \in {"locked", "counted", "contributing"} => tx'[d].proposal # p
  <2>1. \A d \in Calls :
          tx[d].at \in {"locked", "counted", "contributing"} => tx[d].proposal # p
    BY <1>1 DEF DecideEnd, RowFree, Holders, Sharers
  <2> QED  BY <1>6, <2>1 DEF NoTx
<1>8. SnapshotOK(p)'
  BY <1>2, <1>3 DEF SnapshotOK
<1>9. UNCHANGED <<registered, active, activations>>
  BY DEF DecideEnd
<1>10. \A d \in Calls : tx'[d] = tx[d] \/ tx'[d] = NoTx
  BY <1>6
<1> QED  BY <1>3, <1>4, <1>5, <1>6, <1>7, <1>8, <1>9, <1>10, RowStep

\* What a recalculation leaves of a proposal.
LEMMA ScoredRow ==
  ASSUME MeetsIsBoolean, IInv, NEW c \in Calls, ScoreEnd(c)
  PROVE  \E p \in Proposals, f \in Policies :
           /\ p = tx[c].proposal /\ active = {f}
           /\ proposal' = [proposal EXCEPT ![p] = proposal'[p]] /\ proposal'[p] \in Row
           /\ proposal'[p].snapshot # None =>
                /\ proposal'[p].snapshot.run.inputs = InputsNow(p)
                /\ proposal'[p].snapshot.run.policy = f
           /\ (proposal'[p].snapshot # None) = Meets(f, InputsNow(p))
           /\ InputsNow(p)' = InputsNow(p)
<1>1. TxOK(tx[c]) /\ tx[c].at = "counted"
  BY DEF IInv, ScoreEnd
<1>2. PICK p \in Proposals, f \in Policies :
        p = tx[c].proposal /\ f = tx[c].policy /\ active = {f}
  BY <1>1 DEF TxOK, Scoring
<1>3. PICK old \in Row : old = proposal[p] /\ tx[c].row = old
  BY <1>1, <1>2 DEF TxOK, IInv, TypeOK
<1>4. PICK in \in Inputs : in = InputsNow(p) /\ tx[c].inputs = in
  BY <1>1, <1>2, <1>3, InputsTyped DEF TxOK, InputsNow, Row
<1>5. PICK eligible \in BOOLEAN : eligible = Meets(f, in)
  BY DEF MeetsIsBoolean
<1>6. PICK run \in Run :
        run = [policy |-> f, inputs |-> in, eligible |-> eligible, revision |-> old.revision]
  BY DEF Run, Row
<1>7. PICK snapshot \in Snapshot :
        snapshot = [run |-> run, hash |-> f, revision |-> old.revision]
  BY DEF Snapshot, Row
<1>8. PICK status \in Statuses : status = Scored(old.status, eligible)
  BY DEF Scored, Statuses, Collecting, Row
<1>9. PICK r : r = [status |-> status, supports |-> old.supports, revision |-> old.revision,
                    snapshot |-> IF eligible THEN snapshot ELSE None]
  OBVIOUS
<1>10. r \in Row
  BY <1>9 DEF Row
<1>11. proposal' = [proposal EXCEPT ![p] = r]
  BY <1>2, <1>3, <1>4, <1>5, <1>6, <1>7, <1>8, <1>9 DEF ScoreEnd
<1>12. proposal'[p] = r
  BY <1>11 DEF IInv, TypeOK
<1>13. InputsNow(p)' = InputsNow(p)
  <2>1. proposal'[p].supports = proposal[p].supports /\ knowledge' = knowledge
    BY <1>3, <1>9, <1>12 DEF ScoreEnd
  <2>2. \A n : InputsOf(p, n)' = InputsOf(p, n)
    BY <2>1, SameInputs DEF Accepted
  <2> QED  BY <2>1, <2>2 DEF InputsNow
<1>14. snapshot # None
  BY NoneAssumption
<1>15. (r.snapshot # None) = Meets(f, InputsNow(p))
  BY <1>4, <1>5, <1>9, <1>14
<1>16. r.snapshot # None => r.snapshot.run.inputs = InputsNow(p) /\ r.snapshot.run.policy = f
  BY <1>4, <1>6, <1>7, <1>9
<1> QED  BY <1>2, <1>10, <1>11, <1>12, <1>13, <1>15, <1>16

LEMMA ScoreEndStep ==
  ASSUME MeetsIsBoolean, IInv, NEW c \in Calls, ScoreEnd(c)
  PROVE  IInv'
<1>1. PICK p \in Proposals, f \in Policies :
        /\ p = tx[c].proposal
        /\ proposal' = [proposal EXCEPT ![p] = proposal'[p]] /\ proposal'[p] \in Row
        /\ proposal'[p].snapshot # None =>
             /\ proposal'[p].snapshot.run.inputs = InputsNow(p)
             /\ proposal'[p].snapshot.run.policy = f
        /\ (proposal'[p].snapshot # None) = Meets(f, InputsNow(p))
        /\ InputsNow(p)' = InputsNow(p)
  BY ScoredRow
<1>2. PICK r \in Row : r = proposal'[p]
  BY <1>1
<1>3. proposal' = [proposal EXCEPT ![p] = r]
  BY <1>1, <1>2
<1>4. /\ knowledge' \in [Knowledge -> {"ABSENT", "PENDING", "ACCEPTED", "REJECTED"}]
      /\ \A y \in Knowledge : ProposalOf(y) # p => (Accepted(y)' <=> Accepted(y))
      /\ \A y \in Knowledge : knowledge[y] # "ABSENT" => knowledge'[y] # "ABSENT"
  BY DEF ScoreEnd, Accepted, IInv, TypeOK
<1>5. /\ tx' \in [Calls -> TxRecord] /\ tx'[c] = NoTx
      /\ \A d \in Calls \ {c} : tx'[d] = tx[d]
  BY ClosedOne DEF ScoreEnd
<1>6. \A d \in Calls :
        tx'[d].at \in {"locked", "counted", "contributing"} => tx'[d].proposal # p
  <2>1. \A d \in Calls \ {c} : Compatible(tx[c], tx[d])
    BY DEF IInv
  <2>2. tx[c].at = "counted"
    BY DEF ScoreEnd
  <2> QED  BY <1>1, <1>5, <2>1, <2>2 DEF NoTx, Compatible
<1>7. SnapshotOK(p)'
  BY <1>1 DEF SnapshotOK
<1>8. UNCHANGED <<registered, active, activations>>
  BY DEF ScoreEnd
<1>9. \A d \in Calls : tx'[d] = tx[d] \/ tx'[d] = NoTx
  BY <1>5
<1> QED  BY <1>2, <1>3, <1>4, <1>5, <1>6, <1>7, <1>8, <1>9, RowStep

\* Supports and owners change the rows of proposals that nobody has locked.
LEMMA FreeRowStep ==
  ASSUME IInv, NEW p \in Proposals, RowFree(p), NEW r \in Row, r.status # "ELIGIBLE",
         proposal' = [proposal EXCEPT ![p] = r],
         UNCHANGED <<knowledge, registered, active, activations, tx>>
  PROVE  IInv'
<1>1. /\ knowledge' \in [Knowledge -> {"ABSENT", "PENDING", "ACCEPTED", "REJECTED"}]
      /\ \A y \in Knowledge : ProposalOf(y) # p => (Accepted(y)' <=> Accepted(y))
      /\ \A y \in Knowledge : knowledge[y] # "ABSENT" => knowledge'[y] # "ABSENT"
      /\ tx' \in [Calls -> TxRecord]
  BY DEF Accepted, IInv, TypeOK, TxRecord
<1>2. \A d \in Calls :
        tx'[d].at \in {"locked", "counted", "contributing"} => tx'[d].proposal # p
  BY DEF RowFree, Holders, Sharers
<1>3. SnapshotOK(p)'
  BY DEF SnapshotOK, IInv, TypeOK
<1> QED  BY <1>1, <1>2, <1>3, RowStep

LEMMA SupportRow ==
  ASSUME IInv, NEW p \in Proposals, Support(p)
  PROVE  \E r \in Row : r.status # "ELIGIBLE" /\ proposal' = [proposal EXCEPT ![p] = r]
<1>1. PICK n \in Nat : proposal' = [proposal EXCEPT ![p].supports = n]
  <2>1. proposal[p].supports \in Nat
    BY DEF IInv, TypeOK, Row
  <2>2. PICK n \in SupportsAfter(proposal[p].supports) :
          proposal' = [proposal EXCEPT ![p].supports = n]
    BY DEF Support
  <2>3. n \in Nat
    BY <2>1, <2>2 DEF SupportsAfter
  <2> QED  BY <2>2, <2>3
<1>2. PICK old \in Row : old = proposal[p] /\ old.status # "ELIGIBLE"
  BY DEF IInv, TypeOK, Support, Collecting
<1>3. PICK r : r = [old EXCEPT !.supports = n]
  OBVIOUS
<1>4. r \in Row /\ r.status = old.status
  BY <1>3 DEF Row
<1> QED  BY <1>1, <1>2, <1>3, <1>4

LEMMA ManageRow ==
  ASSUME IInv, NEW p \in Proposals, Manage(p)
  PROVE  \E r \in Row : r.status # "ELIGIBLE" /\ proposal' = [proposal EXCEPT ![p] = r]
<1>1. PICK s \in {"OPEN", "ARCHIVED", "DELETED"} : proposal' = [proposal EXCEPT ![p].status = s]
  BY DEF Manage
<1>2. PICK old \in Row : old = proposal[p]
  BY DEF IInv, TypeOK
<1>3. PICK r : r = [old EXCEPT !.status = s]
  OBVIOUS
<1>4. r \in Row /\ r.status = s
  BY <1>3 DEF Row, Statuses, Collecting
<1> QED  BY <1>1, <1>2, <1>3, <1>4

LEMMA ActivateEndStep ==
  ASSUME IInv, NEW c \in Calls, ActivateEnd(c)
  PROVE  IInv'
<1>1. TxOK(tx[c]) /\ tx[c].at = "activating"
  BY DEF IInv, ActivateEnd
<1>2. PICK f \in Policies : f = tx[c].policy /\ tx[c].previous = PreviousPolicy
  BY <1>1 DEF TxOK
<1>3. PICK n \in Nat : n = Len(activations)
  BY DEF IInv, TypeOK
<1>4. PICK a \in [policy : Policies, previous : Policies \cup {None}] :
        a = [policy |-> f, previous |-> PreviousPolicy]
  <2>1. tx[c].previous \in Policies \cup {None}
    BY DEF IInv, TypeOK
  <2> QED  BY <1>2, <2>1
<1>5. activations' = Append(activations, a)
  BY <1>2, <1>4 DEF ActivateEnd
<1>6. /\ activations' \in Seq([policy : Policies, previous : Policies \cup {None}])
      /\ Len(activations') = n + 1 /\ activations'[n + 1] = a
      /\ \A i \in 1 .. n : activations'[i] = activations[i]
  BY <1>3, <1>5 DEF IInv, TypeOK
<1>7. Last' = a /\ activations' # <<>>
  BY <1>6 DEF Last
<1>8. /\ tx' \in [Calls -> TxRecord] /\ tx'[c] = NoTx
      /\ \A d \in Calls \ {c} : tx'[d] = tx[d]
  BY ClosedOne DEF ActivateEnd
<1>9. TypeOK'
  BY <1>2, <1>6, <1>8 DEF IInv, TypeOK, TxRecord, ActivateEnd
<1>10. ActivationsChain'
  <2>1. active' = {Last'.policy}
    BY <1>2, <1>4, <1>7 DEF ActivateEnd
  <2>2. ASSUME NEW i \in 2 .. n + 1
        PROVE  activations'[i].previous = activations'[i - 1].policy
    <3>1. CASE i = n + 1
      <4>1. n >= 1 /\ activations # <<>> /\ a.previous = activations[n].policy
        BY <1>3, <1>4, <3>1 DEF PreviousPolicy, Last
      <4> QED  BY <1>6, <3>1, <4>1
    <3>2. CASE i # n + 1
      <4>1. i \in 2 .. n /\ i \in 1 .. n /\ i - 1 \in 1 .. n
        BY <3>2
      <4> QED  BY <1>3, <1>6, <4>1 DEF IInv, ActivationsChain
    <3> QED  BY <3>1, <3>2
  <2> QED  BY <1>6, <1>7, <2>1, <2>2 DEF ActivationsChain
<1>11. \A q \in Proposals : InputsNow(q)' = InputsNow(q)
  BY DEF ActivateEnd, InputsNow, InputsOf, AcceptedSources, AcceptedClaims,
         AcceptedEvidence, Accepted
<1>12. \A q \in Proposals : SnapshotOK(q)'
  BY <1>11 DEF ActivateEnd, IInv, SnapshotOK
<1>13. \A d \in Calls \ {c} : tx[d].at \notin Scoring \cup {"activating"}
  <2>1. \A d \in Calls \ {c} : Compatible(tx[c], tx[d])
    BY DEF IInv
  <2> QED  BY <1>1, <2>1 DEF Compatible
<1>14. ASSUME NEW d \in Calls
       PROVE  TxOK(tx[d])'
  <2>1. CASE d = c
    BY <1>8, <2>1 DEF TxOK, NoTx, Scoring
  <2>2. CASE d # c
    <3>1. TxOK(tx[d]) /\ tx'[d] = tx[d]
      BY <1>8, <2>2 DEF IInv
    <3> QED  BY <1>11, <1>13, <2>2, <3>1 DEF TxOK, ActivateEnd, Scoring
  <2> QED  BY <2>1, <2>2
<1>16. \A d, e \in Calls : d # e => Compatible(tx[d], tx[e])'
  <2>1. \A d, e \in Calls : d # e => Compatible(tx'[d], tx'[e])
    BY <1>8, Closed DEF IInv
  <2> QED  BY <2>1 DEF Compatible
<1> QED  BY <1>9, <1>10, <1>12, <1>14, <1>16 DEF IInv

-----------------------------------------------------------------------------
LEMMA Step ==
  ASSUME MeetsIsBoolean, IInv, [Next]_vars
  PROVE  IInv'
<1>1. CASE UNCHANGED vars
  <2>1. UNCHANGED <<knowledge, proposal, registered, active, activations, tx>>
    BY <1>1 DEF vars
  <2>2. TypeOK' /\ ActivationsChain' /\ PreviousPolicy' = PreviousPolicy
    BY <2>1 DEF IInv, TypeOK, ActivationsChain, Last, PreviousPolicy
  <2>3. ASSUME NEW q \in Proposals
        PROVE  InputsNow(q)' = InputsNow(q)
    BY <2>1 DEF InputsNow, InputsOf, AcceptedSources, AcceptedClaims, AcceptedEvidence, Accepted
  <2>4. \A q \in Proposals : SnapshotOK(q)'
    BY <2>1, <2>3 DEF IInv, SnapshotOK
  <2>5. \A d \in Calls : TxOK(tx[d])'
    BY <2>1, <2>2, <2>3 DEF IInv, TxOK
  <2>6. \A d, e \in Calls : d # e => Compatible(tx[d], tx[e])'
    BY <2>1 DEF IInv, Compatible
  <2> QED  BY <2>2, <2>4, <2>5, <2>6 DEF IInv
<1>2. ASSUME NEW c \in Calls, NEW x \in Knowledge, ContributeStart(c, x)
      PROVE  IInv'
  BY <1>2, ContributeStartStep
<1>3. ASSUME NEW c \in Calls, NEW x \in Knowledge, NEW d \in {"ACCEPTED", "REJECTED"},
             DecideStart(c, x, d)
      PROVE  IInv'
  BY <1>3, DecideStartStep
<1>4. ASSUME NEW c \in Calls, NEW p \in Proposals, NEW f \in Policies, ScoreStart(c, p, f)
      PROVE  IInv'
  BY <1>4, ScoreStartStep
<1>5. ASSUME NEW c \in Calls, NEW f \in Policies, ActivateStart(c, f)
      PROVE  IInv'
  BY <1>5, ActivateStartStep
<1>6. ASSUME NEW c \in Calls, \/ ContributeEnd(c) \/ DecideEnd(c) \/ ScoreLock(c)
                              \/ ScoreCount(c) \/ ScoreEnd(c) \/ ActivateEnd(c) \/ Abort(c)
      PROVE  IInv'
  BY <1>6, ContributeEndStep, DecideEndStep, ScoreLockStep, ScoreCountStep, ScoreEndStep,
     ActivateEndStep, AbortStep
<1>7. ASSUME NEW p \in Proposals, Support(p)
      PROVE  IInv'
  <2>1. PICK r \in Row : r.status # "ELIGIBLE" /\ proposal' = [proposal EXCEPT ![p] = r]
    BY <1>7, SupportRow
  <2>2. RowFree(p) /\ UNCHANGED <<knowledge, registered, active, activations, tx>>
    BY <1>7 DEF Support
  <2> QED  BY <2>1, <2>2, FreeRowStep
<1>8. ASSUME NEW p \in Proposals, Manage(p)
      PROVE  IInv'
  <2>1. PICK r \in Row : r.status # "ELIGIBLE" /\ proposal' = [proposal EXCEPT ![p] = r]
    BY <1>8, ManageRow
  <2>2. RowFree(p) /\ UNCHANGED <<knowledge, registered, active, activations, tx>>
    BY <1>8 DEF Manage
  <2> QED  BY <2>1, <2>2, FreeRowStep
<1> QED  BY <1>1, <1>2, <1>3, <1>4, <1>5, <1>6, <1>7, <1>8 DEF Next

LEMMA Invariance ==
  ASSUME MeetsIsBoolean
  PROVE  Spec => []IInv
<1>1. Init => IInv
  BY Initially
<1>2. IInv /\ [Next]_vars => IInv'
  BY Step
<1> QED  BY <1>1, <1>2, PTL DEF Spec

\* What the view shows meets the policy activated last.
LEMMA CurrentMeets ==
  ASSUME IInv, NEW p \in Proposals, Current(p)
  PROVE  activations # <<>> /\ active = {Last.policy} /\ Meets(Last.policy, InputsNow(p))
BY DEF IInv, Current, SnapshotOK, ActivationsChain

-----------------------------------------------------------------------------
(* The tables and the open transactions of eligibility keep their types, for *)
(* any knowledge, policies and number of transactions.                       *)
THEOREM TypeCorrect ==
  ASSUME MeetsIsBoolean
  PROVE  Spec => []TypeOK
<1>1. IInv => TypeOK
  BY DEF IInv
<1> QED  BY <1>1, Invariance, PTL

(* A proposal that the view current_proposal_eligibility shows meets the     *)
(* active policy by the knowledge and the supports of that moment, however   *)
(* scoring, moderation, contributions, supports and activations interleave.  *)
THEOREM ListedMeetPolicy ==
  ASSUME MeetsIsBoolean
  PROVE  Spec => []ListedAreCurrent
<1>1. IInv => ListedAreCurrent
  BY CurrentMeets DEF ListedAreCurrent
<1> QED  BY <1>1, Invariance, PTL

(* One policy is active, the one activated last, and the activations are a   *)
(* chain: ScorePolicyManager.activate under the lock policy_activation.      *)
THEOREM ActivationsAreChained ==
  ASSUME MeetsIsBoolean
  PROVE  Spec => []ActivationsChain
<1>1. IInv => ActivationsChain
  BY DEF IInv
<1> QED  BY <1>1, Invariance, PTL

(* ScoreService.recalculate decides by the policy, the supports and the      *)
(* knowledge of the moment it commits.                                       *)
THEOREM ScoresDecideNow ==
  ASSUME MeetsIsBoolean
  PROVE  Spec => ScoresAreCurrent
<1>1. ASSUME IInv, Next, NEW c \in Calls,
             tx[c].at = "counted", tx'[c] # tx[c], proposal' # proposal
      PROVE  (proposal'[tx[c].proposal].snapshot # None) =
               (\E f \in active : Meets(f, InputsNow(tx[c].proposal)))
  <2>1. ScoreEnd(c)
    <3>1. ASSUME NEW d \in Calls, DecideEnd(d)
          PROVE  FALSE
      BY <1>1, <3>1 DEF DecideEnd, Close, IInv, TypeOK
    <3>2. ASSUME NEW d \in Calls, ScoreEnd(d)
          PROVE  d = c
      BY <1>1, <3>2 DEF ScoreEnd, Close, IInv, TypeOK
    <3> QED  BY <1>1, <3>1, <3>2
          DEF Next, ContributeStart, DecideStart, ScoreStart, ActivateStart, ContributeEnd,
              ScoreLock, ScoreCount, ActivateEnd, Abort, Support, Manage
  <2>2. PICK p \in Proposals, f \in Policies :
          /\ p = tx[c].proposal /\ active = {f}
          /\ (proposal'[p].snapshot # None) = Meets(f, InputsNow(p))
    BY <1>1, <2>1, ScoredRow
  <2>3. (\E g \in active : Meets(g, InputsNow(p))) = Meets(f, InputsNow(p))
    BY <2>2 DEF MeetsIsBoolean
  <2> QED  BY <2>2, <2>3
<1>2. IInv /\ [Next]_vars =>
        [\A c \in Calls :
           tx[c].at = "counted" /\ tx'[c] # tx[c] /\ proposal' # proposal =>
             LET p == tx[c].proposal
             IN  (proposal'[p].snapshot # None) =
                   (\E f \in active : Meets(f, InputsNow(p)))]_vars
  BY <1>1
<1> QED  BY <1>2, Invariance, PTL DEF Spec, ScoresAreCurrent

(* KnowledgeService adds sources, claims and evidence only to proposals that *)
(* are collecting, though they may be archived or scored while it works.     *)
THEOREM KnowledgeArrivesWhileCollecting ==
  ASSUME MeetsIsBoolean
  PROVE  Spec => KnowledgeWhileCollecting
<1>1. ASSUME IInv, Next, NEW x \in Knowledge,
             knowledge[x] = "ABSENT", knowledge'[x] # "ABSENT"
      PROVE  proposal[ProposalOf(x)].status \in Collecting
  <2>1. ASSUME NEW c \in Calls, DecideEnd(c)
        PROVE  FALSE
    BY <1>1, <2>1 DEF DecideEnd, IInv, TxOK, TypeOK
  <2>2. ASSUME NEW c \in Calls, ContributeEnd(c)
        PROVE  proposal[ProposalOf(x)].status \in Collecting
    <3>1. tx[c].item = x
      BY <1>1, <2>2 DEF ContributeEnd, IInv, TypeOK
    <3> QED  BY <1>1, <2>2, <3>1 DEF ContributeEnd, IInv, TxOK
  <2> QED  BY <1>1, <2>1, <2>2
        DEF Next, ContributeStart, DecideStart, ScoreStart, ActivateStart,
            ScoreLock, ScoreCount, ScoreEnd, ActivateEnd, Abort, Support, Manage
<1>2. IInv /\ [Next]_vars =>
        [\A x \in Knowledge :
           knowledge[x] = "ABSENT" /\ knowledge'[x] # "ABSENT" =>
             proposal[ProposalOf(x)].status \in Collecting]_vars
  BY <1>1
<1> QED  BY <1>2, Invariance, PTL DEF Spec, KnowledgeWhileCollecting

-----------------------------------------------------------------------------
\* The review queue, as the refinement maps it.
Queue == {p \in Proposals : Current(p)}

Facts == [p \in Proposals |-> InputsNow(p)]

LEMMA FactsTyped ==
  ASSUME IInv
  PROVE  Facts \in [Proposals -> Inputs]
<1>1. ASSUME NEW p \in Proposals
      PROVE  InputsNow(p) \in Inputs
  <2>1. proposal[p].supports \in Nat
    BY DEF IInv, TypeOK, Row
  <2> QED  BY <2>1, InputsTyped DEF InputsNow
<1> QED  BY <1>1 DEF Facts

LEMMA FactsTypedAfter ==
  ASSUME IInv'
  PROVE  Facts' \in [Proposals -> Inputs]
<1>1. ASSUME NEW p \in Proposals
      PROVE  InputsNow(p)' \in Inputs
  <2>1. PICK n \in Nat : n = proposal'[p].supports
    BY DEF IInv, TypeOK, Row
  <2>2. InputsNow(p)' = InputsOf(p, n)'
    BY <2>1 DEF InputsNow, InputsOf
  <2> QED  BY <2>2, InputsTyped
<1> QED  BY <1>1 DEF Facts

LEMMA CurrentMeetsAfter ==
  ASSUME IInv', NEW p \in Proposals, Current(p)'
  PROVE  activations' # <<>> /\ Meets(Last'.policy, InputsNow(p)')
BY DEF IInv, Current, SnapshotOK

\* A step that leaves facts, snapshots and activations alone is a stutter.
LEMMA QueueStutter ==
  ASSUME IInv, UNCHANGED <<proposal, activations>>,
         knowledge' = knowledge \/ \A x \in Knowledge : Accepted(x)' <=> Accepted(x)
  PROVE  UNCHANGED Review!vars
<1>1. ASSUME NEW q \in Proposals
      PROVE  InputsNow(q)' = InputsNow(q)
  <2>1. \A n : InputsOf(q, n)' = InputsOf(q, n)
    BY SameInputs DEF Accepted
  <2> QED  BY <2>1 DEF InputsNow
<1>2. ASSUME NEW q \in Proposals
      PROVE  Current(q)' <=> Current(q)
  BY DEF Current, Last
<1> QED  BY <1>1, <1>2 DEF Review!vars, Last

\* Where only the row of p and the knowledge about it change, the queue changes at
\* most in p.
LEMMA QueueElsewhere ==
  ASSUME IInv, NEW p \in Proposals, NEW r,
         proposal' = [proposal EXCEPT ![p] = r], UNCHANGED activations,
         \A x \in Knowledge : ProposalOf(x) # p => (Accepted(x)' <=> Accepted(x))
  PROVE  /\ \A q \in Proposals \ {p} : Facts'[q] = Facts[q]
         /\ \A q \in Proposals \ {p} : q \in Queue' <=> q \in Queue
<1>1. \A q \in Proposals \ {p} : proposal'[q] = proposal[q]
  BY DEF IInv, TypeOK
<1>2. ASSUME NEW q \in Proposals \ {p}
      PROVE  InputsNow(q)' = InputsNow(q)
  <2>1. \A n : InputsOf(q, n)' = InputsOf(q, n)
    BY SameInputs
  <2> QED  BY <1>1, <2>1 DEF InputsNow
<1>3. ASSUME NEW q \in Proposals \ {p}
      PROVE  Current(q)' <=> Current(q)
  BY <1>1 DEF Current, Last
<1> QED  BY <1>2, <1>3 DEF Facts, Queue

\* A change of a proposal that is not shown after it.
LEMMA QueueChange ==
  ASSUME IInv, IInv', NEW p \in Proposals, NEW r,
         proposal' = [proposal EXCEPT ![p] = r], UNCHANGED activations,
         \A x \in Knowledge : ProposalOf(x) # p => (Accepted(x)' <=> Accepted(x)),
         ~Current(p)'
  PROVE  Review!Change(p)
<1>1. Facts' \in [Proposals -> Inputs]
  BY FactsTypedAfter
<1>2. /\ \A q \in Proposals \ {p} : Facts'[q] = Facts[q]
      /\ \A q \in Proposals \ {p} : q \in Queue' <=> q \in Queue
  BY QueueElsewhere
<1>3. Queue' = Queue \ {p}
  BY <1>2 DEF Queue
<1> QED  BY <1>1, <1>2, <1>3 DEF Review!Change, Facts, Queue, Last

\* A recalculation assesses its proposal, or drops it.
LEMMA QueueScore ==
  ASSUME MeetsIsBoolean, IInv, IInv', NEW c \in Calls, ScoreEnd(c)
  PROVE  \E p \in Proposals : Review!Assess(p) \/ Review!Drop(p)
<1>1. PICK p \in Proposals, f \in Policies :
        /\ p = tx[c].proposal /\ active = {f}
        /\ proposal' = [proposal EXCEPT ![p] = proposal'[p]]
        /\ InputsNow(p)' = InputsNow(p)
  BY ScoredRow
<1>2. UNCHANGED <<knowledge, activations, active>>
  BY DEF ScoreEnd
<1>3. /\ \A q \in Proposals \ {p} : Facts'[q] = Facts[q]
      /\ \A q \in Proposals \ {p} : q \in Queue' <=> q \in Queue
  <2>1. PICK r : r = proposal'[p]
    OBVIOUS
  <2> QED  BY <1>1, <1>2, <2>1, QueueElsewhere DEF Accepted
<1>4. Facts' = Facts
  BY <1>1, <1>3 DEF Facts
<1>5. CASE Current(p)'
  <2>1. activations' # <<>> /\ Meets(Last.policy, InputsNow(p))
    <3>1. Last' = Last
      BY <1>2 DEF Last
    <3> QED  BY <1>1, <1>5, <3>1, CurrentMeetsAfter
  <2>2. Queue' = Queue \cup {p}
    BY <1>3, <1>5 DEF Queue
  <2>3. Last.policy \in Policies /\ Last.policy # None /\ activations # <<>>
    <3>1. activations # <<>>
      BY <1>2, <2>1
    <3> QED  BY <1>1, <3>1, KindsAssumption DEF IInv, ActivationsChain
  <2>4. Review!Assess(p)
    <3>1. /\ (IF activations = <<>> THEN None ELSE Last.policy) # None
          /\ Meets(IF activations = <<>> THEN None ELSE Last.policy, Facts[p])
      BY <2>1, <2>3 DEF Facts
    <3>2. UNCHANGED (IF activations = <<>> THEN None ELSE Last.policy)
      BY <1>2 DEF Last
    <3> QED  BY <1>4, <2>2, <3>1, <3>2 DEF Review!Assess, Facts, Queue
  <2> QED  BY <2>4
<1>6. CASE ~Current(p)'
  <2>1. Queue' = Queue \ {p}
    BY <1>3, <1>6 DEF Queue
  <2> QED  BY <1>2, <1>4, <2>1 DEF Review!Drop, Facts, Queue, Last
<1> QED  BY <1>5, <1>6

\* An activation puts its policy in force and shows what meets it.
LEMMA QueueRule ==
  ASSUME IInv, IInv', NEW c \in Calls, ActivateEnd(c)
  PROVE  \E r \in Policies : Review!Rule(r)
<1>1. PICK f \in Policies : f = tx[c].policy
  BY DEF ActivateEnd, IInv, TxOK
<1>2. UNCHANGED <<knowledge, proposal>> /\ active' = {f}
  BY <1>1 DEF ActivateEnd
<1>3. activations' # <<>>
  <2>1. tx[c].previous \in Policies \cup {None}
    BY DEF IInv, TypeOK
  <2>2. PICK a \in [policy : Policies, previous : Policies \cup {None}] :
          activations' = Append(activations, a)
    BY <1>1, <2>1 DEF ActivateEnd
  <2>3. Len(activations') = Len(activations) + 1 /\ Len(activations) \in Nat
    BY <2>2 DEF IInv, TypeOK
  <2> QED  BY <2>3
<1>4. Last'.policy = f
  BY <1>2, <1>3 DEF IInv, ActivationsChain
<1>5. ASSUME NEW q \in Proposals
      PROVE  InputsNow(q)' = InputsNow(q)
  <2>1. \A n : InputsOf(q, n)' = InputsOf(q, n)
    BY <1>2, SameInputs DEF Accepted
  <2> QED  BY <1>2, <2>1 DEF InputsNow
<1>6. Facts' = Facts
  BY <1>5 DEF Facts
<1>7. Queue' \subseteq {p \in Proposals : Meets(f, Facts[p])}
  <2>1. ASSUME NEW q \in Proposals, Current(q)'
        PROVE  Meets(f, InputsNow(q))
    BY <1>4, <1>5, <2>1, CurrentMeetsAfter
  <2> QED  BY <2>1 DEF Queue, Facts
<1>8. (IF activations = <<>> THEN None ELSE Last.policy)' = f
  BY <1>3, <1>4
<1>9. Review!Rule(f)
  BY <1>6, <1>7, <1>8 DEF Review!Rule, Facts, Queue
<1> QED  BY <1>9

\* A decision takes its proposal out of the queue.
LEMMA QueueDecide ==
  ASSUME IInv, IInv', NEW c \in Calls, DecideEnd(c)
  PROVE  \E p \in Proposals : Review!Change(p)
<1>1. PICK p \in Proposals, x \in Knowledge :
        p = tx[c].proposal /\ x = tx[c].item /\ ProposalOf(x) = p
  BY HomeIsProposal DEF DecideEnd, IInv, TxOK
<1>2. PICK r : r = Withdrawn(proposal[p])
  OBVIOUS
<1>3. proposal' = [proposal EXCEPT ![p] = r] /\ UNCHANGED activations
  BY <1>1, <1>2 DEF DecideEnd
<1>4. \A y \in Knowledge : ProposalOf(y) # p => (Accepted(y)' <=> Accepted(y))
  BY <1>1 DEF DecideEnd, Accepted, IInv, TypeOK
<1>5. ~Current(p)'
  <2>1. proposal'[p].snapshot = None
    BY <1>2, <1>3 DEF IInv, TypeOK, Withdrawn
  <2> QED  BY <2>1 DEF Current
<1> QED  BY <1>3, <1>4, <1>5, QueueChange

\* Supports and owners leave a proposal that is not in the queue.
LEMMA QueueRow ==
  ASSUME IInv, IInv', NEW p \in Proposals, Support(p) \/ Manage(p)
  PROVE  Review!Change(p)
<1>1. PICK r \in Row : r.status # "ELIGIBLE" /\ proposal' = [proposal EXCEPT ![p] = r]
  BY SupportRow, ManageRow
<1>2. UNCHANGED <<knowledge, activations>>
  BY DEF Support, Manage
<1>3. ~Current(p)'
  BY <1>1 DEF Current, IInv, TypeOK
<1> QED  BY <1>1, <1>2, <1>3, QueueChange DEF Accepted

LEMMA QueueStep ==
  ASSUME MeetsIsBoolean, IInv, IInv', [Next]_vars
  PROVE  Review!Next \/ UNCHANGED Review!vars
<1>1. CASE UNCHANGED vars
  BY <1>1, QueueStutter DEF vars
<1>2. CASE \E c \in Calls : DecideEnd(c)
  BY <1>2, QueueDecide DEF Review!Next
<1>3. CASE \E c \in Calls : ScoreEnd(c)
  BY <1>3, QueueScore DEF Review!Next
<1>4. CASE \E c \in Calls : ActivateEnd(c)
  BY <1>4, QueueRule DEF Review!Next
<1>5. CASE \E p \in Proposals : Support(p) \/ Manage(p)
  BY <1>5, QueueRow DEF Review!Next
<1>6. CASE \E c \in Calls : ContributeEnd(c)
  <2>1. PICK c \in Calls : ContributeEnd(c)
    BY <1>6
  <2>2. \A x \in Knowledge : Accepted(x)' <=> Accepted(x)
    BY <2>1 DEF ContributeEnd, Accepted, IInv, TypeOK
  <2> QED  BY <2>1, <2>2, QueueStutter DEF ContributeEnd
<1>7. CASE \E c \in Calls :
             \/ \E x \in Knowledge :
                  ContributeStart(c, x) \/ \E d \in {"ACCEPTED", "REJECTED"} : DecideStart(c, x, d)
             \/ \E p \in Proposals, f \in Policies : ScoreStart(c, p, f)
             \/ \E f \in Policies : ActivateStart(c, f)
             \/ ScoreLock(c) \/ ScoreCount(c) \/ Abort(c)
  <2>1. UNCHANGED <<knowledge, proposal, activations>>
    BY <1>7 DEF ContributeStart, DecideStart, ScoreStart, ActivateStart, ScoreLock,
                ScoreCount, Abort
  <2> QED  BY <2>1, QueueStutter
<1> QED  BY <1>1, <1>2, <1>3, <1>4, <1>5, <1>6, <1>7 DEF Next

LEMMA QueueInit ==
  ASSUME Init, IInv
  PROVE  Review!Init
<1>1. (IF activations = <<>> THEN None ELSE Last.policy) \in Policies \cup {None}
  BY DEF Init, Last
<1>2. \A p \in Proposals : proposal[p].snapshot = None
  BY DEF Init
<1>3. Queue = {}
  BY <1>2 DEF Queue, Current
<1>4. Facts \in [Proposals -> Inputs]
  BY FactsTyped
<1> QED  BY <1>1, <1>3, <1>4 DEF Review!Init, Queue, Facts

(* What reviewers see changes as a review queue promises: a proposal enters  *)
(* when ScoreService assesses it by the policy and the facts of the moment,  *)
(* and leaves before a moderation changes its facts or a policy replaces the *)
(* one it meets.                                                             *)
THEOREM ImplementsReview ==
  ASSUME MeetsIsBoolean
  PROVE  Spec => ReviewSpec
<1>1. Init => Review!Init
  BY Initially, QueueInit
<1>2. IInv /\ IInv' /\ [Next]_vars => [Review!Next]_(Review!vars)
  BY QueueStep
<1> QED  BY <1>1, <1>2, Invariance, PTL DEF Spec, ReviewSpec, Review!Spec
=============================================================================
