---------------------------- MODULE Eligibility ----------------------------
(***************************************************************************)
(* How a proposal comes to be eligible, and when reviewers see it:         *)
(* contributions (src/src/knowledge/knowledge-service.ts), their           *)
(* moderation (src/src/admin/administration-service.ts), scoring and the   *)
(* activation of policies (src/src/scoring), and the view of the queue     *)
(* (migration 0021).                                                       *)
(*                                                                         *)
(* Every operation is one transaction at READ COMMITTED.  A transaction is *)
(* split where it waits for a lock or reads again: what it has written is  *)
(* seen by others when it commits, in its last step.  Which locks are held *)
(* follows from where the transactions are.  Authority, idempotency keys   *)
(* and audit rows of the administrative operations are left out here; the  *)
(* version and the events of a proposal are in Proposals.                  *)
(***************************************************************************)
EXTENDS Integers, Sequences, FiniteSets

CONSTANTS
  Proposals,
  Sources, Claims, Evidence,
  Home,           \* the proposal of a source or claim
  Cites,          \* the source a claim is linked to, or None
  About, From,    \* the claim and the source of an evidence
  Contradicting,  \* the evidence with stance CONTRADICTS
  Policies,       \* ScorePolicyConfig
  VersionOf,      \* the version of a policy
  Meets(_, _),    \* whether inputs reach the thresholds of a policy
  Calls,          \* transactions that may be open at the same time
  None,
  MaxSupports, MaxRevision, MaxActivations   \* bounds

Knowledge == Sources \cup Claims \cup Evidence

\* The triggers of migration 0008: what is related belongs to one proposal.
ASSUME RelationsAssumption ==
  /\ Home \in [Sources \cup Claims -> Proposals]
  /\ Cites \in [Claims -> Sources \cup {None}]
  /\ About \in [Evidence -> Claims] /\ From \in [Evidence -> Sources]
  /\ Contradicting \subseteq Evidence
  /\ \A k \in Claims : Cites[k] # None => Home[Cites[k]] = Home[k]
  /\ \A e \in Evidence : Home[From[e]] = Home[About[e]]

ASSUME KindsAssumption ==
  /\ Sources \cap Claims = {} /\ Evidence \cap (Sources \cup Claims) = {}
  /\ IsFiniteSet(Knowledge)
  /\ None \notin Knowledge \cup Policies \cup Proposals

ASSUME BoundsAssumption ==
  MaxSupports \in Nat /\ MaxRevision \in Nat /\ MaxActivations \in Nat

VARIABLES
  knowledge,    \* the moderation_status of sources, claims and evidence
  proposal,     \* status, support_count, knowledge_revision and snapshot
  registered,   \* the policies in score_policies
  active,       \* those with status ACTIVE
  activations,  \* score_policy_activations, by activation_sequence
  tx            \* the open transactions

vars == <<knowledge, proposal, registered, active, activations, tx>>

ProposalOf(x) == IF x \in Evidence THEN Home[About[x]] ELSE Home[x]

\* What must be there before x can refer to it.
Cited(x) ==
  IF x \in Evidence THEN {About[x], From[x]}
  ELSE IF x \in Claims /\ Cites[x] # None THEN {Cites[x]}
  ELSE {}

Collecting == {"OPEN", "COLLECTING"}

Statuses == Collecting \cup {"CREATED", "ELIGIBLE", "ARCHIVED", "DELETED"}

Inputs == [supports : Nat, sources : Nat, claims : Nat,
           evidence : Nat, contradictions : Nat]

\* A score_run, as its snapshot shows it: runs never change.  A policy's set of
\* fingerprints stands for the policy, which it identifies.
Run == [policy : Policies, inputs : Inputs, eligible : BOOLEAN, revision : Nat]

\* The three eligibility columns of a proposal.
Snapshot == [run : Run, hash : Policies, revision : Nat]

ASSUME NoneAssumption == None \notin Snapshot

Row == [status : Statuses, supports : Nat, revision : Nat,
        snapshot : Snapshot \cup {None}]

\* at: what the transaction has done.
NoTx == [at |-> "idle", proposal |-> None, item |-> None, policy |-> None,
         previous |-> None, decision |-> "PENDING", row |-> None, inputs |-> None]

\* Migration 0021: what is there may be moderated, and proposals be eligible,
\* but no proposal has a snapshot and every knowledge_revision is 0.
Init ==
  /\ knowledge \in [Knowledge -> {"ABSENT", "PENDING", "ACCEPTED", "REJECTED"}]
  /\ \A x \in Knowledge : knowledge[x] # "ABSENT" =>
       \A y \in Cited(x) : knowledge[y] # "ABSENT"
  /\ proposal \in [Proposals -> [status : Statuses, supports : 0 .. MaxSupports,
                                 revision : {0}, snapshot : {None}]]
  /\ \A x \in Knowledge :
       knowledge[x] # "ABSENT" => proposal[ProposalOf(x)].status # "CREATED"
  /\ \A p \in Proposals : proposal[p].status = "CREATED" => proposal[p].supports = 0
  /\ \/ /\ registered = {} /\ activations = <<>>
        /\ \A p \in Proposals : proposal[p].status # "ELIGIBLE"
     \/ \E f \in Policies :
          registered = {f} /\ activations = <<[policy |-> f, previous |-> None]>>
  /\ active = registered
  /\ tx = [c \in Calls |-> NoTx]

-----------------------------------------------------------------------------
\* Locks.
Scoring == {"scoring", "locked", "counted"}

\* Fault: the lock named policy_activation is not taken.
PolicyLockFreeAlways(ats) == TRUE

\* No transaction that is at one of these holds the lock policy_activation.
PolicyLockFree(ats) == \A c \in Calls : tx[c].at \notin ats

\* Fault: recalculate reads the proposal without FOR UPDATE.
HoldersNone(p) == {}

\* Transactions with the row of a proposal FOR UPDATE.
Holders(p) == {c \in Calls : tx[c].at \in {"locked", "counted"} /\ tx[c].proposal = p}

\* Fault: a contribution reads its proposal without FOR SHARE.
SharersNone(p) == {}

\* Transactions with the row of a proposal FOR SHARE.
Sharers(p) == {c \in Calls : tx[c].at = "contributing" /\ tx[c].proposal = p}

RowFree(p) == Holders(p) \cup Sharers(p) = {}

\* No moderation has x FOR UPDATE.
NotModerated(x) == \A c \in Calls : tx[c].at = "deciding" => tx[c].item # x

\* No evidence being added has x FOR SHARE.
NotCited(x) ==
  \A c \in Calls :
    tx[c].at = "contributing" /\ tx[c].item \in Evidence => x \notin Cited(tx[c].item)

Open(c, t) == tx[c] = NoTx /\ tx' = [tx EXCEPT ![c] = t]

Close(c) == tx' = [tx EXCEPT ![c] = NoTx]

\* Error, refusal, or a deadlock that PostgreSQL ends.
Abort(c) ==
  /\ tx[c] # NoTx
  /\ Close(c)
  /\ UNCHANGED <<knowledge, proposal, registered, active, activations>>

-----------------------------------------------------------------------------
\* Contributions: addUrlSource, addClaim, addEvidence.
ContributeStart(c, x) ==
  LET p == ProposalOf(x)
  IN  /\ Holders(p) = {}
      /\ proposal[p].status \in Collecting
      /\ \A y \in Cited(x) : knowledge[y] # "ABSENT"
      /\ x \in Evidence => \A y \in Cited(x) : NotModerated(y)
      /\ Open(c, [NoTx EXCEPT !.at = "contributing", !.proposal = p, !.item = x])
      /\ UNCHANGED <<knowledge, proposal, registered, active, activations>>

\* The insertion, which finds a duplicate or locks what it refers to.  That of
\* a source or claim looks at the status again, that of an evidence does not.
ContributeEnd(c) ==
  LET x == tx[c].item
  IN  /\ tx[c].at = "contributing"
      /\ knowledge[x] = "ABSENT"
      /\ x \in Evidence \/ proposal[tx[c].proposal].status \in Collecting
      /\ \A y \in Cited(x) : NotModerated(y)
      /\ knowledge' = [knowledge EXCEPT ![x] = "PENDING"]
      /\ Close(c)
      /\ UNCHANGED <<proposal, registered, active, activations>>

-----------------------------------------------------------------------------
\* moderate: the entity is locked and updated, then its proposal.
DecideStart(c, x, decision) ==
  /\ knowledge[x] # "ABSENT"
  /\ NotModerated(x) /\ NotCited(x)
  /\ Open(c, [NoTx EXCEPT !.at = "deciding", !.proposal = ProposalOf(x),
                          !.item = x, !.decision = decision])
  /\ UNCHANGED <<knowledge, proposal, registered, active, activations>>

\* Fault: the decision does not touch the proposal.
WithdrawnNever(row) == row

\* The proposal's row after a decision on its knowledge.
Withdrawn(row) ==
  [status |-> IF row.status = "ELIGIBLE" THEN "COLLECTING" ELSE row.status,
   supports |-> row.supports, revision |-> row.revision + 1, snapshot |-> None]

DecideEnd(c) ==
  LET p == tx[c].proposal
  IN  /\ tx[c].at = "deciding"
      /\ RowFree(p)
      /\ proposal[p].revision < MaxRevision
      /\ knowledge' = [knowledge EXCEPT ![tx[c].item] = tx[c].decision]
      /\ proposal' = [proposal EXCEPT ![p] = Withdrawn(proposal[p])]
      /\ Close(c)
      /\ UNCHANGED <<registered, active, activations>>

-----------------------------------------------------------------------------
Accepted(x) == knowledge[x] = "ACCEPTED"

AcceptedSources(p) == {a \in Sources : Home[a] = p /\ Accepted(a)}

AcceptedClaims(p) ==
  {k \in Claims : /\ Home[k] = p /\ Accepted(k)
                  /\ Cites[k] = None \/ Accepted(Cites[k])}

AcceptedEvidence(p) ==
  {e \in Evidence : About[e] \in AcceptedClaims(p) /\ Accepted(e) /\ Accepted(From[e])}

InputsOf(p, supports) ==
  [supports |-> supports,
   sources |-> Cardinality(AcceptedSources(p)),
   claims |-> Cardinality(AcceptedClaims(p)),
   evidence |-> Cardinality(AcceptedEvidence(p)),
   contradictions |-> Cardinality(AcceptedEvidence(p) \cap Contradicting)]

\* recalculate takes the lock policy_activation FOR SHARE and reads the policies.
ScoreStart(c, p, f) ==
  /\ PolicyLockFree({"activating"})
  /\ active = {f}
  /\ Open(c, [NoTx EXCEPT !.at = "scoring", !.proposal = p, !.policy = f])
  /\ UNCHANGED <<knowledge, proposal, registered, active, activations>>

\* It reads the proposal FOR UPDATE.
ScoreLock(c) ==
  LET p == tx[c].proposal
  IN  /\ tx[c].at = "scoring"
      /\ RowFree(p)
      /\ proposal[p].status # "DELETED"
      /\ tx' = [tx EXCEPT ![c] = [tx[c] EXCEPT !.at = "locked", !.row = proposal[p]]]
      /\ UNCHANGED <<knowledge, proposal, registered, active, activations>>

\* It counts what is accepted.
ScoreCount(c) ==
  /\ tx[c].at = "locked"
  /\ tx' = [tx EXCEPT ![c] =
              [tx[c] EXCEPT !.at = "counted",
                            !.inputs = InputsOf(tx[c].proposal, tx[c].row.supports)]]
  /\ UNCHANGED <<knowledge, proposal, registered, active, activations>>

\* The status a recalculation leaves: gain, loss or none.
Scored(status, eligible) ==
  IF eligible /\ status \in Collecting THEN "ELIGIBLE"
  ELSE IF ~eligible /\ status = "ELIGIBLE" THEN "COLLECTING"
  ELSE status

\* The UPDATE compares status and version; the version moves with the status and
\* with every support.
ScoreEnd(c) ==
  LET p == tx[c].proposal
      row == tx[c].row
      eligible == Meets(tx[c].policy, tx[c].inputs)
      run == [policy |-> tx[c].policy, inputs |-> tx[c].inputs,
              eligible |-> eligible, revision |-> row.revision]
      snapshot == [run |-> run, hash |-> tx[c].policy,
                   revision |-> proposal[p].revision]
  IN  /\ tx[c].at = "counted"
      /\ proposal[p].status = row.status /\ proposal[p].supports = row.supports
      /\ proposal' = [proposal EXCEPT ![p] =
                        [status |-> Scored(row.status, eligible),
                         supports |-> row.supports, revision |-> proposal[p].revision,
                         snapshot |-> IF eligible THEN snapshot ELSE None]]
      /\ Close(c)
      /\ UNCHANGED <<knowledge, registered, active, activations>>

-----------------------------------------------------------------------------
Last == activations[Len(activations)]

\* activate takes the lock FOR UPDATE, checks that the version is not registered
\* for another policy, and reads the version that is active.
ActivateStart(c, f) ==
  /\ PolicyLockFree(Scoring \cup {"activating"})
  /\ \A g \in registered : VersionOf[g] = VersionOf[f] => g = f
  /\ Cardinality(active) <= 1
  /\ \A g \in active : VersionOf[g] # VersionOf[f]
  /\ Open(c, [NoTx EXCEPT !.at = "activating", !.policy = f,
                 !.previous = IF active = {} THEN None ELSE CHOOSE g \in active : TRUE])
  /\ UNCHANGED <<knowledge, proposal, registered, active, activations>>

ActivateEnd(c) ==
  /\ tx[c].at = "activating"
  /\ Len(activations) < MaxActivations
  /\ registered' = registered \cup {tx[c].policy}
  /\ active' = {tx[c].policy}
  /\ activations' = Append(activations, [policy |-> tx[c].policy, previous |-> tx[c].previous])
  /\ Close(c)
  /\ UNCHANGED <<knowledge, proposal>>

-----------------------------------------------------------------------------
SupportsAfter(n) == {n + 1} \cup (IF n = 0 THEN {} ELSE {n - 1})

\* A support is added or revoked.  Its version check makes it one step.
Support(p) ==
  /\ RowFree(p)
  /\ proposal[p].status \in Collecting
  /\ \E n \in SupportsAfter(proposal[p].supports) :
       /\ n <= MaxSupports
       /\ proposal' = [proposal EXCEPT ![p].supports = n]
  /\ UNCHANGED <<knowledge, registered, active, activations, tx>>

\* Its author or a moderator opens, archives or deletes a proposal.
Manage(p) ==
  LET from == proposal[p].status
  IN  /\ RowFree(p)
      /\ \E status \in {"OPEN", "ARCHIVED", "DELETED"} :
           /\ status = "OPEN" => from = "CREATED"
           /\ status = "ARCHIVED" => from \in Collecting \cup {"CREATED", "ELIGIBLE"}
           /\ status = "DELETED" => from # "DELETED"
           /\ proposal' = [proposal EXCEPT ![p].status = status]
      /\ UNCHANGED <<knowledge, registered, active, activations, tx>>

Next ==
  \/ \E c \in Calls :
       \/ \E x \in Knowledge :
            \/ ContributeStart(c, x)
            \/ \E d \in {"ACCEPTED", "REJECTED"} : DecideStart(c, x, d)
       \/ \E p \in Proposals, f \in Policies : ScoreStart(c, p, f)
       \/ \E f \in Policies : ActivateStart(c, f)
       \/ ContributeEnd(c) \/ DecideEnd(c)
       \/ ScoreLock(c) \/ ScoreCount(c) \/ ScoreEnd(c)
       \/ ActivateEnd(c) \/ Abort(c)
  \/ \E p \in Proposals : Support(p) \/ Manage(p)

Spec == Init /\ [][Next]_vars

-----------------------------------------------------------------------------
\* Fault: the view does not compare the policy with the last activation.
CurrentAnyPolicy(p) ==
  LET s == proposal[p].snapshot
  IN  /\ proposal[p].status = "ELIGIBLE" /\ s # None
      /\ s.run.eligible
      /\ s.run.revision = proposal[p].revision
      /\ s.revision = proposal[p].revision
      /\ s.hash = s.run.policy

\* The view current_proposal_eligibility.
Current(p) ==
  LET s == proposal[p].snapshot
  IN  /\ proposal[p].status = "ELIGIBLE" /\ s # None
      /\ activations # <<>> /\ Last.policy = s.run.policy
      /\ s.run.eligible
      /\ s.run.revision = proposal[p].revision
      /\ s.revision = proposal[p].revision
      /\ s.hash = s.run.policy

\* What a recalculation would find now.
InputsNow(p) == InputsOf(p, proposal[p].supports)

TypeOK ==
  /\ knowledge \in [Knowledge -> {"ABSENT", "PENDING", "ACCEPTED", "REJECTED"}]
  /\ proposal \in [Proposals -> Row]
  /\ registered \subseteq Policies /\ active \subseteq registered
  /\ activations \in Seq([policy : Policies, previous : Policies \cup {None}])
  /\ tx \in [Calls ->
       [at : {"idle", "contributing", "deciding", "activating"} \cup Scoring,
        proposal : Proposals \cup {None}, item : Knowledge \cup {None},
        policy : Policies \cup {None}, previous : Policies \cup {None},
        decision : {"PENDING", "ACCEPTED", "REJECTED"},
        row : Row \cup {None}, inputs : Inputs \cup {None}]]

(* A proposal that reviewers see meets the active policy by the knowledge    *)
(* accepted and the supports counted at this moment, not only at the time    *)
(* it was scored.                                                            *)
ListedAreCurrent ==
  \A p \in Proposals : Current(p) =>
    \E f \in active : Meets(f, InputsNow(p))

(* One policy is active, the one activated last, and every activation names  *)
(* as its previous policy the one before it.                                 *)
ActivationsChain ==
  /\ active = IF activations = <<>> THEN {} ELSE {Last.policy}
  /\ \A i \in 2 .. Len(activations) :
       activations[i].previous = activations[i - 1].policy

(* A recalculation that changes a proposal decides by the policy that is     *)
(* active, the supports and the knowledge at the moment it commits, though   *)
(* it read them in four statements.                                          *)
ScoresAreCurrent ==
  [][\A c \in Calls :
       tx[c].at = "counted" /\ tx'[c] # tx[c] /\ proposal' # proposal =>
         LET p == tx[c].proposal
         IN  (proposal'[p].snapshot # None) =
               (\E f \in active : Meets(f, InputsNow(p)))]_vars

(* Knowledge arrives only at a proposal that is collecting, also evidence,   *)
(* whose insertion does not look at the status.                              *)
KnowledgeWhileCollecting ==
  [][\A x \in Knowledge :
       knowledge[x] = "ABSENT" /\ knowledge'[x] # "ABSENT" =>
         proposal[ProposalOf(x)].status \in Collecting]_vars

Review == INSTANCE ReviewQueue WITH
            Rules <- Policies, Facts <- Inputs, NoRules <- None,
            rules <- IF activations = <<>> THEN None ELSE Last.policy,
            facts <- [p \in Proposals |-> InputsNow(p)],
            queue <- {p \in Proposals : Current(p)}

(* Scoring, moderation and policies implement a review queue: what reviewers *)
(* see changes only as it promises.                                          *)
ReviewSpec == Review!Spec
=============================================================================
