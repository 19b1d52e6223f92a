---------------------------- MODULE ReviewQueue ----------------------------
(***************************************************************************)
(* What scoring, moderation and policies promise the reviewers: a queue of *)
(* proposals that meet the rules in force by the facts as they are.  A     *)
(* proposal enters when it is assessed.  It leaves before its facts change *)
(* and, unless it meets the new rules, when the rules change.              *)
(***************************************************************************)
CONSTANTS
  Proposals, Rules, Facts,
  NoRules,
  Meets(_, _)   \* whether facts meet rules

VARIABLES
  rules,   \* the rules in force
  facts,   \* the facts about each proposal
  queue    \* the proposals shown to reviewers

vars == <<rules, facts, queue>>

Init ==
  /\ rules \in Rules \cup {NoRules}
  /\ facts \in [Proposals -> Facts]
  /\ queue = {}

Assess(p) ==
  /\ rules # NoRules /\ Meets(rules, facts[p])
  /\ queue' = queue \cup {p}
  /\ UNCHANGED <<rules, facts>>

Drop(p) ==
  /\ queue' = queue \ {p}
  /\ UNCHANGED <<rules, facts>>

Change(p) ==
  /\ facts' \in [Proposals -> Facts]
  /\ \A q \in Proposals \ {p} : facts'[q] = facts[q]
  /\ queue' = queue \ {p}
  /\ UNCHANGED rules

Rule(r) ==
  /\ rules' = r
  /\ queue' \subseteq {p \in Proposals : Meets(r, facts[p])}
  /\ UNCHANGED facts

Next ==
  \/ \E p \in Proposals : Assess(p) \/ Drop(p) \/ Change(p)
  \/ \E r \in Rules : Rule(r)

Spec == Init /\ [][Next]_vars
=============================================================================
