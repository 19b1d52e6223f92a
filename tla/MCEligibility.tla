--------------------------- MODULE MCEligibility ---------------------------
(***************************************************************************)
(* One proposal with a source, a claim linked to it and an evidence that   *)
(* contradicts.  "lenient" asks for one support and one accepted item,     *)
(* "strict" for evidence, "clash" is another policy under the version of   *)
(* "strict".                                                               *)
(***************************************************************************)
EXTENDS Eligibility, TLC

MCHome == "a" :> "p" @@ "k" :> "p"
MCCites == "k" :> "a"
MCAbout == "e" :> "k"
MCFrom == "e" :> "a"

MCVersionOf == "lenient" :> 1 @@ "strict" :> 2 @@ "clash" :> 2

MCMeets(f, in) ==
  /\ f = "lenient" => in.supports >= 1 /\ in.sources + in.claims + in.evidence >= 1
  /\ f = "strict" => in.evidence >= 1 /\ 2 * in.evidence - in.contradictions >= 1
  /\ f = "clash" => in.claims >= 1

MCSymmetry == Permutations(Calls)
=============================================================================
