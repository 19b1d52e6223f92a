SPECIFICATION Spec
CONSTANTS
  Proposals = {"p"}
  Sources = {"a"}
  Claims = {"k"}
  Evidence = {"e"}
  Home <- MCHome
  Cites <- MCCites
  About <- MCAbout
  From <- MCFrom
  Contradicting = {"e"}
  Policies = {"lenient", "strict", "clash"}
  VersionOf <- MCVersionOf
  Meets <- MCMeets
  Calls = {c1, c2}
  None = None
  MaxSupports = 1
  MaxRevision = 2
  MaxActivations = 2
SYMMETRY MCSymmetry
INVARIANTS
  ListedAreCurrent
  ActivationsChain
PROPERTIES
  ScoresAreCurrent
  KnowledgeWhileCollecting
  ReviewSpec
