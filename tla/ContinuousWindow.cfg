\* Cognition.cfg for the continuous field alone, with one interval that ends
\* long after the others begin.
CONSTANTS
  Foci = {"continuous"}
  LastLevel = 2
  Rate <- HalvingRate
  Activate = 16
  Deactivate = 4
  MaxStrength = 20
  Amounts = {1}
  MaxTime = 1
  Addresses = {a, b}
  MaxDepth = 2
  MinOccurrences = 2
  MinTrajectories = 2
  MinSize = 2
  MaxSize = 2
  MinBridge = 1
  MinLineages = 2
  StepLimits = {1, 4}
  CandidateLimit = 2
  BranchLimit = 2
  MaxSeed = 2
  MaxObserved = 2
  Hierarchies = {h1}
  FieldAddresses = {fa, fb}
  MaxWithinDistance = 2
  MaxEventLag = 2
  MaxLength = 3
  MaxTicks = 3
  Clocks = {c1}
  Intervals <- LongIntervals
  CausalHorizon = 1
  PhysicalHorizon = 3
  MaxHistory = 3
  MaxEvents = 5
CHECK_DEADLOCK FALSE
SPECIFICATION Spec
INVARIANT OnlyNegligibleOmitted
