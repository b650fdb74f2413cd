CONSTANTS
  Foci = {"layers", "queries", "levels", "branches", "inference", "field", "continuous"}
  \* Layers: calls with 0.25, 0.75, 1.0 and 2.0.
  LastLevel = 2
  Rate <- HalvingRate
  Activate = 16
  Deactivate = 4
  MaxStrength = 20
  Amounts = {1, 3, 4, 8}
  MaxTime = 10
  \* The trajectory index and what reads it.
  Addresses = {a, b, c}
  MaxDepth = 2
  MinOccurrences = 2
  MinTrajectories = 2
  MinSize = 2
  MaxSize = 2
  MinBridge = 1
  MinLineages = 2
  StepLimits = {1, 4}
  CandidateLimit = 2
  BranchLimit = 2
  MaxSeed = 2
  MaxObserved = 2
  \* The association fields.
  Hierarchies = {h1}
  FieldAddresses = {fa, fb}
  MaxWithinDistance = 2
  MaxEventLag = 2
  MaxLength = 3
  MaxTicks = 3
  Clocks = {c1, c2}
  Intervals <- ShortIntervals
  CausalHorizon = 1
  PhysicalHorizon = 3
  MaxHistory = 3
  MaxEvents = 5
\* The bounds end the behaviour.
CHECK_DEADLOCK FALSE
SYMMETRY Symmetry
SPECIFICATION Spec
INVARIANTS LifecycleSafe AnswersReadContent LevelsAreFaithful BranchesAreExact InferenceIsSound FieldsRememberEnough
