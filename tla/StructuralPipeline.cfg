\* Clean writes, power losses, conflicting provenances: the safety of the pipeline.
CONSTANTS
  Events = {e1, e2}
  Provenances = {p1, p2}
  EmptyTrail = {}
  BlankName = {}
  Reader = "association"
  Threads = {t1, t2}
  Opener = Opener
  ErrorLeaves = {"nothing"}
  Stops = {"power"}
  CrashTears = FALSE
  Torn = Torn
  None = None
  MaxCrashes = 2
  MaxErrors = 1
SPECIFICATION Spec
SYMMETRY Symmetry
INVARIANTS TypeOK AckedSurvive StartupAccepts FieldIsFold CheckpointIsDurablePrefix RefusedNeverStored
PROPERTIES ImplementsLog
