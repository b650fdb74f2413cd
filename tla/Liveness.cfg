\* The pipeline under kills and failing checkpoints, no row refused; three
\* leases of two libraries for one store.
CONSTANTS
  Events = {e1, e2}
  Provenances = {p1}
  EmptyTrail = {}
  BlankName = {}
  Reader = "association"
  Threads = {t1, t2}
  Opener = Opener
  ErrorLeaves = {"nothing"}
  Stops = {"kill"}
  CrashTears = FALSE
  Torn = Torn
  None = None
  MaxCrashes = 1
  MaxErrors = 1
  Libraries = {libA, libB}
  Stores = {s1}
  LeaseIds = {l1, l2, l3}
  RuntimeIds = {r1, r2}
  SharedRelease = FALSE
\* Leases end with LeaseIds.
CHECK_DEADLOCK FALSE
SPECIFICATION LiveSpec
PROPERTIES ReleaseEnds AckedEventuallyDerived
