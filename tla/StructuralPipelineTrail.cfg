\* The trajectory runtime behind a store that accepts empty trails.
CONSTANTS
  Events = {e1, e2}
  Provenances = {p1, p2}
  EmptyTrail = {e1}
  BlankName = {}
  Reader = "trajectory"
  Threads = {t1, t2}
  Opener = Opener
  ErrorLeaves = {"nothing"}
  Stops = {"power"}
  CrashTears = FALSE
  Torn = Torn
  None = None
  MaxCrashes = 2
  MaxErrors = 1
SPECIFICATION Spec
INVARIANTS StartupAccepts
