\* Every fault at once: failing and tearing writes, kills and power losses, rows the
\* trajectory index refuses.
CONSTANTS
  Events = {e1, e2}
  Provenances = {p1, p2}
  EmptyTrail = {e2}
  BlankName = {p2}
  Reader = "trajectory"
  Threads = {t1, t2}
  Opener = Opener
  ErrorLeaves = {"nothing", "row", "torn"}
  Stops = {"kill", "power"}
  CrashTears = TRUE
  Torn = Torn
  None = None
  MaxCrashes = 2
  MaxErrors = 1
SPECIFICATION Spec
SYMMETRY Symmetry
INVARIANTS CursorStaysValid RowsHavePayload
PROPERTIES OnlyForward
