\* A relation's save overlaps an episode's: the receipt on disk.
CONSTANTS
  Episodes = {e1}
  Relations = {r1}
  Contents = {c1}
  Threads = {t1, t2}
  Inodes = {i1, i2, i3}
  Stops = {}
  Empty = Empty
  None = None
  MaxRows = 2
  MaxCrashes = 0
  MaxErrors = 0
\* MaxRows ends the requests.
CHECK_DEADLOCK FALSE
SPECIFICATION Spec
INVARIANTS AckedSurvive
