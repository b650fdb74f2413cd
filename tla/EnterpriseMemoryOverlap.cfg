\* Two saves overlap.
CONSTANTS
  Keys = {k1, k2}
  KnowledgeIds = {n1}
  Payloads = {p1}
  Threads = {t1, t2}
  None = None
  MaxVersion = 1
  MaxCrashes = 0
  MaxErrors = 0
SPECIFICATION Spec
INVARIANTS AckedSurvive
