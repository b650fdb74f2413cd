\* Two threads over three leases, two libraries and one store; two episodes with
\* retries, faults and stops; two callers of one claim; three versions of the
\* service's state; two applications; four claims, or three adjudications: the
\* predicate 1 has one value
CONSTANTS
  Foci = {"leases", "episodes", "admissions", "backups", "admin", "evidence"}
  Libraries = {libA, libB}
  Stores = {s1}
  Threads = {t1, t2}
  LeaseIds = {l1, l2, l3}
  RuntimeIds = {r1, r2}
  SharedRelease = FALSE
  None = None
  EpisodeKeys = {k1, k2}
  Contents = {c1, c2}
  Foreign = Foreign
  Nothing = Nothing
  MaxStops = 2
  MaxFaults = 1
  MaxRecords = 1
  LegacyStores <- SomeLegacyStores
  Claims = {a1}
  Asserted <- OwnAddress
  Contexts <- AmbiguousContext
  Callers = {x1, x2}
  ErrorLeaves = {"nothing", "line"}
  MaxSequence = 1
  MaxLines = 2
  MaxRestarts = 1
  Absent = Absent
  Unset = Absent
  MaxVersions = 3
  MaxKills = 2
  Apps = {app1, app2}
  Providers = {p1, p2}
  ApiKeys = {key1, key2, Blank}
  Blank = Blank
  MaxRequests = 3
  MaxFailures = 2
  SinglePredicates = {1}
  Spaces = {"n", "m"}
  Origins = {"o1", "o2", "o3"}
  Resolutions = {q1, q2, q3}
  Questions <- SomeQuestions
  MaxHistoryOfClaims = 4
\* Every part ends at its bounds.
CHECK_DEADLOCK FALSE
SYMMETRY Symmetry
SPECIFICATION Spec
INVARIANTS LeasesSafe EpisodesProjected MirrorProves AdmissionsJustified BackupRestores
  AdministrationSurvives EvidenceIsSound PathsInferred
PROPERTIES KeepsLedger
