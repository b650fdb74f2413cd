\* Two threads, one key and two bodies in the journal; two episodes and a
\* relation; two memories of two versions.  The bounds of each part on crashes
\* and errors are in its INSTANCE.
CONSTANTS
  Threads = {t1, t2}
  Memories = {m1, m2}
  Bodies = {b1, b2}
  Inodes = {i1, i2, i3}
  KnowledgeIds = {n1}
  Relations = {rel1}
  None = None
  Torn = Torn
  Empty = Empty
  OneKey = {key0}
  OneThread = {t0}
  MaxSequence = 1
\* MaxRows ends the requests of the mixed route.
CHECK_DEADLOCK FALSE
SPECIFICATION Spec
SYMMETRY Symmetry
INVARIANTS AcksSurvive StoresReopen ReadersAgree
PROPERTIES StoresImplement
