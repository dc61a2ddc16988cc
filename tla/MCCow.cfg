\* Three processes share two pages while there is memory for two copies; one of them may be
\* taken down.
CONSTANTS
  Procs = {p1, p2, p3}
  InitProc = p1
  MaxPages = 2
  InitPages = 2
  TextPages = {0}
  MaxMaps = 0
  Values = {v0, v1}
  Zero = v0
  Junk = Junk
  None = None
  NFrames = 16
  RefRange = 256
  MaxTeardowns = 1
SPECIFICATION CleanSpec
INVARIANT CowInvariant
INVARIANT WritableIsUnshared
PROPERTY PrivateIsPrivate
SYMMETRY MCSymmetry
CHECK_DEADLOCK FALSE
