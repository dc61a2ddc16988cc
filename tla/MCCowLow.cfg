\* fork, faults and sbrk with a mapping, until memory runs out.
CONSTANTS
  Procs = {p1, p2}
  InitProc = p1
  MaxPages = 2
  InitPages = 1
  TextPages = {0}
  MaxMaps = 1
  Values = {v0, v1}
  Zero = v0
  Junk = Junk
  None = None
  NFrames = 11
  RefRange = 256
  MaxTeardowns = 1
SPECIFICATION Spec
 
INVARIANT TextStaysReadOnly
CHECK_DEADLOCK FALSE
