\* sbrk is given page-table pages that freevm freed with a count of 255.
CONSTANTS
  Procs = {p1, p2}
  InitProc = p1
  MaxPages = 3
  InitPages = 1
  TextPages = {0}
  MaxMaps = 0
  Values = {v0}
  Zero = v0
  Junk = Junk
  None = None
  NFrames = 18
  RefRange = 256
  MaxTeardowns = 1
SPECIFICATION Spec
INVARIANT NoUseAfterFree
CHECK_DEADLOCK FALSE
