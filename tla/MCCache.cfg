\* Three blocks, one of which the log may pin, and two processes that hold up to two
\* each, on two buffers: every bget recycles or meets the other process, and bget runs
\* out of buffers, which stops the kernel.
CONSTANTS
  NBUF = 2
  p1 = p1
  p2 = p2
  Procs = {p1, p2}
  NoProc = NoProc
  Blocks = {1, 2, 3}
  Values = {v1, v2}
  Blank = v1
  PinLimit = 1
  Depth <- TwoEach
  NothingSeen = NothingSeen
SPECIFICATION FairSpec
INVARIANT CacheInvariant
INVARIANT NobodyStuck
INVARIANT PanicOnlyWhenFull
PROPERTY ImplementsBlockStore
PROPERTY IoCompletes
CHECK_DEADLOCK FALSE
