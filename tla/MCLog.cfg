\* Two calls of at most two blocks each; a reservation of four blocks per call
\* fits twice in an empty log and once in one that is not, so begin_op waits
\* for space.
CONSTANTS
  Procs = {p1, p2}
  Blocks = {b1, b2}
  Values = {v1, v2}
  NoBlock = NoBlock
  NotCached = NotCached
  LOGSIZE = 8
  NLOG = 8
  MAXOPBLOCKS = 4
  OpBlocks = 2
SPECIFICATION Spec
INVARIANT LogInvariant
 
INVARIANT QuiescentDurable
PROPERTY ImplementsAtomicDisk
SYMMETRY MCSymmetry
