\* Three processes contend for a log with room for two reservations; contents
\* do not matter to progress, so blocks have one value.
CONSTANTS
  Procs = {p1, p2, p3}
  Blocks = {b1}
  Values = {v1}
  NoBlock = NoBlock
  NotCached = NotCached
  LOGSIZE = 6
  NLOG = 6
  MAXOPBLOCKS = 3
  OpBlocks = 1
SPECIFICATION FairSpec
PROPERTY SleepersWoken
PROPERTY ProgressOnceUp
