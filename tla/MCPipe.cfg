\* Two processes, both ends in any hands, one of them killed, three calls of up to
\* two bytes through a pipe of two: the counts wrap.
CONSTANTS
  Users = {p1, p2}
  Bytes = {0, 1}
  Junk = 0
  PIPESIZE = 2
  CountRange = 4
  MaxWrite = 2
  MaxCalls = 3
  MaxKills = 1
SPECIFICATION FairSpec
INVARIANT PipeInvariant
INVARIANT NoLostWakeup
 
PROPERTY CallsReturn
CHECK_DEADLOCK FALSE
