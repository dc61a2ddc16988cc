\* Two processes under the same few names; three inodes run out, and a directory two
\* levels deep can be removed under the process that works in it.
CONSTANTS
  p1 = p1
  p2 = p2
  Procs = {p1, p2}
  NoProc = NoProc
  NINODES = 3
  Names = {"a", "b"}
  Calls <- Mixed
SPECIFICATION Spec
INVARIANT InodeInvariant
INVARIANT NoUseAfterFree
INVARIANT NoCountPanic
INVARIANT NlinkExact
INVARIANT OrphansNeedARace
INVARIANT CirclesAreIputs
CHECK_DEADLOCK FALSE
