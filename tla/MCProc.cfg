\* Four slots (a process, its parent, its grandparent init and a spare), two CPUs,
\* three forks, kills of the first child.
CONSTANTS
  NPROC = 4
  Cpus = {c1, c2}
  MaxPid = 4
  KillPids = {2}
SPECIFICATION FairSpec
INVARIANT TableInvariant
INVARIANT ZombieWakesParent
PROPERTY RunnableRuns
PROPERTY KilledExit
PROPERTY OrphansReaped
CHECK_DEADLOCK FALSE
