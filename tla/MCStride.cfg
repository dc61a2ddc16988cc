\* init and two children, with the default or twice the default tickets, for seven quanta.
CONSTANTS
  NPROC = 3
  Stride1 = 1024
  Programs <- FamilyOfThree
  Requests = {16}
  MaxPid = 5
  MaxPass = 1000
  MaxQuanta = 7
  Killable = {3}
SPECIFICATION Spec
INVARIANT StrideInvariant
INVARIANT ProportionalTurns
 
CHECK_DEADLOCK FALSE
