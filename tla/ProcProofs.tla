----------------------------- MODULE ProcProofs -----------------------------
(***************************************************************************)
(* TableInvariant and ZombieWakesParent, for every size of the table, any  *)
(* CPUs, any bound on pids and any pids that programs kill. The two are    *)
(* inductive together: that a sleeper has no zombie child rests on who is  *)
(* whose parent, and who is alive on the state that a wakeup leaves.       *)
(***************************************************************************)
EXTENDS ProcProperties, TLAPS

\* The slots, and the slot that stands for no process.
LEMMA SlotFacts ==
  NoProc \notin Slots /\ InitSlot \in Slots
BY TableSizes DEF Slots, NoProc, InitSlot

\* The slot after a slot, around the end of the table, is a slot.
LEMMA CursorWraps == \A p \in Slots : (p + 1) % NPROC \in Slots
BY TableSizes DEF Slots

IInv == TableInvariant /\ ZombieWakesParent

\* What wakeup1 does to a table: a sleeper becomes RUNNABLE, the rest stays.
LEMMA WakeUpFacts ==
  ASSUME NEW st \in [Slots -> ProcStates], NEW p \in Slots
  PROVE  /\ WakeUp(st, p) \in [Slots -> ProcStates]
         /\ WakeUp(st, p)[p] # "SLEEPING"
         /\ \A q \in Slots : \/ WakeUp(st, p)[q] = st[q]
                             \/ st[q] = "SLEEPING" /\ WakeUp(st, p)[q] = "RUNNABLE"
BY DEF WakeUp, ProcStates

-----------------------------------------------------------------------------
\* The invariant holds after userinit.
LEMMA InitInvariant == Init => IInv
<1> SUFFICES ASSUME Init PROVE IInv
  OBVIOUS
<1> USE SlotFacts DEF Init
<1>1. ProcTypeOK
  <2>1. 0 \in Slots /\ {0, 1} \subseteq 0 .. MaxPid /\ 2 \in 1 .. MaxPid + 1
    BY TableSizes DEF Slots
  <2> QED
    BY <2>1 DEF ProcTypeOK, ProcStates
<1>2. OneCpuEach /\ EmbryoOwned
  BY DEF OneCpuEach, EmbryoOwned
<1>3. ParentsLive /\ PidsUnique
  BY DEF ParentsLive, Live, PidsUnique
<1>4. ZombieWakesParent
  BY DEF ZombieWakesParent
<1> QED
  BY <1>1, <1>2, <1>3, <1>4 DEF IInv, TableInvariant

-----------------------------------------------------------------------------
(* Scheduling: Dispatch gives one CPU one RUNNABLE process.                 *)
LEMMA DispatchKeeps ==
  ASSUME IInv, NEW c \in Cpus, Dispatch(c)
  PROVE  IInv'
<1> USE SlotFacts DEF IInv, TableInvariant, ProcTypeOK
<1>0. PICK p \in Slots :
         /\ state[p] = "RUNNABLE" /\ cpuProc[c] = NoProc
         /\ state' = [state EXCEPT ![p] = "RUNNING"]
         /\ cpuProc' = [cpuProc EXCEPT ![c] = p]
         /\ cursor' = [cursor EXCEPT ![c] = (p + 1) % NPROC]
         /\ UNCHANGED <<pid, parent, killed, nextpid, pc, child>>
  BY DEF Dispatch
<1>1. ProcTypeOK'
  <2>1. (p + 1) % NPROC \in Slots  \* the next round starts behind p
    BY CursorWraps
  <2> QED
    BY <1>0, <2>1 DEF ProcStates
<1>2. OneCpuEach'
  BY <1>0 DEF OneCpuEach
<1>3. ParentsLive'
  BY <1>0 DEF ParentsLive, Live
<1>4. EmbryoOwned'
  BY <1>0 DEF EmbryoOwned, Live
<1>5. PidsUnique'
  BY <1>0 DEF PidsUnique
<1>6. ZombieWakesParent'
  BY <1>0 DEF ZombieWakesParent, Zombies, Children
<1> QED
  BY <1>1, <1>2, <1>3, <1>4, <1>5, <1>6

\* Yield keeps the invariant.
LEMMA YieldKeeps ==
  ASSUME IInv, NEW p \in Slots, Yield(p)
  PROVE  IInv'
<1> USE SlotFacts DEF IInv, TableInvariant, ProcTypeOK
<1>1. ProcTypeOK'
  BY DEF ProcStates, EmbryoOwned, Yield, Running, LeaveCpu
<1>2. OneCpuEach'
  BY DEF OneCpuEach, EmbryoOwned, Yield, Running, LeaveCpu
<1>3. ParentsLive'
  BY DEF ParentsLive, EmbryoOwned, Live, Yield, Running, LeaveCpu
<1>4. EmbryoOwned'
  BY DEF EmbryoOwned, Live, Yield, Running, LeaveCpu
<1>5. PidsUnique'
  BY DEF PidsUnique, EmbryoOwned, Yield, Running, LeaveCpu
<1>6. ZombieWakesParent'
  BY DEF ZombieWakesParent, EmbryoOwned, ParentsLive, Live, Zombies, Children, Yield, Running, LeaveCpu
<1> QED
  BY <1>1, <1>2, <1>3, <1>4, <1>5, <1>6

-----------------------------------------------------------------------------
(* fork: the EMBRYO is known to its parent alone.                           *)
LEMMA AllocProcKeeps ==
  ASSUME IInv, NEW p \in Slots, AllocProc(p)
  PROVE  IInv'
<1> USE SlotFacts DEF IInv, TableInvariant, ProcTypeOK
<1>1. ProcTypeOK'
  <2>1. nextpid \in 0 .. MaxPid /\ nextpid + 1 \in 1 .. MaxPid + 1
    BY TableSizes DEF AllocProc
  <2> QED
    BY <2>1 DEF ProcStates, EmbryoOwned, AllocProc, CanCall, Running
<1>2. OneCpuEach'
  BY DEF OneCpuEach, EmbryoOwned, AllocProc, CanCall, Running
<1>3. ParentsLive'
  BY DEF ParentsLive, EmbryoOwned, Live, AllocProc, CanCall, Running
<1>4. EmbryoOwned'
  BY DEF EmbryoOwned, Live, AllocProc, CanCall, Running
<1>5. PidsUnique'
  BY DEF PidsUnique, EmbryoOwned, AllocProc, CanCall, Running
<1>6. ZombieWakesParent'
  BY DEF ZombieWakesParent, EmbryoOwned, ParentsLive, Live, Zombies, Children, AllocProc, CanCall, Running
<1> QED
  BY <1>1, <1>2, <1>3, <1>4, <1>5, <1>6

\* ForkFails keeps the invariant.
LEMMA ForkFailsKeeps ==
  ASSUME IInv, NEW p \in Slots, ForkFails(p)
  PROVE  IInv'
<1> USE SlotFacts DEF IInv, TableInvariant, ProcTypeOK
<1>1. ProcTypeOK'
  BY DEF ProcStates, EmbryoOwned, ForkFails, Running
<1>2. OneCpuEach'
  BY DEF OneCpuEach, EmbryoOwned, ForkFails, Running
<1>3. ParentsLive'
  BY DEF ParentsLive, EmbryoOwned, Live, ForkFails, Running
<1>4. EmbryoOwned'
  BY DEF EmbryoOwned, Live, ForkFails, Running
<1>5. PidsUnique'
  BY DEF PidsUnique, EmbryoOwned, ForkFails, Running
<1>6. ZombieWakesParent'
  BY DEF ZombieWakesParent, EmbryoOwned, ParentsLive, Live, Zombies, Children, ForkFails, Running
<1> QED
  BY <1>1, <1>2, <1>3, <1>4, <1>5, <1>6

\* ForkFailsInMaps keeps the invariant.
LEMMA ForkFailsInMapsKeeps ==
  ASSUME IInv, NEW p \in Slots, ForkFailsInMaps(p)
  PROVE  IInv'
<1> USE SlotFacts DEF IInv, TableInvariant, ProcTypeOK
<1>1. ProcTypeOK'
  BY DEF ProcStates, EmbryoOwned, ForkFailsInMaps, Running
<1>2. OneCpuEach'
  BY DEF OneCpuEach, EmbryoOwned, ForkFailsInMaps, Running
<1>3. ParentsLive'
  BY DEF ParentsLive, EmbryoOwned, Live, ForkFailsInMaps, Running
<1>4. EmbryoOwned'
  BY DEF EmbryoOwned, Live, ForkFailsInMaps, Running
<1>5. PidsUnique'
  BY DEF PidsUnique, EmbryoOwned, ForkFailsInMaps, Running
<1>6. ZombieWakesParent'
  BY DEF ZombieWakesParent, EmbryoOwned, ParentsLive, Live, Zombies, Children, ForkFailsInMaps, Running
<1> QED
  BY <1>1, <1>2, <1>3, <1>4, <1>5, <1>6

\* ForkDone keeps the invariant.
LEMMA ForkDoneKeeps ==
  ASSUME IInv, NEW p \in Slots, ForkDone(p)
  PROVE  IInv'
<1> USE SlotFacts DEF IInv, TableInvariant, ProcTypeOK
<1>1. ProcTypeOK'
  BY DEF ProcStates, EmbryoOwned, ForkDone, Running
<1>2. OneCpuEach'
  BY DEF OneCpuEach, EmbryoOwned, ForkDone, Running
<1>3. ParentsLive'
  BY DEF ParentsLive, EmbryoOwned, Live, ForkDone, Running
<1>4. EmbryoOwned'
  BY DEF EmbryoOwned, Live, ForkDone, Running
<1>5. PidsUnique'
  BY DEF PidsUnique, EmbryoOwned, ForkDone, Running
<1>6. ZombieWakesParent'
  BY DEF ZombieWakesParent, EmbryoOwned, ParentsLive, Live, Zombies, Children, ForkDone, Running
<1> QED
  BY <1>1, <1>2, <1>3, <1>4, <1>5, <1>6

-----------------------------------------------------------------------------
(* exit wakes the parent, and init when it hands it a zombie.               *)
LEMMA ExitKeeps ==
  ASSUME IInv, NEW p \in Slots, Exit(p)
  PROVE  IInv'
<1> USE SlotFacts DEF IInv, TableInvariant, ProcTypeOK
<1>0. /\ state[p] = "RUNNING" /\ pc[p] = "user" /\ p # InitSlot
      /\ parent[p] \in Slots /\ parent[p] # p /\ child[p] = NoProc
  BY DEF Exit, Running, ParentsLive, Live
<1>a. /\ parent' = [c \in Slots |-> IF parent[c] = p THEN InitSlot ELSE parent[c]]
      /\ cpuProc' = [c \in Cpus |-> IF cpuProc[c] = p THEN NoProc ELSE cpuProc[c]]
      /\ UNCHANGED <<pid, killed, nextpid, pc, child, cursor>>
  BY DEF Exit, LeaveCpu
<1>b. /\ state' \in [Slots -> ProcStates] /\ state'[p] = "ZOMBIE"
      /\ \A q \in Slots \ {p} : \/ state'[q] = state[q]
                                \/ state[q] = "SLEEPING" /\ state'[q] = "RUNNABLE"
      /\ state'[parent[p]] # "SLEEPING"
      /\ (\E c \in Slots : parent[c] = p /\ state[c] = "ZOMBIE") => state'[InitSlot] # "SLEEPING"
  <2> DEFINE woken == WakeUp(state, parent[p])
             after == IF {c \in Children(p) : state[c] = "ZOMBIE"} = {}
                        THEN woken ELSE WakeUp(woken, InitSlot)
  <2>1. /\ woken \in [Slots -> ProcStates] /\ woken[parent[p]] # "SLEEPING"
        /\ \A q \in Slots : \/ woken[q] = state[q]
                            \/ state[q] = "SLEEPING" /\ woken[q] = "RUNNABLE"
    BY <1>0, WakeUpFacts, SMTT(30)
  <2>2. /\ WakeUp(woken, InitSlot) \in [Slots -> ProcStates]
        /\ WakeUp(woken, InitSlot)[InitSlot] # "SLEEPING"
        /\ \A q \in Slots : \/ WakeUp(woken, InitSlot)[q] = woken[q]
                            \/ woken[q] = "SLEEPING" /\ WakeUp(woken, InitSlot)[q] = "RUNNABLE"
    BY <2>1, WakeUpFacts
  <2>3. state' = [after EXCEPT ![p] = "ZOMBIE"]
    BY DEF Exit
  <2>4. /\ after \in [Slots -> ProcStates] /\ after[parent[p]] # "SLEEPING"
        /\ \A q \in Slots : \/ after[q] = state[q]
                            \/ state[q] = "SLEEPING" /\ after[q] = "RUNNABLE"
        /\ (\E c \in Slots : parent[c] = p /\ state[c] = "ZOMBIE") => after[InitSlot] # "SLEEPING"
    <3> HIDE DEF woken
    <3>1. CASE {c \in Children(p) : state[c] = "ZOMBIE"} = {}
      BY <3>1, <2>1 DEF Children
    <3>2. CASE {c \in Children(p) : state[c] = "ZOMBIE"} # {}
      BY <3>2, <2>1, <2>2, <1>0 DEF ProcStates
    <3> QED
      BY <3>1, <3>2
  <2> HIDE DEF after
  <2> QED
    BY <1>0, <2>3, <2>4 DEF ProcStates
<1>1. ProcTypeOK'
  BY <1>0, <1>a, <1>b
<1>2. OneCpuEach'
  BY <1>0, <1>a, <1>b DEF OneCpuEach
<1>3. ParentsLive'
  BY <1>0, <1>a, <1>b DEF ParentsLive, Live
<1>4. EmbryoOwned'
  BY <1>0, <1>a, <1>b DEF EmbryoOwned, Live
<1>5. PidsUnique'
  BY <1>0, <1>a, <1>b DEF PidsUnique
<1>6. ZombieWakesParent'
  <2> SUFFICES ASSUME NEW q \in Slots, state'[q] = "SLEEPING",
                      NEW c \in Slots, parent'[c] = q, state'[c] = "ZOMBIE"
               PROVE  FALSE
    BY DEF ZombieWakesParent, Zombies, Children
  <2>1. state[q] = "SLEEPING" /\ q # p
    BY <1>0, <1>b
  <2>2. CASE c = p
    BY <2>2, <2>1, <1>0, <1>a, <1>b
  <2>3. CASE c # p /\ parent[c] = p
    BY <2>3, <2>1, <1>0, <1>a, <1>b
  <2>4. CASE c # p /\ parent[c] # p
    BY <2>4, <2>1, <1>0, <1>a, <1>b DEF ZombieWakesParent, Zombies, Children
  <2> QED
    BY <2>2, <2>3, <2>4
<1> QED
  BY <1>1, <1>2, <1>3, <1>4, <1>5, <1>6

-----------------------------------------------------------------------------
(* wait: the child it reaps has no children, for they have a live parent.   *)
LEMMA WaitReapKeeps ==
  ASSUME IInv, NEW p \in Slots, WaitReap(p)
  PROVE  IInv'
<1> USE SlotFacts DEF IInv, TableInvariant, ProcTypeOK
<1>0. PICK c \in Slots :
         /\ parent[c] = p /\ state[c] = "ZOMBIE"
         /\ state' = [state EXCEPT ![c] = "UNUSED"]
         /\ pid' = [pid EXCEPT ![c] = 0]
         /\ parent' = [parent EXCEPT ![c] = NoProc]
         /\ killed' = [killed EXCEPT ![c] = FALSE]
         /\ pc' = [pc EXCEPT ![p] = "user"]
         /\ UNCHANGED <<nextpid, child, cpuProc, cursor>>
  BY DEF WaitReap, Zombies, Children
<1>a. state[p] = "RUNNING" /\ p # c /\ child[p] = NoProc
  BY <1>0 DEF WaitReap, InWait, CanCall, Running
<1>1. ProcTypeOK'
  BY <1>0, <1>a, TableSizes DEF ProcStates
<1>2. OneCpuEach'
  BY <1>0, <1>a DEF OneCpuEach
<1>3. ParentsLive'
  BY <1>0, <1>a DEF ParentsLive, Live
<1>4. EmbryoOwned'
  BY <1>0, <1>a DEF EmbryoOwned, Live
<1>5. PidsUnique'
  BY <1>0, <1>a DEF PidsUnique
<1>6. ZombieWakesParent'
  BY <1>0, <1>a DEF ZombieWakesParent, Zombies, Children
<1> QED
  BY <1>1, <1>2, <1>3, <1>4, <1>5, <1>6

\* WaitFails keeps the invariant.
LEMMA WaitFailsKeeps ==
  ASSUME IInv, NEW p \in Slots, WaitFails(p)
  PROVE  IInv'
<1> USE SlotFacts DEF IInv, TableInvariant, ProcTypeOK
<1>1. ProcTypeOK'
  BY DEF ProcStates, EmbryoOwned, WaitFails, InWait, CanCall, Running
<1>2. OneCpuEach'
  BY DEF OneCpuEach, EmbryoOwned, WaitFails, InWait, CanCall, Running
<1>3. ParentsLive'
  BY DEF ParentsLive, EmbryoOwned, Live, WaitFails, InWait, CanCall, Running
<1>4. EmbryoOwned'
  BY DEF EmbryoOwned, Live, WaitFails, InWait, CanCall, Running
<1>5. PidsUnique'
  BY DEF PidsUnique, EmbryoOwned, WaitFails, InWait, CanCall, Running
<1>6. ZombieWakesParent'
  BY DEF ZombieWakesParent, EmbryoOwned, ParentsLive, Live, Zombies, Children, WaitFails, InWait, CanCall, Running
<1> QED
  BY <1>1, <1>2, <1>3, <1>4, <1>5, <1>6

\* WaitSleep keeps the invariant.
LEMMA WaitSleepKeeps ==
  ASSUME IInv, NEW p \in Slots, WaitSleep(p)
  PROVE  IInv'
<1> USE SlotFacts DEF IInv, TableInvariant, ProcTypeOK
<1>1. ProcTypeOK'
  BY DEF ProcStates, EmbryoOwned, WaitSleep, InWait, CanCall, Running, LeaveCpu
<1>2. OneCpuEach'
  BY DEF OneCpuEach, EmbryoOwned, WaitSleep, InWait, CanCall, Running, LeaveCpu, Zombies, Children
<1>3. ParentsLive'
  BY DEF ParentsLive, EmbryoOwned, Live, WaitSleep, InWait, CanCall, Running, LeaveCpu, Zombies, Children
<1>4. EmbryoOwned'
  BY DEF EmbryoOwned, Live, WaitSleep, InWait, CanCall, Running, LeaveCpu, Zombies, Children
<1>5. PidsUnique'
  BY DEF PidsUnique, EmbryoOwned, WaitSleep, InWait, CanCall, Running, LeaveCpu, Zombies, Children
<1>6. ZombieWakesParent'
  BY DEF ZombieWakesParent, EmbryoOwned, ParentsLive, Live, Zombies, Children, WaitSleep, InWait, CanCall, Running, LeaveCpu
<1> QED
  BY <1>1, <1>2, <1>3, <1>4, <1>5, <1>6

\* Kill keeps the invariant.
LEMMA KillKeeps ==
  ASSUME IInv, NEW p \in Slots, NEW k \in KillPids, Kill(p, k)
  PROVE  IInv'
<1> USE SlotFacts DEF IInv, TableInvariant, ProcTypeOK
<1>0. PICK t \in Slots :
         /\ killed' = [killed EXCEPT ![t] = TRUE]
         /\ state' = WakeUp(state, t)
         /\ UNCHANGED <<pid, parent, nextpid, pc, child, cpuProc, cursor>>
  BY DEF Kill
<1>a. /\ state' \in [Slots -> ProcStates]
      /\ \A q \in Slots : \/ state'[q] = state[q]
                          \/ state[q] = "SLEEPING" /\ state'[q] = "RUNNABLE"
  BY <1>0, WakeUpFacts
<1>1. ProcTypeOK'
  BY <1>0, <1>a
<1>2. OneCpuEach'
  BY <1>0, <1>a DEF OneCpuEach
<1>3. ParentsLive'
  BY <1>0, <1>a DEF ParentsLive, Live
<1>4. EmbryoOwned'
  BY <1>0, <1>a DEF EmbryoOwned, Live
<1>5. PidsUnique'
  BY <1>0, <1>a DEF PidsUnique
<1>6. ZombieWakesParent'
  BY <1>0, <1>a DEF ZombieWakesParent, Zombies, Children
<1> QED
  BY <1>1, <1>2, <1>3, <1>4, <1>5, <1>6

-----------------------------------------------------------------------------
\* Every step keeps the invariant.
LEMMA NextKeeps == IInv /\ [Next]_vars => IInv'
<1> SUFFICES ASSUME IInv, [Next]_vars PROVE IInv'
  OBVIOUS
<1>1. CASE UNCHANGED vars
  BY <1>1 DEF vars, IInv, TableInvariant, ProcTypeOK, OneCpuEach, ParentsLive, Live, EmbryoOwned,
              PidsUnique, ZombieWakesParent, Zombies, Children
<1>2. ASSUME NEW c \in Cpus, Dispatch(c) PROVE IInv'
  BY <1>2, DispatchKeeps
<1>3. ASSUME NEW p \in Slots, Yield(p) \/ AllocProc(p) \/ Exit(p) PROVE IInv'
  BY <1>3, YieldKeeps, AllocProcKeeps, ExitKeeps
<1>4. ASSUME NEW p \in Slots, ForkEnds(p) PROVE IInv'
  BY <1>4, ForkFailsKeeps, ForkFailsInMapsKeeps, ForkDoneKeeps DEF ForkEnds
<1>5. ASSUME NEW p \in Slots, Wait(p) PROVE IInv'
  BY <1>5, WaitReapKeeps, WaitFailsKeeps, WaitSleepKeeps DEF Wait
<1>6. ASSUME NEW p \in Slots, NEW k \in KillPids, Kill(p, k) PROVE IInv'
  BY <1>6, KillKeeps
<1> QED
  BY <1>1, <1>2, <1>3, <1>4, <1>5, <1>6 DEF Next

\* The inductive invariant holds in every behaviour.
LEMMA InvariantHolds == Spec => []IInv
  BY InitInvariant, NextKeeps, PTL DEF Spec

\* The table is consistent at every step: a process runs on one CPU, has a live parent
\* a slot of its own while it is being forked, and a pid of its own.
THEOREM TableSafe == Spec => []TableInvariant
<1>1. IInv => TableInvariant
  BY DEF IInv
<1> QED
  BY <1>1, InvariantHolds, PTL

\* No wakeup between exit and wait is lost: nobody sleeps in wait over a zombie child
\* its own or one that init inherits.
THEOREM NoWaitOverZombie == Spec => []ZombieWakesParent
<1>1. IInv => ZombieWakesParent
  BY DEF IInv
<1> QED
  BY <1>1, InvariantHolds, PTL
=============================================================================
