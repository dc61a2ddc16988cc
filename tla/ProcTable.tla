----------------------------- MODULE ProcTable -----------------------------
(***************************************************************************)
(* The process table of the p5 kernel (proc.c): scheduler, fork, exit,     *)
(* wait, kill and the sleep and wakeup between wait and exit.              *)
(*                                                                         *)
(* Every change of a process's state is made with ptable.lock held (or by  *)
(* the only process that knows the slot), so an action is one stretch      *)
(* under that lock; a process can lose its CPU between any two of them.    *)
(* What user programs do is arbitrary, except init, which never exits.     *)
(***************************************************************************)
EXTENDS Naturals

CONSTANTS
  NPROC,      \* slots of the table; slot 0 is init
  Cpus,
  MaxPid,     \* bound on nextpid
  KillPids    \* pids that programs pass to kill; not init's, whose exit is a panic

ASSUME TableSizes ==
  NPROC \in Nat \ {0} /\ MaxPid \in Nat \ {0} /\ KillPids \subseteq Nat \ {1}

Slots == 0 .. NPROC - 1
NoProc == NPROC
InitSlot == 0

VARIABLES
  state, pid, parent, killed,  \* struct proc
  nextpid,
  pc,         \* "user", or inside "fork" or "wait"
  child,      \* the slot a fork is filling
  cpuProc,    \* cpu->proc
  cursor      \* where the scheduler's loop of each CPU stands

vars == <<state, pid, parent, killed, nextpid, pc, child, cpuProc, cursor>>

Children(p) == {c \in Slots : parent[c] = p}
Running(p) == state[p] = "RUNNING"

\* trap tests killed before it starts a system call.
CanCall(p) == Running(p) /\ pc[p] = "user" /\ ~killed[p]

\* Mutant: does not look whether p sleeps.
WakeUpAny(st, p) == IF p \in Slots THEN [st EXCEPT ![p] = "RUNNABLE"] ELSE st

\* wakeup1(p): a process sleeps only in wait, on itself.
WakeUp(st, p) == IF st[p] = "SLEEPING" THEN [st EXCEPT ![p] = "RUNNABLE"] ELSE st

\* sched: the process leaves its CPU.
LeaveCpu(p) == cpuProc' = [c \in Cpus |-> IF cpuProc[c] = p THEN NoProc ELSE cpuProc[c]]

-----------------------------------------------------------------------------
Init ==
  /\ state = [p \in Slots |-> IF p = InitSlot THEN "RUNNABLE" ELSE "UNUSED"]
  /\ pid = [p \in Slots |-> IF p = InitSlot THEN 1 ELSE 0]
  /\ parent = [p \in Slots |-> NoProc]
  /\ killed = [p \in Slots |-> FALSE]
  /\ nextpid = 2
  /\ pc = [p \in Slots |-> "user"]
  /\ child = [p \in Slots |-> NoProc]
  /\ cpuProc = [c \in Cpus |-> NoProc]
  /\ cursor = [c \in Cpus |-> 0]

-----------------------------------------------------------------------------
(* scheduler and yield                                                      *)

\* Mutant: the loop starts again at the first slot.
DistanceFromStart(c, p) == p

\* Slots in the order the loop of CPU c comes to them.
Distance(c, p) == (p + NPROC - cursor[c]) % NPROC

Dispatch(c) ==
  /\ cpuProc[c] = NoProc
  /\ \E p \in Slots :
       /\ state[p] = "RUNNABLE"
       /\ \A q \in Slots : state[q] = "RUNNABLE" => Distance(c, p) <= Distance(c, q)
       /\ state' = [state EXCEPT ![p] = "RUNNING"]
       /\ cpuProc' = [cpuProc EXCEPT ![c] = p]
       /\ cursor' = [cursor EXCEPT ![c] = (p + 1) % NPROC]
  /\ UNCHANGED <<pid, parent, killed, nextpid, pc, child>>

Yield(p) ==
  /\ Running(p)
  /\ state' = [state EXCEPT ![p] = "RUNNABLE"]
  /\ LeaveCpu(p)
  /\ UNCHANGED <<pid, parent, killed, nextpid, pc, child, cursor>>

-----------------------------------------------------------------------------
(* fork: allocproc, then the copying, which may fail, then RUNNABLE.        *)

AllocProc(p) ==
  /\ CanCall(p) /\ nextpid <= MaxPid
  /\ \E c \in Slots :
       /\ state[c] = "UNUSED" /\ \A d \in Slots : d < c => state[d] # "UNUSED"
       /\ state' = [state EXCEPT ![c] = "EMBRYO"]
       /\ pid' = [pid EXCEPT ![c] = nextpid]
       /\ child' = [child EXCEPT ![p] = c]
  /\ nextpid' = nextpid + 1
  /\ pc' = [pc EXCEPT ![p] = "fork"]
  /\ UNCHANGED <<parent, killed, cpuProc, cursor>>

\* No kernel stack or no page table: the slot is given back with its pid.
ForkFails(p) ==
  /\ Running(p) /\ pc[p] = "fork"
  /\ state' = [state EXCEPT ![child[p]] = "UNUSED"]
  /\ child' = [child EXCEPT ![p] = NoProc]
  /\ pc' = [pc EXCEPT ![p] = "user"]
  /\ UNCHANGED <<pid, parent, killed, nextpid, cpuProc, cursor>>

\* No page table for a mapping: the slot is given back with its parent, too.
ForkFailsInMaps(p) ==
  /\ Running(p) /\ pc[p] = "fork"
  /\ parent' = [parent EXCEPT ![child[p]] = p]
  /\ state' = [state EXCEPT ![child[p]] = "UNUSED"]
  /\ child' = [child EXCEPT ![p] = NoProc]
  /\ pc' = [pc EXCEPT ![p] = "user"]
  /\ UNCHANGED <<pid, killed, nextpid, cpuProc, cursor>>

ForkDone(p) ==
  /\ Running(p) /\ pc[p] = "fork"
  /\ parent' = [parent EXCEPT ![child[p]] = p]
  /\ state' = [state EXCEPT ![child[p]] = "RUNNABLE"]
  /\ child' = [child EXCEPT ![p] = NoProc]
  /\ pc' = [pc EXCEPT ![p] = "user"]
  /\ UNCHANGED <<pid, killed, nextpid, cpuProc, cursor>>

-----------------------------------------------------------------------------
(* exit, called by the program or, for a killed process, by trap.           *)

\* Mutant: init is not woken for the zombies it inherits.
ExitNoWakeup(p) ==
  /\ Running(p) /\ pc[p] = "user" /\ p # InitSlot
  /\ state' = [WakeUp(state, parent[p]) EXCEPT ![p] = "ZOMBIE"]
  /\ parent' = [c \in Slots |-> IF parent[c] = p THEN InitSlot ELSE parent[c]]
  /\ LeaveCpu(p)
  /\ UNCHANGED <<pid, killed, nextpid, pc, child, cursor>>

Exit(p) ==
  /\ Running(p) /\ pc[p] = "user" /\ p # InitSlot
  /\ LET woken == WakeUp(state, parent[p])
         zombies == {c \in Children(p) : state[c] = "ZOMBIE"}
     IN  state' = [(IF zombies = {} THEN woken ELSE WakeUp(woken, InitSlot))
                     EXCEPT ![p] = "ZOMBIE"]
  /\ parent' = [c \in Slots |-> IF parent[c] = p THEN InitSlot ELSE parent[c]]
  /\ LeaveCpu(p)
  /\ UNCHANGED <<pid, killed, nextpid, pc, child, cursor>>

-----------------------------------------------------------------------------
(* wait: the scan, and the sleep in the same critical section.              *)

InWait(p) == CanCall(p) \/ (Running(p) /\ pc[p] = "wait")
Zombies(p) == {c \in Children(p) : state[c] = "ZOMBIE"}

\* The scan stops at the first zombie.
WaitReap(p) ==
  /\ InWait(p)
  /\ \E c \in Zombies(p) :
       /\ \A d \in Zombies(p) : c <= d
       /\ state' = [state EXCEPT ![c] = "UNUSED"]
       /\ pid' = [pid EXCEPT ![c] = 0]
       /\ parent' = [parent EXCEPT ![c] = NoProc]
       /\ killed' = [killed EXCEPT ![c] = FALSE]
  /\ pc' = [pc EXCEPT ![p] = "user"]
  /\ UNCHANGED <<nextpid, child, cpuProc, cursor>>

\* No children, or killed: return -1.
WaitFails(p) ==
  /\ InWait(p) /\ Zombies(p) = {} /\ (Children(p) = {} \/ killed[p])
  /\ pc' = [pc EXCEPT ![p] = "user"]
  /\ UNCHANGED <<state, pid, parent, killed, nextpid, child, cpuProc, cursor>>

WaitSleep(p) ==
  /\ InWait(p) /\ Zombies(p) = {} /\ Children(p) # {} /\ ~killed[p]
  /\ state' = [state EXCEPT ![p] = "SLEEPING"]
  /\ pc' = [pc EXCEPT ![p] = "wait"]
  /\ LeaveCpu(p)
  /\ UNCHANGED <<pid, parent, killed, nextpid, child, cursor>>

-----------------------------------------------------------------------------
\* kill(k): the first slot with that pid, whatever its state.
\* Mutant: a sleeping process is not woken.
KillNoWakeup(p, k) ==
  /\ CanCall(p)
  /\ \E t \in Slots :
       /\ pid[t] = k /\ \A d \in Slots : d < t => pid[d] # k
       /\ killed' = [killed EXCEPT ![t] = TRUE]
  /\ UNCHANGED <<state, pid, parent, nextpid, pc, child, cpuProc, cursor>>

Kill(p, k) ==
  /\ CanCall(p)
  /\ \E t \in Slots :
       /\ pid[t] = k /\ \A d \in Slots : d < t => pid[d] # k
       /\ killed' = [killed EXCEPT ![t] = TRUE]
       /\ state' = WakeUp(state, t)
  /\ UNCHANGED <<pid, parent, nextpid, pc, child, cpuProc, cursor>>

-----------------------------------------------------------------------------
ForkEnds(p) == ForkFails(p) \/ ForkFailsInMaps(p) \/ ForkDone(p)
Wait(p) == WaitReap(p) \/ WaitFails(p) \/ WaitSleep(p)

Next ==
  \/ \E c \in Cpus : Dispatch(c)
  \/ \E p \in Slots :
       \/ Yield(p) \/ AllocProc(p) \/ ForkEnds(p) \/ Exit(p) \/ Wait(p)
       \/ \E k \in KillPids : Kill(p, k)

Spec == Init /\ [][Next]_vars

\* What a process does once it gets the CPU, whatever its program: end a fork,
\* go on with a wait, exit if killed; init always comes back to wait.
Progress(p) ==
  \/ ForkEnds(p)
  \/ (pc[p] = "wait" \/ p = InitSlot) /\ Wait(p)
  \/ killed[p] /\ Exit(p)

\* Every CPU keeps scheduling, the timer takes it away again, and a process that
\* is given the CPU again and again makes progress.
FairSpec ==
  /\ Spec
  /\ \A c \in Cpus : WF_vars(Dispatch(c))
  /\ \A p \in Slots : WF_vars(Yield(p)) /\ SF_vars(Progress(p))
=============================================================================
