------------------------------- MODULE Stride -------------------------------
(***************************************************************************)
(* The stride scheduler of the p4 kernel (src/p4/solution/proc.c built     *)
(* with STRIDE, on the one CPU its Makefile asks for) and settickets.      *)
(*                                                                         *)
(* An action is one stretch under ptable.lock.  Between two of them the    *)
(* timer can take the CPU from the running process, in the middle of fork  *)
(* too, and an interrupt can wake sleepers.  p->remain is only ever        *)
(* written with 0, by allocproc, and left out.                             *)
(***************************************************************************)
EXTENDS Integers, FiniteSetsExt

CONSTANTS
  NPROC,       \* slots of the table; slot 0 is init
  Stride1,     \* STRIDE1
  Programs,    \* the system calls made by the programs that run in each slot
  Requests,    \* arguments of settickets
  MaxPid,      \* bound on nextpid
  MaxPass,     \* bound on global_pass
  MaxQuanta,   \* bound on the sum of run_ticks
  Killable     \* pids that programs pass to kill; not init's, whose exit is a panic

ASSUME StrideSizes ==
  /\ NPROC \in Nat \ {0} /\ MaxPid \in Nat /\ MaxPass \in Nat /\ MaxQuanta \in Nat
  /\ Requests \subseteq Int /\ Killable \subseteq Nat \ {0, 1}
  /\ Stride1 \in Nat /\ Stride1 >= 32

Slots == 0 .. NPROC - 1
NoProc == NPROC
InitSlot == 0
DefaultTickets == 8
MostTickets == 32

VARIABLES
  proc,      \* struct proc of each slot
  nextpid,
  global,    \* strideglobalinfo
  running,   \* the process on the CPU
  call,      \* how far each process is in fork or wait, and the slot fork is filling
  fault,     \* the kernel has divided by zero
  \* History, read by no guard:
  reused,    \* a slot of a failed fork was taken again before its tickets were given back
  turns      \* turns[p][q]: quanta of q since p was dispatched, while they can be compared

vars == <<proc, nextpid, global, running, call, fault, reused, turns>>

User == [at |-> "user", slot |-> NoProc]
NoCount == -1
Forget(p) == turns' = [q \in Slots |-> [r \in Slots |->
                         IF p \in {q, r} THEN NoCount ELSE turns[q][r]]]

In(s) == {p \in Slots : proc[p].state = s}
Children(p) == {c \in Slots : proc[c].parent = p}
TicketsOf(S) == SumFunctionOnSet([p \in Slots |-> proc[p].tickets], S)
Quanta == SumFunctionOnSet([p \in Slots |-> proc[p].runTicks], Slots)

\* Division of C: truncates towards zero.
Magnitude(a) == IF a < 0 THEN -a ELSE a
Quotient(a, b) ==
  LET q == Magnitude(a) \div Magnitude(b) IN IF a < 0 <=> b < 0 THEN q ELSE -q

\* Mutant: guards against zero only.
ShareNonzero(t) == IF t = 0 THEN 0 ELSE IF t > 0 THEN Stride1 \div t ELSE -(Stride1 \div (-t))

\* global_stride after a subtraction.
Share(t) == IF t > 0 THEN Stride1 \div t ELSE 0
WithTickets(t) == [global EXCEPT !.tickets = t, !.stride = Share(t)]

\* The running process in user space: trap lets it start a system call unless it
\* was killed.
CanCall(p, c) == running = p /\ call[p] = User /\ ~proc[p].killed /\ c \in Programs[p]

\* wakeup1: a sleeper starts again at the global pass.
WakeUp(table, S) == [p \in Slots |->
  IF p \in S /\ table[p].state = "SLEEPING"
  THEN [table[p] EXCEPT !.state = "RUNNABLE", !.pass = global.pass] ELSE table[p]]

Waiting(S) == {p \in S \cap Slots : call[p].at = "wait"}

\* Mutant: the pass of the process that ran advances by its tickets.
LeavesByTickets(table, p, s) == [table EXCEPT ![p].state = s, ![p].runTicks = @ + 1,
                                              ![p].pass = @ + table[p].tickets]

\* sched and the rest of the scheduler's loop: p has had a quantum and is now in s.
Leaves(table, p, s) == [table EXCEPT ![p].state = s, ![p].runTicks = @ + 1,
                                     ![p].pass = @ + table[p].stride]
-----------------------------------------------------------------------------
\* The slot allocproc takes, as it fills it.
NewProc == [state |-> "EMBRYO", pid |-> nextpid, parent |-> NoProc, killed |-> FALSE,
            tickets |-> DefaultTickets, stride |-> Stride1 \div DefaultTickets,
            pass |-> global.pass, runTicks |-> 0]

\* The table as the first dispatch finds it: userinit has run.
Init ==
  /\ nextpid = 2
  /\ global = [tickets |-> DefaultTickets, stride |-> Stride1 \div DefaultTickets, pass |-> 0]
  /\ proc = [p \in Slots |->
       [state |-> IF p = InitSlot THEN "RUNNABLE" ELSE "UNUSED",
        pid |-> IF p = InitSlot THEN 1 ELSE 0, parent |-> NoProc, killed |-> FALSE,
        tickets |-> IF p = InitSlot THEN DefaultTickets ELSE 0,
        stride |-> IF p = InitSlot THEN Stride1 \div DefaultTickets ELSE 0,
        pass |-> 0, runTicks |-> 0]]
  /\ running = NoProc
  /\ call = [p \in Slots |-> User]
  /\ fault = FALSE
  /\ reused = FALSE
  /\ turns = [p \in Slots |-> [q \in Slots |-> NoCount]]

-----------------------------------------------------------------------------
(* scheduler                                                                *)

\* update_stride_variables; no process is RUNNING while the only CPU is here.
Updated ==
  LET t == TicketsOf(In("RUNNABLE"))
  IN  IF t > 0
      THEN [tickets |-> t, stride |-> Stride1 \div t, pass |-> global.pass + Stride1 \div t]
      ELSE [global EXCEPT !.tickets = 0]

GoesBefore(p, q) ==
  \/ proc[p].pass < proc[q].pass
  \/ proc[p].pass = proc[q].pass /\ proc[p].runTicks < proc[q].runTicks
  \/ /\ proc[p].pass = proc[q].pass /\ proc[p].runTicks = proc[q].runTicks
     /\ proc[p].pid < proc[q].pid

\* The scheduler adds global_stride to global_pass once more by itself.
Advance == global' = [Updated EXCEPT !.pass = @ + Updated.stride]

Dispatch ==
  /\ ~fault /\ running = NoProc /\ global.pass \in 0 .. MaxPass /\ Quanta < MaxQuanta
  /\ Advance
  /\ \E p \in In("RUNNABLE") :
       /\ \A q \in In("RUNNABLE") \ {p} : GoesBefore(p, q)
       /\ running' = p
       /\ proc' = [proc EXCEPT ![p].state = "RUNNING"]
       /\ turns' = [q \in Slots |-> [r \in Slots |->
            CASE q = p -> IF r \in In("RUNNABLE") \ {p} THEN 0 ELSE NoCount
              [] q # p /\ r = p /\ turns[q][p] # NoCount -> turns[q][p] + 1
              [] OTHER -> turns[q][r]]]
  /\ UNCHANGED <<nextpid, call, fault, reused>>

\* Nothing to run: the loop goes round, and global_pass with it.
Idle ==
  /\ ~fault /\ running = NoProc /\ In("RUNNABLE") = {} /\ global.pass \in 0 .. MaxPass
  /\ Advance
  /\ UNCHANGED <<proc, nextpid, running, call, fault, reused, turns>>

\* The timer.
Yield(p) ==
  /\ ~fault /\ running = p
  /\ proc' = Leaves(proc, p, "RUNNABLE")
  /\ running' = NoProc
  /\ UNCHANGED <<nextpid, global, call, fault, reused, turns>>

-----------------------------------------------------------------------------
(* fork                                                                     *)

\* allocproc up to its release, which divides by global_tickets as it finds it.
AllocProc(p) ==
  /\ ~fault /\ CanCall(p, "fork") /\ nextpid <= MaxPid /\ In("UNUSED") # {}
  /\ LET q == Min(In("UNUSED"))
         t == global.tickets + DefaultTickets
     IN  /\ proc' = [proc EXCEPT ![q] = [NewProc EXCEPT !.parent = proc[q].parent,
                                                        !.killed = proc[q].killed]]
         /\ call' = [call EXCEPT ![p] = [at |-> "fork", slot |-> q]]
         /\ reused' = (reused \/ \E r \in Slots : call[r] = [at |-> "failed", slot |-> q])
         /\ fault' = (t = 0)
         /\ global' = [global EXCEPT !.tickets = t,
                         !.stride = IF t = 0 THEN @ ELSE Quotient(Stride1, t)]
  /\ nextpid' = nextpid + 1
  /\ UNCHANGED <<running, turns>>

\* No kernel stack, or no page table: the slot is given up without the lock ...
ForkFails(p) ==
  /\ ~fault /\ running = p /\ call[p].at = "fork"
  /\ proc' = [proc EXCEPT ![call[p].slot].state = "UNUSED"]
  /\ call' = [call EXCEPT ![p].at = "failed"]
  /\ UNCHANGED <<nextpid, global, running, fault, reused, turns>>

\* Mutant: allocproc and then fork take the tickets back.
GiveBackTwice(p) ==
  /\ ~fault /\ running = p /\ call[p].at = "failed"
  /\ global' = WithTickets(global.tickets - 2 * proc[call[p].slot].tickets)
  /\ call' = [call EXCEPT ![p] = User]
  /\ UNCHANGED <<proc, nextpid, running, fault, reused, turns>>

\* ... and the tickets the slot then holds are taken back under the lock.
GiveBack(p) ==
  /\ ~fault /\ running = p /\ call[p].at = "failed"
  /\ global' = WithTickets(global.tickets - proc[call[p].slot].tickets)
  /\ call' = [call EXCEPT ![p] = User]
  /\ UNCHANGED <<proc, nextpid, running, fault, reused, turns>>

ForkDone(p) ==
  /\ ~fault /\ running = p /\ call[p].at = "fork"
  /\ proc' = [proc EXCEPT ![call[p].slot].state = "RUNNABLE", ![call[p].slot].parent = p,
                          ![call[p].slot].pass = global.pass]
  /\ call' = [call EXCEPT ![p] = User]
  /\ UNCHANGED <<nextpid, global, running, fault, reused, turns>>

-----------------------------------------------------------------------------
(* sleep, wakeup, exit, wait, kill                                          *)

\* A system call that blocks on something other than a child.
Sleep(p) ==
  /\ ~fault /\ CanCall(p, "sleep")
  /\ proc' = Leaves(proc, p, "SLEEPING")
  /\ running' = NoProc
  /\ Forget(p)
  /\ UNCHANGED <<nextpid, global, call, fault, reused>>

\* An interrupt handler wakes the sleepers on its channel.
Wakeup(p) ==
  /\ ~fault /\ proc[p].state = "SLEEPING" /\ call[p] = User
  /\ proc' = WakeUp(proc, {p})
  /\ UNCHANGED <<nextpid, global, running, call, fault, reused, turns>>

\* By the program, or by trap for a process that was killed.
Exit(p) ==
  /\ ~fault /\ p # InitSlot /\ running = p /\ call[p] = User
  /\ proc[p].killed \/ "exit" \in Programs[p]
  /\ global' = WithTickets(global.tickets - proc[p].tickets)
  /\ LET heirs == IF \E c \in Children(p) : proc[c].state = "ZOMBIE" THEN {InitSlot} ELSE {}
         woken == WakeUp(proc, Waiting({proc[p].parent} \cup heirs))
         orphaned == [c \in Slots |->
           IF c \in Children(p) THEN [woken[c] EXCEPT !.parent = InitSlot] ELSE woken[c]]
     IN  proc' = Leaves(orphaned, p, "ZOMBIE")
  /\ running' = NoProc
  /\ Forget(p)
  /\ UNCHANGED <<nextpid, call, fault, reused>>

InWait(p) == ~fault /\ (CanCall(p, "wait") \/ (running = p /\ call[p].at = "wait"))
Zombies(p) == Children(p) \cap In("ZOMBIE")

WaitReap(p) ==
  /\ InWait(p) /\ Zombies(p) # {}
  /\ proc' = [proc EXCEPT ![Min(Zombies(p))] =
       [@ EXCEPT !.state = "UNUSED", !.pid = 0, !.parent = NoProc, !.killed = FALSE]]
  /\ call' = [call EXCEPT ![p] = User]
  /\ UNCHANGED <<nextpid, global, running, fault, reused, turns>>

WaitFails(p) ==
  /\ InWait(p) /\ Zombies(p) = {} /\ (Children(p) = {} \/ proc[p].killed)
  /\ call' = [call EXCEPT ![p] = User]
  /\ UNCHANGED <<proc, nextpid, global, running, fault, reused, turns>>

WaitSleep(p) ==
  /\ InWait(p) /\ Zombies(p) = {} /\ Children(p) # {} /\ ~proc[p].killed
  /\ proc' = Leaves(proc, p, "SLEEPING")
  /\ call' = [call EXCEPT ![p].at = "wait"]
  /\ running' = NoProc
  /\ Forget(p)
  /\ UNCHANGED <<nextpid, global, fault, reused>>

\* A sleeper is made RUNNABLE with the pass it went to sleep with.
Kill(p, q) ==
  /\ ~fault /\ CanCall(p, "kill") /\ proc[q].pid \in Killable
  /\ \A r \in Slots : proc[r].pid = proc[q].pid => q <= r
  /\ proc' = [proc EXCEPT ![q].killed = TRUE,
       ![q].state = IF @ = "SLEEPING" THEN "RUNNABLE" ELSE @]
  /\ UNCHANGED <<nextpid, global, running, call, fault, reused, turns>>

-----------------------------------------------------------------------------
(* settickets                                                               *)

Clamped(n) == IF n < 1 THEN DefaultTickets ELSE IF n > MostTickets THEN MostTickets ELSE n

\* The distance to the global pass is scaled to the new stride.
SetTickets(p, n) ==
  /\ ~fault /\ CanCall(p, "settickets") /\ Clamped(n) # proc[p].tickets
  /\ LET new == Stride1 \div Clamped(n)
         remain == Quotient((proc[p].pass - global.pass) * new, proc[p].stride)
     IN  proc' = [proc EXCEPT ![p].tickets = Clamped(n), ![p].stride = new,
                              ![p].pass = global.pass + remain]
  /\ global' = WithTickets(global.tickets - proc[p].tickets + Clamped(n))
  /\ Forget(p)
  /\ UNCHANGED <<nextpid, running, call, fault, reused>>

-----------------------------------------------------------------------------
ForkEnds(p) == ForkFails(p) \/ GiveBack(p) \/ ForkDone(p)
Wait(p) == WaitReap(p) \/ WaitFails(p) \/ WaitSleep(p)

Next ==
  \/ Dispatch \/ Idle
  \/ \E p \in Slots :
       \/ Yield(p) \/ AllocProc(p) \/ ForkEnds(p) \/ Sleep(p) \/ Wakeup(p)
       \/ Exit(p) \/ Wait(p)
       \/ \E q \in Slots : Kill(p, q)
       \/ \E n \in Requests : SetTickets(p, n)

Spec == Init /\ [][Next]_vars
=============================================================================
