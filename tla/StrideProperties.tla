-------------------------- MODULE StrideProperties --------------------------
(* What the stride scheduler promises. *)
EXTENDS Stride

Proc == [state : {"UNUSED", "EMBRYO", "SLEEPING", "RUNNABLE", "RUNNING", "ZOMBIE"},
         pid : Nat, parent : Slots \cup {NoProc}, killed : BOOLEAN, tickets : 0 .. MostTickets,
         stride : Nat, pass : Int, runTicks : Nat]
Call == [at : {"user", "fork", "failed", "wait"}, slot : Slots \cup {NoProc}]

(* The fields of the table and of strideglobalinfo have their types; a slot in use has
   between 1 and 32 tickets and the stride that goes with them, so that settickets
   never divides by zero, and the process the CPU runs is the one that is RUNNING
   (proc.c:124-152, sysproc.c:106-155). *)
StrideTypeOK ==
  /\ proc \in [Slots -> Proc] /\ call \in [Slots -> Call]
  /\ \A p \in Slots :
       /\ proc[p].state # "UNUSED" =>
            proc[p].tickets >= 1 /\ proc[p].stride = Stride1 \div proc[p].tickets
       /\ proc[p].state = "RUNNING" <=> running = p
  /\ global \in [tickets : Int, stride : Int, pass : Int]
  /\ running \in Slots \cup {NoProc} /\ nextpid \in Nat /\ {fault, reused} \subseteq BOOLEAN
  /\ turns \in [Slots -> [Slots -> Nat \cup {NoCount}]]

(* The slot a fork fills is EMBRYO and nobody else's; the one a failed fork has given up
   keeps its tickets until they are taken back, unless it was taken again. *)
ForksKnown ==
  \A p \in Slots :
    /\ call[p].at = "fork" =>
         /\ call[p].slot \in Slots /\ proc[call[p].slot].state = "EMBRYO"
         /\ proc[call[p].slot].tickets = DefaultTickets
         /\ \A q \in Slots : call[q].at = "fork" /\ call[q].slot = call[p].slot => q = p
    /\ call[p].at = "failed" =>
         /\ call[p].slot \in Slots
         /\ ~reused => /\ proc[call[p].slot].state = "UNUSED"
                       /\ proc[call[p].slot].tickets = DefaultTickets

(* While a process runs, global_tickets lacks at most the tickets of one fork that failed
   before the scheduler left them out of its sum. *)
TicketsKnown ==
  ~reused =>
    /\ global.stride >= 0
    /\ running # NoProc =>
         global.tickets >= proc[running].tickets
           - (IF call[running].at \in {"fork", "failed"} THEN 0 ELSE DefaultTickets)

(* allocproc divides by global_tickets without a test (proc.c:137).  The global
   may be too small, even negative, when a fork that failed takes back tickets
   the scheduler has left out of its sum meanwhile; it is still never -8 when a
   process forks, unless another fork took the slot in the window in which the
   failed one has given it up but not yet read its tickets (proc.c:144-146,
   254-256). *)
DividesByTickets == fault => reused

(* What the counts of turns stand for: the pass of q is ahead of the pass p was dispatched
   with by the quanta q has finished since. *)
Finished(p, q) == IF running = q THEN turns[p][q] - 1 ELSE turns[p][q]
DispatchedAt(p) == IF running = p THEN proc[p].pass ELSE proc[p].pass - proc[p].stride
TurnsKnown ==
  \A p, q \in Slots : turns[p][q] # NoCount =>
    /\ p # q /\ {proc[p].state, proc[q].state} \subseteq {"RUNNABLE", "RUNNING"}
    /\ running = p => turns[p][q] = 0
    /\ running = q => turns[p][q] > 0
    /\ proc[q].pass >= DispatchedAt(p) + Finished(p, q) * proc[q].stride

(* Virtual time never runs backwards, idle or not: global_stride is never negative
   (proc.c:147, 257, 321, 463), except after the reuse of a failed slot. *)
VirtualTimeForward == [][~reused => global'.pass >= global.pass]_vars

(* Proportional turns: from the moment p is dispatched, a process q that is RUNNABLE
   then and neither sleeps nor changes its tickets gets at most the turns its share
   buys, rounded up, before p's next one (proc.c:465-491). *)
ProportionalTurns ==
  \A p, q \in Slots :
    turns[p][q] > 0 => (turns[p][q] - 1) * proc[q].stride <= proc[p].stride

(* The scheduler's state is consistent at every step, and neither settickets nor, but
   for the reuse of a failed slot, allocproc divides by zero. *)
StrideInvariant == StrideTypeOK /\ ForksKnown /\ TicketsKnown /\ DividesByTickets /\ TurnsKnown
=============================================================================
