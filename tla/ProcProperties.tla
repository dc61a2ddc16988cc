--------------------------- MODULE ProcProperties ---------------------------
(***************************************************************************)
(* What the process table is for, stated over ProcTable.                   *)
(***************************************************************************)
EXTENDS ProcTable

Live(p) == state[p] \in {"RUNNABLE", "RUNNING", "SLEEPING"}

ProcStates == {"UNUSED", "EMBRYO", "RUNNABLE", "RUNNING", "SLEEPING", "ZOMBIE"}

\* Types, and the ties between the fields of one process: only a process in wait
\* sleeps, only one in fork has an EMBRYO.
ProcTypeOK ==
  /\ state \in [Slots -> ProcStates]
  /\ pid \in [Slots -> 0 .. MaxPid] /\ nextpid \in 1 .. MaxPid + 1
  /\ parent \in [Slots -> Slots \cup {NoProc}]
  /\ killed \in [Slots -> BOOLEAN]
  /\ pc \in [Slots -> {"user", "fork", "wait"}]
  /\ child \in [Slots -> Slots \cup {NoProc}]
  /\ cpuProc \in [Cpus -> Slots \cup {NoProc}] /\ cursor \in [Cpus -> Slots]
  /\ \A p \in Slots : /\ state[p] = "SLEEPING" => pc[p] = "wait"
                      /\ pc[p] = "fork" <=> child[p] # NoProc

\* A process runs on exactly one CPU, and a CPU runs only RUNNING processes.
OneCpuEach ==
  /\ \A c \in Cpus : cpuProc[c] # NoProc => state[cpuProc[c]] = "RUNNING"
  /\ \A p \in Slots : state[p] = "RUNNING" => \E c \in Cpus : cpuProc[c] = p
  /\ \A c, d \in Cpus : cpuProc[c] = cpuProc[d] /\ cpuProc[c] # NoProc => c = d

\* init never dies, every other process has a parent, and a parent is alive: whoever
\* exits hands its children, forked or dead, to init. (That goes for the parent that
\* a failed fork leaves in an unused slot, too.)
ParentsLive ==
  /\ Live(InitSlot) /\ parent[InitSlot] = NoProc
  /\ \A p \in Slots \ {InitSlot} :
       Live(p) \/ state[p] = "ZOMBIE" => parent[p] # NoProc
  /\ \A p \in Slots :
       parent[p] # NoProc => parent[p] # p /\ Live(parent[p])

\* A slot is filled by one fork, of a live process, that no other fork disturbs.
EmbryoOwned ==
  /\ \A p \in Slots : child[p] # NoProc => Live(p) /\ state[child[p]] = "EMBRYO"
  /\ \A c \in Slots : state[c] = "EMBRYO" => \E p \in Slots : child[p] = c
  /\ \A p, q \in Slots : child[p] = child[q] /\ child[p] # NoProc => p = q

\* No process sleeps in wait while it has a zombie child.
ZombieWakesParent == \A p \in Slots : state[p] = "SLEEPING" => Zombies(p) = {}

\* Processes that exist have different pids, none of them yet to be given out.
PidsUnique ==
  /\ \A p, q \in Slots : state[p] # "UNUSED" /\ state[q] # "UNUSED" /\ pid[p] = pid[q] => p = q
  /\ \A p \in Slots : pid[p] < nextpid

\* The scheduler's loops run every RUNNABLE process in the end.
RunnableRuns == \A p \in Slots : state[p] = "RUNNABLE" ~> state[p] # "RUNNABLE"

\* A killed process exits, wherever it was.
KilledExit ==
  \A p \in Slots \ {InitSlot} : (killed[p] /\ Live(p)) ~> ~Live(p)

\* init reaps the zombies that it inherits.
OrphansReaped ==
  \A c \in Slots \ {InitSlot} :
    (state[c] = "ZOMBIE" /\ parent[c] = InitSlot) ~> state[c] # "ZOMBIE"

\* The table is consistent at every step: types, who runs where, who is whose child,
\* who fills in which slot, and pids.
TableInvariant ==
  ProcTypeOK /\ OneCpuEach /\ ParentsLive /\ EmbryoOwned /\ PidsUnique
=============================================================================
