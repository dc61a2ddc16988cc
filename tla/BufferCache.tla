---------------------------- MODULE BufferCache ----------------------------
(***************************************************************************)
(* The xv6 buffer cache (bio.c) with the sleep-locks of its buffers        *)
(* (sleeplock.c) and the disk driver's queue (ide.c).                      *)
(*                                                                         *)
(* Each critical section of bcache.lock, of a sleep-lock's spin lock and   *)
(* of idelock is one step.  The disk answers every request, without error; *)
(* log_write appears as a store that sets B_DIRTY, of which the log allows *)
(* a limited number.                                                       *)
(***************************************************************************)
EXTENDS Naturals, Sequences, FiniteSets

CONSTANTS
  NBUF,      \* buffers
  Procs, NoProc,
  Blocks,    \* block numbers, in the order in which callers nest them
  Values, Blank,  \* contents of a block, and the one that all start with
  PinLimit,  \* blocks the log keeps dirty at a time
  Depth      \* how many blocks each process holds at a time

NoBlock == 0

ASSUME CacheSizes ==
  /\ NBUF \in Nat \ {0} /\ PinLimit \in Nat /\ Depth \in [Procs -> Nat]
  /\ Blocks \subseteq Nat \ {NoBlock} /\ NoProc \notin Procs
  /\ Blank \in Values /\ IsFiniteSet(Procs)

Buffers == 1 .. NBUF

VARIABLES
  buf,       \* struct buf: block, refcnt, B_VALID, B_DIRTY, who holds the lock, data
  lru,       \* the list, most recently used first
  queue,     \* idequeue
  disk,
  pc, at,    \* where each process is, and with which buffer
  held,      \* the buffers bread has returned to it
  panicked

vars == <<buf, lru, queue, disk, pc, at, held, panicked>>

Init ==
  /\ buf = [b \in Buffers |-> [block |-> NoBlock, refcnt |-> 0, valid |-> FALSE,
                               dirty |-> FALSE, holder |-> NoProc, data |-> Blank]]
  /\ lru = [i \in 1 .. NBUF |-> NBUF + 1 - i]
  /\ queue = <<>>
  /\ disk = [k \in Blocks |-> Blank]
  /\ pc = [p \in Procs |-> "run"]
  /\ at = [p \in Procs |-> 1]
  /\ held = [p \in Procs |-> {}]
  /\ panicked = FALSE

-----------------------------------------------------------------------------
(* bget                                                                     *)

\* write_log and install_trans hold a log block and take a home block, bmap and
\* itrunc hold an indirect block and take a bitmap block: never the other way round.
MayTake(p, k) ==
  /\ pc[p] = "run" /\ ~panicked /\ Cardinality(held[p]) < Depth[p]
  /\ \A b \in held[p] : buf[b].block < k

Caching(k) == {b \in Buffers : buf[b].block = k}

GetCached(p, k) ==
  /\ MayTake(p, k)
  /\ \E b \in Caching(k) :
       /\ at' = [at EXCEPT ![p] = b]
       /\ buf' = [buf EXCEPT ![b].refcnt = @ + 1]
  /\ pc' = [pc EXCEPT ![p] = "lock"]
  /\ UNCHANGED <<lru, queue, disk, held, panicked>>

\* Mutant: B_DIRTY does not keep a buffer.
UnusedOrPinned == {b \in Buffers : buf[b].refcnt = 0}

Unused == {b \in Buffers : buf[b].refcnt = 0 /\ ~buf[b].dirty}
Place(b) == CHOOSE i \in 1 .. NBUF : lru[i] = b

\* Mutant: does not look again whether the block came into the cache.
GetRecycledBlind(p, k) ==
  /\ MayTake(p, k)
  /\ \E b \in Unused :
       /\ \A c \in Unused : Place(c) <= Place(b)
       /\ at' = [at EXCEPT ![p] = b]
       /\ buf' = [buf EXCEPT ![b].block = k, ![b].refcnt = 1,
                             ![b].valid = FALSE, ![b].dirty = FALSE]
  /\ pc' = [pc EXCEPT ![p] = "lock"]
  /\ UNCHANGED <<lru, queue, disk, held, panicked>>

\* The new block has this buffer and its flags are clear.
GetRecycled(p, k) ==
  /\ MayTake(p, k) /\ Caching(k) = {}
  /\ \E b \in Unused :
       /\ \A c \in Unused : Place(c) <= Place(b)
       /\ at' = [at EXCEPT ![p] = b]
       /\ buf' = [buf EXCEPT ![b].block = k, ![b].refcnt = 1,
                             ![b].valid = FALSE, ![b].dirty = FALSE]
  /\ pc' = [pc EXCEPT ![p] = "lock"]
  /\ UNCHANGED <<lru, queue, disk, held, panicked>>

\* "bget: no buffers"
GetPanics(p, k) ==
  /\ MayTake(p, k) /\ Caching(k) = {} /\ Unused = {}
  /\ panicked' = TRUE
  /\ UNCHANGED <<buf, lru, queue, disk, pc, at, held>>

-----------------------------------------------------------------------------
(* acquiresleep, and bread's test of B_VALID                                *)

Trying(p) == pc[p] = "lock" /\ ~panicked

\* A valid buffer is returned at once; the flags change under the lock only.
Lock(p) ==
  /\ Trying(p) /\ buf[at[p]].holder = NoProc
  /\ buf' = [buf EXCEPT ![at[p]].holder = p]
  /\ pc' = [pc EXCEPT ![p] = IF buf[at[p]].valid THEN "run" ELSE "start"]
  /\ held' = [held EXCEPT ![p] = IF buf[at[p]].valid THEN @ \cup {at[p]} ELSE @]
  /\ UNCHANGED <<lru, queue, disk, at, panicked>>

LockSleep(p) ==
  /\ Trying(p) /\ buf[at[p]].holder # NoProc
  /\ pc' = [pc EXCEPT ![p] = "asleep"]
  /\ UNCHANGED <<buf, lru, queue, disk, at, held, panicked>>

-----------------------------------------------------------------------------
(* iderw and ideintr                                                        *)

\* Mutant: the buffer is put in front of the request under way.
StartInFront(p) ==
  /\ pc[p] = "start" /\ ~panicked
  /\ queue' = <<at[p]>> \o queue
  /\ pc' = [pc EXCEPT ![p] = "io"]
  /\ UNCHANGED <<buf, lru, disk, at, held, panicked>>

\* iderw puts the buffer at the end of the queue and sleeps.
Start(p) ==
  /\ pc[p] = "start" /\ ~panicked
  /\ queue' = Append(queue, at[p])
  /\ pc' = [pc EXCEPT ![p] = "io"]
  /\ UNCHANGED <<buf, lru, disk, at, held, panicked>>

Finished(b) == buf[b].valid /\ ~buf[b].dirty

\* The request at the head of the queue is done.
Interrupt ==
  /\ queue # <<>> /\ ~panicked
  /\ LET b == Head(queue)
     IN  /\ disk' = IF buf[b].dirty THEN [disk EXCEPT ![buf[b].block] = buf[b].data] ELSE disk
         /\ buf' = [buf EXCEPT ![b].data = IF buf[b].dirty THEN @ ELSE disk[buf[b].block],
                               ![b].valid = TRUE, ![b].dirty = FALSE]
  /\ queue' = Tail(queue)
  /\ UNCHANGED <<lru, pc, at, held, panicked>>

IoDone(p) ==
  /\ pc[p] = "io" /\ Finished(at[p]) /\ ~panicked
  /\ pc' = [pc EXCEPT ![p] = "run"]
  /\ held' = [held EXCEPT ![p] = @ \cup {at[p]}]
  /\ UNCHANGED <<buf, lru, queue, disk, at, panicked>>

-----------------------------------------------------------------------------
(* What the holder does: store and log_write, bwrite, brelse                *)

Holds(p, b) == pc[p] = "run" /\ b \in held[p] /\ ~panicked
Pinned == {b \in Buffers : buf[b].dirty /\ \A i \in DOMAIN queue : queue[i] # b}

Store(p, b, v) ==
  /\ Holds(p, b)
  /\ Cardinality(Pinned \cup {b}) <= PinLimit
  /\ buf' = [buf EXCEPT ![b].data = v, ![b].dirty = TRUE]
  /\ UNCHANGED <<lru, queue, disk, pc, at, held, panicked>>

Bwrite(p, b) ==
  /\ Holds(p, b)
  /\ buf' = [buf EXCEPT ![b].dirty = TRUE]
  /\ at' = [at EXCEPT ![p] = b]
  /\ pc' = [pc EXCEPT ![p] = "start"]
  /\ UNCHANGED <<lru, queue, disk, held, panicked>>

\* Mutant: releasesleep wakes nobody.
ReleaseSilently(p, b) ==
  /\ Holds(p, b)
  /\ buf' = [buf EXCEPT ![b].holder = NoProc]
  /\ held' = [held EXCEPT ![p] = @ \ {b}]
  /\ at' = [at EXCEPT ![p] = b]
  /\ pc' = [pc EXCEPT ![p] = "deref"]
  /\ UNCHANGED <<lru, queue, disk, panicked>>

\* brelse: releasesleep wakes every sleeper ...
Release(p, b) ==
  /\ Holds(p, b)
  /\ buf' = [buf EXCEPT ![b].holder = NoProc]
  /\ held' = [held EXCEPT ![p] = @ \ {b}]
  /\ at' = [at EXCEPT ![p] = b]
  /\ pc' = [q \in Procs |-> IF q = p THEN "deref"
                            ELSE IF pc[q] = "asleep" /\ at[q] = b THEN "lock" ELSE pc[q]]
  /\ UNCHANGED <<lru, queue, disk, panicked>>

\* The list with b taken out of its place and put in front.
MoveToFront(b) ==
  [i \in 1 .. NBUF |-> IF i = 1 THEN b ELSE IF i <= Place(b) THEN lru[i - 1] ELSE lru[i]]

\* Mutant: the reference is given up only by the last user.
DerefLast(p) ==
  /\ pc[p] = "deref" /\ ~panicked
  /\ buf' = [buf EXCEPT ![at[p]].refcnt = IF @ = 1 THEN 0 ELSE @]
  /\ lru' = IF buf[at[p]].refcnt = 1 THEN MoveToFront(at[p]) ELSE lru
  /\ pc' = [pc EXCEPT ![p] = "run"]
  /\ UNCHANGED <<queue, disk, at, held, panicked>>

\* ... then the reference is given up, and an unused buffer is the most recent one.
Deref(p) ==
  /\ pc[p] = "deref" /\ ~panicked
  /\ buf' = [buf EXCEPT ![at[p]].refcnt = @ - 1]
  /\ lru' = IF buf[at[p]].refcnt = 1 THEN MoveToFront(at[p]) ELSE lru
  /\ pc' = [pc EXCEPT ![p] = "run"]
  /\ UNCHANGED <<queue, disk, at, held, panicked>>

-----------------------------------------------------------------------------
Get(p, k) == GetCached(p, k) \/ GetRecycled(p, k) \/ GetPanics(p, k)
Step(p) == Lock(p) \/ LockSleep(p) \/ Start(p) \/ IoDone(p) \/ Deref(p)

Next ==
  \/ Interrupt
  \/ \E p \in Procs :
       \/ Step(p)
       \/ \E k \in Blocks : Get(p, k)
       \/ \E b \in Buffers : Release(p, b) \/ Bwrite(p, b) \/ \E v \in Values : Store(p, b, v)

Spec == Init /\ [][Next]_vars

\* Processes in the kernel go on, and the disk answers.
FairSpec == Spec /\ WF_vars(Interrupt) /\ \A p \in Procs : WF_vars(Step(p))
=============================================================================
