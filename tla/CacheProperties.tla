-------------------------- MODULE CacheProperties --------------------------
(* What the buffer cache, its sleep-locks and the disk queue promise. *)
EXTENDS BufferCache

CONSTANT NothingSeen  \* what a process sees of a block that it does not hold

ASSUME NothingIsNoValue == NothingSeen \notin Values

Buf == [block : Blocks \cup {NoBlock}, refcnt : Nat, valid : BOOLEAN, dirty : BOOLEAN,
        holder : Procs \cup {NoProc}, data : Values]

CacheTypeOK ==
  /\ buf \in [Buffers -> Buf] /\ queue \in Seq(Buffers)
  /\ lru \in [1 .. NBUF -> Buffers] /\ \A b \in Buffers : \E i \in 1 .. NBUF : lru[i] = b
  /\ disk \in [Blocks -> Values] /\ panicked \in BOOLEAN
  /\ pc \in [Procs -> {"run", "lock", "asleep", "start", "io", "deref"}]
  /\ at \in [Procs -> Buffers] /\ held \in [Procs -> SUBSET Buffers]

(* A block is never in two buffers at a time (bio.c:69, 81). *)
OneBufferPerBlock ==
  \A b, c \in Buffers : buf[b].block = buf[c].block /\ buf[b].block # NoBlock => b = c

(* refcnt counts the processes between bget and the end of brelse, those asleep on
   the lock included, so that a buffer is not recycled under one of them (bio.c:71,
   82, 129). *)
Uses(p, b) == b \in held[p] \/ (pc[p] # "run" /\ at[p] = b)
Users(b) == {p \in Procs : Uses(p, b)}
RefcntExact == \A b \in Buffers : buf[b].refcnt = Cardinality(Users(b))

(* A locked buffer is one that bread has returned to the lock's holder, with its
   content, or that the holder has brought to iderw (sleeplock.c, bio.c:97-122). *)
InHand(p, b) == b \in held[p] \/ (pc[p] \in {"start", "io"} /\ at[p] = b)
HoldersKnown ==
  /\ \A b \in Buffers : buf[b].holder # NoProc => InHand(buf[b].holder, b)
  /\ \A p \in Procs, b \in Buffers : InHand(p, b) => buf[b].holder = p
  /\ \A p \in Procs : \A b \in held[p] : buf[b].valid
  /\ \A p \in Procs : /\ pc[p] = "start" => ~Finished(at[p])
                      /\ pc[p] = "deref" => at[p] \notin held[p]
                      /\ pc[p] = "asleep" => buf[at[p]].holder # NoProc

(* Who is on the way to a buffer holds only blocks that come before its block. *)
OnTheWay(p) == pc[p] \in {"lock", "asleep"} \/ (pc[p] \in {"start", "io"} /\ at[p] \notin held[p])
NestedInOrder ==
  \A p \in Procs : OnTheWay(p) => \A b \in held[p] : buf[b].block < buf[at[p]].block

(* A buffer in use has a block, and its content is the disk's unless it is dirty. *)
DataCurrent ==
  /\ \A p \in Procs, b \in Buffers : Uses(p, b) => buf[b].block # NoBlock
  /\ \A b \in Buffers :
       /\ buf[b].dirty => buf[b].valid
       /\ buf[b].valid => buf[b].block # NoBlock
       /\ buf[b].valid /\ ~buf[b].dirty => buf[b].data = disk[buf[b].block]

(* The driver's queue holds each buffer once, and exactly the buffers whose lock
   holder sleeps in iderw for an answer (ide.c:151-163). *)
Queued(b) == \E i \in DOMAIN queue : queue[i] = b
Waiting(b) == ~Finished(b) /\ \E p \in Procs : pc[p] = "io" /\ at[p] = b
QueueIsWaiters ==
  /\ \A i, j \in DOMAIN queue : queue[i] = queue[j] => i = j
  /\ \A b \in Buffers : Queued(b) <=> Waiting(b)

(* No lost wakeup, and no two processes wait for each other's buffers: a process asleep
   on a lock sleeps because of a holder, who is not asleep on a lock of the sleeper's
   (sleeplock.c:26-28, 40; log.c:73, 131 and fs.c:388, 420 nest in one order). *)
SleepsOn(p) == buf[at[p]].holder
NobodyStuck ==
  \A p \in Procs : pc[p] = "asleep" =>
    /\ SleepsOn(p) \in Procs \ {p}
    /\ pc[SleepsOn(p)] = "asleep" => SleepsOn(SleepsOn(p)) # p

(* bget gives up only when every buffer is held, waited for or kept dirty for the
   log: none is ever leaked (bio.c:82, 92, 129). *)
PanicOnlyWhenFull ==
  panicked => \A b \in Buffers : buf[b].dirty \/ \E p \in Procs : Uses(p, b)

\* The current content of a block is in its buffer or else on the disk.
Content == [k \in Blocks |->
  LET valid == {b \in Caching(k) : buf[b].valid}
  IN  IF valid = {} THEN disk[k] ELSE buf[CHOOSE b \in valid : TRUE].data]
Sees == [p \in Procs |-> [k \in Blocks |->
  LET mine == {b \in held[p] : buf[b].block = k}
  IN  IF mine = {} THEN NothingSeen ELSE buf[CHOOSE b \in mine : TRUE].data]]

BS == INSTANCE BlockStore WITH content <- Content, sees <- Sees, NotHeld <- NothingSeen

(* The cache implements a store in which a block has one content, changed only by
   the one process that holds it, whatever is recycled, re-read, pinned or written
   behind (bio.c, sleeplock.c, ide.c together). *)
ImplementsBlockStore == BS!BSSpec

(* Who waits for the disk gets its answer, also when requests pile up (ide.c:157-163). *)
IoCompletes == \A p \in Procs : pc[p] \in {"start", "io"} ~> pc[p] = "run" \/ panicked

(* The cache is consistent at every step: its types, one buffer per block, exact
   reference counts, locks, contents, and in the disk queue just the buffers whose
   holder waits. *)
CacheInvariant ==
  /\ CacheTypeOK /\ OneBufferPerBlock /\ RefcntExact /\ HoldersKnown
  /\ NestedInOrder /\ DataCurrent /\ QueueIsWaiters
=============================================================================
