---------------------------- MODULE LogProperties ----------------------------
(***************************************************************************)
(* What the logging layer guarantees, stated over the state of Log.        *)
(***************************************************************************)
EXTENDS Log

\* Every variable has the type its C declaration and its use give it.
TypeOK ==
  /\ home \in [Blocks -> Values]
  /\ logData \in [Slots -> Values]
  /\ hdN \in 0 .. LOGSIZE
  /\ hdBlock \in [Slots -> Blocks \cup {NoBlock}]
  /\ lhN \in 0 .. LOGSIZE
  /\ lhBlock \in [Slots -> Blocks \cup {NoBlock}]
  /\ outstanding \in Nat
  /\ committing \in BOOLEAN
  /\ cache \in [Blocks -> Values \cup {NotCached}]
  /\ dirty \subseteq Blocks
  /\ pc \in [Procs -> {"idle", "begin", "sleep", "op", "log_write", "commit"}]
  /\ wblk \in [Procs -> Blocks \cup {NoBlock}]
  /\ written \in [Procs -> SUBSET Blocks]
  /\ phase \in RecoveryPhases \cup CommitPhases \cup {"run"}
  /\ tail \in 0 .. LOGSIZE
  /\ halted \in {"no", "too big a transaction", "log_write outside of trans",
                 "header overflow", "log.committing"}

\* The kernel never stops in the logging layer and never appends past
\* lh.block[]: what begin_op reserves covers what concurrent calls log, although
\* log_write tests the size of the log without the lock.
NoPanic == halted = "no"

-----------------------------------------------------------------------------
\* What a crash now would leave after recovery: the home blocks, overlaid with
\* the committed transaction of the log.
Durable == [b \in Blocks |-> IF Logged(hdN, hdBlock, b)
                               THEN logData[SlotOf(hdN, hdBlock, b)]
                               ELSE home[b]]

\* What a read returns now (at boot, once recovery is over).
View == IF Recovering THEN Durable
        ELSE [b \in Blocks |-> IF cache[b] = NotCached THEN home[b] ELSE cache[b]]

\* The log implements a disk whose calls take effect together: the durable state
\* changes only at the header write of a commit, when no call is in progress,
\* and then becomes everything the finished calls wrote; a crash at any point,
\* recovery included, exposes nothing else.
AD == INSTANCE AtomicDisk WITH disk <- Durable, view <- View, active <- InOp
ImplementsAtomicDisk == AD!ADSpec

\* When end_op of the last call has returned, its group is on disk: with no call
\* in progress and no commit running, a crash loses nothing.
QuiescentDurable ==
  (phase = "run" /\ outstanding = 0) => Durable = View

\* The commit of a group never runs while a call is inside begin_op/end_op, and
\* log.outstanding counts exactly the calls that are.
CommitExcludesCalls ==
  /\ outstanding = Cardinality(InOp)
  /\ phase \in CommitPhases => InOp = {} /\ committing

\* bget may recycle every buffer but the pinned ones: the only copy of what a
\* call logged stays in memory until the log has installed it, and every other
\* buffer holds what the disk holds, unless a call is just modifying it.
PinnedUntilInstalled ==
  ~Recovering =>
    /\ \A i \in Slots :
         i < lhN /\ (phase = "install" => i >= tail) /\ phase # "clear_head"
           => lhBlock[i] \in dirty /\ cache[lhBlock[i]] # NotCached
    /\ \A b \in Blocks \ dirty : cache[b] \in {NotCached, home[b]} \/ Locked(b)

-----------------------------------------------------------------------------
(***************************************************************************)
(* The inductive invariant: what holds between any two steps of the code, *)
(* by the phase commit() or recovery is in.                               *)
(***************************************************************************)
\* No block is twice in the first n entries of a header.
HeaderOK(n, block) ==
  /\ \A i \in Slots : i < n => block[i] \in Blocks
  /\ \A i, j \in Slots : i < n /\ j < n /\ block[i] = block[j] => i = j

CallsOK ==
  /\ outstanding = Cardinality(InOp)
  /\ committing <=> phase \in CommitPhases
  /\ phase # "run" => InOp = {}
  /\ \A p \in Procs : pc[p] = "log_write" =>
       wblk[p] \in Blocks /\ cache[wblk[p]] # NotCached

\* On disk, the header names a transaction only from write_head to its erasure.
HeadersOK ==
  /\ HeaderOK(lhN, lhBlock)
  /\ phase \in {"run", "write_log", "write_head", "done"} => hdN = 0
  /\ phase = "done" \/ (phase = "run" /\ InOp = {}) => lhN = 0
  /\ phase \in {"install", "clear_head", "rec_install", "rec_clear"} =>
       hdN = lhN /\ \A i \in Slots : i < lhN => hdBlock[i] = lhBlock[i]

\* What write_log and install_trans have done up to tail.
ProgressOK ==
  /\ phase \in {"write_log", "install", "rec_install"} => tail < lhN
  /\ phase = "write_head" => lhN > 0
  /\ \A i \in Slots : i < lhN =>
       /\ phase = "write_log" /\ i < tail => logData[i] = cache[lhBlock[i]]
       /\ phase = "write_head" => logData[i] = cache[lhBlock[i]]
       /\ phase = "install" /\ i >= tail => logData[i] = cache[lhBlock[i]]
       /\ phase \in {"install", "rec_install"} /\ i < tail =>
            home[lhBlock[i]] = logData[i]
       /\ phase \in {"clear_head", "rec_clear"} => home[lhBlock[i]] = logData[i]

BuffersOK ==
  /\ \A b \in Blocks \ dirty : cache[b] \in {NotCached, home[b]} \/ Locked(b)
  /\ \A b \in dirty : cache[b] # NotCached
  /\ phase \in {"run", "write_log", "write_head"} =>
       \A b \in Blocks : b \in dirty <=> Logged(lhN, lhBlock, b)
  /\ phase = "install" =>
       \A b \in Blocks : b \in dirty <=>
         \E i \in Slots : tail <= i /\ i < lhN /\ lhBlock[i] = b
  /\ phase \in {"clear_head", "done"} \cup RecoveryPhases => dirty = {}

\* All of it holds while the kernel runs; the disk and the count of calls are
\* right even in a kernel that has stopped.
LogInvariant ==
  /\ TypeOK
  /\ HeaderOK(hdN, hdBlock)
  /\ CallsOK
  /\ halted # "no" => phase = "run" /\ hdN = 0 /\ InOp # {}
  /\ halted = "no" => HeadersOK /\ ProgressOK /\ BuffersOK

-----------------------------------------------------------------------------
\* A process asleep in begin_op is woken: every end_op that could have made room
\* or finished a commit wakes the sleepers.
SleepersWoken == \A p \in Procs : pc[p] = "sleep" ~> pc[p] # "sleep"

\* Once the power stops failing, a boot gets through recovery and a commit that
\* started reaches its end.
PowerStays == <>[][~Crash]_vars
ProgressOnceUp ==
  PowerStays => /\ Recovering ~> ~Recovering
                /\ committing ~> ~committing
=============================================================================
