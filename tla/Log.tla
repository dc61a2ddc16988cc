-------------------------------- MODULE Log --------------------------------
(***************************************************************************)
(* The xv6 logging layer (log.c) over the buffer cache it pins blocks in, *)
(* with crashes at every point and recovery at boot.                      *)
(*                                                                        *)
(* A disk write (bwrite) is synchronous and atomic per block.  The log    *)
(* blocks and the header are written through the cache, so only the disk  *)
(* copy of them is kept; home blocks have a cached copy that may be ahead *)
(* of the disk.  The spinlock log.lock makes each of its critical         *)
(* sections one step; log_write tests the size of the log before it takes *)
(* the lock, so it is two steps.                                          *)
(***************************************************************************)
EXTENDS Integers, FiniteSets

CONSTANTS
  Procs, Blocks, Values,
  NoBlock,       \* an entry of a header that was never written
  NotCached,     \* no buffer holds the block
  LOGSIZE,       \* entries of struct logheader (param.h)
  MAXOPBLOCKS,   \* what begin_op reserves for one call (param.h)
  NLOG,          \* sb.nlog: blocks of the log on disk, header included
  OpBlocks       \* distinct blocks that a call may write

ASSUME LogSizes ==
  /\ LOGSIZE \in Nat \ {0}
  /\ NLOG \in Nat \ {0}
  /\ NLOG <= LOGSIZE
  /\ MAXOPBLOCKS \in Nat \ {0}
  /\ OpBlocks \in Nat
ASSUME ProcsFinite == IsFiniteSet(Procs)
ASSUME SomeValue == Values # {}
ASSUME NoBlockIsNoBlock == NoBlock \notin Blocks
ASSUME NotCachedIsNoValue == NotCached \notin Values

Slots == 0 .. LOGSIZE - 1

VARIABLES
  \* on disk
  home,         \* the home location of each block
  logData,      \* the blocks log.start+1 ..
  hdN, hdBlock, \* the header block at log.start
  \* in memory
  lhN, lhBlock, \* log.lh
  outstanding, committing,
  cache,        \* the buffer of each block, or NotCached
  dirty,        \* blocks whose buffer has B_DIRTY set by log_write
  \* control
  pc,           \* where each process is
  wblk,         \* the block a process is handing to log_write
  written,      \* the blocks its current call has written
  phase,        \* where commit(), or recover_from_log() at boot, is
  tail,         \* the loop variable of write_log and install_trans
  halted        \* why the kernel stopped: "no" while it runs

diskVars == <<home, logData, hdN, hdBlock>>
headVars == <<lhN, lhBlock>>
cntVars == <<outstanding, committing>>
bufVars == <<cache, dirty>>
procVars == <<pc, wblk, written>>
ctlVars == <<phase, tail>>
vars == <<diskVars, headVars, cntVars, bufVars, procVars, ctlVars, halted>>

RecoveryPhases == {"read_head", "rec_install", "rec_clear"}
CommitPhases == {"write_log", "write_head", "install", "clear_head", "done"}
Recovering == phase \in RecoveryPhases

\* The calls counted by log.outstanding.
InOp == {p \in Procs : pc[p] \in {"op", "log_write"}}

\* A process between bread and brelse holds the buffer's sleep-lock.
Locked(b) == \E p \in Procs : pc[p] = "log_write" /\ wblk[p] = b

Logged(n, block, b) == \E i \in Slots : i < n /\ block[i] = b
SlotOf(n, block, b) == CHOOSE i \in Slots : i < n /\ block[i] = b

-----------------------------------------------------------------------------
Init ==
  /\ home \in [Blocks -> Values]
  /\ logData = [i \in Slots |-> CHOOSE v \in Values : TRUE]
  /\ hdN = 0
  /\ hdBlock = [i \in Slots |-> NoBlock]
  /\ lhN = 0
  /\ lhBlock = [i \in Slots |-> NoBlock]
  /\ outstanding = 0
  /\ committing = FALSE
  /\ cache = [b \in Blocks |-> NotCached]
  /\ dirty = {}
  /\ pc = [p \in Procs |-> "idle"]
  /\ wblk = [p \in Procs |-> NoBlock]
  /\ written = [p \in Procs |-> {}]
  /\ phase = "read_head"
  /\ tail = 0
  /\ halted = "no"

-----------------------------------------------------------------------------
(* begin_op: the loop sleeps while a commit runs or while this call might *)
(* exhaust the log.                                                       *)

\* Mutant: a caller does not wait for a running commit.
MustWaitNotForCommit == lhN + (outstanding + 1) * MAXOPBLOCKS > LOGSIZE

MustWait == committing \/ lhN + (outstanding + 1) * MAXOPBLOCKS > LOGSIZE

BeginSleep(p) ==
  /\ halted = "no" /\ pc[p] \in {"idle", "begin"} /\ ~Recovering
  /\ MustWait
  /\ pc' = [pc EXCEPT ![p] = "sleep"]
  /\ UNCHANGED <<diskVars, headVars, cntVars, bufVars, wblk, written, ctlVars, halted>>

BeginOp(p) ==
  /\ halted = "no" /\ pc[p] \in {"idle", "begin"} /\ ~Recovering
  /\ ~MustWait
  /\ outstanding' = outstanding + 1
  /\ pc' = [pc EXCEPT ![p] = "op"]
  /\ written' = [written EXCEPT ![p] = {}]
  /\ UNCHANGED <<diskVars, headVars, committing, bufVars, wblk, ctlVars, halted>>

\* wakeup(&log): every sleeper runs the loop of begin_op again.
Woken(f) == [p \in Procs |-> IF f[p] = "sleep" THEN "begin" ELSE f[p]]

(* A call modifies a locked buffer and calls log_write, which first tests *)
(* the size of the log without the lock.                                  *)

LogTooBig == lhN >= LOGSIZE \/ lhN >= NLOG - 1

LogWriteCheck(p, b, v) ==
  /\ halted = "no" /\ pc[p] = "op" /\ ~Locked(b)
  /\ Cardinality(written[p] \cup {b}) <= OpBlocks
  /\ cache' = [cache EXCEPT ![b] = v]
  /\ wblk' = [wblk EXCEPT ![p] = b]
  /\ written' = [written EXCEPT ![p] = @ \cup {b}]
  /\ IF LogTooBig
       THEN halted' = "too big a transaction" /\ UNCHANGED pc
       ELSE IF outstanding < 1
         THEN halted' = "log_write outside of trans" /\ UNCHANGED pc
         ELSE pc' = [pc EXCEPT ![p] = "log_write"] /\ UNCHANGED halted
  /\ UNCHANGED <<diskVars, headVars, cntVars, dirty, ctlVars>>

\* The rest of log_write, under log.lock: absorb or append, pin, brelse.
\* An append past the end of lh.block[] is undefined behaviour.
LogWriteAppend(p) ==
  LET b == wblk[p]
  IN  /\ halted = "no" /\ pc[p] = "log_write"
      /\ pc' = [pc EXCEPT ![p] = "op"]
      /\ dirty' = dirty \cup {b}
      /\ IF Logged(lhN, lhBlock, b)
           THEN UNCHANGED <<headVars, halted>>
           ELSE IF lhN \in Slots
             THEN /\ lhBlock' = [lhBlock EXCEPT ![lhN] = b]
                  /\ lhN' = lhN + 1
                  /\ UNCHANGED halted
             ELSE halted' = "header overflow" /\ UNCHANGED headVars
      /\ UNCHANGED <<diskVars, cntVars, cache, wblk, written, ctlVars>>

\* Mutant: the last call out leaves the commit to a later call.
EndOpSkipsCommit(p) ==
  /\ halted = "no" /\ pc[p] = "op"
  /\ outstanding' = outstanding - 1
  /\ pc' = [Woken(pc) EXCEPT ![p] = "idle"]
  /\ UNCHANGED <<diskVars, headVars, committing, bufVars, wblk, written, ctlVars, halted>>

\* end_op up to the release of log.lock.  The last call out starts commit(),
\* which does nothing when nothing was logged.
EndOp(p) ==
  /\ halted = "no" /\ pc[p] = "op"
  /\ outstanding' = outstanding - 1
  /\ IF committing
       THEN halted' = "log.committing" /\ UNCHANGED <<pc, committing, ctlVars>>
       ELSE /\ UNCHANGED halted
            /\ IF outstanding' = 0
                 THEN /\ committing' = TRUE
                      /\ phase' = IF lhN > 0 THEN "write_log" ELSE "done"
                      /\ tail' = 0
                      /\ pc' = [pc EXCEPT ![p] = "commit"]
                 ELSE /\ pc' = [Woken(pc) EXCEPT ![p] = "idle"]
                      /\ UNCHANGED <<committing, ctlVars>>
  /\ UNCHANGED <<diskVars, headVars, bufVars, wblk, written>>

-----------------------------------------------------------------------------
(* commit(), run without log.lock by the last call out.                   *)

\* One iteration of write_log: from the pinned buffer to the log block.
WriteLog ==
  /\ halted = "no" /\ phase = "write_log" /\ tail < lhN
  /\ logData' = [logData EXCEPT ![tail] = cache[lhBlock[tail]]]
  /\ tail' = tail + 1
  /\ phase' = IF tail' = lhN THEN "write_head" ELSE phase
  /\ UNCHANGED <<home, hdN, hdBlock, headVars, cntVars, bufVars, procVars, halted>>

\* Mutant: the loop of write_head stops one entry early.
HeaderWrittenShort ==
  /\ hdN' = lhN
  /\ hdBlock' = [i \in Slots |-> IF i < lhN - 1 THEN lhBlock[i] ELSE hdBlock[i]]

\* write_head as one block write; entries from lh.n on keep what they had.
HeaderWritten ==
  /\ hdN' = lhN
  /\ hdBlock' = [i \in Slots |-> IF i < lhN THEN lhBlock[i] ELSE hdBlock[i]]

\* Mutant: the transaction is erased from the header that commits it.
WriteHeadFirst ==
  /\ halted = "no" /\ phase = "write_head"
  /\ hdN' = 0 /\ UNCHANGED hdBlock
  /\ phase' = "install" /\ tail' = 0
  /\ UNCHANGED <<home, logData, headVars, cntVars, bufVars, procVars, halted>>

WriteHead ==
  /\ halted = "no" /\ phase = "write_head"
  /\ HeaderWritten
  /\ phase' = "install" /\ tail' = 0
  /\ UNCHANGED <<home, logData, headVars, cntVars, bufVars, procVars, halted>>

\* One iteration of install_trans: log block to the buffer of the home block
\* and to the disk; the write clears B_DIRTY.
InstallBlock ==
  LET b == lhBlock[tail]
  IN  /\ home' = [home EXCEPT ![b] = logData[tail]]
      /\ cache' = [cache EXCEPT ![b] = logData[tail]]
      /\ dirty' = dirty \ {b}
      /\ tail' = tail + 1

Install ==
  /\ halted = "no" /\ phase = "install" /\ tail < lhN
  /\ InstallBlock
  /\ phase' = IF tail' = lhN THEN "clear_head" ELSE phase
  /\ UNCHANGED <<logData, hdN, hdBlock, headVars, cntVars, procVars, halted>>

\* log.lh.n = 0; write_head()
HeaderCleared ==
  /\ lhN' = 0 /\ hdN' = 0
  /\ UNCHANGED <<hdBlock, lhBlock>>

ClearHead ==
  /\ halted = "no" /\ phase = "clear_head"
  /\ HeaderCleared
  /\ phase' = "done"
  /\ UNCHANGED <<home, logData, cntVars, bufVars, procVars, tail, halted>>

\* Mutant: the sleepers of begin_op are not woken after the commit.
CommitDoneNoWakeup(p) ==
  /\ halted = "no" /\ phase = "done" /\ pc[p] = "commit"
  /\ committing' = FALSE
  /\ phase' = "run"
  /\ pc' = [pc EXCEPT ![p] = "idle"]
  /\ UNCHANGED <<diskVars, headVars, outstanding, bufVars, wblk, written, tail, halted>>

\* The end of end_op, under log.lock again.
CommitDone(p) ==
  /\ halted = "no" /\ phase = "done" /\ pc[p] = "commit"
  /\ committing' = FALSE
  /\ phase' = "run"
  /\ pc' = [Woken(pc) EXCEPT ![p] = "idle"]
  /\ UNCHANGED <<diskVars, headVars, outstanding, bufVars, wblk, written, tail, halted>>

-----------------------------------------------------------------------------
(* initlog -> recover_from_log, in the first process, before any call.    *)

\* Mutant: the in-memory header is used without reading the disk's, so a
\* transaction left in the log is never installed and never cleared.
RecoverHeadStuck ==
  /\ halted = "no" /\ phase = "read_head"
  /\ tail' = 0
  /\ phase' = IF hdN = 0 THEN "rec_clear" ELSE "rec_install"
  /\ UNCHANGED <<diskVars, headVars, cntVars, bufVars, procVars, halted>>

RecoverHead ==
  /\ halted = "no" /\ phase = "read_head"
  /\ lhN' = hdN
  /\ lhBlock' = [i \in Slots |-> IF i < hdN THEN hdBlock[i] ELSE lhBlock[i]]
  /\ tail' = 0
  /\ phase' = IF hdN = 0 THEN "rec_clear" ELSE "rec_install"
  /\ UNCHANGED <<diskVars, cntVars, bufVars, procVars, halted>>

RecoverInstall ==
  /\ halted = "no" /\ phase = "rec_install" /\ tail < lhN
  /\ InstallBlock
  /\ phase' = IF tail' = lhN THEN "rec_clear" ELSE phase
  /\ UNCHANGED <<logData, hdN, hdBlock, headVars, cntVars, procVars, halted>>

RecoverClear ==
  /\ halted = "no" /\ phase = "rec_clear"
  /\ HeaderCleared
  /\ phase' = "run"
  /\ UNCHANGED <<home, logData, cntVars, bufVars, procVars, tail, halted>>

-----------------------------------------------------------------------------
(* The buffer cache around the log.                                       *)

\* bread of a block that no buffer holds.
Load(b) ==
  /\ halted = "no" /\ ~Recovering /\ cache[b] = NotCached
  /\ cache' = [cache EXCEPT ![b] = home[b]]
  /\ UNCHANGED <<diskVars, headVars, cntVars, dirty, procVars, ctlVars, halted>>

\* bget recycles a buffer nobody holds and that log_write has not pinned.
Evict(b) ==
  /\ halted = "no" /\ cache[b] # NotCached /\ b \notin dirty /\ ~Locked(b)
  /\ cache' = [cache EXCEPT ![b] = NotCached]
  /\ UNCHANGED <<diskVars, headVars, cntVars, dirty, procVars, ctlVars, halted>>

-----------------------------------------------------------------------------
\* Power loss, or a reset after a panic: memory is lost, the disk stays.
Crash ==
  /\ lhN' = 0
  /\ lhBlock' = [i \in Slots |-> NoBlock]
  /\ outstanding' = 0
  /\ committing' = FALSE
  /\ cache' = [b \in Blocks |-> NotCached]
  /\ dirty' = {}
  /\ pc' = [p \in Procs |-> "idle"]
  /\ wblk' = [p \in Procs |-> NoBlock]
  /\ written' = [p \in Procs |-> {}]
  /\ phase' = "read_head"
  /\ tail' = 0
  /\ halted' = "no"
  /\ UNCHANGED diskVars

Commit == WriteLog \/ WriteHead \/ Install \/ ClearHead
Recover == RecoverHead \/ RecoverInstall \/ RecoverClear

Next ==
  \/ \E p \in Procs : BeginSleep(p) \/ BeginOp(p) \/ LogWriteAppend(p)
                      \/ EndOp(p) \/ CommitDone(p)
  \/ \E p \in Procs, b \in Blocks, v \in Values : LogWriteCheck(p, b, v)
  \/ Commit
  \/ Recover
  \/ \E b \in Blocks : Load(b) \/ Evict(b)
  \/ Crash

\* A call that began makes finitely many log_writes and ends (hence strong
\* fairness: EndOp is disabled inside log_write), commit and recovery go on,
\* and a process that was woken runs; nothing forces a call to begin, to write
\* or to crash.
Fairness ==
  /\ WF_vars(Commit)
  /\ WF_vars(Recover)
  /\ \A p \in Procs :
       /\ WF_vars(LogWriteAppend(p))
       /\ WF_vars(CommitDone(p))
       /\ WF_vars(pc[p] = "begin" /\ (BeginSleep(p) \/ BeginOp(p)))
       /\ SF_vars(EndOp(p))

Spec == Init /\ [][Next]_vars
FairSpec == Spec /\ Fairness
=============================================================================
