----------------------------- MODULE LogProofs -----------------------------
(***************************************************************************)
(* LogInvariant is inductive, for every number of processes, blocks and   *)
(* values and every size of the log.                                      *)
(***************************************************************************)
EXTENDS LogProperties, FunctionTheorems, FiniteSetTheorems, TLAPS

\* What a header stays when an entry is appended that it does not have yet.
LEMMA HeaderAppend ==
  ASSUME NEW n \in Slots, NEW block \in [Slots -> Blocks \cup {NoBlock}],
         NEW b \in Blocks, HeaderOK(n, block), ~Logged(n, block, b)
  PROVE  HeaderOK(n + 1, [block EXCEPT ![n] = b])
BY DEF HeaderOK, Logged, Slots

\* Counting the calls: one that begins, one that ends.
LEMMA CountAdd ==
  ASSUME TypeOK, NEW p \in Procs, p \notin InOp
  PROVE  /\ Cardinality(InOp \cup {p}) = Cardinality(InOp) + 1
         /\ Cardinality(InOp) \in Nat
<1>1. IsFiniteSet(InOp)
  BY FS_Subset, ProcsFinite DEF InOp
<1> QED
  BY <1>1, FS_AddElement, FS_CardinalityType

\* One process out of the operations in progress lowers their number by one.
LEMMA CountRemove ==
  ASSUME TypeOK, NEW p \in InOp
  PROVE  /\ Cardinality(InOp \ {p}) = Cardinality(InOp) - 1
         /\ Cardinality(InOp) - 1 \in Nat
         /\ Cardinality(InOp) - 1 = 0 <=> InOp \ {p} = {}
<1>1. IsFiniteSet(InOp)
  BY FS_Subset, ProcsFinite DEF InOp
<1>2. IsFiniteSet(InOp \ {p}) /\ Cardinality(InOp \ {p}) = Cardinality(InOp) - 1
  BY <1>1, FS_RemoveElement
<1> QED
  BY <1>2, FS_CardinalityType, FS_EmptySet

\* The invariant holds before the first recovery.
LEMMA InitInvariant == Init => LogInvariant
<1> SUFFICES ASSUME Init PROVE LogInvariant
  OBVIOUS
<1>1. InOp = {} /\ Cardinality(InOp) = 0
  BY FS_EmptySet DEF Init, InOp
<1>2. (CHOOSE v \in Values : TRUE) \in Values
  BY SomeValue
<1>2a. TypeOK
  <2>1. logData \in [Slots -> Values] /\ home \in [Blocks -> Values]
    BY <1>2 DEF Init
  <2>2. /\ hdBlock \in [Slots -> Blocks \cup {NoBlock}]
        /\ lhBlock \in [Slots -> Blocks \cup {NoBlock}]
        /\ wblk \in [Procs -> Blocks \cup {NoBlock}]
    BY DEF Init
  <2>3. /\ cache \in [Blocks -> Values \cup {NotCached}]
        /\ pc \in [Procs -> {"idle", "begin", "sleep", "op", "log_write", "commit"}]
        /\ written \in [Procs -> SUBSET Blocks]
    BY DEF Init
  <2>4. 0 \in 0 .. LOGSIZE
    BY LogSizes
  <2> QED
    BY <2>1, <2>2, <2>3, <2>4 DEF Init, TypeOK, RecoveryPhases
<1>3. CallsOK
  BY <1>1 DEF Init, CallsOK, CommitPhases
<1>4. HeaderOK(hdN, hdBlock) /\ HeadersOK
  BY DEF Init, HeaderOK, HeadersOK, Slots
<1>5. ProgressOK
  BY DEF Init, ProgressOK, Slots
<1>6. BuffersOK
  BY DEF Init, BuffersOK, RecoveryPhases
<1> QED
  BY <1>2a, <1>3, <1>4, <1>5, <1>6 DEF Init, LogInvariant
-----------------------------------------------------------------------------
(* One lemma per action: from LogInvariant and the action, its next value. *)

\* A crash keeps what is on the disk.
LEMMA CrashInvariant == LogInvariant /\ Crash => LogInvariant'
<1> SUFFICES ASSUME LogInvariant, Crash PROVE LogInvariant'
  OBVIOUS
<1> USE DEF LogInvariant
<1>1. InOp' = {} /\ Cardinality(InOp') = 0
  BY FS_EmptySet DEF Crash, InOp
<1>2. TypeOK'
  <2>1. /\ lhBlock' \in [Slots -> Blocks \cup {NoBlock}]
        /\ wblk' \in [Procs -> Blocks \cup {NoBlock}]
    BY DEF Crash
  <2>2. /\ cache' \in [Blocks -> Values \cup {NotCached}]
        /\ pc' \in [Procs -> {"idle", "begin", "sleep", "op", "log_write", "commit"}]
        /\ written' \in [Procs -> SUBSET Blocks]
    BY DEF Crash
  <2>3. 0 \in 0 .. LOGSIZE
    BY LogSizes
  <2> QED
    BY <2>1, <2>2, <2>3 DEF Crash, TypeOK, diskVars, RecoveryPhases
<1>3. CallsOK'
  BY <1>1 DEF Crash, CallsOK, CommitPhases
<1>4. HeaderOK(hdN, hdBlock)'
  BY DEF Crash, diskVars, HeaderOK
<1>5. HeadersOK' /\ ProgressOK'
  BY DEF Crash, HeadersOK, HeaderOK, ProgressOK, Slots
<1>6. BuffersOK'
  BY DEF Crash, BuffersOK, RecoveryPhases
<1> QED
  BY <1>2, <1>3, <1>4, <1>5, <1>6 DEF Crash

\* BeginSleep keeps the invariant.
LEMMA BeginSleepInvariant ==
  ASSUME LogInvariant, halted = "no", NEW p \in Procs, BeginSleep(p)
  PROVE  LogInvariant'
<1> USE DEF LogInvariant, BeginSleep, diskVars, headVars, cntVars, bufVars, ctlVars
<1>1. InOp' = InOp
  BY DEF InOp, TypeOK
<1>2. TypeOK'
  BY DEF TypeOK
<1>3. CallsOK'
  BY <1>1 DEF CallsOK, TypeOK
<1>4. HeaderOK(hdN, hdBlock)' /\ HeadersOK' /\ ProgressOK'
  BY <1>1 DEF HeadersOK, HeaderOK, ProgressOK
<1>5. \A b : Locked(b)' <=> Locked(b)
  BY DEF Locked, TypeOK
<1>6. BuffersOK'
  BY <1>5 DEF BuffersOK, Logged
<1> QED
  BY <1>2, <1>3, <1>4, <1>6

\* BeginOp keeps the invariant.
LEMMA BeginOpInvariant ==
  ASSUME LogInvariant, halted = "no", NEW p \in Procs, BeginOp(p)
  PROVE  LogInvariant'
<1> USE DEF LogInvariant, BeginOp, diskVars, headVars, bufVars, ctlVars
<1>1. InOp' = InOp \cup {p} /\ p \notin InOp
  BY DEF InOp, TypeOK
<1>2. Cardinality(InOp') = Cardinality(InOp) + 1
  BY <1>1, CountAdd
<1>3. phase = "run"
  BY DEF MustWait, CallsOK, TypeOK, Recovering
<1>4. TypeOK'
  BY DEF TypeOK
<1>5. CallsOK'
  BY <1>2, <1>3 DEF CallsOK, TypeOK
<1>6. HeaderOK(hdN, hdBlock)' /\ HeadersOK' /\ ProgressOK'
  BY <1>1 DEF HeadersOK, HeaderOK, ProgressOK
<1>7. \A b : Locked(b)' <=> Locked(b)
  BY DEF Locked, TypeOK
<1>8. BuffersOK'
  BY <1>7 DEF BuffersOK, Logged
<1> QED
  BY <1>4, <1>5, <1>6, <1>8

\* LogWriteCheck keeps the invariant.
LEMMA LogWriteCheckInvariant ==
  ASSUME LogInvariant, halted = "no", NEW p \in Procs, NEW b \in Blocks,
         NEW v \in Values, LogWriteCheck(p, b, v)
  PROVE  LogInvariant'
<1> USE DEF LogInvariant, LogWriteCheck, diskVars, headVars, cntVars, ctlVars
<1>1. InOp' = InOp /\ p \in InOp
  BY DEF InOp, TypeOK
<1>2. phase = "run" /\ hdN = 0
  BY <1>1 DEF CallsOK, HeadersOK
<1>3. TypeOK'
  <2>1. written' \in [Procs -> SUBSET Blocks]
    BY DEF TypeOK
  <2>2. cache' \in [Blocks -> Values \cup {NotCached}]
    BY DEF TypeOK
  <2>3. pc' \in [Procs -> {"idle", "begin", "sleep", "op", "log_write", "commit"}]
    BY DEF TypeOK
  <2> QED
    BY <2>1, <2>2, <2>3 DEF TypeOK
<1>4. cache'[b] = v /\ v # NotCached
  BY NotCachedIsNoValue DEF TypeOK
<1>5. CallsOK'
  BY <1>1, <1>2, <1>4 DEF CallsOK, TypeOK
<1>6. HeaderOK(hdN, hdBlock)' /\ HeadersOK'
  BY <1>1 DEF HeadersOK, HeaderOK
<1>7. ProgressOK'
  BY <1>2 DEF ProgressOK
<1>8. halted' = "no" => BuffersOK'
  <2> SUFFICES ASSUME halted' = "no" PROVE BuffersOK'
    OBVIOUS
  <2>1. Locked(b)' /\ \A c \in Blocks \ {b} : Locked(c) => Locked(c)'
    BY DEF Locked, TypeOK
  <2>2. \A c \in Blocks \ {b} : cache'[c] = cache[c]
    BY DEF TypeOK
  <2> QED
    BY <1>2, <1>4, <2>1, <2>2 DEF BuffersOK, Logged, RecoveryPhases, TypeOK
<1> QED
  BY <1>1, <1>2, <1>3, <1>5, <1>6, <1>7, <1>8

\* LogWriteAppend keeps the invariant.
LEMMA LogWriteAppendInvariant ==
  ASSUME LogInvariant, halted = "no", NEW p \in Procs, LogWriteAppend(p)
  PROVE  LogInvariant'
<1> USE DEF LogInvariant, LogWriteAppend, diskVars, headVars, cntVars, ctlVars
<1> DEFINE b == wblk[p]
<1>1. InOp' = InOp /\ p \in InOp
  BY DEF InOp, TypeOK
<1>2. phase = "run" /\ hdN = 0
  BY <1>1 DEF CallsOK, HeadersOK
<1>3. b \in Blocks /\ cache[b] # NotCached
  BY DEF CallsOK
<1>4. TypeOK'
  <2>1. lhN' \in 0 .. LOGSIZE
    <3>1. lhN' = lhN \/ (lhN \in Slots /\ lhN' = lhN + 1)
      OBVIOUS
    <3>2. lhN \in 0 .. LOGSIZE
      BY DEF TypeOK
    <3> HIDE DEF LogInvariant, LogWriteAppend
    <3> QED
      BY <3>1, <3>2, LogSizes DEF Slots
  <2>2. lhBlock' \in [Slots -> Blocks \cup {NoBlock}]
    BY <1>3 DEF TypeOK
  <2>3. dirty' \subseteq Blocks
    BY <1>3 DEF TypeOK
  <2>4. pc' \in [Procs -> {"idle", "begin", "sleep", "op", "log_write", "commit"}]
    BY DEF TypeOK
  <2> QED
    BY <2>1, <2>2, <2>3, <2>4 DEF TypeOK
<1>5. CallsOK'
  BY <1>1, <1>2 DEF CallsOK, TypeOK
<1>6. HeaderOK(hdN, hdBlock)'
  BY DEF HeaderOK
<1>7. ASSUME halted' = "no" PROVE HeadersOK' /\ ProgressOK' /\ BuffersOK'
  <2>1. \A c \in Blocks : Logged(lhN, lhBlock, c)' <=> Logged(lhN, lhBlock, c) \/ c = b
    <3>1. CASE Logged(lhN, lhBlock, b)
      BY <3>1 DEF Logged
    <3>2. CASE ~Logged(lhN, lhBlock, b)
      <4>1. lhN \in Slots /\ lhN' = lhN + 1 /\ lhBlock' = [lhBlock EXCEPT ![lhN] = b]
        BY <3>2, <1>7
      <4>2. \A i \in Slots : i < lhN' <=> i < lhN \/ i = lhN
        BY <4>1 DEF Slots
      <4>3. lhBlock'[lhN] = b /\ \A i \in Slots : i # lhN => lhBlock'[i] = lhBlock[i]
        BY <4>1 DEF TypeOK
      <4> QED
        BY <4>1, <4>2, <4>3 DEF Logged, Slots
    <3> QED
      BY <3>1, <3>2
  <2>2. HeaderOK(lhN, lhBlock)'
    <3>1. CASE Logged(lhN, lhBlock, b)
      BY <3>1 DEF HeadersOK, HeaderOK
    <3>2. CASE ~Logged(lhN, lhBlock, b)
      BY <3>2, <1>3, <1>7, HeaderAppend DEF HeadersOK, TypeOK
    <3> QED
      BY <3>1, <3>2
  <2>3. HeadersOK'
    BY <1>1, <1>2, <2>2 DEF HeadersOK
  <2>4. ProgressOK'
    BY <1>2 DEF ProgressOK
  <2>5. \A c : c # b => (Locked(c) => Locked(c)')
    BY DEF Locked, TypeOK
  <2>6. BuffersOK'
    BY <1>2, <1>3, <2>1, <2>5 DEF BuffersOK, RecoveryPhases, TypeOK
  <2> QED
    BY <2>3, <2>4, <2>6
<1> QED
  BY <1>1, <1>2, <1>4, <1>5, <1>6, <1>7

\* EndOp keeps the invariant.
LEMMA EndOpInvariant ==
  ASSUME LogInvariant, halted = "no", NEW p \in Procs, EndOp(p)
  PROVE  LogInvariant'
<1> USE DEF LogInvariant, EndOp, diskVars, headVars, bufVars, ctlVars
<1>1. p \in InOp /\ phase = "run" /\ ~committing /\ hdN = 0
  BY DEF InOp, CallsOK, HeadersOK, CommitPhases
<1>2. InOp' = InOp \ {p}
  BY <1>1 DEF InOp, Woken, TypeOK
<1>3. /\ outstanding' = Cardinality(InOp') /\ outstanding' \in Nat
      /\ outstanding' = 0 <=> InOp' = {}
  BY <1>1, <1>2, CountRemove DEF CallsOK
<1>4. TypeOK'
  <2>1. pc' \in [Procs -> {"idle", "begin", "sleep", "op", "log_write", "commit"}]
    BY <1>1 DEF TypeOK, Woken
  <2>2. 0 \in 0 .. LOGSIZE
    BY LogSizes
  <2> QED
    BY <1>1, <1>3, <2>1, <2>2 DEF TypeOK, CommitPhases
<1>5. CallsOK'
  <2>1. \A q \in Procs : pc'[q] = "log_write" => pc[q] = "log_write"
    BY <1>1 DEF TypeOK, Woken
  <2> QED
    BY <1>1, <1>3, <2>1 DEF CallsOK, CommitPhases
<1>6. HeaderOK(hdN, hdBlock)' /\ HeadersOK' /\ ProgressOK'
  BY <1>1, <1>3 DEF HeadersOK, HeaderOK, ProgressOK, TypeOK, Slots
<1>7. \A b : Locked(b)' <=> Locked(b)
  <2>1. \A q \in Procs : pc'[q] = "log_write" <=> pc[q] = "log_write"
    BY <1>1 DEF TypeOK, Woken
  <2> QED
    BY <2>1 DEF Locked
<1>8. BuffersOK'
  <2>1. phase' = "done" => lhN = 0
    BY <1>1 DEF TypeOK
  <2>2. phase' = "done" => dirty = {}
    BY <1>1, <2>1 DEF BuffersOK, Logged, Slots, TypeOK
  <2>3. phase' \in {"run", "write_log", "done"}
    BY <1>1
  <2> QED
    BY <1>1, <1>7, <2>2, <2>3 DEF BuffersOK, Logged, RecoveryPhases
<1> QED
  BY <1>1, <1>4, <1>5, <1>6, <1>8

\* WriteLog keeps the invariant.
LEMMA WriteLogInvariant ==
  ASSUME LogInvariant, halted = "no", WriteLog
  PROVE  LogInvariant'
<1> USE DEF LogInvariant, WriteLog, headVars, cntVars, bufVars, procVars
<1>1. InOp' = InOp /\ \A b : Locked(b)' <=> Locked(b)
  BY DEF InOp, Locked
<1>2. tail \in Slots /\ lhBlock[tail] \in dirty /\ cache[lhBlock[tail]] \in Values
  <2>1. tail \in Slots /\ lhBlock[tail] \in Blocks
    <3>1. tail \in Slots
      BY LogSizes DEF TypeOK, Slots
    <3> QED
      BY <3>1 DEF HeadersOK, HeaderOK
  <2>2. lhBlock[tail] \in dirty
    BY <2>1 DEF BuffersOK, Logged
  <2> QED
    BY <2>1, <2>2 DEF BuffersOK, TypeOK
<1>3. TypeOK'
  <2>1. logData' \in [Slots -> Values]
    BY <1>2 DEF TypeOK
  <2>2. tail' \in 0 .. LOGSIZE
    BY LogSizes DEF TypeOK
  <2> QED
    BY <2>1, <2>2 DEF TypeOK, CommitPhases
<1>4. CallsOK'
  BY <1>1 DEF CallsOK, CommitPhases
<1>5. HeaderOK(hdN, hdBlock)' /\ HeadersOK'
  BY DEF HeadersOK, HeaderOK
<1>6. ProgressOK'
  BY <1>2 DEF ProgressOK, TypeOK, Slots
<1>7. BuffersOK'
  BY <1>1 DEF BuffersOK, Logged, RecoveryPhases
<1> QED
  BY <1>3, <1>4, <1>5, <1>6, <1>7

\* WriteHead keeps the invariant.
LEMMA WriteHeadInvariant ==
  ASSUME LogInvariant, halted = "no", WriteHead
  PROVE  LogInvariant'
<1> USE DEF LogInvariant, WriteHead, HeaderWritten, headVars, cntVars, bufVars, procVars
<1>1. InOp' = InOp /\ \A b : Locked(b)' <=> Locked(b)
  BY DEF InOp, Locked
<1>2. TypeOK'
  <2>1. hdBlock' \in [Slots -> Blocks \cup {NoBlock}]
    BY DEF TypeOK
  <2>2. hdN' \in 0 .. LOGSIZE /\ tail' \in 0 .. LOGSIZE
    BY LogSizes DEF TypeOK
  <2> QED
    BY <2>1, <2>2 DEF TypeOK, CommitPhases
<1>3. CallsOK'
  BY <1>1 DEF CallsOK, CommitPhases
<1>4. \A i \in Slots : i < lhN => hdBlock'[i] = lhBlock[i]
  OBVIOUS
<1>5. HeaderOK(hdN, hdBlock)' /\ HeadersOK'
  BY <1>4 DEF HeadersOK, HeaderOK
<1>6. ProgressOK'
  BY DEF ProgressOK, TypeOK, Slots
<1>7. BuffersOK'
  BY <1>1 DEF BuffersOK, Logged, RecoveryPhases, TypeOK, Slots
<1> QED
  BY <1>2, <1>3, <1>5, <1>6, <1>7

\* Install keeps the invariant.
LEMMA InstallInvariant ==
  ASSUME LogInvariant, halted = "no", Install
  PROVE  LogInvariant'
<1> USE DEF LogInvariant, Install, InstallBlock, headVars, cntVars, procVars
<1> DEFINE b == lhBlock[tail]
<1>1. InOp' = InOp /\ InOp = {} /\ \A c : ~Locked(c)'
  BY DEF InOp, Locked, CallsOK
<1>2. tail \in Slots /\ b \in Blocks /\ logData[tail] \in Values
  <2>1. tail \in Slots
    BY LogSizes DEF TypeOK, Slots, ProgressOK
  <2> QED
    BY <2>1 DEF TypeOK, HeadersOK, HeaderOK
<1>3. TypeOK'
  <2>1. tail' \in 0 .. LOGSIZE
    BY <1>2, LogSizes DEF Slots
  <2>2. home' \in [Blocks -> Values]
    BY <1>2 DEF TypeOK
  <2>3. cache' \in [Blocks -> Values \cup {NotCached}]
    BY <1>2 DEF TypeOK
  <2> QED
    BY <2>1, <2>2, <2>3 DEF TypeOK, CommitPhases
<1>4. CallsOK'
  BY <1>1 DEF CallsOK, CommitPhases, InOp
<1>5. HeaderOK(hdN, hdBlock)' /\ HeadersOK'
  BY DEF HeadersOK, HeaderOK
<1>6. \A i \in Slots : i < lhN /\ i # tail => lhBlock[i] # b
  BY <1>2 DEF HeadersOK, HeaderOK
<1>7. /\ home'[b] = logData[tail] /\ cache'[b] = logData[tail]
      /\ \A c \in Blocks \ {b} : home'[c] = home[c] /\ cache'[c] = cache[c]
  BY <1>2 DEF TypeOK
<1>8. ProgressOK'
  <2>1. \A i \in Slots : i < lhN => lhBlock[i] \in Blocks
    BY DEF HeadersOK, HeaderOK
  <2> QED
    BY <1>2, <1>6, <1>7, <2>1 DEF ProgressOK, TypeOK, Slots
<1>9. BuffersOK'
  <2>1. \A c \in Blocks \ dirty' : cache'[c] \in {NotCached, home'[c]}
    BY <1>1, <1>2, <1>7 DEF BuffersOK, Locked, InOp
  <2>2. \A c \in dirty' : cache'[c] # NotCached
    BY <1>2, <1>7 DEF BuffersOK, TypeOK
  <2>3. \A c \in Blocks : c \in dirty' <=>
          \E i \in Slots : tail' <= i /\ i < lhN /\ lhBlock[i] = c
    BY <1>2, <1>6 DEF BuffersOK, TypeOK, Slots
  <2>4. phase' = "clear_head" => dirty' = {}
    BY <2>3, <1>2 DEF TypeOK, Slots
  <2> QED
    BY <2>1, <2>2, <2>3, <2>4 DEF BuffersOK, RecoveryPhases
<1> QED
  BY <1>3, <1>4, <1>5, <1>8, <1>9

\* ClearHead keeps the invariant.
LEMMA ClearHeadInvariant ==
  ASSUME LogInvariant, halted = "no", ClearHead
  PROVE  LogInvariant'
<1> USE DEF LogInvariant, ClearHead, HeaderCleared, cntVars, bufVars, procVars
<1>1. InOp' = InOp /\ \A b : Locked(b)' <=> Locked(b)
  BY DEF InOp, Locked
<1>2. TypeOK'
  BY LogSizes DEF TypeOK, CommitPhases
<1>3. CallsOK'
  BY <1>1 DEF CallsOK, CommitPhases
<1>4. HeaderOK(hdN, hdBlock)' /\ HeadersOK' /\ ProgressOK'
  BY DEF HeadersOK, HeaderOK, ProgressOK, Slots
<1>5. BuffersOK'
  BY <1>1 DEF BuffersOK, RecoveryPhases
<1> QED
  BY <1>2, <1>3, <1>4, <1>5

\* CommitDone keeps the invariant.
LEMMA CommitDoneInvariant ==
  ASSUME LogInvariant, halted = "no", NEW p \in Procs, CommitDone(p)
  PROVE  LogInvariant'
<1> USE DEF LogInvariant, CommitDone, diskVars, headVars, bufVars
<1>1. InOp' = InOp /\ InOp = {} /\ \A b : ~Locked(b)' /\ ~Locked(b)
  BY DEF InOp, Locked, CallsOK, TypeOK, Woken
<1>2. TypeOK'
  <2>1. pc' \in [Procs -> {"idle", "begin", "sleep", "op", "log_write", "commit"}]
    BY DEF TypeOK, Woken
  <2> QED
    BY <2>1 DEF TypeOK
<1>3. CallsOK'
  BY <1>1 DEF CallsOK, CommitPhases, InOp
<1>4. HeaderOK(hdN, hdBlock)' /\ HeadersOK' /\ ProgressOK'
  BY DEF HeadersOK, HeaderOK, ProgressOK
<1>5. BuffersOK'
  BY <1>1 DEF BuffersOK, Logged, HeadersOK, RecoveryPhases, Slots
<1> QED
  BY <1>2, <1>3, <1>4, <1>5

\* RecoverHead keeps the invariant.
LEMMA RecoverHeadInvariant ==
  ASSUME LogInvariant, halted = "no", RecoverHead
  PROVE  LogInvariant'
<1> USE DEF LogInvariant, RecoverHead, diskVars, cntVars, bufVars, procVars
<1>1. InOp' = InOp /\ \A b : Locked(b)' <=> Locked(b)
  BY DEF InOp, Locked
<1>2. TypeOK'
  BY LogSizes DEF TypeOK, RecoveryPhases
<1>3. CallsOK'
  BY <1>1 DEF CallsOK, CommitPhases
<1>4. HeaderOK(hdN, hdBlock)' /\ HeadersOK'
  BY DEF HeadersOK, HeaderOK
<1>5. ProgressOK'
  BY DEF ProgressOK, TypeOK, Slots
<1>6. BuffersOK'
  BY <1>1 DEF BuffersOK, RecoveryPhases
<1> QED
  BY <1>2, <1>3, <1>4, <1>5, <1>6

\* RecoverInstall keeps the invariant.
LEMMA RecoverInstallInvariant ==
  ASSUME LogInvariant, halted = "no", RecoverInstall
  PROVE  LogInvariant'
<1> USE DEF LogInvariant, RecoverInstall, InstallBlock, headVars, cntVars, procVars
<1> DEFINE b == lhBlock[tail]
<1>1. InOp' = InOp /\ InOp = {} /\ \A c : ~Locked(c)' /\ ~Locked(c)
  BY DEF InOp, Locked, CallsOK
<1>2. tail \in Slots /\ b \in Blocks /\ logData[tail] \in Values
  <2>1. tail \in Slots
    BY LogSizes DEF TypeOK, Slots, ProgressOK
  <2> QED
    BY <2>1 DEF TypeOK, HeadersOK, HeaderOK
<1>3. TypeOK'
  <2>1. tail' \in 0 .. LOGSIZE
    BY <1>2, LogSizes DEF Slots
  <2>2. home' \in [Blocks -> Values]
    BY <1>2 DEF TypeOK
  <2>3. cache' \in [Blocks -> Values \cup {NotCached}]
    BY <1>2 DEF TypeOK
  <2> QED
    BY <2>1, <2>2, <2>3 DEF TypeOK, RecoveryPhases
<1>4. CallsOK'
  BY <1>1 DEF CallsOK, CommitPhases, InOp
<1>5. HeaderOK(hdN, hdBlock)' /\ HeadersOK'
  BY DEF HeadersOK, HeaderOK
<1>6. \A i \in Slots : i < lhN /\ i # tail => lhBlock[i] # b
  BY <1>2 DEF HeadersOK, HeaderOK
<1>7. /\ home'[b] = logData[tail] /\ cache'[b] = logData[tail]
      /\ \A c \in Blocks \ {b} : home'[c] = home[c] /\ cache'[c] = cache[c]
  BY <1>2 DEF TypeOK
<1>8. ProgressOK'
  <2>1. \A i \in Slots : i < lhN => lhBlock[i] \in Blocks
    BY DEF HeadersOK, HeaderOK
  <2> QED
    BY <1>2, <1>6, <1>7, <2>1 DEF ProgressOK, TypeOK, Slots
<1>9. BuffersOK'
  BY <1>1, <1>2, <1>7 DEF BuffersOK, RecoveryPhases
<1> QED
  BY <1>3, <1>4, <1>5, <1>8, <1>9

\* RecoverClear keeps the invariant.
LEMMA RecoverClearInvariant ==
  ASSUME LogInvariant, halted = "no", RecoverClear
  PROVE  LogInvariant'
<1> USE DEF LogInvariant, RecoverClear, HeaderCleared, cntVars, bufVars, procVars
<1>1. InOp' = InOp /\ \A b : Locked(b)' <=> Locked(b)
  BY DEF InOp, Locked
<1>2. TypeOK'
  BY LogSizes DEF TypeOK
<1>3. CallsOK'
  BY <1>1 DEF CallsOK, CommitPhases
<1>4. HeaderOK(hdN, hdBlock)' /\ HeadersOK' /\ ProgressOK'
  BY DEF HeadersOK, HeaderOK, ProgressOK, Slots
<1>5. BuffersOK'
  BY <1>1 DEF BuffersOK, Logged, RecoveryPhases, Slots
<1> QED
  BY <1>2, <1>3, <1>4, <1>5

\* Load keeps the invariant.
LEMMA LoadInvariant ==
  ASSUME LogInvariant, halted = "no", NEW b \in Blocks, Load(b)
  PROVE  LogInvariant'
<1> USE DEF LogInvariant, Load, diskVars, headVars, cntVars, procVars, ctlVars
<1>1. InOp' = InOp /\ \A c : Locked(c)' <=> Locked(c)
  BY DEF InOp, Locked
<1>2. TypeOK'
  BY DEF TypeOK
<1>3. b \notin dirty /\ home[b] # NotCached
  BY NotCachedIsNoValue DEF BuffersOK, TypeOK
<1>4. cache'[b] = home[b] /\ \A c \in Blocks \ {b} : cache'[c] = cache[c]
  BY DEF TypeOK
<1>5. CallsOK'
  BY <1>1, <1>3, <1>4 DEF CallsOK
<1>6. HeaderOK(hdN, hdBlock)' /\ HeadersOK'
  BY <1>1 DEF HeadersOK, HeaderOK
<1>7. ProgressOK'
  <2>1. \A i \in Slots : i < lhN => lhBlock[i] \in Blocks
    BY DEF HeadersOK, HeaderOK
  <2>2. \A i \in Slots : i < lhN /\ logData[i] = cache[lhBlock[i]] => lhBlock[i] # b
    BY NotCachedIsNoValue DEF TypeOK
  <2> QED
    BY <1>4, <2>1, <2>2 DEF ProgressOK
<1>8. BuffersOK'
  BY <1>1, <1>3, <1>4 DEF BuffersOK, Logged, TypeOK
<1> QED
  BY <1>2, <1>5, <1>6, <1>7, <1>8

\* Evict keeps the invariant.
LEMMA EvictInvariant ==
  ASSUME LogInvariant, halted = "no", NEW b \in Blocks, Evict(b)
  PROVE  LogInvariant'
<1> USE DEF LogInvariant, Evict, diskVars, headVars, cntVars, procVars, ctlVars
<1>1. InOp' = InOp /\ \A c : Locked(c)' <=> Locked(c)
  BY DEF InOp, Locked
<1>2. TypeOK'
  BY DEF TypeOK
<1>3. cache'[b] = NotCached /\ \A c \in Blocks \ {b} : cache'[c] = cache[c]
  BY DEF TypeOK
<1>4. CallsOK'
  BY <1>1, <1>3 DEF CallsOK, Locked
<1>5. HeaderOK(hdN, hdBlock)' /\ HeadersOK'
  BY <1>1 DEF HeadersOK, HeaderOK
<1>6. ProgressOK'
  <2>1. \A i \in Slots : i < lhN => lhBlock[i] \in Blocks
    BY DEF HeadersOK, HeaderOK
  <2>2. \A i \in Slots :
          i < lhN /\ (phase \in {"write_log", "write_head"} \/ (phase = "install" /\ i >= tail))
            => lhBlock[i] # b
    BY <2>1 DEF BuffersOK, Logged
  <2> QED
    BY <1>3, <2>1, <2>2 DEF ProgressOK
<1>7. BuffersOK'
  BY <1>1, <1>3 DEF BuffersOK, Logged, TypeOK
<1> QED
  BY <1>2, <1>4, <1>5, <1>6, <1>7

\* Stutter keeps the invariant.
LEMMA StutterInvariant == LogInvariant /\ UNCHANGED vars => LogInvariant'
<1> SUFFICES ASSUME LogInvariant, UNCHANGED vars PROVE LogInvariant'
  OBVIOUS
<1> USE DEF LogInvariant, vars, diskVars, headVars, cntVars, bufVars, procVars, ctlVars
<1>1. InOp' = InOp /\ \A b : Locked(b)' <=> Locked(b)
  BY DEF InOp, Locked
<1>2. TypeOK' /\ CallsOK'
  BY <1>1 DEF TypeOK, CallsOK
<1>3. HeaderOK(hdN, hdBlock)' /\ (HeadersOK => HeadersOK') /\ (ProgressOK => ProgressOK')
  BY <1>1 DEF HeadersOK, HeaderOK, ProgressOK
<1>4. BuffersOK => BuffersOK'
  BY <1>1 DEF BuffersOK, Logged
<1> QED
  BY <1>1, <1>2, <1>3, <1>4

\* Every step keeps the invariant.
LEMMA NextInvariant == LogInvariant /\ [Next]_vars => LogInvariant'
<1> SUFFICES ASSUME LogInvariant, [Next]_vars PROVE LogInvariant'
  OBVIOUS
<1>1. CASE UNCHANGED vars
  BY <1>1, StutterInvariant
<1>2. CASE Crash
  BY <1>2, CrashInvariant
<1>3. CASE Next /\ ~Crash
  <2>0. halted = "no"
    BY <1>3 DEF Next, Commit, Recover, BeginSleep, BeginOp, LogWriteAppend, EndOp,
       CommitDone, LogWriteCheck, WriteLog, WriteHead, Install, ClearHead,
       RecoverHead, RecoverInstall, RecoverClear, Load, Evict
  <2>1. ASSUME NEW p \in Procs, BeginSleep(p) PROVE LogInvariant'
    BY <2>0, <2>1, BeginSleepInvariant
  <2>2. ASSUME NEW p \in Procs, BeginOp(p) PROVE LogInvariant'
    BY <2>0, <2>2, BeginOpInvariant
  <2>3. ASSUME NEW p \in Procs, LogWriteAppend(p) PROVE LogInvariant'
    BY <2>0, <2>3, LogWriteAppendInvariant
  <2>4. ASSUME NEW p \in Procs, EndOp(p) PROVE LogInvariant'
    BY <2>0, <2>4, EndOpInvariant
  <2>5. ASSUME NEW p \in Procs, CommitDone(p) PROVE LogInvariant'
    BY <2>0, <2>5, CommitDoneInvariant
  <2>6. ASSUME NEW p \in Procs, NEW b \in Blocks, NEW v \in Values, LogWriteCheck(p, b, v)
        PROVE  LogInvariant'
    BY <2>0, <2>6, LogWriteCheckInvariant
  <2>7. ASSUME Commit PROVE LogInvariant'
    BY <2>0, <2>7, WriteLogInvariant, WriteHeadInvariant, InstallInvariant,
       ClearHeadInvariant DEF Commit
  <2>8. ASSUME Recover PROVE LogInvariant'
    BY <2>0, <2>8, RecoverHeadInvariant, RecoverInstallInvariant,
       RecoverClearInvariant DEF Recover
  <2>9. ASSUME NEW b \in Blocks, Load(b) \/ Evict(b) PROVE LogInvariant'
    BY <2>0, <2>9, LoadInvariant, EvictInvariant
  <2> QED
    BY <1>3, <2>0, <2>1, <2>2, <2>3, <2>4, <2>5, <2>6, <2>7, <2>8, <2>9 DEF Next
<1> QED
  BY <1>1, <1>2, <1>3

-----------------------------------------------------------------------------
\* The inductive invariant holds in every behaviour of the logging layer.
THEOREM LogInvariance == Spec => []LogInvariant
<1>1. Init => LogInvariant
  BY InitInvariant
<1>2. LogInvariant /\ [Next]_vars => LogInvariant'
  BY NextInvariant
<1> QED
  BY <1>1, <1>2, PTL DEF Spec

\* Every variable keeps its type: no index, count or pointer of the log leaves
\* the range its C declaration allows.
THEOREM LogTypes == Spec => []TypeOK
<1>1. LogInvariant => TypeOK
  BY DEF LogInvariant
<1> QED
  BY <1>1, LogInvariance, PTL

\* A commit never runs beside a call, and log.outstanding counts the calls.
THEOREM LogCommitsAlone == Spec => []CommitExcludesCalls
<1>1. LogInvariant => CommitExcludesCalls
  BY DEF LogInvariant, CallsOK, CommitExcludesCalls, CommitPhases
<1> QED
  BY <1>1, LogInvariance, PTL

\* While the kernel runs, the cache keeps the only copy of a logged block until
\* the log has installed it.
THEOREM LogPins == Spec => [](NoPanic => PinnedUntilInstalled)
<1>1. ASSUME LogInvariant, NoPanic PROVE PinnedUntilInstalled
  <2> SUFFICES ASSUME ~Recovering PROVE PinnedUntilInstalled
    BY DEF PinnedUntilInstalled
  <2>1. HeadersOK /\ BuffersOK /\ TypeOK
    BY <1>1 DEF LogInvariant, NoPanic
  <2>2. ASSUME NEW i \in Slots, i < lhN, phase = "install" => i >= tail,
               phase # "clear_head"
        PROVE  lhBlock[i] \in dirty /\ cache[lhBlock[i]] # NotCached
    <3>1. lhBlock[i] \in Blocks
      BY <2>1, <2>2 DEF HeadersOK, HeaderOK
    <3>2. phase # "done"
      BY <2>1, <2>2, LogSizes DEF HeadersOK, Slots
    <3>3. lhBlock[i] \in dirty
      BY <2>1, <2>2, <3>1, <3>2 DEF BuffersOK, Logged, TypeOK, Slots, Recovering, CommitPhases
    <3> QED
      BY <2>1, <3>3 DEF BuffersOK
  <2> QED
    BY <2>1, <2>2 DEF BuffersOK, PinnedUntilInstalled
<1> QED
  BY <1>1, LogInvariance, PTL

-----------------------------------------------------------------------------
(* The refinement: what a crash would leave, seen entry by entry.          *)

\* Both are functions of the blocks.
LEMMA DurableIsFunction ==
  /\ Durable = [b \in Blocks |-> Durable[b]]
  /\ View = [b \in Blocks |-> View[b]]
BY DEF Durable, View

\* A logged block has the content of its slot in the log after a crash.
LEMMA DurableLogged ==
  ASSUME HeaderOK(hdN, hdBlock), NEW i \in Slots, i < hdN
  PROVE  Durable[hdBlock[i]] = logData[i]
<1>1. hdBlock[i] \in Blocks /\ Logged(hdN, hdBlock, hdBlock[i])
  BY DEF HeaderOK, Logged
<1>2. SlotOf(hdN, hdBlock, hdBlock[i]) = i
  BY DEF HeaderOK, SlotOf
<1> QED
  BY <1>1, <1>2 DEF Durable

\* A block that is not logged has its content at home after a crash.
LEMMA DurableNotLogged ==
  ASSUME NEW b \in Blocks, ~Logged(hdN, hdBlock, b)
  PROVE  Durable[b] = home[b]
BY DEF Durable

\* With an empty header on disk, the home blocks are all there is.
LEMMA DurableEmpty ==
  ASSUME hdN = 0
  PROVE  \A b \in Blocks : Durable[b] = home[b]
<1>1. \A b : ~Logged(hdN, hdBlock, b)
  BY LogSizes DEF Logged, Slots
<1> QED
  BY <1>1, DurableNotLogged

\* A step that keeps the disk keeps what is durable.
LEMMA DurableSame == UNCHANGED diskVars => Durable' = Durable
BY DEF diskVars, Durable, Logged, SlotOf

\* A step that keeps the disk, the buffers and recovery keeps the view.
LEMMA ViewSame ==
  UNCHANGED <<diskVars, cache>> /\ (Recovering <=> Recovering') => View' = View
<1> SUFFICES ASSUME UNCHANGED <<diskVars, cache>>, Recovering <=> Recovering'
             PROVE  View' = View
  OBVIOUS
<1>1. Durable' = Durable /\ home' = home /\ cache' = cache
  BY DurableSame DEF diskVars
<1> QED
  BY <1>1 DEF View

\* Installing a block of the committed transaction changes nothing durable.
LEMMA DurableInstall ==
  ASSUME LogInvariant, halted = "no", InstallBlock, phase \in {"install", "rec_install"},
         UNCHANGED <<logData, hdN, hdBlock>>
  PROVE  Durable' = Durable
<1>1. tail \in Slots /\ tail < lhN /\ hdN = lhN /\ hdBlock[tail] = lhBlock[tail]
  <2>1. tail < lhN /\ tail \in 0 .. LOGSIZE /\ lhN \in 0 .. LOGSIZE
    BY DEF LogInvariant, ProgressOK, TypeOK
  <2>2. tail \in Slots
    BY <2>1, LogSizes DEF Slots
  <2> QED
    BY <2>1, <2>2 DEF LogInvariant, HeadersOK
<1>2. Logged(hdN, hdBlock, lhBlock[tail])
  BY <1>1 DEF Logged
<1>3. \A b \in Blocks : b # lhBlock[tail] => home'[b] = home[b]
  BY DEF InstallBlock, LogInvariant, TypeOK
<1>4. \A b \in Blocks : ~Logged(hdN, hdBlock, b) => home'[b] = home[b]
  BY <1>2, <1>3
<1> QED
  BY <1>4 DEF Durable, Logged, SlotOf

\* A buffer that is not pinned and not being modified shows the home block.
LEMMA ViewClean ==
  ASSUME LogInvariant, halted = "no", ~Recovering, NEW b \in Blocks \ dirty, ~Locked(b)
  PROVE  View[b] = home[b]
BY DEF LogInvariant, BuffersOK, View

\* The first states are first states of the atomic disk.
LEMMA RefineInit == Init => AD!ADInit
<1> SUFFICES ASSUME Init PROVE AD!ADInit
  OBVIOUS
<1>1. home \in [Blocks -> Values] /\ hdN = 0 /\ InOp = {}
  BY DEF Init, InOp
<1>2. Durable = home
  BY <1>1, DurableEmpty, DurableIsFunction
<1>3. View = Durable
  BY DEF Init, View, Recovering, RecoveryPhases
<1> QED
  BY <1>1, <1>2, <1>3 DEF AD!ADInit

\* The header write is the commit: it makes the whole view durable.
LEMMA RefineWriteHead == LogInvariant /\ halted = "no" /\ WriteHead => AD!ADCommit
<1> SUFFICES ASSUME LogInvariant, halted = "no", WriteHead PROVE AD!ADCommit
  OBVIOUS
<1>1. InOp = {} /\ InOp' = InOp /\ \A b : ~Locked(b)
  BY DEF LogInvariant, CallsOK, WriteHead, procVars, InOp, Locked
<1>2. ~Recovering /\ ~Recovering' /\ UNCHANGED <<home, cache, logData>>
  BY DEF WriteHead, Recovering, RecoveryPhases, bufVars
<1>3. View' = View
  BY <1>2 DEF View
<1>4. hdN' = lhN /\ \A i \in Slots : i < lhN => hdBlock'[i] = lhBlock[i]
  BY DEF WriteHead, HeaderWritten
<1>5. \A b : Logged(hdN', hdBlock', b) <=> Logged(lhN, lhBlock, b)
  BY <1>4 DEF Logged
<1>6. ASSUME NEW b \in Blocks, Logged(lhN, lhBlock, b) PROVE Durable'[b] = View[b]
  <2>1. PICK i \in Slots : i < lhN /\ lhBlock[i] = b
    BY <1>6 DEF Logged
  <2>2. SlotOf(hdN', hdBlock', b) = i
    BY <1>4, <2>1 DEF SlotOf, LogInvariant, HeadersOK, HeaderOK
  <2>3. Durable'[b] = logData[i]
    BY <1>2, <1>5, <1>6, <2>2 DEF Durable
  <2>4. logData[i] = cache[b] /\ cache[b] # NotCached
    BY <2>1, NotCachedIsNoValue DEF WriteHead, LogInvariant, ProgressOK, TypeOK
  <2> QED
    BY <1>2, <2>3, <2>4 DEF View
<1>7. ASSUME NEW b \in Blocks, ~Logged(lhN, lhBlock, b) PROVE Durable'[b] = View[b]
  <2>1. Durable'[b] = home[b]
    BY <1>2, <1>5, <1>7 DEF Durable
  <2>2. b \notin dirty
    BY <1>7 DEF WriteHead, LogInvariant, BuffersOK
  <2> QED
    BY <1>1, <1>2, <2>1, <2>2, ViewClean
<1>8. Durable' = View
  <2>1. \A b \in Blocks : Durable'[b] = View[b]
    BY <1>6, <1>7
  <2> QED
    BY <2>1 DEF Durable, View
<1> QED
  BY <1>1, <1>3, <1>8 DEF AD!ADCommit

\* The steps of WriteLog, on the atomic disk.
LEMMA RefineWriteLog == LogInvariant /\ halted = "no" /\ WriteLog => UNCHANGED AD!dvars
<1> SUFFICES ASSUME LogInvariant, halted = "no", WriteLog PROVE UNCHANGED AD!dvars
  OBVIOUS
<1>1. hdN = 0 /\ hdN' = 0 /\ UNCHANGED <<home, cache>> /\ InOp' = InOp
  BY DEF WriteLog, LogInvariant, HeadersOK, bufVars, procVars, InOp
<1>2. ~Recovering /\ ~Recovering'
  BY DEF WriteLog, Recovering, RecoveryPhases
<1>3. \A b : ~Logged(hdN, hdBlock, b) /\ ~Logged(hdN', hdBlock', b)
  BY <1>1, LogSizes DEF Logged, Slots
<1>4. Durable' = Durable /\ View' = View
  BY <1>1, <1>2, <1>3 DEF Durable, View
<1> QED
  BY <1>1, <1>4 DEF AD!dvars

\* The steps of Install, on the atomic disk.
LEMMA RefineInstall == LogInvariant /\ halted = "no" /\ Install => UNCHANGED AD!dvars
<1> SUFFICES ASSUME LogInvariant, halted = "no", Install PROVE UNCHANGED AD!dvars
  OBVIOUS
<1> DEFINE c == lhBlock[tail]
<1>1. Durable' = Durable /\ InOp' = InOp
  BY DurableInstall DEF Install, procVars, InOp
<1>2. ~Recovering /\ ~Recovering'
  BY DEF Install, Recovering, RecoveryPhases
<1>3. tail \in Slots /\ c \in Blocks /\ cache[c] = logData[tail] /\ cache[c] # NotCached
  <2>1. tail \in 0 .. LOGSIZE /\ lhN \in 0 .. LOGSIZE /\ tail < lhN
    BY DEF Install, LogInvariant, TypeOK
  <2>2. tail \in Slots
    BY <2>1, LogSizes DEF Slots
  <2> QED
    BY <2>1, <2>2, NotCachedIsNoValue
    DEF Install, LogInvariant, TypeOK, HeadersOK, HeaderOK, ProgressOK
<1>4. cache' = cache /\ \A b \in Blocks \ {c} : home'[b] = home[b]
  BY <1>3 DEF Install, InstallBlock, LogInvariant, TypeOK
<1>5. View' = View
  BY <1>2, <1>3, <1>4 DEF View
<1> QED
  BY <1>1, <1>5 DEF AD!dvars

\* The steps of ClearHead, on the atomic disk.
LEMMA RefineClearHead == LogInvariant /\ halted = "no" /\ ClearHead => UNCHANGED AD!dvars
<1> SUFFICES ASSUME LogInvariant, halted = "no", ClearHead PROVE UNCHANGED AD!dvars
  OBVIOUS
<1>1. InOp' = InOp /\ ~Recovering /\ ~Recovering'
  BY DEF ClearHead, procVars, InOp, Recovering, RecoveryPhases
<1>2. View' = View
  BY <1>1 DEF ClearHead, View, bufVars
<1>3. \A b \in Blocks : Durable[b] = home[b]
  <2> SUFFICES ASSUME NEW b \in Blocks PROVE Durable[b] = home[b]
    OBVIOUS
  <2>1. ASSUME NEW i \in Slots, i < hdN, hdBlock[i] = b PROVE Durable[b] = home[b]
    BY <2>1, DurableLogged DEF ClearHead, LogInvariant, HeadersOK, ProgressOK
  <2>2. CASE ~Logged(hdN, hdBlock, b)
    BY <2>2, DurableNotLogged
  <2> QED
    BY <2>1, <2>2 DEF Logged
<1>4. \A b \in Blocks : Durable'[b] = home[b]
  BY LogSizes DEF ClearHead, HeaderCleared, Durable, Logged, Slots
<1>5. Durable' = Durable
  BY <1>3, <1>4 DEF Durable
<1> QED
  BY <1>1, <1>2, <1>5 DEF AD!dvars

\* The steps of Recover, on the atomic disk.
LEMMA RefineRecover == LogInvariant /\ halted = "no" /\ Recover => UNCHANGED AD!dvars
<1> SUFFICES ASSUME LogInvariant, halted = "no", Recover PROVE UNCHANGED AD!dvars
  OBVIOUS
<1>1. InOp' = InOp /\ Recovering
  BY DEF Recover, RecoverHead, RecoverInstall, RecoverClear, procVars, InOp,
         Recovering, RecoveryPhases
<1>2. CASE RecoverHead
  <2>1. Durable' = Durable /\ Recovering'
    BY <1>2, DurableSame DEF RecoverHead, Recovering, RecoveryPhases
  <2> QED
    BY <1>1, <2>1 DEF View, AD!dvars
<1>3. CASE RecoverInstall
  <2>1. Durable' = Durable /\ Recovering'
    BY <1>3, DurableInstall DEF RecoverInstall, Recovering, RecoveryPhases
  <2> QED
    BY <1>1, <2>1 DEF View, AD!dvars
<1>4. CASE RecoverClear
  <2>1. \A b \in Blocks : Durable[b] = home[b]
    <3> SUFFICES ASSUME NEW b \in Blocks PROVE Durable[b] = home[b]
      OBVIOUS
    <3>1. ASSUME NEW i \in Slots, i < hdN, hdBlock[i] = b PROVE Durable[b] = home[b]
      BY <1>4, <3>1, DurableLogged DEF RecoverClear, LogInvariant, HeadersOK, ProgressOK
    <3>2. CASE ~Logged(hdN, hdBlock, b)
      BY <3>2, DurableNotLogged
    <3> QED
      BY <3>1, <3>2 DEF Logged
  <2>2. \A b \in Blocks : Durable'[b] = home[b]
    BY <1>4, LogSizes DEF RecoverClear, HeaderCleared, Durable, Logged, Slots
  <2>3. Durable' = Durable
    BY <2>1, <2>2 DEF Durable
  <2>4. \A b \in Blocks : cache'[b] \in {NotCached, home'[b]}
    BY <1>4 DEF RecoverClear, bufVars, LogInvariant, BuffersOK, CallsOK, Locked, InOp,
                RecoveryPhases
  <2>5. ~Recovering' /\ home' = home
    BY <1>4 DEF RecoverClear, Recovering, RecoveryPhases
  <2>6. \A b \in Blocks : View'[b] = home[b]
    BY <2>4, <2>5 DEF View
  <2>7. View' = Durable
    BY <2>1, <2>5, <2>6 DEF View, Durable
  <2>8. View = Durable
    BY <1>1 DEF View
  <2> QED
    BY <1>1, <2>3, <2>7, <2>8 DEF AD!dvars
<1> QED
  BY <1>2, <1>3, <1>4 DEF Recover

\* Calls that wait, fail or begin are invisible on the atomic disk.
LEMMA RefineCalls ==
  ASSUME LogInvariant, halted = "no", NEW p \in Procs
  PROVE  /\ BeginSleep(p) => UNCHANGED AD!dvars
         /\ BeginOp(p) => AD!ADBegin(p)
         /\ LogWriteAppend(p) => UNCHANGED AD!dvars
         /\ EndOp(p) => AD!ADEnd(p)
         /\ CommitDone(p) => UNCHANGED AD!dvars
<1> USE DEF LogInvariant
<1>1. ASSUME BeginSleep(p) PROVE UNCHANGED AD!dvars
  <2>1. InOp' = InOp
    BY <1>1 DEF BeginSleep, InOp, TypeOK
  <2>2. Durable' = Durable /\ View' = View
    BY <1>1, DurableSame, ViewSame DEF BeginSleep, bufVars, ctlVars, Recovering
  <2> QED
    BY <2>1, <2>2 DEF AD!dvars
<1>2. ASSUME BeginOp(p) PROVE AD!ADBegin(p)
  <2>1. p \notin InOp /\ InOp' = InOp \cup {p}
    BY <1>2 DEF BeginOp, InOp, TypeOK
  <2>2. Durable' = Durable /\ View' = View
    BY <1>2, DurableSame, ViewSame DEF BeginOp, bufVars, ctlVars, Recovering
  <2> QED
    BY <2>1, <2>2 DEF AD!ADBegin
<1>3. ASSUME LogWriteAppend(p) PROVE UNCHANGED AD!dvars
  <2>1. InOp' = InOp
    BY <1>3 DEF LogWriteAppend, InOp, TypeOK
  <2>2. Durable' = Durable /\ View' = View
    BY <1>3, DurableSame, ViewSame DEF LogWriteAppend, ctlVars, Recovering
  <2> QED
    BY <2>1, <2>2 DEF AD!dvars
<1>4. ASSUME EndOp(p) PROVE AD!ADEnd(p)
  <2>1. phase = "run" /\ ~committing
    BY <1>4 DEF EndOp, CallsOK, InOp, CommitPhases
  <2>2. p \in InOp /\ InOp' = InOp \ {p}
    BY <1>4, <2>1 DEF EndOp, InOp, Woken, TypeOK
  <2>3. ~Recovering /\ ~Recovering'
    BY <1>4, <2>1 DEF EndOp, ctlVars, Recovering, RecoveryPhases
  <2>4. Durable' = Durable /\ View' = View
    BY <1>4, <2>3, DurableSame, ViewSame DEF EndOp, bufVars
  <2> QED
    BY <2>2, <2>4 DEF AD!ADEnd
<1>5. ASSUME CommitDone(p) PROVE UNCHANGED AD!dvars
  <2>1. InOp' = InOp
    BY <1>5 DEF CommitDone, InOp, Woken, TypeOK
  <2>2. ~Recovering /\ ~Recovering'
    BY <1>5 DEF CommitDone, Recovering, RecoveryPhases
  <2>3. Durable' = Durable /\ View' = View
    BY <1>5, <2>2, DurableSame, ViewSame DEF CommitDone, bufVars
  <2> QED
    BY <2>1, <2>3 DEF AD!dvars
<1> QED
  BY <1>1, <1>2, <1>3, <1>4, <1>5

\* The steps of Write, on the atomic disk.
LEMMA RefineWrite ==
  ASSUME LogInvariant, halted = "no", NEW p \in Procs, NEW b \in Blocks,
         NEW v \in Values, LogWriteCheck(p, b, v)
  PROVE  AD!ADWrite(p, b, v)
<1>1. p \in InOp /\ InOp' = InOp
  BY DEF LogInvariant, LogWriteCheck, InOp, TypeOK
<1>2. ~Recovering /\ ~Recovering'
  BY <1>1 DEF LogInvariant, CallsOK, LogWriteCheck, ctlVars, Recovering, RecoveryPhases
<1>3. Durable' = Durable /\ home' = home
  BY DurableSame DEF LogWriteCheck, diskVars
<1>4. cache'[b] = v /\ v # NotCached /\ \A c \in Blocks \ {b} : cache'[c] = cache[c]
  BY NotCachedIsNoValue DEF LogInvariant, LogWriteCheck, TypeOK
<1>5. \A c \in Blocks : View'[c] = IF c = b THEN v ELSE View[c]
  BY <1>2, <1>3, <1>4 DEF View
<1>6. View' = [View EXCEPT ![b] = v]
  BY <1>2, <1>5 DEF View
<1> QED
  BY <1>1, <1>3, <1>6 DEF AD!ADWrite

\* The steps of Cache, on the atomic disk.
LEMMA RefineCache ==
  ASSUME LogInvariant, halted = "no", NEW b \in Blocks, Load(b) \/ Evict(b)
  PROVE  UNCHANGED AD!dvars
<1>1. Durable' = Durable /\ home' = home /\ InOp' = InOp /\ (Recovering' <=> Recovering)
  BY DurableSame DEF Load, Evict, diskVars, procVars, ctlVars, InOp, Recovering
<1>2. \A c \in Blocks \ {b} : cache'[c] = cache[c]
  BY DEF Load, Evict, LogInvariant, TypeOK
<1>3. CASE Recovering
  <2>1. View' = Durable' /\ View = Durable
    BY <1>1, <1>3 DEF View
  <2> QED
    BY <1>1, <2>1 DEF AD!dvars
<1>4. CASE ~Recovering
  <2>1. \A c \in Blocks : View'[c] = View[c]
    <3>1. CASE Load(b)
      <4>1. cache[b] = NotCached /\ cache'[b] = home[b]
        BY <3>1 DEF Load, LogInvariant, TypeOK
      <4> QED
        BY <1>1, <1>2, <1>4, <4>1 DEF View
    <3>2. CASE Evict(b)
      <4>1. View[b] = home[b]
        BY <1>4, <3>2, ViewClean DEF Evict
      <4>2. cache'[b] = NotCached
        BY <3>2 DEF Evict, LogInvariant, TypeOK
      <4> QED
        BY <1>1, <1>2, <1>4, <4>1, <4>2 DEF View
    <3> QED
      BY <3>1, <3>2
  <2>2. View' = [c \in Blocks |-> View'[c]] /\ View = [c \in Blocks |-> View[c]]
    BY <1>1, <1>4 DEF View
  <2>3. View' = View
    BY <2>1, <2>2
  <2> QED
    BY <1>1, <2>3 DEF AD!dvars
<1> QED
  BY <1>3, <1>4

\* A crash loses what is not durable, at every point of commit and recovery and
\* in a kernel that has stopped.
LEMMA RefineCrash == Crash => AD!ADCrash
<1> SUFFICES ASSUME Crash PROVE AD!ADCrash
  OBVIOUS
<1>1. Durable' = Durable /\ InOp' = {} /\ Recovering'
  BY DurableSame DEF Crash, InOp, Recovering, RecoveryPhases
<1>2. View' = Durable
  BY <1>1 DEF View
<1> QED
  BY <1>1, <1>2 DEF AD!ADCrash

\* Every step is a step of the atomic disk, or invisible on it.
LEMMA RefineNext == LogInvariant /\ [Next]_vars => [AD!ADNext]_(AD!dvars)
<1> SUFFICES ASSUME LogInvariant, [Next]_vars PROVE [AD!ADNext]_(AD!dvars)
  OBVIOUS
<1>1. CASE UNCHANGED vars
  BY <1>1 DEF vars, diskVars, headVars, cntVars, bufVars, procVars, ctlVars, AD!dvars,
              Durable, View, InOp, Logged, SlotOf, Recovering
<1>2. CASE Crash
  BY <1>2, RefineCrash DEF AD!ADNext
<1>3. CASE Next /\ ~Crash
  <2>0. halted = "no"
    BY <1>3 DEF Next, Commit, Recover, BeginSleep, BeginOp, LogWriteAppend, EndOp,
       CommitDone, LogWriteCheck, WriteLog, WriteHead, Install, ClearHead,
       RecoverHead, RecoverInstall, RecoverClear, Load, Evict
  <2>1. ASSUME NEW p \in Procs,
               BeginSleep(p) \/ BeginOp(p) \/ LogWriteAppend(p) \/ EndOp(p) \/ CommitDone(p)
        PROVE  [AD!ADNext]_(AD!dvars)
    BY <2>0, <2>1, RefineCalls DEF AD!ADNext
  <2>2. ASSUME NEW p \in Procs, NEW b \in Blocks, NEW v \in Values, LogWriteCheck(p, b, v)
        PROVE  [AD!ADNext]_(AD!dvars)
    BY <2>0, <2>2, RefineWrite DEF AD!ADNext
  <2>3. ASSUME Commit PROVE [AD!ADNext]_(AD!dvars)
    BY <2>0, <2>3, RefineWriteLog, RefineWriteHead, RefineInstall, RefineClearHead
    DEF Commit, AD!ADNext
  <2>4. ASSUME NEW b \in Blocks, Load(b) \/ Evict(b) PROVE [AD!ADNext]_(AD!dvars)
    BY <2>0, <2>4, RefineCache
  <2> QED
    BY <1>3, <2>0, <2>1, <2>2, <2>3, <2>4, RefineRecover DEF Next
<1> QED
  BY <1>1, <1>2, <1>3

\* The logging layer implements the atomic disk: whatever the calls, the commit,
\* the crashes and the recoveries do, what is durable changes only as a whole.
THEOREM LogRefinesAtomicDisk == Spec => ImplementsAtomicDisk
<1>1. Init => AD!ADInit
  BY RefineInit
<1>2. LogInvariant /\ [Next]_vars => [AD!ADNext]_(AD!dvars)
  BY RefineNext
<1> QED
  BY <1>1, <1>2, LogInvariance, PTL DEF Spec, ImplementsAtomicDisk, AD!ADSpec

\* With no call in progress and no commit running, a crash loses nothing.
THEOREM LogDurable == Spec => []QuiescentDurable
<1>1. ASSUME LogInvariant, phase = "run", outstanding = 0 PROVE Durable = View
  <2>1. InOp = {} /\ \A b : ~Locked(b)
    <3>1. IsFiniteSet(InOp)
      BY ProcsFinite, FS_Subset DEF InOp
    <3>2. InOp = {}
      BY <1>1, <3>1, FS_EmptySet DEF LogInvariant, CallsOK
    <3> QED
      BY <3>2 DEF InOp, Locked
  <2>2. halted = "no" /\ hdN = 0 /\ ~Recovering
    BY <1>1, <2>1 DEF LogInvariant, HeadersOK, Recovering, RecoveryPhases
  <2>3. \A b : ~Logged(lhN, lhBlock, b)
    BY <1>1, <2>1, <2>2, LogSizes DEF LogInvariant, HeadersOK, Logged, Slots
  <2>4. \A b \in Blocks : View[b] = home[b]
    BY <1>1, <2>1, <2>2, <2>3, ViewClean DEF LogInvariant, BuffersOK
  <2>5. \A b \in Blocks : Durable[b] = home[b]
    BY <2>2, DurableEmpty
  <2> QED
    BY <2>2, <2>4, <2>5 DEF Durable, View
<1> QED
  BY <1>1, LogInvariance, PTL DEF QuiescentDurable
-----------------------------------------------------------------------------
(* Room: what begin_op reserves covers what the calls log.                 *)

\* The blocks that calls in progress wrote and the log has. For each of them a call
\* has one block less to log than it reserved.
Kept == {x \in InOp \X Blocks : x[2] \in written[x[1]] /\ Logged(lhN, lhBlock, x[2])}

Reserved ==
  /\ \A p \in InOp : IsFiniteSet(written[p]) /\ Cardinality(written[p]) <= OpBlocks
  /\ \A p \in Procs : pc[p] = "log_write" => wblk[p] \in written[p]
  /\ lhN + outstanding * MAXOPBLOCKS <= LOGSIZE + Cardinality(Kept)

\* A call leaves at least two blocks of its reservation unused when the log on disk
\* has LOGSIZE blocks (mkfs.c:25), because one of them is the header and log_write
\* wants room for one block more even if it will absorb the write.
ReservationCovers == OpBlocks <= MAXOPBLOCKS /\ LOGSIZE - MAXOPBLOCKS + OpBlocks <= NLOG - 2

RoomInvariant == LogInvariant /\ Reserved /\ NoPanic

\* Pairs of an element of S and one of at most m others are at most m times as many as S.
LEMMA PairsBounded ==
  ASSUME NEW S, IsFiniteSet(S), NEW B, NEW P, P \subseteq S \X B, NEW m \in Nat,
         \A q \in S : /\ IsFiniteSet({b \in B : <<q, b>> \in P})
                      /\ Cardinality({b \in B : <<q, b>> \in P}) <= m
  PROVE  IsFiniteSet(P) /\ Cardinality(P) <= Cardinality(S) * m
<1> DEFINE Of(q) == {b \in B : <<q, b>> \in P}
           E(q) == CHOOSE g \in [Of(q) -> 1 .. m] : \A a, b \in Of(q) : g[a] = g[b] => a = b
           f == [x \in P |-> <<x[1], E(x[1])[x[2]]>>]
<1>1. ASSUME NEW q \in S
      PROVE  E(q) \in [Of(q) -> 1 .. m] /\ \A a, b \in Of(q) : E(q)[a] = E(q)[b] => a = b
  <2>1. PICK n : n \in Nat /\ n = Cardinality(Of(q)) /\ n <= m
    BY FS_CardinalityType
  <2>2. ExistsBijection(1 .. n, Of(q))
    BY <2>1, FS_CardinalityType
  <2>3. PICK g : g \in Bijection(Of(q), 1 .. n)
    BY <2>2, Fun_ExistsBijSymmetric DEF ExistsBijection
  <2>4. g \in [Of(q) -> 1 .. n] /\ \A a, b \in Of(q) : g[a] = g[b] => a = b
    BY <2>3 DEF Bijection, Injection, IsInjective
  <2>5. \A k \in 1 .. n : k \in 1 .. m
    BY <2>1
  <2>6. g \in [Of(q) -> 1 .. m]
    BY <2>4, <2>5
  <2> QED
    BY <2>4, <2>6
<1>2. \A x \in P : x = <<x[1], x[2]>> /\ x[1] \in S /\ x[2] \in Of(x[1])
  OBVIOUS
<1> HIDE DEF Of, E
<1>3. f \in [P -> S \X (1 .. m)]
  <2> SUFFICES ASSUME NEW x \in P PROVE <<x[1], E(x[1])[x[2]]>> \in S \X (1 .. m)
    OBVIOUS
  <2>1. x[1] \in S /\ x[2] \in Of(x[1])
    BY <1>2
  <2>2. E(x[1])[x[2]] \in 1 .. m
    BY <1>1, <2>1
  <2> QED
    BY <2>1, <2>2
<1>4. ASSUME NEW x \in P, NEW y \in P, f[x] = f[y] PROVE x = y
  <2>1. x[1] = y[1] /\ E(x[1])[x[2]] = E(y[1])[y[2]]
    BY <1>4
  <2>2. x[1] \in S /\ x[2] \in Of(x[1]) /\ y[2] \in Of(x[1])
    BY <1>2, <2>1
  <2>3. x[2] = y[2]
    BY <1>1, <2>1, <2>2
  <2> QED
    BY <1>2, <2>1, <2>3
<1>5. f \in Injection(P, S \X (1 .. m))
  <2> HIDE DEF f
  <2> QED
    BY <1>3, <1>4, Fun_IsInj
<1>6. /\ IsFiniteSet(S \X (1 .. m))
      /\ Cardinality(S \X (1 .. m)) = Cardinality(S) * m
  <2>1. IsFiniteSet(1 .. m) /\ Cardinality(1 .. m) = m
    BY FS_Interval
  <2> QED
    BY <2>1, FS_Product
<1> QED
  BY <1>5, <1>6, FS_Injection

\* Pairs of calls and blocks they wrote, when none writes more than it may.
LEMMA WrittenBounded ==
  ASSUME NEW S, IsFiniteSet(S), NEW w, NEW K, K \subseteq S \X Blocks,
         \A x \in K : x[2] \in w[x[1]],
         \A q \in S : IsFiniteSet(w[q]) /\ Cardinality(w[q]) <= OpBlocks
  PROVE  IsFiniteSet(K) /\ Cardinality(K) <= Cardinality(S) * OpBlocks
<1>1. ASSUME NEW q \in S
      PROVE  /\ IsFiniteSet({b \in Blocks : <<q, b>> \in K})
             /\ Cardinality({b \in Blocks : <<q, b>> \in K}) <= OpBlocks
  <2> DEFINE T == {b \in Blocks : <<q, b>> \in K}
  <2>1. \A b \in T : b \in w[q]
    OBVIOUS
  <2>2. T \subseteq w[q]
    BY <2>1
  <2>3. IsFiniteSet(w[q]) /\ Cardinality(w[q]) <= OpBlocks
    OBVIOUS
  <2> HIDE DEF T
  <2>4. IsFiniteSet(T) /\ Cardinality(T) <= Cardinality(w[q])
    BY <2>2, <2>3, FS_Subset
  <2>5. Cardinality(T) \in Nat /\ Cardinality(w[q]) \in Nat
    BY <2>3, <2>4, FS_CardinalityType
  <2>6. Cardinality(T) <= OpBlocks
    BY <2>3, <2>4, <2>5, LogSizes
  <2> QED
    BY <2>4, <2>6 DEF T
<1>2. OpBlocks \in Nat
  BY LogSizes
<1> QED
  BY <1>1, <1>2, PairsBounded

\* What the calls in progress have logged is finite, and no more than they may write.
LEMMA KeptIs ==
  ASSUME TypeOK, Reserved
  PROVE  /\ IsFiniteSet(InOp) /\ IsFiniteSet(Kept) /\ Cardinality(Kept) \in Nat
         /\ \A S \in SUBSET InOp :
              /\ IsFiniteSet({x \in Kept : x[1] \in S})
              /\ Cardinality({x \in Kept : x[1] \in S}) <= Cardinality(S) * OpBlocks
<1>1. IsFiniteSet(InOp)
  BY FS_Subset, ProcsFinite DEF InOp
<1>2. ASSUME NEW S \in SUBSET InOp
      PROVE  /\ IsFiniteSet({x \in Kept : x[1] \in S})
             /\ Cardinality({x \in Kept : x[1] \in S}) <= Cardinality(S) * OpBlocks
  <2> DEFINE P == {x \in Kept : x[1] \in S}
  <2>1. IsFiniteSet(S)
    BY <1>1, FS_Subset
  <2>2. P \subseteq S \X Blocks /\ \A x \in P : x[2] \in written[x[1]]
    BY DEF Kept
  <2>3. \A q \in S : IsFiniteSet(written[q]) /\ Cardinality(written[q]) <= OpBlocks
    BY DEF Reserved
  <2> HIDE DEF P
  <2> QED
    BY <2>1, <2>2, <2>3, WrittenBounded DEF P
<1>3. Kept = {x \in Kept : x[1] \in InOp}
  BY DEF Kept
<1> QED
  BY <1>1, <1>2, <1>3, FS_CardinalityType

\* The numbers begin_op adds up.
LEMMA RoomNumbers ==
  ASSUME TypeOK
  PROVE  /\ lhN \in Nat /\ lhN <= LOGSIZE /\ outstanding \in Nat
         /\ outstanding * MAXOPBLOCKS \in Nat
         /\ (outstanding + 1) * MAXOPBLOCKS = outstanding * MAXOPBLOCKS + MAXOPBLOCKS
         /\ (outstanding - 1) * MAXOPBLOCKS = outstanding * MAXOPBLOCKS - MAXOPBLOCKS
<1>1. outstanding \in Nat /\ lhN \in 0 .. LOGSIZE
  BY DEF TypeOK
<1> QED
  BY <1>1, LogSizes

\* A call in progress finds room for one block more, whatever it wrote.
LEMMA RoomLeft ==
  ASSUME LogInvariant, Reserved, ReservationCovers, NEW p \in InOp
  PROVE  lhN <= NLOG - 2
<1> DEFINE Others == InOp \ {p}
           Mine == {x \in Kept : x[1] \in {p}}
           Theirs == {x \in Kept : x[1] \in Others}
<1> USE DEF LogInvariant
<1>1. /\ Cardinality(Others) = outstanding - 1 /\ Cardinality({p}) = 1
      /\ outstanding \in Nat /\ outstanding - 1 \in Nat /\ lhN \in Nat
  <2>1. /\ Cardinality(Others) = Cardinality(InOp) - 1 /\ Cardinality(InOp) - 1 \in Nat
        /\ outstanding = Cardinality(InOp) /\ outstanding \in Nat /\ lhN \in 0 .. LOGSIZE
    BY CountRemove DEF CallsOK, TypeOK
  <2>2. Cardinality({p}) = 1
    BY FS_Singleton
  <2>3. lhN \in Nat
    BY <2>1, LogSizes
  <2> QED
    BY <2>1, <2>2, <2>3
<1>2. Kept = Mine \cup Theirs /\ Mine \cap Theirs = {}
  BY DEF Kept
<1>3. /\ IsFiniteSet(Mine) /\ IsFiniteSet(Theirs)
      /\ Cardinality(Mine) <= 1 * OpBlocks /\ Cardinality(Theirs) <= (outstanding - 1) * OpBlocks
  BY <1>1, KeptIs
<1> HIDE DEF Mine, Theirs
<1>4. Cardinality(Kept) = Cardinality(Mine) + Cardinality(Theirs)
  <2>1. Cardinality(Mine \cap Theirs) = 0
    BY <1>2, FS_EmptySet
  <2>2. Cardinality(Kept) = Cardinality(Mine) + Cardinality(Theirs) - Cardinality(Mine \cap Theirs)
    BY <1>2, <1>3, FS_Union
  <2>3. Cardinality(Mine) \in Nat /\ Cardinality(Theirs) \in Nat
    BY <1>3, FS_CardinalityType
  <2> QED
    BY <2>1, <2>2, <2>3
<1>5. PICK k \in Nat : k = outstanding - 1
  BY <1>1
<1>6. k * OpBlocks <= k * MAXOPBLOCKS
  BY LogSizes DEF ReservationCovers
<1>7. outstanding * MAXOPBLOCKS = k * MAXOPBLOCKS + MAXOPBLOCKS /\ k * MAXOPBLOCKS \in Nat
  BY <1>1, <1>5, LogSizes
<1>8. lhN + outstanding * MAXOPBLOCKS <= LOGSIZE + Cardinality(Kept)
  BY DEF Reserved
<1>9. Cardinality(Mine) \in Nat /\ Cardinality(Theirs) \in Nat
  BY <1>3, FS_CardinalityType
<1> QED
  BY <1>1, <1>3, <1>4, <1>5, <1>6, <1>7, <1>8, <1>9, LogSizes DEF ReservationCovers

\* A step that keeps the log, its calls and what they wrote keeps what they have reserved.
LEMMA RoomSame ==
  ASSUME TypeOK, Reserved, UNCHANGED <<lhN, lhBlock, outstanding, written, wblk>>, InOp' = InOp,
         \A p \in Procs : pc'[p] = "log_write" => pc[p] = "log_write"
  PROVE  Reserved'
<1>1. Kept' = Kept
  BY DEF Kept, Logged
<1> QED
  BY <1>1 DEF Reserved

\* With no call in progress there is nothing to reserve.
LEMMA RoomEmpty ==
  ASSUME InOp' = {}, outstanding' = 0, lhN' \in 0 .. LOGSIZE
  PROVE  Reserved'
<1>1. Kept' = {}
  BY DEF Kept
<1>2. Cardinality(Kept') = 0
  BY <1>1, FS_EmptySet
<1>3. \A p \in Procs : pc'[p] # "log_write"
  BY DEF InOp
<1>4. 0 * MAXOPBLOCKS = 0
  BY LogSizes
<1> QED
  BY <1>2, <1>3, <1>4, LogSizes DEF Reserved

\* begin_op lets a call in only if what it reserves is there.
LEMMA BeginOpRoom ==
  ASSUME RoomInvariant, ReservationCovers, NEW p \in Procs, BeginOp(p)
  PROVE  Reserved' /\ NoPanic'
<1> USE DEF RoomInvariant, LogInvariant
<1>1. InOp' = InOp \cup {p} /\ p \notin InOp
  BY DEF BeginOp, InOp, TypeOK
<1>2. /\ written' = [written EXCEPT ![p] = {}] /\ outstanding' = outstanding + 1
      /\ UNCHANGED <<lhN, lhBlock, wblk, halted>> /\ pc' = [pc EXCEPT ![p] = "op"]
      /\ lhN + (outstanding + 1) * MAXOPBLOCKS <= LOGSIZE
  <2>1. ~(lhN + (outstanding + 1) * MAXOPBLOCKS > LOGSIZE)
    BY DEF BeginOp, MustWait
  <2>2. lhN + (outstanding + 1) * MAXOPBLOCKS <= LOGSIZE
    BY <2>1, RoomNumbers, LogSizes
  <2> QED
    BY <2>2 DEF BeginOp, headVars
<1>3. \A q \in Procs : q # p => written'[q] = written[q] /\ pc'[q] = pc[q]
  BY <1>2 DEF TypeOK
<1>4. written'[p] = {} /\ pc'[p] = "op"
  BY <1>2 DEF TypeOK
<1>5. Kept' = Kept
  BY <1>1, <1>2, <1>3, <1>4 DEF Kept, Logged
<1>6. /\ IsFiniteSet(written'[p]) /\ Cardinality(written'[p]) <= OpBlocks
  BY <1>4, FS_EmptySet, LogSizes
<1>7. \A q \in InOp' : IsFiniteSet(written'[q]) /\ Cardinality(written'[q]) <= OpBlocks
  BY <1>1, <1>3, <1>6 DEF Reserved, InOp
<1>8. \A q \in Procs : pc'[q] = "log_write" => wblk'[q] \in written'[q]
  BY <1>2, <1>3, <1>4 DEF Reserved
<1>9. lhN' + outstanding' * MAXOPBLOCKS <= LOGSIZE + Cardinality(Kept')
  <2>1. Cardinality(Kept) \in Nat
    BY KeptIs
  <2>2. lhN' + outstanding' * MAXOPBLOCKS <= LOGSIZE
    BY <1>2
  <2>3. lhN' + outstanding' * MAXOPBLOCKS \in Nat
    BY <1>2, RoomNumbers, LogSizes
  <2> QED
    BY <1>5, <2>1, <2>2, <2>3, LogSizes
<1> QED
  BY <1>2, <1>7, <1>8, <1>9 DEF Reserved, NoPanic

\* The first half of log_write finds room.
LEMMA LogWriteCheckRoom ==
  ASSUME RoomInvariant, ReservationCovers, NEW p \in Procs, NEW b \in Blocks, NEW v \in Values,
         LogWriteCheck(p, b, v), LogInvariant'
  PROVE  Reserved' /\ NoPanic'
<1> USE DEF RoomInvariant, LogInvariant
<1>1. p \in InOp /\ IsFiniteSet(InOp)
  BY FS_Subset, ProcsFinite DEF LogWriteCheck, InOp
<1>2. lhN <= NLOG - 2 /\ lhN \in 0 .. LOGSIZE
  BY <1>1, RoomLeft DEF TypeOK
<1>3. ~LogTooBig
  BY <1>2, LogSizes DEF LogTooBig
<1>4. outstanding >= 1
  <2>1. Cardinality(InOp) - 1 \in Nat /\ outstanding = Cardinality(InOp)
    BY <1>1, CountRemove DEF CallsOK
  <2> QED
    BY <2>1, RoomNumbers
<1>5. /\ pc' = [pc EXCEPT ![p] = "log_write"] /\ halted' = halted /\ wblk' = [wblk EXCEPT ![p] = b]
      /\ written' = [written EXCEPT ![p] = @ \cup {b}] /\ UNCHANGED <<lhN, lhBlock, outstanding>>
      /\ Cardinality(written[p] \cup {b}) <= OpBlocks
  <2>1. ~(outstanding < 1)
    BY <1>4, RoomNumbers
  <2> QED
    BY <1>3, <2>1 DEF LogWriteCheck, headVars, cntVars
<1>6. InOp' = InOp
  BY <1>1, <1>5 DEF InOp, TypeOK
<1>7. /\ written'[p] = written[p] \cup {b} /\ wblk'[p] = b /\ pc'[p] = "log_write"
      /\ \A q \in Procs : q # p => written'[q] = written[q] /\ wblk'[q] = wblk[q] /\ pc'[q] = pc[q]
  BY <1>5 DEF TypeOK
<1>8. IsFiniteSet(written'[p]) /\ Cardinality(written'[p]) <= OpBlocks
  <2>1. IsFiniteSet(written[p] \cup {b})
    BY <1>1, FS_AddElement DEF Reserved
  <2> QED
    BY <1>5, <1>7, <2>1
<1>9. /\ \A q \in InOp' : IsFiniteSet(written'[q]) /\ Cardinality(written'[q]) <= OpBlocks
      /\ \A q \in Procs : pc'[q] = "log_write" => wblk'[q] \in written'[q]
  BY <1>6, <1>7, <1>8 DEF Reserved, InOp
<1>10. Kept \subseteq Kept'
  BY <1>5, <1>6, <1>7 DEF Kept, Logged, InOp
<1>11. Kept' \subseteq InOp' \X Blocks
  BY DEF Kept
<1>12. IsFiniteSet(Kept')
  <2>1. \A x \in Kept' : x[2] \in written'[x[1]]
    BY DEF Kept
  <2> QED
    BY <1>1, <1>6, <1>9, <1>11, <2>1, WrittenBounded
<1>13. Cardinality(Kept) <= Cardinality(Kept') /\ Cardinality(Kept) \in Nat /\ Cardinality(Kept') \in Nat
  BY <1>10, <1>12, FS_Subset, FS_CardinalityType
<1>14. lhN' + outstanding' * MAXOPBLOCKS <= LOGSIZE + Cardinality(Kept')
  <2>1. lhN + outstanding * MAXOPBLOCKS <= LOGSIZE + Cardinality(Kept)
    BY DEF Reserved
  <2> QED
    BY <1>5, <1>13, <2>1, RoomNumbers, LogSizes
<1> QED
  BY <1>5, <1>9, <1>14 DEF Reserved, NoPanic

\* The second half appends a block that the call has room for.
LEMMA LogWriteAppendRoom ==
  ASSUME RoomInvariant, ReservationCovers, NEW p \in Procs, LogWriteAppend(p)
  PROVE  Reserved' /\ NoPanic'
<1> USE DEF RoomInvariant, LogInvariant
<1> DEFINE b == wblk[p]
<1>1. p \in InOp /\ InOp' = InOp /\ b \in written[p] /\ b \in Blocks
  BY DEF LogWriteAppend, InOp, TypeOK, Reserved, CallsOK
<1>2. lhN <= NLOG - 2 /\ lhN \in 0 .. LOGSIZE
  BY <1>1, RoomLeft DEF TypeOK
<1>3. lhN \in Slots /\ lhN \in Nat
  BY <1>2, LogSizes DEF Slots
<1>4. /\ pc' = [pc EXCEPT ![p] = "op"] /\ UNCHANGED <<outstanding, wblk, written>>
      /\ \/ Logged(lhN, lhBlock, b) /\ UNCHANGED <<lhN, lhBlock, halted>>
         \/ /\ ~Logged(lhN, lhBlock, b) /\ lhBlock' = [lhBlock EXCEPT ![lhN] = b]
            /\ lhN' = lhN + 1 /\ UNCHANGED halted
  BY <1>3 DEF LogWriteAppend, headVars, cntVars
<1>5. \A q \in Procs : pc'[q] = "log_write" => pc[q] = "log_write"
  BY <1>4 DEF TypeOK
<1>6. CASE Logged(lhN, lhBlock, b)
  BY <1>1, <1>4, <1>5, <1>6, RoomSame DEF NoPanic
<1>7. CASE ~Logged(lhN, lhBlock, b)
  <2>1. \A i \in Slots : i < lhN' <=> i < lhN \/ i = lhN
    BY <1>3, <1>4, <1>7 DEF Slots
  <2>2. lhBlock'[lhN] = b /\ \A i \in Slots : i # lhN => lhBlock'[i] = lhBlock[i]
    BY <1>3, <1>4, <1>7 DEF TypeOK
  <2>3. \A c : Logged(lhN, lhBlock, c)' <=> Logged(lhN, lhBlock, c) \/ c = b
    BY <1>3, <2>1, <2>2 DEF Logged, Slots
  <2>4. Kept \cup {<<p, b>>} \subseteq Kept' /\ <<p, b>> \notin Kept
    BY <1>1, <1>4, <1>7, <2>3 DEF Kept
  <2>5. IsFiniteSet(Kept') /\ IsFiniteSet(Kept)
    <3>1. Kept' \subseteq InOp \X Blocks /\ \A x \in Kept' : x[2] \in written[x[1]]
      BY <1>1, <1>4 DEF Kept
    <3>2. \A q \in InOp : IsFiniteSet(written[q]) /\ Cardinality(written[q]) <= OpBlocks
      BY DEF Reserved
    <3> QED
      BY <3>1, <3>2, WrittenBounded, KeptIs
  <2>6. Cardinality(Kept) + 1 <= Cardinality(Kept')
    <3>1. Cardinality(Kept \cup {<<p, b>>}) = Cardinality(Kept) + 1
      BY <2>4, <2>5, FS_AddElement
    <3>2. Cardinality(Kept \cup {<<p, b>>}) <= Cardinality(Kept')
      BY <2>4, <2>5, FS_Subset
    <3> QED
      BY <3>1, <3>2
  <2>7. Cardinality(Kept) \in Nat /\ Cardinality(Kept') \in Nat
    BY <2>5, FS_CardinalityType
  <2>8. lhN' + outstanding' * MAXOPBLOCKS <= LOGSIZE + Cardinality(Kept')
    <3>1. lhN + outstanding * MAXOPBLOCKS <= LOGSIZE + Cardinality(Kept)
      BY DEF Reserved
    <3> QED
      BY <1>4, <1>7, <2>6, <2>7, <3>1, RoomNumbers, LogSizes
  <2> QED
    BY <1>1, <1>4, <1>5, <1>7, <2>8 DEF Reserved, NoPanic
<1> QED
  BY <1>6, <1>7

\* end_op gives back the whole reservation of a call, so no more than it kept.
LEMMA EndOpRoom ==
  ASSUME RoomInvariant, ReservationCovers, NEW p \in Procs, EndOp(p)
  PROVE  Reserved' /\ NoPanic'
<1> USE DEF RoomInvariant, LogInvariant
<1> DEFINE Mine == {x \in Kept : x[1] \in {p}}
<1>1. p \in InOp /\ ~committing
  BY DEF EndOp, InOp, CallsOK, CommitPhases
<1>2. /\ outstanding' = outstanding - 1 /\ UNCHANGED <<lhN, lhBlock, wblk, written, halted>>
      /\ pc' = [pc EXCEPT ![p] = "commit"] \/ pc' = [Woken(pc) EXCEPT ![p] = "idle"]
  BY <1>1 DEF EndOp, headVars
<1>3. InOp' = InOp \ {p} /\ \A q \in Procs : pc'[q] = "log_write" => pc[q] = "log_write"
  BY <1>2 DEF InOp, TypeOK, Woken
<1>4. Kept' = Kept \ Mine /\ Mine \subseteq Kept
  BY <1>2, <1>3 DEF Kept, Logged
<1>5. IsFiniteSet(Mine) /\ Cardinality(Mine) <= Cardinality({p}) * OpBlocks /\ Cardinality({p}) = 1
  BY <1>1, KeptIs, FS_Singleton
<1> HIDE DEF Mine
<1>6. Kept \cap Mine = Mine
  BY <1>4
<1>7. Cardinality(Kept') = Cardinality(Kept) - Cardinality(Mine)
  <2>1. IsFiniteSet(Kept)
    BY KeptIs
  <2> QED
    BY <1>4, <1>6, <2>1, FS_Difference
<1>8. Cardinality(Kept) \in Nat /\ Cardinality(Mine) \in Nat
  BY <1>5, KeptIs, FS_CardinalityType
<1>9. (outstanding - 1) * MAXOPBLOCKS = outstanding * MAXOPBLOCKS - MAXOPBLOCKS
      /\ outstanding * MAXOPBLOCKS \in Int
  BY RoomNumbers
<1>10. lhN' + outstanding' * MAXOPBLOCKS <= LOGSIZE + Cardinality(Kept')
  <2>1. lhN \in Int /\ outstanding \in Nat
    BY RoomNumbers
  <2>2. Cardinality(Mine) <= MAXOPBLOCKS
    BY <1>5, <1>8, LogSizes DEF ReservationCovers
  <2>3. lhN + outstanding * MAXOPBLOCKS <= LOGSIZE + Cardinality(Kept)
    BY DEF Reserved
  <2> QED
    BY <1>2, <1>7, <1>8, <1>9, <2>1, <2>2, <2>3, LogSizes
<1> QED
  BY <1>2, <1>3, <1>10 DEF Reserved, NoPanic

\* Every step leaves room for what the calls may still log.
LEMMA NextRoom ==
  ASSUME RoomInvariant, ReservationCovers, [Next]_vars
  PROVE  RoomInvariant'
<1> USE DEF RoomInvariant
<1>1. LogInvariant'
  BY NextInvariant
<1>2. InOp' = {} => outstanding' = 0
  BY <1>1, FS_EmptySet DEF LogInvariant, CallsOK
<1>3. lhN' \in 0 .. LOGSIZE
  BY <1>1 DEF LogInvariant, TypeOK
<1>4. CASE UNCHANGED vars
  <2>1. InOp' = InOp
    BY <1>4 DEF vars, procVars, InOp
  <2> QED
    BY <1>1, <1>4, <2>1, RoomSame DEF vars, headVars, cntVars, procVars, NoPanic, LogInvariant
<1>5. CASE Crash
  BY <1>1, <1>2, <1>3, <1>5, RoomEmpty DEF Crash, InOp, NoPanic
<1>6. ASSUME NEW p \in Procs, BeginSleep(p) \/ CommitDone(p) PROVE Reserved' /\ NoPanic'
  <2>1. InOp' = InOp /\ \A q \in Procs : pc'[q] = "log_write" => pc[q] = "log_write"
    BY <1>6 DEF BeginSleep, CommitDone, InOp, Woken, LogInvariant, TypeOK
  <2> QED
    BY <1>6, <2>1, RoomSame DEF BeginSleep, CommitDone, headVars, cntVars, NoPanic, LogInvariant
<1>7. ASSUME Commit \/ Recover PROVE Reserved' /\ NoPanic'
  <2>1. phase # "run" /\ UNCHANGED <<procVars, halted>>
    BY <1>7 DEF Commit, Recover, WriteLog, WriteHead, Install, ClearHead, RecoverHead,
       RecoverInstall, RecoverClear
  <2>2. InOp = {} /\ InOp' = InOp
    BY <2>1 DEF LogInvariant, CallsOK, InOp, procVars
  <2> QED
    BY <1>2, <1>3, <2>1, <2>2, RoomEmpty DEF NoPanic
<1>8. ASSUME NEW b \in Blocks, Load(b) \/ Evict(b) PROVE Reserved' /\ NoPanic'
  <2>1. InOp' = InOp /\ UNCHANGED <<headVars, cntVars, procVars, halted>>
    BY <1>8 DEF Load, Evict, InOp, procVars
  <2> QED
    BY <2>1, RoomSame DEF headVars, cntVars, procVars, NoPanic, LogInvariant
<1>9. CASE Next
  BY <1>1, <1>5, <1>6, <1>7, <1>8, <1>9, BeginOpRoom, LogWriteCheckRoom, LogWriteAppendRoom, EndOpRoom
     DEF Next
<1> QED
  BY <1>4, <1>9

\* The kernel never stops in the logging layer: what begin_op reserves covers what the
\* concurrent calls log, though log_write tests the size of the log without the lock.
THEOREM LogNeverPanics == ReservationCovers => (Spec => []NoPanic)
<1> SUFFICES ASSUME ReservationCovers PROVE Spec => []NoPanic
  OBVIOUS
<1>1. Init => RoomInvariant
  <2> SUFFICES ASSUME Init PROVE RoomInvariant
    OBVIOUS
  <2>1. InOp = {} /\ Kept = {}
    BY DEF Init, InOp, Kept
  <2>2. Cardinality(Kept) = 0 /\ 0 * MAXOPBLOCKS = 0
    BY <2>1, FS_EmptySet, LogSizes
  <2>3. Reserved
    BY <2>1, <2>2, LogSizes DEF Init, Reserved
  <2> QED
    BY <2>3, InitInvariant DEF RoomInvariant, Init, NoPanic
<1>2. RoomInvariant /\ [Next]_vars => RoomInvariant'
  BY NextRoom
<1>3. RoomInvariant => NoPanic
  BY DEF RoomInvariant
<1> QED
  BY <1>1, <1>2, <1>3, PTL DEF Spec
=============================================================================
