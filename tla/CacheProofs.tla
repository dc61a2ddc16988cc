----------------------------- MODULE CacheProofs -----------------------------
(***************************************************************************)
(* CacheInvariant is inductive, for every number of buffers, processes and *)
(* blocks, and what follows from it: nobody is stuck, bget panics only     *)
(* when every buffer is in use or dirty, and the cache implements a store  *)
(* with one content per block and exclusive holders.                       *)
(***************************************************************************)
EXTENDS CacheProperties, FiniteSetTheorems, TLAPS

\* No block has the number that stands for none, and no process is the one that stands
\* for none.
LEMMA NumberFacts ==
  /\ NoBlock \in Nat \ Blocks /\ Blocks \subseteq Nat /\ NoProc \notin Procs
BY CacheSizes DEF NoBlock

\* One field of a buffer set to a value of its type.
LEMMA FieldTypes ==
  ASSUME NEW r \in Buf
  PROVE  /\ \A n \in Nat : [r EXCEPT !.refcnt = n] \in Buf
         /\ \A h \in Procs \cup {NoProc} : [r EXCEPT !.holder = h] \in Buf
         /\ \A x \in BOOLEAN : [r EXCEPT !.dirty = x] \in Buf
         /\ \A v \in Values, x \in BOOLEAN : [r EXCEPT !.data = v, !.dirty = x] \in Buf
         /\ \A v \in Values : [r EXCEPT !.data = v, !.valid = TRUE, !.dirty = FALSE] \in Buf
         /\ \A k \in Blocks : [r EXCEPT !.block = k, !.refcnt = 1, !.valid = FALSE, !.dirty = FALSE] \in Buf
BY DEF Buf

\* A list with all buffers has all of them when one is moved to the front.
LEMMA FrontFacts ==
  ASSUME CacheTypeOK, NEW b \in Buffers
  PROVE  /\ MoveToFront(b) \in [1 .. NBUF -> Buffers]
         /\ \A c \in Buffers : \E i \in 1 .. NBUF : MoveToFront(b)[i] = c
<1>1. NBUF \in Nat \ {0} /\ lru \in [1 .. NBUF -> Buffers]
  BY CacheSizes DEF CacheTypeOK
<1>2. Place(b) \in 1 .. NBUF /\ lru[Place(b)] = b
  BY DEF CacheTypeOK, Place
<1>3. MoveToFront(b) \in [1 .. NBUF -> Buffers]
  BY <1>1, <1>2 DEF MoveToFront
<1>4. ASSUME NEW c \in Buffers PROVE \E i \in 1 .. NBUF : MoveToFront(b)[i] = c
  <2>1. PICK j \in 1 .. NBUF : lru[j] = c
    BY DEF CacheTypeOK
  <2>2. CASE j = Place(b)
    <3>1. MoveToFront(b)[1] = c
      BY <1>1, <1>2, <2>1, <2>2 DEF MoveToFront
    <3> QED
      BY <1>1, <3>1
  <2>3. CASE j < Place(b)
    <3>1. j + 1 \in 1 .. NBUF /\ MoveToFront(b)[j + 1] = c
      BY <1>1, <1>2, <2>1, <2>3 DEF MoveToFront
    <3> QED
      BY <3>1
  <2>4. CASE j > Place(b)
    <3>1. MoveToFront(b)[j] = c
      BY <1>1, <1>2, <2>1, <2>4 DEF MoveToFront
    <3> QED
      BY <3>1
  <2> QED
    BY <1>1, <1>2, <2>2, <2>3, <2>4
<1> QED
  BY <1>3, <1>4

\* Counting the users of a buffer: one that comes, one that goes.
LEMMA CountFacts ==
  ASSUME NEW b \in Buffers
  PROVE  /\ IsFiniteSet(Users(b)) /\ Cardinality(Users(b)) \in Nat
         /\ Cardinality(Users(b)) = 0 <=> Users(b) = {}
         /\ \A p \in Procs \ Users(b) : Cardinality(Users(b) \cup {p}) = Cardinality(Users(b)) + 1
         /\ \A p \in Users(b) : Cardinality(Users(b) \ {p}) = Cardinality(Users(b)) - 1
<1>1. IsFiniteSet(Users(b))
  BY CacheSizes, FS_Subset DEF Users
<1>2. Cardinality(Users(b)) \in Nat /\ (Cardinality(Users(b)) = 0 <=> Users(b) = {})
  BY <1>1, FS_CardinalityType, FS_EmptySet
<1>3. \A p \in Procs \ Users(b) : Cardinality(Users(b) \cup {p}) = Cardinality(Users(b)) + 1
  BY <1>1, FS_AddElement
<1>4. \A p \in Users(b) : Cardinality(Users(b) \ {p}) = Cardinality(Users(b)) - 1
  BY <1>1, FS_RemoveElement
<1> QED
  BY <1>1, <1>2, <1>3, <1>4

\* Nobody uses a buffer with no references.
LEMMA UnusedFacts ==
  ASSUME CacheInvariant, NEW b \in Buffers, buf[b].refcnt = 0
  PROVE  \A p \in Procs : ~Uses(p, b) /\ ~InHand(p, b)
BY CountFacts DEF CacheInvariant, RefcntExact, Users, Uses, InHand

\* A step that leaves the queue, and who waits for which answer, as they are.
LEMMA QueueKept ==
  ASSUME QueueIsWaiters, queue' = queue, \A b \in Buffers : Waiting(b)' <=> Waiting(b)
  PROVE  QueueIsWaiters'
BY DEF QueueIsWaiters, Queued

\* A step that changes neither the users of buffers nor the counts.
LEMMA RefcntKept ==
  ASSUME RefcntExact,
         \A b \in Buffers : Users(b)' = Users(b) /\ buf'[b].refcnt = buf[b].refcnt
  PROVE  RefcntExact'
BY DEF RefcntExact

-----------------------------------------------------------------------------
(* bget                                                                     *)
LEMMA GetCachedKeeps ==
  ASSUME CacheInvariant, NEW p \in Procs, NEW k \in Blocks, GetCached(p, k)
  PROVE  CacheInvariant'
<1> USE NumberFacts DEF CacheInvariant
<1>0. PICK b \in Buffers :
         /\ buf[b].block = k /\ at' = [at EXCEPT ![p] = b]
         /\ buf' = [buf EXCEPT ![b].refcnt = @ + 1]
         /\ pc' = [pc EXCEPT ![p] = "lock"]
         /\ UNCHANGED <<lru, queue, disk, held, panicked>>
  BY DEF GetCached, Caching
<1>a. pc[p] = "run" /\ b \notin held[p] /\ \A c \in held[p] : buf[c].block < k
  BY <1>0 DEF GetCached, MayTake, CacheTypeOK, Buf
<1>b. /\ \A c \in Buffers : /\ c # b => buf'[c] = buf[c]
                            /\ buf'[c].block = buf[c].block /\ buf'[c].valid = buf[c].valid
                            /\ buf'[c].dirty = buf[c].dirty /\ buf'[c].holder = buf[c].holder
                            /\ buf'[c].data = buf[c].data
      /\ buf'[b].refcnt = buf[b].refcnt + 1
  BY <1>0 DEF CacheTypeOK, Buf
<1>1. CacheTypeOK'
  <2>1. buf[b] \in Buf /\ buf[b].refcnt + 1 \in Nat
    BY DEF CacheTypeOK, Buf
  <2>2. [buf[b] EXCEPT !.refcnt = buf[b].refcnt + 1] \in Buf
    BY <2>1, FieldTypes
  <2>3. buf' = [buf EXCEPT ![b] = [buf[b] EXCEPT !.refcnt = buf[b].refcnt + 1]]
    BY <1>0, <2>1 DEF CacheTypeOK, Buf
  <2> QED
    BY <1>0, <2>2, <2>3 DEF CacheTypeOK
<1>2. OneBufferPerBlock'
  BY <1>0, <1>a, <1>b DEF CacheTypeOK, OneBufferPerBlock
<1>3. HoldersKnown'
  BY <1>0, <1>a, <1>b DEF CacheTypeOK, HoldersKnown, InHand, Finished
<1>4. NestedInOrder'
  BY <1>0, <1>a, <1>b DEF CacheTypeOK, HoldersKnown, InHand, NestedInOrder, OnTheWay
<1>5. DataCurrent'
  BY <1>0, <1>a, <1>b DEF CacheTypeOK, HoldersKnown, InHand, DataCurrent, Uses
<1>6. QueueIsWaiters'
  <2>1. \A c \in Buffers : Waiting(c)' <=> Waiting(c)
    BY <1>0, <1>a, <1>b DEF CacheTypeOK, HoldersKnown, InHand, Finished, Waiting
  <2> QED
    BY <1>0, <2>1, QueueKept
<1>7. RefcntExact'
  <2>1. p \notin Users(b) /\ Users(b)' = Users(b) \cup {p}
    BY <1>0, <1>a, <1>b DEF CacheTypeOK, Uses, Users
  <2>2. \A c \in Buffers \ {b} : Users(c)' = Users(c)
    BY <1>0, <1>a, <1>b DEF CacheTypeOK, Uses, Users
  <2>3. Cardinality(Users(b)') = buf[b].refcnt + 1
    BY <2>1, CountFacts DEF RefcntExact
  <2> QED
    BY <1>0, <1>a, <1>b, <2>2, <2>3 DEF RefcntExact
<1> QED
  BY <1>1, <1>2, <1>3, <1>4, <1>5, <1>6, <1>7

\* GetRecycled keeps the invariant.
LEMMA GetRecycledKeeps ==
  ASSUME CacheInvariant, NEW p \in Procs, NEW k \in Blocks, GetRecycled(p, k)
  PROVE  CacheInvariant'
<1> USE NumberFacts DEF CacheInvariant
<1>0. PICK b \in Buffers :
         /\ buf[b].refcnt = 0 /\ ~buf[b].dirty /\ at' = [at EXCEPT ![p] = b]
         /\ buf' = [buf EXCEPT ![b].block = k, ![b].refcnt = 1, ![b].valid = FALSE, ![b].dirty = FALSE]
         /\ pc' = [pc EXCEPT ![p] = "lock"]
         /\ UNCHANGED <<lru, queue, disk, held, panicked>>
  BY DEF GetRecycled, Unused
<1>a. /\ pc[p] = "run" /\ \A c \in held[p] : buf[c].block < k
      /\ \A c \in Buffers : buf[c].block # k
      /\ \A q \in Procs : ~Uses(q, b) /\ ~InHand(q, b)
  BY <1>0, UnusedFacts DEF GetRecycled, MayTake, Caching
<1>b. /\ \A c \in Buffers \ {b} : buf'[c] = buf[c]
      /\ buf'[b].block = k /\ buf'[b].refcnt = 1 /\ buf'[b].valid = FALSE
      /\ buf'[b].dirty = FALSE /\ buf'[b].holder = buf[b].holder /\ buf'[b].data = buf[b].data
  BY <1>0 DEF CacheTypeOK, Buf
<1>c. buf[b].holder = NoProc
  BY <1>a DEF HoldersKnown, CacheTypeOK, Buf
<1>1. CacheTypeOK'
  <2>1. buf[b] \in Buf
    BY DEF CacheTypeOK
  <2>2. [buf[b] EXCEPT !.block = k, !.refcnt = 1, !.valid = FALSE, !.dirty = FALSE] \in Buf
    BY <2>1, FieldTypes, ZenonT(40) DEF CacheTypeOK, Buf, Finished
  <2>3. buf' = [buf EXCEPT ![b] = [buf[b] EXCEPT !.block = k, !.refcnt = 1, !.valid = FALSE, !.dirty = FALSE]]
    BY <2>1, <1>0 DEF CacheTypeOK, Buf
  <2> QED
    BY <2>2, <2>3, <1>0 DEF CacheTypeOK
<1>2. OneBufferPerBlock'
  BY <1>0, <1>a, <1>b, <1>c DEF CacheTypeOK, OneBufferPerBlock
<1>3. HoldersKnown'
  BY <1>0, <1>a, <1>b, <1>c, SMTT(30) DEF CacheTypeOK, HoldersKnown, InHand, Finished, Uses
<1>4. NestedInOrder'
  <2>1. ASSUME NEW q \in Procs, NEW c \in held[q] PROVE c \in Buffers \ {b} /\ buf'[c] = buf[c]
    BY <1>a, <1>b DEF CacheTypeOK, Uses
  <2>2. ASSUME NEW q \in Procs, q # p, pc[q] # "run" PROVE at[q] \in Buffers \ {b} /\ buf'[at[q]] = buf[at[q]]
    BY <1>a, <1>b, <2>2 DEF CacheTypeOK, Uses
  <2> QED
    BY <1>0, <1>a, <1>b, <1>c, <2>1, <2>2 DEF CacheTypeOK, NestedInOrder, OnTheWay
<1>5. DataCurrent'
  BY <1>0, <1>a, <1>b, <1>c DEF CacheTypeOK, HoldersKnown, InHand, DataCurrent, Uses
<1>6. QueueIsWaiters'
  <2>1. \A c \in Buffers : Waiting(c)' <=> Waiting(c)
    BY <1>0, <1>a, <1>b, <1>c DEF CacheTypeOK, Uses, Finished, Waiting
  <2> QED
    BY <1>0, <2>1, QueueKept
<1>7. RefcntExact'
  <2>1. Users(b)' = {p}
    BY <1>0, <1>a, <1>b, <1>c DEF CacheTypeOK, Uses, Users
  <2>2. \A c \in Buffers \ {b} : Users(c)' = Users(c)
    BY <1>0, <1>a, <1>b, <1>c DEF CacheTypeOK, Uses, Users
  <2>3. Cardinality(Users(b)') = 1
    BY <2>1, FS_Singleton
  <2> QED
    BY <1>0, <1>a, <1>b, <1>c, <2>2, <2>3, ZenonT(40) DEF RefcntExact
<1> QED
  BY <1>1, <1>2, <1>3, <1>4, <1>5, <1>6, <1>7

\* GetPanics keeps the invariant.
LEMMA GetPanicsKeeps ==
  ASSUME CacheInvariant, NEW p \in Procs, NEW k \in Blocks, GetPanics(p, k)
  PROVE  CacheInvariant'
<1> USE NumberFacts DEF CacheInvariant
<1>1. CacheTypeOK'
  BY DEF CacheTypeOK, GetPanics
<1>2. OneBufferPerBlock'
  BY DEF CacheTypeOK, OneBufferPerBlock, GetPanics
<1>3. HoldersKnown'
  BY DEF CacheTypeOK, HoldersKnown, InHand, Finished, GetPanics
<1>4. NestedInOrder'
  BY DEF CacheTypeOK, HoldersKnown, InHand, NestedInOrder, OnTheWay, GetPanics
<1>5. DataCurrent'
  BY DEF CacheTypeOK, HoldersKnown, InHand, DataCurrent, Uses, GetPanics
<1>6. QueueIsWaiters'
  <2>1. \A c \in Buffers : Waiting(c)' <=> Waiting(c)
    BY DEF CacheTypeOK, HoldersKnown, InHand, Finished, Waiting, GetPanics
  <2> QED
    BY <2>1, QueueKept DEF GetPanics
<1>7. RefcntExact'
  <2>1. \A c \in Buffers : Users(c)' = Users(c)
    BY DEF CacheTypeOK, HoldersKnown, InHand, Uses, Users, GetPanics
  <2>2. \A c \in Buffers : buf'[c].refcnt = buf[c].refcnt
    BY DEF CacheTypeOK, Buf, GetPanics
  <2> QED
    BY <2>1, <2>2, RefcntKept
<1> QED
  BY <1>1, <1>2, <1>3, <1>4, <1>5, <1>6, <1>7

-----------------------------------------------------------------------------
(* The sleep-lock                                                           *)
LEMMA LockKeeps ==
  ASSUME CacheInvariant, NEW p \in Procs, Lock(p)
  PROVE  CacheInvariant'
<1> USE NumberFacts DEF CacheInvariant
<1>0. /\ pc[p] = "lock" /\ buf[at[p]].holder = NoProc
      /\ buf' = [buf EXCEPT ![at[p]].holder = p]
      /\ pc' = [pc EXCEPT ![p] = IF buf[at[p]].valid THEN "run" ELSE "start"]
      /\ held' = [held EXCEPT ![p] = IF buf[at[p]].valid THEN @ \cup {at[p]} ELSE @]
      /\ UNCHANGED <<lru, queue, disk, at, panicked>>
  BY DEF Lock, Trying
<1>b. /\ \A c \in Buffers : /\ c # at[p] => buf'[c] = buf[c]
                            /\ buf'[c].block = buf[c].block /\ buf'[c].valid = buf[c].valid
                            /\ buf'[c].dirty = buf[c].dirty /\ buf'[c].refcnt = buf[c].refcnt
                            /\ buf'[c].data = buf[c].data
      /\ buf'[at[p]].holder = p
  BY <1>0 DEF CacheTypeOK, Buf
<1>1. CacheTypeOK'
  <2>1. buf[at[p]] \in Buf
    BY DEF CacheTypeOK
  <2>2. [buf[at[p]] EXCEPT !.holder = p] \in Buf
    BY <2>1, FieldTypes DEF CacheTypeOK, Buf, Finished
  <2>3. buf' = [buf EXCEPT ![at[p]] = [buf[at[p]] EXCEPT !.holder = p]]
    BY <2>1, <1>0 DEF CacheTypeOK, Buf
  <2> QED
    BY <2>2, <2>3, <1>0 DEF CacheTypeOK
<1>2. OneBufferPerBlock'
  BY <1>0, <1>b DEF CacheTypeOK, OneBufferPerBlock
<1>3. HoldersKnown'
  BY <1>0, <1>b DEF CacheTypeOK, HoldersKnown, InHand, Finished
<1>4. NestedInOrder'
  BY <1>0, <1>b DEF CacheTypeOK, HoldersKnown, InHand, NestedInOrder, OnTheWay
<1>5. DataCurrent'
  BY <1>0, <1>b DEF CacheTypeOK, HoldersKnown, InHand, DataCurrent, Uses
<1>6. QueueIsWaiters'
  <2>1. \A c \in Buffers : Waiting(c)' <=> Waiting(c)
    BY <1>0, <1>b DEF CacheTypeOK, HoldersKnown, InHand, Finished, Waiting
  <2> QED
    BY <1>0, <2>1, QueueKept
<1>7. RefcntExact'
  <2>1. \A c \in Buffers : Users(c)' = Users(c)
    BY <1>0, <1>b DEF CacheTypeOK, HoldersKnown, InHand, Uses, Users
  <2> QED
    BY <1>0, <1>b, <2>1, RefcntKept
<1> QED
  BY <1>1, <1>2, <1>3, <1>4, <1>5, <1>6, <1>7

\* LockSleep keeps the invariant.
LEMMA LockSleepKeeps ==
  ASSUME CacheInvariant, NEW p \in Procs, LockSleep(p)
  PROVE  CacheInvariant'
<1> USE NumberFacts DEF CacheInvariant
<1>1. CacheTypeOK'
  BY DEF CacheTypeOK, LockSleep, Trying
<1>2. OneBufferPerBlock'
  BY DEF CacheTypeOK, OneBufferPerBlock, LockSleep, Trying
<1>3. HoldersKnown'
  BY DEF CacheTypeOK, HoldersKnown, InHand, Finished, LockSleep, Trying
<1>4. NestedInOrder'
  BY DEF CacheTypeOK, HoldersKnown, InHand, NestedInOrder, OnTheWay, LockSleep, Trying
<1>5. DataCurrent'
  BY DEF CacheTypeOK, HoldersKnown, InHand, DataCurrent, Uses, LockSleep, Trying
<1>6. QueueIsWaiters'
  <2>1. \A c \in Buffers : Waiting(c)' <=> Waiting(c)
    BY DEF CacheTypeOK, HoldersKnown, InHand, Finished, Waiting, LockSleep, Trying
  <2> QED
    BY <2>1, QueueKept DEF LockSleep, Trying
<1>7. RefcntExact'
  <2>1. \A c \in Buffers : Users(c)' = Users(c)
    BY DEF CacheTypeOK, HoldersKnown, InHand, Uses, Users, LockSleep, Trying
  <2>2. \A c \in Buffers : buf'[c].refcnt = buf[c].refcnt
    BY DEF CacheTypeOK, Buf, LockSleep, Trying
  <2> QED
    BY <2>1, <2>2, RefcntKept
<1> QED
  BY <1>1, <1>2, <1>3, <1>4, <1>5, <1>6, <1>7

-----------------------------------------------------------------------------
(* The disk queue                                                           *)
LEMMA StartKeeps ==
  ASSUME CacheInvariant, NEW p \in Procs, Start(p)
  PROVE  CacheInvariant'
<1> USE NumberFacts DEF CacheInvariant
<1>1. CacheTypeOK'
  BY DEF CacheTypeOK, Start
<1>2. OneBufferPerBlock'
  BY DEF CacheTypeOK, OneBufferPerBlock, Start
<1>3. HoldersKnown'
  BY DEF CacheTypeOK, HoldersKnown, InHand, Finished, Start
<1>4. NestedInOrder'
  BY DEF CacheTypeOK, HoldersKnown, InHand, NestedInOrder, OnTheWay, Start
<1>5. DataCurrent'
  BY DEF CacheTypeOK, HoldersKnown, InHand, DataCurrent, Uses, Start
<1>6. QueueIsWaiters'
  <2>1. queue' = Append(queue, at[p]) /\ queue \in Seq(Buffers) /\ at[p] \in Buffers
    BY DEF Start, CacheTypeOK
  <2>2. ~Queued(at[p])
    BY SMTT(30) DEF Start, QueueIsWaiters, Waiting, HoldersKnown, InHand, CacheTypeOK
  <2>3. /\ \A c \in Buffers : Queued(c)' <=> Queued(c) \/ c = at[p]
        /\ \A i, j \in DOMAIN queue' : queue'[i] = queue'[j] => i = j
    BY <2>1, <2>2 DEF Queued, QueueIsWaiters
  <2>4. \A c \in Buffers : Waiting(c)' <=> Waiting(c) \/ c = at[p]
    BY DEF Start, CacheTypeOK, HoldersKnown, Waiting, Finished
  <2> QED
    BY <2>3, <2>4 DEF QueueIsWaiters
<1>7. RefcntExact'
  <2>1. \A c \in Buffers : Users(c)' = Users(c)
    BY DEF CacheTypeOK, HoldersKnown, InHand, Uses, Users, Start
  <2>2. \A c \in Buffers : buf'[c].refcnt = buf[c].refcnt
    BY DEF CacheTypeOK, Buf, Start
  <2> QED
    BY <2>1, <2>2, RefcntKept
<1> QED
  BY <1>1, <1>2, <1>3, <1>4, <1>5, <1>6, <1>7

\* Interrupt keeps the invariant.
LEMMA InterruptKeeps ==
  ASSUME CacheInvariant, Interrupt
  PROVE  CacheInvariant'
<1> USE NumberFacts DEF CacheInvariant
<1>0. PICK b \in Buffers :
      /\ b = queue[1] /\ 1 \in DOMAIN queue /\ queue' = Tail(queue)
      /\ disk' = IF buf[b].dirty THEN [disk EXCEPT ![buf[b].block] = buf[b].data] ELSE disk
      /\ buf' = [buf EXCEPT ![b].data = IF buf[b].dirty THEN @ ELSE disk[buf[b].block],
                            ![b].valid = TRUE, ![b].dirty = FALSE]
      /\ UNCHANGED <<lru, pc, at, held, panicked>>
  <2>1. queue # <<>> /\ queue \in Seq(Buffers)
    BY DEF Interrupt, CacheTypeOK
  <2>2. Head(queue) \in Buffers /\ Head(queue) = queue[1] /\ 1 \in DOMAIN queue
    BY <2>1
  <2> QED
    BY <2>2 DEF Interrupt
<1>a. PICK p \in Procs : pc[p] = "io" /\ at[p] = b /\ ~Finished(b) /\ InHand(p, b) /\ Uses(p, b)
  BY <1>0 DEF QueueIsWaiters, Queued, Waiting, InHand, Uses
<1>b. /\ \A c \in Buffers : /\ c # b => buf'[c] = buf[c]
                            /\ buf'[c].block = buf[c].block /\ buf'[c].holder = buf[c].holder
                            /\ buf'[c].refcnt = buf[c].refcnt
      /\ buf'[b].data = IF buf[b].dirty THEN buf[b].data ELSE disk[buf[b].block]
      /\ buf'[b].valid = TRUE /\ buf'[b].dirty = FALSE
  BY <1>0 DEF CacheTypeOK, Buf
<1>c. /\ buf[b].block \in Blocks /\ buf[b].data \in Values
      /\ buf[b].dirty \in BOOLEAN /\ \A c \in Buffers : buf[c].block \in Blocks \cup {NoBlock}
  BY <1>0, <1>a DEF DataCurrent, CacheTypeOK, Buf
<1>d. /\ UNCHANGED <<pc, at, held>> /\ b \in Buffers
      /\ \A q \in Procs : InHand(q, b) => q = p
      /\ \A c \in Buffers : buf[c].block = buf[b].block => c = b
  BY <1>0, <1>a, <1>c DEF HoldersKnown, OneBufferPerBlock
<1>e. \A k \in Blocks : disk'[k] = IF buf[b].dirty /\ k = buf[b].block THEN buf[b].data ELSE disk[k]
  BY <1>0, <1>c DEF CacheTypeOK
<1>1. CacheTypeOK'
  <2>1. buf[b] \in Buf /\ (IF buf[b].dirty THEN buf[b].data ELSE disk[buf[b].block]) \in Values
    BY <1>0, <1>c DEF CacheTypeOK
  <2>2. [buf[b] EXCEPT !.data = IF buf[b].dirty THEN @ ELSE disk[buf[b].block],
                       !.valid = TRUE, !.dirty = FALSE] \in Buf
    BY <2>1, FieldTypes, ZenonT(40) DEF Buf
  <2>3. buf' \in [Buffers -> Buf]
    <3>1. buf' = [buf EXCEPT ![b] = [buf[b] EXCEPT !.data = IF buf[b].dirty THEN @ ELSE disk[buf[b].block],
                                                   !.valid = TRUE, !.dirty = FALSE]]
      BY <1>0 DEF CacheTypeOK
    <3> QED
      BY <2>2, <3>1 DEF CacheTypeOK
  <2>4. disk' \in [Blocks -> Values] /\ queue' \in Seq(Buffers)
    BY <1>0, <1>c DEF CacheTypeOK
  <2> QED
    BY <1>0, <2>3, <2>4 DEF CacheTypeOK
<1>2. OneBufferPerBlock'
  BY <1>a, <1>b, <1>c, <1>d DEF CacheTypeOK, OneBufferPerBlock
<1>3. HoldersKnown'
  <2>1. \A q \in Procs, c \in Buffers : InHand(q, c)' <=> InHand(q, c)
    BY <1>d DEF InHand
  <2>2. \A c \in Buffers : buf'[c].holder = buf[c].holder /\ (buf[c].valid => buf'[c].valid)
    BY <1>b
  <2>3. \A q \in Procs : pc[q] = "start" => at[q] \in Buffers /\ at[q] # b
    BY <1>a, <1>d DEF InHand, CacheTypeOK
  <2>4. /\ \A c \in Buffers : (buf[c].holder # NoProc => InHand(buf[c].holder, c))'
        /\ \A q \in Procs, c \in Buffers : InHand(q, c)' => buf'[c].holder = q
    BY <1>d, <2>1, <2>2 DEF HoldersKnown, InHand
  <2>5. \A q \in Procs : \A c \in held'[q] : buf'[c].valid
    BY <1>d, <2>2 DEF HoldersKnown, CacheTypeOK
  <2>6. \A q \in Procs : pc[q] = "start" => ~Finished(at[q])'
    BY <1>b, <1>d, <2>3 DEF HoldersKnown, Finished
  <2> QED
    BY <1>d, <2>2, <2>4, <2>5, <2>6 DEF HoldersKnown, CacheTypeOK
<1>4. NestedInOrder'
  BY <1>a, <1>b, <1>c, <1>d DEF CacheTypeOK, HoldersKnown, InHand, NestedInOrder, OnTheWay
<1>5. DataCurrent'
  <2>1. \A q \in Procs, c \in Buffers : Uses(q, c)' => buf'[c].block # NoBlock
    BY <1>a, <1>b, <1>c, <1>d DEF DataCurrent, Uses
  <2>2. ASSUME NEW c \in Buffers, c # b, buf[c].block \in Blocks PROVE disk'[buf[c].block] = disk[buf[c].block]
    BY <1>d, <1>e, <2>2
  <2>3. disk'[buf[b].block] = buf'[b].data
    BY <1>b, <1>c, <1>e, <1>d
  <2> QED
    BY <1>a, <1>b, <1>c, <1>d, <2>1, <2>2, <2>3 DEF DataCurrent
<1>6. QueueIsWaiters'
  <2>a. /\ queue' = Tail(queue) /\ queue \in Seq(Buffers) /\ queue # <<>> /\ b = queue[1]
        /\ \A i, j \in DOMAIN queue : queue[i] = queue[j] => i = j
    BY <1>0 DEF QueueIsWaiters, CacheTypeOK
  <2>b. /\ Len(queue) \in Nat \ {0} /\ DOMAIN queue = 1 .. Len(queue) /\ DOMAIN queue' = 1 .. Len(queue) - 1
        /\ \A i \in 1 .. Len(queue) - 1 : queue'[i] = queue[i + 1]
    BY <2>a
  <2>c. \A i, j \in DOMAIN queue' : queue'[i] = queue'[j] => i = j
    BY <2>a, <2>b
  <2>d. \A c \in Buffers : Queued(c) /\ c # b => Queued(c)'
    <3> SUFFICES ASSUME NEW c \in Buffers, c # b, NEW i \in DOMAIN queue, queue[i] = c
                 PROVE  \E j \in DOMAIN queue' : queue'[j] = c
      BY DEF Queued
    <3>1. i # 1 /\ i - 1 \in DOMAIN queue' /\ queue'[i - 1] = c
      BY <2>a, <2>b
    <3> QED
      BY <3>1
  <2>e. \A c \in Buffers : Queued(c)' => Queued(c) /\ c # b
    BY <2>a, <2>b DEF Queued
  <2>1. /\ \A c \in Buffers : Queued(c)' <=> Queued(c) /\ c # b
        /\ \A i, j \in DOMAIN queue' : queue'[i] = queue'[j] => i = j
    BY <2>c, <2>d, <2>e
  <2>2. \A c \in Buffers : Waiting(c)' <=> Waiting(c) /\ c # b
    BY <1>a, <1>b, <1>c, <1>d DEF Waiting, Finished
  <2> QED
    BY <2>1, <2>2 DEF QueueIsWaiters
<1>7. RefcntExact'
  <2>1. \A c \in Buffers : Users(c)' = Users(c)
    BY <1>a, <1>b, <1>c, <1>d DEF CacheTypeOK, HoldersKnown, InHand, Uses, Users
  <2> QED
    BY <1>a, <1>b, <1>c, <1>d, <2>1, RefcntKept
<1> QED
  BY <1>1, <1>2, <1>3, <1>4, <1>5, <1>6, <1>7

\* IoDone keeps the invariant.
LEMMA IoDoneKeeps ==
  ASSUME CacheInvariant, NEW p \in Procs, IoDone(p)
  PROVE  CacheInvariant'
<1> USE NumberFacts DEF CacheInvariant
<1>1. CacheTypeOK'
  BY DEF CacheTypeOK, IoDone
<1>2. OneBufferPerBlock'
  BY DEF CacheTypeOK, OneBufferPerBlock, IoDone
<1>3. HoldersKnown'
  BY DEF CacheTypeOK, HoldersKnown, InHand, Finished, IoDone
<1>4. NestedInOrder'
  BY DEF CacheTypeOK, HoldersKnown, InHand, NestedInOrder, OnTheWay, IoDone
<1>5. DataCurrent'
  BY DEF CacheTypeOK, HoldersKnown, InHand, DataCurrent, Uses, IoDone
<1>6. QueueIsWaiters'
  <2>1. \A c \in Buffers : Waiting(c)' <=> Waiting(c)
    BY DEF CacheTypeOK, HoldersKnown, InHand, Finished, Waiting, IoDone
  <2> QED
    BY <2>1, QueueKept DEF IoDone
<1>7. RefcntExact'
  <2>1. \A c \in Buffers : Users(c)' = Users(c)
    BY DEF CacheTypeOK, HoldersKnown, InHand, Uses, Users, IoDone
  <2>2. \A c \in Buffers : buf'[c].refcnt = buf[c].refcnt
    BY DEF CacheTypeOK, Buf, IoDone
  <2> QED
    BY <2>1, <2>2, RefcntKept
<1> QED
  BY <1>1, <1>2, <1>3, <1>4, <1>5, <1>6, <1>7

-----------------------------------------------------------------------------
(* The holder of a buffer                                                   *)
LEMMA StoreKeeps ==
  ASSUME CacheInvariant, NEW p \in Procs, NEW b \in Buffers, NEW v \in Values, Store(p, b, v)
  PROVE  CacheInvariant'
<1> USE NumberFacts DEF CacheInvariant
<1>0. /\ pc[p] = "run" /\ b \in held[p]
      /\ buf' = [buf EXCEPT ![b].data = v, ![b].dirty = TRUE]
      /\ UNCHANGED <<lru, queue, disk, pc, at, held, panicked>>
  BY DEF Store, Holds
<1>b. \A c \in Buffers : /\ c # b => buf'[c] = buf[c]
                         /\ buf'[c].block = buf[c].block
                         /\ buf'[c].refcnt = buf[c].refcnt
                         /\ buf'[c].valid = buf[c].valid
                         /\ buf'[c].holder = buf[c].holder
                         /\ c = b => buf'[c].data = v
                         /\ c = b => buf'[c].dirty = TRUE
  BY <1>0 DEF CacheTypeOK, Buf
<1>1. CacheTypeOK'
  <2>1. buf[b] \in Buf
    BY DEF CacheTypeOK
  <2>2. [buf[b] EXCEPT !.data = v, !.dirty = TRUE] \in Buf
    BY <2>1, FieldTypes, ZenonT(40) DEF CacheTypeOK, Buf, Finished
  <2>3. buf' = [buf EXCEPT ![b] = [buf[b] EXCEPT !.data = v, !.dirty = TRUE]]
    BY <2>1, <1>0 DEF CacheTypeOK, Buf
  <2> QED
    BY <2>2, <2>3, <1>0 DEF CacheTypeOK
<1>2. OneBufferPerBlock'
  BY <1>0, <1>b DEF CacheTypeOK, OneBufferPerBlock
<1>3. HoldersKnown'
  BY <1>0, <1>b DEF CacheTypeOK, HoldersKnown, InHand, Finished
<1>4. NestedInOrder'
  BY <1>0, <1>b DEF CacheTypeOK, HoldersKnown, InHand, NestedInOrder, OnTheWay
<1>5. DataCurrent'
  BY <1>0, <1>b DEF CacheTypeOK, HoldersKnown, InHand, DataCurrent, Uses
<1>6. QueueIsWaiters'
  <2>1. \A c \in Buffers : Waiting(c)' <=> Waiting(c)
    BY <1>0, <1>b DEF CacheTypeOK, HoldersKnown, InHand, Finished, Waiting
  <2> QED
    BY <1>0, <2>1, QueueKept
<1>7. RefcntExact'
  <2>1. \A c \in Buffers : Users(c)' = Users(c)
    BY <1>0, <1>b DEF CacheTypeOK, HoldersKnown, InHand, Uses, Users
  <2> QED
    BY <1>0, <1>b, <2>1, RefcntKept
<1> QED
  BY <1>1, <1>2, <1>3, <1>4, <1>5, <1>6, <1>7

\* Bwrite keeps the invariant.
LEMMA BwriteKeeps ==
  ASSUME CacheInvariant, NEW p \in Procs, NEW b \in Buffers, Bwrite(p, b)
  PROVE  CacheInvariant'
<1> USE NumberFacts DEF CacheInvariant
<1>0. /\ pc[p] = "run" /\ b \in held[p]
      /\ buf' = [buf EXCEPT ![b].dirty = TRUE]
      /\ at' = [at EXCEPT ![p] = b]
      /\ pc' = [pc EXCEPT ![p] = "start"]
      /\ UNCHANGED <<lru, queue, disk, held, panicked>>
  BY DEF Bwrite, Holds
<1>b. \A c \in Buffers : /\ c # b => buf'[c] = buf[c]
                         /\ buf'[c].block = buf[c].block
                         /\ buf'[c].refcnt = buf[c].refcnt
                         /\ buf'[c].valid = buf[c].valid
                         /\ buf'[c].holder = buf[c].holder
                         /\ buf'[c].data = buf[c].data
                         /\ c = b => buf'[c].dirty = TRUE
  BY <1>0 DEF CacheTypeOK, Buf
<1>1. CacheTypeOK'
  <2>1. buf[b] \in Buf
    BY DEF CacheTypeOK
  <2>2. [buf[b] EXCEPT !.dirty = TRUE] \in Buf
    BY <2>1, FieldTypes DEF CacheTypeOK, Buf, Finished
  <2>3. buf' = [buf EXCEPT ![b] = [buf[b] EXCEPT !.dirty = TRUE]]
    BY <2>1, <1>0 DEF CacheTypeOK, Buf
  <2> QED
    BY <2>2, <2>3, <1>0 DEF CacheTypeOK
<1>2. OneBufferPerBlock'
  BY <1>0, <1>b DEF CacheTypeOK, OneBufferPerBlock
<1>3. HoldersKnown'
  BY <1>0, <1>b DEF CacheTypeOK, HoldersKnown, InHand, Finished
<1>4. NestedInOrder'
  BY <1>0, <1>b DEF CacheTypeOK, HoldersKnown, InHand, NestedInOrder, OnTheWay
<1>5. DataCurrent'
  BY <1>0, <1>b DEF CacheTypeOK, HoldersKnown, InHand, DataCurrent, Uses
<1>6. QueueIsWaiters'
  <2>1. \A q \in Procs : ~(pc[q] = "io" /\ at[q] = b)
    BY <1>0 DEF HoldersKnown, InHand
  <2>2. \A c \in Buffers : Waiting(c)' <=> Waiting(c)
    BY <1>0, <1>b, <2>1 DEF CacheTypeOK, Finished, Waiting
  <2> QED
    BY <1>0, <2>2, QueueKept
<1>7. RefcntExact'
  <2>1. \A c \in Buffers : Users(c)' = Users(c)
    BY <1>0, <1>b DEF CacheTypeOK, HoldersKnown, InHand, Uses, Users
  <2> QED
    BY <1>0, <1>b, <2>1, RefcntKept
<1> QED
  BY <1>1, <1>2, <1>3, <1>4, <1>5, <1>6, <1>7

\* Release keeps the invariant.
LEMMA ReleaseKeeps ==
  ASSUME CacheInvariant, NEW p \in Procs, NEW b \in Buffers, Release(p, b)
  PROVE  CacheInvariant'
<1> USE NumberFacts DEF CacheInvariant
<1>0. /\ pc[p] = "run" /\ b \in held[p]
      /\ buf' = [buf EXCEPT ![b].holder = NoProc]
      /\ held' = [held EXCEPT ![p] = @ \ {b}]
      /\ at' = [at EXCEPT ![p] = b]
      /\ pc' = [q \in Procs |-> IF q = p THEN "deref"
                                ELSE IF pc[q] = "asleep" /\ at[q] = b THEN "lock" ELSE pc[q]]
      /\ UNCHANGED <<lru, queue, disk, panicked>>
  BY DEF Release, Holds
<1>b. \A c \in Buffers : /\ c # b => buf'[c] = buf[c]
                         /\ buf'[c].block = buf[c].block
                         /\ buf'[c].refcnt = buf[c].refcnt
                         /\ buf'[c].valid = buf[c].valid
                         /\ buf'[c].dirty = buf[c].dirty
                         /\ buf'[c].data = buf[c].data
                         /\ c = b => buf'[c].holder = NoProc
  BY <1>0 DEF CacheTypeOK, Buf
<1>1. CacheTypeOK'
  <2>1. buf[b] \in Buf
    BY DEF CacheTypeOK
  <2>2. [buf[b] EXCEPT !.holder = NoProc] \in Buf
    BY <2>1, FieldTypes DEF CacheTypeOK, Buf, Finished
  <2>3. buf' = [buf EXCEPT ![b] = [buf[b] EXCEPT !.holder = NoProc]]
    BY <2>1, <1>0 DEF CacheTypeOK, Buf
  <2> QED
    BY <2>2, <2>3, <1>0 DEF CacheTypeOK
<1>2. OneBufferPerBlock'
  BY <1>0, <1>b DEF CacheTypeOK, OneBufferPerBlock
<1>3. HoldersKnown'
  <2>1. \A q \in Procs, c \in Buffers : InHand(q, c)' <=> InHand(q, c) /\ c # b
    BY <1>0 DEF CacheTypeOK, HoldersKnown, InHand
  <2>2. \A c \in Buffers : buf'[c].holder = IF c = b THEN NoProc ELSE buf[c].holder
    BY <1>b
  <2>3. /\ \A c \in Buffers : (buf[c].holder # NoProc => InHand(buf[c].holder, c))'
        /\ \A q \in Procs, c \in Buffers : InHand(q, c)' => buf'[c].holder = q
    <3> USE DEF HoldersKnown
    <3>1. ASSUME NEW c \in Buffers, buf'[c].holder # NoProc PROVE InHand(buf[c].holder, c)'
      <4>1. c # b /\ buf'[c].holder = buf[c].holder /\ buf[c].holder \in Procs
        BY <2>2, <3>1 DEF CacheTypeOK, Buf
      <4>2. PICK h \in Procs : h = buf[c].holder /\ h = buf'[c].holder
        BY <4>1
      <4>3. InHand(h, c)'
        BY <4>1, <4>2, <2>1
      <4> QED
        BY <4>2, <4>3
    <3> QED
      BY <2>1, <2>2, <3>1
  <2>4. \A q \in Procs : /\ \A c \in held'[q] : buf'[c].valid
                         /\ pc'[q] = "deref" => at'[q] \notin held'[q]
    BY <1>0, <1>b DEF CacheTypeOK, HoldersKnown
  <2>5. \A q \in Procs : /\ pc'[q] = "start" => ~Finished(at[q])'
                         /\ pc'[q] = "asleep" => buf'[at'[q]].holder # NoProc
    BY <1>0, <1>b DEF CacheTypeOK, HoldersKnown, Finished
  <2> QED
    BY <2>3, <2>4, <2>5 DEF HoldersKnown, Finished
<1>4. NestedInOrder'
  BY <1>0, <1>b DEF CacheTypeOK, HoldersKnown, InHand, NestedInOrder, OnTheWay
<1>5. DataCurrent'
  BY <1>0, <1>b DEF CacheTypeOK, HoldersKnown, InHand, DataCurrent, Uses
<1>6. QueueIsWaiters'
  <2>1. \A c \in Buffers : Waiting(c)' <=> Waiting(c)
    BY <1>0, <1>b DEF CacheTypeOK, HoldersKnown, InHand, Finished, Waiting
  <2> QED
    BY <1>0, <2>1, QueueKept
<1>7. RefcntExact'
  <2>1. \A c \in Buffers : Users(c)' = Users(c)
    BY <1>0, <1>b DEF CacheTypeOK, HoldersKnown, InHand, Uses, Users
  <2> QED
    BY <1>0, <1>b, <2>1, RefcntKept
<1> QED
  BY <1>1, <1>2, <1>3, <1>4, <1>5, <1>6, <1>7

\* Deref keeps the invariant.
LEMMA DerefKeeps ==
  ASSUME CacheInvariant, NEW p \in Procs, Deref(p)
  PROVE  CacheInvariant'
<1> USE NumberFacts DEF CacheInvariant
<1>0. PICK b \in Buffers :
      /\ b = at[p] /\ pc[p] = "deref" /\ b \notin held[p]
      /\ buf' = [buf EXCEPT ![b].refcnt = @ - 1]
      /\ lru' = IF buf[b].refcnt = 1 THEN MoveToFront(b) ELSE lru
      /\ pc' = [pc EXCEPT ![p] = "run"]
      /\ UNCHANGED <<queue, disk, at, held, panicked>>
  BY DEF Deref, CacheTypeOK, HoldersKnown
<1>a. /\ p \in Users(b) /\ buf[b].refcnt = Cardinality(Users(b)) /\ buf[b].refcnt - 1 \in Nat
      /\ Cardinality(Users(b) \ {p}) = buf[b].refcnt - 1
  <2>1. p \in Users(b) /\ buf[b].refcnt = Cardinality(Users(b))
    BY <1>0 DEF Users, Uses, RefcntExact
  <2> QED
    BY <1>0, <2>1, CountFacts
<1>b. /\ \A c \in Buffers : /\ c # b => buf'[c] = buf[c]
                            /\ buf'[c].block = buf[c].block /\ buf'[c].valid = buf[c].valid
                            /\ buf'[c].dirty = buf[c].dirty /\ buf'[c].holder = buf[c].holder
                            /\ buf'[c].data = buf[c].data
      /\ buf'[b].refcnt = buf[b].refcnt - 1
  BY <1>0 DEF CacheTypeOK, Buf
<1>1. CacheTypeOK'
  <2>1. buf[b] \in Buf
    BY <1>0 DEF CacheTypeOK
  <2>1a. [buf[b] EXCEPT !.refcnt = buf[b].refcnt - 1] \in Buf
    BY <1>a, <2>1, FieldTypes
  <2>1b. buf' = [buf EXCEPT ![b] = [buf[b] EXCEPT !.refcnt = buf[b].refcnt - 1]]
    BY <1>0, <2>1 DEF CacheTypeOK, Buf
  <2>2. buf' \in [Buffers -> Buf]
    BY <1>0, <2>1a, <2>1b DEF CacheTypeOK
  <2>3. lru' \in [1 .. NBUF -> Buffers] /\ \A c \in Buffers : \E i \in 1 .. NBUF : lru'[i] = c
    <3>1. CASE buf[b].refcnt = 1
      BY <1>0, <3>1, FrontFacts
    <3>2. CASE buf[b].refcnt # 1
      BY <1>0, <3>2 DEF CacheTypeOK
    <3> QED
      BY <3>1, <3>2
  <2> QED
    BY <1>0, <2>2, <2>3 DEF CacheTypeOK
<1>2. OneBufferPerBlock'
  BY <1>0, <1>a, <1>b DEF CacheTypeOK, OneBufferPerBlock
<1>3. HoldersKnown'
  BY <1>0, <1>a, <1>b DEF CacheTypeOK, HoldersKnown, InHand, Finished
<1>4. NestedInOrder'
  BY <1>0, <1>a, <1>b DEF CacheTypeOK, HoldersKnown, InHand, NestedInOrder, OnTheWay
<1>5. DataCurrent'
  BY <1>0, <1>a, <1>b DEF CacheTypeOK, HoldersKnown, InHand, DataCurrent, Uses
<1>6. QueueIsWaiters'
  <2>1. \A c \in Buffers : Waiting(c)' <=> Waiting(c)
    BY <1>0, <1>a, <1>b DEF CacheTypeOK, HoldersKnown, InHand, Finished, Waiting
  <2> QED
    BY <1>0, <2>1, QueueKept
<1>7. RefcntExact'
  <2>1. Users(b)' = Users(b) \ {p}
    BY <1>0 DEF CacheTypeOK, Uses, Users
  <2>2. \A c \in Buffers \ {b} : Users(c)' = Users(c)
    BY <1>0 DEF CacheTypeOK, Uses, Users
  <2>3. ASSUME NEW c \in Buffers PROVE buf'[c].refcnt = Cardinality(Users(c)')
    <3>1. CASE c = b
      BY <1>a, <1>b, <2>1, <3>1
    <3>2. CASE c # b
      BY <1>b, <2>2, <3>2 DEF RefcntExact
    <3> QED
      BY <3>1, <3>2
  <2> QED
    BY <2>3 DEF RefcntExact
<1> QED
  BY <1>1, <1>2, <1>3, <1>4, <1>5, <1>6, <1>7

-----------------------------------------------------------------------------
\* The invariant holds after binit.
LEMMA InitInvariant == Init => CacheInvariant
<1> SUFFICES ASSUME Init PROVE CacheInvariant
  OBVIOUS
<1> USE NumberFacts DEF Init
<1>1. CacheTypeOK
  <2>1. NBUF \in Nat \ {0} /\ 1 \in Buffers /\ Blank \in Values
    BY CacheSizes DEF Buffers
  <2>2. /\ lru \in [1 .. NBUF -> Buffers]
        /\ \A b \in Buffers : lru[NBUF + 1 - b] = b /\ NBUF + 1 - b \in 1 .. NBUF
    BY <2>1 DEF Buffers
  <2>3. buf \in [Buffers -> Buf]
    BY <2>1 DEF Buf
  <2>4. \A b \in Buffers : \E i \in 1 .. NBUF : lru[i] = b
    BY <2>2
  <2>5. queue \in Seq(Buffers) /\ disk \in [Blocks -> Values] /\ held \in [Procs -> SUBSET Buffers]
    BY <2>1
  <2>6. pc \in [Procs -> {"run", "lock", "asleep", "start", "io", "deref"}] /\ at \in [Procs -> Buffers]
    BY <2>1
  <2> HIDE DEF Init
  <2> QED
    BY <2>2, <2>3, <2>4, <2>5, <2>6 DEF CacheTypeOK, Init
<1>2. OneBufferPerBlock /\ HoldersKnown /\ NestedInOrder /\ DataCurrent
  BY DEF OneBufferPerBlock, HoldersKnown, InHand, NestedInOrder, OnTheWay, DataCurrent, Uses
<1>3. QueueIsWaiters
  BY DEF QueueIsWaiters, Queued, Waiting
<1>4. RefcntExact
  <2>1. \A b \in Buffers : Users(b) = {}
    BY DEF Users, Uses
  <2> QED
    BY <2>1, FS_EmptySet DEF RefcntExact
<1> QED
  BY <1>1, <1>2, <1>3, <1>4 DEF CacheInvariant

\* What one step can be.
LEMMA NextCases ==
  ASSUME [Next]_vars
  PROVE  \/ UNCHANGED vars
         \/ Interrupt
         \/ \E p \in Procs : \/ Lock(p) \/ LockSleep(p) \/ Start(p) \/ IoDone(p) \/ Deref(p)
                             \/ \E k \in Blocks : GetCached(p, k) \/ GetRecycled(p, k) \/ GetPanics(p, k)
                             \/ \E b \in Buffers : \/ Release(p, b) \/ Bwrite(p, b)
                                                   \/ \E v \in Values : Store(p, b, v)
BY DEF Next, Step, Get

\* Every step keeps the invariant.
LEMMA NextKeeps == CacheInvariant /\ [Next]_vars => CacheInvariant'
<1> SUFFICES ASSUME CacheInvariant, [Next]_vars PROVE CacheInvariant'
  OBVIOUS
<1>1. CASE UNCHANGED vars
  BY <1>1 DEF vars, CacheInvariant, CacheTypeOK, OneBufferPerBlock, RefcntExact, Users, Uses, HoldersKnown,
              InHand, Finished, NestedInOrder, OnTheWay, DataCurrent, QueueIsWaiters, Queued, Waiting
<1>2. ASSUME NEW p \in Procs, Lock(p) \/ LockSleep(p) \/ Start(p) \/ IoDone(p) \/ Deref(p)
      PROVE  CacheInvariant'
  BY <1>2, LockKeeps, LockSleepKeeps, StartKeeps, IoDoneKeeps, DerefKeeps
<1>3. ASSUME NEW p \in Procs, NEW k \in Blocks, GetCached(p, k) \/ GetRecycled(p, k) \/ GetPanics(p, k)
      PROVE  CacheInvariant'
  BY <1>3, GetCachedKeeps, GetRecycledKeeps, GetPanicsKeeps
<1>4. ASSUME NEW p \in Procs, NEW b \in Buffers, Release(p, b) \/ Bwrite(p, b)
      PROVE  CacheInvariant'
  BY <1>4, ReleaseKeeps, BwriteKeeps
<1>5. ASSUME NEW p \in Procs, NEW b \in Buffers, NEW v \in Values, Store(p, b, v)
      PROVE  CacheInvariant'
  BY <1>5, StoreKeeps
<1> QED
  BY <1>1, <1>2, <1>3, <1>4, <1>5, InterruptKeeps, NextCases

\* One buffer per block, exact reference counts, locks and contents, and in the disk
\* queue just the buffers whose holder waits, at every step.
THEOREM CacheSafe == Spec => []CacheInvariant
  BY InitInvariant, NextKeeps, PTL DEF Spec

-----------------------------------------------------------------------------
\* A process asleep on a sleep-lock sleeps because of a holder, and no two of them wait
\* for each other: each has blocks that come before the one it waits for.
THEOREM NoDeadlock == Spec => []NobodyStuck
<1>1. CacheInvariant => NobodyStuck
  <2> SUFFICES ASSUME CacheInvariant, NEW p \in Procs, pc[p] = "asleep"
               PROVE  /\ SleepsOn(p) \in Procs \ {p}
                      /\ pc[SleepsOn(p)] = "asleep" => SleepsOn(SleepsOn(p)) # p
    BY DEF NobodyStuck
  <2> USE NumberFacts DEF CacheInvariant
  <2>1. \A r \in Procs, b \in Buffers : pc[r] = "asleep" /\ buf[b].holder = r => b \in held[r]
    BY DEF HoldersKnown, InHand
  <2>2. \A b \in Buffers : buf[b].block \in Nat
    <3>1. \A b \in Buffers : buf[b].block \in Blocks \cup {NoBlock}
      BY DEF CacheTypeOK, Buf
    <3> QED
      BY <3>1
  <2>3. \A r \in Procs : pc[r] = "asleep" =>
          at[r] \in Buffers /\ \A b \in held[r] : b \in Buffers /\ buf[b].block < buf[at[r]].block
    BY DEF NestedInOrder, OnTheWay, CacheTypeOK
  <2>4. SleepsOn(p) \in Procs
    BY DEF SleepsOn, HoldersKnown, CacheTypeOK, Buf
  <2>5. SleepsOn(p) # p
    BY <2>1, <2>2, <2>3 DEF SleepsOn
  <2>6. ASSUME pc[SleepsOn(p)] = "asleep", SleepsOn(SleepsOn(p)) = p PROVE FALSE
    <3>1. PICK q \in Procs : q = SleepsOn(p)
      BY <2>4
    <3>2. at[p] \in held[q] /\ at[q] \in held[p]
      BY <2>1, <2>3, <2>6, <3>1 DEF SleepsOn
    <3>3. buf[at[p]].block < buf[at[q]].block /\ buf[at[q]].block < buf[at[p]].block
      BY <2>3, <2>6, <3>1, <3>2
    <3> QED
      BY <2>2, <2>3, <2>6, <3>1, <3>3
  <2> QED
    BY <2>4, <2>5, <2>6
<1> QED
  BY <1>1, CacheSafe, PTL

-----------------------------------------------------------------------------
\* bget panics only in a state in which every buffer is in use or dirty: none is leaked.
THEOREM PanicsWhenFull == Spec => []PanicOnlyWhenFull
<1>1. Init => PanicOnlyWhenFull
  BY DEF Init, PanicOnlyWhenFull
<1>2. CacheInvariant /\ PanicOnlyWhenFull /\ [Next]_vars => PanicOnlyWhenFull'
  <2> SUFFICES ASSUME CacheInvariant, PanicOnlyWhenFull, [Next]_vars, panicked'
               PROVE  \A b \in Buffers : buf'[b].dirty \/ \E p \in Procs : Uses(p, b)'
    BY DEF PanicOnlyWhenFull
  <2>1. CASE UNCHANGED vars
    BY <2>1 DEF vars, PanicOnlyWhenFull, Uses
  <2>2. ASSUME NEW p \in Procs, NEW k \in Blocks, GetPanics(p, k)
        PROVE  \A b \in Buffers : buf'[b].dirty \/ \E q \in Procs : Uses(q, b)'
    <3>1. \A b \in Buffers : buf[b].refcnt # 0 => Users(b) # {}
      BY CountFacts DEF CacheInvariant, RefcntExact
    <3>2. \A b \in Buffers : buf[b].refcnt # 0 \/ buf[b].dirty
      BY <2>2 DEF GetPanics, Unused
    <3> QED
      BY <2>2, <3>1, <3>2 DEF GetPanics, Users, Uses
  <2>3. UNCHANGED vars \/ \E p \in Procs, k \in Blocks : GetPanics(p, k)
    <3>1. ~panicked => \/ UNCHANGED vars
                       \/ \E p \in Procs, k \in Blocks : GetPanics(p, k)
      BY NextCases, ZenonT(40) DEF vars, Interrupt, Lock, LockSleep, Start, IoDone, Deref, GetCached, GetRecycled,
                       Release, Bwrite, Store
    <3>2. panicked => UNCHANGED vars
      BY NextCases DEF Interrupt, Lock, LockSleep, Trying, Start, IoDone, Deref, GetCached, GetRecycled,
                       GetPanics, MayTake, Holds, Release, Bwrite, Store
    <3> QED
      BY <3>1, <3>2
  <2> QED
    BY <2>1, <2>2, <2>3
<1> QED
  BY <1>1, <1>2, CacheSafe, PTL DEF Spec

-----------------------------------------------------------------------------
(* The refinement: what Content and Sees are in this state and in the next. *)

ContentIs ==
  /\ Content = [k \in Blocks |-> Content[k]]
  /\ \A b \in Buffers : buf[b].valid => Content[buf[b].block] = buf[b].data
  /\ \A k \in Blocks : (\A b \in Buffers : buf[b].valid => buf[b].block # k) => Content[k] = disk[k]

SeesIs ==
  /\ Sees = [p \in Procs |-> [k \in Blocks |-> Sees[p][k]]]
  /\ \A p \in Procs : \A b \in held[p] : Sees[p][buf[b].block] = buf[b].data
  /\ \A p \in Procs, k \in Blocks : (\A b \in held[p] : buf[b].block # k) => Sees[p][k] = NothingSeen

\* A buffer in use, or with content, has a block.
LEMMA HasBlock ==
  ASSUME CacheInvariant
  PROVE  /\ \A b \in Buffers : buf[b].valid => buf[b].block \in Blocks
         /\ \A p \in Procs : \A b \in held[p] : b \in Buffers /\ buf[b].valid /\ buf[b].block \in Blocks
BY NumberFacts DEF CacheInvariant, CacheTypeOK, Buf, DataCurrent, HoldersKnown

\* Under the invariant the two mapped variables are the functions they are defined to
\* be.
LEMMA MappedFacts == CacheInvariant => ContentIs /\ SeesIs
<1> SUFFICES ASSUME CacheInvariant PROVE ContentIs /\ SeesIs
  OBVIOUS
<1> USE NumberFacts
<1>1. Content = [k \in Blocks |-> Content[k]] /\ Sees = [p \in Procs |-> [k \in Blocks |-> Sees[p][k]]]
  BY DEF Content, Sees
<1>2. ASSUME NEW b \in Buffers, buf[b].valid PROVE Content[buf[b].block] = buf[b].data
  <2>1. buf[b].block \in Blocks
    BY <1>2, HasBlock
  <2>2. {c \in Caching(buf[b].block) : buf[c].valid} = {b}
    BY <1>2, <2>1 DEF Caching, OneBufferPerBlock, CacheInvariant
  <2> QED
    BY <2>1, <2>2 DEF Content
<1>3. ASSUME NEW k \in Blocks, \A b \in Buffers : buf[b].valid => buf[b].block # k
      PROVE  Content[k] = disk[k]
  <2>1. {c \in Caching(k) : buf[c].valid} = {}
    BY <1>3 DEF Caching
  <2> QED
    BY <2>1 DEF Content
<1>4. ASSUME NEW p \in Procs, NEW b \in held[p] PROVE Sees[p][buf[b].block] = buf[b].data
  <2>1. buf[b].block \in Blocks /\ \A c \in held[p] : c \in Buffers
    BY HasBlock
  <2>2. {c \in held[p] : buf[c].block = buf[b].block} = {b}
    BY <2>1 DEF OneBufferPerBlock, CacheInvariant
  <2> QED
    BY <2>1, <2>2 DEF Sees
<1>5. ASSUME NEW p \in Procs, NEW k \in Blocks, \A b \in held[p] : buf[b].block # k
      PROVE  Sees[p][k] = NothingSeen
  <2>1. {c \in held[p] : buf[c].block = k} = {}
    BY <1>5
  <2> QED
    BY <2>1 DEF Sees
<1> QED
  BY <1>1, <1>2, <1>3, <1>4, <1>5 DEF ContentIs, SeesIs

\* The same after a step.
LEMMA MappedFactsNext == CacheInvariant' => (ContentIs /\ SeesIs)'
  BY MappedFacts, PTL

\* A valid buffer and a buffer in hands cache a block, after a step too.
LEMMA HasBlockNext == CacheInvariant' =>
         /\ \A b \in Buffers : buf'[b].valid => buf'[b].block \in Blocks
         /\ \A p \in Procs : \A b \in held'[p] : b \in Buffers /\ buf'[b].valid /\ buf'[b].block \in Blocks
BY NumberFacts DEF CacheInvariant, CacheTypeOK, Buf, DataCurrent, HoldersKnown

-----------------------------------------------------------------------------
(* The steps. Content and Sees only depend on the disk, on what is held and *)
(* on the block, the validity and the data of each buffer.                  *)
LEMMA InitMaps == Init => BS!BSInit
<1> SUFFICES ASSUME Init PROVE BS!BSInit
  OBVIOUS
<1>1. CacheInvariant
  BY InitInvariant
<1>2. ContentIs /\ SeesIs
  BY <1>1, MappedFacts
<1>3. \A k \in Blocks : Content[k] = disk[k] /\ disk[k] \in Values
  BY <1>2, CacheSizes DEF Init, ContentIs
<1>4. \A p \in Procs, k \in Blocks : Sees[p][k] = NothingSeen
  BY <1>2 DEF Init, SeesIs
<1>5. Content \in [Blocks -> Values]
  BY <1>2, <1>3 DEF ContentIs
<1>6. Sees = [p \in Procs |-> [k \in Blocks |-> NothingSeen]]
  BY <1>2, <1>4 DEF SeesIs
<1> QED
  BY <1>5, <1>6 DEF BS!BSInit

SameContents ==
  /\ disk' = disk
  /\ \A b \in Buffers : /\ buf'[b].block = buf[b].block /\ buf'[b].valid = buf[b].valid
                        /\ buf'[b].data = buf[b].data

\* A step that leaves disk and valid buffers alone leaves the blocks' contents alone.
LEMMA ContentKept ==
  ASSUME CacheInvariant, CacheInvariant', SameContents
  PROVE  Content' = Content
<1>1. ContentIs /\ ContentIs'
  BY MappedFacts, MappedFactsNext
<1>2. ASSUME NEW k \in Blocks PROVE Content'[k] = Content[k]
  <2>1. CASE \E b \in Buffers : buf[b].valid /\ buf[b].block = k
    BY <1>1, <2>1, SMTT(30) DEF SameContents, ContentIs
  <2>2. CASE \A b \in Buffers : buf[b].valid => buf[b].block # k
    BY <1>1, <2>2 DEF SameContents, ContentIs
  <2> QED
    BY <2>1, <2>2
<1> QED
  BY <1>1, <1>2 DEF ContentIs

\* A step that moves no buffer into or out of hands, nor changes one there, changes
\* nobody's view.
LEMMA SeesKept ==
  ASSUME CacheInvariant, CacheInvariant', held' = held,
         \A p \in Procs : \A b \in held[p] : buf'[b].block = buf[b].block /\ buf'[b].data = buf[b].data
  PROVE  Sees' = Sees
<1>1. SeesIs /\ SeesIs'
  BY MappedFacts, MappedFactsNext
<1>2. ASSUME NEW p \in Procs, NEW k \in Blocks PROVE Sees'[p][k] = Sees[p][k]
  <2>1. CASE \E b \in held[p] : buf[b].block = k
    <3>1. PICK b \in held[p] : buf[b].block = k
      BY <2>1
    <3>2. b \in held'[p] /\ buf'[b].block = k /\ buf'[b].data = buf[b].data
      BY <3>1
    <3>3. Sees[p][k] = buf[b].data
      BY <1>1, <3>1 DEF SeesIs
    <3>4. Sees'[p][k] = buf'[b].data
      BY <1>1, <3>2 DEF SeesIs
    <3> QED
      BY <3>2, <3>3, <3>4
  <2>2. CASE \A b \in held[p] : buf[b].block # k
    <3>1. \A b \in held'[p] : buf'[b].block # k
      BY <2>2
    <3>2. Sees[p][k] = NothingSeen
      BY <1>1, <2>2 DEF SeesIs
    <3>3. Sees'[p][k] = NothingSeen
      BY <1>1, <3>1 DEF SeesIs
    <3> QED
      BY <3>2, <3>3
  <2> QED
    BY <2>1, <2>2
<1> QED
  BY <1>1, <1>2 DEF SeesIs

\* Taking a valid buffer that nobody holds is taking its block.
LEMMA TakeMaps ==
  ASSUME CacheInvariant, CacheInvariant', SameContents, NEW p \in Procs, NEW b \in Buffers,
         buf[b].valid, \A q \in Procs : b \notin held[q], held' = [held EXCEPT ![p] = @ \cup {b}]
  PROVE  BS!BSTake(p, buf[b].block) /\ buf[b].block \in Blocks
<1> DEFINE k == buf[b].block
<1>1. /\ ContentIs /\ SeesIs /\ SeesIs' /\ k \in Blocks /\ k # NoBlock
      /\ held \in [Procs -> SUBSET Buffers]
  BY MappedFacts, MappedFactsNext, HasBlock, NumberFacts, SMTT(30) DEF CacheInvariant, CacheTypeOK
<1>2. \A c \in Buffers : buf[c].block = k => c = b
  BY <1>1 DEF CacheInvariant, OneBufferPerBlock
<1>3. \A q \in Procs : Sees[q][k] = NothingSeen
  BY <1>1, <1>2, ZenonT(40) DEF SeesIs
<1>4. Content' = Content /\ Content[k] = buf[b].data
  BY <1>1, ContentKept DEF ContentIs
<1>5. ASSUME NEW q \in Procs, NEW j \in Blocks
      PROVE  Sees'[q][j] = IF q = p /\ j = k THEN Content[k] ELSE Sees[q][j]
  <2>1. CASE q = p /\ j = k
    <3>1. b \in held'[p] /\ buf'[b].block = k /\ buf'[b].data = buf[b].data
      BY <1>1 DEF SameContents
    <3> QED
      BY <1>1, <1>4, <2>1, <3>1 DEF SeesIs
  <2>2. CASE ~(q = p /\ j = k) /\ \E c \in held[q] : buf[c].block = j
    <3>1. PICK c \in held[q] : buf[c].block = j
      BY <2>2
    <3>2. c \in held'[q] /\ buf'[c].block = j /\ buf'[c].data = buf[c].data
      BY <1>1, <3>1 DEF SameContents
    <3>3. Sees[q][j] = buf[c].data
      BY <1>1, <3>1, ZenonT(40) DEF SeesIs
    <3>4. Sees'[q][j] = buf'[c].data
      BY <1>1, <3>2 DEF SeesIs
    <3> QED
      BY <2>2, <3>2, <3>3, <3>4
  <2>3. CASE ~(q = p /\ j = k) /\ \A c \in held[q] : buf[c].block # j
    <3>1. \A c \in held'[q] : buf'[c].block # j
      BY <1>1, <1>2, <2>3 DEF SameContents
    <3> QED
      BY <1>1, <2>3, <3>1 DEF SeesIs
  <2> QED
    BY <2>1, <2>2, <2>3
<1>6. Sees' = [Sees EXCEPT ![p][k] = Content[k]]
  BY <1>1, <1>5 DEF SeesIs
<1> QED
  BY <1>1, <1>3, <1>4, <1>6 DEF BS!BSTake

\* A store into a buffer in hands is a write of its block.
LEMMA StoreMaps ==
  ASSUME CacheInvariant, CacheInvariant', NEW p \in Procs, NEW b \in Buffers, NEW v \in Values, Store(p, b, v)
  PROVE  \E k \in Blocks : BS!BSWrite(p, k, v)
<1> DEFINE k == buf[b].block
<1>1. /\ ContentIs /\ ContentIs' /\ SeesIs /\ SeesIs'
      /\ held \in [Procs -> SUBSET Buffers] /\ buf \in [Buffers -> Buf]
  BY MappedFacts, MappedFactsNext DEF CacheInvariant, CacheTypeOK
<1>2. /\ b \in held[p] /\ held' = held /\ disk' = disk
      /\ \A c \in Buffers : /\ buf'[c].block = buf[c].block /\ buf'[c].valid = buf[c].valid
                            /\ buf'[c].data = IF c = b THEN v ELSE buf[c].data
  BY <1>1 DEF Store, Holds, Buf
<1>3. k \in Blocks /\ buf[b].valid /\ buf[b].data \in Values
  BY <1>1, <1>2, HasBlock DEF Buf
<1>4. \A c \in Buffers : buf[c].block = k => c = b
  BY <1>3, NumberFacts DEF CacheInvariant, OneBufferPerBlock
<1>5. \A q \in Procs : b \in held[q] => q = p
  BY <1>2 DEF CacheInvariant, HoldersKnown, InHand
<1>6. Sees[p][k] # NothingSeen
  BY <1>1, <1>2, <1>3, NothingIsNoValue DEF SeesIs
<1>7. ASSUME NEW j \in Blocks PROVE Content'[j] = IF j = k THEN v ELSE Content[j]
  <2>1. CASE j = k
    BY <1>1, <1>2, <1>3, <2>1 DEF ContentIs
  <2>2. CASE j # k /\ \E c \in Buffers : buf[c].valid /\ buf[c].block = j
    <3>1. PICK c \in Buffers : buf[c].valid /\ buf[c].block = j
      BY <2>2
    <3>2. Content[j] = buf[c].data
      BY <1>1, <3>1 DEF ContentIs
    <3>3. Content'[j] = buf'[c].data /\ buf'[c].data = buf[c].data
      BY <1>1, <1>2, <2>2, <3>1 DEF ContentIs
    <3> QED
      BY <2>2, <3>2, <3>3
  <2>3. CASE j # k /\ \A c \in Buffers : buf[c].valid => buf[c].block # j
    BY <1>1, <1>2, <2>3 DEF ContentIs
  <2> QED
    BY <2>1, <2>2, <2>3
<1>8. ASSUME NEW q \in Procs, NEW j \in Blocks
      PROVE  Sees'[q][j] = IF q = p /\ j = k THEN v ELSE Sees[q][j]
  <2>1. CASE q = p /\ j = k
    <3>1. b \in held'[p] /\ buf'[b].block = k /\ buf'[b].data = v
      BY <1>2
    <3> QED
      BY <1>1, <2>1, <3>1 DEF SeesIs
  <2>2. CASE ~(q = p /\ j = k) /\ \E c \in held[q] : buf[c].block = j
    <3>1. PICK c \in held[q] : buf[c].block = j
      BY <2>2
    <3>2. c \in held'[q] /\ c \in Buffers /\ c # b
      BY <1>1, <1>2, <1>5, <2>2, <3>1
    <3>3. Sees[q][j] = buf[c].data
      BY <1>1, <3>1 DEF SeesIs
    <3>4. Sees'[q][j] = buf[c].data
      BY <1>1, <1>2, <3>1, <3>2 DEF SeesIs
    <3> QED
      BY <2>2, <3>3, <3>4
  <2>3. CASE ~(q = p /\ j = k) /\ \A c \in held[q] : buf[c].block # j
    <3>1. \A c \in held'[q] : buf'[c].block # j
      BY <1>1, <1>2, <2>3
    <3> QED
      BY <1>1, <2>3, <3>1, SMTT(30) DEF SeesIs
  <2> QED
    BY <2>1, <2>2, <2>3
<1>9. Content' = [Content EXCEPT ![k] = v] /\ Sees' = [Sees EXCEPT ![p][k] = v]
  BY <1>1, <1>7, <1>8 DEF ContentIs, SeesIs
<1> QED
  BY <1>3, <1>6, <1>9 DEF BS!BSWrite

\* brelse of a buffer in hands puts its block down.
LEMMA ReleaseMaps ==
  ASSUME CacheInvariant, CacheInvariant', NEW p \in Procs, NEW b \in Buffers, Release(p, b)
  PROVE  \E k \in Blocks : BS!BSPut(p, k)
<1> DEFINE k == buf[b].block
<1>1. /\ ContentIs /\ SeesIs /\ SeesIs'
      /\ held \in [Procs -> SUBSET Buffers] /\ buf \in [Buffers -> Buf]
  BY MappedFacts, MappedFactsNext DEF CacheInvariant, CacheTypeOK
<1>2. /\ b \in held[p] /\ held' = [held EXCEPT ![p] = @ \ {b}] /\ disk' = disk
      /\ \A c \in Buffers : /\ buf'[c].block = buf[c].block /\ buf'[c].valid = buf[c].valid
                            /\ buf'[c].data = buf[c].data
  BY <1>1 DEF Release, Holds, Buf
<1>3. k \in Blocks /\ buf[b].valid /\ buf[b].data \in Values
  BY <1>1, <1>2, HasBlock DEF Buf
<1>4. \A c \in Buffers : buf[c].block = k => c = b
  BY <1>3, NumberFacts DEF CacheInvariant, OneBufferPerBlock
<1>5. \A q \in Procs : b \in held[q] => q = p
  BY <1>2 DEF CacheInvariant, HoldersKnown, InHand
<1>6. Sees[p][k] # NothingSeen /\ Content' = Content
  <2>1. SameContents
    BY <1>2 DEF SameContents
  <2> QED
    BY <1>1, <1>2, <1>3, <2>1, ContentKept, NothingIsNoValue DEF SeesIs
<1>7. ASSUME NEW q \in Procs, NEW j \in Blocks
      PROVE  Sees'[q][j] = IF q = p /\ j = k THEN NothingSeen ELSE Sees[q][j]
  <2>1. CASE q = p /\ j = k
    <3>1. \A c \in held'[p] : buf'[c].block # k
      BY <1>1, <1>2, <1>4
    <3> QED
      BY <1>1, <2>1, <3>1 DEF SeesIs
  <2>2. CASE ~(q = p /\ j = k) /\ \E c \in held[q] : buf[c].block = j
    <3>1. PICK c \in held[q] : buf[c].block = j
      BY <2>2
    <3>2. c \in held'[q] /\ c \in Buffers
      BY <1>1, <1>2, <1>5, <2>2, <3>1
    <3>3. Sees[q][j] = buf[c].data
      BY <1>1, <3>1 DEF SeesIs
    <3>4. Sees'[q][j] = buf[c].data
      <4>1. buf'[c].block = j /\ buf'[c].data = buf[c].data
        BY <1>2, <3>1, <3>2
      <4> QED
        BY <1>1, <3>2, <4>1 DEF SeesIs
    <3> QED
      BY <2>2, <3>3, <3>4
  <2>3. CASE ~(q = p /\ j = k) /\ \A c \in held[q] : buf[c].block # j
    <3>1. \A c \in held'[q] : buf'[c].block # j
      BY <1>1, <1>2, <2>3
    <3> QED
      BY <1>1, <2>3, <3>1, SMTT(30) DEF SeesIs
  <2> QED
    BY <2>1, <2>2, <2>3
<1>8. Sees' = [Sees EXCEPT ![p][k] = NothingSeen]
  BY <1>1, <1>7 DEF SeesIs
<1> QED
  BY <1>3, <1>6, <1>8 DEF BS!BSPut

\* The disk's answer only moves a content, between the disk and the buffer.
LEMMA InterruptMaps ==
  ASSUME CacheInvariant, CacheInvariant', Interrupt
  PROVE  Content' = Content /\ Sees' = Sees
<1>1. /\ ContentIs /\ ContentIs' /\ SeesIs /\ SeesIs' /\ queue # <<>> /\ queue \in Seq(Buffers)
      /\ held \in [Procs -> SUBSET Buffers] /\ buf \in [Buffers -> Buf] /\ disk \in [Blocks -> Values]
  BY MappedFacts, MappedFactsNext DEF CacheInvariant, CacheTypeOK, Interrupt
<1>2. PICK b \in Buffers : b = Head(queue) /\ Queued(b)
  BY <1>1 DEF Queued
<1>3. /\ disk' = IF buf[b].dirty THEN [disk EXCEPT ![buf[b].block] = buf[b].data] ELSE disk
      /\ buf' = [buf EXCEPT ![b].data = IF buf[b].dirty THEN @ ELSE disk[buf[b].block],
                            ![b].valid = TRUE, ![b].dirty = FALSE]
      /\ held' = held
  BY <1>2 DEF Interrupt
<1>4. /\ \A c \in Buffers : buf'[c].block = buf[c].block /\ (c # b => buf'[c] = buf[c])
      /\ buf'[b].valid /\ buf'[b].data = IF buf[b].dirty THEN buf[b].data ELSE disk[buf[b].block]
  BY <1>1, <1>3 DEF Buf
<1>5. buf[b].block \in Blocks /\ \A c \in Buffers : buf[c].block = buf[b].block => c = b
  <2>1. buf[b].block # NoBlock /\ buf[b].block \in Blocks \cup {NoBlock}
    BY <1>1, <1>2 DEF CacheInvariant, QueueIsWaiters, Waiting, DataCurrent, Uses, Buf
  <2> QED
    BY <2>1 DEF CacheInvariant, OneBufferPerBlock
<1>6. /\ ~buf[b].dirty => ~buf[b].valid
      /\ buf[b].dirty => buf[b].valid
  BY <1>2 DEF CacheInvariant, QueueIsWaiters, Waiting, Finished, DataCurrent
<1>7. ASSUME NEW k \in Blocks PROVE Content'[k] = Content[k]
  <2>1. CASE k = buf[b].block
    <3>1. Content'[k] = buf'[b].data
      BY <1>1, <1>4, <2>1 DEF ContentIs
    <3>2. CASE buf[b].dirty
      BY <1>1, <1>4, <1>6, <2>1, <3>1, <3>2 DEF ContentIs
    <3>3. CASE ~buf[b].dirty
      <4>1. \A c \in Buffers : buf[c].valid => buf[c].block # k
        BY <1>5, <1>6, <2>1, <3>3
      <4> QED
        BY <1>1, <1>4, <2>1, <3>1, <3>3, <4>1 DEF ContentIs
    <3> QED
      BY <3>2, <3>3
  <2>2. CASE k # buf[b].block /\ \E c \in Buffers : buf[c].valid /\ buf[c].block = k
    <3>1. PICK c \in Buffers : buf[c].valid /\ buf[c].block = k
      BY <2>2
    <3>2. Content[k] = buf[c].data
      BY <1>1, <3>1 DEF ContentIs
    <3>3. Content'[k] = buf'[c].data /\ buf'[c] = buf[c]
      BY <1>1, <1>4, <2>2, <3>1 DEF ContentIs
    <3> QED
      BY <3>2, <3>3
  <2>3. CASE k # buf[b].block /\ \A c \in Buffers : buf[c].valid => buf[c].block # k
    <3>1. \A c \in Buffers : buf'[c].valid => buf'[c].block # k
      BY <1>4, <2>3
    <3>2. disk'[k] = disk[k]
      BY <1>1, <1>3, <1>5, <2>3
    <3> QED
      BY <1>1, <2>3, <3>1, <3>2 DEF ContentIs
  <2> QED
    BY <2>1, <2>2, <2>3
<1>8. Content' = Content
  BY <1>1, <1>7 DEF ContentIs
<1>9. \A p \in Procs : \A c \in held[p] : buf'[c].block = buf[c].block /\ buf'[c].data = buf[c].data
  <2>1. \A p \in Procs : \A c \in held[p] : c \in Buffers /\ buf[c].valid
    BY HasBlock
  <2> QED
    BY <1>4, <1>6, <2>1
<1> QED
  BY <1>3, <1>8, <1>9, SeesKept

\* The content that a recycled buffer had is on the disk.
LEMMA GetRecycledMaps ==
  ASSUME CacheInvariant, CacheInvariant', NEW p \in Procs, NEW k \in Blocks, GetRecycled(p, k)
  PROVE  Content' = Content /\ Sees' = Sees
<1>1. /\ ContentIs /\ ContentIs' /\ held \in [Procs -> SUBSET Buffers] /\ buf \in [Buffers -> Buf]
  BY MappedFacts, MappedFactsNext DEF CacheInvariant, CacheTypeOK
<1>2. PICK b \in Buffers :
         /\ buf[b].refcnt = 0 /\ ~buf[b].dirty
         /\ buf' = [buf EXCEPT ![b].block = k, ![b].refcnt = 1, ![b].valid = FALSE, ![b].dirty = FALSE]
         /\ disk' = disk /\ held' = held
  BY DEF GetRecycled, Unused
<1>3. /\ \A c \in Buffers \ {b} : buf'[c] = buf[c]
      /\ buf'[b].block = k /\ buf'[b].valid = FALSE
  BY <1>1, <1>2 DEF Buf
<1>4. \A c \in Buffers : buf[c].block # k
  BY DEF GetRecycled, Caching
<1>5. ASSUME NEW j \in Blocks PROVE Content'[j] = Content[j]
  <2>1. CASE \E c \in Buffers \ {b} : buf[c].valid /\ buf[c].block = j
    <3>1. PICK c \in Buffers \ {b} : buf[c].valid /\ buf[c].block = j
      BY <2>1
    <3>2. Content[j] = buf[c].data
      BY <1>1, <3>1 DEF ContentIs
    <3>3. Content'[j] = buf'[c].data /\ buf'[c] = buf[c]
      BY <1>1, <1>3, <3>1 DEF ContentIs
    <3> QED
      BY <3>2, <3>3
  <2>2. CASE \A c \in Buffers \ {b} : buf[c].valid => buf[c].block # j
    <3>1. Content'[j] = disk[j]
      BY <1>1, <1>2, <1>3, <2>2 DEF ContentIs
    <3>2. CASE buf[b].valid /\ buf[b].block = j
      <4>1. Content[j] = buf[b].data
        BY <1>1, <3>2 DEF ContentIs
      <4>2. buf[b].data = disk[j]
        BY <1>2, <3>2 DEF CacheInvariant, DataCurrent
      <4> QED
        BY <3>1, <4>1, <4>2
    <3>3. CASE ~(buf[b].valid /\ buf[b].block = j)
      BY <1>1, <2>2, <3>1, <3>3 DEF ContentIs
    <3> QED
      BY <3>2, <3>3
  <2> QED
    BY <2>1, <2>2
<1>6. Content' = Content
  BY <1>1, <1>5 DEF ContentIs
<1>7. \A q \in Procs : \A c \in held[q] : c \in Buffers \ {b}
  BY <1>1, <1>2, UnusedFacts DEF InHand
<1> QED
  BY <1>2, <1>3, <1>6, <1>7, SeesKept

\* Every other step leaves contents alone, or returns a buffer to its new holder.
LEMMA BreadMaps ==
  ASSUME CacheInvariant, CacheInvariant', NEW p \in Procs, Lock(p) \/ IoDone(p)
  PROVE  UNCHANGED <<Content, Sees>> \/ \E k \in Blocks : BS!BSTake(p, k)
<1>1. /\ held \in [Procs -> SUBSET Buffers] /\ buf \in [Buffers -> Buf] /\ at[p] \in Buffers
      /\ pc \in [Procs -> {"run", "lock", "asleep", "start", "io", "deref"}]
  BY DEF CacheInvariant, CacheTypeOK
<1>2. SameContents
  BY <1>1 DEF Lock, IoDone, SameContents, Buf
<1>3. CASE held' = held
  <2>1. \A q \in Procs : \A c \in held[q] : c \in Buffers
    BY <1>1
  <2> QED
    BY <1>2, <1>3, <2>1, ContentKept, SeesKept DEF SameContents
<1>4. CASE held' # held
  <2>1. /\ buf[at[p]].valid /\ held' = [held EXCEPT ![p] = @ \cup {at[p]}]
        /\ at[p] \notin held[p]
    <3>1. CASE Lock(p)
      <4>1. at[p] \notin held[p]
        BY <1>1, <3>1, NumberFacts DEF Lock, CacheInvariant, HoldersKnown, InHand
      <4> QED
        BY <1>1, <1>4, <3>1, <4>1 DEF Lock
    <3>2. CASE IoDone(p)
      BY <1>1, <1>4, <3>2 DEF IoDone, Finished
    <3> QED
      BY <3>1, <3>2
  <2>2. ASSUME NEW q \in Procs, at[p] \in held[q] PROVE FALSE
    <3>1. buf[at[p]].holder = q /\ q # p
      BY <1>1, <2>1, <2>2 DEF CacheInvariant, HoldersKnown, InHand
    <3>2. CASE Lock(p)
      BY <3>1, <3>2, NumberFacts DEF Lock
    <3>3. CASE IoDone(p)
      BY <1>1, <3>1, <3>3 DEF IoDone, CacheInvariant, HoldersKnown, InHand
    <3> QED
      BY <3>2, <3>3
  <2> QED
    BY <1>1, <1>2, <2>1, <2>2, TakeMaps
<1> QED
  BY <1>3, <1>4

\* The steps that take or change no content are invisible in the block store.
LEMMA OthersMap ==
  ASSUME CacheInvariant, CacheInvariant', NEW p \in Procs,
         \/ LockSleep(p) \/ Start(p) \/ Deref(p)
         \/ \E k \in Blocks : GetCached(p, k) \/ GetPanics(p, k)
         \/ \E b \in Buffers : Bwrite(p, b)
  PROVE  Content' = Content /\ Sees' = Sees
<1>1. /\ held \in [Procs -> SUBSET Buffers] /\ buf \in [Buffers -> Buf] /\ at[p] \in Buffers
  BY DEF CacheInvariant, CacheTypeOK
<1>2. held' = held /\ disk' = disk
  BY DEF LockSleep, Start, Deref, GetCached, GetPanics, Bwrite
<1>3. SameContents
  <2>1. CASE \/ LockSleep(p) \/ Start(p) \/ \E k \in Blocks : GetPanics(p, k)
    BY <2>1 DEF LockSleep, Start, GetPanics, SameContents
  <2>2. CASE Deref(p)
    BY <1>1, <2>2 DEF Deref, SameContents, Buf
  <2>3. CASE \E k \in Blocks : GetCached(p, k)
    BY <1>1, <2>3 DEF GetCached, Caching, SameContents, Buf
  <2>4. CASE \E b \in Buffers : Bwrite(p, b)
    BY <1>1, <2>4 DEF Bwrite, SameContents, Buf
  <2> QED
    BY <2>1, <2>2, <2>3, <2>4
<1>4. \A q \in Procs : \A c \in held[q] : c \in Buffers
  BY <1>1
<1> QED
  BY <1>2, <1>3, <1>4, ContentKept, SeesKept DEF SameContents

\* Every step of the cache is a step of the block store, or invisible in it.
LEMMA NextMaps == CacheInvariant /\ CacheInvariant' /\ [Next]_vars => [BS!BSNext]_BS!bvars
<1> SUFFICES ASSUME CacheInvariant, CacheInvariant', [Next]_vars PROVE [BS!BSNext]_BS!bvars
  OBVIOUS
<1>1. CASE UNCHANGED vars
  BY <1>1 DEF vars, BS!bvars, Content, Sees, Caching
<1>2. CASE Interrupt
  BY <1>2, InterruptMaps DEF BS!bvars
<1>3. ASSUME NEW p \in Procs, Lock(p) \/ IoDone(p) PROVE [BS!BSNext]_BS!bvars
  BY <1>3, BreadMaps DEF BS!BSNext, BS!bvars
<1>4. ASSUME NEW p \in Procs, NEW k \in Blocks, GetRecycled(p, k) PROVE [BS!BSNext]_BS!bvars
  BY <1>4, GetRecycledMaps DEF BS!bvars
<1>5. ASSUME NEW p \in Procs, NEW b \in Buffers, Release(p, b) PROVE [BS!BSNext]_BS!bvars
  BY <1>5, ReleaseMaps DEF BS!BSNext
<1>6. ASSUME NEW p \in Procs, NEW b \in Buffers, NEW v \in Values, Store(p, b, v)
      PROVE  [BS!BSNext]_BS!bvars
  BY <1>6, StoreMaps DEF BS!BSNext
<1>7. ASSUME NEW p \in Procs, \/ LockSleep(p) \/ Start(p) \/ Deref(p)
                              \/ \E k \in Blocks : GetCached(p, k) \/ GetPanics(p, k)
                              \/ \E b \in Buffers : Bwrite(p, b)
      PROVE  [BS!BSNext]_BS!bvars
  BY <1>7, OthersMap DEF BS!bvars
<1> QED
  BY <1>1, <1>2, <1>3, <1>4, <1>5, <1>6, <1>7, NextCases

\* The cache implements a store with one content per block, which only the one process
\* that holds the block changes.
THEOREM CacheImplementsStore == Spec => ImplementsBlockStore
  BY InitMaps, NextMaps, CacheSafe, PTL DEF Spec, ImplementsBlockStore, BS!BSSpec
=============================================================================
