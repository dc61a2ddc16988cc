----------------------------- MODULE PipeProofs -----------------------------
(***************************************************************************)
(* PipeInvariant and NoLostWakeup are inductive, and the pipe implements   *)
(* ByteStream, for any processes and bytes, every PIPESIZE and every count *)
(* width that is a multiple of it.                                         *)
(***************************************************************************)
EXTENDS PipeProperties, TLAPS

-----------------------------------------------------------------------------
(* Arithmetic of the two counts, which wrap at CountRange, and of the slots. *)

\* Multiples of r are r apart.
LEMMA TimesMonotone ==
  ASSUME NEW r \in Nat, NEW a \in Nat, NEW b \in Nat, a < b
  PROVE  r * a + r <= r * b
<1>1. PICK d \in Nat : b = a + 1 + d
  <2>1. b - a - 1 \in Nat /\ b = a + 1 + (b - a - 1)
    OBVIOUS
  <2> QED
    BY <2>1
<1>2. r * b = r * a + r + r * d
  BY <1>1
<1>3. r * d \in Nat /\ r * a \in Nat
  OBVIOUS
<1> QED
  BY <1>2, <1>3

\* A remainder is the only one below the divisor.
LEMMA RemainderUnique ==
  ASSUME NEW x \in Nat, NEW r \in Nat \ {0}, NEW y \in Nat, NEW q \in Nat, x = r * q + y, y < r
  PROVE  x % r = y
<1> DEFINE e == x \div r
           m == x % r
<1>1. e \in Nat /\ m \in 0 .. r - 1 /\ x = r * e + m
  BY SMT
<1> HIDE DEF e, m
<1>2. r * e \in Nat /\ r * q \in Nat
  BY <1>1
<1>3. CASE e < q
  BY <1>1, <1>2, <1>3, TimesMonotone
<1>4. CASE q < e
  BY <1>1, <1>2, <1>4, TimesMonotone
<1>5. CASE e = q
  <2>1. m = y
    BY <1>1, <1>2, <1>5
  <2> QED
    BY <2>1 DEF m
<1> QED
  BY <1>1, <1>3, <1>4, <1>5

\* Below the double of the divisor there is nothing but one subtraction.
LEMMA OneWrap ==
  ASSUME NEW x \in Nat, NEW r \in Nat \ {0}, x < r + r
  PROVE  x % r = IF x < r THEN x ELSE x - r
<1>1. CASE x < r
  BY <1>1, SMT
<1>2. CASE x >= r
  <2>1. x = r * 1 + (x - r) /\ x - r \in Nat /\ x - r < r
    BY <1>2
  <2> QED
    BY <1>2, <2>1, RemainderUnique
<1> QED
  BY <1>1, <1>2

\* Two full buffers are within the range of a count.
LEMMA SizeFacts ==
  /\ PIPESIZE \in Nat \ {0} /\ CountRange \in Nat \ {0} /\ PIPESIZE < CountRange
  /\ PIPESIZE + PIPESIZE <= CountRange
<1>1. /\ PIPESIZE \in Nat \ {0} /\ CountRange \in Nat \ {0} /\ PIPESIZE < CountRange
      /\ CountRange % PIPESIZE = 0
  BY PipeSizes
<1>2. PIPESIZE + PIPESIZE <= CountRange
  <2>1. CASE CountRange < PIPESIZE + PIPESIZE
    <3>1. CountRange % PIPESIZE = CountRange - PIPESIZE
      BY <1>1, <2>1, OneWrap
    <3> QED
      BY <1>1, <3>1
  <2> QED
    BY <1>1, <2>1
<1> QED
  BY <1>1, <1>2

\* PIPESIZE divides CountRange, so a count has the same slot after it wraps.
LEMMA SlotWraps ==
  ASSUME NEW x \in Nat
  PROVE  (x + CountRange) % PIPESIZE = x % PIPESIZE
<1> DEFINE m == CountRange \div PIPESIZE
           q == x \div PIPESIZE
           y == x % PIPESIZE
<1>1. /\ PIPESIZE \in Nat \ {0} /\ CountRange \in Nat /\ CountRange % PIPESIZE = 0
  BY PipeSizes
<1>2. m \in Nat /\ CountRange = PIPESIZE * m
  BY <1>1, SMT
<1>3. q \in Nat /\ y \in 0 .. PIPESIZE - 1 /\ x = PIPESIZE * q + y
  BY <1>1, SMT
<1> HIDE DEF m, q, y
<1>4. x + CountRange = PIPESIZE * (q + m) + y
  BY <1>1, <1>2, <1>3
<1>5. (x + CountRange) % PIPESIZE = y
  BY <1>1, <1>2, <1>3, <1>4, RemainderUnique
<1> QED
  BY <1>5 DEF y

\* Counts less than a pipe's length apart have different slots.
LEMMA SlotsDiffer ==
  ASSUME NEW x \in Nat, NEW y \in Nat, x < y, y < x + PIPESIZE
  PROVE  x % PIPESIZE # y % PIPESIZE
<1>1. PIPESIZE \in Nat \ {0}
  BY PipeSizes
<1>2. \A a \in Nat, b \in Nat, p \in Nat \ {0} :
        a <= b /\ b < a + p /\ a % p = b % p => a = b
  BY SMT
<1>3. x <= y /\ x # y
  OBVIOUS
<1> QED
  BY <1>1, <1>2, <1>3, Zenon

Counts == 0 .. CountRange - 1
UsedOf(w, r) == (w + CountRange - r) % CountRange

\* The bytes between two counts, without the modulus.
LEMMA UsedIs ==
  ASSUME NEW w \in Counts, NEW r \in Counts
  PROVE  UsedOf(w, r) = IF w >= r THEN w - r ELSE w + CountRange - r
<1>1. CountRange \in Nat \ {0} /\ w \in Nat /\ r \in Nat /\ w < CountRange /\ r < CountRange
  BY SizeFacts DEF Counts
<1>2. PICK x \in Nat : x = w + CountRange - r /\ x < CountRange + CountRange
  <2>1. w + CountRange - r \in Nat /\ w + CountRange - r < CountRange + CountRange
    BY <1>1
  <2> QED
    BY <2>1
<1>3. UsedOf(w, r) = IF x < CountRange THEN x ELSE x - CountRange
  BY <1>1, <1>2, OneWrap DEF UsedOf
<1> QED
  BY <1>1, <1>2, <1>3

\* A count moved on, without the modulus.
LEMMA CountAdded ==
  ASSUME NEW w \in Counts, NEW n \in Nat, n <= CountRange
  PROVE  /\ (w + n) % CountRange \in Counts
         /\ (w + n) % CountRange = IF w + n < CountRange THEN w + n ELSE (w + n) - CountRange
<1>1. CountRange \in Nat \ {0} /\ w \in Nat /\ w < CountRange
  BY SizeFacts DEF Counts
<1>2. (w + n) % CountRange = IF w + n < CountRange THEN w + n ELSE (w + n) - CountRange
  <2> DEFINE x == w + n
  <2>1. x \in Nat /\ x < CountRange + CountRange
    BY <1>1
  <2> HIDE DEF x
  <2>2. x % CountRange = IF x < CountRange THEN x ELSE x - CountRange
    BY <1>1, <2>1, OneWrap
  <2> QED
    BY <2>2 DEF x
<1> QED
  BY <1>1, <1>2 DEF Counts

\* What is used: nothing when the counts are equal, PIPESIZE when the pipe is full;
\* as many more or less as are written or read.
LEMMA UsedFacts ==
  ASSUME NEW w \in Counts, NEW r \in Counts
  PROVE  /\ UsedOf(w, r) \in Counts
         /\ UsedOf(w, r) = 0 <=> w = r
         /\ UsedOf(w, r) = PIPESIZE <=> w = (r + PIPESIZE) % CountRange
         /\ \A n \in Nat : UsedOf(w, r) + n < CountRange =>
              UsedOf((w + n) % CountRange, r) = UsedOf(w, r) + n
         /\ \A n \in Nat : n <= UsedOf(w, r) =>
              UsedOf(w, (r + n) % CountRange) = UsedOf(w, r) - n
<1>1. /\ CountRange \in Nat \ {0} /\ PIPESIZE \in Nat \ {0} /\ PIPESIZE < CountRange
      /\ w \in Nat /\ w < CountRange /\ r \in Nat /\ r < CountRange
  BY SizeFacts DEF Counts
<1>2. UsedOf(w, r) = IF w >= r THEN w - r ELSE w + CountRange - r
  BY UsedIs
<1>3. UsedOf(w, r) \in Counts /\ (UsedOf(w, r) = 0 <=> w = r)
  BY <1>1, <1>2 DEF Counts
<1>4. UsedOf(w, r) = PIPESIZE <=> w = (r + PIPESIZE) % CountRange
  <2>1. (r + PIPESIZE) % CountRange = IF r + PIPESIZE < CountRange THEN r + PIPESIZE
                                      ELSE (r + PIPESIZE) - CountRange
    BY <1>1, CountAdded
  <2> QED
    BY <1>1, <1>2, <2>1
<1>5. ASSUME NEW n \in Nat, UsedOf(w, r) + n < CountRange
      PROVE  UsedOf((w + n) % CountRange, r) = UsedOf(w, r) + n
  <2>1. n <= CountRange
    BY <1>1, <1>3, <1>5 DEF Counts
  <2>2. PICK v \in Counts : /\ v = (w + n) % CountRange
                            /\ v = IF w + n < CountRange THEN w + n ELSE (w + n) - CountRange
    BY <2>1, CountAdded
  <2>3. UsedOf(v, r) = IF v >= r THEN v - r ELSE v + CountRange - r
    BY UsedIs
  <2>4. UsedOf(v, r) = UsedOf(w, r) + n
    BY <1>1, <1>2, <1>5, <2>2, <2>3 DEF Counts
  <2> QED
    BY <2>2, <2>4
<1>6. ASSUME NEW n \in Nat, n <= UsedOf(w, r)
      PROVE  UsedOf(w, (r + n) % CountRange) = UsedOf(w, r) - n
  <2>1. n <= CountRange
    BY <1>1, <1>3, <1>6 DEF Counts
  <2>2. PICK v \in Counts : /\ v = (r + n) % CountRange
                            /\ v = IF r + n < CountRange THEN r + n ELSE (r + n) - CountRange
    BY <2>1, CountAdded
  <2>3. UsedOf(w, v) = IF w >= v THEN w - v ELSE w + CountRange - v
    BY UsedIs
  <2>4. UsedOf(w, v) = UsedOf(w, r) - n
    BY <1>1, <1>2, <1>6, <2>2, <2>3 DEF Counts
  <2> QED
    BY <2>2, <2>4
<1> QED
  BY <1>3, <1>4, <1>5, <1>6

\* The smaller of two numbers.
LEMMA MinOfTwo == \A a, b \in Int : Min({a, b}) = IF a <= b THEN a ELSE b
<1> SUFFICES ASSUME NEW a \in Int, NEW b \in Int PROVE Min({a, b}) = IF a <= b THEN a ELSE b
  OBVIOUS
<1> DEFINE m == IF a <= b THEN a ELSE b
<1>1. m \in {a, b} /\ \A y \in {a, b} : m <= y
  OBVIOUS
<1>2. \A x \in {a, b} : (\A y \in {a, b} : x <= y) => x = m
  OBVIOUS
<1> QED
  BY <1>1, <1>2 DEF Min

\* The greatest of one number.
LEMMA MaxOfOne == \A a \in Int : Max({a}) = a
BY DEF Max

-----------------------------------------------------------------------------
(* What the counts and the data of a well-typed pipe are.                   *)
LEMMA CountFacts ==
  ASSUME PipeTypeOK
  PROVE  /\ nread \in Counts /\ nwrite \in Counts /\ Used = UsedOf(nwrite, nread)
         /\ Used \in Nat /\ Used <= PIPESIZE
         /\ Used = 0 <=> nread = nwrite
         /\ Used = PIPESIZE <=> Full(nwrite)
<1>1. nread \in Counts /\ nwrite \in Counts /\ Used = UsedOf(nwrite, nread)
  BY DEF PipeTypeOK, Counts, Used, UsedOf
<1>2. Used \in Nat /\ Used <= PIPESIZE
  BY SizeFacts DEF PipeTypeOK
<1> QED
  BY <1>1, <1>2, UsedFacts DEF Full

\* A write copies no more than it has and than there is room for, and stops short only
\* when the pipe is full.
LEMMA CopiedFacts ==
  ASSUME PipeTypeOK, NEW p \in Users
  PROVE  /\ Copied(p) \in Nat /\ Copied(p) <= Len(buf[p]) /\ Used + Copied(p) <= PIPESIZE
         /\ Copied(p) < Len(buf[p]) => Used + Copied(p) = PIPESIZE
<1>1. Len(buf[p]) \in Nat /\ PIPESIZE - Used \in Nat
  BY CountFacts, SizeFacts DEF PipeTypeOK
<1>2. Copied(p) = IF Len(buf[p]) <= PIPESIZE - Used THEN Len(buf[p]) ELSE PIPESIZE - Used
  BY <1>1, MinOfTwo DEF Copied
<1> QED
  BY <1>1, <1>2, CountFacts, SizeFacts

\* PutBytes: the bytes go to the slots behind nwrite, the others stay.
LEMMA FilledFacts ==
  ASSUME PipeTypeOK, NEW p \in Users
  PROVE  /\ Filled(p, Copied(p)) \in [0 .. PIPESIZE - 1 -> Bytes]
         /\ \A k \in 1 .. Copied(p) : Filled(p, Copied(p))[(nwrite + k - 1) % PIPESIZE] = buf[p][k]
         /\ \A i \in 0 .. PIPESIZE - 1 :
              (\A k \in 1 .. Copied(p) : (nwrite + k - 1) % PIPESIZE # i) => Filled(p, Copied(p))[i] = data[i]
<1> DEFINE n == Copied(p)
           S(i) == {k \in 1 .. n : (nwrite + k - 1) % PIPESIZE = i}
<1>1. /\ n \in Nat /\ n <= Len(buf[p]) /\ n <= PIPESIZE /\ nwrite \in Nat /\ PIPESIZE \in Nat \ {0}
      /\ buf[p] \in Seq(Bytes) /\ data \in [0 .. PIPESIZE - 1 -> Bytes]
  <2>1. n \in Nat /\ n <= Len(buf[p]) /\ Used \in Nat /\ Used + n <= PIPESIZE
    BY CopiedFacts, CountFacts
  <2>2. nwrite \in Nat /\ PIPESIZE \in Nat \ {0}
    BY CountFacts, SizeFacts DEF Counts
  <2> HIDE DEF n
  <2> QED
    BY <2>1, <2>2 DEF PipeTypeOK
<1> HIDE DEF n
<1>2. ASSUME NEW k \in 1 .. n
      PROVE  /\ (nwrite + k - 1) % PIPESIZE \in 0 .. PIPESIZE - 1
             /\ \A j \in 1 .. n : (nwrite + j - 1) % PIPESIZE = (nwrite + k - 1) % PIPESIZE => j = k
             /\ buf[p][k] \in Bytes
  <2>1. (nwrite + k - 1) % PIPESIZE \in 0 .. PIPESIZE - 1
    BY <1>1, SMT
  <2>2. ASSUME NEW j \in 1 .. n, j # k
        PROVE  (nwrite + j - 1) % PIPESIZE # (nwrite + k - 1) % PIPESIZE
    <3>1. /\ nwrite + j - 1 \in Nat /\ nwrite + k - 1 \in Nat
          /\ nwrite + j - 1 < nwrite + k - 1 \/ nwrite + k - 1 < nwrite + j - 1
          /\ nwrite + j - 1 < nwrite + k - 1 + PIPESIZE /\ nwrite + k - 1 < nwrite + j - 1 + PIPESIZE
      BY <1>1, <2>2
    <3> HIDE DEF S
    <3> QED
      BY <3>1, SlotsDiffer
  <2>3. buf[p][k] \in Bytes
    BY <1>1
  <2> QED
    BY <2>1, <2>2, <2>3
<1>3. Filled(p, n) = [i \in 0 .. PIPESIZE - 1 |-> IF S(i) = {} THEN data[i] ELSE buf[p][Max(S(i))]]
  BY <1>1 DEF Filled
<1>4. ASSUME NEW k \in 1 .. n PROVE S((nwrite + k - 1) % PIPESIZE) = {k}
  BY <1>2
<1>5. ASSUME NEW k \in 1 .. n PROVE Filled(p, n)[(nwrite + k - 1) % PIPESIZE] = buf[p][k]
  <2>1. Max({k}) = k
    BY <1>1, MaxOfOne
  <2> HIDE DEF S
  <2> QED
    BY <1>2, <1>3, <1>4, <2>1
<1>6. ASSUME NEW i \in 0 .. PIPESIZE - 1, \A k \in 1 .. n : (nwrite + k - 1) % PIPESIZE # i
      PROVE  Filled(p, n)[i] = data[i]
  <2>1. S(i) = {}
    BY <1>6
  <2> QED
    BY <1>3, <2>1
<1>7. ASSUME NEW i \in 0 .. PIPESIZE - 1 PROVE Filled(p, n)[i] \in Bytes
  <2>1. CASE \A k \in 1 .. n : (nwrite + k - 1) % PIPESIZE # i
    BY <1>1, <1>6, <2>1
  <2>2. CASE \E k \in 1 .. n : (nwrite + k - 1) % PIPESIZE = i
    BY <1>2, <1>5, <2>2
  <2> QED
    BY <2>1, <2>2
<1>8. Filled(p, n) \in [0 .. PIPESIZE - 1 -> Bytes]
  <2> HIDE DEF S
  <2> QED
    BY <1>3, <1>7
<1> QED
  BY <1>5, <1>6, <1>8 DEF n

\* What a write changes in the pipe.
LEMMA PutFacts ==
  ASSUME PipeTypeOK, NEW p \in Users, PutBytes(p), nread' = nread
  PROVE  /\ data' \in [0 .. PIPESIZE - 1 -> Bytes] /\ nwrite' \in Counts
         /\ Used' = Used + Copied(p)
         /\ Full(nwrite)' <=> Used + Copied(p) = PIPESIZE
         /\ Copied(p) = 0 => nwrite' = nwrite
<1>1. /\ nread \in Counts /\ nwrite \in Counts /\ Used = UsedOf(nwrite, nread) /\ Used \in Nat
      /\ Copied(p) \in Nat /\ Used + Copied(p) <= PIPESIZE
      /\ PIPESIZE \in Nat /\ PIPESIZE < CountRange /\ CountRange \in Nat
  BY CountFacts, CopiedFacts, SizeFacts
<1>2. PICK n \in Nat : n = Copied(p) /\ n <= CountRange /\ Used + n < CountRange /\ nwrite' = (nwrite + n) % CountRange
  BY <1>1 DEF PutBytes
<1>3. nwrite' \in Counts
  BY <1>1, <1>2, CountAdded
<1>4. UsedOf(nwrite', nread) = Used + n
  BY <1>1, <1>2, UsedFacts
<1>5. Used' = Used + n
  BY <1>4 DEF Used, UsedOf
<1>6. UsedOf(nwrite', nread) = PIPESIZE <=> nwrite' = (nread + PIPESIZE) % CountRange
  BY <1>1, <1>3, UsedFacts
<1>7. n = 0 => nwrite' = nwrite
  <2>1. nwrite' = IF nwrite + n < CountRange THEN nwrite + n ELSE (nwrite + n) - CountRange
    BY <1>1, <1>2, CountAdded
  <2> QED
    BY <1>1, <2>1 DEF Counts
<1> QED
  BY <1>2, <1>3, <1>4, <1>5, <1>6, <1>7, FilledFacts DEF PutBytes, Full
-----------------------------------------------------------------------------
(* The inductive invariant: without the ends and the calls, nothing says    *)
(* that a process which sleeps on an end keeps it open; without the lock,   *)
(* nothing says that what it saw before still holds when it falls asleep.   *)
IInv == PipeTypeOK /\ EndsCounted /\ CallersKnown /\ LockKnown /\ NoLostWakeup

\* No process is named as the free lock.
LEMMA NamesDiffer == "free" \notin Users
BY PipeSizes

\* Who has which end depends on nothing else.
LEMMA EndsKept ==
  ASSUME EndsCounted, UNCHANGED <<readopen, writeopen, freed, ends, closing>>
  PROVE  EndsCounted'
BY DEF EndsCounted, EndOpen

\* Within a call, its phases and its end stay.
LEMMA CallersKept ==
  ASSUME PipeTypeOK, CallersKnown, UNCHANGED <<ends, closing, want>>, NEW p \in Users, NEW s,
         pc' = [pc EXCEPT ![p] = s], pc[p] # "close", s # "close",
         s \in {"read", "rsleep"} => pc[p] \in {"read", "rsleep"},
         s \in {"write", "wsleep"} => pc[p] \in {"write", "wsleep"}
  PROVE  CallersKnown'
BY DEF CallersKnown, PipeTypeOK

\* A wakeup wakes who sleeps on its channel and nobody else.
LEMMA WakeupIs ==
  ASSUME PipeTypeOK, NEW c, chan' = Wakeup(chan, c)
  PROVE  /\ chan' \in [Users -> {"awake", "nread", "nwrite"}]
         /\ \A q \in Users : chan'[q] = IF chan[q] = c THEN "awake" ELSE chan[q]
BY DEF Wakeup, PipeTypeOK

-----------------------------------------------------------------------------
(* write                                                                    *)
LEMMA WriteKeeps ==
  ASSUME IInv, NEW p \in Users, NEW n \in 1 .. MaxWrite, NEW bytes \in [1 .. n -> Bytes],
         Write(p, bytes)
  PROVE  IInv'
<1>0. /\ pc' = [pc EXCEPT ![p] = "write"] /\ buf' = [buf EXCEPT ![p] = bytes] /\ calls' = calls + 1
      /\ pc[p] = "user" /\ chan[p] = "awake" /\ "write" \in ends[p] /\ calls < MaxCalls
      /\ UNCHANGED <<data, nread, nwrite, readopen, writeopen, freed, lock, ends, chan, want, result,
                     closing, killed>>
  BY DEF Write, Idle, pipeVars
<1>1. PipeTypeOK'
  <2>1. Used' = Used
    BY <1>0 DEF Used
  <2>2. bytes \in Seq(Bytes)
    BY PipeSizes
  <2>3. buf' \in [Users -> Seq(Bytes)]
    BY <1>0, <2>2 DEF IInv, PipeTypeOK
  <2>4. calls' \in 0 .. MaxCalls
    BY <1>0, PipeSizes DEF IInv, PipeTypeOK
  <2>5. pc' \in [Users -> {"user", "write", "wsleep", "read", "rsleep", "close"}]
    BY <1>0 DEF IInv, PipeTypeOK
  <2> QED
    BY <1>0, <2>1, <2>3, <2>4, <2>5 DEF IInv, PipeTypeOK
<1>2. EndsCounted'
  BY <1>0, EndsKept DEF IInv
<1>3. CallersKnown'
  BY <1>0 DEF IInv, PipeTypeOK, CallersKnown
<1>4. LockKnown'
  BY <1>0 DEF IInv, PipeTypeOK, LockKnown, Full
<1>5. NoLostWakeup'
  BY <1>0 DEF IInv, NoLostWakeup, Full
<1> QED
  BY <1>1, <1>2, <1>3, <1>4, <1>5 DEF IInv

\* The part of the types that a write's bytes touch.
LEMMA PutKeepsTypes ==
  ASSUME PipeTypeOK, NEW p \in Users, PutBytes(p), UNCHANGED <<nread, readopen, writeopen, freed>>
  PROVE  /\ data' \in [0 .. PIPESIZE - 1 -> Bytes]
         /\ {nread', nwrite'} \subseteq 0 .. CountRange - 1 /\ Used' \in 0 .. PIPESIZE
<1>1. data' \in [0 .. PIPESIZE - 1 -> Bytes] /\ nwrite' \in Counts /\ Used' = Used + Copied(p)
  BY PutFacts
<1>2. nread' \in Counts
  BY CountFacts
<1>3. Used' \in 0 .. PIPESIZE
  BY <1>1, CountFacts, CopiedFacts, SizeFacts
<1> QED
  BY <1>1, <1>2, <1>3 DEF Counts

\* A pipe that is full stays as it is.
LEMMA PutKeepsFull ==
  ASSUME PipeTypeOK, NEW p \in Users, PutBytes(p), nread' = nread
  PROVE  /\ Full(nwrite) => Full(nwrite)' /\ nwrite' = nwrite
         /\ Copied(p) < Len(buf[p]) => Full(nwrite)'
<1>1. Full(nwrite) => Copied(p) = 0 /\ Used + Copied(p) = PIPESIZE
  BY CountFacts, CopiedFacts, SizeFacts
<1> QED
  BY <1>1, PutFacts, CopiedFacts

\* PipeWriteDone keeps the invariant.
LEMMA PipeWriteDoneKeeps ==
  ASSUME IInv, NEW p \in Users, PipeWriteDone(p)
  PROVE  IInv'
<1>0. /\ pc' = [pc EXCEPT ![p] = "user"] /\ buf' = [buf EXCEPT ![p] = <<>>]
      /\ PutBytes(p) /\ chan' = Wakeup(chan, "nread")
      /\ pc[p] = "write" /\ chan[p] = "awake" /\ lock = "free"
      /\ UNCHANGED <<nread, readopen, writeopen, freed, lock, ends, want, result, closing, killed,
                     calls>>
  BY DEF PipeWriteDone, CanLock
<1>a. /\ chan' \in [Users -> {"awake", "nread", "nwrite"}]
      /\ \A q \in Users : chan'[q] = IF chan[q] = "nread" THEN "awake" ELSE chan[q]
  BY <1>0, WakeupIs DEF IInv
<1>b. Full(nwrite) => Full(nwrite)' /\ nwrite' = nwrite
  BY <1>0, PutKeepsFull DEF IInv
<1>1. PipeTypeOK'
  <2>1. /\ data' \in [0 .. PIPESIZE - 1 -> Bytes]
        /\ {nread', nwrite'} \subseteq 0 .. CountRange - 1 /\ Used' \in 0 .. PIPESIZE
    BY <1>0, PutKeepsTypes DEF IInv
  <2>2. buf' \in [Users -> Seq(Bytes)]
    BY <1>0 DEF IInv, PipeTypeOK
  <2>3. pc' \in [Users -> {"user", "write", "wsleep", "read", "rsleep", "close"}]
    BY <1>0 DEF IInv, PipeTypeOK
  <2> QED
    BY <1>0, <1>a, <2>1, <2>2, <2>3 DEF IInv, PipeTypeOK
<1>2. EndsCounted'
  BY <1>0, EndsKept DEF IInv
<1>3. CallersKnown'
  BY <1>0, CallersKept DEF IInv
<1>4. LockKnown'
  BY <1>0, <1>a, <1>b, NamesDiffer DEF IInv, PipeTypeOK, LockKnown
<1>5. NoLostWakeup'
  BY <1>0, <1>a, <1>b DEF IInv, NoLostWakeup
<1> QED
  BY <1>1, <1>2, <1>3, <1>4, <1>5 DEF IInv

\* PipeWriteFull keeps the invariant.
LEMMA PipeWriteFullKeeps ==
  ASSUME IInv, NEW p \in Users, PipeWriteFull(p)
  PROVE  IInv'
<1>0. /\ PutBytes(p) /\ pc[p] = "write" /\ chan[p] = "awake" /\ lock = "free"
      /\ Copied(p) < Len(buf[p])
      /\ UNCHANGED <<nread, readopen, writeopen, freed, ends, want, result, closing, killed, calls>>
  BY DEF PipeWriteFull, CanLock
<1>a. /\ {data'} \subseteq [0 .. PIPESIZE - 1 -> Bytes]
      /\ {nread', nwrite'} \subseteq 0 .. CountRange - 1 /\ Used' \in 0 .. PIPESIZE
  BY <1>0, PutKeepsTypes DEF IInv
<1>b. Full(nwrite)' /\ (Full(nwrite) => nwrite' = nwrite)
  BY <1>0, PutKeepsFull DEF IInv
<1>2. EndsCounted'
  BY <1>0, EndsKept DEF IInv
<1>6. CASE /\ ~readopen \/ p \in killed
           /\ pc' = [pc EXCEPT ![p] = "user"] /\ buf' = [buf EXCEPT ![p] = <<>>]
           /\ UNCHANGED <<lock, chan>>
  <2>1. PipeTypeOK'
    <3>1. buf' \in [Users -> Seq(Bytes)]
      BY <1>6 DEF IInv, PipeTypeOK
    <3>2. pc' \in [Users -> {"user", "write", "wsleep", "read", "rsleep", "close"}]
      BY <1>6 DEF IInv, PipeTypeOK
    <3> QED
      BY <1>0, <1>6, <1>a, <3>1, <3>2 DEF IInv, PipeTypeOK
  <2>2. CallersKnown'
    BY <1>0, <1>6, CallersKept DEF IInv
  <2>3. LockKnown'
    BY <1>0, <1>6, <1>b, NamesDiffer DEF IInv, PipeTypeOK, LockKnown
  \* Whoever sleeps in piperead has its end open: nobody was killed only if none does.
  <2>4. ASSUME NEW q \in Users, chan[q] = "nread" PROVE readopen
    BY <2>4 DEF IInv, LockKnown, CallersKnown, EndsCounted, EndOpen
  <2>5. NoLostWakeup'
    BY <1>0, <1>6, <1>b, <2>4 DEF IInv, NoLostWakeup
  <2> QED
    BY <1>2, <2>1, <2>2, <2>3, <2>5 DEF IInv
<1>7. CASE /\ readopen /\ p \notin killed /\ lock' = p /\ chan' = Wakeup(chan, "nread")
           /\ pc' = [pc EXCEPT ![p] = "wsleep"]
           /\ buf' = [buf EXCEPT ![p] = SubSeq(@, Copied(p) + 1, Len(@))]
  <2>a. /\ chan' \in [Users -> {"awake", "nread", "nwrite"}]
        /\ \A q \in Users : chan'[q] = IF chan[q] = "nread" THEN "awake" ELSE chan[q]
    BY <1>7, WakeupIs DEF IInv
  <2>1. PipeTypeOK'
    <3>1. buf' \in [Users -> Seq(Bytes)]
      <4>1. buf[p] \in Seq(Bytes) /\ Copied(p) + 1 \in 1 .. Len(buf[p]) + 1
        BY <1>0, CopiedFacts DEF IInv, PipeTypeOK
      <4>2. PICK k \in Nat : k = Copied(p) + 1 /\ k >= 1
        BY CopiedFacts DEF IInv
      <4>3. SubSeq(buf[p], k, Len(buf[p])) \in Seq(Bytes)
        BY <4>1, <4>2
      <4> QED
        BY <1>7, <4>2, <4>3 DEF IInv, PipeTypeOK
    <3>2. pc' \in [Users -> {"user", "write", "wsleep", "read", "rsleep", "close"}]
      BY <1>7 DEF IInv, PipeTypeOK
    <3> QED
      BY <1>0, <1>7, <1>a, <2>a, <3>1, <3>2 DEF IInv, PipeTypeOK
  <2>2. CallersKnown'
    BY <1>0, <1>7, CallersKept DEF IInv
  <2>3. LockKnown'
    BY <1>0, <1>7, <1>b, <2>a, NamesDiffer DEF IInv, PipeTypeOK, LockKnown
  <2>4. NoLostWakeup'
    BY <1>0, <1>7, <1>b, <2>a DEF IInv, NoLostWakeup
  <2> QED
    BY <1>2, <2>1, <2>2, <2>3, <2>4 DEF IInv
<1> QED
  BY <1>6, <1>7 DEF PipeWriteFull

\* WriterSleep keeps the invariant.
LEMMA WriterSleepKeeps ==
  ASSUME IInv, NEW p \in Users, WriterSleep(p)
  PROVE  IInv'
<1>0. /\ pc[p] = "wsleep" /\ lock = p /\ lock' = "free"
      /\ chan' = [chan EXCEPT ![p] = "nwrite"] /\ pc' = [pc EXCEPT ![p] = "write"]
      /\ UNCHANGED <<data, nread, nwrite, readopen, writeopen, freed, ends, buf, want, result, closing,
                     killed, calls>>
  BY DEF WriterSleep, pipeVars
<1>1. PipeTypeOK'
  BY <1>0 DEF IInv, PipeTypeOK, Used
<1>2. EndsCounted'
  BY <1>0, EndsKept DEF IInv
<1>3. CallersKnown'
  BY <1>0, CallersKept DEF IInv
<1>4. LockKnown'
  BY <1>0, NamesDiffer DEF IInv, PipeTypeOK, LockKnown, Full
<1>5. NoLostWakeup'
  BY <1>0 DEF IInv, PipeTypeOK, LockKnown, NoLostWakeup, Full
<1> QED
  BY <1>1, <1>2, <1>3, <1>4, <1>5 DEF IInv

-----------------------------------------------------------------------------
(* read                                                                     *)
LEMMA ReadKeeps ==
  ASSUME IInv, NEW p \in Users, NEW n \in 1 .. MaxWrite, Read(p, n)
  PROVE  IInv'
<1>0. /\ pc' = [pc EXCEPT ![p] = "read"] /\ want' = [want EXCEPT ![p] = n] /\ calls' = calls + 1
      /\ pc[p] = "user" /\ chan[p] = "awake" /\ "read" \in ends[p] /\ calls < MaxCalls
      /\ UNCHANGED <<data, nread, nwrite, readopen, writeopen, freed, lock, ends, chan, buf, result,
                     closing, killed>>
  BY DEF Read, Idle, pipeVars
<1>1. PipeTypeOK'
  <2>1. Used' = Used
    BY <1>0 DEF Used
  <2>2. want' \in [Users -> 0 .. MaxWrite] /\ calls' \in 0 .. MaxCalls
    BY <1>0, PipeSizes DEF IInv, PipeTypeOK
  <2>3. pc' \in [Users -> {"user", "write", "wsleep", "read", "rsleep", "close"}]
    BY <1>0 DEF IInv, PipeTypeOK
  <2> QED
    BY <1>0, <2>1, <2>2, <2>3 DEF IInv, PipeTypeOK
<1>2. EndsCounted'
  BY <1>0, EndsKept DEF IInv
<1>3. CallersKnown'
  <2>1. n # 0
    BY PipeSizes
  <2> QED
    BY <1>0, <2>1 DEF IInv, PipeTypeOK, CallersKnown
<1>4. LockKnown'
  BY <1>0 DEF IInv, PipeTypeOK, LockKnown, Full
<1>5. NoLostWakeup'
  BY <1>0 DEF IInv, NoLostWakeup, Full
<1> QED
  BY <1>1, <1>2, <1>3, <1>4, <1>5 DEF IInv

\* PipeReadEmpty keeps the invariant.
LEMMA PipeReadEmptyKeeps ==
  ASSUME IInv, NEW p \in Users, PipeReadEmpty(p)
  PROVE  IInv'
<1>0. /\ pc[p] = "read" /\ chan[p] = "awake" /\ lock = "free" /\ nread = nwrite /\ writeopen
      /\ \/ pc' = [pc EXCEPT ![p] = "user"] /\ lock' = lock
         \/ pc' = [pc EXCEPT ![p] = "rsleep"] /\ lock' = p
      /\ UNCHANGED <<data, nread, nwrite, readopen, writeopen, freed, ends, chan, buf, want, result,
                     closing, killed, calls>>
  BY DEF PipeReadEmpty, CanLock, MustWaitForBytes, pipeVars
<1>1. PipeTypeOK'
  BY <1>0 DEF IInv, PipeTypeOK, Used
<1>2. EndsCounted'
  BY <1>0, EndsKept DEF IInv
<1>3. CallersKnown'
  BY <1>0, CallersKept DEF IInv
<1>4. LockKnown'
  BY <1>0, NamesDiffer DEF IInv, PipeTypeOK, LockKnown, Full
<1>5. NoLostWakeup'
  BY <1>0 DEF IInv, NoLostWakeup, Full
<1> QED
  BY <1>1, <1>2, <1>3, <1>4, <1>5 DEF IInv

\* ReaderSleep keeps the invariant.
LEMMA ReaderSleepKeeps ==
  ASSUME IInv, NEW p \in Users, ReaderSleep(p)
  PROVE  IInv'
<1>0. /\ pc[p] = "rsleep" /\ lock = p /\ lock' = "free"
      /\ chan' = [chan EXCEPT ![p] = "nread"] /\ pc' = [pc EXCEPT ![p] = "read"]
      /\ UNCHANGED <<data, nread, nwrite, readopen, writeopen, freed, ends, buf, want, result, closing,
                     killed, calls>>
  BY DEF ReaderSleep, pipeVars
<1>1. PipeTypeOK'
  BY <1>0 DEF IInv, PipeTypeOK, Used
<1>2. EndsCounted'
  BY <1>0, EndsKept DEF IInv
<1>3. CallersKnown'
  BY <1>0, CallersKept DEF IInv
<1>4. LockKnown'
  BY <1>0, NamesDiffer DEF IInv, PipeTypeOK, LockKnown, Full
<1>5. NoLostWakeup'
  BY <1>0 DEF IInv, PipeTypeOK, LockKnown, NoLostWakeup, Full
<1> QED
  BY <1>1, <1>2, <1>3, <1>4, <1>5 DEF IInv

\* How many bytes piperead takes.
Taken(p) == Min({want[p], Used})

\* A read takes no more than there is, and nothing only if it wants or finds nothing.
LEMMA TakenFacts ==
  ASSUME PipeTypeOK, NEW p \in Users
  PROVE  /\ Taken(p) \in Nat /\ Taken(p) <= Used
         /\ Taken(p) = 0 => want[p] = 0 \/ Used = 0
<1>1. want[p] \in Nat /\ Used \in Nat
  BY CountFacts, PipeSizes DEF PipeTypeOK
<1> QED
  BY <1>1, MinOfTwo DEF Taken

\* PipeRead keeps the invariant.
LEMMA PipeReadKeeps ==
  ASSUME IInv, NEW p \in Users, PipeRead(p)
  PROVE  IInv'
<1>0. /\ pc[p] = "read" /\ chan[p] = "awake" /\ lock = "free"
      /\ result' = [result EXCEPT ![p] = [k \in 1 .. Taken(p) |-> data[(nread + k - 1) % PIPESIZE]]]
      /\ nread' = (nread + Taken(p)) % CountRange
      /\ chan' = Wakeup(chan, "nwrite") /\ pc' = [pc EXCEPT ![p] = "user"]
      /\ UNCHANGED <<data, nwrite, readopen, writeopen, freed, lock, ends, buf, want, closing, killed,
                     calls>>
  BY DEF PipeRead, CanLock, Taken
<1>a. /\ chan' \in [Users -> {"awake", "nread", "nwrite"}]
      /\ \A q \in Users : chan'[q] = IF chan[q] = "nwrite" THEN "awake" ELSE chan[q]
  BY <1>0, WakeupIs DEF IInv
<1>b. /\ nread \in Counts /\ nwrite \in Counts /\ Used = UsedOf(nwrite, nread) /\ Used \in Nat
      /\ Used <= PIPESIZE /\ PIPESIZE < CountRange /\ PIPESIZE \in Nat \ {0} /\ CountRange \in Nat
      /\ Taken(p) \in Nat /\ Taken(p) <= Used
  BY CountFacts, SizeFacts, TakenFacts DEF IInv
<1>c. nread' \in Counts /\ Used' = Used - Taken(p)
  <2>1. PICK n \in Nat : n = Taken(p) /\ n <= Used /\ nread' = (nread + n) % CountRange /\ n <= CountRange
    BY <1>0, <1>b
  <2>2. UsedOf(nwrite, nread') = Used - n
    BY <1>b, <2>1, UsedFacts
  <2>3. nread' \in Counts
    BY <1>b, <2>1, CountAdded
  <2> QED
    BY <1>0, <2>1, <2>2, <2>3 DEF Used, UsedOf
\* A pipe that is empty stays as it is.
<1>d. nread = nwrite => nread' = nread
  <2>1. ASSUME nread = nwrite PROVE nread' = nread
    <3>1. PICK n \in Nat : n = 0 /\ nread' = (nread + n) % CountRange
      BY <1>0, <1>b, <2>1, CountFacts DEF IInv
    <3>2. (nread + n) % CountRange = IF nread + n < CountRange THEN nread + n ELSE (nread + n) - CountRange
      BY <1>b, <3>1, CountAdded
    <3> QED
      BY <1>b, <3>1, <3>2 DEF Counts
  <2> QED
    BY <2>1
<1>1. PipeTypeOK'
  <2>1. {nread', nwrite'} \subseteq 0 .. CountRange - 1
    BY <1>0, <1>b, <1>c DEF Counts
  <2>2. Used' \in 0 .. PIPESIZE
    BY <1>b, <1>c
  <2>3. result' \in [Users -> Seq(Bytes)]
    <3>1. ASSUME NEW k \in 1 .. Taken(p)
          PROVE  data[(nread + k - 1) % PIPESIZE] \in Bytes
      <4>1. (nread + k - 1) % PIPESIZE \in 0 .. PIPESIZE - 1
        BY <1>b, SMT DEF Counts
      <4> QED
        BY <4>1 DEF IInv, PipeTypeOK
    <3>2. [k \in 1 .. Taken(p) |-> data[(nread + k - 1) % PIPESIZE]] \in Seq(Bytes)
      BY <1>b, <3>1
    <3> QED
      BY <1>0, <3>2 DEF IInv, PipeTypeOK
  <2>4. pc' \in [Users -> {"user", "write", "wsleep", "read", "rsleep", "close"}]
    BY <1>0 DEF IInv, PipeTypeOK
  <2> QED
    BY <1>0, <1>a, <2>1, <2>2, <2>3, <2>4 DEF IInv, PipeTypeOK
<1>2. EndsCounted'
  BY <1>0, EndsKept DEF IInv
<1>3. CallersKnown'
  BY <1>0, CallersKept DEF IInv
<1>4. LockKnown'
  BY <1>0, <1>a, NamesDiffer DEF IInv, PipeTypeOK, LockKnown
<1>5. NoLostWakeup'
  BY <1>0, <1>a, <1>d DEF IInv, PipeTypeOK, NoLostWakeup
<1> QED
  BY <1>1, <1>2, <1>3, <1>4, <1>5 DEF IInv

-----------------------------------------------------------------------------
(* close and kill                                                           *)
LEMMA FileCloseKeeps ==
  ASSUME IInv, NEW p \in Users, NEW e \in {"read", "write"}, FileClose(p, e)
  PROVE  IInv'
<1>0. /\ pc[p] = "user" /\ chan[p] = "awake" /\ e \in ends[p]
      /\ ends' = [ends EXCEPT ![p] = @ \ {e}]
      /\ UNCHANGED <<data, nread, nwrite, readopen, writeopen, freed, lock, chan, buf, want, result,
                     killed, calls>>
  BY DEF FileClose, Idle, pipeVars
<1>1. \/ /\ \E q \in Users \ {p} : e \in ends[q]
         /\ closing' = closing /\ pc' = [pc EXCEPT ![p] = "user"]
      \/ /\ \A q \in Users \ {p} : e \notin ends[q]
         /\ closing' = closing \cup {<<p, e>>} /\ pc' = [pc EXCEPT ![p] = "close"]
  BY DEF FileClose
<1>a. /\ \A q \in Users : ends'[q] = IF q = p THEN ends[q] \ {e} ELSE ends[q]
      /\ <<p, "read">> \notin closing /\ <<p, "write">> \notin closing
      /\ \A q \in Users : <<q, e>> \notin closing
  BY <1>0, ZenonT(40) DEF IInv, PipeTypeOK, CallersKnown, EndsCounted
<1>2. PipeTypeOK'
  <2>1. ends' \in [Users -> SUBSET {"read", "write"}]
    BY <1>0 DEF IInv, PipeTypeOK
  <2>2. pc' \in [Users -> {"user", "write", "wsleep", "read", "rsleep", "close"}]
    BY <1>1 DEF IInv, PipeTypeOK
  <2>3. closing' \subseteq Users \X {"read", "write"}
    BY <1>1 DEF IInv, PipeTypeOK
  <2> QED
    BY <1>0, <2>1, <2>2, <2>3 DEF IInv, PipeTypeOK, Used
<1>3. EndsCounted'
  <2>1. ASSUME NEW f \in {"read", "write"}
        PROVE  EndOpen(f)' <=> \E q \in Users : f \in ends'[q] \/ <<q, f>> \in closing'
    <3>1. EndOpen(f)' <=> \E q \in Users : f \in ends[q] \/ <<q, f>> \in closing
      BY <1>0 DEF IInv, EndsCounted, EndOpen
    <3>2. CASE f # e
      BY <1>1, <1>a, <3>1, <3>2
    <3>3. CASE f = e
      BY <1>0, <1>1, <1>a, <3>1, <3>3
    <3> QED
      BY <3>2, <3>3
  <2>2. ASSUME NEW f \in {"read", "write"}, NEW q \in Users, NEW r \in Users, <<q, f>> \in closing'
        PROVE  f \notin ends'[r] /\ (<<r, f>> \in closing' => q = r)
    <3>1. CASE <<q, f>> \in closing
      BY <1>1, <1>a, <3>1 DEF IInv, EndsCounted
    <3>2. CASE <<q, f>> \notin closing
      <4>1. /\ q = p /\ f = e /\ closing' = closing \cup {<<p, e>>}
            /\ \A s \in Users \ {p} : e \notin ends[s]
        BY <1>1, <2>2, <3>2
      <4>2. f \notin ends'[r]
        BY <1>a, <4>1
      <4>3. <<r, f>> \in closing' => q = r
        BY <1>a, <4>1
      <4> QED
        BY <4>2, <4>3
    <3> QED
      BY <3>1, <3>2
  <2> QED
    BY <1>0, <2>1, <2>2 DEF IInv, EndsCounted
<1>4. CallersKnown'
  <2> SUFFICES ASSUME NEW q \in Users
               PROVE  /\ pc'[q] = "close" <=> <<q, "read">> \in closing' \/ <<q, "write">> \in closing'
                      /\ ~(<<q, "read">> \in closing' /\ <<q, "write">> \in closing')
                      /\ pc'[q] \in {"read", "rsleep"} => "read" \in ends'[q] /\ want'[q] # 0
                      /\ pc'[q] \in {"write", "wsleep"} => "write" \in ends'[q]
    BY DEF CallersKnown
  <2>1. CASE q = p
    BY <1>0, <1>1, <1>a, <2>1 DEF IInv, PipeTypeOK
  <2>2. CASE q # p
    BY <1>0, <1>1, <1>a, <2>2 DEF IInv, PipeTypeOK, CallersKnown
  <2> QED
    BY <2>1, <2>2
<1>5. LockKnown'
  BY <1>0, <1>1 DEF IInv, PipeTypeOK, LockKnown, Full
<1>6. NoLostWakeup'
  BY <1>0 DEF IInv, NoLostWakeup, Full
<1> QED
  BY <1>2, <1>3, <1>4, <1>5, <1>6 DEF IInv

\* PipeClose keeps the invariant.
LEMMA PipeCloseKeeps ==
  ASSUME IInv, NEW p \in Users, NEW e \in {"read", "write"}, PipeClose(p, e)
  PROVE  IInv'
<1>0. /\ <<p, e>> \in closing /\ lock = "free"
      /\ closing' = closing \ {<<p, e>>} /\ pc' = [pc EXCEPT ![p] = "user"]
      /\ chan' = Wakeup(chan, IF e = "write" THEN "nread" ELSE "nwrite")
      /\ UNCHANGED <<data, nread, nwrite, lock, ends, buf, want, result, killed, calls>>
  BY DEF PipeClose, CanLock
<1>1. /\ readopen' = (readopen /\ e # "read") /\ writeopen' = (writeopen /\ e # "write")
      /\ freed' = (freed \/ (~readopen' /\ ~writeopen'))
  BY DEF PipeClose
<1>a. /\ chan' \in [Users -> {"awake", "nread", "nwrite"}]
      /\ \A q \in Users : chan'[q] = IF chan[q] = (IF e = "write" THEN "nread" ELSE "nwrite")
                                     THEN "awake" ELSE chan[q]
  BY <1>0, WakeupIs DEF IInv
<1>b. /\ pc[p] = "close" /\ \A f \in {"read", "write"} : f # e => <<p, f>> \notin closing
      /\ \A q \in Users : e \notin ends[q] /\ (<<q, e>> \in closing => q = p)
  BY <1>0 DEF IInv, CallersKnown, EndsCounted
<1>2. PipeTypeOK'
  <2>1. {readopen', writeopen', freed'} \subseteq BOOLEAN
    <3>1. readopen' \in BOOLEAN
      BY <1>1
    <3>2. writeopen' \in BOOLEAN
      BY <1>1
    <3>3. freed' \in BOOLEAN
      BY <1>1
    <3> QED
      BY <3>1, <3>2, <3>3
  <2>2. pc' \in [Users -> {"user", "write", "wsleep", "read", "rsleep", "close"}]
    BY <1>0 DEF IInv, PipeTypeOK
  <2>3. closing' \subseteq Users \X {"read", "write"}
    BY <1>0 DEF IInv, PipeTypeOK
  <2> QED
    BY <1>0, <1>a, <2>1, <2>2, <2>3 DEF IInv, PipeTypeOK, Used
<1>3. EndsCounted'
  <2>1. ASSUME NEW f \in {"read", "write"}
        PROVE  EndOpen(f)' <=> \E q \in Users : f \in ends'[q] \/ <<q, f>> \in closing'
    <3>1. EndOpen(f) <=> \E q \in Users : f \in ends[q] \/ <<q, f>> \in closing
      BY DEF IInv, EndsCounted
    <3>2. CASE f # e
      <4>1. EndOpen(f)' <=> EndOpen(f)
        <5>1. CASE e = "read"
          BY <1>1, <3>2, <5>1 DEF EndOpen
        <5>2. CASE e = "write"
          BY <1>1, <3>2, <5>2 DEF EndOpen
        <5> QED
          BY <5>1, <5>2
      <4> QED
        BY <1>0, <3>1, <3>2, <4>1
    <3>3. CASE f = e
      <4>1. ~EndOpen(f)'
        BY <1>1, <3>3 DEF EndOpen
      <4> QED
        BY <1>0, <1>b, <3>3, <4>1
    <3> QED
      BY <3>2, <3>3
  <2>2. ASSUME NEW f \in {"read", "write"}, NEW q \in Users, NEW r \in Users, <<q, f>> \in closing'
        PROVE  f \notin ends'[r] /\ (<<r, f>> \in closing' => q = r)
    BY <1>0, <2>2 DEF IInv, EndsCounted
  <2>3. freed' <=> ~readopen' /\ ~writeopen'
    BY <1>1 DEF IInv, EndsCounted
  <2> QED
    BY <2>1, <2>2, <2>3 DEF EndsCounted
<1>4. CallersKnown'
  <2> SUFFICES ASSUME NEW q \in Users
               PROVE  /\ pc'[q] = "close" <=> <<q, "read">> \in closing' \/ <<q, "write">> \in closing'
                      /\ ~(<<q, "read">> \in closing' /\ <<q, "write">> \in closing')
                      /\ pc'[q] \in {"read", "rsleep"} => "read" \in ends'[q] /\ want'[q] # 0
                      /\ pc'[q] \in {"write", "wsleep"} => "write" \in ends'[q]
    BY DEF CallersKnown
  <2>1. CASE q = p
    BY <1>0, <1>b, <2>1 DEF IInv, PipeTypeOK
  <2>2. CASE q # p
    BY <1>0, <2>2 DEF IInv, PipeTypeOK, CallersKnown
  <2> QED
    BY <2>1, <2>2
<1>5. LockKnown'
  <2> SUFFICES ASSUME NEW q \in Users
               PROVE  /\ lock' = q <=> pc'[q] \in {"wsleep", "rsleep"}
                      /\ pc'[q] = "wsleep" => readopen' /\ Full(nwrite)'
                      /\ pc'[q] = "rsleep" => writeopen' /\ nread' = nwrite'
                      /\ chan'[q] = "nread" => pc'[q] = "read"
                      /\ chan'[q] = "nwrite" => pc'[q] = "write"
    BY DEF LockKnown
  <2>1. pc'[q] = IF q = p THEN "user" ELSE pc[q]
    BY <1>0 DEF IInv, PipeTypeOK
  <2>2. pc'[q] \notin {"wsleep", "rsleep"} /\ lock' # q
    BY <1>0, <2>1, NamesDiffer DEF IInv, LockKnown
  <2>3. chan[p] = "awake"
    BY <1>b DEF IInv, PipeTypeOK, LockKnown
  <2>4. (chan'[q] = "nread" => chan[q] = "nread") /\ (chan'[q] = "nwrite" => chan[q] = "nwrite")
    BY <1>a
  <2> QED
    BY <2>1, <2>2, <2>3, <2>4 DEF IInv, LockKnown
<1>6. NoLostWakeup'
  <2> SUFFICES ASSUME NEW q \in Users
               PROVE  /\ chan'[q] = "nread" => writeopen' /\ (nread' = nwrite' \/ killed' # {})
                      /\ chan'[q] = "nwrite" => readopen' /\ Full(nwrite)'
    BY DEF NoLostWakeup
  <2>1. CASE e = "write"
    BY <1>0, <1>1, <1>a, <2>1 DEF IInv, NoLostWakeup, Full
  <2>2. CASE e = "read"
    BY <1>0, <1>1, <1>a, <2>2 DEF IInv, NoLostWakeup, Full
  <2> QED
    BY <2>1, <2>2
<1> QED
  BY <1>2, <1>3, <1>4, <1>5, <1>6 DEF IInv

\* Kill keeps the invariant.
LEMMA KillKeeps ==
  ASSUME IInv, NEW p \in Users, Kill(p)
  PROVE  IInv'
<1>0. /\ killed' = killed \cup {p} /\ chan' = [chan EXCEPT ![p] = "awake"]
      /\ UNCHANGED <<data, nread, nwrite, readopen, writeopen, freed, lock, ends, pc, buf, want, result,
                     closing, calls>>
  BY DEF Kill, pipeVars
<1>1. PipeTypeOK'
  BY <1>0 DEF IInv, PipeTypeOK, Used
<1>2. EndsCounted'
  BY <1>0, EndsKept DEF IInv
<1>3. CallersKnown'
  BY <1>0 DEF IInv, CallersKnown
<1>4. LockKnown'
  BY <1>0 DEF IInv, PipeTypeOK, LockKnown, Full
<1>5. NoLostWakeup'
  BY <1>0 DEF IInv, PipeTypeOK, NoLostWakeup, Full
<1> QED
  BY <1>1, <1>2, <1>3, <1>4, <1>5 DEF IInv

-----------------------------------------------------------------------------
\* The invariant holds of a pipe that was just allocated.
LEMMA InitHolds == Init => IInv
<1> SUFFICES ASSUME Init PROVE IInv
  OBVIOUS
<1>0. CountRange \in Nat \ {0} /\ PIPESIZE \in Nat \ {0}
  BY SizeFacts
<1>1. PipeTypeOK
  <2>1. UsedOf(0, 0) = 0
    BY <1>0, UsedFacts DEF Counts
  <2>2. Used \in 0 .. PIPESIZE
    BY <1>0, <2>1 DEF Init, Used, UsedOf
  <2> QED
    BY <1>0, <2>2, PipeSizes DEF Init, PipeTypeOK
<1>2. EndsCounted
  <2>1. ASSUME NEW e \in {"read", "write"} PROVE \E p \in Users : e \in ends[p]
    BY <2>1 DEF Init
  <2> QED
    BY <2>1 DEF Init, EndsCounted, EndOpen
<1>3. CallersKnown
  BY DEF Init, CallersKnown
<1>4. LockKnown
  BY NamesDiffer DEF Init, LockKnown
<1>5. NoLostWakeup
  BY DEF Init, NoLostWakeup
<1> QED
  BY <1>1, <1>2, <1>3, <1>4, <1>5 DEF IInv

\* Stutter keeps the invariant.
LEMMA StutterKeeps == IInv /\ UNCHANGED vars => IInv'
<1> SUFFICES ASSUME IInv, UNCHANGED vars PROVE IInv'
  OBVIOUS
<1>0. UNCHANGED <<data, nread, nwrite, readopen, writeopen, freed, lock, ends, pc, chan, buf, want,
                  result, closing, killed, calls>>
  BY DEF vars, pipeVars, procVars
<1>1. PipeTypeOK'
  BY <1>0 DEF IInv, PipeTypeOK, Used
<1>2. EndsCounted'
  BY <1>0, EndsKept DEF IInv
<1>3. CallersKnown' /\ LockKnown' /\ NoLostWakeup'
  BY <1>0 DEF IInv, CallersKnown, LockKnown, NoLostWakeup, Full
<1> QED
  BY <1>1, <1>2, <1>3 DEF IInv

\* Every step keeps the invariant.
LEMMA NextKeeps == IInv /\ [Next]_vars => IInv'
<1> SUFFICES ASSUME IInv, Next PROVE IInv'
  BY StutterKeeps
<1>1. PICK p \in Users :
        \/ \E n \in 1 .. MaxWrite : Read(p, n) \/ \E bytes \in [1 .. n -> Bytes] : Write(p, bytes)
        \/ WriteStep(p) \/ ReadStep(p) \/ CloseStep(p)
        \/ \E e \in {"read", "write"} : FileClose(p, e)
        \/ Kill(p)
  BY DEF Next
<1>2. CASE \E n \in 1 .. MaxWrite : Read(p, n) \/ \E bytes \in [1 .. n -> Bytes] : Write(p, bytes)
  BY <1>2, ReadKeeps, WriteKeeps
<1>3. CASE WriteStep(p)
  BY <1>3, PipeWriteDoneKeeps, PipeWriteFullKeeps, WriterSleepKeeps DEF WriteStep
<1>4. CASE ReadStep(p)
  BY <1>4, PipeReadEmptyKeeps, ReaderSleepKeeps, PipeReadKeeps DEF ReadStep
<1>5. CASE CloseStep(p)
  BY <1>5, PipeCloseKeeps DEF CloseStep
<1>6. CASE \E e \in {"read", "write"} : FileClose(p, e)
  BY <1>6, FileCloseKeeps
<1>7. CASE Kill(p)
  BY <1>7, KillKeeps
<1> QED
  BY <1>1, <1>2, <1>3, <1>4, <1>5, <1>6, <1>7

\* The inductive invariant holds in every behaviour.
LEMMA IInvHolds == Spec => []IInv
BY InitHolds, NextKeeps, PTL DEF Spec

\* pipealloc, pipewrite, piperead and pipeclose keep the pipe consistent: the counts
\* within a pipe's length of each other, the lock kept only on the way to sleep, both
\* flags true while somebody has the end, the page freed once and unused.
THEOREM PipeSafe == Spec => []PipeInvariant
<1>1. IInv => PipeInvariant
  <2> SUFFICES ASSUME IInv PROVE FreedUnused
    BY DEF IInv, PipeInvariant
  <2> SUFFICES ASSUME freed PROVE closing = {} /\ \A p \in Users : pc[p] = "user" /\ ends[p] = {}
    BY DEF FreedUnused
  <2>1. ASSUME NEW p \in Users, NEW e \in {"read", "write"} PROVE e \notin ends[p] /\ <<p, e>> \notin closing
    BY DEF IInv, EndsCounted, EndOpen
  <2>2. closing = {}
    <3> SUFFICES ASSUME NEW c \in closing PROVE FALSE
      OBVIOUS
    <3>1. PICK p \in Users, e \in {"read", "write"} : c = <<p, e>>
      BY DEF IInv, PipeTypeOK
    <3> QED
      BY <2>1, <3>1
  <2>3. ASSUME NEW p \in Users PROVE ends[p] = {} /\ pc[p] = "user"
    BY <2>1, ZenonT(40) DEF IInv, PipeTypeOK, CallersKnown
  <2> QED
    BY <2>2, <2>3
<1> QED
  BY <1>1, IInvHolds, PTL

\* sleep and wakeup in pipe.c lose no wakeup: a process sleeps in piperead only while
\* the pipe is empty and can be written (or a writer was killed half-way), in pipewrite
\* only while it is full and can be read.
THEOREM NoWakeupLost == Spec => []NoLostWakeup
<1>1. IInv => NoLostWakeup
  BY DEF IInv
<1> QED
  BY <1>1, IInvHolds, PTL

-----------------------------------------------------------------------------
(* The pipe is a ByteStream.                                                *)
LEMMA ContentsFacts ==
  ASSUME PipeTypeOK
  PROVE  /\ Contents \in Seq(Bytes) /\ Len(Contents) = Used /\ Used \in Nat
         /\ \A k \in 1 .. Used : Contents[k] = data[(nread + k - 1) % PIPESIZE]
<1>1. Used \in Nat /\ nread \in Nat /\ PIPESIZE \in Nat \ {0}
  BY CountFacts, SizeFacts DEF Counts
<1>2. ASSUME NEW k \in 1 .. Used PROVE data[(nread + k - 1) % PIPESIZE] \in Bytes
  <2>1. (nread + k - 1) % PIPESIZE \in 0 .. PIPESIZE - 1
    BY <1>1, SMT
  <2> QED
    BY <2>1 DEF PipeTypeOK
<1> QED
  BY <1>1, <1>2 DEF Contents

\* The bytes in the pipe are a function of its buffer and counts.
LEMMA ContentsKept ==
  ASSUME UNCHANGED <<data, nread, nwrite>>
  PROVE  Contents' = Contents
BY DEF Contents, Used

\* The slot behind the last byte is nwrite's, whichever of the counts have wrapped.
LEMMA WriteSlot ==
  ASSUME PipeTypeOK, NEW j \in Nat \ {0}
  PROVE  (nwrite + j - 1) % PIPESIZE = (nread + Used + j - 1) % PIPESIZE
<1>1. /\ nread \in Nat /\ nwrite \in Nat /\ Used \in Nat /\ CountRange \in Nat
      /\ Used = IF nwrite >= nread THEN nwrite - nread ELSE nwrite + CountRange - nread
  <2>1. /\ nread \in Counts /\ nwrite \in Counts /\ Used = UsedOf(nwrite, nread) /\ Used \in Nat
        /\ CountRange \in Nat
    BY CountFacts, SizeFacts
  <2>2. UsedOf(nwrite, nread) = IF nwrite >= nread THEN nwrite - nread ELSE nwrite + CountRange - nread
    BY <2>1, UsedIs
  <2> QED
    BY <2>1, <2>2 DEF Counts
<1>2. PICK x \in Nat, y \in Nat : x = nwrite + j - 1 /\ y = nread + Used + j - 1
  BY <1>1
<1>3. y = x \/ y = x + CountRange
  BY <1>1, <1>2
<1>4. (x + CountRange) % PIPESIZE = x % PIPESIZE
  BY SlotWraps
<1> QED
  BY <1>2, <1>3, <1>4

\* What is copied goes behind what is there, which stays.
LEMMA PutAppends ==
  ASSUME PipeTypeOK, NEW p \in Users, PutBytes(p), nread' = nread
  PROVE  Contents' = Contents \o [k \in 1 .. Copied(p) |-> buf[p][k]]
<1>1. PICK n \in Nat : /\ n = Copied(p) /\ Used' = Used + n /\ n <= Len(buf[p]) /\ Used + n <= PIPESIZE
                       /\ data' = Filled(p, n)
  BY PutFacts, CopiedFacts DEF PutBytes
<1>2. /\ \A k \in 1 .. n : data'[(nwrite + k - 1) % PIPESIZE] = buf[p][k]
      /\ \A i \in 0 .. PIPESIZE - 1 :
           (\A k \in 1 .. n : (nwrite + k - 1) % PIPESIZE # i) => data'[i] = data[i]
  BY <1>1, FilledFacts
<1>3. /\ Used \in Nat /\ nread \in Nat /\ nwrite \in Nat /\ PIPESIZE \in Nat \ {0}
      /\ Contents \in Seq(Bytes) /\ Len(Contents) = Used
      /\ \A k \in 1 .. Used : Contents[k] = data[(nread + k - 1) % PIPESIZE]
  BY CountFacts, SizeFacts, ContentsFacts DEF Counts
<1>4. Contents' = [k \in 1 .. Used + n |-> data'[(nread + k - 1) % PIPESIZE]]
  BY <1>1 DEF Contents
<1>5. ASSUME NEW k \in 1 .. Used PROVE data'[(nread + k - 1) % PIPESIZE] = Contents[k]
  <2>1. PICK x \in Nat : x = nread + k - 1
    BY <1>3
  <2>2. ASSUME NEW j \in 1 .. n PROVE (nwrite + j - 1) % PIPESIZE # x % PIPESIZE
    <3>1. PICK y \in Nat : y = nread + Used + j - 1
      BY <1>3
    <3>2. x < y /\ y < x + PIPESIZE
      BY <1>1, <1>3, <2>1, <3>1
    <3>3. (nwrite + j - 1) % PIPESIZE = y % PIPESIZE
      BY <1>1, <3>1, WriteSlot
    <3> QED
      BY <3>2, <3>3, SlotsDiffer
  <2>3. x % PIPESIZE \in 0 .. PIPESIZE - 1
    BY <1>3, SMT
  <2>4. data'[x % PIPESIZE] = data[x % PIPESIZE]
    BY <1>2, <2>2, <2>3
  <2> QED
    BY <1>3, <2>1, <2>4
<1>6. ASSUME NEW j \in 1 .. n PROVE data'[(nread + (Used + j) - 1) % PIPESIZE] = buf[p][j]
  <2>1. nread + (Used + j) - 1 = nread + Used + j - 1
    BY <1>1, <1>3
  <2>2. (nwrite + j - 1) % PIPESIZE = (nread + Used + j - 1) % PIPESIZE
    BY <1>1, WriteSlot
  <2> QED
    BY <1>2, <2>1, <2>2
<1> DEFINE s == Contents
           t == [k \in 1 .. n |-> buf[p][k]]
           d(k) == data'[(nread + k - 1) % PIPESIZE]
<1>7. t \in Seq(Bytes) /\ Len(t) = n /\ \A k \in 1 .. n : t[k] = buf[p][k]
  <2>1. ASSUME NEW k \in 1 .. n PROVE buf[p][k] \in Bytes
    <3>1. k \in 1 .. Len(buf[p]) /\ buf[p] \in Seq(Bytes)
      BY <1>1 DEF PipeTypeOK
    <3> QED
      BY <3>1
  <2> QED
    BY <1>1, <2>1
<1>8. \A k \in 1 .. Used + n : d(k) = (s \o t)[k]
  <2> SUFFICES ASSUME NEW k \in 1 .. Used + n PROVE d(k) = (s \o t)[k]
    OBVIOUS
  <2>1. CASE k <= Used
    <3>1. d(k) = s[k]
      <4>1. k \in 1 .. Used
        BY <1>3, <2>1
      <4> QED
        BY <1>5, <4>1
    <3> HIDE DEF s, t, d
    <3>2. (s \o t)[k] = s[k]
      BY <1>3, <1>7, <2>1 DEF s
    <3> QED
      BY <3>1, <3>2
  <2>2. CASE k > Used
    <3>1. PICK j \in 1 .. n : k = Used + j
      <4>1. k - Used \in 1 .. n /\ k = Used + (k - Used)
        BY <1>1, <1>3, <2>2
      <4> QED
        BY <4>1
    <3>2. d(k) = t[j]
      BY <1>6, <1>7, <3>1
    <3> HIDE DEF s, t, d
    <3>3. (s \o t)[k] = t[j]
      BY <1>3, <1>7, <3>1 DEF s
    <3> QED
      BY <3>2, <3>3
  <2> QED
    BY <1>3, <2>1, <2>2
<1>9. s \o t = [k \in 1 .. Used + n |-> (s \o t)[k]]
  <2>1. s \in Seq(Bytes) /\ Len(s) = Used
    BY <1>3
  <2> HIDE DEF s, t
  <2>2. t \in Seq(Bytes) /\ Len(t) = n /\ Used \in Nat /\ n \in Nat
    BY <1>1, <1>3, <1>7
  <2>3. s \o t \in Seq(Bytes) /\ Len(s \o t) = Used + n
    BY <2>1, <2>2
  <2>4. \A u \in Seq(Bytes) : u = [k \in 1 .. Len(u) |-> u[k]]
    OBVIOUS
  <2> QED
    BY <2>3, <2>4
<1>10. Contents' = s \o t
  <2> HIDE DEF s, t
  <2> QED
    BY <1>4, <1>8, <1>9 DEF d
<1> QED
  BY <1>1, <1>10

\* What is taken is the front of what is there, and the rest stays.
LEMMA TakeFront ==
  ASSUME PipeTypeOK, NEW p \in Users, PipeRead(p)
  PROVE  /\ result' = [result EXCEPT ![p] = SubSeq(Contents, 1, Taken(p))]
         /\ Contents' = SubSeq(Contents, Taken(p) + 1, Len(Contents))
<1>1. /\ Used \in Nat /\ nread \in Nat /\ nread \in Counts /\ nwrite \in Counts /\ PIPESIZE \in Nat \ {0}
      /\ PIPESIZE < CountRange /\ CountRange \in Nat /\ Used <= PIPESIZE /\ Used = UsedOf(nwrite, nread)
      /\ Contents \in Seq(Bytes) /\ Len(Contents) = Used
  BY CountFacts, SizeFacts, ContentsFacts DEF Counts
<1>a. \A k \in 1 .. Used : Contents[k] = data[(nread + k - 1) % PIPESIZE]
  BY ContentsFacts
<1>b. /\ nread' = (nread + Taken(p)) % CountRange /\ UNCHANGED <<data, nwrite>>
      /\ result' = [result EXCEPT ![p] = [k \in 1 .. Taken(p) |-> data[(nread + k - 1) % PIPESIZE]]]
  BY DEF PipeRead, Taken
<1>2. PICK n \in Nat : n = Taken(p) /\ n <= Used /\ n <= CountRange
  BY <1>1, TakenFacts
<1>3. nread' \in Nat /\ nread' = IF nread + n < CountRange THEN nread + n ELSE (nread + n) - CountRange
  <2>1. /\ (nread + n) % CountRange \in Counts
        /\ (nread + n) % CountRange = IF nread + n < CountRange THEN nread + n ELSE (nread + n) - CountRange
    BY <1>1, <1>2, CountAdded
  <2> QED
    BY <1>1, <1>2, <1>b, <2>1 DEF Counts
<1>4. Used' = Used - n
  <2>1. UsedOf(nwrite, nread') = Used - n
    BY <1>1, <1>2, <1>b, UsedFacts
  <2> QED
    BY <1>b, <2>1 DEF Used, UsedOf
<1>5. [k \in 1 .. n |-> data[(nread + k - 1) % PIPESIZE]] = SubSeq(Contents, 1, n)
  <2>1. SubSeq(Contents, 1, n) = [k \in 1 .. n |-> Contents[k]]
    BY <1>1, <1>2
  <2> QED
    BY <1>1, <1>2, <1>a, <2>1
<1>6. ASSUME NEW k \in 1 .. Used - n
      PROVE  data[(nread' + k - 1) % PIPESIZE] = Contents[n + k]
  <2>0. k \in Nat /\ k >= 1 /\ k <= Used - n
    BY <1>1, <1>2
  <2>1. PICK x \in Nat, y \in Nat : x = nread' + k - 1 /\ y = nread + (n + k) - 1
    <3>1. PICK r \in Nat : r = nread'
      BY <1>3
    <3>2. r + k - 1 \in Nat
      BY <2>0
    <3>3. nread + (n + k) - 1 \in Nat
      BY <1>1, <2>0
    <3> QED
      BY <3>1, <3>2, <3>3
  <2>2. y = x \/ y = x + CountRange
    BY <1>1, <1>3, <2>1
  <2>3. (x + CountRange) % PIPESIZE = x % PIPESIZE
    BY SlotWraps
  <2>4. n + k \in 1 .. Used
    BY <1>1, <1>2
  <2> QED
    BY <1>1, <1>a, <2>1, <2>2, <2>3, <2>4
<1>7. SubSeq(Contents, n + 1, Used) = [k \in 1 .. Used - n |-> Contents[n + k]]
  BY <1>1, <1>2
<1>8. Contents' = [k \in 1 .. Used - n |-> data[(nread' + k - 1) % PIPESIZE]]
  BY <1>b, <1>4 DEF Contents
<1>9. Contents' = SubSeq(Contents, n + 1, Used)
  BY <1>6, <1>7, <1>8
<1> QED
  BY <1>1, <1>2, <1>b, <1>5, <1>9

\* Each pass of pipewrite's loop is a part of a write, or copies nothing.
LEMMA PutIsWrite ==
  ASSUME IInv, NEW p \in Users, pc[p] = "write", PutBytes(p), UNCHANGED <<nread, writeopen, result>>
  PROVE  Stream!BSWrite \/ UNCHANGED Stream!bvars
<1>1. PICK n \in Nat : n = Copied(p) /\ n <= Len(buf[p]) /\ Used + n <= PIPESIZE
  BY CopiedFacts DEF IInv
<1>2. Contents' = Contents \o [k \in 1 .. n |-> buf[p][k]]
  BY <1>1, PutAppends DEF IInv
<1>3. writeopen
  BY DEF IInv, CallersKnown, EndsCounted, EndOpen
<1>4. Contents \in Seq(Bytes) /\ Len(Contents) = Used /\ Used \in Nat /\ buf[p] \in Seq(Bytes)
  BY ContentsFacts DEF IInv, PipeTypeOK
<1>5. CASE n = 0
  <2>1. [k \in 1 .. n |-> buf[p][k]] = <<>>
    BY <1>5
  <2>2. \A c \in Seq(Bytes) : c \o <<>> = c
    OBVIOUS
  <2>3. Contents' = Contents
    BY <1>2, <1>4, <2>1, <2>2
  <2> QED
    BY <2>3 DEF Stream!bvars
<1>6. CASE n # 0
  <2>1. n \in 1 .. PIPESIZE - Len(Contents)
    BY <1>1, <1>4, <1>6, SizeFacts
  <2>2. [k \in 1 .. n |-> buf[p][k]] \in [1 .. n -> Bytes]
    BY <1>1, <1>4
  <2> QED
    BY <1>2, <1>3, <2>1, <2>2 DEF Stream!BSWrite
<1> QED
  BY <1>5, <1>6

\* piperead takes the oldest bytes of the stream, or finds its end.
LEMMA PipeReadIsRead ==
  ASSUME IInv, NEW p \in Users, PipeRead(p)
  PROVE  Stream!BSRead(p) \/ Stream!BSEndOfFile(p)
<1>1. /\ result' = [result EXCEPT ![p] = SubSeq(Contents, 1, Taken(p))]
      /\ Contents' = SubSeq(Contents, Taken(p) + 1, Len(Contents))
      /\ writeopen' = writeopen
  BY TakeFront DEF IInv, PipeRead
<1>2. /\ Taken(p) \in Nat /\ Taken(p) <= Used /\ (Taken(p) = 0 => want[p] = 0 \/ Used = 0)
      /\ Contents \in Seq(Bytes) /\ Len(Contents) = Used /\ Used \in Nat
  BY TakenFacts, ContentsFacts DEF IInv
<1>3. CASE Taken(p) = 0
  <2>1. want[p] # 0
    BY DEF IInv, CallersKnown, PipeRead
  <2>2. Used = 0 /\ ~writeopen
    BY <1>2, <1>3, <2>1, CountFacts DEF IInv, PipeRead, MustWaitForBytes
  <2>3. Contents = <<>>
    BY <1>2, <2>2
  <2>4. SubSeq(Contents, 1, Taken(p)) = <<>> /\ SubSeq(Contents, Taken(p) + 1, Len(Contents)) = <<>>
    BY <1>2, <1>3, <2>2, <2>3
  <2> QED
    BY <1>1, <2>2, <2>3, <2>4 DEF Stream!BSEndOfFile
<1>4. CASE Taken(p) # 0
  <2>1. Taken(p) \in 1 .. Len(Contents)
    BY <1>2, <1>4
  <2> QED
    BY <1>1, <2>1 DEF Stream!BSRead
<1> QED
  BY <1>3, <1>4

\* pipeclose of the last writer ends the stream, any other close is invisible in it.
LEMMA PipeCloseIsEnd ==
  ASSUME IInv, NEW p \in Users, NEW e \in {"read", "write"}, PipeClose(p, e)
  PROVE  Stream!BSEnd \/ UNCHANGED Stream!bvars
<1>1. /\ Contents' = Contents /\ result' = result /\ writeopen' = (writeopen /\ e # "write")
  BY ContentsKept DEF PipeClose
<1>2. CASE e = "write"
  BY <1>1, <1>2 DEF Stream!BSEnd
<1>3. CASE e = "read"
  <2>1. writeopen' = writeopen
    BY <1>1, <1>3 DEF IInv, PipeTypeOK
  <2> QED
    BY <1>1, <2>1 DEF Stream!bvars
<1> QED
  BY <1>2, <1>3

\* Every step of the pipe is a step of the stream, or invisible in it.
LEMMA StreamStep == IInv /\ [Next]_vars => [Stream!BSNext]_(Stream!bvars)
<1> SUFFICES ASSUME IInv, [Next]_vars PROVE Stream!BSNext \/ UNCHANGED Stream!bvars
  OBVIOUS
<1>1. ASSUME UNCHANGED <<data, nread, nwrite, writeopen, result>> PROVE UNCHANGED Stream!bvars
  BY <1>1, ContentsKept DEF Stream!bvars
<1>2. CASE UNCHANGED vars
  BY <1>1, <1>2 DEF vars, pipeVars, procVars
<1>3. ASSUME NEW p \in Users,
             \/ \E n \in 1 .. MaxWrite : Read(p, n) \/ \E bytes \in [1 .. n -> Bytes] : Write(p, bytes)
             \/ WriterSleep(p) \/ PipeReadEmpty(p) \/ ReaderSleep(p)
             \/ \E e \in {"read", "write"} : FileClose(p, e)
             \/ Kill(p)
      PROVE  UNCHANGED Stream!bvars
  BY <1>1, <1>3 DEF Read, Write, WriterSleep, PipeReadEmpty, ReaderSleep, FileClose, Kill, pipeVars
<1>4. ASSUME NEW p \in Users, PipeWriteDone(p) \/ PipeWriteFull(p)
      PROVE  Stream!BSWrite \/ UNCHANGED Stream!bvars
  BY <1>4, PutIsWrite DEF PipeWriteDone, PipeWriteFull
<1>5. CASE Next
  BY <1>3, <1>4, <1>5, PipeReadIsRead, PipeCloseIsEnd
     DEF Next, WriteStep, ReadStep, CloseStep, Stream!BSNext
<1> QED
  BY <1>2, <1>5

\* A new pipe is an empty stream.
LEMMA StreamInit == Init => Stream!BSInit
<1> SUFFICES ASSUME Init PROVE Stream!BSInit
  OBVIOUS
<1>1. IInv /\ nread = nwrite
  BY InitHolds DEF Init
<1>2. Contents \in Seq(Bytes) /\ Len(Contents) = 0
  BY <1>1, ContentsFacts, CountFacts DEF IInv
<1>3. Contents = <<>>
  BY <1>2
<1> QED
  BY <1>3 DEF Init, Stream!BSInit

\* pipewrite, piperead and pipeclose implement a stream of bytes: nothing is lost,
\* repeated or reordered through the wrapping of both counts and the interleaving of
\* several readers and writers, and a read returns nothing only at the end of the file.
THEOREM PipeImplementsStream == Spec => ImplementsByteStream
BY IInvHolds, StreamStep, StreamInit, PTL DEF Spec, ImplementsByteStream, Stream!BSSpec
=============================================================================
