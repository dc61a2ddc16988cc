------------------------------ MODULE CowProofs ------------------------------
(***************************************************************************)
(* Copy-on-write: types and read-only text in every behaviour; sound       *)
(* memory, exact counts and private memories without mappings, where       *)
(* kalloc gives a process no frame with a stale count and no count can     *)
(* wrap; for any processes, sizes, values and numbers of frames.           *)
(*                                                                         *)
(* freevm leaves counts of 255 in the frames it frees and never counts     *)
(* those of a dead process to 0, so the invariant says that counts are     *)
(* never too low, and too high by no more than the page tables that were   *)
(* torn down.                                                              *)
(***************************************************************************)
EXTENDS CowProperties, FiniteSetTheorems, TLAPS

-----------------------------------------------------------------------------
(* freevm folds over the entries and the page tables.  What a fold computes *)
(* is proved by induction: of the sets of positions for which it is wrong,  *)
(* there would be a smallest one.                                           *)

\* Of a family of subsets of a finite set, one has no other in it.
LEMMA SmallestSet ==
  ASSUME NEW S, IsFiniteSet(S), NEW B, B \subseteq SUBSET S, B # {}
  PROVE  \E U \in B : \A V \in B : V \subseteq U => V = U
<1>1. IsWellFoundedOn(StrictSubsetOrdering(S), SUBSET S)
  BY FS_StrictSubsetOrderingWellFounded, FS_FiniteSubsetsOfFinite
<1>2. PICK U \in B : \A V \in B : <<V, U>> \notin StrictSubsetOrdering(S)
  BY <1>1, WFMin
<1> QED
  BY <1>2 DEF StrictSubsetOrdering

\* Positions of a sequence.
Places(D) == \E n \in Nat : D \subseteq 1 .. n

\* There are finitely many, and less in a part of them.
LEMMA PlacesFacts ==
  ASSUME NEW D, Places(D)
  PROVE  IsFiniteSet(D) /\ \A U \in SUBSET D : Places(U)
<1>1. PICK n \in Nat : D \subseteq 1 .. n
  BY DEF Places
<1>2. IsFiniteSet(1 .. n)
  BY FS_Interval
<1>3. IsFiniteSet(D)
  BY <1>1, <1>2, FS_Subset
<1> QED
  BY <1>1, <1>3 DEF Places

\* Max finds the largest position of a set.
LEMMA MaxIsIn ==
  ASSUME NEW U, Places(U), U # {}
  PROVE  Max(U) \in U
<1>0. PICK n \in Nat : U \subseteq 1 .. n
  BY DEF Places
<1> DEFINE Above == {k \in 0 .. n : \A y \in U : y <= k}
           B == {0 .. k : k \in Above}
<1>1. n \in Above /\ IsFiniteSet(0 .. n) /\ B \subseteq SUBSET (0 .. n) /\ B # {}
  <2>1. n \in Above /\ IsFiniteSet(0 .. n)
    BY <1>0, FS_Interval
  <2>2. \A k \in Above : 0 .. k \subseteq 0 .. n
    OBVIOUS
  <2> QED
    BY <2>1, <2>2
<1>2. PICK V \in B : \A W \in B : W \subseteq V => W = V
  <2> DEFINE I == 0 .. n
  <2>1. IsFiniteSet(I) /\ B \subseteq SUBSET I /\ B # {}
    BY <1>1
  <2> HIDE DEF B, I
  <2> QED
    BY <2>1, SmallestSet
<1>3. PICK k \in Above : V = 0 .. k
  OBVIOUS
<1>4. k \in U
  <2> SUFFICES ASSUME k \notin U PROVE FALSE
    OBVIOUS
  <2>1. k - 1 \in Above
    <3>1. \A y \in U : y \in Nat /\ y >= 1 /\ y <= k /\ y # k
      BY <1>0
    <3>2. PICK y \in U : TRUE
      OBVIOUS
    <3> QED
      BY <3>1, <3>2
  <2>2. 0 .. k - 1 \subseteq 0 .. k /\ 0 .. k - 1 # 0 .. k
    BY <2>1
  <2> QED
    BY <1>2, <1>3, <2>1, <2>2
<1>5. \A y \in U : k >= y
  BY <1>0
<1> QED
  BY <1>4, <1>5 DEF Max

\* The recursive function by which FoldLeft frees the pages of a sequence c.seq, one
\* set of positions at a time.
StepOf(c, m, i) == FreePage(m, c.seq[i])
Folding(g, c, D) ==
  g = [U \in SUBSET D |-> IF U = {} THEN c.base ELSE StepOf(c, g[U \ {Max(U)}], Max(U))]

\* One unfolding of a fold: the last position is the last step.
UnfoldsAt(g, c, U) ==
  /\ U = {} => g[U] = c.base
  /\ U # {} => g[U] = StepOf(c, g[U \ {Max(U)}], Max(U))

\* A fold unfolds at every set it knows.
LEMMA FoldingAt ==
  ASSUME NEW g, NEW c, NEW D, Folding(g, c, D)
  PROVE  \A U \in SUBSET D : UnfoldsAt(g, c, U)
<1> SUFFICES ASSUME NEW U \in SUBSET D
             PROVE  /\ U = {} => g[U] = c.base
                    /\ U # {} => g[U] = StepOf(c, g[U \ {Max(U)}], Max(U))
  BY DEF UnfoldsAt
<1> DEFINE h == [V \in SUBSET D |-> IF V = {} THEN c.base ELSE StepOf(c, g[V \ {Max(V)}], Max(V))]
<1>1. g = h
  BY DEF Folding
<1>2. h[U] = IF U = {} THEN c.base ELSE StepOf(c, g[U \ {Max(U)}], Max(U))
  OBVIOUS
<1> HIDE DEF h
<1> QED
  BY <1>1, <1>2

\* Two folds agree on the positions both know.
LEMMA FoldingsAgree ==
  ASSUME NEW S, Places(S), NEW T, T \subseteq S, NEW c, NEW g, NEW h,
         Folding(g, c, S), Folding(h, c, T)
  PROVE  \A U \in SUBSET T : g[U] = h[U]
<1> DEFINE B == {U \in SUBSET T : g[U] # h[U]}
<1> SUFFICES ASSUME B # {} PROVE FALSE
  OBVIOUS
<1>1. PICK U \in B : \A V \in B : V \subseteq U => V = U
  <2>1. B \subseteq SUBSET T /\ IsFiniteSet(T)
    BY PlacesFacts, FS_Subset
  <2> HIDE DEF B
  <2> QED
    BY <2>1, SmallestSet
<1>2. U \in SUBSET S /\ U \in SUBSET T
  OBVIOUS
<1>3. (U = {} => g[U] = c.base) /\ (U # {} => g[U] = StepOf(c, g[U \ {Max(U)}], Max(U)))
  <2> HIDE DEF B
  <2>1. \A V \in SUBSET S : UnfoldsAt(g, c, V)
    BY FoldingAt
  <2> QED
    BY <1>2, <2>1 DEF UnfoldsAt
<1>4. (U = {} => h[U] = c.base) /\ (U # {} => h[U] = StepOf(c, h[U \ {Max(U)}], Max(U)))
  <2> HIDE DEF B
  <2>1. \A V \in SUBSET T : UnfoldsAt(h, c, V)
    BY FoldingAt
  <2> QED
    BY <1>2, <2>1 DEF UnfoldsAt
<1>5. U # {}
  BY <1>3, <1>4
<1>6. Max(U) \in U /\ U \ {Max(U)} \in SUBSET T /\ U \ {Max(U)} # U
  BY <1>2, <1>5, PlacesFacts, MaxIsIn
<1>7. g[U \ {Max(U)}] = h[U \ {Max(U)}]
  BY <1>1, <1>6
<1> QED
  BY <1>3, <1>4, <1>5, <1>7

\* There is a fold over every set of positions.
LEMMA FoldingsExist ==
  ASSUME NEW S, Places(S), NEW c
  PROVE  \E g : Folding(g, c, S)
<1> DEFINE B == {U \in SUBSET S : \A g : ~Folding(g, c, U)}
<1> SUFFICES ASSUME B # {} PROVE FALSE
  OBVIOUS
<1>1. PICK U \in B : \A V \in B : V \subseteq U => V = U
  <2>1. B \subseteq SUBSET S /\ IsFiniteSet(S)
    BY PlacesFacts
  <2> HIDE DEF B
  <2> QED
    BY <2>1, SmallestSet
<1> DEFINE G(V) == CHOOSE g : Folding(g, c, V)
           h == [V \in SUBSET U |-> IF V = {} THEN c.base
                                    ELSE StepOf(c, G(V \ {Max(V)})[V \ {Max(V)}], Max(V))]
<1>2. ASSUME NEW V \in SUBSET U, V # U PROVE Folding(G(V), c, V)
  <2>1. \E g : Folding(g, c, V)
    BY <1>1, <1>2
  <2> QED
    BY <2>1
<1>3. ASSUME NEW V \in SUBSET U, V # U PROVE G(V)[V] = h[V]
  <2>1. Folding(G(V), c, V) /\ Places(V)
    BY <1>1, <1>2, <1>3, PlacesFacts
  <2> HIDE DEF G
  <2>2. (V = {} => G(V)[V] = c.base) /\ (V # {} => G(V)[V] = StepOf(c, G(V)[V \ {Max(V)}], Max(V)))
    <3>1. \A W \in SUBSET V : UnfoldsAt(G(V), c, W)
      BY <2>1, FoldingAt
    <3> QED
      BY <3>1 DEF UnfoldsAt
  <2>3. CASE V = {}
    BY <2>2, <2>3
  <2>4. CASE V # {}
    <3> DEFINE W == V \ {Max(V)}
    <3>1. Max(V) \in V
      BY <2>1, <2>4, MaxIsIn
    <3>2. W \in SUBSET U /\ W # U /\ W \subseteq V
      BY <3>1
    <3>3. Folding(G(W), c, W)
      BY <1>2, <3>2
    <3>4. h[V] = StepOf(c, G(W)[W], Max(V))
      BY <2>4
    <3>5. G(V)[V] = StepOf(c, G(V)[W], Max(V))
      BY <2>2, <2>4
    <3> HIDE DEF W, h
    <3>6. G(V)[W] = G(W)[W]
      BY <2>1, <3>2, <3>3, FoldingsAgree
    <3> QED
      BY <3>4, <3>5, <3>6
  <2> QED
    BY <2>3, <2>4
<1>4. ASSUME NEW V \in SUBSET U
      PROVE  h[V] = IF V = {} THEN c.base ELSE StepOf(c, h[V \ {Max(V)}], Max(V))
  <2>1. CASE V = {}
    BY <2>1
  <2>2. CASE V # {}
    <3>1. Max(V) \in V
      BY <1>1, <2>2, PlacesFacts, MaxIsIn
    <3>2. V \ {Max(V)} \in SUBSET U /\ V \ {Max(V)} # U
      BY <3>1
    <3>3. G(V \ {Max(V)})[V \ {Max(V)}] = h[V \ {Max(V)}]
      BY <1>3, <3>2
    <3>4. h[V] = StepOf(c, G(V \ {Max(V)})[V \ {Max(V)}], Max(V))
      BY <2>2
    <3> HIDE DEF h, G
    <3> QED
      BY <2>2, <3>3, <3>4
  <2> QED
    BY <2>1, <2>2
<1>5. Folding(h, c, U)
  <2>1. h = [V \in SUBSET U |-> h[V]]
    OBVIOUS
  <2> HIDE DEF h
  <2> QED
    BY <1>4, <2>1 DEF Folding
<1> QED
  BY <1>1, <1>5

\* The fold over a sequence of entries as such a function.
LEMMA PagesFold ==
  ASSUME NEW n \in Nat, NEW m, NEW s, DOMAIN s = 1 .. n,
         NEW c, c = [base |-> m, seq |-> s]
  PROVE  \E g : Folding(g, c, 1 .. n) /\ FoldLeft(FreePage, m, s) = g[1 .. n]
<1> DEFINE F(g) == g = [U \in SUBSET (1 .. n) |-> IF U = {} THEN m
                          ELSE FreePage(g[U \ {Max(U)}], s[Max(U)])]
<1>1. \E g : F(g)
  <2>1. PICK g : Folding(g, c, 1 .. n)
    BY FoldingsExist DEF Places
  <2>2. F(g)
    BY <2>1 DEF Folding, StepOf
  <2> HIDE DEF F
  <2> QED
    BY <2>2
<1>2. F(CHOOSE g : F(g))
  <2> HIDE DEF F
  <2> QED
    BY <1>1
<1>3. FoldLeft(FreePage, m, s) = (CHOOSE g : F(g))[1 .. n]
  BY DEF FoldLeft, MapThenFoldSet
<1> QED
  BY <1>2, <1>3 DEF Folding, StepOf

\* The same, unfolded.
LEMMA PagesFoldAt ==
  ASSUME NEW n \in Nat, NEW m, NEW s, DOMAIN s = 1 .. n,
         NEW c, c = [base |-> m, seq |-> s]
  PROVE  \E g : FoldLeft(FreePage, m, s) = g[1 .. n]
                /\ \A U \in SUBSET (1 .. n) : UnfoldsAt(g, c, U)
<1>1. PICK g : Folding(g, c, 1 .. n) /\ FoldLeft(FreePage, m, s) = g[1 .. n]
  BY PagesFold
<1>2. \A U \in SUBSET (1 .. n) : UnfoldsAt(g, c, U)
  BY <1>1, FoldingAt
<1> QED
  BY <1>1, <1>2

\* Pages that freevm does not free one by one, it does not free at all.
LEMMA NothingFreed ==
  ASSUME NEW n \in Nat, NEW m, NEW s, DOMAIN s = 1 .. n,
         \A i \in 1 .. n : FreePage(m, s[i]) = m
  PROVE  FoldLeft(FreePage, m, s) = m
<1> DEFINE c == [base |-> m, seq |-> s]
<1>0. c.base = m /\ \A i \in 1 .. n : StepOf(c, m, i) = m
  BY DEF StepOf
<1>0a. c = [base |-> m, seq |-> s]
  OBVIOUS
<1> HIDE DEF c
<1>1. PICK g : FoldLeft(FreePage, m, s) = g[1 .. n]
               /\ \A V \in SUBSET (1 .. n) : UnfoldsAt(g, c, V)
  BY <1>0a, PagesFoldAt
<1> DEFINE S == 1 .. n
           B == {U \in SUBSET S : g[U] # m}
<1> SUFFICES ASSUME B # {} PROVE FALSE
  BY <1>1
<1>2. PICK U \in B : \A V \in B : V \subseteq U => V = U
  <2>1. B \subseteq SUBSET S /\ IsFiniteSet(S)
    BY FS_Interval
  <2> HIDE DEF B, S
  <2> QED
    BY <2>1, SmallestSet
<1>3. (U = {} => g[U] = c.base) /\ (U # {} => g[U] = StepOf(c, g[U \ {Max(U)}], Max(U)))
  <2>1. U \in SUBSET (1 .. n)
    OBVIOUS
  <2> HIDE DEF S, B
  <2>2. UnfoldsAt(g, c, U)
    BY <1>1, <2>1
  <2> QED
    BY <2>2 DEF UnfoldsAt
<1>3a. Places(U)
  BY DEF Places
<1>4. U # {}
  BY <1>0, <1>3
<1>5. Max(U) \in U /\ U \ {Max(U)} \in SUBSET S /\ U \ {Max(U)} # U
  BY <1>3a, <1>4, MaxIsIn
<1>6. g[U \ {Max(U)}] = m
  BY <1>2, <1>5
<1> QED
  BY <1>0, <1>3, <1>4, <1>5, <1>6

-----------------------------------------------------------------------------
(* kalloc.c on a memory m: what each operation keeps.                       *)

MemoryOK(m) == m \in [free : Seq(Frames), ref : [Frames -> 0 .. RefRange - 1],
                       data : [Frames -> Values \cup {Junk}]]
ListedIn(m) == {m.free[i] : i \in 1 .. Len(m.free)}

\* Memory n differs from m, in counts and contents, in frames F only, and lists no
\* other frame than m does, but for G.
Touches(n, m, F, G) ==
  /\ MemoryOK(n) /\ ListedIn(n) \subseteq ListedIn(m) \cup G
  /\ \A f \in Frames \ F : n.ref[f] = m.ref[f] /\ n.data[f] = m.data[f]

\* Counts are bytes.
LEMMA CountsAreBytes ==
  /\ RefRange \in Nat \ {0}
  /\ \A i \in Int : i % RefRange \in 0 .. RefRange - 1
  /\ \A i \in 0 .. RefRange - 1 : i % RefRange = i
BY MemorySizes

\* The frames that are listed after one more is put in front.
LEMMA ListedInFront ==
  ASSUME NEW s \in Seq(Frames), NEW f \in Frames
  PROVE  /\ <<f>> \o s \in Seq(Frames)
         /\ {(<<f>> \o s)[i] : i \in 1 .. Len(<<f>> \o s)} = {s[i] : i \in 1 .. Len(s)} \cup {f}
<1> DEFINE t == <<f>> \o s
<1>1. t \in Seq(Frames) /\ Len(t) = Len(s) + 1 /\ Len(s) \in Nat
  OBVIOUS
<1>2. t[1] = f /\ \A i \in 1 .. Len(s) : t[i + 1] = s[i]
  OBVIOUS
<1> HIDE DEF t
<1>3. \A i \in 1 .. Len(t) : t[i] = f \/ (i - 1 \in 1 .. Len(s) /\ t[i] = s[i - 1])
  <2> SUFFICES ASSUME NEW i \in 1 .. Len(t), i # 1
               PROVE  i - 1 \in 1 .. Len(s) /\ t[i] = s[i - 1]
    BY <1>2
  <2>1. i - 1 \in 1 .. Len(s) /\ (i - 1) + 1 = i
    BY <1>1
  <2> QED
    BY <1>2, <2>1
<1>4. 1 \in 1 .. Len(t) /\ \A i \in 1 .. Len(s) : i + 1 \in 1 .. Len(t)
  BY <1>1
<1>5. \A x \in {s[i] : i \in 1 .. Len(s)} \cup {f} : x \in {t[i] : i \in 1 .. Len(t)}
  BY <1>2, <1>4
<1>6. \A x \in {t[i] : i \in 1 .. Len(t)} : x \in {s[i] : i \in 1 .. Len(s)} \cup {f}
  BY <1>3
<1> QED
  BY <1>1, <1>5, <1>6 DEF t

\* kfree lists the frame and fills it.
LEMMA KfreeFacts ==
  ASSUME NEW m, MemoryOK(m), NEW f \in Frames
  PROVE  Touches(Kfree(m, f), m, {f}, {f}) /\ Kfree(m, f).ref = m.ref
<1> DEFINE s == <<f>> \o m.free
           n == [m EXCEPT !.free = s, !.data[f] = Junk]
<1>1. /\ m.free \in Seq(Frames) /\ m.ref \in [Frames -> 0 .. RefRange - 1]
      /\ m.data \in [Frames -> Values \cup {Junk}]
  BY DEF MemoryOK
<1>2. s \in Seq(Frames) /\ {s[i] : i \in 1 .. Len(s)} = ListedIn(m) \cup {f}
  BY <1>1, ListedInFront DEF ListedIn
<1> HIDE DEF s
<1>3. MemoryOK(n)
  BY <1>2 DEF MemoryOK
<1>4. n.free = s /\ n.ref = m.ref /\ n.data = [m.data EXCEPT ![f] = Junk]
  BY DEF MemoryOK
<1>5. Kfree(m, f) = n
  BY DEF Kfree, s
<1> HIDE DEF n
<1>6. ListedIn(n) = ListedIn(m) \cup {f}
  BY <1>2, <1>4 DEF ListedIn
<1>7. \A g \in Frames \ {f} : n.data[g] = m.data[g]
  BY <1>1, <1>4
<1> QED
  BY <1>3, <1>4, <1>5, <1>6, <1>7 DEF Touches

\* A count that is set to a byte.
LEMMA SetCount ==
  ASSUME NEW m, MemoryOK(m), NEW f \in Frames, NEW k \in 0 .. RefRange - 1
  PROVE  LET n == [m EXCEPT !.ref[f] = k]
         IN  /\ Touches(n, m, {f}, {}) /\ n.ref[f] = k /\ n.free = m.free /\ n.data = m.data
<1> DEFINE n == [m EXCEPT !.ref[f] = k]
<1>2. n.free = m.free /\ n.data = m.data /\ n.ref = [m.ref EXCEPT ![f] = k]
  BY DEF MemoryOK
<1>3. MemoryOK(n)
  BY DEF MemoryOK
<1> HIDE DEF n
<1>4. n.ref[f] = k /\ \A g \in Frames \ {f} : n.ref[g] = m.ref[g]
  BY <1>2 DEF MemoryOK
<1>5. Touches(n, m, {f}, {}) /\ n.ref[f] = k /\ n.free = m.free /\ n.data = m.data
  BY <1>2, <1>3, <1>4 DEF Touches, ListedIn
<1> QED
  BY <1>5 DEF n

\* incref raises a count.
LEMMA IncrefFacts ==
  ASSUME NEW m, MemoryOK(m), NEW f \in Frames
  PROVE  /\ Touches(Incref(m, f), m, {f}, {}) /\ Incref(m, f).ref[f] = (m.ref[f] + 1) % RefRange
         /\ Incref(m, f).free = m.free /\ Incref(m, f).data = m.data
<1> DEFINE k == (m.ref[f] + 1) % RefRange
<1>1. k \in 0 .. RefRange - 1
  <2>1. m.ref[f] \in 0 .. RefRange - 1
    BY DEF MemoryOK
  <2>2. m.ref[f] + 1 \in Int
    BY <2>1, CountsAreBytes
  <2> QED
    BY <2>2, CountsAreBytes
<1> DEFINE n == [m EXCEPT !.ref[f] = k]
<1>2. Incref(m, f) = n
  BY DEF Incref
<1> HIDE DEF k
<1>2a. Touches(n, m, {f}, {}) /\ n.ref[f] = k /\ n.free = m.free /\ n.data = m.data
  BY <1>1, SetCount
<1> HIDE DEF n
<1>3. Touches(Incref(m, f), m, {f}, {}) /\ Incref(m, f).ref[f] = k
      /\ Incref(m, f).free = m.free /\ Incref(m, f).data = m.data
  BY <1>2, <1>2a
<1> QED
  BY <1>3 DEF k

\* decref lowers a count, and frees the frame only when the count reaches 0.
LEMMA DecrefFacts ==
  ASSUME NEW m, MemoryOK(m), NEW f \in Frames
  PROVE  /\ Touches(Decref(m, f), m, {f}, {f}) /\ Decref(m, f).ref[f] = (m.ref[f] - 1) % RefRange
         /\ m.ref[f] > 1 => /\ Decref(m, f).ref[f] = m.ref[f] - 1
                            /\ Decref(m, f).free = m.free /\ Decref(m, f).data = m.data
<1> DEFINE k == (m.ref[f] - 1) % RefRange
           m1 == [m EXCEPT !.ref[f] = k]
<1>1. k \in 0 .. RefRange - 1 /\ (m.ref[f] > 1 => k = m.ref[f] - 1 /\ k # 0)
  <2>1. m.ref[f] \in 0 .. RefRange - 1 /\ RefRange \in Nat \ {0}
    BY MemorySizes DEF MemoryOK
  <2>2. k \in 0 .. RefRange - 1
    BY <2>1
  <2>3. ASSUME m.ref[f] > 1 PROVE m.ref[f] - 1 \in 0 .. RefRange - 1
    BY <2>1, <2>3
  <2> QED
    BY <2>1, <2>2, <2>3, CountsAreBytes
<1>2. Decref(m, f) = IF k = 0 THEN Kfree(m1, f) ELSE m1
  BY DEF Decref
<1> HIDE DEF k
<1>3. Touches(m1, m, {f}, {}) /\ m1.ref[f] = k /\ m1.free = m.free /\ m1.data = m.data
  BY <1>1, SetCount
<1> HIDE DEF m1
<1>4. MemoryOK(m1)
  BY <1>3 DEF Touches
<1>5. Touches(Kfree(m1, f), m1, {f}, {f}) /\ Kfree(m1, f).ref = m1.ref
  BY <1>4, KfreeFacts
<1>6. Touches(Kfree(m1, f), m, {f}, {f})
  BY <1>3, <1>5 DEF Touches
<1>7. Touches(m1, m, {f}, {f})
  BY <1>3 DEF Touches
<1>8. Touches(Decref(m, f), m, {f}, {f})
  BY <1>2, <1>6, <1>7
<1>9. Decref(m, f).ref[f] = k
  BY <1>2, <1>3, <1>5
<1>10. m.ref[f] > 1 => Decref(m, f) = m1
  BY <1>1, <1>2
<1>11. ASSUME m.ref[f] > 1
       PROVE  /\ Decref(m, f).ref[f] = m.ref[f] - 1
              /\ Decref(m, f).free = m.free /\ Decref(m, f).data = m.data
  BY <1>1, <1>3, <1>9, <1>10, <1>11
<1>12. Decref(m, f).ref[f] = (m.ref[f] - 1) % RefRange
  BY <1>9 DEF k
<1> QED
  BY <1>8, <1>11, <1>12

\* Operations one after the other.
LEMMA TouchesBoth ==
  ASSUME NEW m, NEW m1, NEW m2, NEW F1, NEW F2, NEW G1, NEW G2,
         Touches(m1, m, F1, G1), Touches(m2, m1, F2, G2)
  PROVE  Touches(m2, m, F1 \cup F2, G1 \cup G2)
BY DEF Touches

\* A page table is freed, whatever its count.
LEMMA FreeTableFacts ==
  ASSUME NEW m, MemoryOK(m), NEW f \in Frames
  PROVE  Touches(FreeTable(m, f), m, {f}, {f})
<1>1. f # 0
  BY DEF Frames
<1>2. Touches(Decref(m, f), m, {f}, {f})
  BY DecrefFacts
<1>3. Touches(Kfree(Decref(m, f), f), Decref(m, f), {f}, {f})
  BY <1>2, KfreeFacts DEF Touches
<1>4. Touches(Kfree(Decref(m, f), f), m, {f} \cup {f}, {f} \cup {f})
  BY <1>2, <1>3, TouchesBoth
<1> QED
  BY <1>1, <1>4 DEF FreeTable

-----------------------------------------------------------------------------
(* The state.                                                               *)

\* No mappings, and too few processes and teardowns for a count to wrap: the kernel
\* has 64 slots and counts of one byte, so fewer than 192 teardowns.
CountsFit ==
  /\ MaxMaps = 0 /\ IsFiniteSet(Procs)
  /\ Cardinality(Procs) + MaxTeardowns < RefRange

\* There is no mapping region.
LEMMA NoMaps == CountsFit => Maps = {}
BY DEF CountsFit, Maps

\* A count of 1 fits.
LEMMA OneFits ==
  ASSUME CountsFit
  PROVE  RefRange \in Nat /\ 1 \in 0 .. RefRange - 1
<1>1. Procs # {} /\ IsFiniteSet(Procs)
  BY InitIsProc DEF CountsFit
<1>2. Cardinality(Procs) \in Nat /\ Cardinality(Procs) # 0
  BY <1>1, FS_CardinalityType, FS_EmptySet
<1>3. MaxTeardowns \in Nat /\ RefRange \in Nat /\ Cardinality(Procs) + MaxTeardowns < RefRange
  BY MemorySizes DEF CountsFit
<1> QED
  BY <1>2, <1>3

\* Frames are numbered from 1.
LEMMA FrameFacts == Frames \subseteq Nat /\ 0 \notin Frames /\ NFrames \in Nat
BY MemorySizes DEF Frames

\* Sizes and pages are numbers.
LEMMA SizeFacts ==
  /\ MaxPages \in Nat \ {0} /\ Pages \subseteq Nat /\ 0 \in Pages
  /\ \A a \in Pages : a < MaxPages
  /\ CowTypeOK => \A p \in Procs : sz[p] \in 0 .. MaxPages /\ sz[p] \in Nat
<1>1. MaxPages \in Nat \ {0}
  BY MemorySizes
<1>2. Pages \subseteq Nat /\ 0 \in Pages /\ \A a \in Pages : a < MaxPages
  BY <1>1 DEF Pages
<1>3. CowTypeOK => \A p \in Procs : sz[p] \in 0 .. MaxPages
  BY DEF CowTypeOK
<1> QED
  BY <1>1, <1>2, <1>3

\* The memory of the kernel is one.
LEMMA MemoryFacts ==
  ASSUME CowTypeOK
  PROVE  MemoryOK(Memory) /\ ListedIn(Memory) = Listed
         /\ Memory.free = free /\ Memory.ref = ref /\ Memory.data = data
BY DEF CowTypeOK, MemoryOK, Memory, ListedIn, Listed

\* What a state is after SetMemory.
LEMMA MemorySet ==
  ASSUME NEW m, MemoryOK(m), SetMemory(m)
  PROVE  /\ free' \in Seq(Frames) /\ ref' \in [Frames -> 0 .. RefRange - 1]
         /\ data' \in [Frames -> Values \cup {Junk}]
         /\ Listed' = ListedIn(m) /\ ref' = m.ref /\ data' = m.data
BY DEF MemoryOK, SetMemory, ListedIn, Listed

\* A list that is kept lists the same frames.
LEMMA ListedIsKept ==
  ASSUME UNCHANGED free
  PROVE  Listed' = Listed
BY DEF Listed

\* A page of the list is listed.
LEMMA ListedAt ==
  ASSUME CowTypeOK
  PROVE  \A i \in 1 .. Len(free) : free[i] \in Frames /\ free[i] \in Listed
BY DEF CowTypeOK, Listed

\* kalloc's pages are different frames of the list, and are no longer listed.
LEMMA AllocFacts ==
  ASSUME CowTypeOK, FreedOnce, NEW n \in Nat, CanAlloc(n)
  PROVE  /\ MemoryOK(Alloc(n)) /\ Alloc(n).ref = ref /\ Alloc(n).data = data
         /\ ListedIn(Alloc(n)) \subseteq Listed
         /\ \A i \in 1 .. n : /\ free[i] \in Listed /\ free[i] \in Frames
                              /\ free[i] \notin ListedIn(Alloc(n))
         /\ \A i, j \in 1 .. n : free[i] = free[j] => i = j
<1> DEFINE s == SubSeq(free, n + 1, Len(free))
<1>1. free \in Seq(Frames) /\ Len(free) \in Nat /\ n <= Len(free) /\ DOMAIN free = 1 .. Len(free)
  BY DEF CowTypeOK, CanAlloc
<1>2. \A i, j \in 1 .. Len(free) : free[i] = free[j] => i = j
  BY <1>1 DEF FreedOnce, IsInjective
<1>3. /\ s \in Seq(Frames) /\ Len(s) = Len(free) - n
      /\ \A i \in 1 .. Len(s) : s[i] = free[i + n]
  BY <1>1
<1> HIDE DEF s
<1>4. \A i \in 1 .. Len(s) : i + n \in 1 .. Len(free) /\ i + n \notin 1 .. n
  BY <1>1, <1>3
<1>5. \A i \in 1 .. n : i \in 1 .. Len(free) /\ free[i] \in Frames
  BY <1>1
<1>6. Alloc(n).free = s /\ Alloc(n).ref = ref /\ Alloc(n).data = data /\ MemoryOK(Alloc(n))
  <2> DEFINE m == Memory
             k == [m EXCEPT !.free = s]
  <2>1. Alloc(n) = k
    BY MemoryFacts DEF Alloc, s
  <2>2. MemoryOK(m) /\ m.ref = ref /\ m.data = data
    BY MemoryFacts
  <2> HIDE DEF m
  <2>3. MemoryOK(k) /\ k.free = s /\ k.ref = m.ref /\ k.data = m.data
    BY <1>3, <2>2 DEF MemoryOK
  <2> QED
    BY <2>1, <2>2, <2>3
<1>7. ListedIn(Alloc(n)) \subseteq Listed
  BY <1>3, <1>4, <1>6 DEF ListedIn, Listed
<1>8. ASSUME NEW i \in 1 .. n
      PROVE  free[i] \in Listed /\ free[i] \notin ListedIn(Alloc(n))
  <2>1. free[i] \in Listed
    BY <1>5 DEF Listed
  <2>2. \A j \in 1 .. Len(s) : s[j] # free[i]
    <3> SUFFICES ASSUME NEW j \in 1 .. Len(s), free[j + n] = free[i] PROVE FALSE
      BY <1>3
    <3> QED
      BY <1>2, <1>4, <1>5
  <2> QED
    BY <1>6, <2>1, <2>2 DEF ListedIn
<1> QED
  BY <1>2, <1>5, <1>6, <1>7, <1>8

\* Mappers of a frame are finitely many.
LEMMA MappersFinite ==
  ASSUME CountsFit, NEW f
  PROVE  IsFiniteSet(Mappers(f)) /\ IsFiniteSet(Mappers(f)') /\ IsFiniteSet(Unused) /\ IsFiniteSet(Unused')
<1>1. IsFiniteSet(Procs) /\ IsFiniteSet(Pages)
  BY MemorySizes, FS_Interval DEF CountsFit, Pages
<1>2. IsFiniteSet(Procs \X Pages)
  BY <1>1, FS_Product
<1>3. Mappers(f) \subseteq Procs \X Pages /\ Mappers(f)' \subseteq Procs \X Pages
      /\ Unused \subseteq Procs /\ Unused' \subseteq Procs
  BY DEF Mappers, Unused
<1> QED
  BY <1>1, <1>2, <1>3, FS_Subset

\* A page that is mapped has a count, and the count is no byte too large.
LEMMA CountFacts ==
  ASSUME CountsFit, CowInvariant, NEW p \in Procs, NEW a \in Pages, pte[p][a].f # 0
  PROVE  LET f == pte[p][a].f
         IN  /\ f \in Frames /\ f \in Mapped /\ f \notin Listed /\ f \notin KernelUsed
             /\ state[p] # "unused" /\ <<p, a>> \in Mappers(f)
             /\ ref[f] \in 0 .. RefRange - 1 /\ ref[f] >= 1 /\ Cardinality(Mappers(f)) \in Nat \ {0}
             /\ (ref[f] = 1 => Mappers(f) = {<<p, a>>})
<1> DEFINE f == pte[p][a].f
<1>1. f \in Frames /\ f \in Mapped /\ state[p] # "unused" /\ ref[f] \in 0 .. RefRange - 1
  <2>1. pte[p][a] \in Entry
    BY DEF CowInvariant, CowTypeOK
  <2>2. f \in Frames
    BY <2>1, FrameFacts DEF Entry, Frames
  <2> QED
    BY <2>2 DEF CowInvariant, CowTypeOK, SlotsOK, Mapped
<1>2. f \notin Listed /\ f \notin KernelUsed
  BY <1>1 DEF CowInvariant, FramesApart
<1> HIDE DEF f
<1>3. <<p, a>> \in Mappers(f)
  BY <1>1 DEF Mappers, f
<1>4. IsFiniteSet(Mappers(f)) /\ Cardinality(Mappers(f)) \in Nat /\ Cardinality(Mappers(f)) # 0
  BY <1>3, MappersFinite, FS_CardinalityType, FS_EmptySet
<1>5. Cardinality(Mappers(f)) <= ref[f]
  BY <1>1 DEF CowInvariant, CountOK
<1>6. ref[f] >= 1
  BY <1>1, <1>4, <1>5
<1>7. ref[f] = 1 => Mappers(f) = {<<p, a>>}
  <2> SUFFICES ASSUME ref[f] = 1 PROVE Mappers(f) = {<<p, a>>}
    OBVIOUS
  <2>1. Cardinality(Mappers(f)) = 1
    BY <1>4, <1>5
  <2>2. PICK x : Mappers(f) = {x}
    BY <1>4, <2>1, FS_Singleton
  <2> QED
    BY <1>3, <2>2
<1> QED
  BY <1>1, <1>2, <1>3, <1>4, <1>6, <1>7 DEF f

\* The same of a frame that some process maps.
LEMMA MappedFacts ==
  ASSUME CountsFit, CowInvariant, NEW f \in Mapped
  PROVE  /\ f \in Frames /\ f # 0 /\ f \notin Listed /\ f \notin KernelUsed
         /\ ref[f] \in Nat /\ ref[f] >= 1
<1>1. PICK p \in Procs, a \in Pages : f = pte[p][a].f /\ pte[p][a].f # 0
  BY DEF Mapped
<1>2. f \in Frames /\ f \notin Listed /\ f \notin KernelUsed /\ ref[f] \in 0 .. RefRange - 1 /\ ref[f] >= 1
  BY <1>1, CountFacts
<1>3. ref[f] \in Nat
  BY <1>2, CountsAreBytes
<1> QED
  BY <1>1, <1>2, <1>3

-----------------------------------------------------------------------------
(* Steps, by what becomes of frames.  New user pages U and new kernel       *)
(* frames K come from the free list; old kernel frames O go to it.          *)

\* Frames stay apart.
LEMMA FramesStep ==
  ASSUME FramesApart, NEW U, NEW K, NEW O,
         U \subseteq Listed, K \subseteq Listed, U \cap K = {}, O \subseteq KernelUsed,
         Mapped' \subseteq Mapped \cup U, KernelUsed' \subseteq (KernelUsed \ O) \cup K,
         Listed' \subseteq (Listed \ (U \cup K)) \cup O
  PROVE  FramesApart'
BY DEF FramesApart

\* Kernel frames have one purpose: those of process p are kept, left or new.
LEMMA KernelStep ==
  ASSUME KernelApart, FramesApart, NEW p \in Procs,
         \A q \in Procs \ {p}, k \in Kinds : Kernel(k, q)' \in {0, Kernel(k, q)},
         \A k \in Kinds : Kernel(k, p)' \in {0, Kernel(k, p)} \cup Listed,
         \A k, l \in Kinds : Kernel(k, p)' = Kernel(l, p)' /\ Kernel(k, p)' \in Listed => k = l
  PROVE  KernelApart'
<1> SUFFICES ASSUME NEW q \in Procs, NEW r \in Procs, NEW k \in Kinds, NEW l \in Kinds,
                    Kernel(k, q)' = Kernel(l, r)', Kernel(k, q)' # 0
             PROVE  q = r /\ k = l
  BY DEF KernelApart
<1> DEFINE x == Kernel(k, q)
           y == Kernel(l, r)
           x2 == Kernel(k, q)'
           y2 == Kernel(l, r)'
<1>1. /\ (x # 0 => x \in KernelUsed) /\ (y # 0 => y \in KernelUsed)
      /\ x = y /\ x # 0 => q = r /\ k = l
  BY DEF KernelApart, KernelUsed
<1>2. x2 = y2 /\ x2 # 0
  OBVIOUS
<1>3. (x2 = x \/ (q = p /\ x2 \in Listed)) /\ (y2 = y \/ (r = p /\ y2 \in Listed))
  OBVIOUS
<1>4. q = p /\ r = p /\ x2 \in Listed => k = l
  OBVIOUS
<1>5. KernelUsed \cap Listed = {}
  BY DEF FramesApart
<1> HIDE DEF x, y, x2, y2
<1> QED
  BY <1>1, <1>2, <1>3, <1>4, <1>5

\* Who maps a frame, before and after a step.
LEMMA MapperFacts ==
  ASSUME NEW f, NEW q \in Procs, NEW b \in Pages
  PROVE  /\ <<q, b>> \in Mappers(f) <=> state[q] # "unused" /\ pte[q][b].f = f
         /\ <<q, b>> \in Mappers(f)' <=> state'[q] # "unused" /\ pte'[q][b].f = f
BY DEF Mappers

\* Mappers are pairs of a process and a page.
LEMMA MappersArePairs ==
  ASSUME NEW f
  PROVE  Mappers(f) \subseteq Procs \X Pages /\ Mappers(f)' \subseteq Procs \X Pages
BY DEF Mappers

\* The count of a page that fewer or as many entries map than before.
LEMMA KeptCount ==
  ASSUME CountsFit, CowTypeOK, CowTypeOK', teardowns \in Nat, teardowns' \in Nat,
         NEW f \in Frames, CountOK(f), Mappers(f)' \subseteq Mappers(f), ref'[f] = ref[f],
         Cardinality(Unused') + teardowns <= Cardinality(Unused) + teardowns',
         teardowns' = 0 => teardowns = 0 /\ Mappers(f)' = Mappers(f)
  PROVE  CountOK(f)'
<1>1. /\ IsFiniteSet(Mappers(f)) /\ IsFiniteSet(Mappers(f)') /\ IsFiniteSet(Unused)
      /\ IsFiniteSet(Unused') /\ IsFiniteSet(Procs)
  BY MappersFinite DEF CountsFit
<1>2. Cardinality(Mappers(f)') <= Cardinality(Mappers(f))
  BY <1>1, FS_Subset
<1>3. /\ Cardinality(Mappers(f)) \in Nat /\ Cardinality(Mappers(f)') \in Nat
      /\ Cardinality(Unused) \in Nat /\ Cardinality(Unused') \in Nat
      /\ Cardinality(Procs) \in Nat
  BY <1>1, FS_CardinalityType
<1>4. ref[f] \in Int
  BY CountsAreBytes DEF CowTypeOK
<1> QED
  BY <1>2, <1>3, <1>4 DEF CountOK

\* The count of a page that is new.
LEMMA FreshCount ==
  ASSUME CountsFit, NEW f, NEW p \in Procs, NEW a \in Pages, state'[p] # "unused",
         teardowns' \in Nat, Mappers(f)' = {<<p, a>>}, ref'[f] = 1
  PROVE  CountOK(f)'
<1>1. IsFiniteSet(Unused') /\ IsFiniteSet(Procs)
  BY MappersFinite DEF CountsFit
<1>2. Unused' \subseteq Procs \ {p}
  BY DEF Unused
<1>3. Cardinality(Procs \ {p}) = Cardinality(Procs) - 1 /\ IsFiniteSet(Procs \ {p})
  BY <1>1, FS_RemoveElement
<1>4. Cardinality(Unused') <= Cardinality(Procs \ {p})
  BY <1>2, <1>3, FS_Subset
<1>5. Cardinality(Procs) \in Nat /\ Cardinality(Unused') \in Nat
  BY <1>1, FS_CardinalityType
<1>6. Cardinality(Mappers(f)') = 1
  BY FS_Singleton
<1> QED
  BY <1>3, <1>4, <1>5, <1>6 DEF CountOK

\* The set of unused slots gets smaller by one, and larger by one.
LEMMA UnusedCounts ==
  ASSUME CountsFit, NEW c \in Procs
  PROVE  /\ Cardinality(Unused) \in Nat /\ Cardinality(Procs) \in Nat
         /\ c \in Unused /\ Unused' = Unused \ {c} => Cardinality(Unused') = Cardinality(Unused) - 1
         /\ c \notin Unused /\ Unused' = Unused \cup {c} => Cardinality(Unused') = Cardinality(Unused) + 1
<1>1. IsFiniteSet(Unused) /\ IsFiniteSet(Procs)
  BY MappersFinite DEF CountsFit
<1>2. Cardinality(Unused) \in Nat /\ Cardinality(Procs) \in Nat
  BY <1>1, FS_CardinalityType
<1>3. c \in Unused => Cardinality(Unused \ {c}) = Cardinality(Unused) - 1
  BY <1>1, FS_RemoveElement
<1>4. c \notin Unused => Cardinality(Unused \cup {c}) = Cardinality(Unused) + 1
  BY <1>1, FS_AddElement
<1> QED
  BY <1>2, <1>3, <1>4

\* The frames of the kernel, by type.
LEMMA KernelFacts ==
  ASSUME CowTypeOK, NEW k \in Kinds, NEW p \in Procs
  PROVE  Kernel(k, p) \in 0 .. NFrames /\ (Kernel(k, p) # 0 => Kernel(k, p) \in KernelUsed)
BY DEF CowTypeOK, Kernel, KernelUsed

-----------------------------------------------------------------------------
(* fork.                                                                    *)

\* What copyuvm does to the counts.
LEMMA CountPagesFacts ==
  ASSUME NEW m, MemoryOK(m), NEW p \in Procs
  PROVE  LET n == CountPages(m, p)
         IN  /\ MemoryOK(n) /\ n.free = m.free /\ n.data = m.data
             /\ \A f \in Frames : n.ref[f] = IF \E a \in Pages : InSize(p, a) /\ pte[p][a].f = f
                                             THEN (m.ref[f] + 1) % RefRange ELSE m.ref[f]
<1> DEFINE R == [f \in Frames |-> IF \E a \in Pages : InSize(p, a) /\ pte[p][a].f = f
                                  THEN (m.ref[f] + 1) % RefRange ELSE m.ref[f]]
           n == [m EXCEPT !.ref = R]
<1>1. \A f \in Frames : m.ref[f] \in 0 .. RefRange - 1
  BY DEF MemoryOK
<1>2. \A f \in Frames : (m.ref[f] + 1) % RefRange \in 0 .. RefRange - 1
  BY <1>1, CountsAreBytes
<1>3. R \in [Frames -> 0 .. RefRange - 1]
  BY <1>1, <1>2
<1>4. CountPages(m, p) = n
  BY DEF CountPages
<1>5. \A f \in Frames : R[f] = IF \E a \in Pages : InSize(p, a) /\ pte[p][a].f = f
                               THEN (m.ref[f] + 1) % RefRange ELSE m.ref[f]
  OBVIOUS
<1> HIDE DEF R
<1>6. MemoryOK(n) /\ n.free = m.free /\ n.data = m.data /\ n.ref = R
  BY <1>3 DEF MemoryOK
<1> QED
  BY <1>4, <1>5, <1>6

\* There is nothing to map of a mapping region.
LEMMA NothingMapped ==
  ASSUME CountsFit, CowTypeOK, NEW p \in Procs
  PROVE  ~HasMapped(p) /\ maps[p] = {} /\ mpte[p] = [m \in Maps |-> NoPte]
BY NoMaps DEF CowTypeOK, HasMapped

\* The memory after fork: four frames less on the list, the pages counted.
LEMMA ForkMemory ==
  ASSUME CountsFit, CowInvariant, NEW p \in Procs, NEW c \in Procs, Fork(p, c)
  PROVE  /\ free' \in Seq(Frames) /\ ref' \in [Frames -> 0 .. RefRange - 1]
         /\ data' = data
         /\ Listed' \subseteq Listed \ {free[i] : i \in 1 .. 4}
         /\ \A i \in 1 .. 4 : free[i] \in Listed /\ free[i] \in Frames
         /\ \A i, j \in 1 .. 4 : free[i] = free[j] => i = j
         /\ \A f \in Frames : ref'[f] = IF \E a \in Pages : InSize(p, a) /\ pte[p][a].f = f
                                        THEN (ref[f] + 1) % RefRange ELSE ref[f]
<1>1. CowTypeOK /\ FreedOnce /\ ~HasMapped(p)
  BY NothingMapped DEF CowInvariant, Fork, Running
<1>2. CanAlloc(4) /\ SetMemory(CountPages(Alloc(4), p))
  BY <1>1 DEF Fork
<1> DEFINE m == Alloc(4)
           n == CountPages(m, p)
<1>3. /\ MemoryOK(m) /\ m.ref = ref /\ m.data = data /\ ListedIn(m) \subseteq Listed
      /\ \A i \in 1 .. 4 : free[i] \in Listed /\ free[i] \in Frames /\ free[i] \notin ListedIn(m)
      /\ \A i, j \in 1 .. 4 : free[i] = free[j] => i = j
  BY <1>1, <1>2, AllocFacts
<1> HIDE DEF m
<1>4. /\ MemoryOK(n) /\ n.free = m.free /\ n.data = m.data
      /\ \A f \in Frames : n.ref[f] = IF \E a \in Pages : InSize(p, a) /\ pte[p][a].f = f
                                      THEN (m.ref[f] + 1) % RefRange ELSE m.ref[f]
  BY <1>3, CountPagesFacts
<1>5. SetMemory(n)
  BY <1>2 DEF m
<1> HIDE DEF n
<1>6. free' \in Seq(Frames) /\ ref' \in [Frames -> 0 .. RefRange - 1]
      /\ Listed' = ListedIn(n) /\ ref' = n.ref /\ data' = n.data
  BY <1>4, <1>5, MemorySet
<1>7. ListedIn(n) = ListedIn(m)
  BY <1>4 DEF ListedIn
<1>8. Listed' \subseteq Listed \ {free[i] : i \in 1 .. 4}
  BY <1>3, <1>6, <1>7
<1>9. \A f \in Frames : ref'[f] = IF \E a \in Pages : InSize(p, a) /\ pte[p][a].f = f
                                  THEN (ref[f] + 1) % RefRange ELSE ref[f]
  BY <1>3, <1>4, <1>6
<1> QED
  BY <1>3, <1>4, <1>6, <1>8, <1>9

\* The page tables after fork: the child's pages are the parent's, and none of them is
\* writable in either.
LEMMA ForkEntries ==
  ASSUME CountsFit, CowInvariant, NEW p \in Procs, NEW c \in Procs, Fork(p, c)
  PROVE  /\ pte' \in [Procs -> [Pages -> Entry]] /\ mpte' \in [Procs -> [Maps -> Entry]]
         /\ \A q \in Procs, a \in Pages :
              /\ q # c => pte'[q][a].f = pte[q][a].f /\ (pte'[q][a].w => pte[q][a].w)
              /\ pte'[p][a].w => a >= sz[p]
              /\ pte'[c][a].f = (IF a < sz[p] THEN pte[p][a].f ELSE 0) /\ ~pte'[c][a].w
<1>1. p # c /\ p \in Procs /\ c \in Procs
  BY DEF Fork, Running
<1>2. CowTypeOK /\ sz[p] \in Int /\ \A a \in Pages : a \in Int
  BY SizeFacts DEF CowInvariant
<1>3. NoPte \in Entry /\ NoPte.f = 0 /\ ~NoPte.w
  BY FrameFacts DEF NoPte, Entry
<1>4. \A e \in Entry : CowEntry(e) \in Entry /\ CowEntry(e).f = e.f /\ ~CowEntry(e).w
  BY DEF CowEntry, Entry
<1>5. \A a \in Pages : pte[p][a] \in Entry
  BY <1>2 DEF CowTypeOK
<1> DEFINE P == CopyUvm(p)
           C == [a \in Pages |-> IF InSize(p, a) THEN CowEntry(pte[p][a]) ELSE NoPte]
<1>6. /\ P \in [Pages -> Entry]
      /\ \A a \in Pages : P[a].f = pte[p][a].f /\ (P[a].w => pte[p][a].w /\ ~(a < sz[p]))
  BY <1>4, <1>5 DEF CopyUvm, InSize
<1>7. /\ C \in [Pages -> Entry]
      /\ \A a \in Pages : C[a].f = (IF a < sz[p] THEN pte[p][a].f ELSE 0) /\ ~C[a].w
  BY <1>3, <1>4, <1>5 DEF InSize
<1>8. pte' = [pte EXCEPT ![p] = P, ![c] = C]
  BY DEF Fork
<1> HIDE DEF P, C
<1>9. /\ pte' \in [Procs -> [Pages -> Entry]] /\ pte'[p] = P /\ pte'[c] = C
      /\ \A q \in Procs \ {p, c} : pte'[q] = pte[q]
  BY <1>1, <1>2, <1>6, <1>7, <1>8 DEF CowTypeOK
<1>10. mpte' \in [Procs -> [Maps -> Entry]]
  BY <1>2, NoMaps DEF Fork, CowTypeOK
<1>11. ASSUME NEW q \in Procs, NEW a \in Pages
       PROVE  /\ q # c => pte'[q][a].f = pte[q][a].f /\ (pte'[q][a].w => pte[q][a].w)
              /\ pte'[p][a].w => a >= sz[p]
              /\ pte'[c][a].f = (IF a < sz[p] THEN pte[p][a].f ELSE 0) /\ ~pte'[c][a].w
  <2>1. q # c => pte'[q][a].f = pte[q][a].f /\ (pte'[q][a].w => pte[q][a].w)
    BY <1>6, <1>9
  <2>2. pte'[p][a].w => a >= sz[p]
    BY <1>2, <1>6, <1>9
  <2>3. pte'[c][a].f = (IF a < sz[p] THEN pte[p][a].f ELSE 0) /\ ~pte'[c][a].w
    BY <1>7, <1>9
  <2> QED
    BY <2>1, <2>2, <2>3
<1> QED
  BY <1>9, <1>10, <1>11

\* The kernel frames after fork.
LEMMA ForkKernel ==
  ASSUME CountsFit, CowInvariant, NEW p \in Procs, NEW c \in Procs, Fork(p, c)
  PROVE  /\ \A t \in {kstack', pgdir', kpt', upt', mpt'} : t \in [Procs -> 0 .. NFrames]
         /\ \A q \in Procs \ {c}, k \in Kinds : Kernel(k, q)' = Kernel(k, q)
         /\ \A k \in Kinds : /\ Kernel(k, c)' \in {free[i] : i \in 1 .. 4}
                             /\ Kernel(k, c)' \in Listed /\ Kernel(k, c)' # 0
         /\ \A k, l \in Kinds : Kernel(k, c)' = Kernel(l, c)' => k = l
         /\ \A q \in Procs : mpt'[q] = 0
<1>1. \A i \in 1 .. 4 : free[i] \in Listed /\ free[i] \in Frames
  BY ForkMemory
<1>2. \A i, j \in 1 .. 4 : free[i] = free[j] => i = j
  BY ForkMemory
<1>3. free[1] \in 1 .. NFrames /\ free[2] \in 1 .. NFrames /\ free[3] \in 1 .. NFrames
      /\ free[4] \in 1 .. NFrames /\ NFrames \in Nat
  BY <1>1, FrameFacts DEF Frames
<1>4. /\ kstack' = [kstack EXCEPT ![c] = free[1]] /\ pgdir' = [pgdir EXCEPT ![c] = free[2]]
      /\ kpt' = [kpt EXCEPT ![c] = free[3]] /\ upt' = [upt EXCEPT ![c] = free[4]]
      /\ mpt' = [mpt EXCEPT ![c] = 0]
  BY NothingMapped DEF Fork, CowInvariant
<1>5. /\ kstack \in [Procs -> 0 .. NFrames] /\ pgdir \in [Procs -> 0 .. NFrames]
      /\ kpt \in [Procs -> 0 .. NFrames] /\ upt \in [Procs -> 0 .. NFrames]
      /\ mpt \in [Procs -> 0 .. NFrames]
  BY DEF CowInvariant, CowTypeOK
<1>6. /\ kstack' \in [Procs -> 0 .. NFrames] /\ pgdir' \in [Procs -> 0 .. NFrames]
      /\ kpt' \in [Procs -> 0 .. NFrames] /\ upt' \in [Procs -> 0 .. NFrames]
      /\ mpt' \in [Procs -> 0 .. NFrames]
  BY <1>3, <1>4, <1>5
<1>7. /\ kstack'[c] = free[1] /\ pgdir'[c] = free[2] /\ kpt'[c] = free[3] /\ upt'[c] = free[4]
      /\ \A q \in Procs \ {c} : /\ kstack'[q] = kstack[q] /\ pgdir'[q] = pgdir[q]
                                /\ kpt'[q] = kpt[q] /\ upt'[q] = upt[q]
  BY <1>4, <1>5
<1>8. \A q \in Procs \ {c}, k \in Kinds : Kernel(k, q)' = Kernel(k, q)
  BY <1>7 DEF Kernel
<1> DEFINE Nr(k) == CASE k = "kstack" -> 1 [] k = "pgdir" -> 2 [] k = "kpt" -> 3 [] OTHER -> 4
<1>9. \A k \in Kinds : Nr(k) \in 1 .. 4 /\ Kernel(k, c)' = free[Nr(k)]
  BY <1>7 DEF Kernel, Kinds
<1>10. \A k, l \in Kinds : Nr(k) = Nr(l) => k = l
  BY DEF Kinds
<1> HIDE DEF Nr
<1>11. \A k \in Kinds : /\ Kernel(k, c)' \in {free[i] : i \in 1 .. 4}
                        /\ Kernel(k, c)' \in Listed /\ Kernel(k, c)' # 0
  BY <1>1, <1>9, FrameFacts
<1>12. \A k, l \in Kinds : Kernel(k, c)' = Kernel(l, c)' => k = l
  BY <1>2, <1>9, <1>10
<1>13. \A q \in Procs : mpt'[q] = 0
  BY <1>4, <1>5 DEF CowInvariant, SlotsOK
<1> QED
  BY <1>6, <1>8, <1>11, <1>12, <1>13

\* fork keeps types.
LEMMA ForkTypes ==
  ASSUME CountsFit, CowInvariant, NEW p \in Procs, NEW c \in Procs, Fork(p, c)
  PROVE  CowTypeOK' /\ teardowns' = teardowns
<1>1. /\ free' \in Seq(Frames) /\ ref' \in [Frames -> 0 .. RefRange - 1]
      /\ data' = data
  BY ForkMemory
<1>2. pte' \in [Procs -> [Pages -> Entry]] /\ mpte' \in [Procs -> [Maps -> Entry]]
  BY ForkEntries
<1>3. \A t \in {kstack', pgdir', kpt', upt', mpt'} : t \in [Procs -> 0 .. NFrames]
  BY ForkKernel
<1>4. /\ state' = [state EXCEPT ![c] = "run"] /\ parent' = [parent EXCEPT ![c] = p]
      /\ sz' = [sz EXCEPT ![c] = sz[p]] /\ maps' = [maps EXCEPT ![c] = maps[p]]
      /\ teardowns' = teardowns
  BY DEF Fork
<1>5. /\ state' \in [Procs -> {"unused", "run", "zombie"}] /\ parent' \in [Procs -> Procs]
      /\ sz' \in [Procs -> 0 .. MaxPages] /\ maps' \in [Procs -> SUBSET Maps]
      /\ data \in [Frames -> Values \cup {Junk}]
  BY <1>4 DEF CowInvariant, CowTypeOK
<1> QED
  BY <1>1, <1>2, <1>3, <1>4, <1>5 DEF CowTypeOK

\* fork fills the child's slot.
LEMMA ForkSlots ==
  ASSUME CountsFit, CowInvariant, NEW p \in Procs, NEW c \in Procs, Fork(p, c)
  PROVE  SlotsOK' /\ Unused' = Unused \ {c} /\ c \in Unused
<1>1. /\ state[c] = "unused" /\ state[p] = "run" /\ p # c
      /\ state'[c] = "run" /\ sz'[c] = sz[p]
      /\ \A q \in Procs \ {c} : state'[q] = state[q] /\ sz'[q] = sz[q]
  BY DEF Fork, Running, CowInvariant, CowTypeOK
<1>2. Unused' = Unused \ {c} /\ c \in Unused
  BY <1>1 DEF Unused
<1>3. ASSUME NEW q \in Procs, q # c
      PROVE  /\ mpt'[q] = 0
             /\ \A k \in Kinds : Kernel(k, q)' = 0 <=> state'[q] = "unused"
             /\ state'[q] = "unused" => sz'[q] = 0
             /\ state'[q] # "unused" => sz'[q] >= 1
             /\ \A a \in Pages :
                  /\ a < sz'[q] => pte'[q][a].f # 0
                  /\ state'[q] = "unused" => pte'[q][a].f = 0
                  /\ pte'[q][a].f = 0 => ~pte'[q][a].w
  <2>1. \A a \in Pages : pte'[q][a].f = pte[q][a].f /\ (pte'[q][a].w => pte[q][a].w)
    BY <1>3, ForkEntries
  <2>2. mpt'[q] = 0 /\ \A k \in Kinds : Kernel(k, q)' = Kernel(k, q)
    BY <1>3, ForkKernel
  <2> QED
    BY <1>1, <1>3, <2>1, <2>2 DEF CowInvariant, SlotsOK
<1>4. /\ mpt'[c] = 0
      /\ \A k \in Kinds : Kernel(k, c)' = 0 <=> state'[c] = "unused"
      /\ state'[c] = "unused" => sz'[c] = 0
      /\ state'[c] # "unused" => sz'[c] >= 1
      /\ \A a \in Pages :
           /\ a < sz'[c] => pte'[c][a].f # 0
           /\ state'[c] = "unused" => pte'[c][a].f = 0
           /\ pte'[c][a].f = 0 => ~pte'[c][a].w
  <2>1. \A a \in Pages : pte'[c][a].f = (IF a < sz[p] THEN pte[p][a].f ELSE 0) /\ ~pte'[c][a].w
    BY ForkEntries
  <2>2. mpt'[c] = 0 /\ \A k \in Kinds : Kernel(k, c)' # 0
    BY ForkKernel
  <2> QED
    BY <1>1, <2>1, <2>2 DEF CowInvariant, SlotsOK
<1> QED
  BY <1>2, <1>3, <1>4 DEF SlotsOK

\* fork takes its kernel frames from the list.
LEMMA ForkFrames ==
  ASSUME CountsFit, CowInvariant, NEW p \in Procs, NEW c \in Procs, Fork(p, c)
  PROVE  KernelApart' /\ FramesApart'
<1> DEFINE K == {free[i] : i \in 1 .. 4}
<1>1. /\ \A q \in Procs \ {c}, k \in Kinds : Kernel(k, q)' = Kernel(k, q)
      /\ \A k \in Kinds : Kernel(k, c)' \in K /\ Kernel(k, c)' \in Listed
      /\ \A k, l \in Kinds : Kernel(k, c)' = Kernel(l, c)' => k = l
  BY ForkKernel
<1>2. KernelApart'
  BY <1>1, KernelStep DEF CowInvariant
<1>3. K \subseteq Listed /\ Listed' \subseteq Listed \ K
  BY ForkMemory
<1> HIDE DEF K
<1>4. KernelUsed' \subseteq KernelUsed \cup K
  BY <1>1 DEF KernelUsed
<1>5. Mapped' \subseteq Mapped
  <2> SUFFICES ASSUME NEW q \in Procs, NEW a \in Pages, pte'[q][a].f # 0
               PROVE  \E r \in Procs : pte[r][a].f = pte'[q][a].f
    BY DEF Mapped
  <2>1. q # c => pte'[q][a].f = pte[q][a].f
    BY ForkEntries
  <2>2. pte'[c][a].f = IF a < sz[p] THEN pte[p][a].f ELSE 0
    BY ForkEntries
  <2> QED
    BY <2>1, <2>2
<1>6. FramesApart'
  <2>1. FramesApart
    BY DEF CowInvariant
  <2> DEFINE E == {}
  <2>2. /\ E \subseteq Listed /\ K \subseteq Listed /\ E \cap K = {} /\ E \subseteq KernelUsed
        /\ Mapped' \subseteq Mapped \cup E /\ KernelUsed' \subseteq (KernelUsed \ E) \cup K
        /\ Listed' \subseteq (Listed \ (E \cup K)) \cup E
    BY <1>3, <1>4, <1>5
  <2> HIDE DEF E
  <2> QED
    BY <2>1, <2>2, FramesStep
<1> QED
  BY <1>2, <1>6

\* fork keeps what the counts are for.
LEMMA ForkSharing ==
  ASSUME CountsFit, CowInvariant, NEW p \in Procs, NEW c \in Procs, Fork(p, c)
  PROVE  OnePlace' /\ WritableIsUnshared'
<1> DEFINE F(q, a) == pte'[q][a].f
           W(q, a) == pte'[q][a].w
<1>1. \A q \in Procs, a \in Pages :
        /\ q # c => F(q, a) = pte[q][a].f /\ (W(q, a) => pte[q][a].w)
        /\ W(p, a) => a >= sz[p]
        /\ F(c, a) = (IF a < sz[p] THEN pte[p][a].f ELSE 0) /\ ~W(c, a)
  BY ForkEntries
<1>2. \A q \in Procs \ {c} : state'[q] = state[q]
  BY DEF Fork, CowInvariant, CowTypeOK
<1>3. state[p] # "unused"
  BY DEF Fork, Running
<1>4. sz[p] \in Nat /\ \A a \in Pages : a \in Nat
  BY SizeFacts DEF CowInvariant
<1>5. OnePlace'
  <2> SUFFICES ASSUME NEW q \in Procs, NEW a \in Pages, NEW b \in Pages,
                      F(q, a) = F(q, b), F(q, a) # 0
               PROVE  a = b
    BY DEF OnePlace
  <2> HIDE DEF F, W
  <2>1. CASE q = c
    BY <1>1, <2>1 DEF CowInvariant, OnePlace
  <2>2. CASE q # c
    BY <1>1, <2>2 DEF CowInvariant, OnePlace
  <2> QED
    BY <2>1, <2>2
<1>6. WritableIsUnshared'
  <2> SUFFICES ASSUME NEW q \in Procs, NEW r \in Procs, NEW a \in Pages, NEW b \in Pages,
                      W(q, a), F(r, b) = F(q, a), state'[q] # "unused", state'[r] # "unused"
               PROVE  q = r /\ a = b
    BY DEF WritableIsUnshared
  <2> HIDE DEF F, W
  <2>1. q # c /\ pte[q][a].w /\ F(q, a) = pte[q][a].f /\ state[q] # "unused"
    BY <1>1, <1>2
  <2>2. CASE r # c
    <3>1. state[r] # "unused" /\ F(r, b) = pte[r][b].f
      BY <1>1, <1>2, <2>2
    <3> QED
      BY <2>1, <3>1 DEF CowInvariant, WritableIsUnshared
  <2>3. CASE r = c
    <3>1. pte[q][a].f # 0
      BY <2>1 DEF CowInvariant, SlotsOK
    <3>2. b < sz[p] /\ pte[p][b].f = pte[q][a].f
      BY <1>1, <2>1, <2>3, <3>1
    <3>3. q = p /\ a = b
      BY <1>3, <2>1, <3>2 DEF CowInvariant, WritableIsUnshared
    <3>4. a >= sz[p]
      BY <1>1, <3>3
    <3> QED
      BY <1>4, <3>2, <3>3, <3>4
  <2> QED
    BY <2>2, <2>3
<1> QED
  BY <1>5, <1>6

\* fork counts the child's entries.
LEMMA ForkCounts ==
  ASSUME CountsFit, CowInvariant, NEW p \in Procs, NEW c \in Procs, Fork(p, c)
  PROVE  \A f \in Mapped' : CountOK(f)'
<1> SUFFICES ASSUME NEW f \in Mapped' PROVE CountOK(f)'
  OBVIOUS
<1> DEFINE F(q, a) == pte'[q][a].f
<1>1. \A q \in Procs, a \in Pages :
        /\ q # c => F(q, a) = pte[q][a].f
        /\ F(c, a) = (IF a < sz[p] THEN pte[p][a].f ELSE 0)
  BY ForkEntries
<1>2. /\ state[c] = "unused" /\ state[p] # "unused" /\ state'[c] # "unused"
      /\ \A q \in Procs \ {c} : state'[q] = state[q]
  BY DEF Fork, Running, CowInvariant, CowTypeOK
<1>3. f # 0 /\ \E q \in Procs, a \in Pages : pte[q][a].f = f
  <2>1. PICK q \in Procs, a \in Pages : F(q, a) = f /\ f # 0
    BY DEF Mapped
  <2> HIDE DEF F
  <2> QED
    BY <1>1, <2>1
<1>4. f \in Frames /\ f \in Mapped
  BY <1>3, CountFacts
<1>5. CountOK(f)
  BY <1>4 DEF CowInvariant
<1>6. Unused' = Unused \ {c} /\ c \in Unused
  BY ForkSlots
<1>7. CowTypeOK /\ CowTypeOK' /\ teardowns \in Nat /\ teardowns' = teardowns
  BY ForkTypes DEF CowInvariant
<1>8. Cardinality(Unused') = Cardinality(Unused) - 1 /\ Cardinality(Unused) \in Nat /\ Cardinality(Procs) \in Nat
  BY <1>6, UnusedCounts
<1>9. ref'[f] = IF \E a \in Pages : InSize(p, a) /\ pte[p][a].f = f THEN (ref[f] + 1) % RefRange ELSE ref[f]
  BY <1>4, ForkMemory
<1> HIDE DEF F
<1>10. CASE \E a \in Pages : a < sz[p] /\ pte[p][a].f = f
  <2>1. PICK a \in Pages : a < sz[p] /\ pte[p][a].f = f
    BY <1>10
  <2>2. \A b \in Pages : pte[p][b].f = f => b = a
    BY <1>3, <2>1 DEF CowInvariant, OnePlace
  <2>3. Mappers(f)' = Mappers(f) \cup {<<c, a>>} /\ <<c, a>> \notin Mappers(f)
    <3>1. ASSUME NEW q \in Procs, NEW b \in Pages
          PROVE  <<q, b>> \in Mappers(f)' <=> <<q, b>> \in Mappers(f) \/ (q = c /\ b = a)
      <4>1. /\ <<q, b>> \in Mappers(f) <=> state[q] # "unused" /\ pte[q][b].f = f
            /\ <<q, b>> \in Mappers(f)' <=> state'[q] # "unused" /\ F(q, b) = f
        BY MapperFacts DEF F
      <4>2. CASE q = c
        BY <1>1, <1>2, <1>3, <2>1, <2>2, <4>1, <4>2
      <4>3. CASE q # c
        BY <1>1, <1>2, <4>1, <4>3
      <4> QED
        BY <4>2, <4>3
    <3>2. <<c, a>> \notin Mappers(f)
      BY <1>2, MapperFacts
    <3>3. \A x \in Procs \X Pages : x \in Mappers(f)' <=> x \in Mappers(f) \/ x = <<c, a>>
      BY <3>1
    <3> QED
      BY <3>2, <3>3, MappersArePairs
  <2>4. Cardinality(Mappers(f)') = Cardinality(Mappers(f)) + 1 /\ Cardinality(Mappers(f)) \in Nat
    BY <2>3, MappersFinite, FS_AddElement, FS_CardinalityType
  <2>5. ref'[f] = (ref[f] + 1) % RefRange
    BY <1>9, <2>1 DEF InSize
  <2>6. ref[f] \in 0 .. RefRange - 1 /\ MaxTeardowns \in Nat /\ teardowns <= MaxTeardowns /\ RefRange \in Nat
    BY <1>4, MemorySizes DEF CowInvariant, CowTypeOK
  <2>7. ref[f] + 1 \in 0 .. RefRange - 1
    <3>1. ref[f] + Cardinality(Unused) <= Cardinality(Procs) + teardowns
      BY <1>5 DEF CountOK
    <3>2. Cardinality(Unused) >= 1
      <4>1. Cardinality(Unused') \in Nat
        BY MappersFinite, FS_CardinalityType
      <4> QED
        BY <1>8, <4>1
    <3>3. Cardinality(Procs) + MaxTeardowns < RefRange
      BY DEF CountsFit
    <3> QED
      BY <1>7, <1>8, <2>6, <3>1, <3>2, <3>3
  <2>8. ref'[f] = ref[f] + 1
    BY <2>5, <2>7, CountsAreBytes
  <2> QED
    BY <1>5, <1>7, <1>8, <2>4, <2>6, <2>8 DEF CountOK
<1>11. CASE ~\E a \in Pages : a < sz[p] /\ pte[p][a].f = f
  <2>1. Mappers(f)' = Mappers(f)
    <3>1. ASSUME NEW q \in Procs, NEW b \in Pages
          PROVE  <<q, b>> \in Mappers(f)' <=> <<q, b>> \in Mappers(f)
      <4>1. /\ <<q, b>> \in Mappers(f) <=> state[q] # "unused" /\ pte[q][b].f = f
            /\ <<q, b>> \in Mappers(f)' <=> state'[q] # "unused" /\ F(q, b) = f
        BY MapperFacts DEF F
      <4>2. CASE q = c
        BY <1>1, <1>2, <1>3, <1>11, <4>1, <4>2
      <4>3. CASE q # c
        BY <1>1, <1>2, <4>1, <4>3
      <4> QED
        BY <4>2, <4>3
    <3>2. \A x \in Procs \X Pages : x \in Mappers(f)' <=> x \in Mappers(f)
      BY <3>1
    <3> QED
      BY <3>2, MappersArePairs
  <2>2. ref'[f] = ref[f]
    BY <1>9, <1>11 DEF InSize
  <2>3. Cardinality(Unused') + teardowns <= Cardinality(Unused) + teardowns'
    BY <1>7, <1>8
  <2> QED
    BY <1>4, <1>5, <1>7, <2>1, <2>2, <2>3, KeptCount
<1> QED
  BY <1>10, <1>11

\* fork keeps the invariant.
LEMMA ForkKeeps ==
  ASSUME CountsFit, CowInvariant, NEW p \in Procs, NEW c \in Procs, Fork(p, c)
  PROVE  CowInvariant'
BY ForkTypes, ForkSlots, ForkFrames, ForkSharing, ForkCounts DEF CowInvariant

-----------------------------------------------------------------------------
(* Steps that map no new frame.                                             *)

\* Page tables that keep their frames, with sizes that do not grow.
LEMMA SameFrames ==
  ASSUME CountsFit, CowInvariant, UNCHANGED tableVars, Listed' \subseteq Listed,
         \A q \in Procs : /\ state'[q] = "unused" <=> state[q] = "unused"
                          /\ sz'[q] = sz[q] \/ (sz'[q] = sz[q] - 1 /\ sz[q] > 1),
         \A q \in Procs, a \in Pages : /\ pte'[q][a].f = pte[q][a].f
                                       /\ pte'[q][a].f = 0 => ~pte'[q][a].w
  PROVE  /\ SlotsOK' /\ KernelApart' /\ FramesApart' /\ OnePlace'
         /\ Mapped' = Mapped /\ Unused' = Unused
         /\ \A f \in Frames : Mappers(f)' = Mappers(f)
<1>1. \A k \in Kinds, q \in Procs : Kernel(k, q)' = Kernel(k, q)
  BY DEF tableVars, Kernel
<1>2. mpt' = mpt
  BY DEF tableVars
<1>3. \A q \in Procs : sz[q] \in Nat /\ \A a \in Pages : a \in Nat
  BY SizeFacts DEF CowInvariant
<1>4. SlotsOK
  BY DEF CowInvariant
<1>5. SlotsOK'
  <2> SUFFICES ASSUME NEW q \in Procs
               PROVE  /\ mpt'[q] = 0
                      /\ \A k \in Kinds : Kernel(k, q)' = 0 <=> state'[q] = "unused"
                      /\ state'[q] = "unused" => sz'[q] = 0
                      /\ state'[q] # "unused" => sz'[q] >= 1
                      /\ \A a \in Pages :
                           /\ a < sz'[q] => pte'[q][a].f # 0
                           /\ state'[q] = "unused" => pte'[q][a].f = 0
                           /\ pte'[q][a].f = 0 => ~pte'[q][a].w
    BY DEF SlotsOK
  <2>1. /\ mpt'[q] = 0 /\ \A k \in Kinds : Kernel(k, q)' = 0 <=> state'[q] = "unused"
    BY <1>1, <1>2, <1>4 DEF SlotsOK
  <2>2. /\ state'[q] = "unused" => sz'[q] = 0
        /\ state'[q] # "unused" => sz'[q] >= 1
    BY <1>3, <1>4 DEF SlotsOK
  <2>3. ASSUME NEW a \in Pages
        PROVE  /\ a < sz'[q] => pte'[q][a].f # 0
               /\ state'[q] = "unused" => pte'[q][a].f = 0
               /\ pte'[q][a].f = 0 => ~pte'[q][a].w
    BY <1>3, <1>4 DEF SlotsOK
  <2> QED
    BY <2>1, <2>2, <2>3
<1>6. KernelApart'
  BY <1>1 DEF CowInvariant, KernelApart
<1>7. Mapped' = Mapped /\ KernelUsed' = KernelUsed
  BY <1>1 DEF Mapped, KernelUsed
<1>8. FramesApart'
  BY <1>7 DEF CowInvariant, FramesApart
<1>9. OnePlace'
  BY DEF CowInvariant, OnePlace
<1>10. Unused' = Unused
  BY DEF Unused
<1>11. ASSUME NEW f \in Frames PROVE Mappers(f)' = Mappers(f)
  <2>1. ASSUME NEW q \in Procs, NEW b \in Pages PROVE <<q, b>> \in Mappers(f)' <=> <<q, b>> \in Mappers(f)
    BY MapperFacts
  <2>2. \A x \in Procs \X Pages : x \in Mappers(f)' <=> x \in Mappers(f)
    BY <2>1
  <2> QED
    BY <2>2, MappersArePairs
<1> QED
  BY <1>5, <1>6, <1>7, <1>8, <1>9, <1>10, <1>11

\* Entries that do not become writable.
LEMMA StillUnshared ==
  ASSUME CowInvariant,
         \A q \in Procs : state'[q] = "unused" <=> state[q] = "unused",
         \A q \in Procs, a \in Pages : /\ pte'[q][a].f = pte[q][a].f
                                       /\ pte'[q][a].w => pte[q][a].w
  PROVE  WritableIsUnshared'
BY DEF CowInvariant, WritableIsUnshared

\* A step that keeps frames and counts of mapped frames.
LEMMA QuietStep ==
  ASSUME CountsFit, CowInvariant, CowTypeOK', UNCHANGED tableVars, Listed' \subseteq Listed,
         teardowns' \in 0 .. MaxTeardowns, teardowns' >= teardowns,
         \A q \in Procs : /\ state'[q] = "unused" <=> state[q] = "unused"
                          /\ sz'[q] = sz[q] \/ (sz'[q] = sz[q] - 1 /\ sz[q] > 1),
         \A q \in Procs, a \in Pages : /\ pte'[q][a].f = pte[q][a].f
                                       /\ pte'[q][a].w => pte[q][a].w,
         \A f \in Mapped : ref'[f] = ref[f]
  PROVE  CowInvariant'
<1>1. \A q \in Procs, a \in Pages : pte'[q][a].f = 0 => ~pte'[q][a].w
  BY DEF CowInvariant, SlotsOK
<1>2. /\ SlotsOK' /\ KernelApart' /\ FramesApart' /\ OnePlace'
      /\ Mapped' = Mapped /\ Unused' = Unused
      /\ \A f \in Frames : Mappers(f)' = Mappers(f)
  BY <1>1, SameFrames
<1>3. WritableIsUnshared'
  BY StillUnshared
<1>4. ASSUME NEW f \in Mapped' PROVE CountOK(f)'
  <2>1. f \in Mapped /\ CountOK(f)
    BY <1>2, <1>4 DEF CowInvariant
  <2>2. f \in Frames
    BY <2>1, MappedFacts
  <2>3. CowTypeOK /\ teardowns \in Nat /\ teardowns' \in Nat /\ MaxTeardowns \in Nat
    BY MemorySizes DEF CowInvariant
  <2>4. Cardinality(Unused') + teardowns <= Cardinality(Unused) + teardowns'
    <3>1. Cardinality(Unused) \in Nat
      BY MappersFinite, FS_CardinalityType
    <3> QED
      BY <1>2, <2>3, <3>1
  <2> QED
    BY <1>2, <2>1, <2>2, <2>3, <2>4, KeptCount
<1> QED
  BY <1>2, <1>3, <1>4 DEF CowInvariant

\* Nothing but the panic changes.
LEMMA StutterKeeps ==
  ASSUME CowInvariant, UNCHANGED <<memVars, procVars, teardowns>>
  PROVE  CowInvariant'
<1>1. UNCHANGED <<free, ref, data, state, parent, sz, pte, maps, mpte, kstack, pgdir, kpt, upt,
                  mpt, teardowns>>
  BY DEF memVars, procVars, tableVars
<1>2. Mapped' = Mapped /\ KernelUsed' = KernelUsed /\ Listed' = Listed /\ Unused' = Unused
  BY <1>1 DEF Mapped, KernelUsed, Listed, Unused, Kernel
<1>3. CowTypeOK' /\ SlotsOK' /\ KernelApart' /\ OnePlace' /\ WritableIsUnshared'
  BY <1>1 DEF CowInvariant, CowTypeOK, SlotsOK, KernelApart, OnePlace, WritableIsUnshared, Kernel
<1>4. \A f : Mappers(f)' = Mappers(f)
  BY <1>1 DEF Mappers
<1>5. \A f \in Mapped' : CountOK(f)'
  BY <1>1, <1>2, <1>4 DEF CowInvariant, CountOK
<1> QED
  BY <1>1, <1>2, <1>3, <1>5 DEF CowInvariant, FramesApart

\* A store to a page keeps the invariant.
LEMMA StoreKeeps ==
  ASSUME CountsFit, CowInvariant, NEW p \in Procs, NEW a \in Pages, NEW v \in Values, Store(p, a, v)
  PROVE  CowInvariant'
<1>1. data' \in [Frames -> Values \cup {Junk}]
  BY DEF Store, CowInvariant, CowTypeOK
<1>2. /\ UNCHANGED <<free, ref, state, parent, sz, pte, maps, mpte, teardowns>>
      /\ UNCHANGED tableVars
  BY DEF Store, procVars
<1>3. CowTypeOK'
  BY <1>1, <1>2 DEF CowInvariant, CowTypeOK, tableVars
<1>4. Listed' = Listed /\ teardowns' \in 0 .. MaxTeardowns /\ teardowns' >= teardowns
  BY <1>2, MemorySizes, ListedIsKept DEF CowInvariant
<1> QED
  BY <1>2, <1>3, <1>4, QuietStep

\* exit keeps it.
LEMMA ExitKeeps ==
  ASSUME CountsFit, CowInvariant, NEW p \in Procs, Exit(p)
  PROVE  CowInvariant'
<1>1. state[p] = "run" /\ state' = [state EXCEPT ![p] = "zombie"]
  BY DEF Exit, Running
<1>2. /\ state' \in [Procs -> {"unused", "run", "zombie"}] /\ parent' \in [Procs -> Procs]
      /\ \A q \in Procs : state'[q] = "unused" <=> state[q] = "unused"
  <2>1. state \in [Procs -> {"unused", "run", "zombie"}] /\ parent \in [Procs -> Procs]
    BY DEF CowInvariant, CowTypeOK
  <2>2. parent' = [q \in Procs |-> IF parent[q] = p THEN InitProc ELSE parent[q]]
    BY DEF Exit
  <2>3. parent' \in [Procs -> Procs]
    BY <2>1, <2>2, InitIsProc
  <2>4. state' \in [Procs -> {"unused", "run", "zombie"}]
    BY <1>1, <2>1
  <2>5. \A q \in Procs : state'[q] = "unused" <=> state[q] = "unused"
    BY <1>1, <2>1
  <2> QED
    BY <2>3, <2>4, <2>5
<1>3. /\ UNCHANGED <<free, ref, data, sz, pte, maps, mpte, teardowns>>
      /\ UNCHANGED tableVars
  BY DEF Exit, memVars
<1>4. CowTypeOK'
  BY <1>2, <1>3 DEF CowInvariant, CowTypeOK, tableVars
<1>5. Listed' = Listed /\ teardowns' \in 0 .. MaxTeardowns /\ teardowns' >= teardowns
  BY <1>3, MemorySizes, ListedIsKept DEF CowInvariant
<1> QED
  BY <1>2, <1>3, <1>4, <1>5, QuietStep

\* sbrk of a page less: deallocuvm finds a count, and frees nothing.
LEMMA ShrinkFacts ==
  ASSUME CountsFit, CowInvariant, NEW p \in Procs, Shrink(p)
  PROVE  /\ sz[p] - 1 \in Pages /\ sz[p] > 1 /\ sz' = [sz EXCEPT ![p] = sz[p] - 1]
         /\ UNCHANGED <<free, ref, data, state, parent, pte, maps, mpte, teardowns, panicked>>
         /\ UNCHANGED tableVars
<1> DEFINE a == sz[p] - 1
<1>1. sz[p] > 1 /\ sz[p] \in 0 .. MaxPages /\ MaxPages \in Nat /\ sz' = [sz EXCEPT ![p] = a]
  BY SizeFacts DEF Shrink, CowInvariant
<1>2. a \in Pages /\ a < sz[p]
  BY <1>1 DEF Pages
<1>3. SetMemory(FreePage(Memory, pte[p][a]))
      /\ pte' = IF ref[pte[p][a].f] = 0 THEN [pte EXCEPT ![p][a] = NoPte] ELSE pte
  BY DEF Shrink
<1>4. pte[p][a].f # 0
  BY <1>2 DEF CowInvariant, SlotsOK
<1> HIDE DEF a
<1>5. ref[pte[p][a].f] # 0
  <2>1. ref[pte[p][a].f] >= 1 /\ ref[pte[p][a].f] \in 0 .. RefRange - 1
    BY <1>2, <1>4, CountFacts
  <2> QED
    BY <2>1, CountsAreBytes
<1>6. FreePage(Memory, pte[p][a]) = Memory /\ Memory.free = free /\ Memory.ref = ref /\ Memory.data = data
  BY <1>5, MemoryFacts DEF FreePage, CowInvariant
<1> QED
  BY <1>1, <1>2, <1>3, <1>5, <1>6 DEF Shrink, SetMemory, a

\* It keeps the invariant.
LEMMA ShrinkKeeps ==
  ASSUME CountsFit, CowInvariant, NEW p \in Procs, Shrink(p)
  PROVE  CowInvariant'
<1>1. /\ sz[p] > 1 /\ sz' = [sz EXCEPT ![p] = sz[p] - 1]
      /\ UNCHANGED <<free, ref, data, state, parent, pte, maps, mpte, teardowns>>
      /\ UNCHANGED tableVars
  BY ShrinkFacts
<1>2. sz \in [Procs -> 0 .. MaxPages] /\ MaxPages \in Nat /\ sz[p] \in 0 .. MaxPages
  BY SizeFacts DEF CowInvariant, CowTypeOK
<1>3. sz' \in [Procs -> 0 .. MaxPages]
  BY <1>1, <1>2
<1>4. CowTypeOK'
  BY <1>1, <1>3 DEF CowInvariant, CowTypeOK, tableVars
<1>5. Listed' = Listed /\ teardowns' \in 0 .. MaxTeardowns /\ teardowns' >= teardowns
  BY <1>1, MemorySizes, ListedIsKept DEF CowInvariant
<1>6. \A q \in Procs : sz'[q] = sz[q] \/ (sz'[q] = sz[q] - 1 /\ sz[q] > 1)
  BY <1>1, <1>2
<1> QED
  BY <1>1, <1>4, <1>5, <1>6, QuietStep

\* exec that fails for its third page leaves two counts wrong, of free frames.
LEMMA ExecFailsFacts ==
  ASSUME CountsFit, CowInvariant, NEW p \in Procs, ExecFails(p)
  PROVE  /\ free' \in Seq(Frames) /\ ref' \in [Frames -> 0 .. RefRange - 1]
         /\ data' \in [Frames -> Values \cup {Junk}] /\ Listed' \subseteq Listed
         /\ \A f \in Mapped : ref'[f] = ref[f] /\ data'[f] = data[f]
<1> DEFINE x == free[3]
           y == free[2]
           m1 == Incref(Memory, x)
           m2 == Decref(m1, y)
<1>1. x \in Frames /\ x \in Listed /\ y \in Frames /\ y \in Listed
  BY ListedAt DEF ExecFails, CowInvariant
<1>2. MemoryOK(Memory) /\ ListedIn(Memory) = Listed /\ Memory.ref = ref /\ Memory.data = data
  BY MemoryFacts DEF CowInvariant
<1>3. Touches(m1, Memory, {x}, {}) /\ MemoryOK(m1)
  BY <1>1, <1>2, IncrefFacts DEF Touches
<1>4. SetMemory(m2)
  BY DEF ExecFails
<1> HIDE DEF x, y, m1
<1>5. Touches(m2, m1, {y}, {y}) /\ MemoryOK(m2)
  BY <1>1, <1>3, DecrefFacts DEF Touches
<1> HIDE DEF m2
<1>6. Touches(m2, Memory, {x} \cup {y}, {} \cup {y})
  BY <1>3, <1>5, TouchesBoth
<1>7. /\ free' \in Seq(Frames) /\ ref' \in [Frames -> 0 .. RefRange - 1]
      /\ data' \in [Frames -> Values \cup {Junk}]
      /\ Listed' = ListedIn(m2) /\ ref' = m2.ref /\ data' = m2.data
  BY <1>4, <1>5, MemorySet
<1>8. Listed' \subseteq Listed /\ \A f \in Frames \ {x, y} : ref'[f] = ref[f] /\ data'[f] = data[f]
  BY <1>1, <1>2, <1>6, <1>7 DEF Touches
<1>9. \A f \in Mapped : f \in Frames \ {x, y}
  <2> SUFFICES ASSUME NEW f \in Mapped PROVE f \in Frames \ {x, y}
    OBVIOUS
  <2>1. f \in Frames /\ f \notin Listed
    BY MappedFacts
  <2> QED
    BY <1>1, <2>1
<1> QED
  BY <1>7, <1>8, <1>9

\* It keeps the invariant.
LEMMA ExecFailsKeeps ==
  ASSUME CountsFit, CowInvariant, NEW p \in Procs, ExecFails(p)
  PROVE  CowInvariant'
<1>1. /\ free' \in Seq(Frames) /\ ref' \in [Frames -> 0 .. RefRange - 1]
      /\ data' \in [Frames -> Values \cup {Junk}] /\ Listed' \subseteq Listed
      /\ \A f \in Mapped : ref'[f] = ref[f]
  BY ExecFailsFacts
<1>2. /\ UNCHANGED <<state, parent, sz, pte, maps, mpte>> /\ UNCHANGED tableVars
      /\ teardowns' = teardowns + 1 /\ teardowns < MaxTeardowns
  BY DEF ExecFails, procVars
<1>3. CowTypeOK'
  BY <1>1, <1>2 DEF CowInvariant, CowTypeOK, tableVars
<1>4. teardowns' \in 0 .. MaxTeardowns /\ teardowns' >= teardowns
  BY <1>2, MemorySizes DEF CowInvariant
<1> QED
  BY <1>1, <1>2, <1>3, <1>4, QuietStep

-----------------------------------------------------------------------------
(* Steps that map one new frame: a copy, or a page of sbrk.                 *)

\* The entry of page a of p becomes a writable one of the free frame f.
FreshEntry(p, a, f) ==
  /\ pte'[p][a].f = f /\ \A q \in Procs, b \in Pages : <<q, b>> # <<p, a>> => pte'[q][b] = pte[q][b]
  /\ \A q \in Procs \ {p} : sz'[q] = sz[q]
  /\ sz'[p] = sz[p] \/ (sz'[p] = sz[p] + 1 /\ a = sz[p])
  /\ UNCHANGED state /\ UNCHANGED tableVars

\* The page table that has it.
LEMMA FreshFrames ==
  ASSUME CountsFit, CowInvariant, NEW p \in Procs, NEW a \in Pages, NEW f \in Frames,
         f \in Listed, state[p] # "unused", FreshEntry(p, a, f), Listed' \subseteq Listed \ {f}
  PROVE  SlotsOK' /\ KernelApart' /\ FramesApart' /\ OnePlace' /\ WritableIsUnshared'
<1>1. /\ \A k \in Kinds, q \in Procs : Kernel(k, q)' = Kernel(k, q)
      /\ mpt' = mpt /\ state' = state
  BY DEF FreshEntry, tableVars, Kernel
<1> DEFINE F(q, b) == pte'[q][b].f
           W(q, b) == pte'[q][b].w
<1>2. /\ F(p, a) = f
      /\ \A q \in Procs, b \in Pages : q # p \/ b # a => F(q, b) = pte[q][b].f /\ W(q, b) = pte[q][b].w
  BY DEF FreshEntry
<1>3. f # 0
  BY FrameFacts
<1>4. \A q \in Procs, b \in Pages : pte[q][b].f # f
  <2> SUFFICES ASSUME NEW q \in Procs, NEW b \in Pages, pte[q][b].f = f PROVE FALSE
    OBVIOUS
  <2>1. pte[q][b].f \notin Listed
    BY <1>3, CountFacts
  <2> QED
    BY <2>1
<1>5. SlotsOK'
  <2> SUFFICES ASSUME NEW q \in Procs
               PROVE  /\ mpt'[q] = 0
                      /\ \A k \in Kinds : Kernel(k, q)' = 0 <=> state'[q] = "unused"
                      /\ state'[q] = "unused" => sz'[q] = 0
                      /\ state'[q] # "unused" => sz'[q] >= 1
                      /\ \A b \in Pages :
                           /\ b < sz'[q] => F(q, b) # 0
                           /\ state'[q] = "unused" => F(q, b) = 0
                           /\ F(q, b) = 0 => ~W(q, b)
    BY DEF SlotsOK
  <2> HIDE DEF F, W
  <2>1. SlotsOK /\ sz[q] \in Nat /\ \A b \in Pages : b \in Nat
    BY SizeFacts DEF CowInvariant
  <2>2. mpt'[q] = 0 /\ \A k \in Kinds : Kernel(k, q)' = 0 <=> state'[q] = "unused"
    BY <1>1, <2>1 DEF SlotsOK
  <2>3. (state'[q] = "unused" => sz'[q] = 0) /\ (state'[q] # "unused" => sz'[q] >= 1)
    BY <1>1, <2>1 DEF SlotsOK, FreshEntry
  <2>4. ASSUME NEW b \in Pages
        PROVE  /\ b < sz'[q] => F(q, b) # 0
               /\ state'[q] = "unused" => F(q, b) = 0
               /\ F(q, b) = 0 => ~W(q, b)
    <3>1. CASE q = p /\ b = a
      BY <1>1, <1>2, <1>3, <3>1
    <3>2. CASE q # p \/ b # a
      <4>1. b < sz'[q] => b < sz[q]
        BY <2>1, <3>2 DEF FreshEntry
      <4>2. F(q, b) = pte[q][b].f /\ W(q, b) = pte[q][b].w
        BY <1>2, <3>2
      <4> QED
        BY <1>1, <2>1, <4>1, <4>2 DEF SlotsOK
    <3> QED
      BY <3>1, <3>2
  <2> QED
    BY <2>2, <2>3, <2>4
<1>6. KernelApart'
  BY <1>1 DEF CowInvariant, KernelApart
<1>7. FramesApart'
  <2> DEFINE E == {}
             U == {f}
  <2>1. Mapped' \subseteq Mapped \cup U
    BY <1>2 DEF Mapped
  <2>2. KernelUsed' = KernelUsed
    BY <1>1 DEF KernelUsed
  <2>3. /\ U \subseteq Listed /\ E \subseteq Listed /\ U \cap E = {} /\ E \subseteq KernelUsed
        /\ KernelUsed' \subseteq (KernelUsed \ E) \cup E
        /\ Listed' \subseteq (Listed \ (U \cup E)) \cup E /\ FramesApart
    BY <2>2 DEF CowInvariant
  <2> HIDE DEF U, E
  <2> QED
    BY <2>1, <2>3, FramesStep
<1>8. OnePlace'
  <2> SUFFICES ASSUME NEW q \in Procs, NEW b \in Pages, NEW d \in Pages, F(q, b) = F(q, d), F(q, b) # 0
               PROVE  b = d
    BY DEF OnePlace
  <2> HIDE DEF F, W
  <2> QED
    BY <1>2, <1>4 DEF CowInvariant, OnePlace
<1>9. WritableIsUnshared'
  <2> SUFFICES ASSUME NEW q \in Procs, NEW r \in Procs, NEW b \in Pages, NEW d \in Pages,
                      W(q, b), F(r, d) = F(q, b), state'[q] # "unused", state'[r] # "unused"
               PROVE  q = r /\ b = d
    BY DEF WritableIsUnshared
  <2> HIDE DEF F, W
  <2> QED
    BY <1>1, <1>2, <1>4 DEF CowInvariant, WritableIsUnshared
<1> QED
  BY <1>5, <1>6, <1>7, <1>8, <1>9

\* Who maps frames after it.
LEMMA FreshMappers ==
  ASSUME CountsFit, CowInvariant, NEW p \in Procs, NEW a \in Pages, NEW f \in Frames,
         f \in Listed, state[p] # "unused", FreshEntry(p, a, f)
  PROVE  /\ Mappers(f)' = {<<p, a>>}
         /\ \A g \in Frames \ {f} : Mappers(g)' = Mappers(g) \ {<<p, a>>}
         /\ Mapped' \subseteq Mapped \cup {f}
<1> DEFINE F(q, b) == pte'[q][b].f
<1>1. /\ F(p, a) = f /\ state' = state
      /\ \A q \in Procs, b \in Pages : q # p \/ b # a => F(q, b) = pte[q][b].f
  BY DEF FreshEntry
<1>2. \A q \in Procs, b \in Pages : pte[q][b].f # f
  <2> SUFFICES ASSUME NEW q \in Procs, NEW b \in Pages, pte[q][b].f = f PROVE FALSE
    OBVIOUS
  <2>1. pte[q][b].f \notin Listed
    BY FrameFacts, CountFacts
  <2> QED
    BY <2>1
<1>3. ASSUME NEW g \in Frames, NEW q \in Procs, NEW b \in Pages
      PROVE  <<q, b>> \in Mappers(g)' <=> IF q = p /\ b = a THEN g = f ELSE <<q, b>> \in Mappers(g)
  <2>1. /\ <<q, b>> \in Mappers(g) <=> state[q] # "unused" /\ pte[q][b].f = g
        /\ <<q, b>> \in Mappers(g)' <=> state'[q] # "unused" /\ F(q, b) = g
    BY MapperFacts
  <2> HIDE DEF F
  <2> QED
    BY <1>1, <2>1
<1>4. \A q \in Procs, b \in Pages : <<q, b>> \notin Mappers(f)
  <2> SUFFICES ASSUME NEW q \in Procs, NEW b \in Pages PROVE <<q, b>> \notin Mappers(f)
    OBVIOUS
  <2>1. <<q, b>> \in Mappers(f) <=> state[q] # "unused" /\ pte[q][b].f = f
    BY MapperFacts
  <2> QED
    BY <1>2, <2>1
<1>5. Mappers(f)' = {<<p, a>>}
  <2>1. \A q \in Procs, b \in Pages : <<q, b>> \in Mappers(f)' <=> <<q, b>> = <<p, a>>
    BY <1>3, <1>4
  <2>2. \A x \in Procs \X Pages : x \in Mappers(f)' <=> x = <<p, a>>
    BY <2>1
  <2> QED
    BY <2>2, MappersArePairs
<1>6. ASSUME NEW g \in Frames \ {f} PROVE Mappers(g)' = Mappers(g) \ {<<p, a>>}
  <2>1. \A q \in Procs, b \in Pages : <<q, b>> \in Mappers(g)' <=> <<q, b>> \in Mappers(g) /\ <<q, b>> # <<p, a>>
    BY <1>3
  <2>2. \A x \in Procs \X Pages : x \in Mappers(g)' <=> x \in Mappers(g) /\ x # <<p, a>>
    BY <2>1
  <2> QED
    BY <2>2, MappersArePairs
<1>7. Mapped' \subseteq Mapped \cup {f}
  BY <1>1 DEF Mapped
<1> QED
  BY <1>5, <1>6, <1>7

\* Its count, and the count of the frame that the entry had.
LEMMA FreshStep ==
  ASSUME CountsFit, CowInvariant, CowTypeOK', UNCHANGED teardowns,
         NEW p \in Procs, NEW a \in Pages, NEW f \in Frames,
         f \in Listed, state[p] # "unused", FreshEntry(p, a, f), Listed' \subseteq Listed \ {f},
         ref'[f] = 1,
         \A g \in Mapped : ref'[g] = IF g = pte[p][a].f THEN ref[g] - 1 ELSE ref[g]
  PROVE  CowInvariant'
<1>1. SlotsOK' /\ KernelApart' /\ FramesApart' /\ OnePlace' /\ WritableIsUnshared'
  BY FreshFrames
<1>2. /\ Mappers(f)' = {<<p, a>>}
      /\ \A g \in Frames \ {f} : Mappers(g)' = Mappers(g) \ {<<p, a>>}
      /\ Mapped' \subseteq Mapped \cup {f}
  BY FreshMappers
<1>3. CowTypeOK /\ teardowns \in Nat /\ teardowns' = teardowns /\ teardowns \in 0 .. MaxTeardowns
  BY MemorySizes DEF CowInvariant
<1>4. Unused' = Unused /\ state'[p] # "unused"
  BY DEF Unused, FreshEntry
<1>5. Cardinality(Unused) \in Nat
  BY MappersFinite, FS_CardinalityType
<1>6. ASSUME NEW g \in Mapped' PROVE CountOK(g)'
  <2>1. CASE g = f
    BY <1>2, <1>3, <1>4, <2>1, FreshCount
  <2>2. CASE g # f
    <3>1. g \in Mapped /\ g \in Frames \ {f} /\ ref[g] \in Nat
      BY <1>2, <2>2, MappedFacts
    <3>2. CountOK(g) /\ Mappers(g)' = Mappers(g) \ {<<p, a>>}
      BY <1>2, <3>1 DEF CowInvariant
    <3>3. CASE g = pte[p][a].f
      <4>1. <<p, a>> \in Mappers(g)
        BY <3>3, MapperFacts
      <4>2. Cardinality(Mappers(g)') = Cardinality(Mappers(g)) - 1 /\ Cardinality(Mappers(g)) \in Nat
        <5>1. IsFiniteSet(Mappers(g))
          BY MappersFinite
        <5>2. Cardinality(Mappers(g) \ {<<p, a>>}) = Cardinality(Mappers(g)) - 1
          BY <4>1, <5>1, FS_RemoveElement
        <5>3. Cardinality(Mappers(g)) \in Nat
          BY <5>1, FS_CardinalityType
        <5> QED
          BY <3>2, <5>2, <5>3
      <4>3. ref'[g] = ref[g] - 1
        BY <3>1, <3>3
      <4>4. Cardinality(Procs) \in Nat
        BY UnusedCounts
      <4> QED
        BY <1>3, <1>4, <1>5, <3>1, <3>2, <4>2, <4>3, <4>4 DEF CountOK
    <3>4. CASE g # pte[p][a].f
      <4>1. <<p, a>> \notin Mappers(g)
        BY <3>4, MapperFacts
      <4>2. Mappers(g)' = Mappers(g)
        BY <3>2, <4>1
      <4>3. ref'[g] = ref[g]
        BY <3>1, <3>4
      <4>4. Cardinality(Unused') + teardowns <= Cardinality(Unused) + teardowns'
        BY <1>3, <1>4, <1>5
      <4> QED
        BY <1>3, <3>1, <3>2, <4>2, <4>3, <4>4, KeptCount
    <3> QED
      BY <3>3, <3>4
  <2> QED
    BY <2>1, <2>2
<1> QED
  BY <1>1, <1>3, <1>6 DEF CowInvariant

\* What sbrk of a page more does, when it does not panic.
GrowFits(p) == CanAlloc(1) /\ ~Present(pte[p][sz[p]])
GrowMemory(p) == [Incref(Alloc(1), free[1]) EXCEPT !.data[free[1]] = Zero]

\* The memory after it: a frame less on the list, with a count of 1.
LEMMA GrowMemoryFacts ==
  ASSUME CountsFit, CowInvariant, NEW p \in Procs, Running(p), CanAlloc(1), NEW f, f = free[1],
         SetMemory(GrowMemory(p)), ref[f] = 0
  PROVE  /\ f \in Frames /\ f \in Listed
         /\ free' \in Seq(Frames) /\ ref' \in [Frames -> 0 .. RefRange - 1]
         /\ data' \in [Frames -> Values \cup {Junk}]
         /\ Listed' \subseteq Listed \ {f} /\ ref'[f] = 1 /\ data'[f] = Zero
         /\ \A g \in Frames \ {f} : ref'[g] = ref[g] /\ data'[g] = data[g]
<1> DEFINE m == Alloc(1)
           m1 == Incref(m, f)
           m2 == [m1 EXCEPT !.data[f] = Zero]
<1>1. CowTypeOK /\ FreedOnce
  BY DEF CowInvariant, Running
<1>2. /\ MemoryOK(m) /\ m.ref = ref /\ m.data = data /\ ListedIn(m) \subseteq Listed
      /\ f \in Listed /\ f \in Frames /\ f \notin ListedIn(m)
  BY <1>1, AllocFacts
<1>3. m2 = GrowMemory(p)
  BY DEF GrowMemory
<1> HIDE DEF m
<1>4. /\ Touches(m1, m, {f}, {}) /\ m1.ref[f] = (m.ref[f] + 1) % RefRange
      /\ m1.free = m.free /\ m1.data = m.data
  BY <1>2, IncrefFacts
<1>5. m1.ref[f] = 1
  <2>1. RefRange \in Nat /\ 1 \in 0 .. RefRange - 1
    BY OneFits
  <2> QED
    BY <1>2, <1>4, <2>1, CountsAreBytes
<1>6. MemoryOK(m1)
  BY <1>4 DEF Touches
<1> HIDE DEF m1
<1>7. /\ MemoryOK(m2) /\ m2.free = m1.free /\ m2.ref = m1.ref
      /\ m2.data[f] = Zero /\ \A g \in Frames \ {f} : m2.data[g] = m1.data[g]
  BY <1>2, <1>6, InitIsProc DEF MemoryOK
<1>8. SetMemory(m2)
  BY <1>3
<1> HIDE DEF m2
<1>9. /\ free' \in Seq(Frames) /\ ref' \in [Frames -> 0 .. RefRange - 1]
      /\ data' \in [Frames -> Values \cup {Junk}]
      /\ Listed' = ListedIn(m2) /\ ref' = m2.ref /\ data' = m2.data
  BY <1>7, <1>8, MemorySet
<1>10. Listed' \subseteq Listed \ {f}
  BY <1>2, <1>4, <1>7, <1>9 DEF ListedIn
<1>11. ref'[f] = 1 /\ data'[f] = Zero
  BY <1>5, <1>7, <1>9
<1>12. \A g \in Frames \ {f} : ref'[g] = ref[g] /\ data'[g] = data[g]
  BY <1>2, <1>4, <1>7, <1>9 DEF Touches
<1> QED
  BY <1>2, <1>9, <1>10, <1>11, <1>12

\* The page it maps, if a page is made of a frame with count 0.
LEMMA GrowFacts ==
  ASSUME CountsFit, CowInvariant, CleanStep, NEW p \in Procs, Grow(p), GrowFits(p), NEW f, f = free[1]
  PROVE  /\ f \in Frames /\ f \in Listed /\ sz[p] \in Pages /\ pte[p][sz[p]].f = 0
         /\ ref' \in [Frames -> 0 .. RefRange - 1] /\ data' \in [Frames -> Values \cup {Junk}]
         /\ CowTypeOK' /\ Listed' \subseteq Listed \ {f} /\ ref'[f] = 1 /\ data'[f] = Zero
         /\ \A g \in Frames \ {f} : ref'[g] = ref[g] /\ data'[g] = data[g]
         /\ FreshEntry(p, sz[p], f) /\ sz' = [sz EXCEPT ![p] = sz[p] + 1]
         /\ UNCHANGED <<state, teardowns>>
<1> DEFINE a == sz[p]
           e == [f |-> f, w |-> TRUE, cow |-> FALSE]
<1>1. Running(p) /\ sz[p] < MaxPages /\ CanAlloc(1) /\ ~Present(pte[p][a])
  BY DEF Grow, GrowFits
<1>2. a \in Pages /\ a \in Nat /\ a + 1 \in 0 .. MaxPages
  BY <1>1, SizeFacts DEF Pages, CowInvariant
<1>3. pte[p][a].f = 0
  BY <1>1 DEF Present
<1>4. /\ SetMemory(GrowMemory(p)) /\ pte' = [pte EXCEPT ![p][a] = e] /\ sz' = [sz EXCEPT ![p] = a + 1]
      /\ UNCHANGED <<state, parent, maps, mpte, teardowns>> /\ UNCHANGED tableVars
  BY <1>1 DEF Grow, GrowMemory
<1>5. f \in Frames /\ f \in Listed
  <2>1. CowTypeOK /\ FreedOnce
    BY <1>1 DEF CowInvariant, Running
  <2> QED
    BY <1>1, <2>1, AllocFacts
<1>6. e \in Entry /\ e.f = f
  BY <1>5, FrameFacts DEF Entry, Frames
<1> HIDE DEF a, e
<1>7. /\ pte \in [Procs -> [Pages -> Entry]] /\ sz \in [Procs -> 0 .. MaxPages]
  BY DEF CowInvariant, CowTypeOK
<1>8. /\ pte' \in [Procs -> [Pages -> Entry]] /\ pte'[p][a] = e
      /\ \A q \in Procs, b \in Pages : <<q, b>> # <<p, a>> => pte'[q][b] = pte[q][b]
  BY <1>2, <1>4, <1>6, <1>7
<1>9. sz' \in [Procs -> 0 .. MaxPages] /\ sz'[p] = a + 1 /\ \A q \in Procs \ {p} : sz'[q] = sz[q]
  BY <1>2, <1>4, <1>7
<1>10. ref[f] = 0
  BY <1>2, <1>5, <1>6, <1>8 DEF CleanStep
<1>11. /\ free' \in Seq(Frames) /\ ref' \in [Frames -> 0 .. RefRange - 1]
       /\ data' \in [Frames -> Values \cup {Junk}]
       /\ Listed' \subseteq Listed \ {f} /\ ref'[f] = 1 /\ data'[f] = Zero
       /\ \A g \in Frames \ {f} : ref'[g] = ref[g] /\ data'[g] = data[g]
  BY <1>1, <1>4, <1>10, GrowMemoryFacts
<1>12. CowTypeOK'
  BY <1>4, <1>8, <1>9, <1>11 DEF CowInvariant, CowTypeOK, tableVars
<1>13. FreshEntry(p, a, f)
  BY <1>4, <1>6, <1>8, <1>9 DEF FreshEntry, a
<1> QED
  BY <1>2, <1>3, <1>4, <1>5, <1>11, <1>12, <1>13 DEF a

\* When it does not fit, the kernel panics.
LEMMA GrowPanics ==
  ASSUME NEW p \in Procs, Grow(p), ~GrowFits(p)
  PROVE  UNCHANGED <<memVars, procVars, teardowns>>
BY DEF Grow, GrowFits, Panic

\* sbrk keeps the invariant.
LEMMA GrowKeeps ==
  ASSUME CountsFit, CowInvariant, CleanStep, NEW p \in Procs, Grow(p)
  PROVE  CowInvariant'
<1>1. CASE GrowFits(p)
  <2>1. PICK f : f = free[1]
    OBVIOUS
  <2>2. /\ f \in Frames /\ f \in Listed /\ sz[p] \in Pages /\ pte[p][sz[p]].f = 0
        /\ CowTypeOK' /\ Listed' \subseteq Listed \ {f} /\ ref'[f] = 1
        /\ \A g \in Frames \ {f} : ref'[g] = ref[g]
        /\ FreshEntry(p, sz[p], f) /\ teardowns' = teardowns
    BY <1>1, <2>1, GrowFacts
  <2>3. \A g \in Mapped : g \in Frames \ {f} /\ g # 0
    BY <2>2, MappedFacts
  <2>4. \A g \in Mapped : ref'[g] = IF g = pte[p][sz[p]].f THEN ref[g] - 1 ELSE ref[g]
    BY <2>2, <2>3
  <2>5. state[p] # "unused"
    BY DEF Grow, Running
  <2>6. PICK a \in Pages : a = sz[p]
    BY <2>2
  <2>7. FreshEntry(p, a, f) /\ \A g \in Mapped : ref'[g] = IF g = pte[p][a].f THEN ref[g] - 1 ELSE ref[g]
    BY <2>2, <2>4, <2>6
  <2> QED
    BY <2>2, <2>5, <2>7, FreshStep
<1>2. CASE ~GrowFits(p)
  BY <1>2, GrowPanics, StutterKeeps
<1> QED
  BY <1>1, <1>2

-----------------------------------------------------------------------------
(* The fault handler.                                                       *)

\* A copy is made: the page is shared and there is memory.
Copies(p, a) == ref[pte[p][a].f] > 1 /\ CanAlloc(1)
CopyMemory(p, a) ==
  Decref(Incref([Alloc(1) EXCEPT !.data[free[1]] = data[pte[p][a].f]], free[1]), pte[p][a].f)

\* The memory after it.
LEMMA CopyMemoryFacts ==
  ASSUME CountsFit, CowInvariant, NEW p \in Procs, NEW a \in Pages, Running(p), Copies(p, a),
         pte[p][a].f # 0, NEW f, f = free[1], NEW o, o = pte[p][a].f,
         SetMemory(CopyMemory(p, a)), ref[f] = 0
  PROVE  /\ f \in Frames /\ f \in Listed /\ o \in Frames
         /\ free' \in Seq(Frames) /\ ref' \in [Frames -> 0 .. RefRange - 1]
         /\ data' \in [Frames -> Values \cup {Junk}]
         /\ Listed' \subseteq Listed \ {f} /\ ref'[f] = 1 /\ data'[f] = data[o]
         /\ ref'[o] = ref[o] - 1 /\ data'[o] = data[o]
         /\ \A g \in Frames \ {f, o} : ref'[g] = ref[g] /\ data'[g] = data[g]
<1> DEFINE m == Alloc(1)
           m1 == [m EXCEPT !.data[f] = data[o]]
           m2 == Incref(m1, f)
           m3 == Decref(m2, o)
<1>1. CowTypeOK /\ FreedOnce /\ CanAlloc(1) /\ ref[o] > 1
  BY DEF CowInvariant, Running, Copies
<1>2. /\ MemoryOK(m) /\ m.ref = ref /\ m.data = data /\ ListedIn(m) \subseteq Listed
      /\ f \in Listed /\ f \in Frames /\ f \notin ListedIn(m)
  BY <1>1, AllocFacts
<1>3. o \in Frames /\ o \notin Listed /\ data[o] \in Values \cup {Junk}
  <2>1. o \in Frames /\ o \notin Listed
    BY CountFacts
  <2> QED
    BY <1>1, <2>1 DEF CowTypeOK
<1>4. SetMemory(m3)
  BY DEF CopyMemory
<1> HIDE DEF m
<1>5. /\ MemoryOK(m1) /\ m1.free = m.free /\ m1.ref = m.ref
      /\ m1.data[f] = data[o] /\ \A g \in Frames \ {f} : m1.data[g] = m.data[g]
  BY <1>2, <1>3 DEF MemoryOK
<1> HIDE DEF m1
<1>6. /\ Touches(m2, m1, {f}, {}) /\ m2.ref[f] = (m1.ref[f] + 1) % RefRange
      /\ m2.free = m1.free /\ m2.data = m1.data
  BY <1>2, <1>5, IncrefFacts
<1>7. m2.ref[f] = 1
  BY <1>2, <1>5, <1>6, OneFits, CountsAreBytes
<1>8. MemoryOK(m2) /\ m2.ref[o] = ref[o]
  BY <1>2, <1>3, <1>5, <1>6 DEF Touches
<1> HIDE DEF m2
<1>9. /\ Touches(m3, m2, {o}, {o}) /\ m3.ref[o] = ref[o] - 1
      /\ m3.free = m2.free /\ m3.data = m2.data
  <2>1. m2.ref[o] > 1
    BY <1>1, <1>8
  <2>2. /\ Touches(m3, m2, {o}, {o})
        /\ m3.ref[o] = m2.ref[o] - 1 /\ m3.free = m2.free /\ m3.data = m2.data
    BY <1>3, <1>8, <2>1, DecrefFacts
  <2> QED
    BY <1>8, <2>2
<1> HIDE DEF m3
<1>10. /\ free' \in Seq(Frames) /\ ref' \in [Frames -> 0 .. RefRange - 1]
       /\ data' \in [Frames -> Values \cup {Junk}]
       /\ Listed' = ListedIn(m3) /\ ref' = m3.ref /\ data' = m3.data
  BY <1>4, <1>9, MemorySet DEF Touches
<1>11. Listed' \subseteq Listed \ {f}
  BY <1>2, <1>5, <1>6, <1>9, <1>10 DEF ListedIn
<1>12. f # o
  BY <1>2, <1>3
<1>13. ref'[f] = 1 /\ data'[f] = data[o] /\ ref'[o] = ref[o] - 1 /\ data'[o] = data[o]
  BY <1>2, <1>3, <1>5, <1>6, <1>7, <1>9, <1>10, <1>12 DEF Touches
<1>14. \A g \in Frames \ {f, o} : ref'[g] = ref[g] /\ data'[g] = data[g]
  BY <1>2, <1>5, <1>6, <1>9, <1>10 DEF Touches
<1> QED
  BY <1>2, <1>3, <1>10, <1>11, <1>13, <1>14

\* The entry it makes.
LEMMA CopyFacts ==
  ASSUME CountsFit, CowInvariant, CleanStep, NEW p \in Procs, NEW a \in Pages,
         CowFault(p, a), Copies(p, a), NEW f, f = free[1], NEW o, o = pte[p][a].f
  PROVE  /\ f \in Frames /\ f \in Listed /\ o \in Frames
         /\ CowTypeOK' /\ Listed' \subseteq Listed \ {f} /\ ref'[f] = 1 /\ data'[f] = data[o]
         /\ ref'[o] = ref[o] - 1 /\ data'[o] = data[o]
         /\ \A g \in Frames \ {f, o} : ref'[g] = ref[g] /\ data'[g] = data[g]
         /\ FreshEntry(p, a, f)
         /\ UNCHANGED <<state, sz, teardowns>>
<1> DEFINE e == [f |-> f, w |-> TRUE, cow |-> FALSE]
<1>1. Running(p) /\ InSize(p, a) /\ Present(pte[p][a]) /\ ref[o] > 1 /\ CanAlloc(1)
  BY DEF CowFault, Copies
<1>2. pte[p][a].f # 0
  BY <1>1 DEF Present
<1>3. ref[o] \in Int
  <2>1. ref[o] \in 0 .. RefRange - 1
    BY <1>2, CountFacts
  <2> QED
    BY <2>1, CountsAreBytes
<1>4. /\ SetMemory(CopyMemory(p, a)) /\ pte' = [pte EXCEPT ![p][a] = e]
      /\ UNCHANGED <<state, parent, sz, maps, mpte, teardowns>> /\ UNCHANGED tableVars
  <2>1. ref[pte[p][a].f] > 1 /\ ~(ref[pte[p][a].f] = 1) /\ ~(ref[pte[p][a].f] < 1) /\ CanAlloc(1)
    BY <1>1, <1>3
  <2> QED
    BY <2>1 DEF CowFault, CopyMemory
<1>5. f \in Frames /\ f \in Listed
  <2>1. CowTypeOK /\ FreedOnce
    BY <1>1 DEF CowInvariant, Running
  <2> QED
    BY <1>1, <2>1, AllocFacts
<1>6. e \in Entry /\ e.f = f
  BY <1>5, FrameFacts DEF Entry, Frames
<1> HIDE DEF e
<1>7. pte \in [Procs -> [Pages -> Entry]]
  BY DEF CowInvariant, CowTypeOK
<1>8. /\ pte' \in [Procs -> [Pages -> Entry]] /\ pte'[p][a] = e
      /\ \A q \in Procs, b \in Pages : <<q, b>> # <<p, a>> => pte'[q][b] = pte[q][b]
  BY <1>4, <1>6, <1>7
<1>9. ref[f] = 0
  BY <1>5, <1>6, <1>8 DEF CleanStep
<1>10. /\ o \in Frames
       /\ free' \in Seq(Frames) /\ ref' \in [Frames -> 0 .. RefRange - 1]
       /\ data' \in [Frames -> Values \cup {Junk}]
       /\ Listed' \subseteq Listed \ {f} /\ ref'[f] = 1 /\ data'[f] = data[o]
       /\ ref'[o] = ref[o] - 1 /\ data'[o] = data[o]
       /\ \A g \in Frames \ {f, o} : ref'[g] = ref[g] /\ data'[g] = data[g]
  <2>1. Copies(p, a)
    OBVIOUS
  <2> QED
    BY <1>1, <1>2, <1>4, <1>9, <2>1, CopyMemoryFacts
<1>11. CowTypeOK'
  BY <1>4, <1>8, <1>10 DEF CowInvariant, CowTypeOK, tableVars
<1>12. FreshEntry(p, a, f)
  BY <1>4, <1>6, <1>8 DEF FreshEntry
<1> QED
  BY <1>4, <1>5, <1>10, <1>11, <1>12

\* The page is not shared: the entry becomes writable again.
LEMMA ReuseFacts ==
  ASSUME CountsFit, CowInvariant, NEW p \in Procs, NEW a \in Pages,
         CowFault(p, a), ref[pte[p][a].f] = 1
  PROVE  /\ UNCHANGED <<free, ref, data, state, parent, sz, maps, mpte, teardowns>>
         /\ UNCHANGED tableVars
         /\ pte' \in [Procs -> [Pages -> Entry]] /\ pte[p][a].f # 0
         /\ \A q \in Procs, b \in Pages : /\ pte'[q][b].f = pte[q][b].f
                                          /\ q # p \/ b # a => pte'[q][b].w = pte[q][b].w
<1> DEFINE e == [pte[p][a] EXCEPT !.w = TRUE, !.cow = FALSE]
<1>1. /\ pte' = [pte EXCEPT ![p][a] = e] /\ Present(pte[p][a])
      /\ UNCHANGED <<memVars, state, parent, sz, maps, mpte, tableVars, teardowns>>
  BY DEF CowFault, memVars
<1>2. pte \in [Procs -> [Pages -> Entry]]
  BY DEF CowInvariant, CowTypeOK
<1>3. e \in Entry /\ e.f = pte[p][a].f
  <2>1. pte[p][a] \in Entry
    BY <1>2
  <2> QED
    BY <2>1 DEF Entry
<1> HIDE DEF e
<1>4. /\ pte' \in [Procs -> [Pages -> Entry]] /\ pte'[p][a] = e
      /\ \A q \in Procs, b \in Pages : q # p \/ b # a => pte'[q][b] = pte[q][b]
  BY <1>1, <1>2, <1>3
<1>5. \A q \in Procs, b \in Pages : /\ pte'[q][b].f = pte[q][b].f
                                    /\ q # p \/ b # a => pte'[q][b].w = pte[q][b].w
  BY <1>3, <1>4
<1> QED
  BY <1>1, <1>4, <1>5 DEF memVars, Present

\* It keeps the invariant: a count of 1 is of a frame that is mapped once.
LEMMA ReuseKeeps ==
  ASSUME CountsFit, CowInvariant, NEW p \in Procs, NEW a \in Pages,
         CowFault(p, a), ref[pte[p][a].f] = 1
  PROVE  CowInvariant'
<1>1. /\ UNCHANGED <<free, ref, data, state, parent, sz, maps, mpte, teardowns>>
      /\ UNCHANGED tableVars
      /\ pte' \in [Procs -> [Pages -> Entry]] /\ pte[p][a].f # 0
      /\ \A q \in Procs, b \in Pages : /\ pte'[q][b].f = pte[q][b].f
                                       /\ q # p \/ b # a => pte'[q][b].w = pte[q][b].w
  BY ReuseFacts
<1>2. CowTypeOK'
  BY <1>1 DEF CowInvariant, CowTypeOK, tableVars
<1>3. \A q \in Procs, b \in Pages : pte'[q][b].f = 0 => ~pte'[q][b].w
  BY <1>1 DEF CowInvariant, SlotsOK
<1>4. /\ SlotsOK' /\ KernelApart' /\ FramesApart' /\ OnePlace'
      /\ Mapped' = Mapped /\ Unused' = Unused
      /\ \A f \in Frames : Mappers(f)' = Mappers(f)
  BY <1>1, <1>3, ListedIsKept, SameFrames
<1>5. WritableIsUnshared'
  <2> SUFFICES ASSUME NEW q \in Procs, NEW r \in Procs, NEW b \in Pages, NEW d \in Pages,
                      pte'[q][b].w, pte'[r][d].f = pte'[q][b].f,
                      state'[q] # "unused", state'[r] # "unused"
               PROVE  q = r /\ b = d
    BY DEF WritableIsUnshared
  <2>1. pte[r][d].f = pte[q][b].f /\ state[q] # "unused" /\ state[r] # "unused"
    BY <1>1
  <2>2. CASE q = p /\ b = a
    <3>1. PICK f : f = pte[p][a].f
      OBVIOUS
    <3>2. Mappers(f) = {<<p, a>>}
      BY <1>1, <3>1, CountFacts
    <3>3. <<r, d>> \in Mappers(f)
      BY <2>1, <2>2, <3>1, MapperFacts
    <3> QED
      BY <2>2, <3>2, <3>3
  <2>3. CASE q # p \/ b # a
    <3>1. pte[q][b].w
      BY <1>1, <2>3
    <3> QED
      BY <2>1, <3>1 DEF CowInvariant, WritableIsUnshared
  <2> QED
    BY <2>2, <2>3
<1>6. \A f \in Mapped' : CountOK(f)'
  <2> SUFFICES ASSUME NEW f \in Mapped' PROVE CountOK(f)'
    OBVIOUS
  <2>1. f \in Mapped /\ f \in Frames
    BY <1>4, MappedFacts
  <2>2. CountOK(f) /\ Mappers(f)' = Mappers(f) /\ ref' = ref /\ teardowns' = teardowns
    BY <1>1, <1>4, <2>1 DEF CowInvariant
  <2> QED
    BY <1>4, <2>2 DEF CountOK
<1> QED
  BY <1>1, <1>2, <1>4, <1>5, <1>6 DEF CowInvariant

\* The fault handler keeps the invariant.
LEMMA CowFaultKeeps ==
  ASSUME CountsFit, CowInvariant, CleanStep, NEW p \in Procs, NEW a \in Pages, CowFault(p, a)
  PROVE  CowInvariant'
<1>1. CASE Copies(p, a)
  <2>1. PICK f, o : f = free[1] /\ o = pte[p][a].f
    OBVIOUS
  <2>2. /\ f \in Frames /\ f \in Listed
        /\ CowTypeOK' /\ Listed' \subseteq Listed \ {f} /\ ref'[f] = 1
        /\ ref'[o] = ref[o] - 1
        /\ \A g \in Frames \ {f, o} : ref'[g] = ref[g]
        /\ FreshEntry(p, a, f) /\ teardowns' = teardowns
    BY <1>1, <2>1, CopyFacts
  <2>3. \A g \in Mapped : g \in Frames \ {f}
    BY <2>2, MappedFacts
  <2>4. \A g \in Mapped : ref'[g] = IF g = pte[p][a].f THEN ref[g] - 1 ELSE ref[g]
    BY <2>1, <2>2, <2>3
  <2>5. state[p] # "unused"
    BY DEF CowFault, Running
  <2> QED
    BY <2>2, <2>4, <2>5, FreshStep
<1>2. CASE ref[pte[p][a].f] = 1
  BY <1>2, ReuseKeeps
<1>3. CASE ~Copies(p, a) /\ ref[pte[p][a].f] # 1
  <2>1. UNCHANGED <<memVars, procVars, teardowns>>
    BY <1>3 DEF CowFault, Copies, Panic
  <2> QED
    BY <2>1, StutterKeeps
<1> QED
  BY <1>1, <1>2, <1>3

-----------------------------------------------------------------------------
(* A fork that fails while it copies.                                       *)

\* What it leaves: the first page counted once too often, no longer writable.
LEMMA ForkFailsFacts ==
  ASSUME CountsFit, CowInvariant, NEW p \in Procs, ForkFailsInCopy(p), NEW o, o = pte[p][0].f
  PROVE  /\ o \in Mapped /\ o \in Frames
         /\ free' \in Seq(Frames) /\ ref' \in [Frames -> 0 .. RefRange - 1]
         /\ data' \in [Frames -> Values \cup {Junk}]
         /\ Listed' \subseteq Listed /\ ref'[o] = (ref[o] + 1) % RefRange
         /\ \A f \in Frames \ Listed : data'[f] = data[f] /\ (f # o => ref'[f] = ref[f])
         /\ pte' \in [Procs -> [Pages -> Entry]]
         /\ \A q \in Procs, b \in Pages : /\ pte'[q][b].f = pte[q][b].f
                                          /\ pte'[q][b].w => pte[q][b].w
<1> DEFINE x == free[3]
           m1 == Decref(Memory, x)
           m2 == Incref(m1, o)
           e == CowEntry(pte[p][0])
<1>1. x \in Frames /\ x \in Listed
  BY ListedAt DEF ForkFailsInCopy, CowInvariant
<1>2. 0 \in Pages /\ pte[p][0].f # 0
  <2>1. state[p] # "unused"
    BY DEF ForkFailsInCopy, Running
  <2>2. sz[p] >= 1 /\ sz[p] \in Nat /\ 0 \in Pages
    BY <2>1, SizeFacts DEF CowInvariant, SlotsOK
  <2> QED
    BY <2>2 DEF CowInvariant, SlotsOK
<1>3. o \in Mapped /\ o \in Frames /\ o \notin Listed
  BY <1>2, CountFacts
<1>4. MemoryOK(Memory) /\ ListedIn(Memory) = Listed /\ Memory.ref = ref /\ Memory.data = data
  BY MemoryFacts DEF CowInvariant
<1>5. SetMemory(m2)
  BY DEF ForkFailsInCopy
<1>6. Touches(m1, Memory, {x}, {x}) /\ MemoryOK(m1)
  BY <1>1, <1>4, DecrefFacts DEF Touches
<1> HIDE DEF m1, x
<1>7. Touches(m2, m1, {o}, {}) /\ m2.ref[o] = (m1.ref[o] + 1) % RefRange /\ MemoryOK(m2)
      /\ m2.data = m1.data
  BY <1>3, <1>6, IncrefFacts DEF Touches
<1> HIDE DEF m2
<1>8. /\ free' \in Seq(Frames) /\ ref' \in [Frames -> 0 .. RefRange - 1]
      /\ data' \in [Frames -> Values \cup {Junk}]
      /\ Listed' = ListedIn(m2) /\ ref' = m2.ref /\ data' = m2.data
  BY <1>5, <1>7, MemorySet
<1>9. Listed' \subseteq Listed
  BY <1>1, <1>4, <1>6, <1>7, <1>8 DEF Touches
<1>10. ref'[o] = (ref[o] + 1) % RefRange
  BY <1>1, <1>3, <1>4, <1>6, <1>7, <1>8 DEF Touches
<1>11. \A f \in Frames \ Listed : data'[f] = data[f] /\ (f # o => ref'[f] = ref[f])
  BY <1>1, <1>4, <1>6, <1>7, <1>8 DEF Touches
<1>12. pte \in [Procs -> [Pages -> Entry]] /\ pte' = [pte EXCEPT ![p][0] = e]
  BY DEF CowInvariant, CowTypeOK, ForkFailsInCopy
<1>13. e \in Entry /\ e.f = pte[p][0].f /\ (e.w => pte[p][0].w)
  <2>1. pte[p][0] \in Entry
    BY <1>2, <1>12
  <2> QED
    BY <2>1 DEF CowEntry, Entry
<1> HIDE DEF e
<1>14. /\ pte' \in [Procs -> [Pages -> Entry]] /\ pte'[p][0] = e
       /\ \A q \in Procs, b \in Pages : q # p \/ b # 0 => pte'[q][b] = pte[q][b]
  BY <1>2, <1>12, <1>13
<1>15. \A q \in Procs, b \in Pages : /\ pte'[q][b].f = pte[q][b].f
                                     /\ pte'[q][b].w => pte[q][b].w
  BY <1>13, <1>14
<1> QED
  BY <1>3, <1>8, <1>9, <1>10, <1>11, <1>14, <1>15

\* It keeps the invariant: it is counted as a teardown.
LEMMA ForkFailsKeeps ==
  ASSUME CountsFit, CowInvariant, NEW p \in Procs, ForkFailsInCopy(p)
  PROVE  CowInvariant'
<1>1. PICK o : o = pte[p][0].f
  OBVIOUS
<1>2. /\ o \in Mapped /\ o \in Frames
      /\ free' \in Seq(Frames) /\ ref' \in [Frames -> 0 .. RefRange - 1]
      /\ data' \in [Frames -> Values \cup {Junk}]
      /\ Listed' \subseteq Listed /\ ref'[o] = (ref[o] + 1) % RefRange
      /\ \A f \in Frames \ Listed : f # o => ref'[f] = ref[f]
      /\ pte' \in [Procs -> [Pages -> Entry]]
      /\ \A q \in Procs, b \in Pages : /\ pte'[q][b].f = pte[q][b].f
                                       /\ pte'[q][b].w => pte[q][b].w
  BY <1>1, ForkFailsFacts
<1>3. /\ UNCHANGED <<state, parent, sz, maps, mpte>> /\ UNCHANGED tableVars
      /\ teardowns' = teardowns + 1 /\ teardowns < MaxTeardowns
  BY DEF ForkFailsInCopy
<1>4. CowTypeOK' /\ CowTypeOK
  BY <1>2, <1>3 DEF CowInvariant, CowTypeOK, tableVars
<1>5. \A q \in Procs, b \in Pages : pte'[q][b].f = 0 => ~pte'[q][b].w
  <2>1. \A q \in Procs, b \in Pages : pte[q][b].f = 0 => ~pte[q][b].w
    BY DEF CowInvariant, SlotsOK
  <2> QED
    BY <1>2, <2>1
<1>6. /\ SlotsOK' /\ KernelApart' /\ FramesApart' /\ OnePlace'
      /\ Mapped' = Mapped /\ Unused' = Unused
      /\ \A f \in Frames : Mappers(f)' = Mappers(f)
  BY <1>2, <1>3, <1>5, SameFrames
<1>7. WritableIsUnshared'
  BY <1>2, <1>3, StillUnshared
<1>8. /\ teardowns \in Nat /\ MaxTeardowns \in Nat /\ teardowns' \in 0 .. MaxTeardowns
      /\ teardowns' \in Nat /\ RefRange \in Nat
  BY <1>3, MemorySizes DEF CowInvariant
<1>9. Cardinality(Unused) \in Nat /\ Cardinality(Procs) \in Nat
  BY InitIsProc, UnusedCounts
<1>10. ASSUME NEW f \in Mapped' PROVE CountOK(f)'
  <2>1. f \in Mapped /\ f \in Frames \ Listed /\ ref[f] \in Nat
    BY <1>6, MappedFacts
  <2>2. CountOK(f) /\ Mappers(f)' = Mappers(f)
    BY <1>6, <2>1 DEF CowInvariant
  <2>3. CASE f = o
    <3>1. ref[f] + Cardinality(Unused) <= Cardinality(Procs) + teardowns
      BY <2>2 DEF CountOK
    <3>2. Cardinality(Procs) + MaxTeardowns < RefRange
      BY DEF CountsFit
    <3>3. ref[f] + 1 \in 0 .. RefRange - 1
      BY <1>3, <1>8, <1>9, <2>1, <3>1, <3>2
    <3>4. ref'[f] = ref[f] + 1
      BY <1>2, <2>3, <3>3, CountsAreBytes
    <3>5. Cardinality(Mappers(f)) \in Nat
      BY MappersFinite, FS_CardinalityType
    <3> QED
      BY <1>3, <1>6, <1>8, <1>9, <2>1, <2>2, <3>4, <3>5 DEF CountOK
  <2>4. CASE f # o
    <3>1. ref'[f] = ref[f]
      BY <1>2, <2>1, <2>4
    <3>2. Cardinality(Unused') + teardowns <= Cardinality(Unused) + teardowns'
      BY <1>3, <1>6, <1>8, <1>9
    <3>3. teardowns' # 0
      BY <1>3, <1>8
    <3> QED
      BY <1>4, <1>8, <2>1, <2>2, <3>1, <3>2, <3>3, KeptCount
  <2> QED
    BY <2>3, <2>4
<1> QED
  BY <1>4, <1>6, <1>7, <1>8, <1>10 DEF CowInvariant

-----------------------------------------------------------------------------
(* freevm.                                                                  *)

\* The entries that freevm goes through are those of the private part.
LEMMA EntriesFacts ==
  ASSUME CountsFit, CowTypeOK, NEW p \in Procs
  PROVE  /\ DOMAIN Entries(p) = 1 .. MaxPages
         /\ \A i \in 1 .. MaxPages : i - 1 \in Pages /\ Entries(p)[i] = pte[p][i - 1]
<1> DEFINE s == [i \in 1 .. MaxPages |-> pte[p][i - 1]]
           t == [i \in 1 .. MaxMaps |-> mpte[p][i - 1]]
<1>1. MaxPages \in Nat /\ MaxMaps = 0 /\ \A i \in 1 .. MaxPages : i - 1 \in Pages
  BY SizeFacts DEF CountsFit, Pages
<1>2. pte[p] \in [Pages -> Entry]
  BY DEF CowTypeOK
<1>3. s \in Seq(Entry) /\ Len(s) = MaxPages /\ \A i \in 1 .. MaxPages : s[i] = pte[p][i - 1]
  BY <1>1, <1>2
<1>4. t \in Seq(Entry) /\ Len(t) = 0
  BY <1>1
<1>5. Entries(p) = s \o t
  BY DEF Entries
<1> HIDE DEF s, t
<1>6. DOMAIN (s \o t) = 1 .. MaxPages /\ \A i \in 1 .. MaxPages : (s \o t)[i] = s[i]
  BY <1>1, <1>3, <1>4
<1> QED
  BY <1>1, <1>3, <1>5, <1>6

\* The frames of p's page tables.
TableFrames(p) == {upt[p], kpt[p], pgdir[p]}

\* freevm frees p's page tables, and no page of it: every page has a count.
LEMMA FreeVmFacts ==
  ASSUME CountsFit, CowInvariant, NEW p \in Procs, state[p] # "unused", NEW m, MemoryOK(m),
         \A a \in Pages : pte[p][a].f # 0 => m.ref[pte[p][a].f] # 0
  PROVE  /\ TableFrames(p) \subseteq KernelUsed /\ TableFrames(p) \subseteq Frames
         /\ Touches(FreeVm(m, p), m, TableFrames(p), TableFrames(p))
<1>1. CowTypeOK /\ SlotsOK
  BY DEF CowInvariant
<1>2. \A k \in Kinds : Kernel(k, p) # 0 /\ Kernel(k, p) \in 0 .. NFrames /\ Kernel(k, p) \in KernelUsed
  BY <1>1, KernelFacts DEF SlotsOK
<1>3. /\ upt[p] = Kernel("upt", p) /\ kpt[p] = Kernel("kpt", p) /\ pgdir[p] = Kernel("pgdir", p)
      /\ "upt" \in Kinds /\ "kpt" \in Kinds /\ "pgdir" \in Kinds
  BY DEF Kernel, Kinds
<1>4. NFrames \in Nat /\ \A f \in 0 .. NFrames : f # 0 => f \in Frames
  BY FrameFacts DEF Frames
<1>5. /\ upt[p] \in Frames /\ kpt[p] \in Frames /\ pgdir[p] \in Frames
      /\ upt[p] \in KernelUsed /\ kpt[p] \in KernelUsed /\ pgdir[p] \in KernelUsed
  BY <1>2, <1>3, <1>4
<1>6. mpt[p] = 0
  BY <1>1 DEF SlotsOK
<1>7. FoldLeft(FreePage, m, Entries(p)) = m
  <2>1. DOMAIN Entries(p) = 1 .. MaxPages /\ MaxPages \in Nat
    BY <1>1, EntriesFacts, SizeFacts
  <2>2. ASSUME NEW i \in 1 .. MaxPages PROVE FreePage(m, Entries(p)[i]) = m
    <3>1. i - 1 \in Pages /\ Entries(p)[i] = pte[p][i - 1]
      BY <1>1, EntriesFacts
    <3>2. PICK a \in Pages : a = i - 1 /\ Entries(p)[i] = pte[p][a]
      BY <3>1
    <3>3. pte[p][a].f # 0 => m.ref[pte[p][a].f] # 0
      OBVIOUS
    <3> QED
      BY <3>2, <3>3 DEF FreePage, Present
  <2> QED
    BY <2>1, <2>2, NothingFreed
<1> DEFINE m1 == FreeTable(m, upt[p])
           m2 == FreeTable(m1, kpt[p])
           m3 == Kfree(m2, pgdir[p])
<1>8. FreeVm(m, p) = m3
  BY <1>6, <1>7 DEF FreeVm, FreeTable
<1>9. Touches(m1, m, {upt[p]}, {upt[p]}) /\ MemoryOK(m1)
  BY <1>5, FreeTableFacts DEF Touches
<1> HIDE DEF m1
<1>10. Touches(m2, m1, {kpt[p]}, {kpt[p]}) /\ MemoryOK(m2)
  BY <1>5, <1>9, FreeTableFacts DEF Touches
<1> HIDE DEF m2
<1>11. Touches(m3, m2, {pgdir[p]}, {pgdir[p]})
  BY <1>5, <1>10, KfreeFacts
<1> HIDE DEF m3
<1>12. Touches(m2, m, {upt[p]} \cup {kpt[p]}, {upt[p]} \cup {kpt[p]})
  BY <1>9, <1>10, TouchesBoth
<1>13. Touches(m3, m, ({upt[p]} \cup {kpt[p]}) \cup {pgdir[p]}, ({upt[p]} \cup {kpt[p]}) \cup {pgdir[p]})
  BY <1>11, <1>12, TouchesBoth
<1>14. ({upt[p]} \cup {kpt[p]}) \cup {pgdir[p]} = TableFrames(p)
  BY DEF TableFrames
<1> QED
  BY <1>5, <1>8, <1>13, <1>14 DEF TableFrames

-----------------------------------------------------------------------------
(* wait.                                                                    *)

\* The kernel frames of a process.
KernelOf(p) == {Kernel(k, p) : k \in Kinds}

\* They are the kernel stack and the page tables.
LEMMA KernelOfFacts ==
  ASSUME NEW p \in Procs
  PROVE  KernelOf(p) = {kstack[p]} \cup TableFrames(p)
BY DEF KernelOf, TableFrames, Kernel, Kinds

\* The memory after wait: the child's kernel frames are on the list.
LEMMA WaitMemory ==
  ASSUME CountsFit, CowInvariant, NEW p \in Procs, NEW c \in Procs, Wait(p, c)
  PROVE  /\ KernelOf(c) \subseteq KernelUsed /\ KernelOf(c) \subseteq Frames
         /\ free' \in Seq(Frames) /\ ref' \in [Frames -> 0 .. RefRange - 1]
         /\ data' \in [Frames -> Values \cup {Junk}]
         /\ Listed' \subseteq Listed \cup KernelOf(c)
         /\ \A f \in Frames \ KernelOf(c) : ref'[f] = ref[f] /\ data'[f] = data[f]
<1> DEFINE x == kstack[c]
           m == Kfree(Memory, x)
           n == FreeVm(m, c)
           T == TableFrames(c)
<1>1. state[c] # "unused" /\ SetMemory(n)
  BY DEF Wait
<1>2. MemoryOK(Memory) /\ ListedIn(Memory) = Listed /\ Memory.ref = ref /\ Memory.data = data
  BY MemoryFacts DEF CowInvariant
<1>3. x \in Frames /\ x \in KernelUsed
  <2>1. x = Kernel("kstack", c) /\ "kstack" \in Kinds
    BY DEF Kernel, Kinds
  <2>2. Kernel("kstack", c) # 0
    BY <1>1, <2>1 DEF CowInvariant, SlotsOK
  <2>3. Kernel("kstack", c) \in 0 .. NFrames /\ Kernel("kstack", c) \in KernelUsed
    BY <2>1, <2>2, KernelFacts DEF CowInvariant
  <2> QED
    BY <2>1, <2>2, <2>3, FrameFacts DEF Frames
<1>4. Touches(m, Memory, {x}, {x}) /\ m.ref = ref /\ MemoryOK(m)
  BY <1>2, <1>3, KfreeFacts DEF Touches
<1>5. \A a \in Pages : pte[c][a].f # 0 => m.ref[pte[c][a].f] # 0
  <2> SUFFICES ASSUME NEW a \in Pages, pte[c][a].f # 0 PROVE ref[pte[c][a].f] # 0
    BY <1>4
  <2>1. ref[pte[c][a].f] >= 1 /\ ref[pte[c][a].f] \in 0 .. RefRange - 1
    BY CountFacts
  <2> QED
    BY <2>1, CountsAreBytes
<1> HIDE DEF m, x
<1>6. T \subseteq KernelUsed /\ T \subseteq Frames /\ Touches(n, m, T, T)
  BY <1>1, <1>4, <1>5, FreeVmFacts
<1> HIDE DEF n
<1>7. KernelOf(c) = {x} \cup T
  BY KernelOfFacts DEF x
<1> HIDE DEF T
<1>8. Touches(n, Memory, {x} \cup T, {x} \cup T) /\ MemoryOK(n)
  BY <1>4, <1>6, TouchesBoth DEF Touches
<1>9. /\ free' \in Seq(Frames) /\ ref' \in [Frames -> 0 .. RefRange - 1]
      /\ data' \in [Frames -> Values \cup {Junk}]
      /\ Listed' = ListedIn(n) /\ ref' = n.ref /\ data' = n.data
  BY <1>1, <1>8, MemorySet
<1>10. Listed' \subseteq Listed \cup KernelOf(c)
       /\ \A f \in Frames \ KernelOf(c) : ref'[f] = ref[f] /\ data'[f] = data[f]
  BY <1>2, <1>7, <1>8, <1>9 DEF Touches
<1>11. KernelOf(c) \subseteq KernelUsed /\ KernelOf(c) \subseteq Frames
  BY <1>3, <1>6, <1>7
<1> QED
  BY <1>9, <1>10, <1>11

\* The slot after wait.
LEMMA WaitSlot ==
  ASSUME CountsFit, CowInvariant, NEW p \in Procs, NEW c \in Procs, Wait(p, c)
  PROVE  /\ state[c] = "zombie" /\ state'[c] = "unused" /\ sz'[c] = 0 /\ mpt'[c] = 0
         /\ \A k \in Kinds : Kernel(k, c)' = 0
         /\ \A a \in Pages : pte'[c][a].f = 0 /\ ~pte'[c][a].w
         /\ \A q \in Procs \ {c} : /\ state'[q] = state[q] /\ sz'[q] = sz[q] /\ pte'[q] = pte[q]
                                   /\ mpt'[q] = mpt[q] /\ \A k \in Kinds : Kernel(k, q)' = Kernel(k, q)
         /\ teardowns' = teardowns + 1 /\ teardowns < MaxTeardowns
<1>1. CowTypeOK
  BY DEF CowInvariant
<1>2. /\ state[c] = "zombie" /\ state' = [state EXCEPT ![c] = "unused"] /\ sz' = [sz EXCEPT ![c] = 0]
      /\ mpt' = [mpt EXCEPT ![c] = 0] /\ pte' = [pte EXCEPT ![c] = [a \in Pages |-> NoPte]]
      /\ teardowns' = teardowns + 1 /\ teardowns < MaxTeardowns
  BY DEF Wait
<1>3. /\ kstack' = [kstack EXCEPT ![c] = 0] /\ pgdir' = [pgdir EXCEPT ![c] = 0]
      /\ kpt' = [kpt EXCEPT ![c] = 0] /\ upt' = [upt EXCEPT ![c] = 0]
  BY DEF Wait
<1>4. /\ state'[c] = "unused" /\ sz'[c] = 0 /\ mpt'[c] = 0
      /\ \A q \in Procs \ {c} : /\ state'[q] = state[q] /\ sz'[q] = sz[q] /\ pte'[q] = pte[q]
                                /\ mpt'[q] = mpt[q]
  BY <1>1, <1>2 DEF CowTypeOK
<1>5. /\ \A k \in Kinds : Kernel(k, c)' = 0
      /\ \A q \in Procs \ {c}, k \in Kinds : Kernel(k, q)' = Kernel(k, q)
  BY <1>1, <1>3 DEF CowTypeOK, Kernel
<1>6. pte'[c] = [a \in Pages |-> NoPte]
  BY <1>1, <1>2 DEF CowTypeOK
<1>7. \A a \in Pages : pte'[c][a].f = 0 /\ ~pte'[c][a].w
  BY <1>6 DEF NoPte
<1> QED
  BY <1>2, <1>4, <1>5, <1>7

\* wait keeps types.
LEMMA WaitTypes ==
  ASSUME CountsFit, CowInvariant, NEW p \in Procs, NEW c \in Procs, Wait(p, c)
  PROVE  CowTypeOK'
<1>1. CowTypeOK
  BY DEF CowInvariant
<1>2. /\ free' \in Seq(Frames) /\ ref' \in [Frames -> 0 .. RefRange - 1]
      /\ data' \in [Frames -> Values \cup {Junk}]
  BY WaitMemory
<1>3. /\ state' \in [Procs -> {"unused", "run", "zombie"}] /\ parent' \in [Procs -> Procs]
      /\ sz' \in [Procs -> 0 .. MaxPages] /\ maps' \in [Procs -> SUBSET Maps]
  <2>1. /\ state' = [state EXCEPT ![c] = "unused"] /\ parent' = [parent EXCEPT ![c] = InitProc]
        /\ sz' = [sz EXCEPT ![c] = 0] /\ maps' = [maps EXCEPT ![c] = {}]
    BY DEF Wait
  <2>2. state' \in [Procs -> {"unused", "run", "zombie"}]
    BY <1>1, <2>1 DEF CowTypeOK
  <2>3. parent' \in [Procs -> Procs]
    BY <1>1, <2>1, InitIsProc DEF CowTypeOK
  <2>4. sz' \in [Procs -> 0 .. MaxPages]
    <3>1. 0 \in 0 .. MaxPages
      BY SizeFacts
    <3> QED
      BY <1>1, <2>1, <3>1 DEF CowTypeOK
  <2>5. maps' \in [Procs -> SUBSET Maps]
    BY <1>1, <2>1 DEF CowTypeOK
  <2> QED
    BY <2>2, <2>3, <2>4, <2>5
<1>4. NoPte \in Entry
  BY FrameFacts DEF NoPte, Entry
<1>5. pte' \in [Procs -> [Pages -> Entry]] /\ mpte' \in [Procs -> [Maps -> Entry]]
  BY <1>1, <1>4 DEF Wait, CowTypeOK
<1>6. /\ kstack' \in [Procs -> 0 .. NFrames] /\ pgdir' \in [Procs -> 0 .. NFrames]
      /\ kpt' \in [Procs -> 0 .. NFrames] /\ upt' \in [Procs -> 0 .. NFrames]
      /\ mpt' \in [Procs -> 0 .. NFrames]
  <2>1. /\ kstack' = [kstack EXCEPT ![c] = 0] /\ pgdir' = [pgdir EXCEPT ![c] = 0]
        /\ kpt' = [kpt EXCEPT ![c] = 0] /\ upt' = [upt EXCEPT ![c] = 0]
        /\ mpt' = [mpt EXCEPT ![c] = 0]
    BY DEF Wait
  <2>2. /\ kstack \in [Procs -> 0 .. NFrames] /\ pgdir \in [Procs -> 0 .. NFrames]
        /\ kpt \in [Procs -> 0 .. NFrames] /\ upt \in [Procs -> 0 .. NFrames]
        /\ mpt \in [Procs -> 0 .. NFrames]
    BY <1>1 DEF CowTypeOK
  <2>3. 0 \in 0 .. NFrames
    BY FrameFacts
  <2> QED
    BY <2>1, <2>2, <2>3
<1> QED
  BY <1>2, <1>3, <1>5, <1>6 DEF CowTypeOK

\* wait keeps the frames apart.
LEMMA WaitFrames ==
  ASSUME CountsFit, CowInvariant, NEW p \in Procs, NEW c \in Procs, Wait(p, c)
  PROVE  SlotsOK' /\ KernelApart' /\ FramesApart' /\ OnePlace' /\ WritableIsUnshared'
<1>1. /\ state'[c] = "unused" /\ sz'[c] = 0 /\ mpt'[c] = 0
      /\ \A k \in Kinds : Kernel(k, c)' = 0
      /\ \A a \in Pages : pte'[c][a].f = 0 /\ ~pte'[c][a].w
  BY WaitSlot
<1>2. \A q \in Procs \ {c} : /\ state'[q] = state[q] /\ sz'[q] = sz[q] /\ pte'[q] = pte[q]
                             /\ mpt'[q] = mpt[q] /\ \A k \in Kinds : Kernel(k, q)' = Kernel(k, q)
  BY WaitSlot
<1>3. SlotsOK /\ KernelApart /\ FramesApart /\ OnePlace /\ WritableIsUnshared
  BY DEF CowInvariant
<1>4. SlotsOK'
  <2> SUFFICES ASSUME NEW q \in Procs
               PROVE  /\ mpt'[q] = 0
                      /\ \A k \in Kinds : Kernel(k, q)' = 0 <=> state'[q] = "unused"
                      /\ state'[q] = "unused" => sz'[q] = 0
                      /\ state'[q] # "unused" => sz'[q] >= 1
                      /\ \A a \in Pages :
                           /\ a < sz'[q] => pte'[q][a].f # 0
                           /\ state'[q] = "unused" => pte'[q][a].f = 0
                           /\ pte'[q][a].f = 0 => ~pte'[q][a].w
    BY DEF SlotsOK
  <2>1. CASE q = c
    <3>1. \A a \in Pages : ~(a < sz'[q])
      BY <1>1, <2>1, SizeFacts
    <3> QED
      BY <1>1, <2>1, <3>1
  <2>2. CASE q # c
    BY <1>2, <1>3, <2>2 DEF SlotsOK
  <2> QED
    BY <2>1, <2>2
<1>5. KernelApart'
  BY <1>1, <1>2, <1>3 DEF KernelApart
<1>6. FramesApart'
  <2> DEFINE E == {}
             O == KernelOf(c)
  <2>1. Mapped' \subseteq Mapped
    <3> SUFFICES ASSUME NEW q \in Procs, NEW a \in Pages, pte'[q][a].f # 0
                 PROVE  pte[q][a].f = pte'[q][a].f
      BY DEF Mapped
    <3> QED
      BY <1>1, <1>2
  <2>2. KernelUsed' \subseteq KernelUsed \ O
    <3> SUFFICES ASSUME NEW q \in Procs, NEW k \in Kinds, Kernel(k, q)' # 0
                 PROVE  Kernel(k, q)' \in KernelUsed \ O
      BY DEF KernelUsed
    <3>1. q # c /\ Kernel(k, q)' = Kernel(k, q)
      BY <1>1, <1>2
    <3>2. Kernel(k, q) \in KernelUsed
      BY <3>1 DEF KernelUsed
    <3>3. ASSUME NEW l \in Kinds PROVE Kernel(l, c) # Kernel(k, q)
      BY <1>3, <3>1 DEF KernelApart
    <3> QED
      BY <3>1, <3>2, <3>3 DEF KernelOf
  <2>3. O \subseteq KernelUsed /\ Listed' \subseteq Listed \cup O
    BY WaitMemory
  <2> HIDE DEF O
  <2>4. /\ E \subseteq Listed /\ E \cap E = {}
        /\ Mapped' \subseteq Mapped \cup E /\ KernelUsed' \subseteq (KernelUsed \ O) \cup E
        /\ Listed' \subseteq (Listed \ (E \cup E)) \cup O
    BY <2>1, <2>2, <2>3
  <2> HIDE DEF E
  <2> QED
    BY <1>3, <2>3, <2>4, FramesStep
<1>7. OnePlace'
  BY <1>1, <1>2, <1>3 DEF OnePlace
<1>8. WritableIsUnshared'
  BY <1>1, <1>2, <1>3 DEF WritableIsUnshared
<1> QED
  BY <1>4, <1>5, <1>6, <1>7, <1>8

\* wait keeps the counts: the child's pages stay counted.
LEMMA WaitCounts ==
  ASSUME CountsFit, CowInvariant, NEW p \in Procs, NEW c \in Procs, Wait(p, c)
  PROVE  \A f \in Mapped' : CountOK(f)'
<1> SUFFICES ASSUME NEW f \in Mapped' PROVE CountOK(f)'
  OBVIOUS
<1>1. /\ state[c] = "zombie" /\ state'[c] = "unused" /\ \A a \in Pages : pte'[c][a].f = 0
      /\ \A q \in Procs \ {c} : state'[q] = state[q] /\ pte'[q] = pte[q]
      /\ teardowns' = teardowns + 1
  BY WaitSlot
<1>2. f # 0 /\ \E q \in Procs, a \in Pages : pte[q][a].f = f
  <2>1. PICK q \in Procs, a \in Pages : pte'[q][a].f = f /\ f # 0
    BY DEF Mapped
  <2> QED
    BY <1>1, <2>1
<1>3. f \in Mapped
  BY <1>2 DEF Mapped
<1>4. f \in Frames /\ f \notin KernelUsed /\ CountOK(f)
  BY <1>3, MappedFacts DEF CowInvariant
<1>5. ref'[f] = ref[f]
  BY <1>4, WaitMemory
<1>6. Mappers(f)' \subseteq Mappers(f)
  <2>1. ASSUME NEW q \in Procs, NEW b \in Pages, <<q, b>> \in Mappers(f)'
        PROVE  <<q, b>> \in Mappers(f)
    <3>1. state'[q] # "unused" /\ pte'[q][b].f = f
      BY <2>1, MapperFacts
    <3>2. q # c
      BY <1>1, <3>1
    <3> QED
      BY <1>1, <3>1, <3>2, MapperFacts
  <2>2. \A x \in Procs \X Pages : x \in Mappers(f)' => x \in Mappers(f)
    BY <2>1
  <2> QED
    BY <2>2, MappersArePairs
<1>7. CowTypeOK /\ CowTypeOK' /\ teardowns \in Nat /\ teardowns' \in Nat
  BY <1>1, WaitTypes, MemorySizes DEF CowInvariant
<1>8. c \notin Unused /\ Unused' = Unused \cup {c}
  BY <1>1 DEF Unused
<1>9. Cardinality(Unused') = Cardinality(Unused) + 1 /\ Cardinality(Unused) \in Nat
  BY <1>8, UnusedCounts
<1>10. Cardinality(Unused') + teardowns <= Cardinality(Unused) + teardowns' /\ teardowns' # 0
  BY <1>1, <1>7, <1>9
<1> QED
  BY <1>4, <1>5, <1>6, <1>7, <1>10, KeptCount

\* wait keeps the invariant.
LEMMA WaitKeeps ==
  ASSUME CountsFit, CowInvariant, NEW p \in Procs, NEW c \in Procs, Wait(p, c)
  PROVE  CowInvariant'
<1>1. teardowns' \in 0 .. MaxTeardowns
  <2>1. teardowns' = teardowns + 1 /\ teardowns < MaxTeardowns
    BY WaitSlot
  <2> QED
    BY <2>1, MemorySizes DEF CowInvariant
<1> QED
  BY <1>1, WaitTypes, WaitFrames, WaitCounts DEF CowInvariant

-----------------------------------------------------------------------------
(* exec.                                                                    *)

\* The frames of the new image of n pages, and its page tables.
ImagePages(n) == {ImageFrame(a) : a \in 0 .. n - 1}
ImageTables == {free[1], free[2], free[4]}

\* They are different frames of the list.
LEMMA ImageFacts ==
  ASSUME CowTypeOK, FreedOnce, NEW n \in 1 .. MaxPages, CanAlloc(n + 3)
  PROVE  /\ n \in Nat /\ n >= 1 /\ n + 3 \in Nat
         /\ ImagePages(n) \subseteq Listed /\ ImagePages(n) \subseteq Frames
         /\ ImageTables \subseteq Listed /\ ImageTables \subseteq Frames
         /\ ImagePages(n) \cap ImageTables = {}
         /\ (ImagePages(n) \cup ImageTables) \cap ListedIn(Alloc(n + 3)) = {}
         /\ \A a, b \in 0 .. n - 1 : ImageFrame(a) = ImageFrame(b) => a = b
         /\ free[1] # free[2] /\ free[1] # free[4] /\ free[2] # free[4]
<1>1. n \in Nat /\ n >= 1 /\ n + 3 \in Nat
  BY SizeFacts
<1>2. /\ \A i \in 1 .. n + 3 : /\ free[i] \in Listed /\ free[i] \in Frames
                               /\ free[i] \notin ListedIn(Alloc(n + 3))
      /\ \A i, j \in 1 .. n + 3 : free[i] = free[j] => i = j
  BY <1>1, AllocFacts
<1> DEFINE Ix(a) == IF a = 0 THEN 3 ELSE 4 + a
<1>3. \A a \in 0 .. n - 1 : Ix(a) \in 1 .. n + 3 /\ Ix(a) \notin {1, 2, 4} /\ ImageFrame(a) = free[Ix(a)]
  BY <1>1 DEF ImageFrame
<1>4. \A a, b \in 0 .. n - 1 : Ix(a) = Ix(b) => a = b
  BY <1>1
<1> HIDE DEF Ix
<1>5. 1 \in 1 .. n + 3 /\ 2 \in 1 .. n + 3 /\ 4 \in 1 .. n + 3
  BY <1>1
<1>6. ImagePages(n) \subseteq Listed /\ ImagePages(n) \subseteq Frames
      /\ ImagePages(n) \cap ListedIn(Alloc(n + 3)) = {}
  BY <1>2, <1>3 DEF ImagePages
<1>7. ImageTables \subseteq Listed /\ ImageTables \subseteq Frames
      /\ ImageTables \cap ListedIn(Alloc(n + 3)) = {}
  BY <1>2, <1>5 DEF ImageTables
<1>8. ImagePages(n) \cap ImageTables = {}
  <2>1. \A a \in 0 .. n - 1 : ImageFrame(a) \notin ImageTables
    BY <1>2, <1>3, <1>5 DEF ImageTables
  <2> QED
    BY <2>1 DEF ImagePages
<1>9. \A a, b \in 0 .. n - 1 : ImageFrame(a) = ImageFrame(b) => a = b
  BY <1>2, <1>3, <1>4
<1>10. free[1] # free[2] /\ free[1] # free[4] /\ free[2] # free[4]
  BY <1>2, <1>5
<1> QED
  BY <1>1, <1>6, <1>7, <1>8, <1>9, <1>10

\* The memory in which the image is built.
ImageMemory(n, v) ==
  [Alloc(n + 3) EXCEPT
     !.ref = [f \in Frames |-> IF \E a \in 0 .. n - 1 : f = ImageFrame(a)
                              THEN (@[f] + 1) % RefRange ELSE @[f]],
     !.data = [f \in Frames |-> IF \E a \in 0 .. n - 1 : f = ImageFrame(a)
                               THEN v ELSE @[f]]]

\* Its pages are counted and filled.
LEMMA ImageMemoryFacts ==
  ASSUME CowTypeOK, FreedOnce, NEW n \in 1 .. MaxPages, CanAlloc(n + 3), NEW v \in Values
  PROVE  LET m == ImageMemory(n, v)
         IN  /\ MemoryOK(m) /\ ListedIn(m) \subseteq Listed \ (ImagePages(n) \cup ImageTables)
             /\ \A f \in ImagePages(n) : m.ref[f] = (ref[f] + 1) % RefRange /\ m.data[f] = v
             /\ \A f \in Frames \ ImagePages(n) : m.ref[f] = ref[f] /\ m.data[f] = data[f]
<1> DEFINE k == Alloc(n + 3)
           In(f) == \E a \in 0 .. n - 1 : f = ImageFrame(a)
           R == [f \in Frames |-> IF In(f) THEN (k.ref[f] + 1) % RefRange ELSE k.ref[f]]
           D == [f \in Frames |-> IF In(f) THEN v ELSE k.data[f]]
           m == [k EXCEPT !.ref = R, !.data = D]
<1>1. /\ n + 3 \in Nat /\ ImagePages(n) \subseteq Frames
      /\ (ImagePages(n) \cup ImageTables) \cap ListedIn(Alloc(n + 3)) = {}
  BY ImageFacts
<1>2. MemoryOK(k) /\ k.ref = ref /\ k.data = data /\ ListedIn(k) \subseteq Listed
  BY <1>1, AllocFacts
<1>3. ref \in [Frames -> 0 .. RefRange - 1] /\ data \in [Frames -> Values \cup {Junk}]
  BY DEF CowTypeOK
<1>4. \A f \in Frames : (ref[f] + 1) % RefRange \in 0 .. RefRange - 1
  <2> SUFFICES ASSUME NEW f \in Frames PROVE (ref[f] + 1) % RefRange \in 0 .. RefRange - 1
    OBVIOUS
  <2>1. ref[f] + 1 \in Int
    BY <1>3, CountsAreBytes
  <2> QED
    BY <2>1, CountsAreBytes
<1>5. ImageMemory(n, v) = m
  BY DEF ImageMemory
<1>6. \A f : In(f) <=> f \in ImagePages(n)
  BY DEF ImagePages
<1> HIDE DEF k, In
<1>7. R \in [Frames -> 0 .. RefRange - 1] /\ D \in [Frames -> Values \cup {Junk}]
  BY <1>2, <1>3, <1>4
<1>8. \A f \in Frames : /\ In(f) => R[f] = (ref[f] + 1) % RefRange /\ D[f] = v
                        /\ ~In(f) => R[f] = ref[f] /\ D[f] = data[f]
  BY <1>2
<1> HIDE DEF R, D
<1>9. MemoryOK(m) /\ m.free = k.free /\ m.ref = R /\ m.data = D
  BY <1>2, <1>7 DEF MemoryOK
<1> HIDE DEF m
<1>10. ListedIn(m) \subseteq Listed \ (ImagePages(n) \cup ImageTables)
  <2>1. ListedIn(m) = ListedIn(k)
    BY <1>9 DEF ListedIn
  <2> QED
    BY <1>1, <1>2, <2>1 DEF k
<1>11. /\ \A f \in ImagePages(n) : m.ref[f] = (ref[f] + 1) % RefRange /\ m.data[f] = v
       /\ \A f \in Frames \ ImagePages(n) : m.ref[f] = ref[f] /\ m.data[f] = data[f]
  BY <1>1, <1>6, <1>8, <1>9
<1> QED
  BY <1>5, <1>9, <1>10, <1>11

\* The entries of the new image.
ImageEntries(n) ==
  [a \in Pages |-> IF a < n THEN [f |-> ImageFrame(a), w |-> a \notin TextPages, cow |-> FALSE]
                            ELSE NoPte]

\* exec in these words.
LEMMA ExecIs ==
  ASSUME NEW p \in Procs, NEW n \in 1 .. MaxPages, NEW v \in Values, Exec(p, n, v)
  PROVE  /\ Running(p) /\ CanAlloc(n + 3) /\ teardowns < MaxTeardowns
         /\ SetMemory(FreeVm(ImageMemory(n, v), p))
         /\ pte' = [pte EXCEPT ![p] = ImageEntries(n)]
BY DEF Exec, ImageMemory, ImageEntries

\* The memory after exec.
LEMMA ExecMemory ==
  ASSUME CountsFit, CowInvariant, NEW p \in Procs, NEW n \in 1 .. MaxPages, NEW v \in Values,
         Exec(p, n, v)
  PROVE  /\ TableFrames(p) \subseteq KernelUsed /\ TableFrames(p) \subseteq Frames
         /\ free' \in Seq(Frames) /\ ref' \in [Frames -> 0 .. RefRange - 1]
         /\ data' \in [Frames -> Values \cup {Junk}]
         /\ Listed' \subseteq (Listed \ (ImagePages(n) \cup ImageTables)) \cup TableFrames(p)
         /\ \A f \in ImagePages(n) : ref'[f] = (ref[f] + 1) % RefRange /\ data'[f] = v
         /\ \A f \in Frames \ (ImagePages(n) \cup TableFrames(p)) :
              ref'[f] = ref[f] /\ data'[f] = data[f]
<1> DEFINE m == ImageMemory(n, v)
           k == FreeVm(m, p)
           T == TableFrames(p)
<1>1. CowTypeOK /\ FreedOnce /\ CanAlloc(n + 3) /\ SetMemory(k) /\ state[p] # "unused"
  BY ExecIs DEF CowInvariant, Running
<1>2. /\ MemoryOK(m) /\ ListedIn(m) \subseteq Listed \ (ImagePages(n) \cup ImageTables)
      /\ \A f \in ImagePages(n) : m.ref[f] = (ref[f] + 1) % RefRange /\ m.data[f] = v
      /\ \A f \in Frames \ ImagePages(n) : m.ref[f] = ref[f] /\ m.data[f] = data[f]
  BY <1>1, ImageMemoryFacts
<1>3. ImagePages(n) \subseteq Listed /\ ImagePages(n) \subseteq Frames
  BY <1>1, ImageFacts
<1> HIDE DEF m
<1>4. \A a \in Pages : pte[p][a].f # 0 => m.ref[pte[p][a].f] # 0
  <2> SUFFICES ASSUME NEW a \in Pages, pte[p][a].f # 0 PROVE m.ref[pte[p][a].f] # 0
    OBVIOUS
  <2>1. PICK f : f = pte[p][a].f
    OBVIOUS
  <2>2. f \in Mapped
    BY <2>1 DEF Mapped
  <2>3. f \in Frames /\ f \notin Listed /\ ref[f] \in Nat /\ ref[f] >= 1
    BY <2>2, MappedFacts
  <2>4. m.ref[f] = ref[f]
    BY <1>2, <1>3, <2>3
  <2> QED
    BY <2>1, <2>3, <2>4
<1>5. T \subseteq KernelUsed /\ T \subseteq Frames /\ Touches(k, m, T, T)
  BY <1>1, <1>2, <1>4, FreeVmFacts
<1> HIDE DEF k, T
<1>6. /\ free' \in Seq(Frames) /\ ref' \in [Frames -> 0 .. RefRange - 1]
      /\ data' \in [Frames -> Values \cup {Junk}]
      /\ Listed' = ListedIn(k) /\ ref' = k.ref /\ data' = k.data
  BY <1>1, <1>5, MemorySet DEF Touches
<1>7. Listed' \subseteq (Listed \ (ImagePages(n) \cup ImageTables)) \cup T
  BY <1>2, <1>5, <1>6 DEF Touches
<1>8. KernelUsed \cap Listed = {}
  BY DEF CowInvariant, FramesApart
<1>9. \A f \in ImagePages(n) : ref'[f] = (ref[f] + 1) % RefRange /\ data'[f] = v
  BY <1>2, <1>3, <1>5, <1>6, <1>8 DEF Touches
<1>10. \A f \in Frames \ (ImagePages(n) \cup T) : ref'[f] = ref[f] /\ data'[f] = data[f]
  BY <1>2, <1>5, <1>6 DEF Touches
<1> QED
  BY <1>5, <1>6, <1>7, <1>9, <1>10 DEF T

\* The page table after exec.
LEMMA ExecEntries ==
  ASSUME CountsFit, CowInvariant, NEW p \in Procs, NEW n \in 1 .. MaxPages, NEW v \in Values,
         Exec(p, n, v)
  PROVE  /\ pte' \in [Procs -> [Pages -> Entry]]
         /\ \A q \in Procs \ {p} : pte'[q] = pte[q]
         /\ \A a \in Pages :
              IF a < n THEN a \in 0 .. n - 1 /\ pte'[p][a].f = ImageFrame(a) /\ pte'[p][a].f \in ImagePages(n)
              ELSE pte'[p][a].f = 0 /\ ~pte'[p][a].w
         /\ \A a \in Pages : a < n => (pte'[p][a].w <=> a \notin TextPages)
<1>1. CowTypeOK /\ FreedOnce /\ CanAlloc(n + 3) /\ pte' = [pte EXCEPT ![p] = ImageEntries(n)]
  BY ExecIs DEF CowInvariant, Running
<1>2. n \in Nat /\ ImagePages(n) \subseteq Frames
  BY <1>1, ImageFacts
<1>3. NoPte \in Entry /\ NoPte.f = 0 /\ ~NoPte.w
  BY FrameFacts DEF NoPte, Entry
<1>4. ASSUME NEW a \in Pages, a < n
      PROVE  a \in 0 .. n - 1 /\ ImageFrame(a) \in ImagePages(n) /\ ImageFrame(a) \in 0 .. NFrames
  <2>1. a \in 0 .. n - 1
    BY <1>2, <1>4, SizeFacts
  <2>2. ImageFrame(a) \in ImagePages(n)
    BY <2>1 DEF ImagePages
  <2> QED
    BY <1>2, <2>1, <2>2, FrameFacts DEF Frames
<1> DEFINE E == ImageEntries(n)
<1>5. ASSUME NEW a \in Pages
      PROVE  /\ E[a] \in Entry
             /\ a < n => E[a].f = ImageFrame(a) /\ (E[a].w <=> a \notin TextPages)
             /\ ~(a < n) => E[a].f = 0 /\ ~E[a].w
  BY <1>3, <1>4 DEF ImageEntries, Entry
<1>6. E \in [Pages -> Entry]
  <2>1. E = [a \in Pages |-> E[a]]
    BY DEF ImageEntries
  <2> HIDE DEF E
  <2> QED
    BY <1>5, <2>1
<1> HIDE DEF E
<1>7. pte' \in [Procs -> [Pages -> Entry]] /\ pte'[p] = E /\ \A q \in Procs \ {p} : pte'[q] = pte[q]
  BY <1>1, <1>6 DEF CowTypeOK, E
<1> QED
  BY <1>4, <1>5, <1>7

\* The slot after exec.
LEMMA ExecSlot ==
  ASSUME CountsFit, CowInvariant, NEW p \in Procs, NEW n \in 1 .. MaxPages, NEW v \in Values,
         Exec(p, n, v)
  PROVE  /\ state[p] # "unused" /\ state' = state /\ sz' = [sz EXCEPT ![p] = n] /\ \A q \in Procs : mpt'[q] = 0
         /\ Kernel("kstack", p)' = Kernel("kstack", p)
         /\ \A k \in Kinds \ {"kstack"} : Kernel(k, p)' \in ImageTables
         /\ \A k, l \in Kinds \ {"kstack"} : Kernel(k, p)' = Kernel(l, p)' => k = l
         /\ \A q \in Procs \ {p}, k \in Kinds : Kernel(k, q)' = Kernel(k, q)
         /\ teardowns' = teardowns + 1 /\ teardowns < MaxTeardowns
<1>1. CowTypeOK /\ SlotsOK
  BY DEF CowInvariant
<1>2. /\ state[p] # "unused" /\ state' = state /\ sz' = [sz EXCEPT ![p] = n]
      /\ mpt' = [mpt EXCEPT ![p] = 0] /\ kstack' = kstack
      /\ pgdir' = [pgdir EXCEPT ![p] = free[1]] /\ kpt' = [kpt EXCEPT ![p] = free[2]]
      /\ upt' = [upt EXCEPT ![p] = free[4]]
      /\ teardowns' = teardowns + 1 /\ teardowns < MaxTeardowns
  BY DEF Exec, Running
<1>3. free[1] # free[2] /\ free[1] # free[4] /\ free[2] # free[4]
  <2>1. FreedOnce /\ CanAlloc(n + 3)
    BY ExecIs DEF Running
  <2> QED
    BY <1>1, <2>1, ImageFacts
<1>4. /\ pgdir'[p] = free[1] /\ kpt'[p] = free[2] /\ upt'[p] = free[4]
      /\ \A q \in Procs \ {p} : pgdir'[q] = pgdir[q] /\ kpt'[q] = kpt[q] /\ upt'[q] = upt[q]
  BY <1>1, <1>2 DEF CowTypeOK
<1>5. /\ Kernel("kstack", p)' = Kernel("kstack", p)
      /\ \A q \in Procs \ {p}, k \in Kinds : Kernel(k, q)' = Kernel(k, q)
  BY <1>2, <1>4 DEF Kernel
<1>6. \A k \in Kinds \ {"kstack"} : Kernel(k, p)' \in ImageTables
  BY <1>4 DEF Kernel, Kinds, ImageTables
<1>7. \A k, l \in Kinds \ {"kstack"} : Kernel(k, p)' = Kernel(l, p)' => k = l
  BY <1>3, <1>4 DEF Kernel, Kinds
<1>8. \A q \in Procs : mpt'[q] = 0
  BY <1>1, <1>2 DEF CowTypeOK, SlotsOK
<1> QED
  BY <1>2, <1>5, <1>6, <1>7, <1>8

\* exec keeps types.
LEMMA ExecTypes ==
  ASSUME CountsFit, CowInvariant, NEW p \in Procs, NEW n \in 1 .. MaxPages, NEW v \in Values,
         Exec(p, n, v)
  PROVE  CowTypeOK'
<1>1. CowTypeOK /\ FreedOnce /\ CanAlloc(n + 3)
  BY ExecIs DEF CowInvariant, Running
<1>2. /\ free' \in Seq(Frames) /\ ref' \in [Frames -> 0 .. RefRange - 1]
      /\ data' \in [Frames -> Values \cup {Junk}]
  BY ExecMemory
<1>3. pte' \in [Procs -> [Pages -> Entry]]
  BY ExecEntries
<1>4. UNCHANGED <<state, parent, maps, kstack>> /\ mpte' = [mpte EXCEPT ![p] = [m \in Maps |-> NoPte]]
  BY DEF Exec
<1>5. mpte' \in [Procs -> [Maps -> Entry]]
  <2>1. [m \in Maps |-> NoPte] \in [Maps -> Entry]
    BY FrameFacts DEF NoPte, Entry
  <2> QED
    BY <1>1, <1>4, <2>1 DEF CowTypeOK
<1>6. sz' \in [Procs -> 0 .. MaxPages]
  <2>1. n \in 0 .. MaxPages
    BY SizeFacts
  <2>2. sz' = [sz EXCEPT ![p] = n]
    BY ExecSlot
  <2> QED
    BY <1>1, <2>1, <2>2 DEF CowTypeOK
<1>7. /\ pgdir' \in [Procs -> 0 .. NFrames] /\ kpt' \in [Procs -> 0 .. NFrames]
      /\ upt' \in [Procs -> 0 .. NFrames] /\ mpt' \in [Procs -> 0 .. NFrames]
  <2>1. /\ pgdir' = [pgdir EXCEPT ![p] = free[1]] /\ kpt' = [kpt EXCEPT ![p] = free[2]]
        /\ upt' = [upt EXCEPT ![p] = free[4]] /\ mpt' = [mpt EXCEPT ![p] = 0]
    BY DEF Exec
  <2>2. /\ pgdir \in [Procs -> 0 .. NFrames] /\ kpt \in [Procs -> 0 .. NFrames]
        /\ upt \in [Procs -> 0 .. NFrames] /\ mpt \in [Procs -> 0 .. NFrames]
    BY <1>1 DEF CowTypeOK
  <2>3. ImageTables \subseteq 0 .. NFrames
    BY <1>1, ImageFacts, FrameFacts DEF Frames
  <2>4. 0 \in 0 .. NFrames
    BY FrameFacts
  <2> QED
    BY <2>1, <2>2, <2>3, <2>4 DEF ImageTables
<1> QED
  BY <1>1, <1>2, <1>3, <1>4, <1>5, <1>6, <1>7 DEF CowTypeOK

\* exec fills the slot.
LEMMA ExecSlots ==
  ASSUME CountsFit, CowInvariant, NEW p \in Procs, NEW n \in 1 .. MaxPages, NEW v \in Values,
         Exec(p, n, v)
  PROVE  SlotsOK'
<1>1. SlotsOK /\ CowTypeOK
  BY DEF CowInvariant
<1>2. /\ \A q \in Procs \ {p} : pte'[q] = pte[q]
      /\ \A a \in Pages : IF a < n THEN pte'[p][a].f \in ImagePages(n)
                          ELSE pte'[p][a].f = 0 /\ ~pte'[p][a].w
  BY ExecEntries
<1>3. /\ state[p] # "unused" /\ state' = state /\ sz' = [sz EXCEPT ![p] = n] /\ \A q \in Procs : mpt'[q] = 0
      /\ Kernel("kstack", p)' = Kernel("kstack", p)
      /\ \A k \in Kinds \ {"kstack"} : Kernel(k, p)' \in ImageTables
      /\ \A q \in Procs \ {p}, k \in Kinds : Kernel(k, q)' = Kernel(k, q)
  BY ExecSlot
<1>4. ImagePages(n) \subseteq Frames /\ ImageTables \subseteq Frames /\ n \in Nat /\ n >= 1
  <2>1. FreedOnce /\ CanAlloc(n + 3)
    BY ExecIs DEF Running
  <2> QED
    BY <1>1, <2>1, ImageFacts
<1>5. sz'[p] = n /\ \A q \in Procs \ {p} : sz'[q] = sz[q]
  BY <1>1, <1>3 DEF CowTypeOK
<1> SUFFICES ASSUME NEW q \in Procs
             PROVE  /\ mpt'[q] = 0
                    /\ \A k \in Kinds : Kernel(k, q)' = 0 <=> state'[q] = "unused"
                    /\ state'[q] = "unused" => sz'[q] = 0
                    /\ state'[q] # "unused" => sz'[q] >= 1
                    /\ \A a \in Pages :
                         /\ a < sz'[q] => pte'[q][a].f # 0
                         /\ state'[q] = "unused" => pte'[q][a].f = 0
                         /\ pte'[q][a].f = 0 => ~pte'[q][a].w
  BY DEF SlotsOK
<1>6. CASE q = p
  <2>1. \A k \in Kinds : Kernel(k, p)' # 0
    BY <1>1, <1>3, <1>4, FrameFacts DEF SlotsOK
  <2>2. \A a \in Pages : IF a < n THEN pte'[p][a].f # 0 ELSE pte'[p][a].f = 0 /\ ~pte'[p][a].w
    BY <1>2, <1>4, FrameFacts
  <2> QED
    BY <1>3, <1>4, <1>5, <1>6, <2>1, <2>2
<1>7. CASE q # p
  BY <1>1, <1>2, <1>3, <1>5, <1>7 DEF SlotsOK
<1> QED
  BY <1>6, <1>7

\* exec keeps the frames apart.
LEMMA ExecFrames ==
  ASSUME CountsFit, CowInvariant, NEW p \in Procs, NEW n \in 1 .. MaxPages, NEW v \in Values,
         Exec(p, n, v)
  PROVE  KernelApart' /\ FramesApart'
<1>1. CowTypeOK /\ SlotsOK /\ KernelApart /\ FramesApart /\ FreedOnce /\ CanAlloc(n + 3)
  BY ExecIs DEF CowInvariant, Running
<1>2. /\ state[p] # "unused"
      /\ Kernel("kstack", p)' = Kernel("kstack", p)
      /\ \A k \in Kinds \ {"kstack"} : Kernel(k, p)' \in ImageTables
      /\ \A k, l \in Kinds \ {"kstack"} : Kernel(k, p)' = Kernel(l, p)' => k = l
      /\ \A q \in Procs \ {p}, k \in Kinds : Kernel(k, q)' = Kernel(k, q)
  BY ExecSlot
<1> DEFINE U == ImagePages(n)
           K == ImageTables
           O == TableFrames(p)
<1>3. U \subseteq Listed /\ K \subseteq Listed /\ U \cap K = {}
  BY <1>1, ImageFacts
<1>4. O \subseteq KernelUsed /\ Listed' \subseteq (Listed \ (U \cup K)) \cup O
  BY ExecMemory
<1>5. "kstack" \in Kinds /\ Kernel("kstack", p) # 0 /\ Kernel("kstack", p) \in KernelUsed
  <2>1. "kstack" \in Kinds
    BY DEF Kinds
  <2>2. Kernel("kstack", p) # 0
    BY <1>1, <1>2, <2>1 DEF SlotsOK
  <2> QED
    BY <1>1, <2>1, <2>2, KernelFacts
<1>6. Kernel("kstack", p) \notin Listed
  BY <1>1, <1>5 DEF FramesApart
<1>7. KernelApart'
  <2>1. \A k \in Kinds : Kernel(k, p)' \in {0, Kernel(k, p)} \cup Listed
    BY <1>2, <1>3
  <2>2. \A k, l \in Kinds : Kernel(k, p)' = Kernel(l, p)' /\ Kernel(k, p)' \in Listed => k = l
    BY <1>2, <1>6
  <2>3. \A q \in Procs \ {p}, k \in Kinds : Kernel(k, q)' \in {0, Kernel(k, q)}
    BY <1>2
  <2> QED
    BY <1>1, <2>1, <2>2, <2>3, KernelStep
<1>8. O = {Kernel("upt", p), Kernel("kpt", p), Kernel("pgdir", p)}
      /\ "upt" \in Kinds /\ "kpt" \in Kinds /\ "pgdir" \in Kinds
  BY DEF TableFrames, Kernel, Kinds
<1> HIDE DEF U, K, O
<1>9. KernelUsed' \subseteq (KernelUsed \ O) \cup K
  <2> SUFFICES ASSUME NEW q \in Procs, NEW k \in Kinds, Kernel(k, q)' # 0
               PROVE  Kernel(k, q)' \in (KernelUsed \ O) \cup K
    BY DEF KernelUsed
  <2>1. CASE q = p /\ k # "kstack"
    BY <1>2, <2>1 DEF K
  <2>2. CASE q # p \/ k = "kstack"
    <3>1. Kernel(k, q)' = Kernel(k, q)
      BY <1>2, <2>2
    <3>2. Kernel(k, q) \in KernelUsed
      BY <1>1, <3>1, KernelFacts
    <3>3. \A l \in {"upt", "kpt", "pgdir"} : Kernel(l, p) # Kernel(k, q)
      BY <1>1, <1>8, <2>2, <3>1 DEF KernelApart
    <3>4. Kernel(k, q) \notin O
      BY <1>8, <3>3
    <3> QED
      BY <3>1, <3>2, <3>4
  <2> QED
    BY <2>1, <2>2
<1>10. Mapped' \subseteq Mapped \cup U
  <2> SUFFICES ASSUME NEW q \in Procs, NEW a \in Pages, pte'[q][a].f # 0
               PROVE  pte'[q][a].f \in Mapped \cup U
    BY DEF Mapped
  <2>1. CASE q = p
    <3>1. IF a < n THEN pte'[p][a].f \in ImagePages(n) ELSE pte'[p][a].f = 0
      BY ExecEntries
    <3> QED
      BY <2>1, <3>1 DEF U
  <2>2. CASE q # p
    <3>1. pte'[q] = pte[q]
      BY <2>2, ExecEntries
    <3> QED
      BY <3>1 DEF Mapped
  <2> QED
    BY <2>1, <2>2
<1>11. FramesApart'
  BY <1>1, <1>3, <1>4, <1>9, <1>10, FramesStep
<1> QED
  BY <1>7, <1>11

\* exec maps each of its pages once.
LEMMA ExecSharing ==
  ASSUME CountsFit, CowInvariant, NEW p \in Procs, NEW n \in 1 .. MaxPages, NEW v \in Values,
         Exec(p, n, v)
  PROVE  OnePlace' /\ WritableIsUnshared'
<1>1. CowTypeOK /\ SlotsOK /\ OnePlace /\ WritableIsUnshared /\ FreedOnce /\ CanAlloc(n + 3)
  BY ExecIs DEF CowInvariant, Running
<1> DEFINE F(q, a) == pte'[q][a].f
           W(q, a) == pte'[q][a].w
<1>2. /\ \A q \in Procs \ {p}, a \in Pages : F(q, a) = pte[q][a].f /\ W(q, a) = pte[q][a].w
      /\ \A a \in Pages :
           IF a < n THEN a \in 0 .. n - 1 /\ F(p, a) = ImageFrame(a) /\ F(p, a) \in ImagePages(n)
           ELSE F(p, a) = 0 /\ ~W(p, a)
  BY ExecEntries
<1>3. ImagePages(n) \subseteq Listed /\ ImagePages(n) \subseteq Frames
      /\ \A a, b \in 0 .. n - 1 : ImageFrame(a) = ImageFrame(b) => a = b
  BY <1>1, ImageFacts
<1>4. state' = state
  BY ExecSlot
<1>5. \A q \in Procs, b \in Pages : pte[q][b].f \notin ImagePages(n)
  <2> SUFFICES ASSUME NEW q \in Procs, NEW b \in Pages, pte[q][b].f \in ImagePages(n) PROVE FALSE
    OBVIOUS
  <2>1. pte[q][b].f # 0
    BY <1>3, FrameFacts
  <2>2. pte[q][b].f \notin Listed
    BY <2>1, CountFacts
  <2> QED
    BY <1>3, <2>2
<1>6. 0 \notin ImagePages(n)
  BY <1>3, FrameFacts
<1>7. OnePlace'
  <2> SUFFICES ASSUME NEW q \in Procs, NEW a \in Pages, NEW b \in Pages, F(q, a) = F(q, b), F(q, a) # 0
               PROVE  a = b
    BY DEF OnePlace
  <2> HIDE DEF F, W
  <2>1. CASE q = p
    BY <1>2, <1>3, <2>1
  <2>2. CASE q # p
    BY <1>1, <1>2, <2>2 DEF OnePlace
  <2> QED
    BY <2>1, <2>2
<1>8. WritableIsUnshared'
  <2> SUFFICES ASSUME NEW q \in Procs, NEW r \in Procs, NEW a \in Pages, NEW b \in Pages,
                      W(q, a), F(r, b) = F(q, a), state[q] # "unused", state[r] # "unused"
               PROVE  q = r /\ a = b
    BY <1>4 DEF WritableIsUnshared
  <2> HIDE DEF F, W
  <2>1. CASE q = p /\ r = p
    BY <1>2, <1>3, <1>6, <2>1
  <2>2. CASE q = p /\ r # p
    BY <1>2, <1>5, <2>2
  <2>3. CASE q # p /\ r = p
    <3>1. pte[q][a].f # 0
      BY <1>1, <1>2, <2>3 DEF SlotsOK
    <3> QED
      BY <1>2, <1>5, <2>3, <3>1
  <2>4. CASE q # p /\ r # p
    BY <1>1, <1>2, <2>4 DEF WritableIsUnshared
  <2> QED
    BY <2>1, <2>2, <2>3, <2>4
<1> QED
  BY <1>7, <1>8

\* exec counts its pages once, as their counts were 0; the old ones stay counted.
LEMMA ExecCounts ==
  ASSUME CountsFit, CowInvariant, CleanStep, NEW p \in Procs, NEW n \in 1 .. MaxPages, NEW v \in Values,
         Exec(p, n, v)
  PROVE  \A f \in Mapped' : CountOK(f)'
<1> SUFFICES ASSUME NEW f \in Mapped' PROVE CountOK(f)'
  OBVIOUS
<1>1. CowTypeOK /\ CowTypeOK' /\ FreedOnce /\ CanAlloc(n + 3)
  BY ExecIs, ExecTypes DEF CowInvariant, Running
<1> DEFINE F(q, a) == pte'[q][a].f
<1>2. /\ \A q \in Procs \ {p}, a \in Pages : F(q, a) = pte[q][a].f
      /\ \A a \in Pages :
           IF a < n THEN a \in 0 .. n - 1 /\ F(p, a) = ImageFrame(a) /\ F(p, a) \in ImagePages(n)
           ELSE F(p, a) = 0
  BY ExecEntries
<1>3. ImagePages(n) \subseteq Listed /\ ImagePages(n) \subseteq Frames
      /\ \A a, b \in 0 .. n - 1 : ImageFrame(a) = ImageFrame(b) => a = b
  BY <1>1, ImageFacts
<1>4. /\ state[p] # "unused" /\ state' = state
      /\ teardowns' = teardowns + 1 /\ teardowns \in Nat /\ teardowns' \in Nat
  BY ExecSlot, MemorySizes DEF CowInvariant
<1>5. \A q \in Procs, b \in Pages :
        /\ <<q, b>> \in Mappers(f) <=> state[q] # "unused" /\ pte[q][b].f = f
        /\ <<q, b>> \in Mappers(f)' <=> state[q] # "unused" /\ F(q, b) = f
  BY <1>4, MapperFacts
<1>6. f # 0 /\ \E q \in Procs, a \in Pages : F(q, a) = f
  BY DEF Mapped
<1>7. CASE f \in ImagePages(n)
  <2>1. \A q \in Procs, b \in Pages : pte[q][b].f # f
    <3> SUFFICES ASSUME NEW q \in Procs, NEW b \in Pages, pte[q][b].f = f PROVE FALSE
      OBVIOUS
    <3>1. pte[q][b].f \notin Listed
      BY <1>6, CountFacts
    <3> QED
      BY <1>3, <1>7, <3>1
  <2> HIDE DEF F
  <2>2. PICK a \in Pages : F(p, a) = f
    BY <1>2, <1>6, <2>1
  <2>3. \A q \in Procs, b \in Pages : F(q, b) = f => q = p /\ b = a
    BY <1>2, <1>3, <1>6, <2>1, <2>2
  <2>4. Mappers(f)' = {<<p, a>>}
    <3>1. \A q \in Procs, b \in Pages : <<q, b>> \in Mappers(f)' <=> <<q, b>> = <<p, a>>
      BY <1>4, <1>5, <2>2, <2>3
    <3>2. \A x \in Procs \X Pages : x \in Mappers(f)' <=> x = <<p, a>>
      BY <3>1
    <3> QED
      BY <3>2, MappersArePairs
  <2>5. ref'[f] = 1
    <3>1. ref[f] = 0
      BY <1>3, <1>7, <2>2 DEF CleanStep, F
    <3>2. ref'[f] = (ref[f] + 1) % RefRange
      BY <1>7, ExecMemory
    <3> QED
      BY <3>1, <3>2, OneFits, CountsAreBytes
  <2> QED
    BY <1>4, <2>4, <2>5, FreshCount
<1>8. CASE f \notin ImagePages(n)
  <2> HIDE DEF F
  <2>1. PICK q \in Procs, a \in Pages : F(q, a) = f
    BY <1>6
  <2>2. q # p
    BY <1>2, <1>6, <1>8, <2>1
  <2>3. f \in Mapped
    BY <1>2, <1>6, <2>1, <2>2 DEF Mapped
  <2>4. f \in Frames /\ f \notin KernelUsed /\ CountOK(f)
    BY <2>3, MappedFacts DEF CowInvariant
  <2>5. ref'[f] = ref[f]
    <3>1. TableFrames(p) \subseteq KernelUsed
      BY ExecMemory
    <3>2. f \in Frames \ (ImagePages(n) \cup TableFrames(p))
      BY <1>8, <2>4, <3>1
    <3> QED
      BY <3>2, ExecMemory
  <2>6. Mappers(f)' \subseteq Mappers(f)
    <3>1. \A r \in Procs, b \in Pages : <<r, b>> \in Mappers(f)' => <<r, b>> \in Mappers(f)
      BY <1>2, <1>5, <1>6, <1>8
    <3>2. \A x \in Procs \X Pages : x \in Mappers(f)' => x \in Mappers(f)
      BY <3>1
    <3> QED
      BY <3>2, MappersArePairs
  <2>7. Cardinality(Unused') + teardowns <= Cardinality(Unused) + teardowns' /\ teardowns' # 0
    <3>1. Unused' = Unused
      BY <1>4 DEF Unused
    <3>2. Cardinality(Unused) \in Nat
      BY MappersFinite, FS_CardinalityType
    <3> QED
      BY <1>4, <3>1, <3>2
  <2> QED
    BY <1>1, <1>4, <2>4, <2>5, <2>6, <2>7, KeptCount
<1> QED
  BY <1>7, <1>8

\* exec keeps the invariant.
LEMMA ExecKeeps ==
  ASSUME CountsFit, CowInvariant, CleanStep, NEW p \in Procs, NEW n \in 1 .. MaxPages, NEW v \in Values,
         Exec(p, n, v)
  PROVE  CowInvariant'
<1>1. teardowns' \in 0 .. MaxTeardowns
  <2>1. teardowns' = teardowns + 1 /\ teardowns < MaxTeardowns
    BY ExecSlot
  <2> QED
    BY <2>1, MemorySizes DEF CowInvariant
<1> QED
  BY <1>1, ExecTypes, ExecSlots, ExecFrames, ExecSharing, ExecCounts DEF CowInvariant

-----------------------------------------------------------------------------
(* The first process.                                                       *)

\* The elements of two sequences put together.
LEMMA ConcatFacts ==
  ASSUME NEW S, NEW s \in Seq(S), NEW t \in Seq(S)
  PROVE  /\ s \o t \in Seq(S) /\ Len(s \o t) = Len(s) + Len(t)
         /\ \A i \in 1 .. Len(s) + Len(t) : (s \o t)[i] = IF i <= Len(s) THEN s[i] ELSE t[i - Len(s)]
OBVIOUS

\* Its pages are frame 8 and those from 10; the list has frames 2 to 5 and those after
\* its pages.
LEMMA InitFrames ==
  ASSUME Init
  PROVE  /\ InitPages \in Nat /\ InitPages >= 1 /\ InitPages <= MaxPages /\ NFrames >= 8 + InitPages
         /\ \A a \in 0 .. InitPages - 1 : BootImage(a) \in {8} \cup (10 .. 8 + InitPages)
         /\ \A a, b \in 0 .. InitPages - 1 : BootImage(a) = BootImage(b) => a = b
         /\ free \in Seq(Frames) /\ Listed \subseteq (2 .. 5) \cup (9 + InitPages .. NFrames)
         /\ Len(free) = NFrames - 4 - InitPages
         /\ \A i \in 5 .. Len(free) : free[i] = 4 + InitPages + i
<1>1. InitPages \in Nat /\ InitPages >= 1 /\ InitPages <= MaxPages /\ NFrames >= 8 + InitPages
  BY MemorySizes
<1>2. \A a \in 0 .. InitPages - 1 : BootImage(a) \in {8} \cup (10 .. 8 + InitPages)
  BY <1>1 DEF BootImage
<1>3. \A a, b \in 0 .. InitPages - 1 : BootImage(a) = BootImage(b) => a = b
  BY <1>1 DEF BootImage
<1> DEFINE n == NFrames - 8 - InitPages
           s == <<2, 3, 5, 4>>
           t == [i \in 1 .. n |-> 8 + InitPages + i]
<1>4. n \in Nat /\ NFrames \in Nat
  BY <1>1, MemorySizes
<1>5. s \in Seq(Frames) /\ Len(s) = 4 /\ \A i \in 1 .. 4 : s[i] \in 2 .. 5
  BY <1>1, <1>4 DEF Frames
<1>6. \A i \in 1 .. n : 8 + InitPages + i \in 9 + InitPages .. NFrames /\ 8 + InitPages + i \in Frames
  BY <1>1, <1>4 DEF Frames
<1>7. t \in Seq(Frames) /\ Len(t) = n
      /\ \A i \in 1 .. n : t[i] \in 9 + InitPages .. NFrames /\ t[i] = 8 + InitPages + i
  BY <1>4, <1>6
<1>8. free = s \o t
  BY DEF Init
<1>8a. n = NFrames - 8 - InitPages
  OBVIOUS
<1> HIDE DEF n, s, t
<1>9. /\ free \in Seq(Frames) /\ Len(free) = 4 + n
      /\ \A i \in 1 .. 4 + n : free[i] = IF i <= 4 THEN s[i] ELSE t[i - 4]
  <2>1. s \in Seq(Frames) /\ t \in Seq(Frames) /\ Len(s) = 4 /\ Len(t) = n
    BY <1>5, <1>7
  <2>2. /\ s \o t \in Seq(Frames) /\ Len(s \o t) = Len(s) + Len(t)
        /\ \A i \in 1 .. Len(s) + Len(t) : (s \o t)[i] = IF i <= Len(s) THEN s[i] ELSE t[i - Len(s)]
    BY <2>1, ConcatFacts
  <2> QED
    BY <1>8, <2>1, <2>2
<1>10. ASSUME NEW i \in 1 .. 4 + n PROVE free[i] \in (2 .. 5) \cup (9 + InitPages .. NFrames)
  <2>1. CASE i <= 4
    <3>1. i \in 1 .. 4
      BY <1>4, <2>1
    <3> QED
      BY <1>5, <1>9, <2>1, <3>1
  <2>2. CASE ~(i <= 4)
    <3>1. i - 4 \in 1 .. n
      BY <1>4, <2>2
    <3> QED
      BY <1>7, <1>9, <2>2, <3>1
  <2> QED
    BY <2>1, <2>2
<1>11. Listed \subseteq (2 .. 5) \cup (9 + InitPages .. NFrames)
  BY <1>9, <1>10 DEF Listed
<1>12. Len(free) = NFrames - 4 - InitPages
  BY <1>1, <1>4, <1>8a, <1>9
<1>13. ASSUME NEW i \in 5 .. Len(free) PROVE free[i] = 4 + InitPages + i
  <2>1. i \in 1 .. 4 + n /\ ~(i <= 4) /\ i - 4 \in 1 .. n
    BY <1>4, <1>9, <1>13
  <2>2. free[i] = t[i - 4] /\ t[i - 4] = 8 + InitPages + (i - 4)
    BY <1>7, <1>9, <2>1
  <2> QED
    BY <1>1, <2>1, <2>2
<1> QED
  BY <1>1, <1>2, <1>3, <1>9, <1>11, <1>12, <1>13

\* Its entries and kernel frames.
LEMMA InitEntries ==
  ASSUME Init
  PROVE  /\ pte \in [Procs -> [Pages -> Entry]]
         /\ \A q \in Procs, a \in Pages :
              IF q = InitProc /\ a < InitPages
              THEN a \in 0 .. InitPages - 1 /\ pte[q][a].f = BootImage(a)
              ELSE pte[q][a].f = 0 /\ ~pte[q][a].w
         /\ /\ Kernel("kstack", InitProc) = 1 /\ Kernel("pgdir", InitProc) = 6
            /\ Kernel("kpt", InitProc) = 7 /\ Kernel("upt", InitProc) = 9
         /\ \A q \in Procs \ {InitProc}, k \in Kinds : Kernel(k, q) = 0
         /\ \A q \in Procs : mpt[q] = 0
<1>1. InitPages \in Nat /\ NFrames >= 8 + InitPages /\ NFrames \in Nat /\ InitPages >= 1
      /\ \A a \in 0 .. InitPages - 1 : BootImage(a) \in {8} \cup (10 .. 8 + InitPages)
  BY InitFrames, MemorySizes
<1> DEFINE E(q, a) == IF q = InitProc /\ a < InitPages
                      THEN [f |-> BootImage(a), w |-> a \notin TextPages, cow |-> FALSE]
                      ELSE NoPte
<1>2. pte = [q \in Procs |-> [a \in Pages |-> E(q, a)]]
  BY DEF Init
<1>3. ASSUME NEW q \in Procs, NEW a \in Pages
      PROVE  /\ E(q, a) \in Entry
             /\ IF q = InitProc /\ a < InitPages
                THEN a \in 0 .. InitPages - 1 /\ E(q, a).f = BootImage(a)
                ELSE E(q, a).f = 0 /\ ~E(q, a).w
  <2>1. CASE q = InitProc /\ a < InitPages
    <3>1. a \in 0 .. InitPages - 1
      BY <1>1, <2>1, SizeFacts
    <3>2. BootImage(a) \in 0 .. NFrames
      BY <1>1, <3>1
    <3> QED
      BY <2>1, <3>1, <3>2 DEF Entry
  <2>2. CASE ~(q = InitProc /\ a < InitPages)
    BY <2>2, FrameFacts DEF NoPte, Entry
  <2> QED
    BY <2>1, <2>2
<1> HIDE DEF E
<1>4. pte \in [Procs -> [Pages -> Entry]] /\ \A q \in Procs, a \in Pages : pte[q][a] = E(q, a)
  BY <1>2, <1>3
<1>5. /\ Kernel("kstack", InitProc) = 1 /\ Kernel("pgdir", InitProc) = 6
      /\ Kernel("kpt", InitProc) = 7 /\ Kernel("upt", InitProc) = 9
  BY InitIsProc DEF Init, Kernel
<1>6. \A q \in Procs \ {InitProc}, k \in Kinds : Kernel(k, q) = 0
  BY DEF Init, Kernel, Kinds
<1>7. \A q \in Procs : mpt[q] = 0
  BY DEF Init
<1> QED
  BY <1>3, <1>4, <1>5, <1>6, <1>7

\* Types at the start.
LEMMA InitTypes ==
  ASSUME Init
  PROVE  CowTypeOK
<1>1. NFrames \in Nat /\ NFrames >= 8 + InitPages /\ InitPages \in Nat /\ InitPages <= MaxPages
      /\ InitPages >= 1 /\ free \in Seq(Frames)
  BY InitFrames, MemorySizes
<1>2. pte \in [Procs -> [Pages -> Entry]]
  BY InitEntries
<1>3. ref \in [Frames -> 0 .. RefRange - 1]
  <2>1. 0 \in 0 .. RefRange - 1 /\ 1 \in 0 .. RefRange - 1 /\ RefRange - 1 \in 0 .. RefRange - 1
    BY MemorySizes
  <2> QED
    BY <2>1 DEF Init
<1>4. data \in [Frames -> Values \cup {Junk}]
  BY DEF Init
<1>5. /\ state \in [Procs -> {"unused", "run", "zombie"}] /\ parent \in [Procs -> Procs]
      /\ sz \in [Procs -> 0 .. MaxPages] /\ maps \in [Procs -> SUBSET Maps]
  BY <1>1, InitIsProc, SizeFacts DEF Init
<1>6. mpte \in [Procs -> [Maps -> Entry]]
  <2>1. NoPte \in Entry
    BY FrameFacts DEF NoPte, Entry
  <2> QED
    BY <2>1 DEF Init
<1>7. /\ kstack \in [Procs -> 0 .. NFrames] /\ pgdir \in [Procs -> 0 .. NFrames]
      /\ kpt \in [Procs -> 0 .. NFrames] /\ upt \in [Procs -> 0 .. NFrames]
      /\ mpt \in [Procs -> 0 .. NFrames]
  <2>1. \A i \in {0, 1, 6, 7, 9} : i \in 0 .. NFrames
    BY <1>1
  <2> QED
    BY <2>1 DEF Init
<1> QED
  BY <1>1, <1>2, <1>3, <1>4, <1>5, <1>6, <1>7 DEF CowTypeOK

\* The invariant at the start.
LEMMA InitKeeps ==
  ASSUME CountsFit, Init
  PROVE  CowInvariant
<1>1. CowTypeOK
  BY InitTypes
<1>2. /\ InitPages \in Nat /\ InitPages >= 1 /\ NFrames \in Nat
      /\ \A a \in 0 .. InitPages - 1 : BootImage(a) \in {8} \cup (10 .. 8 + InitPages)
      /\ \A a, b \in 0 .. InitPages - 1 : BootImage(a) = BootImage(b) => a = b
      /\ Listed \subseteq (2 .. 5) \cup (9 + InitPages .. NFrames)
  BY InitFrames, MemorySizes
<1>3. \A q \in Procs, a \in Pages :
        IF q = InitProc /\ a < InitPages
        THEN a \in 0 .. InitPages - 1 /\ pte[q][a].f = BootImage(a)
        ELSE pte[q][a].f = 0 /\ ~pte[q][a].w
  BY InitEntries
<1>4. /\ Kernel("kstack", InitProc) = 1 /\ Kernel("pgdir", InitProc) = 6
      /\ Kernel("kpt", InitProc) = 7 /\ Kernel("upt", InitProc) = 9
  BY InitEntries
<1>5. \A q \in Procs \ {InitProc}, k \in Kinds : Kernel(k, q) = 0
  BY InitEntries
<1>6. /\ teardowns = 0 /\ InitProc \in Procs /\ state[InitProc] = "run" /\ sz[InitProc] = InitPages
      /\ \A q \in Procs \ {InitProc} : state[q] = "unused" /\ sz[q] = 0
  BY InitIsProc DEF Init
<1>7. Kinds = {"kstack", "pgdir", "kpt", "upt"} /\ \A q \in Procs : mpt[q] = 0
  BY InitEntries DEF Kinds
<1>8. \A a \in 0 .. InitPages - 1 : BootImage(a) # 0
  BY <1>2
<1>9. SlotsOK
  <2> SUFFICES ASSUME NEW q \in Procs
               PROVE  /\ mpt[q] = 0
                      /\ \A k \in Kinds : Kernel(k, q) = 0 <=> state[q] = "unused"
                      /\ state[q] = "unused" => sz[q] = 0
                      /\ state[q] # "unused" => sz[q] >= 1
                      /\ \A a \in Pages :
                           /\ a < sz[q] => pte[q][a].f # 0
                           /\ state[q] = "unused" => pte[q][a].f = 0
                           /\ pte[q][a].f = 0 => ~pte[q][a].w
    BY DEF SlotsOK
  <2>1. CASE q = InitProc
    <3>1. \A k \in Kinds : Kernel(k, q) # 0
      BY <1>4, <1>7, <2>1
    <3>2. \A a \in Pages : /\ a < sz[q] => pte[q][a].f # 0
                           /\ pte[q][a].f = 0 => ~pte[q][a].w
      BY <1>3, <1>6, <1>8, <2>1
    <3> QED
      BY <1>2, <1>6, <1>7, <2>1, <3>1, <3>2
  <2>2. CASE q # InitProc
    <3>1. \A a \in Pages : ~(a < sz[q]) /\ pte[q][a].f = 0 /\ ~pte[q][a].w
      BY <1>3, <1>6, <2>2, SizeFacts
    <3> QED
      BY <1>5, <1>6, <1>7, <2>2, <3>1
  <2> QED
    BY <2>1, <2>2
<1>10. KernelApart
  <2> SUFFICES ASSUME NEW q \in Procs, NEW r \in Procs, NEW k \in Kinds, NEW l \in Kinds,
                      Kernel(k, q) = Kernel(l, r), Kernel(k, q) # 0
               PROVE  q = r /\ k = l
    BY DEF KernelApart
  <2>1. q = InitProc /\ r = InitProc
    BY <1>5
  <2> QED
    BY <1>4, <1>7, <2>1
<1>11. KernelUsed \subseteq {1, 6, 7, 9}
  <2> SUFFICES ASSUME NEW q \in Procs, NEW k \in Kinds, Kernel(k, q) # 0 PROVE Kernel(k, q) \in {1, 6, 7, 9}
    BY DEF KernelUsed
  <2>1. q = InitProc
    BY <1>5
  <2> QED
    BY <1>4, <1>7, <2>1
<1>12. Mapped \subseteq {8} \cup (10 .. 8 + InitPages)
  <2> SUFFICES ASSUME NEW q \in Procs, NEW a \in Pages, pte[q][a].f # 0
               PROVE  pte[q][a].f \in {8} \cup (10 .. 8 + InitPages)
    BY DEF Mapped
  <2>1. q = InitProc /\ a < InitPages
    BY <1>3
  <2> QED
    BY <1>2, <1>3, <2>1
<1>13. FramesApart
  <2>1. ({8} \cup (10 .. 8 + InitPages)) \cap {1, 6, 7, 9} = {}
    BY <1>2
  <2>2. ((2 .. 5) \cup (9 + InitPages .. NFrames)) \cap ({8} \cup (10 .. 8 + InitPages)) = {}
    BY <1>2
  <2>3. ((2 .. 5) \cup (9 + InitPages .. NFrames)) \cap {1, 6, 7, 9} = {}
    BY <1>2
  <2> QED
    BY <1>2, <1>11, <1>12, <2>1, <2>2, <2>3 DEF FramesApart
<1>14. OnePlace
  BY <1>2, <1>3 DEF OnePlace
<1>15. \A q \in Procs : state[q] # "unused" => q = InitProc
  BY <1>6
<1>16. WritableIsUnshared
  <2> SUFFICES ASSUME NEW a \in Pages, NEW b \in Pages, pte[InitProc][a].w,
                      pte[InitProc][b].f = pte[InitProc][a].f
               PROVE  a = b
    BY <1>15 DEF WritableIsUnshared
  <2>1. a < InitPages /\ pte[InitProc][a].f # 0
    BY <1>3, <1>6, <1>8
  <2> QED
    BY <1>6, <1>14, <2>1 DEF OnePlace
<1>17. ASSUME NEW f \in Mapped PROVE CountOK(f)
  <2>1. PICK a \in Pages : pte[InitProc][a].f = f /\ f # 0
    <3>1. PICK q \in Procs, a \in Pages : pte[q][a].f = f /\ f # 0
      BY <1>17 DEF Mapped
    <3> QED
      BY <1>3, <3>1
  <2>2. a \in 0 .. InitPages - 1 /\ f = BootImage(a)
    BY <1>3, <1>6, <2>1
  <2>3. Mappers(f) = {<<InitProc, a>>}
    <3>1. ASSUME NEW q \in Procs, NEW b \in Pages
          PROVE  <<q, b>> \in Mappers(f) <=> <<q, b>> = <<InitProc, a>>
      <4>1. <<q, b>> \in Mappers(f) <=> state[q] # "unused" /\ pte[q][b].f = f
        BY MapperFacts
      <4> QED
        BY <1>6, <1>14, <2>1, <4>1 DEF OnePlace
    <3>2. \A x \in Procs \X Pages : x \in Mappers(f) <=> x = <<InitProc, a>>
      BY <3>1
    <3> QED
      BY <1>6, <3>2, MappersArePairs
  <2>4. Cardinality(Mappers(f)) = 1
    BY <2>3, FS_Singleton
  <2>5. f \in {8} \cup (10 .. 8 + InitPages) /\ f \in Frames
    <3>1. NFrames >= 8 + InitPages
      BY MemorySizes
    <3> QED
      BY <1>2, <2>2, <3>1 DEF Frames
  <2>6. ref[f] = 1
    <3>1. f \notin {3, 5}
      BY <1>2, <2>5
    <3> QED
      BY <2>2, <2>5, <3>1 DEF Init
  <2>7. Unused = Procs \ {InitProc}
    BY <1>6 DEF Unused
  <2>8. IsFiniteSet(Procs) /\ Cardinality(Procs) \in Nat
    BY FS_CardinalityType DEF CountsFit
  <2>9. Cardinality(Unused) = Cardinality(Procs) - 1
    BY <1>6, <2>7, <2>8, FS_RemoveElement
  <2> QED
    BY <1>6, <2>4, <2>6, <2>8, <2>9 DEF CountOK
<1>18. teardowns \in 0 .. MaxTeardowns
  BY <1>6, MemorySizes
<1> QED
  BY <1>1, <1>9, <1>10, <1>13, <1>14, <1>16, <1>17, <1>18 DEF CowInvariant

-----------------------------------------------------------------------------
(* Every step.                                                              *)

\* Nothing can be done with a mapping region that has no page.
LEMMA NoMapSteps ==
  ASSUME CountsFit, CowInvariant
  PROVE  ~\E p \in Procs, m \in Maps :
            LazyFault(p, m) \/ Wmap(p, m) \/ Wunmap(p, m) \/ \E v \in Values : MapStore(p, m, v)
BY NoMaps

\* Every step keeps the invariant.
LEMMA NextKeeps ==
  ASSUME CountsFit, CowInvariant, [Next /\ CleanStep]_vars
  PROVE  CowInvariant'
<1>1. CASE UNCHANGED vars
  BY <1>1, StutterKeeps DEF vars
<1> SUFFICES ASSUME Next, CleanStep PROVE CowInvariant'
  BY <1>1
<1>2. CASE \E p, c \in Procs : Fork(p, c)
  BY <1>2, ForkKeeps
<1>3. CASE \E p, c \in Procs : Wait(p, c)
  BY <1>3, WaitKeeps
<1>4. CASE \E p \in Procs : ForkFailsInCopy(p)
  BY <1>4, ForkFailsKeeps
<1>5. \A p \in Procs : ~ForkFailsInMaps(p)
  BY NothingMapped DEF ForkFailsInMaps, CowInvariant
<1>6. CASE \E p \in Procs : Grow(p)
  BY <1>6, GrowKeeps
<1>7. CASE \E p \in Procs : Shrink(p)
  BY <1>7, ShrinkKeeps
<1>8. CASE \E p \in Procs : Exit(p)
  BY <1>8, ExitKeeps
<1>9. CASE \E p \in Procs, a \in Pages : CowFault(p, a)
  BY <1>9, CowFaultKeeps
<1>10. CASE \E p \in Procs, a \in Pages, v \in Values : Store(p, a, v)
  BY <1>10, StoreKeeps
<1>11. CASE \E p \in Procs, n \in 1 .. MaxPages, v \in Values : Exec(p, n, v)
  BY <1>11, ExecKeeps
<1>12. CASE \E p \in Procs, n \in 1 .. MaxPages : ExecPanics(p, n)
  BY <1>12, StutterKeeps DEF ExecPanics, Panic
<1>13. CASE \E p \in Procs : ExecFails(p)
  BY <1>13, ExecFailsKeeps
<1> QED
  BY <1>2, <1>3, <1>4, <1>5, <1>6, <1>7, <1>8, <1>9, <1>10, <1>11, <1>12, <1>13, NoMapSteps DEF Next

\* In every such behaviour slots, entries, frames and counts agree: a frame has one purpose,
\* and the count of a page is at least the number of entries that map it.
THEOREM CowInvariantHolds == CountsFit => (CleanSpec => []CowInvariant)
<1> SUFFICES ASSUME CountsFit PROVE CleanSpec => []CowInvariant
  OBVIOUS
<1>1. Init => CowInvariant
  BY InitKeeps
<1>2. CowInvariant /\ [Next /\ CleanStep]_vars => CowInvariant'
  BY NextKeeps
<1> QED
  BY <1>1, <1>2, PTL DEF CleanSpec

-----------------------------------------------------------------------------
(* What the invariant says of memory and counts.                            *)

\* Every frame in use is mapped or the kernel uses it.
LEMMA InUseFacts ==
  ASSUME CountsFit, CowTypeOK, SlotsOK
  PROVE  InUse \subseteq Mapped \cup KernelUsed
<1> SUFFICES ASSUME NEW p \in Procs, NEW f \in KernelFrames(p) \cup UserFrames(p)
             PROVE  f \in Mapped \cup KernelUsed
  BY DEF InUse
<1>1. f # 0
  BY DEF KernelFrames, UserFrames
<1>2. CASE f \in KernelFrames(p)
  <2>1. f # mpt[p]
    BY <1>1 DEF SlotsOK
  <2>2. f \in {kstack[p], pgdir[p], kpt[p], upt[p]}
    BY <1>2, <2>1 DEF KernelFrames
  <2>3. \E k \in Kinds : f = Kernel(k, p)
    BY <2>2 DEF Kinds, Kernel
  <2> QED
    BY <1>1, <2>3 DEF KernelUsed
<1>3. CASE f \in UserFrames(p)
  BY <1>1, <1>3, NoMaps DEF UserFrames, Mapped
<1> QED
  BY <1>2, <1>3

\* Memory is sound where the invariant holds.
LEMMA SoundWhere == CountsFit /\ CowInvariant => MemorySound
<1> SUFFICES ASSUME CountsFit, CowInvariant PROVE MemorySound
  OBVIOUS
<1>1. CowTypeOK /\ SlotsOK /\ FramesApart
  BY DEF CowInvariant
<1>2. InUse \cap Listed = {}
  BY <1>1, InUseFacts DEF FramesApart
<1>3. NoUseAfterFree
  BY <1>2 DEF NoUseAfterFree, Listed
<1> QED
  BY <1>1, <1>3 DEF MemorySound

\* Counts are exact, before any page table is torn down, where the invariant holds.
LEMMA ExactWhere == CountsFit /\ CowInvariant /\ teardowns = 0 => CountsMappers
<1> SUFFICES ASSUME CountsFit, CowInvariant, teardowns = 0, NEW p \in Procs, NEW a \in Pages,
                    NEW f, f = pte[p][a].f, f # 0
             PROVE  ref[f] = Cardinality(Mappers(f)) % RefRange
  BY DEF CountsMappers
<1>1. f \in Mapped /\ ref[f] \in 0 .. RefRange - 1
  BY CountFacts
<1>2. ref[f] = Cardinality(Mappers(f))
  BY <1>1 DEF CowInvariant, CountOK
<1> QED
  BY <1>1, <1>2, CountsAreBytes

\* With counts that start at 0, no frame in use, by the kernel or a process, is on the
\* free list, through forks, faults, sbrk, execs, exits and waits: kalloc never hands
\* out a page in use.
THEOREM MemoryStaysSound == CountsFit => (CleanSpec => []MemorySound)
<1> SUFFICES ASSUME CountsFit PROVE CleanSpec => []MemorySound
  OBVIOUS
<1>1. CowInvariant => MemorySound
  BY SoundWhere
<1>2. CleanSpec => []CowInvariant
  BY CowInvariantHolds
<1> QED
  BY <1>1, <1>2, PTL

\* A page that a process may write in place is mapped nowhere else.
THEOREM WritableStaysUnshared == CountsFit => (CleanSpec => []WritableIsUnshared)
<1> SUFFICES ASSUME CountsFit PROVE CleanSpec => []WritableIsUnshared
  OBVIOUS
<1>1. CowInvariant => WritableIsUnshared
  BY DEF CowInvariant
<1>2. CleanSpec => []CowInvariant
  BY CowInvariantHolds
<1> QED
  BY <1>1, <1>2, PTL

\* Until the first page table is torn down, the count of a page is the number of
\* entries that map it.
THEOREM CountsStayExact == CountsFit => (CleanSpec => [](teardowns = 0 => CountsMappers))
<1> SUFFICES ASSUME CountsFit PROVE CleanSpec => [](teardowns = 0 => CountsMappers)
  OBVIOUS
<1>1. CowInvariant => (teardowns = 0 => CountsMappers)
  BY ExactWhere
<1>2. CleanSpec => []CowInvariant
  BY CowInvariantHolds
<1> QED
  BY <1>1, <1>2, PTL

-----------------------------------------------------------------------------
(* The private memories: what each step does to what processes see.         *)

\* The two variables of PrivateMemory.
Live == {p \in Procs : state[p] = "run"}
Image == [p \in Procs |-> [a \in Pages |->
            IF state[p] = "run" /\ a < sz[p] THEN data[pte[p][a].f] ELSE None]]

\* A page of a process that runs: its frame is mapped, and it has a content.
LEMMA SeenFacts ==
  ASSUME CountsFit, CowInvariant, NEW q \in Procs, NEW a \in Pages, state[q] = "run", a < sz[q]
  PROVE  /\ pte[q][a].f # 0 /\ pte[q][a].f \in Mapped /\ pte[q][a].f \in Frames
         /\ pte[q][a].f \notin Listed /\ pte[q][a].f \notin KernelUsed
         /\ data[pte[q][a].f] # None /\ Image[q][a] = data[pte[q][a].f]
<1>1. pte[q][a].f # 0
  BY DEF CowInvariant, SlotsOK
<1>2. /\ pte[q][a].f \in Mapped /\ pte[q][a].f \in Frames
      /\ pte[q][a].f \notin Listed /\ pte[q][a].f \notin KernelUsed
  BY <1>1, CountFacts
<1>3. data[pte[q][a].f] \in Values \cup {Junk}
  BY <1>2 DEF CowInvariant, CowTypeOK
<1> QED
  BY <1>1, <1>2, <1>3, NoneIsNoPage DEF Image

\* Nothing else is seen.
LEMMA UnseenFacts ==
  ASSUME NEW q \in Procs, NEW a \in Pages, ~(state[q] = "run" /\ a < sz[q])
  PROVE  Image[q][a] = None
BY DEF Image

\* What is seen after a step.
LEMMA SeenAfter ==
  ASSUME NEW q \in Procs, NEW a \in Pages
  PROVE  Image'[q][a] = IF state'[q] = "run" /\ a < sz'[q] THEN data'[pte'[q][a].f] ELSE None
BY DEF Image

\* A process whose size and pages have the same contents sees the same.
LEMMA SeesTheSame ==
  ASSUME NEW q \in Procs, state'[q] = "run" <=> state[q] = "run", sz'[q] = sz[q],
         \A a \in Pages : state[q] = "run" /\ a < sz[q] => data'[pte'[q][a].f] = data[pte[q][a].f]
  PROVE  Image'[q] = Image[q]
<1>1. \A a \in Pages : Image'[q][a] = Image[q][a]
  BY SeenAfter DEF Image
<1>2. Image[q] = [a \in Pages |-> Image[q][a]] /\ Image'[q] = [a \in Pages |-> Image'[q][a]]
  BY DEF Image
<1> QED
  BY <1>1, <1>2

\* A step after which everyone sees the same is a stutter.
LEMMA NothingSeen ==
  ASSUME Live' = Live, \A q \in Procs : Image'[q] = Image[q]
  PROVE  UNCHANGED PM!pvars
<1>1. Image' = Image
  BY DEF Image
<1> QED
  BY <1>1 DEF PM!pvars, Live, Image

\* One entry of an image is set.
LEMMA OneSeen ==
  ASSUME NEW p \in Procs, NEW a \in Pages, NEW v,
         Image'[p][a] = v, \A q \in Procs, b \in Pages : <<q, b>> # <<p, a>> => Image'[q][b] = Image[q][b]
  PROVE  Image' = [Image EXCEPT ![p][a] = v]
<1> DEFINE E == [Image EXCEPT ![p][a] = v]
<1>1. E = [q \in Procs |-> [b \in Pages |-> E[q][b]]]
  BY DEF Image
<1>2. \A q \in Procs, b \in Pages : E[q][b] = IF q = p /\ b = a THEN v ELSE Image[q][b]
  BY DEF Image
<1>3. \A q \in Procs, b \in Pages : Image'[q][b] = E[q][b]
  BY <1>2
<1> HIDE DEF E
<1>4. Image' = [q \in Procs |-> [b \in Pages |-> Image'[q][b]]]
  BY DEF Image
<1>5. Image' = E
  BY <1>1, <1>3, <1>4
<1> QED
  BY <1>5 DEF E

\* The image of one process is set.
LEMMA OneImage ==
  ASSUME NEW p \in Procs, NEW i, Image'[p] = i, \A q \in Procs \ {p} : Image'[q] = Image[q]
  PROVE  Image' = [Image EXCEPT ![p] = i]
<1> DEFINE E == [Image EXCEPT ![p] = i]
<1>1. E = [q \in Procs |-> E[q]] /\ E[p] = i /\ \A q \in Procs \ {p} : E[q] = Image[q]
  BY DEF Image
<1>2. \A q \in Procs : Image'[q] = E[q]
  BY <1>1
<1> HIDE DEF E
<1>3. Image' = [q \in Procs |-> Image'[q]]
  BY DEF Image
<1>4. Image' = E
  BY <1>1, <1>2, <1>3
<1> QED
  BY <1>4 DEF E

\* A step that keeps states, sizes, frames and the contents of mapped frames is not seen.
LEMMA QuietMaps ==
  ASSUME CountsFit, CowInvariant, UNCHANGED <<state, sz>>,
         \A q \in Procs, a \in Pages : pte'[q][a].f = pte[q][a].f,
         \A f \in Mapped : data'[f] = data[f]
  PROVE  UNCHANGED PM!pvars
<1>1. ASSUME NEW q \in Procs PROVE Image'[q] = Image[q]
  <2>1. \A a \in Pages : state[q] = "run" /\ a < sz[q] => data'[pte'[q][a].f] = data[pte[q][a].f]
    BY SeenFacts
  <2> QED
    BY <2>1, SeesTheSame
<1>2. Live' = Live
  BY DEF Live
<1> QED
  BY <1>1, <1>2, NothingSeen

\* A store is seen by the process that stores, in that page.
LEMMA StoreMaps ==
  ASSUME CountsFit, CowInvariant, NEW p \in Procs, NEW a \in Pages, NEW v \in Values, Store(p, a, v)
  PROVE  PM!PMStore(p, a, v)
<1>1. /\ state[p] = "run" /\ a < sz[p] /\ pte[p][a].w
      /\ UNCHANGED <<state, sz, pte>> /\ data' = [data EXCEPT ![pte[p][a].f] = v]
  BY DEF Store, Running, InSize, procVars
<1>2. pte[p][a].f \in Frames /\ data \in [Frames -> Values \cup {Junk}] /\ Image[p][a] # None
  <2>1. pte[p][a].f \in Frames /\ Image[p][a] # None
    BY <1>1, SeenFacts
  <2> QED
    BY <2>1 DEF CowInvariant, CowTypeOK
<1>3. Image'[p][a] = v
  BY <1>1, <1>2, SeenAfter
<1>4. ASSUME NEW q \in Procs, NEW b \in Pages, <<q, b>> # <<p, a>>
      PROVE  Image'[q][b] = Image[q][b]
  <2>1. CASE state[q] = "run" /\ b < sz[q]
    <3>1. pte[q][b].f \in Frames /\ Image[q][b] = data[pte[q][b].f]
      BY <2>1, SeenFacts
    <3>2. pte[q][b].f # pte[p][a].f
      BY <1>1, <1>4, <2>1 DEF CowInvariant, WritableIsUnshared
    <3> QED
      BY <1>1, <1>2, <2>1, <3>1, <3>2, SeenAfter
  <2>2. CASE ~(state[q] = "run" /\ b < sz[q])
    BY <1>1, <2>2, SeenAfter, UnseenFacts
  <2> QED
    BY <2>1, <2>2
<1>5. Image' = [Image EXCEPT ![p][a] = v]
  BY <1>3, <1>4, OneSeen
<1>6. Live' = Live /\ p \in Live
  BY <1>1 DEF Live
<1> QED
  BY <1>2, <1>5, <1>6 DEF PM!PMStore, Live, Image

\* The child of a fork sees what its parent sees, and nobody else sees a difference.
LEMMA ForkMaps ==
  ASSUME CountsFit, CowInvariant, NEW p \in Procs, NEW c \in Procs, Fork(p, c)
  PROVE  PM!PMFork(p, c)
<1>1. /\ state[p] = "run" /\ state[c] = "unused"
      /\ state' = [state EXCEPT ![c] = "run"] /\ sz' = [sz EXCEPT ![c] = sz[p]]
  BY DEF Fork, Running
<1>2. data' = data
  BY ForkMemory
<1>3. \A q \in Procs, a \in Pages :
        /\ q # c => pte'[q][a].f = pte[q][a].f
        /\ pte'[c][a].f = (IF a < sz[p] THEN pte[p][a].f ELSE 0)
  BY ForkEntries
<1>4. state'[c] = "run" /\ sz'[c] = sz[p] /\ \A q \in Procs \ {c} : state'[q] = state[q] /\ sz'[q] = sz[q]
  BY <1>1 DEF CowInvariant, CowTypeOK
<1>5. \A q \in Procs \ {c} : Image'[q] = Image[q]
  BY <1>2, <1>3, <1>4, SeesTheSame
<1>6. \A a \in Pages : Image'[c][a] = Image[p][a]
  BY <1>1, <1>2, <1>3, <1>4, SeenAfter DEF Image
<1>7. Image'[c] = Image[p]
  <2>1. Image[p] = [a \in Pages |-> Image[p][a]] /\ Image'[c] = [a \in Pages |-> Image'[c][a]]
    BY DEF Image
  <2> QED
    BY <1>6, <2>1
<1>8. Image' = [Image EXCEPT ![c] = Image[p]]
  BY <1>5, <1>7, OneImage
<1>9. p \in Live /\ c \notin Live /\ Live' = Live \cup {c}
  BY <1>1, <1>4 DEF Live
<1> QED
  BY <1>8, <1>9 DEF PM!PMFork, Live, Image

\* A process that exits sees nothing more.
LEMMA ExitMaps ==
  ASSUME CountsFit, CowInvariant, NEW p \in Procs, Exit(p)
  PROVE  PM!PMExit(p)
<1>1. /\ state[p] = "run" /\ state' = [state EXCEPT ![p] = "zombie"]
      /\ UNCHANGED <<sz, pte, data>>
  BY DEF Exit, Running, memVars
<1>2. state'[p] = "zombie" /\ \A q \in Procs \ {p} : state'[q] = state[q]
  BY <1>1 DEF CowInvariant, CowTypeOK
<1>3. \A q \in Procs \ {p} : Image'[q] = Image[q]
  BY <1>1, <1>2, SeesTheSame
<1>4. Image'[p] = [a \in Pages |-> None]
  BY <1>2 DEF Image
<1>5. Image' = [Image EXCEPT ![p] = [a \in Pages |-> None]]
  BY <1>3, <1>4, OneImage
<1>6. p \in Live /\ Live' = Live \ {p}
  BY <1>1, <1>2 DEF Live
<1> QED
  BY <1>5, <1>6 DEF PM!PMExit, PM!NoImage, Live, Image

\* One page more: it is seen filled with zeroes.
LEMMA GrowMaps ==
  ASSUME CountsFit, CowInvariant, CleanStep, NEW p \in Procs, Grow(p), GrowFits(p)
  PROVE  \E a \in Pages : PM!PMSbrk(p, a)
<1>1. PICK f : f = free[1]
  OBVIOUS
<1>2. /\ f \in Listed /\ sz[p] \in Pages /\ data'[f] = Zero
      /\ \A g \in Frames \ {f} : data'[g] = data[g]
      /\ FreshEntry(p, sz[p], f) /\ sz' = [sz EXCEPT ![p] = sz[p] + 1]
      /\ state' = state
  BY <1>1, GrowFacts
<1>3. PICK a \in Pages : a = sz[p]
  BY <1>2
<1>4. state[p] = "run" /\ Live' = Live /\ p \in Live
  BY <1>2 DEF Grow, Running, Live
<1>5. /\ sz'[p] = a + 1 /\ a \in Nat /\ \A q \in Procs \ {p} : sz'[q] = sz[q]
      /\ \A q \in Procs : sz[q] \in Nat
  BY <1>2, <1>3, SizeFacts DEF CowInvariant, CowTypeOK
<1>6. pte'[p][a].f = f /\ \A q \in Procs, b \in Pages : <<q, b>> # <<p, a>> => pte'[q][b] = pte[q][b]
  BY <1>2, <1>3 DEF FreshEntry
<1>7. Image'[p][a] = Zero /\ Image[p][a] = None
  BY <1>2, <1>3, <1>4, <1>5, <1>6, SeenAfter, UnseenFacts
<1>8. ASSUME NEW q \in Procs, NEW b \in Pages, <<q, b>> # <<p, a>>
      PROVE  Image'[q][b] = Image[q][b]
  <2>1. b < sz'[q] <=> b < sz[q]
    BY <1>3, <1>5, <1>8, SizeFacts
  <2>2. CASE state[q] = "run" /\ b < sz[q]
    <3>1. pte[q][b].f \in Frames \ {f} /\ Image[q][b] = data[pte[q][b].f]
      BY <1>2, <2>2, SeenFacts
    <3> QED
      BY <1>2, <1>6, <1>8, <2>1, <2>2, <3>1, SeenAfter
  <2>3. CASE ~(state[q] = "run" /\ b < sz[q])
    BY <1>2, <2>1, <2>3, SeenAfter, UnseenFacts
  <2> QED
    BY <2>2, <2>3
<1>9. Image' = [Image EXCEPT ![p][a] = Zero]
  BY <1>7, <1>8, OneSeen
<1>10. \A b \in Pages : (b < a => Image[p][b] # None) /\ (b > a => Image[p][b] = None)
  <2> SUFFICES ASSUME NEW b \in Pages
               PROVE  (b < a => Image[p][b] # None) /\ (b > a => Image[p][b] = None)
    OBVIOUS
  <2>1. b < a => Image[p][b] # None
    BY <1>3, <1>4, SeenFacts
  <2>2. b > a => Image[p][b] = None
    BY <1>3, <1>5, SizeFacts, UnseenFacts
  <2> QED
    BY <2>1, <2>2
<1>11. PM!PMSbrk(p, a)
  BY <1>4, <1>7, <1>9, <1>10 DEF PM!PMSbrk, Live, Image
<1> QED
  BY <1>11

\* One page less: it is not seen any more.
LEMMA ShrinkMaps ==
  ASSUME CountsFit, CowInvariant, NEW p \in Procs, Shrink(p)
  PROVE  \E a \in Pages : PM!PMSbrk(p, a)
<1>1. /\ sz[p] - 1 \in Pages /\ sz[p] > 1 /\ sz' = [sz EXCEPT ![p] = sz[p] - 1]
      /\ UNCHANGED <<data, state, pte>>
  BY ShrinkFacts
<1>2. PICK a \in Pages : a = sz[p] - 1
  BY <1>1
<1>3. state[p] = "run" /\ Live' = Live /\ p \in Live
  BY <1>1 DEF Shrink, Running, Live
<1>4. /\ sz'[p] = a /\ sz[p] = a + 1 /\ a \in Nat /\ \A q \in Procs \ {p} : sz'[q] = sz[q]
      /\ \A q \in Procs : sz[q] \in Nat
  <2>1. a \in Nat /\ \A q \in Procs : sz[q] \in Nat
    BY SizeFacts DEF CowInvariant
  <2>2. sz[p] = a + 1
    BY <1>2, <2>1
  <2>3. sz'[p] = a /\ \A q \in Procs \ {p} : sz'[q] = sz[q]
    BY <1>1, <1>2 DEF CowInvariant, CowTypeOK
  <2> QED
    BY <2>1, <2>2, <2>3
<1>5. Image'[p][a] = None /\ Image[p][a] # None
  BY <1>3, <1>4, SeenAfter, SeenFacts
<1>6. ASSUME NEW q \in Procs, NEW b \in Pages, <<q, b>> # <<p, a>>
      PROVE  Image'[q][b] = Image[q][b]
  <2>1. b < sz'[q] <=> b < sz[q]
    <3>1. b \in Nat
      BY SizeFacts
    <3>2. b = a => q # p
      BY <1>6
    <3>3. b # a => (b < a <=> b < a + 1)
      BY <1>4, <3>1
    <3> QED
      BY <1>4, <3>2, <3>3
  <2> QED
    BY <1>1, <2>1, SeenAfter DEF Image
<1>7. Image' = [Image EXCEPT ![p][a] = None]
  BY <1>5, <1>6, OneSeen
<1>8. \A b \in Pages : (b < a => Image[p][b] # None) /\ (b > a => Image[p][b] = None)
  <2> SUFFICES ASSUME NEW b \in Pages
               PROVE  (b < a => Image[p][b] # None) /\ (b > a => Image[p][b] = None)
    OBVIOUS
  <2>0. b \in Nat
    BY SizeFacts
  <2>1. b < a => b < sz[p]
    BY <1>4, <2>0
  <2>2. b < a => Image[p][b] # None
    BY <1>3, <2>1, SeenFacts
  <2>3. b > a => ~(b < sz[p])
    BY <1>4, <2>0
  <2>4. b > a => Image[p][b] = None
    BY <2>3, UnseenFacts
  <2> QED
    BY <2>2, <2>4
<1>9. PM!PMSbrk(p, a)
  BY <1>3, <1>5, <1>7, <1>8 DEF PM!PMSbrk, Live, Image
<1> QED
  BY <1>9

\* A fault is not seen: the copy has the contents of the page.
LEMMA CowFaultMaps ==
  ASSUME CountsFit, CowInvariant, CleanStep, NEW p \in Procs, NEW a \in Pages, CowFault(p, a)
  PROVE  UNCHANGED PM!pvars
<1>1. CASE Copies(p, a)
  <2>1. PICK f, o : f = free[1] /\ o = pte[p][a].f
    OBVIOUS
  <2>2. /\ f \in Listed /\ data'[f] = data[o] /\ data'[o] = data[o]
        /\ \A g \in Frames \ {f, o} : data'[g] = data[g]
        /\ FreshEntry(p, a, f)
        /\ UNCHANGED <<state, sz>>
    BY <1>1, <2>1, CopyFacts
  <2>3. pte'[p][a].f = f /\ \A q \in Procs, b \in Pages : <<q, b>> # <<p, a>> => pte'[q][b] = pte[q][b]
    BY <2>2 DEF FreshEntry
  <2>4. ASSUME NEW q \in Procs PROVE Image'[q] = Image[q]
    <3>1. ASSUME NEW b \in Pages, state[q] = "run" /\ b < sz[q]
          PROVE  data'[pte'[q][b].f] = data[pte[q][b].f]
      <4>1. CASE <<q, b>> = <<p, a>>
        BY <2>1, <2>2, <2>3, <4>1
      <4>2. CASE <<q, b>> # <<p, a>>
        <5>1. pte'[q][b].f = pte[q][b].f /\ pte[q][b].f \in Frames /\ pte[q][b].f # f
          BY <2>2, <2>3, <3>1, <4>2, SeenFacts
        <5> QED
          BY <2>2, <5>1
      <4> QED
        BY <4>1, <4>2
    <3> QED
      BY <2>2, <3>1, SeesTheSame
  <2>5. Live' = Live
    BY <2>2 DEF Live
  <2> QED
    BY <2>4, <2>5, NothingSeen
<1>2. CASE ref[pte[p][a].f] = 1
  <2>1. /\ UNCHANGED <<data, state, sz>>
        /\ \A q \in Procs, b \in Pages : pte'[q][b].f = pte[q][b].f
    BY <1>2, ReuseFacts
  <2> QED
    BY <2>1, QuietMaps
<1>3. CASE ~Copies(p, a) /\ ref[pte[p][a].f] # 1
  <2>1. UNCHANGED <<memVars, procVars, teardowns>>
    BY <1>3 DEF CowFault, Copies, Panic
  <2> QED
    BY <2>1, QuietMaps DEF memVars, procVars
<1> QED
  BY <1>1, <1>2, <1>3

\* A fork that fails is not seen.
LEMMA ForkFailsMaps ==
  ASSUME CountsFit, CowInvariant, NEW p \in Procs, ForkFailsInCopy(p)
  PROVE  UNCHANGED PM!pvars
<1>1. PICK o : o = pte[p][0].f
  OBVIOUS
<1>2. /\ \A f \in Frames \ Listed : data'[f] = data[f]
      /\ \A q \in Procs, b \in Pages : pte'[q][b].f = pte[q][b].f
  BY <1>1, ForkFailsFacts
<1>3. \A f \in Mapped : data'[f] = data[f]
  <2> SUFFICES ASSUME NEW f \in Mapped PROVE data'[f] = data[f]
    OBVIOUS
  <2>1. f \in Frames \ Listed
    BY MappedFacts
  <2> QED
    BY <1>2, <2>1
<1>4. UNCHANGED <<state, sz>>
  BY DEF ForkFailsInCopy
<1> QED
  BY <1>2, <1>3, <1>4, QuietMaps

\* Nor is an exec that fails.
LEMMA ExecFailsMaps ==
  ASSUME CountsFit, CowInvariant, NEW p \in Procs, ExecFails(p)
  PROVE  UNCHANGED PM!pvars
<1>1. \A f \in Mapped : data'[f] = data[f]
  BY ExecFailsFacts
<1>2. UNCHANGED <<state, sz, pte>>
  BY DEF ExecFails, procVars
<1> QED
  BY <1>1, <1>2, QuietMaps

\* Nor is a wait: the child saw nothing any more.
LEMMA WaitMaps ==
  ASSUME CountsFit, CowInvariant, NEW p \in Procs, NEW c \in Procs, Wait(p, c)
  PROVE  UNCHANGED PM!pvars
<1>1. /\ state[c] = "zombie" /\ state'[c] = "unused"
      /\ \A q \in Procs \ {c} : state'[q] = state[q] /\ sz'[q] = sz[q] /\ pte'[q] = pte[q]
  BY WaitSlot
<1>2. KernelOf(c) \subseteq KernelUsed /\ \A f \in Frames \ KernelOf(c) : data'[f] = data[f]
  BY WaitMemory
<1>3. ASSUME NEW q \in Procs \ {c} PROVE Image'[q] = Image[q]
  <2>1. ASSUME NEW b \in Pages, state[q] = "run" /\ b < sz[q]
        PROVE  data'[pte'[q][b].f] = data[pte[q][b].f]
    <3>1. pte[q][b].f \in Frames \ KernelOf(c)
      BY <1>2, <2>1, SeenFacts
    <3> QED
      BY <1>1, <1>2, <3>1
  <2> QED
    BY <1>1, <2>1, SeesTheSame
<1>4. Image'[c] = Image[c]
  BY <1>1 DEF Image
<1>5. Live' = Live
  BY <1>1 DEF Live
<1> QED
  BY <1>3, <1>4, <1>5, NothingSeen

\* A process that execs sees the new image.
LEMMA ExecMaps ==
  ASSUME CountsFit, CowInvariant, NEW p \in Procs, NEW n \in 1 .. MaxPages, NEW v \in Values,
         Exec(p, n, v)
  PROVE  PM!PMExec(p)
<1>1. /\ state' = state /\ sz' = [sz EXCEPT ![p] = n]
  BY ExecSlot
<1>2. /\ \A q \in Procs \ {p} : pte'[q] = pte[q]
      /\ \A a \in Pages : a < n => pte'[p][a].f \in ImagePages(n)
  BY ExecEntries
<1>3. /\ TableFrames(p) \subseteq KernelUsed
      /\ \A f \in ImagePages(n) : data'[f] = v
      /\ \A f \in Frames \ (ImagePages(n) \cup TableFrames(p)) : data'[f] = data[f]
  BY ExecMemory
<1>4. ImagePages(n) \subseteq Listed /\ n \in Nat /\ n >= 1 /\ state[p] = "run"
  BY ExecIs, ImageFacts DEF CowInvariant, Running
<1>5. PICK k \in Pages : k = n - 1 /\ \A a \in Pages : a <= k <=> a < n
  <2>1. n - 1 \in Pages
    BY <1>4, MemorySizes DEF Pages
  <2>2. \A a \in Pages : a <= n - 1 <=> a < n
    BY <1>4, SizeFacts
  <2> QED
    BY <2>1, <2>2
<1>6. sz'[p] = n /\ \A q \in Procs \ {p} : sz'[q] = sz[q]
  BY <1>1 DEF CowInvariant, CowTypeOK
<1>7. ASSUME NEW q \in Procs \ {p} PROVE Image'[q] = Image[q]
  <2>1. ASSUME NEW b \in Pages, state[q] = "run" /\ b < sz[q]
        PROVE  data'[pte'[q][b].f] = data[pte[q][b].f]
    <3>1. pte[q][b].f \in Frames \ (ImagePages(n) \cup TableFrames(p))
      BY <1>3, <1>4, <2>1, SeenFacts
    <3> QED
      BY <1>2, <1>3, <3>1
  <2> QED
    BY <1>1, <1>6, <2>1, SeesTheSame
<1>8. \A a \in Pages : Image'[p][a] = IF a <= k THEN v ELSE None
  BY <1>1, <1>2, <1>3, <1>4, <1>5, <1>6, SeenAfter
<1>9. Image'[p] = [a \in Pages |-> IF a <= k THEN v ELSE None]
  <2>1. Image'[p] = [a \in Pages |-> Image'[p][a]]
    BY DEF Image
  <2> QED
    BY <1>8, <2>1
<1>10. Image' = [Image EXCEPT ![p] = [a \in Pages |-> IF a <= k THEN v ELSE None]]
  BY <1>7, <1>9, OneImage
<1>11. p \in Live /\ Live' = Live
  BY <1>1, <1>4 DEF Live
<1> QED
  BY <1>10, <1>11 DEF PM!PMExec, Live, Image

\* The first process sees its image, and nobody else anything.
LEMMA InitMaps == Init => PM!PMInit
<1> SUFFICES ASSUME Init PROVE PM!PMInit
  OBVIOUS
<1>1. PICK v \in Values : data = [f \in Frames |-> IF \E a \in 0 .. InitPages - 1 : f = BootImage(a)
                                                  THEN v ELSE Junk]
  BY DEF Init
<1>2. \A q \in Procs, a \in Pages :
        IF q = InitProc /\ a < InitPages
        THEN a \in 0 .. InitPages - 1 /\ pte[q][a].f = BootImage(a)
        ELSE pte[q][a].f = 0 /\ ~pte[q][a].w
  BY InitEntries
<1>3. InitProc \in Procs /\ state = [p \in Procs |-> IF p = InitProc THEN "run" ELSE "unused"]
      /\ sz = [p \in Procs |-> IF p = InitProc THEN InitPages ELSE 0]
  BY InitIsProc DEF Init
<1>4. Live = {InitProc}
  BY <1>3 DEF Live
<1>5. \A q \in Procs \ {InitProc}, a \in Pages : Image[q][a] = None
  BY <1>3 DEF Image
<1>6. \A a \in Pages : Image[InitProc][a] \in Values \cup {None}
  <2> SUFFICES ASSUME NEW a \in Pages PROVE Image[InitProc][a] \in Values \cup {None}
    OBVIOUS
  <2>1. CASE a < InitPages
    <3>1. a \in 0 .. InitPages - 1 /\ pte[InitProc][a].f = BootImage(a)
      BY <1>2, <1>3, <2>1
    <3>2. BootImage(a) \in Frames
      <4>1. BootImage(a) \in {8} \cup (10 .. 8 + InitPages) /\ NFrames >= 8 + InitPages
            /\ InitPages \in Nat /\ InitPages >= 1
        BY <3>1, InitFrames
      <4> QED
        BY <4>1, FrameFacts DEF Frames
    <3>3. data[BootImage(a)] = v
      BY <1>1, <3>1, <3>2
    <3> QED
      BY <1>3, <2>1, <3>1, <3>3 DEF Image
  <2>2. CASE ~(a < InitPages)
    BY <1>3, <2>2 DEF Image
  <2> QED
    BY <2>1, <2>2
<1>7. Image \in [Procs -> [Pages -> Values \cup {None}]]
  <2>1. \A q \in Procs, a \in Pages : Image[q][a] \in Values \cup {None}
    BY <1>5, <1>6
  <2>2. Image = [q \in Procs |-> [a \in Pages |-> Image[q][a]]]
    BY DEF Image
  <2> QED
    BY <2>1, <2>2
<1>8. \A q \in Procs \ Live : Image[q] = [a \in Pages |-> None]
  <2>1. \A q \in Procs : Image[q] = [a \in Pages |-> Image[q][a]]
    BY DEF Image
  <2> QED
    BY <1>4, <1>5, <2>1
<1>9. Live \in {{p} : p \in Procs}
  BY <1>3, <1>4
<1> QED
  BY <1>7, <1>8, <1>9 DEF PM!PMInit, PM!NoImage, Live, Image

\* Every step is one of the private memories, or is not seen.
LEMMA NextMaps ==
  ASSUME CountsFit, CowInvariant, [Next /\ CleanStep]_vars
  PROVE  [PM!PMNext]_PM!pvars
<1>1. CASE UNCHANGED <<memVars, procVars, teardowns>>
  BY <1>1, QuietMaps DEF memVars, procVars
<1>2. CASE UNCHANGED vars
  BY <1>1, <1>2 DEF vars
<1> SUFFICES ASSUME Next, CleanStep PROVE [PM!PMNext]_PM!pvars
  BY <1>2
<1>3. ASSUME NEW p \in Procs, NEW c \in Procs, Fork(p, c) PROVE PM!PMNext
  BY <1>3, ForkMaps DEF PM!PMNext
<1>4. ASSUME NEW p \in Procs, NEW a \in Pages, NEW v \in Values, Store(p, a, v) PROVE PM!PMNext
  BY <1>4, StoreMaps DEF PM!PMNext
<1>5. ASSUME NEW p \in Procs, NEW n \in 1 .. MaxPages, NEW v \in Values, Exec(p, n, v) PROVE PM!PMNext
  BY <1>5, ExecMaps DEF PM!PMNext
<1>6. ASSUME NEW p \in Procs, Shrink(p) PROVE PM!PMNext
  BY <1>6, ShrinkMaps DEF PM!PMNext
<1>7. ASSUME NEW p \in Procs, Grow(p) PROVE [PM!PMNext]_PM!pvars
  <2>1. CASE GrowFits(p)
    BY <1>7, <2>1, GrowMaps DEF PM!PMNext
  <2>2. CASE ~GrowFits(p)
    BY <1>1, <1>7, <2>2, GrowPanics
  <2> QED
    BY <2>1, <2>2
<1>8. ASSUME NEW p \in Procs, Exit(p) PROVE PM!PMNext
  BY <1>8, ExitMaps DEF PM!PMNext
<1>9. CASE \E p, c \in Procs : Wait(p, c)
  BY <1>9, WaitMaps
<1>10. CASE \E p \in Procs : ForkFailsInCopy(p)
  BY <1>10, ForkFailsMaps
<1>11. \A p \in Procs : ~ForkFailsInMaps(p)
  BY NothingMapped DEF ForkFailsInMaps, CowInvariant
<1>12. CASE \E p \in Procs, a \in Pages : CowFault(p, a)
  BY <1>12, CowFaultMaps
<1>13. CASE \E p \in Procs, n \in 1 .. MaxPages : ExecPanics(p, n)
  BY <1>1, <1>13 DEF ExecPanics, Panic
<1>14. CASE \E p \in Procs : ExecFails(p)
  BY <1>14, ExecFailsMaps
<1> QED
  BY <1>3, <1>4, <1>5, <1>6, <1>7, <1>8, <1>9, <1>10, <1>11, <1>12, <1>13, <1>14, NoMapSteps DEF Next

\* Through forks, faults, sbrk, execs, exits and waits, every process has a private
\* memory: a child starts with a copy, and a store is seen by the process that stores
\* alone, though the kernel shares pages and never counts those of a dead process down.
THEOREM MemoriesStayPrivate == CountsFit => (CleanSpec => PrivateIsPrivate)
<1> SUFFICES ASSUME CountsFit PROVE CleanSpec => PrivateIsPrivate
  OBVIOUS
<1>1. CowInvariant /\ [Next /\ CleanStep]_vars => [PM!PMNext]_PM!pvars
  BY NextMaps
<1>2. CleanSpec => []CowInvariant
  BY CowInvariantHolds
<1> QED
  BY <1>1, <1>2, InitMaps, PTL DEF CleanSpec, PrivateIsPrivate, PM!PMSpec

-----------------------------------------------------------------------------
(* Before the first teardown, the frames of the free list have counts of 0: *)
(* the first fork takes those that the first exec left with others.         *)

NoTeardowns == CountsFit /\ MaxTeardowns = 0 /\ InitPages = MaxPages

CleanList == \A f \in Listed : ref[f] = 0
BeforeForks ==
  /\ \A q \in Procs \ {InitProc} : state[q] = "unused"
  /\ \A a \in Pages : Present(pte[InitProc][a]) /\ ~pte[InitProc][a].cow
  /\ \A i \in 5 .. Len(free) : ref[free[i]] = 0
StartsClean == CleanList \/ BeforeForks

\* The first process has all its pages.
LEMMA InitStartsClean ==
  ASSUME NoTeardowns, Init
  PROVE  BeforeForks
<1>1. \A q \in Procs \ {InitProc} : state[q] = "unused"
  BY DEF Init
<1>2. \A a \in Pages : Present(pte[InitProc][a]) /\ ~pte[InitProc][a].cow
  <2> SUFFICES ASSUME NEW a \in Pages
               PROVE  Present(pte[InitProc][a]) /\ ~pte[InitProc][a].cow
    OBVIOUS
  <2>1. a < InitPages /\ InitProc \in Procs
    BY SizeFacts, InitIsProc DEF NoTeardowns
  <2>2. pte[InitProc][a] = [f |-> BootImage(a), w |-> a \notin TextPages, cow |-> FALSE]
    BY <2>1 DEF Init
  <2>3. BootImage(a) # 0
    BY SizeFacts DEF BootImage
  <2> QED
    BY <2>2, <2>3 DEF Present
<1>3. ASSUME NEW i \in 5 .. Len(free) PROVE ref[free[i]] = 0
  <2>1. /\ Len(free) = NFrames - 4 - InitPages /\ free[i] = 4 + InitPages + i
        /\ InitPages \in Nat /\ NFrames \in Nat /\ InitPages >= 1
    BY InitFrames, MemorySizes
  <2>2. free[i] \in Frames /\ free[i] \notin {3, 5} /\ free[i] > 8 + InitPages
    BY <2>1 DEF Frames
  <2>3. ASSUME NEW a \in 0 .. InitPages - 1 PROVE free[i] # BootImage(a)
    <3>1. BootImage(a) \in {8} \cup (10 .. 8 + InitPages)
      BY InitFrames
    <3> QED
      BY <2>1, <2>2, <3>1
  <2> QED
    BY <2>2, <2>3 DEF Init
<1> QED
  BY <1>1, <1>2, <1>3 DEF BeforeForks

\* Nothing is torn down, and nothing can fail but by a panic.
LEMMA NoTeardownSteps ==
  ASSUME NoTeardowns, CowInvariant
  PROVE  /\ ~\E p, c \in Procs : Wait(p, c)
         /\ ~\E p \in Procs : ForkFailsInCopy(p) \/ ForkFailsInMaps(p) \/ ExecFails(p)
         /\ ~\E p \in Procs, n \in 1 .. MaxPages, v \in Values : Exec(p, n, v) \/ ExecPanics(p, n)
<1>1. ~(teardowns < MaxTeardowns)
  BY DEF NoTeardowns, CowInvariant
<1> QED
  BY <1>1 DEF Wait, ForkFailsInCopy, ForkFailsInMaps, ExecFails, Exec, ExecPanics

\* A step that maps no frame anew is clean.
LEMMA CleanWithout ==
  ASSUME CountsFit, CowInvariant, \A p \in Procs, a \in Pages : pte'[p][a].f \in Mapped \cup {0}
  PROVE  CleanStep
<1>1. 0 \notin Listed
  BY ListedAt, FrameFacts DEF CowInvariant, Listed
<1>2. \A f \in Mapped : f \notin Listed
  BY MappedFacts
<1> QED
  BY <1>1, <1>2 DEF CleanStep

\* fork is clean, and leaves a clean list.
LEMMA ForkIsClean ==
  ASSUME CountsFit, CowInvariant, StartsClean, NEW p \in Procs, NEW c \in Procs, Fork(p, c)
  PROVE  CleanStep /\ CleanList'
<1>1. \A q \in Procs, a \in Pages :
        /\ q # c => pte'[q][a].f = pte[q][a].f
        /\ pte'[c][a].f = (IF a < sz[p] THEN pte[p][a].f ELSE 0)
  BY ForkEntries
<1>2. CleanStep
  <2>1. \A q \in Procs, a \in Pages : pte[q][a].f \in Mapped \cup {0}
    BY DEF Mapped
  <2> QED
    BY <1>1, <2>1, CleanWithout
<1>3. /\ Listed' \subseteq Listed \ {free[i] : i \in 1 .. 4}
      /\ \A f \in Frames : ref'[f] = IF \E a \in Pages : InSize(p, a) /\ pte[p][a].f = f
                                     THEN (ref[f] + 1) % RefRange ELSE ref[f]
  BY ForkMemory
<1>4. ASSUME NEW f \in Listed' PROVE ref'[f] = 0
  <2>1. f \in Listed /\ f \notin {free[i] : i \in 1 .. 4}
    BY <1>3
  <2>2. PICK i \in 1 .. Len(free) : f = free[i]
    BY <2>1 DEF Listed
  <2>3. i \in 5 .. Len(free)
    <3>1. Len(free) \in Nat
      BY DEF CowInvariant, CowTypeOK
    <3> QED
      BY <2>1, <2>2, <3>1
  <2>4. ref[f] = 0
    BY <2>1, <2>2, <2>3 DEF StartsClean, CleanList, BeforeForks
  <2>5. f \in Frames /\ f # 0
    BY <2>2, ListedAt, FrameFacts DEF CowInvariant
  <2>6. ~\E a \in Pages : InSize(p, a) /\ pte[p][a].f = f
    BY <2>1, <2>5, CountFacts
  <2> QED
    BY <1>3, <2>4, <2>5, <2>6
<1> QED
  BY <1>2, <1>4 DEF CleanList

\* sbrk of a page more is clean.
LEMMA GrowIsClean ==
  ASSUME CountsFit, CowInvariant, StartsClean, NEW p \in Procs, Grow(p)
  PROVE  CleanStep /\ StartsClean'
<1>1. CASE ~GrowFits(p)
  <2>1. UNCHANGED <<memVars, procVars>>
    BY <1>1, GrowPanics
  <2>2. \A q \in Procs, a \in Pages : pte'[q][a].f \in Mapped \cup {0}
    BY <2>1 DEF procVars, Mapped
  <2>3. Listed' = Listed /\ UNCHANGED <<free, ref, state, pte>>
    BY <2>1 DEF Listed, memVars, procVars
  <2> QED
    BY <2>2, <2>3, CleanWithout DEF StartsClean, CleanList, BeforeForks
<1>2. CASE GrowFits(p)
  <2>1. sz[p] \in Pages
    <3>1. sz[p] < MaxPages /\ sz[p] \in Nat /\ MaxPages \in Nat
      BY SizeFacts DEF Grow, CowInvariant
    <3> QED
      BY <3>1 DEF Pages
  <2>2. CleanList
    <3>1. state[p] = "run" /\ ~Present(pte[p][sz[p]])
      BY <1>2 DEF Grow, GrowFits, Running
    <3> QED
      BY <2>1, <3>1 DEF StartsClean, BeforeForks
  <2>3. CleanStep
    BY <2>2 DEF CleanStep, CleanList
  <2>4. PICK f : f = free[1]
    OBVIOUS
  <2>5. Listed' \subseteq Listed \ {f} /\ \A g \in Frames \ {f} : ref'[g] = ref[g]
    BY <1>2, <2>3, <2>4, GrowFacts
  <2>6. Listed \subseteq Frames
    BY ListedAt DEF Listed, CowInvariant
  <2>7. CleanList'
    BY <2>2, <2>5, <2>6 DEF CleanList
  <2> QED
    BY <2>3, <2>7 DEF StartsClean
<1> QED
  BY <1>1, <1>2

\* So is the fault handler.
LEMMA CowFaultIsClean ==
  ASSUME CountsFit, CowInvariant, StartsClean, NEW p \in Procs, NEW a \in Pages, CowFault(p, a)
  PROVE  CleanStep /\ CleanList'
<1>1. CleanList
  <2>1. state[p] = "run" /\ pte[p][a].cow
    BY DEF CowFault, Running
  <2> QED
    BY <2>1 DEF StartsClean, BeforeForks
<1>2. CleanStep
  BY <1>1 DEF CleanStep, CleanList
<1>3. Listed \subseteq Frames
  BY ListedAt DEF Listed, CowInvariant
<1>4. CASE Copies(p, a)
  <2>1. PICK f, o : f = free[1] /\ o = pte[p][a].f
    OBVIOUS
  <2>2. Listed' \subseteq Listed \ {f} /\ \A g \in Frames \ {f, o} : ref'[g] = ref[g]
    BY <1>2, <1>4, <2>1, CopyFacts
  <2>3. o \notin Listed
    <3>1. o # 0
      BY <2>1 DEF CowFault, Present
    <3> QED
      BY <2>1, <3>1, CountFacts
  <2> QED
    BY <1>1, <1>2, <1>3, <2>2, <2>3 DEF CleanList
<1>5. CASE ref[pte[p][a].f] = 1
  <2>1. UNCHANGED <<free, ref>>
    BY <1>5, ReuseFacts
  <2> QED
    BY <1>1, <1>2, <2>1 DEF CleanList, Listed
<1>6. CASE ~Copies(p, a) /\ ref[pte[p][a].f] # 1
  <2>1. UNCHANGED memVars
    BY <1>6 DEF CowFault, Copies, Panic
  <2> QED
    BY <1>1, <1>2, <2>1 DEF CleanList, Listed, memVars
<1> QED
  BY <1>4, <1>5, <1>6

\* Every step is clean.
LEMMA NextIsClean ==
  ASSUME NoTeardowns, CowInvariant, StartsClean, [Next]_vars
  PROVE  [Next /\ CleanStep]_vars /\ StartsClean'
<1>0. CountsFit
  BY DEF NoTeardowns
<1>1. CASE UNCHANGED vars
  BY <1>1 DEF vars, memVars, procVars, StartsClean, CleanList, BeforeForks, Listed
<1> SUFFICES ASSUME Next PROVE CleanStep /\ StartsClean'
  BY <1>1
<1>2. CASE \E p, c \in Procs : Fork(p, c)
  BY <1>0, <1>2, ForkIsClean DEF StartsClean
<1>3. CASE \E p \in Procs : Grow(p)
  BY <1>0, <1>3, GrowIsClean
<1>4. CASE \E p \in Procs, a \in Pages : CowFault(p, a)
  BY <1>0, <1>4, CowFaultIsClean DEF StartsClean
<1>5. ASSUME UNCHANGED <<free, ref, pte>>,
             UNCHANGED state \/ \E p \in Procs \ {InitProc} : state[p] = "run"
      PROVE  CleanStep /\ StartsClean'
  <2>1. \A q \in Procs, a \in Pages : pte'[q][a].f \in Mapped \cup {0}
    BY <1>5 DEF Mapped
  <2>2. CleanStep
    BY <1>0, <2>1, CleanWithout
  <2>3. CleanList => CleanList'
    BY <1>5 DEF CleanList, Listed
  <2>4. BeforeForks => BeforeForks'
    BY <1>5 DEF BeforeForks
  <2> QED
    BY <2>2, <2>3, <2>4 DEF StartsClean
<1>6. ASSUME NEW p \in Procs, Shrink(p) PROVE UNCHANGED <<free, ref, pte, state>>
  BY <1>0, <1>6, ShrinkFacts
<1>7. ASSUME NEW p \in Procs, NEW a \in Pages, NEW v \in Values, Store(p, a, v)
      PROVE  UNCHANGED <<free, ref, pte, state>>
  BY <1>7 DEF Store, procVars
<1>8. ASSUME NEW p \in Procs, Exit(p)
      PROVE  /\ UNCHANGED <<free, ref, pte>>
             /\ p # InitProc /\ state[p] = "run"
  BY <1>8 DEF Exit, memVars, Running
<1> QED
  BY <1>0, <1>2, <1>3, <1>4, <1>5, <1>6, <1>7, <1>8, NoTeardownSteps, NoMapSteps DEF Next

\* Before the first teardown every behaviour is one of those above.
LEMMA SpecIsClean == NoTeardowns => (Spec => CleanSpec)
<1> SUFFICES ASSUME NoTeardowns PROVE Spec => CleanSpec
  OBVIOUS
<1>0. CountsFit
  BY DEF NoTeardowns
<1> DEFINE IInv == CowInvariant /\ StartsClean
<1>1. Init => IInv
  BY <1>0, InitKeeps, InitStartsClean DEF StartsClean
<1>2. IInv /\ [Next]_vars => IInv'
  BY <1>0, NextIsClean, NextKeeps
<1>3. IInv /\ [Next]_vars => [Next /\ CleanStep]_vars
  BY NextIsClean
<1> HIDE DEF IInv
<1> QED
  BY <1>1, <1>2, <1>3, PTL DEF Spec, CleanSpec

\* Before the first teardown, and whatever frames the boot left on the free list: counts
\* are exact through nested forks, copies and sbrk, a page written in place is mapped
\* nowhere else, and fork gives every process a private memory.
THEOREM ForkedMemoriesStayPrivate ==
  NoTeardowns => (Spec => [](CountsMappers /\ WritableIsUnshared) /\ PrivateIsPrivate)
<1> SUFFICES ASSUME NoTeardowns
             PROVE  Spec => [](CountsMappers /\ WritableIsUnshared) /\ PrivateIsPrivate
  OBVIOUS
<1>0. CountsFit
  BY DEF NoTeardowns
<1>1. CowInvariant => CountsMappers /\ WritableIsUnshared
  <2> SUFFICES ASSUME CowInvariant PROVE CountsMappers /\ WritableIsUnshared
    OBVIOUS
  <2>1. teardowns = 0
    BY DEF CowInvariant, NoTeardowns
  <2> QED
    BY <1>0, <2>1, ExactWhere DEF CowInvariant
<1>2. CleanSpec => []CowInvariant
  BY <1>0, CowInvariantHolds
<1>3. CleanSpec => PrivateIsPrivate
  BY <1>0, MemoriesStayPrivate
<1>4. Spec => CleanSpec
  BY SpecIsClean
<1> QED
  BY <1>1, <1>2, <1>3, <1>4, PTL

-----------------------------------------------------------------------------
(* Types, in every behaviour: with mappings, stale counts and no memory.    *)

MemTypes ==
  /\ free \in Seq(Frames) /\ ref \in [Frames -> 0 .. RefRange - 1]
  /\ data \in [Frames -> Values \cup {Junk}]
ProcTypes ==
  /\ state \in [Procs -> {"unused", "run", "zombie"}] /\ parent \in [Procs -> Procs]
  /\ sz \in [Procs -> 0 .. MaxPages] /\ maps \in [Procs -> SUBSET Maps]
EntryTypes == pte \in [Procs -> [Pages -> Entry]] /\ mpte \in [Procs -> [Maps -> Entry]]
TableTypes ==
  /\ kstack \in [Procs -> 0 .. NFrames] /\ pgdir \in [Procs -> 0 .. NFrames]
  /\ kpt \in [Procs -> 0 .. NFrames] /\ upt \in [Procs -> 0 .. NFrames]
  /\ mpt \in [Procs -> 0 .. NFrames]

\* A process has a kernel stack, a page directory and a page at least.
SlotFrames ==
  \A p \in Procs : state[p] # "unused" => kstack[p] # 0 /\ pgdir[p] # 0 /\ sz[p] >= 1

TypeInv == MemTypes /\ ProcTypes /\ EntryTypes /\ TableTypes /\ SlotFrames

\* These are the types.
LEMMA TypesAre == TypeInv => CowTypeOK
BY DEF TypeInv, MemTypes, ProcTypes, EntryTypes, TableTypes, CowTypeOK

\* A memory with one content changed is one.
LEMMA DataTypes ==
  ASSUME NEW m, MemoryOK(m), NEW f, NEW v \in Values \cup {Junk}
  PROVE  MemoryOK([m EXCEPT !.data[f] = v])
<1> DEFINE d == [m.data EXCEPT ![f] = v]
<1>1. m.data \in [Frames -> Values \cup {Junk}]
  BY DEF MemoryOK
<1>2. d \in [Frames -> Values \cup {Junk}]
  BY <1>1
<1> HIDE DEF d
<1>3. MemoryOK([m EXCEPT !.data = d])
  BY <1>2 DEF MemoryOK
<1> QED
  BY <1>3 DEF d

\* The operations of kalloc.c and vm.c make memories of memories.
LEMMA OperationTypes ==
  ASSUME NEW m, MemoryOK(m)
  PROVE  /\ \A f \in Frames : MemoryOK(Kfree(m, f)) /\ MemoryOK(Incref(m, f)) /\ MemoryOK(Decref(m, f))
         /\ \A f \in 0 .. NFrames : MemoryOK(FreeTable(m, f))
         /\ \A e \in Entry : MemoryOK(FreePage(m, e))
<1>1. ASSUME NEW f \in Frames
      PROVE  MemoryOK(Kfree(m, f)) /\ MemoryOK(Incref(m, f)) /\ MemoryOK(Decref(m, f))
  BY KfreeFacts, IncrefFacts, DecrefFacts DEF Touches
<1>2. \A f \in 0 .. NFrames : f = 0 \/ f \in Frames
  BY FrameFacts DEF Frames
<1>3. ASSUME NEW f \in 0 .. NFrames PROVE MemoryOK(FreeTable(m, f))
  <2>1. CASE f = 0
    BY <2>1 DEF FreeTable
  <2>2. CASE f # 0
    BY <1>2, <2>2, FreeTableFacts DEF Touches
  <2> QED
    BY <2>1, <2>2
<1>4. ASSUME NEW e \in Entry PROVE MemoryOK(FreePage(m, e))
  <2>1. e.f = 0 \/ e.f \in Frames
    BY <1>2 DEF Entry
  <2>2. CASE e.f = 0
    BY <2>2 DEF FreePage, Present
  <2>3. CASE e.f \in Frames
    BY <1>1, <2>3 DEF FreePage
  <2> QED
    BY <2>1, <2>2, <2>3
<1> QED
  BY <1>1, <1>3, <1>4

\* So does a fold of deallocuvm over entries.
LEMMA FoldTypes ==
  ASSUME NEW n \in Nat, NEW m, MemoryOK(m), NEW s, DOMAIN s = 1 .. n, \A i \in 1 .. n : s[i] \in Entry
  PROVE  MemoryOK(FoldLeft(FreePage, m, s))
<1> DEFINE c == [base |-> m, seq |-> s]
<1>0. c.base = m /\ \A k, i : StepOf(c, k, i) = FreePage(k, s[i])
  BY DEF StepOf
<1>0a. c = [base |-> m, seq |-> s]
  OBVIOUS
<1> HIDE DEF c
<1>1. PICK g : FoldLeft(FreePage, m, s) = g[1 .. n]
               /\ \A V \in SUBSET (1 .. n) : UnfoldsAt(g, c, V)
  BY <1>0a, PagesFoldAt
<1> DEFINE S == 1 .. n
           B == {U \in SUBSET S : ~MemoryOK(g[U])}
<1> SUFFICES ASSUME B # {} PROVE FALSE
  BY <1>1
<1>2. PICK U \in B : \A V \in B : V \subseteq U => V = U
  <2>1. B \subseteq SUBSET S /\ IsFiniteSet(S)
    BY FS_Interval
  <2> HIDE DEF B, S
  <2> QED
    BY <2>1, SmallestSet
<1>3. (U = {} => g[U] = c.base) /\ (U # {} => g[U] = StepOf(c, g[U \ {Max(U)}], Max(U)))
  <2>1. U \in SUBSET (1 .. n)
    OBVIOUS
  <2> HIDE DEF S, B
  <2>2. UnfoldsAt(g, c, U)
    BY <1>1, <2>1
  <2> QED
    BY <2>2 DEF UnfoldsAt
<1>4. Places(U)
  BY DEF Places
<1>5. U # {}
  BY <1>0, <1>3
<1>6. Max(U) \in U /\ U \ {Max(U)} \in SUBSET S /\ U \ {Max(U)} # U
  BY <1>4, <1>5, MaxIsIn
<1>7. MemoryOK(g[U \ {Max(U)}])
  BY <1>2, <1>6
<1>8. s[Max(U)] \in Entry
  BY <1>6
<1>9. g[U] = FreePage(g[U \ {Max(U)}], s[Max(U)])
  BY <1>0, <1>3, <1>5
<1>10. MemoryOK(g[U])
  <2> HIDE DEF B, S
  <2> QED
    BY <1>7, <1>8, <1>9, OperationTypes
<1> QED
  BY <1>10

\* The entries of a process are entries.
LEMMA EntriesTypes ==
  ASSUME TypeInv, NEW p \in Procs
  PROVE  \E n \in Nat : DOMAIN Entries(p) = 1 .. n /\ \A i \in 1 .. n : Entries(p)[i] \in Entry
<1> DEFINE s == [i \in 1 .. MaxPages |-> pte[p][i - 1]]
           t == [i \in 1 .. MaxMaps |-> mpte[p][i - 1]]
<1>1. MaxPages \in Nat /\ MaxMaps \in Nat
  BY MemorySizes
<1>2. \A i \in 1 .. MaxPages : pte[p][i - 1] \in Entry
  <2>1. \A i \in 1 .. MaxPages : i - 1 \in Pages
    BY <1>1 DEF Pages
  <2> QED
    BY <2>1 DEF TypeInv, EntryTypes
<1>3. \A i \in 1 .. MaxMaps : mpte[p][i - 1] \in Entry
  <2>1. \A i \in 1 .. MaxMaps : i - 1 \in Maps
    BY <1>1 DEF Maps
  <2> QED
    BY <2>1 DEF TypeInv, EntryTypes
<1>4. s \in Seq(Entry) /\ t \in Seq(Entry)
  BY <1>1, <1>2, <1>3
<1>5. Entries(p) = s \o t
  BY DEF Entries
<1> HIDE DEF s, t
<1>6. Entries(p) \in Seq(Entry)
  BY <1>4, <1>5
<1> HIDE DEF Entries
<1> QED
  BY <1>6

\* freevm makes a memory, if there is a page directory.
LEMMA FreeVmTypes ==
  ASSUME TypeInv, NEW p \in Procs, state[p] # "unused", NEW m, MemoryOK(m)
  PROVE  MemoryOK(FreeVm(m, p))
<1>1. /\ upt[p] \in 0 .. NFrames /\ mpt[p] \in 0 .. NFrames /\ kpt[p] \in 0 .. NFrames
      /\ pgdir[p] \in Frames
  <2>1. pgdir[p] \in 0 .. NFrames /\ pgdir[p] # 0
    BY DEF TypeInv, TableTypes, SlotFrames
  <2>2. pgdir[p] \in Frames
    BY <2>1, FrameFacts DEF Frames
  <2> QED
    BY <2>2 DEF TypeInv, TableTypes
<1> DEFINE m1 == FoldLeft(FreePage, m, Entries(p))
           m2 == FreeTable(m1, upt[p])
           m3 == FreeTable(m2, mpt[p])
           m4 == FreeTable(m3, kpt[p])
<1>2. MemoryOK(m1)
  BY EntriesTypes, FoldTypes
<1>3. FreeVm(m, p) = Kfree(m4, pgdir[p])
  BY DEF FreeVm
<1> HIDE DEF m1
<1>4. MemoryOK(m2)
  BY <1>1, <1>2, OperationTypes
<1> HIDE DEF m2
<1>5. MemoryOK(m3)
  BY <1>1, <1>4, OperationTypes
<1> HIDE DEF m3
<1>6. MemoryOK(m4)
  BY <1>1, <1>5, OperationTypes
<1> HIDE DEF m4
<1> QED
  BY <1>1, <1>3, <1>6, OperationTypes

\* What SetMemory sets.
LEMMA SetTypes ==
  ASSUME NEW m, MemoryOK(m), SetMemory(m)
  PROVE  MemTypes'
BY MemorySet DEF MemTypes

\* kalloc's pages, and what is left.
LEMMA AllocTypes ==
  ASSUME TypeInv, NEW p \in Procs, Running(p), NEW n \in Nat, CanAlloc(n)
  PROVE  /\ MemoryOK(Alloc(n)) /\ MemoryOK(Memory) /\ Alloc(n).ref = ref /\ Alloc(n).data = data
         /\ \A i \in 1 .. n : free[i] \in Frames /\ free[i] \in 0 .. NFrames
<1>1. CowTypeOK /\ FreedOnce
  BY TypesAre DEF Running
<1>2. \A i \in 1 .. n : free[i] \in Frames
  BY <1>1, AllocFacts
<1>3. \A f \in Frames : f \in 0 .. NFrames
  BY FrameFacts DEF Frames
<1> QED
  BY <1>1, <1>2, <1>3, AllocFacts, MemoryFacts

\* Entries that fork and faults make.
LEMMA EntryKinds ==
  /\ NoPte \in Entry
  /\ \A e \in Entry : CowEntry(e) \in Entry /\ e.f \in 0 .. NFrames
  /\ \A f \in Frames, w \in BOOLEAN : [f |-> f, w |-> w, cow |-> FALSE] \in Entry
  /\ \A e \in Entry : [e EXCEPT !.w = TRUE, !.cow = FALSE] \in Entry
<1>1. NoPte \in Entry
  BY FrameFacts DEF NoPte, Entry
<1>2. \A e \in Entry : CowEntry(e) \in Entry /\ e.f \in 0 .. NFrames
  BY DEF Entry, CowEntry
<1>3. \A f \in Frames, w \in BOOLEAN : [f |-> f, w |-> w, cow |-> FALSE] \in Entry
  BY FrameFacts DEF Entry, Frames
<1>4. \A e \in Entry : [e EXCEPT !.w = TRUE, !.cow = FALSE] \in Entry
  BY DEF Entry
<1> QED
  BY <1>1, <1>2, <1>3, <1>4

\* copyuvm makes a page table of a page table.
LEMMA CopyUvmTypes ==
  ASSUME TypeInv, NEW p \in Procs
  PROVE  CopyUvm(p) \in [Pages -> Entry]
BY EntryKinds DEF CopyUvm, TypeInv, EntryTypes

\* fork keeps the types.
LEMMA ForkTypeStep ==
  ASSUME TypeInv, NEW p \in Procs, NEW c \in Procs, Fork(p, c)
  PROVE  TypeInv'
<1>1. Running(p) /\ state[p] = "run"
  BY DEF Fork, Running
<1>2. PICK n \in {4, 5} : n = IF HasMapped(p) THEN 5 ELSE 4
  OBVIOUS
<1>3. n \in Nat /\ CanAlloc(n) /\ SetMemory(CountPages(Alloc(n), p))
  BY <1>2 DEF Fork
<1>4. /\ MemoryOK(Alloc(n)) /\ \A i \in 1 .. n : free[i] \in 0 .. NFrames /\ free[i] \in Frames
      /\ 1 \in 1 .. n /\ 2 \in 1 .. n /\ 3 \in 1 .. n /\ 4 \in 1 .. n
  BY <1>1, <1>3, AllocTypes
<1>5. MemTypes'
  BY <1>3, <1>4, CountPagesFacts, SetTypes
<1>6. ProcTypes'
  BY DEF Fork, TypeInv, ProcTypes
<1>7. EntryTypes'
  <2>1. CopyUvm(p) \in [Pages -> Entry]
    BY CopyUvmTypes
  <2>2. [a \in Pages |-> IF InSize(p, a) THEN CowEntry(pte[p][a]) ELSE NoPte] \in [Pages -> Entry]
    BY EntryKinds DEF TypeInv, EntryTypes
  <2>3. [m \in Maps |-> IF m \in maps[p] THEN mpte[p][m] ELSE NoPte] \in [Maps -> Entry]
    BY EntryKinds DEF TypeInv, EntryTypes
  <2>4. /\ pte' = [pte EXCEPT ![p] = CopyUvm(p),
                             ![c] = [a \in Pages |-> IF InSize(p, a) THEN CowEntry(pte[p][a]) ELSE NoPte]]
        /\ mpte' = [mpte EXCEPT ![c] = [m \in Maps |-> IF m \in maps[p] THEN mpte[p][m] ELSE NoPte]]
    BY DEF Fork
  <2>5. mpte' \in [Procs -> [Maps -> Entry]]
    BY <2>3, <2>4 DEF TypeInv, EntryTypes
  <2>6. pte' \in [Procs -> [Pages -> Entry]]
    BY <2>1, <2>2, <2>4 DEF TypeInv, EntryTypes
  <2> QED
    BY <2>5, <2>6 DEF EntryTypes
<1>8. TableTypes'
  <2>1. (IF HasMapped(p) THEN free[5] ELSE 0) \in 0 .. NFrames
    BY <1>2, <1>4, FrameFacts
  <2>2. /\ kstack' = [kstack EXCEPT ![c] = free[1]] /\ pgdir' = [pgdir EXCEPT ![c] = free[2]]
        /\ kpt' = [kpt EXCEPT ![c] = free[3]] /\ upt' = [upt EXCEPT ![c] = free[4]]
        /\ mpt' = [mpt EXCEPT ![c] = IF HasMapped(p) THEN free[5] ELSE 0]
    BY DEF Fork
  <2>3. /\ free[1] \in 0 .. NFrames /\ free[2] \in 0 .. NFrames
        /\ free[3] \in 0 .. NFrames /\ free[4] \in 0 .. NFrames
    BY <1>4
  <2> QED
    BY <2>1, <2>2, <2>3 DEF TypeInv, TableTypes
<1>9. SlotFrames'
  <2>1. free[1] # 0 /\ free[2] # 0
    BY <1>4, FrameFacts
  <2>2. sz[p] >= 1
    BY <1>1 DEF TypeInv, SlotFrames
  <2>3. /\ kstack' = [kstack EXCEPT ![c] = free[1]] /\ pgdir' = [pgdir EXCEPT ![c] = free[2]]
        /\ sz' = [sz EXCEPT ![c] = sz[p]] /\ state' = [state EXCEPT ![c] = "run"]
    BY DEF Fork
  <2> QED
    BY <2>1, <2>2, <2>3 DEF TypeInv, TableTypes, ProcTypes, SlotFrames
<1> QED
  BY <1>5, <1>6, <1>7, <1>8, <1>9 DEF TypeInv

\* Groups of variables that a step leaves alone.
LEMMA TypesKept ==
  ASSUME TypeInv
  PROVE  /\ UNCHANGED memVars => MemTypes'
         /\ UNCHANGED <<state, parent, sz, maps>> => ProcTypes'
         /\ UNCHANGED <<pte, mpte>> => EntryTypes'
         /\ UNCHANGED tableVars => TableTypes'
         /\ UNCHANGED <<state, sz, kstack, pgdir>> => SlotFrames'
BY DEF TypeInv, MemTypes, ProcTypes, EntryTypes, TableTypes, SlotFrames, memVars, tableVars

\* Forks that fail keep them.
LEMMA ForkFailsTypeStep ==
  ASSUME TypeInv, NEW p \in Procs, ForkFailsInCopy(p) \/ ForkFailsInMaps(p)
  PROVE  TypeInv'
<1>1. Running(p) /\ UNCHANGED <<state, parent, sz, maps, mpte>> /\ UNCHANGED tableVars
  BY DEF ForkFailsInCopy, ForkFailsInMaps
<1>2. ProcTypes' /\ TableTypes' /\ SlotFrames'
  BY <1>1, TypesKept DEF tableVars
<1>3. 0 \in Pages /\ pte[p][0] \in Entry /\ CowEntry(pte[p][0]) \in Entry
  BY SizeFacts, EntryKinds DEF TypeInv, EntryTypes
<1>4. CASE ForkFailsInCopy(p)
  <2>1. Len(free) = 3 /\ SetMemory(Incref(Decref(Memory, free[3]), pte[p][0].f))
        /\ pte' = [pte EXCEPT ![p][0] = CowEntry(pte[p][0])]
    BY <1>4 DEF ForkFailsInCopy
  <2>2. EntryTypes'
    BY <1>1, <1>3, <2>1 DEF TypeInv, EntryTypes
  <2>3. MemoryOK(Memory) /\ free[3] \in Frames
    BY <1>1, <2>1, AllocTypes DEF CanAlloc
  <2>4. MemoryOK(Decref(Memory, free[3]))
    BY <2>3, OperationTypes
  <2>5. MemoryOK(Incref(Decref(Memory, free[3]), pte[p][0].f))
    <3>1. PICK m : m = Decref(Memory, free[3])
      OBVIOUS
    <3>2. CASE pte[p][0].f \in Frames
      BY <2>4, <3>2, OperationTypes
    <3>3. CASE pte[p][0].f \notin Frames
      <4>1. MemoryOK(m) /\ m.ref \in [Frames -> 0 .. RefRange - 1]
        BY <2>4, <3>1 DEF MemoryOK
      <4>2. [m.ref EXCEPT ![pte[p][0].f] = (m.ref[pte[p][0].f] + 1) % RefRange] = m.ref
        BY <3>3, <4>1
      <4>3. Incref(m, pte[p][0].f) = [m EXCEPT !.ref = m.ref]
        BY <4>2 DEF Incref
      <4>4. MemoryOK([m EXCEPT !.ref = m.ref])
        BY <4>1 DEF MemoryOK
      <4> QED
        BY <3>1, <4>3, <4>4
    <3> QED
      BY <3>2, <3>3
  <2>6. MemTypes'
    BY <2>1, <2>5, SetTypes
  <2> QED
    BY <1>2, <2>2, <2>6 DEF TypeInv
<1>5. CASE ForkFailsInMaps(p)
  <2> DEFINE priv == [i \in 1 .. MaxPages |-> IF i <= sz[p] THEN pte[p][i - 1] ELSE NoPte]
             m == CountPages(Alloc(4), p)
             m1 == FoldLeft(FreePage, m, priv)
             m2 == FreeTable(m1, free[4])
             m3 == FreeTable(m2, free[3])
  <2>1. Len(free) = 4 /\ SetMemory(Kfree(m3, free[2])) /\ pte' = [pte EXCEPT ![p] = CopyUvm(p)]
    BY <1>5 DEF ForkFailsInMaps
  <2>2. EntryTypes'
    BY <1>1, <2>1, CopyUvmTypes DEF TypeInv, EntryTypes
  <2>3. /\ MemoryOK(Alloc(4)) /\ free[2] \in Frames
        /\ free[3] \in 0 .. NFrames /\ free[4] \in 0 .. NFrames
    BY <1>1, <2>1, AllocTypes DEF CanAlloc
  <2>4. MemoryOK(m)
    BY <2>3, CountPagesFacts
  <2>5. MaxPages \in Nat /\ DOMAIN priv = 1 .. MaxPages /\ \A i \in 1 .. MaxPages : priv[i] \in Entry
    <3>1. MaxPages \in Nat /\ \A i \in 1 .. MaxPages : i - 1 \in Pages
      BY SizeFacts DEF Pages
    <3>2. \A i \in 1 .. MaxPages : pte[p][i - 1] \in Entry
      BY <3>1 DEF TypeInv, EntryTypes
    <3> QED
      BY <3>1, <3>2, EntryKinds
  <2> HIDE DEF priv, m
  <2>6. MemoryOK(m1)
    BY <2>4, <2>5, FoldTypes
  <2> HIDE DEF m1
  <2>7. MemoryOK(m2)
    BY <2>3, <2>6, OperationTypes
  <2> HIDE DEF m2
  <2>8. MemoryOK(m3)
    BY <2>3, <2>7, OperationTypes
  <2> HIDE DEF m3
  <2>9. MemTypes'
    BY <2>1, <2>3, <2>8, OperationTypes, SetTypes
  <2> QED
    BY <1>2, <2>2, <2>9 DEF TypeInv
<1> QED
  BY <1>4, <1>5

\* So do stores.
LEMMA StoreTypeStep ==
  ASSUME TypeInv, NEW f, NEW v \in Values, data' = [data EXCEPT ![f] = v],
         UNCHANGED <<free, ref, procVars>>
  PROVE  TypeInv'
<1>1. MemTypes'
  BY DEF TypeInv, MemTypes
<1>2. UNCHANGED <<state, parent, sz, pte, maps, mpte, kstack, pgdir>> /\ UNCHANGED tableVars
  BY DEF procVars, tableVars
<1>3. ProcTypes' /\ EntryTypes' /\ TableTypes' /\ SlotFrames'
  BY <1>2, TypesKept
<1> QED
  BY <1>1, <1>3 DEF TypeInv

\* Page faults of copy-on-write pages.
LEMMA CowFaultTypeStep ==
  ASSUME TypeInv, NEW p \in Procs, NEW a \in Pages, CowFault(p, a)
  PROVE  TypeInv'
<1>1. Running(p) /\ UNCHANGED <<state, parent, sz, maps, mpte>> /\ UNCHANGED tableVars
      /\ Present(pte[p][a])
  BY DEF CowFault, Panic, procVars
<1>2. ProcTypes' /\ TableTypes' /\ SlotFrames'
  BY <1>1, TypesKept DEF tableVars
<1>3. pte[p][a] \in Entry /\ pte[p][a].f \in Frames
  <2>1. pte[p][a] \in Entry
    BY DEF TypeInv, EntryTypes
  <2> QED
    BY <1>1, <2>1, FrameFacts DEF Entry, Frames, Present
<1>4. CASE Copies(p, a)
  <2> DEFINE m == [Alloc(1) EXCEPT !.data[free[1]] = data[pte[p][a].f]]
             m1 == Incref(m, free[1])
  <2>1. SetMemory(Decref(m1, pte[p][a].f)) /\ CanAlloc(1)
        /\ pte' = [pte EXCEPT ![p][a] = [f |-> free[1], w |-> TRUE, cow |-> FALSE]]
    <3>1. ref[pte[p][a].f] \in 0 .. RefRange - 1
      BY <1>3 DEF TypeInv, MemTypes
    <3>2. ref[pte[p][a].f] \in Int /\ ref[pte[p][a].f] > 1 /\ CanAlloc(1)
      BY <1>4, <3>1, CountsAreBytes DEF Copies
    <3>3. ref[pte[p][a].f] # 1 /\ ~(ref[pte[p][a].f] < 1)
      BY <3>2
    <3> QED
      BY <3>2, <3>3 DEF CowFault
  <2>2. MemoryOK(Alloc(1)) /\ free[1] \in Frames
    BY <1>1, <2>1, AllocTypes
  <2>3. data[pte[p][a].f] \in Values \cup {Junk}
    BY <1>3 DEF TypeInv, MemTypes
  <2>4. MemoryOK(m)
    BY <2>2, <2>3, DataTypes
  <2> HIDE DEF m
  <2>5. MemoryOK(m1)
    BY <2>2, <2>4, OperationTypes
  <2> HIDE DEF m1
  <2>6. MemTypes'
    BY <1>3, <2>1, <2>5, OperationTypes, SetTypes
  <2>7. EntryTypes'
    <3>1. [f |-> free[1], w |-> TRUE, cow |-> FALSE] \in Entry
      BY <2>2, EntryKinds
    <3> QED
      BY <1>1, <2>1, <3>1 DEF TypeInv, EntryTypes
  <2> QED
    BY <1>2, <2>6, <2>7 DEF TypeInv
<1>5. CASE ref[pte[p][a].f] = 1
  <2>1. UNCHANGED memVars /\ \/ pte' = [pte EXCEPT ![p][a] = [pte[p][a] EXCEPT !.w = TRUE, !.cow = FALSE]]
                             \/ UNCHANGED pte
    BY <1>5 DEF CowFault, Panic, procVars
  <2>2. [pte[p][a] EXCEPT !.w = TRUE, !.cow = FALSE] \in Entry
    BY <1>3, EntryKinds
  <2>3. EntryTypes'
    <3>1. CASE pte' = [pte EXCEPT ![p][a] = [pte[p][a] EXCEPT !.w = TRUE, !.cow = FALSE]]
      <4> DEFINE e == [pte[p][a] EXCEPT !.w = TRUE, !.cow = FALSE]
      <4>1. e \in Entry /\ pte' = [pte EXCEPT ![p][a] = e]
        BY <2>2, <3>1
      <4> HIDE DEF e
      <4> QED
        BY <1>1, <4>1 DEF TypeInv, EntryTypes
    <3>2. CASE UNCHANGED pte
      BY <1>1, <3>2, TypesKept
    <3> QED
      BY <2>1, <3>1, <3>2
  <2> QED
    BY <1>2, <2>1, <2>3, TypesKept DEF TypeInv
<1>6. CASE ~Copies(p, a) /\ ref[pte[p][a].f] # 1
  <2>1. UNCHANGED <<memVars, pte>>
    BY <1>6 DEF CowFault, Copies, Panic, procVars
  <2> QED
    BY <1>1, <1>2, <2>1, TypesKept DEF TypeInv
<1> QED
  BY <1>4, <1>5, <1>6

\* Page faults of mappings.
LEMMA LazyFaultTypeStep ==
  ASSUME TypeInv, NEW p \in Procs, NEW m \in Maps, LazyFault(p, m)
  PROVE  TypeInv'
<1>1. Running(p) /\ UNCHANGED <<state, parent, sz, maps, pte, kstack, pgdir, kpt, upt>>
  BY DEF LazyFault, Panic, procVars, tableVars
<1>2. ProcTypes' /\ SlotFrames'
  BY <1>1, TypesKept
<1>3. PICK n \in {1, 2} : n = IF mpt[p] = 0 THEN 2 ELSE 1
  OBVIOUS
<1>4. CASE CanAlloc(n)
  <2>1. /\ SetMemory([Alloc(n) EXCEPT !.data[free[1]] = Zero])
        /\ mpte' = [mpte EXCEPT ![p][m] = [f |-> free[1], w |-> TRUE, cow |-> FALSE]]
        /\ mpt' = IF n = 2 THEN [mpt EXCEPT ![p] = free[2]] ELSE mpt
    BY <1>3, <1>4 DEF LazyFault
  <2>2. n \in Nat /\ 1 \in 1 .. n /\ (n = 2 => 2 \in 1 .. n)
    OBVIOUS
  <2>3. /\ MemoryOK(Alloc(n)) /\ free[1] \in Frames
        /\ n = 2 => free[2] \in 0 .. NFrames
    BY <1>1, <1>4, <2>2, AllocTypes
  <2>4. MemTypes'
    BY <2>1, <2>3, DataTypes, SetTypes, InitIsProc
  <2>5. EntryTypes'
    <3>1. [f |-> free[1], w |-> TRUE, cow |-> FALSE] \in Entry
      BY <2>3, EntryKinds
    <3> QED
      BY <1>1, <2>1, <3>1 DEF TypeInv, EntryTypes
  <2>6. TableTypes'
    BY <1>1, <2>1, <2>3 DEF TypeInv, TableTypes
  <2> QED
    BY <1>2, <2>4, <2>5, <2>6 DEF TypeInv
<1>5. CASE ~CanAlloc(n)
  <2>1. UNCHANGED <<memVars, pte, mpte>> /\ UNCHANGED tableVars
    BY <1>3, <1>5 DEF LazyFault, Panic, procVars
  <2> QED
    BY <1>2, <2>1, TypesKept DEF TypeInv
<1> QED
  BY <1>4, <1>5

\* wmap and wunmap.
LEMMA MapTypeStep ==
  ASSUME TypeInv, NEW p \in Procs, NEW m \in Maps, Wmap(p, m) \/ Wunmap(p, m)
  PROVE  TypeInv'
<1>1. Running(p) /\ UNCHANGED <<state, parent, sz, pte>> /\ UNCHANGED tableVars
  BY DEF Wmap, Wunmap
<1>2. TableTypes' /\ SlotFrames'
  BY <1>1, TypesKept DEF tableVars
<1>3. CASE Wmap(p, m)
  <2>1. maps' = [maps EXCEPT ![p] = maps[p] \cup {m}] /\ UNCHANGED <<memVars, mpte>>
    BY <1>3 DEF Wmap
  <2>2. ProcTypes'
    BY <1>1, <2>1 DEF TypeInv, ProcTypes
  <2> QED
    BY <1>1, <1>2, <2>1, <2>2, TypesKept DEF TypeInv
<1>4. CASE Wunmap(p, m)
  <2>1. /\ SetMemory(UnmapPage(Memory, mpte[p][m])) /\ mpte' = [mpte EXCEPT ![p][m] = NoPte]
        /\ maps' = [maps EXCEPT ![p] = maps[p] \ {m}]
    BY <1>4 DEF Wunmap
  <2>2. ProcTypes' /\ EntryTypes'
    BY <1>1, <2>1, EntryKinds DEF TypeInv, ProcTypes, EntryTypes
  <2>3. MemoryOK(Memory) /\ mpte[p][m] \in Entry
    BY TypesAre, MemoryFacts DEF TypeInv, EntryTypes
  <2>4. CASE Present(mpte[p][m])
    <3>1. mpte[p][m].f \in Frames
      BY <2>3, <2>4, FrameFacts DEF Present, Entry, Frames
    <3>2. PICK m1 : m1 = Decref(Memory, mpte[p][m].f)
      OBVIOUS
    <3>3. MemoryOK(m1) /\ MemoryOK(Kfree(m1, mpte[p][m].f))
      BY <2>3, <3>1, <3>2, OperationTypes
    <3>4. UnmapPage(Memory, mpte[p][m]) \in {m1, Kfree(m1, mpte[p][m].f)}
      BY <2>4, <3>2 DEF UnmapPage
    <3> QED
      BY <1>2, <2>1, <2>2, <3>3, <3>4, SetTypes DEF TypeInv
  <2>5. CASE ~Present(mpte[p][m])
    <3>1. UnmapPage(Memory, mpte[p][m]) = Memory
      BY <2>5 DEF UnmapPage
    <3> QED
      BY <1>2, <2>1, <2>2, <2>3, <3>1, SetTypes DEF TypeInv
  <2> QED
    BY <2>4, <2>5
<1> QED
  BY <1>3, <1>4

\* sbrk.
LEMMA SbrkTypeStep ==
  ASSUME TypeInv, NEW p \in Procs, Grow(p) \/ Shrink(p)
  PROVE  TypeInv'
<1>1. Running(p) /\ UNCHANGED <<state, parent, maps, mpte, kstack, pgdir>> /\ UNCHANGED tableVars
  BY DEF Grow, Shrink, Panic, procVars, tableVars
<1>2. TableTypes' /\ sz[p] \in Nat /\ sz[p] >= 1 /\ sz[p] <= MaxPages /\ MaxPages \in Nat
  BY <1>1, TypesKept, SizeFacts, TypesAre DEF TypeInv, ProcTypes, SlotFrames, Running
<1>3. ASSUME NEW n \in Nat, n >= 1, n <= MaxPages, sz' = [sz EXCEPT ![p] = n]
      PROVE  ProcTypes' /\ SlotFrames'
  <2>1. n \in 0 .. MaxPages
    BY <1>2, <1>3
  <2> QED
    BY <1>1, <1>3, <2>1 DEF TypeInv, ProcTypes, SlotFrames
<1>4. CASE Grow(p)
  <2>1. CASE GrowFits(p)
    <3>1. /\ SetMemory(GrowMemory(p)) /\ CanAlloc(1) /\ sz[p] < MaxPages
          /\ pte' = [pte EXCEPT ![p][sz[p]] = [f |-> free[1], w |-> TRUE, cow |-> FALSE]]
          /\ sz' = [sz EXCEPT ![p] = sz[p] + 1]
      BY <1>4, <2>1 DEF Grow, GrowFits, GrowMemory
    <3>2. MemoryOK(Alloc(1)) /\ free[1] \in Frames
      BY <1>1, <3>1, AllocTypes
    <3>3. MemoryOK(Incref(Alloc(1), free[1]))
      BY <3>2, OperationTypes
    <3>4. MemTypes'
      BY <3>1, <3>3, DataTypes, SetTypes, InitIsProc DEF GrowMemory
    <3>5. EntryTypes'
      <4>1. [f |-> free[1], w |-> TRUE, cow |-> FALSE] \in Entry
        BY <3>2, EntryKinds
      <4> QED
        BY <1>1, <3>1, <4>1 DEF TypeInv, EntryTypes
    <3>6. ProcTypes' /\ SlotFrames'
      <4>1. PICK n \in Nat : n = sz[p] + 1
        BY <1>2
      <4>2. n >= 1 /\ n <= MaxPages /\ sz' = [sz EXCEPT ![p] = n]
        BY <1>2, <3>1, <4>1
      <4> QED
        BY <1>3, <4>2
    <3> QED
      BY <1>2, <3>4, <3>5, <3>6 DEF TypeInv
  <2>2. CASE ~GrowFits(p)
    <3>1. UNCHANGED <<memVars, procVars>>
      BY <1>4, <2>2, GrowPanics
    <3> QED
      BY <1>2, <3>1, TypesKept DEF TypeInv, procVars, tableVars
  <2> QED
    BY <2>1, <2>2
<1>5. CASE Shrink(p)
  <2> DEFINE a == sz[p] - 1
  <2>1. /\ sz[p] > 1 /\ SetMemory(FreePage(Memory, pte[p][a])) /\ sz' = [sz EXCEPT ![p] = a]
        /\ pte' = [pte EXCEPT ![p][a] = NoPte] \/ pte' = pte
    BY <1>5 DEF Shrink
  <2>2. a \in Pages /\ a \in Nat /\ a >= 1 /\ a <= MaxPages
    BY <1>2, <2>1 DEF Pages
  <2> HIDE DEF a
  <2>3. MemoryOK(Memory) /\ pte[p][a] \in Entry
    BY <2>2, TypesAre, MemoryFacts DEF TypeInv, EntryTypes
  <2>4. MemTypes'
    BY <2>1, <2>3, OperationTypes, SetTypes
  <2>5. EntryTypes'
    <3>1. CASE pte' = [pte EXCEPT ![p][a] = NoPte]
      BY <1>1, <3>1, EntryKinds DEF TypeInv, EntryTypes
    <3>2. CASE pte' = pte
      BY <1>1, <3>2, TypesKept
    <3> QED
      BY <2>1, <3>1, <3>2
  <2>6. ProcTypes' /\ SlotFrames'
    BY <1>3, <2>1, <2>2
  <2> QED
    BY <1>2, <2>4, <2>5, <2>6 DEF TypeInv
<1> QED
  BY <1>4, <1>5

\* exec.
LEMMA ExecTypeStep ==
  ASSUME TypeInv, NEW p \in Procs, NEW n \in 1 .. MaxPages, NEW v \in Values, Exec(p, n, v)
  PROVE  TypeInv'
<1>1. /\ Running(p) /\ CanAlloc(n + 3) /\ SetMemory(FreeVm(ImageMemory(n, v), p))
      /\ pte' = [pte EXCEPT ![p] = ImageEntries(n)]
  BY ExecIs
<1>2. /\ UNCHANGED <<state, parent, maps, kstack>> /\ mpte' = [mpte EXCEPT ![p] = [m \in Maps |-> NoPte]]
      /\ sz' = [sz EXCEPT ![p] = n] /\ mpt' = [mpt EXCEPT ![p] = 0]
      /\ pgdir' = [pgdir EXCEPT ![p] = free[1]] /\ kpt' = [kpt EXCEPT ![p] = free[2]]
      /\ upt' = [upt EXCEPT ![p] = free[4]]
  BY DEF Exec
<1>3. n \in Nat /\ n >= 1 /\ n <= MaxPages /\ MaxPages \in Nat /\ n + 3 \in Nat
  BY SizeFacts
<1>4. \A i \in 1 .. n + 3 : free[i] \in Frames /\ free[i] \in 0 .. NFrames
  BY <1>1, <1>3, AllocTypes
<1>5. free[1] \in Frames /\ free[2] \in Frames /\ free[4] \in Frames
      /\ free[1] \in 0 .. NFrames /\ free[2] \in 0 .. NFrames /\ free[4] \in 0 .. NFrames
  <2>1. 1 \in 1 .. n + 3 /\ 2 \in 1 .. n + 3 /\ 4 \in 1 .. n + 3
    BY <1>3
  <2> QED
    BY <1>4, <2>1
<1>6. MemTypes'
  <2>1. MemoryOK(ImageMemory(n, v))
    BY <1>1, TypesAre, ImageMemoryFacts DEF Running
  <2>2. state[p] # "unused"
    BY <1>1 DEF Running
  <2>3. MemoryOK(FreeVm(ImageMemory(n, v), p))
    BY <2>1, <2>2, FreeVmTypes
  <2> QED
    BY <1>1, <2>3, SetTypes
<1>7. ImageEntries(n) \in [Pages -> Entry]
  <2>1. ASSUME NEW a \in Pages, a < n PROVE ImageFrame(a) \in Frames
    <3>1. a \in Nat
      BY SizeFacts
    <3>2. 3 \in 1 .. n + 3 /\ 4 + a \in 1 .. n + 3
      BY <1>3, <2>1, <3>1
    <3> QED
      BY <1>4, <3>2 DEF ImageFrame
  <2> QED
    BY <2>1, EntryKinds DEF ImageEntries
<1>8. EntryTypes'
  BY <1>1, <1>2, <1>7, EntryKinds DEF TypeInv, EntryTypes
<1>9. ProcTypes'
  <2>1. n \in 0 .. MaxPages
    BY <1>3
  <2> QED
    BY <1>2, <2>1 DEF TypeInv, ProcTypes
<1>10. TableTypes'
  <2>1. 0 \in 0 .. NFrames
    BY FrameFacts
  <2> QED
    BY <1>2, <1>5, <2>1 DEF TypeInv, TableTypes
<1>11. SlotFrames'
  BY <1>2, <1>3, <1>5, FrameFacts DEF TypeInv, SlotFrames, TableTypes, ProcTypes
<1> QED
  BY <1>6, <1>8, <1>9, <1>10, <1>11 DEF TypeInv

\* exec that fails.
LEMMA ExecFailsTypeStep ==
  ASSUME TypeInv, NEW p \in Procs, ExecFails(p)
  PROVE  TypeInv'
<1>1. /\ Running(p) /\ Len(free) = 3 /\ SetMemory(Decref(Incref(Memory, free[3]), free[2]))
      /\ UNCHANGED procVars
  BY DEF ExecFails
<1>2. MemoryOK(Memory) /\ free[2] \in Frames /\ free[3] \in Frames
  BY <1>1, AllocTypes DEF CanAlloc
<1>3. MemoryOK(Incref(Memory, free[3]))
  BY <1>2, OperationTypes
<1>4. MemTypes'
  BY <1>1, <1>2, <1>3, OperationTypes, SetTypes
<1> QED
  BY <1>1, <1>4, TypesKept DEF TypeInv, procVars, tableVars

\* exit.
LEMMA ExitTypeStep ==
  ASSUME TypeInv, NEW p \in Procs, Exit(p)
  PROVE  TypeInv'
<1>1. /\ state[p] = "run" /\ state' = [state EXCEPT ![p] = "zombie"]
      /\ parent' = [q \in Procs |-> IF parent[q] = p THEN InitProc ELSE parent[q]]
      /\ UNCHANGED <<memVars, sz, pte, maps, mpte, kstack, pgdir>> /\ UNCHANGED tableVars
  BY DEF Exit, Running, tableVars
<1>2. ProcTypes' /\ SlotFrames'
  BY <1>1, InitIsProc DEF TypeInv, ProcTypes, SlotFrames
<1> QED
  BY <1>1, <1>2, TypesKept DEF TypeInv

\* wait.
LEMMA WaitTypeStep ==
  ASSUME TypeInv, NEW p \in Procs, NEW c \in Procs, Wait(p, c)
  PROVE  TypeInv'
<1>1. /\ state[c] = "zombie" /\ SetMemory(FreeVm(Kfree(Memory, kstack[c]), c))
      /\ state' = [state EXCEPT ![c] = "unused"] /\ parent' = [parent EXCEPT ![c] = InitProc]
      /\ sz' = [sz EXCEPT ![c] = 0] /\ maps' = [maps EXCEPT ![c] = {}]
      /\ pte' = [pte EXCEPT ![c] = [a \in Pages |-> NoPte]]
      /\ mpte' = [mpte EXCEPT ![c] = [m \in Maps |-> NoPte]]
      /\ kstack' = [kstack EXCEPT ![c] = 0] /\ pgdir' = [pgdir EXCEPT ![c] = 0]
      /\ kpt' = [kpt EXCEPT ![c] = 0] /\ upt' = [upt EXCEPT ![c] = 0] /\ mpt' = [mpt EXCEPT ![c] = 0]
  BY DEF Wait
<1>2. MemoryOK(Memory) /\ kstack[c] \in Frames
  BY <1>1, TypesAre, MemoryFacts, FrameFacts DEF TypeInv, TableTypes, SlotFrames, Frames
<1>3. MemoryOK(Kfree(Memory, kstack[c]))
  BY <1>2, OperationTypes
<1>4. MemTypes'
  BY <1>1, <1>3, FreeVmTypes, SetTypes
<1>5. ProcTypes'
  <2>1. 0 \in 0 .. MaxPages
    BY SizeFacts
  <2> QED
    BY <1>1, <2>1, InitIsProc DEF TypeInv, ProcTypes
<1>6. EntryTypes'
  BY <1>1, EntryKinds DEF TypeInv, EntryTypes
<1>7. TableTypes'
  <2>1. 0 \in 0 .. NFrames
    BY FrameFacts
  <2> QED
    BY <1>1, <2>1 DEF TypeInv, TableTypes
<1>8. SlotFrames'
  BY <1>1 DEF TypeInv, SlotFrames, ProcTypes, TableTypes
<1> QED
  BY <1>4, <1>5, <1>6, <1>7, <1>8 DEF TypeInv

\* Every step keeps them.
LEMMA TypeStep ==
  ASSUME TypeInv, [Next]_vars
  PROVE  TypeInv'
<1>1. CASE UNCHANGED <<memVars, procVars>>
  BY <1>1, TypesKept DEF TypeInv, procVars, tableVars
<1>2. CASE UNCHANGED vars
  BY <1>1, <1>2 DEF vars
<1>3. CASE \E p, c \in Procs : Fork(p, c) \/ Wait(p, c)
  BY <1>3, ForkTypeStep, WaitTypeStep
<1>4. CASE \E p \in Procs : \/ ForkFailsInCopy(p) \/ ForkFailsInMaps(p)
                            \/ Grow(p) \/ Shrink(p) \/ Exit(p) \/ ExecFails(p)
  BY <1>4, ForkFailsTypeStep, SbrkTypeStep, ExitTypeStep, ExecFailsTypeStep
<1>5. CASE \E p \in Procs, a \in Pages : CowFault(p, a)
  BY <1>5, CowFaultTypeStep
<1>6. CASE \E p \in Procs, a \in Pages, v \in Values : Store(p, a, v)
  BY <1>6, StoreTypeStep DEF Store
<1>7. CASE \E p \in Procs, m \in Maps : LazyFault(p, m) \/ Wmap(p, m) \/ Wunmap(p, m)
  BY <1>7, LazyFaultTypeStep, MapTypeStep
<1>8. CASE \E p \in Procs, m \in Maps, v \in Values : MapStore(p, m, v)
  BY <1>8, StoreTypeStep DEF MapStore
<1>9. CASE \E p \in Procs, n \in 1 .. MaxPages, v \in Values : Exec(p, n, v)
  BY <1>9, ExecTypeStep
<1>10. CASE \E p \in Procs, n \in 1 .. MaxPages : ExecPanics(p, n)
  BY <1>1, <1>10 DEF ExecPanics, Panic
<1> QED
  BY <1>2, <1>3, <1>4, <1>5, <1>6, <1>7, <1>8, <1>9, <1>10 DEF Next

\* They hold at the start.
LEMMA InitTypeInv == Init => TypeInv
<1> SUFFICES ASSUME Init PROVE TypeInv
  OBVIOUS
<1>1. CowTypeOK
  BY InitTypes
<1>2. MemTypes /\ ProcTypes /\ EntryTypes /\ TableTypes
  BY <1>1 DEF CowTypeOK, MemTypes, ProcTypes, EntryTypes, TableTypes
<1>3. SlotFrames
  <2> SUFFICES ASSUME NEW p \in Procs, state[p] # "unused"
               PROVE  kstack[p] # 0 /\ pgdir[p] # 0 /\ sz[p] >= 1
    BY DEF SlotFrames
  <2>1. p = InitProc
    BY DEF Init
  <2> QED
    BY <2>1, InitFrames DEF Init
<1> QED
  BY <1>2, <1>3 DEF TypeInv

\* In every behaviour, with mappings, without memory and with whatever counts: the
\* free list has frames of the machine, a count is a byte, entries and kernel frames
\* are frames, and what freevm frees of a process in use is there.
THEOREM TypesHold == Spec => []CowTypeOK
<1>1. TypeInv /\ [Next]_vars => TypeInv'
  BY TypeStep
<1> QED
  BY <1>1, InitTypeInv, TypesAre, PTL DEF Spec

-----------------------------------------------------------------------------
(* Text.                                                                    *)

\* An entry that no store and no fault makes writable.
Sealed(e) == ~e.w /\ ~e.cow
TextSealed == \A p \in Procs, a \in TextPages : Sealed(pte[p][a])

\* fork and an empty entry leave it so.
LEMMA SealedEntries == Sealed(NoPte) /\ \A e : Sealed(e) => CowEntry(e) = e
BY DEF Sealed, NoPte, CowEntry

\* A step that keeps an entry, copies it, empties it, or sets another.
LEMMA SealedStep ==
  ASSUME TextSealed, TextPages \subseteq Pages,
         \A p \in Procs, a \in TextPages :
           \/ pte'[p][a] = NoPte \/ Sealed(pte'[p][a])
           \/ \E q \in Procs : pte'[p][a] \in {pte[q][a], CowEntry(pte[q][a])}
  PROVE  TextSealed'
<1> SUFFICES ASSUME NEW p \in Procs, NEW a \in TextPages PROVE Sealed(pte'[p][a])
  BY DEF TextSealed, Sealed
<1>1. CASE \E q \in Procs : pte'[p][a] \in {pte[q][a], CowEntry(pte[q][a])}
  BY <1>1, SealedEntries DEF TextSealed
<1> QED
  BY <1>1, SealedEntries

\* Every step keeps the text sealed, if the text is in the page no image is without.
LEMMA TextStep ==
  ASSUME TextPages \subseteq {0}, TypeInv, TextSealed, [Next]_vars
  PROVE  TextSealed'
<1>1. /\ TextPages \subseteq Pages /\ \A a \in TextPages : a = 0
      /\ \A p \in Procs : pte[p] \in [Pages -> Entry]
      /\ pte \in [Procs -> [Pages -> Entry]]
  BY SizeFacts DEF TypeInv, EntryTypes
<1>2. CASE UNCHANGED pte
  BY <1>2 DEF TextSealed
<1>3. ASSUME NEW p \in Procs, NEW c \in Procs, Fork(p, c) PROVE TextSealed'
  <2>1. pte' = [pte EXCEPT ![p] = CopyUvm(p),
                           ![c] = [a \in Pages |-> IF InSize(p, a) THEN CowEntry(pte[p][a]) ELSE NoPte]]
    BY <1>3 DEF Fork
  <2>2. \A a \in Pages : CopyUvm(p)[a] \in {pte[p][a], CowEntry(pte[p][a])}
    BY DEF CopyUvm
  <2>3. ASSUME NEW q \in Procs, NEW a \in TextPages
        PROVE  pte'[q][a] \in {NoPte, pte[q][a], pte[p][a], CowEntry(pte[p][a])}
    <3>1. a \in Pages
      BY <1>1
    <3>2. CASE q = c
      <4>1. pte'[q] = [b \in Pages |-> IF InSize(p, b) THEN CowEntry(pte[p][b]) ELSE NoPte]
        BY <1>1, <2>1, <3>2
      <4> QED
        BY <3>1, <4>1
    <3>3. CASE q # c
      <4>1. pte'[q] = IF q = p THEN CopyUvm(p) ELSE pte[q]
        BY <1>1, <2>1, <3>3
      <4> QED
        BY <2>2, <3>1, <4>1
    <3> QED
      BY <3>2, <3>3
  <2> QED
    BY <1>1, <2>3, SealedStep
<1>4. ASSUME NEW p \in Procs, NEW c \in Procs, Wait(p, c) PROVE TextSealed'
  <2>1. pte' = [pte EXCEPT ![c] = [a \in Pages |-> NoPte]]
    BY <1>4 DEF Wait
  <2>2. ASSUME NEW q \in Procs, NEW a \in TextPages PROVE pte'[q][a] \in {NoPte, pte[q][a]}
    BY <1>1, <2>1
  <2> QED
    BY <1>1, <2>2, SealedStep
<1>5. ASSUME NEW p \in Procs, ForkFailsInCopy(p) \/ ForkFailsInMaps(p) PROVE TextSealed'
  <2>1. \/ pte' = [pte EXCEPT ![p] = CopyUvm(p)]
        \/ pte' = [pte EXCEPT ![p][0] = CowEntry(pte[p][0])]
    BY <1>5 DEF ForkFailsInCopy, ForkFailsInMaps
  <2>2. \A a \in Pages : CopyUvm(p)[a] \in {pte[p][a], CowEntry(pte[p][a])}
    BY DEF CopyUvm
  <2>3. ASSUME NEW q \in Procs, NEW a \in TextPages
        PROVE  pte'[q][a] \in {pte[q][a], CowEntry(pte[q][a])}
    <3>1. a \in Pages
      BY <1>1
    <3>2. CASE pte' = [pte EXCEPT ![p] = CopyUvm(p)]
      <4>1. pte'[q] = IF q = p THEN CopyUvm(p) ELSE pte[q]
        BY <1>1, <3>2
      <4> QED
        BY <2>2, <3>1, <4>1
    <3>3. CASE pte' = [pte EXCEPT ![p][0] = CowEntry(pte[p][0])]
      BY <1>1, <3>1, <3>3
    <3> QED
      BY <2>1, <3>2, <3>3
  <2> QED
    BY <1>1, <2>3, SealedStep
<1>6. ASSUME NEW p \in Procs, Grow(p) PROVE TextSealed'
  <2>1. sz[p] # 0
    <3>1. state[p] # "unused"
      BY <1>6 DEF Grow, Running
    <3>2. sz[p] >= 1
      BY <3>1 DEF TypeInv, SlotFrames
    <3> QED
      BY <3>2
  <2>2. CASE UNCHANGED pte
    BY <1>2, <2>2
  <2>3. CASE pte' = [pte EXCEPT ![p][sz[p]] = [f |-> free[1], w |-> TRUE, cow |-> FALSE]]
    <3>1. ASSUME NEW q \in Procs, NEW a \in TextPages PROVE pte'[q][a] = pte[q][a]
      BY <1>1, <2>1, <2>3
    <3> QED
      BY <1>1, <3>1, SealedStep
  <2> QED
    BY <1>6, <2>2, <2>3 DEF Grow, Panic, procVars
<1>7. ASSUME NEW p \in Procs, Shrink(p) PROVE TextSealed'
  <2>1. pte' = [pte EXCEPT ![p][sz[p] - 1] = NoPte] \/ pte' = pte
    BY <1>7 DEF Shrink
  <2>2. ASSUME NEW q \in Procs, NEW a \in TextPages PROVE pte'[q][a] \in {NoPte, pte[q][a]}
    BY <1>1, <2>1
  <2> QED
    BY <1>1, <2>2, SealedStep
<1>8. ASSUME NEW p \in Procs, NEW b \in Pages, CowFault(p, b) PROVE TextSealed'
  <2>1. pte[p][b].cow
    BY <1>8 DEF CowFault
  <2>2. b \notin TextPages
    BY <2>1 DEF TextSealed, Sealed
  <2>3. \/ UNCHANGED pte \/ pte' = [pte EXCEPT ![p][b] = [f |-> free[1], w |-> TRUE, cow |-> FALSE]]
        \/ pte' = [pte EXCEPT ![p][b] = [pte[p][b] EXCEPT !.w = TRUE, !.cow = FALSE]]
    BY <1>8 DEF CowFault, Panic, procVars
  <2>4. ASSUME NEW q \in Procs, NEW a \in TextPages PROVE pte'[q][a] = pte[q][a]
    <3>1. a # b /\ a \in Pages
      BY <1>1, <2>2
    <3>2. \A e : pte' = [pte EXCEPT ![p][b] = e] => pte'[q][a] = pte[q][a]
      BY <1>1, <3>1
    <3> QED
      BY <2>3, <3>2
  <2> QED
    BY <1>1, <2>4, SealedStep
<1>9. ASSUME NEW p \in Procs, NEW n \in 1 .. MaxPages, NEW v \in Values, Exec(p, n, v)
      PROVE  TextSealed'
  <2>1. pte' = [pte EXCEPT ![p] = ImageEntries(n)]
    BY <1>9, ExecIs
  <2>2. ASSUME NEW q \in Procs, NEW a \in TextPages
        PROVE  Sealed(pte'[q][a]) \/ pte'[q][a] \in {NoPte, pte[q][a]}
    <3>1. a \in Pages /\ Sealed(ImageEntries(n)[a])
      BY <1>1, SealedEntries DEF ImageEntries, Sealed
    <3> QED
      BY <1>1, <2>1, <3>1
  <2> QED
    BY <1>1, <2>2, SealedStep
<1>10. ASSUME NEW p \in Procs, Exit(p) \/ ExecFails(p) PROVE UNCHANGED pte
  BY <1>10 DEF Exit, ExecFails, procVars
<1>11. ASSUME NEW p \in Procs, NEW n \in 1 .. MaxPages, ExecPanics(p, n) PROVE UNCHANGED pte
  BY <1>11 DEF ExecPanics, Panic, procVars
<1>12. ASSUME NEW p \in Procs, NEW a \in Pages, NEW v \in Values, Store(p, a, v) PROVE UNCHANGED pte
  BY <1>12 DEF Store, procVars
<1>13. ASSUME NEW p \in Procs, NEW m \in Maps,
              LazyFault(p, m) \/ Wmap(p, m) \/ Wunmap(p, m) \/ \E v \in Values : MapStore(p, m, v)
       PROVE  UNCHANGED pte
  BY <1>13 DEF LazyFault, Wmap, Wunmap, MapStore, Panic, procVars
<1>14. CASE UNCHANGED vars
  BY <1>2, <1>14 DEF vars, procVars
<1> QED
  BY <1>2, <1>3, <1>4, <1>5, <1>6, <1>7, <1>8, <1>9, <1>10, <1>11, <1>12, <1>13, <1>14 DEF Next

\* Text is never written in place, with mappings, without memory and with whatever
\* counts: neither fork nor the fault handler makes a read-only page writable. The text is
\* in the first page; sbrk makes any other page writable that a small image is without.
THEOREM TextIsReadOnly == TextPages \subseteq {0} => (Spec => []TextStaysReadOnly)
<1> SUFFICES ASSUME TextPages \subseteq {0} PROVE Spec => []TextStaysReadOnly
  OBVIOUS
<1> DEFINE IInv == TypeInv /\ TextSealed
<1>1. Init => TextSealed
  <2> SUFFICES ASSUME Init, NEW p \in Procs, NEW a \in TextPages PROVE Sealed(pte[p][a])
    BY DEF TextSealed
  <2>1. a \in Pages
    BY SizeFacts
  <2>2. pte[p][a] \in {NoPte, [f |-> BootImage(a), w |-> a \notin TextPages, cow |-> FALSE]}
    BY <2>1 DEF Init
  <2>3. Sealed([f |-> BootImage(a), w |-> a \notin TextPages, cow |-> FALSE])
    BY DEF Sealed
  <2> QED
    BY <2>2, <2>3, SealedEntries
<1>2. Init => IInv
  BY <1>1, InitTypeInv
<1>3. IInv /\ [Next]_vars => IInv'
  BY TypeStep, TextStep
<1>4. IInv => TextStaysReadOnly
  BY DEF TextSealed, Sealed, TextStaysReadOnly
<1> HIDE DEF IInv
<1> QED
  BY <1>2, <1>3, <1>4, PTL DEF Spec
=============================================================================
