----------------------------- MODULE WshProofs -----------------------------
(***************************************************************************)
(* The circular buffer of the p3 shell is exact, and the shell implements  *)
(* a session, for histories of every size and any commands and variables.  *)
(***************************************************************************)
EXTENDS WshProperties, FiniteSetTheorems, TLAPS

-----------------------------------------------------------------------------
(* Sums over finite sets.  A sum is a recursive function on the subsets of  *)
(* a finite set.  What it is, is proved by induction: of the sets for       *)
(* which it is wrong, there would be a smallest one.                        *)

\* Of a family of subsets of a finite set, one has no other in it.
LEMMA SmallestSet ==
  ASSUME NEW D, IsFiniteSet(D), NEW B, B \subseteq SUBSET D, B # {}
  PROVE  \E U \in B : \A V \in B : V \subseteq U => V = U
<1>1. IsWellFoundedOn(StrictSubsetOrdering(D), SUBSET D)
  BY FS_StrictSubsetOrderingWellFounded, FS_FiniteSubsetsOfFinite
<1>2. PICK U \in B : \A V \in B : <<V, U>> \notin StrictSubsetOrdering(D)
  BY <1>1, WFMin
<1> QED
  BY <1>2 DEF StrictSubsetOrdering

\* The recursive function that SumFunctionOnSet is defined by, on the subsets of D.
First(s) == CHOOSE x \in s : TRUE
Sums(g, w, D) ==
  g = [s \in SUBSET D |-> IF s = {} THEN 0 ELSE w[First(s)] + g[s \ {First(s)}]]

\* The element a fold takes first is one of the set.
LEMMA FirstIn == \A s : s # {} => First(s) \in s
BY DEF First

\* One unfolding of a summing function.
LEMMA SumsAre ==
  ASSUME NEW g, NEW w, NEW D, Sums(g, w, D), NEW U, U \subseteq D
  PROVE  g[U] = IF U = {} THEN 0 ELSE w[First(U)] + g[U \ {First(U)}]
<1>1. g = [s \in SUBSET D |-> IF s = {} THEN 0 ELSE w[First(s)] + g[s \ {First(s)}]]
  BY DEF Sums
<1> DEFINE h == [s \in SUBSET D |-> IF s = {} THEN 0 ELSE w[First(s)] + g[s \ {First(s)}]]
<1>2. h[U] = IF U = {} THEN 0 ELSE w[First(U)] + g[U \ {First(U)}]
  OBVIOUS
<1>3. g[U] = h[U]
  <2> HIDE DEF h
  <2> QED
    BY <1>1 DEF h
<1> QED
  BY <1>2, <1>3

\* Two summing functions agree on the subsets both know; the proof takes a smallest set
\* on which they do not.
LEMMA SumsAgree ==
  ASSUME NEW D, IsFiniteSet(D), NEW T, NEW w, NEW g, NEW h, Sums(g, w, D), Sums(h, w, T), T \subseteq D
  PROVE  \A U \in SUBSET T : g[U] = h[U]
<1> DEFINE B == {U \in SUBSET T : g[U] # h[U]}
<1> SUFFICES ASSUME B # {} PROVE FALSE
  OBVIOUS
<1>0. B \subseteq SUBSET D
  OBVIOUS
<1>1. PICK U \in B : \A V \in B : V \subseteq U => V = U
  <2> HIDE DEF B
  <2> QED
    BY <1>0, SmallestSet
<1>2. U # {}
  BY <1>1, SumsAre
<1>3. First(U) \in U /\ U \ {First(U)} \in SUBSET T /\ U \ {First(U)} # U
  BY <1>2, FirstIn
<1>4. g[U \ {First(U)}] = h[U \ {First(U)}]
  BY <1>1, <1>3
<1>5. g[U] = w[First(U)] + g[U \ {First(U)}]
  <2>1. U \subseteq D
    OBVIOUS
  <2>2. g[U] = IF U = {} THEN 0 ELSE w[First(U)] + g[U \ {First(U)}]
    BY <2>1, SumsAre, ZenonT(30)
  <2> QED
    BY <1>2, <2>2
<1>6. h[U] = w[First(U)] + h[U \ {First(U)}]
  BY <1>2, SumsAre
<1> QED
  BY <1>4, <1>5, <1>6

\* Every finite set has a summing function, as a smallest set without one would not be
\* empty.
LEMMA SumsExist ==
  ASSUME NEW D, IsFiniteSet(D), NEW w
  PROVE  \E g : Sums(g, w, D)
<1> DEFINE B == {U \in SUBSET D : \A g : ~Sums(g, w, U)}
<1> SUFFICES ASSUME B # {} PROVE FALSE
  OBVIOUS
<1>1. PICK U \in B : \A V \in B : V \subseteq U => V = U
  <2>1. B \subseteq SUBSET D
    OBVIOUS
  <2> HIDE DEF B
  <2> QED
    BY <2>1, SmallestSet
<1> DEFINE G(V) == CHOOSE g : Sums(g, w, V)
           h == [V \in SUBSET U |-> IF V = {} THEN 0
                                    ELSE w[First(V)] + G(V \ {First(V)})[V \ {First(V)}]]
<1>2. ASSUME NEW V \in SUBSET U, V # U PROVE Sums(G(V), w, V)
  <2>1. \E g : Sums(g, w, V)
    BY <1>1, <1>2
  <2> QED
    BY <2>1
<1>3. ASSUME NEW V \in SUBSET U, V # U PROVE G(V)[V] = h[V]
  <2>1. Sums(G(V), w, V) /\ IsFiniteSet(V)
    BY <1>2, <1>3, FS_Subset
  <2> HIDE DEF G
  <2>2. CASE V = {}
    BY <2>1, <2>2, SumsAre
  <2>3. CASE V # {}
    <3> DEFINE W == V \ {First(V)}
    <3>1. First(V) \in V /\ W \in SUBSET U /\ W # U /\ W \subseteq V
      BY <2>3, FirstIn
    <3>2. Sums(G(W), w, W)
      BY <1>2, <3>1
    <3> HIDE DEF W
    <3>3. G(V)[W] = G(W)[W]
      BY <2>1, <3>1, <3>2, SumsAgree
    <3>4. G(V)[V] = w[First(V)] + G(V)[W]
      BY <2>1, <2>3, SumsAre DEF W
    <3>5. h[V] = w[First(V)] + G(W)[W]
      BY <2>3 DEF W
    <3> QED
      BY <3>3, <3>4, <3>5
  <2> QED
    BY <2>2, <2>3
<1>4. ASSUME NEW V \in SUBSET U
      PROVE  h[V] = IF V = {} THEN 0 ELSE w[First(V)] + h[V \ {First(V)}]
  <2>1. CASE V = {}
    BY <2>1
  <2>2. CASE V # {}
    <3>1. V \ {First(V)} \in SUBSET U /\ V \ {First(V)} # U
      BY <2>2, FirstIn
    <3>2. G(V \ {First(V)})[V \ {First(V)}] = h[V \ {First(V)}]
      BY <1>3, <3>1
    <3>3. h[V] = w[First(V)] + G(V \ {First(V)})[V \ {First(V)}]
      BY <2>2
    <3> HIDE DEF h, G
    <3> QED
      BY <2>2, <3>2, <3>3
  <2> QED
    BY <2>1, <2>2
<1>5. Sums(h, w, U)
  <2>1. h = [V \in SUBSET U |-> h[V]]
    OBVIOUS
  <2> HIDE DEF h
  <2> QED
    BY <1>4, <2>1 DEF Sums
<1> QED
  BY <1>1, <1>5

\* SumFunctionOnSet as such a function.
LEMMA SumIs ==
  ASSUME NEW D, IsFiniteSet(D), NEW w
  PROVE  \E g : Sums(g, w, D) /\ SumFunctionOnSet(w, D) = g[D]
<1> DEFINE F(g) == g = [s \in SUBSET D |-> IF s = {} THEN 0 ELSE w[First(s)] + g[s \ {First(s)}]]
<1>1. \E g : F(g)
  <2>1. PICK g : Sums(g, w, D)
    BY SumsExist
  <2>2. F(g)
    BY <2>1 DEF Sums
  <2> HIDE DEF F
  <2> QED
    BY <2>2
<1>2. F(CHOOSE g : F(g))
  <2> HIDE DEF F
  <2> QED
    BY <1>1
<1>3. SumFunctionOnSet(w, D) = (CHOOSE g : F(g))[D]
  BY DEF SumFunctionOnSet, FoldFunctionOnSet, MapThenFoldSet, First
<1> QED
  BY <1>2, <1>3 DEF Sums

\* A sum of natural numbers is one, and none of them is more.
LEMMA SumOfNaturals ==
  ASSUME NEW D, IsFiniteSet(D), NEW w, \A p \in D : w[p] \in Nat
  PROVE  /\ SumFunctionOnSet(w, D) \in Nat
         /\ \A p \in D : w[p] <= SumFunctionOnSet(w, D)
<1>1. PICK g : Sums(g, w, D) /\ SumFunctionOnSet(w, D) = g[D]
  BY SumIs
<1> DEFINE Good(U) == g[U] \in Nat /\ \A p \in U : w[p] <= g[U]
           B == {U \in SUBSET D : ~Good(U)}
<1> SUFFICES ASSUME B # {} PROVE FALSE
  BY <1>1
<1>2. PICK U \in B : \A V \in B : V \subseteq U => V = U
  <2>1. B \subseteq SUBSET D
    OBVIOUS
  <2> HIDE DEF B
  <2> QED
    BY <2>1, SmallestSet
<1>3. g[U] = IF U = {} THEN 0 ELSE w[First(U)] + g[U \ {First(U)}]
  BY <1>1, SumsAre
<1>4. U # {}
  BY <1>3
<1>5. First(U) \in U /\ U \ {First(U)} \in SUBSET D /\ U \ {First(U)} # U
  BY <1>4, FirstIn
<1>6. Good(U \ {First(U)})
  BY <1>2, <1>5
<1>7. w[First(U)] \in Nat /\ g[U] = w[First(U)] + g[U \ {First(U)}]
  BY <1>3, <1>4, <1>5
<1>8. Good(U)
  BY <1>6, <1>7
<1> QED
  BY <1>8

\* The sum over one element is its weight.
LEMMA SumOfOne ==
  ASSUME NEW x, NEW w, w[x] \in Nat
  PROVE  SumFunctionOnSet(w, {x}) = w[x]
<1>1. PICK g : Sums(g, w, {x}) /\ SumFunctionOnSet(w, {x}) = g[{x}]
  BY SumIs, FS_Singleton
<1>2. g[{x}] = IF {x} = {} THEN 0 ELSE w[First({x})] + g[{x} \ {First({x})}]
  <2>1. {x} \in SUBSET {x} /\ IsFiniteSet({x})
    BY FS_Singleton
  <2> QED
    BY <1>1, <2>1, SumsAre, Zenon
<1>3. First({x}) = x /\ {x} \ {First({x})} = {}
  BY FirstIn
<1>4. g[{}] = 0
  BY <1>1, SumsAre
<1> QED
  BY <1>1, <1>2, <1>3, <1>4

\* Min finds the smallest of a set of numbers.
LEMMA MinIsIn ==
  ASSUME NEW D, D \subseteq Nat, D # {}
  PROVE  Min(D) \in D /\ \A y \in D : Min(D) <= y
<1>1. PICK m \in D : TRUE
  OBVIOUS
<1> DEFINE B == {0 .. k : k \in {j \in D : j <= m}}
<1>2. IsFiniteSet(0 .. m) /\ B \subseteq SUBSET (0 .. m) /\ B # {}
  <2>1. m \in Nat /\ IsFiniteSet(0 .. m)
    BY <1>1, FS_Interval
  <2>2. \A k \in D : k <= m => 0 .. k \subseteq 0 .. m
    BY <2>1
  <2>3. m <= m
    BY <2>1
  <2> QED
    BY <2>1, <2>2, <2>3
<1>3. PICK U \in B : \A V \in B : V \subseteq U => V = U
  <2> DEFINE I == 0 .. m
  <2>1. IsFiniteSet(I) /\ B \subseteq SUBSET I /\ B # {}
    BY <1>2
  <2> HIDE DEF B, I
  <2> QED
    BY <2>1, SmallestSet
<1>4. PICK k \in D : U = 0 .. k /\ k <= m
  OBVIOUS
<1>5. ASSUME NEW y \in D PROVE k <= y
  <2>1. k \in Nat /\ y \in Nat /\ m \in Nat
    BY <1>1
  <2>2. ASSUME y < k PROVE FALSE
    <3>1. 0 .. y \subseteq 0 .. k /\ 0 .. y # 0 .. k /\ y <= m
      BY <1>4, <2>1, <2>2
    <3> QED
      BY <1>3, <1>4, <3>1
  <2> QED
    BY <2>1, <2>2
<1> QED
  BY <1>5 DEF Min

-----------------------------------------------------------------------------
(* The circular buffer.  All of it is below twice its size, so a remainder  *)
(* takes off the size at most once.                                         *)
LEMMA Wrap ==
  ASSUME NEW c \in Nat \ {0}, NEW x \in Nat, x < 2 * c
  PROVE  x % c = IF x < c THEN x ELSE x - c
<1>1. CASE x < c
  BY <1>1, SMT
<1>2. CASE x >= c
  <2>1. PICK y \in Nat : y = x - c /\ y < c
    BY <1>2
  <2>2. x = y + c /\ y % c = y
    BY <2>1
  <2>3. (y + c) % c = y
    BY <2>1, <2>2
  <2> QED
    BY <1>2, <2>1, <2>2, <2>3
<1> QED
  BY <1>1, <1>2

\* A history as the shell may have it.
HistoryOK(h) ==
  /\ h.capacity \in Nat \ {0} /\ h \in HistoryType(h.capacity)
  /\ RingOf(h) /\ CommandsFit(h)

\* What the fields of a history are.
LEMMA Fields ==
  ASSUME NEW h, HistoryOK(h)
  PROVE  /\ h.capacity \in Nat \ {0} /\ h.count \in 0 .. h.capacity
         /\ h.start \in 0 .. h.capacity - 1 /\ h.end \in 0 .. h.capacity
         /\ h.commands \in [0 .. h.capacity - 1 -> Entries]
         /\ h = [commands |-> h.commands, capacity |-> h.capacity, count |-> h.count,
                 start |-> h.start, end |-> h.end]
BY DEF HistoryOK, HistoryType

\* Where line n of a history is, without the modulus.
LEMMA IndexIs ==
  ASSUME NEW h, h.capacity \in Nat \ {0}, h.start \in 0 .. h.capacity - 1, NEW n \in 1 .. h.capacity
  PROVE  /\ Index(h, n) = IF h.start + n <= h.capacity THEN (h.start + n) - 1
                          ELSE ((h.start + n) - 1) - h.capacity
         /\ Index(h, n) \in 0 .. h.capacity - 1
<1>1. PICK c \in Nat \ {0} : c = h.capacity
  OBVIOUS
<1>2. PICK s \in 0 .. c - 1 : s = h.start
  BY <1>1
<1>3. PICK x \in Nat : x = (s + n) - 1 /\ x < 2 * c
  BY <1>1
<1>4. x % c = IF x < c THEN x ELSE x - c
  BY <1>3, Wrap
<1>5. Index(h, n) = x % c
  BY <1>1, <1>2, <1>3 DEF Index
<1> QED
  BY <1>1, <1>2, <1>3, <1>4, <1>5

\* Different commands have different places.
LEMMA IndexOnce ==
  ASSUME NEW h, HistoryOK(h), NEW n \in 1 .. h.capacity, NEW m \in 1 .. h.capacity, n # m
  PROVE  Index(h, n) # Index(h, m)
<1>1. PICK c \in Nat \ {0} : c = h.capacity
  BY Fields
<1>2. PICK s \in 0 .. c - 1 : s = h.start
  BY <1>1, Fields
<1>3. n \in 1 .. c /\ m \in 1 .. c
  BY <1>1
<1>4. /\ Index(h, n) = IF s + n <= c THEN (s + n) - 1 ELSE ((s + n) - 1) - c
      /\ Index(h, m) = IF s + m <= c THEN (s + m) - 1 ELSE ((s + m) - 1) - c
  BY <1>1, <1>2, <1>3, IndexIs
<1> QED
  BY <1>3, <1>4

\* The place behind the last command.
LEMMA EndIs ==
  ASSUME NEW h, HistoryOK(h)
  PROVE  /\ h.end = h.capacity \/ h.end \in 0 .. h.capacity - 1
         /\ h.end % h.capacity = IF h.end = h.capacity THEN 0 ELSE h.end
         /\ h.end % h.capacity = IF h.start + h.count < h.capacity THEN h.start + h.count
                                 ELSE (h.start + h.count) - h.capacity
<1>1. PICK c \in Nat \ {0} : c = h.capacity
  BY Fields
<1>2. PICK s \in 0 .. c - 1, e \in 0 .. c, k \in 0 .. c : s = h.start /\ e = h.end /\ k = h.count
  BY <1>1, Fields
<1>3. e % c = IF e < c THEN e ELSE e - c
  <2>1. e \in Nat /\ e < 2 * c
    OBVIOUS
  <2> QED
    BY <2>1, Wrap
<1>4. PICK x \in Nat : x = s + k /\ x < 2 * c
  OBVIOUS
<1>5. x % c = IF x < c THEN x ELSE x - c
  BY <1>4, Wrap
<1>6. e % c = x % c
  BY <1>1, <1>2, <1>4 DEF HistoryOK, RingOf
<1> QED
  BY <1>1, <1>2, <1>3, <1>4, <1>5, <1>6

\* The place the last command is looked for.
LEMMA LastIs ==
  ASSUME NEW h, HistoryOK(h), h.count > 0
  PROVE  (h.end + h.capacity - 1) % h.capacity = Index(h, h.count)
<1>1. PICK c \in Nat \ {0} : c = h.capacity
  BY Fields
<1>2. PICK s \in 0 .. c - 1, e \in 0 .. c, k \in 1 .. c : s = h.start /\ e = h.end /\ k = h.count
  BY <1>1, Fields
<1>3. PICK x \in Nat : x = (e + c) - 1 /\ x < 2 * c
  BY <1>2
<1>4. x % c = IF x < c THEN x ELSE x - c
  BY <1>3, Wrap
<1>5. (h.end + h.capacity - 1) % h.capacity = x % c
  BY <1>1, <1>2, <1>3
<1>6. IF e = c THEN 0 = (IF s + k < c THEN s + k ELSE (s + k) - c)
               ELSE e = (IF s + k < c THEN s + k ELSE (s + k) - c)
  BY <1>1, <1>2, EndIs
<1>7. Index(h, k) = IF s + k <= c THEN (s + k) - 1 ELSE ((s + k) - 1) - c
  BY <1>1, <1>2, IndexIs, Fields
<1> QED
  BY <1>2, <1>3, <1>4, <1>5, <1>6, <1>7

-----------------------------------------------------------------------------
(* What is stored.                                                          *)
LEMMA LengthIs ==
  ASSUME NEW words \in Seq(Words), words # <<>>, ~words[1].var
  PROVE  TextLength(words) \in Nat /\ Length[words[1].text] + 1 <= TextLength(words)
<1> DEFINE w == [i \in DOMAIN words |-> Length[words[i].text] + (IF words[i].var THEN 2 ELSE 1)]
<1>1. IsFiniteSet(DOMAIN words) /\ 1 \in DOMAIN words
  BY FS_Interval
<1>2. \A i \in DOMAIN words : Length[words[i].text] \in Nat
  <2>1. \A x \in Words : x.text \in Texts
    BY WshTexts DEF Words
  <2> QED
    BY <2>1, WshTexts
<1>3. \A i \in DOMAIN words : w[i] \in Nat
  BY <1>2
<1>4. w[1] = Length[words[1].text] + 1
  BY <1>1
<1>5. TextLength(words) = SumFunctionOnSet(w, DOMAIN words)
  BY DEF TextLength
<1> HIDE DEF w
<1> QED
  BY <1>1, <1>3, <1>4, <1>5, SumOfNaturals

\* The line read back from what the history stored is the line that was typed.
LEMMA CopyIs ==
  ASSUME NEW line, line.words \in Seq(Words), line.redirect \in Redirects,
         line.words # <<>>, ~line.words[1].var
  PROVE  /\ Copy(line) \in Entries /\ FirstFits(Copy(line))
         /\ Copy(line).words = line.words /\ Copy(line).redirect = line.redirect
<1>1. TextLength(line.words) \in Nat /\ Length[line.words[1].text] + 1 <= TextLength(line.words)
  BY LengthIs
<1>2. Length[line.words[1].text] \in Nat
  <2>1. line.words[1] \in Words
    OBVIOUS
  <2>2. line.words[1].text \in Texts
    BY <2>1, WshTexts DEF Words
  <2> QED
    BY <2>2, WshTexts
<1>3. PICK r \in Nat : r = TextLength(line.words) + (IF line.redirect = "none" THEN 0 ELSE 3)
                       /\ Length[line.words[1].text] + 1 <= r
  BY <1>1, <1>2
<1>4. Copy(line) = [words |-> line.words, redirect |-> line.redirect, room |-> r]
  BY <1>3 DEF Copy
<1> QED
  BY <1>3, <1>4 DEF Entries, FirstFits

-----------------------------------------------------------------------------
(* insert_history.                                                          *)

\* A history with some of its fields changed keeps its type.
LEMMA RecordWith ==
  ASSUME NEW A, NEW B, NEW C, NEW D, NEW E,
         NEW h \in [commands : A, capacity : B, count : C, start : D, end : E],
         NEW k \in A, NEW c \in C, NEW d \in D, NEW e \in E
  PROVE  /\ [h EXCEPT !.commands = k, !.start = d, !.end = e]
               \in [commands : A, capacity : B, count : C, start : D, end : E]
         /\ [h EXCEPT !.commands = k, !.end = e, !.count = c]
               \in [commands : A, capacity : B, count : C, start : D, end : E]
OBVIOUS

\* What there is to insert.
Given(line) ==
  line.words \in Seq(Words) /\ line.redirect \in Redirects /\ line.words # <<>> /\ ~line.words[1].var

\* A new line in a full history takes the slot of the oldest, and every other moves one
\* down.
LEMMA InsertFull ==
  ASSUME NEW h, HistoryOK(h), NEW line, Given(line), ~IsLast(h, line), h.count = h.capacity
  PROVE  /\ HistoryOK(InsertHistory(h, line))
         /\ InsertHistory(h, line).capacity = h.capacity
         /\ InsertHistory(h, line).count = h.count
         /\ InsertHistory(h, line).commands = [h.commands EXCEPT ![h.start] = Copy(line)]
         /\ \A n \in 1 .. h.count : Index(InsertHistory(h, line), n) =
              IF n = h.count THEN h.start ELSE Index(h, n + 1)
<1>0. PICK c \in Nat \ {0} : c = h.capacity
  BY Fields
<1>1. PICK s \in 0 .. c - 1, e \in 0 .. c : c = h.capacity /\ s = h.start /\ e = h.end /\ h.count = c
  BY <1>0, Fields
<1>2. PICK s2 \in 0 .. c - 1 : s2 = (s + 1) % c /\ s2 = IF s + 1 < c THEN s + 1 ELSE 0
  <2>1. s + 1 \in Nat /\ s + 1 < 2 * c
    BY <1>1
  <2> QED
    BY <2>1, Wrap
<1>3. e \in {s, s + c}
  BY <1>1, EndIs
<1>4. (e + 1) % c = s2
  <2>1. s2 = IF s + 1 < c THEN s + 1 ELSE 0
    BY <1>2
  <2>2. CASE e = s
    BY <1>2, <2>2
  <2>3. CASE e # s /\ c = 1
    <3>1. e + 1 = 2 /\ c = 1 /\ s2 = 0 /\ 2 % 1 = 0
      BY <1>3, <2>3
    <3> QED
      BY <3>1
  <2>4. CASE e # s /\ c # 1
    <3>1. PICK x \in Nat : x = e + 1 /\ x = s2 + c /\ x < 2 * c
      BY <1>3, <2>1, <2>4
    <3>2. x % c = IF x < c THEN x ELSE x - c
      BY <3>1, Wrap
    <3> QED
      BY <3>1, <3>2
  <2> QED
    BY <2>2, <2>3, <2>4
<1>5. PICK k : k = [h.commands EXCEPT ![s] = Copy(line)]
  OBVIOUS
<1>6. PICK g : g = [h EXCEPT !.commands = k, !.start = s2, !.end = s2]
  OBVIOUS
<1>7. InsertHistory(h, line) = g
  <2>1. InsertHistory(h, line) = [h EXCEPT !.commands[h.start] = Copy(line),
                                   !.start = (h.start + 1) % h.capacity, !.end = (h.end + 1) % h.capacity]
    BY DEF InsertHistory
  <2> QED
    BY <1>1, <1>2, <1>4, <1>5, <1>6, <2>1
<1>8. Copy(line) \in Entries /\ FirstFits(Copy(line))
  BY CopyIs DEF Given
<1>9. k \in [0 .. c - 1 -> Entries]
  BY <1>1, <1>5, <1>8, Fields
<1>12. /\ g \in HistoryType(c) /\ g.commands = k /\ g.capacity = c /\ g.count = c
       /\ g.start = s2 /\ g.end = s2
  <2>1. h \in HistoryType(c)
    BY <1>1 DEF HistoryOK
  <2>2. g.commands = k /\ g.capacity = c /\ g.start = s2 /\ g.end = s2 /\ g.count = c
    BY <1>1, <1>6, <2>1 DEF HistoryType
  <2>3. g \in HistoryType(c)
    <3>1. c \in 0 .. c /\ s2 \in 0 .. c - 1 /\ s2 \in 0 .. c
      OBVIOUS
    <3> QED
      BY <1>6, <1>9, <2>1, <3>1, RecordWith, Zenon DEF HistoryType
  <2> QED
    BY <2>2, <2>3
<1>10. \A n \in 1 .. c : Index(g, n) = IF n = c THEN s ELSE Index(h, n + 1)
  <2>1. ASSUME NEW n \in 1 .. c PROVE Index(g, n) = IF n = c THEN s ELSE Index(h, n + 1)
    <3>1. Index(g, n) = IF s2 + n <= c THEN (s2 + n) - 1 ELSE ((s2 + n) - 1) - c
      BY <1>12, IndexIs
    <3>2. n # c => n + 1 \in 1 .. c
      OBVIOUS
    <3>3. n # c => Index(h, n + 1) = IF s + (n + 1) <= c THEN (s + (n + 1)) - 1
                                     ELSE ((s + (n + 1)) - 1) - c
      BY <1>1, <3>2, IndexIs
    <3> QED
      BY <1>2, <3>1, <3>3
  <2> QED
    BY <2>1
<1>11. HistoryOK(g)
  <2>2. RingOf(g)
    <3>1. s2 % c = s2
      <4>1. s2 \in Nat /\ s2 < 2 * c /\ s2 < c
        OBVIOUS
      <4> QED
        BY <4>1, Wrap
    <3>2. (s2 + c) % c = s2
      <4>1. PICK x \in Nat : x = s2 + c /\ x < 2 * c /\ ~(x < c)
        OBVIOUS
      <4>2. x % c = x - c
        BY <4>1, Wrap
      <4> QED
        BY <4>1, <4>2
    <3> QED
      BY <1>12, <3>1, <3>2 DEF RingOf
  <2>3. ASSUME NEW n \in 1 .. c PROVE FirstFits(k[Index(g, n)])
    <3>1. CASE n = c
      BY <1>1, <1>5, <1>8, <1>10, <3>1, Fields
    <3>2. CASE n # c
      <4>1. n + 1 \in 1 .. c /\ 1 \in 1 .. c /\ n + 1 # 1
        BY <3>2
      <4>2. Index(h, n + 1) \in 0 .. c - 1 /\ Index(h, 1) = s /\ Index(h, n + 1) # Index(h, 1)
        BY <1>1, <4>1, IndexIs, IndexOnce
      <4>3. FirstFits(h.commands[Index(h, n + 1)])
        BY <1>1, <4>1 DEF HistoryOK, CommandsFit
      <4>4. k[Index(g, n)] = h.commands[Index(h, n + 1)]
        BY <1>1, <1>5, <1>10, <3>2, <4>2, Fields
      <4> QED
        BY <4>3, <4>4
    <3> QED
      BY <3>1, <3>2
  <2> QED
    BY <1>12, <2>2, <2>3 DEF HistoryOK, CommandsFit
<1> QED
  BY <1>1, <1>5, <1>7, <1>12, <1>10, <1>11

\* A new line in a history that has room takes the slot behind the youngest.
LEMMA InsertBehind ==
  ASSUME NEW h, HistoryOK(h), NEW line, Given(line), ~IsLast(h, line), h.count # h.capacity
  PROVE  /\ HistoryOK(InsertHistory(h, line))
         /\ InsertHistory(h, line).capacity = h.capacity
         /\ InsertHistory(h, line).count = h.count + 1
         /\ InsertHistory(h, line).commands = [h.commands EXCEPT ![h.end] = Copy(line)]
         /\ h.end \in 0 .. h.capacity - 1
         /\ \A n \in 1 .. h.count + 1 : Index(InsertHistory(h, line), n) =
              IF n = h.count + 1 THEN h.end ELSE Index(h, n)
         /\ \A n \in 1 .. h.count : Index(h, n) # h.end
<1>0. PICK c \in Nat \ {0} : c = h.capacity
  BY Fields
<1>1. PICK s \in 0 .. c - 1, e \in 0 .. c - 1, m \in 0 .. c - 1 :
        c = h.capacity /\ s = h.start /\ e = h.end /\ h.count = m
  <2>1. h.count < h.capacity /\ h.end < h.capacity
    BY <1>0, Fields DEF HistoryOK, RingOf
  <2> QED
    BY <1>0, <2>1, Fields
<1>2. PICK e2 \in 0 .. c - 1 : e2 = (e + 1) % c /\ e2 = IF e + 1 < c THEN e + 1 ELSE 0
  <2>1. e + 1 \in Nat /\ e + 1 < 2 * c
    BY <1>1
  <2> QED
    BY <2>1, Wrap
<1>3. e = IF s + m < c THEN s + m ELSE (s + m) - c
  BY <1>1, EndIs
<1>5. PICK k : k = [h.commands EXCEPT ![e] = Copy(line)]
  OBVIOUS
<1>6. PICK g : g = [h EXCEPT !.commands = k, !.end = e2, !.count = m + 1]
  OBVIOUS
<1>7. InsertHistory(h, line) = g
  <2>1. InsertHistory(h, line) = [h EXCEPT !.commands[h.end] = Copy(line),
                                   !.end = (h.end + 1) % h.capacity, !.count = h.count + 1]
    BY DEF InsertHistory
  <2> QED
    BY <1>1, <1>2, <1>5, <1>6, <2>1
<1>8. Copy(line) \in Entries /\ FirstFits(Copy(line))
  BY CopyIs DEF Given
<1>9. k \in [0 .. c - 1 -> Entries]
  BY <1>1, <1>5, <1>8, Fields
<1>12. /\ g \in HistoryType(c) /\ g.commands = k /\ g.capacity = c /\ g.count = m + 1
       /\ g.start = s /\ g.end = e2
  <2>1. h \in HistoryType(c)
    BY <1>1 DEF HistoryOK
  <2>2. g.commands = k /\ g.capacity = c /\ g.start = s /\ g.end = e2 /\ g.count = m + 1
    BY <1>1, <1>6, <2>1 DEF HistoryType
  <2>3. g \in HistoryType(c)
    <3>1. m + 1 \in 0 .. c /\ s \in 0 .. c - 1 /\ e2 \in 0 .. c
      OBVIOUS
    <3> QED
      BY <1>6, <1>9, <2>1, <3>1, RecordWith, Zenon DEF HistoryType
  <2> QED
    BY <2>2, <2>3
<1>10. \A n \in 1 .. m + 1 : Index(g, n) = IF n = m + 1 THEN e ELSE Index(h, n)
  <2>1. ASSUME NEW n \in 1 .. m + 1 PROVE Index(g, n) = IF n = m + 1 THEN e ELSE Index(h, n)
    <3>1. n \in 1 .. c
      OBVIOUS
    <3>2. Index(g, n) = IF s + n <= c THEN (s + n) - 1 ELSE ((s + n) - 1) - c
      BY <1>12, <3>1, IndexIs
    <3>3. Index(h, n) = IF s + n <= c THEN (s + n) - 1 ELSE ((s + n) - 1) - c
      BY <1>1, <3>1, IndexIs
    <3> QED
      BY <1>3, <3>2, <3>3
  <2> QED
    BY <2>1
<1>11. ASSUME NEW n \in 1 .. m PROVE Index(h, n) # e /\ Index(h, n) \in 0 .. c - 1
  <2>1. n \in 1 .. c
    OBVIOUS
  <2>2. Index(h, n) = IF s + n <= c THEN (s + n) - 1 ELSE ((s + n) - 1) - c
    BY <1>1, <2>1, IndexIs
  <2> QED
    BY <1>3, <2>2
<1>13. HistoryOK(g)
  <2>2. RingOf(g)
    <3>1. PICK x \in Nat : x = s + (m + 1) /\ x < 2 * c
      OBVIOUS
    <3>2. x % c = IF x < c THEN x ELSE x - c
      BY <3>1, Wrap
    <3>3. e2 % c = e2
      <4>1. e2 \in Nat /\ e2 < 2 * c /\ e2 < c
        OBVIOUS
      <4> QED
        BY <4>1, Wrap
    <3>4. e2 = x % c
      BY <1>2, <1>3, <3>1, <3>2
    <3> QED
      BY <1>12, <3>1, <3>3, <3>4 DEF RingOf
  <2>3. ASSUME NEW n \in 1 .. m + 1 PROVE FirstFits(k[Index(g, n)])
    <3>1. CASE n = m + 1
      BY <1>1, <1>5, <1>8, <1>10, <3>1, Fields
    <3>2. CASE n # m + 1
      <4>1. n \in 1 .. m
        BY <3>2
      <4>2. FirstFits(h.commands[Index(h, n)])
        BY <1>1, <4>1 DEF HistoryOK, CommandsFit
      <4>3. k[Index(g, n)] = h.commands[Index(h, n)]
        BY <1>1, <1>5, <1>10, <1>11, <3>2, <4>1, Fields
      <4> QED
        BY <4>2, <4>3
    <3> QED
      BY <3>1, <3>2
  <2> QED
    BY <1>12, <2>2, <2>3 DEF HistoryOK, CommandsFit
<1> QED
  BY <1>1, <1>5, <1>7, <1>12, <1>10, <1>11, <1>13

\* The first word of a command always fits.
LEMMA InsertKeeps ==
  ASSUME NEW h, HistoryOK(h), NEW line, Given(line)
  PROVE  HistoryOK(InsertHistory(h, line)) /\ InsertHistory(h, line).capacity = h.capacity
<1>1. CASE IsLast(h, line)
  BY <1>1 DEF InsertHistory
<1> QED
  BY <1>1, InsertFull, InsertBehind

-----------------------------------------------------------------------------
(* set_history_size, and what history n cuts.                               *)
LEMMA ResizedIs ==
  ASSUME NEW h, HistoryOK(h), NEW size \in Nat \ {0}
  PROVE  /\ HistoryOK(Resized(h, size)) /\ Resized(h, size).capacity = size
         /\ Resized(h, size).count = IF h.count < size THEN h.count ELSE size
         /\ \A n \in 1 .. Resized(h, size).count :
              Resized(h, size).commands[Index(Resized(h, size), n)] = h.commands[Index(h, n)]
<1>0. PICK c \in Nat \ {0} : c = h.capacity
  BY Fields
<1>1. PICK m \in 0 .. c : c = h.capacity /\ m = h.count
  BY <1>0, Fields
<1>2. PICK kept \in Nat : kept = Min({m, size}) /\ kept = IF m < size THEN m ELSE size
  <2>1. {m, size} \subseteq Nat /\ {m, size} # {}
    OBVIOUS
  <2>2. PICK x \in {m, size} : x = Min({m, size}) /\ \A y \in {m, size} : x <= y
    BY <2>1, MinIsIn
  <2> QED
    BY <2>2
<1>3. PICK k : k = [i \in 0 .. size - 1 |->
                      IF i < kept THEN h.commands[Index(h, i + 1)] ELSE NoLine]
  OBVIOUS
<1>4. PICK g : g = [commands |-> k, capacity |-> size, count |-> kept, start |-> 0, end |-> kept]
  OBVIOUS
<1>5. Resized(h, size) = g
  BY <1>1, <1>2, <1>3, <1>4 DEF Resized
<1>6. ASSUME NEW i \in 0 .. size - 1, i < kept
      PROVE  k[i] = h.commands[Index(h, i + 1)] /\ k[i] \in Entries /\ FirstFits(k[i])
  <2>1. i + 1 \in 1 .. c /\ i + 1 \in 1 .. m
    BY <1>2, <1>6
  <2>2. Index(h, i + 1) \in 0 .. c - 1
    BY <1>1, <2>1, IndexIs, Fields
  <2>3. h.commands[Index(h, i + 1)] \in Entries
    BY <1>1, <2>2, Fields
  <2>4. FirstFits(h.commands[Index(h, i + 1)])
    BY <1>1, <2>1 DEF HistoryOK, CommandsFit
  <2> QED
    BY <1>3, <1>6, <2>3, <2>4
<1>7. k \in [0 .. size - 1 -> Entries]
  <2>1. NoLine \in Entries
    BY DEF NoLine, Entries, Redirects
  <2>2. \A i \in 0 .. size - 1 : k[i] \in Entries
    BY <1>3, <1>6, <2>1
  <2> QED
    BY <1>3, <2>2
<1>8. \A n \in 1 .. kept : Index(g, n) = n - 1 /\ n - 1 \in 0 .. size - 1 /\ n - 1 < kept
  <2>1. ASSUME NEW n \in 1 .. kept PROVE Index(g, n) = n - 1
    <3>1. n \in 1 .. size
      BY <1>2
    <3>2. g.capacity = size /\ g.start = 0
      BY <1>4
    <3>3. Index(g, n) = IF g.start + n <= g.capacity THEN (g.start + n) - 1
                        ELSE ((g.start + n) - 1) - g.capacity
      BY <3>1, <3>2, IndexIs
    <3> QED
      BY <3>1, <3>2, <3>3
  <2> QED
    BY <1>2, <2>1
<1>9. HistoryOK(g)
  <2>1. g \in HistoryType(size) /\ g.capacity = size
    BY <1>2, <1>4, <1>7 DEF HistoryType
  <2>2. RingOf(g)
    BY <1>2, <1>4 DEF RingOf
  <2>3. CommandsFit(g)
    BY <1>4, <1>6, <1>8 DEF CommandsFit
  <2> QED
    BY <2>1, <2>2, <2>3 DEF HistoryOK
<1>10. \A n \in 1 .. kept : g.commands[Index(g, n)] = h.commands[Index(h, n)]
  <2>1. ASSUME NEW n \in 1 .. kept PROVE g.commands[Index(g, n)] = h.commands[Index(h, n)]
    <3>1. PICK i \in 0 .. size - 1 : i = n - 1 /\ i < kept /\ Index(g, n) = i /\ n = i + 1
      BY <1>8
    <3> QED
      BY <1>4, <1>6, <3>1
  <2> QED
    BY <2>1
<1> QED
  BY <1>1, <1>2, <1>4, <1>5, <1>9, <1>10

\* The command at i, cut behind its first word.
Cut(h, i) == [h EXCEPT !.commands[i].words = <<h.commands[i].words[1]>>, !.commands[i].redirect = "none"]

\* Cutting a stored command to its first word changes that slot and no other.
LEMMA CutIs ==
  ASSUME NEW h, HistoryOK(h), NEW i \in 0 .. h.capacity - 1, h.commands[i].words # <<>>
  PROVE  /\ HistoryOK(Cut(h, i)) /\ Cut(h, i).capacity = h.capacity /\ Cut(h, i).count = h.count
         /\ \A n : Index(Cut(h, i), n) = Index(h, n)
         /\ \A j \in 0 .. h.capacity - 1 : j # i => Cut(h, i).commands[j] = h.commands[j]
         /\ Cut(h, i).commands[i].words = <<h.commands[i].words[1]>>
         /\ Cut(h, i).commands[i].redirect = "none"
<1>1. h.commands \in [0 .. h.capacity - 1 -> Entries] /\ h.commands[i] \in Entries
  BY Fields
<1>2. PICK x : x = [h.commands[i] EXCEPT !.words = <<h.commands[i].words[1]>>, !.redirect = "none"]
  OBVIOUS
<1>3. /\ x \in Entries /\ x.words = <<h.commands[i].words[1]>> /\ x.redirect = "none"
      /\ x.room = h.commands[i].room
  <2>1. h.commands[i].words \in Seq(Words)
    BY <1>1 DEF Entries
  <2>2. PICK w \in Seq(Words) : w = <<h.commands[i].words[1]>>
    <3>1. h.commands[i].words[1] \in Words
      BY <2>1
    <3>2. <<h.commands[i].words[1]>> \in Seq(Words)
      BY <3>1
    <3> QED
      BY <3>2
  <2>3. x = [h.commands[i] EXCEPT !.words = w, !.redirect = "none"]
    BY <1>2, <2>2
  <2> QED
    BY <1>1, <2>2, <2>3 DEF Entries, Redirects
<1>4. PICK k : k = [h.commands EXCEPT ![i] = x]
  OBVIOUS
<1>5. /\ k \in [0 .. h.capacity - 1 -> Entries] /\ k[i] = x
      /\ \A j \in 0 .. h.capacity - 1 : j # i => k[j] = h.commands[j]
  BY <1>1, <1>3, <1>4
<1>6. PICK g : g = [commands |-> k, capacity |-> h.capacity, count |-> h.count,
                    start |-> h.start, end |-> h.end]
  OBVIOUS
<1>7. Cut(h, i) = g
  <2>1. h = [commands |-> h.commands, capacity |-> h.capacity, count |-> h.count,
             start |-> h.start, end |-> h.end]
    BY Fields
  <2>3. Cut(h, i) = [h EXCEPT !.commands = k]
    BY <1>1, <1>2, <1>4, <2>1 DEF Cut
  <2> QED
    BY <1>6, <2>1, <2>3
<1>8. \A n : Index(g, n) = Index(h, n)
  BY <1>6 DEF Index
<1>9. HistoryOK(g)
  <2>1. g \in HistoryType(h.capacity)
    BY <1>5, <1>6, Fields DEF HistoryType
  <2>2. RingOf(g)
    BY <1>6 DEF HistoryOK, RingOf
  <2>3. ASSUME NEW n \in 1 .. h.count PROVE FirstFits(k[Index(h, n)])
    <3>1. FirstFits(h.commands[Index(h, n)])
      BY DEF HistoryOK, CommandsFit
    <3>2. Index(h, n) \in 0 .. h.capacity - 1
      BY IndexIs, Fields
    <3>3. CASE Index(h, n) = i
      <4>1. x.words[1] = h.commands[i].words[1] /\ x.words # <<>>
        BY <1>3
      <4> QED
        BY <1>3, <1>5, <3>1, <3>3, <4>1 DEF FirstFits
    <3>4. CASE Index(h, n) # i
      BY <1>5, <3>1, <3>2, <3>4
    <3> QED
      BY <3>3, <3>4
  <2> QED
    BY <1>6, <1>8, <2>1, <2>2, <2>3, Fields DEF HistoryOK, CommandsFit
<1> QED
  BY <1>3, <1>5, <1>6, <1>7, <1>8, <1>9

-----------------------------------------------------------------------------
(* Variables.                                                               *)
Variable == [name : Names, value : Values \cup {NotSet}]
Local == [x \in Names |-> GetShellVar(x)]

\* A shell variable has one place, and its value is there.
LEMMA VariableIs ==
  ASSUME WshTypeOK, NEW x, NEW i \in DOMAIN shell_vars, shell_vars[i].name = x
  PROVE  Places(x) = {i} /\ Min(Places(x)) = i /\ GetShellVar(x) = shell_vars[i].value
<1>1. Places(x) = {i}
  BY DEF Places, WshTypeOK
<1>2. {i} \subseteq Nat
  BY DEF WshTypeOK
<1>3. Min({i}) = i
  BY <1>2, MinIsIn
<1> QED
  BY <1>1, <1>3 DEF GetShellVar

\* A variable that was never set has no place and no value.
LEMMA VariableIsNot ==
  ASSUME NEW x, \A i \in DOMAIN shell_vars : shell_vars[i].name # x
  PROVE  Places(x) = {} /\ GetShellVar(x) = NotSet
BY DEF Places, GetShellVar

\* A lookup yields a value or nothing.
LEMMA ValueIs ==
  ASSUME WshTypeOK, NEW x
  PROVE  GetShellVar(x) \in Values \cup {NotSet}
<1>1. shell_vars \in Seq(Variable)
  BY DEF WshTypeOK, Variable
<1>2. \A i \in DOMAIN shell_vars : shell_vars[i] \in Variable
  BY <1>1
<1>3. \A i \in DOMAIN shell_vars : shell_vars[i].value \in Values \cup {NotSet}
  BY <1>2 DEF Variable
<1> QED
  BY <1>3, VariableIs, VariableIsNot

\* An assigned word expands to a value or nothing.
LEMMA ExpandIs ==
  ASSUME WshTypeOK, NEW w \in Assigned
  PROVE  Expand(w) \in Values \cup {NotSet}
BY ValueIs DEF Assigned, Expand, WshTypeOK

\* set_shell_var sets the variable, or, without room, nothing.
LEMMA SetIs ==
  ASSUME WshTypeOK, NEW x \in Names, NEW v \in Values \cup {NotSet},
         shell_vars' = SetShellVar(x, v)
  PROVE  /\ shell_vars' \in Seq(Variable)
         /\ \A i, j \in DOMAIN shell_vars' : shell_vars'[i].name = shell_vars'[j].name => i = j
         /\ Local' = Local \/ Local' = [Local EXCEPT ![x] = v]
<1>1. /\ shell_vars \in Seq(Variable)
      /\ \A i, j \in DOMAIN shell_vars : shell_vars[i].name = shell_vars[j].name => i = j
  BY DEF WshTypeOK, Variable
<1>2. CASE shell_vars' = shell_vars
  <2>1. Local' = Local
    BY <1>2 DEF Local, GetShellVar, Places
  <2> QED
    BY <1>1, <1>2, <2>1
<1>3. ASSUME NEW i \in DOMAIN shell_vars, shell_vars[i].name = x PROVE
        /\ shell_vars' \in Seq(Variable)
        /\ \A k, j \in DOMAIN shell_vars' : shell_vars'[k].name = shell_vars'[j].name => k = j
        /\ Local' = [Local EXCEPT ![x] = v]
  <2>1. shell_vars' = [shell_vars EXCEPT ![i].value = v]
    <3>1. Places(x) = {i} /\ Min(Places(x)) = i
      BY <1>3, VariableIs
    <3> QED
      BY <3>1 DEF SetShellVar
  <2>2. [shell_vars[i] EXCEPT !.value = v] \in Variable
        /\ [shell_vars[i] EXCEPT !.value = v].name = x /\ [shell_vars[i] EXCEPT !.value = v].value = v
    <3>1. shell_vars[i] \in Variable
      BY <1>1, <1>3
    <3> QED
      BY <1>3, <3>1 DEF Variable
  <2>3. PICK y \in Variable : y = [shell_vars[i] EXCEPT !.value = v] /\ y.name = x /\ y.value = v
    BY <2>2
  <2>4. shell_vars' = [shell_vars EXCEPT ![i] = y]
    BY <2>1, <2>3
  <2>5. /\ shell_vars' \in Seq(Variable) /\ DOMAIN shell_vars' = DOMAIN shell_vars
        /\ shell_vars'[i] = y /\ \A j \in DOMAIN shell_vars \ {i} : shell_vars'[j] = shell_vars[j]
    BY <1>1, <2>4
  <2>6. \A j \in DOMAIN shell_vars : shell_vars'[j].name = shell_vars[j].name
    BY <1>3, <2>3, <2>5
  <2>7. \A k, j \in DOMAIN shell_vars' : shell_vars'[k].name = shell_vars'[j].name => k = j
    BY <1>1, <2>5, <2>6
  <2>8. ASSUME NEW z \in Names PROVE GetShellVar(z)' = IF z = x THEN v ELSE GetShellVar(z)
    <3>1. Places(z)' = Places(z)
      BY <2>5, <2>6 DEF Places
    <3>2. CASE z = x
      <4>1. Places(x) = {i} /\ Min(Places(x)) = i
        BY <1>3, VariableIs
      <4>2. Places(z)' = {i} /\ shell_vars'[i].value = v
        BY <2>3, <2>5, <3>1, <3>2, <4>1
      <4>3. Min({i}) = i
        BY <4>1
      <4> QED
        BY <3>2, <4>2, <4>3 DEF GetShellVar
    <3>3. CASE z # x /\ Places(z) = {}
      BY <3>1, <3>3 DEF GetShellVar
    <3>4. ASSUME z # x, NEW j \in Places(z) PROVE GetShellVar(z)' = GetShellVar(z)
      <4>1. j \in DOMAIN shell_vars /\ shell_vars[j].name = z /\ j # i
        BY <1>3, <3>4 DEF Places
      <4>2. Places(z) = {j} /\ Min(Places(z)) = j
        BY <4>1, VariableIs
      <4> QED
        BY <2>5, <3>1, <4>1, <4>2 DEF GetShellVar
    <3> QED
      BY <3>2, <3>3, <3>4
  <2>9. Local' = [Local EXCEPT ![x] = v]
    BY <2>8 DEF Local
  <2> QED
    BY <2>5, <2>7, <2>9
<1>4. ASSUME \A i \in DOMAIN shell_vars : shell_vars[i].name # x, shell_vars' # shell_vars PROVE
        /\ shell_vars' \in Seq(Variable)
        /\ \A k, j \in DOMAIN shell_vars' : shell_vars'[k].name = shell_vars'[j].name => k = j
        /\ Local' = [Local EXCEPT ![x] = v]
  <2>1. PICK y \in Variable : y = [name |-> x, value |-> v] /\ y.name = x /\ y.value = v
    <3>1. [name |-> x, value |-> v] \in Variable
      BY DEF Variable
    <3> QED
      BY <3>1
  <2>2. shell_vars' = Append(shell_vars, y)
    BY <1>4, <2>1, VariableIsNot DEF SetShellVar
  <2>3. PICK l \in Nat : l = Len(shell_vars) /\ DOMAIN shell_vars = 1 .. l
    BY <1>1
  <2>4. /\ shell_vars' \in Seq(Variable) /\ DOMAIN shell_vars' = 1 .. l + 1
        /\ shell_vars'[l + 1] = y /\ \A j \in 1 .. l : shell_vars'[j] = shell_vars[j]
    BY <1>1, <2>2, <2>3
  <2>5. \A k, j \in DOMAIN shell_vars' : shell_vars'[k].name = shell_vars'[j].name => k = j
    <3>1. ASSUME NEW k \in 1 .. l + 1, NEW j \in 1 .. l + 1, shell_vars'[k].name = shell_vars'[j].name
          PROVE  k = j
      <4>1. CASE k \in 1 .. l /\ j \in 1 .. l
        BY <1>1, <2>3, <2>4, <3>1, <4>1
      <4>2. CASE k = l + 1 /\ j \in 1 .. l
        BY <1>4, <2>1, <2>3, <2>4, <3>1, <4>2
      <4>3. CASE k \in 1 .. l /\ j = l + 1
        BY <1>4, <2>1, <2>3, <2>4, <3>1, <4>3
      <4> QED
        BY <4>1, <4>2, <4>3
    <3> QED
      BY <2>4, <3>1
  <2>6. ASSUME NEW z \in Names PROVE GetShellVar(z)' = IF z = x THEN v ELSE GetShellVar(z)
    <3>1. CASE z = x
      <4>1. Places(z)' = {l + 1}
        BY <1>4, <2>1, <2>3, <2>4, <3>1 DEF Places
      <4>2. Min({l + 1}) = l + 1
        <5>1. {l + 1} \subseteq Nat
          OBVIOUS
        <5> QED
          BY <5>1, MinIsIn
      <4> QED
        BY <2>1, <2>4, <3>1, <4>1, <4>2 DEF GetShellVar
    <3>2. CASE z # x
      <4>1. Places(z)' = Places(z)
        BY <2>1, <2>3, <2>4, <3>2 DEF Places
      <4>2. CASE Places(z) = {}
        BY <3>2, <4>1, <4>2 DEF GetShellVar
      <4>3. ASSUME NEW j \in Places(z) PROVE GetShellVar(z)' = GetShellVar(z)
        <5>1. j \in DOMAIN shell_vars /\ shell_vars[j].name = z
          BY <4>3 DEF Places
        <5>2. Places(z) = {j} /\ Min(Places(z)) = j
          BY <5>1, VariableIs
        <5> QED
          BY <2>3, <2>4, <4>1, <5>1, <5>2 DEF GetShellVar
      <4> QED
        BY <3>2, <4>2, <4>3
    <3> QED
      BY <3>1, <3>2
  <2>7. Local' = [Local EXCEPT ![x] = v]
    BY <2>6 DEF Local
  <2> QED
    BY <2>4, <2>5, <2>7
<1> QED
  BY <1>2, <1>3, <1>4

-----------------------------------------------------------------------------
(* The invariant.                                                           *)
LEMMA InvariantIs == HistoryInvariant <=> WshTypeOK /\ HistoryOK(history)
BY DEF HistoryInvariant, RingExact, WshTypeOK, HistoryOK

\* A step that gives the shell a new history.
LEMMA NewHistory ==
  ASSUME HistoryInvariant, HistoryOK(history'), UNCHANGED <<shell_vars, env>>,
         mode' \in {"reading", "exited", "undefined"}, last_cmd_rc' \in {0, 1, 255}
  PROVE  HistoryInvariant'
BY DEF HistoryInvariant, RingExact, WshTypeOK, HistoryOK

\* A line that may be typed has words, and its first is no variable.
LEMMA LineIs ==
  ASSUME NEW line \in Lines
  PROVE  Given(line) /\ line \in [words : Seq(Words), redirect : Redirects]
BY WshLines DEF Given

\* Command keeps the invariant.
LEMMA CommandKeeps ==
  ASSUME HistoryInvariant, NEW line \in Lines, Command(line)
  PROVE  HistoryInvariant'
<1>1. /\ history' = InsertHistory(history, line) /\ UNCHANGED <<shell_vars, env, mode>>
      /\ last_cmd_rc' \in {0, 1, 255}
  BY DEF Command, Runs
<1>2. HistoryOK(history')
  BY <1>1, InvariantIs, InsertKeeps, LineIs
<1>3. mode' \in {"reading", "exited", "undefined"}
  BY <1>1 DEF HistoryInvariant, WshTypeOK
<1> QED
  BY <1>1, <1>2, <1>3, NewHistory

\* The remembered command a re-run inserts again.
LEMMA EntryIs ==
  ASSUME NEW h, HistoryOK(h), NEW n \in 1 .. h.count
  PROVE  /\ Index(h, n) \in 0 .. h.capacity - 1 /\ n \in 1 .. h.capacity
         /\ h.commands[Index(h, n)] \in Entries /\ Given(h.commands[Index(h, n)])
         /\ FirstFits(h.commands[Index(h, n)])
<1>1. n \in 1 .. h.capacity
  BY Fields
<1>2. Index(h, n) \in 0 .. h.capacity - 1
  BY <1>1, IndexIs, Fields
<1>3. h.commands[Index(h, n)] \in Entries
  BY <1>2, Fields
<1>4. FirstFits(h.commands[Index(h, n)])
  BY DEF HistoryOK, CommandsFit
<1> QED
  BY <1>1, <1>2, <1>3, <1>4 DEF Given, FirstFits, Entries

\* It is still there after that, unless it frees itself.
LEMMA RerunIs ==
  ASSUME NEW h, HistoryOK(h), NEW n \in 1 .. h.count, NEW i, i = Index(h, n), NEW e, e = h.commands[i],
         ~FreesItself(h, e, i)
  PROVE  /\ HistoryOK(InsertHistory(h, e)) /\ InsertHistory(h, e).capacity = h.capacity
         /\ InsertHistory(h, e).commands[i] = e
<1>1. i \in 0 .. h.capacity - 1 /\ n \in 1 .. h.capacity /\ Given(e)
  BY EntryIs
<1>2. CASE IsLast(h, e)
  BY <1>2 DEF InsertHistory
<1>3. CASE ~IsLast(h, e) /\ h.count = h.capacity
  <2>1. i # h.start
    BY <1>3 DEF FreesItself
  <2>2. h.commands \in [0 .. h.capacity - 1 -> Entries]
    BY Fields
  <2>3. InsertHistory(h, e).commands = [h.commands EXCEPT ![h.start] = Copy(e)]
        /\ HistoryOK(InsertHistory(h, e)) /\ InsertHistory(h, e).capacity = h.capacity
    BY <1>1, <1>3, InsertFull, InsertKeeps
  <2> QED
    BY <1>1, <2>1, <2>2, <2>3
<1>4. CASE ~IsLast(h, e) /\ h.count # h.capacity
  <2>1. i # h.end
    BY <1>1, <1>4, InsertBehind
  <2>2. h.commands \in [0 .. h.capacity - 1 -> Entries]
    BY Fields
  <2>3. InsertHistory(h, e).commands = [h.commands EXCEPT ![h.end] = Copy(e)]
        /\ HistoryOK(InsertHistory(h, e)) /\ InsertHistory(h, e).capacity = h.capacity
    BY <1>1, <1>4, InsertBehind, InsertKeeps
  <2> QED
    BY <1>1, <2>1, <2>2, <2>3
<1> QED
  BY <1>2, <1>3, <1>4

\* HistoryCommand keeps the invariant.
LEMMA HistoryCommandKeeps ==
  ASSUME HistoryInvariant, NEW n \in 1 .. history.count, HistoryCommand(n)
  PROVE  HistoryInvariant'
<1>1. PICK i : i = Index(history, n)
  OBVIOUS
<1>2. PICK e : e = history.commands[i]
  OBVIOUS
<1>3. UNCHANGED <<shell_vars, env>> /\ HistoryOK(history) /\ WshTypeOK
  BY InvariantIs DEF HistoryCommand
<1>4. CASE mode' = "undefined" /\ UNCHANGED <<history, last_cmd_rc>>
  BY <1>3, <1>4, NewHistory DEF WshTypeOK
<1>5. CASE /\ ~FreesItself(history, e, i) /\ UNCHANGED mode
           /\ history' = [InsertHistory(history, e) EXCEPT !.commands[i].words = <<e.words[1]>>,
                                                          !.commands[i].redirect = "none"]
           /\ Runs(e)
  <2>1. /\ HistoryOK(InsertHistory(history, e)) /\ InsertHistory(history, e).capacity = history.capacity
        /\ InsertHistory(history, e).commands[i] = e
    BY <1>1, <1>2, <1>3, <1>5, RerunIs
  <2>2. history' = Cut(InsertHistory(history, e), i)
    BY <1>5, <2>1 DEF Cut
  <2>3. i \in 0 .. history.capacity - 1 /\ e.words # <<>>
    BY <1>1, <1>2, <1>3, EntryIs DEF Given
  <2>4. HistoryOK(history')
    BY <2>1, <2>2, <2>3, CutIs
  <2>5. last_cmd_rc' \in {0, 1, 255} /\ mode' \in {"reading", "exited", "undefined"}
    BY <1>3, <1>5 DEF Runs, WshTypeOK
  <2> QED
    BY <1>3, <2>4, <2>5, NewHistory
<1> QED
  BY <1>1, <1>2, <1>4, <1>5 DEF HistoryCommand

\* SetHistorySize keeps the invariant.
LEMMA SetHistorySizeKeeps ==
  ASSUME HistoryInvariant, NEW size \in Sizes, SetHistorySize(size)
  PROVE  HistoryInvariant'
<1>1. size \in Nat \ {0} /\ history' = Resized(history, size) /\ last_cmd_rc' = 0
      /\ UNCHANGED <<shell_vars, env, mode>>
  BY WshSizes DEF SetHistorySize
<1>2. HistoryOK(history')
  BY <1>1, InvariantIs, ResizedIs
<1>3. mode' \in {"reading", "exited", "undefined"}
  BY <1>1 DEF HistoryInvariant, WshTypeOK
<1> QED
  BY <1>1, <1>2, <1>3, NewHistory

\* Assign keeps the invariant.
LEMMA AssignKeeps ==
  ASSUME HistoryInvariant, NEW x \in Names, NEW w \in Assigned,
         LocalCommand(x, w) \/ ExportCommand(x, w)
  PROVE  HistoryInvariant'
<1>1. WshTypeOK /\ HistoryOK(history) /\ history' = history /\ mode' = mode
  BY InvariantIs DEF LocalCommand, ExportCommand
<1>2. Expand(w) \in Values \cup {NotSet}
  BY <1>1, ExpandIs
<1>3. CASE LocalCommand(x, w)
  <2>1. shell_vars' = SetShellVar(x, Expand(w)) /\ last_cmd_rc' = 0 /\ env' = env
    BY <1>3 DEF LocalCommand
  <2>2. /\ shell_vars' \in Seq(Variable)
        /\ \A i, j \in DOMAIN shell_vars' : shell_vars'[i].name = shell_vars'[j].name => i = j
    BY <1>1, <1>2, <2>1, SetIs
  <2> QED
    BY <1>1, <2>1, <2>2 DEF HistoryInvariant, RingExact, WshTypeOK, Variable
<1>4. CASE ExportCommand(x, w)
  <2>1. last_cmd_rc' \in {0, 1} /\ shell_vars' = shell_vars
    BY <1>4 DEF ExportCommand
  <2>2. env' \in [Names -> Values \cup {NotSet}]
    BY <1>1, <1>2, <1>4 DEF ExportCommand, WshTypeOK
  <2> QED
    BY <1>1, <2>1, <2>2 DEF HistoryInvariant, RingExact, WshTypeOK
<1> QED
  BY <1>3, <1>4

\* The history starts empty and exact.
LEMMA InitHolds == Init => HistoryInvariant
<1> SUFFICES ASSUME Init PROVE HistoryInvariant
  OBVIOUS
<1>1. PICK c \in Nat \ {0} : c = DEFAULT_HISTORY_SIZE
  BY WshSizes
<1>2. PICK k : k = [i \in 0 .. c - 1 |-> NoLine]
  OBVIOUS
<1>3. history = [commands |-> k, capacity |-> c, count |-> 0, start |-> 0, end |-> 0]
  BY <1>1, <1>2 DEF Init
<1>4. k \in [0 .. c - 1 -> Entries]
  <2>1. NoLine \in Entries
    BY DEF NoLine, Entries, Redirects
  <2> QED
    BY <1>2, <2>1
<1>5. history.capacity = c /\ history \in HistoryType(c)
  BY <1>3, <1>4 DEF HistoryType
<1>6. RingExact
  BY <1>3 DEF RingExact, RingOf, CommandsFit
<1>7. WshTypeOK
  BY <1>5 DEF Init, WshTypeOK
<1> QED
  BY <1>6, <1>7 DEF HistoryInvariant

\* Every step keeps the invariant.
LEMMA NextKeeps == HistoryInvariant /\ [Next]_vars => HistoryInvariant'
<1> SUFFICES ASSUME HistoryInvariant, [Next]_vars PROVE HistoryInvariant'
  OBVIOUS
<1>1. CASE \E line \in Lines : Command(line)
  BY <1>1, CommandKeeps
<1>2. CASE \E n \in 1 .. history.count : HistoryCommand(n)
  BY <1>2, HistoryCommandKeeps
<1>3. CASE \E size \in Sizes : SetHistorySize(size)
  BY <1>3, SetHistorySizeKeeps
<1>4. CASE \E x \in Names, w \in Assigned : LocalCommand(x, w) \/ ExportCommand(x, w)
  BY <1>4, AssignKeeps
<1>5. CASE HistoryNothing \/ Exit \/ UNCHANGED vars
  <2>1. HistoryOK(history') /\ UNCHANGED <<shell_vars, env>> /\ last_cmd_rc' \in {0, 1, 255}
        /\ mode' \in {"reading", "exited", "undefined"}
    BY <1>5, InvariantIs DEF HistoryNothing, Exit, vars, WshTypeOK
  <2> QED
    BY <2>1, NewHistory
<1> QED
  BY <1>1, <1>2, <1>3, <1>4, <1>5 DEF Next

\* The circular buffer is where its counts say, behind it the place for the next command, and every
\* command in it fits its memory when it is run again by itself.
THEOREM HistoryExact == Spec => []HistoryInvariant
BY InitHolds, NextKeeps, PTL DEF Spec

-----------------------------------------------------------------------------
(* The session.  Its list is what the circular buffer holds, oldest first.  *)
Typed == [words : Seq(Words), redirect : Redirects]
Text(e) == [words |-> e.words, redirect |-> e.redirect]
ShownIn(h) == [n \in 1 .. h.count |-> Text(h.commands[Index(h, n)])]
Sees == <<Shown, history.capacity, env, ran, Local>>

\* A sequence is the function of its elements.
LEMMA ListIs ==
  ASSUME NEW T, NEW a \in Seq(T), NEW m \in Nat, Len(a) = m
  PROVE  a = [n \in 1 .. m |-> a[n]]
<1>1. a \in [1 .. m -> T]
  OBVIOUS
<1> QED
  BY <1>1

\* What history prints is a function of the history alone.
LEMMA ShownIs == Shown = ShownIn(history) /\ Shown' = ShownIn(history')
BY DEF Shown, ShownIn, Remembered, Text

\* What history prints is a list of typed lines as long as its count.
LEMMA ShownIsList ==
  ASSUME NEW h, HistoryOK(h)
  PROVE  /\ ShownIn(h) \in Seq(Typed) /\ Len(ShownIn(h)) = h.count /\ h.count \in Nat
         /\ DOMAIN ShownIn(h) = 1 .. h.count
<1>1. h.count \in Nat
  BY Fields
<1>2. ASSUME NEW n \in 1 .. h.count PROVE ShownIn(h)[n] \in Typed
  <2>1. h.commands[Index(h, n)] \in Entries
    BY EntryIs
  <2>2. Text(h.commands[Index(h, n)]) \in Typed
    BY <2>1 DEF Text, Typed, Entries
  <2> QED
    BY <2>2 DEF ShownIn
<1>3. ShownIn(h) \in [1 .. h.count -> Typed]
  BY <1>2 DEF ShownIn
<1> QED
  BY <1>1, <1>3

\* A line is remembered last exactly when it is the last one that is shown.
LEMMA ShownLast ==
  ASSUME NEW h, HistoryOK(h), NEW line \in Typed
  PROVE  IsLast(h, line) <=> ShownIn(h) # <<>> /\ ShownIn(h)[Len(ShownIn(h))] = line
<1>1. h.count \in Nat /\ Len(ShownIn(h)) = h.count /\ ShownIn(h) \in Seq(Typed)
  BY ShownIsList
<1>2. CASE h.count = 0
  BY <1>1, <1>2 DEF IsLast
<1>3. CASE h.count > 0
  <2>1. PICK e : e = h.commands[Index(h, h.count)]
    OBVIOUS
  <2>2. IsLast(h, line) <=> SameText(e, line)
    BY <1>3, <2>1, LastIs DEF IsLast
  <2>3. ShownIn(h)[Len(ShownIn(h))] = Text(e)
    BY <1>1, <1>3, <2>1 DEF ShownIn
  <2>4. SameText(e, line) <=> Text(e) = line
    <3>1. line = [words |-> line.words, redirect |-> line.redirect]
      BY DEF Typed
    <3> QED
      BY <3>1 DEF SameText, Text
  <2> QED
    BY <1>1, <1>3, <2>2, <2>3, <2>4
<1> QED
  BY <1>1, <1>2, <1>3

\* insert_history appends, and forgets the oldest when there is no room.
LEMMA ShownInsert ==
  ASSUME NEW h, HistoryOK(h), NEW line \in Typed, Given(line), ~IsLast(h, line)
  PROVE  ShownIn(InsertHistory(h, line)) =
           IF Len(Append(ShownIn(h), line)) > h.capacity THEN Tail(Append(ShownIn(h), line))
           ELSE Append(ShownIn(h), line)
<1>1. PICK l \in Seq(Typed) : l = ShownIn(h) /\ Len(l) = h.count
  BY ShownIsList
<1>2. PICK c \in Nat \ {0} : c = h.capacity
  BY Fields
<1>3. PICK m \in 0 .. c : m = h.count
  BY <1>2, Fields
<1>4. PICK g : g = InsertHistory(h, line)
  OBVIOUS
<1>5. PICK a \in Seq(Typed) : /\ a = Append(l, line) /\ Len(a) = m + 1 /\ a[m + 1] = line
                              /\ \A n \in 1 .. m : a[n] = l[n]
  <2>1. Len(l) = m
    BY <1>1, <1>3
  <2>2. Append(l, line) \in Seq(Typed) /\ Len(Append(l, line)) = m + 1
    BY <2>1
  <2>3. Append(l, line)[m + 1] = line /\ \A n \in 1 .. m : Append(l, line)[n] = l[n]
    BY <2>1
  <2> QED
    BY <2>2, <2>3
<1>6. Text(Copy(line)) = line
  <2>1. line = [words |-> line.words, redirect |-> line.redirect]
    BY DEF Typed
  <2> QED
    BY <2>1, CopyIs DEF Text, Given
<1>7. h.commands \in [0 .. c - 1 -> Entries] /\ h.start \in 0 .. c - 1
  BY <1>2, Fields
<1>8. ASSUME NEW n \in 1 .. m PROVE l[n] = Text(h.commands[Index(h, n)])
  BY <1>1, <1>3 DEF ShownIn
<1>9. CASE m = c
  <2>1. /\ HistoryOK(g) /\ g.count = c /\ g.commands = [h.commands EXCEPT ![h.start] = Copy(line)]
        /\ \A n \in 1 .. c : Index(g, n) = IF n = c THEN h.start ELSE Index(h, n + 1)
    <3>1. h.count = h.capacity
      BY <1>2, <1>3, <1>9
    <3> QED
      BY <1>2, <1>4, <3>1, InsertFull, SMTT(30)
  <2>2. ASSUME NEW n \in 1 .. c PROVE Text(g.commands[Index(g, n)]) = a[n + 1]
    <3>1. CASE n = c
      BY <1>5, <1>6, <1>7, <1>9, <2>1, <3>1
    <3>2. CASE n # c
      <4>1. n + 1 \in 1 .. m /\ n + 1 # 1 /\ 1 \in 1 .. c /\ n + 1 \in 1 .. c
        BY <1>9, <3>2
      <4>2. Index(h, n + 1) \in 0 .. c - 1 /\ Index(h, 1) = h.start /\ Index(h, n + 1) # Index(h, 1)
        <5>1. h.capacity \in Nat \ {0} /\ h.start \in 0 .. h.capacity - 1
              /\ n + 1 \in 1 .. h.capacity /\ 1 \in 1 .. h.capacity
          BY <1>2, <1>7, <4>1
        <5>2. Index(h, n + 1) \in 0 .. c - 1
          BY <1>2, <5>1, IndexIs
        <5>3. Index(h, 1) = h.start
          BY <1>7, <5>1, IndexIs
        <5>4. Index(h, n + 1) # Index(h, 1)
          BY <4>1, <5>1, IndexOnce
        <5> QED
          BY <5>2, <5>3, <5>4
      <4>3. g.commands[Index(g, n)] = h.commands[Index(h, n + 1)]
        BY <1>7, <2>1, <3>2, <4>2
      <4> QED
        BY <1>5, <1>8, <4>1, <4>3
    <3> QED
      BY <3>1, <3>2
  <2>3. ShownIn(g) = [n \in 1 .. c |-> a[n + 1]]
    BY <2>1, <2>2 DEF ShownIn
  <2>4. Tail(a) = [n \in 1 .. c |-> a[n + 1]]
    <3>1. a # <<>> /\ Len(a) = c + 1
      BY <1>5, <1>9
    <3>2. Tail(a) \in Seq(Typed) /\ Len(Tail(a)) = c
      BY <3>1
    <3>3. \A n \in 1 .. c : Tail(a)[n] = a[n + 1]
      BY <3>1
    <3>4. Tail(a) = [n \in 1 .. c |-> Tail(a)[n]]
      BY <3>2, ListIs
    <3> QED
      BY <3>3, <3>4
  <2> QED
    BY <1>1, <1>2, <1>4, <1>5, <1>9, <2>3, <2>4
<1>10. CASE m # c
  <2>1. /\ HistoryOK(g) /\ g.count = m + 1 /\ g.commands = [h.commands EXCEPT ![h.end] = Copy(line)]
        /\ h.end \in 0 .. c - 1 /\ \A n \in 1 .. m : Index(h, n) # h.end
        /\ \A n \in 1 .. m + 1 : Index(g, n) = IF n = m + 1 THEN h.end ELSE Index(h, n)
    BY <1>2, <1>3, <1>4, <1>10, InsertBehind
  <2>2. ASSUME NEW n \in 1 .. m + 1 PROVE Text(g.commands[Index(g, n)]) = a[n]
    <3>1. CASE n = m + 1
      BY <1>5, <1>6, <1>7, <2>1, <3>1
    <3>2. CASE n # m + 1
      <4>1. n \in 1 .. m /\ n \in 1 .. c
        BY <3>2
      <4>2. Index(h, n) \in 0 .. c - 1
        BY <1>2, <1>7, <4>1, IndexIs
      <4>3. g.commands[Index(g, n)] = h.commands[Index(h, n)]
        BY <1>7, <2>1, <3>2, <4>1, <4>2
      <4> QED
        BY <1>5, <1>8, <4>1, <4>3
    <3> QED
      BY <3>1, <3>2
  <2>3. ShownIn(g) = [n \in 1 .. m + 1 |-> a[n]]
    BY <2>1, <2>2 DEF ShownIn
  <2>4. a = [n \in 1 .. m + 1 |-> a[n]]
    <3>1. PICK z \in Nat : z = m + 1
      OBVIOUS
    <3>2. a = [n \in 1 .. z |-> a[n]]
      BY <1>5, <3>1, ListIs
    <3> QED
      BY <3>1, <3>2
  <2>5. ShownIn(g) = Append(ShownIn(h), line)
    BY <1>1, <1>5, <2>3, <2>4
  <2>6. ~(Len(a) > h.capacity)
    BY <1>2, <1>5, <1>10
  <2> QED
    BY <1>1, <1>4, <1>5, <2>5, <2>6
<1> QED
  BY <1>9, <1>10

-----------------------------------------------------------------------------
(* Its variables, and what is run.                                          *)
LEMMA ArgsAre ==
  ASSUME NEW words \in Seq(Words)
  PROVE  Args(words) = S!Meant(words)
<1>1. ASSUME NEW w \in Words PROVE Expand(w) = S!Meaning(w)
  BY DEF Words, Expand, S!Meaning
<1>2. [i \in DOMAIN words |-> Expand(words[i])] = [i \in DOMAIN words |-> S!Meaning(words[i])]
  BY <1>1
<1> QED
  BY <1>2 DEF Args, S!Meant

\* A line that runs as typed runs in the session, and so does its text.
LEMMA RunsIs ==
  ASSUME NEW line, line.words \in Seq(Words), Runs(line)
  PROVE  S!Ran(line) /\ S!Ran(Text(line))
<1>1. ran' = [argv |-> S!Meant(line.words), redirect |-> line.redirect]
  BY ArgsAre DEF Runs
<1> QED
  BY <1>1 DEF S!Ran, Text

-----------------------------------------------------------------------------
(* Every step is one of the session, or of none, or the documented case.    *)
LEMMA CommandTypes ==
  ASSUME HistoryInvariant, NEW line \in Lines, Command(line)
  PROVE  S!Type(line)
<1>1. HistoryOK(history) /\ Given(line) /\ line \in Typed
  BY InvariantIs, LineIs DEF Typed
<1>2. history' = InsertHistory(history, line) /\ Runs(line) /\ UNCHANGED <<shell_vars, env>>
  BY DEF Command
<1>3. history'.capacity = history.capacity
  BY <1>1, <1>2, InsertKeeps
<1>4. S!Remembers(line)
  <2>1. CASE IsLast(history, line)
    <3>1. Shown' = Shown
      BY <1>2, <2>1, ShownIs DEF InsertHistory
    <3>2. Shown # <<>> /\ Shown[Len(Shown)] = line
      BY <1>1, <2>1, ShownIs, ShownLast
    <3> QED
      BY <3>1, <3>2 DEF S!Remembers
  <2>2. CASE ~IsLast(history, line)
    <3>1. Shown' = IF Len(Append(Shown, line)) > history.capacity THEN Tail(Append(Shown, line))
                   ELSE Append(Shown, line)
      BY <1>1, <1>2, <2>2, ShownIs, ShownInsert
    <3>2. ~(Shown # <<>> /\ Shown[Len(Shown)] = line)
      BY <1>1, <2>2, ShownIs, ShownLast
    <3> QED
      BY <3>1, <3>2 DEF S!Remembers
  <2> QED
    BY <2>1, <2>2
<1>5. S!Ran(line)
  BY <1>1, <1>2, RunsIs DEF Typed
<1>6. Local' = Local
  BY <1>2 DEF Local, GetShellVar, Places
<1> QED
  BY <1>2, <1>3, <1>4, <1>5, <1>6 DEF S!Type, Local

\* The last command, without arguments and redirection, is found again and fits.
LEMMA HarmlessIs ==
  ASSUME HistoryInvariant, NEW n \in 1 .. history.count, Harmless(n),
         NEW e, e = history.commands[Index(history, n)]
  PROVE  IsLast(history, e) /\ ~Overflows(e)
<1>1. HistoryOK(history) /\ n = history.count /\ history.count > 0
  BY InvariantIs, ShownIsList DEF Harmless
<1>2. e.words \in Seq(Words) /\ Len(e.words) = 1 /\ FirstFits(e)
  BY <1>1, EntryIs DEF Harmless, Remembered, Entries
<1>3. IsLast(history, e)
  BY <1>1, LastIs DEF IsLast, SameText
<1> DEFINE w == [i \in DOMAIN e.words |-> Length[Expand(e.words[i])] + 1]
<1>4. DOMAIN e.words = {1}
  BY <1>2
<1>5. w[1] = Length[e.words[1].text] + 1 /\ w[1] \in Nat
  <2>1. Expand(e.words[1]) = e.words[1].text
    BY <1>2 DEF FirstFits, Expand
  <2>2. Length[e.words[1].text] \in Nat
    <3>1. e.words[1] \in Words
      BY <1>2
    <3>2. e.words[1].text \in Texts
      BY <3>1, WshTexts DEF Words
    <3> QED
      BY <3>2, WshTexts
  <2> QED
    BY <1>4, <2>1, <2>2
<1>6. ExpandedLength(e.words) = SumFunctionOnSet(w, {1})
  BY <1>4 DEF ExpandedLength
<1>7. ExpandedLength(e.words) = w[1]
  <2> HIDE DEF w
  <2> QED
    BY <1>5, <1>6, SumOfOne
<1>8. e.room \in Nat /\ Length[e.words[1].text] + 1 <= e.room
  BY <1>1, <1>2, EntryIs DEF Entries, FirstFits
<1>9. ExpandedLength(e.words) = Length[e.words[1].text] + 1
  BY <1>5, <1>7
<1>10. ExpandedLength(e.words) <= e.room /\ ExpandedLength(e.words) \in Nat
  BY <1>5, <1>7, <1>8, <1>9
<1> HIDE DEF w
<1>11. ~Overflows(e)
  BY <1>8, <1>10 DEF Overflows
<1> QED
  BY <1>3, <1>11

\* history n runs the line shown at n, or the text of it that is shown.
LEMMA HistoryCommandRuns ==
  ASSUME HistoryInvariant, NEW n \in 1 .. history.count, HistoryCommand(n)
  PROVE  S!Again(n) \/ RerunsWhatIsShown
<1>1. PICK i : i = Index(history, n)
  OBVIOUS
<1>2. PICK e : e = history.commands[i] /\ e \in Entries /\ Remembered(n) = Text(e)
  BY <1>1, InvariantIs, EntryIs DEF Remembered, Text
<1>3. HistoryOK(history) /\ i \in 0 .. history.capacity - 1 /\ e.words \in Seq(Words)
  BY <1>1, <1>2, InvariantIs, EntryIs DEF Entries
<1>4. \/ mode' = "undefined" /\ (FreesItself(history, e, i) \/ Overflows(e))
      \/ /\ history' = [InsertHistory(history, e) EXCEPT !.commands[i].words = <<e.words[1]>>,
                                                        !.commands[i].redirect = "none"]
         /\ Runs(e)
  BY <1>1, <1>2 DEF HistoryCommand
<1>5. Runs(e) => S!Ran(Remembered(n))
  BY <1>2, <1>3, RunsIs
<1>6. CASE ~Harmless(n)
  BY <1>4, <1>5, <1>6 DEF RerunsWhatIsShown
<1>7. CASE Harmless(n)
  <2>1. IsLast(history, e) /\ ~Overflows(e)
    BY <1>1, <1>2, <1>7, HarmlessIs
  <2>2. InsertHistory(history, e) = history /\ ~FreesItself(history, e, i)
    BY <2>1 DEF InsertHistory, FreesItself
  <2>3. history' = Cut(history, i) /\ Runs(e)
    BY <1>2, <1>4, <2>1, <2>2 DEF Cut
  <2>4. Len(e.words) = 1 /\ e.redirect = "none" /\ e.words # <<>> /\ <<e.words[1]>> = e.words
    <3>1. Len(e.words) = 1 /\ e.redirect = "none"
      BY <1>2, <1>7 DEF Harmless, Text
    <3>2. e.words = [k \in 1 .. 1 |-> e.words[k]]
      BY <1>3, <3>1, ListIs
    <3> QED
      BY <1>3, <3>1, <3>2
  <2>5. /\ history'.capacity = history.capacity /\ history'.count = history.count
        /\ \A k : Index(history', k) = Index(history, k)
        /\ \A j \in 0 .. history.capacity - 1 : j # i => history'.commands[j] = history.commands[j]
        /\ history'.commands[i].words = <<e.words[1]>> /\ history'.commands[i].redirect = "none"
    BY <1>2, <1>3, <2>3, <2>4, CutIs
  <2>6. Shown' = Shown
    <3>1. ASSUME NEW k \in 1 .. history.count
          PROVE  Text(history'.commands[Index(history', k)]) = Text(history.commands[Index(history, k)])
      <4>1. Index(history, k) \in 0 .. history.capacity - 1 /\ Index(history', k) = Index(history, k)
        BY <1>3, <2>5, EntryIs
      <4>2. CASE Index(history, k) = i
        BY <1>2, <2>4, <2>5, <4>1, <4>2 DEF Text
      <4>3. CASE Index(history, k) # i
        BY <2>5, <4>1, <4>3
      <4> QED
        BY <4>2, <4>3
    <3>2. ShownIn(history') = ShownIn(history)
      BY <2>5, <3>1 DEF ShownIn
    <3> QED
      BY <3>2, ShownIs
  <2>7. Local' = Local /\ env' = env
    BY DEF HistoryCommand, Local, GetShellVar, Places
  <2>8. S!Ran(Shown[n])
    BY <1>5, <2>3 DEF Shown
  <2> QED
    BY <2>5, <2>6, <2>7, <2>8 DEF S!Again, Local
<1> QED
  BY <1>6, <1>7

\* history set n keeps the youngest lines that fit.
LEMMA SetHistorySizeResizes ==
  ASSUME HistoryInvariant, NEW size \in Sizes, SetHistorySize(size)
  PROVE  S!Resize(size)
<1>1. /\ size \in Nat \ {0} /\ history' = Resized(history, size)
      /\ UNCHANGED <<shell_vars, env, ran>>
  BY WshSizes DEF SetHistorySize
<1>2. HistoryOK(history)
  BY InvariantIs
<1>3. /\ HistoryOK(history') /\ history'.capacity = size
      /\ history'.count = IF history.count < size THEN history.count ELSE size
      /\ \A n \in 1 .. history'.count :
           history'.commands[Index(history', n)] = history.commands[Index(history, n)]
  BY <1>1, <1>2, ResizedIs
<1>4. PICK l \in Seq(Typed), m \in Nat :
        l = Shown /\ m = history.count /\ Len(l) = m /\ \A n \in 1 .. m : l[n] = Text(history.commands[Index(history, n)])
  BY <1>2, ShownIs, ShownIsList DEF ShownIn
<1>5. PICK k \in Seq(Typed) :
        k = Shown' /\ Len(k) = history'.count
        /\ \A n \in 1 .. history'.count : k[n] = Text(history'.commands[Index(history', n)])
  BY <1>3, ShownIs, ShownIsList DEF ShownIn
<1>8. IF size >= Len(Shown) THEN Shown' = Shown
      ELSE Shown' \in {SubSeq(Shown, 1, size), SubSeq(Shown, Len(Shown) - size + 1, Len(Shown))}
  <2>1. CASE size >= m
    <3>1. Len(k) = m /\ \A n \in 1 .. m : k[n] = l[n]
      BY <1>1, <1>3, <1>4, <1>5, <2>1
    <3>2. k = l
      BY <1>4, <3>1
    <3> QED
      BY <1>4, <1>5, <2>1, <3>2
  <2>2. CASE size < m
    <3>1. Len(k) = size /\ \A n \in 1 .. size : k[n] = l[n]
      BY <1>1, <1>3, <1>4, <1>5, <2>2
    <3>2. PICK q \in Seq(Typed) : q = SubSeq(l, 1, size) /\ Len(q) = size /\ \A n \in 1 .. size : q[n] = l[n]
      <4>1. SubSeq(l, 1, size) = [n \in 1 .. size |-> l[n]]
        BY <1>1, <1>4, <2>2
      <4>2. \A n \in 1 .. size : l[n] \in Typed
        BY <1>1, <1>4, <2>2
      <4>3. [n \in 1 .. size |-> l[n]] \in Seq(Typed) /\ Len([n \in 1 .. size |-> l[n]]) = size
        BY <1>1, <4>2
      <4> QED
        BY <4>1, <4>3
    <3>3. k = q
      BY <3>1, <3>2
    <3> QED
      BY <1>1, <1>4, <1>5, <2>2, <3>2, <3>3
  <2> QED
    BY <1>1, <2>1, <2>2
<1>9. Local' = Local
  BY <1>1 DEF Local, GetShellVar, Places
<1> QED
  BY <1>1, <1>3, <1>8, <1>9 DEF S!Resize, Local

\* local and export set one variable to the value of the word, or nothing changes.
LEMMA AssignSets ==
  ASSUME HistoryInvariant, NEW x \in Names, NEW w \in Assigned,
         LocalCommand(x, w) \/ ExportCommand(x, w)
  PROVE  S!SNext \/ UNCHANGED Sees
<1>1. WshTypeOK /\ Expand(w) \in Values \cup {NotSet}
  BY InvariantIs, ExpandIs
<1>2. Shown' = Shown /\ history'.capacity = history.capacity /\ ran' = ran
  <2>1. history' = history /\ ran' = ran
    BY DEF LocalCommand, ExportCommand
  <2> QED
    BY <2>1, ShownIs
<1>3. CASE LocalCommand(x, w)
  <2>1. env' = env /\ (Local' = Local \/ Local' = [Local EXCEPT ![x] = Expand(w)])
    BY <1>1, <1>3, SetIs DEF LocalCommand
  <2>2. CASE Local' = Local
    BY <1>2, <2>1, <2>2 DEF Sees
  <2>3. CASE Local' = [Local EXCEPT ![x] = Expand(w)]
    <3>1. S!SetLocal(x, Expand(w))
      BY <1>2, <2>1, <2>3 DEF S!SetLocal, Local
    <3> QED
      BY <1>1, <3>1 DEF S!SNext
  <2> QED
    BY <2>1, <2>2, <2>3
<1>4. CASE ExportCommand(x, w)
  <2>1. Local' = Local
    BY <1>4 DEF ExportCommand, Local, GetShellVar, Places
  <2>2. CASE env' = env
    BY <1>2, <2>1, <2>2 DEF Sees
  <2>3. CASE env' = [env EXCEPT ![x] = Expand(w)]
    <3>1. S!SetExport(x, Expand(w))
      BY <1>2, <2>1, <2>3 DEF S!SetExport, Local
    <3> QED
      BY <1>1, <3>1 DEF S!SNext
  <2> QED
    BY <1>4, <2>2, <2>3 DEF ExportCommand
<1> QED
  BY <1>3, <1>4

\* Every step of the shell is a step of the session.
LEMMA StepIsASession ==
  HistoryInvariant /\ [Next]_vars => S!SNext \/ RerunsWhatIsShown \/ UNCHANGED Sees
<1> SUFFICES ASSUME HistoryInvariant, [Next]_vars
             PROVE  S!SNext \/ RerunsWhatIsShown \/ UNCHANGED Sees
  OBVIOUS
<1>1. ASSUME NEW line \in Lines, Command(line) PROVE S!SNext
  BY <1>1, CommandTypes DEF S!SNext
<1>2. ASSUME NEW n \in 1 .. history.count, HistoryCommand(n) PROVE S!SNext \/ RerunsWhatIsShown
  <2>1. n \in DOMAIN Shown
    BY <1>2 DEF Shown
  <2> QED
    BY <1>2, <2>1, HistoryCommandRuns DEF S!SNext
<1>3. ASSUME NEW size \in Sizes, SetHistorySize(size) PROVE S!SNext
  BY <1>3, SetHistorySizeResizes DEF S!SNext
<1>4. ASSUME NEW x \in Names, NEW w \in Assigned, LocalCommand(x, w) \/ ExportCommand(x, w)
      PROVE  S!SNext \/ UNCHANGED Sees
  BY <1>4, AssignSets
<1>5. CASE HistoryNothing \/ Exit \/ UNCHANGED vars
  <2>1. UNCHANGED <<history, shell_vars, env, ran>>
    BY <1>5 DEF HistoryNothing, Exit, vars
  <2>2. Local' = Local
    BY <2>1 DEF Local, GetShellVar, Places
  <2> QED
    BY <2>1, <2>2, ShownIs DEF Sees
<1> QED
  BY <1>1, <1>2, <1>3, <1>4, <1>5 DEF Next

\* The shell is a session: whatever is typed, set, resized or run again, but for re-runs
\* that change what is remembered.
THEOREM ShellImplementsSession == Spec => ImplementsSession
<1>1. HistoryInvariant /\ [Next]_vars
        => [S!SNext \/ RerunsWhatIsShown]_<<Shown, history.capacity, env, ran,
                                           [x \in Names |-> GetShellVar(x)]>>
  BY StepIsASession DEF Sees, Local
<1> QED
  BY <1>1, HistoryExact, PTL DEF Spec, ImplementsSession
=============================================================================
