---------------------------- MODULE StrideProofs ----------------------------
(***************************************************************************)
(* StrideInvariant is inductive, virtual time runs forward and turns are   *)
(* proportional, for tables of every size and any programs.                *)
(***************************************************************************)
EXTENDS StrideProperties, FiniteSetTheorems, TLAPS

-----------------------------------------------------------------------------
(* Sums over finite sets.  A sum is a recursive function on the subsets of  *)
(* a finite set.  What it is, is proved by induction: of the sets for       *)
(* which it is wrong, there would be a smallest one.                        *)

\* Of a family of subsets of a finite set, one has no other in it.
LEMMA SmallestSet ==
  ASSUME NEW S, IsFiniteSet(S), NEW B, B \subseteq SUBSET S, B # {}
  PROVE  \E U \in B : \A V \in B : V \subseteq U => V = U
<1>1. IsWellFoundedOn(StrictSubsetOrdering(S), SUBSET S)
  BY FS_StrictSubsetOrderingWellFounded, FS_FiniteSubsetsOfFinite
<1>2. PICK U \in B : \A V \in B : <<V, U>> \notin StrictSubsetOrdering(S)
  BY <1>1, WFMin
<1> QED
  BY <1>2 DEF StrictSubsetOrdering

\* The recursive function that SumFunctionOnSet is defined by, on the subsets of S.
First(s) == CHOOSE x \in s : TRUE
Sums(g, w, S) ==
  g = [s \in SUBSET S |-> IF s = {} THEN 0 ELSE w[First(s)] + g[s \ {First(s)}]]

\* The element a fold takes first is one of the set.
LEMMA FirstIn == \A s : s # {} => First(s) \in s
BY DEF First

\* One unfolding of a summing function.
LEMMA SumsAre ==
  ASSUME NEW g, NEW w, NEW S, Sums(g, w, S), NEW U, U \subseteq S
  PROVE  g[U] = IF U = {} THEN 0 ELSE w[First(U)] + g[U \ {First(U)}]
<1>1. g = [s \in SUBSET S |-> IF s = {} THEN 0 ELSE w[First(s)] + g[s \ {First(s)}]]
  BY DEF Sums
<1> DEFINE h == [s \in SUBSET S |-> IF s = {} THEN 0 ELSE w[First(s)] + g[s \ {First(s)}]]
<1>2. h[U] = IF U = {} THEN 0 ELSE w[First(U)] + g[U \ {First(U)}]
  OBVIOUS
<1>3. g[U] = h[U]
  <2> HIDE DEF h
  <2> QED
    BY <1>1 DEF h
<1> QED
  BY <1>2, <1>3

\* Two summing functions agree on the subsets both know; the proof takes a smallest set
\* on which they do not.
LEMMA SumsAgree ==
  ASSUME NEW S, IsFiniteSet(S), NEW T, NEW w, NEW g, NEW h, Sums(g, w, S), Sums(h, w, T), T \subseteq S
  PROVE  \A U \in SUBSET T : g[U] = h[U]
<1> DEFINE B == {U \in SUBSET T : g[U] # h[U]}
<1> SUFFICES ASSUME B # {} PROVE FALSE
  OBVIOUS
<1>0. B \subseteq SUBSET S
  OBVIOUS
<1>1. PICK U \in B : \A V \in B : V \subseteq U => V = U
  <2> HIDE DEF B
  <2> QED
    BY <1>0, SmallestSet
<1>2. U # {}
  BY <1>1, SumsAre
<1>3. First(U) \in U /\ U \ {First(U)} \in SUBSET T /\ U \ {First(U)} # U
  BY <1>2, FirstIn
<1>4. g[U \ {First(U)}] = h[U \ {First(U)}]
  BY <1>1, <1>3
<1>5. g[U] = w[First(U)] + g[U \ {First(U)}]
  <2>1. U \subseteq S
    OBVIOUS
  <2>2. g[U] = IF U = {} THEN 0 ELSE w[First(U)] + g[U \ {First(U)}]
    BY <2>1, SumsAre, ZenonT(30)
  <2> QED
    BY <1>2, <2>2
<1>6. h[U] = w[First(U)] + h[U \ {First(U)}]
  BY <1>2, SumsAre
<1> QED
  BY <1>4, <1>5, <1>6

\* Every finite set has a summing function, as a smallest set without one would not be
\* empty.
LEMMA SumsExist ==
  ASSUME NEW S, IsFiniteSet(S), NEW w
  PROVE  \E g : Sums(g, w, S)
<1> DEFINE B == {U \in SUBSET S : \A g : ~Sums(g, w, U)}
<1> SUFFICES ASSUME B # {} PROVE FALSE
  OBVIOUS
<1>1. PICK U \in B : \A V \in B : V \subseteq U => V = U
  <2>1. B \subseteq SUBSET S
    OBVIOUS
  <2> HIDE DEF B
  <2> QED
    BY <2>1, SmallestSet
<1> DEFINE G(V) == CHOOSE g : Sums(g, w, V)
           h == [V \in SUBSET U |-> IF V = {} THEN 0
                                    ELSE w[First(V)] + G(V \ {First(V)})[V \ {First(V)}]]
<1>2. ASSUME NEW V \in SUBSET U, V # U PROVE Sums(G(V), w, V)
  <2>1. \E g : Sums(g, w, V)
    BY <1>1, <1>2
  <2> QED
    BY <2>1
<1>3. ASSUME NEW V \in SUBSET U, V # U PROVE G(V)[V] = h[V]
  <2>1. Sums(G(V), w, V) /\ IsFiniteSet(V)
    BY <1>2, <1>3, FS_Subset
  <2> HIDE DEF G
  <2>2. CASE V = {}
    BY <2>1, <2>2, SumsAre
  <2>3. CASE V # {}
    <3> DEFINE W == V \ {First(V)}
    <3>1. First(V) \in V /\ W \in SUBSET U /\ W # U /\ W \subseteq V
      BY <2>3, FirstIn
    <3>2. Sums(G(W), w, W)
      BY <1>2, <3>1
    <3> HIDE DEF W
    <3>3. G(V)[W] = G(W)[W]
      BY <2>1, <3>1, <3>2, SumsAgree
    <3>4. G(V)[V] = w[First(V)] + G(V)[W]
      BY <2>1, <2>3, SumsAre DEF W
    <3>5. h[V] = w[First(V)] + G(W)[W]
      BY <2>3 DEF W
    <3> QED
      BY <3>3, <3>4, <3>5
  <2> QED
    BY <2>2, <2>3
<1>4. ASSUME NEW V \in SUBSET U
      PROVE  h[V] = IF V = {} THEN 0 ELSE w[First(V)] + h[V \ {First(V)}]
  <2>1. CASE V = {}
    BY <2>1
  <2>2. CASE V # {}
    <3>1. V \ {First(V)} \in SUBSET U /\ V \ {First(V)} # U
      BY <2>2, FirstIn
    <3>2. G(V \ {First(V)})[V \ {First(V)}] = h[V \ {First(V)}]
      BY <1>3, <3>1
    <3>3. h[V] = w[First(V)] + G(V \ {First(V)})[V \ {First(V)}]
      BY <2>2
    <3> HIDE DEF h, G
    <3> QED
      BY <2>2, <3>2, <3>3
  <2> QED
    BY <2>1, <2>2
<1>5. Sums(h, w, U)
  <2>1. h = [V \in SUBSET U |-> h[V]]
    OBVIOUS
  <2> HIDE DEF h
  <2> QED
    BY <1>4, <2>1 DEF Sums
<1> QED
  BY <1>1, <1>5

\* SumFunctionOnSet as such a function.
LEMMA SumIs ==
  ASSUME NEW S, IsFiniteSet(S), NEW w
  PROVE  \E g : Sums(g, w, S) /\ SumFunctionOnSet(w, S) = g[S]
<1> DEFINE F(g) == g = [s \in SUBSET S |-> IF s = {} THEN 0 ELSE w[First(s)] + g[s \ {First(s)}]]
<1>1. \E g : F(g)
  <2>1. PICK g : Sums(g, w, S)
    BY SumsExist
  <2>2. F(g)
    BY <2>1 DEF Sums
  <2> HIDE DEF F
  <2> QED
    BY <2>2
<1>2. F(CHOOSE g : F(g))
  <2> HIDE DEF F
  <2> QED
    BY <1>1
<1>3. SumFunctionOnSet(w, S) = (CHOOSE g : F(g))[S]
  BY DEF SumFunctionOnSet, FoldFunctionOnSet, MapThenFoldSet, First
<1> QED
  BY <1>2, <1>3 DEF Sums

\* A sum of natural numbers is one, and none of them is more.
LEMMA SumOfNaturals ==
  ASSUME NEW S, IsFiniteSet(S), NEW w, \A p \in S : w[p] \in Nat
  PROVE  /\ SumFunctionOnSet(w, S) \in Nat
         /\ \A p \in S : w[p] <= SumFunctionOnSet(w, S)
<1>1. PICK g : Sums(g, w, S) /\ SumFunctionOnSet(w, S) = g[S]
  BY SumIs
<1> DEFINE Good(U) == g[U] \in Nat /\ \A p \in U : w[p] <= g[U]
           B == {U \in SUBSET S : ~Good(U)}
<1> SUFFICES ASSUME B # {} PROVE FALSE
  BY <1>1
<1>2. PICK U \in B : \A V \in B : V \subseteq U => V = U
  <2>1. B \subseteq SUBSET S
    OBVIOUS
  <2> HIDE DEF B
  <2> QED
    BY <2>1, SmallestSet
<1>3. g[U] = IF U = {} THEN 0 ELSE w[First(U)] + g[U \ {First(U)}]
  BY <1>1, SumsAre
<1>4. U # {}
  BY <1>3
<1>5. First(U) \in U /\ U \ {First(U)} \in SUBSET S /\ U \ {First(U)} # U
  BY <1>4, FirstIn
<1>6. Good(U \ {First(U)})
  BY <1>2, <1>5
<1>7. w[First(U)] \in Nat /\ g[U] = w[First(U)] + g[U \ {First(U)}]
  BY <1>3, <1>4, <1>5
<1>8. Good(U)
  BY <1>6, <1>7
<1> QED
  BY <1>8

\* The sum over one element is its weight.
LEMMA SumOfOne ==
  ASSUME NEW x, NEW w, w[x] \in Nat
  PROVE  SumFunctionOnSet(w, {x}) = w[x]
<1>1. PICK g : Sums(g, w, {x}) /\ SumFunctionOnSet(w, {x}) = g[{x}]
  BY SumIs, FS_Singleton
<1>2. g[{x}] = IF {x} = {} THEN 0 ELSE w[First({x})] + g[{x} \ {First({x})}]
  <2>1. {x} \in SUBSET {x} /\ IsFiniteSet({x})
    BY FS_Singleton
  <2> QED
    BY <1>1, <2>1, SumsAre, Zenon
<1>3. First({x}) = x /\ {x} \ {First({x})} = {}
  BY FirstIn
<1>4. g[{}] = 0
  BY <1>1, SumsAre
<1> QED
  BY <1>1, <1>2, <1>3, <1>4

\* Min finds the smallest of a set of numbers.
LEMMA MinIsIn ==
  ASSUME NEW S, S \subseteq Nat, S # {}
  PROVE  Min(S) \in S /\ \A y \in S : Min(S) <= y
<1>1. PICK m \in S : TRUE
  OBVIOUS
<1> DEFINE B == {0 .. k : k \in {j \in S : j <= m}}
<1>2. IsFiniteSet(0 .. m) /\ B \subseteq SUBSET (0 .. m) /\ B # {}
  <2>1. m \in Nat /\ IsFiniteSet(0 .. m)
    BY <1>1, FS_Interval
  <2>2. \A k \in S : k <= m => 0 .. k \subseteq 0 .. m
    BY <2>1
  <2>3. m <= m
    BY <2>1
  <2> QED
    BY <2>1, <2>2, <2>3
<1>3. PICK U \in B : \A V \in B : V \subseteq U => V = U
  <2> DEFINE I == 0 .. m
  <2>1. IsFiniteSet(I) /\ B \subseteq SUBSET I /\ B # {}
    BY <1>2
  <2> HIDE DEF B, I
  <2> QED
    BY <2>1, SmallestSet
<1>4. PICK k \in S : U = 0 .. k /\ k <= m
  OBVIOUS
<1>5. ASSUME NEW y \in S PROVE k <= y
  <2>1. k \in Nat /\ y \in Nat /\ m \in Nat
    BY <1>1
  <2>2. ASSUME y < k PROVE FALSE
    <3>1. 0 .. y \subseteq 0 .. k /\ 0 .. y # 0 .. k /\ y <= m
      BY <1>4, <2>1, <2>2
    <3> QED
      BY <1>3, <1>4, <3>1
  <2> QED
    BY <2>1, <2>2
<1> QED
  BY <1>5 DEF Min

-----------------------------------------------------------------------------
(* Divisions.                                                               *)
LEMMA DivFacts ==
  ASSUME NEW a \in Nat, NEW b \in Nat \ {0}
  PROVE  a \div b \in Nat /\ (a >= b => a \div b >= 1)
<1> DEFINE q == a \div b
           m == a % b
<1>1. q \in Nat /\ m \in 0 .. b - 1 /\ a = b * q + m
  BY SMT
<1> HIDE DEF q, m
<1>2. q = 0 => a < b
  <2>1. ASSUME q = 0 PROVE a < b
    <3>1. b * q = 0
      BY <2>1
    <3> QED
      BY <1>1, <3>1
  <2> QED
    BY <2>1
<1> QED
  BY <1>1, <1>2 DEF q

\* The stride of a process is at least 1, as tickets are never more than STRIDE1.
LEMMA StrideFacts ==
  ASSUME NEW t \in 1 .. MostTickets
  PROVE  Stride1 \div t \in Nat /\ Stride1 \div t >= 1
<1>1. t \in Nat \ {0} /\ Stride1 \in Nat /\ Stride1 >= t
  BY StrideSizes DEF MostTickets
<1> QED
  BY <1>1, DivFacts

\* C's division yields an integer, and no negative one of operands that are not
\* negative.
LEMMA QuotientFacts ==
  ASSUME NEW a \in Int, NEW b \in Int, b # 0
  PROVE  Quotient(a, b) \in Int /\ (a >= 0 /\ b > 0 => Quotient(a, b) >= 0)
<1>1. PICK c \in Nat : c = Magnitude(a)
  BY DEF Magnitude
<1>2. PICK d \in Nat \ {0} : d = Magnitude(b)
  BY DEF Magnitude
<1>3. PICK q \in Nat : q = c \div d
  BY DivFacts
<1>4. Quotient(a, b) = IF a < 0 <=> b < 0 THEN q ELSE -q
  BY <1>1, <1>2, <1>3 DEF Quotient
<1> QED
  BY <1>4

\* A new total of tickets gives a stride that is not negative and leaves the pass alone.
LEMMA WithTicketsFacts ==
  ASSUME NEW t \in Int, global \in [tickets : Int, stride : Int, pass : Int]
  PROVE  /\ WithTickets(t) \in [tickets : Int, stride : Int, pass : Int]
         /\ WithTickets(t).tickets = t /\ WithTickets(t).stride >= 0
         /\ WithTickets(t).pass = global.pass
<1>1. Share(t) \in Int /\ Share(t) >= 0
  <2>1. CASE t > 0
    <3>1. t \in Nat \ {0} /\ Stride1 \in Nat
      BY <2>1, StrideSizes
    <3> QED
      BY <2>1, <3>1, DivFacts DEF Share
  <2>2. CASE ~(t > 0)
    BY <2>2 DEF Share
  <2> QED
    BY <2>1, <2>2
<1> QED
  BY <1>1 DEF WithTickets

\* The slots are finitely many numbers, and the number of no process is none of them.
LEMMA SlotFacts ==
  /\ IsFiniteSet(Slots) /\ NoProc \notin Slots /\ NoProc \in Nat /\ Slots \subseteq Nat
  /\ InitSlot \in Slots
<1>1. NPROC \in Nat \ {0}
  BY StrideSizes
<1>2. IsFiniteSet(Slots)
  BY <1>1, FS_Interval DEF Slots
<1> QED
  BY <1>1, <1>2 DEF Slots, NoProc, InitSlot

-----------------------------------------------------------------------------
(* The inductive invariant, and what does not disturb its parts.            *)
IInv == StrideInvariant /\ ProportionalTurns

\* The total of the runnable processes' tickets is at least the tickets of each.
LEMMA TicketsFacts ==
  ASSUME StrideTypeOK
  PROVE  /\ TicketsOf(In("RUNNABLE")) \in Nat
         /\ \A p \in In("RUNNABLE") : proc[p].tickets >= 1 /\ proc[p].tickets <= TicketsOf(In("RUNNABLE"))
<1> DEFINE w == [p \in Slots |-> proc[p].tickets]
           S == In("RUNNABLE")
<1>1. S \subseteq Slots /\ IsFiniteSet(S)
  BY SlotFacts, FS_Subset DEF In
<1>2. \A p \in S : w[p] \in Nat /\ w[p] = proc[p].tickets
  <2>1. \A p \in Slots : proc[p] \in Proc
    BY DEF StrideTypeOK
  <2>2. \A p \in Slots : proc[p].tickets \in Nat
    BY <2>1 DEF Proc, MostTickets
  <2>3. \A p \in Slots : w[p] = proc[p].tickets
    OBVIOUS
  <2> HIDE DEF w, S
  <2> QED
    BY <1>1, <2>2, <2>3
<1>3. \A p \in S : proc[p].tickets >= 1
  BY DEF StrideTypeOK, In
<1>4. SumFunctionOnSet(w, S) \in Nat /\ \A p \in S : w[p] <= SumFunctionOnSet(w, S)
  <2> HIDE DEF w, S
  <2> QED
    BY <1>1, <1>2, SumOfNaturals
<1>5. TicketsOf(S) = SumFunctionOnSet(w, S)
  BY DEF TicketsOf
<1> QED
  BY <1>2, <1>3, <1>4, <1>5

\* The update of the globals keeps their types and counts every runnable process, and no
\* slot reused, it moves the pass forward only.
LEMMA UpdatedFacts ==
  ASSUME StrideTypeOK, TicketsKnown
  PROVE  /\ Updated \in [tickets : Int, stride : Int, pass : Int]
         /\ \A p \in In("RUNNABLE") : proc[p].tickets <= Updated.tickets
         /\ ~reused => Updated.stride >= 0 /\ Updated.pass >= global.pass
<1>1. /\ TicketsOf(In("RUNNABLE")) \in Nat
      /\ \A p \in In("RUNNABLE") : proc[p].tickets >= 1 /\ proc[p].tickets <= TicketsOf(In("RUNNABLE"))
  BY TicketsFacts
<1>2. PICK t \in Nat : t = TicketsOf(In("RUNNABLE"))
  BY <1>1
<1>3. global \in [tickets : Int, stride : Int, pass : Int] /\ \A p \in Slots : proc[p].tickets \in Nat
  BY SMTT(30) DEF StrideTypeOK, Proc, MostTickets
<1>4. CASE t > 0
  <2>1. Stride1 \div t \in Nat
    BY <1>4, StrideSizes, DivFacts
  <2>2. Updated = [tickets |-> t, stride |-> Stride1 \div t, pass |-> global.pass + Stride1 \div t]
    BY <1>2, <1>4 DEF Updated
  <2>3. PICK d \in Nat : d = Stride1 \div t
    BY <2>1
  <2> QED
    BY <1>1, <1>2, <1>3, <2>2, <2>3
<1>5. CASE t = 0
  <2>1. Updated = [global EXCEPT !.tickets = 0]
    BY <1>2, <1>5 DEF Updated
  <2>2. In("RUNNABLE") = {}
    <3>1. \A p \in In("RUNNABLE") : proc[p].tickets \in Nat
      BY <1>3 DEF In
    <3>2. ASSUME NEW p \in In("RUNNABLE") PROVE FALSE
      <4>1. PICK n \in Nat : n = proc[p].tickets
        BY <3>1
      <4> QED
        BY <1>1, <1>2, <1>5, <4>1
    <3> QED
      BY <3>2
  <2> QED
    BY <1>3, <2>1, <2>2 DEF TicketsKnown
<1> QED
  BY <1>4, <1>5

\* A slot that no fork has a hand on stays so.
LEMMA ForksFrame ==
  ASSUME ForksKnown, reused' = reused,
         \A r \in Slots : proc[r].state \in {"EMBRYO", "UNUSED"} =>
           proc'[r].state = proc[r].state /\ proc'[r].tickets = proc[r].tickets,
         \A p \in Slots : call'[p].at \in {"fork", "failed"} => call'[p] = call[p]
  PROVE  ForksKnown'
BY DEF ForksKnown

\* The counts that stay are of processes that stay as they are.
Same(r) ==
  /\ proc'[r].pass = proc[r].pass /\ proc'[r].stride = proc[r].stride
  /\ proc'[r].state = proc[r].state /\ (running' = r <=> running = r)

\* What is known of the turns stays known of the pairs a step leaves alone.
LEMMA TurnsFrame ==
  ASSUME TurnsKnown, ProportionalTurns, NoCount \notin Nat,
         turns' \in [Slots -> [Slots -> Nat \cup {NoCount}]],
         \A p, q \in Slots : turns'[p][q] # NoCount =>
           turns'[p][q] = turns[p][q] /\ Same(p) /\ Same(q)
  PROVE  TurnsKnown' /\ ProportionalTurns'
<1>1. ASSUME NEW p \in Slots, NEW q \in Slots, turns'[p][q] # NoCount
      PROVE  /\ p # q /\ {proc'[p].state, proc'[q].state} \subseteq {"RUNNABLE", "RUNNING"}
             /\ running' = p => turns'[p][q] = 0
             /\ running' = q => turns'[p][q] > 0
             /\ proc'[q].pass >= DispatchedAt(p)' + Finished(p, q)' * proc'[q].stride
  <2>1. DispatchedAt(p)' = DispatchedAt(p) /\ Finished(p, q)' = Finished(p, q)
    BY <1>1 DEF DispatchedAt, Finished, Same
  <2> QED
    BY <1>1, <2>1 DEF TurnsKnown, Same
<1>2. ASSUME NEW p \in Slots, NEW q \in Slots, turns'[p][q] > 0
      PROVE  (turns'[p][q] - 1) * proc'[q].stride <= proc'[p].stride
  <2>1. turns'[p][q] # NoCount
    BY <1>2 DEF NoCount
  <2> QED
    BY <1>2, <2>1 DEF ProportionalTurns, Same
<1> QED
  BY <1>1, <1>2 DEF TurnsKnown, ProportionalTurns

\* Who is neither runnable nor running has no counts.
LEMMA CountsRun ==
  ASSUME TurnsKnown, NEW p \in Slots, NEW q \in Slots, turns[p][q] # NoCount
  PROVE  proc[p].state \in {"RUNNABLE", "RUNNING"} /\ proc[q].state \in {"RUNNABLE", "RUNNING"} /\ p # q
BY DEF TurnsKnown

\* Forgetting a process leaves only counts of other processes.
LEMMA Forgotten ==
  ASSUME StrideTypeOK, NEW p \in Slots, Forget(p)
  PROVE  /\ turns' \in [Slots -> [Slots -> Nat \cup {NoCount}]]
         /\ \A q, r \in Slots : turns'[q][r] # NoCount =>
              turns'[q][r] = turns[q][r] /\ q # p /\ r # p
BY DEF Forget, StrideTypeOK

\* What the fields of a process are.
LEMMA Fields ==
  ASSUME StrideTypeOK, NEW p \in Slots
  PROVE  /\ proc[p] \in Proc /\ call[p] \in Call
         /\ proc[p].tickets \in Nat /\ proc[p].tickets <= MostTickets /\ proc[p].stride \in Nat
         /\ proc[p].pass \in Int /\ proc[p].runTicks \in Nat
         /\ proc[p].state # "UNUSED" =>
              proc[p].tickets \in 1 .. MostTickets /\ proc[p].stride = Stride1 \div proc[p].tickets
<1>1. proc[p] \in Proc /\ call[p] \in Call
  BY DEF StrideTypeOK
<1>2. proc[p].tickets \in 0 .. MostTickets /\ proc[p].stride \in Nat /\ proc[p].pass \in Int
      /\ proc[p].runTicks \in Nat
  BY <1>1 DEF Proc
<1>3. proc[p].state # "UNUSED" =>
        proc[p].tickets >= 1 /\ proc[p].stride = Stride1 \div proc[p].tickets
  BY DEF StrideTypeOK
<1> QED
  BY <1>1, <1>2, <1>3 DEF MostTickets

\* The types, from those of what a step assigns.
LEMMA TypesKept ==
  ASSUME StrideTypeOK, proc' \in [Slots -> Proc], call' \in [Slots -> Call],
         global' \in [tickets : Int, stride : Int, pass : Int],
         running' \in Slots \cup {NoProc}, nextpid' \in Nat, {fault', reused'} \subseteq BOOLEAN,
         turns' \in [Slots -> [Slots -> Nat \cup {NoCount}]],
         \A r \in Slots : proc'[r].state # "UNUSED" =>
           /\ proc[r].state # "UNUSED"
           /\ proc'[r].tickets = proc[r].tickets /\ proc'[r].stride = proc[r].stride,
         \A r \in Slots : proc'[r].state = "RUNNING" <=> running' = r
  PROVE  StrideTypeOK'
BY DEF StrideTypeOK

\* While no tickets change hands, the global keeps enough of them.
LEMMA TicketsKept ==
  ASSUME StrideTypeOK, TicketsKnown, global' = global, reused' = reused,
         \/ running' = NoProc
         \/ /\ running' = running
            /\ \A p \in Slots : running = p =>
                 /\ proc'[p].tickets = proc[p].tickets
                 /\ call'[p].at \in {"fork", "failed"} => call[p].at \in {"fork", "failed"}
  PROVE  TicketsKnown'
<1>1. CASE running' = NoProc
  BY <1>1 DEF TicketsKnown
<1>2. CASE running' = running /\ running # NoProc
  <2>1. PICK p \in Slots : p = running
    BY <1>2 DEF StrideTypeOK
  <2>2. proc[p].tickets \in Nat /\ global.tickets \in Int
    BY Fields DEF StrideTypeOK
  <2> QED
    BY <1>2, <2>1, <2>2 DEF TicketsKnown, DefaultTickets
<1> QED
  BY <1>1, <1>2

\* A forgotten count is no number of turns.
LEMMA NoCountIsNone == NoCount \notin Nat
BY DEF NoCount

\* Without counts of processes that change, the counts stay as they are.
LEMMA TurnsKept ==
  ASSUME IInv, turns' = turns,
         \A r \in Slots : proc[r].state \in {"RUNNABLE", "RUNNING"} => Same(r)
  PROVE  TurnsKnown' /\ ProportionalTurns'
<1>1. ASSUME NEW p \in Slots, NEW q \in Slots, turns'[p][q] # NoCount
      PROVE  turns'[p][q] = turns[p][q] /\ Same(p) /\ Same(q)
  <2>1. proc[p].state \in {"RUNNABLE", "RUNNING"} /\ proc[q].state \in {"RUNNABLE", "RUNNING"}
    BY <1>1, CountsRun DEF IInv, StrideInvariant
  <2> QED
    BY <2>1
<1>2. turns' \in [Slots -> [Slots -> Nat \cup {NoCount}]]
  BY DEF IInv, StrideInvariant, StrideTypeOK
<1> QED
  BY <1>1, <1>2, TurnsFrame, NoCountIsNone DEF IInv, StrideInvariant

\* The counts that a process which stops running leaves behind.
LEMMA TurnsForgotten ==
  ASSUME IInv, NEW p \in Slots, Forget(p),
         \A r \in Slots \ {p} : proc[r].state \in {"RUNNABLE", "RUNNING"} => Same(r)
  PROVE  TurnsKnown' /\ ProportionalTurns'
<1>1. /\ turns' \in [Slots -> [Slots -> Nat \cup {NoCount}]]
      /\ \A q, r \in Slots : turns'[q][r] # NoCount =>
           turns'[q][r] = turns[q][r] /\ q # p /\ r # p
  BY Forgotten DEF IInv, StrideInvariant
<1>2. ASSUME NEW q \in Slots, NEW r \in Slots, turns'[q][r] # NoCount
      PROVE  turns'[q][r] = turns[q][r] /\ Same(q) /\ Same(r)
  <2>1. turns'[q][r] = turns[q][r] /\ q # p /\ r # p
    BY <1>1, <1>2
  <2>2. proc[q].state \in {"RUNNABLE", "RUNNING"} /\ proc[r].state \in {"RUNNABLE", "RUNNING"}
    BY <1>2, <2>1, CountsRun DEF IInv, StrideInvariant
  <2> QED
    BY <2>1, <2>2
<1> QED
  BY <1>1, <1>2, TurnsFrame, NoCountIsNone DEF IInv, StrideInvariant

\* A process that gives up the CPU advances its own pass by its own stride and nothing
\* else.
LEMMA LeavesIs ==
  ASSUME NEW table \in [Slots -> Proc], NEW p \in Slots, NEW s \in {"RUNNABLE", "SLEEPING", "ZOMBIE"}
  PROVE  /\ Leaves(table, p, s) \in [Slots -> Proc]
         /\ \A r \in Slots \ {p} : Leaves(table, p, s)[r] = table[r]
         /\ Leaves(table, p, s)[p].state = s
         /\ Leaves(table, p, s)[p].tickets = table[p].tickets
         /\ Leaves(table, p, s)[p].stride = table[p].stride
         /\ Leaves(table, p, s)[p].pass = table[p].pass + table[p].stride
<1>1. table[p] \in Proc /\ table[p].runTicks + 1 \in Nat /\ table[p].pass + table[p].stride \in Int
  BY DEF Proc
<1>2. PICK x \in Nat, y \in Int : x = table[p].runTicks + 1 /\ y = table[p].pass + table[p].stride
  BY <1>1
<1>3. Leaves(table, p, s) = [table EXCEPT ![p].state = s, ![p].runTicks = x, ![p].pass = y]
  BY <1>2 DEF Leaves
<1> QED
  BY <1>1, <1>2, <1>3 DEF Proc

\* A wakeup makes sleepers runnable and leaves tickets and strides alone.
LEMMA WakeUpIs ==
  ASSUME StrideTypeOK, NEW table \in [Slots -> Proc], NEW S
  PROVE  /\ WakeUp(table, S) \in [Slots -> Proc]
         /\ \A r \in Slots :
              /\ table[r].state # "SLEEPING" => WakeUp(table, S)[r] = table[r]
              /\ WakeUp(table, S)[r].state # table[r].state =>
                   table[r].state = "SLEEPING" /\ WakeUp(table, S)[r].state = "RUNNABLE"
              /\ WakeUp(table, S)[r].tickets = table[r].tickets
              /\ WakeUp(table, S)[r].stride = table[r].stride
<1>1. global.pass \in Int
  BY DEF StrideTypeOK
<1>2. \A r \in Slots : [table[r] EXCEPT !.state = "RUNNABLE", !.pass = global.pass] \in Proc
  BY <1>1 DEF Proc
<1> QED
  BY <1>2 DEF WakeUp, Proc

-----------------------------------------------------------------------------
(* The scheduler.                                                           *)
LEMMA AdvanceIs ==
  ASSUME IInv, Advance
  PROVE  /\ global' \in [tickets : Int, stride : Int, pass : Int]
         /\ \A p \in In("RUNNABLE") : proc[p].tickets <= global'.tickets
         /\ ~reused => global'.stride >= 0 /\ global'.pass >= global.pass
<1>1. PICK u \in [tickets : Int, stride : Int, pass : Int] : u = Updated
  BY UpdatedFacts DEF IInv, StrideInvariant
<1>2. /\ \A p \in In("RUNNABLE") : proc[p].tickets <= u.tickets
      /\ ~reused => u.stride >= 0 /\ u.pass >= global.pass
  BY <1>1, UpdatedFacts DEF IInv, StrideInvariant
<1>3. global' = [u EXCEPT !.pass = u.pass + u.stride]
  BY <1>1 DEF Advance
<1>4. global.pass \in Int
  BY DEF IInv, StrideInvariant, StrideTypeOK
<1> QED
  BY <1>1, <1>2, <1>3, <1>4

\* Dispatch keeps the invariant.
LEMMA DispatchKeeps ==
  ASSUME IInv, Dispatch
  PROVE  IInv'
<1>1. PICK p \in In("RUNNABLE") :
        /\ \A q \in In("RUNNABLE") \ {p} : GoesBefore(p, q)
        /\ running' = p
        /\ proc' = [proc EXCEPT ![p].state = "RUNNING"]
        /\ turns' = [q \in Slots |-> [r \in Slots |->
             CASE q = p -> IF r \in In("RUNNABLE") \ {p} THEN 0 ELSE NoCount
               [] q # p /\ r = p /\ turns[q][p] # NoCount -> turns[q][p] + 1
               [] OTHER -> turns[q][r]]]
  BY DEF Dispatch
<1>2. running = NoProc /\ UNCHANGED <<nextpid, call, fault, reused>> /\ Advance
  BY DEF Dispatch
<1>3. p \in Slots /\ proc[p].state = "RUNNABLE" /\ p # NoProc
  BY <1>1, SlotFacts DEF In
<1>4. /\ proc' \in [Slots -> Proc]
      /\ \A r \in Slots \ {p} : proc'[r] = proc[r]
      /\ proc'[p].state = "RUNNING" /\ proc'[p].tickets = proc[p].tickets
      /\ proc'[p].stride = proc[p].stride /\ proc'[p].pass = proc[p].pass
  <2>1. proc \in [Slots -> Proc] /\ proc[p] \in Proc
    BY <1>3 DEF IInv, StrideInvariant, StrideTypeOK
  <2>2. proc' = [proc EXCEPT ![p] = [proc[p] EXCEPT !.state = "RUNNING"]]
    BY <1>1
  <2>3. [proc[p] EXCEPT !.state = "RUNNING"] \in Proc
    BY <2>1 DEF Proc
  <2> QED
    BY <1>3, <2>1, <2>2, <2>3 DEF Proc
<1>5. \A r \in Slots : proc[r].state # "RUNNING"
  BY <1>2, SlotFacts DEF IInv, StrideInvariant, StrideTypeOK
<1>6. ASSUME NEW a \in Slots, NEW b \in Slots, turns'[a][b] # NoCount
      PROVE  \/ a = p /\ b # p /\ b \in In("RUNNABLE") /\ turns'[a][b] = 0
             \/ a # p /\ b = p /\ turns[a][b] # NoCount /\ turns'[a][b] = turns[a][b] + 1
             \/ a # p /\ b # p /\ turns[a][b] # NoCount /\ turns'[a][b] = turns[a][b]
  BY <1>1, <1>6 DEF IInv, StrideInvariant, StrideTypeOK
<1>7. turns' \in [Slots -> [Slots -> Nat \cup {NoCount}]]
  <2>1. \A q, r \in Slots : turns[q][r] \in Nat \cup {NoCount}
    BY DEF IInv, StrideInvariant, StrideTypeOK
  <2>2. \A q, r \in Slots : turns[q][r] # NoCount => turns[q][r] + 1 \in Nat
    BY <2>1
  <2> DEFINE t(q, r) == CASE q = p -> IF r \in In("RUNNABLE") \ {p} THEN 0 ELSE NoCount
                          [] q # p /\ r = p /\ turns[q][p] # NoCount -> turns[q][p] + 1
                          [] OTHER -> turns[q][r]
  <2>3. ASSUME NEW q \in Slots, NEW r \in Slots PROVE t(q, r) \in Nat \cup {NoCount}
    <3>1. CASE q = p
      BY <3>1
    <3>2. CASE q # p /\ r = p /\ turns[q][p] # NoCount
      BY <2>2, <3>2
    <3>3. CASE q # p /\ ~(r = p /\ turns[q][p] # NoCount)
      BY <2>1, <3>3
    <3> QED
      BY <3>1, <3>2, <3>3
  <2>4. turns' = [q \in Slots |-> [r \in Slots |-> t(q, r)]]
    BY <1>1
  <2> HIDE DEF t
  <2> QED
    BY <2>3, <2>4
<1>8. /\ global' \in [tickets : Int, stride : Int, pass : Int]
      /\ proc[p].tickets <= global'.tickets /\ (~reused => global'.stride >= 0)
  BY <1>1, <1>2, AdvanceIs
<1>9. StrideTypeOK'
  <2>1. \A r \in Slots : proc'[r].state = "RUNNING" <=> running' = r
    BY <1>1, <1>4, <1>5
  <2>2. \A r \in Slots : proc'[r].state # "UNUSED" =>
          /\ proc[r].state # "UNUSED"
          /\ proc'[r].tickets = proc[r].tickets /\ proc'[r].stride = proc[r].stride
    BY <1>3, <1>4
  <2>3. StrideTypeOK /\ running' \in Slots
    BY <1>1, <1>3 DEF IInv, StrideInvariant
  <2>4. call' \in [Slots -> Call] /\ nextpid' \in Nat /\ {fault', reused'} \subseteq BOOLEAN
    BY <1>2, <2>3 DEF StrideTypeOK
  <2> QED
    BY <1>4, <1>7, <1>8, <2>1, <2>2, <2>3, <2>4, TypesKept
<1>10. ForksKnown'
  BY <1>2, <1>3, <1>4, ForksFrame DEF IInv, StrideInvariant
<1>11. TicketsKnown'
  <2>1. PICK n \in Nat : n = proc[p].tickets
    BY <1>3, Fields DEF IInv, StrideInvariant
  <2>2. PICK g \in Int : g = global'.tickets
    BY <1>8
  <2> QED
    BY <1>1, <1>2, <1>4, <1>8, <2>1, <2>2 DEF TicketsKnown, DefaultTickets
<1>12. DividesByTickets'
  BY <1>2 DEF IInv, StrideInvariant, DividesByTickets
<1>13. ASSUME NEW q \in Slots, proc[q].state \in {"RUNNABLE", "RUNNING"}, q # p
       PROVE  q \in In("RUNNABLE") /\ proc[p].pass <= proc[q].pass
  <2>1. q \in In("RUNNABLE") \ {p}
    BY <1>5, <1>13 DEF In
  <2>2. GoesBefore(p, q)
    BY <1>1, <2>1
  <2>3. proc[p].pass \in Int /\ proc[q].pass \in Int
    BY <1>3, Fields DEF IInv, StrideInvariant
  <2> QED
    BY <2>1, <2>2, <2>3 DEF GoesBefore
<1>14. ASSUME NEW a \in Slots, NEW b \in Slots, turns'[a][b] # NoCount
       PROVE  /\ a # b /\ {proc'[a].state, proc'[b].state} \subseteq {"RUNNABLE", "RUNNING"}
              /\ running' = a => turns'[a][b] = 0
              /\ running' = b => turns'[a][b] > 0
              /\ proc'[b].pass >= DispatchedAt(a)' + Finished(a, b)' * proc'[b].stride
  <2>1. CASE a = p /\ b # p /\ b \in In("RUNNABLE") /\ turns'[a][b] = 0
    <3>1. proc[b].state = "RUNNABLE" /\ proc[p].pass <= proc[b].pass
      BY <1>13, <2>1 DEF In
    <3>2. DispatchedAt(a)' = proc[p].pass /\ Finished(a, b)' = 0
      BY <1>1, <1>4, <2>1 DEF DispatchedAt, Finished
    <3>3. proc[b].stride \in Nat /\ proc[b].pass \in Int /\ proc[p].pass \in Int
      BY <1>3, Fields DEF IInv, StrideInvariant
    <3>4. proc'[b].pass >= DispatchedAt(a)' + Finished(a, b)' * proc'[b].stride
      BY <1>4, <2>1, <3>1, <3>2, <3>3
    <3> QED
      BY <1>1, <1>4, <2>1, <3>1, <3>4
  <2>2. CASE a # p /\ turns[a][b] # NoCount
    <3>1. /\ a # b /\ {proc[a].state, proc[b].state} \subseteq {"RUNNABLE", "RUNNING"}
          /\ proc[b].pass >= DispatchedAt(a) + Finished(a, b) * proc[b].stride
      BY <2>2 DEF IInv, StrideInvariant, TurnsKnown
    <3>2. DispatchedAt(a)' = DispatchedAt(a)
      BY <1>1, <1>2, <1>4, <2>2, SlotFacts DEF DispatchedAt
    <3>3. turns[a][b] \in Nat
      BY <2>2 DEF IInv, StrideInvariant, StrideTypeOK
    <3>4. Finished(a, b)' = Finished(a, b)
      BY <1>1, <1>2, <1>6, <1>14, <2>2, <3>3, SlotFacts DEF Finished
    <3>5. proc'[b].pass = proc[b].pass /\ proc'[b].stride = proc[b].stride
          /\ proc'[a] = proc[a] /\ proc'[b].state \in {"RUNNABLE", "RUNNING"}
      BY <1>4, <2>2, <3>1
    <3>6. running' = b => turns'[a][b] > 0
      BY <1>1, <1>6, <1>14, <2>2, <3>3
    <3> QED
      BY <1>1, <2>2, <3>1, <3>2, <3>4, <3>5, <3>6
  <2> QED
    BY <1>6, <1>14, <2>1, <2>2
<1>15. ASSUME NEW a \in Slots, NEW b \in Slots, turns'[a][b] > 0
       PROVE  (turns'[a][b] - 1) * proc'[b].stride <= proc'[a].stride
  <2>1. turns'[a][b] # NoCount
    BY <1>15 DEF NoCount
  <2>2. proc'[a].stride = proc[a].stride /\ proc'[b].stride = proc[b].stride
    BY <1>4
  <2>3. CASE a # p /\ b = p /\ turns[a][b] # NoCount /\ turns'[a][b] = turns[a][b] + 1
    <3>1. proc[a].state \in {"RUNNABLE", "RUNNING"}
          /\ proc[p].pass >= DispatchedAt(a) + Finished(a, p) * proc[p].stride
      BY <2>3 DEF IInv, StrideInvariant, TurnsKnown
    <3>2. proc[p].pass <= proc[a].pass
      BY <1>13, <2>3, <3>1
    <3>3. PICK k \in Nat : k = turns[a][p]
      BY <2>3 DEF IInv, StrideInvariant, StrideTypeOK
    <3>4. DispatchedAt(a) = proc[a].pass - proc[a].stride /\ Finished(a, p) = k
      BY <1>2, <1>3, <3>3, SlotFacts DEF DispatchedAt, Finished
    <3>5. PICK x \in Int, y \in Int, u \in Nat, v \in Nat :
            x = proc[a].pass /\ y = proc[p].pass /\ u = proc[a].stride /\ v = proc[p].stride
      BY <1>3, Fields DEF IInv, StrideInvariant
    <3>6. PICK m \in Nat : m = k * v
      OBVIOUS
    <3>7. m <= u
      BY <3>1, <3>2, <3>4, <3>5, <3>6
    <3>8. turns'[a][b] - 1 = k
      BY <2>3, <3>3
    <3> QED
      BY <2>2, <2>3, <3>5, <3>6, <3>7, <3>8
  <2>4. CASE turns[a][b] # NoCount /\ turns'[a][b] = turns[a][b]
    BY <1>15, <2>2, <2>4 DEF IInv, ProportionalTurns
  <2>5. CASE turns'[a][b] = 0
    BY <1>15, <2>5
  <2> QED
    BY <1>6, <2>1, <2>3, <2>4, <2>5
<1> QED
  BY <1>9, <1>10, <1>11, <1>12, <1>14, <1>15
  DEF IInv, StrideInvariant, TurnsKnown, ProportionalTurns

\* Idle keeps the invariant.
LEMMA IdleKeeps ==
  ASSUME IInv, Idle
  PROVE  IInv'
<1>1. running = NoProc /\ UNCHANGED <<proc, nextpid, running, call, fault, reused, turns>> /\ Advance
  BY DEF Idle
<1>2. global' \in [tickets : Int, stride : Int, pass : Int] /\ (~reused => global'.stride >= 0)
  BY <1>1, AdvanceIs
<1>3. StrideTypeOK'
  BY <1>1, <1>2 DEF IInv, StrideInvariant, StrideTypeOK
<1>4. ForksKnown' /\ TicketsKnown' /\ DividesByTickets'
  BY <1>1, <1>2 DEF IInv, StrideInvariant, ForksKnown, TicketsKnown, DividesByTickets
<1>5. TurnsKnown' /\ ProportionalTurns'
  BY <1>1, TurnsKept DEF Same
<1> QED
  BY <1>3, <1>4, <1>5 DEF IInv, StrideInvariant

\* Whoever leaves the CPU was the one that is RUNNING.
LEMMA RunsAlone ==
  ASSUME StrideTypeOK, NEW p \in Slots, running = p
  PROVE  proc[p].state = "RUNNING" /\ (\A r \in Slots \ {p} : proc[r].state # "RUNNING") /\ p # NoProc
BY SlotFacts DEF StrideTypeOK

\* Yield keeps the invariant.
LEMMA YieldKeeps ==
  ASSUME IInv, NEW p \in Slots, Yield(p)
  PROVE  IInv'
<1>1. /\ running = p /\ running' = NoProc /\ proc' = Leaves(proc, p, "RUNNABLE")
      /\ UNCHANGED <<nextpid, global, call, fault, reused, turns>>
  BY DEF Yield
<1>2. /\ proc' \in [Slots -> Proc]
      /\ \A r \in Slots \ {p} : proc'[r] = proc[r]
      /\ proc'[p].state = "RUNNABLE" /\ proc'[p].tickets = proc[p].tickets
      /\ proc'[p].stride = proc[p].stride /\ proc'[p].pass = proc[p].pass + proc[p].stride
  BY <1>1, LeavesIs DEF IInv, StrideInvariant, StrideTypeOK
<1>3. proc[p].state = "RUNNING" /\ (\A r \in Slots \ {p} : proc[r].state # "RUNNING") /\ p # NoProc
  BY <1>1, RunsAlone DEF IInv, StrideInvariant
<1>4. StrideTypeOK'
  <2>1. \A r \in Slots : proc'[r].state # "RUNNING" /\ running' # r
    BY <1>1, <1>2, <1>3, SlotFacts
  <2>2. \A r \in Slots : proc'[r].state # "UNUSED" =>
          /\ proc[r].state # "UNUSED"
          /\ proc'[r].tickets = proc[r].tickets /\ proc'[r].stride = proc[r].stride
    BY <1>2, <1>3
  <2>3. /\ global' \in [tickets : Int, stride : Int, pass : Int] /\ call' \in [Slots -> Call]
        /\ nextpid' \in Nat /\ {fault', reused'} \subseteq BOOLEAN
        /\ turns' \in [Slots -> [Slots -> Nat \cup {NoCount}]]
    BY <1>1 DEF IInv, StrideInvariant, StrideTypeOK
  <2> QED
    BY <1>1, <1>2, <2>1, <2>2, <2>3, TypesKept DEF IInv, StrideInvariant
<1>5. ForksKnown'
  BY <1>1, <1>2, <1>3, ForksFrame DEF IInv, StrideInvariant
<1>6. TicketsKnown' /\ DividesByTickets'
  BY <1>1, TicketsKept DEF IInv, StrideInvariant, DividesByTickets
<1>7. ASSUME NEW a \in Slots, NEW b \in Slots, turns'[a][b] # NoCount
      PROVE  /\ a # b /\ {proc'[a].state, proc'[b].state} \subseteq {"RUNNABLE", "RUNNING"}
             /\ running' = a => turns'[a][b] = 0
             /\ running' = b => turns'[a][b] > 0
             /\ proc'[b].pass >= DispatchedAt(a)' + Finished(a, b)' * proc'[b].stride
  <2>1. /\ a # b /\ {proc[a].state, proc[b].state} \subseteq {"RUNNABLE", "RUNNING"}
        /\ running = b => turns[a][b] > 0
        /\ proc[b].pass >= DispatchedAt(a) + Finished(a, b) * proc[b].stride
    BY <1>1, <1>7 DEF IInv, StrideInvariant, TurnsKnown
  <2>2. /\ proc[a].pass \in Int /\ proc[a].stride \in Nat /\ proc[b].pass \in Int
        /\ proc[b].stride \in Nat /\ turns[a][b] \in Nat
    BY <1>1, <1>7, Fields DEF IInv, StrideInvariant, StrideTypeOK
  <2>3. {proc'[a].state, proc'[b].state} \subseteq {"RUNNABLE", "RUNNING"}
    BY <1>2, <2>1
  <2>4. DispatchedAt(a)' = DispatchedAt(a) /\ DispatchedAt(a) \in Int
    <3>1. CASE a = p
      BY <1>1, <1>2, <1>3, <2>2, <3>1 DEF DispatchedAt
    <3>2. CASE a # p
      BY <1>1, <1>2, <2>2, <3>2, SlotFacts DEF DispatchedAt
    <3> QED
      BY <3>1, <3>2
  <2>5. PICK d \in Int, k \in Nat, v \in Nat, x \in Int :
          d = DispatchedAt(a) /\ k = turns[a][b] /\ v = proc[b].stride /\ x = proc[b].pass
    BY <2>2, <2>4
  <2>6. Finished(a, b)' = k
    BY <1>1, <2>5, SlotFacts DEF Finished
  <2>7. proc'[b].pass >= d + k * v /\ proc'[b].stride = v
    <3>1. CASE b = p
      <4>1. Finished(a, b) = k - 1 /\ proc'[b].pass = x + v /\ proc'[b].stride = v /\ k >= 1
        BY <1>1, <1>2, <2>1, <2>5, <3>1 DEF Finished
      <4>2. x >= d + (k - 1) * v
        BY <2>1, <2>5, <4>1
      <4>3. (k - 1) * v = k * v - v
        OBVIOUS
      <4>4. PICK m \in Nat : m = k * v
        OBVIOUS
      <4> QED
        BY <4>1, <4>2, <4>3, <4>4
    <3>2. CASE b # p
      BY <1>1, <1>2, <2>1, <2>5, <3>2 DEF Finished
    <3> QED
      BY <3>1, <3>2
  <2> QED
    BY <1>1, <2>1, <2>3, <2>4, <2>5, <2>6, <2>7, SlotFacts
<1>8. ProportionalTurns'
  <2>1. \A r \in Slots : proc'[r].stride = proc[r].stride
    BY <1>2
  <2> QED
    BY <1>1, <2>1 DEF IInv, ProportionalTurns
<1> QED
  BY <1>4, <1>5, <1>6, <1>7, <1>8 DEF IInv, StrideInvariant, TurnsKnown

\* A step that changes no tickets, neither touches what a fork has hold of nor starts a fork.
LEMMA Preserved ==
  ASSUME IInv, proc' \in [Slots -> Proc], call' \in [Slots -> Call],
         running' \in Slots \cup {NoProc}, UNCHANGED <<nextpid, fault, reused>>,
         global' \in [tickets : Int, stride : Int, pass : Int],
         turns' \in [Slots -> [Slots -> Nat \cup {NoCount}]],
         \A r \in Slots :
           /\ proc'[r].tickets = proc[r].tickets /\ proc'[r].stride = proc[r].stride
           /\ proc[r].state \in {"EMBRYO", "UNUSED"} => proc'[r].state = proc[r].state
           /\ proc'[r].state = "RUNNING" <=> running' = r
           /\ call'[r].at \in {"fork", "failed"} => call'[r] = call[r],
         TicketsKnown', TurnsKnown', ProportionalTurns'
  PROVE  IInv'
<1>1. StrideTypeOK'
  <2>1. StrideTypeOK /\ nextpid' \in Nat /\ {fault', reused'} \subseteq BOOLEAN
    BY DEF IInv, StrideInvariant, StrideTypeOK
  <2> QED
    BY <2>1, TypesKept
<1>2. ForksKnown'
  BY ForksFrame DEF IInv, StrideInvariant
<1>3. DividesByTickets'
  BY DEF IInv, StrideInvariant, DividesByTickets
<1> QED
  BY <1>1, <1>2, <1>3 DEF IInv, StrideInvariant

-----------------------------------------------------------------------------
(* fork.                                                                    *)
LEMMA AllocProcKeeps ==
  ASSUME IInv, NEW p \in Slots, AllocProc(p)
  PROVE  IInv'
<1>1. PICK q \in Slots : q = Min(In("UNUSED")) /\ proc[q].state = "UNUSED"
  <2>1. In("UNUSED") \subseteq Slots /\ In("UNUSED") # {}
    BY DEF AllocProc, In
  <2>2. Min(In("UNUSED")) \in In("UNUSED")
    BY <2>1, SlotFacts, MinIsIn
  <2> QED
    BY <2>2 DEF In
<1>2. PICK t : t = global.tickets + DefaultTickets
  OBVIOUS
<1>3. /\ running = p /\ call[p] = User /\ ~fault
      /\ proc' = [proc EXCEPT ![q] = [NewProc EXCEPT !.parent = proc[q].parent,
                                                     !.killed = proc[q].killed]]
      /\ call' = [call EXCEPT ![p] = [at |-> "fork", slot |-> q]]
      /\ reused' = (reused \/ \E r \in Slots : call[r] = [at |-> "failed", slot |-> q])
      /\ fault' = (t = 0)
      /\ global' = [global EXCEPT !.tickets = t,
                      !.stride = IF t = 0 THEN @ ELSE Quotient(Stride1, t)]
      /\ nextpid' = nextpid + 1 /\ UNCHANGED <<running, turns>>
  BY <1>1, <1>2 DEF AllocProc, CanCall
<1>4. proc[p].state = "RUNNING" /\ p # q /\ proc[p].tickets \in 1 .. MostTickets
  BY <1>1, <1>3, RunsAlone, Fields DEF IInv, StrideInvariant
<1>5. t \in Int /\ (~reused' => t >= proc[p].tickets)
  <2>1. global.tickets \in Int /\ proc[p].tickets \in Nat
    BY Fields DEF IInv, StrideInvariant, StrideTypeOK
  <2>2. ~reused' => global.tickets >= proc[p].tickets - DefaultTickets
    <3>0. reused => reused'
      BY <1>3, Zenon
    <3>1. (~reused' => ~reused) /\ running = p /\ p # NoProc /\ call[p].at = "user"
      BY <1>3, <3>0, SlotFacts DEF User
    <3>2. ~reused => global.tickets >= proc[p].tickets - DefaultTickets
      BY <3>1 DEF IInv, StrideInvariant, TicketsKnown
    <3> QED
      BY <3>1, <3>2
  <2> QED
    BY <1>2, <2>1, <2>2 DEF DefaultTickets
<1>6. ~reused' => t > 0
  BY <1>4, <1>5 DEF MostTickets
<1>7. /\ global' \in [tickets : Int, stride : Int, pass : Int]
      /\ global'.tickets = t /\ (~reused' => global'.stride >= 0)
  <2>1. global \in [tickets : Int, stride : Int, pass : Int] /\ Stride1 \in Nat
    BY StrideSizes DEF IInv, StrideInvariant, StrideTypeOK
  <2>2. CASE t = 0
    <3>1. PICK s \in Int : s = global.stride
      BY <2>1
    <3>2. global' = [global EXCEPT !.tickets = t, !.stride = s] /\ reused'
      BY <1>3, <1>6, <2>2, <3>1
    <3> QED
      BY <1>5, <2>1, <3>1, <3>2
  <2>3. CASE t # 0
    <3>1. PICK s \in Int : s = Quotient(Stride1, t) /\ (t > 0 => s >= 0)
      BY <1>5, <2>1, <2>3, QuotientFacts
    <3> QED
      BY <1>3, <1>5, <1>6, <2>1, <2>3, <3>1
  <2> QED
    BY <2>2, <2>3
<1>8. /\ proc' \in [Slots -> Proc]
      /\ \A r \in Slots \ {q} : proc'[r] = proc[r]
      /\ proc'[q].state = "EMBRYO" /\ proc'[q].tickets = DefaultTickets
      /\ proc'[q].stride = Stride1 \div DefaultTickets
  <2>1. DefaultTickets \in 1 .. MostTickets
    BY DEF DefaultTickets, MostTickets
  <2>2. Stride1 \div DefaultTickets \in Nat
    BY <2>1, StrideFacts
  <2>3. PICK s \in Nat : s = Stride1 \div DefaultTickets
    BY <2>2
  <2>4. proc \in [Slots -> Proc] /\ proc[q] \in Proc /\ nextpid \in Nat /\ global.pass \in Int
    BY DEF IInv, StrideInvariant, StrideTypeOK
  <2>5. PICK n : n = [NewProc EXCEPT !.parent = proc[q].parent, !.killed = proc[q].killed]
    OBVIOUS
  <2>6. n = [state |-> "EMBRYO", pid |-> nextpid, parent |-> proc[q].parent,
             killed |-> proc[q].killed, tickets |-> DefaultTickets, stride |-> s,
             pass |-> global.pass, runTicks |-> 0]
    BY <2>3, <2>5 DEF NewProc
  <2>7. n \in Proc
    BY <2>1, <2>4, <2>6 DEF Proc
  <2>8. proc' = [proc EXCEPT ![q] = n]
    BY <1>3, <2>5
  <2>9. n.state = "EMBRYO" /\ n.tickets = DefaultTickets /\ n.stride = s
    BY <2>6
  <2> QED
    BY <2>3, <2>4, <2>7, <2>8, <2>9
<1>9. call' \in [Slots -> Call] /\ call'[p] = [at |-> "fork", slot |-> q]
      /\ \A r \in Slots \ {p} : call'[r] = call[r]
  BY <1>3 DEF IInv, StrideInvariant, StrideTypeOK, Call
<1>10. StrideTypeOK'
  <2>1. DefaultTickets >= 1
    BY DEF DefaultTickets
  <2>2. \A r \in Slots :
          /\ proc'[r].state # "UNUSED" =>
               proc'[r].tickets >= 1 /\ proc'[r].stride = Stride1 \div proc'[r].tickets
          /\ proc'[r].state = "RUNNING" <=> running' = r
    BY <1>1, <1>3, <1>4, <1>8, <2>1 DEF IInv, StrideInvariant, StrideTypeOK
  <2>3. nextpid' \in Nat /\ {fault', reused'} \subseteq BOOLEAN /\ running' \in Slots \cup {NoProc}
        /\ turns' \in [Slots -> [Slots -> Nat \cup {NoCount}]]
    BY <1>3 DEF IInv, StrideInvariant, StrideTypeOK
  <2> QED
    BY <1>7, <1>8, <1>9, <2>2, <2>3 DEF StrideTypeOK
<1>11. ForksKnown'
  <2>1. ASSUME NEW r \in Slots, call'[r].at = "fork"
        PROVE  /\ call'[r].slot \in Slots /\ proc'[call'[r].slot].state = "EMBRYO"
               /\ proc'[call'[r].slot].tickets = DefaultTickets
               /\ \A u \in Slots : call'[u].at = "fork" /\ call'[u].slot = call'[r].slot => u = r
    <3>1. \A u \in Slots \ {p} : call'[u].at = "fork" =>
            call'[u].slot \in Slots /\ call'[u].slot # q
      BY <1>1, <1>9 DEF IInv, StrideInvariant, ForksKnown
    <3>2. CASE r = p
      BY <1>8, <1>9, <3>1, <3>2
    <3>3. CASE r # p
      BY <1>8, <1>9, <2>1, <3>1, <3>3 DEF IInv, StrideInvariant, ForksKnown
    <3> QED
      BY <3>2, <3>3
  <2>2. ASSUME NEW r \in Slots, call'[r].at = "failed"
        PROVE  /\ call'[r].slot \in Slots
               /\ ~reused' => /\ proc'[call'[r].slot].state = "UNUSED"
                              /\ proc'[call'[r].slot].tickets = DefaultTickets
    <3>1. r # p /\ call'[r] = call[r]
      BY <1>9, <2>2
    <3>2. call[r] = [at |-> "failed", slot |-> call[r].slot]
      BY <2>2, <3>1 DEF IInv, StrideInvariant, StrideTypeOK, Call
    <3>3. ~reused' => call[r].slot # q /\ ~reused
      BY <1>3, <3>2
    <3> QED
      BY <1>8, <2>2, <3>1, <3>3 DEF IInv, StrideInvariant, ForksKnown
  <2> QED
    BY <2>1, <2>2 DEF ForksKnown
<1>12. TicketsKnown'
  <2>1. proc'[p].tickets = proc[p].tickets /\ call'[p].at = "fork" /\ running' = p
    BY <1>3, <1>4, <1>8, <1>9
  <2>2. PICK n \in Nat : n = proc[p].tickets
    BY Fields DEF IInv, StrideInvariant
  <2> QED
    BY <1>5, <1>7, <2>1, <2>2 DEF TicketsKnown
<1>13. DividesByTickets'
  <2>1. fault' => t = 0
    BY <1>3
  <2>2. fault' => ~(t > 0)
    BY <2>1
  <2> QED
    BY <1>6, <2>2 DEF DividesByTickets
<1>14. TurnsKnown' /\ ProportionalTurns'
  BY <1>1, <1>3, <1>8, TurnsKept DEF Same
<1> QED
  BY <1>10, <1>11, <1>12, <1>13, <1>14 DEF IInv, StrideInvariant

\* The slot a fork fills.
LEMMA ForkSlot ==
  ASSUME IInv, NEW p \in Slots, call[p].at = "fork"
  PROVE  /\ call[p].slot \in Slots /\ proc[call[p].slot].state = "EMBRYO"
         /\ proc[call[p].slot].tickets = DefaultTickets
         /\ \A q \in Slots : call[q].at = "fork" /\ call[q].slot = call[p].slot => q = p
BY DEF IInv, StrideInvariant, ForksKnown

\* ForkFails keeps the invariant.
LEMMA ForkFailsKeeps ==
  ASSUME IInv, NEW p \in Slots, ForkFails(p)
  PROVE  IInv'
<1>1. /\ running = p /\ call[p].at = "fork"
      /\ proc' = [proc EXCEPT ![call[p].slot].state = "UNUSED"]
      /\ call' = [call EXCEPT ![p].at = "failed"]
      /\ UNCHANGED <<nextpid, global, running, fault, reused, turns>>
  BY DEF ForkFails
<1>2. PICK q \in Slots : /\ q = call[p].slot /\ proc[q].state = "EMBRYO"
                         /\ proc[q].tickets = DefaultTickets
                         /\ \A r \in Slots : call[r].at = "fork" /\ call[r].slot = q => r = p
  BY <1>1, ForkSlot
<1>3. proc \in [Slots -> Proc] /\ proc[q] \in Proc /\ call \in [Slots -> Call] /\ call[p] \in Call
  BY DEF IInv, StrideInvariant, StrideTypeOK
<1>4. /\ proc' \in [Slots -> Proc]
      /\ \A r \in Slots \ {q} : proc'[r] = proc[r]
      /\ proc'[q].state = "UNUSED" /\ proc'[q].tickets = proc[q].tickets
      /\ proc'[q].stride = proc[q].stride
  <2>1. proc' = [proc EXCEPT ![q] = [proc[q] EXCEPT !.state = "UNUSED"]]
    BY <1>1, <1>2
  <2>2. [proc[q] EXCEPT !.state = "UNUSED"] \in Proc
    BY <1>3 DEF Proc
  <2> QED
    BY <1>3, <2>1, <2>2 DEF Proc
<1>5. /\ call' \in [Slots -> Call] /\ call'[p].at = "failed" /\ call'[p].slot = q
      /\ \A r \in Slots \ {p} : call'[r] = call[r]
  BY <1>1, <1>2, <1>3 DEF Call
<1>6. proc[p].state = "RUNNING" /\ (\A r \in Slots \ {p} : proc[r].state # "RUNNING") /\ p # q
  BY <1>1, <1>2, RunsAlone DEF IInv, StrideInvariant
<1>7. StrideTypeOK'
  <2>1. \A r \in Slots : proc'[r].state = "RUNNING" <=> running' = r
    BY <1>1, <1>4, <1>6
  <2>2. StrideTypeOK /\ \A r \in Slots : proc'[r].state # "UNUSED" =>
          /\ proc[r].state # "UNUSED"
          /\ proc'[r].tickets = proc[r].tickets /\ proc'[r].stride = proc[r].stride
    BY <1>4 DEF IInv, StrideInvariant
  <2>3. /\ global' \in [tickets : Int, stride : Int, pass : Int] /\ running' \in Slots \cup {NoProc}
        /\ nextpid' \in Nat /\ {fault', reused'} \subseteq BOOLEAN
        /\ turns' \in [Slots -> [Slots -> Nat \cup {NoCount}]]
    BY <1>1 DEF IInv, StrideInvariant, StrideTypeOK
  <2> QED
    BY <1>4, <1>5, <2>1, <2>2, <2>3, TypesKept
<1>8. ForksKnown'
  <2>1. ASSUME NEW r \in Slots, call'[r].at = "fork"
        PROVE  /\ call'[r].slot \in Slots /\ proc'[call'[r].slot].state = "EMBRYO"
               /\ proc'[call'[r].slot].tickets = DefaultTickets
               /\ \A u \in Slots : call'[u].at = "fork" /\ call'[u].slot = call'[r].slot => u = r
    <3>1. r # p /\ call'[r] = call[r] /\ call[r].slot # q
      BY <1>2, <1>5, <2>1
    <3> QED
      BY <1>4, <1>5, <2>1, <3>1 DEF IInv, StrideInvariant, ForksKnown
  <2>2. ASSUME NEW r \in Slots, call'[r].at = "failed"
        PROVE  /\ call'[r].slot \in Slots
               /\ ~reused' => /\ proc'[call'[r].slot].state = "UNUSED"
                              /\ proc'[call'[r].slot].tickets = DefaultTickets
    <3>1. CASE r = p
      BY <1>2, <1>4, <1>5, <3>1
    <3>2. CASE r # p
      <4>1. call'[r] = call[r] /\ call[r].at = "failed" /\ reused' = reused
        BY <1>1, <1>5, <2>2, <3>2
      <4>2. /\ call[r].slot \in Slots
            /\ ~reused => /\ proc[call[r].slot].state = "UNUSED"
                          /\ proc[call[r].slot].tickets = DefaultTickets
        BY <4>1 DEF IInv, StrideInvariant, ForksKnown
      <4> QED
        BY <1>2, <1>4, <4>1, <4>2
    <3> QED
      BY <3>1, <3>2
  <2> QED
    BY <2>1, <2>2 DEF ForksKnown
<1>9. TicketsKnown' /\ DividesByTickets'
  BY <1>1, <1>4, <1>6, TicketsKept DEF IInv, StrideInvariant, DividesByTickets
<1>10. TurnsKnown' /\ ProportionalTurns'
  BY <1>1, <1>2, <1>4, TurnsKept DEF Same
<1> QED
  BY <1>7, <1>8, <1>9, <1>10 DEF IInv, StrideInvariant

\* ForkDone keeps the invariant.
LEMMA ForkDoneKeeps ==
  ASSUME IInv, NEW p \in Slots, ForkDone(p)
  PROVE  IInv'
<1>1. /\ running = p /\ call[p].at = "fork"
      /\ proc' = [proc EXCEPT ![call[p].slot].state = "RUNNABLE", ![call[p].slot].parent = p,
                              ![call[p].slot].pass = global.pass]
      /\ call' = [call EXCEPT ![p] = User]
      /\ UNCHANGED <<nextpid, global, running, fault, reused, turns>>
  BY DEF ForkDone
<1>2. PICK q \in Slots : /\ q = call[p].slot /\ proc[q].state = "EMBRYO"
                         /\ proc[q].tickets = DefaultTickets
                         /\ \A r \in Slots : call[r].at = "fork" /\ call[r].slot = q => r = p
  BY <1>1, ForkSlot
<1>3. proc \in [Slots -> Proc] /\ proc[q] \in Proc /\ call \in [Slots -> Call] /\ global.pass \in Int
  BY DEF IInv, StrideInvariant, StrideTypeOK
<1>4. /\ proc' \in [Slots -> Proc]
      /\ \A r \in Slots \ {q} : proc'[r] = proc[r]
      /\ proc'[q].state = "RUNNABLE" /\ proc'[q].tickets = proc[q].tickets
      /\ proc'[q].stride = proc[q].stride
  <2> DEFINE n == [proc[q] EXCEPT !.state = "RUNNABLE", !.parent = p, !.pass = global.pass]
  <2>1. proc' = [proc EXCEPT ![q] = n]
    BY <1>1, <1>2
  <2>2. /\ n \in Proc /\ n.state = "RUNNABLE" /\ n.tickets = proc[q].tickets
        /\ n.stride = proc[q].stride
    BY <1>3 DEF Proc
  <2> HIDE DEF n
  <2> QED
    BY <1>3, <2>1, <2>2
<1>5. /\ call' \in [Slots -> Call] /\ call'[p].at = "user"
      /\ \A r \in Slots \ {p} : call'[r] = call[r]
  BY <1>1, <1>3 DEF Call, User
<1>6. proc[p].state = "RUNNING" /\ (\A r \in Slots \ {p} : proc[r].state # "RUNNING") /\ p # q
  BY <1>1, <1>2, RunsAlone DEF IInv, StrideInvariant
<1>7. StrideTypeOK'
  <2>1. \A r \in Slots : proc'[r].state = "RUNNING" <=> running' = r
    <3>1. running' = p
      BY <1>1
    <3>2. proc'[q].state # "RUNNING" /\ q # p
      BY <1>4, <1>6
    <3>3. \A r \in Slots \ {q} : proc'[r].state = "RUNNING" <=> r = p
      BY <1>4, <1>6
    <3> QED
      BY <3>1, <3>2, <3>3
  <2>2. StrideTypeOK /\ \A r \in Slots : proc'[r].state # "UNUSED" =>
          /\ proc[r].state # "UNUSED"
          /\ proc'[r].tickets = proc[r].tickets /\ proc'[r].stride = proc[r].stride
    BY <1>2, <1>4 DEF IInv, StrideInvariant
  <2>3. /\ global' \in [tickets : Int, stride : Int, pass : Int] /\ running' \in Slots \cup {NoProc}
        /\ nextpid' \in Nat /\ {fault', reused'} \subseteq BOOLEAN
        /\ turns' \in [Slots -> [Slots -> Nat \cup {NoCount}]]
    BY <1>1 DEF IInv, StrideInvariant, StrideTypeOK
  <2> QED
    BY <1>4, <1>5, <2>1, <2>2, <2>3, TypesKept
<1>8. ForksKnown'
  <2>1. ASSUME NEW r \in Slots, call'[r].at \in {"fork", "failed"}
        PROVE  r # p /\ call'[r] = call[r]
    BY <1>5, <2>1
  <2>2. ASSUME NEW r \in Slots, call'[r].at = "fork"
        PROVE  /\ call'[r].slot \in Slots /\ proc'[call'[r].slot].state = "EMBRYO"
               /\ proc'[call'[r].slot].tickets = DefaultTickets
               /\ \A u \in Slots : call'[u].at = "fork" /\ call'[u].slot = call'[r].slot => u = r
    <3>1. call'[r] = call[r] /\ call[r].slot # q
      BY <1>2, <2>1, <2>2
    <3> QED
      BY <1>4, <2>1, <2>2, <3>1 DEF IInv, StrideInvariant, ForksKnown
  <2>3. ASSUME NEW r \in Slots, call'[r].at = "failed"
        PROVE  /\ call'[r].slot \in Slots
               /\ ~reused' => /\ proc'[call'[r].slot].state = "UNUSED"
                              /\ proc'[call'[r].slot].tickets = DefaultTickets
    <3>1. call'[r] = call[r] /\ reused' = reused
      BY <1>1, <2>1, <2>3
    <3> QED
      BY <1>2, <1>4, <2>3, <3>1 DEF IInv, StrideInvariant, ForksKnown
  <2> QED
    BY <2>2, <2>3 DEF ForksKnown
<1>9. TicketsKnown' /\ DividesByTickets'
  BY <1>1, <1>4, <1>5, <1>6, TicketsKept DEF IInv, StrideInvariant, DividesByTickets
<1>10. TurnsKnown' /\ ProportionalTurns'
  BY <1>1, <1>2, <1>4, TurnsKept DEF Same
<1> QED
  BY <1>7, <1>8, <1>9, <1>10 DEF IInv, StrideInvariant

\* GiveBack keeps the invariant.
LEMMA GiveBackKeeps ==
  ASSUME IInv, NEW p \in Slots, GiveBack(p)
  PROVE  IInv'
<1>1. /\ running = p /\ call[p].at = "failed"
      /\ global' = WithTickets(global.tickets - proc[call[p].slot].tickets)
      /\ call' = [call EXCEPT ![p] = User]
      /\ UNCHANGED <<proc, nextpid, running, fault, reused, turns>>
  BY DEF GiveBack
<1>2. PICK q \in Slots : q = call[p].slot /\ (~reused => proc[q].tickets = DefaultTickets)
  BY <1>1 DEF IInv, StrideInvariant, ForksKnown
<1>3. PICK n \in Nat, m \in Nat, g \in Int :
        n = proc[p].tickets /\ m = proc[q].tickets /\ g = global.tickets
  BY Fields DEF IInv, StrideInvariant, StrideTypeOK
<1>4. /\ global' \in [tickets : Int, stride : Int, pass : Int]
      /\ global'.tickets = g - m /\ global'.stride >= 0
  BY <1>1, <1>2, <1>3, WithTicketsFacts DEF IInv, StrideInvariant, StrideTypeOK
<1>5. /\ call' \in [Slots -> Call] /\ call'[p].at = "user"
      /\ \A r \in Slots \ {p} : call'[r] = call[r]
  BY <1>1 DEF IInv, StrideInvariant, StrideTypeOK, Call, User
<1>6. TicketsKnown'
  <2>1. ~reused => g >= n
    BY <1>1, <1>3, SlotFacts DEF IInv, StrideInvariant, TicketsKnown
  <2> QED
    BY <1>1, <1>2, <1>3, <1>4, <1>5, <2>1 DEF TicketsKnown, DefaultTickets
<1>7. TurnsKnown' /\ ProportionalTurns'
  BY <1>1, TurnsKept DEF Same
<1>8. /\ proc' \in [Slots -> Proc] /\ running' \in Slots \cup {NoProc}
      /\ turns' \in [Slots -> [Slots -> Nat \cup {NoCount}]]
      /\ \A r \in Slots : proc'[r].state = "RUNNING" <=> running' = r
  BY <1>1 DEF IInv, StrideInvariant, StrideTypeOK
<1> QED
  BY <1>1, <1>4, <1>5, <1>6, <1>7, <1>8, Preserved

-----------------------------------------------------------------------------
(* sleep, wakeup, exit, wait, kill.                                         *)

\* What a process that stops running leaves behind.
LEMMA SwitchKeeps ==
  ASSUME IInv, NEW p \in Slots, running = p, running' = NoProc, NEW table \in [Slots -> Proc],
         NEW s \in {"SLEEPING", "ZOMBIE"}, proc' = Leaves(table, p, s),
         \A r \in Slots :
           /\ table[r].tickets = proc[r].tickets /\ table[r].stride = proc[r].stride
           /\ proc[r].state # "SLEEPING" =>
                table[r].state = proc[r].state /\ table[r].pass = proc[r].pass
           /\ proc[r].state = "SLEEPING" => table[r].state \in {"SLEEPING", "RUNNABLE"},
         call' \in [Slots -> Call],
         \A r \in Slots : call'[r].at \in {"fork", "failed"} => call'[r] = call[r],
         global' \in [tickets : Int, stride : Int, pass : Int],
         ~reused => global'.stride >= 0, UNCHANGED <<nextpid, fault, reused>>, Forget(p)
  PROVE  IInv'
<1>1. /\ proc' \in [Slots -> Proc]
      /\ \A r \in Slots \ {p} : proc'[r] = table[r]
      /\ proc'[p].state = s /\ proc'[p].tickets = table[p].tickets
      /\ proc'[p].stride = table[p].stride
  BY LeavesIs
<1>2. proc[p].state = "RUNNING" /\ (\A r \in Slots \ {p} : proc[r].state # "RUNNING") /\ p # NoProc
  BY RunsAlone DEF IInv, StrideInvariant
<1>3. \A r \in Slots : proc'[r].tickets = proc[r].tickets /\ proc'[r].stride = proc[r].stride
  BY <1>1
<1>4. \A r \in Slots : proc[r].state \in {"EMBRYO", "UNUSED"} => proc'[r].state = proc[r].state
  BY <1>1, <1>2
<1>5. \A r \in Slots : proc'[r].state = "RUNNING" <=> running' = r
  <2>1. \A r \in Slots \ {p} : table[r].state # "RUNNING"
    BY <1>2
  <2> QED
    BY <1>1, <2>1, SlotFacts
<1>6. TicketsKnown'
  BY DEF TicketsKnown
<1>7. TurnsKnown' /\ ProportionalTurns'
  <2>1. \A r \in Slots \ {p} : proc[r].state \in {"RUNNABLE", "RUNNING"} => Same(r)
    BY <1>1, <1>3, SlotFacts DEF Same
  <2> QED
    BY <2>1, TurnsForgotten
<1>8. turns' \in [Slots -> [Slots -> Nat \cup {NoCount}]]
  BY Forgotten DEF IInv, StrideInvariant
<1> QED
  BY <1>1, <1>3, <1>4, <1>5, <1>6, <1>7, <1>8, Preserved

\* The global stride is not negative until a slot has been reused.
LEMMA StrideForward == IInv => (~reused => global.stride >= 0)
BY DEF IInv, StrideInvariant, TicketsKnown

\* Sleep keeps the invariant.
LEMMA SleepKeeps ==
  ASSUME IInv, NEW p \in Slots, Sleep(p)
  PROVE  IInv'
<1>1. /\ running = p /\ running' = NoProc /\ proc' = Leaves(proc, p, "SLEEPING") /\ Forget(p)
      /\ UNCHANGED <<nextpid, global, call, fault, reused>>
  BY DEF Sleep, CanCall
<1>2. proc \in [Slots -> Proc] /\ call' \in [Slots -> Call]
      /\ global' \in [tickets : Int, stride : Int, pass : Int]
  BY <1>1 DEF IInv, StrideInvariant, StrideTypeOK
<1> QED
  BY <1>1, <1>2, SwitchKeeps, StrideForward

\* WaitSleep keeps the invariant.
LEMMA WaitSleepKeeps ==
  ASSUME IInv, NEW p \in Slots, WaitSleep(p)
  PROVE  IInv'
<1>1. /\ running = p /\ running' = NoProc /\ proc' = Leaves(proc, p, "SLEEPING") /\ Forget(p)
      /\ call' = [call EXCEPT ![p].at = "wait"]
      /\ UNCHANGED <<nextpid, global, fault, reused>>
  BY DEF WaitSleep, InWait, CanCall
<1>2. proc \in [Slots -> Proc] /\ global' \in [tickets : Int, stride : Int, pass : Int]
      /\ call \in [Slots -> Call]
  BY <1>1 DEF IInv, StrideInvariant, StrideTypeOK
<1>3. call' \in [Slots -> Call] /\ call'[p].at = "wait" /\ \A r \in Slots \ {p} : call'[r] = call[r]
  BY <1>1, <1>2 DEF Call
<1>4. \A r \in Slots : call'[r].at \in {"fork", "failed"} => call'[r] = call[r]
  BY <1>3
<1> QED
  BY <1>1, <1>2, <1>3, <1>4, SwitchKeeps, StrideForward

\* Exit keeps the invariant.
LEMMA ExitKeeps ==
  ASSUME IInv, NEW p \in Slots, Exit(p)
  PROVE  IInv'
<1>1. PICK H :
        /\ H = IF \E c \in Children(p) : proc[c].state = "ZOMBIE" THEN {InitSlot} ELSE {}
        /\ LET woken == WakeUp(proc, Waiting({proc[p].parent} \cup H))
               orphaned == [c \in Slots |->
                 IF c \in Children(p) THEN [woken[c] EXCEPT !.parent = InitSlot] ELSE woken[c]]
           IN  proc' = Leaves(orphaned, p, "ZOMBIE")
  BY DEF Exit
<1>2. /\ running = p /\ running' = NoProc /\ Forget(p)
      /\ global' = WithTickets(global.tickets - proc[p].tickets)
      /\ UNCHANGED <<nextpid, call, fault, reused>>
  BY DEF Exit
<1>3. PICK woken \in [Slots -> Proc] :
        /\ woken = WakeUp(proc, Waiting({proc[p].parent} \cup H))
        /\ \A r \in Slots :
             /\ proc[r].state # "SLEEPING" => woken[r] = proc[r]
             /\ woken[r].state # proc[r].state =>
                  proc[r].state = "SLEEPING" /\ woken[r].state = "RUNNABLE"
             /\ woken[r].tickets = proc[r].tickets /\ woken[r].stride = proc[r].stride
  <2>1. StrideTypeOK /\ proc \in [Slots -> Proc]
    BY DEF IInv, StrideInvariant, StrideTypeOK
  <2> QED
    BY <2>1, WakeUpIs
<1>4. PICK table : table = [c \in Slots |->
        IF c \in Children(p) THEN [woken[c] EXCEPT !.parent = InitSlot] ELSE woken[c]]
  OBVIOUS
<1>5. proc' = Leaves(table, p, "ZOMBIE")
  BY <1>1, <1>3, <1>4
<1>6. /\ table \in [Slots -> Proc]
      /\ \A r \in Slots : /\ table[r].tickets = woken[r].tickets
                          /\ table[r].stride = woken[r].stride
                          /\ table[r].state = woken[r].state /\ table[r].pass = woken[r].pass
  <2>1. \A c \in Slots : [woken[c] EXCEPT !.parent = InitSlot] \in Proc
    BY SlotFacts DEF Proc
  <2> QED
    BY <1>4, <2>1 DEF Proc
<1>7. \A r \in Slots :
        /\ table[r].tickets = proc[r].tickets /\ table[r].stride = proc[r].stride
        /\ proc[r].state # "SLEEPING" =>
             table[r].state = proc[r].state /\ table[r].pass = proc[r].pass
        /\ proc[r].state = "SLEEPING" => table[r].state \in {"SLEEPING", "RUNNABLE"}
  BY <1>3, <1>6, ZenonT(40)
<1>8. call' \in [Slots -> Call] /\ \A r \in Slots : call'[r] = call[r]
  BY <1>2 DEF IInv, StrideInvariant, StrideTypeOK
<1>9. global' \in [tickets : Int, stride : Int, pass : Int] /\ global'.stride >= 0
  <2>1. PICK n \in Nat, g \in Int : n = proc[p].tickets /\ g = global.tickets
    BY Fields DEF IInv, StrideInvariant, StrideTypeOK
  <2> QED
    BY <1>2, <2>1, WithTicketsFacts DEF IInv, StrideInvariant, StrideTypeOK
<1> QED
  BY <1>2, <1>5, <1>6, <1>7, <1>8, <1>9, SwitchKeeps

\* A step that leaves the CPU, the calls that fork and what runs as they are.
LEMMA TableKeeps ==
  ASSUME IInv, proc' \in [Slots -> Proc], call' \in [Slots -> Call],
         UNCHANGED <<nextpid, global, running, fault, reused, turns>>,
         \A r \in Slots :
           /\ proc'[r].tickets = proc[r].tickets /\ proc'[r].stride = proc[r].stride
           /\ proc[r].state \notin {"SLEEPING", "ZOMBIE"} =>
                proc'[r].state = proc[r].state /\ proc'[r].pass = proc[r].pass
           /\ proc[r].state \in {"SLEEPING", "ZOMBIE"} => proc'[r].state # "RUNNING"
           /\ call'[r].at \in {"fork", "failed"} => call'[r] = call[r]
  PROVE  IInv'
<1>1. \A r \in Slots : proc'[r].state = "RUNNING" <=> running' = r
  BY DEF IInv, StrideInvariant, StrideTypeOK
<1>2. TicketsKnown'
  BY TicketsKept DEF IInv, StrideInvariant
<1>3. TurnsKnown' /\ ProportionalTurns'
  BY TurnsKept DEF Same
<1>4. /\ global' \in [tickets : Int, stride : Int, pass : Int] /\ running' \in Slots \cup {NoProc}
      /\ turns' \in [Slots -> [Slots -> Nat \cup {NoCount}]]
  BY DEF IInv, StrideInvariant, StrideTypeOK
<1> QED
  BY <1>1, <1>2, <1>3, <1>4, Preserved

\* Wakeup keeps the invariant.
LEMMA WakeupKeeps ==
  ASSUME IInv, NEW p \in Slots, Wakeup(p)
  PROVE  IInv'
<1>1. proc' = WakeUp(proc, {p}) /\ UNCHANGED <<nextpid, global, running, call, fault, reused, turns>>
  BY DEF Wakeup
<1>2. StrideTypeOK /\ proc \in [Slots -> Proc] /\ call' \in [Slots -> Call]
  BY <1>1 DEF IInv, StrideInvariant, StrideTypeOK
<1>3. /\ proc' \in [Slots -> Proc]
      /\ \A r \in Slots :
           /\ proc[r].state # "SLEEPING" => proc'[r] = proc[r]
           /\ proc'[r].state # proc[r].state =>
                proc[r].state = "SLEEPING" /\ proc'[r].state = "RUNNABLE"
           /\ proc'[r].tickets = proc[r].tickets /\ proc'[r].stride = proc[r].stride
  BY <1>1, <1>2, WakeUpIs
<1> QED
  BY <1>1, <1>2, <1>3, TableKeeps

\* A call that returns leaves the forks of the others alone.
LEMMA CallEnds ==
  ASSUME StrideTypeOK, NEW p \in Slots, call' = [call EXCEPT ![p] = User]
  PROVE  /\ call' \in [Slots -> Call]
         /\ \A r \in Slots : call'[r].at \in {"fork", "failed"} => call'[r] = call[r]
BY DEF StrideTypeOK, Call, User

\* WaitReap keeps the invariant.
LEMMA WaitReapKeeps ==
  ASSUME IInv, NEW p \in Slots, WaitReap(p)
  PROVE  IInv'
<1>1. PICK c \in Slots : c = Min(Zombies(p)) /\ proc[c].state = "ZOMBIE"
  <2>1. Zombies(p) \subseteq Slots /\ Zombies(p) # {}
    BY DEF WaitReap, Zombies, Children
  <2>2. Min(Zombies(p)) \in Zombies(p)
    BY <2>1, SlotFacts, MinIsIn
  <2> QED
    BY <2>2 DEF Zombies, Children, In
<1>2. /\ proc' = [proc EXCEPT ![c] = [proc[c] EXCEPT !.state = "UNUSED", !.pid = 0,
                                        !.parent = NoProc, !.killed = FALSE]]
      /\ call' = [call EXCEPT ![p] = User]
      /\ UNCHANGED <<nextpid, global, running, fault, reused, turns>>
  BY <1>1 DEF WaitReap
<1>3. proc \in [Slots -> Proc] /\ proc[c] \in Proc
  BY DEF IInv, StrideInvariant, StrideTypeOK
<1>4. /\ proc' \in [Slots -> Proc] /\ (\A r \in Slots \ {c} : proc'[r] = proc[r])
      /\ proc'[c].state = "UNUSED" /\ proc'[c].tickets = proc[c].tickets
      /\ proc'[c].stride = proc[c].stride
  <2> DEFINE n == [proc[c] EXCEPT !.state = "UNUSED", !.pid = 0, !.parent = NoProc,
                                  !.killed = FALSE]
  <2>1. /\ n \in Proc /\ n.state = "UNUSED" /\ n.tickets = proc[c].tickets
        /\ n.stride = proc[c].stride
    BY <1>3 DEF Proc
  <2>2. proc' = [proc EXCEPT ![c] = n]
    BY <1>2
  <2> HIDE DEF n
  <2> QED
    BY <1>3, <2>1, <2>2
<1> QED
  BY <1>1, <1>2, <1>4, CallEnds, TableKeeps DEF IInv, StrideInvariant

\* WaitFails keeps the invariant.
LEMMA WaitFailsKeeps ==
  ASSUME IInv, NEW p \in Slots, WaitFails(p)
  PROVE  IInv'
<1>1. /\ call' = [call EXCEPT ![p] = User]
      /\ UNCHANGED <<proc, nextpid, global, running, fault, reused, turns>>
  BY DEF WaitFails
<1>2. StrideTypeOK /\ proc' \in [Slots -> Proc]
  BY <1>1 DEF IInv, StrideInvariant, StrideTypeOK
<1> QED
  BY <1>1, <1>2, CallEnds, TableKeeps

\* Kill keeps the invariant.
LEMMA KillKeeps ==
  ASSUME IInv, NEW p \in Slots, NEW q \in Slots, Kill(p, q)
  PROVE  IInv'
<1>1. /\ proc' = [proc EXCEPT ![q].killed = TRUE,
                              ![q].state = IF @ = "SLEEPING" THEN "RUNNABLE" ELSE @]
      /\ UNCHANGED <<nextpid, global, running, call, fault, reused, turns>>
  BY DEF Kill
<1>2. proc \in [Slots -> Proc] /\ proc[q] \in Proc /\ call' \in [Slots -> Call]
  BY <1>1 DEF IInv, StrideInvariant, StrideTypeOK
<1>3. PICK s : s = IF proc[q].state = "SLEEPING" THEN "RUNNABLE" ELSE proc[q].state
  OBVIOUS
<1>4. /\ proc' \in [Slots -> Proc] /\ (\A r \in Slots \ {q} : proc'[r] = proc[r])
      /\ proc'[q].state = s /\ proc'[q].tickets = proc[q].tickets
      /\ proc'[q].stride = proc[q].stride /\ proc'[q].pass = proc[q].pass
  <2> DEFINE n == [proc[q] EXCEPT !.killed = TRUE, !.state = s]
  <2>1. /\ n \in Proc /\ n.state = s /\ n.tickets = proc[q].tickets
        /\ n.stride = proc[q].stride /\ n.pass = proc[q].pass
    BY <1>2, <1>3 DEF Proc
  <2>2. proc' = [proc EXCEPT ![q] = n]
    BY <1>1, <1>2, <1>3
  <2> HIDE DEF n
  <2> QED
    BY <1>2, <2>1, <2>2
<1> QED
  BY <1>1, <1>2, <1>3, <1>4, TableKeeps

-----------------------------------------------------------------------------
(* settickets.                                                              *)
LEMMA ClampedIs ==
  ASSUME NEW n \in Int
  PROVE  Clamped(n) \in 1 .. MostTickets
BY DEF Clamped, DefaultTickets, MostTickets

\* SetTickets keeps the invariant.
LEMMA SetTicketsKeeps ==
  ASSUME IInv, NEW p \in Slots, NEW n \in Requests, SetTickets(p, n)
  PROVE  IInv'
<1>1. PICK c \in 1 .. MostTickets : c = Clamped(n)
  BY StrideSizes, ClampedIs
<1>2. PICK new \in Nat : new = Stride1 \div c
  BY StrideFacts
<1>3. PICK remain : remain = Quotient((proc[p].pass - global.pass) * new, proc[p].stride)
  OBVIOUS
<1>4. /\ running = p /\ call[p] = User /\ Forget(p)
      /\ proc' = [proc EXCEPT ![p].tickets = c, ![p].stride = new,
                              ![p].pass = global.pass + remain]
      /\ global' = WithTickets(global.tickets - proc[p].tickets + c)
      /\ UNCHANGED <<nextpid, running, call, fault, reused>>
  BY <1>1, <1>2, <1>3 DEF SetTickets, CanCall
<1>5. /\ proc[p].state = "RUNNING" /\ (\A r \in Slots \ {p} : proc[r].state # "RUNNING")
      /\ proc[p].tickets \in 1 .. MostTickets /\ proc[p].stride = Stride1 \div proc[p].tickets
      /\ proc[p].stride \in Nat
  BY <1>4, RunsAlone, Fields DEF IInv, StrideInvariant
<1>6. remain \in Int
  <2>1. proc[p].stride >= 1
    BY <1>5, StrideFacts
  <2>2. PICK x \in Int, y \in Int : x = proc[p].pass /\ y = global.pass
    BY Fields DEF IInv, StrideInvariant, StrideTypeOK
  <2>3. PICK z \in Int : z = (x - y) * new
    OBVIOUS
  <2> QED
    BY <1>3, <1>5, <2>1, <2>2, <2>3, QuotientFacts
<1>7. /\ proc' \in [Slots -> Proc] /\ (\A r \in Slots \ {p} : proc'[r] = proc[r])
      /\ proc'[p].state = "RUNNING" /\ proc'[p].tickets = c /\ proc'[p].stride = new
  <2>1. proc \in [Slots -> Proc] /\ proc[p] \in Proc /\ global.pass \in Int
    BY DEF IInv, StrideInvariant, StrideTypeOK
  <2>2. PICK x \in Int : x = global.pass + remain
    BY <1>6, <2>1
  <2> DEFINE m == [proc[p] EXCEPT !.tickets = c, !.stride = new, !.pass = x]
  <2>3. m \in Proc /\ m.state = proc[p].state /\ m.tickets = c /\ m.stride = new
    <3>1. c \in 0 .. MostTickets
      BY DEF MostTickets
    <3> QED
      BY <2>1, <3>1 DEF Proc
  <2>4. proc' = [proc EXCEPT ![p] = m]
    BY <1>4, <2>2
  <2> HIDE DEF m
  <2> QED
    BY <1>5, <2>1, <2>3, <2>4
<1>8. PICK g \in Int, t \in Nat : g = global.tickets /\ t = proc[p].tickets
  BY Fields DEF IInv, StrideInvariant, StrideTypeOK
<1>9. /\ global' \in [tickets : Int, stride : Int, pass : Int]
      /\ global'.tickets = (g - t) + c /\ global'.stride >= 0
  BY <1>4, <1>8, WithTicketsFacts DEF IInv, StrideInvariant, StrideTypeOK
<1>10. StrideTypeOK'
  <2>1. \A r \in Slots :
          /\ proc'[r].state # "UNUSED" =>
               proc'[r].tickets >= 1 /\ proc'[r].stride = Stride1 \div proc'[r].tickets
          /\ proc'[r].state = "RUNNING" <=> running' = r
    <3>1. ASSUME NEW r \in Slots \ {p}
          PROVE  /\ proc[r].state # "UNUSED" =>
                      proc[r].tickets >= 1 /\ proc[r].stride = Stride1 \div proc[r].tickets
                 /\ proc[r].state = "RUNNING" <=> running' = r
      BY <1>4 DEF IInv, StrideInvariant, StrideTypeOK
    <3>2. c >= 1 /\ running' = p
      BY <1>4
    <3> QED
      BY <1>2, <1>7, <3>1, <3>2
  <2>2. /\ nextpid' \in Nat /\ {fault', reused'} \subseteq BOOLEAN /\ call' \in [Slots -> Call]
        /\ running' \in Slots \cup {NoProc}
    BY <1>4 DEF IInv, StrideInvariant, StrideTypeOK
  <2>3. turns' \in [Slots -> [Slots -> Nat \cup {NoCount}]]
    BY <1>4, Forgotten DEF IInv, StrideInvariant
  <2> QED
    BY <1>7, <1>9, <2>1, <2>2, <2>3 DEF StrideTypeOK
<1>11. ForksKnown'
  BY <1>4, <1>5, <1>7, ForksFrame DEF IInv, StrideInvariant
<1>12. TicketsKnown'
  <2>1. ~reused => g >= t - DefaultTickets
    <3>1. running = p /\ p # NoProc /\ call[p].at = "user"
      BY <1>4, SlotFacts DEF User
    <3> QED
      BY <1>8, <3>1 DEF IInv, StrideInvariant, TicketsKnown
  <2>2. ~reused => (g - t) + c >= c - DefaultTickets
    BY <2>1 DEF DefaultTickets
  <2>3. running' = p /\ call'[p].at = "user" /\ proc'[p].tickets = c /\ reused' = reused
    BY <1>4, <1>7 DEF User
  <2> QED
    BY <1>9, <2>2, <2>3 DEF TicketsKnown
<1>13. DividesByTickets'
  BY <1>4 DEF IInv, StrideInvariant, DividesByTickets
<1>14. TurnsKnown' /\ ProportionalTurns'
  <2>1. \A r \in Slots \ {p} : Same(r)
    BY <1>4, <1>7 DEF Same
  <2> QED
    BY <1>4, <2>1, TurnsForgotten
<1> QED
  BY <1>10, <1>11, <1>12, <1>13, <1>14 DEF IInv, StrideInvariant

-----------------------------------------------------------------------------
(* The theorems.                                                            *)
LEMMA InitHolds == Init => IInv
<1> SUFFICES ASSUME Init PROVE IInv
  OBVIOUS
<1>1. DefaultTickets \in 1 .. MostTickets /\ 0 \in 0 .. MostTickets
  BY DEF DefaultTickets, MostTickets
<1>2. PICK s \in Nat : s = Stride1 \div DefaultTickets
  BY <1>1, StrideFacts
<1>3. /\ global = [tickets |-> DefaultTickets, stride |-> s, pass |-> 0]
      /\ running = NoProc /\ nextpid = 2 /\ fault = FALSE /\ reused = FALSE
      /\ call = [p \in Slots |-> User] /\ turns = [p \in Slots |-> [q \in Slots |-> NoCount]]
  BY <1>2 DEF Init
<1>4. proc = [p \in Slots |->
        [state |-> IF p = InitSlot THEN "RUNNABLE" ELSE "UNUSED",
         pid |-> IF p = InitSlot THEN 1 ELSE 0, parent |-> NoProc, killed |-> FALSE,
         tickets |-> IF p = InitSlot THEN DefaultTickets ELSE 0,
         stride |-> IF p = InitSlot THEN s ELSE 0, pass |-> 0, runTicks |-> 0]]
  BY <1>2 DEF Init
<1>5. proc \in [Slots -> Proc]
  BY <1>1, <1>4 DEF Proc
<1>6. call \in [Slots -> Call]
  BY <1>3 DEF Call, User
<1>7. \A p \in Slots :
        /\ proc[p].state # "UNUSED" =>
             proc[p].tickets >= 1 /\ proc[p].stride = Stride1 \div proc[p].tickets
        /\ proc[p].state # "RUNNING" /\ running # p
  <2>1. ASSUME NEW p \in Slots, proc[p].state # "UNUSED"
        PROVE  proc[p].tickets = DefaultTickets /\ proc[p].stride = s
    BY <1>4, <2>1
  <2>2. \A p \in Slots : proc[p].state # "RUNNING"
    BY <1>4
  <2> QED
    BY <1>1, <1>2, <1>3, <2>1, <2>2, SlotFacts
<1>8. StrideTypeOK
  <2>0. DefaultTickets \in Int
    BY DEF DefaultTickets
  <2>1. global \in [tickets : Int, stride : Int, pass : Int] /\ running \in Slots \cup {NoProc}
    BY <1>3, <2>0
  <2>3. nextpid \in Nat
    BY <1>3
  <2>4. {fault, reused} \subseteq BOOLEAN
    BY <1>3, Zenon
  <2>2. turns \in [Slots -> [Slots -> Nat \cup {NoCount}]]
    BY <1>3
  <2> QED
    BY <1>5, <1>6, <1>7, <2>1, <2>2, <2>3, <2>4 DEF StrideTypeOK
<1>9. ForksKnown /\ TicketsKnown /\ DividesByTickets
  BY <1>3 DEF ForksKnown, TicketsKnown, DividesByTickets, User
<1>10. TurnsKnown /\ ProportionalTurns
  BY <1>3 DEF TurnsKnown, ProportionalTurns, NoCount
<1> QED
  BY <1>8, <1>9, <1>10 DEF IInv, StrideInvariant

\* Every step keeps the invariant and moves the global pass forward.
LEMMA NextKeeps == IInv /\ [Next]_vars => IInv'
<1> SUFFICES ASSUME IInv, [Next]_vars PROVE IInv'
  OBVIOUS
<1>1. CASE Dispatch
  BY <1>1, DispatchKeeps
<1>2. CASE Idle
  BY <1>2, IdleKeeps
<1>3. ASSUME NEW p \in Slots, Yield(p) \/ AllocProc(p) \/ ForkEnds(p) \/ Sleep(p) \/ Wakeup(p)
      PROVE  IInv'
  BY <1>3, YieldKeeps, AllocProcKeeps, ForkFailsKeeps, GiveBackKeeps, ForkDoneKeeps, SleepKeeps,
     WakeupKeeps DEF ForkEnds
<1>4. ASSUME NEW p \in Slots, Exit(p) \/ Wait(p) \/ \E q \in Slots : Kill(p, q) PROVE IInv'
  BY <1>4, ExitKeeps, WaitReapKeeps, WaitFailsKeeps, WaitSleepKeeps, KillKeeps DEF Wait
<1>5. ASSUME NEW p \in Slots, NEW n \in Requests, SetTickets(p, n) PROVE IInv'
  BY <1>5, SetTicketsKeeps
<1>6. CASE UNCHANGED vars
  <2>1. UNCHANGED <<proc, nextpid, global, running, call, fault, reused, turns>>
    BY <1>6 DEF vars
  <2>2. StrideTypeOK' /\ ForksKnown' /\ TicketsKnown' /\ DividesByTickets'
    BY <2>1 DEF IInv, StrideInvariant, StrideTypeOK, ForksKnown, TicketsKnown, DividesByTickets
  <2>3. TurnsKnown' /\ ProportionalTurns'
    BY <2>1, TurnsKept DEF Same
  <2> QED
    BY <2>2, <2>3 DEF IInv, StrideInvariant
<1> QED
  BY <1>1, <1>2, <1>3, <1>4, <1>5, <1>6 DEF Next

\* The inductive invariant holds in every behaviour.
LEMMA Inductive == Spec => []IInv
BY InitHolds, NextKeeps, PTL DEF Spec

\* The table, the global tickets and the counts of turns are consistent at every step; settickets
\* never divides by zero, and allocproc only after the slot of a failed fork was taken again.
THEOREM StrideSafe == Spec => []StrideInvariant
<1>1. IInv => StrideInvariant
  BY DEF IInv
<1> QED
  BY <1>1, Inductive, PTL

\* No process gets more turns than its share, rounded up, between two turns of another.
THEOREM SharesAreKept == Spec => []ProportionalTurns
<1>1. IInv => ProportionalTurns
  BY DEF IInv
<1> QED
  BY <1>1, Inductive, PTL

\* Only the scheduler moves global_pass, and by a stride that is never negative.
LEMMA PassForward == IInv /\ [Next]_vars => [~reused => global'.pass >= global.pass]_vars
<1> SUFFICES ASSUME IInv, [Next]_vars PROVE ~reused => global'.pass >= global.pass
  OBVIOUS
<1>1. global.pass \in Int /\ global \in [tickets : Int, stride : Int, pass : Int]
      /\ \A q \in Slots : proc[q].tickets \in Nat
  BY Fields DEF IInv, StrideInvariant, StrideTypeOK
<1>2. global'.pass = global.pass => global'.pass >= global.pass
  BY <1>1
<1>3. CASE Dispatch \/ Idle
  BY <1>3, AdvanceIs DEF Dispatch, Idle
<1>4. ASSUME NEW p \in Slots, AllocProc(p) PROVE global'.pass = global.pass
  BY <1>1, <1>4 DEF AllocProc
<1>5. ASSUME NEW p \in Slots, GiveBack(p) PROVE global'.pass = global.pass
  BY <1>1, <1>5 DEF GiveBack, WithTickets
<1>6. ASSUME NEW p \in Slots, Exit(p) PROVE global'.pass = global.pass
  BY <1>1, <1>6 DEF Exit, WithTickets
<1>7. ASSUME NEW p \in Slots, NEW n \in Requests, SetTickets(p, n) PROVE global'.pass = global.pass
  BY <1>1, <1>7 DEF SetTickets, WithTickets
<1>8. CASE UNCHANGED vars
  BY <1>2, <1>8 DEF vars
<1>9. ASSUME NEW p \in Slots, Yield(p) \/ ForkFails(p) \/ ForkDone(p) \/ Sleep(p) \/ Wakeup(p)
                              \/ Wait(p) \/ \E q \in Slots : Kill(p, q)
      PROVE  global' = global
  BY <1>9 DEF Yield, ForkFails, ForkDone, Sleep, Wakeup, Wait, WaitReap, WaitFails, WaitSleep, Kill
<1> QED
  BY <1>2, <1>3, <1>4, <1>5, <1>6, <1>7, <1>8, <1>9 DEF Next, ForkEnds

\* Virtual time never runs backwards while no slot of a failed fork was taken again.
THEOREM TimeForward == Spec => VirtualTimeForward
BY Inductive, PassForward, PTL DEF Spec, VirtualTimeForward
=============================================================================
