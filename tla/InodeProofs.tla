---------------------------- MODULE InodeProofs ----------------------------
(***************************************************************************)
(* References and links of inodes are exact, nothing in use is freed, and  *)
(* what the kernel would panic over does not happen, for any processes,    *)
(* inodes, names and calls.                                                *)
(*                                                                         *)
(* The invariant says of a call what its stage holds, of a reference where *)
(* it is, of a link what claims it, and of directories that they are       *)
(* trees; a directory that was removed stays empty until a call strays     *)
(* into it.                                                                *)
(***************************************************************************)
EXTENDS InodeProperties, FiniteSetTheorems, TLAPS

-----------------------------------------------------------------------------
(* Smallest elements.                                                       *)

\* Of a family of subsets of a finite set, one has no other in it.
LEMMA SmallestSet ==
  ASSUME NEW S, IsFiniteSet(S), NEW B, B \subseteq SUBSET S, B # {}
  PROVE  \E U \in B : \A V \in B : V \subseteq U => V = U
<1>1. IsWellFoundedOn(StrictSubsetOrdering(S), SUBSET S)
  BY FS_StrictSubsetOrderingWellFounded, FS_FiniteSubsetsOfFinite
<1>2. PICK U \in B : \A V \in B : <<V, U>> \notin StrictSubsetOrdering(S)
  BY <1>1, WFMin
<1> QED
  BY <1>2 DEF StrictSubsetOrdering

\* Min finds the smallest of a set of numbers.
LEMMA MinIsIn ==
  ASSUME NEW S, S \subseteq Nat, S # {}
  PROVE  Min(S) \in S /\ \A y \in S : Min(S) <= y
<1>1. PICK m \in S : TRUE
  OBVIOUS
<1> DEFINE B == {0 .. k : k \in {j \in S : j <= m}}
<1>2. IsFiniteSet(0 .. m) /\ B \subseteq SUBSET (0 .. m) /\ B # {}
  <2>1. m \in Nat /\ IsFiniteSet(0 .. m)
    BY <1>1, FS_Interval
  <2>2. \A k \in S : k <= m => 0 .. k \subseteq 0 .. m
    BY <2>1
  <2>3. m <= m
    BY <2>1
  <2> QED
    BY <2>1, <2>2, <2>3
<1>3. PICK U \in B : \A V \in B : V \subseteq U => V = U
  <2> DEFINE I == 0 .. m
  <2>1. IsFiniteSet(I) /\ B \subseteq SUBSET I /\ B # {}
    BY <1>2
  <2> HIDE DEF B, I
  <2> QED
    BY <2>1, SmallestSet
<1>4. PICK k \in S : U = 0 .. k /\ k <= m
  OBVIOUS
<1>5. ASSUME NEW y \in S PROVE k <= y
  <2>1. k \in Nat /\ y \in Nat /\ m \in Nat
    BY <1>1
  <2>2. ASSUME y < k PROVE FALSE
    <3>1. 0 .. y \subseteq 0 .. k /\ 0 .. y # 0 .. k /\ y <= m
      BY <1>4, <2>1, <2>2
    <3> QED
      BY <1>3, <1>4, <3>1
  <2> QED
    BY <2>1, <2>2
<1> QED
  BY <1>5 DEF Min

-----------------------------------------------------------------------------
(* What a call is at each stage.                                            *)
Elements == Names \cup {".", ".."}
InumOrNone == Inums \cup {None}
Ops == {"none", "open", "chdir", "create", "mkdir", "unlink", "link", "link2", "close"}
Stages == {"user", "walk", "there", "found", "made", "unlink2", "unlink_bad", "unlink3",
           "link_exists", "link_bad", "put_ip", "end"}
CallType ==
  [op : Ops, then : Stages, at : InumOrNone, ip : InumOrNone, put : InumOrNone,
   tested : BOOLEAN, path : Seq(Elements), to : [abs : BOOLEAN, names : Seq(Elements)]]

Shape(c) ==
  \/ c = NoCall
  \/ c.then = "walk" /\ c.at # None /\ (c.ip # None <=> c.op = "link2")
     /\ c.op \notin {"none", "close"}
  \/ /\ c.then = "there" /\ c.at # None /\ c.put = None /\ (c.ip # None <=> c.op = "link2")
     /\ WantsParent(c) /\ Len(c.path) = 1
  \/ c.then \in {"found", "made"} /\ c.at = None /\ c.ip # None /\ c.op \in {"create", "mkdir"}
  \/ /\ c.then = "unlink2" /\ c.at # None /\ c.ip # None /\ c.put = None /\ c.op = "unlink"
     /\ Len(c.path) = 1 /\ Head(c.path) \in Names
  \/ c.then = "unlink_bad" /\ c.at # None /\ c.ip = None /\ c.op = "unlink"
  \/ c.then = "unlink3" /\ c.at = None /\ c.ip # None /\ c.op = "unlink"
  \/ c.then = "link_exists" /\ c.at # None /\ c.ip # None /\ c.op = "link2"
  \/ c.then = "link_bad" /\ c.at = None /\ c.ip # None /\ c.op = "link2"
  \/ c.then = "put_ip" /\ c.at = None /\ c.ip # None /\ c.put # None /\ c.op = "link2"
  \/ c.then = "end" /\ c.at = None /\ c.ip = None /\ c.put # None

CallsOK == call \in [Procs -> CallType] /\ \A p \in Procs : Shape(call[p])

\* The inode whose lock a call keeps from step to step.
LockIn(c) ==
  IF c.then \in {"made", "unlink3"} THEN c.ip
  ELSE IF c.then \in {"unlink2", "unlink_bad", "link_exists"} THEN c.at ELSE None
LocksExact == \A p \in Procs, i \in Inums : lock[i] = p <=> LockIn(call[p]) = i

\* A parent is a directory, what is linked a file, and what is unlinked has the name.
InDirectory(c) == c.then \in {"there", "unlink2", "unlink_bad", "link_exists"}
Linking(c) == c.op = "link2" /\ c.then \in {"walk", "there", "link_exists", "link_bad"}
Finds(c) ==
  /\ InDirectory(c) => type[c.at] = "dir"
  /\ Linking(c) => type[c.ip] = "file"
  /\ c.then = "unlink2" => ents[c.at][Head(c.path)] = c.ip
CallsFind == \A p \in Procs : Finds(call[p])

-----------------------------------------------------------------------------
(* Names and links.                                                         *)
EntriesOK ==
  /\ \A i \in Inums : type[i] # "dir" => \A n \in Names \cup {".."} : ents[i][n] = None
  /\ \A i \in Inums : type[i] = "dir" => ents[i][".."] # None
  /\ ents[Root][".."] = Root

\* What a link of an inode stands for: a name, the ".." of a directory in it, a call
\* that has counted a link it did not make yet, or not one it has erased.
Claiming(c) == c.then = "unlink3" \/ Linking(c)
Pending(i) == {p \in Procs : call[p].ip = i /\ Claiming(call[p])}
SubNames(i) ==
  {n \in Names : type[i] = "dir" /\ ents[i][n] # None /\ type[ents[i][n]] = "dir"}
RootLink(i) == IF i = Root THEN 1 ELSE 0
Claims(i) ==
  Cardinality(NamesOf(i)) + Cardinality(SubNames(i)) + Cardinality(Pending(i)) + RootLink(i)
LinksCover ==
  \A i \in Inums :
    /\ nlink[i] >= Claims(i) /\ (~stray => nlink[i] = Claims(i))
    /\ type[i] = "free" => nlink[i] = 0

IsName(d, n, i) == type[d] = "dir" /\ ents[d][n] = i
Tree ==
  \A d, i \in Inums, n \in Names : IsName(d, n, i) /\ type[i] = "dir" =>
    /\ i # Root /\ ents[i][".."] = d /\ Pending(i) = {}
    /\ \A e \in Inums, m \in Names : IsName(e, m, i) => e = d /\ m = n
    /\ \A m \in Names : ents[i][m] # d
RemovedIsEmpty ==
  ~stray => \A i \in Inums \ {Root} : type[i] = "dir" /\ NamesOf(i) = {} => IsEmpty(i)

-----------------------------------------------------------------------------
(* What iput leaves.                                                        *)
Using(w, f, c, i) == w = i \/ f = i \/ c.at = i \/ c.ip = i \/ (c.put = i /\ ~c.tested)
Uses(q, i) == Using(cwd[q], fd[q], call[q], i)
OrphansAreUsed ==
  \A i \in Inums : type[i] # "free" /\ nlink[i] = 0 => i \in raced \/ \E q \in Procs : Uses(q, i)

IInv ==
  /\ InodeTypeOK /\ CallsOK /\ RefExact /\ LocksExact /\ CallsFind
  /\ EntriesOK /\ LinksCover /\ Tree /\ RemovedIsEmpty
  /\ NoUseAfterFree /\ NoCountPanic /\ OrphansAreUsed

-----------------------------------------------------------------------------
(* Counts.                                                                  *)
In(x, A) == IF x \in A THEN 1 ELSE 0
One(x, i) == IF x = i THEN 1 ELSE 0

\* Two sets that differ in one element at most.
LEMMA CountChange ==
  ASSUME NEW A, NEW B, IsFiniteSet(A), NEW x, A \ {x} = B \ {x}
  PROVE  /\ IsFiniteSet(B) /\ Cardinality(A) \in Nat /\ Cardinality(B) \in Nat
         /\ Cardinality(B) + In(x, A) = Cardinality(A) + In(x, B)
<1>1. PICK D : D = A \ {x}
  OBVIOUS
<1>2. IsFiniteSet(D) /\ Cardinality(D) \in Nat /\ x \notin D
  BY <1>1, FS_RemoveElement, FS_CardinalityType
<1>3. IsFiniteSet(D \cup {x}) /\ Cardinality(D \cup {x}) = Cardinality(D) + 1
  BY <1>2, FS_AddElement
<1>4. (x \in A => A = D \cup {x}) /\ (x \notin A => A = D)
  BY <1>1
<1>5. (x \in B => B = D \cup {x}) /\ (x \notin B => B = D)
  BY <1>1
<1>6. IsFiniteSet(B)
  BY <1>2, <1>3, <1>5
<1>7. Cardinality(A) = Cardinality(D) + In(x, A)
  <2>1. CASE x \in A
    BY <1>2, <1>3, <1>4, <2>1 DEF In
  <2>2. CASE x \notin A
    BY <1>2, <1>4, <2>2 DEF In
  <2> QED
    BY <2>1, <2>2
<1>8. Cardinality(B) = Cardinality(D) + In(x, B)
  BY <1>2, <1>3, <1>5 DEF In
<1>9. In(x, A) \in {0, 1} /\ In(x, B) \in {0, 1}
  BY DEF In
<1> QED
  BY <1>2, <1>6, <1>7, <1>8, <1>9

\* A set has at least as many elements as are known of it.
LEMMA CountTwo ==
  ASSUME NEW A, IsFiniteSet(A), NEW x, NEW y
  PROVE  /\ Cardinality(A) \in Nat /\ Cardinality(A) >= In(x, A)
         /\ x # y => Cardinality(A) >= In(x, A) + In(y, A)
<1>1. Cardinality(A) \in Nat
  BY FS_CardinalityType
<1>2. IsFiniteSet(A \ {x}) /\ Cardinality(A \ {x}) \in Nat
      /\ Cardinality(A \ {x}) = IF x \in A THEN Cardinality(A) - 1 ELSE Cardinality(A)
  BY FS_RemoveElement, FS_CardinalityType
<1>3. y \in A \ {x} => Cardinality(A \ {x}) # 0
  BY <1>2, FS_EmptySet
<1> QED
  BY <1>1, <1>2, <1>3 DEF In

\* A set with no elements is empty.
LEMMA CountNone ==
  ASSUME NEW A, IsFiniteSet(A)
  PROVE  Cardinality(A) \in Nat /\ (Cardinality(A) = 0 <=> A = {})
BY FS_EmptySet, FS_CardinalityType

\* The pointers to i in variables of all processes.
Holders(f, i) == {q \in Procs : f[q] = i}
AgreeBut(f, g, p) == \A q \in Procs \ {p} : g[q] = f[q]

\* One process exchanging what it holds moves one count down and one up.
LEMMA HeldChange ==
  ASSUME NEW f, NEW g, NEW p \in Procs, NEW i, AgreeBut(f, g, p)
  PROVE  /\ Cardinality(Holders(f, i)) \in Nat /\ Cardinality(Holders(g, i)) \in Nat
         /\ Cardinality(Holders(g, i)) + One(f[p], i) = Cardinality(Holders(f, i)) + One(g[p], i)
<1>1. IsFiniteSet(Holders(f, i))
  BY InodeSizes, FS_Subset DEF Holders
<1>2. Holders(f, i) \ {p} = Holders(g, i) \ {p}
  BY DEF Holders, AgreeBut
<1>3. In(p, Holders(f, i)) = One(f[p], i) /\ In(p, Holders(g, i)) = One(g[p], i)
  BY DEF Holders, In, One
<1>4. /\ Cardinality(Holders(f, i)) \in Nat /\ Cardinality(Holders(g, i)) \in Nat
      /\ Cardinality(Holders(g, i)) + In(p, Holders(f, i)) = Cardinality(Holders(f, i)) + In(p, Holders(g, i))
  BY <1>1, <1>2, CountChange
<1> QED
  BY <1>3, <1>4

\* What one process points to.
Points(w, f, c, i) ==
  One(w, i) + One(f, i) + One(c.at, i) + One(c.ip, i) + One(c.put, i)

AtOf == [q \in Procs |-> call[q].at]
IpOf == [q \in Procs |-> call[q].ip]
PutOf == [q \in Procs |-> call[q].put]
Sum5(a, b, c, d, e) == a + b + c + d + e

\* The references to an inode are those of the five places that hold one.
LEMMA RefsAre ==
  ASSUME NEW i
  PROVE  Held(i, cwd) + Held(i, fd) + InCalls(i) =
           Sum5(Cardinality(Holders(cwd, i)), Cardinality(Holders(fd, i)),
                Cardinality(Holders(AtOf, i)), Cardinality(Holders(IpOf, i)), Cardinality(Holders(PutOf, i)))
<1>1. /\ Held(i, cwd) = Cardinality(Holders(cwd, i)) /\ Held(i, fd) = Cardinality(Holders(fd, i))
      /\ {p \in Procs : call[p].at = i} = Holders(AtOf, i)
      /\ {p \in Procs : call[p].ip = i} = Holders(IpOf, i)
      /\ {p \in Procs : call[p].put = i} = Holders(PutOf, i)
  BY DEF Held, Holders, AtOf, IpOf, PutOf
<1>2. \A f : Cardinality(Holders(f, i)) \in Nat
  BY InodeSizes, FS_Subset, FS_CardinalityType DEF Holders
<1>3. InCalls(i) = Cardinality(Holders(AtOf, i)) + Cardinality(Holders(IpOf, i)) + Cardinality(Holders(PutOf, i))
  BY <1>1 DEF InCalls
<1> QED
  BY <1>1, <1>2, <1>3 DEF Sum5

\* References stay exact if a step counts what its process gains and loses.
LEMMA RefStep ==
  ASSUME InodeTypeOK, RefExact, NEW p \in Procs,
         \A q \in Procs \ {p} : cwd'[q] = cwd[q] /\ fd'[q] = fd[q] /\ call'[q] = call[q],
         ref' \in [Inums -> Int],
         \A i \in Inums : ref'[i] + Points(cwd[p], fd[p], call[p], i)
                          = ref[i] + Points(cwd'[p], fd'[p], call'[p], i)
  PROVE  RefExact' /\ ref' \in [Inums -> Nat]
<1>1. ASSUME NEW i \in Inums
      PROVE  ref'[i] = (Held(i, cwd) + Held(i, fd) + InCalls(i))' /\ ref'[i] \in Nat
  <2>1. /\ Cardinality(Holders(cwd, i)) \in Nat /\ Cardinality(Holders(cwd', i)) \in Nat
        /\ Cardinality(Holders(cwd', i)) + One(cwd[p], i) = Cardinality(Holders(cwd, i)) + One(cwd'[p], i)
    <3>1. AgreeBut(cwd, cwd', p)
      BY DEF AgreeBut
    <3> QED
      BY <3>1, HeldChange
  <2>2. /\ Cardinality(Holders(fd, i)) \in Nat /\ Cardinality(Holders(fd', i)) \in Nat
        /\ Cardinality(Holders(fd', i)) + One(fd[p], i) = Cardinality(Holders(fd, i)) + One(fd'[p], i)
    <3>1. AgreeBut(fd, fd', p)
      BY DEF AgreeBut
    <3> QED
      BY <3>1, HeldChange
  <2>3. /\ Cardinality(Holders(AtOf, i)) \in Nat /\ Cardinality(Holders(AtOf', i)) \in Nat
        /\ Cardinality(Holders(AtOf', i)) + One(call[p].at, i) = Cardinality(Holders(AtOf, i)) + One(call'[p].at, i)
    <3>1. AtOf[p] = call[p].at /\ AtOf'[p] = call'[p].at /\ AgreeBut(AtOf, AtOf', p)
      BY DEF AtOf, AgreeBut
    <3> QED
      BY <3>1, HeldChange
  <2>4. /\ Cardinality(Holders(IpOf, i)) \in Nat /\ Cardinality(Holders(IpOf', i)) \in Nat
        /\ Cardinality(Holders(IpOf', i)) + One(call[p].ip, i) = Cardinality(Holders(IpOf, i)) + One(call'[p].ip, i)
    <3>1. IpOf[p] = call[p].ip /\ IpOf'[p] = call'[p].ip /\ AgreeBut(IpOf, IpOf', p)
      BY DEF IpOf, AgreeBut
    <3> QED
      BY <3>1, HeldChange
  <2>5. /\ Cardinality(Holders(PutOf, i)) \in Nat /\ Cardinality(Holders(PutOf', i)) \in Nat
        /\ Cardinality(Holders(PutOf', i)) + One(call[p].put, i) = Cardinality(Holders(PutOf, i)) + One(call'[p].put, i)
    <3>1. PutOf[p] = call[p].put /\ PutOf'[p] = call'[p].put /\ AgreeBut(PutOf, PutOf', p)
      BY DEF PutOf, AgreeBut
    <3> QED
      BY <3>1, HeldChange
  <2>6. ref[i] = Sum5(Cardinality(Holders(cwd, i)), Cardinality(Holders(fd, i)),
                Cardinality(Holders(AtOf, i)), Cardinality(Holders(IpOf, i)), Cardinality(Holders(PutOf, i)))
    BY RefsAre DEF RefExact
  <2>7. ref'[i] = Sum5(Cardinality(Holders(cwd', i)), Cardinality(Holders(fd', i)),
                Cardinality(Holders(AtOf', i)), Cardinality(Holders(IpOf', i)), Cardinality(Holders(PutOf', i)))
    <3>1. ref'[i] + Points(cwd[p], fd[p], call[p], i) = ref[i] + Points(cwd'[p], fd'[p], call'[p], i)
          /\ ref'[i] \in Int
      OBVIOUS
    <3>2. \A x : One(x, i) \in {0, 1}
      BY DEF One
    <3> QED
      BY <2>1, <2>2, <2>3, <2>4, <2>5, <2>6, <3>1, <3>2, SMTT(30) DEF Points, Sum5
  <2>8. (Held(i, cwd) + Held(i, fd) + InCalls(i))' =
           Sum5(Cardinality(Holders(cwd', i)), Cardinality(Holders(fd', i)),
                Cardinality(Holders(AtOf', i)), Cardinality(Holders(IpOf', i)), Cardinality(Holders(PutOf', i)))
    <3>1. Held(i, cwd) + Held(i, fd) + InCalls(i) =
           Sum5(Cardinality(Holders(cwd, i)), Cardinality(Holders(fd, i)),
                Cardinality(Holders(AtOf, i)), Cardinality(Holders(IpOf, i)), Cardinality(Holders(PutOf, i)))
      BY RefsAre
    <3>2. (Held(i, cwd) + Held(i, fd) + InCalls(i) =
           Sum5(Cardinality(Holders(cwd, i)), Cardinality(Holders(fd, i)),
                Cardinality(Holders(AtOf, i)), Cardinality(Holders(IpOf, i)), Cardinality(Holders(PutOf, i))))'
      BY RefsAre, PTL
    <3> QED
      BY <3>2 DEF Holders, Sum5
  <2> QED
    BY <2>1, <2>2, <2>3, <2>4, <2>5, <2>7, <2>8 DEF Sum5
<1> QED
  BY <1>1 DEF RefExact, Held, InCalls

\* One process, or two, that point to an inode hold references to it.
LEMMA Referenced ==
  ASSUME InodeTypeOK, RefExact, NEW p \in Procs, NEW q \in Procs, NEW i \in Inums
  PROVE  /\ ref[i] \in Nat /\ ref[i] >= Points(cwd[p], fd[p], call[p], i)
         /\ p # q => ref[i] >= Points(cwd[p], fd[p], call[p], i) + Points(cwd[q], fd[q], call[q], i)
<1>1. ASSUME NEW f
      PROVE  /\ Cardinality(Holders(f, i)) \in Nat /\ Cardinality(Holders(f, i)) >= One(f[p], i)
             /\ p # q => Cardinality(Holders(f, i)) >= One(f[p], i) + One(f[q], i)
  <2>1. IsFiniteSet(Holders(f, i))
    BY InodeSizes, FS_Subset DEF Holders
  <2>2. In(p, Holders(f, i)) = One(f[p], i) /\ In(q, Holders(f, i)) = One(f[q], i)
    BY DEF Holders, In, One
  <2> QED
    BY <2>1, <2>2, CountTwo
<1>2. /\ AtOf[p] = call[p].at /\ AtOf[q] = call[q].at /\ IpOf[p] = call[p].ip
      /\ IpOf[q] = call[q].ip /\ PutOf[p] = call[p].put /\ PutOf[q] = call[q].put
  BY DEF AtOf, IpOf, PutOf
<1>3. ref[i] = Sum5(Cardinality(Holders(cwd, i)), Cardinality(Holders(fd, i)),
              Cardinality(Holders(AtOf, i)), Cardinality(Holders(IpOf, i)), Cardinality(Holders(PutOf, i)))
  BY RefsAre DEF RefExact
<1>4. /\ Cardinality(Holders(cwd, i)) \in Nat /\ Cardinality(Holders(cwd, i)) >= One(cwd[p], i)
      /\ p # q => Cardinality(Holders(cwd, i)) >= One(cwd[p], i) + One(cwd[q], i)
  BY <1>1
<1>5. /\ Cardinality(Holders(fd, i)) \in Nat /\ Cardinality(Holders(fd, i)) >= One(fd[p], i)
      /\ p # q => Cardinality(Holders(fd, i)) >= One(fd[p], i) + One(fd[q], i)
  BY <1>1
<1>6. /\ Cardinality(Holders(AtOf, i)) \in Nat /\ Cardinality(Holders(AtOf, i)) >= One(call[p].at, i)
      /\ p # q => Cardinality(Holders(AtOf, i)) >= One(call[p].at, i) + One(call[q].at, i)
  BY <1>1, <1>2
<1>7. /\ Cardinality(Holders(IpOf, i)) \in Nat /\ Cardinality(Holders(IpOf, i)) >= One(call[p].ip, i)
      /\ p # q => Cardinality(Holders(IpOf, i)) >= One(call[p].ip, i) + One(call[q].ip, i)
  BY <1>1, <1>2
<1>8. /\ Cardinality(Holders(PutOf, i)) \in Nat /\ Cardinality(Holders(PutOf, i)) >= One(call[p].put, i)
      /\ p # q => Cardinality(Holders(PutOf, i)) >= One(call[p].put, i) + One(call[q].put, i)
  BY <1>1, <1>2
<1>9. \A x : One(x, i) \in {0, 1}
  BY DEF One
<1> QED
  BY <1>3, <1>4, <1>5, <1>6, <1>7, <1>8, <1>9 DEF Points, Sum5

-----------------------------------------------------------------------------
(* How a call goes on.                                                      *)
Becomes(d, op, stage, at, ip, put, path) ==
  /\ d \in CallType /\ d.op = op /\ d.then = stage /\ d.at = at /\ d.ip = ip /\ d.put = put
  /\ d.path = path /\ (put # None => d.tested = FALSE)

\* What a call is once it gives an inode to iput.
LEMMA PutIs ==
  ASSUME NEW c \in CallType, NEW i \in InumOrNone, NEW stage \in Stages
  PROVE  Becomes(Put(c, i, stage), c.op, stage, c.at, c.ip, i, c.path)
BY DEF Becomes, CallType, Put

\* The same, of the inode it walked to.
LEMMA PutAtIs ==
  ASSUME NEW c \in CallType, NEW stage \in Stages
  PROVE  Becomes(PutAt(c, stage), c.op, stage, None, c.ip, c.at, c.path)
BY DEF Becomes, CallType, Put, PutAt, InumOrNone

\* The same, of the inode beside it.
LEMMA PutIpIs ==
  ASSUME NEW c \in CallType, NEW stage \in Stages
  PROVE  Becomes(PutIp(c, stage), c.op, stage, c.at, None, c.ip, c.path)
BY DEF Becomes, CallType, Put, PutIp, InumOrNone

\* The other records the calls go on with.
LEMMA NextIs ==
  ASSUME NEW c \in CallType, NEW next \in InumOrNone, c.path # <<>>
  PROVE  Becomes([Put(c, c.at, "walk") EXCEPT !.at = next, !.path = Tail(c.path)],
                 c.op, "walk", next, c.ip, c.at, Tail(c.path))
<1>1. Tail(c.path) \in Seq(Elements)
  BY DEF CallType
<1>2. PICK t \in Seq(Elements) : t = Tail(c.path)
  BY <1>1
<1>3. PICK d \in CallType : d = Put(c, c.at, "walk") /\ Becomes(d, c.op, "walk", c.at, c.ip, c.at, c.path)
  <2>1. c.at \in InumOrNone /\ "walk" \in Stages
    BY DEF CallType, Stages
  <2> QED
    BY <2>1, PutIs DEF Becomes
<1>4. Becomes([d EXCEPT !.at = next, !.path = t], c.op, "walk", next, c.ip, c.at, t)
  BY <1>3 DEF Becomes, CallType
<1> QED
  BY <1>2, <1>3, <1>4

\* What a call is at another stage that drops nothing.
LEMMA ThereIs ==
  ASSUME NEW c \in CallType, NEW stage \in Stages, c.put = None
  PROVE  Becomes([c EXCEPT !.then = stage], c.op, stage, c.at, c.ip, None, c.path)
BY DEF Becomes, CallType

\* What sys_open leaves of a call when it gives both inodes back.
LEMMA OpensIs ==
  ASSUME NEW c \in CallType, NEW i \in InumOrNone
  PROVE  Becomes([Put(c, i, "end") EXCEPT !.at = None, !.ip = None], c.op, "end", None, None, i, c.path)
BY DEF Becomes, CallType, Put, InumOrNone, Stages

\* What sys_chdir leaves of a call.
LEMMA ChdirIs ==
  ASSUME NEW c \in CallType, NEW i \in InumOrNone
  PROVE  Becomes([Put(c, i, "end") EXCEPT !.at = None], c.op, "end", None, c.ip, i, c.path)
BY DEF Becomes, CallType, Put, InumOrNone, Stages

\* What a call is once create has the inode and puts the parent.
LEMMA FoundIs ==
  ASSUME NEW c \in CallType, NEW i \in InumOrNone, NEW stage \in Stages
  PROVE  Becomes([PutAt(c, stage) EXCEPT !.ip = i], c.op, stage, None, i, c.at, c.path)
BY DEF Becomes, CallType, Put, PutAt, InumOrNone

\* What a call is once sys_unlink has looked its name up.
LEMMA UnlinkIs ==
  ASSUME NEW c \in CallType, NEW i \in InumOrNone, c.put = None
  PROVE  Becomes([c EXCEPT !.then = "unlink2", !.ip = i], c.op, "unlink2", c.at, i, None, c.path)
BY DEF Becomes, CallType, Stages

\* What a call is once sys_link turns to the new path.
LEMMA LinkIs ==
  ASSUME NEW c \in CallType, NEW d \in InumOrNone, c.put = None
  PROVE  Becomes([c EXCEPT !.op = "link2", !.ip = c.at, !.at = d, !.path = c.to.names],
                 "link2", c.then, d, c.at, None, c.to.names)
BY DEF Becomes, CallType, Ops

\* What a process in user mode is.
LEMMA NoCallIs ==
  NoCall \in CallType /\ Becomes(NoCall, "none", "user", None, None, None, <<>>)
BY DEF Becomes, NoCall, CallType, InumOrNone, Ops, Stages

\* What sys_close is: one iput.
LEMMA CloseIs ==
  ASSUME NEW i \in InumOrNone
  PROVE  Becomes([Put(NoCall, i, "end") EXCEPT !.op = "close"], "close", "end", None, None, i, <<>>)
BY NoCallIs DEF Becomes, CallType, Put, InumOrNone, Stages, Ops

\* What a call is at the start of its path.
LEMMA BeginIs ==
  ASSUME NEW op \in Ops, NEW i \in InumOrNone, NEW path \in Seq(Elements),
         NEW to \in [abs : BOOLEAN, names : Seq(Elements)]
  PROVE  Becomes([NoCall EXCEPT !.op = op, !.then = "walk", !.at = i, !.path = path, !.to = to],
                 op, "walk", i, None, None, path)
BY NoCallIs DEF Becomes, CallType, InumOrNone, Stages, Ops

\* What a call is after the second half of iput.
LEMMA DroppedIs ==
  ASSUME NEW c \in CallType
  PROVE  Becomes([c EXCEPT !.put = None], c.op, c.then, c.at, c.ip, None, c.path)
BY DEF Becomes, CallType, InumOrNone

\* What a call is after the first half of iput.
LEMMA TestedIs ==
  ASSUME NEW c \in CallType
  PROVE  LET d == [c EXCEPT !.tested = TRUE]
         IN  /\ d \in CallType /\ d.op = c.op /\ d.then = c.then /\ d.at = c.at /\ d.ip = c.ip
             /\ d.put = c.put /\ d.path = c.path /\ d.tested = TRUE
BY DEF CallType

-----------------------------------------------------------------------------
(* A step of p.  What the other processes hold stays.                       *)
OthersStay(p) ==
  \A q \in Procs \ {p} : cwd'[q] = cwd[q] /\ fd'[q] = fd[q] /\ call'[q] = call[q]

\* The lock of a call moves to where its next stage keeps it.
LockMoves(p) ==
  \A i \in Inums :
    /\ lock'[i] = IF LockIn(call'[p]) = i THEN p
                  ELSE IF LockIn(call[p]) = i THEN NoProc ELSE lock[i]
    /\ LockIn(call'[p]) = i => lock[i] \in {p, NoProc}

\* Locks stay exact if a step moves its process's own lock only.
LEMMA LocksStep ==
  ASSUME LocksExact, NEW p \in Procs, OthersStay(p), LockMoves(p)
  PROVE  LocksExact'
<1> SUFFICES ASSUME NEW q \in Procs, NEW i \in Inums PROVE lock'[i] = q <=> LockIn(call'[q]) = i
  BY DEF LocksExact, LockIn
<1>1. (lock[i] = q <=> LockIn(call[q]) = i) /\ (lock[i] = p <=> LockIn(call[p]) = i)
  BY DEF LocksExact
<1>2. /\ lock'[i] = IF LockIn(call'[p]) = i THEN p
                    ELSE IF LockIn(call[p]) = i THEN NoProc ELSE lock[i]
      /\ LockIn(call'[p]) = i => lock[i] \in {p, NoProc}
  BY DEF LockMoves
<1>3. q # p => call'[q] = call[q]
  BY DEF OthersStay
<1>4. p # NoProc /\ q # NoProc
  BY InodeSizes
<1> QED
  BY <1>1, <1>2, <1>3, <1>4

\* A step that changes no name and no claim of its call leaves the claims on every
\* inode.
LEMMA ClaimsStep ==
  ASSUME NEW p \in Procs, OthersStay(p), UNCHANGED inodeVars,
         Claiming(call'[p]) <=> Claiming(call[p]),
         Claiming(call[p]) => call'[p].ip = call[p].ip
  PROVE  /\ \A i : Pending(i)' = Pending(i)
         /\ \A i : Claims(i)' = Claims(i)
<1>1. ASSUME NEW i PROVE Pending(i)' = Pending(i)
  <2>1. \A q \in Procs : (call'[q].ip = i /\ Claiming(call'[q])) <=> (call[q].ip = i /\ Claiming(call[q]))
    BY DEF OthersStay
  <2> QED
    BY <2>1 DEF Pending, Claiming, Linking
<1>2. \A i : NamesOf(i)' = NamesOf(i) /\ SubNames(i)' = SubNames(i)
  BY DEF NamesOf, SubNames, inodeVars
<1> QED
  BY <1>1, <1>2 DEF Claims

\* A reference that goes, if to a freed inode, is the last one.
Frees(p) ==
  \A i \in Inums : type[i] = "free" /\ ~stray' =>
    \/ ref'[i] = ref[i] /\ (call[p].put = i /\ call[p].tested => call'[p].put = i /\ call'[p].tested)
    \/ ref'[i] = 0

\* What p uses it goes on to use, if only to put it.
GoesOnUsing(p) ==
  \A i \in Inums : Uses(p, i) => Using(cwd'[p], fd'[p], call'[p], i)

\* A step that changes no inode and no entry.
Still(p) ==
  /\ UNCHANGED inodeVars /\ OthersStay(p)
  /\ cwd' \in [Procs -> Inums] /\ fd' \in [Procs -> InumOrNone]
  /\ call' \in [Procs -> CallType] /\ Shape(call'[p]) /\ Finds(call'[p])
  /\ lock' \in [Inums -> Procs \cup {NoProc}] /\ LockMoves(p)
  /\ Claiming(call'[p]) <=> Claiming(call[p])
  /\ Claiming(call[p]) => call'[p].ip = call[p].ip
  /\ ref' \in [Inums -> Int]
  /\ \A i \in Inums : ref'[i] + Points(cwd[p], fd[p], call[p], i)
                      = ref[i] + Points(cwd'[p], fd'[p], call'[p], i)
  /\ (~stray' => ~stray) /\ NoCountPanic' /\ Frees(p)

Quiet(p) == Still(p) /\ raced' = raced /\ GoesOnUsing(p)

\* Types after a step, from those of each variable.
LEMMA TypesStep ==
  ASSUME type' \in [Inums -> {"free", "dir", "file"}], nlink' \in [Inums -> Nat],
         ref' \in [Inums -> Nat],
         ents' \in [Inums -> [Names \cup {".."} -> Inums \cup {None}]],
         lock' \in [Inums -> Procs \cup {NoProc}],
         cwd' \in [Procs -> Inums], fd' \in [Procs -> InumOrNone], call' \in [Procs -> CallType]
  PROVE  InodeTypeOK'
<1>1. \A p \in Procs : {call'[p].at, call'[p].ip, call'[p].put} \subseteq Inums \cup {None}
  BY DEF CallType, InumOrNone
<1> QED
  BY <1>1 DEF InodeTypeOK, InumOrNone

\* Calls keep their shapes if the one that moves does.
LEMMA CallsStep ==
  ASSUME CallsOK, NEW p \in Procs, OthersStay(p), call' \in [Procs -> CallType], Shape(call'[p])
  PROVE  CallsOK'
BY DEF CallsOK, OthersStay, Shape, WantsParent

\* An inode without links stays used if the process of the step goes on using it.
LEMMA OrphansStep ==
  ASSUME OrphansAreUsed, NEW p \in Procs, OthersStay(p), GoesOnUsing(p), UNCHANGED <<inodeVars, raced>>
  PROVE  OrphansAreUsed'
<1> SUFFICES ASSUME NEW i \in Inums, type[i] # "free", nlink[i] = 0
             PROVE  i \in raced \/ \E q \in Procs : Using(cwd'[q], fd'[q], call'[q], i)
  BY DEF OrphansAreUsed, Uses, Using, inodeVars
<1>1. ASSUME NEW q \in Procs, Uses(q, i) PROVE Using(cwd'[q], fd'[q], call'[q], i)
  BY <1>1 DEF GoesOnUsing, OthersStay, Uses
<1> QED
  BY <1>1 DEF OrphansAreUsed

\* Nothing in use is freed by a step that frees nothing and adds no use of what is free.
LEMMA UseStep ==
  ASSUME NoUseAfterFree, NEW p \in Procs, OthersStay(p), Frees(p), type' = type,
         ref' \in [Inums -> Nat], ~stray' => ~stray
  PROVE  NoUseAfterFree'
<1> SUFFICES ASSUME ~stray', NEW i \in Inums, type[i] = "free", ref'[i] > 0
             PROVE  ref'[i] = 1 /\ \E q \in Procs : call'[q].put = i /\ call'[q].tested
  BY DEF NoUseAfterFree
<1>1. ref'[i] = ref[i] /\ (call[p].put = i /\ call[p].tested => call'[p].put = i /\ call'[p].tested)
  BY DEF Frees
<1>2. PICK q \in Procs : ref[i] = 1 /\ call[q].put = i /\ call[q].tested
  BY <1>1 DEF NoUseAfterFree
<1>3. CASE q = p
  BY <1>1, <1>2, <1>3
<1>4. CASE q # p
  BY <1>1, <1>2, <1>4 DEF OthersStay
<1> QED
  BY <1>3, <1>4

\* Still keeps the invariant.
LEMMA StillKeeps ==
  ASSUME IInv, NEW p \in Procs, Still(p), OrphansAreUsed'
  PROVE  IInv'
<1>1. RefExact' /\ ref' \in [Inums -> Nat]
  BY RefStep DEF IInv, Still, OthersStay
<1>2. InodeTypeOK'
  <2>1. type' = type /\ nlink' = nlink /\ ents' = ents
    BY DEF Still, inodeVars
  <2> QED
    BY <1>1, <2>1, TypesStep DEF IInv, Still, InodeTypeOK
<1>3. CallsOK' /\ LocksExact'
  BY CallsStep, LocksStep DEF IInv, Still
<1>4. CallsFind'
  <2>1. ASSUME NEW q \in Procs PROVE Finds(call'[q])
    BY DEF IInv, CallsFind, Still, OthersStay
  <2> QED
    BY <2>1 DEF CallsFind, Finds, InDirectory, Linking, Still, inodeVars
<1>5. /\ \A i : Pending(i)' = Pending(i) /\ Claims(i)' = Claims(i)
      /\ UNCHANGED inodeVars /\ (~stray' => ~stray)
  BY ClaimsStep DEF Still
<1>6. EntriesOK'
  BY <1>5 DEF IInv, EntriesOK, inodeVars
<1>7. LinksCover'
  BY <1>5 DEF IInv, LinksCover, inodeVars
<1>8. Tree'
  BY <1>5 DEF IInv, Tree, IsName, inodeVars
<1>9. RemovedIsEmpty'
  BY <1>5 DEF IInv, RemovedIsEmpty, NamesOf, IsEmpty, inodeVars
<1>10. NoUseAfterFree' /\ NoCountPanic'
  BY <1>1, <1>5, UseStep DEF IInv, Still, inodeVars
<1> QED
  BY <1>1, <1>2, <1>3, <1>4, <1>6, <1>7, <1>8, <1>9, <1>10 DEF IInv

\* Quiet keeps the invariant.
LEMMA QuietKeeps ==
  ASSUME IInv, NEW p \in Procs, Quiet(p)
  PROVE  IInv'
<1>1. OrphansAreUsed'
  BY OrphansStep DEF IInv, Quiet, Still
<1> QED
  BY <1>1, StillKeeps DEF Quiet

-----------------------------------------------------------------------------
(* What the invariant says of links.                                        *)
LEMMA ClaimsAreFinite ==
  ASSUME InodeTypeOK, NEW i \in Inums
  PROVE  IsFiniteSet(NamesOf(i)) /\ IsFiniteSet(SubNames(i)) /\ IsFiniteSet(Pending(i))
<1>1. IsFiniteSet(Inums)
  <2>1. 1 \in Int /\ NINODES \in Int
    BY InodeSizes
  <2> QED
    BY <2>1, FS_Interval DEF Inums
<1>2. IsFiniteSet(Inums \X Names)
  BY <1>1, InodeSizes, FS_Product
<1>3. NamesOf(i) \subseteq Inums \X Names /\ SubNames(i) \subseteq Names /\ Pending(i) \subseteq Procs
  BY DEF NamesOf, SubNames, Pending
<1> QED
  BY <1>2, <1>3, InodeSizes, FS_Subset

\* The numbers that links are made of.
LEMMA ClaimsAre ==
  ASSUME InodeTypeOK, LinksCover, NEW i \in Inums
  PROVE  /\ Cardinality(NamesOf(i)) \in Nat /\ Cardinality(SubNames(i)) \in Nat
         /\ Cardinality(Pending(i)) \in Nat /\ RootLink(i) \in {0, 1} /\ nlink[i] \in Nat
         /\ nlink[i] >= Cardinality(NamesOf(i)) + Cardinality(SubNames(i)) + Cardinality(Pending(i)) + RootLink(i)
         /\ ~stray => nlink[i] = Cardinality(NamesOf(i)) + Cardinality(SubNames(i))
                                 + Cardinality(Pending(i)) + RootLink(i)
         /\ type[i] = "free" => nlink[i] = 0
         /\ NamesOf(i) # {} => Cardinality(NamesOf(i)) >= 1
         /\ SubNames(i) # {} => Cardinality(SubNames(i)) >= 1
         /\ Pending(i) # {} => Cardinality(Pending(i)) >= 1
<1>1. /\ Cardinality(NamesOf(i)) \in Nat /\ Cardinality(SubNames(i)) \in Nat
      /\ Cardinality(Pending(i)) \in Nat
      /\ NamesOf(i) # {} => Cardinality(NamesOf(i)) # 0
      /\ SubNames(i) # {} => Cardinality(SubNames(i)) # 0
      /\ Pending(i) # {} => Cardinality(Pending(i)) # 0
  BY ClaimsAreFinite, CountNone
<1>2. RootLink(i) \in {0, 1} /\ nlink[i] \in Nat
  BY DEF RootLink, InodeTypeOK
<1>3. nlink[i] >= Claims(i) /\ (~stray => nlink[i] = Claims(i)) /\ (type[i] = "free" => nlink[i] = 0)
  BY DEF LinksCover
<1> QED
  BY <1>1, <1>2, <1>3 DEF Claims

\* The root is not freed.
LEMMA RootIs ==
  ASSUME IInv
  PROVE  Root \in Inums /\ nlink[Root] >= 1 /\ type[Root] # "free"
<1>1. Root \in Inums
  BY InodeSizes DEF Root, Inums
<1>2. RootLink(Root) = 1
  BY DEF RootLink
<1> QED
  BY <1>1, <1>2, ClaimsAre DEF IInv

\* Every name leads to an inode with a link, which is not free.
LEMMA NameIs ==
  ASSUME IInv, NEW d \in Inums, NEW n \in Names, type[d] = "dir", ents[d][n] # None
  PROVE  ents[d][n] \in Inums /\ nlink[ents[d][n]] >= 1 /\ type[ents[d][n]] # "free"
         /\ <<d, n>> \in NamesOf(ents[d][n])
<1>1. PICK i \in Inums : i = ents[d][n]
  BY DEF IInv, InodeTypeOK
<1>2. <<d, n>> \in NamesOf(i)
  BY <1>1 DEF NamesOf
<1>3. nlink[i] >= 1
  BY <1>2, ClaimsAre DEF IInv
<1> QED
  BY <1>1, <1>2, <1>3, ClaimsAre DEF IInv

\* Only a file is being linked, and only under its lock is an inode being unlinked.
LEMMA NotPending ==
  ASSUME IInv, NEW d \in Inums, type[d] = "dir", lock[d] = NoProc
  PROVE  Pending(d) = {}
<1> SUFFICES ASSUME NEW q \in Procs, call[q].ip = d, Claiming(call[q]) PROVE FALSE
  BY DEF Pending
<1>1. Finds(call[q]) /\ (lock[d] = q <=> LockIn(call[q]) = d)
  BY DEF IInv, CallsFind, LocksExact
<1>2. CASE call[q].then = "unlink3"
  BY <1>1, <1>2, InodeSizes DEF LockIn
<1>3. CASE Linking(call[q])
  BY <1>1, <1>3 DEF Finds
<1> QED
  BY <1>2, <1>3 DEF Claiming

\* A directory with links has a name.
LEMMA LiveHasName ==
  ASSUME IInv, ~stray, NEW d \in Inums \ {Root}, type[d] = "dir", Pending(d) = {}, nlink[d] # 0
  PROVE  NamesOf(d) # {}
<1> SUFFICES ASSUME NamesOf(d) = {} PROVE FALSE
  OBVIOUS
<1>1. IsEmpty(d)
  BY DEF IInv, RemovedIsEmpty
<1>2. SubNames(d) = {}
  BY <1>1 DEF IsEmpty, SubNames
<1>3. Cardinality(NamesOf(d)) = 0 /\ Cardinality(SubNames(d)) = 0 /\ Cardinality(Pending(d)) = 0
  BY <1>2, FS_EmptySet
<1>4. RootLink(d) = 0
  BY DEF RootLink
<1>5. nlink[d] = Cardinality(NamesOf(d)) + Cardinality(SubNames(d)) + Cardinality(Pending(d)) + RootLink(d)
  BY ClaimsAre DEF IInv
<1> QED
  BY <1>3, <1>4, <1>5

\* Its parent is a directory.
LEMMA ParentIs ==
  ASSUME IInv, ~stray, NEW d \in Inums, type[d] = "dir", Pending(d) = {}, nlink[d] # 0
  PROVE  ents[d][".."] \in Inums /\ type[ents[d][".."]] # "free"
<1>1. CASE d = Root
  BY <1>1, RootIs DEF IInv, EntriesOK
<1>2. CASE d # Root
  <2>1. PICK x \in NamesOf(d) : TRUE
    BY <1>2, LiveHasName
  <2>2. PICK e \in Inums, n \in Names : x = <<e, n>> /\ type[e] = "dir" /\ ents[e][n] = d
    BY <2>1 DEF NamesOf
  <2>3. ents[d][".."] = e
    BY <2>2 DEF IInv, Tree, IsName
  <2> QED
    BY <2>2, <2>3
<1> QED
  BY <1>1, <1>2

\* What is found in a directory that was not removed is not free.
LEMMA LookupIs ==
  ASSUME IInv, NEW d \in Inums, type[d] = "dir", NEW n \in Elements
  PROVE  /\ Lookup(d, n) \in InumOrNone
         /\ ~stray /\ nlink[d] # 0 /\ lock[d] = NoProc /\ Lookup(d, n) # None =>
              type[Lookup(d, n)] # "free"
         /\ n \notin Names => Lookup(d, n) # None
<1>1. CASE n = "."
  BY <1>1, InodeSizes DEF Lookup, InumOrNone, Inums, None
<1>2. CASE n = ".."
  <2>1. Lookup(d, n) = ents[d][".."] /\ ents[d][".."] # None /\ ents[d][".."] \in InumOrNone
    BY <1>2 DEF Lookup, IInv, EntriesOK, InodeTypeOK, InumOrNone
  <2> QED
    BY <1>2, <2>1, ParentIs, NotPending
<1>3. CASE n \in Names
  <2>1. Lookup(d, n) = ents[d][n] /\ ents[d][n] \in InumOrNone
    BY <1>3, InodeSizes DEF Lookup, IInv, InodeTypeOK, InumOrNone
  <2> QED
    BY <1>3, <2>1, NameIs
<1> QED
  BY <1>1, <1>2, <1>3 DEF Elements

-----------------------------------------------------------------------------
(* What the invariant says of references.                                   *)
LEMMA OnlyReference ==
  ASSUME IInv, NEW p \in Procs, NEW q \in Procs, NEW i \in Inums,
         call[p].put = i, q # p \/ cwd[q] = i \/ fd[q] = i \/ call[q].at = i \/ call[q].ip = i,
         cwd[q] = i \/ fd[q] = i \/ call[q].at = i \/ call[q].ip = i \/ call[q].put = i
  PROVE  ref[i] \in Nat /\ ref[i] >= 2
<1>1. /\ ref[i] \in Nat /\ ref[i] >= Points(cwd[p], fd[p], call[p], i)
      /\ p # q => ref[i] >= Points(cwd[p], fd[p], call[p], i) + Points(cwd[q], fd[q], call[q], i)
  BY Referenced DEF IInv
<1>2. \A x : One(x, i) \in {0, 1} /\ (x = i => One(x, i) = 1)
  BY DEF One
<1>3. CASE p = q
  <2>1. Points(cwd[p], fd[p], call[p], i) >= 2
    BY <1>2, <1>3 DEF Points
  <2> QED
    BY <1>1, <1>2, <2>1 DEF Points
<1>4. CASE p # q
  <2>1. Points(cwd[p], fd[p], call[p], i) >= 1 /\ Points(cwd[p], fd[p], call[p], i) \in Nat
    BY <1>2 DEF Points
  <2>2. Points(cwd[q], fd[q], call[q], i) >= 1 /\ Points(cwd[q], fd[q], call[q], i) \in Nat
    BY <1>2 DEF Points
  <2> QED
    BY <1>1, <1>4, <2>1, <2>2
<1> QED
  BY <1>3, <1>4

\* What is in use is not free, as long as no call strayed.
LEMMA InUse ==
  ASSUME IInv, ~stray, NEW q \in Procs, NEW i \in Inums,
         cwd[q] = i \/ fd[q] = i \/ call[q].at = i \/ call[q].ip = i
  PROVE  type[i] # "free"
<1> SUFFICES ASSUME type[i] = "free" PROVE FALSE
  OBVIOUS
<1>1. ref[i] \in Nat /\ ref[i] >= 1
  <2>1. ref[i] \in Nat /\ ref[i] >= Points(cwd[q], fd[q], call[q], i)
    BY Referenced DEF IInv
  <2>2. \A x : One(x, i) \in {0, 1} /\ (x = i => One(x, i) = 1)
    BY DEF One
  <2>3. Points(cwd[q], fd[q], call[q], i) >= 1
    BY <2>2 DEF Points
  <2> QED
    BY <2>1, <2>2, <2>3 DEF Points
<1>2. PICK p \in Procs : ref[i] = 1 /\ call[p].put = i
  BY <1>1 DEF IInv, NoUseAfterFree
<1> QED
  BY <1>2, OnlyReference

-----------------------------------------------------------------------------
(* A step of a call that has nothing to put.                                *)
LEMMA SameLock ==
  ASSUME IInv, NEW p \in Procs, lock' = lock, LockIn(call'[p]) = LockIn(call[p])
  PROVE  lock' \in [Inums -> Procs \cup {NoProc}] /\ LockMoves(p)
BY DEF IInv, InodeTypeOK, LocksExact, LockMoves

\* A step that changes neither names nor links keeps the invariant if what it moves is
\* counted.
LEMMA QuietStep ==
  ASSUME IInv, NEW p \in Procs, call[p].put = None,
         NEW d \in CallType, NEW w \in Inums, NEW f \in InumOrNone, NEW g \in InumOrNone,
         call' = [call EXCEPT ![p] = d], cwd' = [cwd EXCEPT ![p] = w], fd' = [fd EXCEPT ![p] = f],
         ref' = IF g = None THEN ref ELSE [ref EXCEPT ![g] = @ + 1],
         d.put # None => d.tested = FALSE,
         Shape(d), Finds(d), Claiming(d) <=> Claiming(call[p]), Claiming(d) => d.ip = call[p].ip,
         \A i \in Inums : One(g, i) + Points(cwd[p], fd[p], call[p], i) = Points(w, f, d, i),
         lock' \in [Inums -> Procs \cup {NoProc}], LockMoves(p),
         UNCHANGED <<inodeVars, raced, panicked>>, ~stray' => ~stray,
         g # None /\ ~stray' => type[g] # "free"
  PROVE  IInv'
<1>1. call'[p] = d /\ cwd'[p] = w /\ fd'[p] = f /\ OthersStay(p)
  BY DEF IInv, InodeTypeOK, CallsOK, OthersStay
<1>2. /\ cwd' \in [Procs -> Inums] /\ fd' \in [Procs -> InumOrNone] /\ call' \in [Procs -> CallType]
  BY DEF IInv, InodeTypeOK, CallsOK, InumOrNone
<1>3. ref' \in [Inums -> Int] /\ \A i \in Inums : ref[i] \in Nat /\ ref'[i] = ref[i] + One(g, i)
  <2>1. ref \in [Inums -> Nat]
    BY DEF IInv, InodeTypeOK
  <2>2. CASE g = None
    <3>1. \A i \in Inums : One(g, i) = 0
      BY <2>2 DEF One, Inums, None
    <3> QED
      BY <2>1, <2>2, <3>1
  <2>3. CASE g # None
    <3>1. g \in Inums /\ ref' = [ref EXCEPT ![g] = @ + 1]
      BY <2>3 DEF InumOrNone
    <3>2. \A i \in Inums : ref'[i] = IF i = g THEN ref[i] + 1 ELSE ref[i]
      BY <2>1, <3>1
    <3>3. ref' \in [Inums -> Int]
      BY <2>1, <3>1
    <3> QED
      BY <2>1, <3>2, <3>3 DEF One
  <2> QED
    BY <2>2, <2>3
<1>4. \A i \in Inums : ref'[i] + Points(cwd[p], fd[p], call[p], i) = ref[i] + Points(w, f, d, i)
  <2> SUFFICES ASSUME NEW i \in Inums
               PROVE  ref'[i] + Points(cwd[p], fd[p], call[p], i) = ref[i] + Points(w, f, d, i)
    OBVIOUS
  <2>1. \A x : One(x, i) \in {0, 1}
    BY DEF One
  <2>2. /\ Points(cwd[p], fd[p], call[p], i) \in Nat /\ Points(w, f, d, i) \in Nat
        /\ One(g, i) + Points(cwd[p], fd[p], call[p], i) = Points(w, f, d, i)
    BY <2>1 DEF Points
  <2> QED
    BY <1>3, <2>1, <2>2
<1>5. NoCountPanic'
  BY DEF IInv, NoCountPanic
<1>6. Frees(p)
  <2> SUFFICES ASSUME NEW i \in Inums, type[i] = "free", ~stray'
               PROVE  ref'[i] = ref[i] /\ call[p].put # i
    BY DEF Frees
  <2>1. One(g, i) = 0
    BY InodeSizes DEF One, Inums, None
  <2> QED
    BY <1>3, <2>1 DEF Inums, None
<1>7. GoesOnUsing(p)
  <2> SUFFICES ASSUME NEW i \in Inums, Uses(p, i) PROVE Using(w, f, d, i)
    BY <1>1 DEF GoesOnUsing
  <2>1. \A x : One(x, i) \in {0, 1} /\ (x = i <=> One(x, i) = 1)
    BY DEF One
  <2>2. cwd[p] = i \/ fd[p] = i \/ call[p].at = i \/ call[p].ip = i
    BY DEF Uses, Using, Inums, None
  <2>3. Points(cwd[p], fd[p], call[p], i) >= 1 /\ Points(cwd[p], fd[p], call[p], i) \in Nat
    BY <2>1, <2>2 DEF Points
  <2>4. Points(w, f, d, i) >= 1
    BY <2>1, <2>3
  <2>5. w = i \/ f = i \/ d.at = i \/ d.ip = i \/ d.put = i
    BY <2>1, <2>4 DEF Points
  <2>6. i # None
    BY DEF Inums, None
  <2> QED
    BY <2>5, <2>6 DEF Using
<1>8. Quiet(p)
  BY <1>1, <1>2, <1>3, <1>4, <1>5, <1>6, <1>7 DEF Quiet, Still
<1> QED
  BY <1>8, QuietKeeps

\* Most steps leave directory and descriptor as they are.
LEMMA CallStep ==
  ASSUME IInv, NEW p \in Procs, call[p].put = None, NEW d \in CallType, NEW g \in InumOrNone,
         call' = [call EXCEPT ![p] = d], UNCHANGED <<cwd, fd, inodeVars, raced, panicked>>,
         ref' = IF g = None THEN ref ELSE [ref EXCEPT ![g] = @ + 1],
         d.put # None => d.tested = FALSE,
         Shape(d), Finds(d), Claiming(d) <=> Claiming(call[p]), Claiming(d) => d.ip = call[p].ip,
         \A i \in Inums : One(g, i) + One(call[p].at, i) + One(call[p].ip, i)
                           = One(d.at, i) + One(d.ip, i) + One(d.put, i),
         lock' \in [Inums -> Procs \cup {NoProc}], LockMoves(p),
         ~stray' => ~stray, g # None /\ ~stray' => type[g] # "free"
  PROVE  IInv'
<1>1. PICK w \in Inums, f \in InumOrNone : w = cwd[p] /\ f = fd[p]
  BY DEF IInv, InodeTypeOK, InumOrNone
<1>2. cwd' = [cwd EXCEPT ![p] = w] /\ fd' = [fd EXCEPT ![p] = f]
  BY <1>1 DEF IInv, InodeTypeOK
<1>3. ASSUME NEW i \in Inums
      PROVE  One(g, i) + Points(cwd[p], fd[p], call[p], i) = Points(w, f, d, i)
  <2>1. \A x : One(x, i) \in {0, 1}
    BY DEF One
  <2>2. One(call[p].put, i) = 0
    BY DEF One, Inums, None
  <2>3. One(g, i) + One(call[p].at, i) + One(call[p].ip, i) = One(d.at, i) + One(d.ip, i) + One(d.put, i)
    OBVIOUS
  <2> QED
    BY <1>1, <2>1, <2>2, <2>3 DEF Points
<1> QED
  BY <1>2, <1>3, QuietStep, ZenonT(40)

Goes(p, d, g) ==
  /\ call[p].put = None /\ (d.put # None => d.tested = FALSE)
  /\ call' = [call EXCEPT ![p] = d] /\ UNCHANGED <<cwd, fd, inodeVars, raced, panicked>>
  /\ ref' = IF g = None THEN ref ELSE [ref EXCEPT ![g] = @ + 1]
  /\ Shape(d) /\ Finds(d) /\ (Claiming(d) <=> Claiming(call[p])) /\ (Claiming(d) => d.ip = call[p].ip)
  /\ \A i \in Inums : One(g, i) + One(call[p].at, i) + One(call[p].ip, i)
                       = One(d.at, i) + One(d.ip, i) + One(d.put, i)
  /\ lock' \in [Inums -> Procs \cup {NoProc}] /\ LockMoves(p)
  /\ (~stray' => ~stray) /\ (g # None /\ ~stray' => type[g] # "free")

\* The same, of a step that moves one process and takes one reference at most.
LEMMA GoesStep ==
  ASSUME IInv, NEW p \in Procs, NEW d \in CallType, NEW g \in InumOrNone, Goes(p, d, g)
  PROVE  IInv'
BY CallStep DEF Goes

\* What is known of a call.
LEMMA CallIs ==
  ASSUME IInv, NEW p \in Procs
  PROVE  /\ call[p] \in CallType /\ Shape(call[p]) /\ Finds(call[p])
         /\ call[p].at \in InumOrNone /\ call[p].ip \in InumOrNone /\ call[p].put \in InumOrNone
BY DEF IInv, CallsOK, CallsFind, CallType

\* What is known of a call in a directory: which inode that is.
LEMMA DirectoryIs ==
  ASSUME IInv, NEW q \in Procs, InDirectory(call[q])
  PROVE  call[q].at \in Inums /\ type[call[q].at] = "dir"
<1>1. call[q].at # None
  BY CallIs DEF Shape, NoCall, InDirectory
<1>2. call[q].at \in Inums
  BY <1>1, CallIs DEF InumOrNone
<1> QED
  BY <1>2, CallIs DEF Finds

\* What is known of a call that links: its inode is a file.
LEMMA LinkingIs ==
  ASSUME IInv, NEW q \in Procs, Linking(call[q])
  PROVE  call[q].ip \in Inums /\ type[call[q].ip] = "file"
<1>1. call[q].ip # None
  BY CallIs DEF Shape, NoCall, Linking
<1>2. call[q].ip \in Inums
  BY <1>1, CallIs DEF InumOrNone
<1> QED
  BY <1>2, CallIs DEF Finds

\* What a call is that found the entry it is to erase.
LEMMA UnlinkShape ==
  ASSUME NEW c, Shape(c), c.then = "unlink2"
  PROVE  c.at # None /\ c.ip # None /\ Head(c.path) \in Names
BY DEF Shape, NoCall

\* What is known of such a call of the state's.
LEMMA UnlinkingIs ==
  ASSUME IInv, NEW q \in Procs, call[q].then = "unlink2"
  PROVE  /\ InDirectory(call[q]) /\ call[q].at \in Inums /\ Head(call[q].path) \in Names
         /\ call[q].ip # None /\ ents[call[q].at][Head(call[q].path)] = call[q].ip
<1>1. call[q].ip # None /\ Head(call[q].path) \in Names
  BY CallIs, UnlinkShape
<1>2. InDirectory(call[q])
  BY DEF InDirectory
<1>3. ents[call[q].at][Head(call[q].path)] = call[q].ip
  BY CallIs DEF Finds
<1> QED
  BY <1>1, <1>2, <1>3, DirectoryIs

\* What is known of a call that walks.
LEMMA WalkIs ==
  ASSUME IInv, NEW p \in Procs, At(p, "walk")
  PROVE  /\ call[p].then = "walk" /\ call[p].put = None /\ call[p].at \in Inums
         /\ (call[p].ip # None <=> call[p].op = "link2") /\ call[p].op \notin {"none", "close"}
         /\ LockIn(call[p]) = None /\ (Claiming(call[p]) <=> call[p].op = "link2")
         /\ (call[p].op = "link2" => type[call[p].ip] = "file")
BY CallIs DEF At, Shape, NoCall, InumOrNone, LockIn, Claiming, Linking, Finds

\* What is known of a call that has its parent locked.
LEMMA InParentIs ==
  ASSUME IInv, NEW p \in Procs, NEW ops, InParent(p, ops)
  PROVE  /\ call[p].then = "there" /\ call[p].put = None /\ call[p].at \in Inums
         /\ type[call[p].at] = "dir" /\ lock[call[p].at] = NoProc /\ call[p].op \in ops
         /\ (call[p].ip # None <=> call[p].op = "link2") /\ Len(call[p].path) = 1
         /\ Name(p) \in Elements /\ LockIn(call[p]) = None
         /\ (Claiming(call[p]) <=> call[p].op = "link2")
         /\ (call[p].op = "link2" => type[call[p].ip] = "file")
<1>1. At(p, "there") /\ call[p].op \in ops /\ Ilock(call[p].at)
  BY DEF InParent
<1>2. call[p].path \in Seq(Elements)
  BY CallIs DEF CallType
<1>3. Len(call[p].path) = 1 /\ call[p].at # None /\ (call[p].ip # None <=> call[p].op = "link2")
  BY <1>1, CallIs DEF At, Shape, NoCall
<1>4. Name(p) \in Elements
  BY <1>2, <1>3 DEF Name
<1> QED
  BY <1>1, <1>3, <1>4, CallIs DEF At, Ilock, InumOrNone, LockIn, Claiming, Linking, Finds, InDirectory

\* A call in a directory that was removed is noted.
LEMMA NotesIs ==
  ASSUME NEW d, Notes(d)
  PROVE  ~stray' => ~stray /\ nlink[d] # 0
BY DEF Notes

-----------------------------------------------------------------------------
(* The steps that change no inode.                                          *)
LEMMA BeginKeeps ==
  ASSUME IInv, NEW p \in Procs, NEW a \in Calls[p], Begin(p, a)
  PROVE  IInv'
<1>1. /\ a.op \in {"open", "chdir", "create", "mkdir", "unlink", "link"}
      /\ a.path \in Paths /\ a.to \in Paths
  BY CallsAreCalls
<1>2. PICK i \in Inums : i = Start(p, a.path) /\ (~stray => type[i] # "free")
  <2>1. cwd[p] \in Inums
    BY DEF IInv, InodeTypeOK
  <2> QED
    BY <2>1, RootIs, InUse DEF Start
<1>3. PICK path \in Seq(Elements) : path = a.path.names
  BY <1>1 DEF Paths, Elements
<1>4. PICK d : d = [NoCall EXCEPT !.op = a.op, !.then = "walk", !.at = i, !.path = path, !.to = a.to]
  OBVIOUS
<1>5. Becomes(d, a.op, "walk", i, None, None, path)
  <2>1. a.op \in Ops /\ i \in InumOrNone /\ a.to \in [abs : BOOLEAN, names : Seq(Elements)]
    BY <1>1 DEF Ops, InumOrNone, Paths, Elements
  <2> QED
    BY <1>4, <2>1, BeginIs
<1>6. call[p] = NoCall /\ call[p].at = None /\ call[p].ip = None /\ call[p].put = None
      /\ call[p].then = "user"
  BY DEF Begin, NoCall
<1>7. call' = [call EXCEPT ![p] = d] /\ ref' = [ref EXCEPT ![i] = @ + 1] /\ lock' = lock
      /\ UNCHANGED <<cwd, fd, inodeVars, raced, panicked, stray>>
  BY <1>2, <1>3, <1>4 DEF Begin
<1>8. Shape(d) /\ Finds(d) /\ ~Claiming(d) /\ ~Claiming(call[p])
  BY <1>1, <1>5, <1>6 DEF Becomes, Shape, Finds, InDirectory, Linking, Claiming, Inums, None
<1>9. lock' \in [Inums -> Procs \cup {NoProc}] /\ LockMoves(p)
  <2>1. call'[p] = d
    BY <1>7 DEF IInv, CallsOK
  <2> QED
    BY <1>5, <1>6, <1>7, <2>1, SameLock DEF Becomes, LockIn
<1>10. \A j \in Inums : One(i, j) + One(call[p].at, j) + One(call[p].ip, j)
                         = One(d.at, j) + One(d.ip, j) + One(d.put, j)
  BY <1>5, <1>6 DEF Becomes, One
<1>11. i # None /\ i \in InumOrNone /\ d \in CallType /\ d.put = None
  BY <1>5 DEF Inums, None, InumOrNone, Becomes
<1> QED
  BY <1>2, <1>6, <1>7, <1>8, <1>9, <1>10, <1>11, CallStep

\* A failing walk puts the inode it has come to.
LEMMA WalkFails ==
  ASSUME IInv, NEW p \in Procs, At(p, "walk"),
         call' = [call EXCEPT ![p] = PutAt(call[p], FailStage(call[p]))],
         UNCHANGED <<cwd, fd, inodeVars, raced, panicked, ref, lock>>, ~stray' => ~stray
  PROVE  IInv'
<1>1. PICK c \in CallType : c = call[p]
  BY CallIs
<1>2. PICK d \in CallType : d = PutAt(c, FailStage(c))
        /\ Becomes(d, c.op, FailStage(c), None, c.ip, c.at, c.path)
  <2>1. FailStage(c) \in Stages
    BY DEF FailStage, Stages
  <2> QED
    BY <2>1, PutAtIs DEF Becomes
<1>3. Shape(d) /\ Finds(d) /\ LockIn(d) = None /\ (Claiming(d) <=> Claiming(c)) /\ d.ip = c.ip
  <2>1. CASE c.op = "link2"
    BY <1>1, <1>2, <2>1, WalkIs
       DEF Becomes, FailStage, Shape, Finds, InDirectory, Linking, Claiming, LockIn
  <2>2. CASE c.op # "link2"
    BY <1>1, <1>2, <2>2, WalkIs
       DEF Becomes, FailStage, Shape, Finds, InDirectory, Linking, Claiming, LockIn, Inums, None
  <2> QED
    BY <2>1, <2>2
<1>4. call'[p] = d
  BY <1>1, <1>2 DEF IInv, CallsOK
<1>5. lock' \in [Inums -> Procs \cup {NoProc}] /\ LockMoves(p)
  BY <1>1, <1>3, <1>4, SameLock, WalkIs
<1>6. \A j \in Inums : One(None, j) + One(call[p].at, j) + One(call[p].ip, j)
                        = One(d.at, j) + One(d.ip, j) + One(d.put, j)
  BY <1>1, <1>2 DEF Becomes, One, None
<1>7. None \in InumOrNone /\ (d.put # None => d.tested = FALSE) /\ call[p].put = None
  BY <1>2, WalkIs DEF InumOrNone, Becomes
<1> QED
  BY <1>1, <1>2, <1>3, <1>5, <1>6, <1>7, CallStep

\* Walk keeps the invariant.
LEMMA WalkKeeps ==
  ASSUME IInv, NEW p \in Procs, Walk(p)
  PROVE  IInv'
<1>1. PICK c \in CallType : c = call[p]
  BY CallIs
<1>2. PICK n \in Elements : n = Head(c.path) /\ c.path # <<>>
  BY <1>1 DEF Walk, CallType
<1>3. PICK next \in InumOrNone : next = IF type[c.at] = "dir" THEN Lookup(c.at, n) ELSE None
  BY <1>1, WalkIs, LookupIs DEF Walk, InumOrNone
<1>4. /\ At(p, "walk") /\ Ilock(c.at) /\ (~stray' => ~stray /\ nlink[c.at] # 0)
      /\ UNCHANGED <<cwd, fd, inodeVars, raced, panicked, lock>>
  BY <1>1, NotesIs DEF Walk
<1>5. CASE call' = [call EXCEPT ![p] = PutAt(c, FailStage(c))] /\ ref' = ref
  BY <1>1, <1>4, <1>5, WalkFails
<1>6. CASE /\ type[c.at] = "dir" /\ WantsParent(c) /\ Len(c.path) = 1
           /\ call' = [call EXCEPT ![p].then = "there"] /\ ref' = ref
  <2>1. PICK d \in CallType : d = [c EXCEPT !.then = "there"]
          /\ Becomes(d, c.op, "there", c.at, c.ip, None, c.path)
    <3>1. c.put = None /\ "there" \in Stages
      BY <1>1, <1>4, WalkIs DEF Stages
    <3> QED
      BY <3>1, ThereIs DEF Becomes
  <2>2. call' = [call EXCEPT ![p] = d] /\ call'[p] = d
    BY <1>1, <1>6, <2>1 DEF IInv, CallsOK
  <2>3. Shape(d) /\ Finds(d) /\ LockIn(d) = None /\ (Claiming(d) <=> Claiming(c)) /\ d.ip = c.ip
    BY <1>1, <1>4, <1>6, <2>1, WalkIs
       DEF Becomes, Shape, Finds, InDirectory, Linking, Claiming, LockIn, WantsParent, Inums, None
  <2>4. lock' \in [Inums -> Procs \cup {NoProc}] /\ LockMoves(p)
    BY <1>1, <1>4, <2>2, <2>3, SameLock, WalkIs
  <2>5. \A j \in Inums : One(None, j) + One(call[p].at, j) + One(call[p].ip, j)
                          = One(d.at, j) + One(d.ip, j) + One(d.put, j)
    BY <1>1, <2>1 DEF Becomes, One, None
  <2>6. None \in InumOrNone /\ (d.put # None => d.tested = FALSE) /\ call[p].put = None
    BY <1>4, <2>1, WalkIs DEF InumOrNone, Becomes
  <2> QED
    BY <1>1, <1>4, <1>6, <2>1, <2>2, <2>3, <2>4, <2>5, <2>6, CallStep
<1>7. CASE /\ type[c.at] = "dir" /\ next # None
           /\ call' = [call EXCEPT ![p] = [Put(c, c.at, "walk") EXCEPT !.at = next, !.path = Tail(c.path)]]
           /\ ref' = [ref EXCEPT ![next] = @ + 1]
  <2>1. PICK d \in CallType : d = [Put(c, c.at, "walk") EXCEPT !.at = next, !.path = Tail(c.path)]
          /\ Becomes(d, c.op, "walk", next, c.ip, c.at, Tail(c.path))
    BY <1>2, NextIs DEF Becomes
  <2>2. call' = [call EXCEPT ![p] = d] /\ call'[p] = d
    BY <1>7, <2>1 DEF IInv, CallsOK
  <2>3. Shape(d) /\ Finds(d) /\ LockIn(d) = None /\ (Claiming(d) <=> Claiming(c)) /\ d.ip = c.ip
    BY <1>1, <1>4, <1>7, <2>1, WalkIs, SMTT(30)
       DEF Becomes, Shape, Finds, InDirectory, Linking, Claiming, LockIn
  <2>4. lock' \in [Inums -> Procs \cup {NoProc}] /\ LockMoves(p)
    BY <1>1, <1>4, <2>2, <2>3, SameLock, WalkIs
  <2>5. \A j \in Inums : One(next, j) + One(call[p].at, j) + One(call[p].ip, j)
                          = One(d.at, j) + One(d.ip, j) + One(d.put, j)
    BY <1>1, <2>1 DEF Becomes, One
  <2>6. (d.put # None => d.tested = FALSE) /\ call[p].put = None
    BY <1>4, <2>1, WalkIs DEF Becomes
  <2>7. ~stray' => type[next] # "free"
    BY <1>1, <1>2, <1>3, <1>4, <1>7, WalkIs, LookupIs DEF Ilock
  <2> QED
    BY <1>1, <1>4, <1>7, <2>1, <2>2, <2>3, <2>4, <2>5, <2>6, <2>7, CallStep
<1> QED
  BY <1>1, <1>2, <1>3, <1>5, <1>6, <1>7 DEF Walk

\* NoParent keeps the invariant.
LEMMA NoParentKeeps ==
  ASSUME IInv, NEW p \in Procs, NoParent(p)
  PROVE  IInv'
BY WalkFails DEF NoParent

\* A panic leaves everything as it is.
LEMMA PanicKeeps ==
  ASSUME IInv, UNCHANGED <<inodeVars, ref, lock, cwd, fd, call, stray, raced>>, NoCountPanic'
  PROVE  IInv'
<1>1. UNCHANGED <<type, nlink, ents, ref, lock, cwd, fd, call, stray, raced>>
  BY DEF inodeVars
<1>2. InodeTypeOK' /\ RefExact' /\ NoUseAfterFree'
  <2>1. InodeTypeOK'
    BY <1>1 DEF IInv, InodeTypeOK
  <2>2. RefExact'
    BY <1>1 DEF IInv, RefExact, Held, InCalls
  <2>3. NoUseAfterFree'
    BY <1>1 DEF IInv, NoUseAfterFree
  <2> QED
    BY <2>1, <2>2, <2>3
<1>3. CallsOK' /\ LocksExact' /\ CallsFind'
  BY <1>1 DEF IInv, CallsOK, Shape, WantsParent, LocksExact, LockIn, CallsFind, Finds, InDirectory, Linking
<1>4. EntriesOK' /\ Tree' /\ RemovedIsEmpty'
  BY <1>1 DEF IInv, EntriesOK, Tree, IsName, Pending, Claiming, Linking, RemovedIsEmpty, NamesOf, IsEmpty
<1>5. LinksCover'
  BY <1>1 DEF IInv, LinksCover, Claims, NamesOf, SubNames, Pending, Claiming, Linking, RootLink
<1>6. OrphansAreUsed'
  BY <1>1 DEF IInv, OrphansAreUsed, Uses, Using
<1> QED
  BY <1>2, <1>3, <1>4, <1>5, <1>6 DEF IInv

\* NoTypePanic keeps the invariant.
LEMMA NoTypePanicKeeps ==
  ASSUME IInv, NEW p \in Procs, NoTypePanic(p)
  PROVE  IInv'
<1>1. /\ call[p].put = None /\ Wanted(p) # None /\ type[Wanted(p)] = "free"
      /\ UNCHANGED <<inodeVars, ref, lock, cwd, fd, call, stray, raced>>
  BY DEF NoTypePanic
<1>2. Wanted(p) \in {call[p].at, call[p].ip}
  BY <1>1 DEF Wanted
<1>3. Wanted(p) \in Inums
  BY <1>1, <1>2, CallIs DEF InumOrNone
<1>4. stray
  BY <1>1, <1>2, <1>3, InUse
<1> QED
  BY <1>1, <1>4, PanicKeeps DEF NoCountPanic

\* CreatePanics keeps the invariant.
LEMMA CreatePanicsKeeps ==
  ASSUME IInv, NEW p \in Procs, CreatePanics(p)
  PROVE  IInv'
BY PanicKeeps DEF CreatePanics, NoCountPanic

\* What is known of a call at each later stage.
LEMMA StageIs ==
  ASSUME IInv, NEW p \in Procs, NEW stage, At(p, stage)
  PROVE  /\ call[p].then = stage /\ call[p].put = None
         /\ stage \in {"found", "made"} =>
              /\ call[p].at = None /\ call[p].ip \in Inums /\ call[p].op \in {"create", "mkdir"}
              /\ ~Claiming(call[p])
         /\ stage = "unlink2" =>
              /\ call[p].at \in Inums /\ call[p].ip \in Inums /\ type[call[p].at] = "dir"
              /\ call[p].op = "unlink" /\ Len(call[p].path) = 1 /\ Name(p) \in Names
              /\ ents[call[p].at][Name(p)] = call[p].ip /\ ~Claiming(call[p])
         /\ stage = "unlink_bad" =>
              /\ call[p].at \in Inums /\ call[p].ip = None /\ call[p].op = "unlink"
              /\ ~Claiming(call[p])
         /\ stage = "unlink3" =>
              call[p].at = None /\ call[p].ip \in Inums /\ call[p].op = "unlink" /\ Claiming(call[p])
         /\ stage = "link_exists" =>
              /\ call[p].at \in Inums /\ call[p].ip \in Inums /\ call[p].op = "link2"
              /\ Claiming(call[p]) /\ type[call[p].ip] = "file"
         /\ stage = "link_bad" =>
              /\ call[p].at = None /\ call[p].ip \in Inums /\ call[p].op = "link2"
              /\ Claiming(call[p]) /\ type[call[p].ip] = "file"
<1>1. call[p].then = stage /\ call[p].put = None
  BY DEF At
<1>2. Shape(call[p]) /\ Finds(call[p]) /\ call[p].at \in InumOrNone /\ call[p].ip \in InumOrNone
  BY CallIs
<1>3. CASE stage \in {"found", "made"}
  BY <1>1, <1>2, <1>3 DEF Shape, NoCall, InumOrNone, Claiming, Linking
<1>4. CASE stage \in {"unlink2", "unlink_bad", "unlink3"}
  BY <1>1, <1>2, <1>4 DEF Shape, NoCall, InumOrNone, Claiming, Linking, Finds, InDirectory, Name
<1>5. CASE stage \in {"link_exists", "link_bad"}
  BY <1>1, <1>2, <1>5 DEF Shape, NoCall, InumOrNone, Claiming, Linking, Finds
<1> QED
  BY <1>1, <1>3, <1>4, <1>5

\* The step ends the lock that the call kept, if it kept one.
LEMMA Unlocks ==
  ASSUME IInv, NEW p \in Procs, NEW i \in Inums, LockIn(call[p]) = i, lock' = [lock EXCEPT ![i] = NoProc],
         LockIn(call'[p]) = None
  PROVE  lock' \in [Inums -> Procs \cup {NoProc}] /\ LockMoves(p)
<1>1. lock \in [Inums -> Procs \cup {NoProc}]
  BY DEF IInv, InodeTypeOK
<1>2. \A j \in Inums : lock'[j] = IF j = i THEN NoProc ELSE lock[j]
  BY <1>1
<1>3. \A j \in Inums : j # None
  BY DEF Inums, None
<1> QED
  BY <1>1, <1>2, <1>3 DEF LockMoves

\* The step begins to keep one.
LEMMA Locks ==
  ASSUME IInv, NEW p \in Procs, NEW i \in Inums, LockIn(call[p]) = None, lock[i] = NoProc,
         lock' = [lock EXCEPT ![i] = p], LockIn(call'[p]) = i
  PROVE  lock' \in [Inums -> Procs \cup {NoProc}] /\ LockMoves(p)
<1>1. lock \in [Inums -> Procs \cup {NoProc}]
  BY DEF IInv, InodeTypeOK
<1>2. \A j \in Inums : lock'[j] = IF j = i THEN p ELSE lock[j]
  BY <1>1
<1>3. \A j \in Inums : j # None
  BY DEF Inums, None
<1> QED
  BY <1>1, <1>2, <1>3 DEF LockMoves

\* A step without a new reference, of a call that claims no link.
Moves(p, d, w, f) ==
  /\ call[p].put = None /\ (d.put # None => d.tested = FALSE)
  /\ call' = [call EXCEPT ![p] = d] /\ cwd' = [cwd EXCEPT ![p] = w] /\ fd' = [fd EXCEPT ![p] = f]
  /\ Shape(d) /\ Finds(d) /\ ~Claiming(d) /\ ~Claiming(call[p])
  /\ \A i \in Inums : Points(cwd[p], fd[p], call[p], i) = Points(w, f, d, i)
  /\ lock' \in [Inums -> Procs \cup {NoProc}] /\ LockMoves(p)
  /\ UNCHANGED <<inodeVars, ref, raced, panicked, stray>>

\* A step that exchanges references and takes none keeps the invariant.
LEMMA MoveStep ==
  ASSUME IInv, NEW p \in Procs, NEW d \in CallType, NEW w \in Inums, NEW f \in InumOrNone,
         Moves(p, d, w, f)
  PROVE  IInv'
<1>1. PICK g \in InumOrNone : g = None
  BY DEF InumOrNone
<1>2. ref' = IF g = None THEN ref ELSE [ref EXCEPT ![g] = @ + 1]
  BY <1>1 DEF Moves
<1>3. \A i \in Inums : One(g, i) + Points(cwd[p], fd[p], call[p], i) = Points(w, f, d, i)
  <2> SUFFICES ASSUME NEW i \in Inums
               PROVE  One(g, i) + Points(cwd[p], fd[p], call[p], i) = Points(w, f, d, i)
    OBVIOUS
  <2>1. One(g, i) = 0 /\ \A x : One(x, i) \in {0, 1}
    BY <1>1 DEF One, Inums, None
  <2>2. Points(cwd[p], fd[p], call[p], i) \in Nat
    BY <2>1 DEF Points
  <2>3. Points(cwd[p], fd[p], call[p], i) = Points(w, f, d, i)
    BY DEF Moves
  <2> QED
    BY <2>1, <2>2, <2>3
<1>4. /\ UNCHANGED <<inodeVars, raced, panicked>> /\ (~stray' => ~stray)
      /\ (g # None /\ ~stray' => type[g] # "free")
      /\ (Claiming(d) <=> Claiming(call[p])) /\ (Claiming(d) => d.ip = call[p].ip)
  BY <1>1 DEF Moves
<1> QED
  BY <1>2, <1>3, <1>4, QuietStep DEF Moves

\* fdalloc, or the inode is put.
LEMMA OpensKeeps ==
  ASSUME IInv, NEW p \in Procs, NEW i \in Inums, call[p].put = None, Opens(p, call[p], i),
         ~Claiming(call[p]),
         \A j \in Inums : One(call[p].at, j) + One(call[p].ip, j) = One(i, j),
         LockIn(call'[p]) = None => lock' \in [Inums -> Procs \cup {NoProc}] /\ LockMoves(p),
         UNCHANGED <<inodeVars, ref, cwd, panicked, stray, raced>>
  PROVE  IInv'
<1>1. PICK c \in CallType : c = call[p]
  BY CallIs
<1>2. PICK w \in Inums, f \in InumOrNone : w = cwd[p] /\ f = fd[p] /\ cwd' = [cwd EXCEPT ![p] = w]
  BY DEF IInv, InodeTypeOK, InumOrNone
<1>3. \A j \in Inums : /\ One(None, j) = 0 /\ One(call[p].put, j) = 0
                      /\ \A x : One(x, j) \in {0, 1}
  BY DEF One, Inums, None
<1>4. None \in InumOrNone /\ i \in InumOrNone /\ UNCHANGED <<inodeVars, raced, panicked, stray>> /\ ref' = ref
  BY DEF InumOrNone
<1>5. CASE f = None /\ fd' = [fd EXCEPT ![p] = i] /\ call' = [call EXCEPT ![p] = NoCall]
  <2>1. PICK d \in CallType : d = NoCall /\ Becomes(d, "none", "user", None, None, None, <<>>)
    BY NoCallIs
  <2>2. call'[p] = d /\ call' = [call EXCEPT ![p] = d]
    BY <1>5, <2>1 DEF IInv, CallsOK
  <2>3. Shape(d) /\ Finds(d) /\ LockIn(d) = None /\ ~Claiming(d)
    BY <2>1 DEF Becomes, Shape, Finds, InDirectory, Linking, Claiming, LockIn
  <2>4. \A j \in Inums : Points(cwd[p], fd[p], call[p], j) = Points(w, i, d, j)
    <3> SUFFICES ASSUME NEW j \in Inums
                 PROVE  Points(cwd[p], fd[p], call[p], j) = Points(w, i, d, j)
      OBVIOUS
    <3>1. One(call[p].at, j) + One(call[p].ip, j) = One(i, j)
      OBVIOUS
    <3>2. d.at = None /\ d.ip = None /\ d.put = None /\ fd[p] = None /\ cwd[p] = w
      BY <1>2, <1>5, <2>1 DEF Becomes
    <3> QED
      BY <1>3, <3>1, <3>2 DEF Points
  <2>5. d.put # None => d.tested = FALSE
    BY <2>1 DEF Becomes
  <2>6. lock' \in [Inums -> Procs \cup {NoProc}] /\ LockMoves(p)
    BY <2>2, <2>3
  <2>7. UNCHANGED <<inodeVars, raced, panicked, stray>> /\ ref' = ref
    BY <1>4
  <2>8. fd' = [fd EXCEPT ![p] = i] /\ cwd' = [cwd EXCEPT ![p] = w]
    BY <1>2, <1>5
  <2>9. Moves(p, d, w, i)
    BY <2>2, <2>3, <2>4, <2>5, <2>6, <2>7, <2>8 DEF Moves
  <2> QED
    BY <1>4, <2>9, MoveStep
<1>6. CASE fd' = fd /\ call' = [call EXCEPT ![p] = [Put(c, i, "end") EXCEPT !.at = None, !.ip = None]]
  <2>1. PICK d \in CallType : d = [Put(c, i, "end") EXCEPT !.at = None, !.ip = None]
          /\ Becomes(d, c.op, "end", None, None, i, c.path)
    <3>1. Becomes([Put(c, i, "end") EXCEPT !.at = None, !.ip = None], c.op, "end", None, None, i, c.path)
      BY <1>4, OpensIs
    <3> QED
      BY <3>1 DEF Becomes
  <2>2. call'[p] = d /\ call' = [call EXCEPT ![p] = d] /\ fd' = [fd EXCEPT ![p] = f]
    BY <1>2, <1>6, <2>1 DEF IInv, CallsOK, InodeTypeOK
  <2>3. Shape(d) /\ Finds(d) /\ LockIn(d) = None /\ ~Claiming(d)
    BY <2>1 DEF Becomes, Shape, Finds, InDirectory, Linking, Claiming, LockIn, Inums, None
  <2>4. \A j \in Inums : Points(cwd[p], fd[p], call[p], j) = Points(w, f, d, j)
    <3> SUFFICES ASSUME NEW j \in Inums
                 PROVE  Points(cwd[p], fd[p], call[p], j) = Points(w, f, d, j)
      OBVIOUS
    <3>1. One(call[p].at, j) + One(call[p].ip, j) = One(i, j)
      OBVIOUS
    <3>2. d.at = None /\ d.ip = None /\ d.put = i /\ fd[p] = f /\ cwd[p] = w
      BY <1>2, <2>1 DEF Becomes
    <3> QED
      BY <1>3, <3>1, <3>2 DEF Points
  <2>5. d.put # None => d.tested = FALSE
    BY <2>1 DEF Becomes
  <2>6. lock' \in [Inums -> Procs \cup {NoProc}] /\ LockMoves(p)
    BY <2>2, <2>3
  <2>7. Moves(p, d, w, f)
    BY <1>2, <1>4, <2>2, <2>3, <2>4, <2>5, <2>6 DEF Moves
  <2> QED
    BY <2>7, MoveStep
<1> QED
  BY <1>1, <1>2, <1>5, <1>6 DEF Opens

\* Open keeps the invariant.
LEMMA OpenKeeps ==
  ASSUME IInv, NEW p \in Procs, Open(p)
  PROVE  IInv'
<1>1. /\ At(p, "walk") /\ call[p].op = "open" /\ Opens(p, call[p], call[p].at)
      /\ UNCHANGED <<inodeVars, ref, lock, cwd, panicked, stray, raced>>
  BY DEF Open, Arrived
<1>2. /\ call[p].at \in Inums /\ call[p].ip = None /\ call[p].put = None /\ ~Claiming(call[p])
      /\ LockIn(call[p]) = None
  BY <1>1, WalkIs
<1>3. \A j \in Inums : One(call[p].at, j) + One(call[p].ip, j) = One(call[p].at, j)
  BY <1>2 DEF One, Inums, None
<1>4. LockIn(call'[p]) = None => lock' \in [Inums -> Procs \cup {NoProc}] /\ LockMoves(p)
  BY <1>1, <1>2, SameLock
<1> QED
  BY <1>1, <1>2, <1>3, <1>4, OpensKeeps

\* Chdir keeps the invariant.
LEMMA ChdirKeeps ==
  ASSUME IInv, NEW p \in Procs, Chdir(p)
  PROVE  IInv'
<1>1. PICK c \in CallType : c = call[p]
  BY CallIs
<1>2. At(p, "walk") /\ c.op = "chdir" /\ UNCHANGED <<inodeVars, ref, lock, fd, panicked, stray, raced>>
  BY <1>1 DEF Chdir, Arrived
<1>3. /\ c.at \in Inums /\ c.ip = None /\ c.put = None /\ ~Claiming(c) /\ LockIn(c) = None
  BY <1>1, <1>2, WalkIs
<1>4. CASE call' = [call EXCEPT ![p] = PutAt(c, "end")] /\ cwd' = cwd
  <2>1. FailStage(c) = "end"
    BY <1>2 DEF FailStage
  <2> QED
    BY <1>1, <1>2, <1>4, <2>1, WalkFails
<1>5. CASE /\ call' = [call EXCEPT ![p] = [Put(c, cwd[p], "end") EXCEPT !.at = None]]
           /\ cwd' = [cwd EXCEPT ![p] = c.at]
  <2>1. PICK w \in Inums, f \in InumOrNone : w = cwd[p] /\ f = fd[p] /\ fd' = [fd EXCEPT ![p] = f]
    BY <1>2 DEF IInv, InodeTypeOK, InumOrNone
  <2>2. PICK d \in CallType : d = [Put(c, w, "end") EXCEPT !.at = None]
          /\ Becomes(d, c.op, "end", None, c.ip, w, c.path)
    <3>1. w \in InumOrNone
      BY DEF InumOrNone
    <3> QED
      BY <3>1, ChdirIs, ZenonT(40) DEF Becomes
  <2>3. call'[p] = d /\ call' = [call EXCEPT ![p] = d]
    BY <1>5, <2>1, <2>2 DEF IInv, CallsOK
  <2>4. Shape(d) /\ Finds(d) /\ LockIn(d) = None /\ ~Claiming(d)
    BY <1>3, <2>2 DEF Becomes, Shape, Finds, InDirectory, Linking, Claiming, LockIn, Inums, None
  <2>5. \A j \in Inums : Points(cwd[p], fd[p], call[p], j) = Points(c.at, f, d, j)
    <3> SUFFICES ASSUME NEW j \in Inums
                 PROVE  Points(cwd[p], fd[p], call[p], j) = Points(c.at, f, d, j)
      OBVIOUS
    <3>1. One(None, j) = 0 /\ \A x : One(x, j) \in {0, 1}
      BY DEF One, Inums, None
    <3>2. d.at = None /\ d.ip = None /\ d.put = w /\ fd[p] = f /\ cwd[p] = w
      BY <1>3, <2>1, <2>2 DEF Becomes
    <3> QED
      BY <1>1, <1>3, <3>1, <3>2 DEF Points
  <2>6. lock' \in [Inums -> Procs \cup {NoProc}] /\ LockMoves(p)
    BY <1>1, <1>2, <1>3, <2>3, <2>4, SameLock
  <2>7. (d.put # None => d.tested = FALSE) /\ None \in InumOrNone
    BY <2>2 DEF Becomes, InumOrNone
  <2>8. Moves(p, d, c.at, f)
    BY <1>1, <1>2, <1>3, <1>5, <2>1, <2>3, <2>4, <2>5, <2>6, <2>7 DEF Moves
  <2> QED
    BY <1>3, <2>8, MoveStep
<1> QED
  BY <1>1, <1>4, <1>5 DEF Chdir

\* Close keeps the invariant.
LEMMA CloseKeeps ==
  ASSUME IInv, NEW p \in Procs, Close(p)
  PROVE  IInv'
<1>1. /\ call[p] = NoCall /\ fd[p] # None /\ fd' = [fd EXCEPT ![p] = None]
      /\ UNCHANGED <<inodeVars, ref, lock, cwd, panicked, stray, raced>>
  BY DEF Close
<1>2. PICK w \in Inums, f \in Inums : w = cwd[p] /\ f = fd[p] /\ cwd' = [cwd EXCEPT ![p] = w]
  BY <1>1 DEF IInv, InodeTypeOK
<1>3. PICK d \in CallType : d = [Put(NoCall, f, "end") EXCEPT !.op = "close"]
        /\ Becomes(d, "close", "end", None, None, f, <<>>)
  <2>1. f \in InumOrNone
    BY DEF InumOrNone
  <2> QED
    BY <2>1, CloseIs DEF Becomes
<1>4. call'[p] = d /\ call' = [call EXCEPT ![p] = d]
  BY <1>2, <1>3 DEF IInv, CallsOK, Close
<1>5. Shape(d) /\ Finds(d) /\ LockIn(d) = None /\ ~Claiming(d)
  BY <1>3 DEF Becomes, Shape, Finds, InDirectory, Linking, Claiming, LockIn, Inums, None
<1>6. /\ call[p].at = None /\ call[p].ip = None /\ call[p].put = None
      /\ LockIn(call[p]) = None /\ ~Claiming(call[p])
  BY <1>1 DEF NoCall, LockIn, Claiming, Linking
<1>7. \A j \in Inums : Points(cwd[p], fd[p], call[p], j) = Points(w, None, d, j)
  <2> SUFFICES ASSUME NEW j \in Inums
               PROVE  Points(cwd[p], fd[p], call[p], j) = Points(w, None, d, j)
    OBVIOUS
  <2>1. One(None, j) = 0 /\ \A x : One(x, j) \in {0, 1}
    BY DEF One, Inums, None
  <2>2. d.at = None /\ d.ip = None /\ d.put = f
    BY <1>3 DEF Becomes
  <2> QED
    BY <1>2, <1>6, <2>1, <2>2 DEF Points
<1>8. lock' \in [Inums -> Procs \cup {NoProc}] /\ LockMoves(p)
  BY <1>1, <1>4, <1>5, <1>6, SameLock
<1>9. (d.put # None => d.tested = FALSE) /\ None \in InumOrNone
  BY <1>3 DEF Becomes, InumOrNone
<1>10. Moves(p, d, w, None)
  BY <1>1, <1>2, <1>4, <1>5, <1>6, <1>7, <1>8, <1>9 DEF Moves
<1> QED
  BY <1>9, <1>10, MoveStep

\* CreateFinds keeps the invariant.
LEMMA CreateFindsKeeps ==
  ASSUME IInv, NEW p \in Procs, CreateFinds(p)
  PROVE  IInv'
<1>1. PICK c \in CallType : c = call[p]
  BY CallIs
<1>2. InParent(p, {"create", "mkdir"}) /\ UNCHANGED <<inodeVars, lock, cwd, fd, panicked, raced>>
      /\ (~stray' => ~stray /\ nlink[c.at] # 0)
  BY <1>1, NotesIs DEF CreateFinds
<1>3. /\ c.then = "there" /\ c.put = None /\ c.at \in Inums /\ type[c.at] = "dir" /\ c.ip = None
      /\ lock[c.at] = NoProc /\ c.op \in {"create", "mkdir"} /\ Name(p) \in Elements
      /\ LockIn(c) = None /\ ~Claiming(c)
  BY <1>1, <1>2, InParentIs
<1>4. PICK i \in InumOrNone : i = Lookup(c.at, Name(p)) /\ i # None /\ (~stray' => type[i] # "free")
  BY <1>1, <1>2, <1>3, LookupIs DEF CreateFinds
<1>5. PICK d \in CallType : d = [PutAt(c, "found") EXCEPT !.ip = i]
        /\ Becomes(d, c.op, "found", None, i, c.at, c.path)
  <2>1. "found" \in Stages
    BY DEF Stages
  <2>2. Becomes([PutAt(c, "found") EXCEPT !.ip = i], c.op, "found", None, i, c.at, c.path)
    BY <2>1, FoundIs
  <2> QED
    BY <2>2 DEF Becomes
<1>6. call'[p] = d /\ call' = [call EXCEPT ![p] = d] /\ ref' = [ref EXCEPT ![i] = @ + 1]
  BY <1>1, <1>4, <1>5 DEF IInv, CallsOK, CreateFinds
<1>7. Shape(d) /\ Finds(d) /\ LockIn(d) = None /\ ~Claiming(d)
  BY <1>3, <1>4, <1>5 DEF Becomes, Shape, Finds, InDirectory, Linking, Claiming, LockIn
<1>8. lock' \in [Inums -> Procs \cup {NoProc}] /\ LockMoves(p)
  BY <1>1, <1>2, <1>3, <1>6, <1>7, SameLock
<1>9. \A j \in Inums : One(i, j) + One(call[p].at, j) + One(call[p].ip, j)
                        = One(d.at, j) + One(d.ip, j) + One(d.put, j)
  BY <1>1, <1>3, <1>5 DEF Becomes, One
<1>10. (d.put # None => d.tested = FALSE)
  BY <1>5 DEF Becomes
<1> QED
  BY <1>1, <1>2, <1>3, <1>4, <1>6, <1>7, <1>8, <1>9, <1>10, CallStep

\* The other inode of the call is put, and its lock goes.
LEMMA PutIpKeeps ==
  ASSUME IInv, NEW p \in Procs, NEW stage \in {"end", "unlink_bad"}, call[p].put = None,
         call[p].ip \in Inums, stage = "end" => call[p].at = None,
         stage = "unlink_bad" => call[p].then = "unlink2", ~Claiming(call[p]),
         call' = [call EXCEPT ![p] = PutIp(call[p], stage)],
         call'[p].then = stage /\ call'[p].at = call[p].at =>
           lock' \in [Inums -> Procs \cup {NoProc}] /\ LockMoves(p),
         UNCHANGED <<inodeVars, ref, cwd, fd, panicked, stray, raced>>
  PROVE  IInv'
<1>1. PICK c \in CallType : c = call[p]
  BY CallIs
<1>2. PICK d \in CallType : d = PutIp(c, stage) /\ Becomes(d, c.op, stage, c.at, None, c.ip, c.path)
  <2>1. stage \in Stages
    BY DEF Stages
  <2> QED
    BY <2>1, PutIpIs DEF Becomes
<1>3. call'[p] = d /\ call' = [call EXCEPT ![p] = d]
  BY <1>1, <1>2 DEF IInv, CallsOK
<1>4. ~Claiming(d)
  BY <1>2 DEF Becomes, Claiming, Linking
<1>5. Shape(d) /\ Finds(d)
  <2>1. CASE stage = "end"
    BY <1>1, <1>2, <2>1 DEF Becomes, Shape, Finds, InDirectory, Linking, Inums, None
  <2>2. CASE stage = "unlink_bad"
    <3>1. At(p, "unlink2") \/ panicked # "no"
      BY <2>2 DEF At, Running
    <3>2. c.at # None /\ c.op = "unlink" /\ type[c.at] = "dir"
      BY <1>1, <2>2, CallIs DEF Shape, NoCall, Finds, InDirectory
    <3> QED
      BY <1>2, <2>2, <3>2 DEF Becomes, Shape, Finds, InDirectory, Linking
  <2> QED
    BY <2>1, <2>2
<1>6. lock' \in [Inums -> Procs \cup {NoProc}] /\ LockMoves(p)
  BY <1>1, <1>2, <1>3 DEF Becomes
<1>7. \A j \in Inums : One(None, j) + One(call[p].at, j) + One(call[p].ip, j)
                        = One(d.at, j) + One(d.ip, j) + One(d.put, j)
  BY <1>1, <1>2 DEF Becomes, One, Inums, None
<1>8. (d.put # None => d.tested = FALSE) /\ None \in InumOrNone
  BY <1>2 DEF Becomes, InumOrNone
<1> QED
  BY <1>1, <1>3, <1>4, <1>5, <1>6, <1>7, <1>8, CallStep

\* Found keeps the invariant.
LEMMA FoundKeeps ==
  ASSUME IInv, NEW p \in Procs, Found(p)
  PROVE  IInv'
<1>1. At(p, "found") /\ UNCHANGED <<inodeVars, ref, lock, cwd, panicked, stray, raced>>
  BY DEF Found
<1>2. /\ call[p].put = None /\ call[p].at = None /\ call[p].ip \in Inums /\ ~Claiming(call[p])
      /\ LockIn(call[p]) = None
  BY <1>1, StageIs DEF LockIn
<1>3. CASE Opens(p, call[p], call[p].ip)
  <2>1. \A j \in Inums : One(call[p].at, j) + One(call[p].ip, j) = One(call[p].ip, j)
    BY <1>2 DEF One, Inums, None
  <2>2. LockIn(call'[p]) = None => lock' \in [Inums -> Procs \cup {NoProc}] /\ LockMoves(p)
    BY <1>1, <1>2, SameLock
  <2> QED
    BY <1>1, <1>2, <1>3, <2>1, <2>2, OpensKeeps
<1>4. CASE call' = [call EXCEPT ![p] = PutIp(call[p], "end")] /\ fd' = fd
  <2>1. call'[p].then = "end" => lock' \in [Inums -> Procs \cup {NoProc}] /\ LockMoves(p)
    BY <1>1, <1>2, SameLock DEF LockIn
  <2> QED
    BY <1>1, <1>2, <1>4, <2>1, PutIpKeeps
<1> QED
  BY <1>3, <1>4 DEF Found

\* Made keeps the invariant.
LEMMA MadeKeeps ==
  ASSUME IInv, NEW p \in Procs, Made(p)
  PROVE  IInv'
<1>1. /\ At(p, "made") /\ lock' = [lock EXCEPT ![call[p].ip] = NoProc]
      /\ UNCHANGED <<inodeVars, ref, cwd, panicked, stray, raced>>
  BY DEF Made
<1>2. /\ call[p].put = None /\ call[p].at = None /\ call[p].ip \in Inums /\ ~Claiming(call[p])
      /\ LockIn(call[p]) = call[p].ip
  BY <1>1, StageIs DEF LockIn
<1>3. CASE Opens(p, call[p], call[p].ip)
  <2>1. \A j \in Inums : One(call[p].at, j) + One(call[p].ip, j) = One(call[p].ip, j)
    BY <1>2 DEF One, Inums, None
  <2>2. LockIn(call'[p]) = None => lock' \in [Inums -> Procs \cup {NoProc}] /\ LockMoves(p)
    BY <1>1, <1>2, Unlocks
  <2> QED
    BY <1>1, <1>2, <1>3, <2>1, <2>2, OpensKeeps
<1>4. CASE call' = [call EXCEPT ![p] = PutIp(call[p], "end")] /\ fd' = fd
  <2>1. call'[p].then = "end" => lock' \in [Inums -> Procs \cup {NoProc}] /\ LockMoves(p)
    BY <1>1, <1>2, Unlocks DEF LockIn
  <2> QED
    BY <1>1, <1>2, <1>4, <2>1, PutIpKeeps
<1> QED
  BY <1>3, <1>4 DEF Made

\* The directory of the call is put, and its lock goes.
LEMMA PutAtKeeps ==
  ASSUME IInv, NEW p \in Procs, NEW stage \in {"end", "link_bad"},
         call[p].put = None, call[p].at \in Inums, call[p].then # "unlink3",
         stage = "end" => call[p].ip = None /\ ~Claiming(call[p]),
         stage = "link_bad" => call[p].then = "link_exists",
         call' = [call EXCEPT ![p] = PutAt(call[p], stage)],
         LockIn(call'[p]) = None => lock' \in [Inums -> Procs \cup {NoProc}] /\ LockMoves(p),
         UNCHANGED <<inodeVars, ref, cwd, fd, panicked, raced>>, ~stray' => ~stray
  PROVE  IInv'
<1>1. PICK c \in CallType : c = call[p]
  BY CallIs
<1>2. PICK d \in CallType : d = PutAt(c, stage) /\ Becomes(d, c.op, stage, None, c.ip, c.at, c.path)
  <2>1. stage \in Stages
    BY DEF Stages
  <2> QED
    BY <2>1, PutAtIs DEF Becomes
<1>3. call'[p] = d /\ call' = [call EXCEPT ![p] = d]
  BY <1>1, <1>2 DEF IInv, CallsOK
<1>4. Shape(d) /\ Finds(d) /\ LockIn(d) = None /\ (Claiming(d) <=> Claiming(c)) /\ d.ip = c.ip
  <2>1. CASE stage = "end"
    BY <1>1, <1>2, <2>1
       DEF Becomes, Shape, Finds, InDirectory, Linking, Claiming, LockIn, Inums, None
  <2>2. CASE stage = "link_bad"
    <3>1. c.then = "link_exists" /\ c.op = "link2" /\ c.ip # None /\ type[c.ip] = "file"
      BY <1>1, <2>2, CallIs DEF Shape, NoCall, Finds, Linking
    <3> QED
      BY <1>2, <2>2, <3>1 DEF Becomes, Shape, Finds, InDirectory, Linking, Claiming, LockIn
  <2> QED
    BY <2>1, <2>2
<1>5. lock' \in [Inums -> Procs \cup {NoProc}] /\ LockMoves(p)
  BY <1>3, <1>4
<1>6. \A j \in Inums : One(None, j) + One(call[p].at, j) + One(call[p].ip, j)
                        = One(d.at, j) + One(d.ip, j) + One(d.put, j)
  BY <1>1, <1>2 DEF Becomes, One, Inums, None
<1>7. (d.put # None => d.tested = FALSE) /\ None \in InumOrNone
  BY <1>2 DEF Becomes, InumOrNone
<1>8. Goes(p, d, None)
  BY <1>1, <1>3, <1>4, <1>5, <1>6, <1>7 DEF Goes
<1> QED
  BY <1>7, <1>8, GoesStep

\* Unlink keeps the invariant.
LEMMA UnlinkKeeps ==
  ASSUME IInv, NEW p \in Procs, Unlink(p)
  PROVE  IInv'
<1>1. PICK c \in CallType : c = call[p]
  BY CallIs
<1>2. InParent(p, {"unlink"}) /\ UNCHANGED <<inodeVars, cwd, fd, panicked, raced>>
      /\ (~stray' => ~stray /\ nlink[c.at] # 0)
  BY <1>1, NotesIs DEF Unlink
<1>3. /\ c.then = "there" /\ c.put = None /\ c.at \in Inums /\ type[c.at] = "dir" /\ c.ip = None
      /\ lock[c.at] = NoProc /\ c.op = "unlink" /\ Name(p) \in Elements /\ Len(c.path) = 1
      /\ LockIn(c) = None /\ ~Claiming(c) /\ Name(p) = Head(c.path)
  BY <1>1, <1>2, InParentIs DEF Name
<1>4. CASE call' = [call EXCEPT ![p] = PutAt(c, "end")] /\ UNCHANGED <<ref, lock>>
  <2>1. LockIn(call'[p]) = None => lock' \in [Inums -> Procs \cup {NoProc}] /\ LockMoves(p)
    BY <1>1, <1>3, <1>4, SameLock
  <2> QED
    BY <1>1, <1>2, <1>3, <1>4, <2>1, PutAtKeeps
<1>5. ASSUME NEW i, i = Lookup(c.at, Name(p)), i # None, Name(p) \notin {".", ".."},
             call' = [call EXCEPT ![p].then = "unlink2", ![p].ip = i],
             ref' = [ref EXCEPT ![i] = @ + 1], lock' = [lock EXCEPT ![c.at] = p]
      PROVE  IInv'
  <2>1. Name(p) \in Names /\ i \in InumOrNone /\ (~stray' => type[i] # "free")
    BY <1>2, <1>3, <1>5, LookupIs DEF Elements
  <2>2. i = ents[c.at][Name(p)]
    BY <1>5, <2>1 DEF Lookup
  <2>3. PICK d \in CallType : d = [c EXCEPT !.then = "unlink2", !.ip = i]
          /\ Becomes(d, c.op, "unlink2", c.at, i, None, c.path)
    BY <1>3, <2>1, UnlinkIs DEF Becomes
  <2>4. call'[p] = d /\ call' = [call EXCEPT ![p] = d]
    BY <1>1, <1>5, <2>3 DEF IInv, CallsOK
  <2>5. Shape(d) /\ Finds(d) /\ LockIn(d) = c.at /\ ~Claiming(d)
    <3>1. Shape(d)
      BY <1>3, <1>5, <2>1, <2>3 DEF Becomes, Shape, Inums, None
    <3>2. Finds(d)
      BY <1>3, <2>2, <2>3 DEF Becomes, Finds, InDirectory, Linking
    <3> QED
      BY <1>3, <2>3, <3>1, <3>2 DEF Becomes, Linking, Claiming, LockIn
  <2>6. lock' \in [Inums -> Procs \cup {NoProc}] /\ LockMoves(p)
    BY <1>1, <1>3, <1>5, <2>4, <2>5, Locks
  <2>7. \A j \in Inums : One(i, j) + One(call[p].at, j) + One(call[p].ip, j)
                          = One(d.at, j) + One(d.ip, j) + One(d.put, j)
    BY <1>1, <1>3, <2>3 DEF Becomes, One, Inums, None
  <2>8. d.put # None => d.tested = FALSE
    BY <2>3 DEF Becomes
  <2>9. Goes(p, d, i)
    BY <1>1, <1>2, <1>3, <1>5, <2>1, <2>4, <2>5, <2>6, <2>7, <2>8 DEF Goes
  <2> QED
    BY <2>1, <2>9, GoesStep
<1>6. CASE Lookup(c.at, Name(p)) # None /\ Name(p) \notin {".", ".."}
  BY <1>1, <1>5, <1>6 DEF Unlink
<1>7. CASE ~(Lookup(c.at, Name(p)) # None /\ Name(p) \notin {".", ".."})
  BY <1>1, <1>4, <1>7 DEF Unlink
<1> QED
  BY <1>6, <1>7

\* UnlinkRefuses keeps the invariant.
LEMMA UnlinkRefusesKeeps ==
  ASSUME IInv, NEW p \in Procs, UnlinkRefuses(p)
  PROVE  IInv'
<1>1. At(p, "unlink2") /\ UNCHANGED <<inodeVars, ref, lock, cwd, fd, stray, raced>>
  BY DEF UnlinkRefuses
<1>2. /\ call[p].then = "unlink2" /\ call[p].put = None /\ call[p].at \in Inums
      /\ call[p].ip \in Inums /\ ~Claiming(call[p]) /\ LockIn(call[p]) = call[p].at
      /\ nlink[call[p].ip] >= 1
  <2>1. /\ call[p].then = "unlink2" /\ call[p].put = None /\ call[p].at \in Inums
        /\ type[call[p].at] = "dir" /\ call[p].ip \in Inums /\ ~Claiming(call[p])
        /\ Name(p) \in Names /\ ents[call[p].at][Name(p)] = call[p].ip
    BY <1>1, StageIs
  <2>2. nlink[call[p].ip] >= 1
    <3>1. PICK d \in Inums, n \in Names : d = call[p].at /\ n = Name(p)
      BY <2>1
    <3>2. type[d] = "dir" /\ ents[d][n] = call[p].ip /\ ents[d][n] # None
      BY <2>1, <3>1 DEF Inums, None
    <3>3. nlink[ents[d][n]] >= 1
      BY <3>2, NameIs
    <3> QED
      BY <3>2, <3>3
  <2> QED
    BY <2>1, <2>2 DEF LockIn
<1>3. nlink[call[p].ip] \in Nat
  BY <1>2 DEF IInv, InodeTypeOK
<1>4. panicked' = panicked /\ call' = [call EXCEPT ![p] = PutIp(call[p], "unlink_bad")]
  <2>1. ~(nlink[call[p].ip] < 1)
    BY <1>2, <1>3
  <2> QED
    BY <2>1 DEF UnlinkRefuses
<1>5. call'[p].then = "unlink_bad" /\ call'[p].at = call[p].at =>
        lock' \in [Inums -> Procs \cup {NoProc}] /\ LockMoves(p)
  BY <1>1, <1>2, SameLock DEF LockIn
<1> QED
  BY <1>1, <1>2, <1>4, <1>5, PutIpKeeps

\* UnlinkBad keeps the invariant.
LEMMA UnlinkBadKeeps ==
  ASSUME IInv, NEW p \in Procs, UnlinkBad(p)
  PROVE  IInv'
<1>1. /\ At(p, "unlink_bad") /\ lock' = [lock EXCEPT ![call[p].at] = NoProc]
      /\ call' = [call EXCEPT ![p] = PutAt(call[p], "end")]
      /\ UNCHANGED <<inodeVars, ref, cwd, fd, panicked, stray, raced>>
  BY DEF UnlinkBad
<1>2. /\ call[p].then = "unlink_bad" /\ call[p].put = None /\ call[p].at \in Inums
      /\ call[p].ip = None /\ ~Claiming(call[p]) /\ LockIn(call[p]) = call[p].at
  BY <1>1, StageIs DEF LockIn
<1>3. LockIn(call'[p]) = None => lock' \in [Inums -> Procs \cup {NoProc}] /\ LockMoves(p)
  BY <1>1, <1>2, Unlocks
<1> QED
  BY <1>1, <1>2, <1>3, PutAtKeeps

\* LinkUnlocks keeps the invariant.
LEMMA LinkUnlocksKeeps ==
  ASSUME IInv, NEW p \in Procs, LinkUnlocks(p)
  PROVE  IInv'
<1>1. /\ At(p, "link_exists") /\ lock' = [lock EXCEPT ![call[p].at] = NoProc]
      /\ call' = [call EXCEPT ![p] = PutAt(call[p], "link_bad")]
      /\ UNCHANGED <<inodeVars, ref, cwd, fd, panicked, stray, raced>>
  BY DEF LinkUnlocks
<1>2. /\ call[p].then = "link_exists" /\ call[p].put = None /\ call[p].at \in Inums
      /\ LockIn(call[p]) = call[p].at
  BY <1>1, StageIs DEF LockIn
<1>3. LockIn(call'[p]) = None => lock' \in [Inums -> Procs \cup {NoProc}] /\ LockMoves(p)
  BY <1>1, <1>2, Unlocks
<1> QED
  BY <1>1, <1>2, <1>3, PutAtKeeps

\* LinkExists keeps the invariant.
LEMMA LinkExistsKeeps ==
  ASSUME IInv, NEW p \in Procs, LinkExists(p)
  PROVE  IInv'
<1>1. PICK c \in CallType : c = call[p]
  BY CallIs
<1>2. InParent(p, {"link2"}) /\ UNCHANGED <<inodeVars, cwd, fd, panicked, raced>>
      /\ (~stray' => ~stray /\ nlink[c.at] # 0) /\ lock' = [lock EXCEPT ![c.at] = p]
  BY <1>1, NotesIs DEF LinkExists
<1>3. /\ c.then = "there" /\ c.put = None /\ c.at \in Inums /\ type[c.at] = "dir" /\ c.ip # None
      /\ lock[c.at] = NoProc /\ c.op = "link2" /\ Name(p) \in Elements
      /\ LockIn(c) = None /\ Claiming(c) /\ type[c.ip] = "file"
  BY <1>1, <1>2, InParentIs
<1>4. PICK i \in InumOrNone : i = Lookup(c.at, Name(p)) /\ i # None /\ (~stray' => type[i] # "free")
  BY <1>1, <1>2, <1>3, LookupIs DEF LinkExists
<1>5. PICK d \in CallType : d = Put(c, i, "link_exists")
        /\ Becomes(d, c.op, "link_exists", c.at, c.ip, i, c.path)
  <2>1. "link_exists" \in Stages
    BY DEF Stages
  <2> QED
    BY <2>1, PutIs DEF Becomes
<1>6. call'[p] = d /\ call' = [call EXCEPT ![p] = d] /\ ref' = [ref EXCEPT ![i] = @ + 1]
  BY <1>1, <1>4, <1>5 DEF IInv, CallsOK, LinkExists
<1>7. Shape(d) /\ Finds(d) /\ LockIn(d) = c.at /\ Claiming(d) /\ d.ip = c.ip
  BY <1>3, <1>5 DEF Becomes, Shape, Finds, InDirectory, Linking, Claiming, LockIn, Inums, None
<1>8. lock' \in [Inums -> Procs \cup {NoProc}] /\ LockMoves(p)
  BY <1>1, <1>2, <1>3, <1>6, <1>7, Locks
<1>9. \A j \in Inums : One(i, j) + One(call[p].at, j) + One(call[p].ip, j)
                        = One(d.at, j) + One(d.ip, j) + One(d.put, j)
  BY <1>1, <1>5 DEF Becomes, One
<1>10. d.put # None => d.tested = FALSE
  BY <1>5 DEF Becomes
<1>11. Goes(p, d, i)
  BY <1>1, <1>2, <1>3, <1>4, <1>6, <1>7, <1>8, <1>9, <1>10 DEF Goes
<1> QED
  BY <1>4, <1>11, GoesStep

-----------------------------------------------------------------------------
(* iput.                                                                    *)
\* The reference goes, and the call goes on.
LetsGo(p, d) ==
  /\ call[p].put # None /\ call[p].tested
  /\ call' = [call EXCEPT ![p] = d] /\ ref' = [ref EXCEPT ![call[p].put] = @ - 1]
  /\ UNCHANGED <<inodeVars, lock, cwd, fd, panicked, stray, raced>>
  /\ Shape(d) /\ Finds(d) /\ (Claiming(d) <=> Claiming(call[p])) /\ (Claiming(d) => d.ip = call[p].ip)
  /\ LockIn(d) = LockIn(call[p]) /\ (d.put # None => d.tested = FALSE)
  /\ \A i \in Inums : One(d.at, i) + One(d.ip, i) + One(d.put, i)
                       = One(call[p].at, i) + One(call[p].ip, i)

\* LetsGo keeps the invariant.
LEMMA LetsGoKeeps ==
  ASSUME IInv, NEW p \in Procs, NEW d \in CallType, LetsGo(p, d)
  PROVE  IInv'
<1>1. PICK g \in Inums : g = call[p].put
  BY CallIs DEF LetsGo, InumOrNone
<1>2. call'[p] = d /\ cwd' = cwd /\ fd' = fd /\ OthersStay(p) /\ stray' = stray /\ inodeVars' = inodeVars
      /\ panicked' = panicked
  BY DEF IInv, CallsOK, OthersStay, LetsGo
<1>3. /\ cwd' \in [Procs -> Inums] /\ fd' \in [Procs -> InumOrNone] /\ call' \in [Procs -> CallType]
  BY DEF IInv, InodeTypeOK, CallsOK, InumOrNone, LetsGo
<1>4. \A i \in Inums : \A x : One(x, i) \in {0, 1} /\ (x = i <=> One(x, i) = 1)
  BY DEF One
<1>5. ref' \in [Inums -> Int] /\ \A i \in Inums : ref[i] \in Nat /\ ref'[i] = ref[i] - One(g, i)
  <2>1. ref \in [Inums -> Nat] /\ ref' = [ref EXCEPT ![g] = @ - 1]
    BY <1>1 DEF IInv, InodeTypeOK, LetsGo
  <2>2. \A i \in Inums : ref'[i] = IF i = g THEN ref[i] - 1 ELSE ref[i]
    BY <2>1
  <2>3. ref' \in [Inums -> Int]
    BY <2>1
  <2> QED
    BY <2>1, <2>2, <2>3 DEF One
<1>6. \A i \in Inums : One(d.at, i) + One(d.ip, i) + One(d.put, i) = One(call[p].at, i) + One(call[p].ip, i)
  BY DEF LetsGo
<1>7. \A i \in Inums : ref'[i] + Points(cwd[p], fd[p], call[p], i)
                       = ref[i] + Points(cwd'[p], fd'[p], call'[p], i)
  <2> SUFFICES ASSUME NEW i \in Inums
               PROVE  ref'[i] + Points(cwd[p], fd[p], call[p], i) = ref[i] + Points(cwd[p], fd[p], d, i)
    BY <1>2
  <2>1. ref'[i] = ref[i] - One(call[p].put, i) /\ ref[i] \in Nat
    BY <1>1, <1>5
  <2>2. One(d.at, i) + One(d.ip, i) + One(d.put, i) = One(call[p].at, i) + One(call[p].ip, i)
    BY <1>6
  <2> QED
    BY <1>4, <2>1, <2>2 DEF Points
<1>8. NoCountPanic'
  BY <1>2 DEF IInv, NoCountPanic
<1>9. Frees(p)
  <2> SUFFICES ASSUME NEW i \in Inums, type[i] = "free", ~stray, i = g
               PROVE  ref'[i] = 0
    BY <1>1, <1>2, <1>4, <1>5 DEF Frees
  <2>1. ref[i] \in Nat /\ ref[i] >= Points(cwd[p], fd[p], call[p], i)
    BY Referenced DEF IInv
  <2>2. ref[i] >= 1
    BY <1>1, <1>4, <2>1 DEF Points
  <2>3. ref[i] = 1
    BY <2>1, <2>2 DEF IInv, NoUseAfterFree
  <2> QED
    BY <1>4, <1>5, <2>3
<1>10. GoesOnUsing(p)
  <2> SUFFICES ASSUME NEW i \in Inums, Uses(p, i) PROVE Using(cwd[p], fd[p], d, i)
    BY <1>2 DEF GoesOnUsing
  <2>1. cwd[p] = i \/ fd[p] = i \/ call[p].at = i \/ call[p].ip = i
    BY DEF LetsGo, Uses, Using
  <2>2. call[p].at = i \/ call[p].ip = i => d.at = i \/ d.ip = i \/ d.put = i
    <3>1. One(d.at, i) + One(d.ip, i) + One(d.put, i) = One(call[p].at, i) + One(call[p].ip, i)
      BY <1>6
    <3> QED
      BY <1>4, <3>1
  <2>3. d.put = i => d.tested = FALSE
    BY DEF LetsGo, Inums, None
  <2> QED
    BY <2>1, <2>2, <2>3 DEF Using
<1>11. lock' \in [Inums -> Procs \cup {NoProc}] /\ LockMoves(p)
  BY <1>2, SameLock DEF LetsGo
<1>12. /\ Shape(call'[p]) /\ Finds(call'[p]) /\ (Claiming(call'[p]) <=> Claiming(call[p]))
       /\ (Claiming(call[p]) => call'[p].ip = call[p].ip) /\ raced' = raced
  BY <1>2 DEF LetsGo
<1>13. Quiet(p)
  BY <1>2, <1>3, <1>5, <1>7, <1>8, <1>9, <1>10, <1>11, <1>12 DEF Quiet, Still
<1> QED
  BY <1>13, QuietKeeps

\* PutDrop keeps the invariant.
LEMMA PutDropKeeps ==
  ASSUME IInv, NEW p \in Procs, PutDrop(p)
  PROVE  IInv'
<1>1. PICK c \in CallType : c = call[p]
  BY CallIs
<1>2. /\ c.put # None /\ c.tested = TRUE /\ ref' = [ref EXCEPT ![call[p].put] = @ - 1]
      /\ UNCHANGED <<inodeVars, lock, cwd, fd, panicked, stray, raced>>
  BY <1>1 DEF PutDrop, Putting, inodeVars
<1>3. call[p].put # None /\ call[p].tested
  BY <1>1, <1>2
<1>4. Shape(c) /\ Finds(c) /\ c # NoCall
  BY <1>1, <1>2, CallIs DEF NoCall
<1>5. CASE c.then = "end"
  <2>1. PICK d \in CallType : d = NoCall /\ Becomes(d, "none", "user", None, None, None, <<>>)
    BY NoCallIs
  <2>2. call' = [call EXCEPT ![p] = d]
    BY <1>1, <1>5, <2>1 DEF PutDrop
  <2>3. c.at = None /\ c.ip = None
    BY <1>4, <1>5 DEF Shape
  <2>4. /\ Shape(d) /\ Finds(d) /\ ~Claiming(d) /\ ~Claiming(c)
        /\ LockIn(d) = None /\ LockIn(c) = None
    BY <1>5, <2>1 DEF Becomes, Shape, Finds, InDirectory, Linking, Claiming, LockIn
  <2>5. \A i \in Inums : One(d.at, i) + One(d.ip, i) + One(d.put, i) = One(c.at, i) + One(c.ip, i)
    BY <2>1, <2>3 DEF Becomes, One, Inums, None
  <2>6. LetsGo(p, d)
    BY <1>1, <1>2, <1>3, <2>1, <2>2, <2>4, <2>5 DEF LetsGo, Becomes
  <2> QED
    BY <2>6, LetsGoKeeps
<1>6. CASE c.then = "put_ip"
  <2>1. PICK d \in CallType : d = PutIp(c, "end") /\ Becomes(d, c.op, "end", c.at, None, c.ip, c.path)
    <3>1. "end" \in Stages
      BY DEF Stages
    <3> QED
      BY <3>1, PutIpIs DEF Becomes
  <2>2. call' = [call EXCEPT ![p] = d]
    BY <1>1, <1>6, <2>1 DEF PutDrop
  <2>3. c.at = None /\ c.ip # None
    BY <1>4, <1>6 DEF Shape
  <2>4. /\ Shape(d) /\ Finds(d) /\ ~Claiming(d) /\ ~Claiming(c)
        /\ LockIn(d) = None /\ LockIn(c) = None
    BY <1>6, <2>1, <2>3 DEF Becomes, Shape, Finds, InDirectory, Linking, Claiming, LockIn
  <2>5. \A i \in Inums : One(d.at, i) + One(d.ip, i) + One(d.put, i) = One(c.at, i) + One(c.ip, i)
    BY <2>1, <2>3 DEF Becomes, One, Inums, None
  <2>6. LetsGo(p, d)
    BY <1>1, <1>2, <1>3, <2>1, <2>2, <2>4, <2>5 DEF LetsGo, Becomes
  <2> QED
    BY <2>6, LetsGoKeeps
<1>7. CASE c.then # "end" /\ c.then # "put_ip"
  <2>1. PICK d \in CallType : d = [c EXCEPT !.put = None]
          /\ Becomes(d, c.op, c.then, c.at, c.ip, None, c.path)
    BY DroppedIs DEF Becomes
  <2>2. call' = [call EXCEPT ![p] = d]
    BY <1>1, <1>7, <2>1 DEF PutDrop
  <2>3. Shape(d)
    <3>1. d.op = c.op /\ d.then = c.then /\ d.at = c.at /\ d.ip = c.ip /\ d.put = None /\ d.path = c.path
      BY <2>1 DEF Becomes
    <3> QED
      BY <1>2, <1>4, <1>7, <3>1 DEF Shape, WantsParent
  <2>4. /\ Finds(d) /\ (Claiming(d) <=> Claiming(c)) /\ d.ip = c.ip /\ LockIn(d) = LockIn(c)
    BY <1>4, <2>1 DEF Becomes, Finds, InDirectory, Linking, Claiming, LockIn
  <2>5. \A i \in Inums : One(d.at, i) + One(d.ip, i) + One(d.put, i) = One(c.at, i) + One(c.ip, i)
    BY <2>1 DEF Becomes, One, Inums, None
  <2>6. LetsGo(p, d)
    BY <1>1, <1>2, <1>3, <2>1, <2>2, <2>3, <2>4, <2>5 DEF LetsGo, Becomes
  <2> QED
    BY <2>6, LetsGoKeeps
<1> QED
  BY <1>5, <1>6, <1>7

\* References that no other process has.
LEMMA NoOtherPoints ==
  ASSUME InodeTypeOK, RefExact, NEW p \in Procs, NEW i \in Inums,
         \A q \in Procs \ {p} : /\ cwd[q] # i /\ fd[q] # i
                                /\ call[q].at # i /\ call[q].ip # i /\ call[q].put # i
  PROVE  ref[i] = Points(cwd[p], fd[p], call[p], i)
<1>1. ASSUME NEW f, \A q \in Procs \ {p} : f[q] # i
      PROVE  Cardinality(Holders(f, i)) = One(f[p], i)
  <2>1. CASE f[p] = i
    <3>1. Holders(f, i) = {p}
      BY <1>1, <2>1 DEF Holders
    <3> QED
      BY <2>1, <3>1, FS_Singleton DEF One
  <2>2. CASE f[p] # i
    <3>1. Holders(f, i) = {}
      BY <1>1, <2>2 DEF Holders
    <3> QED
      BY <2>2, <3>1, FS_EmptySet DEF One
  <2> QED
    BY <2>1, <2>2
<1>2. \A q \in Procs : AtOf[q] = call[q].at /\ IpOf[q] = call[q].ip /\ PutOf[q] = call[q].put
  BY DEF AtOf, IpOf, PutOf
<1>3. ref[i] = Sum5(Cardinality(Holders(cwd, i)), Cardinality(Holders(fd, i)),
              Cardinality(Holders(AtOf, i)), Cardinality(Holders(IpOf, i)), Cardinality(Holders(PutOf, i)))
  BY RefsAre DEF RefExact
<1>4. Cardinality(Holders(cwd, i)) = One(cwd[p], i) /\ Cardinality(Holders(fd, i)) = One(fd[p], i)
  BY <1>1
<1>5. Cardinality(Holders(AtOf, i)) = One(call[p].at, i)
  BY <1>1, <1>2
<1>6. Cardinality(Holders(IpOf, i)) = One(call[p].ip, i)
  BY <1>1, <1>2
<1>7. Cardinality(Holders(PutOf, i)) = One(call[p].put, i)
  BY <1>1, <1>2
<1> QED
  BY <1>3, <1>4, <1>5, <1>6, <1>7 DEF Points, Sum5

\* The call of p has tested what it puts.
Tests(p, d) ==
  /\ call[p].put \in Inums /\ ~call[p].tested /\ d.tested
  /\ d.op = call[p].op /\ d.then = call[p].then /\ d.at = call[p].at /\ d.ip = call[p].ip
  /\ d.put = call[p].put /\ d.path = call[p].path
  /\ call' = [call EXCEPT ![p] = d] /\ call'[p] = d /\ OthersStay(p)
  /\ UNCHANGED <<nlink, ref, lock, cwd, fd, panicked, stray>>
  /\ Shape(d) /\ LockIn(d) = LockIn(call[p]) /\ (Claiming(d) <=> Claiming(call[p]))
  /\ raced' = IF \E q \in Procs \ {p} : call[q].put = call[p].put /\ call[q].tested
              THEN raced \cup {call[p].put} ELSE raced

\* The first half of iput, as what it does to one call.
LEMMA TestIs ==
  ASSUME IInv, NEW p \in Procs, PutTest(p)
  PROVE  \E d \in CallType : Tests(p, d)
<1>1. PICK c \in CallType : c = call[p]
  BY CallIs
<1>2. /\ c.put # None /\ c.tested = FALSE /\ call' = [call EXCEPT ![p].tested = TRUE]
      /\ UNCHANGED <<nlink, ref, lock, cwd, fd, panicked, stray>>
      /\ raced' = IF \E q \in Procs \ {p} : call[q].put = call[p].put /\ call[q].tested
                  THEN raced \cup {call[p].put} ELSE raced
  BY <1>1 DEF PutTest, Putting
<1>3. c.put \in Inums /\ Shape(c) /\ c # NoCall
  BY <1>1, <1>2, CallIs DEF InumOrNone, NoCall
<1>4. PICK d \in CallType : /\ d = [c EXCEPT !.tested = TRUE]
        /\ d.op = c.op /\ d.then = c.then /\ d.at = c.at /\ d.ip = c.ip
        /\ d.put = c.put /\ d.path = c.path /\ d.tested = TRUE
  BY TestedIs
<1>5. call' = [call EXCEPT ![p] = d] /\ call'[p] = d
  BY <1>1, <1>2, <1>4 DEF IInv, CallsOK
<1>6. OthersStay(p)
  BY <1>2, <1>5 DEF IInv, CallsOK, OthersStay
<1>7. Shape(d)
  BY <1>3, <1>4 DEF Shape, WantsParent
<1>8. LockIn(d) = LockIn(c) /\ (Claiming(d) <=> Claiming(c))
  BY <1>4 DEF LockIn, Claiming, Linking
<1>9. ~call[p].tested /\ d.tested
  <2>1. ~c.tested
    BY <1>2
  <2>2. d.tested
    BY <1>4
  <2> QED
    BY <1>1, <2>1, <2>2
<1>10. /\ d.op = call[p].op /\ d.then = call[p].then /\ d.at = call[p].at /\ d.ip = call[p].ip
       /\ d.put = call[p].put /\ d.path = call[p].path /\ call[p].put \in Inums
       /\ LockIn(d) = LockIn(call[p]) /\ (Claiming(d) <=> Claiming(call[p]))
  BY <1>1, <1>3, <1>4, <1>8
<1>11. Tests(p, d)
  BY <1>2, <1>5, <1>6, <1>7, <1>9, <1>10 DEF Tests
<1> QED
  BY <1>11

\* The first half of iput moves no reference.
LEMMA TestPoints ==
  ASSUME NEW p \in Procs, NEW d, Tests(p, d)
  PROVE  \A i : Points(cwd'[p], fd'[p], call'[p], i) = Points(cwd[p], fd[p], call[p], i)
BY DEF Tests, Points

\* The inode stays.  If its links are gone, another reference does too.
LEMMA TestKeepsInode ==
  ASSUME IInv, NEW p \in Procs, NEW d \in CallType, Tests(p, d), ~Drops(call[p].put),
         UNCHANGED <<type, ents>>
  PROVE  IInv'
<1>1. /\ call[p].put \in Inums /\ call'[p] = d /\ OthersStay(p) /\ d.tested /\ ~call[p].tested
      /\ UNCHANGED <<nlink, ref, lock, cwd, fd, panicked, stray>> /\ UNCHANGED inodeVars
      /\ d.at = call[p].at /\ d.ip = call[p].ip /\ d.put = call[p].put
  BY DEF Tests, inodeVars
<1>2. /\ cwd' \in [Procs -> Inums] /\ fd' \in [Procs -> InumOrNone] /\ call' \in [Procs -> CallType]
      /\ ref' \in [Inums -> Int]
  BY DEF IInv, InodeTypeOK, CallsOK, InumOrNone, Tests
<1>3. Shape(d) /\ Finds(d) /\ (Claiming(d) <=> Claiming(call[p])) /\ LockIn(d) = LockIn(call[p])
  BY CallIs DEF Tests, Finds, InDirectory, Linking
<1>4. lock' \in [Inums -> Procs \cup {NoProc}] /\ LockMoves(p)
  BY <1>1, <1>3, SameLock
<1>5. \A i \in Inums : ref'[i] + Points(cwd[p], fd[p], call[p], i)
                       = ref[i] + Points(cwd'[p], fd'[p], call'[p], i)
  BY <1>1, TestPoints
<1>6. NoCountPanic'
  BY <1>1 DEF IInv, NoCountPanic
<1>7. Frees(p)
  BY <1>1 DEF Frees
<1>8. Still(p)
  BY <1>1, <1>2, <1>3, <1>4, <1>5, <1>6, <1>7 DEF Still
<1>9. OrphansAreUsed'
  <2> SUFFICES ASSUME NEW i \in Inums, type[i] # "free", nlink[i] = 0, i \notin raced'
               PROVE  \E q \in Procs : Using(cwd[q], fd[q], call'[q], i)
    BY <1>1 DEF OrphansAreUsed, Uses, inodeVars
  <2>1. i \notin raced
    BY DEF Tests
  <2>2. PICK q \in Procs : Uses(q, i)
    BY <2>1 DEF IInv, OrphansAreUsed
  <2>3. CASE q # p
    BY <1>1, <2>2, <2>3 DEF Uses, OthersStay
  <2>4. CASE q = p /\ (cwd[p] = i \/ fd[p] = i \/ call[p].at = i \/ call[p].ip = i)
    BY <1>1, <2>4 DEF Using
  <2>5. CASE call[p].put = i /\ ~(cwd[p] = i \/ fd[p] = i \/ call[p].at = i \/ call[p].ip = i)
    <3>1. ref[i] # 1
      BY <2>5 DEF Drops
    <3>2. Points(cwd[p], fd[p], call[p], i) = 1
      BY <2>5 DEF Points, One
    <3>3. PICK r \in Procs \ {p} : cwd[r] = i \/ fd[r] = i \/ call[r].at = i \/ call[r].ip = i \/ call[r].put = i
      BY <3>1, <3>2, NoOtherPoints DEF IInv
    <3>4. call[r].put = i => ~call[r].tested
      BY <2>5 DEF Tests
    <3>5. Using(cwd[r], fd[r], call[r], i)
      BY <3>3, <3>4 DEF Using
    <3> QED
      BY <1>1, <3>5 DEF OthersStay
  <2> QED
    BY <2>2, <2>3, <2>4, <2>5 DEF Uses, Using
<1> QED
  BY <1>8, <1>9, StillKeeps

\* No process points to it any more, and nothing claims it.
LEMMA DroppedAlone ==
  ASSUME IInv, NEW p \in Procs, NEW i \in Inums, call[p].put = i, Drops(i)
  PROVE  /\ \A q \in Procs : cwd[q] # i /\ fd[q] # i /\ call[q].at # i /\ call[q].ip # i
         /\ \A q \in Procs \ {p} : call[q].put # i
         /\ NamesOf(i) = {} /\ SubNames(i) = {} /\ Pending(i) = {} /\ i # Root
<1>1. nlink[i] = 0 /\ ref[i] = 1
  BY DEF Drops
<1>2. \A q \in Procs : cwd[q] # i /\ fd[q] # i /\ call[q].at # i /\ call[q].ip # i
  BY <1>1, OnlyReference
<1>3. \A q \in Procs \ {p} : call[q].put # i
  BY <1>1, OnlyReference
<1>4. NamesOf(i) = {} /\ SubNames(i) = {} /\ Pending(i) = {} /\ RootLink(i) = 0
  BY <1>1, ClaimsAre DEF IInv
<1> QED
  BY <1>2, <1>3, <1>4 DEF RootLink

\* iput frees an inode only when nothing uses it and nothing names it.
LEMMA TestFreesInode ==
  ASSUME IInv, NEW p \in Procs, NEW d \in CallType, Tests(p, d), NEW i \in Inums, i = call[p].put,
         Drops(i), type' = [type EXCEPT ![i] = "free"], ents' = [ents EXCEPT ![i] = NoEntries]
  PROVE  IInv'
<1>1. /\ call'[p] = d /\ OthersStay(p) /\ d.tested /\ ~call[p].tested
      /\ UNCHANGED <<nlink, ref, lock, cwd, fd, panicked, stray>>
      /\ d.at = call[p].at /\ d.ip = call[p].ip /\ d.put = call[p].put /\ d.then = call[p].then
      /\ d.op = call[p].op /\ d.path = call[p].path
  BY DEF Tests
<1>2. /\ \A q \in Procs : cwd[q] # i /\ fd[q] # i /\ call[q].at # i /\ call[q].ip # i
      /\ \A q \in Procs \ {p} : call[q].put # i
      /\ NamesOf(i) = {} /\ SubNames(i) = {} /\ Pending(i) = {} /\ i # Root
  BY DroppedAlone
<1>3. nlink[i] = 0 /\ ref[i] = 1
  BY DEF Drops
<1>4. /\ type \in [Inums -> {"free", "dir", "file"}]
      /\ ents \in [Inums -> [Names \cup {".."} -> InumOrNone]]
      /\ nlink \in [Inums -> Nat] /\ ref \in [Inums -> Nat]
  BY DEF IInv, InodeTypeOK, InumOrNone
<1>5. /\ \A j \in Inums : type'[j] = IF j = i THEN "free" ELSE type[j]
      /\ \A j \in Inums : ents'[j] = IF j = i THEN NoEntries ELSE ents[j]
      /\ \A n \in Names \cup {".."} : NoEntries[n] = None
  BY <1>4 DEF NoEntries
<1>6. /\ call' \in [Procs -> CallType]
      /\ ref' \in [Inums -> Nat]
  BY <1>1, <1>4 DEF IInv, CallsOK, Tests
<1>7. InodeTypeOK'
  <2>1. type' \in [Inums -> {"free", "dir", "file"}]
    BY <1>4
  <2>2. ents' \in [Inums -> [Names \cup {".."} -> Inums \cup {None}]]
    <3>1. NoEntries \in [Names \cup {".."} -> InumOrNone]
      BY DEF NoEntries, InumOrNone
    <3> QED
      BY <1>4, <3>1 DEF InumOrNone
  <2> QED
    BY <1>1, <1>6, <2>1, <2>2, TypesStep DEF IInv, InodeTypeOK, InumOrNone
<1>8. CallsOK'
  BY <1>1, <1>6, CallsStep DEF IInv, Tests
<1>9. RefExact'
  <2>1. \A j \in Inums : ref'[j] + Points(cwd[p], fd[p], call[p], j)
                         = ref[j] + Points(cwd'[p], fd'[p], call'[p], j)
    BY <1>1, TestPoints
  <2>2. ref' \in [Inums -> Int]
    BY <1>6
  <2> QED
    BY <1>1, <2>1, <2>2, RefStep DEF IInv, OthersStay
<1>10. LocksExact'
  <2>1. LockIn(call'[p]) = LockIn(call[p])
    BY <1>1 DEF Tests
  <2> QED
    BY <1>1, <2>1, SameLock, LocksStep DEF IInv
<1>11. \A q \in Procs : /\ call'[q].op = call[q].op /\ call'[q].then = call[q].then
                        /\ call'[q].at = call[q].at /\ call'[q].ip = call[q].ip
                        /\ call'[q].put = call[q].put /\ call'[q].path = call[q].path
  BY <1>1 DEF OthersStay
<1>12. CallsFind'
  <2> SUFFICES ASSUME NEW q \in Procs PROVE Finds(call[q])'
    BY DEF CallsFind
  <2>1. Finds(call[q]) /\ Shape(call[q]) /\ call[q].at \in InumOrNone /\ call[q].ip \in InumOrNone
    BY CallIs
  <2>2. InDirectory(call[q]) => call[q].at \in Inums
    BY <2>1 DEF InDirectory, Shape, NoCall, InumOrNone
  <2>3. Linking(call[q]) => call[q].ip \in Inums
    BY <2>1 DEF Linking, Shape, NoCall, InumOrNone
  <2>4. call[q].at # i /\ call[q].ip # i
    BY <1>2
  <2>5. call[q].then = "unlink2" => InDirectory(call[q])
    BY DEF InDirectory
  <2> QED
    BY <1>5, <1>11, <2>1, <2>2, <2>3, <2>4, <2>5 DEF Finds, InDirectory, Linking
<1>13. EntriesOK'
  <2>1. Root \in Inums
    BY RootIs
  <2> QED
    BY <1>2, <1>5, <2>1 DEF IInv, EntriesOK
<1>14. \A j : Pending(j)' = Pending(j)
  BY <1>11 DEF Pending, Claiming, Linking
<1>15. \A j \in Inums : NamesOf(j)' \subseteq NamesOf(j) /\ (~stray => NamesOf(j)' = NamesOf(j))
  <2> SUFFICES ASSUME NEW j \in Inums
               PROVE  NamesOf(j)' \subseteq NamesOf(j) /\ (~stray => NamesOf(j)' = NamesOf(j))
    OBVIOUS
  <2>1. NamesOf(j)' \subseteq NamesOf(j)
    BY <1>5 DEF NamesOf
  <2>2. ASSUME ~stray, NEW x \in NamesOf(j) PROVE x \in NamesOf(j)'
    <3>1. PICK e \in Inums, n \in Names : x = <<e, n>> /\ type[e] = "dir" /\ ents[e][n] = j
      BY <2>2 DEF NamesOf
    <3>2. e # i
      <4>1. type[i] = "dir" => IsEmpty(i)
        BY <1>2, <2>2 DEF IInv, RemovedIsEmpty
      <4> QED
        BY <3>1, <4>1 DEF IsEmpty, Inums, None
    <3> QED
      BY <1>5, <3>1, <3>2 DEF NamesOf
  <2> QED
    BY <2>1, <2>2
<1>16. \A j \in Inums : SubNames(j)' = SubNames(j)
  <2>1. SubNames(i)' = SubNames(i)
    BY <1>2, <1>5 DEF SubNames
  <2>2. ASSUME NEW j \in Inums, j # i PROVE SubNames(j)' = SubNames(j)
    <3>1. ents'[j] = ents[j] /\ type'[j] = type[j]
      BY <1>5, <2>2
    <3>2. ASSUME NEW n \in Names, type[j] = "dir", ents[j][n] # None
          PROVE  type'[ents[j][n]] = type[ents[j][n]]
      <4>1. ents[j][n] \in Inums
        BY <1>4, <3>2 DEF InumOrNone
      <4>2. ents[j][n] # i
        <5>1. ents[j][n] = i => <<j, n>> \in NamesOf(i)
          BY <3>2 DEF NamesOf
        <5> QED
          BY <1>2, <5>1
      <4> QED
        BY <1>5, <4>1, <4>2
    <3> QED
      BY <3>1, <3>2 DEF SubNames
  <2> QED
    BY <2>1, <2>2
<1>17. LinksCover'
  <2> SUFFICES ASSUME NEW j \in Inums
               PROVE  /\ nlink[j] >= Claims(j)' /\ (~stray => nlink[j] = Claims(j)')
                      /\ type'[j] = "free" => nlink[j] = 0
    BY <1>1 DEF LinksCover
  <2>1. IsFiniteSet(NamesOf(j)) /\ Cardinality(NamesOf(j)) \in Nat
    BY ClaimsAreFinite, FS_CardinalityType DEF IInv
  <2>2. IsFiniteSet(NamesOf(j)') /\ Cardinality(NamesOf(j)') \in Nat
        /\ Cardinality(NamesOf(j)') <= Cardinality(NamesOf(j))
        /\ (~stray => Cardinality(NamesOf(j)') = Cardinality(NamesOf(j)))
    BY <1>15, <2>1, FS_Subset, FS_CardinalityType
  <2>3. /\ Cardinality(SubNames(j)) \in Nat /\ Cardinality(Pending(j)) \in Nat /\ RootLink(j) \in {0, 1}
        /\ nlink[j] \in Nat
        /\ nlink[j] >= Cardinality(NamesOf(j)) + Cardinality(SubNames(j)) + Cardinality(Pending(j)) + RootLink(j)
        /\ ~stray => nlink[j] = Cardinality(NamesOf(j)) + Cardinality(SubNames(j))
                                + Cardinality(Pending(j)) + RootLink(j)
        /\ type[j] = "free" => nlink[j] = 0
    BY ClaimsAre DEF IInv
  <2>4. Claims(j)' = Cardinality(NamesOf(j)') + Cardinality(SubNames(j)) + Cardinality(Pending(j)) + RootLink(j)
    BY <1>14, <1>16 DEF Claims, RootLink
  <2>5. type'[j] = "free" => nlink[j] = 0
    BY <1>3, <1>5, <2>3
  <2> QED
    BY <2>1, <2>2, <2>3, <2>4, <2>5
<1>18. Tree'
  <2> SUFFICES ASSUME NEW e \in Inums, NEW j \in Inums, NEW n \in Names, IsName(e, n, j)', type'[j] = "dir"
               PROVE  /\ j # Root /\ ents'[j][".."] = e /\ Pending(j)' = {}
                      /\ \A f \in Inums, m \in Names : IsName(f, m, j)' => f = e /\ m = n
                      /\ \A m \in Names : ents'[j][m] # e
    BY DEF Tree
  <2>1. \A f \in Inums, m \in Names : IsName(f, m, j)' => IsName(f, m, j)
    BY <1>5 DEF IsName
  <2>2. type[j] = "dir" /\ j # i /\ ents'[j] = ents[j]
    BY <1>5
  <2>3. /\ j # Root /\ ents[j][".."] = e /\ Pending(j) = {}
        /\ \A f \in Inums, m \in Names : IsName(f, m, j) => f = e /\ m = n
        /\ \A m \in Names : ents[j][m] # e
    BY <2>1, <2>2 DEF IInv, Tree
  <2> QED
    BY <1>14, <2>1, <2>2, <2>3
<1>19. RemovedIsEmpty'
  <2> SUFFICES ASSUME ~stray, NEW j \in Inums \ {Root}, type'[j] = "dir", NamesOf(j)' = {}
               PROVE  \A n \in Names : ents'[j][n] = None
    BY <1>1 DEF RemovedIsEmpty, IsEmpty
  <2>1. type[j] = "dir" /\ j # i /\ ents'[j] = ents[j] /\ NamesOf(j) = {}
    BY <1>5, <1>15
  <2> QED
    BY <2>1 DEF IInv, RemovedIsEmpty, IsEmpty
<1>20. NoUseAfterFree'
  <2> SUFFICES ASSUME ~stray, NEW j \in Inums, type'[j] = "free", ref[j] > 0
               PROVE  ref[j] = 1 /\ \E q \in Procs : call'[q].put = j /\ call'[q].tested
    BY <1>1 DEF NoUseAfterFree
  <2>1. CASE j = i
    BY <1>1, <1>3, <2>1
  <2>2. CASE j # i
    <3>1. PICK q \in Procs : ref[j] = 1 /\ call[q].put = j /\ call[q].tested
      BY <1>5, <2>2 DEF IInv, NoUseAfterFree
    <3>2. q # p
      BY <2>2, <3>1
    <3> QED
      BY <1>1, <3>1, <3>2 DEF OthersStay
  <2> QED
    BY <2>1, <2>2
<1>21. NoCountPanic'
  BY <1>1 DEF IInv, NoCountPanic
<1>22. OrphansAreUsed'
  <2> SUFFICES ASSUME NEW j \in Inums, type'[j] # "free", nlink[j] = 0, j \notin raced'
               PROVE  \E q \in Procs : Using(cwd[q], fd[q], call'[q], j)
    BY <1>1 DEF OrphansAreUsed, Uses
  <2>1. j # i /\ type[j] # "free" /\ j \notin raced
    BY <1>5 DEF Tests
  <2>2. PICK q \in Procs : Uses(q, j)
    BY <2>1 DEF IInv, OrphansAreUsed
  <2>3. CASE q # p
    BY <1>1, <2>2, <2>3 DEF Uses, OthersStay
  <2>4. CASE q = p
    BY <1>1, <2>1, <2>2, <2>4 DEF Uses, Using
  <2> QED
    BY <2>3, <2>4
<1> QED
  BY <1>7, <1>8, <1>9, <1>10, <1>12, <1>13, <1>17, <1>18, <1>19, <1>20, <1>21, <1>22 DEF IInv

\* PutTest keeps the invariant.
LEMMA PutTestKeeps ==
  ASSUME IInv, NEW p \in Procs, PutTest(p)
  PROVE  IInv'
<1>1. PICK d \in CallType : Tests(p, d)
  BY TestIs
<1>2. PICK i \in Inums : i = call[p].put
  BY <1>1 DEF Tests
<1>3. CASE Drops(i)
  BY <1>1, <1>2, <1>3, TestFreesInode DEF PutTest
<1>4. CASE ~Drops(i)
  BY <1>1, <1>2, <1>4, TestKeepsInode DEF PutTest
<1> QED
  BY <1>3, <1>4

-----------------------------------------------------------------------------
(* The steps that change inodes.                                            *)
\* What such a step does to everything else.
Changes(p, d, g) ==
  /\ call[p].put = None /\ (d.put # None => d.tested = FALSE) /\ Shape(d)
  /\ call' = [call EXCEPT ![p] = d] /\ UNCHANGED <<cwd, fd, panicked>>
  /\ ref' = IF g = None THEN ref ELSE [ref EXCEPT ![g] = @ + 1]
  /\ \A i \in Inums : One(g, i) + One(call[p].at, i) + One(call[p].ip, i)
                       = One(d.at, i) + One(d.ip, i) + One(d.put, i)
  /\ lock' \in [Inums -> Procs \cup {NoProc}] /\ LockMoves(p) /\ (~stray' => ~stray)
  /\ type' \in [Inums -> {"free", "dir", "file"}] /\ nlink' \in [Inums -> Nat]
  /\ ents' \in [Inums -> [Names \cup {".."} -> InumOrNone]]

\* What a step that changes names or links keeps of the parts that say nothing of them.
LEMMA ChangeStep ==
  ASSUME IInv, NEW p \in Procs, NEW d \in CallType, NEW g \in InumOrNone, Changes(p, d, g)
  PROVE  /\ InodeTypeOK' /\ CallsOK' /\ RefExact' /\ LocksExact' /\ NoCountPanic'
         /\ OthersStay(p) /\ call'[p] = d /\ GoesOnUsing(p)
         /\ \A i \in Inums : i # g => ref'[i] = ref[i]
<1>1. call'[p] = d /\ cwd' = cwd /\ fd' = fd /\ OthersStay(p)
  BY DEF IInv, InodeTypeOK, CallsOK, OthersStay, Changes
<1>2. /\ cwd' \in [Procs -> Inums] /\ fd' \in [Procs -> InumOrNone] /\ call' \in [Procs -> CallType]
  BY DEF IInv, InodeTypeOK, CallsOK, InumOrNone, Changes
<1>3. ref' \in [Inums -> Int] /\ \A i \in Inums : ref[i] \in Nat /\ ref'[i] = ref[i] + One(g, i)
  <2>1. ref \in [Inums -> Nat]
    BY DEF IInv, InodeTypeOK
  <2>2. CASE g = None
    <3>1. \A i \in Inums : One(g, i) = 0
      BY <2>2 DEF One, Inums, None
    <3> QED
      BY <2>1, <2>2, <3>1 DEF Changes
  <2>3. CASE g # None
    <3>1. g \in Inums /\ ref' = [ref EXCEPT ![g] = @ + 1]
      BY <2>3 DEF InumOrNone, Changes
    <3>2. \A i \in Inums : ref'[i] = IF i = g THEN ref[i] + 1 ELSE ref[i]
      BY <2>1, <3>1
    <3>3. ref' \in [Inums -> Int]
      BY <2>1, <3>1
    <3> QED
      BY <2>1, <3>2, <3>3 DEF One
  <2> QED
    BY <2>2, <2>3
<1>4. \A i \in Inums : \A x : One(x, i) \in {0, 1} /\ (x = i <=> One(x, i) = 1)
  BY DEF One
<1>5. \A i \in Inums : One(g, i) + Points(cwd[p], fd[p], call[p], i) = Points(cwd[p], fd[p], d, i)
  <2> SUFFICES ASSUME NEW i \in Inums
               PROVE  One(g, i) + Points(cwd[p], fd[p], call[p], i) = Points(cwd[p], fd[p], d, i)
    OBVIOUS
  <2>1. One(call[p].put, i) = 0
    BY DEF One, Inums, None, Changes
  <2>2. One(g, i) + One(call[p].at, i) + One(call[p].ip, i) = One(d.at, i) + One(d.ip, i) + One(d.put, i)
    BY DEF Changes
  <2> QED
    BY <1>4, <2>1, <2>2 DEF Points
<1>6. \A i \in Inums : ref'[i] + Points(cwd[p], fd[p], call[p], i)
                       = ref[i] + Points(cwd'[p], fd'[p], call'[p], i)
  <2> SUFFICES ASSUME NEW i \in Inums
               PROVE  ref'[i] + Points(cwd[p], fd[p], call[p], i) = ref[i] + Points(cwd[p], fd[p], d, i)
    BY <1>1
  <2>1. /\ Points(cwd[p], fd[p], call[p], i) \in Nat /\ Points(cwd[p], fd[p], d, i) \in Nat
        /\ One(g, i) + Points(cwd[p], fd[p], call[p], i) = Points(cwd[p], fd[p], d, i)
    BY <1>4, <1>5 DEF Points
  <2> QED
    BY <1>3, <1>4, <2>1
<1>7. RefExact' /\ ref' \in [Inums -> Nat]
  BY <1>1, <1>3, <1>6, RefStep DEF IInv, OthersStay
<1>8. InodeTypeOK'
  BY <1>2, <1>7, TypesStep DEF Changes, InumOrNone
<1>9. CallsOK' /\ LocksExact'
  BY <1>1, <1>2, CallsStep, LocksStep DEF IInv, Changes
<1>10. NoCountPanic'
  BY DEF IInv, NoCountPanic, Changes
<1>11. GoesOnUsing(p)
  <2> SUFFICES ASSUME NEW i \in Inums, Uses(p, i) PROVE Using(cwd[p], fd[p], d, i)
    BY <1>1 DEF GoesOnUsing
  <2>1. i # None
    BY DEF Inums, None
  <2>2. cwd[p] = i \/ fd[p] = i \/ call[p].at = i \/ call[p].ip = i
    BY <2>1 DEF Uses, Using, Changes
  <2>3. Points(cwd[p], fd[p], call[p], i) >= 1 /\ Points(cwd[p], fd[p], call[p], i) \in Nat
    BY <1>4, <2>2 DEF Points
  <2>4. Points(cwd[p], fd[p], d, i) >= 1
    BY <1>4, <1>5, <2>3
  <2>5. cwd[p] = i \/ fd[p] = i \/ d.at = i \/ d.ip = i \/ d.put = i
    BY <1>4, <2>4 DEF Points
  <2> QED
    BY <2>1, <2>5 DEF Using, Changes
<1>12. \A i \in Inums : i # g => ref'[i] = ref[i]
  BY <1>3 DEF One
<1> QED
  BY <1>1, <1>7, <1>8, <1>9, <1>10, <1>11, <1>12

\* Nothing is freed, and what was free is in use as before.
LEMMA UseStays ==
  ASSUME IInv, NEW p \in Procs, OthersStay(p), call[p].put = None, ~stray' => ~stray,
         \A i \in Inums : type'[i] = "free" => type[i] = "free" /\ (~stray' => ref'[i] = ref[i])
  PROVE  NoUseAfterFree'
<1> SUFFICES ASSUME ~stray', NEW i \in Inums, type'[i] = "free", ref'[i] > 0
             PROVE  ref'[i] = 1 /\ \E q \in Procs : call'[q].put = i /\ call'[q].tested
  BY DEF NoUseAfterFree
<1>1. type[i] = "free" /\ ref'[i] = ref[i]
  OBVIOUS
<1>2. PICK q \in Procs : ref[i] = 1 /\ call[q].put = i /\ call[q].tested
  BY <1>1 DEF IInv, NoUseAfterFree
<1>3. q # p
  BY <1>2 DEF Inums, None
<1> QED
  BY <1>1, <1>2, <1>3 DEF OthersStay

\* What has no links already had none, or p uses it.
LEMMA OrphansStay ==
  ASSUME IInv, NEW p \in Procs, OthersStay(p), GoesOnUsing(p),
         \A i \in Inums : type'[i] # "free" /\ nlink'[i] = 0 =>
           \/ type[i] # "free" /\ nlink[i] = 0 /\ (i \in raced => i \in raced')
           \/ Using(cwd'[p], fd'[p], call'[p], i)
  PROVE  OrphansAreUsed'
<1> SUFFICES ASSUME NEW i \in Inums, type'[i] # "free", nlink'[i] = 0
             PROVE  i \in raced' \/ \E q \in Procs : Using(cwd'[q], fd'[q], call'[q], i)
  BY DEF OrphansAreUsed, Uses
<1>1. ASSUME NEW q \in Procs, Uses(q, i) PROVE Using(cwd'[q], fd'[q], call'[q], i)
  BY <1>1 DEF GoesOnUsing, OthersStay, Uses
<1> QED
  BY <1>1 DEF IInv, OrphansAreUsed

\* Links and what claims them change together.
CoverAt(j) ==
  /\ nlink[j] >= Claims(j) /\ (~stray => nlink[j] = Claims(j)) /\ (type[j] = "free" => nlink[j] = 0)
ClaimsBecome(j, a, b, c) ==
  /\ Cardinality(NamesOf(j)') = Cardinality(NamesOf(j)) + a
  /\ Cardinality(SubNames(j)') = Cardinality(SubNames(j)) + b
  /\ Cardinality(Pending(j)') = Cardinality(Pending(j)) + c

\* Links go on covering their claims if both change by the same.
LEMMA CoverStays ==
  ASSUME IInv, NEW j \in Inums, NEW a \in Int, NEW b \in Int, NEW c \in Int, ClaimsBecome(j, a, b, c),
         nlink'[j] = nlink[j] + (a + b + c), type'[j] = "free" => type[j] = "free" /\ a + b + c = 0,
         ~stray' => ~stray
  PROVE  CoverAt(j)'
<1>1. /\ Cardinality(NamesOf(j)) \in Nat /\ Cardinality(SubNames(j)) \in Nat
      /\ Cardinality(Pending(j)) \in Nat /\ RootLink(j) \in {0, 1} /\ nlink[j] \in Nat
      /\ nlink[j] >= Cardinality(NamesOf(j)) + Cardinality(SubNames(j)) + Cardinality(Pending(j)) + RootLink(j)
      /\ ~stray => nlink[j] = Cardinality(NamesOf(j)) + Cardinality(SubNames(j))
                              + Cardinality(Pending(j)) + RootLink(j)
      /\ type[j] = "free" => nlink[j] = 0
  BY ClaimsAre DEF IInv
<1>2. /\ Cardinality(NamesOf(j)') = Cardinality(NamesOf(j)) + a
      /\ Cardinality(SubNames(j)') = Cardinality(SubNames(j)) + b
      /\ Cardinality(Pending(j)') = Cardinality(Pending(j)) + c
  BY DEF ClaimsBecome
<1>3. Claims(j)' = Cardinality(NamesOf(j)') + Cardinality(SubNames(j)') + Cardinality(Pending(j)') + RootLink(j)
  BY DEF Claims, RootLink
<1> QED
  BY <1>1, <1>2, <1>3 DEF CoverAt

\* One claim more, one less, and none.
LEMMA CountMore ==
  ASSUME NEW A, IsFiniteSet(A), NEW x, x \notin A
  PROVE  Cardinality(A \cup {x}) = Cardinality(A) + 1
BY FS_AddElement

\* A set without one of its elements.
LEMMA CountLess ==
  ASSUME NEW A, IsFiniteSet(A), NEW x \in A
  PROVE  Cardinality(A \ {x}) = Cardinality(A) + (-1)
BY FS_RemoveElement, FS_CardinalityType

\* A set as it is.
LEMMA CountSame ==
  ASSUME NEW A, IsFiniteSet(A)
  PROVE  Cardinality(A) = Cardinality(A) + 0
BY FS_CardinalityType

-----------------------------------------------------------------------------
(* A link is no longer counted.                                             *)
LEMMA UncountKeeps ==
  ASSUME IInv, NEW p \in Procs, call[p].then \in {"unlink3", "link_bad"}, call[p].put = None,
         call[p].at = None, NEW i \in Inums, i = call[p].ip, Claiming(call[p]),
         nlink' = [nlink EXCEPT ![i] = @ - 1], call' = [call EXCEPT ![p] = PutIp(call[p], "end")],
         LockIn(call'[p]) = None => lock' \in [Inums -> Procs \cup {NoProc}] /\ LockMoves(p),
         UNCHANGED <<type, ents, ref, cwd, fd, panicked, stray, raced>>
  PROVE  IInv'
<1>1. PICK c \in CallType : c = call[p]
  BY CallIs
<1>2. PICK d \in CallType : d = PutIp(c, "end") /\ Becomes(d, c.op, "end", c.at, None, c.ip, c.path)
  <2>1. "end" \in Stages
    BY DEF Stages
  <2> QED
    BY <2>1, PutIpIs DEF Becomes
<1>3. call'[p] = d /\ call' = [call EXCEPT ![p] = d]
  BY <1>1, <1>2 DEF IInv, CallsOK
<1>4. Shape(d) /\ Finds(d) /\ LockIn(d) = None /\ ~Claiming(d) /\ d.put = i /\ d.ip = None /\ d.at = None
  BY <1>1, <1>2 DEF Becomes, Shape, Finds, InDirectory, Linking, Claiming, LockIn, Inums, None
<1>5. p \in Pending(i)
  BY DEF Pending
<1>6. Cardinality(Pending(i)) \in Nat /\ Cardinality(Pending(i)) >= 1 /\ nlink[i] >= 1 /\ nlink[i] \in Nat
      /\ type[i] # "free"
  BY <1>5, ClaimsAre DEF IInv
<1>7. /\ nlink \in [Inums -> Nat] /\ \A j \in Inums : nlink'[j] = IF j = i THEN nlink[j] - 1 ELSE nlink[j]
      /\ nlink' \in [Inums -> Nat]
  <2>1. nlink \in [Inums -> Nat]
    BY DEF IInv, InodeTypeOK
  <2> QED
    BY <1>6, <2>1
<1>8. Changes(p, d, None) /\ None \in InumOrNone
  <2>1. \A j \in Inums : One(None, j) + One(call[p].at, j) + One(call[p].ip, j)
                          = One(d.at, j) + One(d.ip, j) + One(d.put, j)
    BY <1>4 DEF One, Inums, None
  <2>2. d.put # None => d.tested = FALSE
    BY <1>2 DEF Becomes
  <2>3. /\ type' \in [Inums -> {"free", "dir", "file"}]
        /\ ents' \in [Inums -> [Names \cup {".."} -> InumOrNone]]
    BY DEF IInv, InodeTypeOK, InumOrNone
  <2>4. lock' \in [Inums -> Procs \cup {NoProc}] /\ LockMoves(p)
    BY <1>3, <1>4
  <2> QED
    BY <1>3, <1>4, <1>7, <2>1, <2>2, <2>3, <2>4 DEF Changes, InumOrNone
<1>9. /\ InodeTypeOK' /\ CallsOK' /\ RefExact' /\ LocksExact' /\ NoCountPanic'
      /\ OthersStay(p) /\ GoesOnUsing(p)
  BY <1>8, ChangeStep
<1>10. CallsFind'
  <2>1. ASSUME NEW q \in Procs PROVE Finds(call'[q])
    BY <1>3, <1>4, <1>9 DEF IInv, CallsFind, OthersStay
  <2> QED
    BY <2>1 DEF CallsFind, Finds, InDirectory, Linking
<1>11. EntriesOK'
  BY DEF IInv, EntriesOK
<1>12. Pending(i)' = Pending(i) \ {p} /\ \A j \in Inums : j # i => Pending(j)' = Pending(j)
  <2>1. \A q \in Procs \ {p} : call'[q] = call[q]
    BY <1>9 DEF OthersStay
  <2>2. ~Claiming(call'[p])
    BY <1>3, <1>4
  <2>3. \A j \in Inums : Pending(j)' = {q \in Procs : call'[q].ip = j /\ Claiming(call'[q])}
    BY DEF Pending, Claiming, Linking
  <2> QED
    BY <2>1, <2>2, <2>3 DEF Pending
<1>13. \A j : NamesOf(j)' = NamesOf(j) /\ SubNames(j)' = SubNames(j)
  BY DEF NamesOf, SubNames
<1>14. LinksCover'
  <2> SUFFICES ASSUME NEW j \in Inums PROVE CoverAt(j)'
    BY DEF LinksCover, CoverAt
  <2>1. IsFiniteSet(NamesOf(j)) /\ IsFiniteSet(SubNames(j)) /\ IsFiniteSet(Pending(j))
    BY ClaimsAreFinite DEF IInv
  <2>2. CASE j = i
    <3>1. ClaimsBecome(j, 0, 0, -1)
      BY <1>5, <1>12, <1>13, <2>1, <2>2, CountSame, CountLess DEF ClaimsBecome
    <3>2. nlink'[j] = nlink[j] + (0 + 0 + -1)
      BY <1>7, <2>2
    <3> QED
      BY <1>6, <2>2, <3>1, <3>2, CoverStays
  <2>3. CASE j # i
    <3>1. ClaimsBecome(j, 0, 0, 0)
      BY <1>12, <1>13, <2>1, <2>3, CountSame DEF ClaimsBecome
    <3>2. nlink'[j] = nlink[j] + (0 + 0 + 0)
      BY <1>7, <2>3
    <3> QED
      BY <3>1, <3>2, CoverStays
  <2> QED
    BY <2>2, <2>3
<1>15. Tree'
  <2>1. \A j \in Inums : Pending(j)' \subseteq Pending(j)
    BY <1>12
  <2> QED
    BY <2>1 DEF IInv, Tree, IsName
<1>16. RemovedIsEmpty'
  BY DEF IInv, RemovedIsEmpty, NamesOf, IsEmpty
<1>17. NoUseAfterFree'
  BY <1>9, UseStays
<1>18. OrphansAreUsed'
  <2>1. d.put = i /\ ~d.tested
    BY <1>2, <1>4 DEF Becomes, Inums, None
  <2>2. Using(cwd'[p], fd'[p], call'[p], i)
    BY <1>3, <2>1 DEF Using
  <2> QED
    BY <1>7, <1>9, <2>2, OrphansStay
<1> QED
  BY <1>9, <1>10, <1>11, <1>14, <1>15, <1>16, <1>17, <1>18 DEF IInv

\* UnlinkCounts keeps the invariant.
LEMMA UnlinkCountsKeeps ==
  ASSUME IInv, NEW p \in Procs, UnlinkCounts(p)
  PROVE  IInv'
<1>1. /\ At(p, "unlink3") /\ nlink' = [nlink EXCEPT ![call[p].ip] = @ - 1]
      /\ lock' = [lock EXCEPT ![call[p].ip] = NoProc] /\ call' = [call EXCEPT ![p] = PutIp(call[p], "end")]
      /\ UNCHANGED <<type, ents, ref, cwd, fd, panicked, stray, raced>>
  BY DEF UnlinkCounts
<1>2. /\ call[p].then = "unlink3" /\ call[p].put = None /\ call[p].at = None /\ call[p].ip \in Inums
      /\ Claiming(call[p]) /\ LockIn(call[p]) = call[p].ip
  BY <1>1, StageIs DEF LockIn
<1>3. LockIn(call'[p]) = None => lock' \in [Inums -> Procs \cup {NoProc}] /\ LockMoves(p)
  BY <1>1, <1>2, Unlocks
<1> QED
  BY <1>1, <1>2, <1>3, UncountKeeps

\* LinkBad keeps the invariant.
LEMMA LinkBadKeeps ==
  ASSUME IInv, NEW p \in Procs, LinkBad(p)
  PROVE  IInv'
<1>1. /\ At(p, "link_bad") /\ nlink' = [nlink EXCEPT ![call[p].ip] = @ - 1] /\ lock' = lock
      /\ call' = [call EXCEPT ![p] = PutIp(call[p], "end")]
      /\ UNCHANGED <<type, ents, ref, cwd, fd, panicked, stray, raced>>
  BY DEF LinkBad
<1>2. /\ call[p].then = "link_bad" /\ call[p].put = None /\ call[p].at = None /\ call[p].ip \in Inums
      /\ Claiming(call[p]) /\ LockIn(call[p]) = None
  BY <1>1, StageIs DEF LockIn
<1>3. LockIn(call'[p]) = None => lock' \in [Inums -> Procs \cup {NoProc}] /\ LockMoves(p)
  BY <1>1, <1>2, SameLock
<1> QED
  BY <1>1, <1>2, <1>3, UncountKeeps

-----------------------------------------------------------------------------
(* A link is counted, and then made.                                        *)
LEMMA LinkKeeps ==
  ASSUME IInv, NEW p \in Procs, Link(p)
  PROVE  IInv'
<1>1. PICK c \in CallType : c = call[p]
  BY CallIs
<1>2. /\ At(p, "walk") /\ c.op = "link" /\ Ilock(c.at)
      /\ UNCHANGED <<type, ents, lock, cwd, fd, panicked, stray, raced>>
  BY <1>1 DEF Link, Arrived
<1>3. /\ c.then = "walk" /\ c.put = None /\ c.at \in Inums /\ c.ip = None /\ LockIn(c) = None
      /\ ~Claiming(c)
  BY <1>1, <1>2, WalkIs
<1>4. PICK i \in Inums : i = c.at
  BY <1>3
<1>5. CASE call' = [call EXCEPT ![p] = PutAt(c, "end")] /\ UNCHANGED <<nlink, ref>>
  <2>1. LockIn(call'[p]) = None => lock' \in [Inums -> Procs \cup {NoProc}] /\ LockMoves(p)
    BY <1>1, <1>2, <1>3, SameLock
  <2>2. UNCHANGED inodeVars
    BY <1>2, <1>5 DEF inodeVars
  <2> QED
    BY <1>1, <1>2, <1>3, <1>5, <2>1, <2>2, PutAtKeeps
<1>6. ASSUME type[i] # "dir",
             nlink' = [nlink EXCEPT ![i] = @ + 1],
             ref' = [ref EXCEPT ![Start(p, c.to)] = @ + 1],
             call' = [call EXCEPT ![p] = [c EXCEPT !.op = "link2", !.ip = c.at, !.at = Start(p, c.to),
                                                   !.path = c.to.names]]
      PROVE  IInv'
  <2>1. PICK g \in Inums : g = Start(p, c.to) /\ (~stray => type[g] # "free")
    <3>1. cwd[p] \in Inums
      BY DEF IInv, InodeTypeOK
    <3> QED
      BY <3>1, RootIs, InUse DEF Start
  <2>2. g \in InumOrNone /\ g # None /\ i # None
    BY DEF InumOrNone, Inums, None
  <2>3. PICK d \in CallType : /\ d = [c EXCEPT !.op = "link2", !.ip = c.at, !.at = g, !.path = c.to.names]
          /\ Becomes(d, "link2", c.then, g, c.at, None, c.to.names)
    <3>1. Becomes([c EXCEPT !.op = "link2", !.ip = c.at, !.at = g, !.path = c.to.names],
                  "link2", c.then, g, c.at, None, c.to.names)
      BY <1>3, <2>2, LinkIs
    <3> QED
      BY <3>1 DEF Becomes
  <2>4. call'[p] = d /\ call' = [call EXCEPT ![p] = d]
    BY <1>1, <1>6, <2>1, <2>3 DEF IInv, CallsOK
  <2>5. type[i] = "file"
    <3>1. type[i] \in {"free", "dir", "file"}
      BY DEF IInv, InodeTypeOK
    <3> QED
      BY <1>2, <1>4, <1>6, <3>1 DEF Ilock
  <2>6. Shape(d) /\ Finds(d) /\ LockIn(d) = None /\ Claiming(d) /\ d.ip = i /\ d.at = g /\ d.put = None
    BY <1>3, <1>4, <2>2, <2>3, <2>5 DEF Becomes, Shape, Finds, InDirectory, Linking, Claiming, LockIn
  <2>7. /\ nlink \in [Inums -> Nat] /\ \A j \in Inums : nlink'[j] = IF j = i THEN nlink[j] + 1 ELSE nlink[j]
        /\ nlink' \in [Inums -> Nat]
    <3>1. nlink \in [Inums -> Nat]
      BY DEF IInv, InodeTypeOK
    <3> QED
      BY <1>6, <3>1
  <2>8. Changes(p, d, g)
    <3>1. \A j \in Inums : One(g, j) + One(call[p].at, j) + One(call[p].ip, j)
                            = One(d.at, j) + One(d.ip, j) + One(d.put, j)
      BY <1>1, <1>3, <1>4, <2>6 DEF One, Inums, None
    <3>2. /\ type' \in [Inums -> {"free", "dir", "file"}]
          /\ ents' \in [Inums -> [Names \cup {".."} -> InumOrNone]]
      BY <1>2 DEF IInv, InodeTypeOK, InumOrNone
    <3>3. lock' \in [Inums -> Procs \cup {NoProc}] /\ LockMoves(p)
      BY <1>1, <1>2, <1>3, <2>4, <2>6, SameLock
    <3> QED
      BY <1>1, <1>2, <1>3, <1>6, <2>1, <2>2, <2>4, <2>6, <2>7, <3>1, <3>2, <3>3 DEF Changes
  <2>9. /\ InodeTypeOK' /\ CallsOK' /\ RefExact' /\ LocksExact' /\ NoCountPanic'
        /\ OthersStay(p) /\ GoesOnUsing(p) /\ \A j \in Inums : j # g => ref'[j] = ref[j]
    BY <2>2, <2>8, ChangeStep
  <2>10. CallsFind'
    <3>1. ASSUME NEW q \in Procs PROVE Finds(call'[q])
      BY <2>4, <2>6, <2>9 DEF IInv, CallsFind, OthersStay
    <3> QED
      BY <1>2, <3>1 DEF CallsFind, Finds, InDirectory, Linking
  <2>11. EntriesOK'
    BY <1>2 DEF IInv, EntriesOK
  <2>12. /\ Pending(i)' = Pending(i) \cup {p} /\ p \notin Pending(i)
         /\ \A j \in Inums : j # i => Pending(j)' = Pending(j)
    <3>1. \A q \in Procs \ {p} : call'[q] = call[q]
      BY <2>9 DEF OthersStay
    <3>2. Claiming(call'[p]) /\ call'[p].ip = i /\ ~Claiming(call[p])
      BY <1>1, <1>3, <2>4, <2>6
    <3>3. \A j \in Inums : Pending(j)' = {q \in Procs : call'[q].ip = j /\ Claiming(call'[q])}
      BY DEF Pending, Claiming, Linking
    <3> QED
      BY <3>1, <3>2, <3>3 DEF Pending
  <2>13. \A j : NamesOf(j)' = NamesOf(j) /\ SubNames(j)' = SubNames(j)
    BY <1>2 DEF NamesOf, SubNames
  <2>14. LinksCover'
    <3> SUFFICES ASSUME NEW j \in Inums PROVE CoverAt(j)'
      BY DEF LinksCover, CoverAt
    <3>1. IsFiniteSet(NamesOf(j)) /\ IsFiniteSet(SubNames(j)) /\ IsFiniteSet(Pending(j))
      BY ClaimsAreFinite DEF IInv
    <3>2. type' = type /\ (~stray' => ~stray)
      BY <1>2
    <3>3. CASE j = i
      <4>1. ClaimsBecome(j, 0, 0, 1)
        BY <2>12, <2>13, <3>1, <3>3, CountSame, CountMore DEF ClaimsBecome
      <4>2. nlink'[j] = nlink[j] + (0 + 0 + 1)
        BY <2>7, <3>3
      <4>3. type'[j] # "free"
        BY <2>5, <3>2, <3>3
      <4> QED
        BY <3>2, <4>1, <4>2, <4>3, CoverStays
    <3>4. CASE j # i
      <4>1. ClaimsBecome(j, 0, 0, 0)
        BY <2>12, <2>13, <3>1, <3>4, CountSame DEF ClaimsBecome
      <4>2. nlink'[j] = nlink[j] + (0 + 0 + 0)
        BY <2>7, <3>4
      <4> QED
        BY <3>2, <4>1, <4>2, CoverStays
    <3> QED
      BY <3>3, <3>4
  <2>15. Tree'
    <3>1. \A j \in Inums : type[j] = "dir" => Pending(j)' = Pending(j)
      BY <2>5, <2>12
    <3> QED
      BY <1>2, <3>1 DEF IInv, Tree, IsName
  <2>16. RemovedIsEmpty'
    BY <1>2 DEF IInv, RemovedIsEmpty, NamesOf, IsEmpty
  <2>17. NoUseAfterFree'
    <3>1. \A j \in Inums : type'[j] = "free" => type[j] = "free" /\ (~stray' => ref'[j] = ref[j])
      BY <1>2, <2>1, <2>9
    <3> QED
      BY <1>1, <1>2, <1>3, <2>9, <3>1, UseStays
  <2>18. OrphansAreUsed'
    BY <1>2, <2>7, <2>9, OrphansStay
  <2> QED
    BY <2>9, <2>10, <2>11, <2>14, <2>15, <2>16, <2>17, <2>18 DEF IInv
<1> QED
  BY <1>1, <1>4, <1>5, <1>6 DEF Link

\* LinkEnters keeps the invariant.
LEMMA LinkEntersKeeps ==
  ASSUME IInv, NEW p \in Procs, LinkEnters(p)
  PROVE  IInv'
<1>1. PICK c \in CallType : c = call[p]
  BY CallIs
<1>2. /\ InParent(p, {"link2"}) /\ Lookup(c.at, Name(p)) = None
      /\ UNCHANGED <<type, nlink, ref, lock, cwd, fd, panicked, raced>>
      /\ (~stray' => ~stray /\ nlink[c.at] # 0)
  BY <1>1, NotesIs DEF LinkEnters
<1>3. /\ c.then = "there" /\ c.put = None /\ c.at \in Inums /\ type[c.at] = "dir" /\ c.ip # None
      /\ lock[c.at] = NoProc /\ c.op = "link2" /\ Name(p) \in Elements
      /\ LockIn(c) = None /\ Claiming(c) /\ type[c.ip] = "file"
  BY <1>1, <1>2, InParentIs
<1>4. PICK e \in Inums, i \in Inums : e = c.at /\ i = c.ip
  BY <1>1, <1>3, CallIs DEF InumOrNone
<1>5. PICK n \in Names : n = Name(p) /\ ents[e][n] = None /\ n \notin {".", ".."}
  <2>1. Name(p) \in Names
    BY <1>2, <1>3, LookupIs
  <2> QED
    BY <1>2, <1>4, <2>1, InodeSizes DEF Lookup
<1>6. PICK d \in CallType : d = PutAt(c, "put_ip") /\ Becomes(d, c.op, "put_ip", None, c.ip, c.at, c.path)
  <2>1. "put_ip" \in Stages
    BY DEF Stages
  <2> QED
    BY <2>1, PutAtIs DEF Becomes
<1>7. call'[p] = d /\ call' = [call EXCEPT ![p] = d] /\ ents' = [ents EXCEPT ![e][n] = i]
  BY <1>1, <1>4, <1>5, <1>6 DEF IInv, CallsOK, LinkEnters
<1>8. /\ Shape(d) /\ Finds(d) /\ LockIn(d) = None /\ ~Claiming(d)
      /\ d.put = e /\ d.ip = i /\ d.at = None /\ e # None /\ i # None /\ e # i
  BY <1>3, <1>4, <1>6 DEF Becomes, Shape, Finds, InDirectory, Linking, Claiming, LockIn, Inums, None
<1>9. /\ ents \in [Inums -> [Names \cup {".."} -> InumOrNone]]
      /\ ents' \in [Inums -> [Names \cup {".."} -> InumOrNone]]
      /\ \A j \in Inums, m \in Names \cup {".."} :
            ents'[j][m] = IF j = e /\ m = n THEN i ELSE ents[j][m]
  <2>1. ents \in [Inums -> [Names \cup {".."} -> InumOrNone]] /\ i \in InumOrNone
    BY DEF IInv, InodeTypeOK, InumOrNone
  <2> QED
    BY <1>7, <2>1
<1>10. Changes(p, d, None) /\ None \in InumOrNone
  <2>1. \A j \in Inums : One(None, j) + One(call[p].at, j) + One(call[p].ip, j)
                          = One(d.at, j) + One(d.ip, j) + One(d.put, j)
    BY <1>1, <1>4, <1>8 DEF One, Inums, None
  <2>2. d.put # None => d.tested = FALSE
    BY <1>6 DEF Becomes
  <2>3. type' \in [Inums -> {"free", "dir", "file"}] /\ nlink' \in [Inums -> Nat]
    BY <1>2 DEF IInv, InodeTypeOK
  <2>4. lock' \in [Inums -> Procs \cup {NoProc}] /\ LockMoves(p)
    BY <1>1, <1>2, <1>3, <1>7, <1>8, SameLock
  <2> QED
    BY <1>1, <1>2, <1>3, <1>7, <1>8, <1>9, <2>1, <2>2, <2>3, <2>4 DEF Changes, InumOrNone
<1>11. /\ InodeTypeOK' /\ CallsOK' /\ RefExact' /\ LocksExact' /\ NoCountPanic'
       /\ OthersStay(p) /\ GoesOnUsing(p)
  BY <1>10, ChangeStep
<1>12. CallsFind'
  <2> SUFFICES ASSUME NEW q \in Procs PROVE Finds(call[q])'
    BY DEF CallsFind
  <2>1. CASE q = p
    BY <1>6, <1>7, <2>1 DEF Becomes, Finds, InDirectory, Linking
  <2>2. CASE q # p
    <3>1. call'[q] = call[q] /\ Finds(call[q]) /\ Shape(call[q])
      BY <1>11, <2>2, CallIs DEF OthersStay
    <3>2. call[q].then = "unlink2" => /\ call[q].at \in Inums /\ Head(call[q].path) \in Names
                                      /\ call[q].ip # None /\ ents[call[q].at][Head(call[q].path)] = call[q].ip
      BY UnlinkingIs
    <3>3. call[q].then = "unlink2" => ents'[call[q].at][Head(call[q].path)] = call[q].ip
      BY <1>5, <1>9, <3>2
    <3> QED
      BY <1>2, <3>1, <3>3 DEF Finds, InDirectory, Linking
  <2> QED
    BY <2>1, <2>2
<1>13. EntriesOK'
  <2>1. \A j \in Inums : ents'[j][".."] = ents[j][".."]
    BY <1>5, <1>9
  <2>2. \A j \in Inums : type[j] # "dir" => j # e
    BY <1>3, <1>4
  <2> QED
    BY <1>2, <1>9, <2>1, <2>2, RootIs DEF IInv, EntriesOK
<1>14. Pending(i)' = Pending(i) \ {p} /\ p \in Pending(i) /\ \A j \in Inums : j # i => Pending(j)' = Pending(j)
  <2>1. \A q \in Procs \ {p} : call'[q] = call[q]
    BY <1>11 DEF OthersStay
  <2>2. ~Claiming(call'[p]) /\ Claiming(call[p]) /\ call[p].ip = i
    BY <1>1, <1>3, <1>4, <1>7, <1>8
  <2>3. \A j \in Inums : Pending(j)' = {q \in Procs : call'[q].ip = j /\ Claiming(call'[q])}
    BY DEF Pending, Claiming, Linking
  <2> QED
    BY <2>1, <2>2, <2>3 DEF Pending
<1>15. /\ NamesOf(i)' = NamesOf(i) \cup {<<e, n>>} /\ <<e, n>> \notin NamesOf(i)
       /\ \A j \in Inums : j # i => NamesOf(j)' = NamesOf(j)
  <2>1. \A j \in Inums : NamesOf(j)' = {x \in Inums \X Names : type[x[1]] = "dir" /\ ents'[x[1]][x[2]] = j}
    BY <1>2 DEF NamesOf
  <2>2. \A x \in Inums \X Names : ents'[x[1]][x[2]] = IF x = <<e, n>> THEN i ELSE ents[x[1]][x[2]]
    BY <1>9
  <2>3. <<e, n>> \in Inums \X Names /\ type[e] = "dir" /\ \A j \in Inums : j # None
    BY <1>3, <1>4 DEF Inums, None
  <2>4. <<e, n>> \notin NamesOf(i)
    BY <1>5, <1>8 DEF NamesOf
  <2>5. NamesOf(i)' = NamesOf(i) \cup {<<e, n>>}
    BY <2>1, <2>2, <2>3 DEF NamesOf
  <2>6. ASSUME NEW j \in Inums, j # i PROVE NamesOf(j)' = NamesOf(j)
    BY <1>5, <2>1, <2>2, <2>3, <2>6 DEF NamesOf
  <2> QED
    BY <2>4, <2>5, <2>6
<1>16. \A j \in Inums : SubNames(j)' = SubNames(j)
  <2> SUFFICES ASSUME NEW j \in Inums PROVE SubNames(j)' = SubNames(j)
    OBVIOUS
  <2>1. SubNames(j)' = {m \in Names : type[j] = "dir" /\ ents'[j][m] # None /\ type[ents'[j][m]] = "dir"}
    BY <1>2 DEF SubNames
  <2>2. type[i] = "file"
    BY <1>3, <1>4
  <2> QED
    BY <1>5, <1>9, <2>1, <2>2 DEF SubNames
<1>17. LinksCover'
  <2> SUFFICES ASSUME NEW j \in Inums PROVE CoverAt(j)'
    BY DEF LinksCover, CoverAt
  <2>1. IsFiniteSet(NamesOf(j)) /\ IsFiniteSet(SubNames(j)) /\ IsFiniteSet(Pending(j))
    BY ClaimsAreFinite DEF IInv
  <2>2. nlink[j] \in Nat /\ nlink' = nlink
    BY <1>2 DEF IInv, InodeTypeOK
  <2>5. (type'[j] = "free" => type[j] = "free") /\ (~stray' => ~stray)
    BY <1>2
  <2>3. CASE j = i
    <3>1. ClaimsBecome(j, 1, 0, -1)
      <4>1. Cardinality(NamesOf(j)') = Cardinality(NamesOf(j)) + 1
        BY <1>15, <2>1, <2>3, CountMore
      <4>2. Cardinality(Pending(j)') = Cardinality(Pending(j)) + (-1)
        BY <1>14, <2>1, <2>3, CountLess
      <4>3. Cardinality(SubNames(j)') = Cardinality(SubNames(j)) + 0
        BY <1>16, <2>1, CountSame
      <4> QED
        BY <4>1, <4>2, <4>3 DEF ClaimsBecome
    <3>2. nlink'[j] = nlink[j] + (1 + 0 + -1) /\ 1 + 0 + -1 = 0
      BY <2>2
    <3> QED
      BY <2>5, <3>1, <3>2, CoverStays
  <2>4. CASE j # i
    <3>1. ClaimsBecome(j, 0, 0, 0)
      BY <1>14, <1>15, <1>16, <2>1, <2>4, CountSame DEF ClaimsBecome
    <3>2. nlink'[j] = nlink[j] + (0 + 0 + 0)
      BY <2>2
    <3> QED
      BY <2>5, <3>1, <3>2, CoverStays
  <2> QED
    BY <2>3, <2>4
<1>18. Tree'
  <2> SUFFICES ASSUME NEW f \in Inums, NEW j \in Inums, NEW m \in Names, IsName(f, m, j)', type'[j] = "dir"
               PROVE  /\ j # Root /\ ents'[j][".."] = f /\ Pending(j)' = {}
                      /\ \A g \in Inums, l \in Names : IsName(g, l, j)' => g = f /\ l = m
                      /\ \A l \in Names : ents'[j][l] # f
    BY DEF Tree
  <2>1. type[j] = "dir" /\ j # i /\ type[f] = "dir" /\ f # i
    BY <1>2, <1>3, <1>4 DEF IsName
  <2>2. \A g \in Inums, l \in Names : IsName(g, l, j)' => IsName(g, l, j)
    BY <1>2, <1>9, <2>1 DEF IsName
  <2>3. /\ j # Root /\ ents[j][".."] = f /\ Pending(j) = {}
        /\ \A g \in Inums, l \in Names : IsName(g, l, j) => g = f /\ l = m
        /\ \A l \in Names : ents[j][l] # f
    BY <2>1, <2>2 DEF IInv, Tree
  <2>4. ents'[j][".."] = ents[j][".."] /\ \A l \in Names : ents'[j][l] \in {ents[j][l], i}
    BY <1>5, <1>9
  <2> QED
    BY <1>14, <2>1, <2>2, <2>3, <2>4
<1>19. RemovedIsEmpty'
  <2> SUFFICES ASSUME ~stray', NEW j \in Inums \ {Root}, type[j] = "dir", NamesOf(j)' = {}
               PROVE  \A m \in Names : ents'[j][m] = None
    BY <1>2 DEF RemovedIsEmpty, IsEmpty
  <2>1. j # i
    BY <1>3, <1>4
  <2>2. NamesOf(j) = {} /\ ~stray
    BY <1>2, <1>15, <2>1
  <2>3. j # e
    <3>1. ASSUME j = e PROVE FALSE
      <4>1. Pending(j) = {} /\ nlink[j] # 0
        BY <1>2, <1>3, <1>4, <3>1, NotPending
      <4> QED
        BY <2>2, <4>1, LiveHasName
    <3> QED
      BY <3>1
  <2>4. IsEmpty(j)
    BY <2>2 DEF IInv, RemovedIsEmpty
  <2> QED
    BY <1>9, <2>3, <2>4 DEF IsEmpty
<1>20. NoUseAfterFree'
  BY <1>1, <1>2, <1>3, <1>11, UseStays
<1>21. OrphansAreUsed'
  BY <1>2, <1>11, OrphansStay
<1> QED
  BY <1>11, <1>12, <1>13, <1>17, <1>18, <1>19, <1>20, <1>21 DEF IInv

-----------------------------------------------------------------------------
(* A name goes.                                                             *)
LEMMA UnlinkErasesKeeps ==
  ASSUME IInv, NEW p \in Procs, UnlinkErases(p)
  PROVE  IInv'
<1>1. PICK c \in CallType : c = call[p]
  BY CallIs
<1>2. /\ At(p, "unlink2") /\ Ilock(c.ip) /\ ~Keeps(c.ip)
      /\ UNCHANGED <<type, ref, cwd, fd, panicked, stray, raced>>
  BY <1>1 DEF UnlinkErases
<1>3. /\ c.then = "unlink2" /\ c.put = None /\ c.at \in Inums /\ type[c.at] = "dir" /\ c.ip \in Inums
      /\ c.op = "unlink" /\ Name(p) \in Names /\ Name(p) = Head(c.path) /\ ents[c.at][Name(p)] = c.ip
      /\ ~Claiming(c) /\ LockIn(c) = c.at /\ lock[c.ip] = NoProc /\ type[c.ip] # "free"
  BY <1>1, <1>2, StageIs DEF LockIn, Ilock, Name
<1>4. PICK e \in Inums, i \in Inums, n \in Names : e = c.at /\ i = c.ip /\ n = Name(p)
  BY <1>3
<1>5. lock[e] = p /\ lock[i] = NoProc /\ e # i /\ e # None /\ i # None /\ n \notin {".", ".."}
  <2>1. lock[e] = p <=> LockIn(call[p]) = e
    BY DEF IInv, LocksExact
  <2> QED
    BY <1>1, <1>3, <1>4, <2>1, InodeSizes DEF Inums, None
<1>6. PICK d \in CallType : d = PutAt(c, "unlink3") /\ Becomes(d, c.op, "unlink3", None, c.ip, c.at, c.path)
  <2>1. "unlink3" \in Stages
    BY DEF Stages
  <2> QED
    BY <2>1, PutAtIs DEF Becomes
<1>7. /\ call'[p] = d /\ call' = [call EXCEPT ![p] = d] /\ ents' = [ents EXCEPT ![e][n] = None]
      /\ nlink' = [nlink EXCEPT ![e] = IF type[i] = "dir" THEN @ - 1 ELSE @]
      /\ lock' = [lock EXCEPT ![e] = NoProc, ![i] = p]
  BY <1>1, <1>4, <1>6 DEF IInv, CallsOK, UnlinkErases
<1>8. /\ Shape(d) /\ Finds(d) /\ LockIn(d) = i /\ Claiming(d) /\ d.put = e /\ d.ip = i /\ d.at = None
  BY <1>3, <1>4, <1>5, <1>6 DEF Becomes, Shape, Finds, InDirectory, Linking, Claiming, LockIn
<1>9. /\ ents \in [Inums -> [Names \cup {".."} -> InumOrNone]]
      /\ ents' \in [Inums -> [Names \cup {".."} -> InumOrNone]]
      /\ \A j \in Inums, m \in Names \cup {".."} :
            ents'[j][m] = IF j = e /\ m = n THEN None ELSE ents[j][m]
  <2>1. ents \in [Inums -> [Names \cup {".."} -> InumOrNone]] /\ None \in InumOrNone
    BY DEF IInv, InodeTypeOK, InumOrNone
  <2> QED
    BY <1>7, <2>1
<1>10. type[e] = "dir" /\ ents[e][n] = i /\ IsName(e, n, i)
  BY <1>3, <1>4 DEF IsName
<1>11. type[i] = "dir" => n \in SubNames(e) /\ nlink[e] >= 1
  <2>1. type[i] = "dir" => n \in SubNames(e)
    BY <1>5, <1>10 DEF SubNames
  <2>2. /\ Cardinality(NamesOf(e)) \in Nat /\ Cardinality(SubNames(e)) \in Nat
        /\ Cardinality(Pending(e)) \in Nat /\ RootLink(e) \in {0, 1} /\ nlink[e] \in Nat
        /\ nlink[e] >= Cardinality(NamesOf(e)) + Cardinality(SubNames(e)) + Cardinality(Pending(e)) + RootLink(e)
        /\ SubNames(e) # {} => Cardinality(SubNames(e)) >= 1
    BY ClaimsAre DEF IInv
  <2> QED
    BY <2>1, <2>2
<1>12. /\ nlink \in [Inums -> Nat] /\ nlink' \in [Inums -> Nat]
       /\ \A j \in Inums : nlink'[j] = IF j = e /\ type[i] = "dir" THEN nlink[j] - 1 ELSE nlink[j]
  <2>1. nlink \in [Inums -> Nat]
    BY DEF IInv, InodeTypeOK
  <2>2. CASE type[i] = "dir"
    BY <1>7, <1>11, <2>1, <2>2
  <2>3. CASE type[i] # "dir"
    BY <1>7, <2>1, <2>3
  <2> QED
    BY <2>1, <2>2, <2>3
<1>13. lock' \in [Inums -> Procs \cup {NoProc}] /\ LockMoves(p)
  <2>1. lock \in [Inums -> Procs \cup {NoProc}]
    BY DEF IInv, InodeTypeOK
  <2>2. \A j \in Inums : lock'[j] = IF j = i THEN p ELSE IF j = e THEN NoProc ELSE lock[j]
    BY <1>7, <2>1
  <2>3. lock' \in [Inums -> Procs \cup {NoProc}]
    BY <1>7, <2>1
  <2>4. LockIn(call'[p]) = i /\ LockIn(call[p]) = e
    BY <1>1, <1>3, <1>4, <1>7, <1>8
  <2> QED
    BY <1>5, <2>2, <2>3, <2>4 DEF LockMoves
<1>14. Changes(p, d, None) /\ None \in InumOrNone
  <2>1. \A j \in Inums : One(None, j) + One(call[p].at, j) + One(call[p].ip, j)
                          = One(d.at, j) + One(d.ip, j) + One(d.put, j)
    BY <1>1, <1>4, <1>8 DEF One, Inums, None
  <2>2. d.put # None => d.tested = FALSE
    BY <1>6 DEF Becomes
  <2>3. type' \in [Inums -> {"free", "dir", "file"}]
    BY <1>2 DEF IInv, InodeTypeOK
  <2> QED
    BY <1>1, <1>2, <1>3, <1>7, <1>8, <1>9, <1>12, <1>13, <2>1, <2>2, <2>3 DEF Changes, InumOrNone
<1>15. /\ InodeTypeOK' /\ CallsOK' /\ RefExact' /\ LocksExact' /\ NoCountPanic'
       /\ OthersStay(p) /\ GoesOnUsing(p)
  BY <1>14, ChangeStep
<1>16. CallsFind'
  <2> SUFFICES ASSUME NEW q \in Procs PROVE Finds(call[q])'
    BY DEF CallsFind
  <2>1. CASE q = p
    BY <1>6, <1>7, <2>1 DEF Becomes, Finds, InDirectory, Linking
  <2>2. CASE q # p
    <3>1. call'[q] = call[q] /\ Finds(call[q]) /\ Shape(call[q])
      BY <1>15, <2>2, CallIs DEF OthersStay
    <3>2. call[q].then = "unlink2" => /\ call[q].at \in Inums /\ Head(call[q].path) \in Names
                                      /\ ents[call[q].at][Head(call[q].path)] = call[q].ip
      BY UnlinkingIs
    <3>3. call[q].then = "unlink2" => call[q].at # e
      <4>1. lock[e] = q <=> LockIn(call[q]) = e
        BY DEF IInv, LocksExact
      <4> QED
        BY <1>5, <2>2, <4>1 DEF LockIn
    <3>4. call[q].then = "unlink2" => ents'[call[q].at][Head(call[q].path)] = call[q].ip
      BY <1>9, <3>2, <3>3
    <3> QED
      BY <1>2, <3>1, <3>4 DEF Finds, InDirectory, Linking
  <2> QED
    BY <2>1, <2>2
<1>17. \A j \in Inums : ents'[j][".."] = ents[j][".."]
  BY <1>5, <1>9
<1>18. EntriesOK'
  BY <1>2, <1>9, <1>17, RootIs DEF IInv, EntriesOK
<1>19. Pending(i)' = Pending(i) \cup {p} /\ p \notin Pending(i)
       /\ \A j \in Inums : j # i => Pending(j)' = Pending(j)
  <2>1. \A q \in Procs \ {p} : call'[q] = call[q]
    BY <1>15 DEF OthersStay
  <2>2. Claiming(call'[p]) /\ ~Claiming(call[p]) /\ call'[p].ip = i
    BY <1>1, <1>3, <1>7, <1>8
  <2>3. \A j \in Inums : Pending(j)' = {q \in Procs : call'[q].ip = j /\ Claiming(call'[q])}
    BY DEF Pending, Claiming, Linking
  <2> QED
    BY <2>1, <2>2, <2>3 DEF Pending
<1>20. /\ NamesOf(i)' = NamesOf(i) \ {<<e, n>>} /\ <<e, n>> \in NamesOf(i)
       /\ \A j \in Inums : j # i => NamesOf(j)' = NamesOf(j)
  <2>1. \A j \in Inums : NamesOf(j)' = {x \in Inums \X Names : type[x[1]] = "dir" /\ ents'[x[1]][x[2]] = j}
    BY <1>2 DEF NamesOf
  <2>2. \A x \in Inums \X Names : ents'[x[1]][x[2]] = IF x = <<e, n>> THEN None ELSE ents[x[1]][x[2]]
    BY <1>9
  <2>3. <<e, n>> \in Inums \X Names /\ type[e] = "dir" /\ \A j \in Inums : j # None
    BY <1>10 DEF Inums, None
  <2>4. <<e, n>> \in NamesOf(i)
    BY <1>10 DEF NamesOf
  <2>5. NamesOf(i)' = NamesOf(i) \ {<<e, n>>}
    BY <2>1, <2>2, <2>3 DEF NamesOf
  <2>6. ASSUME NEW j \in Inums, j # i PROVE NamesOf(j)' = NamesOf(j)
    BY <1>10, <2>1, <2>2, <2>3, <2>6 DEF NamesOf
  <2> QED
    BY <2>4, <2>5, <2>6
<1>21. /\ type[i] = "dir" => SubNames(e)' = SubNames(e) \ {n}
       /\ \A j \in Inums : j # e \/ type[i] # "dir" => SubNames(j)' = SubNames(j)
  <2>1. \A j \in Inums : SubNames(j)' = {m \in Names : type[j] = "dir" /\ ents'[j][m] # None
                                                       /\ type[ents'[j][m]] = "dir"}
    BY <1>2 DEF SubNames
  <2>2. type[i] = "dir" => SubNames(e)' = SubNames(e) \ {n}
    BY <1>9, <1>10, <2>1 DEF SubNames
  <2>3. ASSUME NEW j \in Inums, j # e \/ type[i] # "dir" PROVE SubNames(j)' = SubNames(j)
    <3>1. CASE j # e
      BY <1>9, <2>1, <3>1 DEF SubNames
    <3>2. CASE j = e /\ type[i] # "dir"
      BY <1>9, <1>10, <2>1, <3>2 DEF SubNames
    <3> QED
      BY <2>3, <3>1, <3>2
  <2> QED
    BY <2>2, <2>3
<1>22. LinksCover'
  <2> SUFFICES ASSUME NEW j \in Inums PROVE CoverAt(j)'
    BY DEF LinksCover, CoverAt
  <2>1. IsFiniteSet(NamesOf(j)) /\ IsFiniteSet(SubNames(j)) /\ IsFiniteSet(Pending(j))
    BY ClaimsAreFinite DEF IInv
  <2>2. nlink[j] \in Nat
    BY <1>12
  <2>3. (type'[j] = "free" => type[j] = "free") /\ (~stray' => ~stray)
    BY <1>2
  <2>4. CASE j = i
    <3>1. ClaimsBecome(j, -1, 0, 1)
      <4>1. Cardinality(NamesOf(j)') = Cardinality(NamesOf(j)) + (-1)
        BY <1>20, <2>1, <2>4, CountLess
      <4>2. Cardinality(Pending(j)') = Cardinality(Pending(j)) + 1
        BY <1>19, <2>1, <2>4, CountMore
      <4>3. Cardinality(SubNames(j)') = Cardinality(SubNames(j)) + 0
        BY <1>5, <1>21, <2>1, <2>4, CountSame
      <4> QED
        BY <4>1, <4>2, <4>3 DEF ClaimsBecome
    <3>2. PICK a \in Int : a = -1
      OBVIOUS
    <3>3. ClaimsBecome(j, a, 0, 1) /\ a + 0 + 1 = 0 /\ nlink'[j] = nlink[j] + (a + 0 + 1)
      BY <1>5, <1>12, <2>2, <2>4, <3>1, <3>2
    <3> QED
      BY <2>3, <3>3, CoverStays
  <2>5. CASE j = e /\ type[i] = "dir"
    <3>1. ClaimsBecome(j, 0, -1, 0)
      <4>1. Cardinality(NamesOf(j)') = Cardinality(NamesOf(j)) + 0
        BY <1>5, <1>20, <2>1, <2>5, CountSame
      <4>2. Cardinality(Pending(j)') = Cardinality(Pending(j)) + 0
        BY <1>5, <1>19, <2>1, <2>5, CountSame
      <4>3. Cardinality(SubNames(j)') = Cardinality(SubNames(j)) + (-1)
        BY <1>11, <1>21, <2>1, <2>5, CountLess
      <4> QED
        BY <4>1, <4>2, <4>3 DEF ClaimsBecome
    <3>2. PICK b \in Int : b = -1
      OBVIOUS
    <3>3. ClaimsBecome(j, 0, b, 0)
      BY <3>1, <3>2
    <3>4. nlink'[j] = nlink[j] + (0 + b + 0) /\ type'[j] # "free"
      BY <1>2, <1>10, <1>12, <2>2, <2>5, <3>2
    <3>5. type'[j] = "free" => type[j] = "free" /\ 0 + b + 0 = 0
      BY <3>4
    <3>6. 0 \in Int /\ nlink'[j] = nlink[j] + (0 + b + 0)
      BY <3>4
    <3> QED
      BY <2>3, <3>3, <3>5, <3>6, CoverStays
  <2>6. CASE j # i /\ (j # e \/ type[i] # "dir")
    <3>1. ClaimsBecome(j, 0, 0, 0)
      BY <1>19, <1>20, <1>21, <2>1, <2>6, CountSame DEF ClaimsBecome
    <3>2. nlink'[j] = nlink[j] + (0 + 0 + 0)
      BY <1>12, <2>2, <2>6
    <3> QED
      BY <2>3, <3>1, <3>2, CoverStays
  <2> QED
    BY <2>4, <2>5, <2>6
<1>23. Tree'
  <2> SUFFICES ASSUME NEW f \in Inums, NEW j \in Inums, NEW m \in Names, IsName(f, m, j)', type'[j] = "dir"
               PROVE  /\ j # Root /\ ents'[j][".."] = f /\ Pending(j)' = {}
                      /\ \A g \in Inums, l \in Names : IsName(g, l, j)' => g = f /\ l = m
                      /\ \A l \in Names : ents'[j][l] # f
    BY DEF Tree
  <2>1. type[j] = "dir" /\ \A x \in Inums : x # None
    BY <1>2 DEF Inums, None
  <2>2. \A g \in Inums, l \in Names : IsName(g, l, j)' => IsName(g, l, j) /\ ~(g = e /\ l = n)
    BY <1>2, <1>9, <2>1 DEF IsName
  <2>3. /\ j # Root /\ ents[j][".."] = f /\ Pending(j) = {}
        /\ \A g \in Inums, l \in Names : IsName(g, l, j) => g = f /\ l = m
        /\ \A l \in Names : ents[j][l] # f
    BY <2>1, <2>2 DEF IInv, Tree
  <2>4. j # i
    BY <1>10, <2>2, <2>3
  <2>5. \A l \in Names : ents'[j][l] \in {ents[j][l], None}
    BY <1>9
  <2> QED
    BY <1>17, <1>19, <2>1, <2>2, <2>3, <2>4, <2>5
<1>24. RemovedIsEmpty'
  <2> SUFFICES ASSUME ~stray, NEW j \in Inums \ {Root}, type[j] = "dir", NamesOf(j)' = {}
               PROVE  \A m \in Names : ents'[j][m] = None
    BY <1>2 DEF RemovedIsEmpty, IsEmpty
  <2>1. IsEmpty(j)
    <3>1. CASE j = i
      BY <1>2, <1>4, <3>1 DEF Keeps
    <3>2. CASE j # i
      BY <1>20, <3>2 DEF IInv, RemovedIsEmpty
    <3> QED
      BY <3>1, <3>2
  <2> QED
    BY <1>9, <2>1 DEF IsEmpty
<1>25. NoUseAfterFree'
  BY <1>1, <1>2, <1>3, <1>15, UseStays
<1>26. OrphansAreUsed'
  <2>1. d.put = e /\ ~d.tested
    BY <1>5, <1>6, <1>8 DEF Becomes
  <2>2. Using(cwd'[p], fd'[p], call'[p], e)
    BY <1>7, <2>1 DEF Using
  <2> QED
    BY <1>2, <1>12, <1>15, <2>2, OrphansStay
<1> QED
  BY <1>15, <1>16, <1>18, <1>22, <1>23, <1>24, <1>25, <1>26 DEF IInv

-----------------------------------------------------------------------------
(* An inode is allocated, and gets its name.                                *)
LEMMA FreeIs ==
  ASSUME Free # {}
  PROVE  Min(Free) \in Inums /\ type[Min(Free)] = "free"
<1>1. Free \subseteq Nat
  BY DEF Free, Inums
<1>2. Min(Free) \in Free
  BY <1>1, MinIsIn
<1> QED
  BY <1>2 DEF Free

\* A free inode has no names, no links and no call that is about to give it one.
LEMMA FreeHasNothing ==
  ASSUME IInv, NEW i \in Inums, type[i] = "free"
  PROVE  /\ NamesOf(i) = {} /\ SubNames(i) = {} /\ Pending(i) = {} /\ i # Root /\ nlink[i] = 0
         /\ \A n \in Names \cup {".."} : ents[i][n] = None
<1>1. nlink[i] = 0
  BY DEF IInv, LinksCover
<1>2. NamesOf(i) = {} /\ SubNames(i) = {} /\ Pending(i) = {} /\ RootLink(i) = 0
  BY <1>1, ClaimsAre DEF IInv
<1> QED
  BY <1>1, <1>2 DEF RootLink, IInv, EntriesOK

\* CreateMakes keeps the invariant.
LEMMA CreateMakesKeeps ==
  ASSUME IInv, NEW p \in Procs, CreateMakes(p)
  PROVE  IInv'
<1>1. PICK c \in CallType : c = call[p]
  BY CallIs
<1>2. PICK i \in Inums : i = Min(Free) /\ type[i] = "free"
  BY FreeIs DEF CreateMakes
<1>3. PICK k \in {"dir", "file"} : k = IF c.op = "mkdir" THEN "dir" ELSE "file"
  OBVIOUS
<1>4. /\ InParent(p, {"create", "mkdir"}) /\ Lookup(c.at, Name(p)) = None /\ lock[i] = NoProc
      /\ UNCHANGED <<cwd, fd, panicked>> /\ raced' = raced \ {i}
      /\ (~stray' => ~stray /\ nlink[c.at] # 0)
  BY <1>1, <1>2, NotesIs DEF CreateMakes
<1>5. /\ c.then = "there" /\ c.put = None /\ c.at \in Inums /\ type[c.at] = "dir" /\ c.ip = None
      /\ lock[c.at] = NoProc /\ c.op \in {"create", "mkdir"} /\ Name(p) \in Elements
      /\ LockIn(c) = None /\ ~Claiming(c)
  BY <1>1, <1>4, InParentIs
<1>6. PICK e \in Inums : e = c.at /\ type[e] = "dir" /\ e # i
  BY <1>2, <1>5
<1>7. PICK n \in Names : n = Name(p) /\ ents[e][n] = None /\ n \notin {".", ".."}
  <2>1. Name(p) \in Names
    BY <1>4, <1>5, LookupIs
  <2> QED
    BY <1>4, <1>6, <2>1, InodeSizes DEF Lookup
<1>8. PICK up \in InumOrNone : up = IF k = "dir" THEN e ELSE None
  BY DEF InumOrNone
<1>9. /\ type' = [type EXCEPT ![i] = k] /\ lock' = [lock EXCEPT ![i] = p]
      /\ nlink' = [nlink EXCEPT ![i] = 1, ![e] = IF k = "dir" THEN @ + 1 ELSE @]
      /\ ents' = [ents EXCEPT ![e][n] = i, ![i][".."] = up]
      /\ ref' = [ref EXCEPT ![i] = @ + 1]
      /\ call' = [call EXCEPT ![p] = [PutAt(c, "made") EXCEPT !.ip = i]]
  <2>1. (c.op = "mkdir") <=> k = "dir"
    BY <1>3
  <2>2. type' = [type EXCEPT ![i] = k] /\ lock' = [lock EXCEPT ![i] = p] /\ ref' = [ref EXCEPT ![i] = @ + 1]
    BY <1>1, <1>2, <1>3 DEF CreateMakes
  <2>3. nlink' = LinksMade(i, e, c.op = "mkdir")
    BY <1>1, <1>2, <1>6 DEF CreateMakes
  <2>4. ents' = [ents EXCEPT ![e][n] = i, ![i][".."] = IF c.op = "mkdir" THEN e ELSE None]
    BY <1>1, <1>2, <1>6, <1>7 DEF CreateMakes
  <2>5. call' = [call EXCEPT ![p] = [PutAt(c, "made") EXCEPT !.ip = i]]
    BY <1>1, <1>2 DEF CreateMakes
  <2>6. nlink' = [nlink EXCEPT ![i] = 1, ![e] = IF k = "dir" THEN @ + 1 ELSE @]
    <3>1. CASE k = "dir"
      BY <2>1, <2>3, <3>1 DEF LinksMade
    <3>2. CASE k # "dir"
      BY <2>1, <2>3, <3>2 DEF LinksMade
    <3> QED
      BY <3>1, <3>2
  <2>7. ents' = [ents EXCEPT ![e][n] = i, ![i][".."] = up]
    BY <1>8, <2>1, <2>4
  <2> QED
    BY <2>2, <2>5, <2>6, <2>7
<1>10. PICK d \in CallType : d = [PutAt(c, "made") EXCEPT !.ip = i]
         /\ Becomes(d, c.op, "made", None, i, c.at, c.path)
  <2>1. "made" \in Stages /\ i \in InumOrNone
    BY DEF Stages, InumOrNone
  <2>2. Becomes([PutAt(c, "made") EXCEPT !.ip = i], c.op, "made", None, i, c.at, c.path)
    BY <2>1, FoundIs
  <2> QED
    BY <2>2 DEF Becomes
<1>11. call'[p] = d /\ call' = [call EXCEPT ![p] = d] /\ i # None /\ e # None
  BY <1>1, <1>9, <1>10 DEF IInv, CallsOK, Inums, None
<1>12. /\ Shape(d) /\ Finds(d) /\ LockIn(d) = i /\ ~Claiming(d) /\ d.put = e /\ d.ip = i /\ d.at = None
  BY <1>5, <1>6, <1>10, <1>11 DEF Becomes, Shape, Finds, InDirectory, Linking, Claiming, LockIn
<1>13. /\ NamesOf(i) = {} /\ SubNames(i) = {} /\ Pending(i) = {} /\ i # Root /\ nlink[i] = 0
       /\ \A m \in Names \cup {".."} : ents[i][m] = None
  BY <1>2, FreeHasNothing
<1>14. /\ ents \in [Inums -> [Names \cup {".."} -> InumOrNone]]
       /\ ents' \in [Inums -> [Names \cup {".."} -> InumOrNone]]
       /\ \A j \in Inums, m \in Names \cup {".."} :
             ents'[j][m] = IF j = e /\ m = n THEN i ELSE IF j = i /\ m = ".." THEN up ELSE ents[j][m]
  <2>1. ents \in [Inums -> [Names \cup {".."} -> InumOrNone]] /\ i \in InumOrNone
    BY DEF IInv, InodeTypeOK, InumOrNone
  <2> QED
    BY <1>6, <1>9, <2>1
<1>15. /\ type \in [Inums -> {"free", "dir", "file"}] /\ type' \in [Inums -> {"free", "dir", "file"}]
       /\ \A j \in Inums : type'[j] = IF j = i THEN k ELSE type[j]
  <2>1. type \in [Inums -> {"free", "dir", "file"}]
    BY DEF IInv, InodeTypeOK
  <2> QED
    BY <1>9, <2>1
<1>16. /\ nlink \in [Inums -> Nat] /\ nlink' \in [Inums -> Nat] /\ nlink'[i] = 1
       /\ nlink'[e] = nlink[e] + (IF k = "dir" THEN 1 ELSE 0)
       /\ \A j \in Inums \ {i, e} : nlink'[j] = nlink[j]
  <2>1. nlink \in [Inums -> Nat]
    BY DEF IInv, InodeTypeOK
  <2>2. CASE k = "dir"
    BY <1>6, <1>9, <2>1, <2>2
  <2>3. CASE k # "dir"
    BY <1>6, <1>9, <2>1, <2>3
  <2> QED
    BY <2>2, <2>3
<1>17. Changes(p, d, i) /\ i \in InumOrNone
  <2>1. \A j \in Inums : One(i, j) + One(call[p].at, j) + One(call[p].ip, j)
                          = One(d.at, j) + One(d.ip, j) + One(d.put, j)
    BY <1>1, <1>5, <1>6, <1>12 DEF One, Inums, None
  <2>2. d.put # None => d.tested = FALSE
    BY <1>10 DEF Becomes
  <2>3. lock' \in [Inums -> Procs \cup {NoProc}] /\ LockMoves(p)
    BY <1>1, <1>4, <1>5, <1>9, <1>11, <1>12, Locks
  <2> QED
    BY <1>1, <1>4, <1>5, <1>9, <1>11, <1>12, <1>14, <1>15, <1>16, <2>1, <2>2, <2>3 DEF Changes, InumOrNone
<1>18. /\ InodeTypeOK' /\ CallsOK' /\ RefExact' /\ LocksExact' /\ NoCountPanic'
       /\ OthersStay(p) /\ GoesOnUsing(p) /\ \A j \in Inums : j # i => ref'[j] = ref[j]
  BY <1>17, ChangeStep
<1>19. CallsFind'
  <2> SUFFICES ASSUME NEW q \in Procs PROVE Finds(call[q])'
    BY DEF CallsFind
  <2>1. CASE q = p
    BY <1>10, <1>11, <2>1 DEF Becomes, Finds, InDirectory, Linking
  <2>2. CASE q # p
    <3>1. call'[q] = call[q] /\ Finds(call[q]) /\ Shape(call[q])
      BY <1>18, <2>2, CallIs DEF OthersStay
    <3>2. InDirectory(call[q]) => call[q].at \in Inums /\ type[call[q].at] = "dir" /\ call[q].at # i
      BY <1>2, DirectoryIs
    <3>3. Linking(call[q]) => call[q].ip \in Inums /\ type[call[q].ip] = "file" /\ call[q].ip # i
      BY <1>2, LinkingIs
    <3>4. call[q].then = "unlink2" =>
            /\ InDirectory(call[q]) /\ Head(call[q].path) \in Names /\ call[q].ip # None
            /\ ents[call[q].at][Head(call[q].path)] = call[q].ip
      BY UnlinkingIs
    <3>5. call[q].then = "unlink2" => ents'[call[q].at][Head(call[q].path)] = call[q].ip
      <4> SUFFICES ASSUME call[q].then = "unlink2"
                   PROVE  ents'[call[q].at][Head(call[q].path)] = call[q].ip
        OBVIOUS
      <4>1. PICK j \in Inums, m \in Names : j = call[q].at /\ m = Head(call[q].path)
        BY <3>2, <3>4
      <4>2. j # i /\ ents[j][m] = call[q].ip /\ ~(j = e /\ m = n)
        BY <1>7, <3>2, <3>4, <4>1
      <4>3. m \in Names \cup {".."} /\ m # ".."
        BY InodeSizes
      <4>4. ents'[j][m] = ents[j][m]
        BY <1>14, <4>2, <4>3
      <4> QED
        BY <4>1, <4>2, <4>4
    <3>6. InDirectory(call[q]) => type'[call[q].at] = "dir"
      BY <1>15, <3>2
    <3>7. Linking(call[q]) => type'[call[q].ip] = "file"
      BY <1>15, <3>3
    <3> QED
      BY <3>1, <3>5, <3>6, <3>7 DEF Finds, InDirectory, Linking
  <2> QED
    BY <2>1, <2>2
<1>20. EntriesOK'
  <2>1. \A j \in Inums : ents'[j][".."] = IF j = i THEN up ELSE ents[j][".."]
    BY <1>6, <1>7, <1>14
  <2>2. \A m \in Names : ents'[i][m] = None
    BY <1>6, <1>13, <1>14, InodeSizes
  <2>3. ASSUME NEW j \in Inums, type'[j] # "dir", NEW m \in Names \cup {".."} PROVE ents'[j][m] = None
    <3>1. CASE j = i
      BY <1>3, <1>8, <1>15, <2>1, <2>2, <2>3, <3>1
    <3>2. CASE j # i
      BY <1>6, <1>14, <1>15, <2>3, <3>2 DEF IInv, EntriesOK
    <3> QED
      BY <3>1, <3>2
  <2>4. ASSUME NEW j \in Inums, type'[j] = "dir" PROVE ents'[j][".."] # None
    <3>1. CASE j = i
      BY <1>8, <1>11, <1>15, <2>1, <2>4, <3>1
    <3>2. CASE j # i
      BY <1>15, <2>1, <2>4, <3>2 DEF IInv, EntriesOK
    <3> QED
      BY <3>1, <3>2
  <2>5. ents'[Root][".."] = Root
    BY <1>13, <2>1, RootIs DEF IInv, EntriesOK
  <2> QED
    BY <2>3, <2>4, <2>5 DEF EntriesOK
<1>21. \A j \in Inums : Pending(j)' = Pending(j)
  <2>1. \A q \in Procs \ {p} : call'[q] = call[q]
    BY <1>18 DEF OthersStay
  <2>2. ~Claiming(call'[p]) /\ ~Claiming(call[p])
    BY <1>1, <1>5, <1>11, <1>12
  <2>3. \A j \in Inums : Pending(j)' = {q \in Procs : call'[q].ip = j /\ Claiming(call'[q])}
    BY DEF Pending, Claiming, Linking
  <2> QED
    BY <2>1, <2>2, <2>3 DEF Pending
<1>22. \A j \in Inums, m \in Names : ents'[j][m] = IF j = e /\ m = n THEN i ELSE ents[j][m]
  BY <1>14, InodeSizes
<1>23. \A j \in Inums, x \in Inums, m \in Names :
         IsName(j, m, x)' <=> IsName(j, m, x) \/ (j = e /\ m = n /\ x = i)
  <2> SUFFICES ASSUME NEW j \in Inums, NEW x \in Inums, NEW m \in Names
               PROVE  IsName(j, m, x)' <=> IsName(j, m, x) \/ (j = e /\ m = n /\ x = i)
    OBVIOUS
  <2>1. IsName(j, m, x)' <=> type'[j] = "dir" /\ ents'[j][m] = x
    BY DEF IsName
  <2>2. x # None
    BY DEF Inums, None
  <2>3. CASE j = i
    BY <1>2, <1>6, <1>13, <1>22, <2>1, <2>2, <2>3 DEF IsName
  <2>4. CASE j # i
    BY <1>6, <1>7, <1>15, <1>22, <2>1, <2>2, <2>4 DEF IsName
  <2> QED
    BY <2>3, <2>4
<1>24. NamesOf(i)' = {<<e, n>>} /\ \A j \in Inums : j # i => NamesOf(j)' = NamesOf(j)
  <2>1. \A j \in Inums : NamesOf(j)' = {x \in Inums \X Names : IsName(x[1], x[2], j)'}
    BY DEF NamesOf, IsName
  <2>2. \A j \in Inums : NamesOf(j) = {x \in Inums \X Names : IsName(x[1], x[2], j)}
    BY DEF NamesOf, IsName
  <2>3. NamesOf(i)' = {<<e, n>>}
    <3>1. \A x \in Inums \X Names : ~IsName(x[1], x[2], i)
      BY <1>13, <2>2
    <3>2. \A x \in Inums \X Names : IsName(x[1], x[2], i)' <=> x = <<e, n>>
      BY <1>23, <3>1
    <3> QED
      BY <2>1, <3>2
  <2>4. ASSUME NEW j \in Inums, j # i PROVE NamesOf(j)' = NamesOf(j)
    <3>1. \A x \in Inums \X Names : IsName(x[1], x[2], j)' <=> IsName(x[1], x[2], j)
      BY <1>23, <2>4
    <3>2. NamesOf(j)' = {x \in Inums \X Names : IsName(x[1], x[2], j)'}
      BY <2>1
    <3>3. NamesOf(j) = {x \in Inums \X Names : IsName(x[1], x[2], j)}
      BY <2>2
    <3> QED
      BY <3>1, <3>2, <3>3
  <2> QED
    BY <2>3, <2>4
<1>25. /\ SubNames(i)' = SubNames(i)
       /\ k = "dir" => SubNames(e)' = SubNames(e) \cup {n} /\ n \notin SubNames(e)
       /\ \A j \in Inums \ {i} : j # e \/ k # "dir" => SubNames(j)' = SubNames(j)
  <2>1. \A j \in Inums : SubNames(j)' = {m \in Names : type'[j] = "dir" /\ ents'[j][m] # None
                                                       /\ type'[ents'[j][m]] = "dir"}
    BY DEF SubNames
  <2>2. SubNames(i)' = SubNames(i)
    BY <1>6, <1>13, <1>22, <2>1
  <2>3. ASSUME NEW j \in Inums, type[j] = "dir", NEW m \in Names, ents[j][m] # None
        PROVE  type'[ents[j][m]] = type[ents[j][m]]
    <3>1. ents[j][m] \in Inums
      BY <1>14, <2>3 DEF InumOrNone
    <3>2. ents[j][m] = i => <<j, m>> \in NamesOf(i)
      BY <2>3 DEF NamesOf
    <3> QED
      BY <1>13, <1>15, <3>1, <3>2
  <2>4. k = "dir" => SubNames(e)' = SubNames(e) \cup {n} /\ n \notin SubNames(e)
    <3> SUFFICES ASSUME k = "dir" PROVE SubNames(e)' = SubNames(e) \cup {n} /\ n \notin SubNames(e)
      OBVIOUS
    <3>1. type[e] = "dir" /\ type'[e] = "dir" /\ type'[i] = "dir"
      BY <1>6, <1>15
    <3>2. n \in SubNames(e)' /\ n \notin SubNames(e)
      BY <1>7, <1>11, <1>22, <2>1, <3>1 DEF SubNames
    <3>3. \A m \in Names \ {n} : ents'[e][m] = ents[e][m]
      BY <1>22
    <3>4. \A m \in Names \ {n} : m \in SubNames(e)' <=> m \in SubNames(e)
      BY <2>1, <2>3, <3>1, <3>3 DEF SubNames
    <3>5. SubNames(e)' \subseteq Names /\ SubNames(e) \subseteq Names
      BY <2>1 DEF SubNames
    <3> QED
      BY <3>2, <3>4, <3>5
  <2>5. ASSUME NEW j \in Inums \ {i}, j # e \/ k # "dir" PROVE SubNames(j)' = SubNames(j)
    <3>1. type'[j] = type[j] /\ type'[i] = k
      BY <1>15
    <3>2. CASE j # e
      <4>1. \A m \in Names : ents'[j][m] = ents[j][m]
        BY <1>22, <3>2
      <4> QED
        BY <2>1, <2>3, <3>1, <4>1 DEF SubNames
    <3>3. CASE j = e /\ k # "dir"
      <4>1. \A m \in Names \ {n} : ents'[j][m] = ents[j][m]
        BY <1>22
      <4>2. \A m \in Names \ {n} : m \in SubNames(j)' <=> m \in SubNames(j)
        BY <2>1, <2>3, <3>1, <4>1 DEF SubNames
      <4>3. n \notin SubNames(j)' /\ n \notin SubNames(j)
        BY <1>7, <1>22, <2>1, <3>1, <3>3 DEF SubNames
      <4>4. SubNames(j)' \subseteq Names /\ SubNames(j) \subseteq Names
        BY <2>1 DEF SubNames
      <4> QED
        BY <4>2, <4>3, <4>4
    <3> QED
      BY <2>5, <3>2, <3>3
  <2> QED
    BY <2>2, <2>4, <2>5
<1>26. LinksCover'
  <2> SUFFICES ASSUME NEW j \in Inums PROVE CoverAt(j)'
    BY DEF LinksCover, CoverAt
  <2>1. IsFiniteSet(NamesOf(j)) /\ IsFiniteSet(SubNames(j)) /\ IsFiniteSet(Pending(j))
    BY ClaimsAreFinite DEF IInv
  <2>2. nlink[j] \in Nat
    BY <1>16
  <2>3. (type'[j] = "free" => type[j] = "free" /\ j # i) /\ (~stray' => ~stray)
    BY <1>3, <1>4, <1>15
  <2>4. CASE j = i
    <3>1. ClaimsBecome(j, 1, 0, 0)
      <4>1. NamesOf(j)' = NamesOf(j) \cup {<<e, n>>} /\ <<e, n>> \notin NamesOf(j)
        BY <1>13, <1>24, <2>4
      <4>2. Cardinality(NamesOf(j)') = Cardinality(NamesOf(j)) + 1
        BY <2>1, <4>1, CountMore
      <4>3. Cardinality(Pending(j)') = Cardinality(Pending(j)) + 0
        BY <1>21, <2>1, CountSame
      <4>4. Cardinality(SubNames(j)') = Cardinality(SubNames(j)) + 0
        BY <1>25, <2>1, <2>4, CountSame
      <4> QED
        BY <4>2, <4>3, <4>4 DEF ClaimsBecome
    <3>2. nlink'[j] = nlink[j] + (1 + 0 + 0)
      BY <1>13, <1>16, <2>4
    <3> QED
      BY <2>3, <2>4, <3>1, <3>2, CoverStays
  <2>5. CASE j = e /\ k = "dir"
    <3>1. ClaimsBecome(j, 0, 1, 0)
      <4>1. Cardinality(NamesOf(j)') = Cardinality(NamesOf(j)) + 0
        BY <1>6, <1>24, <2>1, <2>5, CountSame
      <4>2. Cardinality(Pending(j)') = Cardinality(Pending(j)) + 0
        BY <1>21, <2>1, CountSame
      <4>3. Cardinality(SubNames(j)') = Cardinality(SubNames(j)) + 1
        BY <1>25, <2>1, <2>5, CountMore
      <4> QED
        BY <4>1, <4>2, <4>3 DEF ClaimsBecome
    <3>2. nlink'[j] = nlink[j] + (0 + 1 + 0) /\ type'[j] # "free"
      BY <1>6, <1>15, <1>16, <2>2, <2>5
    <3> QED
      BY <2>3, <3>1, <3>2, CoverStays
  <2>6. CASE j # i /\ (j # e \/ k # "dir")
    <3>1. ClaimsBecome(j, 0, 0, 0)
      BY <1>21, <1>24, <1>25, <2>1, <2>6, CountSame DEF ClaimsBecome
    <3>2. nlink'[j] = nlink[j] + (0 + 0 + 0)
      BY <1>16, <2>2, <2>6
    <3> QED
      BY <2>3, <3>1, <3>2, CoverStays
  <2> QED
    BY <1>6, <2>4, <2>5, <2>6
<1>27. Tree'
  <2> SUFFICES ASSUME NEW f \in Inums, NEW j \in Inums, NEW m \in Names, IsName(f, m, j)', type'[j] = "dir"
               PROVE  /\ j # Root /\ ents'[j][".."] = f /\ Pending(j)' = {}
                      /\ \A g \in Inums, l \in Names : IsName(g, l, j)' => g = f /\ l = m
                      /\ \A l \in Names : ents'[j][l] # f
    BY DEF Tree
  <2>1. f # None
    BY DEF Inums, None
  <2>2. CASE j = i
    <3>1. \A g \in Inums, l \in Names : ~IsName(g, l, i)
      <4>1. \A g \in Inums, l \in Names : IsName(g, l, i) => <<g, l>> \in NamesOf(i)
        BY DEF IsName, NamesOf
      <4> QED
        BY <1>13, <4>1
    <3>2. f = e /\ m = n
      BY <1>23, <2>2, <3>1
    <3>3. \A g \in Inums, l \in Names : IsName(g, l, j)' => g = f /\ l = m
      BY <1>23, <2>2, <3>1, <3>2
    <3>4. \A l \in Names : ents'[j][l] # f
      BY <1>6, <1>13, <1>22, <2>1, <2>2
    <3>5. ents'[j][".."] = f
      <4>1. k = "dir"
        BY <1>15, <2>2
      <4>2. ents'[i][".."] = up
        BY <1>6, <1>14
      <4> QED
        BY <1>8, <2>2, <3>2, <4>1, <4>2
    <3> QED
      BY <1>13, <1>21, <2>2, <3>3, <3>4, <3>5
  <2>3. CASE j # i
    <3>1. type[j] = "dir" /\ \A g \in Inums, l \in Names : IsName(g, l, j)' <=> IsName(g, l, j)
      BY <1>15, <1>23, <2>3
    <3>2. /\ j # Root /\ ents[j][".."] = f /\ Pending(j) = {}
          /\ \A g \in Inums, l \in Names : IsName(g, l, j) => g = f /\ l = m
          /\ \A l \in Names : ents[j][l] # f
      BY <3>1 DEF IInv, Tree
    <3>3. ents'[j][".."] = ents[j][".."]
      BY <1>7, <1>14, <2>3
    <3>4. f # i
      BY <1>2, <3>1 DEF IsName
    <3>5. \A l \in Names : ents'[j][l] \in {ents[j][l], i}
      BY <1>22
    <3> QED
      BY <1>21, <3>1, <3>2, <3>3, <3>4, <3>5
  <2> QED
    BY <2>2, <2>3
<1>28. RemovedIsEmpty'
  <2> SUFFICES ASSUME ~stray', NEW j \in Inums \ {Root}, type'[j] = "dir", NamesOf(j)' = {}
               PROVE  \A m \in Names : ents'[j][m] = None
    BY DEF RemovedIsEmpty, IsEmpty
  <2>1. j # i /\ type[j] = "dir" /\ NamesOf(j) = {} /\ ~stray
    BY <1>4, <1>15, <1>24
  <2>2. j # e
    <3>1. ASSUME j = e PROVE FALSE
      <4>1. Pending(j) = {} /\ nlink[j] # 0
        BY <1>4, <1>5, <1>6, <3>1, NotPending
      <4> QED
        BY <2>1, <4>1, LiveHasName
    <3> QED
      BY <3>1
  <2>3. IsEmpty(j)
    BY <2>1 DEF IInv, RemovedIsEmpty
  <2> QED
    BY <1>22, <2>2, <2>3 DEF IsEmpty
<1>29. NoUseAfterFree'
  <2>1. \A j \in Inums : type'[j] = "free" => type[j] = "free" /\ (~stray' => ref'[j] = ref[j])
    BY <1>3, <1>15, <1>18
  <2> QED
    BY <1>1, <1>4, <1>5, <1>18, <2>1, UseStays
<1>30. OrphansAreUsed'
  <2>1. ASSUME NEW j \in Inums, type'[j] # "free", nlink'[j] = 0
        PROVE  type[j] # "free" /\ nlink[j] = 0 /\ (j \in raced => j \in raced')
    <3>1. j # i
      BY <1>16, <2>1
    <3>2. nlink[j] = 0
      BY <1>16, <2>1, <3>1
    <3> QED
      BY <1>4, <1>15, <2>1, <3>1, <3>2
  <2> QED
    BY <1>18, <2>1, OrphansStay
<1> QED
  BY <1>18, <1>19, <1>20, <1>26, <1>27, <1>28, <1>29, <1>30 DEF IInv

-----------------------------------------------------------------------------
(* The invariant holds.                                                     *)
LEMMA InitHolds == Init => IInv
<1> SUFFICES ASSUME Init PROVE IInv
  OBVIOUS
<1>1. Root \in Inums /\ Root # None /\ \A i \in Inums : i # None
  BY InodeSizes DEF Root, Inums, None
<1>2. /\ \A p \in Procs : call[p] = NoCall /\ cwd[p] = Root /\ fd[p] = None
      /\ call \in [Procs -> CallType] /\ cwd \in [Procs -> Inums] /\ fd \in [Procs -> InumOrNone]
  <2>1. NoCall \in CallType
    BY NoCallIs
  <2> QED
    BY <1>1, <2>1 DEF Init, InumOrNone
<1>3. /\ NoCall.op = "none" /\ NoCall.then = "user" /\ NoCall.at = None /\ NoCall.ip = None
      /\ NoCall.put = None
  BY DEF NoCall
<1>4. NoEntries \in [Names \cup {".."} -> InumOrNone] /\ \A n \in Names \cup {".."} : NoEntries[n] = None
  BY DEF NoEntries, InumOrNone
<1>5. /\ ents \in [Inums -> [Names \cup {".."} -> InumOrNone]]
      /\ ents[Root][".."] = Root
      /\ \A i \in Inums, n \in Names : ents[i][n] = None
      /\ \A i \in Inums \ {Root} : ents[i][".."] = None
  <2>1. Root \in InumOrNone /\ ".." \notin Names
    BY <1>1, InodeSizes DEF InumOrNone
  <2>2. PICK E \in [Names \cup {".."} -> InumOrNone] : E = [NoEntries EXCEPT ![".."] = Root]
    BY <1>4, <2>1
  <2>3. E[".."] = Root /\ \A n \in Names : E[n] = None
    BY <1>4, <2>1, <2>2
  <2>4. ents = [i \in Inums |-> IF i = Root THEN E ELSE NoEntries]
    BY <2>2 DEF Init
  <2> QED
    BY <1>1, <1>4, <2>3, <2>4
<1>6. /\ \A i \in Inums : type[i] = IF i = Root THEN "dir" ELSE "free"
      /\ \A i \in Inums : nlink[i] = IF i = Root THEN 1 ELSE 0
      /\ \A i \in Inums : ref[i] = IF i = Root THEN Cardinality(Procs) ELSE 0
      /\ \A i \in Inums : lock[i] = NoProc
  BY DEF Init
<1>7. Cardinality(Procs) \in Nat
  BY InodeSizes, FS_CardinalityType
<1>8. InodeTypeOK
  <2>1. /\ type \in [Inums -> {"free", "dir", "file"}] /\ nlink \in [Inums -> Nat]
        /\ ref \in [Inums -> Nat] /\ lock \in [Inums -> Procs \cup {NoProc}]
    BY <1>7 DEF Init
  <2> QED
    BY <1>2, <1>3, <1>5, <2>1 DEF InodeTypeOK, InumOrNone
<1>9. CallsOK
  BY <1>2 DEF CallsOK, Shape
<1>10. RefExact
  <2> SUFFICES ASSUME NEW i \in Inums PROVE ref[i] = Held(i, cwd) + Held(i, fd) + InCalls(i)
    BY DEF RefExact
  <2>1. {p \in Procs : fd[p] = i} = {} /\ {p \in Procs : call[p].at = i} = {}
        /\ {p \in Procs : call[p].ip = i} = {} /\ {p \in Procs : call[p].put = i} = {}
    BY <1>1, <1>2, <1>3
  <2>2. Held(i, fd) = 0 /\ InCalls(i) = 0
    <3>1. Cardinality({p \in Procs : fd[p] = i}) = 0
      BY <2>1, FS_EmptySet
    <3>2. Cardinality({p \in Procs : call[p].at = i}) = 0
      BY <2>1, FS_EmptySet
    <3>3. Cardinality({p \in Procs : call[p].ip = i}) = 0
      BY <2>1, FS_EmptySet
    <3>4. Cardinality({p \in Procs : call[p].put = i}) = 0
      BY <2>1, FS_EmptySet
    <3> QED
      BY <3>1, <3>2, <3>3, <3>4 DEF Held, InCalls
  <2>3. CASE i = Root
    <3>1. {p \in Procs : cwd[p] = i} = Procs
      BY <1>2, <2>3
    <3> QED
      BY <1>6, <1>7, <2>2, <2>3, <3>1 DEF Held
  <2>4. CASE i # Root
    <3>1. {p \in Procs : cwd[p] = i} = {}
      BY <1>2, <2>4
    <3> QED
      BY <1>6, <2>2, <2>4, <3>1, FS_EmptySet DEF Held
  <2> QED
    BY <2>3, <2>4
<1>11. LocksExact /\ CallsFind
  BY <1>1, <1>2, <1>3, <1>6, InodeSizes DEF LocksExact, LockIn, CallsFind, Finds, InDirectory, Linking
<1>12. EntriesOK
  BY <1>1, <1>5, <1>6 DEF EntriesOK
<1>13. \A i \in Inums : NamesOf(i) = {} /\ SubNames(i) = {} /\ Pending(i) = {}
  <2> SUFFICES ASSUME NEW i \in Inums PROVE NamesOf(i) = {} /\ SubNames(i) = {} /\ Pending(i) = {}
    OBVIOUS
  <2>1. \A x \in Inums \X Names : ents[x[1]][x[2]] = None
    BY <1>5
  <2> QED
    BY <1>1, <1>2, <1>3, <1>5, <2>1 DEF NamesOf, SubNames, Pending, Claiming, Linking
<1>14. LinksCover
  <2>1. \A i \in Inums : Claims(i) = RootLink(i) /\ RootLink(i) \in {0, 1}
    BY <1>13, FS_EmptySet DEF Claims, RootLink
  <2> QED
    BY <1>6, <2>1 DEF LinksCover, RootLink
<1>15. Tree /\ RemovedIsEmpty
  BY <1>1, <1>5 DEF Tree, IsName, RemovedIsEmpty, IsEmpty
<1>16. NoUseAfterFree
  BY <1>6 DEF NoUseAfterFree
<1>17. NoCountPanic
  BY DEF Init, NoCountPanic
<1>18. OrphansAreUsed
  BY <1>6 DEF OrphansAreUsed
<1> QED
  BY <1>8, <1>9, <1>10, <1>11, <1>12, <1>14, <1>15, <1>16, <1>17, <1>18 DEF IInv

\* No step at all keeps the invariant.
LEMMA StutterKeeps ==
  ASSUME IInv, UNCHANGED vars
  PROVE  IInv'
<1>1. UNCHANGED <<inodeVars, ref, lock, cwd, fd, call, stray, raced>>
  BY DEF vars, inodeVars
<1>2. panicked' = panicked /\ stray' = stray
  BY DEF vars
<1>3. NoCountPanic'
  BY <1>2 DEF IInv, NoCountPanic
<1> QED
  BY <1>1, <1>3, PanicKeeps

\* Every step keeps the invariant.
LEMMA NextKeeps == IInv /\ [Next]_vars => IInv'
<1> SUFFICES ASSUME IInv, [Next]_vars PROVE IInv'
  OBVIOUS
<1>1. ASSUME NEW p \in Procs, Iput(p) PROVE IInv'
  BY <1>1, PutTestKeeps, PutDropKeeps DEF Iput
<1>2. ASSUME NEW p \in Procs, Walk(p) \/ NoParent(p) \/ NoTypePanic(p) PROVE IInv'
  BY <1>2, WalkKeeps, NoParentKeeps, NoTypePanicKeeps
<1>3. ASSUME NEW p \in Procs, Open(p) \/ Chdir(p) \/ Close(p) PROVE IInv'
  BY <1>3, OpenKeeps, ChdirKeeps, CloseKeeps
<1>4. ASSUME NEW p \in Procs, Create(p) PROVE IInv'
  BY <1>4, CreateFindsKeeps, FoundKeeps, CreateMakesKeeps, CreatePanicsKeeps, MadeKeeps DEF Create
<1>5. ASSUME NEW p \in Procs, UnlinkCall(p) PROVE IInv'
  BY <1>5, UnlinkKeeps, UnlinkRefusesKeeps, UnlinkBadKeeps, UnlinkErasesKeeps, UnlinkCountsKeeps
     DEF UnlinkCall
<1>6. ASSUME NEW p \in Procs, LinkCall(p) PROVE IInv'
  BY <1>6, LinkKeeps, LinkExistsKeeps, LinkUnlocksKeeps, LinkEntersKeeps, LinkBadKeeps DEF LinkCall
<1>7. ASSUME NEW p \in Procs, NEW c \in Calls[p], Begin(p, c) PROVE IInv'
  BY <1>7, BeginKeeps
<1>8. CASE UNCHANGED vars
  BY <1>8, StutterKeeps
<1> QED
  BY <1>1, <1>2, <1>3, <1>4, <1>5, <1>6, <1>7, <1>8 DEF Next

\* The inductive invariant holds in every behaviour.
LEMMA SpecKeeps == Spec => []IInv
<1> QED
  BY InitHolds, NextKeeps, PTL DEF Spec

-----------------------------------------------------------------------------
(* The theorems.                                                            *)

(* Types hold, reference counts are exact, and every name leads to an allocated inode,
   at every step of every mix of calls (fs.c:122-127, sysfile.c:218-229). *)
THEOREM InodesConsistent == Spec => []InodeInvariant
<1>1. IInv => InodeInvariant
  <2> SUFFICES ASSUME IInv PROVE InodeInvariant
    OBVIOUS
  <2>1. NamesLive
    BY NameIs DEF NamesLive
  <2> QED
    BY <2>1 DEF IInv, InodeInvariant
<1> QED
  BY <1>1, SpecKeeps, PTL

(* As long as nothing was done in a removed directory, nothing in use is freed: a freed
   inode has at most the one reference of the iput that freed it (fs.c:118-120, 339). *)
THEOREM NothingUsedIsFreed == Spec => []NoUseAfterFree
<1>1. IInv => NoUseAfterFree
  BY DEF IInv
<1> QED
  BY <1>1, SpecKeeps, PTL

(* As long as nothing was done in a removed directory, ilock finds no freed inode and
   unlink no inode without links (fs.c:309, sysfile.c:211). *)
THEOREM NoPanicOverCounts == Spec => []NoCountPanic
<1>1. IInv => NoCountPanic
  BY DEF IInv
<1> QED
  BY <1>1, SpecKeeps, PTL

(* An inode without links and references is one that two processes were in iput of at
   the same time (fs.c:331-353). *)
THEOREM OnlyRacesLeak == Spec => []OrphansNeedARace
<1>1. IInv => OrphansNeedARace
  <2> SUFFICES ASSUME IInv, NEW i \in Inums, type[i] # "free", nlink[i] = 0, ref[i] = 0
               PROVE  i \in raced
    BY DEF OrphansNeedARace
  <2>1. ASSUME NEW q \in Procs, Uses(q, i) PROVE FALSE
    <3>1. ref[i] >= Points(cwd[q], fd[q], call[q], i)
      BY Referenced DEF IInv
    <3>2. \A x : One(x, i) \in {0, 1} /\ (x = i => One(x, i) = 1)
      BY DEF One
    <3>3. Points(cwd[q], fd[q], call[q], i) >= 1 /\ Points(cwd[q], fd[q], call[q], i) \in Nat
      BY <2>1, <3>2 DEF Points, Uses, Using
    <3> QED
      BY <3>1, <3>3
  <2> QED
    BY <2>1 DEF IInv, OrphansAreUsed
<1> QED
  BY <1>1, SpecKeeps, PTL

(* The directories in i, by name and by their "..", are the same number. *)
LEMMA SubdirsAreNames ==
  ASSUME IInv, ~stray, \A p \in Procs : call[p] = NoCall, NEW i \in Inums, type[i] # "free"
  PROVE  Cardinality(SubNames(i)) = Cardinality(Subdirs(i))
<1>1. \A j \in Inums : Pending(j) = {}
  BY DEF Pending, Claiming, Linking, NoCall
<1>2. ents \in [Inums -> [Names \cup {".."} -> InumOrNone]]
  BY DEF IInv, InodeTypeOK, InumOrNone
<1>3. PICK f : f = [n \in SubNames(i) |-> ents[i][n]]
  OBVIOUS
<1>4. ASSUME NEW n \in SubNames(i)
      PROVE  f[n] \in Subdirs(i) /\ n \in Names /\ IsName(i, n, f[n]) /\ type[f[n]] = "dir"
  <2>1. n \in Names /\ type[i] = "dir" /\ ents[i][n] # None /\ type[ents[i][n]] = "dir"
    BY <1>4 DEF SubNames
  <2>2. PICK j \in Inums : j = ents[i][n]
    BY <1>2, <2>1 DEF InumOrNone
  <2>3. IsName(i, n, j) /\ type[j] = "dir" /\ nlink[j] >= 1
    BY <2>1, <2>2, NameIs DEF IsName
  <2>4. j # Root /\ ents[j][".."] = i
    BY <2>1, <2>3 DEF IInv, Tree
  <2>5. nlink[j] > 0 /\ nlink[j] # 0
    <3>1. nlink[j] \in Nat
      BY DEF IInv, InodeTypeOK
    <3> QED
      BY <2>3, <3>1
  <2>6. j \in Subdirs(i)
    BY <2>3, <2>4, <2>5 DEF Subdirs, Live
  <2> QED
    BY <1>3, <2>1, <2>2, <2>3, <2>6
<1>5. f \in [SubNames(i) -> Subdirs(i)]
  BY <1>3, <1>4
<1>6. ASSUME NEW m \in SubNames(i), NEW n \in SubNames(i), f[m] = f[n] PROVE m = n
  <2>1. PICK j \in Inums : j = f[n]
    BY <1>4 DEF Subdirs
  <2> QED
    BY <1>4, <1>6, <2>1 DEF IInv, Tree
<1>7. ASSUME NEW j \in Subdirs(i) PROVE \E n \in SubNames(i) : f[n] = j
  <2>1. j \in Inums \ {Root} /\ type[j] = "dir" /\ nlink[j] > 0 /\ nlink[j] \in Nat /\ ents[j][".."] = i
    BY <1>7 DEF Subdirs, Live, IInv, InodeTypeOK
  <2>2. PICK x \in NamesOf(j) : TRUE
    BY <1>1, <2>1, LiveHasName
  <2>3. PICK e \in Inums, n \in Names : type[e] = "dir" /\ ents[e][n] = j
    BY <2>2 DEF NamesOf
  <2>4. e = i
    BY <2>1, <2>3 DEF IInv, Tree, IsName
  <2>5. n \in SubNames(i)
    BY <2>1, <2>3, <2>4 DEF SubNames, Inums, None
  <2> QED
    BY <1>3, <2>3, <2>4, <2>5
<1>8. f \in Bijection(SubNames(i), Subdirs(i))
  BY <1>5, <1>6, <1>7 DEF Bijection, Injection, Surjection, IsInjective
<1>9. IsFiniteSet(SubNames(i))
  BY ClaimsAreFinite DEF IInv
<1> QED
  BY <1>8, <1>9, FS_Bijection DEF ExistsBijection

(* Between calls, and as long as nothing was done in a removed directory, the link count
   of an inode is the number of its names and, of a directory, of the directories in it
   (fs.c:101; sysfile.c:140, 227, 266-272). *)
THEOREM LinksExact == Spec => []NlinkExact
<1>1. IInv => NlinkExact
  <2> SUFFICES ASSUME IInv, ~stray, \A p \in Procs : call[p] = NoCall, NEW i \in Inums, type[i] # "free"
               PROVE  nlink[i] = Cardinality(NamesOf(i)) + Cardinality(Subdirs(i))
                                 + (IF i = Root THEN 1 ELSE 0)
    BY DEF NlinkExact
  <2>1. Pending(i) = {}
    BY DEF Pending, Claiming, Linking, NoCall
  <2>2. Cardinality(Pending(i)) = 0 /\ Cardinality(SubNames(i)) = Cardinality(Subdirs(i))
    BY <2>1, SubdirsAreNames, FS_EmptySet
  <2>3. /\ Cardinality(NamesOf(i)) \in Nat /\ Cardinality(SubNames(i)) \in Nat
        /\ nlink[i] = Cardinality(NamesOf(i)) + Cardinality(SubNames(i)) + Cardinality(Pending(i)) + RootLink(i)
    BY ClaimsAre DEF IInv
  <2> QED
    BY <2>2, <2>3 DEF RootLink
<1> QED
  BY <1>1, SpecKeeps, PTL

-----------------------------------------------------------------------------
(* Who waits for whom.                                                      *)
\* A call that keeps a lock, and is not in iput, waits for the inode to unlink.
LEMMA WaiterIs ==
  ASSUME IInv, NEW p \in Procs, NEW w \in Inums, w = Wanted(p), NEW l \in Inums, lock[l] = p,
         ~InIputWithLock(p)
  PROVE  /\ l = call[p].at /\ w = call[p].ip /\ type[l] = "dir"
         /\ \E n \in Names : IsName(l, n, w)
<1>1. LockIn(call[p]) = l /\ l # None /\ w # None
  BY DEF IInv, LocksExact, Inums, None
<1>2. ~(call[p].put # None /\ ~call[p].tested)
  BY DEF InIputWithLock
<1>3. call[p].put = None
  BY <1>1, <1>2 DEF Wanted
<1>4. /\ call[p].then \in {"walk", "there"} => w = call[p].at
      /\ call[p].then \in {"found", "unlink2", "link_bad"} => w = call[p].ip
      /\ call[p].then \in {"walk", "there", "found", "unlink2", "link_bad"}
  BY <1>1, <1>2, <1>3 DEF Wanted
<1>5. call[p].then = "unlink2" /\ l = call[p].at /\ w = call[p].ip
  BY <1>1, <1>4 DEF LockIn
<1>6. /\ type[l] = "dir" /\ Head(call[p].path) \in Names /\ ents[l][Head(call[p].path)] = w
  BY <1>5, CallIs DEF Shape, NoCall, Finds, InDirectory
<1> QED
  BY <1>5, <1>6 DEF IsName

\* A process that waits, waits for the holder of the inode it wants.
LEMMA WantedIs ==
  ASSUME IInv, NEW p \in Procs, WaitsFor(p) # NoProc
  PROVE  Wanted(p) \in Inums /\ WaitsFor(p) = lock[Wanted(p)] /\ WaitsFor(p) \in Procs
<1>1. Wanted(p) # None /\ WaitsFor(p) = lock[Wanted(p)]
  BY DEF WaitsFor
<1>2. Wanted(p) \in {call[p].at, call[p].ip, call[p].put, None}
  <2>1. CASE call[p].put # None /\ ~call[p].tested
    BY <2>1 DEF Wanted
  <2>2. CASE call[p].put # None /\ call[p].tested
    BY <2>2 DEF Wanted
  <2>3. CASE call[p].put = None
    BY <2>3 DEF Wanted
  <2> QED
    BY <2>1, <2>2, <2>3
<1>3. Wanted(p) \in Inums
  BY <1>1, <1>2, CallIs DEF InumOrNone
<1> QED
  BY <1>1, <1>3 DEF IInv, InodeTypeOK

(* Two processes wait for each other's inode, or one for its own, only if one of them is
   in iput with a lock: the locks of a directory and of what is in it are taken downwards,
   and directories are a tree (fs.c:149-150, 334; sysfile.c:225, 280). *)
THEOREM OnlyIputsWaitInCircles == Spec => []CirclesAreIputs
<1>1. IInv => CirclesAreIputs
  <2> SUFFICES ASSUME IInv, NEW p \in Procs, WaitsFor(p) # NoProc, WaitsFor(WaitsFor(p)) = p,
                      ~InIputWithLock(p), ~InIputWithLock(WaitsFor(p))
               PROVE  FALSE
    BY DEF CirclesAreIputs
  <2>1. PICK q \in Procs, w \in Inums : q = WaitsFor(p) /\ w = Wanted(p) /\ lock[w] = q
    BY WantedIs
  <2>2. PICK v \in Inums : v = Wanted(q) /\ lock[v] = p
    BY <2>1, WantedIs, InodeSizes
  <2>3. v = call[p].at /\ w = call[p].ip /\ type[v] = "dir" /\ \E n \in Names : IsName(v, n, w)
    BY <2>1, <2>2, WaiterIs
  <2>4. w = call[q].at /\ v = call[q].ip /\ type[w] = "dir" /\ \E n \in Names : IsName(w, n, v)
    BY <2>1, <2>2, WaiterIs
  <2>5. \A m \in Names : ents[w][m] # v
    BY <2>3, <2>4 DEF IInv, Tree
  <2> QED
    BY <2>4, <2>5 DEF IsName
<1> QED
  BY <1>1, SpecKeeps, PTL
=============================================================================
