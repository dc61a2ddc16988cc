-------------------------- MODULE InodeProperties --------------------------
(* What the file-system calls promise about inodes and names. *)
EXTENDS Inodes

InodeTypeOK ==
  /\ type \in [Inums -> {"free", "dir", "file"}]
  /\ nlink \in [Inums -> Nat] /\ ref \in [Inums -> Nat]
  /\ ents \in [Inums -> [Names \cup {".."} -> Inums \cup {None}]]
  /\ lock \in [Inums -> Procs \cup {NoProc}]
  /\ cwd \in [Procs -> Inums] /\ fd \in [Procs -> Inums \cup {None}]
  /\ \A p \in Procs : {call[p].at, call[p].ip, call[p].put} \subseteq Inums \cup {None}

(* ref counts the pointers to the cached inode, those of calls under way included
   (fs.c:122-127). *)
Held(i, held) == Cardinality({p \in Procs : held[p] = i})
InCalls(i) ==
  Cardinality({p \in Procs : call[p].at = i}) + Cardinality({p \in Procs : call[p].ip = i})
  + Cardinality({p \in Procs : call[p].put = i})
RefExact == \A i \in Inums : ref[i] = Held(i, cwd) + Held(i, fd) + InCalls(i)

(* An inode is freed only under the last reference, and stays that way until that
   reference is dropped or it is allocated anew: no open file, directory or path walk
   ever finds its inode freed (fs.c:118-120, 339), as long as nothing was done in a
   removed directory. *)
NoUseAfterFree ==
  ~stray => \A i \in Inums : type[i] = "free" /\ ref[i] > 0 =>
    ref[i] = 1 /\ \E p \in Procs : call[p].put = i /\ call[p].tested

(* The kernel does not panic over a type or a link count, as long as nothing was done
   in a removed directory (fs.c:309, sysfile.c:211). *)
NoCountPanic == ~stray => panicked \in {"no", "ialloc: no inodes"}

(* Every name leads to an allocated inode (sysfile.c:218-229). *)
NamesLive ==
  \A d \in Inums, n \in Names :
    type[d] = "dir" /\ ents[d][n] # None => type[ents[d][n]] # "free"

(* When no call is under way, which is when the log commits, nlink is the number of
   names of a file, and of a directory one and the number of its subdirectories
   (fs.c:101; sysfile.c:140, 227, 266-272). *)
Live(i) == type[i] # "free" /\ (nlink[i] > 0)
NamesOf(i) == {x \in Inums \X Names : type[x[1]] = "dir" /\ ents[x[1]][x[2]] = i}
Subdirs(i) == {d \in Inums \ {Root} : Live(d) /\ type[d] = "dir" /\ ents[d][".."] = i}
NlinkExact ==
  ~stray /\ (\A p \in Procs : call[p] = NoCall) =>
    \A i \in Inums : type[i] # "free" =>
      nlink[i] = Cardinality(NamesOf(i)) + Cardinality(Subdirs(i)) + (IF i = Root THEN 1 ELSE 0)

(* iput frees an inode when its references and links have fallen to zero
   (fs.c:118-120), unless two processes were in iput of it at the same time: each may
   find the other's reference and leave it. *)
OrphansNeedARace ==
  \A i \in Inums : type[i] # "free" /\ nlink[i] = 0 /\ ref[i] = 0 => i \in raced

(* Locks are taken from a directory to what is in it, never back (fs.c:149-150), but for
   iput: it locks the inode to test it (fs.c:334), and create and unlink put the directory
   while they keep the new or removed inode locked (sysfile.c:225, 280).  So processes
   wait for each other, or one for itself, only if one of them is in iput with a lock. *)
WaitsFor(p) == IF Wanted(p) = None THEN NoProc ELSE lock[Wanted(p)]
InIputWithLock(p) ==
  call[p].put # None /\ ~call[p].tested /\ \E i \in Inums : lock[i] = p
CirclesAreIputs ==
  \A p \in Procs :
    LET q == WaitsFor(p)
    IN  q # NoProc => (WaitsFor(q) = p => InIputWithLock(p) \/ InIputWithLock(q))

(* Inodes are consistent at every step: types, exact reference counts, and no name of
   a freed inode. *)
InodeInvariant == InodeTypeOK /\ RefExact /\ NamesLive
=============================================================================
