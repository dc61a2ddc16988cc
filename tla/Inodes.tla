------------------------------- MODULE Inodes -------------------------------
(***************************************************************************)
(* xv6 inodes, directories and path names (fs.c) under the file-system     *)
(* calls (sysfile.c) of concurrent processes.                              *)
(*                                                                         *)
(* A step is what a process does under the sleep-lock of one inode, from   *)
(* ilock to iunlock; a lock kept across steps, while its holder waits for  *)
(* another, is in "lock".  iput is two steps: the test under the inode's   *)
(* lock, and the decrement.  Every call is inside one transaction.  Cached *)
(* inodes are written through, so there is one copy of them here; contents *)
(* of files are left out.                                                  *)
(***************************************************************************)
EXTENDS Naturals, Sequences, FiniteSetsExt

CONSTANTS
  Procs, NoProc,
  NINODES,   \* inodes of the disk; inode 1 is the root
  Names,     \* names other than "." and ".."
  Calls      \* what each process may call: records of an op, a path, and for link another

Inums == 1 .. NINODES
Root == 1
None == 0

\* A path as skipelem takes it apart.
Paths == [abs : BOOLEAN, names : Seq(Names \cup {".", ".."})]

ASSUME InodeSizes ==
  /\ NINODES \in Nat \ {0} /\ IsFiniteSet(Procs) /\ NoProc \notin Procs
  /\ IsFiniteSet(Names) /\ Names \cap {".", ".."} = {}
ASSUME CallsAreCalls ==
  /\ DOMAIN Calls = Procs
  /\ \A p \in Procs : Calls[p] \subseteq
       [op : {"open", "chdir", "create", "mkdir", "unlink", "link"}, path : Paths, to : Paths]

VARIABLES
  type, nlink,   \* struct dinode
  ents,          \* the entries of each directory, ".." among them
  ref,           \* references to the cached inode
  lock,          \* who keeps its sleep-lock from step to step
  cwd, fd,       \* of each process: its directory and its one open file
  call,          \* the call each process is in
  panicked,
  \* History, read by no guard:
  stray,         \* a call went through, or put something into, a removed directory
  raced          \* inodes that two processes were in iput of at the same time

vars == <<type, nlink, ents, ref, lock, cwd, fd, call, panicked, stray, raced>>
inodeVars == <<type, nlink, ents>>

(* at: the inode the walk has come to; ip: the other inode of the call; put: the one in
   iput, after which the call goes on at "then".  Each of the three is a reference. *)
NoCall == [op |-> "none", then |-> "user", at |-> None, ip |-> None, put |-> None,
           tested |-> FALSE, path |-> <<>>, to |-> [abs |-> FALSE, names |-> <<>>]]

NoEntries == [n \in Names \cup {".."} |-> None]
Init ==
  /\ type = [i \in Inums |-> IF i = Root THEN "dir" ELSE "free"]
  /\ nlink = [i \in Inums |-> IF i = Root THEN 1 ELSE 0]
  /\ ents = [i \in Inums |-> IF i = Root THEN [NoEntries EXCEPT ![".."] = Root] ELSE NoEntries]
  /\ ref = [i \in Inums |-> IF i = Root THEN Cardinality(Procs) ELSE 0]
  /\ lock = [i \in Inums |-> NoProc]
  /\ cwd = [p \in Procs |-> Root]
  /\ fd = [p \in Procs |-> None]
  /\ call = [p \in Procs |-> NoCall]
  /\ panicked = "no"
  /\ stray = FALSE
  /\ raced = {}

-----------------------------------------------------------------------------
Running == panicked = "no"
At(p, stage) == Running /\ call[p].then = stage /\ call[p].put = None

\* ilock: the inode is locked, and its type was read from the disk.
Ilock(i) == lock[i] = NoProc /\ type[i] # "free"

Lookup(d, n) == IF n = "." THEN d ELSE ents[d][n]
IsEmpty(d) == \A n \in Names : ents[d][n] = None

\* The call goes on at "stage" after an iput of i.
Put(c, i, stage) == [c EXCEPT !.put = i, !.tested = FALSE, !.then = stage]
PutAt(c, stage) == [Put(c, c.at, stage) EXCEPT !.at = None]

\* Mutant: a failing call forgets the inode it holds.
PutIpForgotten(c, stage) == [c EXCEPT !.ip = None, !.then = stage]
PutIp(c, stage) == [Put(c, c.ip, stage) EXCEPT !.ip = None]

\* Where a call goes on when one of its path names leads nowhere.
FailStage(c) == IF c.op = "link2" THEN "link_bad" ELSE "end"
WantsParent(c) == c.op \in {"create", "mkdir", "unlink", "link2"}

\* A call that uses directory d.
Notes(d) == stray' = (stray \/ nlink[d] = 0)

-----------------------------------------------------------------------------
(* iput                                                                     *)

Putting(p, tested) == Running /\ call[p].put # None /\ call[p].tested = tested

\* Mutant: the references are not looked at.
DropsLinks(i) == nlink[i] = 0

\* Mutant: iput waits for a count that only its own decrement makes.
DropsTooLate(i) == nlink[i] = 0 /\ ref[i] = 0

\* No links and no other references.
Drops(i) == nlink[i] = 0 /\ ref[i] = 1

\* Under the inode's lock: it is freed, or not.
PutTest(p) ==
  /\ Putting(p, FALSE)
  /\ LET i == call[p].put
     IN  /\ lock[i] = NoProc
         /\ IF Drops(i)
            THEN type' = [type EXCEPT ![i] = "free"] /\ ents' = [ents EXCEPT ![i] = NoEntries]
            ELSE UNCHANGED <<type, ents>>
         /\ raced' = IF \E q \in Procs \ {p} : call[q].put = i /\ call[q].tested
                     THEN raced \cup {i} ELSE raced
  /\ call' = [call EXCEPT ![p].tested = TRUE]
  /\ UNCHANGED <<nlink, ref, lock, cwd, fd, panicked, stray>>

\* Then, under icache.lock, the reference goes.
PutDrop(p) ==
  /\ Putting(p, TRUE)
  /\ ref' = [ref EXCEPT ![call[p].put] = @ - 1]
  /\ call' = [call EXCEPT ![p] =
       CASE @.then = "end" -> NoCall
         [] @.then = "put_ip" -> PutIp(@, "end")
         [] OTHER -> [@ EXCEPT !.put = None]]
  /\ UNCHANGED <<type, nlink, ents, lock, cwd, fd, panicked, stray, raced>>

-----------------------------------------------------------------------------
(* namex                                                                    *)

Start(p, path) == IF path.abs THEN Root ELSE cwd[p]

\* begin_op, and the first inode of the path.
Begin(p, c) ==
  /\ Running /\ call[p] = NoCall
  /\ call' = [call EXCEPT ![p] = [NoCall EXCEPT !.op = c.op, !.then = "walk",
                !.at = Start(p, c.path), !.path = c.path.names, !.to = c.to]]
  /\ ref' = [ref EXCEPT ![Start(p, c.path)] = @ + 1]
  /\ UNCHANGED <<inodeVars, lock, cwd, fd, panicked, stray, raced>>

\* One element of the path: not a directory, or no such name, fails; nameiparent stops
\* one level early; else the next inode is referenced before this one is put.
Walk(p) ==
  /\ At(p, "walk") /\ Ilock(call[p].at) /\ call[p].path # <<>>
  /\ LET c == call[p]
         next == IF type[c.at] = "dir" THEN Lookup(c.at, Head(c.path)) ELSE None
     IN  IF type[c.at] # "dir" \/ (next = None /\ ~(WantsParent(c) /\ Len(c.path) = 1))
         THEN call' = [call EXCEPT ![p] = PutAt(c, FailStage(c))] /\ ref' = ref
         ELSE IF WantsParent(c) /\ Len(c.path) = 1
         THEN call' = [call EXCEPT ![p].then = "there"] /\ ref' = ref
         ELSE /\ call' = [call EXCEPT ![p] =
                   [Put(c, c.at, "walk") EXCEPT !.at = next, !.path = Tail(c.path)]]
              /\ ref' = [ref EXCEPT ![next] = @ + 1]
  /\ Notes(call[p].at)
  /\ UNCHANGED <<inodeVars, lock, cwd, fd, panicked, raced>>

\* A path without elements has no last one: its first inode is put.
NoParent(p) ==
  /\ At(p, "walk") /\ WantsParent(call[p]) /\ call[p].path = <<>>
  /\ call' = [call EXCEPT ![p] = PutAt(@, FailStage(@))]
  /\ UNCHANGED <<inodeVars, ref, lock, cwd, fd, panicked, stray, raced>>

\* ilock of an inode that the disk says is free: "ilock: no type".
Wanted(p) ==
  CASE call[p].put # None /\ ~call[p].tested -> call[p].put
    [] call[p].put # None /\ call[p].tested -> None
    [] call[p].put = None /\ call[p].then \in {"walk", "there"} -> call[p].at
    [] call[p].put = None /\ call[p].then \in {"found", "unlink2", "link_bad"} -> call[p].ip
    [] OTHER -> None
NoTypePanic(p) ==
  /\ Running /\ call[p].put = None /\ Wanted(p) # None
  /\ lock[Wanted(p)] = NoProc /\ type[Wanted(p)] = "free"
  /\ panicked' = "ilock: no type"
  /\ UNCHANGED <<inodeVars, ref, lock, cwd, fd, call, stray, raced>>

-----------------------------------------------------------------------------
(* open without O_CREATE, chdir, close                                      *)

\* namei has returned the inode the path leads to.
Arrived(p, op) == At(p, "walk") /\ call[p].op = op /\ call[p].path = <<>> /\ Ilock(call[p].at)

\* fdalloc, or, without a free descriptor, iunlockput.
Opens(p, c, i) ==
  IF fd[p] = None
  THEN fd' = [fd EXCEPT ![p] = i] /\ call' = [call EXCEPT ![p] = NoCall]
  ELSE fd' = fd /\ call' = [call EXCEPT ![p] = [Put(c, i, "end") EXCEPT !.at = None, !.ip = None]]

Open(p) ==
  /\ Arrived(p, "open")
  /\ Opens(p, call[p], call[p].at)
  /\ UNCHANGED <<inodeVars, ref, lock, cwd, panicked, stray, raced>>

Chdir(p) ==
  /\ Arrived(p, "chdir")
  /\ IF type[call[p].at] # "dir"
     THEN call' = [call EXCEPT ![p] = PutAt(@, "end")] /\ cwd' = cwd
     ELSE /\ call' = [call EXCEPT ![p] = [Put(@, cwd[p], "end") EXCEPT !.at = None]]
          /\ cwd' = [cwd EXCEPT ![p] = call[p].at]
  /\ UNCHANGED <<inodeVars, ref, lock, fd, panicked, stray, raced>>

Close(p) ==
  /\ Running /\ call[p] = NoCall /\ fd[p] # None
  /\ call' = [call EXCEPT ![p] = [Put(NoCall, fd[p], "end") EXCEPT !.op = "close"]]
  /\ fd' = [fd EXCEPT ![p] = None]
  /\ UNCHANGED <<inodeVars, ref, lock, cwd, panicked, stray, raced>>

-----------------------------------------------------------------------------
(* create, for open with O_CREATE and for mkdir                             *)

InParent(p, ops) == At(p, "there") /\ call[p].op \in ops /\ Ilock(call[p].at)
Name(p) == Head(call[p].path)

\* The name exists: its inode is locked once the directory is put.
CreateFinds(p) ==
  /\ InParent(p, {"create", "mkdir"})
  /\ LET i == Lookup(call[p].at, Name(p))
     IN  /\ i # None
         /\ ref' = [ref EXCEPT ![i] = @ + 1]
         /\ call' = [call EXCEPT ![p] = [PutAt(@, "found") EXCEPT !.ip = i]]
  /\ Notes(call[p].at)
  /\ UNCHANGED <<inodeVars, lock, cwd, fd, panicked, raced>>

Found(p) ==
  /\ At(p, "found") /\ Ilock(call[p].ip)
  /\ IF call[p].op = "create" /\ type[call[p].ip] = "file"
     THEN Opens(p, call[p], call[p].ip)
     ELSE call' = [call EXCEPT ![p] = PutIp(@, "end")] /\ fd' = fd
  /\ UNCHANGED <<inodeVars, ref, lock, cwd, panicked, stray, raced>>

Free == {i \in Inums : type[i] = "free"}

\* Mutant: mkdir does not count the new directory's "..".
LinksMadeUncounted(i, d, isDir) == [nlink EXCEPT ![i] = 1]
LinksMade(i, d, isDir) == [nlink EXCEPT ![i] = 1, ![d] = IF isDir THEN @ + 1 ELSE @]

\* It does not: ialloc, "." and "..", the entry.  The directory is put with the new
\* inode still locked.
CreateMakes(p) ==
  /\ InParent(p, {"create", "mkdir"}) /\ Lookup(call[p].at, Name(p)) = None /\ Free # {}
  /\ LET i == Min(Free)
         d == call[p].at
         isDir == call[p].op = "mkdir"
     IN  /\ lock[i] = NoProc
         /\ type' = [type EXCEPT ![i] = IF isDir THEN "dir" ELSE "file"]
         /\ nlink' = LinksMade(i, d, isDir)
         /\ ents' = [ents EXCEPT ![d][Name(p)] = i, ![i][".."] = IF isDir THEN d ELSE None]
         /\ ref' = [ref EXCEPT ![i] = @ + 1]
         /\ lock' = [lock EXCEPT ![i] = p]
         /\ call' = [call EXCEPT ![p] = [PutAt(@, "made") EXCEPT !.ip = i]]
         /\ raced' = raced \ {i}
  /\ Notes(call[p].at)
  /\ UNCHANGED <<cwd, fd, panicked>>

\* "ialloc: no inodes"
CreatePanics(p) ==
  /\ InParent(p, {"create", "mkdir"}) /\ Lookup(call[p].at, Name(p)) = None /\ Free = {}
  /\ panicked' = "ialloc: no inodes"
  /\ UNCHANGED <<inodeVars, ref, lock, cwd, fd, call, stray, raced>>

Made(p) ==
  /\ At(p, "made")
  /\ lock' = [lock EXCEPT ![call[p].ip] = NoProc]
  /\ IF call[p].op = "create"
     THEN Opens(p, call[p], call[p].ip)
     ELSE call' = [call EXCEPT ![p] = PutIp(@, "end")] /\ fd' = fd
  /\ UNCHANGED <<inodeVars, ref, cwd, panicked, stray, raced>>

-----------------------------------------------------------------------------
(* unlink                                                                   *)

\* Mutant: "." and ".." are not refused.
UnlinkDots(p) ==
  /\ InParent(p, {"unlink"})
  /\ LET d == call[p].at
         i == Lookup(d, Name(p))
     IN  IF i = None
         THEN call' = [call EXCEPT ![p] = PutAt(@, "end")] /\ UNCHANGED <<ref, lock>>
         ELSE /\ call' = [call EXCEPT ![p].then = "unlink2", ![p].ip = i]
              /\ ref' = [ref EXCEPT ![i] = @ + 1]
              /\ lock' = [lock EXCEPT ![d] = p]
  /\ Notes(call[p].at)
  /\ UNCHANGED <<inodeVars, cwd, fd, panicked, raced>>

\* The directory stays locked while the inode is waited for.
Unlink(p) ==
  /\ InParent(p, {"unlink"})
  /\ LET d == call[p].at
         i == IF Name(p) \in {".", ".."} THEN None ELSE Lookup(d, Name(p))
     IN  IF i = None
         THEN call' = [call EXCEPT ![p] = PutAt(@, "end")] /\ UNCHANGED <<ref, lock>>
         ELSE /\ call' = [call EXCEPT ![p].then = "unlink2", ![p].ip = i]
              /\ ref' = [ref EXCEPT ![i] = @ + 1]
              /\ lock' = [lock EXCEPT ![d] = p]
  /\ Notes(call[p].at)
  /\ UNCHANGED <<inodeVars, cwd, fd, panicked, raced>>

Keeps(i) == type[i] = "dir" /\ ~IsEmpty(i)

\* A count below one panics; a directory with names in it stays.
UnlinkRefuses(p) ==
  /\ At(p, "unlink2") /\ Ilock(call[p].ip) /\ (nlink[call[p].ip] < 1 \/ Keeps(call[p].ip))
  /\ IF nlink[call[p].ip] < 1
     THEN panicked' = "unlink: nlink < 1" /\ call' = call
     ELSE panicked' = panicked /\ call' = [call EXCEPT ![p] = PutIp(@, "unlink_bad")]
  /\ UNCHANGED <<inodeVars, ref, lock, cwd, fd, stray, raced>>

UnlinkBad(p) ==
  /\ At(p, "unlink_bad")
  /\ lock' = [lock EXCEPT ![call[p].at] = NoProc]
  /\ call' = [call EXCEPT ![p] = PutAt(@, "end")]
  /\ UNCHANGED <<inodeVars, ref, cwd, fd, panicked, stray, raced>>

\* The entry goes; the directory is put with the inode still locked.
UnlinkErases(p) ==
  /\ At(p, "unlink2") /\ Ilock(call[p].ip) /\ nlink[call[p].ip] >= 1 /\ ~Keeps(call[p].ip)
  /\ LET d == call[p].at
         i == call[p].ip
     IN  /\ ents' = [ents EXCEPT ![d][Name(p)] = None]
         /\ nlink' = [nlink EXCEPT ![d] = IF type[i] = "dir" THEN @ - 1 ELSE @]
         /\ lock' = [lock EXCEPT ![d] = NoProc, ![i] = p]
         /\ call' = [call EXCEPT ![p] = PutAt(@, "unlink3")]
  /\ UNCHANGED <<type, ref, cwd, fd, panicked, stray, raced>>

UnlinkCounts(p) ==
  /\ At(p, "unlink3")
  /\ nlink' = [nlink EXCEPT ![call[p].ip] = @ - 1]
  /\ lock' = [lock EXCEPT ![call[p].ip] = NoProc]
  /\ call' = [call EXCEPT ![p] = PutIp(@, "end")]
  /\ UNCHANGED <<type, ents, ref, cwd, fd, panicked, stray, raced>>

-----------------------------------------------------------------------------
(* link                                                                     *)

\* The link is counted before the new name is looked for.
Link(p) ==
  /\ Arrived(p, "link")
  /\ LET c == call[p]
         d == Start(p, c.to)
     IN  IF type[c.at] = "dir"
         THEN call' = [call EXCEPT ![p] = PutAt(c, "end")] /\ UNCHANGED <<nlink, ref>>
         ELSE /\ nlink' = [nlink EXCEPT ![c.at] = @ + 1]
              /\ ref' = [ref EXCEPT ![d] = @ + 1]
              /\ call' = [call EXCEPT ![p] = [c EXCEPT !.op = "link2", !.ip = c.at, !.at = d,
                                                       !.path = c.to.names]]
  /\ UNCHANGED <<type, ents, lock, cwd, fd, panicked, stray, raced>>

\* dirlink: an inode that has the name already is put with the directory locked.
LinkExists(p) ==
  /\ InParent(p, {"link2"})
  /\ LET d == call[p].at
         x == Lookup(d, Name(p))
     IN  /\ x # None
         /\ ref' = [ref EXCEPT ![x] = @ + 1]
         /\ lock' = [lock EXCEPT ![d] = p]
         /\ call' = [call EXCEPT ![p] = Put(@, x, "link_exists")]
  /\ Notes(call[p].at)
  /\ UNCHANGED <<inodeVars, cwd, fd, panicked, raced>>

LinkUnlocks(p) ==
  /\ At(p, "link_exists")
  /\ lock' = [lock EXCEPT ![call[p].at] = NoProc]
  /\ call' = [call EXCEPT ![p] = PutAt(@, "link_bad")]
  /\ UNCHANGED <<inodeVars, ref, cwd, fd, panicked, stray, raced>>

LinkEnters(p) ==
  /\ InParent(p, {"link2"}) /\ Lookup(call[p].at, Name(p)) = None
  /\ ents' = [ents EXCEPT ![call[p].at][Name(p)] = call[p].ip]
  /\ call' = [call EXCEPT ![p] = PutAt(@, "put_ip")]
  /\ Notes(call[p].at)
  /\ UNCHANGED <<type, nlink, ref, lock, cwd, fd, panicked, raced>>

\* Mutant: a link that fails is still counted.
LinkBadCounted(p) ==
  /\ At(p, "link_bad") /\ Ilock(call[p].ip)
  /\ call' = [call EXCEPT ![p] = PutIp(@, "end")]
  /\ UNCHANGED <<inodeVars, ref, lock, cwd, fd, panicked, stray, raced>>

LinkBad(p) ==
  /\ At(p, "link_bad") /\ Ilock(call[p].ip)
  /\ nlink' = [nlink EXCEPT ![call[p].ip] = @ - 1]
  /\ call' = [call EXCEPT ![p] = PutIp(@, "end")]
  /\ UNCHANGED <<type, ents, ref, lock, cwd, fd, panicked, stray, raced>>

-----------------------------------------------------------------------------
Iput(p) == PutTest(p) \/ PutDrop(p)
Create(p) == CreateFinds(p) \/ Found(p) \/ CreateMakes(p) \/ CreatePanics(p) \/ Made(p)
UnlinkCall(p) ==
  Unlink(p) \/ UnlinkRefuses(p) \/ UnlinkBad(p) \/ UnlinkErases(p) \/ UnlinkCounts(p)
LinkCall(p) == Link(p) \/ LinkExists(p) \/ LinkUnlocks(p) \/ LinkEnters(p) \/ LinkBad(p)

Next ==
  \E p \in Procs :
    \/ Iput(p) \/ Walk(p) \/ NoParent(p) \/ NoTypePanic(p) \/ Open(p) \/ Chdir(p) \/ Close(p)
    \/ Create(p) \/ UnlinkCall(p) \/ LinkCall(p)
    \/ \E c \in Calls[p] : Begin(p, c)

Spec == Init /\ [][Next]_vars
=============================================================================
