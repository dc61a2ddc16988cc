-------------------------------- MODULE Wfs --------------------------------
(***************************************************************************)
(* The p6 file system (wfs.c).  In RAID 1 mode every call is made on each  *)
(* disk in turn; in RAID 0 mode it is made once, from disk 0, it changes   *)
(* the metadata of all disks and spreads the data blocks over them.  FUSE  *)
(* runs it with one thread, so a call is one step; what a step may leave   *)
(* half done is a call that fails on a disk.                               *)
(*                                                                         *)
(* A disk holds the two bitmaps, the inodes, and data blocks that are used *)
(* for file data (one value per block), directory entries or pointers; the *)
(* pointers of an inode and of its indirect block are one function.        *)
(***************************************************************************)
EXTENDS Naturals, SequencesExt, FiniteSetsExt

CONSTANTS
  NDisks,
  NumInodes, NumBlocks,  \* sb.num_inodes, sb.num_data_blocks
  InodeShift,            \* twice i_blocks_ptr / BLOCK_SIZE
  NDirect, NIndirect,    \* D_BLOCK + 1, BLOCK_SIZE / sizeof(off_t)
  NSlots,                \* BLOCK_SIZE / sizeof(struct wfs_dentry)
  Names, Values,
  Hole,                  \* the contents of a block that was never allocated
  MaxLength              \* blocks in one write

ASSUME WfsSizes ==
  /\ NDisks \in Nat \ {0, 1} /\ NumInodes \in Nat \ {0} /\ NumBlocks \in Nat
  /\ InodeShift \in Nat \ {0} /\ NDirect \in Nat \ {0} /\ NIndirect \in Nat
  /\ NSlots \in Nat \ {0} /\ MaxLength \in Nat

Disks == 0 .. NDisks - 1
Inodes == 0 .. NumInodes - 1
Blocks == 1 .. NumBlocks
PtrIndex == 0 .. NDirect + NIndirect - 1
Slots == 0 .. NSlots - 1
Paths == {<<x>> : x \in Names} \cup {<<x, y>> : x, y \in Names}

VARIABLES raid,     \* the mode in the superblocks
          disk,     \* the disk images
          damaged,  \* metadata that is in use was overwritten
          dead      \* the daemon was killed by a signal

vars == <<raid, disk, damaged, dead>>

\* Nothing is said of what the daemon does with damaged metadata.
Up == ~damaged /\ ~dead

NoInode == [kind |-> "none", size |-> 0, ptr |-> [k \in PtrIndex |-> 0], ind |-> 0]
NoName == [name |-> "none", num |-> 0]
ZeroBlock == [cell |-> Hole, dent |-> [s \in Slots |-> NoName]]
EmptyDisk ==
  [ibits |-> {0}, dbits |-> {},
   inode |-> [n \in Inodes |-> IF n = 0 THEN [NoInode EXCEPT !.kind = "dir"] ELSE NoInode],
   data |-> [b \in Blocks |-> ZeroBlock]]

Init ==
  /\ raid \in {0, 1}
  /\ disk = [d \in Disks |-> EmptyDisk]
  /\ damaged = FALSE /\ dead = FALSE

-----------------------------------------------------------------------------
(* A call is made from a disk h; arr is the array of the disk images.       *)

\* The disks whose metadata a call made from disk h changes, and the disk of a
\* file's block k.
Mirrors(h) == IF raid = 0 THEN Disks ELSE {h}
Home(h, k) == IF raid = 0 THEN k % NDisks ELSE h

\* The places of the directory with inode n, in the order they are searched.
Places(arr, h, n) == (0 .. arr[h].inode[n].size - 1) \X Slots
Dentry(arr, h, n, at) == arr[Home(h, at[1])].data[arr[h].inode[n].ptr[at[1]]].dent[at[2]]
First(S) == CHOOSE a \in S : \A b \in S : a[1] < b[1] \/ (a[1] = b[1] /\ a[2] <= b[2])

Missing == NumInodes  \* ENOENT

\* find_inode, for one component.
Child(arr, h, n, x) ==
  IF n = Missing \/ arr[h].inode[n].kind # "dir" THEN Missing
  ELSE LET S == {at \in Places(arr, h, n) :
                   Dentry(arr, h, n, at).num # 0 /\ Dentry(arr, h, n, at).name = x}
       IN  IF S = {} THEN Missing ELSE Dentry(arr, h, n, First(S)).num

Find(arr, h, p) ==
  IF p = <<>> THEN 0
  ELSE IF Len(p) = 1 THEN Child(arr, h, 0, p[1])
  ELSE Child(arr, h, Child(arr, h, 0, p[1]), p[2])

-----------------------------------------------------------------------------
(* What the calls do.  A result is the new array, whether the call           *)
(* succeeded, and whether it damaged metadata.                               *)

Result(arr, ok, bad) == [arr |-> arr, ok |-> ok, bad |-> bad]

\* allocate_block takes the first free bit.
FreeInodes(dk) == Inodes \ dk.ibits
FreeBlocks(dk) == Blocks \ dk.dbits

\* The indirect block of an inode, one for every copy of the inode.  Without a
\* block for it, the superblock is taken for the block of pointers.
IndirectFor(arr, h, n) ==
  LET full == \E d \in Mirrors(h) : FreeBlocks(arr[d]) = {}
  IN  IF arr[h].inode[n].ind # 0 THEN Result(arr, TRUE, FALSE)
      ELSE IF full THEN Result(arr, FALSE, TRUE)
      ELSE Result([d \in Disks |->
             IF d \in Mirrors(h)
             THEN [arr[d] EXCEPT !.dbits = @ \cup {Min(FreeBlocks(arr[d]))},
                                 !.inode[n].ind = Min(FreeBlocks(arr[d]))]
             ELSE arr[d]], TRUE, FALSE)

\* calculate_block_offset with alloc set, for block k of inode n.  Only the mirrors
\* check that they got a block: a stripe goes to the superblock instead.
BlockFor(arr, h, n, k) ==
  LET r == IF k >= NDirect THEN IndirectFor(arr, h, n) ELSE Result(arr, TRUE, FALSE)
      home == Home(h, k)
      new == Min(FreeBlocks(r.arr[home]))
  IN  IF ~r.ok \/ r.arr[h].inode[n].ptr[k] # 0 THEN r
      ELSE IF FreeBlocks(r.arr[home]) = {} THEN Result(r.arr, FALSE, raid = 0)
      ELSE Result([d \in Disks |->
             [r.arr[d] EXCEPT !.dbits = IF d = home THEN @ \cup {new} ELSE @,
                              !.inode[n].ptr[k] = IF d \in Mirrors(h) THEN new ELSE @]],
             TRUE, FALSE)

SetSize(arr, h, n, size) ==
  [d \in Disks |-> IF d \in Mirrors(h) THEN [arr[d] EXCEPT !.inode[n].size = size] ELSE arr[d]]

\* add_directory_entry: the first hole, or a new block of entries.
AddEntry(arr, h, par, x, num) ==
  LET holes == {at \in Places(arr, h, par) : Dentry(arr, h, par, at).num = 0}
      end == arr[h].inode[par].size
      Put(a, at) == [a EXCEPT ![Home(h, at[1])].data[a[h].inode[par].ptr[at[1]]].dent[at[2]] =
                                [name |-> x, num |-> num]]
  IN  IF holes # {} THEN Result(Put(arr, First(holes)), TRUE, FALSE)
      ELSE IF end \notin PtrIndex THEN Result(arr, FALSE, FALSE)
      ELSE LET r == BlockFor(arr, h, par, end)
           IN  IF r.ok
               THEN Result(SetSize(Put(r.arr, <<end, 0>>), h, par, end + 1), TRUE, FALSE)
               ELSE r

\* wfs_mknod and wfs_mkdir.  The pointers of the inode are not reset, and the
\* inode stays allocated if there is no room for the entry.
MkNode(arr, h, p, kind) ==
  LET par == Find(arr, h, Front(p))
      num == Min(FreeInodes(arr[h]))
  IN  IF par = Missing \/ FreeInodes(arr[h]) = {} THEN Result(arr, FALSE, FALSE)
      ELSE AddEntry([d \in Disks |->
                       IF d \in Mirrors(h)
                       THEN [arr[d] EXCEPT !.ibits = @ \cup {num}, !.inode[num].kind = kind,
                                           !.inode[num].size = 0]
                       ELSE arr[d]],
                    h, par, Last(p), num)

\* wfs_write, block by block; the size grows at the end.
WriteBlock(r, h, n, k, v) ==
  IF ~r.ok THEN r
  ELSE LET b == IF k \in PtrIndex THEN BlockFor(r.arr, h, n, k) ELSE Result(r.arr, FALSE, FALSE)
       IN  IF b.ok
           THEN [b EXCEPT !.arr[Home(h, k)].data[b.arr[h].inode[n].ptr[k]].cell = v]
           ELSE b

WriteBlocks(arr, h, n, off, len, v) ==
  FoldLeft(LAMBDA acc, i : WriteBlock(acc, h, n, off + i - 1, v),
           Result(arr, TRUE, FALSE), [i \in 1 .. len |-> i])

\* Mutant: the file grows although the write fails.
WriteFileGrows(arr, h, p, off, len, v) ==
  LET n == Find(arr, h, p)
      r == WriteBlocks(arr, h, n, off, len, v)
  IN  IF n = Missing THEN Result(arr, FALSE, FALSE)
      ELSE IF off + len > r.arr[h].inode[n].size
           THEN [r EXCEPT !.arr = SetSize(@, h, n, Min({off + len, NDirect + NIndirect}))]
           ELSE r

WriteFile(arr, h, p, off, len, v) ==
  LET n == Find(arr, h, p)
      r == WriteBlocks(arr, h, n, off, len, v)
  IN  IF n = Missing THEN Result(arr, FALSE, FALSE)
      ELSE IF r.ok /\ off + len > r.arr[h].inode[n].size
           THEN [r EXCEPT !.arr = SetSize(@, h, n, off + len)]
           ELSE r

\* Mutant: the indirect block is not freed.
BlocksOfDirect(arr, h, n, d) == {arr[h].inode[n].ptr[k] : k \in {j \in PtrIndex : Home(h, j) = d}} \ {0}

\* The blocks wfs_unlink, called from disk h, frees on disk d.  With striping and an
\* indirect block it frees others: see UnlinkNode.
BlocksOf(arr, h, n, d) ==
  LET blocks == {k \in PtrIndex : Home(h, k) = d}
  IN  ({arr[h].inode[n].ptr[k] : k \in blocks}
       \cup (IF d = h THEN {arr[h].inode[n].ind} ELSE {})) \ {0}

Toggle(S, x) == IF x \in S THEN S \ {x} ELSE S \cup {x}

\* The inode numbers that names stand for.
Named(arr, h) ==
  UNION {{Dentry(arr, h, n, at).num : at \in Places(arr, h, n)} :
           n \in {m \in Inodes : arr[h].inode[m].kind = "dir"}} \ {0}

\* free_inode clears inode n and flips a bit that is not its own; bits beyond the
\* inode bitmap belong to the data bitmap.
FreeInode(arr, h, n) ==
  LET pos == n + InodeShift
      cleared == [d \in Disks |-> IF d \in Mirrors(h) THEN [arr[d] EXCEPT !.inode[n] = NoInode]
                                  ELSE arr[d]]
      flipped == [d \in Disks |->
        IF d \notin Mirrors(h) THEN arr[d]
        ELSE IF pos \in Inodes THEN [cleared[d] EXCEPT !.ibits = Toggle(@, pos)]
        ELSE [cleared[d] EXCEPT !.dbits = Toggle(@, pos - NumInodes + 1)]]
  IN  Result(flipped, TRUE, pos \notin Inodes \/ pos \in Named(cleared, h))

\* wfs_unlink: the blocks, the directory entry, the inode.  With striping the blocks
\* of an indirect block are all freed on disk 0, and the indirect blocks of the
\* other disks are not freed: the bitmaps are wrong from then on.
UnlinkNode(arr, h, p) ==
  LET par == Find(arr, h, Front(p))
      n == Find(arr, h, p)
      at == First({e \in Places(arr, h, par) : Dentry(arr, h, par, e).num = n})
      freed == [d \in Disks |-> IF d \in Mirrors(h) THEN BlocksOf(arr, h, n, d) ELSE {}]
      arr1 == [d \in Disks |->
        [arr[d] EXCEPT !.dbits = SymDiff(@, freed[d]),
                       !.data = [b \in Blocks |-> IF b \in freed[d] THEN ZeroBlock ELSE @[b]]]]
      arr2 == [arr1 EXCEPT ![Home(h, at[1])].data[arr[h].inode[par].ptr[at[1]]].dent[at[2]] = NoName]
      r == FreeInode(arr2, h, n)
  IN  IF n = Missing THEN Result(arr, FALSE, FALSE)
      ELSE [r EXCEPT !.bad = @ \/ (raid = 0 /\ arr[h].inode[n].ind # 0)]

-----------------------------------------------------------------------------
(* The calls.  The kernel looks the path up with getattr, which asks disk 0, *)
(* before it makes one.                                                      *)

KindAt(p) == LET n == Find(disk, 0, p)
             IN  IF n = Missing THEN "none" ELSE disk[0].inode[n].kind

\* The disks a call is made from, and the one whose call changes disk d.
Callers == IF raid = 0 THEN {0} ELSE Disks
CallerOf(d) == IF raid = 0 THEN 0 ELSE d

\* WFS_MKNOD, WFS_MKDIR and WFS_UNLINK stop at the first disk that fails; results
\* are what the call does from each disk.
Reached(results) == {h \in Callers : \A e \in 0 .. h - 1 : results[e].ok /\ ~results[e].bad}

UntilFailure(results) ==
  /\ disk' = [d \in Disks |-> IF CallerOf(d) \in Reached(results)
                              THEN results[CallerOf(d)].arr[d] ELSE disk[d]]
  /\ damaged' = \E h \in Reached(results) : results[h].bad
  /\ UNCHANGED <<raid, dead>>

\* WFS_WRITE goes on.
OnEach(results) ==
  /\ disk' = [d \in Disks |-> results[CallerOf(d)].arr[d]]
  /\ damaged' = \E h \in Callers : results[h].bad
  /\ UNCHANGED <<raid, dead>>

Create(p, kind) ==
  /\ Up /\ KindAt(p) = "none" /\ KindAt(Front(p)) = "dir"
  /\ UntilFailure([h \in Callers |-> MkNode(disk, h, p, kind)])

Write(p, off, len, v) ==
  /\ Up /\ KindAt(p) = "file"
  /\ OnEach([h \in Callers |-> WriteFile(disk, h, p, off, len, v)])

\* rmdir is unlink; directories are presumed to be empty.
Unlink(p) ==
  /\ Up /\ KindAt(p) # "none"
  /\ \A x \in Names : KindAt(<<p[1], x>>) = "none" \/ Len(p) = 2
  /\ UntilFailure([h \in Callers |-> UnlinkNode(disk, h, p)])

\* wfs_read changes nothing, but on mirrors a block that was never written has no
\* address; on stripes the superblock is read in its place.
ReadHole(p, k) ==
  /\ Up /\ KindAt(p) = "file" /\ raid # 0
  /\ k < disk[0].inode[Find(disk, 0, p)].size
  /\ disk[0].inode[Find(disk, 0, p)].ptr[k] = 0
  /\ dead' = TRUE
  /\ UNCHANGED <<raid, disk, damaged>>

\* The images are mapped shared: what the calls stored is there when the file
\* system is mounted again.
Mount == dead /\ dead' = FALSE /\ UNCHANGED <<raid, disk, damaged>>

Next ==
  \/ \E p \in Paths :
       \/ \E kind \in {"file", "dir"} : Create(p, kind)
       \/ \E off \in PtrIndex, len \in 1 .. MaxLength, v \in Values : Write(p, off, len, v)
       \/ Unlink(p)
       \/ \E k \in PtrIndex : ReadHole(p, k)
  \/ Mount

Spec == Init /\ [][Next]_vars
=============================================================================
