-------------------------------- MODULE Pipe --------------------------------
(***************************************************************************)
(* A pipe of xv6 (pipe.c) and the sleep, wakeup and kill it relies on      *)
(* (proc.c), shared by processes on several CPUs.                          *)
(*                                                                         *)
(* p->lock is taken at the start of each step and given up at its end,     *)
(* except where a process has looked at `killed` and not yet gone to       *)
(* sleep: kill takes only ptable.lock and can run in between.  sleep       *)
(* itself is one step, because it releases p->lock with ptable.lock held.  *)
(***************************************************************************)
EXTENDS Naturals, Sequences, FiniteSetsExt

CONSTANTS
  Users,
  Bytes,
  PIPESIZE,
  CountRange,    \* nread and nwrite are uint: 2^32
  Junk,          \* what kfree left in the page: a byte like any other
  MaxWrite,      \* longest write and read
  MaxCalls,      \* reads and writes a behaviour may start
  MaxKills       \* processes it may kill

ASSUME PipeSizes ==
  /\ PIPESIZE \in Nat \ {0} /\ MaxWrite \in Nat /\ MaxCalls \in Nat /\ MaxKills \in Nat
  /\ Junk \in Bytes /\ "free" \notin Users
  /\ CountRange \in Nat /\ CountRange > PIPESIZE /\ CountRange % PIPESIZE = 0

VARIABLES
  data, nread, nwrite, readopen, writeopen,  \* struct pipe
  lock,      \* who holds p->lock between steps, or "free"
  freed,     \* the pipe's page was given to kfree
  ends,      \* per process, the ends it has open
  pc,        \* "user", "write", "wsleep", "read", "rsleep", "close"
  chan,      \* what a process sleeps on: "nread", "nwrite" or "awake"
  buf,       \* write: the bytes not yet copied
  want,      \* read: the length asked for
  result,    \* what the last successful read returned
  closing,   \* ends that fileclose has found unused
  killed,
  calls

pipeVars == <<data, nread, nwrite, readopen, writeopen, freed>>
procVars == <<ends, pc, chan, buf, want, result, closing, killed, calls>>
vars == <<pipeVars, lock, procVars>>

Idle(p) == pc[p] = "user" /\ chan[p] = "awake"
\* Mutant: p->lock is given up before the process is asleep.
CanLockIgnored == TRUE

CanLock == lock = "free"

\* wakeup(&p->nread) or wakeup(&p->nwrite), applied to chan.
Wakeup(ch, c) == [p \in Users |-> IF ch[p] = c THEN "awake" ELSE ch[p]]

-----------------------------------------------------------------------------
Init ==
  /\ data = [i \in 0 .. PIPESIZE - 1 |-> Junk]
  /\ nread = 0 /\ nwrite = 0 /\ readopen = TRUE /\ writeopen = TRUE
  /\ lock = "free" /\ freed = FALSE
  /\ ends \in [Users -> SUBSET {"read", "write"}]
  /\ UNION {ends[p] : p \in Users} = {"read", "write"}
  /\ pc = [p \in Users |-> "user"] /\ chan = [p \in Users |-> "awake"]
  /\ buf = [p \in Users |-> <<>>] /\ want = [p \in Users |-> 0]
  /\ result = [p \in Users |-> <<>>]
  /\ closing = {} /\ killed = {} /\ calls = 0

-----------------------------------------------------------------------------
(* write                                                                    *)

Write(p, bytes) ==
  /\ Idle(p) /\ "write" \in ends[p] /\ p \notin killed /\ calls < MaxCalls
  /\ pc' = [pc EXCEPT ![p] = "write"]
  /\ buf' = [buf EXCEPT ![p] = bytes]
  /\ calls' = calls + 1
  /\ UNCHANGED <<pipeVars, lock, ends, chan, want, result, closing, killed>>

Used == (nwrite + CountRange - nread) % CountRange
Full(nw) == nw = (nread + PIPESIZE) % CountRange

\* The loop copies until the pipe is full or everything is copied.
Copied(p) == Min({Len(buf[p]), PIPESIZE - Used})

\* Mutant: each call writes from the start of the buffer.
FilledFromStart(p, n) == [i \in DOMAIN data |-> IF i < n THEN buf[p][i + 1] ELSE data[i]]

Filled(p, n) ==
  [i \in DOMAIN data |->
     LET S == {k \in 1 .. n : (nwrite + k - 1) % PIPESIZE = i}
     IN  IF S = {} THEN data[i] ELSE buf[p][Max(S)]]

PutBytes(p) ==
  /\ data' = Filled(p, Copied(p))
  /\ nwrite' = (nwrite + Copied(p)) % CountRange

PipeWriteDone(p) ==
  /\ pc[p] = "write" /\ chan[p] = "awake" /\ CanLock
  /\ Copied(p) = Len(buf[p])
  /\ PutBytes(p)
  /\ chan' = Wakeup(chan, "nread")
  /\ pc' = [pc EXCEPT ![p] = "user"]
  /\ buf' = [buf EXCEPT ![p] = <<>>]
  /\ UNCHANGED <<nread, readopen, writeopen, freed, lock, ends, want, result, closing, killed, calls>>

\* Full: give up if nobody will read or the writer was killed (what it copied
\* stays, and no reader is woken for it), or prepare to sleep.
PipeWriteFull(p) ==
  /\ pc[p] = "write" /\ chan[p] = "awake" /\ CanLock
  /\ Copied(p) < Len(buf[p])
  /\ PutBytes(p)
  /\ \/ /\ ~readopen \/ p \in killed
        /\ pc' = [pc EXCEPT ![p] = "user"]
        /\ buf' = [buf EXCEPT ![p] = <<>>]
        /\ UNCHANGED <<lock, chan>>
     \/ /\ readopen /\ p \notin killed
        /\ lock' = p
        /\ chan' = Wakeup(chan, "nread")
        /\ pc' = [pc EXCEPT ![p] = "wsleep"]
        /\ buf' = [buf EXCEPT ![p] = SubSeq(@, Copied(p) + 1, Len(@))]
  /\ UNCHANGED <<nread, readopen, writeopen, freed, ends, want, result, closing, killed, calls>>

\* sleep(&p->nwrite, &p->lock); the loop goes on when woken.
WriterSleep(p) ==
  /\ pc[p] = "wsleep" /\ lock = p
  /\ lock' = "free"
  /\ chan' = [chan EXCEPT ![p] = "nwrite"]
  /\ pc' = [pc EXCEPT ![p] = "write"]
  /\ UNCHANGED <<pipeVars, ends, buf, want, result, closing, killed, calls>>

-----------------------------------------------------------------------------
(* read                                                                     *)

Read(p, n) ==
  /\ Idle(p) /\ "read" \in ends[p] /\ p \notin killed /\ calls < MaxCalls
  /\ pc' = [pc EXCEPT ![p] = "read"]
  /\ want' = [want EXCEPT ![p] = n]
  /\ calls' = calls + 1
  /\ UNCHANGED <<pipeVars, lock, ends, chan, buf, result, closing, killed>>

\* Mutant: does not look for writers.
MustWaitAlways == nread = nwrite

MustWaitForBytes == nread = nwrite /\ writeopen

PipeReadEmpty(p) ==
  /\ pc[p] = "read" /\ chan[p] = "awake" /\ CanLock
  /\ MustWaitForBytes
  /\ \/ p \in killed /\ pc' = [pc EXCEPT ![p] = "user"] /\ UNCHANGED lock
     \/ p \notin killed /\ pc' = [pc EXCEPT ![p] = "rsleep"] /\ lock' = p
  /\ UNCHANGED <<pipeVars, ends, chan, buf, want, result, closing, killed, calls>>

ReaderSleep(p) ==
  /\ pc[p] = "rsleep" /\ lock = p
  /\ lock' = "free"
  /\ chan' = [chan EXCEPT ![p] = "nread"]
  /\ pc' = [pc EXCEPT ![p] = "read"]
  /\ UNCHANGED <<pipeVars, ends, buf, want, result, closing, killed, calls>>

PipeRead(p) ==
  /\ pc[p] = "read" /\ chan[p] = "awake" /\ CanLock
  /\ ~MustWaitForBytes
  /\ LET n == Min({want[p], Used})
     IN  /\ result' = [result EXCEPT ![p] = [k \in 1 .. n |-> data[(nread + k - 1) % PIPESIZE]]]
         /\ nread' = (nread + n) % CountRange
  /\ chan' = Wakeup(chan, "nwrite")
  /\ pc' = [pc EXCEPT ![p] = "user"]
  /\ UNCHANGED <<data, nwrite, readopen, writeopen, freed, lock, ends, buf, want, closing, killed,
                 calls>>

-----------------------------------------------------------------------------
(* close: fileclose counts the open descriptions; the last one closes its   *)
(* end of the pipe after it has given up ftable.lock.                       *)

FileClose(p, e) ==
  /\ Idle(p) /\ e \in ends[p]
  /\ ends' = [ends EXCEPT ![p] = @ \ {e}]
  /\ closing' = IF \E q \in Users \ {p} : e \in ends[q] THEN closing ELSE closing \cup {<<p, e>>}
  /\ pc' = [pc EXCEPT ![p] = IF \E q \in Users \ {p} : e \in ends[q] THEN "user" ELSE "close"]
  /\ UNCHANGED <<pipeVars, lock, chan, buf, want, result, killed, calls>>

\* Mutant: the page is freed with the first end.
PipeCloseEither(p, e) ==
  /\ <<p, e>> \in closing /\ CanLock
  /\ closing' = closing \ {<<p, e>>}
  /\ pc' = [pc EXCEPT ![p] = "user"]
  /\ readopen' = (readopen /\ e # "read")
  /\ writeopen' = (writeopen /\ e # "write")
  /\ chan' = Wakeup(chan, IF e = "write" THEN "nread" ELSE "nwrite")
  /\ freed' = (freed \/ ~readopen' \/ ~writeopen')
  /\ UNCHANGED <<data, nread, nwrite, lock, ends, buf, want, result, killed, calls>>

PipeClose(p, e) ==
  /\ <<p, e>> \in closing /\ CanLock
  /\ closing' = closing \ {<<p, e>>}
  /\ pc' = [pc EXCEPT ![p] = "user"]
  /\ readopen' = (readopen /\ e # "read")
  /\ writeopen' = (writeopen /\ e # "write")
  /\ chan' = Wakeup(chan, IF e = "write" THEN "nread" ELSE "nwrite")
  /\ freed' = (freed \/ (~readopen' /\ ~writeopen'))
  /\ UNCHANGED <<data, nread, nwrite, lock, ends, buf, want, result, killed, calls>>

\* kill wakes a process that sleeps, on whatever channel.
Kill(p) ==
  /\ p \notin killed /\ Cardinality(killed) < MaxKills
  /\ killed' = killed \cup {p}
  /\ chan' = [chan EXCEPT ![p] = "awake"]
  /\ UNCHANGED <<pipeVars, lock, ends, pc, buf, want, result, closing, calls>>

-----------------------------------------------------------------------------
WriteStep(p) == PipeWriteDone(p) \/ PipeWriteFull(p) \/ WriterSleep(p)
ReadStep(p) == PipeReadEmpty(p) \/ ReaderSleep(p) \/ PipeRead(p)
CloseStep(p) == \E e \in {"read", "write"} : PipeClose(p, e)

Next ==
  \E p \in Users :
    \/ \E n \in 1 .. MaxWrite : Read(p, n) \/ \E bytes \in [1 .. n -> Bytes] : Write(p, bytes)
    \/ WriteStep(p) \/ ReadStep(p) \/ CloseStep(p)
    \/ \E e \in {"read", "write"} : FileClose(p, e)
    \/ Kill(p)

Spec == Init /\ [][Next]_vars

\* A process that is not asleep runs (the scheduler takes turns) and gets a lock
\* that stays free; a killed one exits on its way to user space, and exit closes
\* its files.
FairSpec ==
  /\ Spec
  /\ \A p \in Users :
       /\ WF_vars(WriteStep(p)) /\ WF_vars(ReadStep(p)) /\ WF_vars(CloseStep(p))
       /\ \A e \in {"read", "write"} : WF_vars(p \in killed /\ FileClose(p, e))
=============================================================================
