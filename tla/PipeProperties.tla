--------------------------- MODULE PipeProperties ---------------------------
(***************************************************************************)
(* What pipe.c is for, stated over Pipe.                                   *)
(***************************************************************************)
EXTENDS Pipe

\* Types; the counts stay within a pipe's length of each other.
PipeTypeOK ==
  /\ data \in [0 .. PIPESIZE - 1 -> Bytes]
  /\ {nread, nwrite} \subseteq 0 .. CountRange - 1 /\ Used \in 0 .. PIPESIZE
  /\ {readopen, writeopen, freed} \subseteq BOOLEAN
  /\ lock \in Users \cup {"free"}
  /\ ends \in [Users -> SUBSET {"read", "write"}]
  /\ pc \in [Users -> {"user", "write", "wsleep", "read", "rsleep", "close"}]
  /\ chan \in [Users -> {"awake", "nread", "nwrite"}]
  /\ buf \in [Users -> Seq(Bytes)] /\ result \in [Users -> Seq(Bytes)]
  /\ want \in [Users -> 0 .. MaxWrite]
  /\ closing \subseteq Users \X {"read", "write"}
  /\ killed \subseteq Users /\ calls \in 0 .. MaxCalls

\* The bytes in the pipe, in the order they will be read.
Contents == [k \in 1 .. Used |-> data[(nread + k - 1) % PIPESIZE]]

\* pipewrite, piperead and pipeclose implement a stream of bytes: nothing is
\* lost, repeated or reordered, through the wrapping of both counts, and a read
\* returns nothing only after the last writer closed and all was read.
Stream == INSTANCE ByteStream WITH
            Capacity <- PIPESIZE,
            stream <- Contents,
            received <- result,
            ended <- ~writeopen
ImplementsByteStream == Stream!BSSpec

\* A process sleeps in piperead only while the pipe is empty and can be written,
\* in pipewrite only while it is full and can be read: no wakeup was lost. The
\* exception is a writer killed half-way, which leaves bytes and wakes nobody.
NoLostWakeup ==
  \A p \in Users :
    /\ chan[p] = "nread" => writeopen /\ (nread = nwrite \/ killed # {})
    /\ chan[p] = "nwrite" => readopen /\ Full(nwrite)

\* readopen and writeopen tell whether somebody has that end open or is closing it as
\* the last one, and the page is freed with the second end.
EndOpen(e) == IF e = "read" THEN readopen ELSE writeopen
EndsCounted ==
  /\ \A e \in {"read", "write"} :
       EndOpen(e) <=> \E p \in Users : e \in ends[p] \/ <<p, e>> \in closing
  /\ \A e \in {"read", "write"}, p, q \in Users : <<p, e>> \in closing =>
       e \notin ends[q] /\ (<<q, e>> \in closing => p = q)
  /\ freed <=> ~readopen /\ ~writeopen

\* A call on an end is made by a process that has it open.
CallersKnown ==
  \A p \in Users :
    /\ pc[p] = "close" <=> <<p, "read">> \in closing \/ <<p, "write">> \in closing
    /\ ~(<<p, "read">> \in closing /\ <<p, "write">> \in closing)
    /\ pc[p] \in {"read", "rsleep"} => "read" \in ends[p] /\ want[p] # 0
    /\ pc[p] \in {"write", "wsleep"} => "write" \in ends[p]

\* p->lock is kept between two steps only on the way to sleep, and what the process
\* saw before stays true until it sleeps.
LockKnown ==
  \A p \in Users :
    /\ lock = p <=> pc[p] \in {"wsleep", "rsleep"}
    /\ pc[p] = "wsleep" => readopen /\ Full(nwrite)
    /\ pc[p] = "rsleep" => writeopen /\ nread = nwrite
    /\ chan[p] = "nread" => pc[p] = "read"
    /\ chan[p] = "nwrite" => pc[p] = "write"

\* The pipe's page is freed when nobody can use it, and only once.
FreedUnused ==
  freed => closing = {} /\ \A p \in Users : pc[p] = "user" /\ ends[p] = {}

\* Once its end of the pipe is the only one left, no call waits for ever: readers
\* get the end of the file, writers an error.
CallsReturn ==
  \A p \in Users :
    /\ (pc[p] \in {"read", "rsleep"} /\ ~writeopen) ~> pc[p] = "user"
    /\ (pc[p] \in {"write", "wsleep"} /\ ~readopen) ~> pc[p] = "user"

\* The pipe is consistent at every step: types, counts within a pipe's length of each
\* other, who has which end and the lock, and the page freed once and unused.
PipeInvariant == PipeTypeOK /\ EndsCounted /\ CallersKnown /\ LockKnown /\ FreedUnused
=============================================================================
