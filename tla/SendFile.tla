------------------------------ MODULE SendFile ------------------------------
(***************************************************************************)
(* Copying one STREAM to another (libUseful/Stream.c, STREAMSendFile): the *)
(* loop between the bytes In has read ahead and the bytes Out has queued,  *)
(* and the kernel's copy, which knows of neither.  Bytes are their places  *)
(* in the source; 0 is a byte that was queued before the call.  A write    *)
(* that times out and a read that does leave everything as it is.          *)
(***************************************************************************)
EXTENDS Integers, Sequences, SequencesExt

CONSTANTS
  SourceLen,  \* bound: bytes of the source
  AheadSize,  \* In->BuffSize
  QueueSize,  \* Out->BuffSize
  CopyLen     \* BUFSIZ, what is asked for at a time without a Max

ASSUME SendFileAssumption ==
  SourceLen \in Nat /\ {AheadSize, QueueSize, CopyLen} \subseteq Nat \ {0}

VARIABLES
  copy,    \* the call: max, kernel (UseKernelSendFile says yes), loop, noread, flush; ahead, before
  copyAt,  \* "call", "loop", "write", "done"
  source,  \* what In's descriptor has yet to give
  ahead,   \* In's buffer
  queued,  \* Out's buffer
  copied,    \* history: what Out's descriptor took
  moved,   \* bytes_transferred
  kernel,  \* UseSendFile
  outGone  \* Out can no longer be written to

sendVars == <<copy, copyAt, source, ahead, queued, copied, moved, kernel, outGone>>

Places(from, to) == [i \in 1..(to - from + 1) |-> from + i - 1]
Shorter(a, b) == IF a < b THEN a ELSE b
Taken(s, n) == SubSeq(s, 1, n)
After(s, n) == SubSeq(s, n + 1, Len(s))

SendInit ==
  /\ copy \in [max : 0..SourceLen, kernel : BOOLEAN, loop : BOOLEAN, noread : BOOLEAN,
               flush : BOOLEAN, ahead : 0..Shorter(AheadSize, SourceLen), before : 0..1]
  /\ copyAt = "call" /\ kernel = FALSE /\ moved = 0 /\ outGone = FALSE
  /\ ahead = Places(1, copy.ahead) /\ source = Places(copy.ahead + 1, SourceLen)
  /\ queued = Places(1 - copy.before, 0) /\ copied = <<>>

\* len: how much is still to be copied.
Wanted(m) == IF copy.max = 0 THEN CopyLen ELSE copy.max - m

\* How much of q a push may write: nothing when it times out or fails.
Pushes(q) == IF outGone THEN {0} ELSE 0..Len(q)
Flushed(q) == IF outGone THEN 0 ELSE Len(q)

\* "if (! (Flags & SENDFILE_LOOP)) break", and "while (len > 0)".
GoesOn(m) == copyAt' = (IF copy.loop /\ Wanted(m) > 0 THEN "loop" ELSE "done")

-----------------------------------------------------------------------------
\* With the kernel's copy what is queued is written first.
CopyBegins ==
  /\ copyAt = "call" /\ copyAt' = "loop" /\ kernel' = copy.kernel
  /\ LET n == IF copy.kernel THEN Flushed(queued) ELSE 0 IN
     copied' = copied \o Taken(queued, n) /\ queued' = After(queued, n)
  /\ UNCHANGED <<copy, source, ahead, moved, outGone>>

\* sendfile(2): from In's descriptor to Out's.  What it copied is not counted in
\* bytes_transferred.
KernelCopies ==
  /\ copyAt = "loop" /\ kernel /\ source # <<>> /\ ~outGone
  /\ \E n \in 1..Shorter(Wanted(moved), Len(source)) :
       copied' = copied \o Taken(source, n) /\ source' = After(source, n)
  /\ GoesOn(moved)
  /\ UNCHANGED <<copy, ahead, queued, moved, kernel, outGone>>

\* It copied nothing: this turn of the loop is done without it, and all that follow.
KernelEnds ==
  /\ copyAt = "loop" /\ kernel /\ kernel' = FALSE
  /\ UNCHANGED <<copy, copyAt, source, ahead, queued, copied, moved, outGone>>

\* "only read if we don't already have some in inbuff"
MustRead == Len(ahead) < Wanted(moved) /\ ~copy.noread

CopyReads ==
  /\ copyAt = "loop" /\ ~kernel /\ copyAt' = "write"
  /\ \E n \in IF MustRead THEN 0..Shorter(AheadSize - Len(ahead), Len(source)) ELSE {0} :
       ahead' = ahead \o Taken(source, n) /\ source' = After(source, n)
  /\ UNCHANGED <<copy, queued, copied, moved, kernel, outGone>>

\* The source is closed and nothing is left in the buffer.
CopyEnds ==
  /\ copyAt = "loop" /\ ~kernel /\ MustRead /\ source = <<>> /\ ahead = <<>>
  /\ copied' = copied \o Taken(queued, Flushed(queued)) /\ queued' = After(queued, Flushed(queued))
  /\ copyAt' = "done"
  /\ UNCHANGED <<copy, source, ahead, moved, kernel, outGone>>

\* A variant of ToWrite below with a slip in it, used by nothing: the property is
\* tried with it in the place of ToWrite.
WritesAhead(room) == Shorter(Len(ahead), room)

\* How much is written, given room in Out's buffer.
ToWrite(room) == Shorter(Shorter(Len(ahead), Wanted(moved)), room)

\* STREAMWriteBytes queues the n bytes, and pushes when the buffer is full or when it
\* is given none.
CopyWrites ==
  /\ copyAt = "write"
  /\ \E p \in IF Len(queued) = QueueSize THEN Pushes(queued) ELSE {0} :
       LET left == After(queued, p)
           n == ToWrite(QueueSize - Len(left))
           full == left \o Taken(ahead, n)
           push == Len(full) = QueueSize \/ (n = 0 /\ full # <<>>) IN
       \E q \in IF push THEN Pushes(full) ELSE {0} :
         LET rest == After(full, q)
             f == IF copy.flush THEN Flushed(rest) ELSE 0 IN
         /\ copied' = copied \o Taken(queued, p) \o Taken(full, q) \o Taken(rest, f)
         /\ queued' = After(rest, f)
         /\ IF push /\ outGone
              THEN copyAt' = "done" /\ UNCHANGED <<ahead, moved>> \* STREAM_CLOSED
              ELSE ahead' = After(ahead, n) /\ moved' = moved + n /\ GoesOn(moved + n)
  /\ UNCHANGED <<copy, source, kernel, outGone>>

OutGoes ==
  /\ copyAt # "done" /\ ~outGone /\ outGone' = TRUE
  /\ UNCHANGED <<copy, copyAt, source, ahead, queued, copied, moved, kernel>>

SendNext ==
  CopyBegins \/ KernelCopies \/ KernelEnds \/ CopyReads \/ CopyEnds \/ CopyWrites \/ OutGoes

-----------------------------------------------------------------------------
\* Types of all of it.
SendTypeOK ==
  /\ copyAt \in {"call", "loop", "write", "done"} /\ {kernel, outGone} \subseteq BOOLEAN
  /\ Len(ahead) <= AheadSize /\ Len(queued) <= QueueSize /\ moved \in 0..SourceLen
  /\ {source, ahead, queued, copied} \subseteq Seq(0..SourceLen)

\* The kernel's copy passes over what In has read ahead, and its result counts
\* nothing: what follows is about calls that do without it, or of which only order is asked.
Careful == copy.kernel => copy.ahead = 0

\* No byte is lost, written twice or out of its place, wherever the reads and the writes
\* end, and whatever was queued before goes first.
NothingLost ==
  Careful =>
    /\ IsPrefix(copied, Places(1 - copy.before, SourceLen))
    /\ ~outGone => copied \o queued \o ahead \o source = Places(1 - copy.before, SourceLen)

\* It returns how many bytes it copied, never more than it was to copy, and copying in a
\* loop is over only with all of them.
WhatItSays ==
  copyAt = "done" /\ ~outGone =>
    /\ ~copy.kernel =>
         /\ moved = Len(copied \o queued) - copy.before
         /\ copy.max > 0 => moved <= copy.max
    /\ copy.loop => (source = <<>> /\ ahead = <<>>) \/ (copy.max > 0 /\ moved = copy.max)

CopyTrue == NothingLost /\ WhatItSays
=============================================================================
