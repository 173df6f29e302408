---------------------------- MODULE StreamInput ----------------------------
(***************************************************************************)
(* The input side of a STREAM (libUseful/Stream.c): a peer, the kernel's   *)
(* queue, InputBuff with its two indices, and the calls that read a line   *)
(* or a number of bytes.  Byte i is the i-th byte the peer sends.          *)
(***************************************************************************)
EXTENDS Integers, Sequences

CONSTANTS
  InSize,     \* S->BuffSize
  Terms,      \* the bytes that are the terminator
  MaxBytes,   \* bound: bytes the peer sends
  MaxWant     \* bound: bytes one call asks for

ASSUME StreamInputAssumption ==
  InSize \in Nat \ {0} /\ Terms \subseteq Nat \ {0} /\ MaxBytes \in Nat /\ MaxWant \in Nat

VARIABLES
  sent,       \* bytes the peer has sent
  ended,      \* the peer has closed the connection
  pulled,     \* bytes read(2) has taken from the kernel
  buff,       \* S->InputBuff
  inStart,    \* S->InStart
  inEnd,      \* S->InEnd
  op,         \* the call in progress: "none", "line", "bytes"
  want,       \* Buffsize of STREAMReadBytes
  count,      \* bytes the call has handed over (bytes_read, total)
  isClosed,   \* IsClosed of STREAMReadToTerminator
  received,   \* history: all bytes handed over
  result      \* how the last call ended and with how many bytes

inVars == <<sent, ended, pulled, buff, inStart, inEnd, op, want, count, isClosed,
            received, result>>

peerVars == <<sent, ended>>
bufferVars == <<pulled, buff, inStart, inEnd>>

Slots == 0..(InSize - 1)
Results == {"none", "line", "null", "data", "closed", "timeout"}
NoResult == [kind |-> "none", n |-> 0]

InputInit ==
  /\ sent = 0 /\ ended = FALSE
  /\ pulled = 0 /\ buff = [i \in Slots |-> 0] /\ inStart = 0 /\ inEnd = 0
  /\ op = "none" /\ want = 0 /\ count = 0 /\ isClosed = FALSE
  /\ received = <<>> /\ result = NoResult

-----------------------------------------------------------------------------
(* STREAMReadCharsToBuffer                                                 *)

Avail == inEnd - inStart

\* Variants of definitions below with a slip in them, used by nothing: the
\* properties are tried with them in the place of Moved and LineBytes.
MovesNothing == buff
LineIsBuffer == Avail

\* The bytes move to the front of the buffer when it is empty, half used up,
\* or full but for its start.
MakesRoom ==
  \/ Avail = 0
  \/ inStart > InSize \div 2
  \/ inEnd >= InSize /\ inStart > 0

Start == IF MakesRoom THEN 0 ELSE inStart
End == IF MakesRoom THEN Avail ELSE inEnd
Moved == IF MakesRoom
           THEN [i \in Slots |-> IF i < Avail THEN buff[inStart + i] ELSE buff[i]]
           ELSE buff

\* k bytes from the kernel are put behind those in the buffer.
Filled(k) == [i \in Slots |-> IF i \in End..(End + k - 1) THEN pulled + 1 + i - End ELSE Moved[i]]

FullBuffer == End >= InSize

Pull(k) ==
  /\ pulled' = pulled + k
  /\ buff' = Filled(k) /\ inStart' = Start /\ inEnd' = End + k

\* read(2) returns some of what is queued.
GotBytes == ~FullBuffer /\ \E k \in 1..(sent - pulled) : End + k <= InSize /\ Pull(k)

GotEnd == ~FullBuffer /\ ended /\ pulled = sent /\ Pull(0)

\* select() in STREAMWaitForBytes gives up.
Late == ~ended /\ pulled = sent

TimedOut == ~FullBuffer /\ Late /\ Pull(0)

\* FDCheckForBytes: a read would not block.
Readable == pulled < sent \/ ended

-----------------------------------------------------------------------------
(* Handing bytes over                                                      *)

\* STREAMTransferBytesOut of n bytes, with the buffer's new indices.
HandOver(n) ==
  /\ received' = received \o [i \in 1..n |-> buff[inStart + i - 1]]
  /\ count' = count + n

Return(kind, n) == op' = "none" /\ result' = [kind |-> kind, n |-> n]

Call(name, n) ==
  /\ op = "none"
  /\ op' = name /\ want' = n /\ count' = 0 /\ isClosed' = FALSE /\ result' = NoResult
  /\ UNCHANGED <<peerVars, bufferVars, received>>

-----------------------------------------------------------------------------
(* STREAMReadToTerminator                                                  *)

ReadLine == Call("line", 0)

TermsInBuffer == {i \in inStart..(inEnd - 1) : buff[i] \in Terms}
FirstTerm == CHOOSE i \in TermsInBuffer : \A j \in TermsInBuffer : i <= j

\* How many bytes can go to the caller now: up to the terminator, or a buffer
\* that can take no more, or the rest of a stream that ended.
LineBytes ==
  IF TermsInBuffer # {} THEN FirstTerm + 1 - inStart
  ELSE IF isClosed \/ (inStart = 0 /\ inEnd >= InSize) THEN Avail ELSE 0

LineTransfer ==
  /\ op = "line" /\ LineBytes > 0
  /\ HandOver(LineBytes)
  /\ inStart' = inStart + LineBytes
  /\ IF TermsInBuffer # {} THEN Return("line", count') ELSE UNCHANGED <<op, result>>
  /\ UNCHANGED <<peerVars, pulled, buff, inEnd, want, isClosed>>

LineIsOver == Avail = 0 /\ isClosed

LineEnds ==
  /\ op = "line" /\ LineIsOver
  /\ Return(IF count > 0 THEN "line" ELSE "null", count)
  /\ UNCHANGED <<peerVars, bufferVars, want, count, isClosed, received>>

LineReads ==
  /\ op = "line" /\ LineBytes = 0 /\ ~LineIsOver
  /\ \/ GotBytes /\ UNCHANGED <<op, result, isClosed>>
     \/ GotEnd /\ isClosed' = TRUE /\ UNCHANGED <<op, result>>
     \/ TimedOut /\ Return("timeout", count) /\ UNCHANGED isClosed
  /\ UNCHANGED <<peerVars, want, count, received>>

-----------------------------------------------------------------------------
(* STREAMReadBytes                                                         *)

ReadBytes == \E n \in 1..MaxWant : Call("bytes", n)

\* The first read waits; only an empty buffer leads to it.
FirstRead ==
  /\ op = "bytes" /\ count = 0 /\ Avail = 0
  /\ \/ GotBytes /\ UNCHANGED <<op, result>>
     \/ GotEnd /\ Return("closed", 0)
     \/ TimedOut /\ Return("timeout", 0)
  /\ UNCHANGED <<peerVars, want, count, isClosed, received>>

Transferred == IF Avail < want - count THEN Avail ELSE want - count

\* The buffer was emptied: the next k bytes start at its front.
ReadAhead(k) ==
  /\ k <= InSize
  /\ pulled' = pulled + k
  /\ buff' = [i \in Slots |-> IF i < k THEN pulled + 1 + i ELSE buff[i]]
  /\ inStart' = 0 /\ inEnd' = k

\* Bytes are handed over; when that empties the buffer, more are read, but
\* only if that does not block, and also when enough was handed over.
BytesTransfer ==
  /\ op = "bytes" /\ Avail > 0
  /\ HandOver(Transferred)
  /\ IF Transferred < Avail
       THEN /\ inStart' = inStart + Transferred
            /\ UNCHANGED <<pulled, buff, inEnd>>
            /\ Return("data", count')
       ELSE \/ /\ ~Readable
               /\ inStart' = inEnd
               /\ UNCHANGED <<pulled, buff, inEnd>>
               /\ Return("data", count')
            \/ /\ \E k \in 1..(sent - pulled) : ReadAhead(k)
               /\ IF count' >= want THEN Return("data", count') ELSE UNCHANGED <<op, result>>
            \/ /\ ended /\ pulled = sent
               /\ ReadAhead(0)
               /\ Return("data", count')
  /\ UNCHANGED <<peerVars, want, isClosed>>

-----------------------------------------------------------------------------
(* STREAMPeekChar, STREAMCountWaitingBytes: bytes are read and none handed *)
(* over.                                                                   *)
Peek ==
  /\ op = "none"
  /\ GotBytes \/ GotEnd \/ TimedOut
  /\ UNCHANGED <<peerVars, op, want, count, isClosed, received, result>>

-----------------------------------------------------------------------------
(* The peer                                                                *)

PeerSends ==
  /\ ~ended /\ sent < MaxBytes
  /\ sent' = sent + 1
  /\ UNCHANGED <<ended, bufferVars, op, want, count, isClosed, received, result>>

PeerCloses ==
  /\ ~ended
  /\ ended' = TRUE
  /\ UNCHANGED <<sent, bufferVars, op, want, count, isClosed, received, result>>

Reader == LineTransfer \/ LineEnds \/ LineReads \/ FirstRead \/ BytesTransfer

InputNext == ReadLine \/ ReadBytes \/ Reader \/ Peek \/ PeerSends \/ PeerCloses

InputSpec == InputInit /\ [][InputNext]_inVars /\ WF_inVars(Reader)
-----------------------------------------------------------------------------
(* Properties                                                              *)

\* Types and the order of the indices.
InputTypeOK ==
  /\ sent \in Nat /\ ended \in BOOLEAN
  /\ pulled \in 0..sent
  /\ buff \in [Slots -> Nat]
  /\ inStart \in 0..inEnd /\ inEnd \in 0..InSize
  /\ op \in {"none", "line", "bytes"} /\ want \in Nat /\ count \in Nat
  /\ isClosed \in BOOLEAN
  /\ received \in Seq(Nat)
  /\ result \in [kind : Results, n : Nat]

\* However the buffer was filled, moved and emptied, the caller has the first
\* bytes of the peer, the buffer the ones after them and the kernel the rest
\* (the memmove of Stream.c:1457 and the indices around it).
InputInOrder ==
  /\ \A i \in 1..Len(received) : received[i] = i
  /\ Len(received) + Avail = pulled
  /\ \A i \in inStart..(inEnd - 1) : buff[i] = Len(received) + 1 + (i - inStart)

\* A line that was returned has no terminator but its last byte, and lacks it
\* only at the end of the stream, although a long line is handed over in parts
\* and the bytes behind the terminator stay in the buffer.
LineIsWhole ==
  result.kind = "line" =>
    LET last == Len(received) IN
    /\ result.n > 0
    /\ \A i \in (last - result.n + 1)..(last - 1) : received[i] \notin Terms
    /\ received[last] \in Terms \/ (ended /\ last = sent)

\* The end of the stream is reported only when every byte of the peer has been
\* handed over: STREAM_CLOSED and NULL never hide bytes that are still buffered.
EndIsEnd == result.kind \in {"null", "closed"} => ended /\ Len(received) = sent

\* A line that timed out is still in the buffer, whole, so that the next call
\* returns it, unless it was too long for the buffer.
TimeoutKeepsLine == result.kind = "timeout" => result.n = 0 \/ result.n >= InSize

\* A call returns, be it by a timeout: Stream.c:1364.
CallReturns == op # "none" ~> op = "none"

\* The input side is a channel from the peer to the caller.
Channel == INSTANCE ByteChannel WITH sent <- [i \in 1..sent |-> i]
InputIsChannel == Channel!Spec

\* What a call returns is true: a line is whole, the end is the end, and a timeout
\* has taken nothing from the line that is still to come.
ResultsTrue == LineIsWhole /\ EndIsEnd /\ TimeoutKeepsLine
=============================================================================
