-------------------------- MODULE ChunkedTransfer --------------------------
(***************************************************************************)
(* The body of a chunked HTTP reply (libUseful/HttpChunkedTransfer.c) as   *)
(* it is read through a STREAM: the server's bytes come in pieces of any   *)
(* size, HTTPChunkedRead takes the chunks apart, and STREAMReadCharsToBuffer *)
(* decides whether there may be more.                                      *)
(***************************************************************************)
EXTENDS Integers, SequencesExt

CONSTANTS
  Transfers,  \* bodies, each as the sequence of its chunks, those sequences of bytes
  MaxRead,    \* the most one read(2) returns
  OutSize     \* BUFSIZ, the room for the output of one call

ASSUME TransfersAssumption ==
  /\ Transfers \subseteq Seq(Seq(Nat) \ {<<>>})
  /\ {MaxRead, OutSize} \subseteq Nat \ {0}

\* What is no byte of the body.
CR == -1
LF == -2
NUL == -3
Size(n) == -4 - n

VARIABLES
  wire,       \* the reply's bytes
  whole,      \* the body in them
  sent,       \* bytes of the reply the server has sent
  ended,      \* the server has closed
  pulled,     \* bytes the client has read
  buffer,     \* Chunk->Buffer
  chunkSize,  \* Chunk->ChunkSize
  body,       \* what has come out into S->InputBuff
  reader      \* "reads", "closed": STREAM_CLOSED was returned; "crashed"

chunkVars == <<wire, whole, sent, ended, pulled, buffer, chunkSize, body, reader>>

\* The chunks, each behind its size, and the chunk of size 0.
Encoded(transfer) ==
  FlattenSeq([i \in 1..Len(transfer) |->
    <<Size(Len(transfer[i])), CR, LF>> \o transfer[i] \o <<CR, LF>>])
  \o <<Size(0), CR, LF, CR, LF>>

ChunkedInit ==
  /\ \E t \in Transfers : whole = FlattenSeq(t) /\ wire = Encoded(t)
  /\ sent = 0 /\ ended = FALSE /\ pulled = 0
  /\ buffer = <<>> /\ chunkSize = 0
  /\ body = <<>> /\ reader = "reads"

-----------------------------------------------------------------------------
\* A variant of Skipped below with a slip in it, used by nothing: the property is
\* tried with it in the place of Skipped.
SkipsNothing(bytes) == 0

-----------------------------------------------------------------------------
(* HTTPChunkedRead                                                         *)

\* "skip past any leading '\r' or '\n'", the end of the chunk before.
Skipped(bytes) ==
  LET cr == IF bytes # <<>> /\ Head(bytes) = CR THEN 1 ELSE 0
  IN  IF Len(bytes) > cr /\ bytes[cr + 1] = LF THEN cr + 1 ELSE cr

First(symbol, bytes, from) ==
  LET places == {i \in from..Len(bytes) : bytes[i] = symbol}
  IN  IF places = {} THEN 0 ELSE CHOOSE i \in places : \A j \in places : i <= j

\* When nothing more will come a '\r' ends a line, or the end of what there is.
AsLine(last) == last

\* Where the line with the size ends, 0 if it does not yet.
LineEnd(bytes, last) ==
  LET from == Skipped(bytes) + 1
      lf == First(LF, bytes, from)
      cr == First(CR, bytes, from)
  IN  IF lf > 0 \/ ~AsLine(last) THEN lf ELSE IF cr > 0 THEN cr ELSE Len(bytes) + 1

\* strtol() of the line, 0 if it does not start with a number.
SizeOf(bytes, end) ==
  LET at == Skipped(bytes) + 1
  IN  IF at < end /\ bytes[at] <= Size(0) THEN Size(0) - bytes[at] ELSE 0

\* memmove() of what is left to the front.
Rest(bytes, n) == SubSeq(bytes, n + 1, Len(bytes))

\* A chunk is put out when it is there as a whole, as far as there is room.
PutOut(bytes, size, room) ==
  LET n == IF Len(bytes) >= size THEN Min({size, room}) ELSE 0
  IN  /\ body' = body \o SubSeq(bytes, 1, n)
      /\ buffer' = Rest(bytes, n)
      /\ chunkSize' = size - n
      /\ UNCHANGED reader

\* STREAM_CLOSED; the caller of the processors passes it on when it flushes.
EndOfBody(bytes, last) ==
  /\ buffer' = bytes
  /\ reader' = IF last THEN "closed" ELSE "reads"
  /\ UNCHANGED <<chunkSize, body>>

\* The end of the buffer was taken for the end of the line and skipped: the
\* number of bytes left wraps and memmove() gets it.
Wraps(bytes, end) == end > Len(bytes)

ReadSize(bytes, last, room) ==
  LET end == LineEnd(bytes, last)
      size == SizeOf(bytes, end)
  IN  CASE bytes = <<>> -> EndOfBody(bytes, last)
        [] bytes # <<>> /\ end = 0 ->
             buffer' = bytes /\ UNCHANGED <<chunkSize, body, reader>>
        [] bytes # <<>> /\ end > 0 /\ size = 0 ->
             EndOfBody(IF Wraps(bytes, end) THEN bytes ELSE [bytes EXCEPT ![end] = NUL], last)
        [] bytes # <<>> /\ end > 0 /\ size > 0 /\ Wraps(bytes, end) ->
             reader' = "crashed" /\ UNCHANGED <<buffer, chunkSize, body>>
        [] OTHER -> PutOut(Rest(bytes, end), size, room)

\* One call, with the bytes of one read(2), or with none and for the last time.
HTTPChunkedRead(new, last) ==
  LET bytes == buffer \o new
      room == IF Len(new) < OutSize THEN OutSize ELSE Len(new) * 8
  IN  IF chunkSize = 0 THEN ReadSize(bytes, last, room) ELSE PutOut(bytes, chunkSize, room)

-----------------------------------------------------------------------------
(* STREAMReadCharsToBuffer and STREAMReadThroughProcessors                 *)

Pull ==
  /\ reader = "reads"
  /\ \E n \in 1..Min({sent - pulled, MaxRead}) :
       /\ pulled' = pulled + n
       /\ HTTPChunkedRead(SubSeq(wire, pulled + 1, pulled + n), FALSE)
  /\ UNCHANGED <<wire, whole, sent, ended>>

\* The connection has ended: the processor is asked for what it still has, once
\* for each time the reader comes back.
Flush ==
  /\ reader = "reads" /\ ended /\ pulled = sent
  /\ HTTPChunkedRead(<<>>, TRUE)
  /\ UNCHANGED <<wire, whole, sent, ended, pulled>>

-----------------------------------------------------------------------------
(* The server                                                              *)

SendSome ==
  /\ ~ended /\ sent < Len(wire)
  /\ \E n \in 1..Min({Len(wire) - sent, MaxRead}) : sent' = sent + n
  /\ UNCHANGED <<wire, whole, ended, pulled, buffer, chunkSize, body, reader>>

\* It was told "Connection: close"; it may close before it has sent everything.
CloseConnection ==
  /\ ~ended
  /\ ended' = TRUE
  /\ UNCHANGED <<wire, whole, sent, pulled, buffer, chunkSize, body, reader>>

ChunkedNext == Pull \/ Flush \/ SendSome \/ CloseConnection

ChunkedSpec ==
  /\ ChunkedInit /\ [][ChunkedNext]_chunkVars
  /\ WF_chunkVars(Pull \/ Flush) /\ WF_chunkVars(SendSome) /\ WF_chunkVars(CloseConnection)

-----------------------------------------------------------------------------
(* Properties                                                              *)

ChunkedTypeOK ==
  /\ sent \in 0..Len(wire) /\ pulled \in 0..sent /\ ended \in BOOLEAN
  /\ buffer \in Seq(Int) /\ Len(buffer) <= pulled
  /\ chunkSize \in 0..Len(whole)
  /\ body \in Seq(Nat) /\ Len(body) + Len(buffer) <= pulled
  /\ reader \in {"reads", "closed", "crashed"}

\* However the reply is cut into pieces, what comes out is the body and nothing
\* of the sizes and line ends around it.
BodyInOrder == IsPrefix(body, whole)

\* And the end is reported when the body is there, all of it, if the server sent it.
BodyIsWhole == BodyInOrder /\ (reader = "closed" /\ sent = Len(wire) => body = whole)

\* When the server has sent the reply and closed, the reader is told, once it
\* has had what the processor still held, and does not go on reading for ever.
ReaderReturns == ended /\ sent = Len(wire) ~> reader # "reads"
=============================================================================
