----------------------------- MODULE WebSocket -----------------------------
(***************************************************************************)
(* The frames of a WebSocket (libUseful/WebSocket.c): one side sends, the  *)
(* other reads them through WebSocketReadBytes into buffers of any size    *)
(* while their bytes arrive in any pieces.  A message is read as its bytes *)
(* and a line feed.                                                        *)
(***************************************************************************)
EXTENDS Integers, SequencesExt

CONSTANTS
  BasicLen,    \* the longest frame with a header of two bytes: 125
  MaxFrameLen, \* bound: bytes of a message
  MaxFrames,   \* bound: frames sent
  MaxRoom      \* bound: the room WebSocketReadBytes is called with

ASSUME WebSocketAssumption ==
  {BasicLen, MaxFrameLen, MaxFrames, MaxRoom} \subseteq Nat /\ MaxRoom > 0

VARIABLES
  masks,     \* the sender is a client: it masks its frames
  frames,    \* history: the frames sent
  onWire,    \* bytes that are on their way
  inQueue,   \* bytes that have arrived
  msgLen,    \* msg_len, which is static: one for all WebSockets
  msgRead,   \* SS_MSG_READ
  plain,     \* history: all bytes of messages that were read could be unmasked
  readOut,   \* what was read
  misread    \* history: what is no header was read as one, a length was another's, or a
             \* frame was not sent as a whole

wsVars == <<masks, frames, onWire, inQueue, msgLen, msgRead, plain, readOut, misread>>

-----------------------------------------------------------------------------
(* Sending                                                                 *)

\* WebSocketHeader: the operation, the length, two bytes more for a long one, the mask.
WebSocketHeader(f) ==
  <<[op |-> f.op, len |-> f.len]>> \o <<[op |-> "length", len |-> f.len]>>
  \o (IF f.len > BasicLen THEN <<[op |-> "more", len |-> 0], [op |-> "more", len |-> 0]>> ELSE <<>>)
  \o (IF f.masked THEN [k \in 1..4 |-> [op |-> "mask", len |-> 0]] ELSE <<>>)

Payload(f, i) == [k \in 1..f.len |-> [op |-> "data", len |-> <<i, k>>]]

Queues(f) ==
  /\ Len(frames) < MaxFrames
  /\ \A i \in DOMAIN frames : frames[i].op # "close"
  /\ frames' = Append(frames, f)
  /\ UNCHANGED <<masks, inQueue, msgLen, msgRead, plain, readOut>>

Sends(f) ==
  /\ Queues(f)
  /\ onWire' = onWire \o WebSocketHeader(f) \o Payload(f, Len(frames) + 1)
  /\ UNCHANGED misread

\* What STREAMPushBytes writes is not looked at: of a write that was short, or timed out,
\* the rest is lost, and what is sent next is read as the rest.
SendsPart(f) ==
  /\ Queues(f)
  /\ LET all == WebSocketHeader(f) \o Payload(f, Len(frames) + 1)
     IN  \E n \in 0..(Len(all) - 1) : onWire' = onWire \o SubSeq(all, 1, n)
  /\ misread' = TRUE

WritesFrame(f) == Sends(f) \/ SendsPart(f)

WebSocketSendFrame == \E len \in 0..MaxFrameLen : WritesFrame([op |-> "text", len |-> len, masked |-> masks])

\* Control frames are masked by both sides, and not by servers of others.
WebSocketSendControl ==
  \E op \in {"ping", "pong", "close"}, masked \in {TRUE, masks} : WritesFrame([op |-> op, len |-> 0, masked |-> masked])

ArrivesSome ==
  /\ onWire # <<>>
  /\ \E n \in 1..Len(onWire) :
       inQueue' = inQueue \o SubSeq(onWire, 1, n) /\ onWire' = SubSeq(onWire, n + 1, Len(onWire))
  /\ UNCHANGED <<masks, frames, msgLen, msgRead, plain, readOut, misread>>

-----------------------------------------------------------------------------
(* Reading                                                                 *)

\* STREAMPullBytes: a read of up to n bytes, of what there is.
Pulled(q, n) == IF Len(q) < n THEN Len(q) ELSE n
Without(q, n) == SubSeq(q, n + 1, Len(q))

\* The header of a message; the mask of any other frame is left where it is.
HeaderLen(q) ==
  IF q[1].op # "text" THEN 2
  ELSE (IF q[2].len > BasicLen THEN 4 ELSE 2) + (IF masks THEN 4 ELSE 0)

\* What is given of a message: as much as has arrived and has room. The mask is kept for
\* this call only.
Gives(q, len, room, unmasks) ==
  LET n == Pulled(q, IF len > room THEN room ELSE len) IN
  /\ q # <<>>
  /\ readOut' = readOut \o [k \in 1..n |-> q[k].len]
  /\ inQueue' = Without(q, n)
  /\ msgLen' = len - n
  /\ plain' = (plain /\ (unmasks \/ ~masks))

\* After the last byte of a frame with WS_FIN, which all have, comes a line feed.
EndOfMessage ==
  /\ msgRead' = FALSE /\ readOut' = Append(readOut, "line feed")
  /\ UNCHANGED <<inQueue, msgLen, plain, misread>>

\* WebSocketReadFrameHeader. What is no header, or has not arrived as a whole, is taken
\* for one with whatever length.
WebSocketReadFrameHeader(room) ==
  LET q == inQueue IN
  IF q[1].op = "mask" \/ Len(q) < 2 \/ Len(q) < HeaderLen(q)
  THEN misread' = TRUE /\ UNCHANGED <<inQueue, msgLen, msgRead, plain, readOut>>
  ELSE /\ msgRead' = TRUE /\ UNCHANGED misread
       /\ IF q[1].op = "text" /\ q[2].len > 0
            THEN Gives(Without(q, HeaderLen(q)), q[2].len, room, TRUE)
            ELSE inQueue' = Without(q, HeaderLen(q)) /\ UNCHANGED <<msgLen, plain, readOut>>

WebSocketReadBytes(room) ==
  /\ inQueue # <<>> \/ msgRead
  /\ ~misread
  /\ CASE msgLen = 0 /\ msgRead -> EndOfMessage
       [] msgLen = 0 /\ ~msgRead -> WebSocketReadFrameHeader(room)
       [] OTHER -> Gives(inQueue, msgLen, room, FALSE) /\ UNCHANGED <<msgRead, misread>>
  /\ UNCHANGED <<masks, frames, onWire>>

\* Another WebSocket of the program is read: a message of its own begins or ends.
OtherRead ==
  /\ msgLen' \in 0..MaxFrameLen /\ misread' = (misread \/ msgLen' # msgLen)
  /\ UNCHANGED <<masks, frames, onWire, inQueue, msgRead, plain, readOut>>

SocketInit ==
  /\ masks \in BOOLEAN
  /\ frames = <<>> /\ onWire = <<>> /\ inQueue = <<>> /\ msgLen = 0 /\ msgRead = FALSE
  /\ plain = TRUE /\ readOut = <<>> /\ misread = FALSE

SocketNext ==
  \/ WebSocketSendFrame \/ WebSocketSendControl \/ ArrivesSome \/ OtherRead
  \/ \E room \in 1..MaxRoom : WebSocketReadBytes(room)

SocketSpec == SocketInit /\ [][SocketNext]_wsVars

-----------------------------------------------------------------------------
(* Properties                                                              *)

WebSocketTypeOK ==
  /\ msgLen \in 0..MaxFrameLen /\ msgRead \in BOOLEAN /\ misread \in BOOLEAN /\ plain \in BOOLEAN

Meant == FlattenSeq([i \in DOMAIN frames |-> [k \in 1..frames[i].len |-> <<i, k>>] \o <<"line feed">>])

\* What is read are the messages in their order, each whole and with its line feed, into
\* whatever room they are read, unless a header arrives in pieces, the mask of a control
\* frame is in the way, a frame is written in part or another WebSocket is read; pings and pongs are empty lines; and
\* the bytes of a server are never masked.
MessagesWhole ==
  ~misread =>
    /\ \E n \in 0..Len(Meant) : readOut = SubSeq(Meant, 1, n)
    /\ ~masks => plain
    /\ onWire = <<>> /\ inQueue = <<>> /\ ~msgRead => readOut = Meant
=============================================================================
