---------------------------- MODULE StreamOutput ----------------------------
(***************************************************************************)
(* The output side of a STREAM (libUseful/Stream.c): the calls that write, *)
(* OutputBuff, the kernel's queue and a peer that takes bytes from it.     *)
(* Byte i is the i-th byte a caller asks to write.                         *)
(***************************************************************************)
EXTENDS Integers, Sequences

CONSTANTS
  OutSize,      \* S->BuffSize
  BlockSize,    \* S->BlockSize of a stream that flushes blocks
  StartPoints,  \* the values of S->StartPoint
  WireSize,     \* what the kernel queues for the peer
  MaxWrite,     \* bound: bytes of one call
  MaxOffered    \* bound: bytes of all calls

ASSUME StreamOutputAssumption ==
  /\ OutSize \in Nat \ {0} /\ BlockSize \in 1..OutSize /\ StartPoints \subseteq 0..(OutSize - 1)
  /\ WireSize \in Nat \ {0} /\ MaxWrite \in Nat /\ MaxOffered \in Nat

VARIABLES
  flush,       \* the flush type: "full", "line", "block", "always"
  nonblock,    \* SF_NONBLOCK
  startPoint,  \* S->StartPoint
  outBuff,     \* the first OutEnd bytes of S->OutputBuff
  call,        \* the call in progress: "none", "write", "writeline", "lineflush", "flush", "close"
  pc,          \* where it is: "idle", "queue", "push"
  todo,        \* o_len: bytes of the call not queued yet
  pushing,     \* DataLen of STREAMInternalPushBytes
  pushed,      \* its count
  offered,     \* history: bytes all calls were given
  wire,        \* history: the bytes given to the kernel
  room,        \* what the kernel can still queue
  gone,        \* the peer has closed the connection
  open,        \* S->out_fd is not -1
  told         \* what the last call returned

outVars == <<flush, nonblock, startPoint, outBuff, call, pc, todo, pushing, pushed,
             offered, wire, room, gone, open, told>>

settings == <<flush, nonblock>>
peer == <<room, gone>>

OutputInit ==
  /\ flush \in {"full", "line", "block", "always"} /\ nonblock \in BOOLEAN
  /\ startPoint \in StartPoints
  /\ outBuff = <<>>
  /\ call = "none" /\ pc = "idle" /\ todo = 0 /\ pushing = 0 /\ pushed = 0
  /\ offered = 0 /\ wire = <<>> /\ room = WireSize /\ gone = FALSE
  /\ open = TRUE /\ told = "none"

-----------------------------------------------------------------------------
\* Variants of definitions below with a slip in them, used by nothing: the
\* properties are tried with them in the place of Rest, MustPush and Fits.
KeepsAll(n) == outBuff
NeverPushes(buffer) == FALSE
AllFits == todo

-----------------------------------------------------------------------------
(* STREAMInternalPushBytes                                                 *)

\* How much is pushed: all, or at most one block.
DataLen(buffer) ==
  IF flush = "block" /\ BlockSize < Len(buffer) THEN BlockSize ELSE Len(buffer)

\* memmove: what was not pushed moves to the front.
Rest(n) == SubSeq(outBuff, n + 1, Len(outBuff))

BeginPush(buffer) == pc' = "push" /\ pushing' = DataLen(buffer) /\ pushed' = 0

EndPush == pushing' = 0 /\ pushed' = 0

EndCall(result) ==
  /\ call' = "none" /\ pc' = "idle" /\ todo' = 0 /\ told' = result
  /\ open' = (open /\ call # "close")

Flushed == IF call = "lineflush" THEN "lined" ELSE "flushed"

\* STREAMWriteLine: "if (S->Flags & FLUSH_LINE)".
FlushesLine(buffer) == call = "writeline" /\ flush = "line" /\ buffer # <<>>

\* STREAMInternalQueueBytes returns, with buffer in OutputBuff: all is reported
\* as written, and STREAMWriteLine flushes.
QueueReturns(buffer) ==
  IF FlushesLine(buffer)
    THEN call' = "lineflush" /\ todo' = 0 /\ BeginPush(buffer) /\ UNCHANGED <<told, open>>
    ELSE EndCall(IF call = "writeline" THEN "lined" ELSE "written") /\ EndPush

\* The push returns to its caller with n bytes pushed.
PushReturns(n) ==
  /\ outBuff' = Rest(n)
  /\ IF call \in {"flush", "close", "lineflush"}
       THEN EndCall(Flushed) /\ EndPush /\ UNCHANGED startPoint
     ELSE IF n = 0 \* "if (result < 1) break"
       THEN QueueReturns(outBuff) /\ UNCHANGED startPoint
     ELSE /\ startPoint' = 0
          /\ IF todo > 0
               THEN pc' = "queue" /\ EndPush /\ UNCHANGED <<call, todo, told, open>>
               ELSE QueueReturns(Rest(n))

\* write(2) takes k bytes; a stream that does not block stops after one write.
Push ==
  /\ pc = "push" /\ ~gone
  /\ \E k \in 1..(pushing - pushed) :
       /\ k <= room
       /\ room' = room - k
       /\ wire' = wire \o SubSeq(outBuff, pushed + 1, pushed + k)
       /\ IF pushed + k = pushing \/ nonblock
            THEN PushReturns(pushed + k)
            ELSE /\ pushed' = pushed + k
                 /\ UNCHANGED <<outBuff, pushing, call, pc, todo, told, open, startPoint>>
  /\ UNCHANGED <<settings, offered, gone>>

\* No room: STREAM_TIMEOUT, which is 0.  A stream that blocks tries again.
PushNothing ==
  /\ pc = "push" /\ ~gone /\ room = 0 /\ nonblock
  /\ PushReturns(pushed)
  /\ UNCHANGED <<settings, offered, wire, peer>>

\* The peer has gone: STREAM_CLOSED.
PushFails ==
  /\ pc = "push" /\ gone
  /\ outBuff' = Rest(pushed)
  /\ EndCall("closed") /\ EndPush
  /\ UNCHANGED <<settings, startPoint, offered, wire, peer>>

-----------------------------------------------------------------------------
(* STREAMInternalQueueBytes                                                *)

\* "Buffer Full, Write some bytes!!!"
MustPush(buffer) ==
  /\ Len(buffer) > startPoint
  /\ \/ Len(buffer) >= OutSize
     \/ flush = "always"
     \/ flush = "block" /\ Len(buffer) > BlockSize

Space == OutSize - Len(outBuff)
Fits == IF todo < Space THEN todo ELSE Space

\* The first n of the bytes of the call that are not queued yet.
NextBytes(n) == [i \in 1..n |-> offered - todo + i]

Queue ==
  /\ pc = "queue"
  /\ LET buffer == outBuff \o NextBytes(Fits) IN
     /\ outBuff' = buffer
     /\ IF MustPush(buffer)
          THEN BeginPush(buffer) /\ todo' = todo - Fits /\ UNCHANGED <<call, told, open>>
        ELSE IF Fits < todo
          THEN todo' = todo - Fits /\ UNCHANGED <<call, pc, pushing, pushed, told, open>>
          ELSE QueueReturns(buffer)
  /\ UNCHANGED <<settings, startPoint, offered, wire, peer>>

-----------------------------------------------------------------------------
(* The calls                                                               *)

Idle == call = "none" /\ open

\* STREAMWriteBytes, STREAMWriteLine.
Write ==
  /\ Idle
  /\ call' \in {"write", "writeline"} /\ pc' = "queue"
  /\ todo' \in 1..MaxWrite
  /\ offered' = offered + todo' /\ offered' <= MaxOffered
  /\ told' = "none"
  /\ UNCHANGED <<settings, startPoint, outBuff, pushing, pushed, wire, peer, open>>

\* STREAMFlush, and STREAMShutdown, which flushes once before it closes.
Flush ==
  /\ Idle
  /\ call' \in {"flush", "close"} /\ told' = "none"
  /\ BeginPush(outBuff)
  /\ UNCHANGED <<settings, startPoint, outBuff, todo, offered, wire, peer, open>>

\* There is nothing to push.
FlushEmpty ==
  /\ pc = "push" /\ pushing = 0
  /\ EndCall(Flushed) /\ EndPush
  /\ UNCHANGED <<settings, startPoint, outBuff, offered, wire, peer>>

\* The peer takes a byte, or goes.
PeerTakes ==
  /\ room < WireSize /\ ~gone
  /\ room' = room + 1
  /\ UNCHANGED <<settings, startPoint, outBuff, call, pc, todo, pushing, pushed,
                 offered, wire, gone, open, told>>

PeerGoes ==
  /\ ~gone
  /\ gone' = TRUE
  /\ UNCHANGED <<settings, startPoint, outBuff, call, pc, todo, pushing, pushed,
                 offered, wire, room, open, told>>

Writer == Push \/ PushNothing \/ PushFails \/ Queue \/ FlushEmpty

OutputNext == Write \/ Flush \/ Writer \/ PeerTakes \/ PeerGoes

OutputSpec == OutputInit /\ [][OutputNext]_outVars /\ WF_outVars(Writer)

-----------------------------------------------------------------------------
(* Properties                                                              *)

\* Types; OutputBuff never holds more than it has room for.
OutputTypeOK ==
  /\ flush \in {"full", "line", "block", "always"} /\ nonblock \in BOOLEAN
  /\ startPoint \in 0..(OutSize - 1)
  /\ outBuff \in Seq(Nat) /\ Len(outBuff) <= OutSize
  /\ call \in {"none", "write", "writeline", "lineflush", "flush", "close"}
  /\ pc \in {"idle", "queue", "push"} /\ (pc = "idle" <=> call = "none")
  /\ todo \in 0..offered /\ offered \in Nat
  /\ pushing \in 0..Len(outBuff) /\ pushed \in 0..pushing
  /\ wire \in Seq(Nat) /\ room \in 0..WireSize
  /\ gone \in BOOLEAN /\ open \in BOOLEAN
  /\ told \in {"none", "written", "lined", "flushed", "closed"}

\* What was queued and not given to the kernel yet.
Unpushed == SubSeq(outBuff, pushed + 1, Len(outBuff))

\* Whatever the flush type, the start point and the kernel make of the writes,
\* a stream that blocks has every byte it was given on the wire or in its
\* buffer or still to queue, in order and once, until the peer is gone.
NothingLost ==
  ~nonblock /\ ~gone => wire \o Unpushed \o NextBytes(todo) = [i \in 1..offered |-> i]

\* Closing a stream that blocks and does not flush in blocks leaves nothing
\* behind, although STREAMShutdown flushes only once and its result is ignored.
CloseSendsAll ==
  ~open /\ ~nonblock /\ ~gone /\ flush # "block" => outBuff = <<>>

\* A stream that flushes always, past its start point, keeps nothing back
\* between calls.
AlwaysFlushed ==
  flush = "always" /\ ~nonblock /\ ~gone /\ startPoint = 0 /\ told = "written" => outBuff = <<>>

\* A line is on its way when STREAMWriteLine returns on a stream that flushes
\* lines and blocks: nothing is kept back, not even what was queued before it.
LineFlushed == flush = "line" /\ ~nonblock /\ told = "lined" => outBuff = <<>>

\* A call ends, or waits for room at the peer: it never spins on a buffer that
\* is neither filled nor pushed.
WriteEnds == call # "none" ~> call = "none" \/ room = 0

\* What a call was to send when it returned has been sent: at a close, after each
\* write of a stream that flushes always, after each line of one that flushes lines.
KeepsNothingBack == CloseSendsAll /\ AlwaysFlushed /\ LineFlushed

\* A write loses nothing, and keeps nothing back that its flush type says is sent.
WritesAll == NothingLost /\ KeepsNothingBack
=============================================================================
