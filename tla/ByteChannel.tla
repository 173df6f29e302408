---------------------------- MODULE ByteChannel ----------------------------
(***************************************************************************)
(* What either direction of a STREAM (libUseful/Stream.h) promises: the    *)
(* bytes that are put in come out in their order, each once.               *)
(***************************************************************************)
EXTENDS Naturals, Sequences

VARIABLES
  sent,      \* the bytes put in
  received   \* the bytes that came out

Init == sent = <<>> /\ received = <<>>

\* Bytes are put in behind the others.
Send ==
  /\ Len(sent) <= Len(sent')
  /\ \A i \in 1..Len(sent) : sent'[i] = sent[i]
  /\ UNCHANGED received

\* The next of those that were put in come out.
Receive ==
  /\ Len(received') \in Len(received)..Len(sent)
  /\ \A i \in 1..Len(received') : received'[i] = sent[i]
  /\ UNCHANGED sent

Spec == Init /\ [][Send \/ Receive]_<<sent, received>>
=============================================================================
