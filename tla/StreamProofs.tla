---------------------------- MODULE StreamProofs ----------------------------
(***************************************************************************)
(* The input side of a STREAM hands over the bytes of its peer in their    *)
(* order, each once, for every size of the buffer and every terminator:    *)
(* it implements ByteChannel, and what each call returns is true.  And the *)
(* output side gives the kernel the bytes its callers wrote, in their      *)
(* order, each once, for every size of its buffer and its blocks.          *)
(***************************************************************************)
EXTENDS StreamInput, StreamOutput, SequenceTheorems, WellFoundedInduction, TLAPS

\* The part of the types that the order of the bytes rests on.
IndicesInv ==
  /\ sent \in Nat /\ pulled \in Nat /\ pulled <= sent
  /\ buff \in [Slots -> Nat]
  /\ inStart \in Nat /\ inEnd \in Nat /\ inStart <= inEnd /\ inEnd <= InSize
  /\ want \in Nat /\ count \in Nat
  /\ op = "bytes" => count <= want
  /\ received \in Seq(Nat)

InputInv == IndicesInv /\ InputInOrder

\* What the caller has and what is buffered, after a step that moved bytes between them.
Holds(r, b, s, e) ==
  /\ \A i \in 1..Len(r) : r[i] = i
  /\ \A i \in s..(e - 1) : b[i] = Len(r) + 1 + (i - s)

-----------------------------------------------------------------------------
\* Bytes that come from the kernel are put behind those that are there, which may have
\* been moved to the front before.
LEMMA PullKeepsOrder ==
  ASSUME InputInv, NEW k \in Nat, End + k <= InSize, pulled + k <= sent, Pull(k),
         received' = received
  PROVE  /\ pulled' \in Nat /\ pulled' <= sent
         /\ buff' \in [Slots -> Nat]
         /\ inStart' \in Nat /\ inEnd' \in Nat /\ inStart' <= inEnd' /\ inEnd' <= InSize
         /\ InputInOrder'
<1> USE StreamInputAssumption
<1>1. /\ inStart \in Nat /\ inEnd \in Nat /\ inStart <= inEnd /\ inEnd <= InSize
      /\ pulled \in Nat /\ sent \in Nat /\ Avail = inEnd - inStart /\ Avail \in Nat
      /\ Len(received) \in Nat /\ Len(received) + Avail = pulled
  BY DEF InputInv, IndicesInv, InputInOrder, Avail
<1>2. \/ MakesRoom /\ Start = 0 /\ End = Avail
      \/ ~MakesRoom /\ Start = inStart /\ End = inEnd
  BY DEF Start, End
<1>3. Start \in Nat /\ End \in Nat /\ Start <= End /\ End - Start = Avail
  BY <1>1, <1>2
<1>4. ASSUME NEW i \in Start..(End - 1)
      PROVE  i \in Slots /\ Moved[i] = Len(received) + 1 + (i - Start)
  <2>1. i \in Slots
    BY <1>1, <1>2, <1>3 DEF Slots
  <2>2. \A j \in inStart..(inEnd - 1) : buff[j] = Len(received) + 1 + (j - inStart)
    BY DEF InputInv, InputInOrder
  <2>3. CASE MakesRoom
    <3>1. Moved[i] = buff[inStart + i]
      BY <1>1, <1>2, <2>1, <2>3 DEF Moved
    <3>2. inStart + i \in inStart..(inEnd - 1)
      BY <1>1, <1>2, <2>3
    <3>3. buff[inStart + i] = Len(received) + 1 + ((inStart + i) - inStart)
      BY <2>2, <3>2
    <3>4. i \in Nat /\ Start = 0
      BY <1>2, <2>1, <2>3 DEF Slots
    <3>5. inStart + i \in Nat /\ (inStart + i) - inStart = i
      BY <1>1, <3>4
    <3> QED BY <1>1, <2>1, <3>1, <3>3, <3>4, <3>5
  <2>4. CASE ~MakesRoom
    BY <1>2, <2>1, <2>2, <2>4 DEF Moved
  <2> QED BY <2>3, <2>4
<1>5. Moved \in [Slots -> Nat]
  BY <1>1 DEF Moved, InputInv, IndicesInv, Slots, Avail
<1>6. pulled' = pulled + k /\ buff' = Filled(k) /\ inStart' = Start /\ inEnd' = End + k
  BY DEF Pull
<1>7. buff' \in [Slots -> Nat]
  <2>1. ASSUME NEW i \in Slots PROVE Filled(k)[i] \in Nat
    BY <1>1, <1>3, <1>5 DEF Filled, Slots
  <2> QED BY <1>6, <2>1 DEF Filled
<1>8. ASSUME NEW i \in inStart'..(inEnd' - 1)
      PROVE  buff'[i] = Len(received) + 1 + (i - inStart')
  <2>1. i \in Slots /\ i \in Start..(End + k - 1)
    BY <1>3, <1>6 DEF Slots
  <2>2. CASE i \in Start..(End - 1)
    BY <1>3, <1>4, <1>6, <2>1, <2>2 DEF Filled
  <2>3. CASE i \in End..(End + k - 1)
    BY <1>1, <1>3, <1>6, <2>1, <2>3 DEF Filled
  <2> QED BY <1>3, <2>1, <2>2, <2>3
<1>9. InputInOrder'
  BY <1>1, <1>3, <1>6, <1>8 DEF InputInv, InputInOrder, Avail
<1> QED BY <1>1, <1>3, <1>6, <1>7, <1>9

\* Bytes that are handed over are the next ones.
LEMMA HandOverKeepsOrder ==
  ASSUME InputInv, NEW n \in Nat, n <= Avail, HandOver(n)
  PROVE  /\ received' \in Seq(Nat) /\ Len(received') = Len(received) + n
         /\ \A i \in 1..Len(received') : received'[i] = i
         /\ count' = count + n
<1> DEFINE new == [i \in 1..n |-> buff[inStart + i - 1]]
<1>1. /\ received \in Seq(Nat) /\ Len(received) \in Nat
      /\ inStart \in Nat /\ inEnd \in Nat /\ inEnd <= InSize /\ n <= inEnd - inStart
      /\ buff \in [Slots -> Nat]
  BY DEF InputInv, IndicesInv, Avail
<1>2. \A j \in inStart..(inEnd - 1) : buff[j] = Len(received) + 1 + (j - inStart)
  BY DEF InputInv, InputInOrder
<1>3. ASSUME NEW i \in 1..n PROVE buff[inStart + i - 1] = Len(received) + i
  <2>1. inStart + i - 1 \in inStart..(inEnd - 1)
    BY <1>1
  <2>2. buff[inStart + i - 1] = Len(received) + 1 + ((inStart + i - 1) - inStart)
    BY <1>2, <2>1
  <2> QED BY <1>1, <2>2
<1>4. new \in Seq(Nat) /\ Len(new) = n /\ \A i \in 1..n : new[i] = Len(received) + i
  <2>1. ASSUME NEW i \in 1..n PROVE buff[inStart + i - 1] \in Nat
    <3>1. buff[inStart + i - 1] = Len(received) + i
      BY <1>3
    <3>2. Len(received) + i \in Nat
      BY <1>1
    <3> QED BY <3>1, <3>2
  <2> QED BY <1>3, <2>1
<1>5. received' = received \o new /\ count' = count + n
  BY DEF HandOver
<1> HIDE DEF new
<1>6. received' \in Seq(Nat) /\ Len(received') = Len(received) + n
  BY <1>1, <1>4, <1>5, ConcatProperties
<1>7. ASSUME NEW i \in 1..(Len(received) + n) PROVE received'[i] = i
  <2>1. received'[i] = IF i <= Len(received) THEN received[i] ELSE new[i - Len(received)]
    BY <1>1, <1>4, <1>5, ConcatProperties
  <2>2. CASE i <= Len(received)
    BY <1>1, <2>1, <2>2 DEF InputInv, InputInOrder
  <2>3. CASE i > Len(received)
    <3>1. i - Len(received) \in 1..n
      BY <1>1, <2>3
    <3> QED BY <1>1, <1>4, <2>1, <2>3, <3>1
  <2> QED BY <1>1, <2>2, <2>3
<1> QED BY <1>5, <1>6, <1>7

\* What is left in the buffer are the bytes behind those that were handed over.
LEMMA RestKeepsOrder ==
  ASSUME InputInv, NEW n \in Nat, n <= Avail, HandOver(n),
         inStart' = inStart + n, UNCHANGED <<pulled, buff, inEnd>>
  PROVE  InputInOrder'
<1>1. /\ Len(received) \in Nat /\ inStart \in Nat /\ inEnd \in Nat /\ n <= inEnd - inStart
      /\ Len(received) + (inEnd - inStart) = pulled
  BY DEF InputInv, IndicesInv, InputInOrder, Avail
<1>2. Len(received') = Len(received) + n /\ \A i \in 1..Len(received') : received'[i] = i
  BY HandOverKeepsOrder
<1>3. ASSUME NEW i \in (inStart + n)..(inEnd - 1)
      PROVE  buff[i] = Len(received) + n + 1 + (i - (inStart + n))
  <2>1. i \in inStart..(inEnd - 1)
    BY <1>1
  <2>2. buff[i] = Len(received) + 1 + (i - inStart)
    BY <2>1 DEF InputInv, InputInOrder
  <2> QED BY <1>1, <2>2
<1> QED BY <1>1, <1>2, <1>3 DEF InputInOrder, Avail

\* A set of numbers has a smallest one.
LEMMA HasSmallest ==
  ASSUME NEW T \in SUBSET Nat, T # {}
  PROVE  \E i \in T : \A j \in T : i <= j
<1> DEFINE R == OpToRel(<, Nat)
<1>1. \A i, j \in Nat : j < i => <<j, i>> \in R
  BY DEF OpToRel
<1>2. IsWellFoundedOn(R, Nat)
  BY NatLessThanWellFounded
<1> HIDE DEF R
<1>3. PICK i \in T : \A j \in T : <<j, i>> \notin R
  BY <1>2, WFMin
<1>4. ASSUME NEW j \in T PROVE i <= j
  <2>1. i \in Nat /\ j \in Nat
    OBVIOUS
  <2>2. ~(j < i)
    BY <1>1, <1>3, <2>1
  <2> QED BY <2>1, <2>2
<1> QED BY <1>4

\* The place of the terminator is in the buffer.
LEMMA LineFits ==
  ASSUME InputInv
  PROVE  LineBytes \in Nat /\ LineBytes <= Avail
<1>1. /\ inStart \in Nat /\ inEnd \in Nat /\ inStart <= inEnd /\ Avail = inEnd - inStart
  BY DEF InputInv, IndicesInv, Avail
<1>2. CASE TermsInBuffer # {}
  <2>1. TermsInBuffer \subseteq inStart..(inEnd - 1)
    BY DEF TermsInBuffer
  <2>2. TermsInBuffer \in SUBSET Nat
    BY <1>1, <2>1
  <2>3. \E i \in TermsInBuffer : \A j \in TermsInBuffer : i <= j
    BY <1>2, <2>2, HasSmallest
  <2>4. FirstTerm \in TermsInBuffer
    BY <2>3 DEF FirstTerm
  <2> QED BY <1>1, <1>2, <2>1, <2>4 DEF LineBytes
<1>3. CASE TermsInBuffer = {}
  BY <1>1, <1>3 DEF LineBytes
<1> QED BY <1>2, <1>3

-----------------------------------------------------------------------------
(* One lemma for the steps of each kind                                    *)

\* What every step comes to: it sends a byte, or hands over none or some.
Steps ==
  /\ InputInv'
  /\ \/ sent' = sent /\ Len(received) <= Len(received')
     \/ sent' = sent + 1 /\ received' = received

\* A read that hands over nothing.
LEMMA ReadStep ==
  ASSUME InputInv, GotBytes \/ GotEnd \/ TimedOut, sent' = sent, received' = received,
         want' = want, count' = count, op' \in {op, "none"}
  PROVE  Steps
<1>1. PICK k \in Nat : End + k <= InSize /\ pulled + k <= sent /\ Pull(k)
  <2>1. CASE GotBytes
    BY <2>1 DEF GotBytes, InputInv, IndicesInv
  <2>2. CASE GotEnd \/ TimedOut
    <3>1. Pull(0) /\ ~FullBuffer
      BY <2>2 DEF GotEnd, TimedOut
    <3>2. End \in Nat /\ End + 0 <= InSize /\ pulled + 0 <= sent
      BY <3>1, StreamInputAssumption DEF FullBuffer, End, Avail, InputInv, IndicesInv
    <3> QED BY <3>1, <3>2
  <2> QED BY <2>1, <2>2
<1>2. /\ pulled' \in Nat /\ pulled' <= sent
      /\ buff' \in [Slots -> Nat]
      /\ inStart' \in Nat /\ inEnd' \in Nat /\ inStart' <= inEnd' /\ inEnd' <= InSize
      /\ InputInOrder'
  BY <1>1, PullKeepsOrder
<1>3. IndicesInv'
  BY <1>2 DEF InputInv, IndicesInv
<1>4. Len(received) \in Nat
  BY DEF InputInv, IndicesInv
<1> QED BY <1>2, <1>3, <1>4 DEF Steps, InputInv

\* A step that leaves the bytes alone.
LEMMA IdleStep ==
  ASSUME InputInv, UNCHANGED <<bufferVars, received>>,
         sent' = sent \/ sent' = sent + 1,
         want' \in Nat, count' \in Nat, op' = "bytes" => count' <= want'
  PROVE  Steps
<1>1. IndicesInv'
  BY DEF InputInv, IndicesInv, bufferVars
<1>2. InputInOrder'
  BY DEF InputInv, InputInOrder, Avail, bufferVars
<1>3. Len(received) \in Nat
  BY DEF InputInv, IndicesInv
<1> QED BY <1>1, <1>2, <1>3 DEF Steps, InputInv

\* Bytes are handed over and the rest stays where it is.
LEMMA TransferStep ==
  ASSUME InputInv, NEW n \in Nat, n <= Avail, HandOver(n),
         inStart' = inStart + n, UNCHANGED <<sent, pulled, buff, inEnd, want>>,
         op' = "bytes" => count + n <= want
  PROVE  Steps
<1>1. /\ received' \in Seq(Nat) /\ Len(received') = Len(received) + n
      /\ count' = count + n
  BY HandOverKeepsOrder
<1>2. InputInOrder'
  BY RestKeepsOrder
<1>3. Len(received) \in Nat
  BY DEF InputInv, IndicesInv
<1>4. IndicesInv'
  BY <1>1 DEF InputInv, IndicesInv, Avail
<1> QED BY <1>1, <1>2, <1>3, <1>4 DEF Steps, InputInv

\* All of the buffer is handed over and it is filled again from its front.
LEMMA RefillStep ==
  ASSUME InputInv, HandOver(Avail), NEW k \in Nat, pulled + k <= sent, ReadAhead(k),
         UNCHANGED <<sent, want>>, op' = "bytes" => count + Avail <= want
  PROVE  Steps
<1> USE StreamInputAssumption
<1>1. /\ Avail \in Nat /\ Len(received) \in Nat /\ Len(received) + Avail = pulled
      /\ pulled \in Nat /\ buff \in [Slots -> Nat]
  BY DEF InputInv, IndicesInv, InputInOrder, Avail
<1>2. /\ received' \in Seq(Nat) /\ Len(received') = Len(received) + Avail
      /\ count' = count + Avail /\ \A i \in 1..Len(received') : received'[i] = i
  BY <1>1, HandOverKeepsOrder
<1>3. /\ k <= InSize /\ pulled' = pulled + k /\ inStart' = 0 /\ inEnd' = k
      /\ buff' = [i \in Slots |-> IF i < k THEN pulled + 1 + i ELSE buff[i]]
  BY DEF ReadAhead
<1>4. buff' \in [Slots -> Nat]
  <2>1. ASSUME NEW i \in Slots PROVE (IF i < k THEN pulled + 1 + i ELSE buff[i]) \in Nat
    BY <1>1 DEF Slots
  <2> QED BY <1>3, <2>1
<1>5. ASSUME NEW i \in 0..(k - 1) PROVE buff'[i] = pulled + 1 + i
  BY <1>3 DEF Slots
<1>6. InputInOrder'
  BY <1>1, <1>2, <1>3, <1>5 DEF InputInOrder, Avail
<1>7. IndicesInv'
  BY <1>1, <1>2, <1>3, <1>4 DEF InputInv, IndicesInv
<1> QED BY <1>1, <1>2, <1>6, <1>7 DEF Steps, InputInv

LEMMA BytesStep == InputInv /\ BytesTransfer => Steps
<1> SUFFICES ASSUME InputInv, BytesTransfer PROVE Steps
  OBVIOUS
<1>1. /\ Avail \in Nat /\ want \in Nat /\ count \in Nat /\ count <= want
      /\ inEnd = inStart + Avail /\ pulled \in Nat /\ sent \in Nat /\ pulled <= sent
  BY DEF BytesTransfer, InputInv, IndicesInv, Avail
<1>2. Transferred \in Nat /\ Transferred <= Avail /\ count + Transferred <= want
  BY <1>1 DEF Transferred
<1>3. HandOver(Transferred) /\ sent' = sent /\ want' = want
  BY DEF BytesTransfer, peerVars
<1>4. count' = count + Transferred
  BY <1>3 DEF HandOver
<1>5. CASE Transferred < Avail
  <2>1. inStart' = inStart + Transferred /\ UNCHANGED <<pulled, buff, inEnd>>
    BY <1>5 DEF BytesTransfer
  <2> QED BY <1>2, <1>3, <2>1, TransferStep
<1>6. CASE ~(Transferred < Avail)
  <2>1. Transferred = Avail
    BY <1>1, <1>2, <1>6
  <2>2. \/ inStart' = inEnd /\ UNCHANGED <<pulled, buff, inEnd>>
        \/ \E k \in 1..(sent - pulled) : ReadAhead(k)
        \/ pulled = sent /\ ReadAhead(0)
    BY <1>6 DEF BytesTransfer
  <2>3. CASE inStart' = inEnd /\ UNCHANGED <<pulled, buff, inEnd>>
    <3>1. inStart' = inStart + Transferred
      BY <1>1, <2>1, <2>3
    <3> QED BY <1>2, <1>3, <2>3, <3>1, TransferStep
  <2>4. CASE \E k \in 1..(sent - pulled) : ReadAhead(k)
    <3>1. PICK k \in Nat : pulled + k <= sent /\ ReadAhead(k)
      BY <1>1, <2>4
    <3> QED BY <1>2, <1>3, <2>1, <3>1, RefillStep
  <2>5. CASE pulled = sent /\ ReadAhead(0)
    <3>1. pulled + 0 <= sent
      BY <1>1, <2>5
    <3> QED BY <1>2, <1>3, <2>1, <2>5, <3>1, RefillStep
  <2> QED BY <2>2, <2>3, <2>4, <2>5
<1> QED BY <1>5, <1>6

LEMMA InputStep == InputInv /\ InputNext => Steps
<1> SUFFICES ASSUME InputInv, InputNext PROVE Steps
  OBVIOUS
<1> USE StreamInputAssumption
<1>1. want \in Nat /\ count \in Nat /\ (op = "bytes" => count <= want)
  BY DEF InputInv, IndicesInv
<1>2. CASE ReadLine \/ ReadBytes
  <2>1. /\ UNCHANGED <<bufferVars, received>> /\ sent' = sent
        /\ want' \in Nat /\ count' = 0
    BY <1>2 DEF ReadLine, ReadBytes, Call, peerVars
  <2>2. count' \in Nat /\ count' <= want'
    BY <2>1
  <2> QED BY <2>1, <2>2, IdleStep
<1>3. CASE LineTransfer
  <2>1. /\ HandOver(LineBytes) /\ inStart' = inStart + LineBytes /\ op = "line"
        /\ UNCHANGED <<sent, pulled, buff, inEnd, want>>
    BY <1>3 DEF LineTransfer, peerVars
  <2>2. op' # "bytes"
    BY <1>3, <2>1 DEF LineTransfer, Return
  <2> QED BY <2>1, <2>2, LineFits, TransferStep
<1>4. CASE LineEnds
  <2>1. UNCHANGED <<bufferVars, received, sent, want, count>> /\ op' = "none"
    BY <1>4 DEF LineEnds, Return, peerVars
  <2> QED BY <1>1, <2>1, IdleStep
<1>5. CASE LineReads
  <2>1. /\ GotBytes \/ GotEnd \/ TimedOut
        /\ UNCHANGED <<sent, received, want, count>> /\ op' \in {op, "none"}
    BY <1>5 DEF LineReads, Return, peerVars
  <2> QED BY <2>1, ReadStep
<1>6. CASE FirstRead
  <2>1. /\ GotBytes \/ GotEnd \/ TimedOut
        /\ UNCHANGED <<sent, received, want, count>> /\ op' \in {op, "none"}
    BY <1>6 DEF FirstRead, Return, peerVars
  <2> QED BY <2>1, ReadStep
<1>7. CASE Peek
  <2>1. /\ GotBytes \/ GotEnd \/ TimedOut
        /\ UNCHANGED <<sent, received, want, count, op>>
    BY <1>7 DEF Peek, peerVars
  <2> QED BY <2>1, ReadStep
<1>8. CASE PeerSends \/ PeerCloses
  <2>1. /\ UNCHANGED <<bufferVars, received, want, count, op>>
        /\ sent' = sent \/ sent' = sent + 1
    BY <1>8 DEF PeerSends, PeerCloses
  <2> QED BY <1>1, <2>1, IdleStep
<1> QED BY <1>2, <1>3, <1>4, <1>5, <1>6, <1>7, <1>8, BytesStep DEF InputNext, Reader

LEMMA InputStarts == InputInit => InputInv
<1> SUFFICES ASSUME InputInit PROVE InputInv
  OBVIOUS
<1>1. IndicesInv
  BY StreamInputAssumption DEF InputInit, IndicesInv
<1>2. InputInOrder
  BY DEF InputInit, InputInOrder, Avail
<1> QED BY <1>1, <1>2 DEF InputInv

\* The bytes of the peer as the channel sees them.
LEMMA PeersBytes ==
  ASSUME NEW n \in Nat
  PROVE  Len([i \in 1..n |-> i]) = n /\ \A i \in 1..n : [j \in 1..n |-> j][i] = i
OBVIOUS

LEMMA InputKeepsInv == InputInv /\ [InputNext]_inVars => InputInv'
<1>1. InputInv /\ UNCHANGED inVars => InputInv'
  BY DEF InputInv, IndicesInv, InputInOrder, Avail, inVars
<1>2. Steps => InputInv'
  BY DEF Steps
<1> QED BY <1>1, <1>2, InputStep

\* The bytes that were handed over are the first the peer sent, in their order, and the
\* buffer has the next ones, however the reads and the calls fall.
THEOREM BytesInOrder == InputSpec => []InputInOrder
<1>1. InputInv => InputInOrder
  BY DEF InputInv
<1> QED BY <1>1, InputStarts, InputKeepsInv, PTL DEF InputSpec

\* For every size of the buffer, every terminator and every peer, the input side of a
\* stream is a channel: no byte is lost, repeated or out of its place.
THEOREM StreamIsChannel == InputSpec => InputIsChannel
<1>1. InputInit => Channel!Init
  <2> SUFFICES ASSUME InputInit PROVE Channel!Init
    OBVIOUS
  <2>1. sent = 0 /\ received = <<>>
    BY DEF InputInit
  <2>2. [i \in 1..0 |-> i] = <<>>
    OBVIOUS
  <2> QED BY <2>1, <2>2 DEF Channel!Init
<1>2. InputInv /\ [InputNext]_inVars => [Channel!Send \/ Channel!Receive]_<<[i \in 1..sent |-> i], received>>
  <2> SUFFICES ASSUME InputInv, [InputNext]_inVars
               PROVE  [Channel!Send \/ Channel!Receive]_<<[i \in 1..sent |-> i], received>>
    OBVIOUS
  <2>1. CASE UNCHANGED inVars
    BY <2>1 DEF inVars
  <2>2. CASE InputNext
    <3>1. Steps
      BY <2>2, InputStep
    <3>2. /\ sent \in Nat /\ sent' \in Nat /\ Len(received) \in Nat /\ Len(received') \in Nat
          /\ Len(received') <= sent' /\ \A i \in 1..Len(received') : received'[i] = i
      <4>1. InputInv'
        BY <3>1 DEF Steps
      <4>2. sent \in Nat /\ Len(received) \in Nat
        BY DEF InputInv, IndicesInv
      <4>3. /\ sent' \in Nat /\ Len(received') \in Nat
            /\ inStart' \in Nat /\ inEnd' \in Nat /\ inStart' <= inEnd'
            /\ pulled' <= sent' /\ pulled' \in Nat
        BY <4>1 DEF InputInv, IndicesInv
      <4>4. /\ Len(received') + (inEnd' - inStart') = pulled'
            /\ \A i \in 1..Len(received') : received'[i] = i
        BY <4>1 DEF InputInv, InputInOrder, Avail
      <4> QED BY <4>2, <4>3, <4>4
    <3>3. CASE sent' = sent /\ Len(received) <= Len(received')
      <4>1. Channel!Receive
        BY <3>2, <3>3, PeersBytes DEF Channel!Receive
      <4> QED BY <4>1
    <3>4. CASE sent' = sent + 1 /\ received' = received
      <4>1. Channel!Send
        BY <3>2, <3>4, PeersBytes DEF Channel!Send
      <4> QED BY <4>1
    <3> QED BY <3>1, <3>3, <3>4 DEF Steps
  <2> QED BY <2>1, <2>2
<1> QED BY <1>1, <1>2, InputStarts, InputKeepsInv, PTL DEF InputSpec, InputIsChannel, Channel!Spec

-----------------------------------------------------------------------------
(* The output side                                                         *)

\* Types, and room for what the buffer holds.
NumbersInv ==
  /\ offered \in Nat /\ todo \in Nat /\ todo <= offered
  /\ outBuff \in Seq(Nat) /\ wire \in Seq(Nat) /\ Len(outBuff) <= OutSize
  /\ startPoint \in Nat

\* Which numbers go with which place of a call.
CallInv ==
  /\ pushing \in Nat /\ pushed \in Nat /\ pushed <= pushing /\ pushing <= Len(outBuff)
  /\ pc # "push" => pushing = 0
  /\ pc = "idle" => todo = 0
  /\ pc = "idle" <=> call = "none"
  /\ call \in {"flush", "close", "lineflush"} => todo = 0 /\ pc = "push"
  /\ pc = "push" /\ pushing = 0 => call \in {"flush", "close"}

CountsInv == NumbersInv /\ CallInv

\* The bytes on the wire are the first ones that were offered, those in the buffer that
\* are not on the wire yet are the next ones, and those still to be queued the last.
SentInOrder ==
  ~nonblock /\ ~gone =>
    /\ Len(wire) + (Len(outBuff) - pushed) + todo = offered
    /\ \A i \in 1..Len(wire) : wire[i] = i
    /\ \A i \in 1..Len(outBuff) : i > pushed => outBuff[i] = Len(wire) + (i - pushed)

\* A stream that blocks and does not flush in blocks pushes all of its buffer; and what a
\* call that has returned left behind.
FlushInv ==
  /\ told # "none" => pc = "idle"
  /\ ~open => call = "none"
  /\ flush # "block" /\ pc = "push" => pushing = Len(outBuff)
  /\ KeepsNothingBack

OutInv == CountsInv /\ SentInOrder /\ FlushInv

LEMMA OutStarts == OutputInit => OutInv
<1> SUFFICES ASSUME OutputInit PROVE OutInv
  OBVIOUS
<1> USE StreamOutputAssumption
<1>1. outBuff \in Seq(Nat) /\ wire \in Seq(Nat) /\ Len(outBuff) = 0 /\ Len(wire) = 0
  BY EmptySeq DEF OutputInit
<1>2. CountsInv
  <2>1. startPoint \in Nat /\ OutSize \in Nat
    BY DEF OutputInit
  <2>2. pc = "idle" /\ call = "none" /\ todo = 0 /\ offered = 0 /\ pushing = 0 /\ pushed = 0
    BY DEF OutputInit
  <2> QED BY <1>1, <2>1, <2>2 DEF CountsInv, NumbersInv, CallInv
<1>3. SentInOrder
  BY <1>1 DEF OutputInit, SentInOrder
<1>4. FlushInv
  BY DEF OutputInit, FlushInv, KeepsNothingBack, CloseSendsAll, AlwaysFlushed, LineFlushed
<1> QED BY <1>2, <1>3, <1>4 DEF OutInv

\* What is left of the buffer.
LEMMA RestOf ==
  ASSUME outBuff \in Seq(Nat), NEW n \in Nat, n <= Len(outBuff)
  PROVE  /\ Rest(n) \in Seq(Nat) /\ Len(Rest(n)) = Len(outBuff) - n
         /\ \A i \in 1..(Len(outBuff) - n) : Rest(n)[i] = outBuff[n + i]
<1>1. Len(outBuff) \in Nat
  BY LenProperties
<1>2. \A i \in (n + 1)..Len(outBuff) : outBuff[i] \in Nat
  BY <1>1, ElementOfSeq
<1>3. /\ SubSeq(outBuff, n + 1, Len(outBuff)) \in Seq(Nat)
      /\ Len(SubSeq(outBuff, n + 1, Len(outBuff)))
           = IF n + 1 <= Len(outBuff) THEN Len(outBuff) - (n + 1) + 1 ELSE 0
      /\ \A i \in 1..(Len(outBuff) - (n + 1) + 1) :
           SubSeq(outBuff, n + 1, Len(outBuff))[i] = outBuff[(n + 1) + i - 1]
  <2> DEFINE m == n + 1  k == Len(outBuff)
  <2>1. m \in Int /\ k \in Int /\ \A i \in m..k : outBuff[i] \in Nat
    BY <1>1, <1>2
  <2> HIDE DEF m, k
  <2>2. /\ SubSeq(outBuff, m, k) \in Seq(Nat)
        /\ Len(SubSeq(outBuff, m, k)) = IF m <= k THEN k - m + 1 ELSE 0
        /\ \A i \in 1..(k - m + 1) : SubSeq(outBuff, m, k)[i] = outBuff[m + i - 1]
    BY <2>1, SubSeqProperties
  <2> QED BY <2>2 DEF m, k
<1>4. Len(Rest(n)) = Len(outBuff) - n /\ Rest(n) \in Seq(Nat)
  BY <1>1, <1>3 DEF Rest
<1>5. ASSUME NEW i \in 1..(Len(outBuff) - n) PROVE Rest(n)[i] = outBuff[n + i]
  BY <1>1, <1>3 DEF Rest
<1> QED BY <1>4, <1>5

\* The kernel takes k bytes behind those that are on the wire.
LEMMA WireGrows ==
  ASSUME CountsInv, NEW k \in 1..(pushing - pushed),
         wire' = wire \o SubSeq(outBuff, pushed + 1, pushed + k)
  PROVE  /\ wire' \in Seq(Nat) /\ Len(wire') = Len(wire) + k
         /\ \A i \in 1..Len(wire) : wire'[i] = wire[i]
         /\ \A i \in 1..k : wire'[Len(wire) + i] = outBuff[pushed + i]
<1>1. /\ Len(outBuff) \in Nat /\ Len(wire) \in Nat /\ pushed \in Nat /\ pushing \in Nat
      /\ pushing <= Len(outBuff) /\ outBuff \in Seq(Nat) /\ wire \in Seq(Nat)
      /\ k \in Nat /\ k > 0 /\ pushed + k <= pushing
  BY LenProperties DEF CountsInv, NumbersInv, CallInv
<1> DEFINE m == pushed + 1  n == pushed + k  taken == SubSeq(outBuff, m, n)
<1>2. m \in Int /\ n \in Int /\ m <= n /\ n - m + 1 = k
  BY <1>1
<1>3. \A i \in m..n : outBuff[i] \in Nat
  BY <1>1, ElementOfSeq
<1>4. m = pushed + 1
  OBVIOUS
<1> HIDE DEF m, n
<1>5. /\ taken \in Seq(Nat)
      /\ Len(taken) = IF m <= n THEN n - m + 1 ELSE 0
      /\ \A i \in 1..(n - m + 1) : taken[i] = outBuff[m + i - 1]
  BY <1>2, <1>3, SubSeqProperties
<1>6. wire' = wire \o taken
  BY DEF m, n
<1> HIDE DEF taken
<1>7. Len(taken) = k
  BY <1>2, <1>5
<1> DEFINE all == wire \o taken
<1>8. /\ all \in Seq(Nat) /\ Len(all) = Len(wire) + k
      /\ \A i \in 1..(Len(wire) + k) :
           all[i] = IF i <= Len(wire) THEN wire[i] ELSE taken[i - Len(wire)]
  BY <1>1, <1>5, <1>7, ConcatProperties
<1> HIDE DEF all
<1>9. /\ wire' \in Seq(Nat) /\ Len(wire') = Len(wire) + k
      /\ \A i \in 1..(Len(wire) + k) :
           wire'[i] = IF i <= Len(wire) THEN wire[i] ELSE taken[i - Len(wire)]
  BY <1>6, <1>8 DEF all
<1>10. ASSUME NEW i \in 1..k PROVE wire'[Len(wire) + i] = outBuff[pushed + i]
  <2>1. Len(wire) + i \in 1..(Len(wire) + k) /\ ~(Len(wire) + i <= Len(wire))
    BY <1>1
  <2>2. wire'[Len(wire) + i] = taken[(Len(wire) + i) - Len(wire)]
    BY <1>9, <2>1
  <2>3. (Len(wire) + i) - Len(wire) = i /\ m + i - 1 = pushed + i
    BY <1>1, <1>4
  <2>4. taken[i] = outBuff[m + i - 1]
    BY <1>2, <1>5
  <2> QED BY <2>2, <2>3, <2>4
<1>11. \A i \in 1..Len(wire) : wire'[i] = wire[i]
  BY <1>1, <1>9
<1> QED BY <1>9, <1>10, <1>11

\* n bytes of the call are put behind those that are in the buffer.
LEMMA BufferGrows ==
  ASSUME CountsInv, NEW n \in Nat, n <= todo
  PROVE  LET buffer == outBuff \o NextBytes(n) IN
         /\ buffer \in Seq(Nat) /\ Len(buffer) = Len(outBuff) + n
         /\ \A i \in 1..Len(outBuff) : buffer[i] = outBuff[i]
         /\ \A i \in 1..n : buffer[Len(outBuff) + i] = offered - todo + i
<1>1. /\ Len(outBuff) \in Nat /\ outBuff \in Seq(Nat)
      /\ offered \in Nat /\ todo \in Nat /\ todo <= offered
  BY LenProperties DEF CountsInv, NumbersInv, CallInv
<1> DEFINE next == NextBytes(n)  buffer == outBuff \o next
<1>2. /\ next \in Seq(Nat) /\ Len(next) = n
      /\ \A i \in 1..n : next[i] = offered - todo + i
  BY <1>1 DEF NextBytes
<1> HIDE DEF next
<1>3. buffer \in Seq(Nat) /\ Len(buffer) = Len(outBuff) + n
  BY <1>1, <1>2, ConcatProperties
<1>4. \A i \in 1..(Len(outBuff) + n) :
        buffer[i] = IF i <= Len(outBuff) THEN outBuff[i] ELSE next[i - Len(outBuff)]
  BY <1>1, <1>2, ConcatProperties
<1> HIDE DEF buffer
<1>5. ASSUME NEW i \in 1..n PROVE buffer[Len(outBuff) + i] = offered - todo + i
  <2>1. /\ Len(outBuff) + i \in 1..(Len(outBuff) + n) /\ ~(Len(outBuff) + i <= Len(outBuff))
        /\ (Len(outBuff) + i) - Len(outBuff) = i
    BY <1>1
  <2>2. buffer[Len(outBuff) + i] = next[(Len(outBuff) + i) - Len(outBuff)]
    BY <1>4, <2>1
  <2> QED BY <1>2, <2>1, <2>2
<1>6. \A i \in 1..Len(outBuff) : buffer[i] = outBuff[i]
  BY <1>1, <1>4
<1>7. buffer = outBuff \o NextBytes(n)
  BY DEF buffer, next
<1> QED BY <1>3, <1>5, <1>6, <1>7

\* A push takes all of the buffer or a block, and something of what is not empty.
LEMMA DataLenOf ==
  ASSUME NEW buffer \in Seq(Nat)
  PROVE  /\ DataLen(buffer) \in Nat /\ DataLen(buffer) <= Len(buffer)
         /\ buffer # <<>> => DataLen(buffer) > 0
         /\ flush # "block" => DataLen(buffer) = Len(buffer)
<1>1. Len(buffer) \in Nat /\ (buffer # <<>> => Len(buffer) > 0)
  BY LenProperties, EmptySeq
<1> QED BY <1>1, StreamOutputAssumption DEF DataLen

\* The end of a write, whether a line is pushed behind it or not.
LEMMA QueueReturnsWell ==
  ASSUME OutInv, NEW buffer \in Seq(Nat), outBuff' = buffer, QueueReturns(buffer),
         call \notin {"none", "flush", "close", "lineflush"}, UNCHANGED settings,
         flush = "always" /\ ~nonblock /\ startPoint' = 0 => buffer = <<>>
  PROVE  todo' = 0 /\ pushed' = 0 /\ CallInv' /\ FlushInv'
<1>1. /\ pc # "idle" /\ told = "none" /\ open
      /\ flush' = flush /\ nonblock' = nonblock
  BY DEF OutInv, CountsInv, CallInv, FlushInv, settings
<1>2. CASE FlushesLine(buffer)
  <2>1. /\ call' = "lineflush" /\ todo' = 0 /\ pc' = "push" /\ pushing' = DataLen(buffer)
        /\ pushed' = 0 /\ told' = told /\ open' = open
    BY <1>2 DEF QueueReturns, BeginPush
  <2>2. buffer # <<>>
    BY <1>2 DEF FlushesLine
  <2>3. CallInv'
    BY <2>1, <2>2, DataLenOf DEF CallInv
  <2>4. FlushInv'
    BY <1>1, <2>1, DataLenOf DEF FlushInv, KeepsNothingBack, CloseSendsAll, AlwaysFlushed, LineFlushed
  <2> QED BY <2>1, <2>3, <2>4
<1>3. CASE ~FlushesLine(buffer)
  <2>1. /\ call' = "none" /\ todo' = 0 /\ pc' = "idle" /\ pushing' = 0 /\ pushed' = 0
        /\ told' = IF call = "writeline" THEN "lined" ELSE "written"
        /\ open'
    BY <1>1, <1>3 DEF QueueReturns, EndCall, EndPush
  <2>2. CallInv'
    <3>1. Len(outBuff') \in Nat
      BY LenProperties
    <3> QED BY <2>1, <3>1 DEF CallInv
  <2>3. flush = "line" /\ told' = "lined" => buffer = <<>>
    BY <1>3, <2>1 DEF FlushesLine
  <2>4. FlushInv'
    BY <1>1, <2>1, <2>3 DEF FlushInv, KeepsNothingBack, CloseSendsAll, AlwaysFlushed, LineFlushed
  <2> QED BY <2>1, <2>2, <2>4
<1> QED BY <1>2, <1>3

\* The end of a push of n bytes, to whichever of its callers.
LEMMA PushReturnsWell ==
  ASSUME OutInv, pc = "push", NEW n \in Nat, n <= pushing, PushReturns(n),
         nonblock \/ (n = pushing /\ n > 0), UNCHANGED settings
  PROVE  /\ outBuff' = Rest(n) /\ startPoint' \in Nat
         /\ todo' \in {0, todo} /\ (n > 0 => todo' = todo)
         /\ pushed' = 0 /\ CallInv' /\ FlushInv'
<1>1. /\ outBuff \in Seq(Nat) /\ pushing \in Nat /\ pushing <= Len(outBuff)
      /\ call # "none" /\ told = "none" /\ open /\ todo \in Nat /\ startPoint \in Nat
      /\ flush' = flush /\ nonblock' = nonblock
      /\ call \in {"flush", "close", "lineflush"} => todo = 0
      /\ flush # "block" => pushing = Len(outBuff)
  BY DEF OutInv, CountsInv, NumbersInv, CallInv, FlushInv, settings
<1>2. Len(outBuff) \in Nat /\ n <= Len(outBuff)
  BY <1>1, LenProperties
<1>3. /\ Rest(n) \in Seq(Nat) /\ Len(Rest(n)) = Len(outBuff) - n
      /\ \A i \in 1..(Len(outBuff) - n) : Rest(n)[i] = outBuff[n + i]
  BY <1>1, <1>2, RestOf
<1>4. ~nonblock /\ flush # "block" => Rest(n) = <<>>
  <2>1. ASSUME Rest(n) # <<>> PROVE Len(Rest(n)) \in Nat \ {0}
    BY <1>3, <2>1, EmptySeq
  <2> QED BY <1>1, <1>2, <1>3, <2>1
<1>5. outBuff' = Rest(n)
  BY DEF PushReturns
<1>6. CASE call \in {"flush", "close", "lineflush"}
  <2>1. /\ call' = "none" /\ pc' = "idle" /\ todo' = 0 /\ pushing' = 0 /\ pushed' = 0
        /\ told' = Flushed /\ startPoint' = startPoint
    BY <1>6 DEF PushReturns, EndCall, EndPush
  <2>2. CallInv'
    BY <1>2, <1>3, <1>5, <2>1 DEF CallInv
  <2>3. FlushInv'
    BY <1>1, <1>4, <1>5, <2>1
    DEF FlushInv, KeepsNothingBack, CloseSendsAll, AlwaysFlushed, LineFlushed, Flushed
  <2> QED BY <1>1, <1>5, <1>6, <2>1, <2>2, <2>3
<1>7. CASE call \notin {"flush", "close", "lineflush"} /\ n = 0
  <2>1. QueueReturns(outBuff) /\ startPoint' = startPoint /\ nonblock
    BY <1>7 DEF PushReturns
  <2>2. Rest(n) = outBuff
    <3>1. Len(Rest(n)) = Len(outBuff) /\ \A i \in 1..Len(Rest(n)) : Rest(n)[i] = outBuff[i]
      BY <1>2, <1>3, <1>7
    <3> QED BY <1>1, <1>3, <3>1, SeqEqual
  <2>3. todo' = 0 /\ pushed' = 0 /\ CallInv' /\ FlushInv'
    BY <1>1, <1>5, <1>7, <2>1, <2>2, QueueReturnsWell
  <2> QED BY <1>1, <1>5, <1>7, <2>1, <2>3
<1>8. CASE call \notin {"flush", "close", "lineflush"} /\ n > 0 /\ todo > 0
  <2>1. /\ pc' = "queue" /\ pushing' = 0 /\ pushed' = 0 /\ startPoint' = 0
        /\ call' = call /\ todo' = todo /\ told' = told /\ open' = open
    BY <1>8 DEF PushReturns, EndPush
  <2>2. CallInv'
    BY <1>1, <1>2, <1>3, <1>5, <1>8, <2>1 DEF CallInv
  <2>3. FlushInv'
    BY <1>1, <2>1 DEF FlushInv, KeepsNothingBack, CloseSendsAll, AlwaysFlushed, LineFlushed
  <2> QED BY <1>5, <2>1, <2>2, <2>3
<1>9. CASE call \notin {"flush", "close", "lineflush"} /\ n > 0 /\ ~(todo > 0)
  <2>1. QueueReturns(Rest(n)) /\ startPoint' = 0
    BY <1>9 DEF PushReturns
  <2>2. todo' = 0 /\ pushed' = 0 /\ CallInv' /\ FlushInv'
    BY <1>1, <1>3, <1>4, <1>5, <1>9, <2>1, QueueReturnsWell
  <2> QED BY <1>1, <1>5, <1>9, <2>1, <2>2
<1> QED BY <1>1, <1>6, <1>7, <1>8, <1>9

-----------------------------------------------------------------------------
\* The kernel takes some bytes: the push goes on or is over.
LEMMA PushStep == OutInv /\ Push => OutInv'
<1> SUFFICES ASSUME OutInv, Push PROVE OutInv'
  OBVIOUS
<1>1. PICK k \in 1..(pushing - pushed) :
        /\ wire' = wire \o SubSeq(outBuff, pushed + 1, pushed + k)
        /\ IF pushed + k = pushing \/ nonblock
             THEN PushReturns(pushed + k)
             ELSE /\ pushed' = pushed + k
                  /\ UNCHANGED <<outBuff, pushing, call, pc, todo, told, open, startPoint>>
  BY DEF Push
<1>2. /\ pc = "push" /\ UNCHANGED settings /\ flush' = flush /\ nonblock' = nonblock
      /\ offered' = offered /\ gone' = gone /\ ~gone
  BY DEF Push, settings
<1>3. CountsInv /\ SentInOrder /\ FlushInv
  BY DEF OutInv
<1>4. /\ outBuff \in Seq(Nat) /\ Len(outBuff) \in Nat /\ Len(outBuff) <= OutSize
      /\ wire \in Seq(Nat) /\ Len(wire) \in Nat
      /\ pushing \in Nat /\ pushed \in Nat /\ pushing <= Len(outBuff)
      /\ todo \in Nat /\ offered \in Nat /\ todo <= offered /\ startPoint \in Nat
      /\ OutSize \in Nat
  BY <1>3, LenProperties, StreamOutputAssumption DEF CountsInv, NumbersInv, CallInv
<1> DEFINE n == pushed + k
<1>5. n \in Nat /\ n > 0 /\ n <= pushing /\ n <= Len(outBuff) /\ k \in Nat
  BY <1>4
<1>6. /\ wire' \in Seq(Nat) /\ Len(wire') = Len(wire) + k
      /\ \A i \in 1..Len(wire) : wire'[i] = wire[i]
      /\ \A i \in 1..k : wire'[Len(wire) + i] = outBuff[pushed + i]
  BY <1>1, <1>3, WireGrows
\* Whatever becomes of the push, the wire goes on.
<1>7. ~nonblock => \A i \in 1..Len(wire') : wire'[i] = i
  <2> SUFFICES ASSUME ~nonblock, NEW i \in 1..(Len(wire) + k) PROVE wire'[i] = i
    BY <1>6
  <2>1. CASE i <= Len(wire)
    <3>1. \A j \in 1..Len(wire) : wire[j] = j
      BY <1>2, <1>3 DEF SentInOrder
    <3>2. i \in 1..Len(wire)
      BY <1>4, <2>1
    <3> QED BY <1>6, <3>1, <3>2
  <2>2. CASE ~(i <= Len(wire))
    <3>1. /\ i - Len(wire) \in 1..k /\ Len(wire) + (i - Len(wire)) = i
          /\ pushed + (i - Len(wire)) \in 1..Len(outBuff) /\ pushed + (i - Len(wire)) > pushed
          /\ Len(wire) + ((pushed + (i - Len(wire))) - pushed) = i
      BY <1>4, <1>5, <2>2
    <3>2. wire'[i] = outBuff[pushed + (i - Len(wire))]
      BY <1>6, <3>1
    <3> QED BY <1>2, <1>3, <3>1, <3>2 DEF SentInOrder
  <2> QED BY <2>1, <2>2
<1>8. CASE n = pushing \/ nonblock
  <2>1. PushReturns(n)
    BY <1>1, <1>8
  <2>2. nonblock \/ (n = pushing /\ n > 0)
    BY <1>5, <1>8
  <2> HIDE DEF n
  <2>3. /\ outBuff' = Rest(n) /\ startPoint' \in Nat /\ todo' = todo
        /\ pushed' = 0 /\ CallInv' /\ FlushInv'
    BY <1>2, <1>5, <2>1, <2>2, PushReturnsWell
  <2>4. /\ Rest(n) \in Seq(Nat) /\ Len(Rest(n)) = Len(outBuff) - n
        /\ \A i \in 1..(Len(outBuff) - n) : Rest(n)[i] = outBuff[n + i]
    BY <1>4, <1>5, RestOf
  <2>5. NumbersInv'
    BY <1>2, <1>3, <1>4, <1>5, <1>6, <2>3, <2>4 DEF CountsInv, NumbersInv
  <2>6. SentInOrder'
    <3> SUFFICES ASSUME ~nonblock
                 PROVE  /\ Len(wire') + (Len(outBuff') - pushed') + todo' = offered'
                        /\ \A i \in 1..Len(outBuff') :
                             i > pushed' => outBuff'[i] = Len(wire') + (i - pushed')
      BY <1>2, <1>7 DEF SentInOrder
    <3>1. /\ Len(wire) + (Len(outBuff) - pushed) + todo = offered
          /\ \A i \in 1..Len(outBuff) : i > pushed => outBuff[i] = Len(wire) + (i - pushed)
      BY <1>2, <1>3 DEF SentInOrder
    <3>2. Len(wire') + (Len(outBuff') - pushed') + todo' = offered'
      <4>1. /\ Len(wire') = Len(wire) + k /\ Len(outBuff') = Len(outBuff) - n
            /\ pushed' = 0 /\ todo' = todo /\ offered' = offered
        BY <1>2, <1>6, <2>3, <2>4
      <4>2. Len(wire) + (Len(outBuff) - pushed) + todo = offered
        BY <3>1
      <4> QED BY <1>4, <1>5, <4>1, <4>2, SMTT(30) DEF n
    <3>3. ASSUME NEW i \in 1..(Len(outBuff) - n)
          PROVE  Rest(n)[i] = (Len(wire) + k) + (i - 0)
      <4>1. /\ n + i \in 1..Len(outBuff) /\ n + i > pushed
            /\ Len(wire) + ((n + i) - pushed) = (Len(wire) + k) + (i - 0)
        BY <1>4, <1>5 DEF n
      <4> QED BY <2>4, <3>1, <4>1
    <3> QED BY <1>6, <2>3, <2>4, <3>2, <3>3
  <2> QED BY <2>3, <2>5, <2>6 DEF OutInv, CountsInv
<1>9. CASE ~(n = pushing \/ nonblock)
  <2>1. pushed' = n /\ UNCHANGED <<outBuff, pushing, call, pc, todo, told, open, startPoint>>
    BY <1>1, <1>9
  <2>2. NumbersInv' /\ CallInv'
    BY <1>2, <1>3, <1>4, <1>5, <1>6, <2>1 DEF CountsInv, NumbersInv, CallInv
  <2>3. SentInOrder'
    <3>1. /\ Len(wire) + (Len(outBuff) - pushed) + todo = offered
          /\ \A i \in 1..Len(outBuff) : i > pushed => outBuff[i] = Len(wire) + (i - pushed)
      BY <1>2, <1>3, <1>9 DEF SentInOrder
    <3>2. (Len(wire) + k) + (Len(outBuff) - n) + todo = offered
      <4>1. Len(wire) + (Len(outBuff) - pushed) + todo = offered
        BY <3>1
      <4> QED BY <1>4, <1>5, <4>1, SMTT(30)
    <3>3. ASSUME NEW i \in 1..Len(outBuff), i > n
          PROVE  outBuff[i] = (Len(wire) + k) + (i - n)
      <4>1. i > pushed /\ Len(wire) + (i - pushed) = (Len(wire) + k) + (i - n)
        BY <1>4, <1>5, <3>3
      <4> QED BY <3>1, <4>1
    <3>4. /\ Len(wire') = Len(wire) + k /\ pushed' = n /\ outBuff' = outBuff
          /\ todo' = todo /\ offered' = offered
      BY <1>2, <1>6, <2>1
    <3> HIDE DEF n
    <3> QED BY <1>2, <1>7, <1>9, <3>2, <3>3, <3>4 DEF SentInOrder
  <2>4. FlushInv'
    BY <1>2, <1>3, <2>1
    DEF FlushInv, KeepsNothingBack, CloseSendsAll, AlwaysFlushed, LineFlushed
  <2> QED BY <2>2, <2>3, <2>4 DEF OutInv, CountsInv
<1> QED BY <1>8, <1>9

\* No room for a stream that does not block: part of what it was given may be dropped.
LEMMA PushNothingStep == OutInv /\ PushNothing => OutInv'
<1> SUFFICES ASSUME OutInv, PushNothing PROVE OutInv'
  OBVIOUS
<1>1. /\ pc = "push" /\ nonblock /\ PushReturns(pushed) /\ UNCHANGED settings
      /\ flush' = flush /\ nonblock' = nonblock
      /\ UNCHANGED <<offered, wire, room, gone>>
  BY DEF PushNothing, settings, peer
<1>2. /\ outBuff \in Seq(Nat) /\ Len(outBuff) \in Nat /\ Len(outBuff) <= OutSize
      /\ pushed \in Nat /\ pushed <= pushing /\ pushing \in Nat /\ pushing <= Len(outBuff)
      /\ pushed <= Len(outBuff) /\ OutSize \in Nat
  BY LenProperties, StreamOutputAssumption DEF OutInv, CountsInv, NumbersInv, CallInv
<1>3. /\ outBuff' = Rest(pushed) /\ startPoint' \in Nat /\ todo' \in {0, todo}
      /\ CallInv' /\ FlushInv'
  BY <1>1, <1>2, PushReturnsWell
<1>4. Rest(pushed) \in Seq(Nat) /\ Len(Rest(pushed)) = Len(outBuff) - pushed
  BY <1>2, RestOf
<1>5. NumbersInv'
  BY <1>1, <1>2, <1>3, <1>4 DEF OutInv, CountsInv, NumbersInv
<1>6. SentInOrder'
  BY <1>1 DEF SentInOrder
<1> QED BY <1>3, <1>5, <1>6 DEF OutInv, CountsInv

LEMMA PushFailsStep == OutInv /\ PushFails => OutInv'
<1> SUFFICES ASSUME OutInv, PushFails PROVE OutInv'
  OBVIOUS
<1>1. /\ gone /\ outBuff' = Rest(pushed) /\ call' = "none" /\ pc' = "idle" /\ todo' = 0
      /\ told' = "closed" /\ pushing' = 0 /\ pushed' = 0
      /\ flush' = flush /\ nonblock' = nonblock
      /\ UNCHANGED <<startPoint, offered, wire, gone>>
  BY DEF PushFails, EndCall, EndPush, settings, peer
<1>2. /\ outBuff \in Seq(Nat) /\ Len(outBuff) \in Nat /\ Len(outBuff) <= OutSize
      /\ pushed \in Nat /\ pushed <= pushing /\ pushing \in Nat /\ pushing <= Len(outBuff)
      /\ pushed <= Len(outBuff) /\ OutSize \in Nat
  BY LenProperties, StreamOutputAssumption DEF OutInv, CountsInv, NumbersInv, CallInv
<1>3. Rest(pushed) \in Seq(Nat) /\ Len(Rest(pushed)) = Len(outBuff) - pushed
  BY <1>2, RestOf
<1>4. NumbersInv' /\ CallInv'
  BY <1>1, <1>2, <1>3 DEF OutInv, CountsInv, NumbersInv, CallInv
<1>5. SentInOrder'
  BY <1>1 DEF SentInOrder
<1>6. FlushInv'
  BY <1>1 DEF FlushInv, KeepsNothingBack, CloseSendsAll, AlwaysFlushed, LineFlushed
<1> QED BY <1>4, <1>5, <1>6 DEF OutInv, CountsInv

\* More of the call is queued, and pushed if there is too much of it.
LEMMA QueueStep == OutInv /\ Queue => OutInv'
<1> SUFFICES ASSUME OutInv, Queue PROVE OutInv'
  OBVIOUS
<1> USE StreamOutputAssumption
<1> DEFINE n == Fits  buffer == outBuff \o NextBytes(n)
<1>1. /\ outBuff \in Seq(Nat) /\ Len(outBuff) \in Nat /\ Len(outBuff) <= OutSize
      /\ wire \in Seq(Nat) /\ Len(wire) \in Nat /\ OutSize \in Nat
      /\ todo \in Nat /\ offered \in Nat /\ todo <= offered /\ startPoint \in Nat
      /\ pc = "queue" /\ pushing = 0 /\ pushed = 0
      /\ call \notin {"none", "flush", "close", "lineflush"}
      /\ told = "none" /\ open
  BY LenProperties DEF OutInv, CountsInv, NumbersInv, CallInv, FlushInv, Queue
<1>2. n \in Nat /\ n <= todo /\ Len(outBuff) + n <= OutSize
  BY <1>1 DEF Fits, Space
<1>3. /\ outBuff' = buffer
      /\ IF MustPush(buffer)
           THEN BeginPush(buffer) /\ todo' = todo - n /\ UNCHANGED <<call, told, open>>
         ELSE IF n < todo
           THEN todo' = todo - n /\ UNCHANGED <<call, pc, pushing, pushed, told, open>>
           ELSE QueueReturns(buffer)
      /\ UNCHANGED <<startPoint, offered, wire, gone>> /\ UNCHANGED settings
      /\ flush' = flush /\ nonblock' = nonblock
  BY DEF Queue, settings, peer
<1> HIDE DEF n
<1>4. /\ buffer \in Seq(Nat) /\ Len(buffer) = Len(outBuff) + n
      /\ \A i \in 1..Len(outBuff) : buffer[i] = outBuff[i]
      /\ \A i \in 1..n : buffer[Len(outBuff) + i] = offered - todo + i
  BY <1>2, BufferGrows DEF OutInv
<1> HIDE DEF buffer
<1>5. todo' = todo - n /\ pushed' = 0 /\ CallInv' /\ FlushInv'
  <2>1. CASE MustPush(buffer)
    <3>1. /\ pc' = "push" /\ pushing' = DataLen(buffer) /\ pushed' = 0 /\ todo' = todo - n
          /\ call' = call /\ told' = told /\ open' = open
      BY <1>3, <2>1 DEF BeginPush
    <3>2. buffer # <<>>
      BY <1>1, <2>1, EmptySeq DEF MustPush
    <3>3. CallInv'
      BY <1>1, <1>3, <1>4, <3>1, <3>2, DataLenOf DEF CallInv
    <3>4. FlushInv'
      BY <1>1, <1>3, <1>4, <3>1, DataLenOf
      DEF FlushInv, KeepsNothingBack, CloseSendsAll, AlwaysFlushed, LineFlushed
    <3> QED BY <3>1, <3>3, <3>4
  <2>2. CASE ~MustPush(buffer) /\ n < todo
    <3>1. todo' = todo - n /\ UNCHANGED <<call, pc, pushing, pushed, told, open>>
      BY <1>3, <2>2
    <3>2. CallInv'
      BY <1>1, <1>2, <1>3, <1>4, <3>1 DEF CallInv
    <3>3. FlushInv'
      BY <1>1, <1>3, <3>1
      DEF FlushInv, KeepsNothingBack, CloseSendsAll, AlwaysFlushed, LineFlushed
    <3> QED BY <1>1, <3>1, <3>2, <3>3
  <2>3. CASE ~MustPush(buffer) /\ ~(n < todo)
    <3>1. QueueReturns(buffer)
      BY <1>3, <2>3
    <3>2. flush = "always" /\ ~nonblock /\ startPoint' = 0 => buffer = <<>>
      <4>1. buffer # <<>> => Len(buffer) \in Nat \ {0}
        BY <1>4, EmptySeq
      <4> QED BY <1>1, <1>3, <1>4, <2>3, <4>1 DEF MustPush
    <3>3. todo' = 0 /\ pushed' = 0 /\ CallInv' /\ FlushInv'
      BY <1>1, <1>3, <1>4, <3>1, <3>2, QueueReturnsWell
    <3> QED BY <1>1, <1>2, <2>3, <3>3
  <2> QED BY <2>1, <2>2, <2>3
<1>6. NumbersInv'
  BY <1>1, <1>2, <1>3, <1>4, <1>5 DEF OutInv, CountsInv, NumbersInv
<1>7. SentInOrder'
  <2> SUFFICES ASSUME ~nonblock, ~gone
               PROVE  /\ Len(wire) + (Len(buffer) - 0) + (todo - n) = offered
                      /\ \A i \in 1..Len(wire) : wire[i] = i
                      /\ \A i \in 1..Len(buffer) : buffer[i] = Len(wire) + (i - 0)
    BY <1>3, <1>5 DEF SentInOrder
  <2>1. /\ Len(wire) + Len(outBuff) + todo = offered
        /\ \A i \in 1..Len(wire) : wire[i] = i
        /\ \A i \in 1..Len(outBuff) : outBuff[i] = Len(wire) + i
    BY <1>1 DEF OutInv, SentInOrder
  <2>2. ASSUME NEW i \in 1..(Len(outBuff) + n) PROVE buffer[i] = Len(wire) + i
    <3>1. CASE i <= Len(outBuff)
      BY <1>1, <1>4, <2>1, <3>1
    <3>2. CASE ~(i <= Len(outBuff))
      <4>1. i - Len(outBuff) \in 1..n /\ Len(outBuff) + (i - Len(outBuff)) = i
        BY <1>1, <1>2, <3>2
      <4>2. buffer[i] = offered - todo + (i - Len(outBuff))
        BY <1>4, <4>1
      <4>3. Len(wire) + Len(outBuff) + todo = offered
        BY <2>1
      <4> QED BY <1>1, <4>2, <4>3, SMTT(30)
    <3> QED BY <3>1, <3>2
  <2>3. Len(wire) + (Len(buffer) - 0) + (todo - n) = offered
    <3> DEFINE b == Len(buffer)  k == Len(outBuff)  w == Len(wire)
    <3>1. w + k + todo = offered /\ b = k + n
      BY <1>4, <2>1
    <3>2. w \in Nat /\ k \in Nat /\ todo \in Nat /\ n \in Nat /\ offered \in Nat
      BY <1>1, <1>2
    <3> HIDE DEF b, k, w
    <3>3. w + (b - 0) + (todo - n) = offered
      BY <3>1, <3>2
    <3> QED BY <3>3 DEF b, w
  <2>4. ASSUME NEW i \in 1..Len(buffer) PROVE buffer[i] = Len(wire) + (i - 0)
    <3>1. i \in 1..(Len(outBuff) + n)
      BY <1>4
    <3>2. Len(wire) + i = Len(wire) + (i - 0)
      BY <1>1, <1>2, <3>1
    <3> QED BY <2>2, <3>1, <3>2
  <2> QED BY <2>1, <2>3, <2>4
<1> QED BY <1>5, <1>6, <1>7 DEF OutInv, CountsInv

LEMMA FlushEmptyStep == OutInv /\ FlushEmpty => OutInv'
<1> SUFFICES ASSUME OutInv, FlushEmpty PROVE OutInv'
  OBVIOUS
<1>1. /\ pc = "push" /\ pushing = 0 /\ call' = "none" /\ pc' = "idle" /\ todo' = 0
      /\ told' = Flushed /\ pushing' = 0 /\ pushed' = 0
      /\ flush' = flush /\ nonblock' = nonblock
      /\ UNCHANGED <<startPoint, outBuff, offered, wire, gone>>
  BY DEF FlushEmpty, EndCall, EndPush, settings, peer
<1>2. /\ CountsInv /\ SentInOrder /\ FlushInv
      /\ call \in {"flush", "close"} /\ todo = 0 /\ pushed = 0
      /\ outBuff \in Seq(Nat) /\ Len(outBuff) \in Nat
  BY <1>1, LenProperties DEF OutInv, CountsInv, NumbersInv, CallInv
<1>3. NumbersInv' /\ CallInv'
  BY <1>1, <1>2 DEF CountsInv, NumbersInv, CallInv
<1>4. SentInOrder'
  BY <1>1, <1>2 DEF SentInOrder
<1>5. flush # "block" => outBuff = <<>>
  BY <1>1, <1>2, EmptySeq DEF FlushInv
<1>6. FlushInv'
  BY <1>1, <1>2, <1>5
  DEF FlushInv, KeepsNothingBack, CloseSendsAll, AlwaysFlushed, LineFlushed, Flushed
<1> QED BY <1>3, <1>4, <1>6 DEF OutInv, CountsInv

\* The calls begin.
LEMMA WriteStep == OutInv /\ Write => OutInv'
<1> SUFFICES ASSUME OutInv, Write PROVE OutInv'
  OBVIOUS
<1>1. /\ call = "none" /\ open /\ call' \in {"write", "writeline"} /\ pc' = "queue"
      /\ todo' \in Nat /\ offered' = offered + todo' /\ told' = "none"
      /\ flush' = flush /\ nonblock' = nonblock
      /\ UNCHANGED <<startPoint, outBuff, pushing, pushed, wire, gone, open>>
  BY StreamOutputAssumption DEF Write, Idle, settings, peer
<1>2. /\ CountsInv /\ SentInOrder /\ FlushInv /\ pc = "idle" /\ todo = 0 /\ pushing = 0
      /\ offered \in Nat /\ Len(wire) \in Nat /\ Len(outBuff) \in Nat /\ pushed \in Nat
  BY <1>1, LenProperties DEF OutInv, CountsInv, NumbersInv, CallInv
<1>3. offered' \in Nat /\ todo' <= offered'
  <2>1. \A a, b \in Nat : a + b \in Nat /\ b <= a + b
    OBVIOUS
  <2>2. offered + todo' \in Nat /\ todo' <= offered + todo'
    BY <1>1, <1>2, <2>1
  <2>3. offered' = offered + todo'
    BY <1>1
  <2> QED BY <2>2, <2>3
<1>4. NumbersInv'
  BY <1>1, <1>2, <1>3 DEF CountsInv, NumbersInv
<1>5. CallInv'
  BY <1>1, <1>2 DEF CountsInv, CallInv
<1>6. SentInOrder'
  <2> SUFFICES ASSUME ~nonblock, ~gone
               PROVE  Len(wire) + (Len(outBuff) - pushed) + todo' = offered'
    BY <1>1, <1>2 DEF SentInOrder
  <2> DEFINE k == Len(outBuff)  w == Len(wire)
  <2>1. w + (k - pushed) + todo = offered
    BY <1>1, <1>2 DEF SentInOrder
  <2>2. w \in Nat /\ k \in Nat
    BY <1>2
  <2> HIDE DEF k, w
  <2>3. w + (k - pushed) + todo' = offered'
    BY <1>1, <1>2, <2>1, <2>2
  <2> QED BY <2>3 DEF k, w
<1>7. FlushInv'
  BY <1>1, <1>2 DEF FlushInv, KeepsNothingBack, CloseSendsAll, AlwaysFlushed, LineFlushed
<1> QED BY <1>4, <1>5, <1>6, <1>7 DEF OutInv, CountsInv

LEMMA FlushStep == OutInv /\ Flush => OutInv'
<1> SUFFICES ASSUME OutInv, Flush PROVE OutInv'
  OBVIOUS
<1>1. /\ call = "none" /\ open /\ call' \in {"flush", "close"} /\ pc' = "push"
      /\ pushing' = DataLen(outBuff) /\ pushed' = 0 /\ told' = "none"
      /\ flush' = flush /\ nonblock' = nonblock
      /\ UNCHANGED <<startPoint, outBuff, todo, offered, wire, gone, open>>
  BY DEF Flush, Idle, BeginPush, settings, peer
<1>2. /\ CountsInv /\ SentInOrder /\ FlushInv /\ pc = "idle" /\ todo = 0 /\ pushed = 0
      /\ outBuff \in Seq(Nat)
  BY <1>1 DEF OutInv, CountsInv, NumbersInv, CallInv
<1>3. NumbersInv' /\ CallInv'
  BY <1>1, <1>2, DataLenOf DEF CountsInv, NumbersInv, CallInv
<1>4. SentInOrder'
  BY <1>1, <1>2 DEF SentInOrder
<1>5. FlushInv'
  BY <1>1, <1>2, DataLenOf
  DEF FlushInv, KeepsNothingBack, CloseSendsAll, AlwaysFlushed, LineFlushed
<1> QED BY <1>3, <1>4, <1>5 DEF OutInv, CountsInv

\* The peer takes a byte, or goes, or nothing happens.
LEMMA PeerStep == OutInv /\ (PeerTakes \/ PeerGoes \/ UNCHANGED outVars) => OutInv'
<1> SUFFICES ASSUME OutInv, PeerTakes \/ PeerGoes \/ UNCHANGED outVars PROVE OutInv'
  OBVIOUS
<1>1. /\ flush' = flush /\ nonblock' = nonblock /\ gone' \in {gone, TRUE}
      /\ UNCHANGED <<startPoint, outBuff, call, pc, todo, pushing, pushed, offered, wire, open, told>>
  BY DEF PeerTakes, PeerGoes, outVars, settings
<1>2. CountsInv /\ SentInOrder /\ FlushInv
  BY DEF OutInv
<1>3. NumbersInv' /\ CallInv'
  BY <1>1, <1>2 DEF CountsInv, NumbersInv, CallInv
<1>4. SentInOrder'
  BY <1>1, <1>2 DEF SentInOrder
<1>5. FlushInv'
  BY <1>1, <1>2 DEF FlushInv, KeepsNothingBack, CloseSendsAll, AlwaysFlushed, LineFlushed
<1> QED BY <1>3, <1>4, <1>5 DEF OutInv, CountsInv

\* In their places, the bytes of the wire, the buffer and the call are all there are.
LEMMA InOrderIsAll == OutInv => NothingLost
<1> SUFFICES ASSUME OutInv, ~nonblock, ~gone
             PROVE  (wire \o Unpushed) \o NextBytes(todo) = [i \in 1..offered |-> i]
  BY DEF NothingLost
<1>1. /\ outBuff \in Seq(Nat) /\ Len(outBuff) \in Nat /\ wire \in Seq(Nat) /\ Len(wire) \in Nat
      /\ pushed \in Nat /\ pushed <= Len(outBuff)
      /\ todo \in Nat /\ offered \in Nat /\ todo <= offered
  BY LenProperties DEF OutInv, CountsInv, NumbersInv, CallInv
<1>2. /\ Len(wire) + (Len(outBuff) - pushed) + todo = offered
      /\ \A i \in 1..Len(wire) : wire[i] = i
      /\ \A i \in 1..Len(outBuff) : i > pushed => outBuff[i] = Len(wire) + (i - pushed)
  BY DEF OutInv, SentInOrder
<1>3. PICK u \in Nat : u = Len(outBuff) - pushed
  BY <1>1
<1> DEFINE unpushed == Unpushed  next == NextBytes(todo)
           front == wire \o unpushed  all == front \o next  bytes == [i \in 1..offered |-> i]
<1>4. /\ unpushed \in Seq(Nat) /\ Len(unpushed) = u
      /\ \A i \in 1..u : unpushed[i] = outBuff[pushed + i]
  BY <1>1, <1>3, RestOf DEF Unpushed, Rest
<1>5. ASSUME NEW i \in 1..u PROVE unpushed[i] = Len(wire) + i
  <2>1. pushed + i \in 1..Len(outBuff) /\ pushed + i > pushed /\ (pushed + i) - pushed = i
    BY <1>1, <1>3
  <2> QED BY <1>2, <1>4, <2>1
<1>6. next \in Seq(Nat) /\ Len(next) = todo /\ \A i \in 1..todo : next[i] = offered - todo + i
  BY <1>1 DEF NextBytes
<1>7. bytes \in Seq(Nat) /\ Len(bytes) = offered /\ \A i \in 1..offered : bytes[i] = i
  BY <1>1
<1> HIDE DEF unpushed, next, bytes
<1>8. /\ front \in Seq(Nat) /\ Len(front) = Len(wire) + u
      /\ \A i \in 1..(Len(wire) + u) :
           front[i] = IF i <= Len(wire) THEN wire[i] ELSE unpushed[i - Len(wire)]
  BY <1>1, <1>4, ConcatProperties
<1> HIDE DEF front
<1>9. ASSUME NEW i \in 1..(Len(wire) + u) PROVE front[i] = i
  <2>1. CASE i <= Len(wire)
    <3>1. i \in 1..Len(wire)
      BY <1>1, <2>1
    <3> QED BY <1>2, <1>8, <2>1, <3>1
  <2>2. CASE ~(i <= Len(wire))
    <3>1. i - Len(wire) \in 1..u /\ Len(wire) + (i - Len(wire)) = i
      BY <1>1, <2>2
    <3> QED BY <1>5, <1>8, <2>2, <3>1
  <2> QED BY <2>1, <2>2
<1>10. /\ all \in Seq(Nat) /\ Len(all) = (Len(wire) + u) + todo
       /\ \A i \in 1..((Len(wire) + u) + todo) :
            all[i] = IF i <= Len(wire) + u THEN front[i] ELSE next[i - (Len(wire) + u)]
  <2>1. /\ Len(front) + Len(next) = (Len(wire) + u) + todo
        /\ all \in Seq(Nat) /\ Len(all) = Len(front) + Len(next)
        /\ \A i \in 1..(Len(front) + Len(next)) :
             all[i] = IF i <= Len(front) THEN front[i] ELSE next[i - Len(front)]
    BY <1>6, <1>8, ConcatProperties
  <2> QED BY <1>8, <2>1
<1> HIDE DEF all
<1>11. (Len(wire) + u) + todo = offered
  <2>1. Len(wire) + (Len(outBuff) - pushed) + todo = offered
    BY <1>2
  <2> QED BY <1>3, <2>1
<1>12. ASSUME NEW i \in 1..offered PROVE all[i] = i
  <2>1. CASE i <= Len(wire) + u
    <3>1. i \in 1..(Len(wire) + u)
      BY <1>1, <2>1
    <3>2. i \in 1..((Len(wire) + u) + todo)
      BY <1>11
    <3> QED BY <1>9, <1>10, <2>1, <3>1, <3>2
  <2>2. CASE ~(i <= Len(wire) + u)
    <3>1. i - (Len(wire) + u) \in 1..todo /\ offered - todo + (i - (Len(wire) + u)) = i
      BY <1>1, <1>11, <2>2
    <3>2. i \in 1..((Len(wire) + u) + todo)
      BY <1>11
    <3> QED BY <1>6, <1>10, <2>2, <3>1, <3>2
  <2> QED BY <2>1, <2>2
<1>13. all = bytes
  BY <1>7, <1>10, <1>11, <1>12, SeqEqual
<1> QED BY <1>13 DEF all, front, unpushed, next, bytes

LEMMA OutKeepsInv == OutInv /\ [OutputNext]_outVars => OutInv'
BY PushStep, PushNothingStep, PushFailsStep, QueueStep, FlushEmptyStep, WriteStep, FlushStep, PeerStep
   DEF OutputNext, Writer

\* A stream that blocks has every byte it was given on the wire, in its buffer or still to
\* queue, in order and once; and what a call was to send has been sent when it returns.
THEOREM WritesAllOfIt == OutputSpec => []WritesAll
<1>1. OutInv => WritesAll
  BY InOrderIsAll DEF OutInv, FlushInv, WritesAll
<1> QED BY <1>1, OutStarts, OutKeepsInv, PTL DEF OutputSpec

-----------------------------------------------------------------------------
(* What the calls return                                                   *)

\* While a line is read: what was handed over of it has no terminator, and it is
\* nothing, or more than the buffer takes, unless the peer has gone.
LineSoFar ==
  /\ count <= Len(received)
  /\ \A i \in ((Len(received) - count) + 1)..Len(received) : i \notin Terms
  /\ isClosed => ended /\ pulled = sent
  /\ ~isClosed => count = 0 \/ count >= InSize

ReadingInv ==
  /\ op \in {"none", "line", "bytes"} /\ isClosed \in BOOLEAN /\ ended \in BOOLEAN
  /\ op # "none" => result = NoResult
  /\ op = "line" => LineSoFar
  /\ ResultsTrue

\* The types of what these speak of.
LEMMA BytesAre ==
  ASSUME InputInv
  PROVE  /\ Len(received) \in Nat /\ Avail \in Nat /\ pulled \in Nat /\ sent \in Nat /\ count \in Nat
         /\ pulled <= sent /\ Len(received) + Avail = pulled
         /\ \A i \in 1..Len(received) : received[i] = i
BY DEF InputInv, InputInOrder, IndicesInv, Avail

LEMMA NothingIsTrue == result.kind = "none" => ResultsTrue
BY DEF ResultsTrue, LineIsWhole, EndIsEnd, TimeoutKeepsLine

\* What was returned stays true while the peer goes on and nothing is handed over.
LEMMA StaysTrue ==
  ASSUME InputInv, ResultsTrue, received' = received, result' = result,
         ended' = ended \/ ended' = TRUE, ended => ended' /\ sent' = sent
  PROVE  ResultsTrue'
<1>1. Len(received) \in Nat
  BY BytesAre
<1>2. LineIsWhole'
  BY <1>1 DEF ResultsTrue, LineIsWhole
<1>3. EndIsEnd' /\ TimeoutKeepsLine'
  BY DEF ResultsTrue, EndIsEnd, TimeoutKeepsLine
<1> QED BY <1>2, <1>3 DEF ResultsTrue

\* The smallest place of a terminator is that of the first one.
LEMMA FirstIs ==
  ASSUME InputInv, TermsInBuffer # {}
  PROVE  /\ FirstTerm \in inStart..(inEnd - 1) /\ buff[FirstTerm] \in Terms
         /\ \A j \in inStart..(inEnd - 1) : buff[j] \in Terms => FirstTerm <= j
<1>1. inStart \in Nat /\ inEnd \in Nat
  BY DEF InputInv, IndicesInv
<1>2. TermsInBuffer \in SUBSET Nat
  BY <1>1 DEF TermsInBuffer
<1>3. \E i \in TermsInBuffer : \A j \in TermsInBuffer : i <= j
  BY <1>2, HasSmallest
<1>4. FirstTerm \in TermsInBuffer /\ \A j \in TermsInBuffer : FirstTerm <= j
  BY <1>3 DEF FirstTerm
<1> QED BY <1>4 DEF TermsInBuffer

\* The bytes that go to the caller now: no terminator but the last of them.
LEMMA LineParts ==
  ASSUME InputInv
  PROVE  LET n == LineBytes
             L == Len(received)
         IN  /\ n \in Nat /\ n <= Avail
             /\ \A i \in (L + 1)..((L + n) - 1) : i \notin Terms
             /\ TermsInBuffer # {} => n > 0 /\ L + n \in Terms
             /\ TermsInBuffer = {} => /\ L + n \notin Terms \/ n = 0
                                      /\ n = 0 \/ isClosed \/ n >= InSize
<1> DEFINE n == LineBytes
           L == Len(received)
<1>1. /\ inStart \in Nat /\ inEnd \in Nat /\ inStart <= inEnd /\ Avail = inEnd - inStart
      /\ L \in Nat /\ InSize \in Nat
  BY BytesAre, StreamInputAssumption DEF InputInv, IndicesInv, Avail
<1>2. \A i \in inStart..(inEnd - 1) : buff[i] = L + 1 + (i - inStart)
  BY DEF InputInv, InputInOrder
<1>3. n \in Nat /\ n <= Avail
  BY LineFits
<1>4. \A i \in (L + 1)..(L + Avail) : /\ inStart + (i - L - 1) \in inStart..(inEnd - 1)
                                      /\ buff[inStart + (i - L - 1)] = i
  <2> TAKE i \in (L + 1)..(L + Avail)
  <2>1. inStart + (i - L - 1) \in inStart..(inEnd - 1)
    BY <1>1
  <2>2. buff[inStart + (i - L - 1)] = L + 1 + ((inStart + (i - L - 1)) - inStart)
    BY <1>2, <2>1
  <2> HIDE DEF L
  <2> QED BY <1>1, <2>1, <2>2
<1>5. CASE TermsInBuffer # {}
  <2> DEFINE f == FirstTerm
  <2>1. /\ f \in inStart..(inEnd - 1) /\ buff[f] \in Terms
        /\ \A j \in inStart..(inEnd - 1) : buff[j] \in Terms => f <= j
    BY <1>5, FirstIs
  <2>2. n = f + 1 - inStart
    BY <1>5 DEF LineBytes
  <2> HIDE DEF f, n, L
  <2>3. n > 0 /\ buff[f] = L + n
    <3>1. buff[f] = L + 1 + (f - inStart)
      BY <1>2, <2>1
    <3> QED BY <1>1, <2>1, <2>2, <3>1
  <2>4. ASSUME NEW i \in (L + 1)..((L + n) - 1) PROVE i \notin Terms
    <3>1. i \in (L + 1)..(L + Avail)
      BY <1>1, <1>3
    <3>2. inStart + (i - L - 1) < f
      BY <1>1, <2>1, <2>2
    <3>3. ~(f <= inStart + (i - L - 1))
      BY <1>1, <2>1, <3>1, <3>2
    <3> QED BY <1>4, <2>1, <3>1, <3>3
  <2> QED BY <1>3, <1>5, <2>1, <2>3, <2>4 DEF n, L
<1>6. CASE TermsInBuffer = {}
  <2>1. \A j \in inStart..(inEnd - 1) : buff[j] \notin Terms
    BY <1>6 DEF TermsInBuffer
  <2>2. n = 0 \/ isClosed \/ n >= InSize
    BY <1>1, <1>6 DEF LineBytes
  <2> HIDE DEF n, L
  <2>3. ASSUME NEW i \in (L + 1)..(L + n) PROVE i \notin Terms
    <3>1. i \in (L + 1)..(L + Avail)
      BY <1>1, <1>3
    <3> QED BY <1>4, <2>1, <3>1
  <2>4. n = 0 \/ L + n \in (L + 1)..(L + n)
    BY <1>1, <1>3
  <2>5. \A i \in (L + 1)..((L + n) - 1) : i \in (L + 1)..(L + n)
    BY <1>1, <1>3
  <2> QED BY <1>3, <1>6, <2>2, <2>3, <2>4, <2>5 DEF n, L
<1> QED BY <1>5, <1>6

LEMMA LineTransferReturns == InputInv /\ InputInv' /\ ReadingInv /\ LineTransfer => ReadingInv'
<1> SUFFICES ASSUME InputInv, InputInv', ReadingInv, LineTransfer PROVE ReadingInv'
  OBVIOUS
<1> DEFINE n == LineBytes
           L == Len(received)
<1>1. /\ op = "line" /\ HandOver(n) /\ n > 0 /\ UNCHANGED <<sent, ended, pulled, isClosed>>
      /\ LineSoFar /\ result = NoResult
  BY DEF LineTransfer, ReadingInv, peerVars
<1>2. /\ n \in Nat /\ n <= Avail
      /\ \A i \in (L + 1)..((L + n) - 1) : i \notin Terms
      /\ TermsInBuffer # {} => L + n \in Terms
      /\ TermsInBuffer = {} => L + n \notin Terms /\ (isClosed \/ n >= InSize)
  <2>1. /\ n \in Nat /\ n <= Avail
        /\ \A i \in (L + 1)..((L + n) - 1) : i \notin Terms
        /\ TermsInBuffer # {} => L + n \in Terms
        /\ TermsInBuffer = {} => (L + n \notin Terms \/ n = 0) /\ (n = 0 \/ isClosed \/ n >= InSize)
    BY LineParts
  <2>2. n # 0
    BY <1>1, <2>1
  <2> QED BY <2>1, <2>2
<1>3. Len(received') = L + n /\ count' = count + n
  BY <1>1, <1>2, HandOverKeepsOrder
<1>4. /\ L \in Nat /\ count \in Nat /\ count <= L /\ InSize \in Nat
      /\ \A i \in (L - count + 1)..L : i \notin Terms
      /\ \A i \in 1..Len(received') : received'[i] = i
  BY <1>1, BytesAre, StreamInputAssumption DEF LineSoFar, InputInv, InputInOrder
<1> HIDE DEF n, L
<1>5. \A i \in (((L + n) - (count + n)) + 1)..((L + n) - 1) : i \notin Terms
  <2> TAKE i \in (((L + n) - (count + n)) + 1)..((L + n) - 1)
  <2>1. i \in (L - count + 1)..L \/ i \in (L + 1)..((L + n) - 1)
    BY <1>2, <1>4
  <2> QED BY <1>2, <1>4, <2>1
<1>6. op' \in {"none", "line"} /\ isClosed' \in BOOLEAN /\ ended' \in BOOLEAN
  BY <1>1 DEF ReadingInv, LineTransfer, Return
<1>7. CASE TermsInBuffer # {}
  <2>1. op' = "none" /\ result' = [kind |-> "line", n |-> count']
    BY <1>7 DEF LineTransfer, Return
  <2>2. result'.kind = "line" /\ result'.n = count + n
    BY <1>3, <2>1
  <2>3. count + n > 0 /\ L + n \in 1..(L + n)
    BY <1>1, <1>2, <1>4
  <2>4. received'[L + n] = L + n
    BY <1>3, <1>4, <2>3
  <2>5. \A i \in (((L + n) - (count + n)) + 1)..((L + n) - 1) : received'[i] \notin Terms
    <3> TAKE i \in (((L + n) - (count + n)) + 1)..((L + n) - 1)
    <3>1. i \in 1..(L + n)
      BY <1>2, <1>4
    <3>2. received'[i] = i
      BY <1>3, <1>4, <3>1
    <3> QED BY <1>5, <3>2
  <2>6. LineIsWhole'
    <3> DEFINE x == L + n
               c == count + n
    <3>1. Len(received') = x
      BY <1>3
    <3>2. result'.n = c /\ c > 0
      BY <2>2, <2>3
    <3>3. received'[x] \in Terms
      BY <1>2, <1>7, <2>4
    <3>4. \A i \in ((x - c) + 1)..(x - 1) : received'[i] \notin Terms
      BY <2>5
    <3> HIDE DEF x, c
    <3> QED BY <3>1, <3>2, <3>3, <3>4 DEF LineIsWhole
  <2>7. ResultsTrue'
    BY <2>2, <2>6 DEF ResultsTrue, EndIsEnd, TimeoutKeepsLine
  <2> QED BY <1>6, <2>1, <2>7 DEF ReadingInv
<1>8. CASE TermsInBuffer = {}
  <2>1. op' = "line" /\ result' = NoResult
    BY <1>1, <1>8 DEF LineTransfer
  <2>2. ResultsTrue'
    BY <2>1, NothingIsTrue DEF NoResult, ResultsTrue, LineIsWhole, EndIsEnd, TimeoutKeepsLine
  <2>3. \A i \in (((L + n) - (count + n)) + 1)..(L + n) : i \notin Terms
    <3> TAKE i \in (((L + n) - (count + n)) + 1)..(L + n)
    <3>1. i = L + n \/ i \in (((L + n) - (count + n)) + 1)..((L + n) - 1)
      BY <1>2, <1>4
    <3> QED BY <1>2, <1>5, <1>8, <3>1
  <2>4. count + n <= L + n
    BY <1>2, <1>4
  <2>5. ~isClosed => count + n = 0 \/ count + n >= InSize
    BY <1>2, <1>4, <1>8
  <2>6. LineSoFar'
    <3> DEFINE x == L + n
               c == count + n
    <3>1. Len(received') = x /\ count' = c
      BY <1>3
    <3>3. \A i \in ((x - c) + 1)..x : i \notin Terms
      BY <2>3
    <3>4. c <= x /\ (~isClosed => c = 0 \/ c >= InSize)
      BY <2>4, <2>5
    <3>2. isClosed' = isClosed /\ (isClosed' => ended' /\ pulled' = sent')
      BY <1>1 DEF LineSoFar
    <3> HIDE DEF x, c
    <3> QED BY <3>1, <3>2, <3>3, <3>4 DEF LineSoFar
  <2> QED BY <1>6, <2>1, <2>2, <2>6 DEF ReadingInv
<1> QED BY <1>7, <1>8

LEMMA LineEndsReturns == InputInv /\ ReadingInv /\ LineEnds => ReadingInv'
<1> SUFFICES ASSUME InputInv, ReadingInv, LineEnds PROVE ReadingInv'
  OBVIOUS
<1>1. /\ op = "line" /\ LineSoFar /\ isClosed /\ Avail = 0
      /\ op' = "none" /\ result' = [kind |-> IF count > 0 THEN "line" ELSE "null", n |-> count]
      /\ UNCHANGED <<sent, ended, received, isClosed>>
  BY DEF ReadingInv, LineEnds, LineIsOver, Return, peerVars
<1>2. /\ Len(received) \in Nat /\ count \in Nat /\ Len(received) = sent /\ ended
      /\ \A i \in 1..Len(received) : received[i] = i
  BY <1>1, BytesAre DEF LineSoFar
<1>3. EndIsEnd' /\ TimeoutKeepsLine'
  BY <1>1, <1>2 DEF EndIsEnd, TimeoutKeepsLine
<1>4. LineIsWhole'
  <2> SUFFICES ASSUME count > 0 PROVE LineIsWhole'
    BY <1>1, <1>2 DEF LineIsWhole
  <2>1. result'.n = count
    BY <1>1
  <2>2. \A i \in (Len(received) - count + 1)..(Len(received) - 1) : received[i] \notin Terms
    <3> TAKE i \in (Len(received) - count + 1)..(Len(received) - 1)
    <3>1. i \in (Len(received) - count + 1)..Len(received) /\ i \in 1..Len(received)
      BY <1>1, <1>2 DEF LineSoFar
    <3> QED BY <1>1, <1>2, <3>1 DEF LineSoFar
  <2> QED BY <1>1, <1>2, <2>1, <2>2 DEF LineIsWhole
<1> QED BY <1>1, <1>3, <1>4 DEF ReadingInv, ResultsTrue

\* A read from the kernel while a call waits.
LEMMA LineReadsReturns == InputInv /\ ReadingInv /\ LineReads => ReadingInv'
<1> SUFFICES ASSUME InputInv, ReadingInv, LineReads PROVE ReadingInv'
  OBVIOUS
<1>1. /\ op = "line" /\ LineSoFar /\ result = NoResult /\ ResultsTrue
      /\ UNCHANGED <<sent, ended, received, count>> /\ isClosed \in BOOLEAN /\ ended \in BOOLEAN
  BY DEF ReadingInv, LineReads, peerVars
<1>2. CASE TimedOut /\ Return("timeout", count) /\ UNCHANGED isClosed
  <2>1. ~ended /\ op' = "none" /\ result' = [kind |-> "timeout", n |-> count] /\ isClosed' = isClosed
    BY <1>2 DEF TimedOut, Late, Return
  <2>2. count = 0 \/ count >= InSize
    BY <1>1, <2>1 DEF LineSoFar
  <2> QED BY <1>1, <2>1, <2>2 DEF ReadingInv, ResultsTrue, LineIsWhole, EndIsEnd, TimeoutKeepsLine
<1>3. CASE GotEnd /\ isClosed' = TRUE /\ UNCHANGED <<op, result>>
  <2>1. ended /\ pulled' = sent
    BY <1>3, BytesAre DEF GotEnd, Pull
  <2>2. LineSoFar'
    BY <1>1, <1>3, <2>1 DEF LineSoFar
  <2>3. ResultsTrue'
    BY <1>1, <1>3, StaysTrue
  <2> QED BY <1>1, <1>3, <2>2, <2>3 DEF ReadingInv
<1>4. CASE GotBytes /\ UNCHANGED <<op, result, isClosed>>
  <2>1. ~isClosed
    <3> SUFFICES ASSUME isClosed PROVE FALSE
      BY <1>1
    <3>1. pulled = sent /\ sent \in Nat
      BY <1>1, BytesAre DEF LineSoFar
    <3>2. PICK k \in 1..(sent - pulled) : TRUE
      BY <1>4 DEF GotBytes
    <3> QED BY <3>1, <3>2
  <2>2. LineSoFar'
    BY <1>1, <1>4, <2>1 DEF LineSoFar
  <2>3. ResultsTrue'
    BY <1>1, <1>4, StaysTrue
  <2> QED BY <1>1, <1>4, <2>2, <2>3 DEF ReadingInv
<1> QED BY <1>2, <1>3, <1>4 DEF LineReads

LEMMA FirstReadReturns == InputInv /\ ReadingInv /\ FirstRead => ReadingInv'
<1> SUFFICES ASSUME InputInv, ReadingInv, FirstRead PROVE ReadingInv'
  OBVIOUS
<1>1. /\ op = "bytes" /\ Avail = 0 /\ result = NoResult /\ ResultsTrue
      /\ UNCHANGED <<sent, ended, received, count, isClosed>> /\ isClosed \in BOOLEAN /\ ended \in BOOLEAN
  BY DEF ReadingInv, FirstRead, peerVars
<1>2. CASE GotBytes /\ UNCHANGED <<op, result>>
  <2>1. ResultsTrue'
    BY <1>1, <1>2, StaysTrue
  <2> QED BY <1>1, <1>2, <2>1 DEF ReadingInv
<1>3. CASE GotEnd /\ Return("closed", 0)
  <2>1. ended /\ Len(received) = sent /\ op' = "none" /\ result' = [kind |-> "closed", n |-> 0]
    BY <1>1, <1>3, BytesAre DEF GotEnd, Return
  <2> QED BY <1>1, <2>1 DEF ReadingInv, ResultsTrue, LineIsWhole, EndIsEnd, TimeoutKeepsLine
<1>4. CASE TimedOut /\ Return("timeout", 0)
  <2>1. op' = "none" /\ result' = [kind |-> "timeout", n |-> 0]
    BY <1>4 DEF Return
  <2> QED BY <1>1, <2>1 DEF ReadingInv, ResultsTrue, LineIsWhole, EndIsEnd, TimeoutKeepsLine
<1> QED BY <1>2, <1>3, <1>4 DEF FirstRead

LEMMA BytesReturns == InputInv /\ ReadingInv /\ BytesTransfer => ReadingInv'
<1> SUFFICES ASSUME ReadingInv, BytesTransfer PROVE ReadingInv'
  OBVIOUS
<1>1. /\ op = "bytes" /\ result = NoResult
      /\ UNCHANGED <<sent, ended, isClosed>> /\ isClosed \in BOOLEAN /\ ended \in BOOLEAN
  BY DEF ReadingInv, BytesTransfer, peerVars
<1>2. \/ op' = op /\ result' = result
      \/ op' = "none" /\ result' = [kind |-> "data", n |-> count']
  BY DEF BytesTransfer, Return
<1>3. result'.kind \in {"none", "data"}
  BY <1>1, <1>2 DEF NoResult
<1>4. ResultsTrue'
  BY <1>3 DEF ResultsTrue, LineIsWhole, EndIsEnd, TimeoutKeepsLine
<1> QED BY <1>1, <1>2, <1>4 DEF ReadingInv

LEMMA RestReturns ==
  InputInv /\ ReadingInv /\ (ReadLine \/ ReadBytes \/ Peek \/ PeerSends \/ PeerCloses \/ UNCHANGED inVars)
    => ReadingInv'
<1> SUFFICES ASSUME InputInv, ReadingInv PROVE
      (ReadLine \/ ReadBytes \/ Peek \/ PeerSends \/ PeerCloses \/ UNCHANGED inVars) => ReadingInv'
  OBVIOUS
<1>1. /\ op \in {"none", "line", "bytes"} /\ isClosed \in BOOLEAN /\ ended \in BOOLEAN /\ ResultsTrue
      /\ op # "none" => result = NoResult
      /\ op = "line" => LineSoFar
  BY DEF ReadingInv
<1>2. Len(received) \in Nat
  BY BytesAre
<1>3. ASSUME ReadLine \/ ReadBytes PROVE ReadingInv'
  <2>1. /\ op' \in {"line", "bytes"} /\ count' = 0 /\ isClosed' = FALSE /\ result' = NoResult
        /\ UNCHANGED <<sent, ended, received>>
    BY <1>3 DEF ReadLine, ReadBytes, Call, peerVars
  <2>2. ResultsTrue'
    BY <2>1 DEF NoResult, ResultsTrue, LineIsWhole, EndIsEnd, TimeoutKeepsLine
  <2>3. \A i \in (Len(received) - 0 + 1)..Len(received) : i \notin Terms
    BY <1>2
  <2>4. LineSoFar'
    BY <1>2, <2>1, <2>3 DEF LineSoFar
  <2> QED BY <1>1, <2>1, <2>2, <2>4 DEF ReadingInv
<1>4. ASSUME Peek PROVE ReadingInv'
  <2>1. op = "none" /\ UNCHANGED <<sent, ended, op, isClosed, received, result>>
    BY <1>4 DEF Peek, peerVars
  <2>2. ResultsTrue'
    BY <1>1, <2>1, StaysTrue
  <2> QED BY <1>1, <2>1, <2>2 DEF ReadingInv
<1>5. ASSUME PeerSends \/ PeerCloses \/ UNCHANGED inVars PROVE ReadingInv'
  <2>1. /\ UNCHANGED <<op, count, isClosed, received, result, pulled>>
        /\ ended' = ended \/ ended' = TRUE
        /\ ended => ended' /\ sent' = sent
    BY <1>1, <1>5 DEF PeerSends, PeerCloses, inVars, bufferVars
  <2>2. ResultsTrue'
    BY <1>1, <2>1, StaysTrue
  <2>3. op = "line" => LineSoFar'
    BY <1>1, <2>1 DEF LineSoFar
  <2> QED BY <1>1, <2>1, <2>2, <2>3 DEF ReadingInv
<1> QED BY <1>3, <1>4, <1>5

\* Whatever a call returns is true, for every size of the buffer, every terminator and
\* every peer: a line is whole, the end is the end, and a timeout takes nothing from the
\* line that is still to come, unless that is too long for the buffer.
THEOREM ReturnsAreTrue == InputSpec => []ResultsTrue
<1>1. InputInit => ReadingInv
  <2> SUFFICES ASSUME InputInit PROVE ReadingInv
    OBVIOUS
  <2>1. result.kind = "none" /\ op = "none" /\ isClosed = FALSE /\ ended = FALSE
    BY DEF InputInit, NoResult
  <2> QED BY <2>1, NothingIsTrue DEF ReadingInv
<1>2. InputInv /\ InputInv' /\ ReadingInv /\ [InputNext]_inVars => ReadingInv'
  BY LineTransferReturns, LineEndsReturns, LineReadsReturns, FirstReadReturns, BytesReturns,
     RestReturns DEF InputNext, Reader
<1>3. ReadingInv => ResultsTrue
  BY DEF ReadingInv
<1> QED BY <1>1, <1>2, <1>3, InputStarts, InputKeepsInv, PTL DEF InputSpec
=============================================================================
