--------------------------- MODULE DaytimeProofs ---------------------------
(***************************************************************************)
(* What holds of the main loop for every command line, sleep time, fetch   *)
(* time, descriptor limit, length of the queue and error of the clock.     *)
(***************************************************************************)
EXTENDS Daytime, SequenceTheorems, TLAPS

-----------------------------------------------------------------------------
(* The operators of Timeval, SysClock and Sntp.                            *)

LEMMA TimevalType ==
  ASSUME NEW t \in Int
  PROVE  Sec(t) \in Int /\ Usec(t) \in 0 .. TicksPerSec - 1
BY TicksAssumption DEF Sec, Usec

LEMMA FloatSecType ==
  ASSUME NEW s \in Int
  PROVE  FloatSec(s) \in Int
<1> DEFINE below == s \div FloatStep
<1>1. below \in Int
  BY FloatAssumption
<1>2. below * FloatStep \in Int /\ (below + 1) * FloatStep \in Int
  BY <1>1, FloatAssumption
<1> QED BY <1>2 DEF FloatSec

LEMMA FloatReadingType ==
  ASSUME NEW t \in Int
  PROVE  FloatReading(t) \in Int
BY TimevalType, FloatSecType, TicksAssumption DEF FloatReading

LEMMA SntpTimeType ==
  ASSUME NEW t1 \in Int, NEW t2 \in Int, NEW t3 \in Int, NEW t4 \in Int
  PROVE  SntpTime(t1, t2, t3, t4) \in Int
<1>1. Roundtrip(t1, t2, t3, t4) \in Int
  BY FloatReadingType DEF Roundtrip
<1> QED BY <1>1 DEF SntpTime

LEMMA SntpTimesType ==
  ASSUME NEW t1 \in Int, NEW t4 \in Int, NEW first \in Nat, NEW last \in Nat,
         NEW t \in SntpTimes(t1, first, last, t4)
  PROVE  t \in Int
<1>1. PICK t3 \in first .. last :
        t \in { SntpTime(t1, t2, t3, t4) : t2 \in first .. t3 }
  BY DEF SntpTimes
<1>2. PICK t2 \in first .. t3 : t = SntpTime(t1, t2, t3, t4)
  BY <1>1
<1>3. t2 \in Int /\ t3 \in Int
  OBVIOUS
<1> QED BY <1>2, <1>3, SntpTimeType

-----------------------------------------------------------------------------
(* The error of the float.                                                 *)

LEMMA ScaledBound ==
  ASSUME NEW d \in Int, NEW step \in Nat, NEW n \in Nat,
         2 * d <= step, -step <= 2 * d
  PROVE  /\ 2 * (d * n) <= step * n
         /\ -(step * n) <= 2 * (d * n)
<1>1. (step - 2 * d) * n >= 0 /\ (step + 2 * d) * n >= 0
  OBVIOUS
<1>2. /\ (step - 2 * d) * n = step * n - 2 * (d * n)
      /\ (step + 2 * d) * n = step * n + 2 * (d * n)
      /\ step * n \in Int /\ d * n \in Int
  OBVIOUS
<1> QED BY <1>1, <1>2

LEMMA FloatSecError ==
  ASSUME NEW s \in Int
  PROVE  /\ 2 * (FloatSec(s) - s) <= FloatStep
         /\ -FloatStep <= 2 * (FloatSec(s) - s)
<1> DEFINE below == s \div FloatStep
           rest  == s % FloatStep
           base  == below * FloatStep
<1>1. /\ below \in Int
      /\ rest \in 0 .. FloatStep - 1
      /\ s = FloatStep * below + rest
  BY FloatAssumption
<1>2. /\ base \in Int
      /\ FloatStep * below = base
      /\ (below + 1) * FloatStep = base + FloatStep
  BY <1>1, FloatAssumption
<1>3. \/ FloatSec(s) = base /\ 2 * rest <= FloatStep
      \/ FloatSec(s) = base + FloatStep /\ 2 * rest >= FloatStep
  BY <1>1, <1>2, FloatAssumption DEF FloatSec
<1> HIDE DEF base, rest, below
<1> QED BY <1>1, <1>2, <1>3, FloatAssumption

\* A reading that went through the float is off by half a step of it.
LEMMA FloatReadingError ==
  ASSUME NEW t \in Int
  PROVE  /\ 2 * (FloatReading(t) - t) <= FloatStep * TicksPerSec
         /\ -(FloatStep * TicksPerSec) <= 2 * (FloatReading(t) - t)
<1> DEFINE d == FloatSec(Sec(t)) - Sec(t)
<1>1. /\ t = TicksPerSec * Sec(t) + Usec(t)
      /\ Sec(t) \in Int /\ Usec(t) \in Int
      /\ FloatSec(Sec(t)) \in Int
  BY TicksAssumption, TimevalType, FloatSecType DEF Sec, Usec
<1>2. FloatReading(t) - t = d * TicksPerSec
  <2>1. /\ FloatReading(t) = FloatSec(Sec(t)) * TicksPerSec + Usec(t)
        /\ FloatSec(Sec(t)) * TicksPerSec \in Int
        /\ TicksPerSec * Sec(t) \in Int
        /\ d * TicksPerSec
             = FloatSec(Sec(t)) * TicksPerSec - TicksPerSec * Sec(t)
    BY <1>1, TicksAssumption DEF FloatReading
  <2> QED BY <1>1, <2>1
<1>3. d \in Int /\ 2 * d <= FloatStep /\ -FloatStep <= 2 * d
  BY <1>1, FloatSecError
<1> HIDE DEF d
<1> QED BY <1>2, <1>3, ScaledBound, FloatAssumption, TicksAssumption

-----------------------------------------------------------------------------
(* The operators on instants.                                              *)

LEMMA SecMonotonic ==
  ASSUME NEW a \in Int, NEW b \in Int, a <= b
  PROVE  Sec(a) <= Sec(b)
<1> DEFINE x == Sec(a)
           y == Sec(b)
<1>1. /\ x \in Int /\ y \in Int
      /\ TicksPerSec * x <= a
      /\ b < TicksPerSec * y + TicksPerSec
  BY TicksAssumption DEF Sec
<1>2. SUFFICES ASSUME x > y PROVE FALSE
  BY <1>1
<1>3. TicksPerSec * (x - y) >= TicksPerSec
  BY <1>1, <1>2, TicksAssumption
<1>4. /\ TicksPerSec * (x - y) = TicksPerSec * x - TicksPerSec * y
      /\ TicksPerSec * x \in Int
      /\ TicksPerSec * y \in Int
  BY <1>1, TicksAssumption
<1> QED BY <1>1, <1>3, <1>4, TicksAssumption

\* A clock does not go back if its error grows, nor if it shrinks by one tick
\* in one tick.
LEMMA ErrorGrows ==
  ASSUME NEW t \in Int, NEW error \in Int, NEW next \in Int
  PROVE  /\ error <= next => t + error <= t + next
         /\ error - 1 <= next => t + error <= (t + 1) + next
OBVIOUS

LEMMA UpdateType ==
  ASSUME NEW timeRead \in Int, NEW time \in Int, now \in Int,
         offset \in Int, slew \in Int
  PROVE  /\ UpdateSystemClock(timeRead, time, now, offset, slew).offset \in Int
         /\ UpdateSystemClock(timeRead, time, now, offset, slew).slew \in Int
<1>1. Usec(timeRead) \in Int /\ Usec(time) \in Int
  BY TimevalType
<1> QED BY <1>1 DEF UpdateSystemClock, SlewDelta

\* What HandleReceivedTime leaves behind.  If it is not recorded that the
\* clock was put back, it was not, and if not that it was put ahead, it was not.
LEMMA HandledTime ==
  ASSUME TypeOK, NEW timeRead \in Int, NEW time \in Int,
         HandleReceivedTime(timeRead, time)
  PROVE  /\ offset' \in Int /\ slew' \in Int /\ rtc' \in Int
         /\ putBack' \in BOOLEAN /\ putAhead' \in BOOLEAN /\ wasSet' \in BOOLEAN
         /\ ~putBack' => ~putBack /\ offset <= offset'
         /\ ~putBack' /\ slew >= 0 => slew' >= 0
         /\ ~putAhead' => ~putAhead /\ offset' <= offset
         /\ ~putAhead' /\ slew <= 0 => slew' <= 0
<1> DEFINE clock == UpdateSystemClock(timeRead, time, now, offset, slew)
<1>1. now \in Int /\ offset \in Int /\ slew \in Int /\ rtc \in Int
  BY DEF TypeOK
<1>2. clock.offset \in Int /\ clock.slew \in Int
  BY <1>1, UpdateType
<1>3. rtc' \in Int
  <2>1. Sec(time) * TicksPerSec \in Int
    BY TimevalType, TicksAssumption
  <2>2. rtc' = IF args.setrtc THEN Sec(time) * TicksPerSec - now ELSE rtc
    BY DEF HandleReceivedTime
  <2> QED BY <1>1, <2>1, <2>2
<1>4. wasSet' \in BOOLEAN
  BY Zenon DEF HandleReceivedTime
<1>5. CASE args.setsys
  <2>1. /\ offset' = clock.offset
        /\ slew' = clock.slew
        /\ putBack' = (putBack \/ clock.offset < offset \/ clock.slew < 0)
    BY <1>5, Zenon DEF HandleReceivedTime
  <2>2. putAhead' = (putAhead \/ clock.offset > offset \/ clock.slew > 0)
    BY <1>5, Zenon DEF HandleReceivedTime
  <2>3. putBack' \in BOOLEAN /\ putAhead' \in BOOLEAN
    BY <2>1, <2>2, Zenon
  <2>4. /\ ~putBack' => ~putBack /\ ~(clock.offset < offset) /\ ~(clock.slew < 0)
        /\ ~putAhead' => ~putAhead /\ ~(clock.offset > offset) /\ ~(clock.slew > 0)
    BY <2>1, <2>2, Zenon
  <2>5. /\ ~(clock.offset < offset) => offset <= offset'
        /\ ~(clock.slew < 0) => slew' >= 0
        /\ ~(clock.offset > offset) => offset' <= offset
        /\ ~(clock.slew > 0) => slew' <= 0
    BY <1>1, <1>2, <2>1
  <2>6. offset' \in Int /\ slew' \in Int
    BY <1>2, <2>1
  <2> QED BY <1>3, <1>4, <2>3, <2>4, <2>5, <2>6, Zenon
<1>6. CASE ~args.setsys
  <2>1. offset' = offset /\ slew' = slew /\ putBack' = putBack /\ putAhead' = putAhead
    BY <1>6, Zenon DEF HandleReceivedTime
  <2>2. putBack \in BOOLEAN /\ putAhead \in BOOLEAN
    BY Zenon DEF TypeOK
  <2>3. offset' \in Int /\ slew' \in Int /\ offset <= offset' /\ offset' <= offset
    BY <1>1, <2>1
  <2> QED BY <1>3, <1>4, <2>1, <2>2, <2>3, Zenon
<1> QED BY <1>5, <1>6

-----------------------------------------------------------------------------
(* Type correctness.  The part of TypeOK that is about Booleans and names  *)
(* is kept from the part that is about numbers and sequences.              *)

NamesOK ==
  /\ args \in Commands
  /\ pc \in PCs
  /\ sock \in BOOLEAN /\ ready \in BOOLEAN
  /\ putBack \in BOOLEAN /\ putAhead \in BOOLEAN
  /\ wild \in BOOLEAN /\ wasSet \in BOOLEAN

NumbersOK ==
  /\ now \in Nat
  /\ offset \in Int /\ slew \in Int /\ rtc \in Int
  /\ timeNow \in Int
  /\ nextSync \in Int
  /\ since \in Nat
  /\ tvUsec \in {Garbage} \cup 0 .. TicksPerSec - 1
  /\ fds \in 0 .. FdLimit
  /\ readAt \in Nat /\ syncAt \in Nat

SequencesOK ==
  /\ todo \in Seq(Servers) /\ (pc = "fetch" => todo # <<>>)
  /\ inbox \in Seq(Datagram)
  /\ out \in Seq(SentDatagram)

LEMMA TypeParts == TypeOK <=> NamesOK /\ NumbersOK /\ SequencesOK
BY Zenon DEF TypeOK, NamesOK, NumbersOK, SequencesOK

LEMMA InitType == Init => TypeOK
<1> SUFFICES ASSUME Init PROVE TypeOK
  OBVIOUS
<1>1. NamesOK
  BY Zenon DEF Init, NamesOK, PCs
<1>2. NumbersOK
  <2>1. offset \in Int
    BY TimingAssumption DEF Init
  <2>2. tvUsec \in {Garbage} \cup 0 .. TicksPerSec - 1
    BY Zenon DEF Init
  <2>3. /\ now = StartTime /\ slew = 0 /\ rtc = offset /\ timeNow = Clock
        /\ nextSync = 0 /\ since = now /\ fds = 0 /\ readAt = now
        /\ syncAt = now
    BY Zenon DEF Init
  <2> QED BY <2>1, <2>2, <2>3, TimingAssumption, NetworkAssumption
          DEF NumbersOK, Clock
<1>3. SequencesOK
  BY DEF Init, SequencesOK
<1> QED BY <1>1, <1>2, <1>3, TypeParts

LEMMA NamesStep == TypeOK /\ [Next]_vars => NamesOK'
<1> SUFFICES ASSUME TypeOK, [Next]_vars PROVE NamesOK'
  OBVIOUS
<1> USE DEF clockVars, netVars, loopVars, history
<1>0. NamesOK /\ NumbersOK
  BY TypeParts
<1>1. CASE BindSntpPort
  BY <1>0, <1>1, Zenon DEF NamesOK, BindSntpPort, PCs
<1>2. CASE Top
  <2>1. CASE Due(timeNow')
    <3>1. (slew < 0) \in BOOLEAN /\ (slew > 0) \in BOOLEAN
      OBVIOUS
    <3> QED BY <1>0, <1>2, <2>1, <3>1, Zenon DEF NamesOK, Top, PCs
  <2>2. CASE ~Due(timeNow')
    BY <1>0, <1>2, <2>2, Zenon DEF NamesOK, Top, PCs
  <2> QED BY <2>1, <2>2
<1>3. CASE TcpAnswer
  <2>1. PICK s \in since .. now :
          HandleReceivedTime(timeNow, Sec(s) * TicksPerSec)
    BY <1>3, Zenon DEF TcpAnswer
  <2>2. timeNow \in Int /\ Sec(s) * TicksPerSec \in Int
    BY <1>0, TimevalType, TicksAssumption DEF NumbersOK
  <2>3. putBack' \in BOOLEAN /\ putAhead' \in BOOLEAN /\ wasSet' \in BOOLEAN
    BY <2>1, <2>2, HandledTime
  <2> QED BY <1>0, <1>3, <2>3, Zenon DEF NamesOK, TcpAnswer, PCs
<1>4. CASE SntpAnswer
  <2>1. PICK time \in SntpTimes(timeNow, since, now, timeNow') :
          HandleReceivedTime(timeNow', time)
    BY <1>4, Zenon DEF SntpAnswer
  <2>2. timeNow \in Int /\ timeNow' \in Int /\ now \in Nat /\ since \in Nat
    BY <1>0, <1>4 DEF NumbersOK, SntpAnswer, ReadClock, Clock
  <2>3. time \in Int
    BY <2>2, SntpTimesType
  <2>4. putBack' \in BOOLEAN /\ putAhead' \in BOOLEAN /\ wasSet' \in BOOLEAN
    BY <2>1, <2>2, <2>3, HandledTime
  <2> QED BY <1>0, <1>4, <2>4, Zenon DEF NamesOK, SntpAnswer, PCs
<1>5. CASE NoAnswer
  BY <1>0, <1>5, Zenon DEF NamesOK, NoAnswer, PCs
<1>6. CASE NoLine \/ NoSocket
  BY <1>0, <1>6, Zenon DEF NamesOK, NoLine, NoSocket, PCs
<1>7. CASE Broadcast
  BY <1>0, <1>7, Zenon DEF NamesOK, Broadcast, PCs
<1>8. CASE NothingReceived
  BY <1>0, <1>8, Zenon DEF NamesOK, NothingReceived, AfterReceive, PCs
<1>9. CASE SntpReceive
  <2>1. putBack' \in BOOLEAN /\ putAhead' \in BOOLEAN /\ wasSet' \in BOOLEAN
    <3>1. CASE HandleReceivedTime(timeNow, Head(inbox).stamp)
      <4>1. Head(inbox).stamp \in Int
        <5>1. inbox \in Seq(Datagram) /\ inbox # <<>>
          BY <1>9 DEF SntpReceive, TypeOK
        <5>2. Head(inbox) \in Datagram
          BY <5>1, HeadTailProperties
        <5> QED BY <5>2 DEF Datagram
      <4> QED BY <1>0, <3>1, <4>1, HandledTime DEF NumbersOK
    <3>2. CASE UNCHANGED <<clockVars, putBack, putAhead, wasSet>>
      BY <1>0, <3>2, Zenon DEF NamesOK
    <3> QED BY <1>9, <3>1, <3>2 DEF SntpReceive
  <2> QED BY <1>0, <1>9, <2>1, Zenon DEF NamesOK, SntpReceive, AfterReceive, PCs
<1>10. CASE EnterSelect
  BY <1>0, <1>10, Zenon DEF NamesOK, EnterSelect, PCs
<1>11. CASE SelectReadable
  BY <1>0, <1>11, Zenon DEF NamesOK, SelectReadable, PCs
<1>12. CASE SelectTimeout
  BY <1>0, <1>12, Zenon DEF NamesOK, SelectTimeout, PCs
<1>13. CASE Tick
  BY <1>0, <1>13, Zenon DEF NamesOK, Tick
<1>14. CASE Arrive
  BY <1>0, <1>14, Zenon DEF NamesOK, Arrive
<1>15. CASE UNCHANGED vars
  BY <1>0, <1>15, Zenon DEF NamesOK, vars
<1> QED
  BY <1>1, <1>2, <1>3, <1>4, <1>5, <1>6, <1>7, <1>8, <1>9, <1>10, <1>11,
     <1>12, <1>13, <1>14, <1>15, Zenon DEF Next

LEMMA NumbersStep == TypeOK /\ [Next]_vars => NumbersOK'
<1> SUFFICES ASSUME TypeOK, [Next]_vars PROVE NumbersOK'
  OBVIOUS
<1> USE DEF clockVars, netVars, loopVars, history
<1>0. NumbersOK
  BY TypeParts
<1>1. CASE BindSntpPort
  BY <1>0, <1>1 DEF NumbersOK, BindSntpPort
<1>2. CASE Top
  <2>1. timeNow' \in Int /\ readAt' \in Nat
    BY <1>0, <1>2 DEF NumbersOK, Top, ReadClock, Clock
  <2>2. since' \in Nat /\ syncAt' \in Nat
    BY <1>0, <1>2, Zenon DEF NumbersOK, Top
  <2> QED BY <1>0, <1>2, <2>1, <2>2 DEF NumbersOK, Top
<1>3. CASE TcpAnswer
  <2>1. PICK s \in since .. now :
          HandleReceivedTime(timeNow, Sec(s) * TicksPerSec)
    BY <1>3, Zenon DEF TcpAnswer
  <2>2. timeNow \in Int /\ Sec(s) * TicksPerSec \in Int
    BY <1>0, TimevalType, TicksAssumption DEF NumbersOK
  <2>3. offset' \in Int /\ slew' \in Int /\ rtc' \in Int
    BY <2>1, <2>2, HandledTime
  <2> QED BY <1>0, <1>3, <2>3 DEF NumbersOK, TcpAnswer
<1>4. CASE SntpAnswer
  <2>1. PICK time \in SntpTimes(timeNow, since, now, timeNow') :
          HandleReceivedTime(timeNow', time)
    BY <1>4, Zenon DEF SntpAnswer
  <2>2. /\ timeNow \in Int /\ timeNow' \in Int /\ now \in Nat /\ since \in Nat
        /\ readAt' \in Nat
    BY <1>0, <1>4 DEF NumbersOK, SntpAnswer, ReadClock, Clock
  <2>3. time \in Int
    BY <2>2, SntpTimesType
  <2>4. offset' \in Int /\ slew' \in Int /\ rtc' \in Int
    BY <2>1, <2>2, <2>3, HandledTime
  <2>5. fds' \in 0 .. FdLimit
    BY <1>0, <1>4, NetworkAssumption DEF NumbersOK, SntpAnswer
  <2> QED BY <1>0, <1>4, <2>2, <2>4, <2>5 DEF NumbersOK, SntpAnswer
<1>5. CASE NoAnswer
  <2>1. fds' \in 0 .. FdLimit
    <3>1. CASE Head(todo) = "sntp"
      BY <1>0, <1>5, <3>1, NetworkAssumption DEF NumbersOK, NoAnswer
    <3>2. CASE Head(todo) # "sntp"
      BY <1>0, <1>5, <3>2 DEF NumbersOK, NoAnswer
    <3> QED BY <3>1, <3>2
  <2> QED BY <1>0, <1>5, <2>1 DEF NumbersOK, NoAnswer
<1>6. CASE NoLine \/ NoSocket
  BY <1>0, <1>6 DEF NumbersOK, NoLine, NoSocket
<1>7. CASE Broadcast
  <2>1. nextSync' \in Int
    BY <1>0, <1>7, TimevalType, TimingAssumption
       DEF NumbersOK, Broadcast, NextDate
  <2> QED BY <1>0, <1>7, <2>1 DEF NumbersOK, Broadcast
<1>8. CASE NothingReceived
  BY <1>0, <1>8 DEF NumbersOK, NothingReceived
<1>9. CASE SntpReceive
  <2>1. offset' \in Int /\ slew' \in Int /\ rtc' \in Int
    <3>1. CASE HandleReceivedTime(timeNow, Head(inbox).stamp)
      <4>1. inbox \in Seq(Datagram) /\ inbox # <<>>
        BY <1>9 DEF SntpReceive, TypeOK
      <4>2. Head(inbox) \in Datagram
        BY <4>1, HeadTailProperties
      <4>3. Head(inbox).stamp \in Int
        BY <4>2 DEF Datagram
      <4> QED BY <1>0, <3>1, <4>3, HandledTime DEF NumbersOK
    <3>2. CASE UNCHANGED <<clockVars, putBack, putAhead, wasSet>>
      BY <1>0, <3>2 DEF NumbersOK
    <3> QED BY <1>9, <3>1, <3>2 DEF SntpReceive
  <2> QED BY <1>0, <1>9, <2>1 DEF NumbersOK, SntpReceive
<1>10. CASE EnterSelect
  BY <1>0, <1>10 DEF NumbersOK, EnterSelect
<1>11. CASE SelectReadable
  <2>1. tvUsec' \in {Garbage} \cup 0 .. TicksPerSec - 1
    <3>1. CASE tvUsec # Garbage
      <4>1. TimeLeft \in Int
        <5>1. SleepTime * TicksPerSec \in Int /\ tvUsec \in Int
          BY <1>0, TimingAssumption, TicksAssumption DEF NumbersOK, Garbage
        <5> QED BY <1>0, <5>1 DEF NumbersOK, TimeLeft, Timeout
      <4> QED BY <1>11, <3>1, <4>1, TimevalType DEF SelectReadable, UsecLeft
    <3>2. CASE tvUsec = Garbage
      BY <1>11, <3>2, Zenon DEF SelectReadable
    <3> QED BY <3>1, <3>2
  <2> QED BY <1>0, <1>11, <2>1 DEF NumbersOK, SelectReadable
<1>12. CASE SelectTimeout
  BY <1>0, <1>12, TicksAssumption DEF NumbersOK, SelectTimeout
<1>13. CASE Tick
  <2>1. PICK clock \in SlewedOff(offset, slew) :
          offset' = clock.offset /\ slew' = clock.slew
    BY <1>13, Zenon DEF Tick
  <2>2. offset' \in Int /\ slew' \in Int
    BY <1>0, <2>1 DEF NumbersOK, SlewedOff, Sign
  <2>3. now' \in Nat /\ rtc' = rtc
    BY <1>0, <1>13 DEF NumbersOK, Tick
  <2> QED BY <1>0, <1>13, <2>2, <2>3 DEF NumbersOK, Tick
<1>14. CASE Arrive
  BY <1>0, <1>14 DEF NumbersOK, Arrive
<1>15. CASE UNCHANGED vars
  BY <1>0, <1>15 DEF NumbersOK, vars
<1> QED
  BY <1>1, <1>2, <1>3, <1>4, <1>5, <1>6, <1>7, <1>8, <1>9, <1>10, <1>11,
     <1>12, <1>13, <1>14, <1>15, Zenon DEF Next

LEMMA SentType ==
  ASSUME NumbersOK, NEW kind \in {"reply", "bcast"}, NEW arrived \in Int
  PROVE  Sent(kind, arrived) \in SentDatagram
BY DEF NumbersOK, Sent, SentDatagram, Clock

\* The front of the queue stays where it is when a datagram is appended.
LEMMA AppendKeepsHead ==
  ASSUME NEW S, NEW s \in Seq(S), NEW e \in S, s # <<>>
  PROVE  Head(Append(s, e)) = Head(s)
BY HeadTailAppend

LEMMA CommandType ==
  ASSUME args \in Commands
  PROVE  /\ args.sources \in Seq(Servers)
         /\ args.sources # <<>>
         /\ Len(args.sources) \in Nat
<1>1. args \in Command /\ args.sources # <<>>
  BY CommandsAssumption
<1>2. args.sources \in Seq(Servers)
  BY <1>1 DEF Command
<1> QED BY <1>1, <1>2, LenProperties

LEMMA SequencesStep == TypeOK /\ [Next]_vars => SequencesOK'
<1> SUFFICES ASSUME TypeOK, [Next]_vars PROVE SequencesOK'
  OBVIOUS
<1> USE DEF clockVars, netVars, loopVars, history
<1>0. NamesOK /\ NumbersOK /\ SequencesOK
  BY TypeParts
<1>1. CASE BindSntpPort
  BY <1>0, <1>1, Zenon DEF SequencesOK, BindSntpPort
<1>2. CASE Top
  <2>1. out' \in Seq(SentDatagram)
    BY <1>2, EmptySeq DEF Top
  <2>2. todo' \in Seq(Servers) /\ (pc' = "fetch" => todo' # <<>>)
    BY <1>0, <1>2, CommandType DEF SequencesOK, NamesOK, Top
  <2>3. inbox' = inbox
    BY <1>2 DEF Top
  <2> QED BY <1>0, <2>1, <2>2, <2>3 DEF SequencesOK
<1>3. CASE TcpAnswer
  BY <1>0, <1>3, EmptySeq DEF SequencesOK, TcpAnswer
<1>4. CASE SntpAnswer
  BY <1>0, <1>4, EmptySeq DEF SequencesOK, SntpAnswer
<1>5. CASE NoAnswer
  <2>1. todo \in Seq(Servers) /\ todo # <<>>
    BY <1>0, <1>5 DEF SequencesOK, NoAnswer
  <2>2. Tail(todo) \in Seq(Servers) /\ Len(Tail(todo)) = Len(todo) - 1
    BY <2>1, HeadTailProperties
  <2>3. Len(todo) # 1 => Tail(todo) # <<>>
    <3>1. Len(todo) \in Nat \ {0}
      BY <2>1, EmptySeq
    <3>2. Tail(todo) = <<>> => Len(Tail(todo)) = 0
      BY EmptySeq
    <3> QED BY <2>2, <3>1, <3>2
  <2> QED BY <1>0, <1>5, <2>2, <2>3 DEF SequencesOK, NoAnswer
<1>6. CASE NoLine \/ NoSocket
  BY <1>0, <1>6 DEF SequencesOK, NoLine, NoSocket
<1>7. CASE Broadcast
  <2>1. Sent("bcast", now) \in SentDatagram
    BY <1>0, SentType DEF NumbersOK
  <2>2. out' \in Seq(SentDatagram)
    <3>1. Append(out, Sent("bcast", now)) \in Seq(SentDatagram)
      BY <1>0, <2>1, AppendProperties DEF SequencesOK
    <3> QED BY <1>0, <1>7, <3>1, Zenon DEF SequencesOK, Broadcast
  <2>3. [kind |-> "bcast", stamp |-> timeNow, arrived |-> now] \in Datagram
    BY <1>0 DEF NumbersOK, Datagram
  <2>4. inbox' \in Seq(Datagram)
    <3> DEFINE packet == [kind |-> "bcast", stamp |-> timeNow, arrived |-> now]
    <3>1. Append(inbox, packet) \in Seq(Datagram)
      BY <1>0, <2>3, AppendProperties DEF SequencesOK
    <3> QED BY <1>0, <1>7, <3>1, Zenon DEF SequencesOK, Broadcast
  <2> QED BY <1>0, <1>7, <2>2, <2>4 DEF SequencesOK, Broadcast
<1>8. CASE NothingReceived
  BY <1>0, <1>8 DEF SequencesOK, NothingReceived, AfterReceive
<1>9. CASE SntpReceive
  <2>1. /\ inbox \in Seq(Datagram) /\ inbox # <<>>
        /\ out \in Seq(SentDatagram)
    BY <1>0, <1>9 DEF SntpReceive, SequencesOK
  <2>2. Tail(inbox) \in Seq(Datagram) /\ Head(inbox).arrived \in Int
    <3>1. Head(inbox) \in Datagram /\ Tail(inbox) \in Seq(Datagram)
      BY <2>1, HeadTailProperties
    <3> QED BY <3>1 DEF Datagram
  <2>3. Sent("reply", Head(inbox).arrived) \in SentDatagram
    BY <1>0, <2>2, SentType
  <2>4. Append(out, Sent("reply", Head(inbox).arrived)) \in Seq(SentDatagram)
    BY <2>1, <2>3, AppendProperties
  <2>5. out' \in Seq(SentDatagram)
    BY <1>9, <2>1, <2>4 DEF SntpReceive
  <2> QED BY <1>0, <1>9, <2>2, <2>5 DEF SequencesOK, SntpReceive, AfterReceive
<1>10. CASE EnterSelect
  BY <1>0, <1>10, EmptySeq DEF SequencesOK, EnterSelect
<1>11. CASE SelectReadable
  BY <1>0, <1>11 DEF SequencesOK, SelectReadable
<1>12. CASE SelectTimeout
  BY <1>0, <1>12 DEF SequencesOK, SelectTimeout
<1>13. CASE Tick
  BY <1>0, <1>13 DEF SequencesOK, Tick
<1>14. CASE Arrive
  <2>1. PICK kind \in Datagrams :
          inbox' = Append(inbox, [kind |-> kind, stamp |-> now, arrived |-> now])
    BY <1>14, Zenon DEF Arrive
  <2>2. [kind |-> kind, stamp |-> now, arrived |-> now] \in Datagram
    BY <1>0, NetworkAssumption DEF NumbersOK, Datagram
  <2>3. inbox' \in Seq(Datagram)
    BY <1>0, <2>1, <2>2, AppendProperties DEF SequencesOK
  <2> QED BY <1>0, <1>14, <2>3 DEF SequencesOK, Arrive
<1>15. CASE UNCHANGED vars
  BY <1>0, <1>15, Zenon DEF SequencesOK, vars
<1> QED
  BY <1>1, <1>2, <1>3, <1>4, <1>5, <1>6, <1>7, <1>8, <1>9, <1>10, <1>11,
     <1>12, <1>13, <1>14, <1>15, Zenon DEF Next

\* Every variable of the main loop keeps its type (main.c:360).
THEOREM TypeCorrect == Spec => []TypeOK
<1>1. TypeOK /\ [Next]_vars => TypeOK'
  <2> SUFFICES ASSUME TypeOK, [Next]_vars PROVE TypeOK'
    OBVIOUS
  <2>1. NamesOK' /\ NumbersOK' /\ SequencesOK'
    BY NamesStep, NumbersStep, SequencesStep
  <2> QED BY <2>1, Zenon DEF TypeOK, NamesOK, NumbersOK, SequencesOK
<1> QED BY InitType, <1>1, PTL DEF Spec

-----------------------------------------------------------------------------
(* What GoDayTime has left to ask is of the command line.                  *)

\* Without an SNTP server in it there is none left.
TodoTcp ==
  Asks({"tcp", "daytime"}) => \A i \in DOMAIN todo : todo[i] \in {"tcp", "daytime"}

LEMMA TodoStep == TypeOK /\ TodoTcp /\ [Next]_vars => TodoTcp'
<1> SUFFICES ASSUME TypeOK, TodoTcp, [Next]_vars PROVE TodoTcp'
  OBVIOUS
<1> USE DEF clockVars, netVars, loopVars, history
<1>0. todo \in Seq(Servers) /\ (pc = "fetch" => todo # <<>>)
  BY DEF TypeOK
<1>1. args' = args
  BY Zenon DEF Next, BindSntpPort, Top, TcpAnswer, SntpAnswer, NoAnswer, NoLine,
               NoSocket, Broadcast, NothingReceived, SntpReceive, EnterSelect,
               SelectReadable, SelectTimeout, Tick, Arrive, vars
<1>2. CASE Top
  BY <1>0, <1>1, <1>2 DEF TodoTcp, Asks, Top
<1>3. CASE TcpAnswer \/ SntpAnswer
  <2>1. todo' = <<>>
    BY <1>3 DEF TcpAnswer, SntpAnswer
  <2> QED BY <2>1 DEF TodoTcp
<1>4. CASE NoAnswer
  <2>1. todo # <<>> /\ todo' = Tail(todo)
    BY <1>0, <1>4 DEF NoAnswer
  <2>2. \A i \in DOMAIN todo' : i + 1 \in DOMAIN todo /\ todo'[i] = todo[i + 1]
    BY <1>0, <2>1, HeadTailProperties, LenProperties
  <2> QED BY <1>0, <1>1, <2>2 DEF TodoTcp, Asks
<1>5. CASE UNCHANGED todo
  BY <1>0, <1>1, <1>5 DEF TodoTcp, Asks
<1> QED BY <1>2, <1>3, <1>4, <1>5, Zenon
        DEF Next, BindSntpPort, NoLine, NoSocket, Broadcast, NothingReceived,
            SntpReceive, EnterSelect, SelectReadable, SelectTimeout, Tick,
            Arrive, vars

-----------------------------------------------------------------------------
(* What select reported is still in the queue when it is read.             *)

\* The datagram stays from the end of select to the end of the iteration.
QueueInv ==
  /\ pc = "start" => ~ready
  /\ pc \in {"top", "fetch", "broadcast", "receive"} /\ ready => inbox # <<>>

LEMMA QueueStep == TypeOK /\ QueueInv /\ [Next]_vars => QueueInv'
<1> SUFFICES ASSUME TypeOK, QueueInv, [Next]_vars PROVE QueueInv'
  OBVIOUS
<1> USE DEF clockVars, netVars, loopVars, history, QueueInv
<1>0. CASE BindSntpPort \/ Top
  BY <1>0 DEF BindSntpPort, Top
<1>1. CASE TcpAnswer \/ SntpAnswer \/ NoAnswer \/ NoLine \/ NoSocket
  BY <1>1 DEF TcpAnswer, SntpAnswer, NoAnswer, NoLine, NoSocket
<1>2. CASE Broadcast
  <2> DEFINE packet == [kind |-> "bcast", stamp |-> timeNow, arrived |-> now]
  <2>1. packet \in Datagram /\ inbox \in Seq(Datagram)
    BY DEF TypeOK, Datagram
  <2>2. Append(inbox, packet) # <<>>
    BY <2>1, AppendProperties
  <2> QED BY <1>2, <2>2, Zenon DEF Broadcast
<1>3. CASE NothingReceived \/ SntpReceive
  BY <1>3, Zenon DEF NothingReceived, SntpReceive, AfterReceive
<1>4. CASE EnterSelect \/ SelectReadable \/ SelectTimeout
  BY <1>4, Zenon DEF EnterSelect, SelectReadable, SelectTimeout
<1>5. CASE Tick
  BY <1>5, Zenon DEF Tick
<1>6. CASE Arrive
  <2>1. pc \in {"fetch", "wait"} /\ pc' = pc /\ ready' = ready
    BY <1>6, Zenon DEF Arrive
  <2>2. PICK kind \in Datagrams :
          inbox' = Append(inbox, [kind |-> kind, stamp |-> now, arrived |-> now])
    BY <1>6, Zenon DEF Arrive
  <2>3. /\ [kind |-> kind, stamp |-> now, arrived |-> now] \in Datagram
        /\ inbox \in Seq(Datagram)
    BY NetworkAssumption DEF TypeOK, Datagram
  <2>4. inbox' # <<>>
    BY <2>2, <2>3, AppendProperties
  <2> QED BY <2>1, <2>4, Zenon
<1>7. CASE UNCHANGED vars
  BY <1>7, Zenon DEF vars
<1> QED BY <1>0, <1>1, <1>2, <1>3, <1>4, <1>5, <1>6, <1>7, Zenon DEF Next

\* SNTPReceive is called only when a datagram is there to be read, so that it
\* never waits for one (sntp.c:363).
THEOREM ReceiveNeverBlocks == Spec => []NeverBlocksInReceive
<1>1. Init => QueueInv
  BY DEF Init, QueueInv
<1>2. QueueInv => NeverBlocksInReceive
  BY DEF QueueInv, NeverBlocksInReceive, Receiving
<1> QED BY <1>1, <1>2, QueueStep, TypeCorrect, PTL DEF Spec

-----------------------------------------------------------------------------
(* The pace of synchronising.                                              *)

\* No step puts the clock back unless that is recorded, and the record is
\* only dropped at the top of the loop.
LEMMA ClockForward ==
  ASSUME TypeOK, [Next]_vars, ~putBack'
  PROVE  /\ Clock <= Clock'
         /\ ~Top => ~putBack /\ (slew >= 0 => slew' >= 0)
<1> USE DEF clockVars, netVars, loopVars, history
<1>0. /\ now \in Nat /\ offset \in Int /\ slew \in Int
      /\ timeNow \in Int /\ since \in Nat
      /\ now' \in Nat /\ offset' \in Int /\ slew' \in Int /\ timeNow' \in Int
      /\ Clock = now + offset /\ Clock' = now' + offset'
  BY NumbersStep DEF NumbersOK, TypeOK, Clock
<1>1. CASE \E timeRead, time \in Int :
             now' = now /\ HandleReceivedTime(timeRead, time)
  <2>1. PICK timeRead \in Int, time \in Int :
          now' = now /\ HandleReceivedTime(timeRead, time)
    BY <1>1
  <2>2. ~putBack /\ (slew >= 0 => slew' >= 0)
    BY <2>1, HandledTime, Zenon
  <2>3. offset <= offset' /\ now' = now
    BY <2>1, HandledTime, Zenon
  <2>4. Clock <= Clock'
    <3>1. now \in Int /\ offset \in Int /\ offset' \in Int
      BY <1>0
    <3>2. now + offset <= now + offset'
      BY <2>3, <3>1, ErrorGrows, Zenon
    <3> QED BY <1>0, <2>3, <3>2, Zenon
  <2> QED BY <2>2, <2>4, Zenon
<1>2. CASE UNCHANGED <<now, clockVars>> /\ (Top \/ putBack' = putBack)
  BY <1>0, <1>2
<1>3. CASE Tick
  <2>1. PICK clock \in SlewedOff(offset, slew) :
          offset' = clock.offset /\ slew' = clock.slew
    BY <1>3, Zenon DEF Tick
  <2>2. offset - 1 <= offset' /\ (slew >= 0 => slew' >= 0)
    BY <1>0, <2>1 DEF SlewedOff, Sign
  <2>3. now' = now + 1
    BY <1>3 DEF Tick
  <2>4. Clock <= Clock'
    <3>1. now \in Int /\ offset \in Int /\ offset' \in Int
      BY <1>0
    <3>2. now + offset <= (now + 1) + offset'
      BY <2>2, <3>1, ErrorGrows, Zenon
    <3> QED BY <1>0, <2>3, <3>2, Zenon
  <2>5. putBack' = putBack
    BY <1>3 DEF Tick
  <2> QED BY <2>2, <2>4, <2>5, Zenon
<1>4. CASE TcpAnswer
  <2>1. PICK s \in since .. now :
          HandleReceivedTime(timeNow, Sec(s) * TicksPerSec)
    BY <1>4, Zenon DEF TcpAnswer
  <2>2. Sec(s) * TicksPerSec \in Int
    BY <1>0, TimevalType, TicksAssumption
  <2>3. now' = now
    BY <1>4 DEF TcpAnswer
  <2> QED BY <1>0, <1>1, <2>1, <2>2, <2>3, Zenon
<1>5. CASE SntpAnswer
  <2>1. PICK time \in SntpTimes(timeNow, since, now, timeNow') :
          HandleReceivedTime(timeNow', time)
    BY <1>5, Zenon DEF SntpAnswer
  <2>2. /\ timeNow \in Int /\ timeNow' \in Int /\ now \in Nat /\ since \in Nat
        /\ now' = now
    BY <1>0, <1>5 DEF SntpAnswer
  <2>3. time \in Int
    BY <2>2, SntpTimesType
  <2> QED BY <1>1, <2>1, <2>2, <2>3, Zenon
<1>6. CASE SntpReceive
  <2>1. now' = now /\ inbox # <<>>
    BY <1>6 DEF SntpReceive
  <2>2. CASE HandleReceivedTime(timeNow, Head(inbox).stamp)
    <3>1. Head(inbox) \in Datagram
      BY <2>1, HeadTailProperties DEF TypeOK
    <3>2. Head(inbox).stamp \in Int /\ timeNow \in Int
      BY <1>0, <3>1 DEF Datagram
    <3> QED BY <1>1, <2>1, <2>2, <3>2, Zenon
  <2>3. CASE UNCHANGED <<clockVars, putBack, putAhead, wasSet>>
    BY <1>2, <2>1, <2>3
  <2> QED BY <1>6, <2>2, <2>3 DEF SntpReceive
<1>7. CASE UNCHANGED vars
  BY <1>2, <1>7 DEF vars
<1> QED BY <1>2, <1>3, <1>4, <1>5, <1>6, <1>7, Zenon
        DEF Next, BindSntpPort, Top, NoAnswer, NoLine, NoSocket, Broadcast,
            NothingReceived, EnterSelect, SelectReadable, SelectTimeout, Arrive

\* The reading NextSync is computed from is not ahead of the clock.
ReadingBehind ==
  ~putBack /\ pc \in {"fetch", "broadcast"} => timeNow <= Clock

NextSyncInv == ReadingBehind /\ NextSyncNear

LEMMA ReadingBehindStep ==
  TypeOK /\ ReadingBehind /\ [Next]_vars => ReadingBehind'
<1> SUFFICES ASSUME TypeOK, ReadingBehind, [Next]_vars, ~putBack',
                    pc' \in {"fetch", "broadcast"}
             PROVE  timeNow' <= Clock'
  BY Zenon DEF ReadingBehind
<1> USE DEF clockVars, netVars, loopVars, history
<1>1. /\ Clock <= Clock' /\ (~Top => ~putBack)
      /\ Clock \in Int /\ Clock' \in Int /\ timeNow \in Int
  BY ClockForward, NumbersStep, TypeParts DEF NumbersOK, Clock
<1>2. CASE Top \/ SntpAnswer
  BY <1>1, <1>2 DEF Top, SntpAnswer, ReadClock
<1>3. CASE ~(Top \/ SntpAnswer)
  <2>1. timeNow' = timeNow /\ pc \in {"fetch", "broadcast"}
    BY <1>3, Zenon
       DEF Next, BindSntpPort, TcpAnswer, NoAnswer, NoLine, NoSocket, Broadcast,
           NothingReceived, SntpReceive, AfterReceive, EnterSelect,
           SelectReadable, SelectTimeout, Tick, Arrive, vars
  <2>2. timeNow <= Clock
    BY <1>1, <1>3, <2>1, Zenon DEF ReadingBehind
  <2> QED BY <1>1, <2>1, <2>2
<1> QED BY <1>2, <1>3

LEMMA NextSyncStep == TypeOK /\ NextSyncInv /\ [Next]_vars => NextSyncInv'
<1> SUFFICES ASSUME TypeOK, NextSyncInv, [Next]_vars, ~putBack'
             PROVE  nextSync' <= Sec(Clock') + SleepTime
  BY ReadingBehindStep, Zenon DEF NextSyncInv, NextSyncNear
<1> USE DEF clockVars, netVars, loopVars, history
<1>1. /\ Clock <= Clock' /\ (~Top => ~putBack)
      /\ Clock \in Int /\ Clock' \in Int /\ timeNow \in Int
      /\ nextSync \in Int /\ SleepTime \in Nat
  BY ClockForward, NumbersStep, TypeParts, TimingAssumption
     DEF NumbersOK, Clock
<1>2. Sec(Clock) <= Sec(Clock') /\ Sec(Clock) \in Int /\ Sec(Clock') \in Int
  BY <1>1, SecMonotonic, TimevalType
<1>3. CASE Top
  <2>1. CASE Due(timeNow')
    BY <1>1, <1>2, <1>3, <2>1 DEF Top, Due, ReadClock
  <2>2. CASE ~Due(timeNow')
    <3>1. nextSync' = nextSync /\ ~putBack
      BY <1>3, <2>2 DEF Top
    <3>2. nextSync <= Sec(Clock) + SleepTime
      BY <3>1, Zenon DEF NextSyncInv, NextSyncNear
    <3> QED BY <1>1, <1>2, <3>1, <3>2
  <2> QED BY <2>1, <2>2
<1>4. CASE Broadcast
  <2>1. ~putBack /\ pc = "broadcast" /\ nextSync' = Sec(timeNow) + SleepTime
    BY <1>1, <1>4 DEF Broadcast, Top, NextDate
  <2>2. timeNow <= Clock
    BY <2>1, Zenon DEF NextSyncInv, ReadingBehind
  <2>3. Sec(timeNow) <= Sec(Clock) /\ Sec(timeNow) \in Int
    BY <1>1, <2>2, SecMonotonic, TimevalType
  <2> QED BY <1>1, <1>2, <2>1, <2>3
<1>5. CASE ~(Top \/ Broadcast)
  <2>1. nextSync' = nextSync
    BY <1>5, Zenon
       DEF Next, BindSntpPort, TcpAnswer, SntpAnswer, NoAnswer, NoLine, NoSocket,
           NothingReceived, SntpReceive, EnterSelect, SelectReadable,
           SelectTimeout, Tick, Arrive, vars
  <2>2. nextSync <= Sec(Clock) + SleepTime
    BY <1>1, <1>5, Zenon DEF NextSyncInv, NextSyncNear
  <2> QED BY <1>1, <1>2, <2>1, <2>2
<1> QED BY <1>3, <1>4, <1>5

LEMMA InitClock == Init => Clock \in Nat
<1> SUFFICES ASSUME Init PROVE Clock \in Nat
  OBVIOUS
<1>1. now = StartTime /\ offset \in InitErrors
  BY Zenon DEF Init
<1> QED BY <1>1, TimingAssumption DEF Clock

\* The date of the next synchronisation is within reach of the clock unless
\* the clock was put back (main.c:398 and 407).
THEOREM NextSyncWithinReach == Spec => []NextSyncNear
<1>1. Init => NextSyncInv
  <2> SUFFICES ASSUME Init PROVE NextSyncInv
    OBVIOUS
  <2>1. ReadingBehind
    BY DEF Init, ReadingBehind
  <2>2. Sec(Clock) >= 0 /\ Sec(Clock) \in Int
    BY InitClock, TicksAssumption DEF Sec
  <2>3. nextSync = 0
    BY DEF Init
  <2> QED BY <2>1, <2>2, <2>3, TimingAssumption DEF NextSyncInv, NextSyncNear
<1>2. NextSyncInv => NextSyncNear
  BY DEF NextSyncInv
<1> QED BY <1>1, <1>2, NextSyncStep, TypeCorrect, PTL DEF Spec

-----------------------------------------------------------------------------
(* The servers are not asked too often.                                    *)

\* While the clock is not put ahead it does not gain on the true time, and
\* that it was not is only forgotten at the top of the loop.
LEMMA ClockBehind ==
  ASSUME TypeOK, [Next]_vars, ~putAhead', ~putAhead => slew <= 0
  PROVE  /\ offset' <= offset
         /\ ~Top => ~putAhead /\ slew' <= 0
         /\ Top => slew' <= 0
<1> USE DEF clockVars, netVars, loopVars, history
<1>0. /\ now \in Nat /\ offset \in Int /\ slew \in Int
      /\ timeNow \in Int /\ since \in Nat
      /\ offset' \in Int /\ slew' \in Int /\ timeNow' \in Int
  BY NumbersStep DEF NumbersOK, TypeOK
<1>1. CASE ~Top /\ \E timeRead, time \in Int : HandleReceivedTime(timeRead, time)
  <2>1. PICK timeRead \in Int, time \in Int : HandleReceivedTime(timeRead, time)
    BY <1>1
  <2>2. ~putAhead /\ offset' <= offset /\ (slew <= 0 => slew' <= 0)
    BY <2>1, HandledTime, Zenon
  <2> QED BY <1>1, <2>2, Zenon
<1>2. CASE UNCHANGED clockVars /\ putAhead' = putAhead /\ ~Top
  BY <1>0, <1>2
<1>3. CASE Top
  <2>1. UNCHANGED clockVars
    BY <1>3 DEF Top
  <2>2. CASE Due(timeNow')
    <3>1. putAhead' = (slew > 0)
      BY <1>3, <2>2 DEF Top
    <3>2. ~(slew > 0)
      BY <3>1, Zenon
    <3>3. offset' = offset /\ slew' = slew
      BY <2>1
    <3>4. offset' <= offset /\ slew' <= 0
      BY <1>0, <3>2, <3>3
    <3> QED BY <1>3, <3>4
  <2>3. CASE ~Due(timeNow')
    <3>1. putAhead' = putAhead
      BY <1>3, <2>3 DEF Top
    <3>2. slew <= 0
      BY <3>1, Zenon
    <3>3. offset' = offset /\ slew' = slew
      BY <2>1
    <3>4. offset' <= offset /\ slew' <= 0
      BY <1>0, <3>2, <3>3
    <3> QED BY <1>3, <3>4
  <2> QED BY <2>2, <2>3
<1>4. CASE Tick /\ ~Top
  <2>1. PICK clock \in SlewedOff(offset, slew) :
          offset' = clock.offset /\ slew' = clock.slew
    BY <1>4, Zenon DEF Tick
  <2>2. putAhead' = putAhead
    BY <1>4 DEF Tick
  <2>3. slew <= 0
    BY <2>2
  <2>4. offset' <= offset /\ slew' <= 0
    BY <1>0, <2>1, <2>3 DEF SlewedOff, Sign
  <2> QED BY <1>4, <2>2, <2>4
<1>5. CASE TcpAnswer /\ ~Top
  <2>1. PICK s \in since .. now :
          HandleReceivedTime(timeNow, Sec(s) * TicksPerSec)
    BY <1>5, Zenon DEF TcpAnswer
  <2>2. Sec(s) * TicksPerSec \in Int
    BY <1>0, TimevalType, TicksAssumption
  <2> QED BY <1>0, <1>1, <1>5, <2>1, <2>2, Zenon
<1>6. CASE SntpAnswer /\ ~Top
  <2>1. PICK time \in SntpTimes(timeNow, since, now, timeNow') :
          HandleReceivedTime(timeNow', time)
    BY <1>6, Zenon DEF SntpAnswer
  <2>2. time \in Int
    BY <1>0, SntpTimesType
  <2> QED BY <1>0, <1>1, <1>6, <2>1, <2>2, Zenon
<1>7. CASE SntpReceive /\ ~Top
  <2>1. inbox # <<>>
    BY <1>7 DEF SntpReceive
  <2>2. CASE HandleReceivedTime(timeNow, Head(inbox).stamp)
    <3>1. Head(inbox) \in Datagram
      BY <2>1, HeadTailProperties DEF TypeOK
    <3>2. Head(inbox).stamp \in Int /\ timeNow \in Int
      BY <1>0, <3>1 DEF Datagram
    <3> QED BY <1>1, <1>7, <2>2, <3>2, Zenon
  <2>3. CASE UNCHANGED <<clockVars, putBack, putAhead, wasSet>>
    BY <1>2, <1>7, <2>3
  <2> QED BY <1>7, <2>2, <2>3 DEF SntpReceive
<1>8. CASE UNCHANGED vars /\ ~Top
  BY <1>2, <1>8 DEF vars
<1> QED BY <1>2, <1>3, <1>4, <1>5, <1>6, <1>7, <1>8, Zenon
        DEF Next, BindSntpPort, NoAnswer, NoLine, NoSocket, Broadcast,
            NothingReceived, EnterSelect, SelectReadable, SelectTimeout, Arrive

\* The reading NextSync is computed from is of this fetch and not behind the clock.
ReadInFetch ==
  pc \in {"fetch", "broadcast"} => offset + readAt <= timeNow /\ syncAt <= readAt

\* NextSync is SleepTime and the rest of a second behind the last fetch.
DateAhead ==
  nextSync > 0 /\ pc \notin {"fetch", "broadcast", "exited"}
    => offset + syncAt < (nextSync - SleepTime + 1) * TicksPerSec

TurnsInv == syncAt <= now /\ (~putAhead => slew <= 0 /\ ReadInFetch /\ DateAhead)

\* With a smaller error a clock shows less.
LEMMA SmallerError ==
  ASSUME NEW less \in Int, NEW error \in Int, NEW t \in Int, NEW bound \in Int, less <= error
  PROVE  /\ less + t <= t + error
         /\ error + t <= bound => less + t <= bound
         /\ error + t < bound => less + t < bound
OBVIOUS

LEMMA TurnsStep == TypeOK /\ TurnsInv /\ [Next]_vars => TurnsInv'
<1> SUFFICES ASSUME TypeOK, TurnsInv, [Next]_vars PROVE TurnsInv'
  OBVIOUS
<1> USE DEF clockVars, netVars, loopVars, history
<1>1. /\ now \in Nat /\ offset \in Int /\ timeNow \in Int /\ nextSync \in Int
      /\ readAt \in Int /\ syncAt \in Int /\ SleepTime \in Nat /\ slew \in Int
      /\ offset' \in Int /\ slew' \in Int /\ now \in Int
  BY NumbersStep, TimingAssumption DEF NumbersOK, TypeOK
<1>2. syncAt' <= now'
  <2>1. CASE Top
    BY <1>1, <2>1 DEF Top, TurnsInv
  <2>2. CASE Tick
    BY <1>1, <2>2 DEF Tick, TurnsInv
  <2>3. CASE ~Top /\ ~Tick
    <3>1. syncAt' = syncAt /\ now' = now
      BY <2>3, Zenon
         DEF Next, BindSntpPort, TcpAnswer, SntpAnswer, NoAnswer, NoLine, NoSocket,
             Broadcast, NothingReceived, SntpReceive, EnterSelect, SelectReadable,
             SelectTimeout, Arrive, vars
    <3> QED BY <3>1 DEF TurnsInv
  <2> QED BY <2>1, <2>2, <2>3
<1>3. ASSUME ~putAhead' PROVE slew' <= 0 /\ ReadInFetch' /\ DateAhead'
  <2>0. offset' <= offset /\ (~Top => ~putAhead) /\ slew' <= 0
    BY <1>3, ClockBehind DEF TurnsInv
  <2>1. offset' <= offset /\ slew' <= 0
    BY <2>0
  <2>2. CASE Top
    <3>1. /\ timeNow' = now + offset /\ readAt' = now /\ offset' = offset /\ nextSync' = nextSync
      BY <2>2 DEF Top, ReadClock, Clock
    <3>2. CASE Due(timeNow')
      <4>1. pc' = "fetch" /\ syncAt' = now
        BY <2>2, <3>2 DEF Top
      <4> QED BY <1>1, <2>1, <3>1, <4>1 DEF ReadInFetch, DateAhead
    <3>3. CASE ~Due(timeNow')
      <4>1. pc' = "receive" /\ syncAt' = syncAt /\ putAhead' = putAhead /\ pc = "top"
        BY <2>2, <3>3 DEF Top
      <4> QED BY <1>3, <2>1, <3>1, <4>1 DEF ReadInFetch, DateAhead, TurnsInv
    <3> QED BY <3>2, <3>3
  <2>3. CASE ~Top
    <3>0. ReadInFetch /\ DateAhead /\ syncAt <= now
      BY <2>0, <2>3 DEF TurnsInv
    <3>1. CASE SntpAnswer
      <4>1. /\ timeNow' = now + offset /\ readAt' = now /\ syncAt' = syncAt /\ pc' = "broadcast"
        BY <3>1 DEF SntpAnswer, ReadClock, Clock
      <4>2. offset' + now <= now + offset /\ syncAt <= now
        BY <1>1, <2>1, <3>0, SmallerError, Zenon
      <4>3. ReadInFetch'
        BY <4>1, <4>2 DEF ReadInFetch
      <4>4. DateAhead'
        BY <4>1 DEF DateAhead
      <4> QED BY <2>1, <4>3, <4>4
    <3>2. CASE Broadcast
      <4>1. /\ nextSync' = Sec(timeNow) + SleepTime /\ pc = "broadcast" /\ pc' = "receive"
            /\ syncAt' = syncAt /\ offset' = offset
        BY <3>2 DEF Broadcast, NextDate
      <4>2. Sec(timeNow) \in Int /\ timeNow < (Sec(timeNow) + 1) * TicksPerSec
        BY <1>1, TicksAssumption DEF Sec
      <4>3. offset + syncAt <= timeNow
        BY <1>1, <3>0, <4>1 DEF ReadInFetch
      <4>4. nextSync' - SleepTime + 1 = Sec(timeNow) + 1
        BY <1>1, <4>1, <4>2
      <4>5. DateAhead'
        <5>1. PICK date \in Int : date = (Sec(timeNow) + 1) * TicksPerSec
          BY <4>2, TicksAssumption
        <5>2. offset + syncAt < date
          BY <1>1, <4>2, <4>3, <5>1
        <5>3. (nextSync' - SleepTime + 1) * TicksPerSec = date
          BY <4>4, <5>1
        <5> QED BY <4>1, <5>2, <5>3 DEF DateAhead
      <4> QED BY <2>1, <4>1, <4>5 DEF ReadInFetch
    <3>3. CASE ~SntpAnswer /\ ~Broadcast
      <4>1. /\ timeNow' = timeNow /\ readAt' = readAt /\ syncAt' = syncAt /\ nextSync' = nextSync
            /\ pc' \in {"fetch", "broadcast"} => pc \in {"fetch", "broadcast"}
            /\ pc' \notin {"fetch", "broadcast", "exited"} =>
                 pc \notin {"fetch", "broadcast", "exited"}
        BY <2>3, <3>3, Zenon
           DEF Next, BindSntpPort, TcpAnswer, NoAnswer, NoLine, NoSocket,
               NothingReceived, SntpReceive, AfterReceive, EnterSelect, SelectReadable,
               SelectTimeout, Tick, Arrive, vars
      <4>2. ReadInFetch'
        <5>1. pc \in {"fetch", "broadcast"} => offset + readAt <= timeNow /\ syncAt <= readAt
          BY <3>0 DEF ReadInFetch
        <5>2. pc \in {"fetch", "broadcast"} => offset' + readAt <= timeNow /\ syncAt <= readAt
          BY <1>1, <2>1, <5>1, SmallerError, Zenon
        <5> QED BY <4>1, <5>2, Zenon DEF ReadInFetch
      <4>3. DateAhead'
        <5>1. PICK date \in Int : date = (nextSync - SleepTime + 1) * TicksPerSec
          BY <1>1, TicksAssumption
        <5>2. nextSync > 0 /\ pc \notin {"fetch", "broadcast", "exited"} => offset + syncAt < date
          BY <3>0, <5>1 DEF DateAhead
        <5>3. nextSync > 0 /\ pc \notin {"fetch", "broadcast", "exited"} => offset' + syncAt < date
          <6>1. date \in Int /\ offset' \in Int /\ offset \in Int /\ syncAt \in Int /\ offset' <= offset
            BY <1>1, <2>1, <5>1
          <6> QED BY <5>2, <6>1, SmallerError, Zenon
        <5> QED BY <4>1, <5>1, <5>3 DEF DateAhead
      <4> QED BY <2>1, <4>2, <4>3
    <3> QED BY <3>1, <3>2, <3>3
  <2> QED BY <2>2, <2>3
<1> QED BY <1>2, <1>3 DEF TurnsInv

\* GoDayTime is not called again within SleepTime seconds, unless the clock was put
\* ahead since it was called last (main.c:398 and 407).
THEOREM ServersSpared == Spec => SyncPace
<1>1. Init => TurnsInv
  <2> SUFFICES ASSUME Init PROVE TurnsInv
    OBVIOUS
  <2>1. now \in Nat /\ syncAt = now /\ slew = 0 /\ nextSync = 0 /\ pc = "start"
    BY TimingAssumption DEF Init
  <2> QED BY <2>1 DEF TurnsInv, ReadInFetch, DateAhead
<1>2. TypeOK /\ TurnsInv /\ [Next]_vars =>
        [pc = "top" /\ pc' = "fetch" /\ nextSync > 0 /\ ~putAhead
           => now - syncAt > SleepTime * TicksPerSec]_vars
  <2> SUFFICES ASSUME TypeOK, TurnsInv, Next, pc = "top", pc' = "fetch", nextSync > 0, ~putAhead
               PROVE  now - syncAt > SleepTime * TicksPerSec
    BY Zenon DEF vars
  <2> USE DEF clockVars, netVars, loopVars, history
  <2>1. /\ now \in Nat /\ offset \in Int /\ nextSync \in Int /\ syncAt \in Nat
        /\ SleepTime \in Nat /\ TicksPerSec \in Nat \ {0}
    BY TimingAssumption, TicksAssumption DEF TypeOK
  <2>2. Top
    BY Zenon DEF Next, BindSntpPort, TcpAnswer, SntpAnswer, NoAnswer, NoLine, NoSocket,
                 Broadcast, NothingReceived, SntpReceive, EnterSelect, SelectReadable,
                 SelectTimeout, Tick, Arrive
  <2>3. Sec(now + offset) > nextSync
    BY <2>2 DEF Top, Due, ReadClock, Clock
  <2>4. PICK date \in Int : date = (nextSync - SleepTime + 1) * TicksPerSec
    BY <2>1
  <2>5. offset + syncAt < date
    BY <2>4 DEF TurnsInv, DateAhead
  <2>6. now + offset >= (nextSync + 1) * TicksPerSec
    <3>1. PICK s \in Int : s = Sec(now + offset)
      BY <2>1 DEF Sec
    <3>2. now + offset >= s * TicksPerSec
      BY <2>1, <3>1 DEF Sec
    <3>3. (s - (nextSync + 1)) * TicksPerSec >= 0
      BY <2>1, <2>3, <3>1
    <3>4. (s - (nextSync + 1)) * TicksPerSec = s * TicksPerSec - (nextSync + 1) * TicksPerSec
          /\ s * TicksPerSec \in Int /\ (nextSync + 1) * TicksPerSec \in Int
      BY <2>1, <3>1
    <3> QED BY <2>1, <3>2, <3>3, <3>4
  <2>7. (nextSync + 1) * TicksPerSec = date + SleepTime * TicksPerSec
        /\ SleepTime * TicksPerSec \in Int
    BY <2>1, <2>4
  <2> QED BY <2>1, <2>5, <2>6, <2>7
<1> QED BY <1>1, <1>2, TurnsStep, TypeCorrect, PTL DEF Spec, SyncPace

-----------------------------------------------------------------------------
(* How long GoDayTime takes.                                               *)

\* The servers asked so far have taken their time and no more, and TimeNow is
\* no older than that.
FetchTimed ==
  /\ pc = "fetch" =>
       /\ readAt = syncAt /\ syncAt <= since
       /\ since <= now /\ now - since <= MaxFetch
       /\ Len(todo) <= Len(args.sources)
       /\ since - syncAt <= (Len(args.sources) - Len(todo)) * MaxFetch
  /\ pc = "broadcast" =>
       syncAt <= readAt /\ readAt <= now /\ now - syncAt <= FetchTime
  /\ pc = "receive" =>
       readAt <= now /\ now - readAt <= FetchTime

LEMMA NextAttempt ==
  ASSUME NEW n \in Nat, NEW k \in 1 .. n
  PROVE  /\ (n - k) * MaxFetch + MaxFetch = (n - (k - 1)) * MaxFetch
         /\ (n - k) * MaxFetch + MaxFetch <= n * MaxFetch
         /\ (n - k) * MaxFetch \in Int
         /\ n * MaxFetch \in Nat
<1>1. MaxFetch \in Nat
  BY TimingAssumption
<1>2. /\ (n - k) * MaxFetch = n * MaxFetch - k * MaxFetch
      /\ (n - (k - 1)) * MaxFetch = n * MaxFetch - k * MaxFetch + MaxFetch
      /\ n * MaxFetch \in Nat
      /\ k * MaxFetch \in Nat
  BY <1>1
<1>3. k * MaxFetch >= MaxFetch
  BY <1>1
<1> QED BY <1>1, <1>2, <1>3

LEMMA FetchStep == TypeOK /\ FetchTimed /\ [Next]_vars => FetchTimed'
<1> SUFFICES ASSUME TypeOK, FetchTimed, [Next]_vars PROVE FetchTimed'
  OBVIOUS
<1> USE DEF clockVars, netVars, loopVars, history
<1> DEFINE n == Len(args.sources)
           k == Len(todo)
<1>0. /\ now \in Nat /\ since \in Nat /\ syncAt \in Nat /\ readAt \in Nat
      /\ n \in Nat /\ MaxFetch \in Nat
      /\ n * MaxFetch \in Nat
  BY CommandType, TimingAssumption DEF TypeOK
<1>1. CASE pc = "fetch"
  <2>1. /\ readAt = syncAt /\ syncAt <= since
        /\ since <= now /\ now - since <= MaxFetch
        /\ k <= n
        /\ since - syncAt <= (n - k) * MaxFetch
    BY <1>1 DEF FetchTimed
  <2>2. k \in 1 .. n
    <3>1. k \in Nat \ {0}
      BY <1>1, EmptySeq DEF TypeOK
    <3> QED BY <1>0, <2>1, <3>1
  <2>3. /\ (n - k) * MaxFetch + MaxFetch = (n - (k - 1)) * MaxFetch
        /\ (n - k) * MaxFetch + MaxFetch <= n * MaxFetch
        /\ (n - k) * MaxFetch \in Int
    BY <1>0, <2>2, NextAttempt
  <2>4. now - syncAt <= (n - k) * MaxFetch + MaxFetch
    BY <1>0, <2>1, <2>3
  <2>5. now - syncAt <= n * MaxFetch
    BY <1>0, <2>3, <2>4
  <2>6. CASE TcpAnswer
    <3>1. /\ pc' = "broadcast" /\ now' = now /\ readAt' = readAt
          /\ syncAt' = syncAt /\ args' = args
      BY <2>6 DEF TcpAnswer
    <3> QED BY <1>0, <2>1, <2>5, <3>1 DEF FetchTimed, FetchTime
  <2>7. CASE SntpAnswer
    <3>1. /\ pc' = "broadcast" /\ now' = now /\ readAt' = now
          /\ syncAt' = syncAt /\ args' = args
      BY <2>7 DEF SntpAnswer, ReadClock
    <3> QED BY <1>0, <2>1, <2>5, <3>1 DEF FetchTimed, FetchTime
  <2>8. CASE NoAnswer
    <3>1. /\ now' = now /\ readAt' = readAt /\ syncAt' = syncAt /\ args' = args
          /\ since' = now /\ todo' = Tail(todo)
          /\ pc' = IF k = 1 THEN "broadcast" ELSE "fetch"
      BY <2>8 DEF NoAnswer
    <3>2. Len(todo') = k - 1
      BY <1>1, <3>1, HeadTailProperties DEF TypeOK
    <3>3. CASE k = 1
      BY <1>0, <2>1, <2>5, <3>1, <3>3 DEF FetchTimed, FetchTime
    <3>4. CASE k # 1
      <4>1. pc' = "fetch"
        BY <3>1, <3>4
      <4>2. now - syncAt <= (n - (k - 1)) * MaxFetch
        BY <2>3, <2>4
      <4>3. k - 1 <= n
        BY <1>0, <2>2
      <4>4. now - syncAt <= (Len(args.sources) - Len(todo')) * MaxFetch
        BY <3>2, <4>2, Zenon
      <4>5. /\ readAt' = syncAt' /\ syncAt' <= since'
            /\ since' <= now' /\ now' - since' <= MaxFetch
        BY <1>0, <2>1, <3>1
      <4>6. Len(todo') <= Len(args'.sources)
        BY <3>1, <3>2, <4>3
      <4>7. since' - syncAt' <= (Len(args'.sources) - Len(todo')) * MaxFetch
        BY <3>1, <4>4, Zenon
      <4> QED BY <4>1, <4>5, <4>6, <4>7, Zenon DEF FetchTimed
    <3> QED BY <3>3, <3>4
  <2>9. CASE NoLine \/ NoSocket
    BY <2>9 DEF NoLine, NoSocket, FetchTimed
  <2>10. CASE Tick
    <3>1. /\ now' = now + 1 /\ now - since < MaxFetch /\ pc' = pc
          /\ UNCHANGED <<args, todo, since, readAt, syncAt>>
      BY <1>1, <2>10 DEF Tick
    <3> QED BY <1>0, <1>1, <2>1, <3>1 DEF FetchTimed
  <2>11. CASE UNCHANGED <<args, pc, now, todo, since, readAt, syncAt>>
    BY <1>1, <2>1, <2>11 DEF FetchTimed
  <2>12. TcpAnswer \/ SntpAnswer \/ NoAnswer \/ NoLine \/ NoSocket \/ Tick \/ Arrive
           \/ UNCHANGED vars
    BY <1>1 DEF Next, BindSntpPort, Top, Broadcast, NothingReceived,
                SntpReceive, EnterSelect, SelectReadable, SelectTimeout
  <2> QED BY <2>6, <2>7, <2>8, <2>9, <2>10, <2>11, <2>12, Zenon DEF Arrive, vars
<1>2. CASE Top
  <2>1. now' = now /\ readAt' = now /\ args' = args
    BY <1>2 DEF Top, ReadClock
  <2>2. CASE pc' = "fetch"
    <3>1. since' = now /\ syncAt' = now /\ todo' = args.sources
      BY <1>2, <2>2 DEF Top
    <3>2. (n - n) * MaxFetch = 0
      BY <1>0
    <3> QED BY <1>0, <2>1, <2>2, <3>1, <3>2 DEF FetchTimed
  <2>3. CASE pc' = "receive"
    BY <1>0, <2>1, <2>3 DEF FetchTimed, FetchTime
  <2> QED BY <1>2, <2>2, <2>3 DEF Top
<1>3. CASE Broadcast
  <2>1. /\ pc = "broadcast" /\ pc' = "receive"
        /\ UNCHANGED <<args, now, readAt>>
    BY <1>3 DEF Broadcast
  <2>2. syncAt <= readAt /\ readAt <= now /\ now - syncAt <= FetchTime
    BY <2>1 DEF FetchTimed
  <2> QED BY <1>0, <2>1, <2>2 DEF FetchTimed, FetchTime
<1>4. CASE UNCHANGED vars
  BY <1>4 DEF FetchTimed, FetchTime, vars
<1>5. CASE pc' \notin {"fetch", "broadcast", "receive"}
  BY <1>5 DEF FetchTimed
<1> QED
  BY <1>1, <1>2, <1>3, <1>4, <1>5
     DEF Next, BindSntpPort, TcpAnswer, SntpAnswer, NoAnswer, NoLine, NoSocket,
         NothingReceived, SntpReceive, AfterReceive, EnterSelect,
         SelectReadable, SelectTimeout, Tick, Arrive

-----------------------------------------------------------------------------
(* The stamps in the datagrams that are sent.                              *)

\* Nothing waits in the queue that has not arrived, and what select reported
\* arrived before TimeNow was read.
ArrivalsInv ==
  /\ \A i \in DOMAIN inbox : inbox[i].arrived <= now
  /\ pc \in {"fetch", "broadcast", "receive"} /\ ready
       => Head(inbox).arrived <= readAt

Fresh(datagram) ==
  /\ datagram.sentAt - datagram.readAt <= FetchTime
  /\ datagram.kind = "reply" => datagram.arrived <= datagram.readAt

OutFresh == \A i \in DOMAIN out : Fresh(out[i])

\* What is appended to the queue goes behind what is there.
LEMMA QueueAppended ==
  ASSUME NEW s \in Seq(Datagram), NEW e \in Datagram, NEW t \in Int,
         \A i \in DOMAIN s : s[i].arrived <= t,
         e.arrived <= t
  PROVE  /\ \A i \in DOMAIN Append(s, e) : Append(s, e)[i].arrived <= t
         /\ s # <<>> => Head(Append(s, e)) = Head(s)
<1>1. /\ Append(s, e) \in Seq(Datagram)
      /\ Len(Append(s, e)) = Len(s) + 1
      /\ \A i \in 1 .. Len(s) : Append(s, e)[i] = s[i]
      /\ Append(s, e)[Len(s) + 1] = e
  BY AppendProperties
<1>2. /\ DOMAIN Append(s, e) = 1 .. Len(s) + 1
      /\ DOMAIN s = 1 .. Len(s)
      /\ Len(s) \in Nat
  BY <1>1, LenProperties
<1>3. ASSUME NEW i \in DOMAIN Append(s, e)
      PROVE  Append(s, e)[i].arrived <= t
  BY <1>1, <1>2
<1>4. s # <<>> => Head(Append(s, e)) = Head(s)
  BY HeadTailAppend
<1> QED BY <1>3, <1>4

LEMMA ArrivalsStep ==
  TypeOK /\ QueueInv /\ ArrivalsInv /\ [Next]_vars => ArrivalsInv'
<1> SUFFICES ASSUME TypeOK, QueueInv, ArrivalsInv, [Next]_vars
             PROVE  ArrivalsInv'
  OBVIOUS
<1> USE DEF clockVars, netVars, loopVars, history
<1>0. /\ now \in Nat /\ readAt \in Nat
      /\ inbox \in Seq(Datagram)
      /\ \A i \in DOMAIN inbox : inbox[i] \in Datagram /\ inbox[i].arrived \in Int
      /\ \A i \in DOMAIN inbox : inbox[i].arrived <= now
  <2>1. now \in Nat /\ readAt \in Nat /\ inbox \in Seq(Datagram)
    BY DEF TypeOK
  <2>2. ASSUME NEW i \in DOMAIN inbox
        PROVE  inbox[i] \in Datagram /\ inbox[i].arrived \in Int
    <3>1. inbox[i] \in Datagram
      BY <2>1, LenProperties, ElementOfSeq
    <3> QED BY <3>1 DEF Datagram
  <2> QED BY <2>1, <2>2 DEF ArrivalsInv
<1>1. CASE Broadcast
  <2> DEFINE packet == [kind |-> "bcast", stamp |-> timeNow, arrived |-> now]
  <2>1. /\ pc = "broadcast" /\ now' = now /\ readAt' = readAt /\ ready' = ready
        /\ inbox' = inbox \/ inbox' = Append(inbox, packet)
    BY <1>1, Zenon DEF Broadcast
  <2>2. packet \in Datagram /\ packet.arrived <= now
    BY <1>0 DEF TypeOK, Datagram
  <2>3. CASE inbox' = inbox
    BY <2>1, <2>3 DEF ArrivalsInv
  <2>4. CASE inbox' = Append(inbox, packet)
    <3>1. \A i \in DOMAIN inbox' : inbox'[i].arrived <= now
      BY <1>0, <2>2, <2>4, QueueAppended
    <3>2. ready => inbox # <<>> /\ Head(inbox).arrived <= readAt
      BY <2>1 DEF ArrivalsInv, QueueInv
    <3>3. inbox # <<>> => Head(inbox') = Head(inbox)
      BY <1>0, <2>2, <2>4, QueueAppended
    <3> QED BY <2>1, <3>1, <3>2, <3>3, Zenon DEF ArrivalsInv
  <2> QED BY <2>1, <2>3, <2>4
<1>2. CASE Arrive
  <2>1. /\ pc' = pc /\ now' = now /\ readAt' = readAt /\ ready' = ready
    BY <1>2, Zenon DEF Arrive
  <2>2. PICK kind \in Datagrams :
          inbox' = Append(inbox, [kind |-> kind, stamp |-> now, arrived |-> now])
    BY <1>2, Zenon DEF Arrive
  <2> DEFINE packet == [kind |-> kind, stamp |-> now, arrived |-> now]
  <2>3. packet \in Datagram /\ packet.arrived <= now
    BY <1>0, NetworkAssumption DEF Datagram
  <2>4. \A i \in DOMAIN inbox' : inbox'[i].arrived <= now
    BY <1>0, <2>2, <2>3, QueueAppended
  <2>5. pc \in {"fetch", "broadcast", "receive"} /\ ready
          => inbox # <<>> /\ Head(inbox).arrived <= readAt
    BY DEF ArrivalsInv, QueueInv
  <2>6. inbox # <<>> => Head(inbox') = Head(inbox)
    BY <1>0, <2>2, <2>3, QueueAppended
  <2> QED BY <2>1, <2>4, <2>5, <2>6, Zenon DEF ArrivalsInv
<1>3. CASE SntpReceive
  <2>1. /\ inbox # <<>> /\ inbox' = Tail(inbox) /\ now' = now
        /\ pc' \notin {"fetch", "broadcast", "receive"}
    BY <1>3 DEF SntpReceive, AfterReceive
  <2>2. \A i \in DOMAIN inbox' : i + 1 \in DOMAIN inbox /\ inbox'[i] = inbox[i + 1]
    BY <1>0, <2>1, HeadTailProperties, LenProperties
  <2>3. \A i \in DOMAIN inbox' : inbox'[i].arrived <= now
    BY <1>0, <2>2
  <2> QED BY <2>1, <2>3, Zenon DEF ArrivalsInv
<1>4. CASE Tick
  <2>1. /\ now' = now + 1 /\ pc' = pc /\ inbox' = inbox /\ readAt' = readAt
        /\ ready' = ready
    BY <1>4 DEF Tick
  <2>2. \A i \in DOMAIN inbox : inbox[i].arrived <= now + 1
    BY <1>0
  <2> QED BY <2>1, <2>2, Zenon DEF ArrivalsInv
<1>5. CASE Top
  <2>1. /\ now' = now /\ readAt' = now /\ inbox' = inbox /\ ready' = ready
        /\ pc = "top"
    BY <1>5 DEF Top, ReadClock
  <2>2. ready => inbox # <<>>
    BY <2>1 DEF QueueInv
  <2>3. inbox # <<>> => 1 \in DOMAIN inbox /\ Head(inbox) = inbox[1]
    BY <1>0, LenProperties, EmptySeq
  <2> QED BY <1>0, <2>1, <2>2, <2>3 DEF ArrivalsInv
<1>6. CASE SntpAnswer
  <2>1. /\ now' = now /\ readAt' = now /\ inbox' = inbox /\ ready' = ready
        /\ pc = "fetch"
    BY <1>6 DEF SntpAnswer, ReadClock
  <2>2. ready => inbox # <<>>
    BY <2>1 DEF QueueInv
  <2>3. inbox # <<>> => 1 \in DOMAIN inbox /\ Head(inbox) = inbox[1]
    BY <1>0, LenProperties, EmptySeq
  <2> QED BY <1>0, <2>1, <2>2, <2>3 DEF ArrivalsInv
<1>7. CASE TcpAnswer \/ NoAnswer \/ NoLine \/ NoSocket
  <2>1. pc = "fetch" /\ UNCHANGED <<now, inbox, ready, readAt>>
    BY <1>7, Zenon DEF TcpAnswer, NoAnswer, NoLine, NoSocket
  <2> QED BY <2>1 DEF ArrivalsInv
<1>8. CASE BindSntpPort \/ NothingReceived \/ EnterSelect \/ SelectReadable
             \/ SelectTimeout
  <2>1. UNCHANGED <<now, inbox>> /\ pc' \notin {"fetch", "broadcast", "receive"}
    BY <1>8 DEF BindSntpPort, NothingReceived, AfterReceive, EnterSelect,
                SelectReadable, SelectTimeout
  <2> QED BY <2>1 DEF ArrivalsInv
<1>9. CASE UNCHANGED vars
  BY <1>9 DEF ArrivalsInv, vars
<1> QED BY <1>1, <1>2, <1>3, <1>4, <1>5, <1>6, <1>7, <1>8, <1>9, Zenon DEF Next

\* A fresh datagram may join fresh ones.
LEMMA FreshAppended ==
  ASSUME TypeOK, OutFresh, NEW d \in SentDatagram, Fresh(d)
  PROVE  \A i \in DOMAIN Append(out, d) : Fresh(Append(out, d)[i])
<1>1. out \in Seq(SentDatagram)
  BY DEF TypeOK
<1>2. /\ Append(out, d) \in Seq(SentDatagram)
      /\ Len(Append(out, d)) = Len(out) + 1
      /\ \A i \in 1 .. Len(out) : Append(out, d)[i] = out[i]
      /\ Append(out, d)[Len(out) + 1] = d
  BY <1>1, AppendProperties
<1>3. /\ DOMAIN Append(out, d) = 1 .. Len(out) + 1
      /\ DOMAIN out = 1 .. Len(out)
      /\ Len(out) \in Nat
  BY <1>1, <1>2, LenProperties
<1> QED BY <1>2, <1>3 DEF OutFresh

LEMMA OutFreshStep ==
  TypeOK /\ QueueInv /\ FetchTimed /\ ArrivalsInv /\ OutFresh /\ [Next]_vars
    => OutFresh'
<1> SUFFICES ASSUME TypeOK, QueueInv, FetchTimed, ArrivalsInv, OutFresh,
                    [Next]_vars
             PROVE  OutFresh'
  OBVIOUS
<1> USE DEF clockVars, netVars, loopVars, history
<1>0. args' = args
  BY Zenon DEF Next, BindSntpPort, Top, TcpAnswer, SntpAnswer, NoAnswer,
               NoLine, NoSocket, Broadcast, NothingReceived, SntpReceive, EnterSelect,
               SelectReadable, SelectTimeout, Tick, Arrive, vars
<1>1. now \in Nat /\ readAt \in Nat /\ syncAt \in Nat /\ FetchTime \in Int
  BY CommandType, TimingAssumption DEF TypeOK, FetchTime
<1>2. CASE Broadcast
  <2>1. /\ Sent("bcast", now).sentAt = now
        /\ Sent("bcast", now).readAt = readAt
        /\ Sent("bcast", now).kind = "bcast"
    BY DEF Sent
  <2>2. now - readAt <= FetchTime
    BY <1>1, <1>2 DEF Broadcast, FetchTimed
  <2>3. Fresh(Sent("bcast", now))
    BY <2>1, <2>2 DEF Fresh
  <2>4. Sent("bcast", now) \in SentDatagram
    BY <1>1, SentType, TypeParts
  <2>5. out' = out \/ out' = Append(out, Sent("bcast", now))
    BY <1>2, Zenon DEF Broadcast
  <2> QED BY <1>0, <2>3, <2>4, <2>5, FreshAppended
          DEF OutFresh, Fresh, FetchTime
<1>3. CASE SntpReceive
  <2>1. pc = "receive" /\ ready /\ inbox # <<>>
    BY <1>3 DEF SntpReceive, Receiving
  <2> DEFINE packet == Head(inbox)
  <2>2. packet \in Datagram /\ packet.arrived \in Int
    <3>1. packet \in Datagram
      BY <2>1, HeadTailProperties DEF TypeOK
    <3> QED BY <3>1 DEF Datagram
  <2>3. packet.arrived <= readAt /\ now - readAt <= FetchTime
    BY <2>1 DEF ArrivalsInv, FetchTimed
  <2>4. /\ Sent("reply", packet.arrived).sentAt = now
        /\ Sent("reply", packet.arrived).readAt = readAt
        /\ Sent("reply", packet.arrived).arrived = packet.arrived
    BY DEF Sent
  <2>5. Fresh(Sent("reply", packet.arrived))
    BY <2>3, <2>4 DEF Fresh
  <2>6. Sent("reply", packet.arrived) \in SentDatagram
    BY <2>2, SentType, TypeParts
  <2>7. out' = out \/ out' = Append(out, Sent("reply", packet.arrived))
    BY <1>3, Zenon DEF SntpReceive
  <2> QED BY <1>0, <2>5, <2>6, <2>7, FreshAppended
          DEF OutFresh, Fresh, FetchTime
<1>4. CASE out' = <<>>
  BY <1>4 DEF OutFresh
<1>5. CASE out' = out
  BY <1>0, <1>5 DEF OutFresh, Fresh, FetchTime
<1> QED
  BY <1>2, <1>3, <1>4, <1>5, Zenon
     DEF Next, BindSntpPort, Top, TcpAnswer, SntpAnswer, NoAnswer, NoLine, NoSocket,
         NothingReceived, EnterSelect, SelectReadable, SelectTimeout, Tick,
         Arrive, vars

StampInv == QueueInv /\ FetchTimed /\ ArrivalsInv /\ OutFresh

LEMMA StampInvariant == Spec => []StampInv
<1>1. Init => StampInv
  <2> SUFFICES ASSUME Init PROVE StampInv
    OBVIOUS
  <2>1. /\ pc = "start" /\ ready = FALSE /\ inbox = <<>> /\ out = <<>>
    BY Zenon DEF Init
  <2> QED BY <2>1 DEF StampInv, QueueInv, FetchTimed, ArrivalsInv, OutFresh
<1>2. TypeOK /\ StampInv /\ [Next]_vars => StampInv'
  BY QueueStep, FetchStep, ArrivalsStep, OutFreshStep, Zenon DEF StampInv
<1> QED BY <1>1, <1>2, TypeCorrect, PTL DEF Spec

\* No datagram carries a reading of the clock older than the time GoDayTime
\* may take (sntp.c:158).
THEOREM StampsRecent == Spec => []StampAge
<1>1. StampInv => StampAge
  BY DEF StampInv, OutFresh, Fresh, StampAge
<1> QED BY <1>1, StampInvariant, PTL

\* No reply says that its request was received before it arrived.
THEOREM RepliesInOrder == Spec => []ReplyAfterRequest
<1>1. StampInv => ReplyAfterRequest
  BY DEF StampInv, OutFresh, Fresh, ReplyAfterRequest
<1> QED BY <1>1, StampInvariant, PTL

-----------------------------------------------------------------------------
(* The time from one call of GoDayTime to the next.                        *)

\* The reading of the clock from which on it is time to synchronise.
DueDate == (nextSync + 1) * TicksPerSec

\* A clock that is not put back adds nothing negative to itself.
SlewForward == ~putBack => slew >= 0

\* At the pace the clock has now it will show DueDate at DueDate - offset.
\* That is not long after the last fetch, and the loop began its last round
\* before.
PaceKept ==
  /\ pc = "start" => now = syncAt
  /\ pc \notin {"fetch", "broadcast", "exited"} =>
       DueDate - offset <= syncAt + FetchTime + LongestSelect + 1
  /\ pc \in {"receive", "select"} => now - syncAt <= FetchTime + LongestSelect
  /\ pc = "wait" =>
       /\ since - syncAt <= FetchTime + LongestSelect
       /\ tvUsec # Garbage => now - since <= LongestSelect
  /\ pc = "top" => now - syncAt <= FetchTime + 2 * LongestSelect

PaceInv == SlewForward /\ (~putBack /\ ~wild => PaceKept)

LEMMA SelectBounds ==
  /\ LongestSelect \in Nat
  /\ LongestSelect + 1 = SleepTime * TicksPerSec + TicksPerSec
  /\ SleepTime * TicksPerSec \in Nat
<1>1. SleepTime \in Nat /\ TicksPerSec \in Nat \ {0}
  BY TimingAssumption, TicksAssumption
<1>2. /\ SleepTime * TicksPerSec \in Nat
      /\ (SleepTime + 1) * TicksPerSec = SleepTime * TicksPerSec + TicksPerSec
  BY <1>1
<1> QED BY <1>1, <1>2 DEF LongestSelect

LEMMA FetchTimeType == ASSUME TypeOK PROVE FetchTime \in Nat
<1>1. Len(args.sources) \in Nat /\ MaxFetch \in Nat
  BY CommandType, TimingAssumption DEF TypeOK
<1> QED BY <1>1 DEF FetchTime

\* Due compares seconds, which is to compare with a date.
LEMMA DueBeforeDate ==
  ASSUME NEW time \in Int, nextSync \in Int, ~Due(time)
  PROVE  time < DueDate
<1>1. /\ Sec(time) \in Int
      /\ time < TicksPerSec * Sec(time) + TicksPerSec
  BY TicksAssumption DEF Sec
<1>2. Sec(time) <= nextSync
  BY <1>1 DEF Due
<1>3. TicksPerSec * Sec(time) <= TicksPerSec * nextSync
  <2>1. nextSync - Sec(time) \in Nat
    BY <1>1, <1>2
  <2>2. TicksPerSec * (nextSync - Sec(time)) \in Nat
    BY <2>1, TicksAssumption
  <2>3. TicksPerSec * (nextSync - Sec(time))
          = TicksPerSec * nextSync - TicksPerSec * Sec(time)
    BY <1>1, TicksAssumption
  <2>4. TicksPerSec * nextSync \in Int /\ TicksPerSec * Sec(time) \in Int
    BY <1>1, TicksAssumption
  <2> QED BY <2>2, <2>3, <2>4
<1>4. DueDate = TicksPerSec * nextSync + TicksPerSec
  BY TicksAssumption DEF DueDate
<1>5. TicksPerSec * nextSync \in Int /\ TicksPerSec * Sec(time) \in Int
  BY <1>1, TicksAssumption
<1> QED BY <1>1, <1>3, <1>4, <1>5, TicksAssumption

\* The date computed from a reading is at most a longest select after it.
LEMMA NextDueDate ==
  ASSUME NEW time \in Int
  PROVE  (Sec(time) + SleepTime + 1) * TicksPerSec <= time + LongestSelect + 1
<1>1. Sec(time) \in Int /\ TicksPerSec * Sec(time) <= time
  BY TicksAssumption DEF Sec
<1>2. /\ (Sec(time) + SleepTime + 1) * TicksPerSec
           = TicksPerSec * Sec(time) + SleepTime * TicksPerSec + TicksPerSec
      /\ TicksPerSec * Sec(time) \in Int
  BY <1>1, TicksAssumption, TimingAssumption
<1> QED BY <1>1, <1>2, SelectBounds, TicksAssumption

LEMMA LaterError ==
  ASSUME NEW date \in Int, NEW error \in Int, NEW next \in Int, NEW bound \in Int,
         error <= next, date - error <= bound
  PROVE  date - next <= bound
OBVIOUS

LEMMA DateAfterFetch ==
  ASSUME NEW date \in Int, NEW reading \in Int, NEW t \in Int, NEW error \in Int,
         NEW sync \in Int, NEW fetch \in Int, NEW select \in Int,
         date <= reading + select + 1, reading <= t + error, t - sync <= fetch
  PROVE  date - error <= sync + fetch + select + 1
OBVIOUS

LEMMA SlewForwardStep == TypeOK /\ SlewForward /\ [Next]_vars => SlewForward'
<1> SUFFICES ASSUME TypeOK, SlewForward, [Next]_vars, ~putBack' PROVE slew' >= 0
  BY Zenon DEF SlewForward
<1>1. CASE Top
  <2>1. CASE Due(timeNow')
    <3>1. slew' = slew /\ putBack' = (slew < 0)
      BY <1>1, <2>1 DEF Top, clockVars
    <3>2. ~(slew < 0)
      BY <3>1, Zenon
    <3>3. slew \in Int
      BY DEF TypeOK
    <3>4. slew >= 0
      BY <3>2, <3>3
    <3> QED BY <3>1, <3>4, Zenon
  <2>2. CASE ~Due(timeNow')
    <3>1. slew' = slew /\ putBack' = putBack
      BY <1>1, <2>2, Zenon DEF Top, clockVars
    <3> QED BY <3>1, Zenon DEF SlewForward
  <2> QED BY <2>1, <2>2
<1>2. CASE ~Top
  BY <1>2, ClockForward, Zenon DEF SlewForward
<1> QED BY <1>1, <1>2

\* The error of a clock that is not put back and not slowed only grows.
LEMMA ErrorForward ==
  ASSUME TypeOK, SlewForward, [Next]_vars, ~putBack'
  PROVE  offset <= offset'
<1> USE DEF clockVars, netVars, loopVars, history
<1>0. offset \in Int /\ slew \in Int /\ timeNow \in Int /\ now \in Nat
        /\ since \in Nat
  BY DEF TypeOK
<1>1. CASE offset' = offset
  BY <1>0, <1>1
<1>2. CASE Tick
  <2>1. PICK clock \in SlewedOff(offset, slew) :
          offset' = clock.offset /\ slew' = clock.slew
    BY <1>2, Zenon DEF Tick
  <2>2. putBack' = putBack
    BY <1>2 DEF Tick
  <2>3. slew >= 0
    BY <2>2, Zenon DEF SlewForward
  <2> QED BY <1>0, <2>1, <2>3 DEF SlewedOff, Sign
<1>3. CASE TcpAnswer
  <2>1. PICK s \in since .. now :
          HandleReceivedTime(timeNow, Sec(s) * TicksPerSec)
    BY <1>3, Zenon DEF TcpAnswer
  <2>2. Sec(s) * TicksPerSec \in Int
    BY <1>0, TimevalType, TicksAssumption
  <2> QED BY <1>0, <2>1, <2>2, HandledTime, Zenon
<1>4. CASE SntpAnswer
  <2>1. PICK time \in SntpTimes(timeNow, since, now, timeNow') :
          HandleReceivedTime(timeNow', time)
    BY <1>4, Zenon DEF SntpAnswer
  <2>2. /\ timeNow \in Int /\ timeNow' \in Int /\ now \in Nat /\ since \in Nat
    BY <1>0, <1>4 DEF SntpAnswer, ReadClock, Clock
  <2>3. time \in Int
    BY <2>2, SntpTimesType
  <2> QED BY <2>1, <2>2, <2>3, HandledTime, Zenon
<1>5. CASE SntpReceive
  <2>1. CASE HandleReceivedTime(timeNow, Head(inbox).stamp)
    <3>1. inbox \in Seq(Datagram) /\ inbox # <<>>
      BY <1>5 DEF SntpReceive, TypeOK
    <3>2. Head(inbox) \in Datagram
      BY <3>1, HeadTailProperties
    <3>3. Head(inbox).stamp \in Int
      BY <3>2 DEF Datagram
    <3> QED BY <1>0, <2>1, <3>3, HandledTime, Zenon
  <2>2. CASE UNCHANGED <<clockVars, putBack, putAhead, wasSet>>
    BY <1>1, <2>2
  <2> QED BY <1>5, <2>1, <2>2 DEF SntpReceive
<1> QED BY <1>1, <1>2, <1>3, <1>4, <1>5, Zenon
        DEF Next, BindSntpPort, Top, NoAnswer, NoLine, NoSocket, Broadcast,
            NothingReceived, EnterSelect, SelectReadable, SelectTimeout,
            Arrive, vars

\* The date stays where it is in true time or comes nearer.
LEMMA DueDateStep ==
  ASSUME TypeOK, FetchTimed, ReadingBehind, PaceInv, [Next]_vars,
         ~putBack', ~wild', pc' \notin {"fetch", "broadcast", "exited"}
  PROVE  DueDate' - offset' <= syncAt' + FetchTime' + LongestSelect + 1
<1> USE DEF clockVars, netVars, loopVars, history
<1> DEFINE bound == syncAt + FetchTime + LongestSelect + 1
<1>0. /\ syncAt \in Nat /\ now \in Nat /\ offset \in Int /\ offset' \in Int
      /\ timeNow \in Int /\ nextSync \in Int
      /\ FetchTime \in Nat /\ LongestSelect \in Nat
      /\ DueDate \in Int /\ bound \in Int
  <2>1. /\ syncAt \in Nat /\ now \in Nat /\ offset \in Int
        /\ timeNow \in Int /\ nextSync \in Int
    BY DEF TypeOK
  <2>2. offset' \in Int
    BY NumbersStep DEF NumbersOK
  <2>3. FetchTime \in Nat /\ LongestSelect \in Nat
    BY FetchTimeType, SelectBounds
  <2>4. DueDate \in Int
    BY <2>1, TicksAssumption DEF DueDate
  <2> QED BY <2>1, <2>2, <2>3, <2>4
<1>1. CASE Broadcast
  <2>1. /\ pc = "broadcast" /\ offset' = offset /\ syncAt' = syncAt
        /\ args' = args /\ nextSync' = Sec(timeNow) + SleepTime
        /\ putBack' = putBack
    BY <1>1 DEF Broadcast, NextDate
  <2>2. timeNow <= now + offset
    BY <2>1, Zenon DEF ReadingBehind, Clock
  <2>3. now - syncAt <= FetchTime
    BY <2>1 DEF FetchTimed
  <2>4. DueDate' = (Sec(timeNow) + SleepTime + 1) * TicksPerSec
    BY <2>1, Zenon DEF DueDate
  <2> DEFINE date == (Sec(timeNow) + SleepTime + 1) * TicksPerSec
  <2>5. date <= timeNow + LongestSelect + 1 /\ date \in Int
    BY <1>0, NextDueDate, TimevalType, TimingAssumption, TicksAssumption
  <2> HIDE DEF date
  <2>6. date - offset <= bound
    BY <1>0, <2>2, <2>3, <2>5, DateAfterFetch
  <2>7. FetchTime' = FetchTime
    BY <2>1, Zenon DEF FetchTime
  <2> QED BY <2>1, <2>4, <2>6, <2>7, Zenon DEF date
<1>2. CASE ~Broadcast
  <2> DEFINE Held == /\ UNCHANGED <<nextSync, syncAt, args>>
                     /\ pc \notin {"fetch", "broadcast", "exited"}
                     /\ ~wild
                     /\ ~Top \/ putBack' = putBack
  <2>1. Held
    <3>1. CASE Top
      <4>1. pc = "top" /\ pc' # "fetch"
        BY <3>1 DEF Top
      <4>2. UNCHANGED <<nextSync, syncAt, args, putBack, wild>>
        BY <3>1, <4>1, Zenon DEF Top
      <4> QED BY <4>1, <4>2
    <3>2. CASE SntpReceive
      BY <3>2 DEF SntpReceive, Top
    <3>3. CASE BindSntpPort \/ NothingReceived \/ EnterSelect
      BY <3>3 DEF BindSntpPort, NothingReceived, EnterSelect, Top
    <3>4. CASE SelectReadable
      <4>1. pc = "wait" /\ UNCHANGED <<nextSync, syncAt, args>> /\ ~wild
        BY <3>4, Zenon DEF SelectReadable
      <4> QED BY <4>1 DEF Top
    <3>5. CASE SelectTimeout
      <4>1. pc = "wait" /\ UNCHANGED <<nextSync, syncAt, args>> /\ ~wild
        BY <3>5, Zenon DEF SelectTimeout
      <4> QED BY <4>1 DEF Top
    <3>6. CASE Tick
      BY <3>6, Zenon DEF Tick
    <3>7. CASE Arrive
      BY <3>7, Zenon DEF Arrive
    <3>8. CASE UNCHANGED vars
      BY <3>8, Zenon DEF vars
    <3>9. CASE TcpAnswer \/ SntpAnswer \/ NoAnswer \/ NoLine \/ NoSocket
      BY <3>9 DEF TcpAnswer, SntpAnswer, NoAnswer, NoLine, NoSocket
    <3> QED BY <1>2, <3>1, <3>2, <3>3, <3>4, <3>5, <3>6, <3>7, <3>8, <3>9, Zenon
            DEF Next
  <2>2. ~putBack
    BY <2>1, ClockForward, Zenon
  <2>3. PaceKept
    BY <2>1, <2>2, Zenon DEF PaceInv
  <2>4. DueDate - offset <= bound
    BY <2>1, <2>3, Zenon DEF PaceKept
  <2>5. offset <= offset'
    BY ErrorForward, Zenon DEF PaceInv
  <2>6. DueDate - offset' <= bound
    BY <1>0, <2>4, <2>5, LaterError
  <2>7. DueDate' = DueDate /\ FetchTime' = FetchTime /\ syncAt' = syncAt
    BY <2>1, Zenon DEF DueDate, FetchTime
  <2> QED BY <2>6, <2>7, Zenon
<1> QED BY <1>1, <1>2

LEMMA PaceStep ==
  TypeOK /\ FetchTimed /\ ReadingBehind /\ PaceInv /\ [Next]_vars => PaceInv'
<1> SUFFICES ASSUME TypeOK, FetchTimed, ReadingBehind, PaceInv, [Next]_vars,
                    ~putBack', ~wild'
             PROVE  PaceKept'
  BY SlewForwardStep, Zenon DEF PaceInv
<1> USE DEF clockVars, netVars, loopVars, history
<1>0. /\ syncAt \in Nat /\ now \in Nat /\ since \in Nat /\ offset \in Int
      /\ timeNow \in Int /\ nextSync \in Int /\ DueDate \in Int
      /\ tvUsec \in {Garbage} \cup 0 .. TicksPerSec - 1
      /\ FetchTime \in Nat /\ LongestSelect \in Nat
  BY FetchTimeType, SelectBounds, TicksAssumption DEF TypeOK, DueDate
<1>1. pc' \notin {"fetch", "broadcast", "exited"} =>
        DueDate' - offset' <= syncAt' + FetchTime' + LongestSelect + 1
  BY DueDateStep
<1>2. ~Top => ~putBack
  BY ClockForward, Zenon
<1>3. ASSUME ~Top, ~wild PROVE PaceKept
  BY <1>2, <1>3, Zenon DEF PaceInv
<1>4. CASE BindSntpPort
  <2>1. /\ pc = "start" /\ pc' = "top" /\ wild' = wild
        /\ UNCHANGED <<args, now, syncAt>>
    BY <1>4 DEF BindSntpPort
  <2>2. now = syncAt
    BY <1>3, <2>1 DEF PaceKept, Top
  <2> QED BY <1>0, <1>1, <2>1, <2>2 DEF PaceKept, FetchTime
<1>5. CASE Top
  <2>1. CASE Due(timeNow')
    BY <1>5, <2>1 DEF Top, PaceKept
  <2>2. CASE ~Due(timeNow')
    <3>1. /\ pc = "top" /\ pc' = "receive" /\ timeNow' = now + offset
          /\ UNCHANGED <<args, now, syncAt, offset, nextSync>>
      BY <1>5, <2>2 DEF Top, ReadClock, Clock
    <3>2. UNCHANGED <<putBack, wild>>
      BY <1>5, <2>2, Zenon DEF Top
    <3>3. DueDate - offset <= syncAt + FetchTime + LongestSelect + 1
      <4>1. PaceKept
        BY <3>2, Zenon DEF PaceInv
      <4> QED BY <3>1, <4>1 DEF PaceKept
    <3>4. now + offset < DueDate
      <4>1. now + offset \in Int /\ ~Due(now + offset)
        BY <1>0, <2>2, <3>1
      <4> QED BY <1>0, <4>1, DueBeforeDate
    <3>5. now - syncAt <= FetchTime + LongestSelect
      BY <1>0, <3>3, <3>4
    <3> QED BY <1>0, <1>1, <3>1, <3>5 DEF PaceKept, FetchTime
  <2> QED BY <2>1, <2>2
<1>6. CASE TcpAnswer \/ SntpAnswer \/ NoAnswer \/ NoLine \/ NoSocket
  BY <1>6 DEF TcpAnswer, SntpAnswer, NoAnswer, NoLine, NoSocket, PaceKept
<1>7. CASE Broadcast
  <2>1. /\ pc = "broadcast" /\ pc' = "receive"
        /\ UNCHANGED <<args, now, syncAt>>
    BY <1>7 DEF Broadcast
  <2>2. now - syncAt <= FetchTime
    BY <2>1 DEF FetchTimed
  <2> QED BY <1>0, <1>1, <2>1, <2>2 DEF PaceKept, FetchTime
<1>8. CASE NothingReceived \/ SntpReceive
  <2>1. /\ pc = "receive" /\ pc' \in {"select", "exited"}
        /\ UNCHANGED <<args, now, syncAt>>
    BY <1>8 DEF NothingReceived, SntpReceive, AfterReceive
  <2>2. wild' = wild
    BY <1>8, Zenon DEF NothingReceived, SntpReceive
  <2>3. now - syncAt <= FetchTime + LongestSelect
    BY <1>3, <2>1, <2>2 DEF PaceKept, Top
  <2> QED BY <1>0, <1>1, <2>1, <2>3 DEF PaceKept, FetchTime
<1>9. CASE EnterSelect
  <2>1. /\ pc = "select" /\ pc' = "wait" /\ since' = now
        /\ UNCHANGED <<args, now, syncAt, tvUsec>>
    BY <1>9 DEF EnterSelect
  <2>2. wild' = wild
    BY <1>9, Zenon DEF EnterSelect
  <2>3. now - syncAt <= FetchTime + LongestSelect
    BY <1>3, <2>1, <2>2 DEF PaceKept, Top
  <2> QED BY <1>0, <1>1, <2>1, <2>3 DEF PaceKept, FetchTime
<1>10. CASE SelectReadable \/ SelectTimeout
  <2>1. /\ pc = "wait" /\ pc' = "top" /\ UNCHANGED <<args, now, syncAt>>
    BY <1>10 DEF SelectReadable, SelectTimeout
  <2>2. ~wild /\ tvUsec # Garbage
    BY <1>10, Zenon DEF SelectReadable, SelectTimeout
  <2>3. /\ since - syncAt <= FetchTime + LongestSelect
        /\ now - since <= LongestSelect
    BY <1>3, <2>1, <2>2 DEF PaceKept, Top
  <2>4. now - syncAt <= FetchTime + 2 * LongestSelect
    BY <1>0, <2>3
  <2> QED BY <1>0, <1>1, <2>1, <2>4 DEF PaceKept, FetchTime
<1>11. CASE Tick
  <2>1. /\ pc' = pc /\ now' = now + 1 /\ pc \in {"fetch", "wait"}
        /\ UNCHANGED <<args, syncAt, since, tvUsec>>
    BY <1>11 DEF Tick
  <2>2. CASE pc = "fetch"
    BY <2>1, <2>2 DEF PaceKept
  <2>3. CASE pc = "wait"
    <3>1. since - syncAt <= FetchTime + LongestSelect
      <4>1. wild' = wild
        BY <1>11, Zenon DEF Tick
      <4> QED BY <1>3, <2>3, <4>1 DEF PaceKept, Top
    <3>2. tvUsec # Garbage => now + 1 - since <= LongestSelect
      <4> SUFFICES ASSUME tvUsec # Garbage
                   PROVE  now + 1 - since <= LongestSelect
        OBVIOUS
      <4>1. since + SleepTime * TicksPerSec + tvUsec - now > 0
        <5>1. pc # "fetch"
          BY <2>3
        <5>2. TimeLeft > 0
          BY <1>11, <5>1, Zenon DEF Tick
        <5>3. SleepTime * TicksPerSec \in Nat /\ tvUsec \in Int
          BY <1>0, SelectBounds, TicksAssumption DEF Garbage
        <5> QED BY <1>0, <5>2, <5>3 DEF TimeLeft, Timeout
      <4>2. tvUsec \in 0 .. TicksPerSec - 1
        BY <1>0
      <4> QED BY <1>0, <4>1, <4>2, SelectBounds, TicksAssumption
    <3> QED BY <1>0, <1>1, <2>1, <2>3, <3>1, <3>2 DEF PaceKept, FetchTime
  <2> QED BY <2>1, <2>2, <2>3
<1>12. CASE Arrive \/ UNCHANGED vars
  <2>1. UNCHANGED <<args, pc, now, syncAt, since, tvUsec, nextSync, offset>>
    BY <1>12 DEF Arrive, vars
  <2>2. UNCHANGED <<putBack, wild>>
    BY <1>12, Zenon DEF Arrive, vars
  <2>3. PaceKept
    BY <2>2, Zenon DEF PaceInv
  <2> QED BY <2>1, <2>3 DEF PaceKept, FetchTime, DueDate
<1> QED BY <1>4, <1>5, <1>6, <1>7, <1>8, <1>9, <1>10, <1>11, <1>12, Zenon
        DEF Next

\* While the servers are asked, less than FetchTime has passed.
LEMMA FetchNotOver ==
  ASSUME TypeOK, FetchTimed, pc = "fetch"
  PROVE  now - syncAt <= FetchTime
<1> DEFINE n == Len(args.sources)
           k == Len(todo)
<1>1. /\ syncAt <= since /\ since <= now /\ now - since <= MaxFetch
      /\ k <= n
      /\ since - syncAt <= (n - k) * MaxFetch
  BY DEF FetchTimed
<1>2. /\ n \in Nat /\ k \in Nat \ {0}
      /\ now \in Nat /\ since \in Nat /\ syncAt \in Nat
  BY CommandType, EmptySeq DEF TypeOK
<1>3. k \in 1 .. n
  BY <1>1, <1>2
<1>4. /\ (n - k) * MaxFetch + MaxFetch <= n * MaxFetch
      /\ (n - k) * MaxFetch \in Int
      /\ n * MaxFetch \in Nat
  BY <1>2, <1>3, NextAttempt
<1> QED BY <1>1, <1>2, <1>4, TimingAssumption DEF FetchTime

\* However often datagrams wake the loop and whatever the servers answer, the
\* time from one call of GoDayTime to the next is bounded by one fetch and two
\* selects, unless the clock was put back or a select had garbage in tv_usec
\* (main.c:394-413).
THEOREM SynchronizesInTime == Spec => []SyncGap
<1> DEFINE Pace == FetchTimed /\ ReadingBehind /\ PaceInv
<1>1. Init => Pace
  <2> SUFFICES ASSUME Init PROVE Pace
    OBVIOUS
  <2>1. /\ pc = "start" /\ now = syncAt /\ slew = 0 /\ nextSync = 0
    BY Zenon DEF Init
  <2>2. FetchTimed /\ ReadingBehind
    BY <2>1 DEF FetchTimed, ReadingBehind
  <2>3. SlewForward
    BY <2>1 DEF SlewForward
  <2>4. /\ FetchTime \in Nat /\ LongestSelect \in Nat
        /\ now \in Nat /\ offset \in Int
    BY InitType, FetchTimeType, SelectBounds DEF TypeOK
  <2>5. DueDate = TicksPerSec /\ TicksPerSec <= LongestSelect + 1
    BY <2>1, SelectBounds, TicksAssumption DEF DueDate
  <2>6. now + offset >= 0
    BY InitClock DEF Clock
  <2>7. DueDate - offset <= syncAt + FetchTime + LongestSelect + 1
    BY <2>1, <2>4, <2>5, <2>6, TicksAssumption
  <2>8. PaceKept
    BY <2>1, <2>7 DEF PaceKept
  <2> QED BY <2>2, <2>3, <2>8, Zenon DEF PaceInv
<1>2. TypeOK /\ Pace /\ [Next]_vars => Pace'
  BY FetchStep, ReadingBehindStep, PaceStep, Zenon
<1>3. TypeOK /\ Pace => SyncGap
  <2> SUFFICES ASSUME TypeOK, Pace, ~putBack, ~wild,
                      pc = "wait" => tvUsec # Garbage, pc # "exited"
               PROVE  now - syncAt <= FetchTime + 2 * LongestSelect
    BY Zenon DEF SyncGap
  <2>1. /\ now \in Nat /\ since \in Nat /\ syncAt \in Nat /\ pc \in PCs
        /\ FetchTime \in Nat /\ LongestSelect \in Nat
    BY FetchTimeType, SelectBounds DEF TypeOK
  <2>2. PaceKept
    BY Zenon DEF PaceInv
  <2>3. CASE pc \in {"fetch", "broadcast"}
    <3>1. now - syncAt <= FetchTime
      BY <2>3, FetchNotOver DEF FetchTimed
    <3> QED BY <2>1, <3>1
  <2>4. CASE pc \notin {"fetch", "broadcast"}
    BY <2>1, <2>2, <2>4 DEF PaceKept, PCs
  <2> QED BY <2>3, <2>4
<1> HIDE DEF Pace
<1> QED BY <1>1, <1>2, <1>3, TypeCorrect, PTL DEF Spec

-----------------------------------------------------------------------------
(* The error of the clocks.                                                *)

LEMMA SecBounds ==
  ASSUME NEW t \in Int
  PROVE  /\ Sec(t) \in Int /\ Sec(t) * TicksPerSec \in Int
         /\ Sec(t) * TicksPerSec <= t
         /\ t < Sec(t) * TicksPerSec + TicksPerSec
BY TicksAssumption DEF Sec

LEMMA WholeSecond ==
  ASSUME NEW k \in Int
  PROVE  Sec(k * TicksPerSec) = k /\ Usec(k * TicksPerSec) = 0
<1> DEFINE t == k * TicksPerSec
           q == Sec(t)
<1>1. /\ t \in Int /\ q \in Int /\ q * TicksPerSec \in Int
      /\ q * TicksPerSec <= t
      /\ t < q * TicksPerSec + TicksPerSec
      /\ TicksPerSec \in Nat \ {0}
  BY SecBounds, TicksAssumption
<1>2. q <= k
  <2> SUFFICES ASSUME q > k PROVE FALSE
    BY <1>1
  <2>1. q - k >= 1
    BY <1>1
  <2>2. (q - k) * TicksPerSec >= TicksPerSec
    BY <1>1, <2>1
  <2>3. (q - k) * TicksPerSec = q * TicksPerSec - t
    BY <1>1
  <2> QED BY <1>1, <2>2, <2>3
<1>3. k <= q
  <2> SUFFICES ASSUME k > q PROVE FALSE
    BY <1>1
  <2>1. k - q >= 1
    BY <1>1
  <2>2. (k - q) * TicksPerSec >= TicksPerSec
    BY <1>1, <2>1
  <2>3. (k - q) * TicksPerSec = t - q * TicksPerSec
    BY <1>1
  <2> QED BY <1>1, <2>2, <2>3
<1>4. q = k
  BY <1>1, <1>2, <1>3
<1>5. t = TicksPerSec * Sec(t) + Usec(t) /\ Usec(t) \in Int
  BY <1>1 DEF Sec, Usec
<1>6. TicksPerSec * Sec(t) = t
  BY <1>1, <1>4
<1> QED BY <1>1, <1>4, <1>5, <1>6

\* A clock left alone because it showed the second of s at r.
LEMMA InSyncError ==
  ASSUME NEW s \in Int, NEW r \in Int, NEW error \in Int, NEW fetch \in Nat,
         r <= s, s - r <= fetch, Sec(r + error) = Sec(s)
  PROVE  Distance(error, 0) < TicksPerSec + fetch
<1> DEFINE start == Sec(s) * TicksPerSec
<1>1. start \in Int /\ start <= s /\ s < start + TicksPerSec
  BY SecBounds
<1>2. start <= r + error /\ r + error < start + TicksPerSec
  BY SecBounds
<1> HIDE DEF start
<1> QED BY <1>1, <1>2, TicksAssumption DEF Distance

LEMMA FloatErrorBound ==
  /\ FloatError \in Nat
  /\ \A t \in Int : /\ FloatReading(t) - t <= 2 * FloatError
                    /\ -(2 * FloatError) <= FloatReading(t) - t
<1> DEFINE product == FloatStep * TicksPerSec
<1>1. product \in Nat
  BY FloatAssumption, TicksAssumption
<1>2. FloatError = (product + 3) \div 4
  BY DEF FloatError
<1> HIDE DEF product
<1>3. FloatError \in Nat /\ product <= 4 * FloatError
  BY <1>1, <1>2
<1>4. ASSUME NEW t \in Int
      PROVE  /\ FloatReading(t) - t <= 2 * FloatError
             /\ -(2 * FloatError) <= FloatReading(t) - t
  <2>1. /\ 2 * (FloatReading(t) - t) <= product
        /\ -product <= 2 * (FloatReading(t) - t)
        /\ FloatReading(t) \in Int
    BY FloatReadingError, FloatReadingType DEF product
  <2> QED BY <1>1, <1>3, <2>1
<1> QED BY <1>3, <1>4

\* Half of what is off by 2 * h is off by h.
LEMMA HalfOff ==
  ASSUME NEW e \in Int, NEW y \in Int, NEW h \in Nat,
         e <= 2 * h, -(2 * h) <= e
  PROVE  /\ (e + y) \div 2 \in Int
         /\ 2 * ((e + y) \div 2) <= y + 2 * h
         /\ y - 2 * h <= 2 * ((e + y) \div 2) + 1
OBVIOUS

\* The time an SNTP server's answer leads to is off by the time the request and the
\* answer took and by what the float costs, whatever a slew did to the clock meanwhile.
LEMMA SntpTimeError ==
  ASSUME NEW t1 \in Int, NEW t4 \in Int, NEW read \in Nat, NEW first \in Nat,
         NEW last \in Nat, NEW time \in SntpTimes(t1, first, last, t4),
         read <= first,
         t1 <= t4, t4 - t1 <= 2 * (last - read)
  PROVE  /\ time \in Int
         /\ time - last <= (last - read) + FloatError
         /\ -((last - read) + FloatError) <= time - last
<1>1. PICK t3 \in first .. last :
        time \in { SntpTime(t1, t2, t3, t4) : t2 \in first .. t3 }
  BY DEF SntpTimes
<1>2. PICK t2 \in first .. t3 : time = SntpTime(t1, t2, t3, t4)
  BY <1>1
<1>3. t2 \in Int /\ t3 \in Int /\ read <= t2 /\ t2 <= t3 /\ t3 <= last
  OBVIOUS
<1> DEFINE e == FloatReading(t4) - t4
           y == (t4 - t1) - (t3 - t2)
           half == (e + y) \div 2
<1>4. /\ e \in Int /\ e <= 2 * FloatError /\ -(2 * FloatError) <= e
      /\ FloatReading(t4) \in Int /\ FloatError \in Nat /\ y \in Int
  BY <1>3, FloatErrorBound, FloatReadingType
<1>5. time = t3 + half
  <2>1. Roundtrip(t1, t2, t3, t4) = e + y
    BY <1>3, <1>4 DEF Roundtrip
  <2> QED BY <1>2, <2>1 DEF SntpTime
<1>6. /\ half \in Int /\ 2 * half <= y + 2 * FloatError
      /\ y - 2 * FloatError <= 2 * half + 1
  BY <1>4, HalfOff
<1>7. y <= 2 * (last - read) - (t3 - t2) /\ -(t3 - t2) <= y
  BY <1>3
<1> HIDE DEF half, e, y
<1> QED BY <1>3, <1>4, <1>5, <1>6, <1>7

-----------------------------------------------------------------------------
\* The age of a datagram goes with its place in the queue: it waited in it for at most
\* a fetch for each place it has come forward, and for the fetch that runs.
Waited(i) == (MaxInbox + 1 - i) * FetchTime

OldestAt(i) ==
  CASE pc \in {"fetch", "broadcast"} -> (IF ready THEN Waited(i) ELSE 0) + (now - syncAt)
    [] pc = "receive" -> (IF ready THEN Waited(i) ELSE 0) + FetchTime
    [] OTHER -> Waited(i)

AgesInv ==
  /\ Len(inbox) <= MaxInbox
  /\ pc = "start" => inbox = <<>>
  /\ pc = "top" /\ ~ready => inbox = <<>>
  /\ pc # "exited" => \A i \in DOMAIN inbox : now - inbox[i].arrived <= OldestAt(i)

LEMMA WaitedInPlace ==
  ASSUME FetchTime \in Nat
  PROVE  /\ \A i \in 1 .. MaxInbox :
              /\ Waited(i) \in Nat /\ FetchTime <= Waited(i)
              /\ Waited(i + 1) + FetchTime = Waited(i)
              /\ Waited(i + 1) \in Nat
         /\ Waited(1) = MaxInbox * FetchTime
<1> DEFINE f == FetchTime
<1>1. f \in Nat /\ MaxInbox \in Nat
  BY NetworkAssumption
<1>2. \A n \in Nat : n * f \in Nat /\ (n + 1) * f = n * f + f
  BY <1>1
<1>3. ASSUME NEW i \in 1 .. MaxInbox
      PROVE  /\ Waited(i) \in Nat /\ f <= Waited(i)
             /\ Waited(i + 1) + f = Waited(i) /\ Waited(i + 1) \in Nat
  <2> DEFINE n == MaxInbox + 1 - (i + 1)
  <2>1. n \in Nat /\ MaxInbox + 1 - i = n + 1
    BY <1>1
  <2>2. n * f \in Nat /\ (n + 1) * f = n * f + f
    BY <1>2, <2>1
  <2>3. Waited(i) = (n + 1) * f /\ Waited(i + 1) = n * f
    BY <2>1 DEF Waited
  <2> HIDE DEF n, f
  <2> QED BY <1>1, <2>2, <2>3
<1>4. Waited(1) = MaxInbox * f
  <2>1. MaxInbox + 1 - 1 = MaxInbox
    BY <1>1
  <2> QED BY <2>1 DEF Waited
<1> QED BY <1>3, <1>4

\* What the queue holds when a datagram has joined it.
LEMMA Joined ==
  ASSUME NEW s \in Seq(Datagram), NEW e \in Datagram, Len(s) < MaxInbox
  PROVE  /\ Len(Append(s, e)) <= MaxInbox
         /\ \A i \in DOMAIN Append(s, e) :
              /\ i \in 1 .. MaxInbox
              /\ \/ i \in DOMAIN s /\ Append(s, e)[i] = s[i]
                 \/ Append(s, e)[i] = e
<1>1. /\ Append(s, e) \in Seq(Datagram)
      /\ Len(Append(s, e)) = Len(s) + 1
      /\ \A i \in 1 .. Len(s) : Append(s, e)[i] = s[i]
      /\ Append(s, e)[Len(s) + 1] = e
  BY AppendProperties
<1>2. /\ DOMAIN Append(s, e) = 1 .. Len(s) + 1
      /\ DOMAIN s = 1 .. Len(s)
      /\ Len(s) \in Nat /\ MaxInbox \in Nat
  BY <1>1, LenProperties, NetworkAssumption
<1> QED BY <1>1, <1>2

LEMMA AgesStep ==
  TypeOK /\ FetchTimed /\ AgesInv /\ [Next]_vars => AgesInv'
<1> SUFFICES ASSUME TypeOK, FetchTimed, AgesInv, [Next]_vars
             PROVE  AgesInv'
  OBVIOUS
<1> USE DEF clockVars, netVars, loopVars, history
<1>0. /\ now \in Nat /\ syncAt \in Nat /\ inbox \in Seq(Datagram)
      /\ FetchTime \in Nat /\ MaxInbox \in Nat /\ Len(inbox) <= MaxInbox
      /\ Len(inbox) \in Nat /\ pc \in PCs /\ ready \in BOOLEAN
  BY FetchTimeType, NetworkAssumption, LenProperties DEF TypeOK, AgesInv
<1>1. args' = args
  BY Zenon DEF Next, BindSntpPort, Top, TcpAnswer, SntpAnswer, NoAnswer,
               NoLine, NoSocket, Broadcast, NothingReceived, SntpReceive, EnterSelect,
               SelectReadable, SelectTimeout, Tick, Arrive, vars
<1>2. /\ FetchTime' = FetchTime
      /\ \A i : Waited(i)' = Waited(i)
  BY <1>1, Zenon DEF FetchTime, Waited
<1>3. ASSUME NEW i \in DOMAIN inbox
      PROVE  /\ i \in 1 .. MaxInbox /\ i \in Nat \ {0}
             /\ inbox[i].arrived \in Int /\ inbox[i] \in Datagram
             /\ pc # "exited" => now - inbox[i].arrived <= OldestAt(i)
  <2>1. i \in 1 .. Len(inbox) /\ inbox[i] \in Datagram
    BY <1>0, LenProperties, ElementOfSeq
  <2>2. pc # "exited" => now - inbox[i].arrived <= OldestAt(i)
    BY DEF AgesInv
  <2> QED BY <1>0, <2>1, <2>2 DEF Datagram
<1>4. /\ \A i \in 1 .. MaxInbox :
           /\ Waited(i) \in Nat /\ FetchTime <= Waited(i)
           /\ Waited(i + 1) + FetchTime = Waited(i)
           /\ Waited(i + 1) \in Nat
  BY <1>0, WaitedInPlace
<1>5. pc = "fetch" => syncAt <= now /\ now - syncAt <= FetchTime
  BY <1>0, FetchNotOver DEF FetchTimed, TypeOK
<1>6. pc = "broadcast" => now - syncAt <= FetchTime
  BY DEF FetchTimed
<1>7. CASE BindSntpPort
  <2>1. inbox' = <<>> /\ pc' = "top"
    BY <1>7 DEF BindSntpPort, AgesInv
  <2> QED BY <1>0, <2>1, EmptySeq, LenProperties DEF AgesInv
<1>8. CASE Top
  <2>1. /\ pc = "top" /\ now' = now /\ inbox' = inbox /\ ready' = ready
        /\ (pc' = "fetch" /\ syncAt' = now) \/ pc' = "receive"
    BY <1>8, Zenon DEF Top
  <2>2. ASSUME NEW i \in DOMAIN inbox'
        PROVE  now' - inbox'[i].arrived <= OldestAt(i)'
    <3>1. i \in DOMAIN inbox /\ inbox # <<>>
      BY <2>1, EmptySeq, LenProperties
    <3>2. ready
      BY <2>1, <3>1 DEF AgesInv
    <3>3. now - inbox[i].arrived <= Waited(i)
      BY <1>3, <2>1, <3>1 DEF OldestAt
    <3>4. OldestAt(i)' = Waited(i) + 0 \/ OldestAt(i)' = Waited(i) + FetchTime
      <4>1. CASE pc' = "fetch" /\ syncAt' = now
        <5>1. OldestAt(i)' = Waited(i) + (now - now)
          BY <1>2, <2>1, <3>2, <4>1 DEF OldestAt
        <5> QED BY <1>0, <5>1
      <4>2. CASE pc' = "receive"
        BY <1>2, <2>1, <3>2, <4>2 DEF OldestAt
      <4> QED BY <2>1, <4>1, <4>2
    <3>5. Waited(i) \in Nat /\ inbox[i].arrived \in Int
      BY <1>3, <1>4, <3>1
    <3> QED BY <1>0, <2>1, <3>3, <3>4, <3>5
  <2> QED BY <1>0, <2>1, <2>2 DEF AgesInv
<1>9. CASE TcpAnswer \/ SntpAnswer \/ NoAnswer
  <2>1. /\ pc = "fetch" /\ pc' \in {"fetch", "broadcast"}
        /\ UNCHANGED <<now, inbox, ready, syncAt>>
    BY <1>9 DEF TcpAnswer, SntpAnswer, NoAnswer
  <2>2. ASSUME NEW i \in DOMAIN inbox'
        PROVE  now' - inbox'[i].arrived <= OldestAt(i)'
    <3>1. OldestAt(i)' = OldestAt(i)
      BY <1>2, <2>1 DEF OldestAt
    <3> QED BY <1>3, <2>1, <3>1
  <2> QED BY <1>0, <2>1, <2>2 DEF AgesInv
<1>10. CASE NoLine \/ NoSocket
  <2>1. pc' = "exited" /\ inbox' = inbox
    BY <1>10, Zenon DEF NoLine, NoSocket
  <2> QED BY <1>0, <2>1 DEF AgesInv
<1>11. CASE Broadcast
  <2> DEFINE packet == [kind |-> "bcast", stamp |-> timeNow, arrived |-> now]
  <2>1. /\ pc = "broadcast" /\ pc' = "receive" /\ now' = now /\ ready' = ready
        /\ \/ inbox' = inbox
           \/ Len(inbox) < MaxInbox /\ inbox' = Append(inbox, packet)
    BY <1>11, Zenon DEF Broadcast
  <2>2. packet \in Datagram /\ packet.arrived = now
    BY <1>0 DEF TypeOK, Datagram
  <2>3. \A i \in 1 .. MaxInbox :
          /\ OldestAt(i)' = (IF ready THEN Waited(i) ELSE 0) + FetchTime
          /\ OldestAt(i) = (IF ready THEN Waited(i) ELSE 0) + (now - syncAt)
    BY <1>2, <2>1, Zenon DEF OldestAt
  <2>4. ASSUME NEW i \in 1 .. MaxInbox
        PROVE  /\ 0 <= OldestAt(i)' /\ OldestAt(i) <= OldestAt(i)'
               /\ OldestAt(i) \in Int /\ OldestAt(i)' \in Int
    <3>1. Waited(i) \in Nat
      BY <1>4
    <3>2. /\ OldestAt(i)' = (IF ready THEN Waited(i) ELSE 0) + FetchTime
          /\ OldestAt(i) = (IF ready THEN Waited(i) ELSE 0) + (now - syncAt)
      BY <2>3
    <3>3. now - syncAt <= FetchTime
      BY <1>6, <2>1
    <3> QED BY <1>0, <3>1, <3>2, <3>3
  <2> HIDE DEF packet
  <2>5. CASE inbox' = inbox
    BY <1>0, <1>3, <2>1, <2>4, <2>5 DEF AgesInv
  <2>6. CASE Len(inbox) < MaxInbox /\ inbox' = Append(inbox, packet)
    <3>1. /\ Len(inbox') <= MaxInbox
          /\ \A i \in DOMAIN inbox' :
               /\ i \in 1 .. MaxInbox
               /\ \/ i \in DOMAIN inbox /\ inbox'[i] = inbox[i]
                  \/ inbox'[i] = packet
      BY <1>0, <2>2, <2>6, Joined
    <3>2. ASSUME NEW i \in DOMAIN inbox'
          PROVE  now' - inbox'[i].arrived <= OldestAt(i)'
      <4>1. i \in 1 .. MaxInbox
        BY <3>1
      <4>2. /\ 0 <= OldestAt(i)' /\ OldestAt(i) <= OldestAt(i)'
            /\ OldestAt(i) \in Int /\ OldestAt(i)' \in Int
        BY <2>4, <4>1
      <4>3. CASE i \in DOMAIN inbox /\ inbox'[i] = inbox[i]
        BY <1>0, <1>3, <2>1, <4>2, <4>3
      <4>4. CASE inbox'[i] = packet
        BY <1>0, <2>1, <2>2, <4>2, <4>4
      <4> QED BY <3>1, <4>3, <4>4
    <3> QED BY <2>1, <3>1, <3>2 DEF AgesInv
  <2> QED BY <2>1, <2>5, <2>6
<1>12. CASE NothingReceived
  <2>1. /\ pc = "receive" /\ ~ready /\ pc' \in {"select", "exited"}
        /\ UNCHANGED <<now, inbox>>
    BY <1>12 DEF NothingReceived, AfterReceive, Receiving
  <2>2. ASSUME NEW i \in DOMAIN inbox
        PROVE  now - inbox[i].arrived <= Waited(i)
    <3>1. now - inbox[i].arrived <= 0 + FetchTime
      BY <1>3, <2>1 DEF OldestAt
    <3>2. Waited(i) \in Nat /\ FetchTime <= Waited(i) /\ inbox[i].arrived \in Int
      BY <1>3, <1>4
    <3> QED BY <1>0, <3>1, <3>2
  <2>3. pc' # "exited" => \A i : OldestAt(i)' = Waited(i)
    BY <1>2, <2>1 DEF OldestAt
  <2> QED BY <1>0, <2>1, <2>2, <2>3 DEF AgesInv
<1>13. CASE SntpReceive
  <2>1. /\ pc = "receive" /\ ready /\ pc' \in {"select", "exited"}
        /\ inbox # <<>> /\ inbox' = Tail(inbox) /\ now' = now
    BY <1>13 DEF SntpReceive, AfterReceive, Receiving
  <2>2. /\ Len(inbox') = Len(inbox) - 1
        /\ \A i \in DOMAIN inbox' : i + 1 \in DOMAIN inbox /\ inbox'[i] = inbox[i + 1]
    BY <1>0, <2>1, HeadTailProperties, LenProperties
  <2>3. ASSUME NEW i \in DOMAIN inbox'
        PROVE  now - inbox'[i].arrived <= Waited(i)
    <3>1. /\ i + 1 \in DOMAIN inbox /\ inbox'[i] = inbox[i + 1]
      BY <2>2
    <3>2. now - inbox[i + 1].arrived <= Waited(i + 1) + FetchTime
      BY <1>3, <2>1, <3>1 DEF OldestAt
    <3>3. i \in 1 .. MaxInbox
      <4>1. i \in Nat \ {0}
        <5>1. inbox' \in Seq(Datagram)
          BY <1>0, <2>1, HeadTailProperties
        <5> QED BY <5>1, LenProperties
      <4>2. i + 1 \in 1 .. MaxInbox
        BY <1>3, <3>1
      <4> QED BY <1>0, <4>1, <4>2
    <3> QED BY <1>4, <3>1, <3>2, <3>3
  <2>4. pc' # "exited" => \A i : OldestAt(i)' = Waited(i)
    BY <1>2, <2>1 DEF OldestAt
  <2>5. Len(inbox') <= MaxInbox
    BY <1>0, <2>2
  <2> QED BY <2>1, <2>3, <2>4, <2>5 DEF AgesInv
<1>14. CASE EnterSelect \/ SelectReadable
  <2>1. /\ pc \in {"select", "wait"} /\ pc' \in {"wait", "top"}
        /\ UNCHANGED <<now, inbox>> /\ (pc' = "top" => ready')
    BY <1>14, Zenon DEF EnterSelect, SelectReadable
  <2>2. \A i : OldestAt(i)' = Waited(i) /\ OldestAt(i) = Waited(i)
    BY <1>2, <2>1 DEF OldestAt
  <2> QED BY <1>0, <1>3, <2>1, <2>2 DEF AgesInv
<1>15. CASE SelectTimeout
  <2>1. inbox = <<>> /\ inbox' = inbox
    BY <1>15, Zenon DEF SelectTimeout
  <2> QED BY <1>0, <2>1, EmptySeq, LenProperties DEF AgesInv
<1>16. CASE Tick
  <2>1. /\ pc = "fetch" \/ inbox = <<>>
        /\ now' = now + 1 /\ UNCHANGED <<pc, inbox, ready, syncAt>>
    BY <1>16, Zenon DEF Tick
  <2>2. CASE pc = "fetch"
    <3>1. \A i : /\ OldestAt(i)' = (IF ready THEN Waited(i) ELSE 0) + ((now + 1) - syncAt)
                 /\ OldestAt(i) = (IF ready THEN Waited(i) ELSE 0) + (now - syncAt)
      BY <1>2, <2>1, <2>2 DEF OldestAt
    <3>2. ASSUME NEW i \in 1 .. MaxInbox
          PROVE  OldestAt(i)' = OldestAt(i) + 1 /\ OldestAt(i) \in Int
      <4>1. Waited(i) \in Nat
        BY <1>4
      <4>2. /\ OldestAt(i)' = (IF ready THEN Waited(i) ELSE 0) + ((now + 1) - syncAt)
            /\ OldestAt(i) = (IF ready THEN Waited(i) ELSE 0) + (now - syncAt)
        BY <3>1
      <4> QED BY <1>0, <4>1, <4>2
    <3> QED BY <1>0, <1>3, <2>1, <2>2, <3>2, SMTT(30) DEF AgesInv
  <2>3. CASE inbox = <<>>
    BY <1>0, <2>1, <2>3, EmptySeq, LenProperties DEF AgesInv
  <2> QED BY <2>1, <2>2, <2>3
<1>17. CASE Arrive
  <2>1. /\ pc \in {"fetch", "wait"} /\ Len(inbox) < MaxInbox
        /\ UNCHANGED <<now, pc, ready, syncAt>>
    BY <1>17, Zenon DEF Arrive
  <2>2. PICK kind \in Datagrams :
          inbox' = Append(inbox, [kind |-> kind, stamp |-> now, arrived |-> now])
    BY <1>17, Zenon DEF Arrive
  <2> DEFINE packet == [kind |-> kind, stamp |-> now, arrived |-> now]
  <2>3. packet \in Datagram /\ packet.arrived = now
    BY <1>0, NetworkAssumption DEF Datagram
  <2>4. \A i \in 1 .. MaxInbox : OldestAt(i)' = OldestAt(i) /\ 0 <= OldestAt(i)
    <3> SUFFICES ASSUME NEW i \in 1 .. MaxInbox
                 PROVE  OldestAt(i)' = OldestAt(i) /\ 0 <= OldestAt(i)
      OBVIOUS
    <3>1. OldestAt(i)' = OldestAt(i)
      BY <1>2, <2>1 DEF OldestAt
    <3>2. CASE pc = "fetch"
      <4>1. OldestAt(i) = (IF ready THEN Waited(i) ELSE 0) + (now - syncAt)
        BY <3>2 DEF OldestAt
      <4> QED BY <1>0, <1>4, <1>5, <3>1, <3>2, <4>1
    <3>3. CASE pc = "wait"
      BY <1>4, <3>1, <3>3 DEF OldestAt
    <3> QED BY <2>1, <3>2, <3>3
  <2> HIDE DEF packet
  <2>5. /\ Len(inbox') <= MaxInbox
        /\ \A i \in DOMAIN inbox' :
             /\ i \in 1 .. MaxInbox
             /\ \/ i \in DOMAIN inbox /\ inbox'[i] = inbox[i]
                \/ inbox'[i] = packet
    BY <1>0, <2>1, <2>2, <2>3, Joined DEF packet
  <2>6. \A i \in DOMAIN inbox' : now' - inbox'[i].arrived <= OldestAt(i)'
    BY <1>0, <1>3, <2>1, <2>3, <2>4, <2>5
  <2> QED BY <2>1, <2>5, <2>6 DEF AgesInv
<1>18. CASE UNCHANGED vars
  <2>1. UNCHANGED <<pc, now, inbox, ready, syncAt>>
    BY <1>18, Zenon DEF vars
  <2>2. \A i : OldestAt(i)' = OldestAt(i)
    BY <1>2, <2>1 DEF OldestAt
  <2> QED BY <1>0, <2>1, <2>2 DEF AgesInv
<1> QED BY <1>7, <1>8, <1>9, <1>10, <1>11, <1>12, <1>13, <1>14, <1>15, <1>16,
           <1>17, <1>18, Zenon DEF Next

\* What the program believes is never its own broadcast, with a reading of the clock
\* that it sets in it.
Trusted == ~(Loopback /\ args.bcastSend /\ args.bcastRecv)

\* The broadcasts of others tell the time at which they arrived.
StampsTrue ==
  ~(Loopback /\ args.bcastSend) =>
    \A i \in DOMAIN inbox : inbox[i].stamp = inbox[i].arrived

\* Between the reading in TimeNow and the clock lies what a slew did since then,
Unstepped ==
  /\ timeNow - (readAt + offset) <= now - readAt
  /\ (readAt + offset) - timeNow <= now - readAt

\* unless the clock was set in between: to a second that TimeNow was not in,
SteppedTcp ==
  \E s \in readAt .. now : Sec(timeNow) # Sec(s) /\ offset = Sec(s) * TicksPerSec - now

\* or to what an SNTP server told.
SteppedSntp ==
  /\ ~Asks({"tcp", "daytime"})
  /\ -(FetchTime + FloatError) <= offset /\ offset <= FetchTime + FloatError

ReadingInv ==
  /\ pc = "fetch" => Unstepped
  /\ pc \in {"broadcast", "receive"} => Unstepped \/ SteppedTcp \/ SteppedSntp
  /\ pc \in {"fetch", "broadcast", "receive"} /\ ~wasSet => timeNow = readAt + offset

Within(error) == -ErrorBound < error /\ error < ErrorBound

\* The clock is near the true time and will be so when the slew that runs has ended.
ClockInv ==
  /\ ~wasSet \/ ~args.setsys => slew = 0
  /\ wasSet /\ args.setsys => Within(offset) /\ Within(offset + slew)
  /\ wasSet /\ args.setrtc => Within(rtc)

LEMMA ErrorBoundParts ==
  ASSUME FetchTime \in Nat
  PROVE  /\ ErrorBound \in Nat
         /\ TicksPerSec + FetchTime <= ErrorBound
         /\ ~Asks({"tcp", "daytime"}) => TicksPerSec + FetchTime + FloatError <= ErrorBound
         /\ args.bcastRecv => TicksPerSec + (MaxInbox * FetchTime + FetchTime) <= ErrorBound
         /\ MaxInbox * FetchTime \in Nat
<1> DEFINE f == FetchTime
           m == MaxInbox * f
           float == IF Asks({"tcp", "daytime"}) THEN 0 ELSE FloatError
           fetches == IF args.bcastRecv THEN MaxInbox + 1 ELSE 1
<1>1. f \in Nat /\ MaxInbox \in Nat /\ TicksPerSec \in Nat /\ float \in Nat
        /\ FloatError \in Nat
  BY NetworkAssumption, TicksAssumption, FloatErrorBound
<1>2. m \in Nat /\ (MaxInbox + 1) * f = m + f /\ 1 * f = f
  BY <1>1
<1>3. ErrorBound = TicksPerSec + fetches * f + float
  BY Zenon DEF ErrorBound
<1>4. fetches * f = IF args.bcastRecv THEN m + f ELSE f
  BY <1>2, Zenon
<1> HIDE DEF f, m, fetches
<1> QED BY <1>1, <1>2, <1>3, <1>4 DEF f, m

LEMMA SameSecond ==
  ASSUME NEW a \in Int, NEW b \in Int, Sec(a) = Sec(b)
  PROVE  a - b < TicksPerSec /\ b - a < TicksPerSec /\ Usec(a) - Usec(b) = a - b
<1> DEFINE k == Sec(a)
<1>1. /\ k \in Int /\ Usec(a) \in Int /\ Usec(b) \in Int
      /\ a = TicksPerSec * k + Usec(a) /\ b = TicksPerSec * k + Usec(b)
      /\ Usec(a) \in 0 .. TicksPerSec - 1 /\ Usec(b) \in 0 .. TicksPerSec - 1
  BY TicksAssumption, TimevalType DEF Sec, Usec
<1>2. TicksPerSec * k \in Int /\ TicksPerSec \in Nat
  BY <1>1, TicksAssumption
<1> HIDE DEF k
<1> QED BY <1>1, <1>2

\* The three things UpdateSystemClock may do.
LEMMA HandledCases ==
  ASSUME NEW t \in Int, NEW time \in Int, now \in Int, offset \in Int, slew \in Int,
         HandleReceivedTime(t, time)
  PROVE  /\ wasSet'
         /\ rtc' = IF args.setrtc THEN Sec(time) * TicksPerSec - now ELSE rtc
         /\ ~args.setsys => offset' = offset /\ slew' = slew
         /\ args.setsys =>
              \/ /\ offset' = time - now /\ slew' = 0
                 /\ Usec(time) = 0 => Sec(t) # Sec(time)
              \/ /\ offset' = offset /\ slew' = t - time /\ Sec(t) = Sec(time)
                 /\ t - time < AdjLimit /\ time - t < AdjLimit /\ Usec(time) # 0
              \/ /\ offset' = offset /\ slew' = slew /\ Sec(t) = Sec(time)
                 /\ t - time < TicksPerSec /\ time - t < TicksPerSec
<1> DEFINE clock == UpdateSystemClock(t, time, now, offset, slew)
<1>1. /\ wasSet'
      /\ rtc' = IF args.setrtc THEN Sec(time) * TicksPerSec - now ELSE rtc
      /\ ~args.setsys => offset' = offset /\ slew' = slew
      /\ args.setsys => offset' = clock.offset /\ slew' = clock.slew
  BY Zenon DEF HandleReceivedTime
<1>2. Usec(t) \in 0 .. TicksPerSec - 1 /\ Usec(time) \in 0 .. TicksPerSec - 1
  BY TimevalType
<1>3. CASE Steps(t, time)
  <2>1. clock.offset = time - now /\ clock.slew = 0
    BY <1>3 DEF UpdateSystemClock
  <2>2. Usec(time) = 0 => Sec(t) # Sec(time)
    <3>1. Usec(time) = 0 => UsecDiff(t, time) = 0
      BY DEF UsecDiff
    <3> QED BY <1>3, <3>1, Zenon DEF Steps, InSync
  <2> QED BY <1>1, <2>1, <2>2, Zenon
<1>4. CASE Slews(t, time)
  <2>1. clock.offset = offset /\ clock.slew = Usec(t) - Usec(time)
    BY <1>4 DEF UpdateSystemClock, Steps, SlewDelta
  <2>2. Sec(t) = Sec(time) /\ UsecDiff(t, time) # 0 /\ UsecDiff(t, time) < AdjLimit
    BY <1>4, Zenon DEF Slews
  <2>3. Usec(t) - Usec(time) = t - time
    BY <2>2, SameSecond
  <2>4. Usec(time) # 0 /\ UsecDiff(t, time) = Distance(Usec(t), Usec(time))
    BY <1>2, <2>2 DEF UsecDiff
  <2>5. t - time < AdjLimit /\ time - t < AdjLimit
    BY <1>2, <2>2, <2>3, <2>4, AdjAssumption DEF Distance
  <2> QED BY <1>1, <2>1, <2>2, <2>3, <2>4, <2>5
<1>5. CASE ~Steps(t, time) /\ ~Slews(t, time)
  <2>1. clock.offset = offset /\ clock.slew = slew
    BY <1>5 DEF UpdateSystemClock
  <2>2. Sec(t) = Sec(time)
    BY <1>5, Zenon DEF Steps, InSync
  <2>3. t - time < TicksPerSec /\ time - t < TicksPerSec
    BY <2>2, SameSecond
  <2> QED BY <1>1, <2>1, <2>2, <2>3, Zenon
<1> QED BY <1>3, <1>4, <1>5

LEMMA FetchFacts ==
  ASSUME TypeOK, FetchTimed, pc = "fetch"
  PROVE  /\ now \in Nat /\ since \in Nat /\ readAt \in Nat
         /\ offset \in Int /\ slew \in Int /\ rtc \in Int /\ timeNow \in Int
         /\ FetchTime \in Nat
         /\ readAt <= since /\ since <= now /\ now - readAt <= FetchTime
<1>1. readAt = syncAt /\ syncAt <= since /\ since <= now
  BY DEF FetchTimed
<1>2. now - syncAt <= FetchTime
  BY FetchNotOver
<1> QED BY <1>1, <1>2, FetchTimeType DEF TypeOK

\* A time over TCP: a step to the second of an instant since TimeNow was read, or a
\* clock that showed this second then.
LEMMA TcpKeeps ==
  ASSUME TypeOK, FetchTimed, ReadingInv, ClockInv, TcpAnswer
  PROVE  ReadingInv' /\ ClockInv'
<1>1. PICK s \in since .. now :
        HandleReceivedTime(timeNow, Sec(s) * TicksPerSec)
  BY Zenon DEF TcpAnswer
<1> DEFINE time == Sec(s) * TicksPerSec
<1>2. /\ pc = "fetch" /\ pc' = "broadcast"
      /\ UNCHANGED <<args, now, timeNow, readAt>>
  BY DEF TcpAnswer
<1>3. /\ now \in Nat /\ since \in Nat /\ readAt \in Nat /\ s \in Int
      /\ offset \in Int /\ slew \in Int /\ rtc \in Int /\ timeNow \in Int
      /\ FetchTime \in Nat /\ TicksPerSec \in Nat \ {0}
      /\ readAt <= since /\ since <= now /\ now - readAt <= FetchTime
  BY <1>2, FetchFacts, TicksAssumption
<1>4. /\ time \in Int /\ Sec(time) = Sec(s) /\ Usec(time) = 0
      /\ time <= s /\ s < time + TicksPerSec
  BY <1>3, SecBounds, WholeSecond
<1>5. /\ ErrorBound \in Nat /\ TicksPerSec + FetchTime <= ErrorBound
      /\ ErrorBound' = ErrorBound
  BY <1>2, <1>3, ErrorBoundParts, Zenon DEF ErrorBound, FetchTime, Asks
<1>6. Within(time - now)
  BY <1>3, <1>4, <1>5 DEF Within
<1>7. /\ wasSet' /\ (args.setrtc => rtc' = time - now)
      /\ ~args.setsys => offset' = offset /\ slew' = slew
      /\ args.setsys =>
           \/ offset' = time - now /\ slew' = 0 /\ Sec(timeNow) # Sec(s)
           \/ offset' = offset /\ slew' = slew /\ Sec(timeNow) = Sec(s)
  <2> HIDE DEF time
  <2>1. HandleReceivedTime(timeNow, time)
    BY <1>1 DEF time
  <2>2. Sec(time) * TicksPerSec = time
    BY <1>4 DEF time
  <2> QED BY <1>3, <1>4, <2>1, <2>2, HandledCases
<1>8. ~wasSet => slew = 0 /\ timeNow = readAt + offset
  BY <1>2, Zenon DEF ReadingInv, ClockInv
<1>9. Unstepped
  BY <1>2, Zenon DEF ReadingInv
<1>10. ASSUME offset' = offset PROVE Unstepped'
  BY <1>2, <1>9, <1>10, Zenon DEF Unstepped
<1> HIDE DEF time
<1>11. CASE args.setsys /\ offset' = time - now /\ slew' = 0 /\ Sec(timeNow) # Sec(s)
  <2>1. SteppedTcp'
    <3>1. s \in readAt .. now
      BY <1>3
    <3> QED BY <1>2, <1>11, <3>1 DEF SteppedTcp, time
  <2>2. Within(offset') /\ Within(offset' + slew')
    <3>1. offset' = time - now /\ offset' + slew' = time - now
      BY <1>3, <1>4, <1>11
    <3> QED BY <1>6, <3>1, Zenon
  <2>3. (wasSet /\ args.setsys => Within(offset) /\ Within(offset + slew))'
    BY <1>5, <2>2, Zenon DEF Within
  <2>4. (wasSet /\ args.setrtc => Within(rtc))'
    BY <1>2, <1>5, <1>6, <1>7, Zenon DEF Within
  <2> QED BY <1>2, <1>7, <1>11, <2>1, <2>3, <2>4 DEF ReadingInv, ClockInv
<1>12. CASE args.setsys /\ offset' = offset /\ slew' = slew /\ Sec(timeNow) = Sec(s)
  <2>1. Within(offset) /\ Within(offset + slew)
    <3>1. CASE wasSet
      BY <1>12, <3>1, Zenon DEF ClockInv
    <3>2. CASE ~wasSet
      <4>1. slew = 0 /\ Sec(readAt + offset) = Sec(s)
        BY <1>8, <1>12, <3>2, Zenon
      <4>2. readAt <= s /\ s - readAt <= FetchTime
        BY <1>3
      <4>3. Distance(offset, 0) < TicksPerSec + FetchTime
        <5>1. s \in Int /\ readAt \in Int /\ offset \in Int /\ FetchTime \in Nat
          BY <1>3
        <5> QED BY <4>1, <4>2, <5>1, InSyncError
      <4> QED BY <1>3, <1>5, <4>1, <4>3 DEF Within, Distance
    <3> QED BY <3>1, <3>2
  <2>2. (wasSet /\ args.setsys => Within(offset) /\ Within(offset + slew))'
    BY <1>5, <1>12, <2>1, Zenon DEF Within
  <2>3. (wasSet /\ args.setrtc => Within(rtc))'
    BY <1>2, <1>5, <1>6, <1>7, Zenon DEF Within
  <2>4. Unstepped'
    BY <1>10, <1>12
  <2>5. ~(~wasSet \/ ~args.setsys)'
    BY <1>2, <1>7, <1>12, Zenon
  <2> QED BY <1>2, <1>7, <2>2, <2>3, <2>4, <2>5, Zenon DEF ReadingInv, ClockInv
<1>13. CASE ~args.setsys
  <2>1. offset' = offset /\ slew' = 0
    BY <1>7, <1>13, Zenon DEF ClockInv
  <2>2. Unstepped'
    BY <1>10, <2>1
  <2>3. (wasSet /\ args.setrtc => Within(rtc))'
    BY <1>2, <1>5, <1>6, <1>7, Zenon DEF Within
  <2> QED BY <1>2, <1>7, <1>13, <2>1, <2>2, <2>3 DEF ReadingInv, ClockInv
<1> QED BY <1>7, <1>11, <1>12, <1>13, Zenon

\* The two clocks after SNTP told a time that is at most e off.
LEMMA TimeRtc ==
  ASSUME NEW time \in Int, NEW e \in Nat, NEW t \in Int, NEW bound \in Nat,
         time - t <= e, -e <= time - t, TicksPerSec + e <= bound
  PROVE  /\ -bound < Sec(time) * TicksPerSec - t
         /\ Sec(time) * TicksPerSec - t < bound
         /\ -bound < time - t /\ time - t < bound
<1> DEFINE start == Sec(time) * TicksPerSec
<1>1. start \in Int /\ start <= time /\ time < start + TicksPerSec
  BY SecBounds
<1> HIDE DEF start
<1>2. -bound < start - t /\ start - t < bound /\ -bound < time - t /\ time - t < bound
  BY <1>1, TicksAssumption
<1> QED BY <1>2 DEF start

LEMMA SntpKeeps ==
  ASSUME TypeOK, FetchTimed, TodoTcp, ReadingInv, ClockInv, SntpAnswer
  PROVE  ReadingInv' /\ ClockInv'
<1>1. PICK time \in SntpTimes(timeNow, since, now, timeNow') :
        HandleReceivedTime(timeNow', time)
  BY Zenon DEF SntpAnswer
<1>2. /\ pc = "fetch" /\ pc' = "broadcast" /\ args' = args /\ now' = now
      /\ timeNow' = now + offset /\ readAt' = now
  BY DEF SntpAnswer, ReadClock, Clock
<1> DEFINE e == FetchTime + FloatError
           t == now + offset
<1>3. /\ now \in Nat /\ since \in Nat /\ readAt \in Nat
      /\ offset \in Int /\ slew \in Int /\ rtc \in Int /\ timeNow \in Int
      /\ FetchTime \in Nat /\ TicksPerSec \in Nat \ {0} /\ FloatError \in Nat
      /\ readAt <= since /\ since <= now /\ now - readAt <= FetchTime
  BY <1>2, FetchFacts, TicksAssumption, FloatErrorBound
<1>4. ~Asks({"tcp", "daytime"})
  <2> SUFFICES ASSUME Asks({"tcp", "daytime"}) PROVE FALSE
    OBVIOUS
  <2>1. todo \in Seq(Servers) /\ todo # <<>> /\ Head(todo) = "sntp"
    BY DEF SntpAnswer, TypeOK
  <2>2. todo[1] = "tcp"
    BY <2>1, LenProperties, EmptySeq DEF TodoTcp
  <2> QED BY <2>1, <2>2
<1>5. /\ ErrorBound \in Nat /\ TicksPerSec + e <= ErrorBound
      /\ ErrorBound' = ErrorBound
  BY <1>2, <1>3, <1>4, ErrorBoundParts DEF ErrorBound, FetchTime, Asks
<1>6. /\ time \in Int /\ time - now <= e /\ -e <= time - now
  <2>1. /\ timeNow - (readAt + offset) <= now - readAt
        /\ (readAt + offset) - timeNow <= now - readAt
    BY <1>2 DEF ReadingInv, Unstepped
  <2>2. timeNow <= t /\ t - timeNow <= 2 * (now - readAt) /\ t \in Int
    BY <1>3, <2>1
  <2>3. time \in SntpTimes(timeNow, since, now, t)
    BY <1>1, <1>2
  <2>4. /\ time \in Int
        /\ time - now <= (now - readAt) + FloatError
        /\ -((now - readAt) + FloatError) <= time - now
    BY <1>3, <2>2, <2>3, SntpTimeError
  <2> QED BY <1>3, <2>4
<1>7. /\ Within(Sec(time) * TicksPerSec - now)
      /\ Within(time - now)
  <2>1. time \in Int /\ e \in Nat /\ now \in Int /\ ErrorBound \in Nat
    BY <1>3, <1>5, <1>6
  <2> HIDE DEF e
  <2> QED BY <1>5, <1>6, <2>1, TimeRtc DEF Within
<1>8. /\ wasSet' /\ (args.setrtc => rtc' = Sec(time) * TicksPerSec - now)
      /\ ~args.setsys => offset' = offset /\ slew' = slew
      /\ args.setsys =>
           \/ offset' = time - now /\ slew' = 0
           \/ /\ offset' = offset /\ slew' = t - time
              /\ t - time < AdjLimit /\ time - t < AdjLimit
           \/ /\ offset' = offset /\ slew' = slew
              /\ t - time < TicksPerSec /\ time - t < TicksPerSec
  <2>1. HandleReceivedTime(t, time)
    BY <1>1, <1>2
  <2>2. t \in Int
    BY <1>3
  <2> HIDE DEF t
  <2> QED BY <1>3, <1>6, <2>1, <2>2, HandledCases
<1>9. ~wasSet => slew = 0
  BY Zenon DEF ClockInv
<1>10. (wasSet /\ args.setrtc => Within(rtc))'
  BY <1>2, <1>5, <1>7, <1>8, Zenon DEF Within
<1>11. ASSUME offset' = offset PROVE Unstepped'
  BY <1>2, <1>3, <1>11 DEF Unstepped
<1>12. CASE args.setsys /\ offset' = time - now /\ slew' = 0
  <2>1. SteppedSntp'
    <3>1. -e <= offset' /\ offset' <= e
      BY <1>6, <1>12
    <3>2. FetchTime' = FetchTime /\ FloatError' = FloatError /\ ~Asks({"tcp", "daytime"})'
      BY <1>2, <1>4, Zenon DEF FetchTime, FloatError, Asks
    <3> QED BY <3>1, <3>2 DEF SteppedSntp
  <2>2. Within(offset') /\ Within(offset' + slew')
    <3>1. offset' = time - now /\ offset' + slew' = time - now
      BY <1>3, <1>6, <1>12
    <3> QED BY <1>7, <3>1, Zenon
  <2>3. (wasSet /\ args.setsys => Within(offset) /\ Within(offset + slew))'
    BY <1>5, <2>2, Zenon DEF Within
  <2> QED BY <1>2, <1>8, <1>10, <1>12, <2>1, <2>3 DEF ReadingInv, ClockInv
<1>13. CASE args.setsys /\ offset' = offset
  <2>1. Within(offset') /\ Within(offset' + slew')
    <3>1. CASE slew' = t - time /\ t - time < AdjLimit /\ time - t < AdjLimit
      BY <1>3, <1>5, <1>6, <1>13, <3>1, AdjAssumption DEF Within
    <3>2. CASE /\ slew' = slew /\ t - time < TicksPerSec /\ time - t < TicksPerSec
      <4>1. CASE wasSet
        BY <1>13, <3>2, <4>1, Zenon DEF ClockInv
      <4>2. CASE ~wasSet
        BY <1>3, <1>5, <1>6, <1>9, <1>13, <3>2, <4>2 DEF Within
      <4> QED BY <4>1, <4>2
    <3>3. CASE offset' = time - now /\ slew' = 0
      <4>1. offset' = time - now /\ offset' + slew' = time - now
        BY <1>3, <1>6, <3>3
      <4> QED BY <1>7, <4>1, Zenon
    <3> QED BY <1>8, <1>13, <3>1, <3>2, <3>3, Zenon
  <2>2. (wasSet /\ args.setsys => Within(offset) /\ Within(offset + slew))'
    BY <1>5, <2>1, Zenon DEF Within
  <2>3. Unstepped' /\ timeNow' = readAt' + offset'
    BY <1>2, <1>11, <1>13
  <2>4. ~(~wasSet \/ ~args.setsys)'
    BY <1>2, <1>8, <1>13, Zenon
  <2> QED BY <1>2, <1>10, <2>2, <2>3, <2>4, Zenon DEF ReadingInv, ClockInv
<1>14. CASE ~args.setsys
  <2>1. offset' = offset /\ slew' = 0
    BY <1>8, <1>14, Zenon DEF ClockInv
  <2>2. Unstepped'
    BY <1>11, <2>1
  <2> QED BY <1>2, <1>8, <1>10, <1>14, <2>1, <2>2 DEF ReadingInv, ClockInv
<1> QED BY <1>8, <1>12, <1>13, <1>14, Zenon

\* A second that begins after p and is not later than s.
LEMMA SecondBetween ==
  ASSUME NEW p \in Int, NEW s \in Int, p <= s, Sec(p) # Sec(s)
  PROVE  p < Sec(s) * TicksPerSec /\ Sec(s) * TicksPerSec <= s
<1> DEFINE i == Sec(p)
           k == Sec(s)
<1>1. /\ i \in Int /\ k \in Int /\ i <= k /\ i # k
      /\ i * TicksPerSec \in Int /\ k * TicksPerSec \in Int
      /\ p < i * TicksPerSec + TicksPerSec /\ k * TicksPerSec <= s
  BY SecBounds, SecMonotonic
<1> HIDE DEF i, k
<1>2. (k - i) * TicksPerSec >= TicksPerSec
  BY <1>1, TicksAssumption
<1>3. (k - i) * TicksPerSec = k * TicksPerSec - i * TicksPerSec
  BY <1>1, TicksAssumption
<1>4. p < k * TicksPerSec /\ k * TicksPerSec <= s
  BY <1>1, <1>2, <1>3, TicksAssumption
<1> QED BY <1>4 DEF k

\* A broadcast from the queue.
LEMMA BroadcastKeeps ==
  ASSUME TypeOK, FetchTimed, ArrivalsInv, AgesInv, StampsTrue, Trusted,
         ReadingInv, ClockInv, SntpReceive,
         args.bcastRecv, HandleReceivedTime(timeNow, Head(inbox).stamp)
  PROVE  ClockInv'
<1> DEFINE p == Head(inbox).stamp
           age == MaxInbox * FetchTime + FetchTime
<1>1. /\ pc = "receive" /\ ready /\ inbox # <<>> /\ args' = args /\ now' = now
  BY DEF SntpReceive, Receiving
<1>2. /\ now \in Nat /\ readAt \in Nat /\ offset \in Int /\ slew \in Int
      /\ timeNow \in Int /\ FetchTime \in Nat /\ TicksPerSec \in Nat \ {0}
      /\ FloatError \in Nat /\ inbox \in Seq(Datagram) /\ AdjLimit \in Nat
      /\ 2 * AdjLimit <= TicksPerSec
  BY FetchTimeType, TicksAssumption, FloatErrorBound, AdjAssumption DEF TypeOK
<1>3. readAt <= now /\ now - readAt <= FetchTime
  BY <1>1 DEF FetchTimed
<1>4. /\ ErrorBound \in Nat /\ TicksPerSec + age <= ErrorBound
      /\ age \in Nat
      /\ ~Asks({"tcp", "daytime"}) => TicksPerSec + FetchTime + FloatError <= ErrorBound
  BY <1>2, ErrorBoundParts
<1>5. ErrorBound' = ErrorBound
  BY <1>1, Zenon DEF ErrorBound, FetchTime, Asks
<1>6. p \in Int /\ p <= readAt /\ now - p <= age
  <2>1. 1 \in DOMAIN inbox /\ Head(inbox) = inbox[1] /\ Head(inbox) \in Datagram
    BY <1>1, <1>2, LenProperties, EmptySeq, HeadTailProperties
  <2>2. Head(inbox).stamp = Head(inbox).arrived
    BY <2>1 DEF StampsTrue, Trusted
  <2>3. Head(inbox).arrived <= readAt
    BY <1>1 DEF ArrivalsInv
  <2>4. now - Head(inbox).arrived <= Waited(1) + FetchTime
    BY <1>1, <2>1 DEF AgesInv, OldestAt
  <2>5. Waited(1) = MaxInbox * FetchTime
    BY <1>2, WaitedInPlace
  <2> QED BY <2>1, <2>2, <2>3, <2>4, <2>5 DEF Datagram
<1> HIDE DEF p, age
<1>7. /\ Within(Sec(p) * TicksPerSec - now)
      /\ Within(p - now)
  <2>1. now \in Int /\ p - now <= age /\ -age <= p - now
    BY <1>2, <1>3, <1>4, <1>6
  <2> QED BY <1>4, <1>6, <2>1, TimeRtc DEF Within
<1>8. /\ wasSet' /\ (args.setrtc => rtc' = Sec(p) * TicksPerSec - now)
      /\ ~args.setsys => offset' = offset /\ slew' = slew
      /\ args.setsys =>
           \/ offset' = p - now /\ slew' = 0
           \/ /\ offset' = offset /\ slew' = timeNow - p /\ Sec(timeNow) = Sec(p)
              /\ timeNow - p < AdjLimit /\ p - timeNow < AdjLimit
           \/ /\ offset' = offset /\ slew' = slew
              /\ timeNow - p < TicksPerSec /\ p - timeNow < TicksPerSec
  <2>1. HandleReceivedTime(timeNow, p)
    BY DEF p
  <2> QED BY <1>2, <1>6, <2>1, HandledCases
<1>9. /\ ~wasSet => slew = 0 /\ timeNow = readAt + offset
      /\ Unstepped \/ SteppedTcp \/ SteppedSntp
  BY <1>1, Zenon DEF ClockInv, ReadingInv
<1>10. (wasSet /\ args.setrtc => Within(rtc))'
  BY <1>1, <1>5, <1>7, <1>8, Zenon DEF Within
<1>11. ASSUME args.setsys PROVE Within(offset') /\ Within(offset' + slew')
  <2>1. CASE offset' = p - now /\ slew' = 0
    <3>1. offset' = p - now /\ offset' + slew' = p - now
      BY <1>2, <1>6, <2>1
    <3> QED BY <1>7, <3>1, Zenon
  <2>2. CASE /\ offset' = offset /\ slew' = slew
             /\ timeNow - p < TicksPerSec /\ p - timeNow < TicksPerSec
    <3>1. CASE wasSet
      BY <1>11, <2>2, <3>1, Zenon DEF ClockInv
    <3>2. CASE ~wasSet
      BY <1>2, <1>3, <1>4, <1>6, <1>9, <2>2, <3>2 DEF Within
    <3> QED BY <3>1, <3>2
  <2>3. CASE /\ offset' = offset /\ slew' = timeNow - p /\ Sec(timeNow) = Sec(p)
             /\ timeNow - p < AdjLimit /\ p - timeNow < AdjLimit
    <3>1. Within(offset)
      <4>1. CASE wasSet
        BY <1>11, <4>1, Zenon DEF ClockInv
      <4>2. CASE ~wasSet
        BY <1>2, <1>3, <1>4, <1>6, <1>9, <2>3, <4>2 DEF Within
      <4> QED BY <4>1, <4>2
    <3>2. CASE Unstepped
      <4>1. /\ timeNow - (readAt + offset) <= now - readAt
            /\ (readAt + offset) - timeNow <= now - readAt
        BY <3>2, Zenon DEF Unstepped
      <4>2. Within(offset + (timeNow - p))
        BY <1>2, <1>3, <1>4, <1>6, <2>3, <4>1 DEF Within
      <4> QED BY <2>3, <3>1, <4>2
    <3>3. CASE SteppedTcp
      <4>1. PICK s \in readAt .. now :
              Sec(timeNow) # Sec(s) /\ offset = Sec(s) * TicksPerSec - now
        BY <3>3 DEF SteppedTcp
      <4> DEFINE start == Sec(s) * TicksPerSec
      <4>2. s \in Int /\ p <= s /\ s <= now
        BY <1>2, <1>6
      <4>3. p < start /\ start <= s /\ start \in Int
        BY <1>6, <2>3, <4>1, <4>2, SecondBetween, SecBounds
      <4> HIDE DEF start
      <4>4. offset = start - now
        BY <4>1 DEF start
      <4>5. Within(offset + (timeNow - p))
        BY <1>2, <1>3, <1>4, <1>6, <2>3, <4>2, <4>3, <4>4 DEF Within
      <4> QED BY <2>3, <3>1, <4>5
    <3>4. CASE SteppedSntp
      <4>1. /\ -(FetchTime + FloatError) <= offset
            /\ offset <= FetchTime + FloatError
            /\ TicksPerSec + FetchTime + FloatError <= ErrorBound
        BY <1>4, <3>4 DEF SteppedSntp
      <4>2. Within(offset + (timeNow - p))
        BY <1>2, <1>4, <1>6, <2>3, <4>1 DEF Within
      <4> QED BY <2>3, <3>1, <4>2
    <3> QED BY <1>9, <3>2, <3>3, <3>4
  <2> QED BY <1>8, <1>11, <2>1, <2>2, <2>3, Zenon
<1>12. (wasSet /\ args.setsys => Within(offset) /\ Within(offset + slew))'
  BY <1>1, <1>5, <1>11, Zenon DEF Within
<1>13. (~wasSet \/ ~args.setsys => slew = 0)'
  BY <1>1, <1>8, Zenon DEF ClockInv
<1> QED BY <1>10, <1>12, <1>13, Zenon DEF ClockInv

LEMMA StampsStep ==
  TypeOK /\ StampsTrue /\ [Next]_vars => StampsTrue'
<1> SUFFICES ASSUME TypeOK, StampsTrue, [Next]_vars,
                    ~(Loopback /\ args'.bcastSend)
             PROVE  \A i \in DOMAIN inbox' : inbox'[i].stamp = inbox'[i].arrived
  BY Zenon DEF StampsTrue
<1> USE DEF clockVars, netVars, loopVars, history
<1>0. now \in Nat /\ inbox \in Seq(Datagram)
  BY DEF TypeOK
<1>1. args' = args
  BY Zenon DEF Next, BindSntpPort, Top, TcpAnswer, SntpAnswer, NoAnswer,
               NoLine, NoSocket, Broadcast, NothingReceived, SntpReceive, EnterSelect,
               SelectReadable, SelectTimeout, Tick, Arrive, vars
<1>2. \A i \in DOMAIN inbox : inbox[i].stamp = inbox[i].arrived
  BY <1>1, Zenon DEF StampsTrue
<1>3. CASE SntpReceive
  <2>1. inbox # <<>> /\ inbox' = Tail(inbox)
    BY <1>3 DEF SntpReceive
  <2>2. \A i \in DOMAIN inbox' : i + 1 \in DOMAIN inbox /\ inbox'[i] = inbox[i + 1]
    BY <1>0, <2>1, HeadTailProperties, LenProperties
  <2> QED BY <1>2, <2>2
<1>4. CASE Arrive
  <2>1. Len(inbox) < MaxInbox
    BY <1>4, Zenon DEF Arrive
  <2>2. PICK kind \in Datagrams :
          inbox' = Append(inbox, [kind |-> kind, stamp |-> now, arrived |-> now])
    BY <1>4, Zenon DEF Arrive
  <2> DEFINE packet == [kind |-> kind, stamp |-> now, arrived |-> now]
  <2>3. packet \in Datagram /\ packet.stamp = packet.arrived
    BY <1>0, NetworkAssumption DEF Datagram
  <2> HIDE DEF packet
  <2>4. \A i \in DOMAIN inbox' :
           \/ i \in DOMAIN inbox /\ inbox'[i] = inbox[i]
           \/ inbox'[i] = packet
    BY <1>0, <2>1, <2>2, <2>3, Joined DEF packet
  <2> QED BY <1>2, <2>3, <2>4
<1>5. CASE inbox' = inbox
  BY <1>2, <1>5
<1> QED BY <1>1, <1>3, <1>4, <1>5, Zenon
        DEF Next, BindSntpPort, Top, TcpAnswer, SntpAnswer, NoAnswer,
            NoLine, NoSocket, Broadcast, NothingReceived, EnterSelect,
            SelectReadable, SelectTimeout, Tick, vars

ErrorKept == Trusted => ReadingInv /\ ClockInv

\* A slew that runs leads from an error within the bound to one within it.
LEMMA TickKeeps ==
  ASSUME TypeOK, FetchTimed, ReadingInv, ClockInv, Tick
  PROVE  ReadingInv' /\ ClockInv'
<1>1. PICK clock \in SlewedOff(offset, slew) :
        offset' = clock.offset /\ slew' = clock.slew
  BY Zenon DEF Tick
<1>2. /\ now \in Nat /\ readAt \in Nat /\ offset \in Int /\ slew \in Int
      /\ timeNow \in Int /\ pc \in PCs
  BY DEF TypeOK
<1>3. /\ now' = now + 1 /\ pc \in {"fetch", "wait"}
      /\ UNCHANGED <<args, pc, timeNow, readAt, rtc>>
  BY DEF Tick, history
<1>4. wasSet' = wasSet
  BY Zenon DEF Tick, history
<1>5. /\ ErrorBound' = ErrorBound /\ ErrorBound \in Nat
  BY <1>3, FetchTimeType, ErrorBoundParts DEF ErrorBound, FetchTime, Asks
<1>6. \/ offset' = offset /\ slew' = slew
      \/ slew > 0 /\ offset' = offset + 1 /\ slew' = slew - 1
      \/ slew < 0 /\ offset' = offset - 1 /\ slew' = slew + 1
  BY <1>1, <1>2 DEF SlewedOff, Sign
<1>7. slew = 0 => offset' = offset /\ slew' = 0
  BY <1>6
<1>8. ClockInv'
  <2>1. (~wasSet \/ ~args.setsys => slew = 0)'
    BY <1>3, <1>4, <1>7, Zenon DEF ClockInv
  <2>2. ASSUME wasSet, args.setsys
        PROVE  Within(offset') /\ Within(offset' + slew')
    <3>1. Within(offset) /\ Within(offset + slew)
      BY <2>2, Zenon DEF ClockInv
    <3>2. /\ -ErrorBound < offset /\ offset < ErrorBound
          /\ -ErrorBound < offset + slew /\ offset + slew < ErrorBound
      BY <3>1, Zenon DEF Within
    <3>3. offset' + slew' = offset + slew
      BY <1>2, <1>6
    <3>4. -ErrorBound < offset' /\ offset' < ErrorBound
      BY <1>2, <1>5, <1>6, <3>2
    <3> QED BY <3>2, <3>3, <3>4 DEF Within
  <2>3. (wasSet /\ args.setsys => Within(offset) /\ Within(offset + slew))'
    BY <1>3, <1>4, <1>5, <2>2, Zenon DEF Within
  <2>4. (wasSet /\ args.setrtc => Within(rtc))'
    BY <1>3, <1>4, <1>5, Zenon DEF Within, ClockInv
  <2> QED BY <2>1, <2>3, <2>4, Zenon DEF ClockInv
<1>9. CASE pc = "fetch"
  <2>1. Unstepped'
    <3>1. /\ timeNow - (readAt + offset) <= now - readAt
          /\ (readAt + offset) - timeNow <= now - readAt
      BY <1>9, Zenon DEF ReadingInv, Unstepped
    <3> QED BY <1>2, <1>3, <1>6, <3>1 DEF Unstepped
  <2>2. (~wasSet => timeNow = readAt + offset)'
    BY <1>3, <1>4, <1>7, <1>9, Zenon DEF ReadingInv, ClockInv
  <2> QED BY <1>3, <1>8, <1>9, <2>1, <2>2 DEF ReadingInv
<1>10. CASE pc = "wait"
  BY <1>3, <1>8, <1>10 DEF ReadingInv
<1> QED BY <1>3, <1>9, <1>10

LEMMA ErrorStep ==
  TypeOK /\ FetchTimed /\ TodoTcp /\ ArrivalsInv /\ AgesInv /\ StampsTrue
    /\ ErrorKept /\ [Next]_vars => ErrorKept'
<1> SUFFICES ASSUME TypeOK, FetchTimed, TodoTcp, ArrivalsInv, AgesInv, StampsTrue,
                    ErrorKept, [Next]_vars, Trusted'
             PROVE  ReadingInv' /\ ClockInv'
  BY Zenon DEF ErrorKept
<1> USE DEF clockVars, netVars, loopVars, history
<1>1. args' = args
  BY Zenon DEF Next, BindSntpPort, Top, TcpAnswer, SntpAnswer, NoAnswer,
               NoLine, NoSocket, Broadcast, NothingReceived, SntpReceive, EnterSelect,
               SelectReadable, SelectTimeout, Tick, Arrive, vars
<1>2. Trusted /\ ReadingInv /\ ClockInv
  BY <1>1, Zenon DEF Trusted, ErrorKept
<1>3. ErrorBound' = ErrorBound /\ FetchTime' = FetchTime /\ (Asks({"tcp", "daytime"})' <=> Asks({"tcp", "daytime"}))
  BY <1>1, Zenon DEF ErrorBound, FetchTime, Asks
<1>4. ASSUME UNCHANGED <<offset, slew, rtc>>, wasSet' = wasSet
      PROVE  ClockInv'
  BY <1>1, <1>2, <1>3, <1>4, Zenon DEF ClockInv, Within
<1>5. CASE Top
  <2>1. /\ timeNow' = now + offset /\ readAt' = now /\ now' = now
        /\ UNCHANGED <<offset, slew, rtc>> /\ pc' \in {"fetch", "receive"}
    BY <1>5 DEF Top, ReadClock, Clock
  <2>2. wasSet' = wasSet
    BY <1>5, Zenon DEF Top
  <2>3. Unstepped' /\ timeNow' = readAt' + offset'
    BY <2>1 DEF Unstepped, TypeOK
  <2> QED BY <1>4, <2>1, <2>2, <2>3 DEF ReadingInv
<1>6. CASE TcpAnswer
  BY <1>2, <1>6, TcpKeeps
<1>7. CASE SntpAnswer
  BY <1>2, <1>7, SntpKeeps
<1>8. CASE NoAnswer
  <2>1. /\ pc = "fetch" /\ pc' \in {"fetch", "broadcast"}
        /\ UNCHANGED <<offset, slew, rtc, now, timeNow, readAt>>
    BY <1>8 DEF NoAnswer
  <2>2. wasSet' = wasSet
    BY <1>8, Zenon DEF NoAnswer
  <2>3. Unstepped /\ (~wasSet => timeNow = readAt + offset)
    BY <1>2, <2>1 DEF ReadingInv
  <2>4. Unstepped' /\ (~wasSet' => timeNow' = readAt' + offset')
    BY <2>1, <2>2, <2>3, Zenon DEF Unstepped
  <2> QED BY <1>4, <2>1, <2>2, <2>4 DEF ReadingInv
<1>9. CASE Broadcast
  <2>1. /\ pc = "broadcast" /\ pc' = "receive"
        /\ UNCHANGED <<offset, slew, rtc, now, timeNow, readAt>>
    BY <1>9, Zenon DEF Broadcast
  <2>2. wasSet' = wasSet
    BY <1>9, Zenon DEF Broadcast
  <2>3. /\ Unstepped \/ SteppedTcp \/ SteppedSntp
        /\ ~wasSet => timeNow = readAt + offset
    BY <1>2, <2>1 DEF ReadingInv
  <2>4. Unstepped => Unstepped'
    BY <2>1, Zenon DEF Unstepped
  <2>5. SteppedTcp => SteppedTcp'
    BY <2>1 DEF SteppedTcp
  <2>6. SteppedSntp => SteppedSntp'
    BY <1>1, <1>3, <2>1, Zenon DEF SteppedSntp, FloatError
  <2>7. ~wasSet' => timeNow' = readAt' + offset'
    BY <2>1, <2>2, <2>3, Zenon
  <2> QED BY <1>4, <2>1, <2>2, <2>3, <2>4, <2>5, <2>6, <2>7 DEF ReadingInv
<1>10. CASE SntpReceive
  <2>1. pc' \in {"select", "exited"}
    BY <1>10 DEF SntpReceive, AfterReceive
  <2>2. CASE UNCHANGED <<clockVars, putBack, putAhead, wasSet>>
    BY <1>4, <2>1, <2>2 DEF ReadingInv
  <2>3. CASE args.bcastRecv /\ HandleReceivedTime(timeNow, Head(inbox).stamp)
    BY <1>2, <1>10, <2>1, <2>3, BroadcastKeeps DEF ReadingInv
  <2> QED BY <1>10, <2>2, <2>3, Zenon DEF SntpReceive
<1>11. CASE Tick
  BY <1>2, <1>11, TickKeeps
<1>12. CASE BindSntpPort \/ NoLine \/ NoSocket \/ NothingReceived
              \/ EnterSelect \/ SelectReadable \/ SelectTimeout
  <2>1. UNCHANGED <<offset, slew, rtc>> /\ wasSet' = wasSet
    BY <1>12, Zenon DEF BindSntpPort, NoLine, NoSocket, NothingReceived,
                        EnterSelect, SelectReadable, SelectTimeout
  <2>2. pc' \notin {"fetch", "broadcast", "receive"}
    BY <1>12 DEF BindSntpPort, NoLine, NoSocket, NothingReceived,
                 AfterReceive, EnterSelect, SelectReadable, SelectTimeout
  <2> QED BY <1>4, <2>1, <2>2 DEF ReadingInv
<1>13. CASE Arrive \/ UNCHANGED vars
  <2>1. UNCHANGED <<offset, slew, rtc, now, timeNow, readAt, pc, wasSet, args>>
    BY <1>13, Zenon DEF Arrive, vars
  <2>2. ClockInv'
    BY <1>4, <2>1
  <2>3. Unstepped' <=> Unstepped
    BY <2>1, Zenon DEF Unstepped
  <2>4. SteppedTcp' <=> SteppedTcp
    BY <2>1 DEF SteppedTcp
  <2>5. SteppedSntp' <=> SteppedSntp
    BY <1>3, <2>1, Zenon DEF SteppedSntp, FloatError
  <2> QED BY <1>2, <2>1, <2>2, <2>3, <2>4, <2>5, Zenon DEF ReadingInv
<1> QED BY <1>5, <1>6, <1>7, <1>8, <1>9, <1>10, <1>11, <1>12, <1>13, Zenon DEF Next

\* Whatever the program is told to do, and in whatever order servers answer, datagrams
\* wait and a slew runs, the clocks that it sets stay within ErrorBound of the true time
\* once they were set, as long as it does not believe its own broadcasts (main.c:208,
\* sntp.c:286 and 363, sysclock.c:3).
THEOREM ClockError == Spec => [](Trusted => ClockErrorBounded)
<1> DEFINE Inv == /\ TodoTcp /\ StampInv /\ AgesInv /\ StampsTrue /\ ErrorKept
<1>1. Init => Inv
  <2> SUFFICES ASSUME Init PROVE Inv
    OBVIOUS
  <2>1. /\ pc = "start" /\ slew = 0 /\ todo = <<>> /\ inbox = <<>> /\ out = <<>>
        /\ ready = FALSE /\ wasSet = FALSE
    BY Zenon DEF Init
  <2>2. TodoTcp
    BY <2>1 DEF TodoTcp
  <2>3. StampInv
    BY <2>1 DEF StampInv, QueueInv, FetchTimed, ArrivalsInv, OutFresh
  <2>4. AgesInv /\ StampsTrue
    BY <2>1, NetworkAssumption DEF AgesInv, StampsTrue
  <2>5. ErrorKept
    BY <2>1 DEF ErrorKept, ReadingInv, ClockInv
  <2> QED BY <2>2, <2>3, <2>4, <2>5
<1>2. TypeOK /\ Inv /\ [Next]_vars => Inv'
  <2> SUFFICES ASSUME TypeOK, Inv, [Next]_vars PROVE Inv'
    OBVIOUS
  <2>1. TodoTcp'
    BY TodoStep
  <2>2. StampInv'
    BY QueueStep, FetchStep, ArrivalsStep, OutFreshStep, Zenon DEF StampInv
  <2>3. AgesInv' /\ StampsTrue'
    BY AgesStep, StampsStep DEF StampInv
  <2>4. ErrorKept'
    BY ErrorStep, Zenon DEF StampInv
  <2> QED BY <2>1, <2>2, <2>3, <2>4, Zenon
<1>3. TypeOK /\ Inv => (Trusted => ClockErrorBounded)
  <2> SUFFICES ASSUME TypeOK, Inv, Trusted, wasSet
               PROVE  /\ args.setsys => Distance(offset, 0) < ErrorBound
                      /\ args.setrtc => Distance(rtc, 0) < ErrorBound
    BY Zenon DEF ClockErrorBounded
  <2>1. /\ args.setsys => Within(offset)
        /\ args.setrtc => Within(rtc)
    BY Zenon DEF ErrorKept, ClockInv
  <2>2. offset \in Int /\ rtc \in Int /\ ErrorBound \in Nat
    BY FetchTimeType, ErrorBoundParts DEF TypeOK
  <2>3. ASSUME NEW e \in Int, Within(e) PROVE Distance(e, 0) < ErrorBound
    BY <2>2, <2>3 DEF Within, Distance
  <2> QED BY <2>1, <2>2, <2>3
<1> HIDE DEF Inv
<1> QED BY <1>1, <1>2, <1>3, TypeCorrect, PTL DEF Spec
=============================================================================
