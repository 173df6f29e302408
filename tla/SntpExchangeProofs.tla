------------------------- MODULE SntpExchangeProofs -------------------------
(***************************************************************************)
(* What holds of one SNTP request for any number of addresses, attempts    *)
(* and datagrams, any waits and any float: it implements SntpFetch, and    *)
(* the time it reports is near the true one.                               *)
(***************************************************************************)
EXTENDS SntpExchange, SequenceTheorems, TLAPS

-----------------------------------------------------------------------------
(* The operators of Timeval, SysClock and Sntp.                            *)

LEMMA TimevalType ==
  ASSUME NEW t \in Int
  PROVE  Sec(t) \in Int /\ Usec(t) \in 0 .. TicksPerSec - 1
BY TicksAssumption DEF Sec, Usec

LEMMA FloatSecType ==
  ASSUME NEW s \in Int
  PROVE  FloatSec(s) \in Int
<1> DEFINE below == s \div FloatStep
<1>1. below \in Int
  BY FloatAssumption
<1>2. below * FloatStep \in Int /\ (below + 1) * FloatStep \in Int
  BY <1>1, FloatAssumption
<1> QED BY <1>2 DEF FloatSec

LEMMA FloatReadingType ==
  ASSUME NEW t \in Int
  PROVE  FloatReading(t) \in Int
BY TimevalType, FloatSecType, TicksAssumption DEF FloatReading

LEMMA SntpTimeType ==
  ASSUME NEW t1 \in Int, NEW t2 \in Int, NEW t3 \in Int, NEW t4 \in Int
  PROVE  SntpTime(t1, t2, t3, t4) \in Int
<1>1. Roundtrip(t1, t2, t3, t4) \in Int
  BY FloatReadingType DEF Roundtrip
<1> QED BY <1>1 DEF SntpTime

-----------------------------------------------------------------------------
(* The error of the float.                                                 *)

LEMMA ScaledBound ==
  ASSUME NEW d \in Int, NEW step \in Nat, NEW n \in Nat,
         2 * d <= step, -step <= 2 * d
  PROVE  /\ 2 * (d * n) <= step * n
         /\ -(step * n) <= 2 * (d * n)
<1>1. (step - 2 * d) * n >= 0 /\ (step + 2 * d) * n >= 0
  OBVIOUS
<1>2. /\ (step - 2 * d) * n = step * n - 2 * (d * n)
      /\ (step + 2 * d) * n = step * n + 2 * (d * n)
      /\ step * n \in Int /\ d * n \in Int
  OBVIOUS
<1> QED BY <1>1, <1>2

LEMMA FloatSecError ==
  ASSUME NEW s \in Int
  PROVE  /\ 2 * (FloatSec(s) - s) <= FloatStep
         /\ -FloatStep <= 2 * (FloatSec(s) - s)
<1> DEFINE below == s \div FloatStep
           rest  == s % FloatStep
           base  == below * FloatStep
<1>1. /\ below \in Int
      /\ rest \in 0 .. FloatStep - 1
      /\ s = FloatStep * below + rest
  BY FloatAssumption
<1>2. /\ base \in Int
      /\ FloatStep * below = base
      /\ (below + 1) * FloatStep = base + FloatStep
  BY <1>1, FloatAssumption
<1>3. \/ FloatSec(s) = base /\ 2 * rest <= FloatStep
      \/ FloatSec(s) = base + FloatStep /\ 2 * rest >= FloatStep
  BY <1>1, <1>2, FloatAssumption DEF FloatSec
<1> HIDE DEF base, rest, below
<1> QED BY <1>1, <1>2, <1>3, FloatAssumption

\* A reading that went through the float is off by half a step of it.
LEMMA FloatReadingError ==
  ASSUME NEW t \in Int
  PROVE  /\ 2 * (FloatReading(t) - t) <= FloatStep * TicksPerSec
         /\ -(FloatStep * TicksPerSec) <= 2 * (FloatReading(t) - t)
<1> DEFINE d == FloatSec(Sec(t)) - Sec(t)
<1>1. /\ t = TicksPerSec * Sec(t) + Usec(t)
      /\ Sec(t) \in Int /\ Usec(t) \in Int
      /\ FloatSec(Sec(t)) \in Int
  BY TicksAssumption, TimevalType, FloatSecType DEF Sec, Usec
<1>2. FloatReading(t) - t = d * TicksPerSec
  <2>1. /\ FloatReading(t) = FloatSec(Sec(t)) * TicksPerSec + Usec(t)
        /\ FloatSec(Sec(t)) * TicksPerSec \in Int
        /\ TicksPerSec * Sec(t) \in Int
        /\ d * TicksPerSec
             = FloatSec(Sec(t)) * TicksPerSec - TicksPerSec * Sec(t)
    BY <1>1, TicksAssumption DEF FloatReading
  <2> QED BY <1>1, <2>1
<1>3. d \in Int /\ 2 * d <= FloatStep /\ -FloatStep <= 2 * d
  BY <1>1, FloatSecError
<1> HIDE DEF d
<1> QED BY <1>2, <1>3, ScaledBound, FloatAssumption, TicksAssumption

-----------------------------------------------------------------------------
(* The machine's clock and the replies.                                   *)

LEMMA SlewedOffType ==
  ASSUME NEW o \in Int, NEW s \in Int, NEW clock \in SlewedOff(o, s)
  PROVE  clock.offset \in Int /\ clock.slew \in Int
BY DEF SlewedOff, Sign

\* The types that Tick changes, apart from the others.
LEMMA TickType ==
  ASSUME TypeOK, Tick
  PROVE  now' \in Nat /\ offset' \in Int /\ slew' \in Int
<1>1. now \in Nat /\ offset \in Int /\ slew \in Int
  BY DEF TypeOK
<1>2. PICK clock \in SlewedOff(offset, slew) :
        offset' = clock.offset /\ slew' = clock.slew
  BY Zenon DEF Tick
<1>3. now' = now + 1
  BY DEF Tick
<1> QED BY <1>1, <1>2, <1>3, SlewedOffType

LEMMA InitType == Init => TypeOK
<1> SUFFICES ASSUME Init PROVE TypeOK
  OBVIOUS
<1>1. now \in Nat /\ offset \in Int /\ slew \in Int
  BY ExchangeAssumption, AdjAssumption DEF Init
<1>2. timeNow \in Int
  BY <1>1, ExchangeAssumption DEF Init, Clock
<1>3. queue \in Seq(Packet)
  BY DEF Init
<1> QED BY <1>1, <1>2, <1>3, ExchangeAssumption DEF Init, TypeOK, Never

LEMMA TypeStep == TypeOK /\ [Next]_vars => TypeOK'
<1> SUFFICES ASSUME TypeOK, [Next]_vars PROVE TypeOK'
  OBVIOUS
<1> USE DEF clockVars
<1>0. Attempts \in Nat
  BY ExchangeAssumption
<1>1. CASE Bind
  BY <1>1 DEF Bind, TypeOK
<1>2. CASE Send
  <2>1. PICK h \in Hosts :
          askedAt' = [askedAt EXCEPT ![h] = IF @ = Never THEN now ELSE @]
    BY <1>2 DEF Send
  <2>2. askedAt' \in [Hosts -> Nat \cup {Never}]
    BY <2>1 DEF TypeOK
  <2>3. attempt' \in 0 .. Attempts
    BY <1>0, <1>2 DEF Send, More, TypeOK
  <2> QED BY <1>2, <2>2, <2>3 DEF Send, TypeOK
<1>3. CASE NoAddress
  <2>1. attempt' \in 0 .. Attempts
    BY <1>0, <1>3 DEF NoAddress, More, TypeOK
  <2> QED BY <1>3, <2>1 DEF NoAddress, TypeOK
<1>4. CASE ReadReply
  <2>1. Head(queue) \in Packet /\ Tail(queue) \in Seq(Packet)
    BY <1>4, HeadTailProperties DEF ReadReply, TypeOK
  <2>2. CASE Wanted(Head(queue))
    <3>1. /\ timeNow' = Clock
          /\ time' = SntpTime(timeNow, Head(queue).t2, Head(queue).t3, timeNow')
          /\ pc' = "answered"
      BY <1>4, <2>2, Zenon DEF ReadReply
    <3>2. timeNow' \in Int
      BY <3>1 DEF TypeOK, Clock
    <3>3. time' \in Int
      <4>1. /\ timeNow \in Int
            /\ Head(queue).t2 \in Int /\ Head(queue).t3 \in Int
        BY <2>1 DEF TypeOK, Packet
      <4> QED BY <3>1, <3>2, <4>1, SntpTimeType, Zenon
    <3> QED BY <1>4, <2>1, <3>1, <3>2, <3>3 DEF ReadReply, TypeOK
  <2>3. CASE ~Wanted(Head(queue))
    <3>1. pc' = "send" /\ UNCHANGED <<timeNow, time>>
      BY <1>4, <2>3, Zenon DEF ReadReply
    <3> QED BY <1>4, <2>1, <3>1 DEF ReadReply, TypeOK
  <2> QED BY <2>2, <2>3
<1>5. CASE TimeOut
  BY <1>5 DEF TimeOut, TypeOK
<1>6. CASE GiveUp
  BY <1>6 DEF GiveUp, TypeOK
<1>7. CASE Deliver
  <2>1. queue' \in Seq(Packet)
    <3>1. CASE queue' = Append(queue, Stray)
      BY <3>1 DEF TypeOK, Packet, Stray
    <3>2. ASSUME NEW h \in Asked, NEW t3 \in askedAt[h] .. now,
                 NEW t2 \in askedAt[h] .. t3,
                 queue' = Append(queue, [from |-> h, t2 |-> t2, t3 |-> t3])
          PROVE  queue' \in Seq(Packet)
      <4>1. h \in Hosts /\ askedAt[h] \in Nat
        BY DEF Asked, TypeOK
      <4>2. [from |-> h, t2 |-> t2, t3 |-> t3] \in Packet
        BY <4>1 DEF Packet
      <4> QED BY <3>2, <4>2 DEF TypeOK
    <3> QED BY <1>7, <3>1, <3>2 DEF Deliver
  <2> QED BY <1>7, <2>1 DEF Deliver, TypeOK
<1>8. CASE Tick
  BY <1>8, TickType DEF Tick, TypeOK
<1>9. CASE UNCHANGED vars
  BY <1>9 DEF vars, TypeOK
<1> QED
  BY <1>1, <1>2, <1>3, <1>4, <1>5, <1>6, <1>7, <1>8, <1>9, Zenon
  DEF Next, Program

\* Every variable of the call keeps its type (sntp.c:249).
THEOREM TypeCorrect == Spec => []TypeOK
BY InitType, TypeStep, PTL DEF Spec

-----------------------------------------------------------------------------
(* What the call knows while it is on its way.  Replies are from the call, *)
(* because nobody was asked before it, and every attempt takes one lookup  *)
(* and one wait at most.                                                   *)

Stage == Lookup + Wait

\* Datagrams that say nothing, or whose times are from first to last.
Packets(first, last) ==
  { p \in Packet :
      p.from # Nobody => first <= p.t2 /\ p.t2 <= p.t3 /\ p.t3 <= last }

\* Whoever is asked is asked during the call, and answers during it.
AskedInCall ==
  /\ pc = "wait" => host \in Hosts
  /\ \A h \in Asked : since <= askedAt[h]
  /\ queue \in Seq(Packets(since, now))

\* The attempts so far and the present one.
CallTimed ==
  /\ since <= now /\ stageAt <= now
  /\ pc = "bind" => now = since /\ stageAt = now /\ attempt = 0
  /\ pc = "send" => /\ stageAt - since <= attempt * Stage
                    /\ now - stageAt <= Lookup
  /\ pc = "wait" => /\ attempt >= 1
                    /\ stageAt - since <= (attempt - 1) * Stage + Lookup
                    /\ now - stageAt <= Wait

CallInv == AskedInCall /\ CallTimed

LEMMA StageProducts ==
  ASSUME NEW n \in Nat
  PROVE  /\ Stage \in Nat /\ n * Stage \in Nat
         /\ (n + 1) * Stage = n * Stage + Stage
         /\ (n - 1) * Stage = n * Stage - Stage
         /\ \A m \in Nat : m <= n => m * Stage <= n * Stage
<1>1. Stage \in Nat
  BY ExchangeAssumption DEF Stage
<1>2. ASSUME NEW m \in Nat, m <= n
      PROVE  m * Stage <= n * Stage
  <2>1. (n - m) * Stage >= 0 /\ (n - m) * Stage = n * Stage - m * Stage
    BY <1>1, <1>2
  <2> QED BY <1>1, <2>1
<1> QED BY <1>1, <1>2

LEMMA LaterPackets ==
  ASSUME NEW first \in Int, NEW last \in Int
  PROVE  Packets(first, last) \subseteq Packets(first, last + 1)
BY DEF Packets, Packet

LEMMA InitCall == Init => CallInv
<1> SUFFICES ASSUME Init PROVE CallInv
  OBVIOUS
<1>1. AskedInCall
  BY DEF Init, AskedInCall, Asked
<1>2. CallTimed
  BY ExchangeAssumption DEF Init, CallTimed
<1> QED BY <1>1, <1>2 DEF CallInv

LEMMA AskedStep == TypeOK /\ CallInv /\ [Next]_vars => AskedInCall'
<1> SUFFICES ASSUME TypeOK, CallInv, [Next]_vars PROVE AskedInCall'
  OBVIOUS
<1> USE DEF clockVars
<1>0. /\ now \in Nat /\ since \in Nat /\ since <= now
      /\ askedAt \in [Hosts -> Nat \cup {Never}]
      /\ pc = "wait" => host \in Hosts
      /\ \A h \in Asked : since <= askedAt[h]
      /\ queue \in Seq(Packets(since, now))
  BY DEF CallInv, AskedInCall, CallTimed, TypeOK
<1>1. CASE Bind
  BY <1>0, <1>1 DEF Bind, AskedInCall, Asked
<1>2. CASE Send
  <2>1. PICK g \in Hosts :
          /\ host' = g
          /\ askedAt' = [askedAt EXCEPT ![g] = IF @ = Never THEN now ELSE @]
    BY <1>2 DEF Send
  <2>2. ASSUME NEW h \in Asked'
        PROVE  since' <= askedAt'[h]
    BY <1>0, <1>2, <2>1, <2>2 DEF Send, Asked
  <2>3. since' = since /\ now' = now /\ queue' = queue
    BY <1>2 DEF Send
  <2> QED BY <1>0, <2>1, <2>2, <2>3 DEF AskedInCall
<1>3. CASE NoAddress
  BY <1>0, <1>3 DEF NoAddress, AskedInCall, Asked
<1>4. CASE ReadReply
  <2>1. Tail(queue) \in Seq(Packets(since, now))
    BY <1>0, <1>4, HeadTailProperties DEF ReadReply
  <2>2. /\ pc' # "wait" /\ queue' = Tail(queue)
        /\ since' = since /\ now' = now /\ askedAt' = askedAt
    BY <1>4 DEF ReadReply
  <2> QED BY <1>0, <2>1, <2>2 DEF AskedInCall, Asked
<1>5. CASE TimeOut
  BY <1>0, <1>5 DEF TimeOut, AskedInCall, Asked
<1>6. CASE GiveUp
  BY <1>0, <1>6 DEF GiveUp, AskedInCall, Asked
<1>7. CASE Deliver
  <2>1. queue' \in Seq(Packets(since, now))
    <3>1. CASE queue' = Append(queue, Stray)
      <4>1. Stray \in Packets(since, now)
        BY DEF Packets, Packet, Stray
      <4> QED BY <1>0, <3>1, <4>1
    <3>2. ASSUME NEW h \in Asked, NEW t3 \in askedAt[h] .. now,
                 NEW t2 \in askedAt[h] .. t3,
                 queue' = Append(queue, [from |-> h, t2 |-> t2, t3 |-> t3])
          PROVE  queue' \in Seq(Packets(since, now))
      <4>1. h \in Hosts /\ askedAt[h] \in Nat /\ since <= askedAt[h]
        BY <1>0 DEF Asked
      <4>2. [from |-> h, t2 |-> t2, t3 |-> t3] \in Packets(since, now)
        BY <1>0, <4>1 DEF Packets, Packet
      <4> QED BY <1>0, <3>2, <4>2
    <3> QED BY <1>7, <3>1, <3>2 DEF Deliver
  <2> QED BY <1>0, <1>7, <2>1 DEF Deliver, AskedInCall, Asked
<1>8. CASE Tick
  <2>1. queue \in Seq(Packets(since, now + 1))
    BY <1>0, LaterPackets, SeqMonotonic
  <2> QED BY <1>0, <1>8, <2>1 DEF Tick, AskedInCall, Asked
<1>9. CASE UNCHANGED vars
  BY <1>0, <1>9 DEF vars, AskedInCall, Asked
<1> QED
  BY <1>1, <1>2, <1>3, <1>4, <1>5, <1>6, <1>7, <1>8, <1>9, Zenon
  DEF Next, Program

LEMMA TimedStep == TypeOK /\ CallInv /\ [Next]_vars => CallTimed'
<1> SUFFICES ASSUME TypeOK, CallInv, [Next]_vars PROVE CallTimed'
  OBVIOUS
<1> USE DEF clockVars
<1>0. /\ now \in Nat /\ since \in Nat /\ stageAt \in Nat /\ attempt \in Nat
      /\ CallTimed
      /\ Lookup \in Nat /\ Wait \in Nat
  BY ExchangeAssumption DEF CallInv, TypeOK
<1> DEFINE sofar == attempt * Stage
<1>a. /\ Stage = Lookup + Wait /\ sofar \in Nat
      /\ (attempt + 1) * Stage = sofar + Stage
      /\ (attempt - 1) * Stage = sofar - Stage
  BY <1>0, StageProducts DEF Stage
<1>b. 0 * Stage = 0
  BY StageProducts
<1>1. CASE Bind
  <2>1. /\ pc' \in {"send", "fatal"}
        /\ now' = now /\ since' = since /\ stageAt' = stageAt
        /\ attempt' = attempt
        /\ now = since /\ stageAt = now /\ attempt = 0
    BY <1>0, <1>1 DEF Bind, CallTimed
  <2> QED BY <1>0, <1>b, <2>1 DEF CallTimed
<1>2. CASE Send
  <2>1. /\ pc = "send" /\ pc' = "wait"
        /\ now' = now /\ since' = since /\ stageAt' = now
        /\ attempt' = attempt + 1
    BY <1>2 DEF Send
  <2>2. now - since <= sofar + Lookup
    BY <1>0, <1>a, <2>1 DEF CallTimed
  <2>3. (attempt' - 1) * Stage = sofar
    BY <1>0, <2>1
  <2> QED BY <1>0, <1>a, <2>1, <2>2, <2>3 DEF CallTimed
<1>3. CASE NoAddress
  <2>1. /\ pc = "send" /\ pc' = "send"
        /\ now' = now /\ since' = since /\ stageAt' = now
        /\ attempt' = attempt + 1
    BY <1>3 DEF NoAddress
  <2>2. now - since <= sofar + Stage
    BY <1>0, <1>a, <2>1 DEF CallTimed
  <2>3. attempt' * Stage = sofar + Stage
    BY <1>a, <2>1
  <2> QED BY <1>0, <1>a, <2>1, <2>2, <2>3 DEF CallTimed
<1>4. CASE ReadReply \/ TimeOut
  <2>1. /\ pc = "wait" /\ pc' \in {"send", "answered"}
        /\ now' = now /\ since' = since /\ stageAt' = now
        /\ attempt' = attempt
    BY <1>4 DEF ReadReply, TimeOut
  <2>2. now - since <= sofar
    BY <1>0, <1>a, <2>1 DEF CallTimed
  <2> QED BY <1>0, <1>a, <2>1, <2>2 DEF CallTimed
<1>5. CASE GiveUp
  BY <1>0, <1>5 DEF GiveUp, CallTimed
<1>6. CASE Deliver
  BY <1>0, <1>6 DEF Deliver, CallTimed
<1>7. CASE Tick
  <2>1. /\ now' = now + 1 /\ since' = since /\ stageAt' = stageAt
        /\ attempt' = attempt /\ pc' = pc
        /\ \/ pc = "send" /\ now - stageAt < Lookup
           \/ pc = "wait" /\ now - stageAt < Wait
    BY <1>7 DEF Tick
  <2> QED BY <1>0, <1>a, <2>1 DEF CallTimed
<1>8. CASE UNCHANGED vars
  BY <1>0, <1>8 DEF vars, CallTimed
<1> QED
  BY <1>1, <1>2, <1>3, <1>4, <1>5, <1>6, <1>7, <1>8, Zenon DEF Next, Program

LEMMA CallInvariant == Spec => [](TypeOK /\ CallInv)
<1>1. TypeOK /\ CallInv /\ [Next]_vars => CallInv'
  BY AskedStep, TimedStep DEF CallInv
<1> QED BY InitType, InitCall, TypeStep, <1>1, PTL DEF Spec
-----------------------------------------------------------------------------
(* The call is what main() counts on.                                      *)

\* Time that passes in a lookup or a wait is within the limit of the call.
LEMMA TickWithinLimit ==
  ASSUME TypeOK, CallInv, Tick
  PROVE  now - since < Attempts * Stage
<1>0. /\ now \in Nat /\ since \in Nat /\ stageAt \in Nat
      /\ attempt \in 0 .. Attempts
      /\ CallTimed
      /\ Lookup \in Nat /\ Wait \in Nat /\ Attempts \in Nat
  BY ExchangeAssumption DEF CallInv, TypeOK
<1> DEFINE sofar == attempt * Stage
           limit == Attempts * Stage
<1>1. /\ Stage = Lookup + Wait /\ sofar \in Nat /\ limit \in Nat
      /\ (attempt - 1) * Stage = sofar - Stage
      /\ sofar <= limit
  BY <1>0, StageProducts DEF Stage
<1>2. CASE pc = "send" /\ More /\ now - stageAt < Lookup
  <2>1. sofar + Stage <= limit
    BY <1>0, <1>2, StageProducts DEF More
  <2> HIDE DEF sofar, limit
  <2>2. stageAt - since <= sofar
    BY <1>0, <1>2 DEF CallTimed, sofar
  <2> QED BY <1>0, <1>1, <1>2, <2>1, <2>2 DEF limit
<1>3. CASE pc = "wait" /\ now - stageAt < Wait
  <2>1. stageAt - since <= sofar - Stage + Lookup
    BY <1>0, <1>1, <1>3 DEF CallTimed
  <2> QED BY <1>0, <1>1, <1>3, <2>1
<1> QED BY <1>2, <1>3, Zenon DEF Tick

\* The reply that is wanted was made during the call.
LEMMA WantedReply ==
  ASSUME TypeOK, CallInv, pc = "wait", queue # <<>>, Wanted(Head(queue)),
         NEW t4 \in Int
  PROVE  SntpTime(timeNow, Head(queue).t2, Head(queue).t3, t4)
           \in SntpTimes(timeNow, since, now, t4)
<1> DEFINE packet == Head(queue)
<1>1. packet \in Packets(since, now)
  BY HeadTailProperties DEF CallInv, AskedInCall
<1>2. packet.from # Nobody
  BY ExchangeAssumption DEF CallInv, AskedInCall, Wanted, Nobody
<1>3. since \in Nat /\ now \in Nat /\ packet.t2 \in Nat /\ packet.t3 \in Nat
  BY <1>1 DEF TypeOK, Packets, Packet
<1>4. packet.t3 \in since .. now /\ packet.t2 \in since .. packet.t3
  BY <1>1, <1>2, <1>3 DEF Packets
<1>5. SntpTime(timeNow, packet.t2, packet.t3, t4)
        \in { SntpTime(timeNow, t2, packet.t3, t4) : t2 \in since .. packet.t3 }
  BY <1>4, Zenon
<1>6. { SntpTime(timeNow, t2, packet.t3, t4) : t2 \in since .. packet.t3 }
        \in { { SntpTime(timeNow, t2, t3, t4) : t2 \in since .. t3 }
              : t3 \in since .. now }
  BY <1>4
<1> QED BY <1>5, <1>6 DEF SntpTimes

\* SntpFetch has the operators of SysClock and Sntp by the same names.
LEMMA SameSlewing ==
  ASSUME NEW o, NEW s
  PROVE  Fetch!SlewedOff(o, s) = SlewedOff(o, s)
BY Zenon DEF Fetch!SlewedOff, SlewedOff, Fetch!Sign, Sign

LEMMA SameTimes ==
  ASSUME NEW t1, NEW first, NEW last, NEW t4
  PROVE  Fetch!SntpTimes(t1, first, last, t4) = SntpTimes(t1, first, last, t4)
<1>1. Fetch!FloatReading(t4) = FloatReading(t4)
  BY Zenon DEF Fetch!FloatReading, FloatReading, Fetch!FloatSec, FloatSec,
               Fetch!Sec, Sec, Fetch!Usec, Usec
<1>2. \A t2, t3 : Fetch!SntpTime(t1, t2, t3, t4) = SntpTime(t1, t2, t3, t4)
  BY <1>1, Zenon DEF Fetch!SntpTime, SntpTime, Fetch!Roundtrip, Roundtrip
<1> QED BY <1>2 DEF Fetch!SntpTimes, SntpTimes

\* A call takes Attempts lookups and waits at most and reports a time that was
\* worked out from readings made during it (sntp.c:203-307).
THEOREM ImplementsFetch == Spec => FetchSpec
<1> USE DEF clockVars
<1>1. Init => Fetch!Init
  <2> SUFFICES ASSUME Init PROVE Fetch!Init
    OBVIOUS
  <2>1. PICK age \in 0 .. MaxAge : timeNow = Clock - age
    BY Zenon DEF Init
  <2>2. now \in Int /\ offset \in Int
    BY ExchangeAssumption DEF Init
  <2>3. timeNow = now + offset - age
    BY <2>1, <2>2, ExchangeAssumption DEF Clock
  <2> QED BY <2>3 DEF Init, Fetch!Init
<1>2. TypeOK /\ CallInv /\ [Next]_vars => [Fetch!Next]_(Fetch!vars)
  <2> SUFFICES ASSUME TypeOK, CallInv, [Next]_vars
               PROVE  [Fetch!Next]_(Fetch!vars)
    OBVIOUS
  <2>1. CASE Bind
    <3>1. now = since
      BY <2>1 DEF Bind, CallInv, CallTimed
    <3> QED BY <2>1, <3>1 DEF Bind, Fetch!Next, Fetch!Fail, Fetch!vars
  <2>2. CASE Send
    BY <2>2 DEF Send, Fetch!vars
  <2>3. CASE NoAddress
    BY <2>3 DEF NoAddress, Fetch!vars
  <2>4. CASE ReadReply
    <3>1. CASE Wanted(Head(queue))
      <4>1. /\ pc = "wait" /\ queue # <<>> /\ pc' = "answered"
            /\ timeNow' = now + offset
            /\ time' = SntpTime(timeNow, Head(queue).t2, Head(queue).t3, timeNow')
            /\ UNCHANGED <<now, offset, slew, since>>
        BY <2>4, <3>1 DEF ReadReply, Clock
      <4>2. timeNow' \in Int
        BY <4>1 DEF TypeOK
      <4>3. time' \in SntpTimes(timeNow, since, now, timeNow')
        BY <3>1, <4>1, <4>2, WantedReply
      <4>4. time' \in Fetch!SntpTimes(timeNow, since, now, timeNow')
        BY <4>3, SameTimes, Zenon
      <4> QED BY <4>1, <4>4 DEF Fetch!Next, Fetch!Answer
    <3>2. CASE ~Wanted(Head(queue))
      BY <2>4, <3>2 DEF ReadReply, Fetch!vars
    <3> QED BY <3>1, <3>2
  <2>5. CASE TimeOut
    BY <2>5 DEF TimeOut, Fetch!vars
  <2>6. CASE GiveUp
    BY <2>6 DEF GiveUp, Fetch!Next, Fetch!Fail
  <2>7. CASE Deliver
    BY <2>7 DEF Deliver, Fetch!vars
  <2>8. CASE Tick
    <3>1. now - since < Attempts * (Lookup + Wait)
      BY <2>8, TickWithinLimit DEF Stage
    <3>2. pc \in {"send", "wait"} /\ pc' = pc
      BY <2>8 DEF Tick
    <3>3. \E clock \in Fetch!SlewedOff(offset, slew) :
            offset' = clock.offset /\ slew' = clock.slew
      BY <2>8, SameSlewing, Zenon DEF Tick
    <3> QED BY <2>8, <3>1, <3>2, <3>3 DEF Tick, Fetch!Next, Fetch!Tick
  <2>9. CASE UNCHANGED vars
    BY <2>9 DEF vars, Fetch!vars
  <2> QED
    BY <2>1, <2>2, <2>3, <2>4, <2>5, <2>6, <2>7, <2>8, <2>9, Zenon
    DEF Next, Program
<1> QED BY <1>1, <1>2, CallInvariant, PTL DEF Spec, FetchSpec, Fetch!Spec

-----------------------------------------------------------------------------
(* The error of the time.                                                  *)

\* Of a slew of AdjLimit at most, so much is done and so much is left.
SlewShare(done, left) ==
  \/ done >= 0 /\ left >= 0 /\ done + left <= AdjLimit
  \/ done <= 0 /\ left <= 0 /\ -AdjLimit <= done + left

\* What the clock has gained since TimeNow was read, age ticks before the call.
Gained(age) == (since + offset) - (timeNow + age)

Asking == pc \in {"bind", "send", "wait"}

SlewInv == Asking => \E age \in 0 .. MaxAge : SlewShare(Gained(age), slew)

LEMMA ShareSlewed ==
  ASSUME NEW o \in Int, NEW s \in Int, NEW base \in Int,
         SlewShare(o - base, s), NEW clock \in SlewedOff(o, s)
  PROVE  SlewShare(clock.offset - base, clock.slew)
<1>1. CASE clock.offset = o /\ clock.slew = s
  BY <1>1
<1>2. CASE clock.offset = o + Sign(s) /\ clock.slew = s - Sign(s)
  BY <1>2, AdjAssumption DEF SlewShare, Sign
<1> QED BY <1>1, <1>2 DEF SlewedOff

LEMMA InitSlew == Init => SlewInv
<1> SUFFICES ASSUME Init PROVE SlewInv
  OBVIOUS
<1>1. PICK age \in 0 .. MaxAge : timeNow = Clock - age
  BY Zenon DEF Init
<1>2. /\ now \in Int /\ offset \in Int /\ since = now
      /\ slew \in -AdjLimit .. AdjLimit
  BY ExchangeAssumption DEF Init
<1>3. Gained(age) = 0
  BY <1>1, <1>2, ExchangeAssumption DEF Gained, Clock
<1>4. SlewShare(Gained(age), slew)
  BY <1>2, <1>3, AdjAssumption DEF SlewShare
<1> QED BY <1>4, Zenon DEF SlewInv

LEMMA SlewStep == TypeOK /\ SlewInv /\ [Next]_vars => SlewInv'
<1> SUFFICES ASSUME TypeOK, SlewInv, [Next]_vars, Asking' PROVE SlewInv'
  BY Zenon DEF SlewInv
<1> USE DEF clockVars
<1>1. CASE Tick
  <2>1. /\ pc' = pc /\ since' = since /\ timeNow' = timeNow
    BY <1>1 DEF Tick
  <2>2. PICK age \in 0 .. MaxAge : SlewShare(Gained(age), slew)
    BY <2>1, Zenon DEF SlewInv, Asking
  <2>3. PICK clock \in SlewedOff(offset, slew) :
          offset' = clock.offset /\ slew' = clock.slew
    BY <1>1, Zenon DEF Tick
  <2> DEFINE base == (timeNow + age) - since
  <2>4. /\ since \in Int /\ timeNow \in Int /\ offset \in Int /\ slew \in Int
        /\ age \in Int /\ base \in Int
        /\ clock.offset \in Int /\ clock.slew \in Int
    BY ExchangeAssumption, SlewedOffType DEF TypeOK
  <2>5. Gained(age) = offset - base /\ Gained(age)' = clock.offset - base
    BY <2>1, <2>3, <2>4 DEF Gained
  <2>6. SlewShare(clock.offset - base, clock.slew)
    BY <2>2, <2>4, <2>5, ShareSlewed, Zenon
  <2>7. SlewShare(Gained(age)', slew')
    BY <2>3, <2>5, <2>6, Zenon
  <2> QED BY <2>7, Zenon DEF SlewInv, Gained, SlewShare
<1>2. CASE ~Tick
  <2>1. /\ offset' = offset /\ slew' = slew /\ since' = since
        /\ timeNow' = timeNow /\ Asking
    BY <1>2 DEF Next, Program, Bind, Send, NoAddress, ReadReply, TimeOut,
                GiveUp, Deliver, Asking, vars
  <2> QED BY <2>1, Zenon DEF SlewInv, Gained, SlewShare
<1> QED BY <1>1, <1>2

\* The time worked out at last from a reply made between first and last, when
\* the clock has gained so much since its reading t1, age ticks before first.
LEMMA ReplyError ==
  ASSUME NEW first \in Int, NEW last \in Int, NEW age \in 0 .. MaxAge,
         NEW t1 \in Int, NEW t4 \in Int, NEW gained \in -AdjLimit .. AdjLimit,
         NEW t2 \in Int, NEW t3 \in Int,
         first <= t2, t2 <= t3, t3 <= last,
         (t4 - t1) - (last - first) = gained + age
  PROVE  2 * Distance(SntpTime(t1, t2, t3, t4), last)
           <= (last - first) + MaxAge + AdjLimit
                + (FloatStep * TicksPerSec) \div 2 + 1
<1> DEFINE step  == FloatStep * TicksPerSec
           half  == step \div 2
           f     == FloatReading(t4) - t4
           trip  == Roundtrip(t1, t2, t3, t4)
           twice == trip \div 2
<1>1. step \in Nat /\ half \in Nat /\ step <= 2 * half + 1
  <2>1. step \in Nat
    BY FloatAssumption, TicksAssumption
  <2> HIDE DEF step
  <2> QED BY <2>1
<1>2. f \in Int /\ 2 * f <= step /\ -step <= 2 * f
  BY FloatReadingType, FloatReadingError
<1>3. f <= half /\ -half <= f
  <2> HIDE DEF f, step, half
  <2> QED BY <1>1, <1>2
<1>4. trip = (f + t4 - t1) - (t3 - t2) /\ trip \in Int
  BY FloatReadingType DEF Roundtrip
<1>5. twice \in Int /\ 2 * twice <= trip /\ trip <= 2 * twice + 1
  <2> HIDE DEF trip
  <2> QED BY <1>4
<1>6. SntpTime(t1, t2, t3, t4) = t3 + twice
  BY DEF SntpTime
<1>7. AdjLimit \in Nat /\ MaxAge \in Nat
  BY AdjAssumption, ExchangeAssumption
<1> HIDE DEF step, half, f, trip, twice
<1>8. 2 * Distance(t3 + twice, last)
        <= (last - first) + MaxAge + AdjLimit + half + 1
  BY <1>1, <1>2, <1>3, <1>4, <1>5, <1>7 DEF Distance
<1> QED BY <1>6, <1>8 DEF step, half

LEMMA TimeStep ==
  TypeOK /\ CallInv /\ SlewInv /\ TimeWithinCall /\ [Next]_vars
    => TimeWithinCall'
<1> SUFFICES ASSUME TypeOK, CallInv, SlewInv, TimeWithinCall, [Next]_vars,
                    pc' = "answered"
             PROVE  TimeWithinCall'
  BY Zenon DEF TimeWithinCall
<1> USE DEF clockVars
<1>1. CASE UNCHANGED vars
  BY <1>1 DEF vars, TimeWithinCall
<1>2. CASE ReadReply
  <2> DEFINE packet == Head(queue)
  <2>1. /\ pc = "wait" /\ queue # <<>> /\ Wanted(packet)
        /\ timeNow' = Clock /\ now' = now /\ since' = since
        /\ time' = SntpTime(timeNow, packet.t2, packet.t3, timeNow')
    BY <1>2 DEF ReadReply
  <2>2. packet \in Packets(since, now) /\ packet.from # Nobody
    BY <2>1, HeadTailProperties, ExchangeAssumption
    DEF CallInv, AskedInCall, Wanted, Nobody
  <2>3. PICK age \in 0 .. MaxAge : SlewShare(Gained(age), slew)
    BY <2>1 DEF SlewInv, Asking
  <2>4. /\ since \in Int /\ now \in Int /\ timeNow \in Int /\ offset \in Int
        /\ slew \in Int /\ age \in Int /\ Gained(age) \in Int /\ Clock \in Int
    BY ExchangeAssumption DEF TypeOK, Gained, Clock
  <2>5. Gained(age) \in -AdjLimit .. AdjLimit
    BY <2>3, <2>4, AdjAssumption DEF SlewShare
  <2>6. (Clock - timeNow) - (now - since) = Gained(age) + age
    BY <2>4 DEF Gained, Clock
  <2>7. /\ packet.t2 \in Int /\ packet.t3 \in Int
        /\ since <= packet.t2 /\ packet.t2 <= packet.t3 /\ packet.t3 <= now
    BY <2>2 DEF Packets, Packet
  <2>8. 2 * Distance(SntpTime(timeNow, packet.t2, packet.t3, Clock), now)
          <= (now - since) + MaxAge + AdjLimit
               + (FloatStep * TicksPerSec) \div 2 + 1
    BY <2>4, <2>5, <2>6, <2>7, ReplyError
  <2> QED BY <2>1, <2>8, Zenon DEF TimeWithinCall
<1>3. CASE Next /\ ~ReadReply
  BY <1>3 DEF Next, Program, Bind, Send, NoAddress, TimeOut, GiveUp, Deliver,
              Tick
<1> QED BY <1>1, <1>2, <1>3

\* The time reported is wrong by half of the call, of the age of TimeNow, of
\* the slew that was going on and of half a step of the float (sntp.c:283-299).
THEOREM CallAccuracy == Spec => []TimeWithinCall
<1>1. Init => TimeWithinCall
  BY DEF Init, TimeWithinCall
<1> QED
  BY InitSlew, SlewStep, <1>1, TimeStep, CallInvariant, PTL DEF Spec
=============================================================================
