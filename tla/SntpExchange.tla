---------------------------- MODULE SntpExchange ----------------------------
(***************************************************************************)
(* SNTPGetTime and SNTPServerTransact (sntp.c): up to ten requests, each   *)
(* to one of the server's addresses, over a network that loses, delays,    *)
(* duplicates and reorders datagrams.  One instance is one call.  Every    *)
(* request carries the same TimeNow, read before the call, so that a reply *)
(* does not tell which of the requests to its sender it answers.           *)
(***************************************************************************)
EXTENDS SysClock, Sntp, Sequences

CONSTANTS
  Hosts,       \* addresses the server's name resolves to
  Attempts,    \* 10
  Lookup,      \* ticks LookupHostIPList may take
  Wait,        \* ticks of the 100 ms given to SNTPReadPacket
  StartTimes,  \* true times at which the call may begin
  InitErrors,  \* errors the system clock may have then
  InitSlews,   \* what adjtime() may have left to do then
  MaxAge,      \* ticks since TimeNow was read
  MaxQueue     \* bound: datagrams waiting on the socket

ASSUME ExchangeAssumption ==
  /\ "nobody" \notin Hosts
  /\ Attempts \in Nat
  /\ Lookup \in Nat
  /\ Wait \in Nat
  /\ StartTimes \subseteq Nat
  /\ InitErrors \subseteq Int
  /\ InitSlews \subseteq -AdjLimit .. AdjLimit
  /\ MaxAge \in Nat
  /\ MaxQueue \in Nat

VARIABLES
  pc,       \* "bind", "send", "wait", "answered", "failed" or "fatal"
  now,      \* true time
  offset,   \* system clock minus true time
  slew,     \* what adjtime() has still to add to the system clock
  timeNow,  \* TimeNow, the last reading of the system clock
  since,    \* true time at which the call began
  attempt,  \* i, the requests sent or given up so far
  host,     \* Curr->Item, the address asked last
  stageAt,  \* true time at which the lookup or the wait began
  askedAt,  \* for every address, the true time at which it was first asked
  queue,    \* datagrams waiting on the socket
  time      \* *Time, the time reported

clockVars == <<offset, slew>>
vars == <<pc, now, clockVars, timeNow, since, attempt, host, stageAt, askedAt,
          queue, time>>

Never == -1
Nobody == "nobody"

Clock == now + offset

Asked == { h \in Hosts : askedAt[h] # Never }

\* A datagram from an address that was never asked, or a short one: its
\* times are nothing to go by.
Stray == [from |-> Nobody, t2 |-> 0, t3 |-> 0]

-----------------------------------------------------------------------------
(* Variants of More, Late and Wanted with a slip in them, used by nothing: *)
(* the properties are tried with them in the place of the three.           *)

OnceMore == attempt <= Attempts
NeverLate == FALSE
AnyReply(packet) == TRUE

-----------------------------------------------------------------------------
\* The loop goes on: "i < 10".
More == attempt < Attempts

\* FDSelect gives up: "if it takes longer than 10 centisecs".
Late == now - stageAt >= Wait

\* The datagram is whole and comes from the address asked last.
Wanted(packet) == packet.from = host

Init ==
  /\ pc = "bind"
  /\ now \in StartTimes
  /\ offset \in InitErrors
  /\ slew \in InitSlews
  /\ \E age \in 0 .. MaxAge : timeNow = Clock - age
  /\ since = now
  /\ attempt = 0
  /\ host = Nobody
  /\ stageAt = now
  /\ askedAt = [h \in Hosts |-> Never]
  /\ queue = <<>>
  /\ time = 0

\* BindPort("udp::0"), or FATAL.
Bind ==
  /\ pc = "bind"
  /\ pc' \in {"send", "fatal"}
  /\ UNCHANGED <<now, clockVars, timeNow, since, attempt, host, stageAt, askedAt,
                 queue, time>>

\* SNTPServerTransact: the name is looked up anew and an address is taken at
\* random.
Send ==
  /\ pc = "send"
  /\ More
  /\ host' \in Hosts
  /\ stageAt' = now
  /\ askedAt' = [askedAt EXCEPT ![host'] = IF @ = Never THEN now ELSE @]
  /\ attempt' = attempt + 1
  /\ pc' = "wait"
  /\ UNCHANGED <<now, clockVars, timeNow, since, queue, time>>

\* The name does not resolve: the attempt is over at once.
NoAddress ==
  /\ pc = "send"
  /\ More
  /\ attempt' = attempt + 1
  /\ stageAt' = now
  /\ UNCHANGED <<pc, now, clockVars, timeNow, since, host, askedAt, queue, time>>

\* SNTPReadPacket and, with the reply that is wanted, the time.  Any other
\* datagram ends the attempt, however long there was still to wait.
ReadReply ==
  /\ pc = "wait"
  /\ queue # <<>>
  /\ LET packet == Head(queue)
     IN  IF Wanted(packet)
           THEN /\ pc' = "answered"
                /\ timeNow' = Clock
                /\ time' = SntpTime(timeNow, packet.t2, packet.t3, timeNow')
           ELSE /\ pc' = "send"
                /\ UNCHANGED <<timeNow, time>>
  /\ stageAt' = now
  /\ queue' = Tail(queue)
  /\ UNCHANGED <<now, clockVars, since, attempt, host, askedAt>>

TimeOut ==
  /\ pc = "wait"
  /\ queue = <<>>
  /\ Late
  /\ pc' = "send"
  /\ stageAt' = now
  /\ UNCHANGED <<now, clockVars, timeNow, since, attempt, host, askedAt, queue,
                 time>>

\* The loop is over without a packet.
GiveUp ==
  /\ pc = "send"
  /\ ~More
  /\ pc' = "failed"
  /\ UNCHANGED <<now, clockVars, timeNow, since, attempt, host, stageAt, askedAt,
                 queue, time>>

-----------------------------------------------------------------------------
(* The world.  An address that was asked may have received the request and *)
(* answered it at any moments since, and the answer comes at any time, any *)
(* number of times, or never.                                              *)

Deliver ==
  /\ pc \in {"send", "wait"}
  /\ Len(queue) < MaxQueue
  /\ \/ queue' = Append(queue, Stray)
     \/ \E h \in Asked : \E t3 \in askedAt[h] .. now : \E t2 \in askedAt[h] .. t3 :
          queue' = Append(queue, [from |-> h, t2 |-> t2, t3 |-> t3])
  /\ UNCHANGED <<pc, now, clockVars, timeNow, since, attempt, host, stageAt,
                 askedAt, time>>

Tick ==
  /\ \/ pc = "send" /\ More /\ now - stageAt < Lookup
     \/ pc = "wait" /\ queue = <<>> /\ now - stageAt < Wait
  /\ now' = now + 1
  /\ \E clock \in SlewedOff(offset, slew) :
       offset' = clock.offset /\ slew' = clock.slew
  /\ UNCHANGED <<pc, timeNow, since, attempt, host, stageAt, askedAt, queue, time>>

Program == Bind \/ Send \/ NoAddress \/ ReadReply \/ TimeOut \/ GiveUp

Next == Program \/ Deliver \/ Tick

Spec == Init /\ [][Next]_vars

\* The kernel lets the program run and ends its select; time goes on.
FairSpec == Spec /\ WF_vars(Program) /\ WF_vars(Tick)

-----------------------------------------------------------------------------
Packet == [from : Hosts \cup {Nobody}, t2 : Nat, t3 : Nat]

TypeOK ==
  /\ pc \in {"bind", "send", "wait", "answered", "failed", "fatal"}
  /\ now \in Nat /\ since \in Nat
  /\ offset \in Int /\ slew \in Int
  /\ timeNow \in Int /\ time \in Int
  /\ attempt \in 0 .. Attempts
  /\ host \in Hosts \cup {Nobody}
  /\ stageAt \in Nat
  /\ askedAt \in [Hosts -> Nat \cup {Never}]
  /\ queue \in Seq(Packet)

\* The call is what main() counts on: it takes no longer than ten
\* lookups and waits, and the reply it uses was made during the call
\* (sntp.c:203-307).
Fetch == INSTANCE SntpFetch
  WITH Limit <- Attempts * (Lookup + Wait),
       state <- IF pc \in {"bind", "send", "wait"} THEN "asking" ELSE pc

FetchSpec == Fetch!Spec

\* The call ends (sntp.c:274).
Returns == <>(pc \in {"answered", "failed", "fatal"})

\* The time reported is wrong by at most half of what passed since TimeNow was
\* read, of what adjtime() did meanwhile and of what the float does to the
\* seconds (sntp.c:283-299).
TimeWithinCall ==
  pc = "answered"
    => 2 * Distance(time, now)
         <= (now - since) + MaxAge + AdjLimit + (FloatStep * TicksPerSec) \div 2 + 1
=============================================================================
