------------------------------ MODULE Daytime ------------------------------
(***************************************************************************)
(* The main loop of daytime (main.c) with what it calls: the attempts to   *)
(* get a time (GoDayTime), what is done with one (HandleReceivedTime), the *)
(* SNTP broadcasts it sends, the SNTP requests and broadcasts it receives, *)
(* and the select it sleeps in.                                            *)
(*                                                                         *)
(* The true time, now, is in ticks; the program only ever sees the system  *)
(* clock, now + offset.  Time passes while a server is asked and while the *)
(* program sleeps in select; everything else it does takes no time.        *)
(***************************************************************************)
EXTENDS SysClock, Sntp, Sequences

CONSTANTS
  Commands,    \* parsed command lines (Args), see CommandsAssumption
  SleepTime,   \* Args->SleepTime, seconds
  StartTime,   \* the true time at which the program is started
  MaxTime,     \* bound: the true time at which the model stops
  InitErrors,  \* errors the system clock may have at the start
  MaxFetch,    \* ticks until an attempt to ask a server is given up
  FdLimit,     \* descriptors the process may open besides those it needs
  MaxInbox,    \* bound: datagrams waiting on the SNTP socket
  Datagrams,   \* kinds of datagram others send: "request", "bcast", "other"
  Loopback     \* whether broadcasts we send reach our own socket

\* What the rest of the program is told by the command line.  sources is the
\* order in which GoDayTime asks: the three defaults, or the one of the URL.
\* "daytime" is a server asked for a line (daytime, nist), "tcp" another one
\* that is not asked over SNTP (time, http, https, ssh).
Servers == {"tcp", "daytime", "sntp"}

Command ==
  [demon : BOOLEAN, sntpd : BOOLEAN, bcastRecv : BOOLEAN, bcastSend : BOOLEAN,
   setsys : BOOLEAN, setrtc : BOOLEAN, sources : Seq(Servers)]

ASSUME CommandsAssumption ==
  \A c \in Commands : c \in Command /\ c.sources # <<>>

ASSUME TimingAssumption ==
  /\ SleepTime \in Nat
  /\ StartTime \in Nat
  /\ MaxTime \in Nat
  /\ MaxFetch \in Nat
  /\ InitErrors \subseteq Int
  \* a system clock never shows a time before 1970
  /\ \A error \in InitErrors : StartTime + error >= 0

ASSUME NetworkAssumption ==
  /\ FdLimit \in Nat
  /\ MaxInbox \in Nat
  /\ Datagrams \subseteq {"request", "bcast", "other"}
  /\ Loopback \in BOOLEAN

VARIABLES
  args,      \* the command line
  pc,        \* where main() is
  now,       \* true time
  offset,    \* system clock minus true time
  slew,      \* what adjtime() has still to add to the system clock
  rtc,       \* hardware clock minus true time
  timeNow,   \* TimeNow, the last reading of the system clock
  nextSync,  \* NextSync, seconds
  todo,      \* servers GoDayTime has still to ask in this iteration
  since,     \* true time at which the last call that may block began
  sock,      \* SNTPD, the socket on port 123: bound or not
  ready,     \* S == SNTPD: the last select found it readable
  inbox,     \* datagrams waiting on it
  tvUsec,    \* tv.tv_usec, ticks; at first whatever it is, or Garbage
  fds,       \* sockets leaked by SNTPGetTime
  out,       \* datagrams sent in this iteration of the loop
  \* history
  readAt,    \* true time at which timeNow was read
  syncAt,    \* true time at which GoDayTime was last called
  putBack,   \* the system clock was put back or slowed since then
  putAhead,  \* it was put ahead or hastened since then
  wild,      \* a select since then had garbage in tv_usec
  wasSet     \* a time was received and handled

clockVars == <<offset, slew, rtc>>
netVars   == <<sock, inbox>>
loopVars  == <<nextSync, todo, ready, tvUsec>>
history   == <<readAt, syncAt, putBack, putAhead, wild, wasSet>>
vars == <<args, pc, now, clockVars, timeNow, loopVars, since, netVars, fds,
          out, history>>

Garbage == -1

Clock == now + offset

-----------------------------------------------------------------------------
(* The operators that follow, each with a slip in it.  Nothing uses them:  *)
(* the properties are tried on the specification with one of them put in   *)
(* the place of the operator it is a variant of.                           *)

ClockNotRead     == UNCHANGED <<timeNow, readAt>>                \* ReadClock
DateAfterNext    == Sec(timeNow) + 2 * SleepTime             \* NextDate
ReceivesAlways   == TRUE                                         \* Receiving
DueAtDate(time)  == Sec(time) >= nextSync                        \* Due
SleepsTwice      == 2 * SleepTime * TicksPerSec + tvUsec         \* Timeout
AllTimeLeft      == since + SleepTime * TicksPerSec + tvUsec - now
                                                                 \* UsecLeft
-----------------------------------------------------------------------------
(* The steps the actions are made of.                                      *)

\* gettimeofday(&TimeNow)
ReadClock == timeNow' = Clock /\ readAt' = now

\* Whether it is time to synchronise: the date must have passed.
Due(time) == Sec(time) > nextSync

\* The date of the next synchronisation.
NextDate == Sec(timeNow) + SleepTime

\* Whether SNTPReceive is called: S is what the last select returned.
Receiving == ready

\* Where an iteration goes when its work is done.
AfterReceive == IF args.demon THEN "select" ELSE "exited"

\* How long select may sleep: of tv only the seconds are filled in anew.
Timeout == SleepTime * TicksPerSec + tvUsec

TimeLeft == since + Timeout - now

\* tv_usec after a select that found a datagram, if it was known before.
UsecLeft == Usec(TimeLeft)

\* A datagram sent now with TimeNow in it; what it answers arrived then.
Sent(kind, arrived) ==
  [kind |-> kind, stamp |-> timeNow, readAt |-> readAt, sentAt |-> now,
   clock |-> Clock, arrived |-> arrived]

-----------------------------------------------------------------------------
(* Start and one iteration's look at the clock.                            *)

Init ==
  /\ args \in Commands
  /\ pc = "start"
  /\ now = StartTime
  /\ offset \in InitErrors
  /\ slew = 0
  /\ rtc = offset
  /\ timeNow = Clock
  /\ nextSync = 0
  /\ todo = <<>>
  /\ since = now
  /\ sock = FALSE
  /\ ready = FALSE
  /\ inbox = <<>>
  /\ tvUsec \in {Garbage} \cup 0 .. TicksPerSec - 1
  /\ fds = 0
  /\ out = <<>>
  /\ readAt = now
  /\ syncAt = now
  /\ putBack = FALSE
  /\ putAhead = FALSE
  /\ wild = FALSE
  /\ wasSet = FALSE

\* BindPort("", 123), whose failure only means that there is no service.
BindSntpPort ==
  /\ pc = "start"
  /\ pc' = "top"
  /\ \/ sock' = FALSE
     \/ (args.sntpd \/ args.bcastRecv) /\ sock' = TRUE
  /\ UNCHANGED <<args, now, clockVars, timeNow, loopVars, since, inbox, fds,
                 out, history>>

\* gettimeofday(&TimeNow) and the decision to synchronise now.
Top ==
  /\ pc = "top"
  /\ ReadClock
  /\ out' = <<>>
  /\ \/ /\ Due(timeNow')
        /\ pc' = "fetch"
        /\ todo' = args.sources
        /\ since' = now
        /\ syncAt' = now
        /\ putBack' = (slew < 0)
        /\ putAhead' = (slew > 0)
        /\ wild' = FALSE
     \/ /\ ~Due(timeNow')
        /\ pc' = "receive"
        /\ UNCHANGED <<todo, since, syncAt, putBack, putAhead, wild>>
  /\ UNCHANGED <<args, now, clockVars, nextSync, ready, tvUsec, netVars,
                 fds, wasSet>>

-----------------------------------------------------------------------------
(* GoDayTime.                                                              *)

\* HandleReceivedTime: the system clock if -s was given, the hardware clock
\* if -r was.  Without the privilege the calls fail, which changes nothing
\* and is ignored: that is the same as without -s and -r.
HandleReceivedTime(timeRead, time) ==
  LET clock == UpdateSystemClock(timeRead, time, now, offset, slew)
  IN  /\ IF args.setsys
           THEN /\ offset' = clock.offset
                /\ slew' = clock.slew
                /\ putBack' = (putBack \/ clock.offset < offset
                                     \/ clock.slew < 0)
                /\ putAhead' = (putAhead \/ clock.offset > offset
                                       \/ clock.slew > 0)
           ELSE UNCHANGED <<offset, slew, putBack, putAhead>>
      /\ rtc' = IF args.setrtc THEN Sec(time) * TicksPerSec - now ELSE rtc
      /\ wasSet' = TRUE

\* GetTimeFromHost for a server asked over TCP (daytime, time, nist, http,
\* https, ssh): it tells the second at some moment since it was asked.
TcpAnswer ==
  /\ pc = "fetch"
  /\ Head(todo) # "sntp"
  /\ fds < FdLimit
  /\ \E s \in since .. now :
       HandleReceivedTime(timeNow, Sec(s) * TicksPerSec)
  /\ todo' = <<>>
  /\ pc' = "broadcast"
  /\ UNCHANGED <<args, now, timeNow, nextSync, since, ready, tvUsec,
                 netVars, fds, out, readAt, syncAt, wild>>

\* SNTPGetTime with an answer: the request carried TimeNow, which is read
\* again before the time is worked out.  Its socket is never closed.
SntpAnswer ==
  /\ pc = "fetch"
  /\ Head(todo) = "sntp"
  /\ fds < FdLimit
  /\ ReadClock
  /\ \E time \in SntpTimes(timeNow, since, now, timeNow') :
       HandleReceivedTime(timeNow', time)
  /\ fds' = fds + 1
  /\ todo' = <<>>
  /\ pc' = "broadcast"
  /\ UNCHANGED <<args, now, nextSync, since, ready, tvUsec, netVars,
                 out, syncAt, wild>>

\* A server that cannot be reached or gives no usable answer: the next one
\* is asked, if there is one.  An attempt over SNTP has taken a socket.
NoAnswer ==
  /\ pc = "fetch"
  /\ Head(todo) # "sntp" \/ fds < FdLimit
  /\ fds' = IF Head(todo) = "sntp" THEN fds + 1 ELSE fds
  /\ todo' = Tail(todo)
  /\ since' = now
  /\ pc' = IF Len(todo) = 1 THEN "broadcast" ELSE "fetch"
  /\ UNCHANGED <<args, now, clockVars, timeNow, nextSync, ready, tvUsec,
                 netVars, out, history>>

\* ParseDayTimeLine gets no line, or one without a space, and reads through
\* NULL: that ends the program.
NoLine ==
  /\ pc = "fetch"
  /\ Head(todo) = "daytime"
  /\ fds < FdLimit
  /\ pc' = "exited"
  /\ UNCHANGED <<args, now, clockVars, timeNow, loopVars, since, netVars, fds,
                 out, history>>

\* SNTPGetTime gets no socket: FATAL, and main() leaves its loop.
NoSocket ==
  /\ pc = "fetch"
  /\ Head(todo) = "sntp"
  /\ fds = FdLimit
  /\ pc' = "exited"
  /\ UNCHANGED <<args, now, clockVars, timeNow, loopVars, since, netVars, fds,
                 out, history>>

-----------------------------------------------------------------------------
(* The rest of the iteration.                                              *)

\* SNTPBroadcastNets, if there is a descriptor left, and the next date.
Broadcast ==
  /\ pc = "broadcast"
  /\ IF args.bcastSend /\ fds < FdLimit
       THEN /\ out' = Append(out, Sent("bcast", now))
            /\ \/ UNCHANGED inbox
               \/ /\ Loopback /\ sock /\ Len(inbox) < MaxInbox
                  /\ inbox' = Append(inbox, [kind |-> "bcast", stamp |-> timeNow,
                                             arrived |-> now])
       ELSE UNCHANGED <<out, inbox>>
  /\ nextSync' = NextDate
  /\ pc' = "receive"
  /\ UNCHANGED <<args, now, clockVars, timeNow, todo, since, sock, ready,
                 tvUsec, fds, history>>

\* No datagram was waiting when select returned.
NothingReceived ==
  /\ pc = "receive"
  /\ ~Receiving
  /\ pc' = AfterReceive
  /\ UNCHANGED <<args, now, clockVars, timeNow, loopVars, since, netVars, fds,
                 out, history>>

\* SNTPReceive and SNTPServerProcess: one datagram is read, a request is
\* answered with TimeNow, a broadcast is believed.
SntpReceive ==
  /\ pc = "receive"
  /\ Receiving
  /\ inbox # <<>>
  /\ LET packet == Head(inbox)
     IN  /\ out' = IF args.sntpd /\ packet.kind = "request"
                     THEN Append(out, Sent("reply", packet.arrived))
                     ELSE out
         /\ IF args.bcastRecv /\ packet.kind = "bcast"
              THEN HandleReceivedTime(timeNow, packet.stamp)
              ELSE UNCHANGED <<clockVars, putBack, putAhead, wasSet>>
  /\ inbox' = Tail(inbox)
  /\ pc' = AfterReceive
  /\ UNCHANGED <<args, now, timeNow, loopVars, since, sock, fds, readAt,
                 syncAt, wild>>

\* STREAMSelect is called.
EnterSelect ==
  /\ pc = "select"
  /\ pc' = "wait"
  /\ since' = now
  /\ out' = <<>>
  /\ UNCHANGED <<args, now, clockVars, timeNow, loopVars, netVars, fds, history>>

\* It finds a datagram and leaves what was left of the time in tv.
SelectReadable ==
  /\ pc = "wait"
  /\ sock
  /\ inbox # <<>>
  /\ ready' = TRUE
  /\ \/ tvUsec # Garbage /\ tvUsec' = UsecLeft
     \/ tvUsec = Garbage /\ tvUsec' \in {Garbage} \cup 0 .. TicksPerSec - 1
  /\ wild' = (wild \/ tvUsec = Garbage)
  /\ pc' = "top"
  /\ UNCHANGED <<args, now, clockVars, timeNow, nextSync, todo, since,
                 netVars, fds, out, readAt, syncAt, putBack, putAhead, wasSet>>

\* It times out.  With garbage in tv_usec it does so at no known time.
SelectTimeout ==
  /\ pc = "wait"
  /\ inbox = <<>>
  /\ tvUsec = Garbage \/ TimeLeft = 0
  /\ ready' = FALSE
  /\ tvUsec' = 0
  /\ wild' = (wild \/ tvUsec = Garbage)
  /\ pc' = "top"
  /\ UNCHANGED <<args, now, clockVars, timeNow, nextSync, todo, since,
                 netVars, fds, out, readAt, syncAt, putBack, putAhead, wasSet>>

-----------------------------------------------------------------------------
(* The world: the time and the network.                                    *)

Tick ==
  /\ now < MaxTime
  /\ \/ pc = "fetch" /\ now - since < MaxFetch
     \/ pc = "wait" /\ inbox = <<>> /\ (tvUsec = Garbage \/ TimeLeft > 0)
  /\ now' = now + 1
  /\ \E clock \in SlewedOff(offset, slew) :
       offset' = clock.offset /\ slew' = clock.slew
  /\ rtc' = rtc
  /\ UNCHANGED <<args, pc, timeNow, loopVars, since, netVars, fds, out,
                 history>>

\* A datagram from outside; the broadcasts of others tell the true time.
Arrive ==
  /\ pc \in {"fetch", "wait"}
  /\ sock
  /\ Len(inbox) < MaxInbox
  /\ \E kind \in Datagrams :
       inbox' = Append(inbox, [kind |-> kind, stamp |-> now, arrived |-> now])
  /\ UNCHANGED <<args, pc, now, clockVars, timeNow, loopVars, since, sock, fds,
                 out, history>>

Next ==
  \/ BindSntpPort \/ Top
  \/ TcpAnswer \/ SntpAnswer \/ NoAnswer \/ NoLine \/ NoSocket
  \/ Broadcast \/ NothingReceived \/ SntpReceive
  \/ EnterSelect \/ SelectReadable \/ SelectTimeout
  \/ Tick \/ Arrive

Spec == Init /\ [][Next]_vars

-----------------------------------------------------------------------------
PCs == {"start", "top", "fetch", "broadcast", "receive", "select", "wait",
        "exited"}

Datagram == [kind : {"request", "bcast", "other"}, stamp : Int, arrived : Int]

SentDatagram == [kind : {"reply", "bcast"}, stamp : Int, readAt : Int,
                 sentAt : Int, clock : Int, arrived : Int]

TypeOK ==
  /\ args \in Commands
  /\ pc \in PCs
  /\ now \in Nat
  /\ offset \in Int /\ slew \in Int /\ rtc \in Int
  /\ timeNow \in Int
  /\ nextSync \in Int
  /\ todo \in Seq(Servers) /\ (pc = "fetch" => todo # <<>>)
  /\ since \in Nat
  /\ sock \in BOOLEAN /\ ready \in BOOLEAN
  /\ inbox \in Seq(Datagram)
  /\ tvUsec \in {Garbage} \cup 0 .. TicksPerSec - 1
  /\ fds \in 0 .. FdLimit
  /\ out \in Seq(SentDatagram)
  /\ readAt \in Nat /\ syncAt \in Nat
  /\ putBack \in BOOLEAN /\ putAhead \in BOOLEAN
  /\ wild \in BOOLEAN /\ wasSet \in BOOLEAN

\* Only servers of these kinds are asked.
Asks(kinds) == \A i \in DOMAIN args.sources : args.sources[i] \in kinds

\* The longest GoDayTime may take: every server is asked in vain.
FetchTime == Len(args.sources) * MaxFetch

\* NextSync never runs more than SleepTime ahead of the system clock, so that
\* the next synchronisation is reached, unless the clock was put back since
\* the last one (main.c:398 and 407; NextSync is a date of the old clock).
NextSyncNear ==
  ~putBack => nextSync <= Sec(Clock) + SleepTime

\* The time between two calls of GoDayTime is not SleepTime, as main.c:412
\* suggests: the first select ends when NextSync is reached, and it must have
\* passed.  But it is never more than two selects after the fetch, as long as
\* the clock is not put back.
LongestSelect == (SleepTime + 1) * TicksPerSec - 1

SyncGap ==
  ~putBack /\ ~wild /\ (pc = "wait" => tvUsec # Garbage) /\ pc # "exited"
    => now - syncAt <= FetchTime + 2 * LongestSelect

\* SNTPReceive never waits for a datagram (SNTPReadPacket would do so for 30
\* seconds): what select reported is still there after GoDayTime.
NeverBlocksInReceive ==
  pc = "receive" /\ Receiving => inbox # <<>>

\* A datagram carries a reading of the clock that is no older than the fetch
\* between the top of the loop and its sending (sntp.c:158 uses TimeNow).
StampAge ==
  \A i \in DOMAIN out : out[i].sentAt - out[i].readAt <= FetchTime

\* The receive timestamp of a reply is never earlier than the request's
\* arrival: TimeNow was read after the select that reported the datagram.
ReplyAfterRequest ==
  \A i \in DOMAIN out : out[i].kind = "reply" => out[i].arrived <= out[i].readAt

\* The servers are not asked more often than every SleepTime seconds, although
\* NextSync is computed from a reading that may be a whole fetch old (main.c:407),
\* and broadcasts are believed in between, unless the clock was put ahead: it
\* reaches the date too early then.
SyncPace ==
  [][pc = "top" /\ pc' = "fetch" /\ nextSync > 0 /\ ~putAhead
       => now - syncAt > SleepTime * TicksPerSec]_vars

\* Half of the rounding of tv_sec to a float, in whole ticks.
FloatError == (FloatStep * TicksPerSec + 3) \div 4

\* With servers and broadcasters that tell the true time, the system clock
\* and the hardware clock stay near it once they were set: the protocols
\* without fractions cost a second, the fetch its duration (TimeNow and the
\* answer are from its two ends), a broadcast the fetches it waited for in the
\* socket's queue, SNTP half the rounding of tv_sec to a float (sntp.c:286).
ErrorBound ==
  TicksPerSec
    + (IF args.bcastRecv THEN MaxInbox + 1 ELSE 1) * FetchTime
    + (IF Asks({"tcp", "daytime"}) THEN 0 ELSE FloatError)

ClockErrorBounded ==
  wasSet => /\ args.setsys => Distance(offset, 0) < ErrorBound
            /\ args.setrtc => Distance(rtc, 0) < ErrorBound

-----------------------------------------------------------------------------
(* What comments, messages and the manual say of the program and the code  *)
(* does not keep.                                                          *)

\* "daytime will stay running" (README.md:106) in daemon mode.
DaemonStaysRunning == args.demon => pc # "exited"

\* "updating time ... every 60 seconds" (README.md:138): the pace of SyncGap, also
\* after the clock was put back.
ChecksAfterPutBack ==
  ~wild /\ (pc = "wait" => tvUsec # Garbage) /\ pc # "exited"
    => now - syncAt <= FetchTime + 2 * LongestSelect
=============================================================================
