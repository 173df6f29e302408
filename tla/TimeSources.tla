---------------------------- MODULE TimeSources ----------------------------
(***************************************************************************)
(* How the daemon's loop (main.c) asks its servers: the connections of     *)
(* GetTimeFromHost, the lines the servers send, the zone in which they are *)
(* read, and the SNTP requests that wait meanwhile.  A time is known by    *)
(* its error in hours; the clock itself is in Daytime.                     *)
(***************************************************************************)
EXTENDS Integers, Sequences

CONSTANTS
  Zones,       \* names of zones that servers are in
  Offset,      \* hours each is ahead of UTC
  Known,       \* those libc has rules for; it takes the others for UTC
  Local,       \* the zone of /etc/localtime
  Environment, \* what TZ may be when the program starts
  TzOptions,   \* what -tz may say, or ""
  Chains,      \* the servers that are asked in turn, by their kinds
  MaxQueue     \* bound: requests waiting at port 123

Kinds == {"daytime", "time", "http", "ssh", "sntp"}

\* What GoDayTime asks without a URL; with one it asks that server.
DefaultServers == <<"http", "http", "sntp">>

ASSUME SourcesAssumption ==
  /\ Offset \in [Zones -> Int] /\ Known \subseteq Zones /\ Local \in Known
  /\ {"", "unset", "junk"} \cap Zones = {}
  /\ Environment \subseteq Zones \cup {"", "unset"}
  /\ TzOptions \subseteq Zones \cup {""}
  /\ \A c \in Chains : c = DefaultServers \/ \E kind \in Kinds : c = <<kind>>
  /\ MaxQueue \in Nat \ {0}

VARIABLES
  chain,     \* the servers of this program
  tzOption,  \* -tz
  remote,    \* RemoteTimeZone
  tz,        \* TZ in the environment
  pc,        \* "select", "top", "ask", "read", "receive", "crashed"
  todo,      \* servers that are still to be asked in this iteration
  serverZone,\* the zone the servers are in now
  got,       \* the last time handed to HandleReceivedTime
  shown,     \* TZ at that moment: the zone of the hardware clock
  ready,     \* S == SNTPD
  queue,     \* requests waiting
  ours       \* the place in the queue of a request that is watched, or 0

sourceVars == <<chain, tzOption, remote, tz, pc, todo, serverZone, got, shown,
                ready, queue, ours>>
fixed == <<chain, tzOption>>
zoneVars == <<remote, tz>>
given == <<got, shown>>
service == <<ready, queue, ours>>

\* "junk": a field that is no zone, of a line that is no date or has its
\* fields elsewhere.
Names == Zones \cup {"", "junk"}
Garbage == 99
Nothing == [kind |-> "none", zone |-> "", error |-> 0]

SourcesInit ==
  /\ chain \in Chains
  /\ tzOption \in TzOptions /\ remote = tzOption
  /\ tz \in Environment
  /\ pc = "top" /\ todo = <<>>
  /\ serverZone \in Zones
  /\ got = Nothing /\ shown = tz
  /\ ready = FALSE /\ queue = 0 /\ ours = 0

-----------------------------------------------------------------------------
\* Variants of definitions below with a slip in them, used by nothing: the
\* properties are tried with them in the place of Restored, Keeps and Serves.
StaysAsRead(zone) == IF remote = "" THEN "unset" ELSE remote
KeepsLast(field) == field
ServesBacklog == ready /\ queue > 1
ServesAlways == TRUE

-----------------------------------------------------------------------------
(* Zones: SetTimeZone, DateStrToSecs, TimeZoneSet                          *)

\* The hours libc takes a zone to be ahead: none is /etc/localtime.
LibcOffset(zone) ==
  IF zone = "" THEN Offset[Local] ELSE IF zone \in Known THEN Offset[zone] ELSE 0

\* DateStrToSecs sets TZ back; an empty one it takes for none.
Restored(zone) == IF zone = "" THEN "unset" ELSE zone

\* What comes out of a date written in the zone of the server.
ParseError(zone) == Offset[serverZone] - LibcOffset(zone)

\* "if (! StrValid(RemoteTimeZone))": the first zone that is seen stays.
Keeps(field) == IF remote = "" THEN field ELSE remote

-----------------------------------------------------------------------------
(* The loop of main()                                                      *)

\* The next server, or the end of GoDayTime.
AskNext(rest) ==
  /\ todo' = rest
  /\ pc' = IF rest = <<>> THEN "receive" ELSE "ask"

Failed == AskNext(Tail(todo)) /\ UNCHANGED given

\* HandleReceivedTime, with TZ as reading the date left it; the other servers are not asked.
HandedOver(error, zone) ==
  /\ AskNext(<<>>)
  /\ got' = [kind |-> Head(todo), zone |-> serverZone, error |-> error]
  /\ tz' = zone /\ shown' = zone

\* NextSync has passed, or not.
Top ==
  /\ pc = "top"
  /\ AskNext(chain) \/ AskNext(<<>>)
  /\ UNCHANGED <<fixed, zoneVars, serverZone, given, service>>

Serves == ready

\* One request is read and answered if the select found any.
Receive ==
  /\ pc = "receive"
  /\ pc' = "select"
  /\ IF Serves THEN queue' = queue - 1 /\ ours' = (IF ours > 0 THEN ours - 1 ELSE 0)
              ELSE UNCHANGED <<queue, ours>>
  /\ UNCHANGED <<fixed, zoneVars, todo, serverZone, given, ready>>

\* STREAMSelect finds a request or times out.
Select ==
  /\ pc = "select"
  /\ ready' = (queue > 0) /\ pc' = "top"
  /\ UNCHANGED <<fixed, zoneVars, todo, serverZone, given, queue, ours>>

-----------------------------------------------------------------------------
(* The servers                                                             *)

Asking(kinds) == todo # <<>> /\ Head(todo) \in kinds

\* STREAMOpen fails, a reply has no Date, or SNTPGetTime has no answer.
NoAnswer ==
  /\ pc = "ask" /\ Failed
  /\ UNCHANGED <<fixed, zoneVars, serverZone, service>>

Connect ==
  /\ pc = "ask" /\ Asking({"daytime", "ssh"})
  /\ pc' = "read"
  /\ UNCHANGED <<fixed, zoneVars, todo, serverZone, given, service>>

\* An SNTP server, and a TIME server that sends its four bytes.
ExactTime ==
  /\ pc = "ask" /\ Asking({"time", "sntp"})
  /\ HandedOver(0, tz)
  /\ UNCHANGED <<fixed, remote, serverZone, service>>

\* A TIME server that closes or falls silent: what is in timeval is taken.
ShortTime ==
  /\ pc = "ask" /\ Asking({"time"})
  /\ \E error \in {0, Garbage} : HandedOver(error, tz)
  /\ UNCHANGED <<fixed, remote, serverZone, service>>

\* The Date header.
HttpDate ==
  /\ pc = "ask" /\ Asking({"http"})
  /\ remote' = Keeps(serverZone)
  /\ HandedOver(ParseError(remote'), Restored(tz))
  /\ UNCHANGED <<fixed, serverZone, service>>

\* STREAMReadLine in the loops of the daytime and the ssh host: a line that is
\* no date, a date, one word, or the end of the stream.  An empty line, which is also
\* what a timeout gives, changes nothing: the loops read again.

\* In a line of two words or more a date is looked for in the zone of SetTimeZone, which
\* stays; none is found.
OtherDaytimeLine ==
  /\ pc = "read" /\ Asking({"daytime"})
  /\ tz' = Restored(remote)
  /\ Failed
  /\ UNCHANGED <<fixed, remote, serverZone, service>>

\* A date with a space in it.
DaytimeLine ==
  /\ pc = "read" /\ Asking({"daytime"})
  /\ HandedOver(ParseError(remote), Restored(remote))
  /\ UNCHANGED <<fixed, remote, serverZone, service>>

\* ParseDayTimeLine looks for the first space and what is behind it: it crashes at the end
\* of the stream, where it is given NULL, and with a line of one word, in which strchr
\* finds none.  The dates of "%Y-%m-%dT%H:%M:%S" are such words.
DaytimeCrash ==
  /\ pc = "read" /\ Asking({"daytime"})
  /\ pc' = "crashed"
  /\ UNCHANGED <<fixed, zoneVars, todo, serverZone, given, service>>

\* A line of five words or more, or of less.
OtherSshLine ==
  /\ pc = "read" /\ Asking({"ssh"})
  /\ \E field \in {"", "junk"} : remote' = Keeps(field)
  /\ tz' = Restored(tz)
  /\ UNCHANGED <<fixed, pc, todo, serverZone, given, service>>

\* The fifth field is the zone, unless the day has one digit: there are two
\* spaces before it then, and the fifth field is the time of day.
SshDate ==
  /\ pc = "read" /\ Asking({"ssh"})
  /\ \E field \in {serverZone, "junk"} : remote' = Keeps(field)
  /\ HandedOver(ParseError(remote'), Restored(tz))
  /\ UNCHANGED <<fixed, serverZone, service>>

SshEnd ==
  /\ pc = "read" /\ Asking({"ssh"})
  /\ Failed
  /\ UNCHANGED <<fixed, zoneVars, serverZone, service>>

-----------------------------------------------------------------------------
(* The world                                                               *)

\* The server's zone changes, with the season or with the server.
ZoneChanges ==
  /\ serverZone' \in Zones
  /\ UNCHANGED <<fixed, zoneVars, pc, todo, given, service>>

\* A request arrives; it may be the one that is watched.
Arrive ==
  /\ queue < MaxQueue
  /\ queue' = queue + 1
  /\ ours' \in {ours, IF ours = 0 THEN queue' ELSE ours}
  /\ UNCHANGED <<fixed, zoneVars, pc, todo, serverZone, given, ready>>

Loop == Top \/ Receive \/ Select

\* What ends the reading of lines.
ServerEnds == OtherDaytimeLine \/ DaytimeLine \/ DaytimeCrash \/ SshDate \/ SshEnd

Ask == NoAnswer \/ Connect \/ ExactTime \/ ShortTime \/ HttpDate

SourcesNext ==
  \/ Loop \/ Ask \/ ServerEnds
  \/ OtherSshLine \/ ZoneChanges \/ Arrive

\* The program goes on; a connection comes about or fails by its timeout.
SourcesSpec ==
  SourcesInit /\ [][SourcesNext]_sourceVars /\ WF_sourceVars(Loop) /\ WF_sourceVars(Ask)

\* And the servers do not stay silent for ever.
TalkingSpec == SourcesSpec /\ WF_sourceVars(ServerEnds)

-----------------------------------------------------------------------------
(* Properties                                                              *)

SourcesTypeOK ==
  /\ chain \in Chains /\ tzOption \in TzOptions
  /\ remote \in Names /\ tz \in Names \cup {"unset"} /\ shown \in Names \cup {"unset"}
  /\ pc \in {"select", "top", "ask", "read", "receive", "crashed"}
  /\ todo \in Seq(Kinds) /\ (pc \in {"ask", "read"} <=> todo # <<>> /\ pc # "crashed")
  /\ serverZone \in Zones
  /\ got \in [kind : Kinds \cup {"none"}, zone : Zones \cup {""}, error : Int]
  /\ ready \in BOOLEAN /\ queue \in 0..MaxQueue /\ ours \in 0..queue
  /\ ready /\ pc \in {"top", "ask", "read", "receive"} => queue > 0

\* A date from a server in the zone of -tz, or in the zone that was kept, is
\* read right, whatever TZ says, whatever servers were asked before and whatever
\* lines they sent.
ZoneExact ==
  /\ got.kind \in {"daytime", "http", "ssh"}
  /\ got.zone \in Known /\ got.zone \in {remote, tzOption}
  => got.error = 0

\* The hardware clock is set in the same zone every time, although TZ changes
\* while dates are read; only a TZ that was empty gets lost.
RtcSameZone ==
  [][got # Nothing /\ given' # given => shown' = shown \/ shown = ""]_sourceVars

\* A request that waits at port 123 is answered, although the loop reads one in
\* each turn and asks the servers in between, as long as they end what they say.
RequestsServed == ours > 0 ~> ours = 0 \/ pc = "crashed"
=============================================================================
