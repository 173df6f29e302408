---------------------------- MODULE ProgramProofs ----------------------------
(***************************************************************************)
(* Invariants of the program around its clock: dates are read in the zone  *)
(* of -tz, the pid file names the daemon that has the lock, options do what*)
(* they say in any order, and the time that is set is the one typed; what  *)
(* its processes and their log come to; and the types of all of it.        *)
(***************************************************************************)
EXTENDS MCProgram, FiniteSetTheorems, SequenceTheorems, WellFoundedInduction, TLAPS

-----------------------------------------------------------------------------
(* Zones                                                                   *)

\* -tz stays the zone that dates are read in; and what TLC checks.
ZoneInv ==
  /\ tzOption # "" => remote = tzOption
  /\ ZoneExact

\* A date that is read in the zone of its server is right.
LEMMA ReadRight ==
  ASSUME NEW zone \in Known, serverZone = zone
  PROVE  ParseError(zone) = 0
<1>1. zone \in Zones /\ zone # ""
  BY SourcesAssumption
<1>2. Offset[zone] \in Int
  BY <1>1, SourcesAssumption
<1>3. LibcOffset(zone) = Offset[zone]
  BY <1>1 DEF LibcOffset
<1>4. ParseError(zone) = Offset[zone] - Offset[zone]
  BY <1>3 DEF ParseError
<1> QED BY <1>2, <1>4

\* What the handlers of a date have in common: it is read in a zone that is kept from now on.
LEMMA DateStep ==
  ASSUME ZoneInv, remote' = remote \/ remote = "",
         tzOption' = tzOption,
         got' = [kind |-> Head(todo), zone |-> serverZone, error |-> ParseError(remote')]
  PROVE  ZoneInv'
<1>1. tzOption' # "" => remote' = tzOption'
  BY DEF ZoneInv
<1>2. got'.zone = serverZone /\ got'.error = ParseError(remote')
  OBVIOUS
<1>3. got'.zone \in Known /\ got'.zone \in {remote', tzOption'} => got'.error = 0
  <2> SUFFICES ASSUME serverZone \in Known, serverZone \in {remote', tzOption'}
               PROVE  ParseError(remote') = 0
    BY <1>2
  <2>1. serverZone # ""
    BY SourcesAssumption
  <2>2. remote' = serverZone
    BY <1>1, <2>1
  <2> QED BY <2>2, ReadRight
<1> QED BY <1>1, <1>2, <1>3, SourcesAssumption DEF ZoneInv, ZoneExact

\* Steps that hand over nothing: what is kept may become "junk", which is no zone.
LEMMA QuietStep ==
  ASSUME ZoneInv, remote' = remote \/ (remote = "" /\ remote' \in {"", "junk"}),
         tzOption' = tzOption, got' = got
  PROVE  ZoneInv'
<1>1. tzOption' # "" => remote' = tzOption'
  BY DEF ZoneInv
<1>2. got'.zone \in Known /\ got'.zone = remote' => remote' = remote
  BY SourcesAssumption
<1> QED BY <1>1, <1>2 DEF ZoneInv, ZoneExact

\* A time that is not a date.
LEMMA TimeStep ==
  ASSUME ZoneInv, remote' = remote, tzOption' = tzOption, got'.kind \in {"time", "sntp"}
  PROVE  ZoneInv'
BY DEF ZoneInv, ZoneExact

LEMMA ZoneStep == ZoneInv /\ [SourcesNext]_sourceVars => ZoneInv'
<1> SUFFICES ASSUME ZoneInv, [SourcesNext]_sourceVars PROVE ZoneInv'
  OBVIOUS
<1>1. CASE Loop
  <2>1. remote' = remote /\ tzOption' = tzOption /\ got' = got
    BY <1>1 DEF Loop, Top, Receive, Select, fixed, zoneVars, given
  <2> QED BY <2>1, QuietStep
<1>2. CASE NoAnswer \/ Connect
  <2>1. remote' = remote /\ tzOption' = tzOption /\ got' = got
    BY <1>2 DEF NoAnswer, Connect, Failed, fixed, zoneVars, given
  <2> QED BY <2>1, QuietStep
<1>3. CASE ExactTime \/ ShortTime
  <2>1. remote' = remote /\ tzOption' = tzOption /\ got'.kind = Head(todo)
    BY <1>3 DEF ExactTime, ShortTime, HandedOver, fixed
  <2>2. Head(todo) \in {"time", "sntp"}
    BY <1>3 DEF ExactTime, ShortTime, Asking
  <2> QED BY <2>1, <2>2, TimeStep
<1>4. CASE HttpDate \/ SshDate
  <2>1. /\ remote' = remote \/ remote = ""
        /\ tzOption' = tzOption
        /\ got' = [kind |-> Head(todo), zone |-> serverZone, error |-> ParseError(remote')]
    BY <1>4 DEF HttpDate, SshDate, HandedOver, Keeps, fixed
  <2> QED BY <2>1, DateStep
<1>5. CASE DaytimeLine
  <2>1. /\ remote' = remote /\ tzOption' = tzOption
        /\ got' = [kind |-> Head(todo), zone |-> serverZone, error |-> ParseError(remote)]
    BY <1>5 DEF DaytimeLine, HandedOver, fixed
  <2>2. got' = [kind |-> Head(todo), zone |-> serverZone, error |-> ParseError(remote')]
    BY <2>1
  <2> QED BY <2>1, <2>2, DateStep
<1>6. CASE OtherDaytimeLine \/ DaytimeCrash \/ SshEnd
  <2>1. remote' = remote /\ tzOption' = tzOption /\ got' = got
    BY <1>6 DEF OtherDaytimeLine, DaytimeCrash, SshEnd, Failed, fixed, zoneVars, given
  <2> QED BY <2>1, QuietStep
<1>7. CASE OtherSshLine
  <2>1. /\ remote' = remote \/ (remote = "" /\ remote' \in {"", "junk"})
        /\ tzOption' = tzOption /\ got' = got
    BY <1>7 DEF OtherSshLine, Keeps, fixed, given
  <2> QED BY <2>1, QuietStep
<1>8. CASE ZoneChanges \/ Arrive
  <2>1. remote' = remote /\ tzOption' = tzOption /\ got' = got
    BY <1>8 DEF ZoneChanges, Arrive, fixed, zoneVars, given
  <2> QED BY <2>1, QuietStep
<1>9. CASE UNCHANGED sourceVars
  <2>1. remote' = remote /\ tzOption' = tzOption /\ got' = got
    BY <1>9 DEF sourceVars
  <2> QED BY <2>1, QuietStep
<1> QED BY <1>1, <1>2, <1>3, <1>4, <1>5, <1>6, <1>7, <1>8, <1>9 DEF SourcesNext, Ask, ServerEnds

\* Whatever zones there are, whatever TZ and -tz say and whatever lines the servers send,
\* a date from a server in the zone of -tz, or in the one that was kept, is read right.
THEOREM DatesReadRight == SourcesSpec => []ZoneExact
<1>1. SourcesInit => ZoneInv
  <2> SUFFICES ASSUME SourcesInit PROVE ZoneInv
    OBVIOUS
  <2>1. got.kind = "none" /\ remote = tzOption
    BY DEF SourcesInit, Nothing
  <2> QED BY <2>1 DEF ZoneInv, ZoneExact
<1>2. ZoneInv => ZoneExact
  BY DEF ZoneInv
<1> QED BY <1>1, <1>2, ZoneStep, PTL DEF SourcesSpec

-----------------------------------------------------------------------------
(* The pid file                                                            *)

\* What is left of a start: who has not tried the lock has not got it, who has written
\* the file or holds back from it has the lock, and a pid is used once.
Waiting(p) == {"demonize", "lock"} \cap stages[p] # {}
Writing(p) == ~Waiting(p) /\ "write" \in stages[p]

LeftInv(p) ==
  /\ stages[p] \subseteq StageNames
  /\ "open" \in stages[p] => "lock" \in stages[p]
  /\ "lock" \in stages[p] => "truncate" \in stages[p]
  /\ "truncate" \in stages[p] => "write" \in stages[p]
  /\ "write" \in stages[p] /\ "demonize" \in stages[p] => "lock" \in stages[p]
  /\ phase[p] # "start" => stages[p] = {}

HolderInv(p) ==
  /\ phase[p] \in {"off", "parse"} \/ Waiting(p) => lock # p
  /\ Writing(p) => lock = p
  /\ phase[p] \in {"start", "run"} /\ ~Waiting(p) /\ ~Writing(p) /\ lock = p => file = Me(p)
  /\ phase[p] # "off" /\ lock # p => file # Me(p)
  /\ \A n \in Nat : file = <<p, n>> => n <= pid[p]

PidInv ==
  /\ DOMAIN argv \subseteq Procs
  /\ phase \in [Procs -> {"off", "parse", "start", "run"}]
  /\ stages \in [Procs -> SUBSET StageNames]
  /\ pid \in [Procs -> Nat]
  /\ \A p \in Procs : LeftInv(p) /\ HolderInv(p)

\* What the steps of one start leave alone of the others.
LEMMA OthersKeep ==
  ASSUME PidInv, NEW p \in Procs, NEW q \in Procs, q # p,
         phase'[q] = phase[q], stages'[q] = stages[q], pid'[q] = pid[q],
         lock' = q <=> lock = q,
         \/ file' = file
         \/ lock # q /\ file' = None
         \/ lock # q /\ file' = Me(p)
  PROVE  LeftInv(q)' /\ HolderInv(q)'
<1>1. LeftInv(q)'
  BY DEF PidInv, LeftInv
<1>2. /\ Waiting(q)' <=> Waiting(q)
      /\ Writing(q)' <=> Writing(q)
      /\ Me(q)' = Me(q)
  BY DEF Waiting, Writing, Me
<1>3. CASE file' = file
  BY <1>1, <1>2, <1>3 DEF PidInv, HolderInv, Me
<1>4. CASE lock # q /\ (file' = None \/ file' = Me(p))
  <2>1. ASSUME NEW n PROVE None # <<q, n>>
    BY DEF None
  <2>2. ASSUME NEW n PROVE Me(p) # <<q, n>>
    BY DEF Me
  <2>3. ASSUME NEW n PROVE file' # <<q, n>>
    BY <1>4, <2>1, <2>2
  <2>4. file' # <<q, pid'[q]>>
    BY <2>3
  <2>5. lock' # q /\ ~Writing(q)'
    BY <1>2, <1>4 DEF PidInv, HolderInv
  <2> QED BY <1>1, <2>3, <2>4, <2>5 DEF HolderInv, Me
<1> QED BY <1>1, <1>3, <1>4

\* The steps that come first come first.
LEMMA StagesInOrder ==
  ASSUME PidInv, NEW p \in Procs
  PROVE  /\ At(p, "open") \/ At(p, "lock") \/ At(p, "truncate") \/ At(p, "write") =>
              "demonize" \notin stages[p]
         /\ At(p, "truncate") \/ At(p, "write") => "lock" \notin stages[p]
         /\ At(p, "write") => "truncate" \notin stages[p]
         /\ At(p, "lock") => "open" \notin stages[p]
         /\ At(p, "bind") => stages[p] = {"bind"}
<1>1. \A s, t \in StageNames : At(p, s) /\ t \in stages[p] => Order[s] <= Order[t]
  BY DEF At
<1>2. /\ Order["demonize"] = 1 /\ Order["open"] = 2 /\ Order["lock"] = 3
      /\ Order["truncate"] = 4 /\ Order["write"] = 5 /\ Order["bind"] = 6
  BY DEF Order
<1>3. stages[p] \subseteq StageNames
  BY DEF PidInv, LeftInv
<1>4. At(p, "bind") => "bind" \in stages[p]
  BY DEF At
<1> QED BY <1>1, <1>2, <1>3, <1>4 DEF StageNames

\* What a step of p does to p, given what it leaves alone of the others.
LEMMA OwnStep ==
  ASSUME PidInv, NEW p \in Procs,
         argv' = argv,
         phase' \in [Procs -> {"off", "parse", "start", "run"}],
         stages' \in [Procs -> SUBSET StageNames],
         pid' \in [Procs -> Nat],
         \A q \in Procs : q # p =>
           /\ phase'[q] = phase[q] /\ stages'[q] = stages[q] /\ pid'[q] = pid[q]
           /\ lock' = q <=> lock = q,
         \/ file' = file
         \/ lock = p /\ file' \in {None, Me(p)},
         LeftInv(p)', HolderInv(p)'
  PROVE  PidInv'
<1>1. \A q \in Procs : LeftInv(q)' /\ HolderInv(q)'
  <2> SUFFICES ASSUME NEW q \in Procs, q # p PROVE LeftInv(q)' /\ HolderInv(q)'
    OBVIOUS
  <2>1. /\ phase'[q] = phase[q] /\ stages'[q] = stages[q] /\ pid'[q] = pid[q]
        /\ lock' = q <=> lock = q
    OBVIOUS
  <2>2. \/ file' = file
        \/ lock # q /\ file' = None
        \/ lock # q /\ file' = Me(p)
    OBVIOUS
  <2> QED BY <2>1, <2>2, OthersKeep
<1> QED BY <1>1 DEF PidInv

\* The steps of a start that change only what is left, one by one.
LEMMA StartStep ==
  ASSUME PidInv, NEW p \in DOMAIN argv, Start(p)
  PROVE  PidInv'
<1>1. p \in Procs
  BY DEF PidInv
<1>2. /\ phase' = [phase EXCEPT ![p] = "parse"] /\ stages' = stages /\ lock' = lock
      /\ file' = file /\ argv' = argv /\ phase[p] = "off"
      /\ pid' = [pid EXCEPT ![p] = @ + 1]
  BY DEF Start
<1>3. phase'[p] = "parse" /\ pid'[p] = pid[p] + 1 /\ pid[p] \in Nat
  BY <1>1, <1>2 DEF PidInv
<1>4. stages[p] = {} /\ lock # p /\ \A n \in Nat : file = <<p, n>> => n <= pid[p]
  BY <1>1, <1>2 DEF PidInv, LeftInv, HolderInv
<1>5. file' # <<p, pid'[p]>> /\ \A n \in Nat : file' = <<p, n>> => n <= pid'[p]
  BY <1>2, <1>3, <1>4
<1>6. LeftInv(p)'
  BY <1>2, <1>3, <1>4 DEF LeftInv
<1>7. HolderInv(p)'
  BY <1>2, <1>3, <1>4, <1>5 DEF HolderInv, Waiting, Writing, Me
<1> QED BY <1>1, <1>2, <1>6, <1>7, OwnStep DEF PidInv

LEMMA ParseStep ==
  ASSUME PidInv, NEW p \in DOMAIN argv, EndOfOptions(p)
  PROVE  PidInv'
<1>1. p \in Procs
  BY DEF PidInv
<1> DEFINE flags == args[p].flags
<1>2. /\ phase' = [phase EXCEPT ![p] = "start"] /\ lock' = lock
      /\ file' = file /\ argv' = argv /\ phase[p] = "parse" /\ pid' = pid
      /\ stages' = [stages EXCEPT ![p] = Stages(flags)]
  BY DEF EndOfOptions
<1> HIDE DEF flags
<1>3. phase'[p] = "start" /\ stages'[p] = Stages(flags)
  BY <1>1, <1>2 DEF PidInv
<1>4. /\ Stages(flags) \subseteq StageNames
      /\ {"open", "lock", "truncate", "write"} \cap Stages(flags)
           \in {{}, {"open", "lock", "truncate", "write"}}
  BY DEF Stages, Detach, KeepPid, Listen, StageNames
<1>5. /\ lock # p /\ file # Me(p)
      /\ \A n \in Nat : file = <<p, n>> => n <= pid[p]
  BY <1>1, <1>2 DEF PidInv, HolderInv
<1>6. LeftInv(p)'
  BY <1>3, <1>4 DEF LeftInv
<1>7. HolderInv(p)'
  <2>1. ~Writing(p)'
    BY <1>3, <1>4 DEF Writing, Waiting
  <2> QED BY <1>2, <1>3, <1>5, <2>1 DEF HolderInv, Me
<1>8. /\ phase' \in [Procs -> {"off", "parse", "start", "run"}]
      /\ stages' \in [Procs -> SUBSET StageNames]
  BY <1>2, <1>4 DEF PidInv
<1> QED BY <1>1, <1>2, <1>6, <1>7, <1>8, OwnStep DEF PidInv

\* What every step between the options and the loop has in common.
LEMMA StageStep ==
  ASSUME PidInv, NEW p \in DOMAIN argv, NEW stage \in StageNames, At(p, stage), Done(p, stage)
  PROVE  /\ p \in Procs /\ argv' = argv /\ phase' = phase /\ phase[p] = "start"
         /\ stage \in stages[p] /\ stages'[p] = stages[p] \ {stage}
         /\ stages' = [stages EXCEPT ![p] = stages[p] \ {stage}]
         /\ stages' \in [Procs -> SUBSET StageNames]
         /\ LeftInv(p) /\ HolderInv(p)
BY DEF At, Done, PidInv

LEMMA DemonizeStep ==
  ASSUME PidInv, NEW p \in DOMAIN argv, Demonize(p)
  PROVE  PidInv'
<1>0. "demonize" \in StageNames /\ At(p, "demonize") /\ Done(p, "demonize")
  BY DEF Demonize, StageNames
<1>1. /\ p \in Procs /\ argv' = argv /\ phase' = phase /\ phase[p] = "start"
      /\ "demonize" \in stages[p] /\ stages'[p] = stages[p] \ {"demonize"}
      /\ stages' = [stages EXCEPT ![p] = stages[p] \ {"demonize"}]
      /\ stages' \in [Procs -> SUBSET StageNames]
      /\ LeftInv(p) /\ HolderInv(p)
  BY <1>0, StageStep
<1>2. pid' = [pid EXCEPT ![p] = @ + 2] /\ lock' = lock /\ file' = file
  BY DEF Demonize
<1>3. pid'[p] = pid[p] + 2 /\ pid[p] \in Nat /\ pid' \in [Procs -> Nat]
  BY <1>1, <1>2 DEF PidInv
<1>4. lock # p /\ \A n \in Nat : file = <<p, n>> => n <= pid[p]
  BY <1>1 DEF HolderInv, Waiting
<1>5. file' # <<p, pid'[p]>> /\ \A n \in Nat : file' = <<p, n>> => n <= pid'[p]
  BY <1>2, <1>3, <1>4
<1>6. LeftInv(p)'
  BY <1>1 DEF LeftInv
<1>7. HolderInv(p)'
  <2>1. ~Writing(p)'
    BY <1>1 DEF Writing, Waiting, LeftInv
  <2> QED BY <1>1, <1>2, <1>4, <1>5, <2>1 DEF HolderInv, Me
<1> QED BY <1>1, <1>2, <1>3, <1>6, <1>7, OwnStep DEF PidInv

LEMMA OpenStep ==
  ASSUME PidInv, NEW p \in DOMAIN argv, OpenPidFile(p)
  PROVE  PidInv'
<1>0. "open" \in StageNames /\ At(p, "open") /\ Done(p, "open")
  BY DEF OpenPidFile, StageNames
<1>1. /\ p \in Procs /\ argv' = argv /\ phase' = phase /\ phase[p] = "start"
      /\ "open" \in stages[p] /\ stages'[p] = stages[p] \ {"open"}
      /\ stages' = [stages EXCEPT ![p] = stages[p] \ {"open"}]
      /\ stages' \in [Procs -> SUBSET StageNames]
      /\ LeftInv(p) /\ HolderInv(p)
  BY <1>0, StageStep
<1>2. pid' = pid /\ lock' = lock /\ file' = file
  BY DEF OpenPidFile, AsOpened
<1>3. Waiting(p)' <=> Waiting(p)
  BY <1>1 DEF Waiting
<1>4. Writing(p)' <=> Writing(p)
  BY <1>1, <1>3 DEF Writing
<1>5. LeftInv(p)'
  BY <1>1 DEF LeftInv
<1>6. HolderInv(p)'
  BY <1>1, <1>2, <1>3, <1>4 DEF HolderInv, Me
<1> QED BY <1>1, <1>2, <1>5, <1>6, OwnStep DEF PidInv

LEMMA LockStep ==
  ASSUME PidInv, NEW p \in DOMAIN argv, LockPidFile(p)
  PROVE  PidInv'
<1>0. "lock" \in StageNames /\ At(p, "lock") /\ Done(p, "lock")
  BY DEF LockPidFile, StageNames
<1>1. /\ p \in Procs /\ argv' = argv /\ phase' = phase /\ phase[p] = "start"
      /\ "lock" \in stages[p] /\ stages'[p] = stages[p] \ {"lock"}
      /\ stages' = [stages EXCEPT ![p] = stages[p] \ {"lock"}]
      /\ stages' \in [Procs -> SUBSET StageNames]
      /\ LeftInv(p) /\ HolderInv(p)
  BY <1>0, StageStep
<1>2. pid' = pid /\ lock = Nobody /\ lock' = p /\ file' = file
  BY DEF LockPidFile, Locked
<1>3. "demonize" \notin stages[p] /\ "open" \notin stages[p]
  BY <1>0, <1>1, StagesInOrder
<1>4. LeftInv(p)'
  BY <1>1, <1>3 DEF LeftInv
<1>5. HolderInv(p)'
  <2>1. Writing(p)' /\ ~Waiting(p)'
    BY <1>1, <1>3 DEF Writing, Waiting, LeftInv
  <2> QED BY <1>1, <1>2, <2>1 DEF HolderInv, Me
<1>6. \A q \in Procs : q # p => (lock' = q <=> lock = q)
  BY <1>2, StartupAssumption DEF Nobody
<1> QED BY <1>1, <1>2, <1>4, <1>5, <1>6, OwnStep DEF PidInv

LEMMA FailStep ==
  ASSUME PidInv, NEW p \in DOMAIN argv, LockFails(p)
  PROVE  PidInv'
<1> DEFINE rest == stages[p] \ {"lock", "truncate", "write"}
<1>1. /\ p \in Procs /\ argv' = argv /\ phase' = phase /\ phase[p] = "start"
      /\ "lock" \in stages[p] /\ At(p, "lock")
      /\ stages' = [stages EXCEPT ![p] = rest]
      /\ pid' = pid /\ lock' = lock /\ file' = file
  BY DEF LockFails, At, PidInv
<1>2. LeftInv(p) /\ HolderInv(p) /\ stages'[p] = rest /\ stages' \in [Procs -> SUBSET StageNames]
  BY <1>1 DEF PidInv, LeftInv
<1>3. "demonize" \notin stages[p] /\ "open" \notin stages[p]
  BY <1>1, StagesInOrder
<1>4. LeftInv(p)'
  BY <1>1, <1>2, <1>3 DEF LeftInv
<1>5. HolderInv(p)'
  <2>1. ~Writing(p)' /\ ~Waiting(p)' /\ Waiting(p)
    BY <1>1, <1>2, <1>3 DEF Writing, Waiting
  <2> QED BY <1>1, <1>2, <2>1 DEF HolderInv, Me
<1> QED BY <1>1, <1>2, <1>4, <1>5, OwnStep DEF PidInv

LEMMA TruncateStep ==
  ASSUME PidInv, NEW p \in DOMAIN argv, TruncatePidFile(p)
  PROVE  PidInv'
<1>0. "truncate" \in StageNames /\ At(p, "truncate") /\ Done(p, "truncate")
  BY DEF TruncatePidFile, StageNames
<1>1. /\ p \in Procs /\ argv' = argv /\ phase' = phase /\ phase[p] = "start"
      /\ "truncate" \in stages[p] /\ stages'[p] = stages[p] \ {"truncate"}
      /\ stages' = [stages EXCEPT ![p] = stages[p] \ {"truncate"}]
      /\ stages' \in [Procs -> SUBSET StageNames]
      /\ LeftInv(p) /\ HolderInv(p)
  BY <1>0, StageStep
<1>2. pid' = pid /\ lock' = lock /\ file' = None
  BY DEF TruncatePidFile
<1>3. "demonize" \notin stages[p] /\ "lock" \notin stages[p]
  BY <1>0, <1>1, StagesInOrder
<1>4. Writing(p) /\ Writing(p)' /\ ~Waiting(p)'
  BY <1>1, <1>3 DEF LeftInv, Writing, Waiting
<1>5. lock = p
  BY <1>1, <1>4 DEF HolderInv
<1>6. LeftInv(p)'
  BY <1>1, <1>3 DEF LeftInv
<1>7. HolderInv(p)'
  <2>1. ASSUME NEW n PROVE None # <<p, n>>
    BY DEF None
  <2> QED BY <1>1, <1>2, <1>4, <1>5, <2>1 DEF HolderInv
<1> QED BY <1>1, <1>2, <1>5, <1>6, <1>7, OwnStep DEF PidInv

LEMMA WriteStep ==
  ASSUME PidInv, NEW p \in DOMAIN argv, WritePid(p)
  PROVE  PidInv'
<1>0. "write" \in StageNames /\ At(p, "write") /\ Done(p, "write")
  BY DEF WritePid, StageNames
<1>1. /\ p \in Procs /\ argv' = argv /\ phase' = phase /\ phase[p] = "start"
      /\ "write" \in stages[p] /\ stages'[p] = stages[p] \ {"write"}
      /\ stages' = [stages EXCEPT ![p] = stages[p] \ {"write"}]
      /\ stages' \in [Procs -> SUBSET StageNames]
      /\ LeftInv(p) /\ HolderInv(p)
  BY <1>0, StageStep
<1>2. pid' = pid /\ lock' = lock /\ file' = Me(p) /\ pid[p] \in Nat
  BY <1>1 DEF WritePid, PidInv
<1>3. "demonize" \notin stages[p] /\ "lock" \notin stages[p] /\ "truncate" \notin stages[p]
  BY <1>0, <1>1, StagesInOrder
<1>4. Writing(p) /\ ~Writing(p)' /\ ~Waiting(p)'
  BY <1>1, <1>3 DEF Writing, Waiting
<1>5. lock = p
  BY <1>1, <1>4 DEF HolderInv
<1>6. LeftInv(p)'
  BY <1>1, <1>3 DEF LeftInv
<1>7. HolderInv(p)'
  <2>1. \A n \in Nat : file' = <<p, n>> => n <= pid'[p]
    BY <1>2 DEF Me
  <2> QED BY <1>1, <1>2, <1>4, <1>5, <2>1 DEF HolderInv, Me
<1> QED BY <1>1, <1>2, <1>5, <1>6, <1>7, OwnStep DEF PidInv

LEMMA BindStep ==
  ASSUME PidInv, NEW p \in DOMAIN argv, BindPort(p)
  PROVE  PidInv'
<1>0. "bind" \in StageNames /\ At(p, "bind") /\ Done(p, "bind")
  BY DEF BindPort, StageNames
<1>1. /\ p \in Procs /\ argv' = argv /\ phase' = phase /\ phase[p] = "start"
      /\ "bind" \in stages[p] /\ stages'[p] = stages[p] \ {"bind"}
      /\ stages' = [stages EXCEPT ![p] = stages[p] \ {"bind"}]
      /\ stages' \in [Procs -> SUBSET StageNames]
      /\ LeftInv(p) /\ HolderInv(p)
  BY <1>0, StageStep
<1>2. pid' = pid /\ lock' = lock /\ file' = file
  BY DEF BindPort
<1>3. Waiting(p)' <=> Waiting(p)
  BY <1>1 DEF Waiting
<1>4. Writing(p)' <=> Writing(p)
  BY <1>1, <1>3 DEF Writing
<1>5. LeftInv(p)'
  BY <1>1 DEF LeftInv
<1>6. HolderInv(p)'
  BY <1>1, <1>2, <1>3, <1>4 DEF HolderInv, Me
<1> QED BY <1>1, <1>2, <1>5, <1>6, OwnStep DEF PidInv

LEMMA EnterStep ==
  ASSUME PidInv, NEW p \in DOMAIN argv, EnterLoop(p)
  PROVE  PidInv'
<1>1. /\ p \in Procs /\ argv' = argv /\ phase[p] = "start" /\ stages[p] = {}
      /\ phase' = [phase EXCEPT ![p] = "run"] /\ stages' = stages
      /\ pid' = pid /\ lock' = lock /\ file' = file
  BY DEF EnterLoop, PidInv
<1>2. LeftInv(p) /\ HolderInv(p) /\ phase'[p] = "run"
      /\ phase' \in [Procs -> {"off", "parse", "start", "run"}]
  BY <1>1 DEF PidInv
<1>3. ~Waiting(p) /\ ~Writing(p) /\ ~Waiting(p)' /\ ~Writing(p)'
  BY <1>1 DEF Waiting, Writing
<1>4. LeftInv(p)'
  BY <1>1, <1>2 DEF LeftInv
<1>5. HolderInv(p)'
  BY <1>1, <1>2, <1>3 DEF HolderInv, Me
<1> QED BY <1>1, <1>2, <1>4, <1>5, OwnStep DEF PidInv

LEMMA EndStep ==
  ASSUME PidInv, NEW p \in DOMAIN argv, Ends(p)
  PROVE  PidInv'
<1>1. /\ p \in Procs /\ argv' = argv /\ pid' = pid /\ file' = file
      /\ phase' = [phase EXCEPT ![p] = "off"] /\ stages' = [stages EXCEPT ![p] = {}]
      /\ lock' = (IF lock = p THEN Nobody ELSE lock)
  BY DEF Ends, PidInv
<1>2. /\ HolderInv(p) /\ phase'[p] = "off" /\ stages'[p] = {}
      /\ phase' \in [Procs -> {"off", "parse", "start", "run"}]
      /\ stages' \in [Procs -> SUBSET StageNames]
  BY <1>1 DEF PidInv
<1>3. \A q \in Procs : Nobody # q
  BY StartupAssumption DEF Nobody
<1>4. lock' # p /\ \A q \in Procs : q # p => (lock' = q <=> lock = q)
  BY <1>1, <1>3
<1>5. ~Waiting(p)' /\ ~Writing(p)'
  BY <1>2 DEF Waiting, Writing
<1>6. LeftInv(p)'
  BY <1>2 DEF LeftInv
<1>7. HolderInv(p)'
  BY <1>1, <1>2, <1>4, <1>5 DEF HolderInv, Me
<1> QED BY <1>1, <1>2, <1>4, <1>6, <1>7, OwnStep DEF PidInv

\* The steps that do nothing to all this.
LEMMA StillStep ==
  ASSUME PidInv, UNCHANGED <<argv, phase, stages, pid, lock, file>>
  PROVE  PidInv'
<1>1. \A p \in Procs : LeftInv(p)' /\ HolderInv(p)'
  BY DEF PidInv, LeftInv, HolderInv, Waiting, Writing, Me
<1> QED BY <1>1 DEF PidInv

LEMMA PidStep == PidInv /\ [StartupNext]_startVars => PidInv'
<1> SUFFICES ASSUME PidInv, [StartupNext]_startVars PROVE PidInv'
  OBVIOUS
<1>1. ASSUME NEW p \in DOMAIN argv, Starting(p) PROVE PidInv'
  <2>1. CASE ParseOption(p)
    BY <2>1, StillStep DEF ParseOption
  <2> QED
    BY <1>1, <2>1, ParseStep, DemonizeStep, OpenStep, LockStep, FailStep, TruncateStep, WriteStep,
       BindStep, EnterStep DEF Starting
<1>2. ASSUME NEW p \in DOMAIN argv, Start(p) PROVE PidInv'
  BY <1>2, StartStep
<1>3. ASSUME NEW p \in DOMAIN argv, Finish(p) \/ Killed(p) PROVE PidInv'
  BY <1>3, EndStep DEF Finish, Killed
<1>4. CASE UNCHANGED startVars
  BY <1>4, StillStep DEF startVars
<1> QED BY <1>1, <1>2, <1>3, <1>4 DEF StartupNext

\* Nobody has started.
LEMMA PidStarts == StartupInit => PidInv
<1> SUFFICES ASSUME StartupInit PROVE PidInv
  OBVIOUS
<1>1. /\ phase = [p \in Procs |-> "off"] /\ stages = [p \in Procs |-> {}]
      /\ pid = [p \in Procs |-> 0] /\ lock = Nobody /\ file = None
  BY DEF StartupInit
<1>2. DOMAIN argv \subseteq Procs
  BY StartupAssumption DEF StartupInit
<1>3. ASSUME NEW p \in Procs PROVE LeftInv(p) /\ HolderInv(p)
  <2>1. LeftInv(p)
    BY <1>1 DEF LeftInv
  <2>2. lock # p
    BY <1>1, StartupAssumption DEF Nobody
  <2>3. ASSUME NEW n PROVE file # <<p, n>>
    BY <1>1 DEF None
  <2>4. ~Waiting(p) /\ ~Writing(p)
    BY <1>1 DEF Waiting, Writing
  <2>5. HolderInv(p)
    BY <1>1, <2>2, <2>3, <2>4 DEF HolderInv
  <2> QED BY <2>1, <2>5
<1> QED BY <1>1, <1>2, <1>3 DEF PidInv

\* However many daemons share a pid file, whatever their command lines, and wherever they
\* are killed: the file has the pid of a daemon that runs exactly if that one has the lock.
THEOREM PidFileTrue == StartupSpec => []PidFileNamesHolder
<1>1. PidInv => PidFileNamesHolder
  <2> SUFFICES ASSUME PidInv, NEW p \in Procs, phase[p] = "run"
               PROVE  file = Me(p) <=> lock = p
    BY DEF PidFileNamesHolder, Runs
  <2>1. LeftInv(p) /\ HolderInv(p)
    BY DEF PidInv
  <2>2. ~Waiting(p) /\ ~Writing(p)
    BY <2>1 DEF LeftInv, Waiting, Writing
  <2> QED BY <2>1, <2>2 DEF HolderInv
<1> QED BY <1>1, PidStarts, PidStep, PTL DEF StartupSpec

-----------------------------------------------------------------------------
(* The options                                                             *)

AsksServer == {"-http", "-ssh", "-sntp", "-daytime", "-time", "-nist"}
Asked == {"HTTP", "SSH", "SNTP", "DAYTIME", "TIME", "NIST"}
Telling == {"-d", "-D", "-sntpd"}

\* The options that count among the first k: none behind -S.
Met(line, k) == {j \in 1..k : \A i \in 1..(j - 1) : line[i] # "-S"}

\* Whether it is a daemon, and in the background, is up to them.
DaemonTold(line, met, flags) ==
  /\ "SNTPD" \in flags => "DEMON" \in flags
  /\ "DEMON" \in flags <=> \E j \in met : line[j] \in Telling
  /\ "BACKGROUND" \in flags <=>
       \E j \in met : /\ line[j] \in {"-d", "-sntpd"}
                      /\ \A l \in met : line[l] \in Telling => l <= j

\* And so is the server.
Given(url) == url # NoUrl /\ url[2] = "given"
ServerTold(line, met, a) ==
  /\ (\E j \in met : line[j] \in AsksServer) /\ (\A j \in met : line[j] # "bcast") =>
       \E f \in Asked : f \in a.flags
  /\ \A h \in met :
       /\ line[h] = "host" /\ (\E j \in 1..(h - 1) : line[j] \in AsksServer)
       /\ \A j \in 1..(h - 1) : line[j] # "bcast"
       /\ \A j \in met : j > h => line[j] \notin OwnServer
       => Given(a.url)

TurnInv(line, k, a) ==
  /\ line \in Seq(Options) /\ k \in Nat /\ k <= Len(line)
  /\ k < Len(line) => \A i \in 1..k : line[i] # "-S"
  /\ DaemonTold(line, Met(line, k), a.flags) /\ ServerTold(line, Met(line, k), a)

OptionsInv ==
  /\ DOMAIN argv \subseteq Procs /\ DOMAIN args = Procs /\ DOMAIN turn = Procs /\ DOMAIN phase = Procs
  /\ \A p \in DOMAIN argv :
       /\ TurnInv(argv[p], turn[p], args[p])
       /\ phase[p] \in {"start", "run"} => turn[p] = Len(argv[p])

LEMMA NoneMet ==
  ASSUME NEW line \in Seq(Options)
  PROVE  TurnInv(line, 0, NoArgs)
<1>1. 1..0 = {}
  OBVIOUS
<1>2. Met(line, 0) = {} /\ Len(line) \in Nat
  BY <1>1 DEF Met
<1>3. NoArgs.flags = {}
  BY DEF NoArgs
<1>4. DaemonTold(line, {}, NoArgs.flags) /\ ServerTold(line, {}, NoArgs)
  BY <1>3 DEF DaemonTold, ServerTold
<1>5. Len(line) \in Nat /\ 0 <= Len(line) /\ 0 \in Nat
  OBVIOUS
<1>6. \A i \in 1..0 : line[i] # "-S"
  BY <1>1
<1>7. DaemonTold(line, Met(line, 0), NoArgs.flags) /\ ServerTold(line, Met(line, 0), NoArgs)
  BY <1>2, <1>4
<1> QED BY <1>5, <1>6, <1>7, Zenon DEF TurnInv

\* What one option does to the flags.
LEMMA FlagsTurn ==
  ASSUME NEW a, NEW o \in Options
  PROVE  LET flags == FlagsAfter(a, o) IN
         /\ "SNTPD" \in flags <=> "SNTPD" \in a.flags \/ o = "-sntpd"
         /\ "DEMON" \in flags <=> "DEMON" \in a.flags \/ o \in Telling
         /\ "BACKGROUND" \in flags <=>
              o \in {"-d", "-sntpd"} \/ ("BACKGROUND" \in a.flags /\ o # "-D")
         /\ o \in AsksServer => \E f \in Asked : f \in flags
         /\ o # "bcast" /\ (\E f \in Asked : f \in a.flags) => \E f \in Asked : f \in flags
<1>1. o \in {"-d", "-D", "-sntpd"} => "DEMON" \in Sets(o)
  BY DEF Sets
<1>2. o \notin {"-d", "-D", "-sntpd"} => "DEMON" \notin Sets(o) /\ "BACKGROUND" \notin Sets(o)
  BY DEF Sets, Options
<1>3. o \in {"-d", "-sntpd"} <=> "BACKGROUND" \in Sets(o)
  BY DEF Sets, Options
<1>4. o = "-sntpd" <=> "SNTPD" \in Sets(o)
  BY DEF Sets, Options
<1>5. o \in AsksServer => \E f \in Asked : f \in Sets(o)
  BY DEF Sets, AsksServer, Asked
<1>6. /\ o = "-D" => Clears(o) = {"BACKGROUND"}
      /\ o = "bcast" => Clears(o) = {"SNTP"}
      /\ o \notin {"-D", "bcast"} => Clears(o) = {}
  BY DEF Clears
<1>7. "BACKGROUND" \notin Asked /\ o \in AsksServer => o \notin {"-D", "bcast"}
  BY DEF Asked, AsksServer
<1>8. "BACKGROUND" \notin Asked
  BY DEF Asked
<1>9. \A f : f \in FlagsAfter(a, o) <=> (f \in a.flags \/ f \in Sets(o)) /\ f \notin Clears(o)
  BY DEF FlagsAfter
<1>10. "SNTPD" \notin Clears(o) /\ "DEMON" \notin Clears(o) /\ ("BACKGROUND" \in Clears(o) <=> o = "-D")
  BY <1>6
<1>11. "BACKGROUND" \in FlagsAfter(a, o) <=>
         o \in {"-d", "-sntpd"} \/ ("BACKGROUND" \in a.flags /\ o # "-D")
  BY <1>3, <1>9, <1>10
<1>12. o \in AsksServer => \E f \in Asked : f \in FlagsAfter(a, o)
  BY <1>5, <1>6, <1>7, <1>8, <1>9
<1>13. o # "bcast" /\ (\E f \in Asked : f \in a.flags) => \E f \in Asked : f \in FlagsAfter(a, o)
  BY <1>6, <1>8, <1>9
<1>14. "DEMON" \in FlagsAfter(a, o) <=> "DEMON" \in a.flags \/ o \in Telling
  BY <1>1, <1>2, <1>9, <1>10 DEF Telling
<1> QED BY <1>4, <1>9, <1>10, <1>11, <1>12, <1>13, <1>14

\* And to the server.
LEMMA ServerTurn ==
  ASSUME NEW a, NEW o \in Options
  PROVE  /\ o = "host" /\ (\E f \in Asked : f \in a.flags) => Given(UrlAfter(a, o))
         /\ Given(a.url) /\ o \notin OwnServer => Given(UrlAfter(a, o))
<1> DEFINE asked == {i \in DOMAIN Precedence : Precedence[i] \in a.flags}
           first == CHOOSE i \in asked : \A j \in asked : i <= j
<1>1. asked # {} => UrlOfHost(a) = <<Protocol[first], "given">>
  BY DEF UrlOfHost
<1>2. asked = {} => UrlOfHost(a) = a.url
  BY DEF UrlOfHost
<1>3. (\E f \in Asked : f \in a.flags) => asked # {}
  <2>1. /\ DOMAIN Precedence = 1..6
        /\ \A f \in Asked : \E i \in 1..6 : Precedence[i] = f
    BY DEF Precedence, Asked
  <2> QED BY <2>1
<1>4. \A x : Given(<<x, "given">>)
  BY DEF Given, NoUrl
<1> HIDE DEF asked, first
<1>5. o = "host" => UrlAfter(a, o) = UrlOfHost(a)
  BY DEF UrlAfter
<1>6. o = "url" => UrlAfter(a, o) = <<"any", "given">>
  BY DEF UrlAfter
<1>7. o \notin {"host", "url"} /\ o \notin OwnServer => UrlAfter(a, o) = a.url
  BY DEF UrlAfter
<1> QED BY <1>1, <1>2, <1>3, <1>4, <1>5, <1>6, <1>7

\* The option behind the first k is met, whatever k is then.
LEMMA MetGrows ==
  ASSUME NEW line \in Seq(Options), NEW k \in Nat, k < Len(line), \A i \in 1..k : line[i] # "-S",
         NEW n, n = (IF line[k + 1] = "-S" THEN Len(line) ELSE k + 1)
  PROVE  /\ n \in Nat /\ n <= Len(line) /\ k + 1 \in 1..Len(line) /\ line[k + 1] \in Options
         /\ Met(line, k) = 1..k /\ Met(line, n) = 1..(k + 1)
         /\ n < Len(line) => \A i \in 1..n : line[i] # "-S"
<1> DEFINE L == Len(line)
<1>1. L \in Nat /\ k + 1 \in 1..L /\ k + 1 \in Nat
  OBVIOUS
<1>2. line[k + 1] \in Options
  BY <1>1
<1> HIDE DEF L
<1>3. n \in Nat /\ n <= L /\ k + 1 <= n
  BY <1>1 DEF L
<1>4. Met(line, k) = 1..k
  BY DEF Met
<1>5. Met(line, n) = 1..(k + 1)
  <2>1. ASSUME NEW j \in 1..(k + 1) PROVE j \in Met(line, n)
    <3>1. j \in 1..n /\ \A i \in 1..(j - 1) : i \in 1..k
      BY <1>1, <1>3
    <3> QED BY <3>1 DEF Met
  <2>2. ASSUME NEW j \in Met(line, n) PROVE j \in 1..(k + 1)
    <3>1. j \in 1..n /\ \A i \in 1..(j - 1) : line[i] # "-S"
      BY DEF Met
    <3>2. CASE line[k + 1] = "-S"
      <4>1. k + 1 \notin 1..(j - 1)
        BY <3>1, <3>2
      <4> QED BY <1>1, <1>3, <3>1, <4>1
    <3>3. CASE line[k + 1] # "-S"
      BY <3>1, <3>3
    <3> QED BY <3>2, <3>3
  <2> QED BY <2>1, <2>2
<1>6. n < L => \A i \in 1..n : line[i] # "-S"
  <2> SUFFICES ASSUME n < L, NEW i \in 1..n PROVE line[i] # "-S"
    OBVIOUS
  <2>1. n = k + 1 /\ line[k + 1] # "-S"
    BY <1>1 DEF L
  <2>2. i = k + 1 \/ i \in 1..k
    BY <1>1, <2>1
  <2> QED BY <2>1, <2>2
<1> QED BY <1>1, <1>2, <1>3, <1>4, <1>5, <1>6 DEF L

LEMMA TurnKeeps ==
  ASSUME NEW line, NEW k, NEW a, TurnInv(line, k, a), k < Len(line), NEW n,
         n = (IF line[k + 1] = "-S" THEN Len(line) ELSE k + 1)
  PROVE  TurnInv(line, n, AfterOption(a, line[k + 1]))
<1> DEFINE o == line[k + 1]
           b == AfterOption(a, o)
           m == k + 1
<1>1. /\ line \in Seq(Options) /\ k \in Nat /\ \A i \in 1..k : line[i] # "-S"
      /\ DaemonTold(line, Met(line, k), a.flags) /\ ServerTold(line, Met(line, k), a)
  BY DEF TurnInv
<1>2. /\ n \in Nat /\ n <= Len(line) /\ m \in 1..Len(line) /\ o \in Options
      /\ Met(line, k) = 1..k /\ Met(line, n) = 1..m
      /\ n < Len(line) => \A i \in 1..n : line[i] # "-S"
  BY <1>1, MetGrows
<1>3. /\ b.flags = FlagsAfter(a, o) /\ b.url = UrlAfter(a, o)
  BY DEF AfterOption
<1> HIDE DEF b
<1>4. /\ "SNTPD" \in b.flags <=> "SNTPD" \in a.flags \/ o = "-sntpd"
      /\ "DEMON" \in b.flags <=> "DEMON" \in a.flags \/ o \in Telling
      /\ "BACKGROUND" \in b.flags <=> o \in {"-d", "-sntpd"} \/ ("BACKGROUND" \in a.flags /\ o # "-D")
      /\ o \in AsksServer => \E f \in Asked : f \in b.flags
      /\ o # "bcast" /\ (\E f \in Asked : f \in a.flags) => \E f \in Asked : f \in b.flags
  BY <1>2, <1>3, FlagsTurn
<1>5. /\ o = "host" /\ (\E f \in Asked : f \in a.flags) => Given(b.url)
      /\ Given(a.url) /\ o \notin OwnServer => Given(b.url)
  BY <1>2, <1>3, ServerTurn
<1>6. m \in 1..m /\ m \notin 1..k /\ 1..m = 1..k \cup {m} /\ \A j \in 1..k : j < m /\ ~(m <= j)
  BY <1>1
<1>7. DaemonTold(line, 1..k, a.flags) /\ ServerTold(line, 1..k, a)
  BY <1>1, <1>2
<1>8. o = line[m]
  OBVIOUS
<1>9. m - 1 = k /\ \A h \in 1..k : h - 1 < k
  BY <1>1
<1> HIDE DEF o, m
<1>10. DaemonTold(line, 1..m, b.flags)
  <2>1. "SNTPD" \in b.flags => "DEMON" \in b.flags
    BY <1>4, <1>7 DEF DaemonTold, Telling
  <2>2. "DEMON" \in b.flags <=> \E j \in 1..m : line[j] \in Telling
    BY <1>4, <1>6, <1>7, <1>8 DEF DaemonTold
  <2> DEFINE Shows(j, upto) == /\ line[j] \in {"-d", "-sntpd"}
                               /\ \A l \in 1..upto : line[l] \in Telling => l <= j
  <2>3. CASE o \in {"-d", "-sntpd"}
    <3>1. \A l \in 1..m : l <= m
      BY <1>1, <1>2
    <3>2. Shows(m, m)
      BY <1>8, <2>3, <3>1
    <3> QED BY <1>4, <1>6, <2>1, <2>2, <2>3, <3>2 DEF DaemonTold
  <2>4. CASE o = "-D"
    <3>1. ASSUME NEW j \in 1..m, Shows(j, m) PROVE FALSE
      <4>1. m <= j
        BY <1>6, <1>8, <2>4, <3>1 DEF Telling
      <4>2. j = m
        BY <1>6, <4>1
      <4> QED BY <1>8, <2>4, <3>1, <4>2
    <3> QED BY <1>4, <2>1, <2>2, <2>4, <3>1 DEF DaemonTold
  <2>5. CASE o \notin Telling
    <3>1. ASSUME NEW j \in 1..k PROVE Shows(j, k) <=> Shows(j, m)
      BY <1>6, <1>8, <2>5
    <3>2. ~Shows(m, m)
      BY <1>8, <2>5 DEF Telling
    <3>3. (\E j \in 1..k : Shows(j, k)) <=> (\E j \in 1..m : Shows(j, m))
      BY <1>6, <3>1, <3>2
    <3>4. "BACKGROUND" \in b.flags <=> "BACKGROUND" \in a.flags
      BY <1>4, <2>5 DEF Telling
    <3> QED BY <1>7, <2>1, <2>2, <3>3, <3>4 DEF DaemonTold
  <2> QED BY <2>3, <2>4, <2>5 DEF Telling
<1>11. ServerTold(line, 1..m, b)
  <2>1. ASSUME \E j \in 1..m : line[j] \in AsksServer, \A j \in 1..m : line[j] # "bcast"
        PROVE  \E f \in Asked : f \in b.flags
    <3>1. o # "bcast"
      BY <1>6, <1>8, <2>1
    <3>2. CASE o \in AsksServer
      BY <1>4, <3>2
    <3>3. CASE \E j \in 1..k : line[j] \in AsksServer
      BY <1>4, <1>6, <1>7, <2>1, <3>1, <3>3 DEF ServerTold
    <3> QED BY <1>6, <1>8, <2>1, <3>2, <3>3
  <2>2. ASSUME NEW h \in 1..m, line[h] = "host", \E j \in 1..(h - 1) : line[j] \in AsksServer,
               \A j \in 1..(h - 1) : line[j] # "bcast",
               \A j \in 1..m : j > h => line[j] \notin OwnServer
        PROVE  Given(b.url)
    <3>1. CASE h = m
      <4>1. \E f \in Asked : f \in a.flags
        BY <1>7, <1>9, <2>2, <3>1 DEF ServerTold
      <4> QED BY <1>5, <1>8, <2>2, <3>1, <4>1
    <3>2. CASE h # m
      <4>1. h \in 1..k /\ m > h
        BY <1>6, <3>2, <1>1, <1>2
      <4>2. \A j \in 1..k : j > h => line[j] \notin OwnServer
        BY <1>6, <2>2
      <4>3. Given(a.url)
        BY <1>7, <2>2, <4>1, <4>2 DEF ServerTold
      <4>4. o \notin OwnServer
        BY <1>6, <1>8, <2>2, <4>1
      <4> QED BY <1>5, <4>3, <4>4
    <3> QED BY <3>1, <3>2
  <2> QED BY <2>1, <2>2 DEF ServerTold
<1> QED BY <1>1, <1>2, <1>10, <1>11 DEF TurnInv, b, o

LEMMA OptionsStart == StartupInit => OptionsInv
<1> SUFFICES ASSUME StartupInit PROVE OptionsInv
  OBVIOUS
<1>1. /\ DOMAIN argv \subseteq Procs /\ \A p \in DOMAIN argv : argv[p] \in Seq(Options)
  BY StartupAssumption DEF StartupInit
<1>2. \A p \in Procs : args[p] = NoArgs /\ turn[p] = 0 /\ phase[p] = "off"
  BY DEF StartupInit
<1>3. DOMAIN args = Procs /\ DOMAIN turn = Procs /\ DOMAIN phase = Procs
  BY DEF StartupInit
<1> QED BY <1>1, <1>2, <1>3, NoneMet DEF OptionsInv

\* A step of one of them.
LEMMA OptionsOf ==
  ASSUME OptionsInv, NEW p \in DOMAIN argv, argv' = argv, NEW a, NEW k, NEW ph,
         \/ args' = [args EXCEPT ![p] = a]
         \/ args' = args /\ a = args[p],
         \/ turn' = [turn EXCEPT ![p] = k]
         \/ turn' = turn /\ k = turn[p],
         \/ phase' = [phase EXCEPT ![p] = ph]
         \/ phase' = phase /\ ph = phase[p],
         TurnInv(argv[p], k, a), ph \in {"start", "run"} => k = Len(argv[p])
  PROVE  OptionsInv'
<1>1. p \in Procs /\ DOMAIN args' = Procs /\ DOMAIN turn' = Procs /\ DOMAIN phase' = Procs
  BY DEF OptionsInv
<1>2. args'[p] = a /\ turn'[p] = k /\ phase'[p] = ph
  BY <1>1 DEF OptionsInv
<1>3. \A q \in Procs : q # p => args'[q] = args[q] /\ turn'[q] = turn[q] /\ phase'[q] = phase[q]
  BY DEF OptionsInv
<1>4. ASSUME NEW q \in DOMAIN argv
      PROVE  /\ TurnInv(argv[q], turn'[q], args'[q])
             /\ phase'[q] \in {"start", "run"} => turn'[q] = Len(argv[q])
  <2>1. CASE q = p
    BY <1>2, <2>1
  <2>2. CASE q # p
    BY <1>3, <2>2 DEF OptionsInv
  <2> QED BY <2>1, <2>2
<1> QED BY <1>1, <1>4 DEF OptionsInv

LEMMA OptionsKeep == OptionsInv /\ [StartupNext]_startVars => OptionsInv'
<1> SUFFICES ASSUME OptionsInv, [StartupNext]_startVars PROVE OptionsInv'
  OBVIOUS
<1>1. CASE UNCHANGED startVars
  BY <1>1 DEF startVars, OptionsInv
<1>2. CASE StartupNext
  <2> PICK p \in DOMAIN argv : Start(p) \/ Starting(p) \/ Finish(p) \/ Killed(p)
    BY <1>2 DEF StartupNext
  <2>1. /\ TurnInv(argv[p], turn[p], args[p]) /\ argv[p] \in Seq(Options)
        /\ phase[p] \in {"start", "run"} => turn[p] = Len(argv[p])
    BY DEF OptionsInv, TurnInv
  <2>2. CASE Start(p) \/ Ends(p)
    <3>1. /\ argv' = argv /\ args' = [args EXCEPT ![p] = NoArgs] /\ turn' = [turn EXCEPT ![p] = 0]
          /\ phase' = [phase EXCEPT ![p] = "parse"] \/ phase' = [phase EXCEPT ![p] = "off"]
      BY <2>2 DEF Start, Ends
    <3>2. TurnInv(argv[p], 0, NoArgs)
      BY <2>1, NoneMet
    <3>3. PICK ph \in {"parse", "off"} : phase' = [phase EXCEPT ![p] = ph]
      BY <3>1
    <3>4. ph \in {"start", "run"} => 0 = Len(argv[p])
      OBVIOUS
    <3> QED BY <3>1, <3>2, <3>3, <3>4, OptionsOf, Zenon
  <2>3. CASE ParseOption(p)
    <3> DEFINE k == turn[p]
               n == IF argv[p][k + 1] = "-S" THEN Len(argv[p]) ELSE k + 1
               a == AfterOption(args[p], argv[p][k + 1])
    <3>1. /\ argv' = argv /\ phase' = phase /\ phase[p] = "parse" /\ k < Len(argv[p])
          /\ args' = [args EXCEPT ![p] = a] /\ turn' = [turn EXCEPT ![p] = n]
      BY <2>3 DEF ParseOption
    <3>2. TurnInv(argv[p], n, a)
      BY <2>1, <3>1, TurnKeeps
    <3>3. phase[p] \notin {"start", "run"}
      BY <3>1
    <3> HIDE DEF n, a
    <3>4. /\ args' = [args EXCEPT ![p] = a] \/ (args' = args /\ a = args[p])
          /\ turn' = [turn EXCEPT ![p] = n] \/ (turn' = turn /\ n = turn[p])
          /\ phase' = [phase EXCEPT ![p] = phase[p]] \/ (phase' = phase /\ phase[p] = phase[p])
          /\ phase[p] \in {"start", "run"} => n = Len(argv[p])
      BY <3>1, <3>3
    <3>5. argv' = argv
      BY <3>1
    <3> QED BY <3>2, <3>4, <3>5, OptionsOf, Zenon
  <2>4. CASE EndOfOptions(p)
    <3>1. /\ argv' = argv /\ args' = args /\ turn' = turn /\ phase' = [phase EXCEPT ![p] = "start"]
          /\ turn[p] = Len(argv[p])
      BY <2>4 DEF EndOfOptions
    <3> QED BY <2>1, <3>1, OptionsOf
  <2>5. CASE EnterLoop(p)
    <3>1. /\ argv' = argv /\ args' = args /\ turn' = turn /\ phase' = [phase EXCEPT ![p] = "run"]
          /\ phase[p] = "start"
      BY <2>5 DEF EnterLoop
    <3> QED BY <2>1, <3>1, OptionsOf
  <2>6. CASE \/ Demonize(p) \/ OpenPidFile(p) \/ LockPidFile(p) \/ LockFails(p) \/ TruncatePidFile(p)
             \/ WritePid(p) \/ BindPort(p)
    <3>1. UNCHANGED <<argv, args, turn, phase>>
      BY <2>6 DEF Demonize, OpenPidFile, LockPidFile, LockFails, TruncatePidFile, WritePid, BindPort, At
    <3> QED BY <2>1, <3>1, OptionsOf
  <2> QED BY <2>2, <2>3, <2>4, <2>5, <2>6 DEF Starting, Finish, Killed
<1> QED BY <1>1, <1>2

LEMMA OptionsAre == OptionsInv => OptionsObeyed
<1> SUFFICES ASSUME OptionsInv PROVE OptionsObeyed
  OBVIOUS
<1>1. ASSUME NEW p \in DOMAIN argv, phase[p] \in {"start", "run"}
      PROVE  /\ Before(argv[p]) = Met(argv[p], Len(argv[p]))
             /\ DaemonTold(argv[p], Before(argv[p]), args[p].flags)
             /\ ServerTold(argv[p], Before(argv[p]), args[p])
  <2>1. TurnInv(argv[p], Len(argv[p]), args[p])
    BY <1>1 DEF OptionsInv
  <2>2. argv[p] \in Seq(Options)
    BY <2>1 DEF TurnInv
  <2>3. DOMAIN argv[p] = 1..Len(argv[p])
    BY <2>2
  <2>4. Before(argv[p]) = Met(argv[p], Len(argv[p]))
    BY <2>3 DEF Before, Met
  <2> QED BY <2>1, <2>4 DEF TurnInv
<1>2. LastTells
  <2> SUFFICES ASSUME NEW p \in DOMAIN argv, phase[p] \in {"start", "run"}
               PROVE  LET flags == args[p].flags
                          tells == Tells(argv[p]) IN
                      /\ "SNTPD" \in flags => "DEMON" \in flags
                      /\ "DEMON" \in flags <=> tells # {}
                      /\ "BACKGROUND" \in flags <=>
                           \E k \in tells : argv[p][k] # "-D" /\ \A l \in tells : l <= k
    BY DEF LastTells
  <2>1. DaemonTold(argv[p], Before(argv[p]), args[p].flags)
    BY <1>1
  <2>2. \A k : k \in Tells(argv[p]) <=> k \in Before(argv[p]) /\ argv[p][k] \in Telling
    BY DEF Tells, Telling
  <2>3. \A x : x \in {"-d", "-sntpd"} <=> x \in Telling /\ x # "-D"
    BY DEF Telling
  <2> QED BY <2>1, <2>2, <2>3 DEF DaemonTold
<1>3. HostIsAsked
  <2> SUFFICES ASSUME NEW p \in DOMAIN argv, phase[p] \in {"start", "run"}, NEW k \in Before(argv[p]),
                      argv[p][k] = "host", \E j \in 1..(k - 1) : argv[p][j] \in AsksServer,
                      \A j \in 1..(k - 1) : argv[p][j] # "bcast",
                      \A j \in Before(argv[p]) : j > k => argv[p][j] \notin OwnServer
               PROVE  Given(args[p].url)
    BY DEF HostIsAsked, AsksServer, Given
  <2> QED BY <1>1 DEF ServerTold
<1> QED BY <1>2, <1>3 DEF OptionsObeyed

-----------------------------------------------------------------------------
(* The time that is typed                                                  *)

SetInv == typed \in Forms /\ TypedIsSet

\* The forms, and what they are known by.
LEMMA FormsAre ==
  ASSUME typed \in Forms
  PROVE  \/ \E f \in Times \cup Dates \cup Named : typed = <<f>>
         \/ \E d \in Dates, t \in Times : typed = <<d, t>> \/ typed = <<t, d>>
BY DEF Forms

LEMMA FieldsAre ==
  /\ \A t \in Times : t.kind = "time" /\ t.sep \in {":", "."}
  /\ \A d \in Dates : d.kind = "date" /\ d.full \in BOOLEAN
  /\ \A n \in Named : n.kind = "named"
  /\ NoField.kind = "none"
BY DEF Times, Dates, Named, NoField

\* A single field.
LEMMA AloneSet ==
  ASSUME NEW f \in Times \cup Dates, typed = <<f>>, Understood
  PROVE  /\ f \in Times => DateField = NoField /\ TimeField # NoField
         /\ f \in Dates => DateField = f /\ f # NoField /\ TimeField = NoField /\ DateOf(f) = "typed"
         /\ Has("time") <=> f \in Times
         /\ Has("date") <=> f \in Dates
<1>1. DOMAIN typed = {1} /\ typed[1] = f /\ Len(typed) = 1
  OBVIOUS
<1>2. Second = NoField
  BY <1>1 DEF Second
<1>3. \A kind : Has(kind) <=> f.kind = kind
  BY <1>1 DEF Has
<1>4. CASE f \in Times
  <2>1. f.kind = "time" /\ f.sep \in {":", "."} /\ NoField.kind = "none"
    BY <1>4, FieldsAre
  <2>2. Reversed /\ f # NoField
    BY <1>1, <2>1 DEF Reversed
  <2>3. f \notin Dates
    BY <2>1, FieldsAre
  <2> QED BY <1>1, <1>2, <1>3, <1>4, <2>1, <2>2, <2>3 DEF DateField, TimeField
<1>5. CASE f \in Dates
  <2>1. f.kind = "date" /\ NoField.kind = "none"
    BY <1>5, FieldsAre
  <2>2. f.full /\ f.sep \in {"/", "-", "_"}
    BY <1>1, <2>1 DEF Understood
  <2>3. ~Reversed /\ f # NoField
    BY <1>1, <2>1, <2>2 DEF Reversed
  <2>4. DateOf(f) = "typed"
    BY <2>2 DEF DateOf, Splits
  <2>5. f \notin Times
    BY <2>1, FieldsAre
  <2> QED BY <1>1, <1>2, <1>3, <1>5, <2>1, <2>3, <2>4, <2>5 DEF DateField, TimeField
<1> QED BY <1>4, <1>5

\* Two, in either order.
LEMMA BothSet ==
  ASSUME NEW d \in Dates, NEW t \in Times, typed = <<d, t>> \/ typed = <<t, d>>, Understood
  PROVE  /\ DateField = d /\ d # NoField /\ DateOf(d) = "typed"
         /\ TimeField # NoField
         /\ Has("time") /\ Has("date")
<1>1. /\ d.kind = "date" /\ t.kind = "time" /\ t.sep \in {":", "."} /\ NoField.kind = "none"
  BY FieldsAre
<1>2. DOMAIN typed = {1, 2} /\ Len(typed) = 2
  OBVIOUS
<1>3. (typed[1] = d /\ typed[2] = t) \/ (typed[1] = t /\ typed[2] = d)
  OBVIOUS
<1>4. Second = typed[2]
  BY <1>2 DEF Second
<1>5. d.full /\ d.sep \in {"/", "-", "_"}
  BY <1>1, <1>2, <1>3, ZenonT(30) DEF Understood
<1>6. DateOf(d) = "typed"
  BY <1>5 DEF DateOf, Splits
<1>7. Has("time") /\ Has("date")
  BY <1>1, <1>2, <1>3 DEF Has
<1>8. DateField = d /\ TimeField = t
  BY <1>1, <1>3, <1>4, <1>5 DEF DateField, TimeField, Reversed
<1> QED BY <1>1, <1>6, <1>7, <1>8

LEMMA SetStart == SetTimeInit => SetInv
BY DEF SetTimeInit, SetInv, TypedIsSet

\* The time is set once, and to what was typed.
LEMMA SetStep == SetInv /\ [SetTimeFromCommandLine]_setTimeVars => SetInv'
<1> SUFFICES ASSUME SetInv, [SetTimeFromCommandLine]_setTimeVars PROVE SetInv'
  OBVIOUS
<1>1. CASE UNCHANGED setTimeVars
  BY <1>1 DEF setTimeVars, SetInv, TypedIsSet, Understood, Has
<1>2. CASE SetTimeFromCommandLine
  <2>1. typed' = typed /\ typed \in Forms
    BY <1>2 DEF SetTimeFromCommandLine, SetInv
  <2>2. ASSUME Understood
        PROVE  /\ time'.date = IF Has("time") /\ ~Has("date") THEN "today" ELSE "typed"
               /\ time'.time = IF Has("date") /\ ~Has("time") THEN "now" ELSE "typed"
    <3>1. CASE SetFromFields
      <4>1. /\ typed[1].kind # "named"
            /\ time'.date = IF DateField = NoField THEN "today" ELSE DateOf(DateField)
            /\ time'.time = IF TimeField = NoField THEN "now" ELSE "typed"
        BY <3>1 DEF SetFromFields
      <4>2. CASE \E f \in Times \cup Dates \cup Named : typed = <<f>>
        <5> PICK f \in Times \cup Dates \cup Named : typed = <<f>>
          BY <4>2
        <5>1. f \in Times \cup Dates
          BY <4>1, FieldsAre
        <5>2. f \in Times => f \notin Dates
          BY FieldsAre
        <5> QED BY <2>2, <4>1, <5>1, <5>2, AloneSet
      <4>3. CASE \E d \in Dates, t \in Times : typed = <<d, t>> \/ typed = <<t, d>>
        BY <2>2, <4>1, <4>3, BothSet
      <4> QED BY <2>1, <4>2, <4>3, FormsAre
    <3>2. CASE SetFromNames
      <4>1. typed[1].kind = "named" /\ time'.time = "typed"
        BY <3>2 DEF SetFromNames
      <4>2. ~(\E d \in Dates, t \in Times : typed = <<d, t>> \/ typed = <<t, d>>)
        BY <4>1, FieldsAre
      <4> PICK f \in Times \cup Dates \cup Named : typed = <<f>>
        BY <2>1, <4>2, FormsAre
      <4>3. DOMAIN typed = {1} /\ typed[1] = f
        OBVIOUS
      <4>4. ~Has("date") /\ ~Has("time") /\ typed[1].zone = "none"
        BY <2>2, <4>1, <4>3 DEF Has, Understood
      <4>5. time'.date = "typed"
        BY <3>2, <4>4 DEF SetFromNames
      <4> QED BY <4>1, <4>4, <4>5
    <3> QED BY <1>2, <3>1, <3>2 DEF SetTimeFromCommandLine
  <2>3. Understood' = Understood /\ \A kind : Has(kind)' = Has(kind)
    BY <2>1 DEF Understood, Has
  <2> QED BY <2>1, <2>2, <2>3 DEF SetInv, TypedIsSet
<1> QED BY <1>1, <1>2

-----------------------------------------------------------------------------
\* For every set of daemons and all their command lines, of any length, and for every
\* date and time in the forms of the manual: the options do what the manual says of
\* them in whatever order they come, and the time that is set is the one that was typed
\* (command-line-args.c, CommandLineParse; main.c, SetTimeFromCommandLine).
THEOREM TypedIsDone == Spec => []CommandsObeyed
<1>1. Init => OptionsInv /\ SetInv
  BY OptionsStart, SetStart DEF Init
<1>2. OptionsInv /\ SetInv /\ [Daemon \/ Typed \/ Looping \/ Logging \/ Spawning \/ Configuring]_programVars
        => (OptionsInv /\ SetInv)'
  <2> SUFFICES ASSUME OptionsInv, SetInv,
                      [Daemon \/ Typed \/ Looping \/ Logging \/ Spawning \/ Configuring]_programVars
               PROVE  OptionsInv' /\ SetInv'
    OBVIOUS
  <2>1. [StartupNext]_startVars
    BY DEF Daemon, Typed, Looping, Logging, Spawning, Configuring, programVars
  <2>2. [SetTimeFromCommandLine]_setTimeVars
    BY DEF Daemon, Typed, Looping, Logging, Spawning, Configuring, programVars
  <2> QED BY <2>1, <2>2, OptionsKeep, SetStep
<1>3. OptionsInv /\ SetInv => CommandsObeyed
  BY OptionsAre DEF SetInv, CommandsObeyed
<1> QED BY <1>1, <1>2, <1>3, PTL DEF Spec

-----------------------------------------------------------------------------
(* The zone of the hardware clock                                          *)

AsksDaytime == chain = <<"daytime">>

\* A daytime server is asked by nobody else, and its dates are shown in the zone that
\* was kept; with the others TZ is left as it was, but an empty one.
ShownInv ==
  /\ todo \in Seq(Kinds)
  /\ \A i \in 1..Len(todo) : todo[i] = "daytime" <=> AsksDaytime
  /\ got # Nothing /\ AsksDaytime => shown = Restored(remote)
  /\ got # Nothing /\ ~AsksDaytime /\ shown # "" => tz = shown

\* Who asks has a server to ask.
AskedInv == pc \in {"ask", "read"} => todo # <<>>

LEMMA AskedStep == AskedInv /\ [SourcesNext]_sourceVars => AskedInv'
BY DEF AskedInv, SourcesNext, Loop, Ask, ServerEnds, Top, Receive, Select, NoAnswer, Connect,
       ExactTime, ShortTime, HttpDate, OtherDaytimeLine, DaytimeLine, DaytimeCrash, OtherSshLine,
       SshDate, SshEnd, ZoneChanges, Arrive, Failed, AskNext, HandedOver, sourceVars

\* A chain is one server, or the default.
LEMMA ChainOnce ==
  ASSUME NEW c \in Chains
  PROVE  c \in Seq(Kinds) /\ \A i \in 1..Len(c) : c[i] = "daytime" <=> c = <<"daytime">>
<1>1. CASE c = DefaultServers
  BY <1>1 DEF DefaultServers, Kinds
<1>2. CASE \E kind \in Kinds : c = <<kind>>
  <2> PICK kind \in Kinds : c = <<kind>>
    BY <1>2
  <2>1. Len(c) = 1 /\ c[1] = kind /\ c \in Seq(Kinds)
    OBVIOUS
  <2>2. c = <<"daytime">> <=> kind = "daytime"
    OBVIOUS
  <2> QED BY <2>1, <2>2
<1> QED BY <1>1, <1>2, SourcesAssumption

\* Who is asked next is one of the servers that were left.
LEMMA TodoStays ==
  ASSUME ShownInv, chain \in Chains, chain' = chain,
         todo' = todo \/ todo' = chain \/ todo' = <<>> \/ (todo # <<>> /\ todo' = Tail(todo))
  PROVE  todo' \in Seq(Kinds) /\ \A i \in 1..Len(todo') : todo'[i] = "daytime" <=> AsksDaytime'
<1>1. AsksDaytime' <=> AsksDaytime
  BY DEF AsksDaytime
<1>2. CASE todo' = todo
  <2>1. todo \in Seq(Kinds) /\ \A i \in 1..Len(todo) : todo[i] = "daytime" <=> AsksDaytime
    BY DEF ShownInv
  <2> QED BY <1>1, <1>2, <2>1
<1>5. CASE todo' = <<>>
  <2>1. <<>> \in Seq(Kinds) /\ Len(<<>>) = 0
    OBVIOUS
  <2> QED BY <1>5, <2>1
<1>3. CASE todo' = chain
  BY <1>1, <1>3, ChainOnce DEF AsksDaytime
<1>4. CASE todo # <<>> /\ todo' = Tail(todo)
  <2> DEFINE t == Tail(todo)
  <2>0. todo \in Seq(Kinds)
    BY DEF ShownInv
  <2>1. t \in Seq(Kinds) /\ \A i \in 1..Len(t) : t[i] = todo[i + 1] /\ i + 1 \in 1..Len(todo)
    BY <1>4, <2>0
  <2> QED BY <1>1, <1>4, <2>1 DEF ShownInv
<1> QED BY <1>2, <1>3, <1>4, <1>5

RtcStep == got # Nothing /\ given' # given => shown' = shown \/ shown = ""

\* A time that is handed over.
LEMMA HandedStep ==
  ASSUME ShownInv, chain \in Chains, chain' = chain, todo # <<>>, NEW error, NEW zone,
         HandedOver(error, zone),
         AsksDaytime => zone = Restored(remote) /\ remote' = remote,
         ~AsksDaytime => zone = tz \/ zone = Restored(tz)
  PROVE  ShownInv' /\ RtcStep
<1>1. /\ todo' = <<>> /\ tz' = zone /\ shown' = zone /\ got' = [kind |-> Head(todo), zone |-> serverZone, error |-> error]
  BY DEF HandedOver, AskNext
<1>2. AsksDaytime' <=> AsksDaytime
  BY DEF AsksDaytime
<1>3. todo' \in Seq(Kinds) /\ \A i \in 1..Len(todo') : todo'[i] = "daytime" <=> AsksDaytime'
  BY <1>1, TodoStays
<1>4. AsksDaytime => shown' = Restored(remote)'
  BY <1>1 DEF Restored
<1>5. ShownInv'
  BY <1>1, <1>2, <1>3, <1>4 DEF ShownInv
<1>6. ASSUME got # Nothing, shown # "" PROVE shown' = shown
  <2>1. CASE AsksDaytime
    BY <1>1, <1>6, <2>1 DEF ShownInv
  <2>2. CASE ~AsksDaytime
    <3>1. tz = shown
      BY <1>6, <2>2 DEF ShownInv
    <3> QED BY <1>1, <1>6, <2>2, <3>1 DEF Restored
  <2> QED BY <2>1, <2>2
<1> QED BY <1>5, <1>6 DEF RtcStep

\* One that is not.
LEMMA HiddenStep ==
  ASSUME ShownInv, chain \in Chains, chain' = chain, given' = given,
         todo' = todo \/ todo' = chain \/ todo' = <<>> \/ (todo # <<>> /\ todo' = Tail(todo)),
         AsksDaytime => remote' = remote,
         ~AsksDaytime => tz' = tz \/ tz' = Restored(tz)
  PROVE  ShownInv' /\ RtcStep
<1>1. got' = got /\ shown' = shown
  BY DEF given
<1>2. AsksDaytime' <=> AsksDaytime
  BY DEF AsksDaytime
<1>3. todo' \in Seq(Kinds) /\ \A i \in 1..Len(todo') : todo'[i] = "daytime" <=> AsksDaytime'
  BY TodoStays
<1>4. AsksDaytime => Restored(remote)' = Restored(remote)
  BY DEF Restored
<1>5. ~AsksDaytime /\ tz # "" => tz' = tz
  BY DEF Restored
<1> QED BY <1>1, <1>2, <1>3, <1>4, <1>5 DEF ShownInv, RtcStep

LEMMA ShownStep ==
  ShownInv /\ AskedInv /\ chain \in Chains /\ [SourcesNext]_sourceVars
    => ShownInv' /\ RtcStep /\ (chain \in Chains)'
<1> SUFFICES ASSUME ShownInv, AskedInv, chain \in Chains, [SourcesNext]_sourceVars
             PROVE  ShownInv' /\ RtcStep /\ chain' = chain
  OBVIOUS
<1>0. todo # <<>> => (Head(todo) = "daytime" <=> AsksDaytime)
  <2> SUFFICES ASSUME todo # <<>> PROVE Head(todo) = "daytime" <=> AsksDaytime
    OBVIOUS
  <2>0. todo \in Seq(Kinds)
    BY DEF ShownInv
  <2>1. 1 \in 1..Len(todo) /\ Head(todo) = todo[1]
    BY <2>0
  <2> QED BY <2>1 DEF ShownInv
<1>1. CASE Top \/ Receive \/ Select
  <2>1. /\ chain' = chain /\ given' = given /\ remote' = remote /\ tz' = tz
        /\ todo' \in {todo, chain, <<>>}
    BY <1>1 DEF Top, Receive, Select, AskNext, fixed, zoneVars, given
  <2> QED BY <2>1, HiddenStep
<1>2. CASE ExactTime \/ ShortTime
  <2>1. /\ chain' = chain /\ todo # <<>> /\ ~AsksDaytime
        /\ \E error \in {0, Garbage} : HandedOver(error, tz)
    BY <1>0, <1>2 DEF ExactTime, ShortTime, Asking, fixed
  <2> QED BY <2>1, HandedStep
<1>3. CASE HttpDate \/ SshDate
  <2>1. /\ chain' = chain /\ todo # <<>> /\ ~AsksDaytime
        /\ HandedOver(ParseError(remote'), Restored(tz))
    BY <1>0, <1>3 DEF HttpDate, SshDate, Asking, fixed
  <2> QED BY <2>1, HandedStep
<1>4. CASE DaytimeLine
  <2>1. /\ chain' = chain /\ todo # <<>> /\ AsksDaytime /\ remote' = remote
        /\ HandedOver(ParseError(remote), Restored(remote))
    BY <1>0, <1>4 DEF DaytimeLine, Asking, fixed
  <2> QED BY <2>1, HandedStep
<1>5. CASE NoAnswer \/ Connect \/ DaytimeCrash \/ SshEnd \/ ZoneChanges \/ Arrive
  <2>1. /\ chain' = chain /\ given' = given /\ remote' = remote /\ tz' = tz
        /\ todo' = todo \/ todo' = Tail(todo)
    BY <1>5 DEF NoAnswer, Connect, DaytimeCrash, SshEnd, ZoneChanges, Arrive, Failed, AskNext, fixed, zoneVars, given
  <2>2. todo' = todo \/ (todo # <<>> /\ todo' = Tail(todo))
    BY <1>5 DEF NoAnswer, Connect, DaytimeCrash, SshEnd, ZoneChanges, Arrive, Failed, AskNext, Asking, AskedInv
  <2> QED BY <2>1, <2>2, HiddenStep
<1>6. CASE OtherDaytimeLine
  <2>1. /\ chain' = chain /\ given' = given /\ remote' = remote /\ AsksDaytime
        /\ todo # <<>> /\ todo' = Tail(todo)
    BY <1>0, <1>6 DEF OtherDaytimeLine, Asking, Failed, AskNext, fixed, given
  <2> QED BY <2>1, HiddenStep
<1>7. CASE OtherSshLine
  <2>1. /\ chain' = chain /\ given' = given /\ tz' = Restored(tz) /\ ~AsksDaytime /\ todo' = todo
    BY <1>0, <1>7 DEF OtherSshLine, Asking, fixed, given
  <2> QED BY <2>1, HiddenStep
<1>8. CASE UNCHANGED sourceVars
  <2>1. /\ chain' = chain /\ given' = given /\ remote' = remote /\ tz' = tz /\ todo' = todo
    BY <1>8 DEF sourceVars, given
  <2> QED BY <2>1, HiddenStep
<1> QED BY <1>1, <1>2, <1>3, <1>4, <1>5, <1>6, <1>7, <1>8 DEF SourcesNext, Loop, Ask, ServerEnds

\* Whatever zones there are and whatever the servers send, the hardware clock is set in
\* one zone: TZ is left as it was when the first time was handed over, unless it was empty
\* (main.c:158 and 373, libUseful's DateStrToSecs).
THEOREM RtcInOneZone == SourcesSpec => RtcSameZone
<1>1. SourcesInit => ShownInv /\ AskedInv /\ chain \in Chains
  BY DEF SourcesInit, ShownInv, AskedInv
<1>2. ShownInv /\ AskedInv /\ chain \in Chains /\ [SourcesNext]_sourceVars
        => /\ ShownInv' /\ (chain \in Chains)'
           /\ [got # Nothing /\ given' # given => shown' = shown \/ shown = ""]_sourceVars
  BY ShownStep DEF RtcStep
<1> QED BY <1>1, <1>2, AskedStep, PTL DEF SourcesSpec, RtcSameZone

-----------------------------------------------------------------------------
(* What a process does with its config                                     *)

\* Any natural numbers have a smallest.
LEMMA HasSmallest ==
  ASSUME NEW T \in SUBSET Nat, T # {}
  PROVE  \E i \in T : \A j \in T : i <= j
<1> DEFINE R == OpToRel(<, Nat)
<1>1. \A i, j \in Nat : j < i => <<j, i>> \in R
  BY DEF OpToRel
<1>2. IsWellFoundedOn(R, Nat)
  BY NatLessThanWellFounded
<1> HIDE DEF R
<1>3. PICK i \in T : \A j \in T : <<j, i>> \notin R
  BY <1>2, WFMin
<1>4. ASSUME NEW j \in T PROVE i <= j
  <2>1. i \in Nat /\ j \in Nat
    OBVIOUS
  <2>2. ~(j < i)
    BY <1>1, <1>3, <2>1
  <2> QED BY <2>1, <2>2
<1> QED BY <1>4

\* f has what is chosen of the first n words of a line.
Chosen(f, line, words, n) ==
  /\ DOMAIN f = 0..n
  /\ f[0] = <<>>
  /\ \A i \in 1..n : f[i] = IF line[i] \in words THEN Append(f[i - 1], line[i]) ELSE f[i - 1]

\* Such an f exists, so that the recursion of Only has a value.
LEMMA ChosenExist ==
  ASSUME NEW S, NEW line \in Seq(S), NEW words, NEW n \in 0..Len(line)
  PROVE  \E f \in [0..n -> Seq(S)] : Chosen(f, line, words, n)
<1> DEFINE Exists(m) == \E f \in [0..m -> Seq(S)] : Chosen(f, line, words, m)
           T == {m \in 0..Len(line) : ~Exists(m)}
<1>1. Exists(0)
  <2>1. [i \in 0..0 |-> <<>>] \in [0..0 -> Seq(S)]
    OBVIOUS
  <2>2. Chosen([i \in 0..0 |-> <<>>], line, words, 0)
    BY DEF Chosen
  <2> QED BY <2>1, <2>2
<1>2. ASSUME NEW m \in 0..Len(line), m + 1 <= Len(line), Exists(m) PROVE Exists(m + 1)
  <2>1. PICK f \in [0..m -> Seq(S)] : Chosen(f, line, words, m)
    BY <1>2
  <2>2. m + 1 \in 1..Len(line) /\ line[m + 1] \in S /\ f[m] \in Seq(S)
    BY <1>2, ElementOfSeq
  <2> DEFINE new == IF line[m + 1] \in words THEN Append(f[m], line[m + 1]) ELSE f[m]
             g == [i \in 0..(m + 1) |-> IF i = m + 1 THEN new ELSE f[i]]
  <2>3. new \in Seq(S)
    BY <2>2, AppendProperties
  <2> HIDE DEF new
  <2>4. g \in [0..(m + 1) -> Seq(S)]
    BY <2>3
  <2>5. ASSUME NEW i \in 1..(m + 1)
        PROVE  g[i] = IF line[i] \in words THEN Append(g[i - 1], line[i]) ELSE g[i - 1]
    <3>1. CASE i = m + 1
      <4>1. g[i] = new /\ g[i - 1] = f[m]
        BY <3>1
      <4> QED BY <3>1, <4>1 DEF new
    <3>2. CASE i # m + 1
      <4>1. i \in 1..m /\ g[i] = f[i] /\ g[i - 1] = f[i - 1]
        BY <3>2
      <4> HIDE DEF g
      <4> QED BY <2>1, <4>1 DEF Chosen
    <3> QED BY <3>1, <3>2
  <2>6. g[0] = <<>>
    BY <2>1 DEF Chosen
  <2>7. Chosen(g, line, words, m + 1)
    <3> HIDE DEF g
    <3> QED BY <2>4, <2>5, <2>6 DEF Chosen
  <2> HIDE DEF g
  <2> QED BY <2>4, <2>7
<1>3. T = {}
  <2> HIDE DEF Exists
  <2> SUFFICES ASSUME T # {} PROVE FALSE
    OBVIOUS
  <2>1. T \in SUBSET Nat
    OBVIOUS
  <2>2. PICK m \in T : \A k \in T : m <= k
    BY <2>1, HasSmallest
  <2>3. m \in 0..Len(line) /\ ~Exists(m) /\ m # 0 /\ Len(line) \in Nat
    BY <1>1
  <2>4. m - 1 \in 0..Len(line) /\ (m - 1) + 1 <= Len(line) /\ (m - 1) + 1 = m
    BY <2>3
  <2>5. Exists(m - 1)
    BY <2>2, <2>4
  <2> QED BY <1>2, <2>3, <2>4, <2>5
<1> QED BY <1>3

\* Only is the last of such an f.
LEMMA OnlyIs ==
  ASSUME NEW S, NEW line \in Seq(S), NEW words
  PROVE  \E f : Chosen(f, line, words, Len(line)) /\ Only(line, words) = f[Len(line)]
<1> DEFINE chosen[i \in 0..Len(line)] ==
        IF i = 0 THEN <<>>
        ELSE IF line[i] \in words THEN Append(chosen[i - 1], line[i]) ELSE chosen[i - 1]
<1>0. Len(line) \in Nat /\ Len(line) \in 0..Len(line)
  OBVIOUS
<1>1. chosen = [i \in 0..Len(line) |->
        IF i = 0 THEN <<>>
        ELSE IF line[i] \in words THEN Append(chosen[i - 1], line[i]) ELSE chosen[i - 1]]
  <2> SUFFICES \E g : g = [i \in 0..Len(line) |->
        IF i = 0 THEN <<>>
        ELSE IF line[i] \in words THEN Append(g[i - 1], line[i]) ELSE g[i - 1]]
    BY Zenon
  <2>1. PICK g \in [0..Len(line) -> Seq(S)] : Chosen(g, line, words, Len(line))
    BY <1>0, ChosenExist
  <2>2. g = [i \in 0..Len(line) |->
        IF i = 0 THEN <<>>
        ELSE IF line[i] \in words THEN Append(g[i - 1], line[i]) ELSE g[i - 1]]
    <3>1. \A i \in 0..Len(line) : g[i] =
            IF i = 0 THEN <<>>
            ELSE IF line[i] \in words THEN Append(g[i - 1], line[i]) ELSE g[i - 1]
      <4>1. ASSUME NEW i \in 0..Len(line) PROVE i = 0 \/ (i \in 1..Len(line) /\ i # 0)
        OBVIOUS
      <4> QED BY <2>1, <4>1 DEF Chosen
    <3>2. DOMAIN g = 0..Len(line)
      OBVIOUS
    <3> QED BY <3>1, <3>2
  <2> QED BY <2>2, Zenon
<1>2. Only(line, words) = chosen[Len(line)]
  BY Zenon DEF Only
<1> HIDE DEF chosen
<1>3. Chosen(chosen, line, words, Len(line))
  <2>1. \A i \in 1..Len(line) : i \in 0..Len(line) /\ i # 0
    BY <1>0
  <2>2. DOMAIN chosen = 0..Len(line) /\ 0 \in 0..Len(line)
    BY <1>0, <1>1
  <2>3. \A i \in 0..Len(line) : chosen[i] =
        IF i = 0 THEN <<>>
        ELSE IF line[i] \in words THEN Append(chosen[i - 1], line[i]) ELSE chosen[i - 1]
    <3> DEFINE value(i) == IF i = 0 THEN <<>>
        ELSE IF line[i] \in words THEN Append(chosen[i - 1], line[i]) ELSE chosen[i - 1]
    <3>1. chosen = [i \in 0..Len(line) |-> value(i)]
      BY <1>1
    <3> HIDE DEF value
    <3>2. \A i \in 0..Len(line) : chosen[i] = value(i)
      BY <3>1
    <3> QED BY <3>2 DEF value
  <2> QED BY <2>1, <2>2, <2>3 DEF Chosen
<1> QED BY <1>2, <1>3

-----------------------------------------------------------------------------
\* What s has of the first n words of a line: those that are among some words, and in
\* their order, whatever order r that is.
Climbs(r, s, n) == \A i, j \in 1..n : i < j => r[s[i]] < r[s[j]]
TakenOf(s, line, words, n) ==
  /\ \A i \in 1..Len(s) : s[i] \in words /\ \E k \in 1..n : line[k] = s[i]
  /\ \A k \in 1..n : line[k] \in words => \E i \in 1..Len(s) : s[i] = line[k]

\* One more word, that is chosen or not.
LEMMA TakesOne ==
  ASSUME NEW S, NEW line \in Seq(S), NEW words, NEW n \in 0..Len(line), n + 1 <= Len(line),
         NEW s \in Seq(S), TakenOf(s, line, words, n),
         NEW t, t = IF line[n + 1] \in words THEN Append(s, line[n + 1]) ELSE s
  PROVE  t \in Seq(S) /\ TakenOf(t, line, words, n + 1)
<1> DEFINE w == line[n + 1]
<1>0. w \in S /\ Len(s) \in Nat /\ n + 1 \in 1..Len(line) /\ n \in Nat /\ n \in Int
  BY ElementOfSeq
<1>3. \A k \in 1..(n + 1) : k \in 1..n \/ k = n + 1
  BY <1>0
<1>4. 1..n \subseteq 1..(n + 1) /\ n + 1 \in 1..(n + 1)
  BY <1>0
<1>1. CASE w \notin words
  <2>1. t = s
    BY <1>1
  <2>2. TakenOf(s, line, words, n + 1)
    BY <1>1, <1>3, <1>4 DEF TakenOf
  <2> QED BY <2>1, <2>2
<1>2. CASE w \in words
  <2>1. /\ t \in Seq(S) /\ Len(t) = Len(s) + 1 /\ t[Len(s) + 1] = w
        /\ \A i \in 1..Len(s) : t[i] = s[i]
    BY <1>0, <1>2, AppendProperties
  <2>2. \A i \in 1..Len(t) : i \in 1..Len(s) \/ i = Len(s) + 1
    BY <1>0, <2>1
  <2>3. 1..Len(s) \subseteq 1..Len(t) /\ Len(s) + 1 \in 1..Len(t)
    BY <1>0, <2>1
  <2>4. ASSUME NEW i \in 1..Len(t) PROVE t[i] \in words /\ \E k \in 1..(n + 1) : line[k] = t[i]
    BY <1>2, <1>4, <2>1, <2>2 DEF TakenOf
  <2>5. ASSUME NEW k \in 1..(n + 1), line[k] \in words PROVE \E i \in 1..Len(t) : t[i] = line[k]
    <3>1. CASE k = n + 1
      BY <2>1, <2>3, <3>1
    <3>2. CASE k \in 1..n
      <4>1. PICK i \in 1..Len(s) : s[i] = line[k]
        BY <2>5, <3>2 DEF TakenOf
      <4> QED BY <2>1, <2>3, <4>1
    <3> QED BY <1>3, <3>1, <3>2
  <2> QED BY <2>1, <2>4, <2>5 DEF TakenOf
<1> QED BY <1>1, <1>2

\* What climbs goes on climbing.
LEMMA ClimbsOne ==
  ASSUME NEW S, NEW line \in Seq(S), NEW words, NEW n \in 0..Len(line), n + 1 <= Len(line),
         NEW r \in [S -> Nat], Climbs(r, line, n + 1),
         NEW s \in Seq(S), TakenOf(s, line, words, n), Climbs(r, s, Len(s)),
         NEW t, t = IF line[n + 1] \in words THEN Append(s, line[n + 1]) ELSE s
  PROVE  Climbs(r, t, Len(t))
<1> DEFINE w == line[n + 1]
<1>0. w \in S /\ Len(s) \in Nat /\ n + 1 \in 1..Len(line) /\ n \in Nat /\ n \in Int
  BY ElementOfSeq
<1>1. CASE w \notin words
  BY <1>1
<1>2. CASE w \in words
  <2>1. /\ t \in Seq(S) /\ Len(t) = Len(s) + 1 /\ t[Len(s) + 1] = w
        /\ \A i \in 1..Len(s) : t[i] = s[i]
    BY <1>0, <1>2, AppendProperties
  <2>2. \A i \in 1..Len(t) : i \in 1..Len(s) \/ i = Len(s) + 1
    BY <1>0, <2>1
  <2> SUFFICES ASSUME NEW i \in 1..Len(t), NEW j \in 1..Len(t), i < j PROVE r[t[i]] < r[t[j]]
    BY DEF Climbs
  <2>3. i \in 1..Len(s)
    BY <1>0, <2>1
  <2>4. CASE j \in 1..Len(s)
    BY <2>1, <2>3, <2>4 DEF Climbs
  <2>5. CASE j = Len(s) + 1
    <3>1. PICK k \in 1..n : line[k] = s[i]
      BY <2>3 DEF TakenOf
    <3>2. k \in 1..(n + 1) /\ n + 1 \in 1..(n + 1) /\ k < n + 1
      BY <1>0
    <3>3. r[line[k]] < r[line[n + 1]]
      BY <3>2 DEF Climbs
    <3> QED BY <2>1, <2>3, <2>5, <3>1, <3>3
  <2> QED BY <2>2, <2>4, <2>5
<1> QED BY <1>1, <1>2

\* What Only takes of a line.
LEMMA OnlyTakes ==
  ASSUME NEW S, NEW line \in Seq(S), NEW words, NEW r \in [S -> Nat]
  PROVE  /\ Only(line, words) \in Seq(S)
         /\ TakenOf(Only(line, words), line, words, Len(line))
         /\ Climbs(r, line, Len(line)) => Climbs(r, Only(line, words), Len(Only(line, words)))
<1>1. PICK f : Chosen(f, line, words, Len(line)) /\ Only(line, words) = f[Len(line)]
  BY OnlyIs
<1> DEFINE orders == Climbs(r, line, Len(line))
           Good(m) == f[m] \in Seq(S) /\ TakenOf(f[m], line, words, m) /\ (orders => Climbs(r, f[m], Len(f[m])))
           T == {m \in 0..Len(line) : ~Good(m)}
<1>2. Good(0)
  BY <1>1 DEF Chosen, TakenOf, Climbs
<1>3. ASSUME NEW m \in 0..Len(line), m + 1 <= Len(line), Good(m) PROVE Good(m + 1)
  <2>1. m + 1 \in 1..Len(line) /\ (m + 1) - 1 = m
    BY <1>3
  <2>2. f[m + 1] = IF line[m + 1] \in words THEN Append(f[m], line[m + 1]) ELSE f[m]
    BY <1>1, <2>1 DEF Chosen
  <2>3. orders => Climbs(r, line, m + 1)
    <3>1. 1..(m + 1) \subseteq 1..Len(line)
      BY <2>1
    <3> QED BY <3>1 DEF Climbs
  <2> HIDE DEF orders
  <2>5. PICK s : s = f[m]
    OBVIOUS
  <2>6. PICK t : t = f[m + 1]
    OBVIOUS
  <2>7. s \in Seq(S) /\ TakenOf(s, line, words, m) /\ (orders => Climbs(r, s, Len(s)))
    BY <1>3, <2>5
  <2>8. t = IF line[m + 1] \in words THEN Append(s, line[m + 1]) ELSE s
    BY <2>2, <2>5, <2>6
  <2>9. t \in Seq(S) /\ TakenOf(t, line, words, m + 1)
    BY <1>3, <2>7, <2>8, TakesOne
  <2>10. ASSUME orders PROVE Climbs(r, t, Len(t))
    <3>1. Climbs(r, line, m + 1) /\ Climbs(r, s, Len(s)) /\ s \in Seq(S) /\ TakenOf(s, line, words, m)
      BY <2>3, <2>7, <2>10
    <3> HIDE DEF Good
    <3> QED BY <1>3, <2>8, <3>1, ClimbsOne
  <2> QED BY <2>6, <2>9, <2>10
<1>4. T = {}
  <2> HIDE DEF Good
  <2> SUFFICES ASSUME T # {} PROVE FALSE
    OBVIOUS
  <2>1. T \in SUBSET Nat
    OBVIOUS
  <2>2. PICK m \in T : \A k \in T : m <= k
    BY <2>1, HasSmallest
  <2>3. m \in 0..Len(line) /\ ~Good(m) /\ m # 0 /\ Len(line) \in Nat
    BY <1>2
  <2>4. m - 1 \in 0..Len(line) /\ (m - 1) + 1 <= Len(line) /\ (m - 1) + 1 = m
    BY <2>3
  <2>5. Good(m - 1)
    BY <2>2, <2>4
  <2> QED BY <1>3, <2>3, <2>4, <2>5
<1>5. Len(line) \in 0..Len(line)
  OBVIOUS
<1>6. Good(Len(line))
  <2> HIDE DEF Good
  <2> QED BY <1>4, <1>5
<1> QED BY <1>1, <1>6

Lookups == {"look up user", "look up group"}
StepWords == ConfigWords \cup {"chdir", "look up user", "look up group"}
PassWords == {"look up user", "look up group", "dir", "pidfile", "lockfile"}

\* Where a step has its place; those of the second pass come as they are written.
Rank == [s \in StepWords |->
  CASE s = "chdir" -> 1 [] s = "daemon" -> 2 [] s = "setsid" -> 3 [] s = "chroot" -> 4
    [] s \in PassWords -> 5 [] s = "container" -> 6 [] s = "ns" -> 7 [] s = "group" -> 8
    [] s = "user" -> 9 [] s = "resist_ptrace" -> 10 [] s = "jail" -> 11]
Follows(a, b) == Rank[a] < Rank[b] \/ (a \in PassWords /\ b \in PassWords)
InOrderOf(s) == \A i, j \in 1..Len(s) : i < j => Follows(s[i], s[j])
Elements(s) == {s[i] : i \in 1..Len(s)}

\* All the steps of a config.
AllSteps(words) ==
  (words \ (IF "daemon" \in words THEN {"setsid"} ELSE {}))
    \cup (IF "chroot" \in words THEN {"chdir"} ELSE {})
    \cup (IF "user" \in words THEN {"look up user"} ELSE {})
    \cup (IF "group" \in words THEN {"look up group"} ELSE {})

\* Every step has its place.
LEMMA RankType == Rank \in [StepWords -> Nat]
<1> DEFINE place(s) ==
  CASE s = "chdir" -> 1 [] s = "daemon" -> 2 [] s = "setsid" -> 3 [] s = "chroot" -> 4
    [] s \in PassWords -> 5 [] s = "container" -> 6 [] s = "ns" -> 7 [] s = "group" -> 8
    [] s = "user" -> 9 [] s = "resist_ptrace" -> 10 [] s = "jail" -> 11
<1>1. ASSUME NEW s \in StepWords PROVE place(s) \in Nat
  BY <1>1 DEF StepWords, ConfigWords, PassWords
<1>2. Rank = [s \in StepWords |-> place(s)]
  BY DEF Rank
<1> HIDE DEF place
<1> QED BY <1>1, <1>2

\* The places.
LEMMA RankIs ==
  /\ Rank["chdir"] = 1 /\ Rank["daemon"] = 2 /\ Rank["setsid"] = 3 /\ Rank["chroot"] = 4
  /\ \A s \in PassWords : Rank[s] = 5
  /\ Rank["container"] = 6 /\ Rank["ns"] = 7 /\ Rank["group"] = 8 /\ Rank["user"] = 9
  /\ Rank["resist_ptrace"] = 10 /\ Rank["jail"] = 11
BY DEF Rank, StepWords, ConfigWords, PassWords

\* Two sequences of steps, one behind the other.
LEMMA StepsJoined ==
  ASSUME NEW s \in Seq(StepWords), NEW t \in Seq(StepWords)
  PROVE  /\ s \o t \in Seq(StepWords) /\ Len(s \o t) = Len(s) + Len(t)
         /\ \A i \in 1..Len(s) : (s \o t)[i] = s[i]
         /\ \A i \in 1..Len(t) : (s \o t)[Len(s) + i] = t[i]
<1>1. PICK u : u = s \o t
  OBVIOUS
<1>2. /\ u \in Seq(StepWords) /\ Len(u) = Len(s) + Len(t) /\ Len(s) \in Nat /\ Len(t) \in Nat
      /\ \A i \in 1..Len(u) : u[i] = IF i <= Len(s) THEN s[i] ELSE t[i - Len(s)]
  BY <1>1, ConcatProperties
<1>3. ASSUME NEW i \in 1..Len(s) PROVE u[i] = s[i]
  BY <1>2
<1>4. ASSUME NEW i \in 1..Len(t) PROVE u[Len(s) + i] = t[i]
  <2>1. Len(s) + i \in 1..Len(u) /\ ~(Len(s) + i <= Len(s)) /\ (Len(s) + i) - Len(s) = i
    BY <1>2
  <2> QED BY <1>2, <2>1
<1> QED BY <1>1, <1>2, <1>3, <1>4

\* One part of the steps behind another.
LEMMA OrderJoins ==
  ASSUME NEW s \in Seq(StepWords), NEW t \in Seq(StepWords), InOrderOf(s), InOrderOf(t),
         \A a \in Elements(s), b \in Elements(t) : Follows(a, b)
  PROVE  s \o t \in Seq(StepWords) /\ InOrderOf(s \o t) /\ Elements(s \o t) = Elements(s) \cup Elements(t)
<1>1. PICK u : u = s \o t
  OBVIOUS
<1>2. /\ u \in Seq(StepWords) /\ Len(u) = Len(s) + Len(t) /\ Len(s) \in Nat /\ Len(t) \in Nat
      /\ \A i \in 1..Len(u) : u[i] = IF i <= Len(s) THEN s[i] ELSE t[i - Len(s)]
  BY <1>1, ConcatProperties
<1>3. ASSUME NEW i \in 1..Len(u), NEW j \in 1..Len(u), i < j PROVE Follows(u[i], u[j])
  <2>1. CASE j <= Len(s)
    <3>1. i \in 1..Len(s) /\ j \in 1..Len(s) /\ u[i] = s[i] /\ u[j] = s[j]
      BY <1>2, <1>3, <2>1
    <3> QED BY <1>3, <3>1 DEF InOrderOf
  <2>2. CASE i > Len(s)
    <3>1. i - Len(s) \in 1..Len(t) /\ j - Len(s) \in 1..Len(t) /\ i - Len(s) < j - Len(s)
      BY <1>2, <1>3, <2>2
    <3>2. u[i] = t[i - Len(s)] /\ u[j] = t[j - Len(s)]
      BY <1>2, <1>3, <2>2
    <3> QED BY <3>1, <3>2 DEF InOrderOf
  <2>3. CASE i <= Len(s) /\ j > Len(s)
    <3>1. i \in 1..Len(s) /\ j - Len(s) \in 1..Len(t) /\ u[i] = s[i] /\ u[j] = t[j - Len(s)]
      BY <1>2, <1>3, <2>3
    <3> QED BY <3>1 DEF Elements
  <2> QED BY <1>2, <1>3, <2>1, <2>2, <2>3
<1>4. Elements(u) = Elements(s) \cup Elements(t)
  <2>1. ASSUME NEW i \in 1..Len(u) PROVE u[i] \in Elements(s) \cup Elements(t)
    <3>1. CASE i <= Len(s)
      <4>1. i \in 1..Len(s) /\ u[i] = s[i]
        BY <1>2, <3>1
      <4> QED BY <4>1 DEF Elements
    <3>2. CASE ~(i <= Len(s))
      <4>1. i - Len(s) \in 1..Len(t) /\ u[i] = t[i - Len(s)]
        BY <1>2, <3>2
      <4> QED BY <4>1 DEF Elements
    <3> QED BY <3>1, <3>2
  <2>2. ASSUME NEW i \in 1..Len(s) PROVE s[i] \in Elements(u)
    <3>1. i \in 1..Len(u) /\ u[i] = s[i]
      BY <1>2
    <3> QED BY <3>1 DEF Elements
  <2>3. ASSUME NEW i \in 1..Len(t) PROVE t[i] \in Elements(u)
    <3>0. i + Len(s) \in 1..Len(u) /\ ~(i + Len(s) <= Len(s)) /\ (i + Len(s)) - Len(s) = i
      BY <1>2
    <3>1. i + Len(s) \in 1..Len(u) /\ u[i + Len(s)] = t[i]
      BY <1>2, <3>0
    <3> QED BY <3>1 DEF Elements
  <2> QED BY <2>1, <2>2, <2>3 DEF Elements
<1>5. InOrderOf(u)
  BY <1>3 DEF InOrderOf
<1> QED BY <1>1, <1>2, <1>4, <1>5

\* What Only takes of a line whose words are in order of their ranks.
LEMMA OnlyInOrder ==
  ASSUME NEW line \in Seq(StepWords), NEW words
  PROVE  /\ Only(line, words) \in Seq(StepWords)
         /\ Elements(Only(line, words)) = Elements(line) \cap words
         /\ Climbs(Rank, line, Len(line)) => InOrderOf(Only(line, words))
<1>1. PICK s : s = Only(line, words)
  OBVIOUS
<1>2. s \in Seq(StepWords) /\ TakenOf(s, line, words, Len(line))
      /\ (Climbs(Rank, line, Len(line)) => Climbs(Rank, s, Len(s)))
  BY <1>1, OnlyTakes, RankType
<1>3. Elements(s) = Elements(line) \cap words
  <2>1. ASSUME NEW x \in Elements(s) PROVE x \in Elements(line) /\ x \in words
    <3>1. PICK i \in 1..Len(s) : x = s[i]
      BY <2>1 DEF Elements
    <3>2. s[i] \in words /\ \E k \in 1..Len(line) : line[k] = s[i]
      BY <1>2 DEF TakenOf
    <3> QED BY <3>1, <3>2 DEF Elements
  <2>2. ASSUME NEW x \in Elements(line), x \in words PROVE x \in Elements(s)
    <3>1. PICK k \in 1..Len(line) : x = line[k]
      BY <2>2 DEF Elements
    <3>2. \E i \in 1..Len(s) : s[i] = line[k]
      BY <1>2, <2>2, <3>1 DEF TakenOf
    <3> QED BY <3>1, <3>2 DEF Elements
  <2> QED BY <2>1, <2>2
<1>4. Climbs(Rank, s, Len(s)) => InOrderOf(s)
  BY DEF Climbs, InOrderOf, Follows
<1> QED BY <1>1, <1>2, <1>3, <1>4

\* The steps before the fork and at it.
LEMMA EarlySteps ==
  ASSUME NEW words \in SUBSET ConfigWords
  PROVE  /\ Early(words) \in Seq(StepWords) /\ InOrderOf(Early(words))
         /\ Elements(Early(words)) = AllSteps(words) \cap {"chdir", "daemon", "setsid", "chroot"}
<1> DEFINE line == <<"chdir", "daemon", "setsid", "chroot">>
           w == (words \ (IF "daemon" \in words THEN {"setsid"} ELSE {}))
                  \cup (IF "chroot" \in words THEN {"chdir"} ELSE {})
<1>1. /\ line \in Seq(StepWords) /\ Len(line) = 4
      /\ line[1] = "chdir" /\ line[2] = "daemon" /\ line[3] = "setsid" /\ line[4] = "chroot"
  BY DEF StepWords, ConfigWords
<1>2. Early(words) = Only(line, w)
  BY DEF Early
<1>3. Elements(line) \cap w = AllSteps(words) \cap {"chdir", "daemon", "setsid", "chroot"}
  <2>1. Elements(line) = {"chdir", "daemon", "setsid", "chroot"}
    <3> HIDE DEF line
    <3>1. \A i \in 1..4 : i = 1 \/ i = 2 \/ i = 3 \/ i = 4
      OBVIOUS
    <3>2. 1 \in 1..4 /\ 2 \in 1..4 /\ 3 \in 1..4 /\ 4 \in 1..4
      OBVIOUS
    <3> QED BY <1>1, <3>1, <3>2 DEF Elements
  <2> HIDE DEF line
  <2> QED BY <2>1 DEF AllSteps, ConfigWords
<1> HIDE DEF line, w
<1>4. Climbs(Rank, line, Len(line))
  <2> SUFFICES ASSUME NEW i \in 1..4, NEW j \in 1..4, i < j PROVE Rank[line[i]] < Rank[line[j]]
    BY <1>1 DEF Climbs
  <2>1. \A k \in 1..4 : Rank[line[k]] = k
    <3>1. \A k \in 1..4 : k = 1 \/ k = 2 \/ k = 3 \/ k = 4
      OBVIOUS
    <3> QED BY <1>1, <3>1, RankIs
  <2> QED BY <2>1
<1> QED BY <1>1, <1>2, <1>3, <1>4, OnlyInOrder

\* The steps of the second pass over the config.
LEMMA PassSteps ==
  ASSUME NEW line \in Seq(ConfigWords)
  PROVE  /\ Pass(line) \in Seq(StepWords) /\ InOrderOf(Pass(line))
         /\ Elements(Pass(line)) = AllSteps(Elements(line)) \cap PassWords
<1> DEFINE looks == [i \in DOMAIN line |-> LookedUp(line[i])]
<1>1. /\ looks \in Seq(StepWords) /\ Len(looks) = Len(line) /\ Len(line) \in Nat
      /\ \A i \in 1..Len(line) : looks[i] = LookedUp(line[i])
      /\ \A i \in 1..Len(line) : line[i] \in ConfigWords
  <2>1. DOMAIN line = 1..Len(line) /\ Len(line) \in Nat /\ \A i \in 1..Len(line) : line[i] \in ConfigWords
    OBVIOUS
  <2>2. looks \in [1..Len(line) -> StepWords]
    BY <2>1 DEF StepWords, LookedUp
  <2>3. looks \in Seq(StepWords) /\ Len(looks) = Len(line)
    <3> HIDE DEF looks
    <3> QED BY <2>1, <2>2, SeqDef, LenProperties
  <2> QED BY <2>1, <2>3
<1>2. Pass(line) = Only(looks, PassWords)
  BY DEF Pass, PassWords
<1> HIDE DEF looks
<1>3. PICK s : s = Pass(line)
  OBVIOUS
<1>4. s \in Seq(StepWords) /\ Elements(s) = Elements(looks) \cap PassWords
  BY <1>1, <1>2, <1>3, OnlyInOrder
<1>5. Elements(looks) \cap PassWords = AllSteps(Elements(line)) \cap PassWords
  <2>1. ASSUME NEW i \in 1..Len(line), looks[i] \in PassWords
        PROVE  looks[i] \in AllSteps(Elements(line))
    <3>1. line[i] \in Elements(line)
      BY DEF Elements
    <3> QED BY <1>1, <2>1, <3>1 DEF AllSteps, PassWords, LookedUp
  <2>2. ASSUME NEW w \in AllSteps(Elements(line)) \cap PassWords PROVE w \in Elements(looks)
    <3>1. CASE w = "look up user"
      <4>1. "user" \in Elements(line)
        BY <1>1, <2>2, <3>1 DEF AllSteps, Elements, ConfigWords
      <4>2. PICK i \in 1..Len(line) : line[i] = "user"
        BY <4>1 DEF Elements
      <4> QED BY <1>1, <3>1, <4>2 DEF Elements, LookedUp
    <3>2. CASE w = "look up group"
      <4>1. "group" \in Elements(line)
        BY <1>1, <2>2, <3>2 DEF AllSteps, Elements, ConfigWords
      <4>2. PICK i \in 1..Len(line) : line[i] = "group"
        BY <4>1 DEF Elements
      <4> QED BY <1>1, <3>2, <4>2 DEF Elements, LookedUp
    <3>3. CASE w \notin Lookups
      <4>1. w \in Elements(line) /\ w # "user" /\ w # "group"
        BY <2>2, <3>3 DEF AllSteps, PassWords, Lookups
      <4>2. PICK i \in 1..Len(line) : line[i] = w
        BY <4>1 DEF Elements
      <4> QED BY <1>1, <4>1, <4>2 DEF Elements, LookedUp
    <3> QED BY <3>1, <3>2, <3>3 DEF Lookups
  <2>3. ASSUME NEW w \in Elements(looks), w \in PassWords PROVE w \in AllSteps(Elements(line))
    <3>1. PICK i \in 1..Len(line) : looks[i] = w
      BY <1>1 DEF Elements
    <3> QED BY <2>1, <2>3, <3>1
  <2> QED BY <2>2, <2>3
<1>6. InOrderOf(s)
  <2>1. \A i \in 1..Len(s) : s[i] \in PassWords
    BY <1>4 DEF Elements
  <2> QED BY <2>1 DEF InOrderOf, Follows
<1> QED BY <1>3, <1>4, <1>5, <1>6

\* The steps after the pass.
LEMMA LateSteps ==
  ASSUME NEW words \in SUBSET ConfigWords
  PROVE  /\ Late(words) \in Seq(StepWords) /\ InOrderOf(Late(words))
         /\ Elements(Late(words))
              = AllSteps(words) \cap {"container", "ns", "group", "user", "resist_ptrace", "jail"}
<1> DEFINE line == <<"container", "ns">> \o GiveUp \o <<"resist_ptrace", "jail">>
<1>1. /\ line \in Seq(StepWords) /\ Len(line) = 6
      /\ line[1] = "container" /\ line[2] = "ns" /\ line[3] = "group" /\ line[4] = "user"
      /\ line[5] = "resist_ptrace" /\ line[6] = "jail"
  <2>1. PICK a, b, c : a = <<"container", "ns">> /\ b = GiveUp /\ c = <<"resist_ptrace", "jail">>
    OBVIOUS
  <2>2. /\ a \in Seq(StepWords) /\ Len(a) = 2 /\ a[1] = "container" /\ a[2] = "ns"
        /\ b \in Seq(StepWords) /\ Len(b) = 2 /\ b[1] = "group" /\ b[2] = "user"
        /\ c \in Seq(StepWords) /\ Len(c) = 2 /\ c[1] = "resist_ptrace" /\ c[2] = "jail"
    BY <2>1 DEF GiveUp, StepWords, ConfigWords
  <2>3. PICK d : d = a \o b
    OBVIOUS
  <2>4. /\ d \in Seq(StepWords) /\ Len(d) = 4
        /\ d[1] = "container" /\ d[2] = "ns" /\ d[3] = "group" /\ d[4] = "user"
    <3>0. /\ d \in Seq(StepWords) /\ Len(d) = Len(a) + Len(b)
          /\ \A i \in 1..Len(a) : d[i] = a[i]
          /\ \A i \in 1..Len(b) : d[Len(a) + i] = b[i]
      <4>1. a \in Seq(StepWords) /\ b \in Seq(StepWords)
        BY <2>2
      <4> QED BY <2>3, <4>1, StepsJoined
    <3>1. /\ d \in Seq(StepWords) /\ Len(d) = 2 + 2
          /\ \A i \in 1..2 : d[i] = a[i]
          /\ \A i \in 1..2 : d[2 + i] = b[i]
      BY <2>2, <3>0
    <3>2. 2 + 2 = 4 /\ 2 + 1 = 3 /\ 1 \in 1..2 /\ 2 \in 1..2
      OBVIOUS
    <3>3. d[1] = a[1] /\ d[2] = a[2] /\ d[3] = b[1] /\ d[4] = b[2]
      BY <3>1, <3>2
    <3> QED BY <2>2, <3>1, <3>2, <3>3
  <2>5. PICK e : e = d \o c
    OBVIOUS
  <2>6. /\ e \in Seq(StepWords) /\ Len(e) = 6
        /\ e[1] = "container" /\ e[2] = "ns" /\ e[3] = "group" /\ e[4] = "user"
        /\ e[5] = "resist_ptrace" /\ e[6] = "jail"
    <3>0. /\ e \in Seq(StepWords) /\ Len(e) = Len(d) + Len(c)
          /\ \A i \in 1..Len(d) : e[i] = d[i]
          /\ \A i \in 1..Len(c) : e[Len(d) + i] = c[i]
      <4>1. d \in Seq(StepWords) /\ c \in Seq(StepWords)
        BY <2>2, <2>4
      <4> QED BY <2>5, <4>1, StepsJoined
    <3>1. /\ e \in Seq(StepWords) /\ Len(e) = 4 + 2
          /\ \A i \in 1..4 : e[i] = d[i]
          /\ \A i \in 1..2 : e[4 + i] = c[i]
      BY <2>2, <2>4, <3>0
    <3>2. /\ 4 + 2 = 6 /\ 4 + 1 = 5 /\ 1 \in 1..4 /\ 2 \in 1..4 /\ 3 \in 1..4 /\ 4 \in 1..4
          /\ 1 \in 1..2 /\ 2 \in 1..2
      OBVIOUS
    <3>3. e[1] = d[1] /\ e[2] = d[2] /\ e[3] = d[3] /\ e[4] = d[4] /\ e[5] = c[1] /\ e[6] = c[2]
      BY <3>1, <3>2
    <3> QED BY <2>2, <2>4, <3>1, <3>2, <3>3
  <2>7. line = e
    BY <2>1, <2>3, <2>5
  <2> QED BY <2>6, <2>7
<1>2. Late(words) = Only(line, words)
  BY DEF Late
<1> HIDE DEF line
<1>3. Elements(line) = {"container", "ns", "group", "user", "resist_ptrace", "jail"}
  <2>1. \A i \in 1..6 : i = 1 \/ i = 2 \/ i = 3 \/ i = 4 \/ i = 5 \/ i = 6
    OBVIOUS
  <2>2. 1 \in 1..6 /\ 2 \in 1..6 /\ 3 \in 1..6 /\ 4 \in 1..6 /\ 5 \in 1..6 /\ 6 \in 1..6
    OBVIOUS
  <2> QED BY <1>1, <2>1, <2>2 DEF Elements
<1>4. Elements(line) \cap words
        = AllSteps(words) \cap {"container", "ns", "group", "user", "resist_ptrace", "jail"}
  BY <1>3 DEF AllSteps
<1>5. Climbs(Rank, line, Len(line))
  <2> SUFFICES ASSUME NEW i \in 1..6, NEW j \in 1..6, i < j PROVE Rank[line[i]] < Rank[line[j]]
    BY <1>1 DEF Climbs
  <2>1. \A k \in 1..6 : Rank[line[k]] = k + 5
    <3>1. \A k \in 1..6 : k = 1 \/ k = 2 \/ k = 3 \/ k = 4 \/ k = 5 \/ k = 6
      OBVIOUS
    <3> QED BY <1>1, <3>1, RankIs
  <2> QED BY <2>1
<1> QED BY <1>1, <1>2, <1>4, <1>5, OnlyInOrder, ZenonT(30)

\* The steps of a config are all there, and in order.
LEMMA StepsOfConfig ==
  ASSUME NEW line \in Seq(ConfigWords)
  PROVE  LET s == Early(Elements(line)) \o Pass(line) \o Late(Elements(line))
         IN  s \in Seq(StepWords) /\ InOrderOf(s) /\ Elements(s) = AllSteps(Elements(line))
<1>0. Elements(line) \in SUBSET ConfigWords
  BY ElementOfSeq DEF Elements
<1>1. PICK a, b, c : a = Early(Elements(line)) /\ b = Pass(line) /\ c = Late(Elements(line))
  OBVIOUS
<1>2. /\ a \in Seq(StepWords) /\ InOrderOf(a)
      /\ Elements(a) = AllSteps(Elements(line)) \cap {"chdir", "daemon", "setsid", "chroot"}
  BY <1>0, <1>1, EarlySteps
<1>3. /\ b \in Seq(StepWords) /\ InOrderOf(b) /\ Elements(b) = AllSteps(Elements(line)) \cap PassWords
  BY <1>1, PassSteps
<1>4. /\ c \in Seq(StepWords) /\ InOrderOf(c)
      /\ Elements(c) = AllSteps(Elements(line)) \cap {"container", "ns", "group", "user", "resist_ptrace", "jail"}
  BY <1>0, <1>1, LateSteps
<1>5. a \o b \in Seq(StepWords) /\ InOrderOf(a \o b) /\ Elements(a \o b) = Elements(a) \cup Elements(b)
  <2>1. \A x \in Elements(a), y \in Elements(b) : Follows(x, y)
    BY <1>2, <1>3, RankIs DEF Follows
  <2> QED BY <1>2, <1>3, <2>1, OrderJoins
<1>6. PICK d : d = a \o b
  OBVIOUS
<1>7. d \o c \in Seq(StepWords) /\ InOrderOf(d \o c) /\ Elements(d \o c) = Elements(d) \cup Elements(c)
  <2>1. ASSUME NEW x \in Elements(d), NEW y \in Elements(c) PROVE Follows(x, y)
    <3>1. x \in {"chdir", "daemon", "setsid", "chroot"} \cup PassWords
      BY <1>2, <1>3, <1>5, <1>6
    <3>2. y \in {"container", "ns", "group", "user", "resist_ptrace", "jail"}
      BY <1>4
    <3>3. Rank[x] \in 1..5 /\ Rank[y] \in 6..11
      BY <3>1, <3>2, RankIs
    <3> QED BY <3>3 DEF Follows
  <2> QED BY <1>4, <1>5, <1>6, <2>1, OrderJoins
<1>8. Elements(d \o c) = AllSteps(Elements(line))
  <2>1. AllSteps(Elements(line)) \subseteq StepWords
    BY <1>0 DEF AllSteps, StepWords, ConfigWords
  <2>2. StepWords \subseteq {"chdir", "daemon", "setsid", "chroot"} \cup PassWords
                             \cup {"container", "ns", "group", "user", "resist_ptrace", "jail"}
    BY DEF StepWords, ConfigWords, PassWords
  <2> QED BY <1>2, <1>3, <1>4, <1>5, <1>6, <1>7, <2>1, <2>2
<1> QED BY <1>1, <1>6, <1>7, <1>8

Roots == {"outside", "inside", "astray"}
Selves ==
  [root : Roots, user : {"root", "asked"}, group : {"root", "asked"}, uid : {-1, 1},
   gid : {-1, 1}, forks : Nat, astray : SUBSET {"container", "dir"}, session : {"caller's", "own"}, inDir : BOOLEAN, named : Nat \cup {-1},
   lockAt : Roots \cup {"nowhere"}, dumpable : BOOLEAN, fail : BOOLEAN, mishap : BOOLEAN]

Said(p) == Elements(config[p])
Left(p) == Elements(steps[p])
DoneSteps(p) == AllSteps(Said(p)) \ Left(p)

\* What is known where the second pass finds itself.
KnownAs(name, words, known) == <<name, RootOfPass(words)>> \in known

\* What a process has become by the steps that are done: where it is,
InsideBy(me, done) ==
  /\ "chroot" \in done => me.root = "inside"
  /\ "jail" \in done => me.root = "inside" \/ me.fail
  /\ done \cap {"container", "ns"} # {} => me.root = "inside" \/ "container" \in me.astray \/ me.fail
  /\ me.root # "outside" => done \cap {"chroot", "jail", "container", "ns"} # {}
  /\ "dir" \in done => me.inDir \/ "dir" \in me.astray \/ me.fail

\* who it is,
IdsBy(me, done, words, known) ==
  /\ "look up user" \in done /\ KnownAs("user", words, known) => me.uid > 0
  /\ "look up group" \in done /\ KnownAs("group", words, known) => me.gid > 0
  /\ "group" \in done => me.gid < 0 \/ me.group = "asked"
  /\ "user" \in done => me.uid < 0 \/ me.user = "asked"
  /\ me.user = "asked" => "user" \in done

\* and what else it is.
MadeBy(me, done, words) ==
  /\ "daemon" \in done => me.forks > 1 /\ me.session = "own"
  /\ "setsid" \in done => me.session = "own"
  /\ "resist_ptrace" \in done => ~me.dumpable
  /\ me.named # -1 =>
       /\ "daemon" \in words => "daemon" \in done
       /\ words \cap {"container", "ns"} = {} => me.named = me.forks

Become(me, done, words, known) ==
  InsideBy(me, done) /\ IdsBy(me, done, words, known) /\ MadeBy(me, done, words)

\* What stays true of it when it has gone.
Stays(me, words, known) ==
  /\ me.lockAt # "nowhere" => me.lockAt = RootOfPass(words)
  /\ me.uid > 0 => KnownAs("user", words, known)
  /\ me.gid > 0 => KnownAs("group", words, known)
  /\ me.fail /\ ~({"user", "jail"} \subseteq words) => me.mishap

TaskInv(p) ==
  /\ config[p] \in Seq(ConfigWords) /\ self[p] \in Selves
  /\ state[p] \in {"applies", "runs", "refused", "gone"}
  /\ steps[p] \in Seq(StepWords) /\ InOrderOf(steps[p]) /\ Left(p) \subseteq AllSteps(Said(p))
  /\ \A w \in DoneSteps(p), v \in Left(p) : Follows(w, v)
  /\ state[p] \in {"applies", "runs"} => Become(self[p], DoneSteps(p), Said(p), passwd)
  /\ state[p] = "runs" => Left(p) = {} /\ ~self[p].fail
  /\ Stays(self[p], Said(p), passwd)

ConfigShape ==
  /\ DOMAIN self = Tasks /\ DOMAIN state = Tasks /\ DOMAIN steps = Tasks

ConfigInv ==
  /\ ConfigShape
  /\ \A p \in Tasks : TaskInv(p)
  /\ \A p, q \in Tasks :
       p # q /\ {state[p], state[q]} \subseteq {"applies", "runs"} /\ self[p].lockAt = self[q].lockAt =>
         self[p].lockAt = "nowhere"

\* What a config says.
LEMMA WordsAre ==
  ASSUME NEW p \in Tasks, config[p] \in Seq(ConfigWords)
  PROVE  Words(p) = Said(p)
<1>1. DOMAIN config[p] = 1..Len(config[p])
  OBVIOUS
<1> QED BY <1>1 DEF Words, Said, Range, Elements

\* No process has started to apply its config.
LEMMA ConfigStarts == ConfigInit => ConfigInv
<1> SUFFICES ASSUME ConfigInit PROVE ConfigInv
  OBVIOUS
<1>1. ConfigShape
  BY DEF ConfigInit, ConfigShape
<1>2. ASSUME NEW p \in Tasks PROVE TaskInv(p) /\ self[p].lockAt = "nowhere"
  <2>1. config[p] \in Seq(ConfigWords)
    BY ProcessConfigAssumption DEF ConfigInit
  <2>2. Words(p) = Said(p)
    BY <2>1, WordsAre
  <2>3. steps[p] = Early(Said(p)) \o Pass(config[p]) \o Late(Said(p))
    BY <2>2 DEF ConfigInit
  <2>4. steps[p] \in Seq(StepWords) /\ InOrderOf(steps[p]) /\ Left(p) = AllSteps(Said(p))
    BY <2>1, <2>3, StepsOfConfig DEF Said, Left
  <2>5. DoneSteps(p) = {}
    BY <2>4 DEF DoneSteps
  <2>6. self[p] = [root |-> "outside", user |-> "root", group |-> "root", uid |-> -1, gid |-> -1,
          forks |-> 0, astray |-> {}, session |-> "caller's", inDir |-> FALSE, named |-> -1, lockAt |-> "nowhere",
          dumpable |-> TRUE, fail |-> FALSE, mishap |-> FALSE] /\ state[p] = "applies"
    BY DEF ConfigInit
  <2>7. self[p] \in Selves
    BY <2>6 DEF Selves, Roots
  <2>8. Become(self[p], {}, Said(p), passwd) /\ Stays(self[p], Said(p), passwd)
    BY <2>6 DEF Become, InsideBy, IdsBy, MadeBy, Stays
  <2> QED BY <2>1, <2>4, <2>5, <2>6, <2>7, <2>8 DEF TaskInv
<1> QED BY <1>1, <1>2 DEF ConfigInv

-----------------------------------------------------------------------------
\* A step that a process comes to.
Takes(step, done, left, all) ==
  /\ step \in all /\ step \notin done
  /\ all = done \cup {step} \cup left
  /\ \A w \in done : Follows(w, step)
  /\ \A v \in left : Follows(step, v)

\* What Step does to what is left of a process and what is done.
LEMMA StepTakes ==
  ASSUME NEW p \in Tasks, NEW step, ConfigShape, TaskInv(p), Step(p, step)
  PROVE  /\ Takes(step, DoneSteps(p), Left(p)', AllSteps(Said(p)))
         /\ steps'[p] \in Seq(StepWords) /\ InOrderOf(steps'[p])
         /\ Said(p)' = Said(p) /\ config'[p] = config[p] /\ passwd' = passwd
         /\ Left(p)' \subseteq AllSteps(Said(p))
         /\ DoneSteps(p)' \subseteq DoneSteps(p) \cup {step} /\ DoneSteps(p) \subseteq DoneSteps(p)'
         /\ step \in PassWords \/ step \in DoneSteps(p)'
         /\ \A w \in DoneSteps(p)', v \in Left(p)' : Follows(w, v)
<1>1. PICK s : s = steps[p]
  OBVIOUS
<1>2. s \in Seq(StepWords) /\ InOrderOf(s) /\ Elements(s) \subseteq AllSteps(Said(p))
      /\ \A w \in DoneSteps(p), v \in Elements(s) : Follows(w, v)
  BY <1>1 DEF TaskInv, Left
<1>3. PICK t : t = Tail(s)
  OBVIOUS
<1>4. s # <<>> /\ s[1] = step /\ Len(s) \in Nat
  BY <1>1, <1>2 DEF Step
<1>5. /\ t \in Seq(StepWords) /\ Len(t) = Len(s) - 1 /\ Len(s) > 0
      /\ \A i \in 1..Len(t) : t[i] = s[i + 1]
  BY <1>2, <1>3, <1>4, HeadTailProperties, EmptySeq
<1>6. steps'[p] = t /\ config' = config /\ passwd' = passwd
  <2>1. steps' = [steps EXCEPT ![p] = Tail(@)] /\ DOMAIN steps = Tasks
    BY DEF Step, ConfigShape
  <2>2. steps'[p] = Tail(steps[p])
    BY <2>1
  <2> QED BY <1>1, <1>3, <2>2 DEF Step
<1>7. Said(p)' = Said(p) /\ Left(p)' = Elements(t)
  BY <1>6 DEF Said, Left
<1>8. ASSUME NEW i \in 1..Len(t), NEW j \in 1..Len(t), i < j PROVE Follows(t[i], t[j])
  <2>1. i + 1 \in 1..Len(s) /\ j + 1 \in 1..Len(s) /\ i + 1 < j + 1
    BY <1>4, <1>5, <1>8
  <2> QED BY <1>2, <1>5, <2>1 DEF InOrderOf
<1>9. Elements(s) = {step} \cup Elements(t)
  <2>1. ASSUME NEW i \in 1..Len(s) PROVE s[i] \in {step} \cup Elements(t)
    <3>1. CASE i = 1
      BY <1>4, <3>1
    <3>2. CASE i # 1
      <4>1. i - 1 \in 1..Len(t) /\ (i - 1) + 1 = i
        BY <1>4, <1>5, <3>2
      <4> QED BY <1>5, <4>1 DEF Elements
    <3> QED BY <3>1, <3>2
  <2>2. ASSUME NEW i \in 1..Len(t) PROVE t[i] \in Elements(s)
    <3>1. i + 1 \in 1..Len(s)
      BY <1>4, <1>5
    <3> QED BY <1>5, <3>1 DEF Elements
  <2>3. step \in Elements(s)
    <3>1. 1 \in 1..Len(s)
      BY <1>4, <1>5
    <3> QED BY <1>4, <3>1 DEF Elements
  <2> QED BY <2>1, <2>2, <2>3 DEF Elements
<1>10. ASSUME NEW v \in Elements(t) PROVE Follows(step, v)
  <2>1. PICK i \in 1..Len(t) : t[i] = v
    BY DEF Elements
  <2>2. i + 1 \in 1..Len(s) /\ 1 \in 1..Len(s) /\ 1 < i + 1 /\ s[i + 1] = v
    BY <1>4, <1>5, <2>1
  <2> QED BY <1>2, <1>4, <2>2 DEF InOrderOf
<1>11. DoneSteps(p) = AllSteps(Said(p)) \ Elements(s)
  BY <1>1 DEF DoneSteps, Left
<1>12. DoneSteps(p)' = AllSteps(Said(p)) \ Elements(t)
  BY <1>7 DEF DoneSteps
<1> HIDE DEF DoneSteps
<1>13. Takes(step, DoneSteps(p), Elements(t), AllSteps(Said(p)))
  <2>1. step \in AllSteps(Said(p)) /\ step \notin DoneSteps(p)
    BY <1>2, <1>9, <1>11
  <2>2. AllSteps(Said(p)) = DoneSteps(p) \cup {step} \cup Elements(t)
    BY <1>2, <1>9, <1>11
  <2>3. \A w \in DoneSteps(p) : Follows(w, step)
    BY <1>2, <1>9
  <2> QED BY <1>10, <2>1, <2>2, <2>3 DEF Takes
<1>14. Elements(t) \subseteq AllSteps(Said(p))
  BY <1>2, <1>9
<1>15. DoneSteps(p)' \subseteq DoneSteps(p) \cup {step} /\ DoneSteps(p) \subseteq DoneSteps(p)'
  BY <1>9, <1>11, <1>12
<1>16. \A w \in DoneSteps(p)', v \in Elements(t) : Follows(w, v)
  BY <1>2, <1>9, <1>10, <1>15
<1>17. InOrderOf(t)
  BY <1>8 DEF InOrderOf
<1>18. step \in PassWords \/ step \in DoneSteps(p)'
  <2>1. step \notin PassWords => ~Follows(step, step)
    <3>1. step \in StepWords
      BY <1>2, <1>4, <1>5, ElementOfSeq
    <3>2. Rank[step] \in Nat
      BY <3>1, RankType
    <3> QED BY <3>2 DEF Follows
  <2>2. step \in AllSteps(Said(p))
    BY <1>13 DEF Takes
  <2> QED BY <1>10, <1>12, <2>1, <2>2
<1> QED BY <1>5, <1>6, <1>7, <1>13, <1>14, <1>15, <1>16, <1>17, <1>18

-----------------------------------------------------------------------------
\* What comes before another.
EarlyWords == {"chdir", "daemon", "setsid", "chroot"}
LateWords == {"container", "ns", "group", "user", "resist_ptrace", "jail"}

\* What comes after what.
LEMMA FollowsIs ==
  /\ \A w \in PassWords \cup LateWords, v \in EarlyWords : ~Follows(w, v)
  /\ \A w \in LateWords, v \in PassWords : ~Follows(w, v)
  /\ ~Follows("resist_ptrace", "user") /\ ~Follows("jail", "user")
  /\ \A v \in StepWords : Follows("user", v) => v \in {"resist_ptrace", "jail"}
<1>1. \A w \in LateWords : Rank[w] \in 6..11
  BY RankIs DEF LateWords
<1>2. \A w \in EarlyWords : Rank[w] \in 1..4
  BY RankIs DEF EarlyWords
<1>3. \A w \in PassWords : Rank[w] = 5
  BY RankIs
<1>4. \A w \in LateWords \cup EarlyWords : w \notin PassWords
  BY DEF PassWords, LateWords, EarlyWords
<1>5. \A w \in PassWords \cup LateWords, v \in EarlyWords : ~Follows(w, v)
  BY <1>1, <1>2, <1>3, <1>4 DEF Follows
<1>6. \A w \in LateWords, v \in PassWords : ~Follows(w, v)
  BY <1>1, <1>3, <1>4 DEF Follows
<1>7. Rank["user"] = 9 /\ Rank["resist_ptrace"] = 10 /\ Rank["jail"] = 11
  BY RankIs
<1>8. "user" \notin PassWords
  BY DEF PassWords
<1>9. ~Follows("resist_ptrace", "user") /\ ~Follows("jail", "user")
  BY <1>7, <1>8 DEF Follows
<1>10. ASSUME NEW v \in StepWords, Follows("user", v) PROVE v \in {"resist_ptrace", "jail"}
  <2>1. 9 < Rank[v]
    BY <1>7, <1>8, <1>10 DEF Follows
  <2>2. v \in EarlyWords \cup PassWords \cup LateWords
    BY DEF StepWords, ConfigWords, EarlyWords, PassWords, LateWords
  <2>3. v \in LateWords
    BY <1>2, <1>3, <2>1, <2>2
  <2>4. Rank["container"] = 6 /\ Rank["ns"] = 7 /\ Rank["group"] = 8
    BY RankIs
  <2> QED BY <1>7, <2>1, <2>3, <2>4 DEF LateWords
<1> QED BY <1>5, <1>6, <1>9, <1>10

\* Nothing but what comes before it is done at a step.
LEMMA DoneBefore ==
  ASSUME NEW step, NEW done, NEW left, NEW words \in SUBSET ConfigWords,
         Takes(step, done, left, AllSteps(words))
  PROVE  /\ step \in StepWords /\ step \in words \cup {"chdir", "look up user", "look up group"}
         /\ step \in EarlyWords => done \cap (PassWords \cup LateWords) = {}
         /\ step \in PassWords => done \cap LateWords = {} /\ left \cap EarlyWords = {}
         /\ step = "user" => done \cap {"resist_ptrace", "jail"} = {}
         /\ "user" \in done => step \in {"resist_ptrace", "jail"}
<1>1. step \in StepWords
  BY DEF Takes, AllSteps, StepWords
<1>2. (\A w \in done : Follows(w, step)) /\ (\A v \in left : Follows(step, v))
  BY DEF Takes
<1>3. step \in words \cup {"chdir", "look up user", "look up group"}
  BY DEF Takes, AllSteps
<1> QED BY <1>1, <1>2, <1>3, FollowsIs

\* In the second pass the root is that of chroot.
LEMMA RootInPass ==
  ASSUME NEW me \in Selves, NEW words \in SUBSET ConfigWords, NEW done, NEW left,
         NEW step \in PassWords, Takes(step, done, left, AllSteps(words)), Become(me, done, words, passwd)
  PROVE  me.root = RootOfPass(words)
<1>1. done \cap LateWords = {} /\ left \cap EarlyWords = {}
  BY DoneBefore
<1>2. CASE "chroot" \in words
  <2>1. "chroot" \in AllSteps(words) /\ "chroot" # step
    BY <1>2 DEF AllSteps, PassWords
  <2>2. "chroot" \notin left
    BY <1>1 DEF EarlyWords
  <2>3. "chroot" \in done
    BY <2>1, <2>2 DEF Takes
  <2> QED BY <1>2, <2>3 DEF Become, InsideBy, IdsBy, MadeBy, RootOfPass
<1>3. CASE "chroot" \notin words
  <2>1. done \cap {"jail", "container", "ns"} = {}
    BY <1>1 DEF LateWords
  <2>2. "chroot" \notin AllSteps(words)
    BY <1>3 DEF AllSteps
  <2>3. "chroot" \notin done
    BY <2>2 DEF Takes
  <2>4. me.root = "outside"
    BY <2>1, <2>3 DEF Become, InsideBy, IdsBy, MadeBy
  <2> QED BY <1>3, <2>4 DEF RootOfPass
<1> QED BY <1>2, <1>3

\* A step that is applied leaves a process as it should be.
LEMMA AppliedBecomes ==
  ASSUME NEW me \in Selves, NEW words \in SUBSET ConfigWords, NEW done, NEW left, NEW step, NEW next,
         NEW failing \in SUBSET {"container", "dir"}, Takes(step, done, left, AllSteps(words)),
         Become(me, done, words, passwd), Stays(me, words, passwd),
         done \subseteq next, next \subseteq done \cup {step}, step \in PassWords \/ step \in next
  PROVE  /\ Applied(me, step, failing) \in Selves /\ Applied(me, step, failing).fail = me.fail
         /\ Become(Applied(me, step, failing), next, words, passwd)
         /\ Stays(Applied(me, step, failing), words, passwd)
         /\ step # "lockfile" => Applied(me, step, failing).lockAt = me.lockAt
         /\ step = "lockfile" => Applied(me, step, failing).lockAt = me.root
<1>0. /\ step \in StepWords /\ step \in words \cup {"chdir", "look up user", "look up group"}
      /\ step \in EarlyWords => done \cap (PassWords \cup LateWords) = {}
      /\ step \in PassWords => done \cap LateWords = {} /\ left \cap EarlyWords = {}
      /\ step = "user" => done \cap {"resist_ptrace", "jail"} = {}
      /\ "user" \in done => step \in {"resist_ptrace", "jail"}
  BY DoneBefore
<1>a. step \notin done /\ step \in AllSteps(words) /\ AllSteps(words) = done \cup {step} \cup left
  BY DEF Takes
<1>b. PICK new : new = Applied(me, step, failing)
  OBVIOUS
<1>1. CASE step = "chdir"
  <2>1. new = me
    BY <1>b, <1>1 DEF Applied
  <2> QED
    <3>1. InsideBy(new, next)
      BY <1>1, <1>b, <2>1 DEF Become, InsideBy
    <3>2. IdsBy(new, next, words, passwd)
      BY <1>1, <1>b, <2>1 DEF Become, IdsBy
    <3>3. MadeBy(new, next, words)
      BY <1>1, <1>b, <2>1 DEF Become, MadeBy
    <3>4. Stays(new, words, passwd)
      BY <1>1, <1>b, <2>1 DEF Stays
    <3> QED BY <1>1, <1>b, <2>1, <3>1, <3>2, <3>3, <3>4 DEF Become
<1>2. CASE step = "daemon"
  <2>1. new = [me EXCEPT !.forks = @ + 2, !.session = "own"]
    BY <1>b, <1>2 DEF Applied
  <2>2. me.named = -1
    <3>1. "daemon" \in words
      BY <1>0, <1>2
    <3> QED BY <1>2, <1>a, <3>1 DEF Become, MadeBy
  <2>3. me.forks + 2 \in Nat /\ me.forks + 2 > 1
    BY DEF Selves
  <2>4. /\ new \in Selves /\ new.root = me.root /\ new.user = me.user
        /\ new.group = me.group /\ new.uid = me.uid /\ new.forks = me.forks + 2
        /\ new.session = "own" /\ new.inDir = me.inDir /\ new.named = me.named
        /\ new.lockAt = me.lockAt /\ new.dumpable = me.dumpable /\ new.fail = me.fail
        /\ new.mishap = me.mishap /\ new.gid = me.gid /\ new.astray = me.astray
    BY <2>1, <2>3 DEF Selves
  <2> QED
    <3>1. InsideBy(new, next)
      BY <1>2, <1>b, <2>2, <2>3, <2>4 DEF Become, InsideBy
    <3>2. IdsBy(new, next, words, passwd)
      BY <1>2, <1>b, <2>2, <2>3, <2>4 DEF Become, IdsBy
    <3>3. MadeBy(new, next, words)
      BY <1>2, <1>b, <2>2, <2>3, <2>4 DEF Become, MadeBy
    <3>4. Stays(new, words, passwd)
      BY <1>2, <1>b, <2>2, <2>3, <2>4 DEF Stays
    <3> QED BY <1>2, <1>b, <2>2, <2>3, <2>4, <3>1, <3>2, <3>3, <3>4 DEF Become
<1>3. CASE step = "setsid"
  <2>1. new = [me EXCEPT !.session = "own"]
    BY <1>b, <1>3 DEF Applied
  <2>2. /\ new \in Selves /\ new.root = me.root /\ new.user = me.user
        /\ new.group = me.group /\ new.uid = me.uid /\ new.forks = me.forks
        /\ new.session = "own" /\ new.inDir = me.inDir /\ new.named = me.named
        /\ new.lockAt = me.lockAt /\ new.dumpable = me.dumpable /\ new.fail = me.fail
        /\ new.mishap = me.mishap /\ new.gid = me.gid /\ new.astray = me.astray
    BY <2>1 DEF Selves
  <2> QED
    <3>1. InsideBy(new, next)
      BY <1>0, <1>a, <1>b, <1>3, <2>2 DEF Become, InsideBy
    <3>2. IdsBy(new, next, words, passwd)
      BY <1>0, <1>a, <1>b, <1>3, <2>2 DEF Become, IdsBy
    <3>3. MadeBy(new, next, words)
      BY <1>0, <1>a, <1>b, <1>3, <2>2 DEF Become, MadeBy
    <3>4. Stays(new, words, passwd)
      BY <1>0, <1>a, <1>b, <1>3, <2>2 DEF Stays
    <3> QED BY <1>0, <1>a, <1>b, <1>3, <2>2, <3>1, <3>2, <3>3, <3>4 DEF Become
<1>4. CASE step \in {"chroot", "jail"}
  <2>3. step \in next
    BY <1>4 DEF PassWords
  <2>1. new = [me EXCEPT !.root = "inside"]
    BY <1>b, <1>4 DEF Applied
  <2>2. /\ new \in Selves /\ new.root = "inside" /\ new.user = me.user
        /\ new.group = me.group /\ new.uid = me.uid /\ new.forks = me.forks
        /\ new.session = me.session /\ new.inDir = me.inDir /\ new.named = me.named
        /\ new.lockAt = me.lockAt /\ new.dumpable = me.dumpable /\ new.fail = me.fail
        /\ new.mishap = me.mishap /\ new.gid = me.gid /\ new.astray = me.astray
    BY <2>1 DEF Selves, Roots
  <2>4. Stays(new, words, passwd)
    BY <2>2 DEF Stays
  <2>5. \A w \in next : w \notin {"chroot", "jail"} => w \in done
    BY <1>4
  <2>6. next \cap {"chroot", "jail", "container", "ns"} # {}
    BY <1>4, <2>3
  <2>7. Become(new, next, words, passwd)
    <3>1. InsideBy(new, next)
      BY <2>2, <2>5, <2>6 DEF Become, InsideBy
    <3>2. IdsBy(new, next, words, passwd)
      BY <2>2, <2>5, <2>6 DEF Become, IdsBy
    <3>3. MadeBy(new, next, words)
      BY <2>2, <2>5, <2>6 DEF Become, MadeBy
    <3> QED BY <3>1, <3>2, <3>3 DEF Become
  <2> QED BY <1>4, <1>b, <2>2, <2>4, <2>7
<1>5. CASE step = "look up user"
  <2>1. new = [me EXCEPT !.uid = AccountId("user", me.root)]
    BY <1>b, <1>5 DEF Applied
  <2>2. me.root = RootOfPass(words)
    BY <1>5, RootInPass DEF PassWords
  <2>3. PICK id \in {-1, 1} : id = AccountId("user", me.root)
    BY DEF AccountId
  <2>4. id > 0 <=> KnownAs("user", words, passwd)
    BY <2>2, <2>3 DEF AccountId, KnownAs
  <2>5. /\ new \in Selves /\ new.root = me.root /\ new.user = me.user /\ new.uid = id
        /\ new.group = me.group /\ new.forks = me.forks /\ new.session = me.session
        /\ new.inDir = me.inDir /\ new.named = me.named /\ new.lockAt = me.lockAt
        /\ new.dumpable = me.dumpable /\ new.fail = me.fail /\ new.mishap = me.mishap
        /\ new.gid = me.gid /\ new.astray = me.astray
    BY <2>1, <2>3 DEF Selves
  <2>6. "user" \notin next
    BY <1>0, <1>5 DEF PassWords, LateWords
  <2>7. Stays(new, words, passwd)
    BY <2>4, <2>5 DEF Stays
  <2>8. \A w \in next : w \in done \/ w = "look up user"
    BY <1>5
  <2>9. Become(new, next, words, passwd)
    <3>1. InsideBy(new, next)
      BY <2>4, <2>5, <2>6, <2>8 DEF Become, InsideBy
    <3>2. IdsBy(new, next, words, passwd)
      BY <2>4, <2>5, <2>6, <2>8 DEF Become, IdsBy
    <3>3. MadeBy(new, next, words)
      BY <2>4, <2>5, <2>6, <2>8 DEF Become, MadeBy
    <3> QED BY <3>1, <3>2, <3>3 DEF Become
  <2> QED BY <1>5, <1>b, <2>5, <2>7, <2>9
<1>14. CASE step = "look up group"
  <2>1. new = [me EXCEPT !.gid = AccountId("group", me.root)]
    BY <1>b, <1>14 DEF Applied
  <2>2. me.root = RootOfPass(words)
    BY <1>14, RootInPass DEF PassWords
  <2>3. PICK id \in {-1, 1} : id = AccountId("group", me.root)
    BY DEF AccountId
  <2>4. id > 0 <=> KnownAs("group", words, passwd)
    BY <2>2, <2>3 DEF AccountId, KnownAs
  <2>5. /\ new \in Selves /\ new.root = me.root /\ new.user = me.user /\ new.gid = id
        /\ new.group = me.group /\ new.forks = me.forks /\ new.session = me.session
        /\ new.inDir = me.inDir /\ new.named = me.named /\ new.lockAt = me.lockAt
        /\ new.dumpable = me.dumpable /\ new.fail = me.fail /\ new.mishap = me.mishap
        /\ new.uid = me.uid /\ new.astray = me.astray
    BY <2>1, <2>3 DEF Selves
  <2>6. "group" \notin next
    BY <1>0, <1>14 DEF PassWords, LateWords
  <2>7. Stays(new, words, passwd)
    BY <2>4, <2>5 DEF Stays
  <2>8. \A w \in next : w \in done \/ w = "look up group"
    BY <1>14
  <2>9. Become(new, next, words, passwd)
    <3>1. InsideBy(new, next)
      BY <2>4, <2>5, <2>6, <2>8 DEF Become, InsideBy
    <3>2. IdsBy(new, next, words, passwd)
      BY <2>4, <2>5, <2>6, <2>8 DEF Become, IdsBy
    <3>3. MadeBy(new, next, words)
      BY <2>4, <2>5, <2>6, <2>8 DEF Become, MadeBy
    <3> QED BY <3>1, <3>2, <3>3 DEF Become
  <2> QED BY <1>14, <1>b, <2>5, <2>7, <2>9
<1>6. CASE step = "dir"
  <2>1. new = [me EXCEPT !.inDir = TRUE]
    BY <1>b, <1>6 DEF Applied
  <2>2. /\ new \in Selves /\ new.root = me.root /\ new.user = me.user
        /\ new.group = me.group /\ new.uid = me.uid /\ new.forks = me.forks
        /\ new.session = me.session /\ new.inDir = TRUE /\ new.named = me.named
        /\ new.lockAt = me.lockAt /\ new.dumpable = me.dumpable /\ new.fail = me.fail
        /\ new.mishap = me.mishap /\ new.gid = me.gid /\ new.astray = me.astray
    BY <2>1 DEF Selves
  <2> QED
    <3>1. InsideBy(new, next)
      BY <1>0, <1>a, <1>b, <1>6, <2>2 DEF Become, InsideBy
    <3>2. IdsBy(new, next, words, passwd)
      BY <1>0, <1>a, <1>b, <1>6, <2>2 DEF Become, IdsBy
    <3>3. MadeBy(new, next, words)
      BY <1>0, <1>a, <1>b, <1>6, <2>2 DEF Become, MadeBy
    <3>4. Stays(new, words, passwd)
      BY <1>0, <1>a, <1>b, <1>6, <2>2 DEF Stays
    <3> QED BY <1>0, <1>a, <1>b, <1>6, <2>2, <3>1, <3>2, <3>3, <3>4 DEF Become
<1>7. CASE step = "pidfile"
  <2>3. "daemon" \in words => "daemon" \in done
    BY <1>0, <1>7, <1>a DEF PassWords, EarlyWords, AllSteps
  <2>1. new = [me EXCEPT !.named = me.forks]
    BY <1>b, <1>7 DEF Applied
  <2>2. /\ new \in Selves /\ new.root = me.root /\ new.user = me.user
        /\ new.group = me.group /\ new.uid = me.uid /\ new.forks = me.forks
        /\ new.session = me.session /\ new.inDir = me.inDir /\ new.named = me.forks
        /\ new.lockAt = me.lockAt /\ new.dumpable = me.dumpable /\ new.fail = me.fail
        /\ new.mishap = me.mishap /\ new.gid = me.gid /\ new.astray = me.astray
    BY <2>1 DEF Selves
  <2> QED
    <3>1. InsideBy(new, next)
      BY <1>0, <1>a, <1>b, <1>7, <2>2, <2>3 DEF Become, InsideBy
    <3>2. IdsBy(new, next, words, passwd)
      BY <1>0, <1>a, <1>b, <1>7, <2>2, <2>3 DEF Become, IdsBy
    <3>3. MadeBy(new, next, words)
      BY <1>0, <1>a, <1>b, <1>7, <2>2, <2>3 DEF Become, MadeBy
    <3>4. Stays(new, words, passwd)
      BY <1>0, <1>a, <1>b, <1>7, <2>2, <2>3 DEF Stays
    <3> QED BY <1>0, <1>a, <1>b, <1>7, <2>2, <2>3, <3>1, <3>2, <3>3, <3>4 DEF Become
<1>8. CASE step = "lockfile"
  <2>3. me.root = RootOfPass(words)
    BY <1>8, RootInPass DEF PassWords
  <2>1. new = [me EXCEPT !.lockAt = me.root]
    BY <1>b, <1>8 DEF Applied
  <2>2. /\ new \in Selves /\ new.root = me.root /\ new.user = me.user
        /\ new.group = me.group /\ new.uid = me.uid /\ new.forks = me.forks
        /\ new.session = me.session /\ new.inDir = me.inDir /\ new.named = me.named
        /\ new.lockAt = me.root /\ new.dumpable = me.dumpable /\ new.fail = me.fail
        /\ new.mishap = me.mishap /\ new.gid = me.gid /\ new.astray = me.astray
    BY <2>1 DEF Selves
  <2> QED
    <3>1. InsideBy(new, next)
      BY <1>0, <1>a, <1>b, <1>8, <2>2, <2>3 DEF Become, InsideBy
    <3>2. IdsBy(new, next, words, passwd)
      BY <1>0, <1>a, <1>b, <1>8, <2>2, <2>3 DEF Become, IdsBy
    <3>3. MadeBy(new, next, words)
      BY <1>0, <1>a, <1>b, <1>8, <2>2, <2>3 DEF Become, MadeBy
    <3>4. Stays(new, words, passwd)
      BY <1>0, <1>a, <1>b, <1>8, <2>2, <2>3 DEF Stays
    <3> QED BY <1>0, <1>a, <1>b, <1>8, <2>2, <2>3, <3>1, <3>2, <3>3, <3>4 DEF Become
<1>9. CASE step \in {"container", "ns"}
  <2>1. new = Contained(me, step = "ns", failing)
    BY <1>b, <1>9 DEF Applied
  <2>2. PICK more : more = IF step = "ns" THEN 1 ELSE 2
    OBVIOUS
  <2>3. PICK own : own = IF step = "ns" THEN me.session ELSE "own"
    OBVIOUS
  <2>4. PICK root : root = IF "container" \in failing /\ me.root # "inside" THEN "astray" ELSE "inside"
    OBVIOUS
  <2>5. PICK there \in BOOLEAN :
          there = IF step = "ns" THEN me.inDir \/ "container" \notin failing ELSE "dir" \notin failing
    BY DEF Selves
  <2>6. new = [me EXCEPT !.forks = @ + more, !.root = root, !.inDir = there,
                         !.astray = @ \cup failing, !.session = own]
    BY <2>1, <2>2, <2>3, <2>4, <2>5 DEF Contained
  <2>7. /\ me.forks + more \in Nat /\ (me.forks > 1 => me.forks + more > 1)
        /\ own \in {"caller's", "own"} /\ (me.session = "own" => own = "own")
    BY <2>2, <2>3 DEF Selves
  <2>8. /\ root \in {"inside", "astray"} /\ (root = "inside" \/ "container" \in failing)
        /\ (me.root = "inside" => root = "inside") /\ (me.inDir => there \/ "dir" \in failing)
    BY <2>4, <2>5
  <2>9. /\ new \in Selves /\ new.root = root /\ new.user = me.user
        /\ new.group = me.group /\ new.uid = me.uid /\ new.forks = me.forks + more
        /\ new.session = own /\ new.inDir = there /\ new.named = me.named
        /\ new.lockAt = me.lockAt /\ new.dumpable = me.dumpable /\ new.fail = me.fail
        /\ new.mishap = me.mishap /\ new.gid = me.gid /\ new.astray = me.astray \cup failing
    <3>1. me.astray \cup failing \in SUBSET {"container", "dir"}
      BY DEF Selves
    <3>2. /\ me.forks + more \in Nat /\ own \in {"caller's", "own"} /\ root \in Roots
      BY <2>7, <2>8 DEF Roots
    <3> QED BY <2>6, <3>1, <3>2 DEF Selves
  <2>10. step \in next /\ step \in words
    BY <1>0, <1>9 DEF PassWords
  <2>11. words \cap {"container", "ns"} # {} /\ next \cap {"container", "ns"} # {}
    BY <1>9, <2>10
  <2>12. \A w \in next : w \in done \/ w \in {"container", "ns"}
    BY <1>9
  <2>13. Become(new, next, words, passwd)
    <3>1. InsideBy(new, next)
      BY <2>7, <2>8, <2>9, <2>11, <2>12 DEF Become, InsideBy
    <3>2. IdsBy(new, next, words, passwd)
      BY <2>7, <2>8, <2>9, <2>11, <2>12 DEF Become, IdsBy
    <3>3. MadeBy(new, next, words)
      BY <2>7, <2>8, <2>9, <2>11, <2>12 DEF Become, MadeBy
    <3> QED BY <3>1, <3>2, <3>3 DEF Become
  <2>14. Stays(new, words, passwd)
    BY <2>9 DEF Stays
  <2> QED BY <1>9, <1>b, <2>9, <2>13, <2>14
<1>10. CASE step = "group"
  <2>1. new = SwitchGID(me)
    BY <1>b, <1>10 DEF Applied
  <2>2. CASE me.gid > 0
    <3>1. new = [me EXCEPT !.group = "asked"]
      BY <2>1, <2>2 DEF SwitchGID
    <3>2. /\ new \in Selves /\ new.root = me.root /\ new.user = me.user
          /\ new.group = "asked" /\ new.uid = me.uid /\ new.forks = me.forks
          /\ new.session = me.session /\ new.inDir = me.inDir /\ new.named = me.named
          /\ new.lockAt = me.lockAt /\ new.dumpable = me.dumpable /\ new.fail = me.fail
          /\ new.mishap = me.mishap /\ new.gid = me.gid /\ new.astray = me.astray
      BY <3>1 DEF Selves
    <3> QED
      <4>1. InsideBy(new, next)
        BY <1>0, <1>a, <1>b, <1>10, <3>2 DEF Become, InsideBy
      <4>2. IdsBy(new, next, words, passwd)
        BY <1>0, <1>a, <1>b, <1>10, <3>2 DEF Become, IdsBy
      <4>3. MadeBy(new, next, words)
        BY <1>0, <1>a, <1>b, <1>10, <3>2 DEF Become, MadeBy
      <4>4. Stays(new, words, passwd)
        BY <1>0, <1>a, <1>b, <1>10, <3>2 DEF Stays
      <4> QED BY <1>0, <1>a, <1>b, <1>10, <3>2, <4>1, <4>2, <4>3, <4>4 DEF Become
  <2>3. CASE ~(me.gid > 0)
    <3>1. new = me /\ me.gid < 0
      BY <2>1, <2>3 DEF SwitchGID, Selves
    <3> QED
      <4>1. InsideBy(new, next)
        BY <1>10, <1>b, <3>1 DEF Become, InsideBy
      <4>2. IdsBy(new, next, words, passwd)
        BY <1>10, <1>b, <3>1 DEF Become, IdsBy
      <4>3. MadeBy(new, next, words)
        BY <1>10, <1>b, <3>1 DEF Become, MadeBy
      <4>4. Stays(new, words, passwd)
        BY <1>10, <1>b, <3>1 DEF Stays
      <4> QED BY <1>10, <1>b, <3>1, <4>1, <4>2, <4>3, <4>4 DEF Become
  <2> QED BY <2>2, <2>3
<1>11. CASE step = "user"
  <2>1. new = SwitchUID(me)
    BY <1>b, <1>11 DEF Applied
  <2>2. step \in next
    BY <1>11 DEF PassWords
  <2>3. CASE me.uid > 0
    <3>1. new = [me EXCEPT !.user = "asked", !.dumpable = TRUE]
      BY <2>1, <2>3 DEF SwitchUID
    <3>2. /\ new \in Selves /\ new.root = me.root /\ new.user = "asked"
        /\ new.group = me.group /\ new.uid = me.uid /\ new.forks = me.forks
        /\ new.session = me.session /\ new.inDir = me.inDir /\ new.named = me.named
        /\ new.lockAt = me.lockAt /\ new.dumpable = TRUE /\ new.fail = me.fail
        /\ new.mishap = me.mishap /\ new.gid = me.gid /\ new.astray = me.astray
      BY <3>1 DEF Selves
    <3>3. "resist_ptrace" \notin next
      BY <1>0, <1>11
    <3> QED
      <4>1. InsideBy(new, next)
        BY <1>11, <1>b, <2>2, <3>2, <3>3 DEF Become, InsideBy
      <4>2. IdsBy(new, next, words, passwd)
        BY <1>11, <1>b, <2>2, <3>2, <3>3 DEF Become, IdsBy
      <4>3. MadeBy(new, next, words)
        BY <1>11, <1>b, <2>2, <3>2, <3>3 DEF Become, MadeBy
      <4>4. Stays(new, words, passwd)
        BY <1>11, <1>b, <2>2, <3>2, <3>3 DEF Stays
      <4> QED BY <1>11, <1>b, <2>2, <3>2, <3>3, <4>1, <4>2, <4>3, <4>4 DEF Become
  <2>4. CASE ~(me.uid > 0)
    <3>1. new = me /\ me.uid < 0
      BY <2>1, <2>4 DEF SwitchUID, Selves
    <3> QED
      <4>1. InsideBy(new, next)
        BY <1>11, <1>b, <2>2, <3>1 DEF Become, InsideBy
      <4>2. IdsBy(new, next, words, passwd)
        BY <1>11, <1>b, <2>2, <3>1 DEF Become, IdsBy
      <4>3. MadeBy(new, next, words)
        BY <1>11, <1>b, <2>2, <3>1 DEF Become, MadeBy
      <4>4. Stays(new, words, passwd)
        BY <1>11, <1>b, <2>2, <3>1 DEF Stays
      <4> QED BY <1>11, <1>b, <2>2, <3>1, <4>1, <4>2, <4>3, <4>4 DEF Become
  <2> QED BY <2>3, <2>4
<1>12. CASE step = "resist_ptrace"
  <2>1. new = [me EXCEPT !.dumpable = FALSE]
    BY <1>b, <1>12 DEF Applied
  <2>2. /\ new \in Selves /\ new.root = me.root /\ new.user = me.user
        /\ new.group = me.group /\ new.uid = me.uid /\ new.forks = me.forks
        /\ new.session = me.session /\ new.inDir = me.inDir /\ new.named = me.named
        /\ new.lockAt = me.lockAt /\ new.dumpable = FALSE /\ new.fail = me.fail
        /\ new.mishap = me.mishap /\ new.gid = me.gid /\ new.astray = me.astray
    BY <2>1 DEF Selves
  <2> QED
    <3>1. InsideBy(new, next)
      BY <1>0, <1>a, <1>b, <1>12, <2>2 DEF Become, InsideBy
    <3>2. IdsBy(new, next, words, passwd)
      BY <1>0, <1>a, <1>b, <1>12, <2>2 DEF Become, IdsBy
    <3>3. MadeBy(new, next, words)
      BY <1>0, <1>a, <1>b, <1>12, <2>2 DEF Become, MadeBy
    <3>4. Stays(new, words, passwd)
      BY <1>0, <1>a, <1>b, <1>12, <2>2 DEF Stays
    <3> QED BY <1>0, <1>a, <1>b, <1>12, <2>2, <3>1, <3>2, <3>3, <3>4 DEF Become
<1>13. step = "chdir" \/ step = "daemon" \/ step = "setsid" \/ step \in {"chroot", "jail"} \/ step = "look up user" \/ step = "look up group"
       \/ step = "dir" \/ step = "pidfile" \/ step = "lockfile" \/ step \in {"container", "ns"}
       \/ step = "group" \/ step = "user" \/ step = "resist_ptrace"
  BY <1>0 DEF StepWords, ConfigWords
<1> QED BY <1>1, <1>2, <1>3, <1>4, <1>5, <1>6, <1>7, <1>8, <1>9, <1>10, <1>11, <1>12, <1>13, <1>14

FailedStep(me, step) ==
  [me EXCEPT !.mishap = me.mishap \/ Permitted(me, step), !.fail = me.fail \/ step # "pidfile"]

\* A step that fails does so by chance, or because of a jail behind a change of the user.
LEMMA FailedStays ==
  ASSUME NEW me \in Selves, NEW words \in SUBSET ConfigWords, NEW done, NEW left, NEW step,
         Takes(step, done, left, AllSteps(words)), Become(me, done, words, passwd), Stays(me, words, passwd)
  PROVE  /\ FailedStep(me, step) \in Selves /\ FailedStep(me, step).lockAt = me.lockAt
         /\ Stays(FailedStep(me, step), words, passwd)
<1>b. PICK new : new = FailedStep(me, step)
  OBVIOUS
<1>m. PICK mishap \in BOOLEAN : mishap = (me.mishap \/ Permitted(me, step))
  OBVIOUS
<1>f. PICK fail \in BOOLEAN : fail = (me.fail \/ step # "pidfile")
  OBVIOUS
<1>1. new = [me EXCEPT !.mishap = mishap, !.fail = fail]
  BY <1>b, <1>m, <1>f DEF FailedStep
<1>2. /\ new \in Selves /\ new.lockAt = me.lockAt /\ new.uid = me.uid
      /\ new.gid = me.gid /\ new.mishap = mishap /\ new.fail = fail
  BY <1>1 DEF Selves
<1>3. ~Permitted(me, step) => {"user", "jail"} \subseteq words
  <2> SUFFICES ASSUME ~Permitted(me, step) PROVE {"user", "jail"} \subseteq words
    OBVIOUS
  <2>1. me.user = "asked" /\ step \in {"chroot", "jail", "container", "ns", "group", "user"}
    BY DEF Permitted, Selves
  <2>2. "user" \in done
    BY <2>1 DEF Become, IdsBy
  <2>3. step = "jail" /\ step \in words \cup {"chdir", "look up user", "look up group"}
    BY <2>1, <2>2, DoneBefore
  <2>4. "user" \in AllSteps(words)
    BY <2>2 DEF Takes
  <2>5. "user" \in words
    BY <2>4 DEF AllSteps
  <2> QED BY <2>3, <2>5
<1>4. Stays(new, words, passwd)
  <2>1. me.mishap => mishap
    BY <1>m
  <2>2. Permitted(me, step) => mishap
    BY <1>m
  <2> QED BY <1>2, <1>3, <2>1, <2>2 DEF Stays
<1> QED BY <1>b, <1>2, <1>4

\* One that is only remembered leaves a process as it should be, but for that.
LEMMA FailedBecomes ==
  ASSUME NEW me \in Selves, NEW words \in SUBSET ConfigWords, NEW done, NEW left, NEW next,
         NEW step \in {"dir", "pidfile", "container", "ns", "jail"},
         Takes(step, done, left, AllSteps(words)), Become(me, done, words, passwd),
         done \subseteq next, next \subseteq done \cup {step}
  PROVE  Become(FailedStep(me, step), next, words, passwd)
<1>b. PICK new : new = FailedStep(me, step)
  OBVIOUS
<1>m. PICK mishap \in BOOLEAN : mishap = (me.mishap \/ Permitted(me, step))
  OBVIOUS
<1>f. PICK fail \in BOOLEAN : fail = (me.fail \/ step # "pidfile")
  OBVIOUS
<1>1. new = [me EXCEPT !.mishap = mishap, !.fail = fail]
  BY <1>b, <1>m, <1>f DEF FailedStep
<1>2. /\ new \in Selves /\ new.fail = fail /\ new.lockAt = me.lockAt /\ new.root = me.root
      /\ new.user = me.user /\ new.group = me.group /\ new.uid = me.uid /\ new.forks = me.forks
      /\ new.session = me.session /\ new.inDir = me.inDir /\ new.named = me.named
      /\ new.dumpable = me.dumpable /\ new.gid = me.gid /\ new.astray = me.astray
  BY <1>1 DEF Selves
<1>3. \A w \in next : w \in done \/ w = step
  OBVIOUS
<1>4. me.fail => fail
  BY <1>f
<1>5. step # "pidfile" => fail
  BY <1>f
<1>6. Become(new, next, words, passwd)
  <2>1. InsideBy(new, next)
    BY <1>2, <1>3, <1>4, <1>5 DEF Become, InsideBy
  <2>2. IdsBy(new, next, words, passwd)
    BY <1>2, <1>3, <1>4, <1>5 DEF Become, IdsBy
  <2>3. MadeBy(new, next, words)
    BY <1>2, <1>3, <1>4, <1>5 DEF Become, MadeBy
  <2> QED BY <2>1, <2>2, <2>3 DEF Become
<1> QED BY <1>b, <1>6

-----------------------------------------------------------------------------
\* What a step of p has to leave: p as it should be, and the others as they are.
LEMMA OneTaskSteps ==
  ASSUME ConfigInv, NEW p \in Tasks, ConfigShape', TaskInv(p)', config' = config, passwd' = passwd,
         \A q \in Tasks \ {p} : self'[q] = self[q] /\ state'[q] = state[q] /\ steps'[q] = steps[q],
         \/ self'[p].lockAt = self[p].lockAt
              /\ (state'[p] \in {"applies", "runs"} => state[p] \in {"applies", "runs"})
         \/ \A q \in Tasks \ {p} : state[q] \in {"applies", "runs"} => self[q].lockAt # self'[p].lockAt
         \/ state'[p] \notin {"applies", "runs"}
  PROVE  ConfigInv'
<1>1. ASSUME NEW q \in Tasks PROVE TaskInv(q)'
  <2>1. CASE q = p
    BY <2>1
  <2>2. CASE q # p
    <3>1. /\ self'[q] = self[q] /\ state'[q] = state[q] /\ steps'[q] = steps[q] /\ TaskInv(q)
      BY <2>2 DEF ConfigInv
    <3> QED BY <3>1 DEF TaskInv, Said, Left, DoneSteps, Stays
  <2> QED BY <2>1, <2>2
<1>2. ASSUME NEW q \in Tasks, NEW r \in Tasks, q # r, {state'[q], state'[r]} \subseteq {"applies", "runs"},
             self'[q].lockAt = self'[r].lockAt
      PROVE  self'[q].lockAt = "nowhere"
  <2>1. CASE q # p /\ r # p
    BY <1>2, <2>1 DEF ConfigInv
  <2>2. CASE q = p
    BY <1>2, <2>2 DEF ConfigInv
  <2>3. CASE r = p
    BY <1>2, <2>3 DEF ConfigInv
  <2> QED BY <2>1, <2>2, <2>3
<1> QED BY <1>1, <1>2 DEF ConfigInv

\* What a config says are words of configs.
LEMMA SaidWords ==
  ASSUME NEW p \in Tasks, TaskInv(p)
  PROVE  Said(p) \in SUBSET ConfigWords
<1>1. config[p] \in Seq(ConfigWords)
  BY DEF TaskInv
<1>2. \A i \in 1..Len(config[p]) : config[p][i] \in ConfigWords
  BY <1>1, ElementOfSeq
<1> QED BY <1>2 DEF Said, Elements

\* A step is applied.
LEMMA AppliesStep ==
  ASSUME ConfigInv, NEW p \in Tasks, ApplyStep(p)
  PROVE  ConfigInv'
<1>1. PICK step \in StepNames, failing \in SUBSET {"container", "dir"} :
        /\ Step(p, step) /\ Permitted(self[p], step)
        /\ step = "lockfile" => LockFree(p)
        /\ self' = [self EXCEPT ![p] = Applied(self[p], step, failing)]
        /\ state' = state
  BY DEF ApplyStep
<1>2. ConfigShape /\ TaskInv(p) /\ state[p] = "applies" /\ config' = config
      /\ steps' = [steps EXCEPT ![p] = Tail(@)]
  BY <1>1 DEF ConfigInv, Step
<1>3. PICK me, done, left, next, words :
        me = self[p] /\ done = DoneSteps(p) /\ left = Left(p)' /\ next = DoneSteps(p)' /\ words = Said(p)
  OBVIOUS
<1>4. /\ Takes(step, done, left, AllSteps(words))
      /\ steps'[p] \in Seq(StepWords) /\ InOrderOf(steps'[p])
      /\ Said(p)' = words /\ config'[p] = config[p] /\ passwd' = passwd
      /\ left \subseteq AllSteps(words)
      /\ next \subseteq done \cup {step} /\ done \subseteq next
      /\ step \in PassWords \/ step \in next
      /\ \A w \in next, v \in left : Follows(w, v)
  BY <1>1, <1>2, <1>3, StepTakes
<1>5. words \in SUBSET ConfigWords
  BY <1>2, <1>3, SaidWords
<1>6. me \in Selves /\ Become(me, done, words, passwd) /\ Stays(me, words, passwd)
  BY <1>2, <1>3 DEF TaskInv
<1>7. PICK new : new = Applied(me, step, failing)
  OBVIOUS
<1>8. /\ new \in Selves /\ new.fail = me.fail
      /\ Become(new, next, words, passwd) /\ Stays(new, words, passwd)
      /\ step # "lockfile" => new.lockAt = me.lockAt
      /\ step = "lockfile" => new.lockAt = me.root
  <2>1. Takes(step, done, left, AllSteps(words)) /\ done \subseteq next /\ next \subseteq done \cup {step}
        /\ (step \in PassWords \/ step \in next)
    BY <1>4
  <2>2. /\ Applied(me, step, failing) \in Selves /\ Applied(me, step, failing).fail = me.fail
        /\ Become(Applied(me, step, failing), next, words, passwd)
        /\ Stays(Applied(me, step, failing), words, passwd)
        /\ step # "lockfile" => Applied(me, step, failing).lockAt = me.lockAt
        /\ step = "lockfile" => Applied(me, step, failing).lockAt = me.root
    BY <1>5, <1>6, <2>1, AppliedBecomes
  <2> QED BY <1>7, <2>2
<1>9. /\ self'[p] = new /\ DOMAIN self' = Tasks /\ state'[p] = "applies"
      /\ DOMAIN steps' = Tasks /\ DOMAIN state' = Tasks
      /\ \A q \in Tasks \ {p} : self'[q] = self[q] /\ state'[q] = state[q] /\ steps'[q] = steps[q]
  BY <1>1, <1>2, <1>3, <1>7 DEF ConfigShape
<1>10. TaskInv(p)'
  <2>1. config'[p] \in Seq(ConfigWords)
    BY <1>2, <1>4 DEF TaskInv
  <2>2. Left(p)' \subseteq AllSteps(Said(p)') /\ \A w \in DoneSteps(p)', v \in Left(p)' : Follows(w, v)
    BY <1>3, <1>4
  <2>3. Become(self'[p], DoneSteps(p)', Said(p)', passwd') /\ Stays(self'[p], Said(p)', passwd')
    BY <1>3, <1>4, <1>8, <1>9
  <2> QED BY <1>4, <1>8, <1>9, <2>1, <2>2, <2>3 DEF TaskInv
<1>11. \/ self'[p].lockAt = self[p].lockAt
       \/ \A q \in Tasks \ {p} : state[q] \in {"applies", "runs"} => self[q].lockAt # self'[p].lockAt
  BY <1>1, <1>3, <1>8, <1>9 DEF LockFree
<1>12. ConfigShape'
  BY <1>9 DEF ConfigShape
<1> QED BY <1>2, <1>4, <1>9, <1>10, <1>11, <1>12, OneTaskSteps

\* A step of p that fails, whatever becomes of p.
LEMMA FailsStep ==
  ASSUME ConfigInv, NEW p \in Tasks, NEW step, Fails(p, step),
         NEW to, DOMAIN state' = Tasks, state'[p] = to, \A q \in Tasks \ {p} : state'[q] = state[q],
         \/ to \in {"refused", "gone"}
         \/ to = "applies" /\ step \in {"dir", "pidfile", "container", "ns", "jail"}
  PROVE  ConfigInv'
<1>1. Step(p, step)
        /\ self' = [self EXCEPT ![p].mishap = @ \/ Permitted(self[p], step), ![p].fail = @ \/ step # "pidfile"]
  BY DEF Fails
<1>2. ConfigShape /\ TaskInv(p) /\ state[p] = "applies" /\ config' = config
      /\ steps' = [steps EXCEPT ![p] = Tail(@)]
  BY <1>1 DEF ConfigInv, Step
<1>3. PICK me, done, left, next, words :
        me = self[p] /\ done = DoneSteps(p) /\ left = Left(p)' /\ next = DoneSteps(p)' /\ words = Said(p)
  OBVIOUS
<1>4. /\ Takes(step, done, left, AllSteps(words))
      /\ steps'[p] \in Seq(StepWords) /\ InOrderOf(steps'[p])
      /\ Said(p)' = words /\ config'[p] = config[p] /\ passwd' = passwd
      /\ left \subseteq AllSteps(words)
      /\ next \subseteq done \cup {step} /\ done \subseteq next
      /\ \A w \in next, v \in left : Follows(w, v)
  BY <1>1, <1>2, <1>3, StepTakes
<1>5. words \in SUBSET ConfigWords
  BY <1>2, <1>3, SaidWords
<1>6. me \in Selves /\ Become(me, done, words, passwd) /\ Stays(me, words, passwd)
  BY <1>2, <1>3 DEF TaskInv
<1>7. PICK new : new = FailedStep(me, step)
  OBVIOUS
<1>8. /\ new \in Selves /\ Stays(new, words, passwd) /\ new.lockAt = me.lockAt
      /\ to = "applies" => Become(new, next, words, passwd)
  <2>1. new \in Selves /\ Stays(new, words, passwd) /\ new.lockAt = me.lockAt
    BY <1>4, <1>5, <1>6, <1>7, FailedStays
  <2>2. to = "applies" => Become(new, next, words, passwd)
    BY <1>4, <1>5, <1>6, <1>7, FailedBecomes
  <2> QED BY <2>1, <2>2
<1>9. /\ self'[p] = new /\ DOMAIN self' = Tasks /\ state'[p] = to
      /\ DOMAIN steps' = Tasks /\ DOMAIN state' = Tasks
      /\ \A q \in Tasks \ {p} : self'[q] = self[q] /\ state'[q] = state[q] /\ steps'[q] = steps[q]
  <2>1. self'[p] = [self[p] EXCEPT !.mishap = self[p].mishap \/ Permitted(self[p], step),
                                   !.fail = self[p].fail \/ step # "pidfile"]
    BY <1>1, <1>2 DEF ConfigShape
  <2>2. self'[p] = new
    BY <1>3, <1>7, <2>1 DEF FailedStep
  <2> QED BY <1>1, <1>2, <2>2 DEF ConfigShape
<1>10. TaskInv(p)'
  <2>1. config'[p] \in Seq(ConfigWords)
    BY <1>2, <1>4 DEF TaskInv
  <2>2. Left(p)' \subseteq AllSteps(Said(p)') /\ \A w \in DoneSteps(p)', v \in Left(p)' : Follows(w, v)
    BY <1>3, <1>4
  <2>3. Stays(self'[p], Said(p)', passwd')
    BY <1>3, <1>4, <1>8, <1>9
  <2>4. to = "applies" => Become(self'[p], DoneSteps(p)', Said(p)', passwd')
    BY <1>3, <1>4, <1>8, <1>9
  <2> QED BY <1>4, <1>8, <1>9, <2>1, <2>2, <2>3, <2>4 DEF TaskInv
<1>11. self'[p].lockAt = self[p].lockAt
  BY <1>3, <1>8, <1>9
<1>12. ConfigShape'
  BY <1>9 DEF ConfigShape
<1> QED BY <1>2, <1>4, <1>9, <1>10, <1>11, <1>12, OneTaskSteps

\* A process has applied its config, or ends.
LEMMA RunsOrEnds ==
  ASSUME ConfigInv, NEW p \in Tasks, RunsIt(p) \/ TaskEnds(p)
  PROVE  ConfigInv'
<1>1. /\ passwd' = passwd /\ config' = config /\ steps' = steps /\ self' = self
      /\ ConfigShape /\ TaskInv(p)
  BY DEF RunsIt, TaskEnds, ConfigInv
<1>2. /\ Said(p)' = Said(p) /\ Left(p)' = Left(p) /\ DoneSteps(p)' = DoneSteps(p)
  BY <1>1 DEF Said, Left, DoneSteps
<1>3. PICK to : state' = [state EXCEPT ![p] = to] /\ to \in {"refused", "runs", "gone"}
        /\ (to = "runs" => state[p] = "applies" /\ steps[p] = <<>> /\ ~self[p].fail)
  BY DEF RunsIt, TaskEnds
<1>4. to = "runs" => Left(p) = {}
  <2>1. to = "runs" => Len(steps[p]) = 0
    BY <1>3
  <2> QED BY <2>1 DEF Left, Elements
<1>5. state'[p] = to /\ DOMAIN state' = Tasks
      /\ \A q \in Tasks \ {p} : self'[q] = self[q] /\ state'[q] = state[q] /\ steps'[q] = steps[q]
  BY <1>1, <1>3 DEF ConfigShape
<1>6. TaskInv(p)'
  BY <1>1, <1>2, <1>3, <1>4, <1>5 DEF TaskInv
<1>7. ConfigShape'
  BY <1>1, <1>5 DEF ConfigShape
<1> QED BY <1>1, <1>3, <1>5, <1>6, <1>7, OneTaskSteps

\* Nothing happens.
LEMMA ConfigRests == ConfigInv /\ configVars' = configVars => ConfigInv'
  BY DEF configVars, ConfigInv, ConfigShape, TaskInv, Said, Left, DoneSteps

\* Every step of a process keeps its invariant,
LEMMA ConfigKeeps == ConfigInv /\ [ConfigNext]_configVars => ConfigInv'
<1> SUFFICES ASSUME ConfigInv, ConfigNext PROVE ConfigInv'
  BY ConfigRests
<1>1. PICK p \in Tasks : ApplyStep(p) \/ FailsLater(p) \/ FailsAtOnce(p) \/ FailsAndEnds(p)
                           \/ RunsIt(p) \/ TaskEnds(p)
  BY DEF ConfigNext
<1>2. CASE ApplyStep(p)
  BY <1>2, AppliesStep
<1>3. CASE FailsLater(p)
  <2>1. PICK step \in {"dir", "pidfile", "container", "ns", "jail"} : Fails(p, step)
    BY <1>3 DEF FailsLater
  <2>2. state[p] = "applies" /\ DOMAIN state = Tasks
    BY <2>1 DEF Fails, Step, ConfigInv, ConfigShape
  <2>3. state' = state
    BY <1>3 DEF FailsLater
  <2> QED BY <2>1, <2>2, <2>3, FailsStep
<1>4. CASE FailsAtOnce(p)
  <2>1. PICK step \in {"chdir", "chroot"} : Fails(p, step)
    BY <1>4 DEF FailsAtOnce
  <2>2. state' = [state EXCEPT ![p] = "refused"] /\ DOMAIN state = Tasks
    BY <1>4 DEF FailsAtOnce, ConfigInv, ConfigShape
  <2> QED BY <2>1, <2>2, FailsStep
<1>5. CASE FailsAndEnds(p)
  <2>1. PICK step \in {"daemon", "lockfile", "container", "ns", "group", "user", "resist_ptrace"} : Fails(p, step)
    BY <1>5 DEF FailsAndEnds
  <2>2. state' = [state EXCEPT ![p] = "gone"] /\ DOMAIN state = Tasks
    BY <1>5 DEF FailsAndEnds, ConfigInv, ConfigShape
  <2> QED BY <2>1, <2>2, FailsStep
<1> QED BY <1>1, <1>2, <1>3, <1>4, <1>5, RunsOrEnds

\* and that is enough for the property.
LEMMA ConfigIsApplied == ConfigInv => ConfigApplied
<1> SUFFICES ASSUME ConfigInv PROVE ConfigApplied
  OBVIOUS
<1>0. ASSUME NEW p \in Tasks
      PROVE  TaskInv(p) /\ Words(p) = Said(p) /\ Said(p) \in SUBSET ConfigWords
  BY WordsAre, SaidWords DEF ConfigInv, TaskInv
<1>1. ASSUME NEW p \in Tasks, state[p] = "runs"
      PROVE  Become(self[p], AllSteps(Said(p)), Said(p), passwd) /\ ~self[p].fail /\ self[p] \in Selves
  BY <1>0, <1>1 DEF TaskInv, DoneSteps
<1>2. AsAsked
  <2> SUFFICES ASSUME NEW p \in Tasks, state[p] = "runs"
               PROVE  /\ Words(p) \cap {"chroot", "jail"} # {} => self[p].root = "inside"
                      /\ Words(p) \cap {"container", "ns"} # {} /\ "container" \notin self[p].astray =>
                           self[p].root = "inside"
                      /\ "user" \in Words(p) /\ KnownInPass("user", Words(p)) => self[p].user = "asked"
                      /\ "group" \in Words(p) /\ KnownInPass("group", Words(p)) => self[p].group = "asked"
                      /\ "daemon" \in Words(p) => self[p].forks > 1 /\ self[p].session = "own"
                      /\ "setsid" \in Words(p) => self[p].session = "own"
                      /\ "dir" \in Words(p) /\ "dir" \notin self[p].astray => self[p].inDir
                      /\ "resist_ptrace" \in Words(p) => ~self[p].dumpable
    BY DEF AsAsked
  <2>1. Become(self[p], AllSteps(Said(p)), Said(p), passwd) /\ ~self[p].fail /\ Words(p) = Said(p)
        /\ self[p] \in Selves
    BY <1>0, <1>1
  <2>2. PICK words, me : words = Said(p) /\ me = self[p]
    OBVIOUS
  <2>3. Become(me, AllSteps(words), words, passwd) /\ ~me.fail /\ me \in Selves
    BY <2>1, <2>2
  <2>4. \A w \in words : w # "setsid" => w \in AllSteps(words)
    BY DEF AllSteps
  <2>5. "setsid" \in words /\ "daemon" \notin words => "setsid" \in AllSteps(words)
    BY DEF AllSteps
  <2>6. /\ words \cap {"chroot", "jail"} # {} => me.root = "inside"
        /\ words \cap {"container", "ns"} # {} /\ "container" \notin me.astray => me.root = "inside"
    BY <2>3, <2>4 DEF Become, InsideBy, IdsBy, MadeBy
  <2>7. "user" \in words /\ KnownInPass("user", words) => me.user = "asked"
    <3>1. "user" \in words => "look up user" \in AllSteps(words)
      BY DEF AllSteps
    <3>2. me.uid > 0 => ~(me.uid < 0)
      BY <2>3 DEF Selves
    <3> QED BY <2>3, <2>4, <3>1, <3>2 DEF Become, InsideBy, IdsBy, MadeBy, KnownInPass, KnownAs
  <2>8. "group" \in words /\ KnownInPass("group", words) => me.group = "asked"
    <3>1. "group" \in words => "look up group" \in AllSteps(words)
      BY DEF AllSteps
    <3>2. me.gid > 0 => ~(me.gid < 0)
      BY <2>3 DEF Selves
    <3> QED BY <2>3, <2>4, <3>1, <3>2 DEF Become, InsideBy, IdsBy, MadeBy, KnownInPass, KnownAs
  <2>9. /\ "daemon" \in words => me.forks > 1 /\ me.session = "own"
        /\ "dir" \in words /\ "dir" \notin me.astray => me.inDir
        /\ "resist_ptrace" \in words => ~me.dumpable
    BY <2>3, <2>4 DEF Become, InsideBy, IdsBy, MadeBy
  <2>10. "setsid" \in words => me.session = "own"
    BY <2>3, <2>5, <2>9 DEF Become, InsideBy, IdsBy, MadeBy
  <2> QED BY <2>1, <2>2, <2>6, <2>7, <2>8, <2>9, <2>10
<1>3. WithinChroot
  BY <1>0 DEF WithinChroot, TaskInv, Stays, KnownInPass, KnownAs
<1>4. NamedRight
  BY <1>0, <1>1 DEF NamedRight, Become, InsideBy, IdsBy, MadeBy
<1>5. OneHolder
  BY DEF OneHolder, ConfigInv
<1>6. NotItsOwnDoing
  BY <1>0 DEF NotItsOwnDoing, TaskInv, Stays
<1> QED BY <1>2, <1>3, <1>4, <1>5, <1>6 DEF ConfigApplied

-----------------------------------------------------------------------------
(* The descriptors of processes that are started                          *)

-----------------------------------------------------------------------------
ThingKinds == {"free", "null", "parent's", "stdin r", "stdin w", "stdout r", "stdout w", "stderr r", "stderr w",
          "master", "slave"}
Things == [is : ThingKinds, id : Nat, cloexec : BOOLEAN]
Tables == [Fds -> Things]
Numbers == Fds \cup {-1}

\* The descriptors.
LEMMA FdsAre == /\ 0 \in Fds /\ 1 \in Fds /\ 2 \in Fds /\ -1 \notin Fds
                /\ Fds \in SUBSET Nat /\ IsFiniteSet(Fds)
<1>1. MaxFd \in Nat /\ MaxFd >= 2
  BY SpawnAssumption
<1>2. IsFiniteSet(0..MaxFd)
  BY <1>1, FS_Interval
<1> QED BY <1>1, <1>2 DEF Fds

\* What a descriptor may be of.
LEMMA ThingsAre ==
  /\ FreeFd \in Things /\ Null \in Things /\ FreeFd # Null /\ FreeFd.is = "free" /\ Null.is = "null"
  /\ FreeFd.cloexec = FALSE /\ Null.cloexec = FALSE
  /\ \A k \in ThingKinds, i \in Nat : Thing(k, i, FALSE) \in Things /\ Thing(k, i, FALSE).is = k
                                 /\ Thing(k, i, FALSE).id = i /\ Thing(k, i, FALSE).cloexec = FALSE
BY DEF FreeFd, Null, Thing, Things, ThingKinds

\* The lowest descriptor that is free.
LEMMA LowestIs ==
  ASSUME NEW t \in Tables
  PROVE  \/ Lowest(t) = -1 /\ \A fd \in Fds : t[fd] # FreeFd
         \/ /\ Lowest(t) \in Fds /\ t[Lowest(t)] = FreeFd
            /\ \A fd \in Fds : fd < Lowest(t) => t[fd] # FreeFd
<1>1. CASE Free(t) = {}
  BY <1>1 DEF Lowest, Free
<1>2. CASE Free(t) # {}
  <2>1. Free(t) \in SUBSET Nat
    BY FdsAre DEF Free
  <2>2. PICK i \in Free(t) : \A j \in Free(t) : i <= j
    BY <1>2, <2>1, HasSmallest
  <2>3. Lowest(t) \in Free(t) /\ \A j \in Free(t) : Lowest(t) <= j
    <3>1. Lowest(t) = Min(Free(t))
      BY <1>2 DEF Lowest
    <3> QED BY <2>2, <3>1 DEF Min
  <2>4. ASSUME NEW fd \in Fds, fd < Lowest(t) PROVE t[fd] # FreeFd
    <3>1. fd \notin Free(t)
      <4>1. Lowest(t) \in Nat /\ fd \in Nat
        BY <2>1, <2>3, FdsAre
      <4> QED BY <2>3, <2>4, <4>1
    <3> QED BY <3>1 DEF Free
  <2> QED BY <2>3, <2>4 DEF Free
<1> QED BY <1>1, <1>2

\* The lowest free descriptor, or none.
LEMMA LowestIsIn == ASSUME NEW t \in Tables PROVE Lowest(t) \in Numbers
BY LowestIs DEF Numbers

\* What a descriptor is made to be.
LEMMA PutIs ==
  ASSUME NEW t \in Tables, NEW fd \in Numbers, NEW thing \in Things
  PROVE  /\ Put(t, fd, thing) \in Tables
         /\ fd # -1 => Put(t, fd, thing)[fd] = thing
         /\ \A x \in Fds : x # fd => Put(t, fd, thing)[x] = t[x]
         /\ fd = -1 => Put(t, fd, thing) = t
BY FdsAre DEF Put, Tables, Numbers

\* What a close does.
LEMMA CloseIs ==
  ASSUME NEW t \in Tables, NEW fd \in Numbers
  PROVE  /\ Close(t, fd) \in Tables
         /\ fd # -1 => Close(t, fd)[fd] = FreeFd
         /\ \A x \in Fds : x # fd => Close(t, fd)[x] = t[x]
         /\ fd = -1 => Close(t, fd) = t
BY PutIs, ThingsAre DEF Close

\* What a dup does: it takes the lowest free descriptor, or fails.
LEMMA DupIs ==
  ASSUME NEW t \in Tables, NEW fd \in Numbers
  PROVE  \/ Dup(t, fd) = t
         \/ /\ fd \in Fds /\ Lowest(t) \in Fds /\ t[Lowest(t)] = FreeFd /\ Dup(t, fd) \in Tables
            /\ Dup(t, fd)[Lowest(t)] = [t[fd] EXCEPT !.cloexec = FALSE]
            /\ \A x \in Fds : x # Lowest(t) => Dup(t, fd)[x] = t[x]
<1>1. CASE fd = -1 \/ t[fd] = FreeFd
  BY <1>1 DEF Dup
<1>2. CASE ~(fd = -1 \/ t[fd] = FreeFd)
  <2>1. fd \in Fds /\ t[fd] \in Things
    BY <1>2 DEF Numbers, Tables
  <2>2. [t[fd] EXCEPT !.cloexec = FALSE] \in Things
    BY <2>1 DEF Things
  <2>3. Dup(t, fd) = Put(t, Lowest(t), [t[fd] EXCEPT !.cloexec = FALSE])
    BY <1>2 DEF Dup
  <2>4. CASE Lowest(t) = -1
    BY <2>3, <2>4 DEF Put
  <2>5. CASE Lowest(t) # -1
    <3>1. Lowest(t) \in Fds /\ t[Lowest(t)] = FreeFd /\ Lowest(t) \in Numbers
      BY <2>5, LowestIs DEF Numbers
    <3>2. PICK l, u : l = Lowest(t) /\ u = Dup(t, fd)
      OBVIOUS
    <3>3. PICK thing \in Things : thing = [t[fd] EXCEPT !.cloexec = FALSE]
      BY <2>2
    <3>4. u = Put(t, l, thing) /\ l # -1 /\ l \in Numbers
      BY <2>3, <2>5, <3>1, <3>2, <3>3
    <3>5. u \in Tables /\ u[l] = thing /\ \A x \in Fds : x # l => u[x] = t[x]
      BY <3>4, PutIs
    <3> QED BY <2>1, <3>1, <3>2, <3>3, <3>5
  <2> QED BY <2>4, <2>5
<1> QED BY <1>1, <1>2

-----------------------------------------------------------------------------
\* Two descriptors that were free, or none.
PairOf(t, r, first, second, id) ==
  \/ r.a = -1 /\ r.b = -1 /\ r.t = t
  \/ /\ r.a \in Fds /\ r.b \in Fds /\ r.a # r.b /\ t[r.a] = FreeFd /\ t[r.b] = FreeFd
     /\ r.t \in Tables /\ r.t[r.a] = Thing(first, id, FALSE) /\ r.t[r.b] = Thing(second, id, FALSE)
     /\ \A x \in Fds : x # r.a /\ x # r.b => r.t[x] = t[x]

\* What pipe and openpty do, when there is room for both ends and when there is not.
LEMMA PairIs ==
  ASSUME NEW t \in Tables, NEW first \in ThingKinds, NEW second \in ThingKinds, NEW id \in Nat
  PROVE  /\ PairOf(t, Pair(t, first, second, id), first, second, id)
         /\ Pair(t, first, second, id).a = -1 => \E fd \in Fds : \A x \in Fds : x # fd => t[x] # FreeFd
<1>1. PICK a, b : a = Lowest(t) /\ b = Lowest(Put(t, a, Null))
  OBVIOUS
<1>2. PICK r : r = Pair(t, first, second, id)
  OBVIOUS
<1>3. a \in Numbers /\ Put(t, a, Null) \in Tables
  BY <1>1, LowestIsIn, PutIs, ThingsAre
<1>4. CASE a = -1 \/ b = -1
  <2>1. r = [t |-> t, a |-> -1, b |-> -1]
    BY <1>1, <1>2, <1>4 DEF Pair
  <2>2. CASE a = -1
    <3>1. 0 \in Fds /\ \A x \in Fds : t[x] # FreeFd
      BY <1>1, <2>2, FdsAre, LowestIs
    <3> QED BY <1>2, <2>1, <3>1 DEF PairOf
  <2>3. CASE a # -1
    <3>1. \A x \in Fds : Put(t, a, Null)[x] # FreeFd
      BY <1>1, <1>3, <1>4, <2>3, LowestIs, FdsAre
    <3>2. \A x \in Fds : x # a => t[x] # FreeFd
      BY <1>3, <3>1, PutIs, ThingsAre
    <3>3. a \in Fds
      BY <1>3, <2>3 DEF Numbers
    <3> QED BY <1>2, <2>1, <3>2, <3>3 DEF PairOf
  <2> QED BY <2>2, <2>3
<1>5. CASE a # -1 /\ b # -1
  <2>1. r = [t |-> Put(Put(t, a, Thing(first, id, FALSE)), b, Thing(second, id, FALSE)), a |-> a, b |-> b]
    BY <1>1, <1>2, <1>5 DEF Pair
  <2>2. a \in Fds /\ t[a] = FreeFd
    BY <1>1, <1>5, LowestIs
  <2>3. b \in Fds /\ Put(t, a, Null)[b] = FreeFd
    BY <1>1, <1>3, <1>5, LowestIs
  <2>4. a # b /\ t[b] = FreeFd
    BY <1>3, <1>5, <2>2, <2>3, PutIs, ThingsAre
  <2>5. Thing(first, id, FALSE) \in Things /\ Thing(second, id, FALSE) \in Things /\ a \in Numbers /\ b \in Numbers
    BY <2>2, <2>3, ThingsAre DEF Numbers
  <2>6. PICK u : u = Put(t, a, Thing(first, id, FALSE))
    OBVIOUS
  <2>7. u \in Tables /\ u[a] = Thing(first, id, FALSE) /\ \A x \in Fds : x # a => u[x] = t[x]
    BY <1>5, <2>5, <2>6, PutIs
  <2>8. PICK v : v = Put(u, b, Thing(second, id, FALSE))
    OBVIOUS
  <2>9. v \in Tables /\ v[b] = Thing(second, id, FALSE) /\ \A x \in Fds : x # b => v[x] = u[x]
    BY <1>5, <2>5, <2>7, <2>8, PutIs
  <2>10. r.a = a /\ r.b = b /\ r.t = v
    BY <2>1, <2>6, <2>8
  <2>11. PairOf(t, r, first, second, id)
    BY <2>2, <2>3, <2>4, <2>7, <2>9, <2>10 DEF PairOf
  <2> QED BY <1>2, <1>5, <2>10, <2>11
<1> QED BY <1>4, <1>5

\* The ends of a link that are the child's.
ChildEnds == {"stdin r", "stdout w", "stderr w", "slave"}

\* What a child does to its descriptors puts no end of the parent's to another place, and
\* brings none that belongs to another child.
KeepsAll(r, t) == r \in Tables /\ \A fd \in Fds : r[fd].is = "stdin w" => r[fd] = t[fd]
Mine(t, id) == \A fd \in Fds : t[fd].is \in ChildEnds => t[fd].id = id

\* One step after the other.
LEMMA KeepsOn ==
  ASSUME NEW r, NEW s, NEW t, KeepsAll(s, t), KeepsAll(r, s)
  PROVE  KeepsAll(r, t)
BY DEF KeepsAll

\* A close,
LEMMA CloseKeeps ==
  ASSUME NEW t \in Tables, NEW fd \in Numbers, NEW id, Mine(t, id)
  PROVE  KeepsAll(Close(t, fd), t) /\ Mine(Close(t, fd), id)
<1>1. PICK u : u = Close(t, fd)
  OBVIOUS
<1>2. u \in Tables /\ \A x \in Fds : u[x] = FreeFd \/ u[x] = t[x]
  BY <1>1, CloseIs
<1> QED BY <1>1, <1>2, ThingsAre DEF KeepsAll, Mine, ChildEnds

\* the null device,
LEMMA NullKeeps ==
  ASSUME NEW t \in Tables, NEW fd \in Numbers, NEW id, Mine(t, id)
  PROVE  KeepsAll(Put(t, fd, Null), t) /\ Mine(Put(t, fd, Null), id)
<1>1. PICK u : u = Put(t, fd, Null)
  OBVIOUS
<1>2. u \in Tables /\ \A x \in Fds : u[x] = Null \/ u[x] = t[x]
  BY <1>1, PutIs, ThingsAre DEF Tables
<1> QED BY <1>1, <1>2, ThingsAre DEF KeepsAll, Mine, ChildEnds

\* a dup,
LEMMA DupKeeps ==
  ASSUME NEW t \in Tables, NEW fd \in Numbers, NEW id, Mine(t, id), fd # -1 => t[fd].is # "stdin w"
  PROVE  KeepsAll(Dup(t, fd), t) /\ Mine(Dup(t, fd), id)
<1>1. CASE Dup(t, fd) = t
  BY <1>1 DEF KeepsAll
<1>2. CASE Dup(t, fd) # t
  <2>1. PICK u, l : u = Dup(t, fd) /\ l = Lowest(t)
    OBVIOUS
  <2>2. /\ fd \in Fds /\ l \in Fds /\ u \in Tables /\ u[l] = [t[fd] EXCEPT !.cloexec = FALSE]
        /\ \A x \in Fds : x # l => u[x] = t[x]
    BY <1>2, <2>1, DupIs
  <2>3. u[l].is = t[fd].is /\ u[l].id = t[fd].id /\ fd # -1
    BY <2>2, FdsAre DEF Tables, Things
  <2>4. \A x \in Fds : u[x].is = "stdin w" => u[x] = t[x]
    BY <2>2, <2>3
  <2>5. \A x \in Fds : u[x].is \in ChildEnds => u[x].id = id
    BY <2>2, <2>3 DEF Mine
  <2> QED BY <2>1, <2>2, <2>4, <2>5 DEF KeepsAll, Mine
<1> QED BY <1>1, <1>2

\* and fd_remap, which is made of them.
LEMMA RemapKeeps ==
  ASSUME NEW t \in Tables, NEW fd \in Fds, NEW newfd \in Numbers, NEW id, Mine(t, id),
         newfd # -1 /\ newfd # fd => t[newfd].is # "stdin w"
  PROVE  KeepsAll(Remapped(t, fd, newfd), t) /\ Mine(Remapped(t, fd, newfd), id)
<1>0. fd \in Numbers
  BY DEF Numbers
<1>1. CASE newfd = fd
  BY <1>1 DEF Remapped, KeepsAll
<1>2. CASE newfd # fd /\ newfd # -1
  <2>1. PICK u : u = Close(t, fd)
    OBVIOUS
  <2>2. u \in Tables /\ KeepsAll(u, t) /\ Mine(u, id)
    BY <1>0, <2>1, CloseKeeps, CloseIs
  <2>3. newfd \in Fds
    BY <1>2 DEF Numbers
  <2>4. u[newfd] = t[newfd]
    BY <1>0, <1>2, <2>1, <2>3, CloseIs
  <2>5. KeepsAll(Dup(u, newfd), u) /\ Mine(Dup(u, newfd), id)
    BY <1>2, <2>2, <2>4, DupKeeps
  <2>6. Remapped(t, fd, newfd) = Dup(u, newfd)
    BY <1>2, <2>1 DEF Remapped, fd_remap
  <2> QED BY <2>2, <2>5, <2>6, KeepsOn
<1>3. CASE newfd = -1
  <2>1. PICK l : l = Lowest(t)
    OBVIOUS
  <2>2. l \in Numbers
    BY <2>1, LowestIsIn
  <2>3. CASE l = -1
    <3>1. Remapped(t, fd, newfd) = t
      BY <1>3, <2>1, <2>3, FdsAre DEF Remapped, fd_remap_null
    <3> QED BY <3>1 DEF KeepsAll
  <2>4. CASE l # -1
    <3>1. PICK opened, closed : opened = Put(t, l, Null) /\ closed = Close(opened, fd)
      OBVIOUS
    <3>2. PICK gets : gets = Dup(closed, l)
      OBVIOUS
    <3>3. Remapped(t, fd, newfd) = Close(gets, l)
      BY <1>3, <2>1, <2>4, <3>1, <3>2, FdsAre DEF Remapped, fd_remap_null, fd_remap
    <3>4. KeepsAll(opened, t) /\ Mine(opened, id)
      BY <2>2, <3>1, NullKeeps
    <3>5. KeepsAll(closed, opened) /\ Mine(closed, id)
      BY <1>0, <3>1, <3>4, CloseKeeps DEF KeepsAll
    <3>6. l \in Fds
      BY <2>2, <2>4 DEF Numbers
    <3>7. opened[l] = Null
      <4>1. PICK thing \in Things : thing = Null
        BY ThingsAre
      <4>2. opened = Put(t, l, thing)
        BY <3>1, <4>1
      <4>3. opened[l] = thing
        BY <2>2, <2>4, <4>2, PutIs
      <4> QED BY <4>1, <4>3
    <3>8. closed[l] = Null \/ closed[l] = FreeFd
      <4>1. opened \in Tables
        BY <3>4 DEF KeepsAll
      <4> QED BY <1>0, <3>1, <3>6, <3>7, <4>1, CloseIs, FdsAre
    <3>9. KeepsAll(gets, closed) /\ Mine(gets, id)
      <4>1. closed \in Tables /\ closed[l].is # "stdin w"
        BY <3>5, <3>8, ThingsAre DEF KeepsAll
      <4> QED BY <2>2, <3>2, <3>5, <4>1, DupKeeps
    <3>10. KeepsAll(Close(gets, l), gets) /\ Mine(Close(gets, l), id)
      BY <2>2, <3>9, CloseKeeps DEF KeepsAll
    <3> QED BY <3>3, <3>4, <3>5, <3>9, <3>10, KeepsOn
  <2> QED BY <2>3, <2>4
<1> QED BY <1>1, <1>2, <1>3

\* What is remapped to fd comes there when what is below fd is in use.
LEMMA RemapTo ==
  ASSUME NEW t \in Tables, NEW fd \in Fds, NEW newfd \in Fds, newfd # fd, t[newfd] # FreeFd,
         \A x \in Fds : x < fd => t[x] # FreeFd
  PROVE  /\ Remapped(t, fd, newfd) \in Tables
         /\ Remapped(t, fd, newfd)[fd] = [t[newfd] EXCEPT !.cloexec = FALSE]
         /\ \A x \in Fds : x # fd => Remapped(t, fd, newfd)[x] = t[x]
<1>0. fd \in Numbers /\ newfd \in Numbers /\ newfd # -1 /\ fd # -1 /\ fd \in Nat
  BY FdsAre DEF Numbers
<1>1. PICK u, v : u = Close(t, fd) /\ v = Dup(u, newfd)
  OBVIOUS
<1>2. Remapped(t, fd, newfd) = v
  BY <1>0, <1>1 DEF Remapped, fd_remap
<1>3. u \in Tables /\ u[fd] = FreeFd /\ \A x \in Fds : x # fd => u[x] = t[x]
  BY <1>0, <1>1, CloseIs
<1>4. PICK l : l = Lowest(u)
  OBVIOUS
<1>5. l = fd
  <2>1. l \in Fds /\ u[l] = FreeFd /\ \A x \in Fds : x < l => u[x] # FreeFd
    BY <1>3, <1>4, LowestIs
  <2>2. ~(fd < l)
    BY <1>3, <2>1
  <2>3. ~(l < fd)
    <3>1. SUFFICES ASSUME l < fd PROVE FALSE
      OBVIOUS
    <3>2. l # fd
      BY <1>0, <3>1
    <3> QED BY <1>3, <2>1, <3>1, <3>2
  <2>4. l \in Nat
    BY <2>1, FdsAre
  <2> QED BY <1>0, <2>2, <2>3, <2>4
<1>6. u[newfd] = t[newfd]
  BY <1>3
<1>7. PICK thing : thing = [t[newfd] EXCEPT !.cloexec = FALSE]
  OBVIOUS
<1>8. thing \in Things
  <2>1. t[newfd] \in Things
    BY DEF Tables
  <2> QED BY <1>7, <2>1 DEF Things
<1>9. v = Put(u, fd, thing)
  BY <1>0, <1>1, <1>4, <1>5, <1>6, <1>7 DEF Dup
<1>10. v \in Tables /\ v[fd] = thing /\ \A x \in Fds : x # fd => v[x] = u[x]
  BY <1>0, <1>3, <1>8, <1>9, PutIs
<1> QED BY <1>2, <1>3, <1>7, <1>10

\* And /dev/null comes there, when a descriptor is free.
LEMMA RemapNull ==
  ASSUME NEW t \in Tables, NEW fd \in Fds, \A x \in Fds : x <= fd => t[x] # FreeFd, NEW z \in Fds, t[z] = FreeFd
  PROVE  /\ Remapped(t, fd, -1) \in Tables
         /\ Remapped(t, fd, -1)[fd] = Null
         /\ \A x \in Fds : x # fd => Remapped(t, fd, -1)[x] = t[x]
<1>0. fd \in Numbers /\ fd # -1 /\ fd \in Nat
  BY FdsAre DEF Numbers
<1>1. PICK l : l = Lowest(t)
  OBVIOUS
<1>2. l \in Fds /\ t[l] = FreeFd /\ l \in Numbers /\ l # -1 /\ l \in Nat
  BY <1>1, LowestIs, FdsAre DEF Numbers
<1>3. fd < l
  BY <1>0, <1>2
<1>4. PICK opened : opened = Put(t, l, Null)
  OBVIOUS
<1>5. opened \in Tables /\ opened[l] = Null /\ \A x \in Fds : x # l => opened[x] = t[x]
  <2>1. PICK thing \in Things : thing = Null
    BY ThingsAre
  <2> QED BY <1>2, <1>4, <2>1, PutIs
<1>6. PICK gets : gets = Remapped(opened, fd, l)
  OBVIOUS
<1>7. /\ gets \in Tables /\ gets[fd] = [opened[l] EXCEPT !.cloexec = FALSE]
      /\ \A x \in Fds : x # fd => gets[x] = opened[x]
  <2>1. \A x \in Fds : x < fd => opened[x] # FreeFd
    <3>1. SUFFICES ASSUME NEW x \in Fds, x < fd PROVE opened[x] # FreeFd
      OBVIOUS
    <3>2. x # l /\ x <= fd
      <4>1. x \in Nat
        BY FdsAre
      <4> QED BY <1>0, <1>2, <1>3, <3>1, <4>1
    <3> QED BY <1>5, <3>2
  <2>2. l # fd /\ opened[l] # FreeFd
    BY <1>0, <1>2, <1>3, <1>5, ThingsAre
  <2> QED BY <1>2, <1>5, <1>6, <2>1, <2>2, RemapTo
<1>8. gets[fd] = Null
  <2>1. \A r \in Things : r.cloexec = FALSE => [r EXCEPT !.cloexec = FALSE] = r
    BY DEF Things
  <2>2. [Null EXCEPT !.cloexec = FALSE] = Null
    BY <2>1, ThingsAre
  <2> QED BY <1>5, <1>7, <2>2
<1>9. Remapped(t, fd, -1) = Close(gets, l)
  <2>1. gets = fd_remap(opened, fd, l)
    BY <1>0, <1>2, <1>3, <1>6 DEF Remapped
  <2> QED BY <1>0, <1>1, <1>2, <1>4, <2>1 DEF Remapped, fd_remap_null
<1>10. PICK last : last = Close(gets, l)
  OBVIOUS
<1>11. last \in Tables /\ last[l] = FreeFd /\ \A x \in Fds : x # l => last[x] = gets[x]
  BY <1>2, <1>7, <1>10, CloseIs
<1>12. last[fd] = Null
  BY <1>0, <1>2, <1>3, <1>8, <1>11
<1>13. \A x \in Fds : x # fd => last[x] = t[x]
  BY <1>2, <1>5, <1>7, <1>11
<1> QED BY <1>9, <1>10, <1>11, <1>12, <1>13

\* What is at its place already stays there.
LEMMA RemapSame == ASSUME NEW t, NEW fd PROVE Remapped(t, fd, fd) = t
BY DEF Remapped

-----------------------------------------------------------------------------
\* Six descriptors are not more than six.
LEMMA Few ==
  ASSUME NEW a, NEW b, NEW c, NEW d, NEW e, NEW f, NEW S \in SUBSET {a, b, c, d, e, f}
  PROVE  ~(Cardinality(S) > 6)
<1>0. PICK A, B, C, D, E, G : A = {a} /\ B = A \cup {b} /\ C = B \cup {c} /\ D = C \cup {d} /\ E = D \cup {e} /\ G = E \cup {f}
  OBVIOUS
<1>1. IsFiniteSet(A) /\ Cardinality(A) = 1
  BY <1>0, FS_Singleton
<1>2. IsFiniteSet(B) /\ Cardinality(B) <= 2 /\ Cardinality(B) \in Nat
  <2>1. IsFiniteSet(B) /\ Cardinality(B) \in {Cardinality(A), Cardinality(A) + 1}
    BY <1>0, <1>1, FS_AddElement
  <2> QED BY <1>1, <2>1
<1>3. IsFiniteSet(C) /\ Cardinality(C) <= 3 /\ Cardinality(C) \in Nat
  <2>1. IsFiniteSet(C) /\ Cardinality(C) \in {Cardinality(B), Cardinality(B) + 1}
    BY <1>0, <1>2, FS_AddElement
  <2> QED BY <1>2, <2>1
<1>4. IsFiniteSet(D) /\ Cardinality(D) <= 4 /\ Cardinality(D) \in Nat
  <2>1. IsFiniteSet(D) /\ Cardinality(D) \in {Cardinality(C), Cardinality(C) + 1}
    BY <1>0, <1>3, FS_AddElement
  <2> QED BY <1>3, <2>1
<1>5. IsFiniteSet(E) /\ Cardinality(E) <= 5 /\ Cardinality(E) \in Nat
  <2>1. IsFiniteSet(E) /\ Cardinality(E) \in {Cardinality(D), Cardinality(D) + 1}
    BY <1>0, <1>4, FS_AddElement
  <2> QED BY <1>4, <2>1
<1>6. IsFiniteSet(G) /\ Cardinality(G) <= 6 /\ Cardinality(G) \in Nat
  <2>1. IsFiniteSet(G) /\ Cardinality(G) \in {Cardinality(E), Cardinality(E) + 1}
    BY <1>0, <1>5, FS_AddElement
  <2> QED BY <1>5, <2>1
<1>7. S \in SUBSET G
  BY <1>0
<1>8. Cardinality(S) \in Nat /\ Cardinality(S) <= Cardinality(G)
  BY <1>6, <1>7, FS_Subset, FS_CardinalityType
<1> QED BY <1>6, <1>8

\* The three links of a child behind pipes, as PipeSpawnFunction makes them.
InOf(t, id) == Pair(t, "stdin r", "stdin w", id)
OutOf(how, in, id) == IF how.outNull THEN NoPair(in.t) ELSE Pair(in.t, "stdout r", "stdout w", id)
ErrOf(how, out, id) == IF how.err = "own" THEN Pair(out.t, "stderr r", "stderr w", id) ELSE NoPair(out.t)
ThirdOf(how, out, err) == CASE how.err = "own" -> err.b [] how.err = "with" -> out.b [] OTHER -> 2
RemapsOf(how, in, out, err) ==
  Remapped(Remapped(Remapped(err.t, 0, in.a), 1, out.b), 2, ThirdOf(how, out, err))
ChildOf(how, in, out, err) == Close(Close(Close(RemapsOf(how, in, out, err), in.b), out.a), err.a)

\* What they are in the table before the fork.
LinkIs(t, u, link, first, second, id) ==
  /\ link.a \in Numbers /\ link.b \in Numbers /\ (link.a = -1 <=> link.b = -1)
  /\ link.a # -1 => t[link.a] = FreeFd /\ u[link.a] = Thing(first, id, FALSE)
  /\ link.b # -1 => t[link.b] = FreeFd /\ u[link.b] = Thing(second, id, FALSE)
Others(t, u, in, out, err) ==
  \A x \in Fds : x \notin {in.a, in.b, out.a, out.b, err.a, err.b} => u[x] = t[x]
Linked(t, id, in, out, err) ==
  /\ t \in Tables /\ err.t \in Tables
  /\ LinkIs(t, err.t, in, "stdin r", "stdin w", id)
  /\ LinkIs(t, err.t, out, "stdout r", "stdout w", id)
  /\ LinkIs(t, err.t, err, "stderr r", "stderr w", id)
  /\ Others(t, err.t, in, out, err)

\* What is open is not free.
LEMMA ThingIs == ASSUME NEW k \in ThingKinds, NEW id \in Nat, k # "free" PROVE Thing(k, id, FALSE) # FreeFd
BY DEF Thing, FreeFd

\* A link stays when two descriptors that were free are made another.
LEMMA LinkStays ==
  ASSUME NEW t \in Tables, NEW u \in Tables, NEW r, NEW link, NEW first \in ThingKinds, NEW second \in ThingKinds,
         NEW f2 \in ThingKinds, NEW s2 \in ThingKinds, NEW id \in Nat,
         first # "free", second # "free",
         LinkIs(t, u, link, first, second, id), PairOf(u, r, f2, s2, id)
  PROVE  LinkIs(t, r.t, link, first, second, id)
<1>1. Thing(first, id, FALSE) # FreeFd /\ Thing(second, id, FALSE) # FreeFd
  BY ThingIs
<1>2. \A x \in Fds : u[x] # FreeFd => r.t[x] = u[x]
  BY DEF PairOf
<1> QED BY <1>1, <1>2 DEF LinkIs, Numbers

\* What a new link is of.
LEMMA PairLinks ==
  ASSUME NEW t \in Tables, NEW u \in Tables, NEW r, NEW first, NEW second, NEW id \in Nat, PairOf(u, r, first, second, id),
         \A x \in Fds : u[x] = FreeFd => t[x] = FreeFd
  PROVE  /\ LinkIs(t, r.t, r, first, second, id) /\ r.t \in Tables
         /\ \A x \in Fds : x # r.a /\ x # r.b => r.t[x] = u[x]
<1>1. CASE r.a = -1
  <2>1. r.a = -1 /\ r.b = -1 /\ r.t = u
    BY <1>1, FdsAre DEF PairOf
  <2> QED BY <2>1 DEF LinkIs, Numbers
<1>2. CASE r.a # -1
  BY <1>2, FdsAre DEF PairOf, LinkIs, Numbers
<1> QED BY <1>1, <1>2

\* A link is made, or not.
LEMMA PairOrNone ==
  ASSUME NEW t \in Tables, NEW first \in ThingKinds, NEW second \in ThingKinds, NEW id \in Nat
  PROVE  PairOf(t, Pair(t, first, second, id), first, second, id) /\ PairOf(t, NoPair(t), first, second, id)
<1>1. PICK r : r = NoPair(t)
  OBVIOUS
<1>2. r.a = -1 /\ r.b = -1 /\ r.t = t
  BY <1>1 DEF NoPair
<1>3. PairOf(t, r, first, second, id)
  BY <1>2 DEF PairOf
<1> QED BY <1>1, <1>3, PairIs

\* So are the three of a child.
LEMMA PairsLinked ==
  ASSUME NEW t \in Tables, NEW id \in Nat, NEW in, NEW out, NEW err,
         PairOf(t, in, "stdin r", "stdin w", id), PairOf(in.t, out, "stdout r", "stdout w", id),
         PairOf(out.t, err, "stderr r", "stderr w", id)
  PROVE  Linked(t, id, in, out, err) /\ in.t \in Tables /\ out.t \in Tables
<1>0. {"stdin r", "stdin w", "stdout r", "stdout w", "stderr r", "stderr w"} \subseteq ThingKinds \ {"free"}
  BY DEF ThingKinds
<1>2. LinkIs(t, in.t, in, "stdin r", "stdin w", id) /\ in.t \in Tables /\ \A x \in Fds : x # in.a /\ x # in.b => in.t[x] = t[x]
  BY PairLinks
<1>4. \A x \in Fds : in.t[x] = FreeFd => t[x] = FreeFd
  BY <1>2, FdsAre DEF LinkIs
<1>5. /\ LinkIs(t, out.t, out, "stdout r", "stdout w", id) /\ out.t \in Tables
      /\ \A x \in Fds : x # out.a /\ x # out.b => out.t[x] = in.t[x]
  BY <1>2, <1>4, PairLinks
<1>7. \A x \in Fds : out.t[x] = FreeFd => t[x] = FreeFd
  BY <1>4, <1>5, FdsAre DEF LinkIs
<1>8. /\ LinkIs(t, err.t, err, "stderr r", "stderr w", id) /\ err.t \in Tables
      /\ \A x \in Fds : x # err.a /\ x # err.b => err.t[x] = out.t[x]
  BY <1>5, <1>7, PairLinks
<1>9. LinkIs(t, out.t, in, "stdin r", "stdin w", id)
  BY <1>0, <1>2, LinkStays
<1>10. LinkIs(t, err.t, in, "stdin r", "stdin w", id)
  BY <1>0, <1>5, <1>9, LinkStays
<1>11. LinkIs(t, err.t, out, "stdout r", "stdout w", id)
  BY <1>0, <1>5, LinkStays
<1>12. Others(t, err.t, in, out, err)
  BY <1>2, <1>5, <1>8 DEF Others
<1> QED BY <1>2, <1>5, <1>8, <1>10, <1>11, <1>12 DEF Linked

\* The links of a child behind pipes.
LEMMA LinksAre ==
  ASSUME NEW t \in Tables, NEW id \in Nat, NEW how, NEW in, NEW out, NEW err,
         in = InOf(t, id), out = OutOf(how, in, id), err = ErrOf(how, out, id)
  PROVE  /\ Linked(t, id, in, out, err) /\ in.t \in Tables /\ out.t \in Tables
         /\ PairOf(t, in, "stdin r", "stdin w", id) /\ PairOf(in.t, out, "stdout r", "stdout w", id)
         /\ PairOf(out.t, err, "stderr r", "stderr w", id)
<1>0. {"stdin r", "stdin w", "stdout r", "stdout w", "stderr r", "stderr w"} \subseteq ThingKinds
  BY DEF ThingKinds
<1>1. PairOf(t, in, "stdin r", "stdin w", id)
  BY <1>0, PairOrNone DEF InOf
<1>2. in.t \in Tables
  BY <1>1, FdsAre DEF PairOf
<1>3. PairOf(in.t, out, "stdout r", "stdout w", id)
  BY <1>0, <1>2, PairOrNone DEF OutOf
<1>4. out.t \in Tables
  BY <1>2, <1>3, FdsAre DEF PairOf
<1>5. PairOf(out.t, err, "stderr r", "stderr w", id)
  BY <1>0, <1>4, PairOrNone DEF ErrOf
<1>6. PICK i, o, e : i = in /\ o = out /\ e = err
  OBVIOUS
<1>7. Linked(t, id, i, o, e)
  BY <1>1, <1>3, <1>5, <1>6, PairsLinked
<1> QED BY <1>1, <1>2, <1>3, <1>4, <1>5, <1>6, <1>7

\* With more than six descriptors free every link is made, and one is free after that when
\* stdout has none.
LEMMA RoomIsEnough ==
  ASSUME NEW t \in Tables, NEW id \in Nat, NEW how, NEW in, NEW out, NEW err,
         in = InOf(t, id), out = OutOf(how, in, id), err = ErrOf(how, out, id), Cardinality(Free(t)) > 6
  PROVE  /\ in.a # -1 /\ (~how.outNull => out.a # -1) /\ (how.err = "own" => err.a # -1)
         /\ how.outNull => out.b = -1 /\ \E z \in Fds : err.t[z] = FreeFd
<1>0. {"stdin r", "stdin w", "stdout r", "stdout w", "stderr r", "stderr w"} \subseteq ThingKinds
  BY DEF ThingKinds
<1>1. in.t \in Tables /\ out.t \in Tables
  BY LinksAre
<1>2. PairOf(t, in, "stdin r", "stdin w", id)
  BY LinksAre
<1>3. PairOf(in.t, out, "stdout r", "stdout w", id)
  BY LinksAre
<1>4. PairOf(out.t, err, "stderr r", "stderr w", id)
  BY LinksAre
<1>5. \A x \in Fds : x # in.a /\ x # in.b => in.t[x] = t[x]
  BY <1>2 DEF PairOf
<1>6. \A x \in Fds : x # out.a /\ x # out.b => out.t[x] = in.t[x]
  BY <1>3 DEF PairOf
<1>7. \A x \in Fds : x # err.a /\ x # err.b => err.t[x] = out.t[x]
  BY <1>4 DEF PairOf
<1>8. in.a # -1
  <2>1. SUFFICES ASSUME in.a = -1 PROVE FALSE
    OBVIOUS
  <2>2. PICK fd \in Fds : \A x \in Fds : x # fd => t[x] # FreeFd
    BY <1>0, <2>1, PairIs DEF InOf
  <2>3. Free(t) \subseteq {fd, fd, fd, fd, fd, fd}
    BY <2>2 DEF Free
  <2> QED BY <2>3, Few
<1>9. ASSUME ~how.outNull, out.a = -1 PROVE FALSE
  <2>1. PICK fd \in Fds : \A x \in Fds : x # fd => in.t[x] # FreeFd
    BY <1>0, <1>1, <1>9, PairIs DEF OutOf
  <2>2. Free(t) \subseteq {in.a, in.b, fd, fd, fd, fd}
    BY <1>5, <2>1 DEF Free
  <2> QED BY <2>2, Few
<1>10. ASSUME how.err = "own", err.a = -1 PROVE FALSE
  <2>1. PICK fd \in Fds : \A x \in Fds : x # fd => out.t[x] # FreeFd
    BY <1>0, <1>1, <1>10, PairIs DEF ErrOf
  <2>2. Free(t) \subseteq {in.a, in.b, out.a, out.b, fd, fd}
    BY <1>5, <1>6, <2>1 DEF Free
  <2> QED BY <2>2, Few
<1>11. how.outNull => out.b = -1
  BY DEF OutOf, NoPair
<1>12. \E z \in Fds : err.t[z] = FreeFd
  <2>1. SUFFICES ASSUME \A z \in Fds : err.t[z] # FreeFd PROVE FALSE
    OBVIOUS
  <2>2. Free(t) \subseteq {in.a, in.b, out.a, out.b, err.a, err.b}
    BY <1>5, <1>6, <1>7, <2>1 DEF Free
  <2> QED BY <2>2, Few
<1> QED BY <1>8, <1>9, <1>10, <1>11, <1>12

\* What the parent has when a child is about to be started.
NoEnds(t) == \A fd \in Fds : t[fd].is \notin ChildEnds
InputsBefore(t, id) == \A fd \in Fds : t[fd].is = "stdin w" => t[fd].id < id /\ t[fd].id \in Nat

\* No end of another child's comes to a child, and of the parent's ends none that the
\* parent did not have before.
ChildTable(r, t, id) ==
  /\ r \in Tables /\ Mine(r, id)
  /\ \A fd \in Fds : r[fd].is = "stdin w" => r[fd] = t[fd]

LinkedOwn(t, id, in, out, err) ==
  /\ Mine(err.t, id)
  /\ \A fd \in Fds : err.t[fd].is = "stdin w" => fd = in.b \/ err.t[fd] = t[fd]
  /\ out.b # -1 => err.t[out.b].is # "stdin w"
  /\ err.b # -1 => err.t[err.b].is # "stdin w"
  /\ in.a # -1 => err.t[in.a].is # "stdin w"
  /\ {in.a, in.b, out.a, out.b, err.a, err.b} \subseteq Numbers

\* They are its own.
LEMMA LinkedMine ==
  ASSUME NEW t, NEW id \in Nat, NEW in, NEW out, NEW err, Linked(t, id, in, out, err), NoEnds(t)
  PROVE  LinkedOwn(t, id, in, out, err)
<1>1. \A k \in {"stdin r", "stdin w", "stdout r", "stdout w", "stderr r", "stderr w"} :
        k \in ThingKinds /\ Thing(k, id, FALSE).is = k /\ Thing(k, id, FALSE).id = id
  <2>1. \A k \in {"stdin r", "stdin w", "stdout r", "stdout w", "stderr r", "stderr w"} : k \in ThingKinds
    BY DEF ThingKinds
  <2> QED BY <2>1, ThingsAre
<1>2. {in.a, in.b, out.a, out.b, err.a, err.b} \subseteq Numbers
  BY DEF Linked, LinkIs
<1>3. ASSUME NEW fd \in Fds
      PROVE  /\ err.t[fd].is \in ChildEnds => err.t[fd].id = id
             /\ err.t[fd].is = "stdin w" => fd = in.b \/ err.t[fd] = t[fd]
  <2>0. fd # -1
    BY FdsAre
  <2>1. CASE fd = in.a
    <3>1. err.t[fd] = Thing("stdin r", id, FALSE)
      BY <2>0, <2>1 DEF Linked, LinkIs
    <3> QED BY <1>1, <3>1
  <2>2. CASE fd = in.b
    <3>1. err.t[fd] = Thing("stdin w", id, FALSE)
      BY <2>0, <2>2 DEF Linked, LinkIs
    <3> QED BY <1>1, <2>2, <3>1
  <2>3. CASE fd = out.a
    <3>1. err.t[fd] = Thing("stdout r", id, FALSE)
      BY <2>0, <2>3 DEF Linked, LinkIs
    <3> QED BY <1>1, <3>1
  <2>4. CASE fd = out.b
    <3>1. err.t[fd] = Thing("stdout w", id, FALSE)
      BY <2>0, <2>4 DEF Linked, LinkIs
    <3> QED BY <1>1, <3>1
  <2>5. CASE fd = err.a
    <3>1. err.t[fd] = Thing("stderr r", id, FALSE)
      BY <2>0, <2>5 DEF Linked, LinkIs
    <3> QED BY <1>1, <3>1
  <2>6. CASE fd = err.b
    <3>1. err.t[fd] = Thing("stderr w", id, FALSE)
      BY <2>0, <2>6 DEF Linked, LinkIs
    <3> QED BY <1>1, <3>1
  <2>7. CASE fd \notin {in.a, in.b, out.a, out.b, err.a, err.b}
    <3>1. err.t[fd] = t[fd]
      BY <2>7 DEF Linked, Others
    <3> QED BY <3>1 DEF NoEnds
  <2> QED BY <2>1, <2>2, <2>3, <2>4, <2>5, <2>6, <2>7
<1>4. out.b # -1 => err.t[out.b].is # "stdin w"
  <2>1. out.b # -1 => err.t[out.b] = Thing("stdout w", id, FALSE)
    BY DEF Linked, LinkIs
  <2> QED BY <1>1, <2>1
<1>5. err.b # -1 => err.t[err.b].is # "stdin w"
  <2>1. err.b # -1 => err.t[err.b] = Thing("stderr w", id, FALSE)
    BY DEF Linked, LinkIs
  <2> QED BY <1>1, <2>1
<1>6. in.a # -1 => err.t[in.a].is # "stdin w"
  <2>1. in.a # -1 => err.t[in.a] = Thing("stdin r", id, FALSE)
    BY DEF Linked, LinkIs
  <2> QED BY <1>1, <2>1
<1> QED BY <1>2, <1>3, <1>4, <1>5, <1>6 DEF Mine, LinkedOwn

\* After what was done before: fd_remap,
LEMMA RemapKeepsOn ==
  ASSUME NEW t \in Tables, NEW u \in Tables, NEW fd \in Fds, NEW newfd \in Numbers, NEW id, Mine(u, id), KeepsAll(u, t),
         newfd # -1 /\ newfd # fd => t[newfd].is # "stdin w"
  PROVE  KeepsAll(Remapped(u, fd, newfd), t) /\ Mine(Remapped(u, fd, newfd), id) /\ Remapped(u, fd, newfd) \in Tables
<1>1. newfd # -1 /\ newfd # fd => u[newfd].is # "stdin w"
  BY DEF KeepsAll, Numbers
<1>2. PICK v : v = Remapped(u, fd, newfd)
  OBVIOUS
<1>3. KeepsAll(v, u) /\ Mine(v, id)
  BY <1>1, <1>2, RemapKeeps
<1>4. KeepsAll(v, t)
  BY <1>3, KeepsOn
<1> QED BY <1>2, <1>3, <1>4 DEF KeepsAll

\* and a close.
LEMMA CloseKeepsOn ==
  ASSUME NEW t \in Tables, NEW u \in Tables, NEW fd \in Numbers, NEW id, Mine(u, id), KeepsAll(u, t)
  PROVE  KeepsAll(Close(u, fd), t) /\ Mine(Close(u, fd), id) /\ Close(u, fd) \in Tables
<1>1. PICK v : v = Close(u, fd)
  OBVIOUS
<1>2. KeepsAll(v, u) /\ Mine(v, id)
  BY <1>1, CloseKeeps
<1>3. KeepsAll(v, t)
  BY <1>2, KeepsOn
<1> QED BY <1>1, <1>2, <1>3 DEF KeepsAll

IsThird(third, out, err) == third \in {err.b, out.b, 2}

\* The descriptors of a child behind pipes, after what it has done to them.
LEMMA PipeChild ==
  ASSUME NEW t, NEW id \in Nat, NEW how, NEW in, NEW out, NEW err, Linked(t, id, in, out, err), NoEnds(t),
         NEW third \in Numbers, IsThird(third, out, err)
  PROVE  /\ Remapped(Remapped(Remapped(err.t, 0, in.a), 1, out.b), 2, third) \in Tables
         /\ ChildTable(Close(Close(Close(Remapped(Remapped(Remapped(err.t, 0, in.a), 1, out.b), 2, third),
                                         in.b), out.a), err.a), t, id)
<1>1. PICK e : e = err.t
  OBVIOUS
<1>0. LinkedOwn(t, id, in, out, err)
  BY LinkedMine
<1>2. t \in Tables /\ e \in Tables /\ Mine(e, id) /\ KeepsAll(e, e)
  BY <1>0, <1>1 DEF LinkedOwn, Linked, KeepsAll
<1>3. /\ \A fd \in Fds : e[fd].is = "stdin w" => fd = in.b \/ e[fd] = t[fd]
      /\ out.b # -1 => e[out.b].is # "stdin w"
      /\ err.b # -1 => e[err.b].is # "stdin w"
      /\ in.a # -1 => e[in.a].is # "stdin w"
      /\ in.a \in Numbers /\ in.b \in Numbers /\ out.a \in Numbers /\ out.b \in Numbers /\ err.a \in Numbers
  BY <1>0, <1>1 DEF LinkedOwn
<1>4. PICK r1 : r1 = Remapped(e, 0, in.a)
  OBVIOUS
<1>5. KeepsAll(r1, e) /\ Mine(r1, id) /\ r1 \in Tables
  BY <1>2, <1>3, <1>4, FdsAre, RemapKeepsOn
<1>6. PICK r2 : r2 = Remapped(r1, 1, out.b)
  OBVIOUS
<1>7. KeepsAll(r2, e) /\ Mine(r2, id) /\ r2 \in Tables
  BY <1>2, <1>3, <1>5, <1>6, FdsAre, RemapKeepsOn
<1>8. PICK r3 : r3 = Remapped(r2, 2, third)
  OBVIOUS
<1>9. third # -1 /\ third # 2 => e[third].is # "stdin w"
  BY <1>3 DEF IsThird
<1>10. KeepsAll(r3, e) /\ Mine(r3, id) /\ r3 \in Tables
  BY <1>2, <1>7, <1>8, <1>9, FdsAre, RemapKeepsOn
<1>11. PICK c1 : c1 = Close(r3, in.b)
  OBVIOUS
<1>12. KeepsAll(c1, e) /\ Mine(c1, id) /\ c1 \in Tables /\ (in.b # -1 => c1[in.b] = FreeFd)
  BY <1>2, <1>3, <1>10, <1>11, CloseKeepsOn, CloseIs
<1>13. PICK c2 : c2 = Close(c1, out.a)
  OBVIOUS
<1>14. KeepsAll(c2, c1) /\ KeepsAll(c2, e) /\ Mine(c2, id) /\ c2 \in Tables
  BY <1>2, <1>3, <1>12, <1>13, CloseKeepsOn, CloseKeeps
<1>15. PICK c3 : c3 = Close(c2, err.a)
  OBVIOUS
<1>16. KeepsAll(c3, c1) /\ KeepsAll(c3, e) /\ Mine(c3, id) /\ c3 \in Tables
  BY <1>2, <1>3, <1>12, <1>14, <1>15, CloseKeepsOn
<1>17. ASSUME NEW fd \in Fds, c3[fd].is = "stdin w" PROVE c3[fd] = t[fd]
  <2>1. c3[fd] = e[fd] /\ c3[fd] = c1[fd]
    BY <1>16, <1>17 DEF KeepsAll
  <2>2. fd # in.b
    <3>1. fd # -1
      BY FdsAre
    <3> QED BY <1>12, <1>17, <2>1, <3>1, ThingsAre
  <2> QED BY <1>3, <1>17, <2>1, <2>2
<1>18. ChildTable(c3, t, id)
  BY <1>16, <1>17 DEF ChildTable
<1> QED BY <1>1, <1>4, <1>6, <1>8, <1>10, <1>11, <1>13, <1>15, <1>18

\* What comes to a descriptor that newfd, or /dev/null, is remapped to.
Got(t, newfd) == IF newfd = -1 THEN Null ELSE [t[newfd] EXCEPT !.cloexec = FALSE]
IsGiven(r, t, fd, newfd) ==
  r \in Tables /\ r[fd] = Got(t, newfd) /\ \A x \in Fds : x # fd => r[x] = t[x]
Source(t, newfd) ==
  /\ newfd \in Numbers
  /\ newfd # -1 => t[newfd].is # "free"
  /\ newfd = -1 => \E z \in Fds : t[z] = FreeFd

\* What fd_remap brings to a descriptor.
LEMMA RemapGives ==
  ASSUME NEW t \in Tables, NEW fd \in Fds, NEW newfd, Source(t, newfd), newfd # fd,
         \A x \in Fds : x <= fd => t[x] # FreeFd
  PROVE  IsGiven(Remapped(t, fd, newfd), t, fd, newfd)
<1>0. PICK r : r = Remapped(t, fd, newfd)
  OBVIOUS
<1>1. CASE newfd = -1
  <2>1. PICK z \in Fds : t[z] = FreeFd
    BY <1>1 DEF Source
  <2>2. r = Remapped(t, fd, -1)
    BY <1>0, <1>1
  <2>3. r \in Tables /\ r[fd] = Null /\ \A x \in Fds : x # fd => r[x] = t[x]
    BY <2>1, <2>2, RemapNull
  <2> QED BY <1>0, <1>1, <2>3 DEF IsGiven, Got
<1>2. CASE newfd # -1
  <2>1. newfd \in Fds /\ t[newfd] # FreeFd
    BY <1>2, ThingsAre DEF Source, Numbers
  <2>2. \A x \in Fds : x < fd => t[x] # FreeFd
    <3>1. \A x \in Fds : x < fd => x <= fd
      BY FdsAre
    <3> QED BY <3>1
  <2>3. r \in Tables /\ r[fd] = [t[newfd] EXCEPT !.cloexec = FALSE] /\ \A x \in Fds : x # fd => r[x] = t[x]
    BY <1>0, <2>1, <2>2, RemapTo
  <2> QED BY <1>0, <1>2, <2>3 DEF IsGiven, Got
<1> QED BY <1>1, <1>2

\* It is open.
LEMMA GotIsUsed ==
  ASSUME NEW t \in Tables, NEW newfd, Source(t, newfd)
  PROVE  Got(t, newfd) # FreeFd
<1>1. CASE newfd = -1
  BY <1>1, ThingsAre DEF Got
<1>2. CASE newfd # -1
  <2>1. newfd \in Fds /\ t[newfd].is # "free" /\ t[newfd] \in Things
    BY <1>2 DEF Source, Numbers, Tables
  <2>2. [t[newfd] EXCEPT !.cloexec = FALSE].is = t[newfd].is
    BY <2>1 DEF Things
  <2> QED BY <1>2, <2>1, <2>2, ThingsAre DEF Got
<1> QED BY <1>1, <1>2

\* What is not one of the three comes to 0, 1 and 2.
Apart(newfd) == newfd # 0 /\ newfd # 1 /\ newfd # 2
ThreeAre(r, t, first, second, third) ==
  /\ r \in Tables
  /\ r[0] = Got(t, first) /\ r[1] = Got(t, second)
  /\ r[2] = IF third = 2 THEN t[2] ELSE Got(t, third)
  /\ \A x \in Fds : x \notin {0, 1, 2} => r[x] = t[x]

\* It is the same after what was done to 0, 1 and 2.
LEMMA GotStays ==
  ASSUME NEW t \in Tables, NEW r \in Tables, NEW newfd, Source(t, newfd), Apart(newfd),
         \A x \in Fds : x \notin {0, 1, 2} => r[x] = t[x], \A x \in {0, 1, 2} : t[x] # FreeFd
  PROVE  Source(r, newfd) /\ Got(r, newfd) = Got(t, newfd)
<1>1. CASE newfd = -1
  <2>1. PICK z \in Fds : t[z] = FreeFd
    BY <1>1 DEF Source
  <2>2. z \notin {0, 1, 2} /\ r[z] = FreeFd
    BY <2>1
  <2> QED BY <1>1, <2>2 DEF Source, Got
<1>2. CASE newfd # -1
  <2>1. newfd \in Fds /\ newfd \notin {0, 1, 2}
    BY <1>2 DEF Source, Numbers, Apart
  <2>2. r[newfd] = t[newfd]
    BY <2>1
  <2> QED BY <1>2, <2>2 DEF Source, Got
<1> QED BY <1>1, <1>2

\* All three come to their places.
LEMMA Three ==
  ASSUME NEW t \in Tables, NEW first, NEW second, NEW third, Source(t, first), Source(t, second),
         Apart(first), Apart(second), third = 2 \/ (Source(t, third) /\ Apart(third)),
         \A x \in {0, 1, 2} : t[x] # FreeFd
  PROVE  ThreeAre(Remapped(Remapped(Remapped(t, 0, first), 1, second), 2, third), t, first, second, third)
<1>0. /\ 0 \in Fds /\ 1 \in Fds /\ 2 \in Fds
      /\ \A x \in Fds : (x <= 0 => x = 0) /\ (x <= 1 => x = 0 \/ x = 1) /\ (x <= 2 => x \in {0, 1, 2})
  BY FdsAre
<1>1. PICK a : a = Remapped(t, 0, first)
  OBVIOUS
<1>2. IsGiven(a, t, 0, first)
  BY <1>0, <1>1, RemapGives DEF Apart
<1>3. a \in Tables /\ a[0] = Got(t, first) /\ a[0] # FreeFd /\ a[1] = t[1] /\ a[2] = t[2]
      /\ \A x \in Fds : x \notin {0, 1, 2} => a[x] = t[x]
  BY <1>0, <1>2, GotIsUsed DEF IsGiven
<1>4. Source(a, second) /\ Got(a, second) = Got(t, second)
  BY <1>3, GotStays
<1>5. PICK b : b = Remapped(a, 1, second)
  OBVIOUS
<1>6. \A x \in Fds : x <= 1 => a[x] # FreeFd
  BY <1>0, <1>3
<1>7. IsGiven(b, a, 1, second)
  BY <1>0, <1>3, <1>4, <1>5, <1>6, RemapGives DEF Apart
<1>8. b \in Tables /\ b[0] = Got(t, first) /\ b[1] = Got(t, second) /\ b[1] # FreeFd /\ b[2] = t[2]
      /\ \A x \in Fds : x \notin {0, 1, 2} => b[x] = t[x]
  <2>1. Got(a, second) # FreeFd
    BY <1>3, <1>4, GotIsUsed
  <2> QED BY <1>0, <1>3, <1>4, <1>7, <2>1 DEF IsGiven
<1>9. PICK c : c = Remapped(b, 2, third)
  OBVIOUS
<1>10. CASE third = 2
  <2>1. c = b
    BY <1>9, <1>10, RemapSame
  <2> QED BY <1>1, <1>5, <1>8, <1>9, <1>10, <2>1 DEF ThreeAre
<1>11. CASE third # 2
  <2>1. Source(b, third) /\ Got(b, third) = Got(t, third)
    BY <1>8, <1>11, GotStays
  <2>2. \A x \in Fds : x <= 2 => b[x] # FreeFd
    BY <1>0, <1>3, <1>8
  <2>3. IsGiven(c, b, 2, third)
    BY <1>0, <1>8, <1>9, <1>11, <2>1, <2>2, RemapGives
  <2>4. c \in Tables /\ c[0] = b[0] /\ c[1] = b[1] /\ c[2] = Got(t, third) /\ \A x \in Fds : x # 2 => c[x] = b[x]
    BY <1>0, <2>1, <2>3 DEF IsGiven
  <2> QED BY <1>1, <1>5, <1>8, <1>9, <1>11, <2>4 DEF ThreeAre
<1> QED BY <1>10, <1>11

\* What a child has at 0, 1 and 2, and that an exec leaves it there.
StdioOf(r, t, how, id) ==
  /\ r[0].cloexec = FALSE /\ r[1].cloexec = FALSE /\ r[2].cloexec = FALSE
  /\ IF how.tty THEN \A fd \in 0..2 : r[fd].is = "slave" /\ r[fd].id = id
     ELSE /\ r[0].is = "stdin r" /\ r[0].id = id
          /\ r[1].is = IF how.outNull THEN "null" ELSE "stdout w"
          /\ CASE how.err = "own" -> r[2].is = "stderr w"
               [] how.err = "with" -> r[2].is = r[1].is
               [] OTHER -> r[2].is = "parent's"

\* The null device.
LEMMA GotNull == ASSUME NEW t PROVE Got(t, -1).is = "null" /\ Got(t, -1).cloexec = FALSE
BY ThingsAre DEF Got

Carries(t, fd, k, id) ==
  Source(t, fd) /\ Got(t, fd).is = k /\ Got(t, fd).id = id /\ Got(t, fd).cloexec = FALSE

\* What a link carries.
LEMMA CarriesIt ==
  ASSUME NEW t \in Tables, NEW fd \in Fds, NEW k \in ThingKinds, NEW id \in Nat, t[fd] = Thing(k, id, FALSE), k # "free"
  PROVE  Carries(t, fd, k, id)
<1>1. Thing(k, id, FALSE).is = k /\ Thing(k, id, FALSE).id = id
  BY ThingsAre
<1>2. t[fd].is = k /\ t[fd].id = id /\ t[fd] \in Things /\ fd # -1
  BY <1>1, FdsAre DEF Tables
<1>3. Source(t, fd)
  BY <1>2 DEF Source, Numbers
<1>4. PICK r : r = [t[fd] EXCEPT !.cloexec = FALSE]
  OBVIOUS
<1>5. r.is = t[fd].is /\ r.id = t[fd].id /\ r.cloexec = FALSE
  BY <1>2, <1>4 DEF Things
<1>6. Got(t, fd) = r
  BY <1>2, <1>4 DEF Got
<1> QED BY <1>2, <1>3, <1>5, <1>6 DEF Carries

\* The parent has its own three.
OwnThree(t) == \A fd \in 0..2 : t[fd].is = "parent's" /\ t[fd].cloexec = FALSE
OwnThreeIn(e, t) == e[0] = t[0] /\ e[1] = t[1] /\ e[2] = t[2]

\* The links of a child are apart from its stdin, stdout and stderr.
LEMMA ThreeAreApart ==
  ASSUME NEW t \in Tables, OwnThree(t)
  PROVE  /\ \A fd \in Numbers : (fd # -1 => t[fd] = FreeFd) => Apart(fd)
         /\ \A fd \in {0, 1, 2} : t[fd] # FreeFd
<1>1. t[0].is = "parent's" /\ t[1].is = "parent's" /\ t[2].is = "parent's"
  BY DEF OwnThree
<1> QED BY <1>1, ThingsAre DEF Apart

\* What is closed afterwards is none of the three.
LEMMA CloseApart ==
  ASSUME NEW t \in Tables, NEW fd \in Numbers, Apart(fd)
  PROVE  Close(t, fd) \in Tables /\ OwnThreeIn(Close(t, fd), t)
BY CloseIs, FdsAre DEF Apart, OwnThreeIn

\* Three of them are closed.
LEMMA ClosedThree ==
  ASSUME NEW t \in Tables, NEW a \in Numbers, NEW b \in Numbers, NEW c \in Numbers, Apart(a), Apart(b), Apart(c)
  PROVE  OwnThreeIn(Close(Close(Close(t, a), b), c), t)
<1>1. PICK u : u = Close(t, a)
  OBVIOUS
<1>2. u \in Tables /\ OwnThreeIn(u, t)
  BY <1>1, CloseApart
<1>3. PICK v : v = Close(u, b)
  OBVIOUS
<1>4. v \in Tables /\ OwnThreeIn(v, u)
  BY <1>2, <1>3, CloseApart
<1>5. PICK w : w = Close(v, c)
  OBVIOUS
<1>6. OwnThreeIn(w, v)
  BY <1>4, <1>5, CloseApart
<1> QED BY <1>1, <1>2, <1>3, <1>4, <1>5, <1>6 DEF OwnThreeIn

\* What a child behind pipes has at 0, 1 and 2.
LEMMA PipeStdio ==
  ASSUME NEW t, NEW id \in Nat, NEW how \in Ways, NEW in, NEW out, NEW err, Linked(t, id, in, out, err),
         OwnThree(t), how.tty = FALSE, in.a # -1, ~how.outNull => out.a # -1, how.err = "own" => err.a # -1,
         how.outNull => out.b = -1 /\ \E z \in Fds : err.t[z] = FreeFd,
         NEW third, third = ThirdOf(how, out, err)
  PROVE  StdioOf(Close(Close(Close(Remapped(Remapped(Remapped(err.t, 0, in.a), 1, out.b), 2, third),
                                   in.b), out.a), err.a), t, how, id)
<1>0. {"stdin r", "stdin w", "stdout r", "stdout w", "stderr r", "stderr w"} \subseteq ThingKinds \ {"free"}
  BY DEF ThingKinds
<1>1. PICK e : e = err.t
  OBVIOUS
<1>2. t \in Tables /\ e \in Tables
  BY <1>1 DEF Linked
<1>3. LinkIs(t, e, in, "stdin r", "stdin w", id) /\ LinkIs(t, e, out, "stdout r", "stdout w", id)
      /\ LinkIs(t, e, err, "stderr r", "stderr w", id) /\ Others(t, e, in, out, err)
  BY <1>1 DEF Linked
<1>4. Apart(in.a) /\ Apart(in.b) /\ Apart(out.a) /\ Apart(out.b) /\ Apart(err.a) /\ Apart(err.b)
  BY <1>2, <1>3, ThreeAreApart DEF LinkIs
<1>5. in.a \in Numbers /\ in.b \in Numbers /\ out.a \in Numbers /\ out.b \in Numbers /\ err.a \in Numbers /\ err.b \in Numbers
  BY <1>3 DEF LinkIs
<1>6. e[0] = t[0] /\ e[1] = t[1] /\ e[2] = t[2]
  BY <1>3, <1>4, FdsAre DEF Others, Apart
<1>7. \A x \in {0, 1, 2} : e[x] # FreeFd
  BY <1>2, <1>6, ThreeAreApart
<1>8. in.a \in Fds /\ e[in.a] = Thing("stdin r", id, FALSE)
  BY <1>3, <1>5 DEF LinkIs, Numbers
<1>9. Source(e, in.a) /\ Got(e, in.a).is = "stdin r" /\ Got(e, in.a).id = id /\ Got(e, in.a).cloexec = FALSE
  <2>1. Carries(e, in.a, "stdin r", id)
    BY <1>0, <1>2, <1>8, CarriesIt
  <2> QED BY <2>1 DEF Carries
<1>10. Source(e, out.b) /\ Got(e, out.b).is = (IF how.outNull THEN "null" ELSE "stdout w") /\ Got(e, out.b).cloexec = FALSE
  <2>1. CASE how.outNull
    <3>1. out.b = -1 /\ \E z \in Fds : e[z] = FreeFd
      BY <1>1, <2>1
    <3> QED BY <1>5, <2>1, <3>1, GotNull DEF Source
  <2>2. CASE ~how.outNull
    <3>1. out.b # -1
      BY <1>3, <2>2 DEF LinkIs
    <3>2. out.b \in Fds /\ e[out.b] = Thing("stdout w", id, FALSE)
      BY <1>3, <1>5, <3>1 DEF LinkIs, Numbers
    <3>3. Carries(e, out.b, "stdout w", id)
      BY <1>0, <1>2, <3>2, CarriesIt
    <3> QED BY <2>2, <3>3 DEF Carries
  <2> QED BY <2>1, <2>2
<1>11. CASE how.err = "own"
  <2>1. third = err.b
    BY <1>11 DEF ThirdOf
  <2>2. err.b # -1
    BY <1>3, <1>11 DEF LinkIs
  <2>3. err.b \in Fds /\ e[err.b] = Thing("stderr w", id, FALSE)
    BY <1>3, <1>5, <2>2 DEF LinkIs, Numbers
  <2>4. Source(e, third) /\ Apart(third) /\ Got(e, third).is = "stderr w" /\ Got(e, third).cloexec = FALSE
    <3>1. Carries(e, err.b, "stderr w", id)
      BY <1>0, <1>2, <2>3, CarriesIt
    <3> QED BY <1>4, <2>1, <3>1 DEF Carries
  <2>5. PICK r : r = Remapped(Remapped(Remapped(e, 0, in.a), 1, out.b), 2, third)
    OBVIOUS
  <2>6. ThreeAre(r, e, in.a, out.b, third)
    BY <1>2, <1>4, <1>7, <1>9, <1>10, <2>4, <2>5, Three
  <2>7. PICK c : c = Close(Close(Close(r, in.b), out.a), err.a)
    OBVIOUS
  <2>8. OwnThreeIn(c, r)
    BY <1>4, <1>5, <2>6, <2>7, ClosedThree DEF ThreeAre
  <2>9. r[2] = Got(e, third)
    BY <2>4, <2>6 DEF ThreeAre, Apart
  <2>10. c[0] = Got(e, in.a) /\ c[1] = Got(e, out.b) /\ c[2] = Got(e, third)
    BY <2>6, <2>8, <2>9 DEF ThreeAre, OwnThreeIn
  <2>11. StdioOf(c, t, how, id)
    BY <1>9, <1>10, <1>11, <2>4, <2>10 DEF StdioOf
  <2> QED BY <1>1, <2>5, <2>7, <2>11
<1>12. CASE how.err = "with"
  <2>1. third = out.b
    BY <1>12 DEF ThirdOf
  <2>4. Source(e, third) /\ Apart(third) /\ Got(e, third) = Got(e, out.b)
    BY <1>4, <1>10, <2>1
  <2>5. PICK r : r = Remapped(Remapped(Remapped(e, 0, in.a), 1, out.b), 2, third)
    OBVIOUS
  <2>6. ThreeAre(r, e, in.a, out.b, third)
    BY <1>2, <1>4, <1>7, <1>9, <1>10, <2>4, <2>5, Three
  <2>7. PICK c : c = Close(Close(Close(r, in.b), out.a), err.a)
    OBVIOUS
  <2>8. OwnThreeIn(c, r)
    BY <1>4, <1>5, <2>6, <2>7, ClosedThree DEF ThreeAre
  <2>9. r[2] = Got(e, third)
    BY <2>4, <2>6 DEF ThreeAre, Apart
  <2>10. c[0] = Got(e, in.a) /\ c[1] = Got(e, out.b) /\ c[2] = Got(e, out.b)
    BY <2>4, <2>6, <2>8, <2>9 DEF ThreeAre, OwnThreeIn
  <2>11. StdioOf(c, t, how, id)
    BY <1>9, <1>10, <1>12, <2>10 DEF StdioOf
  <2> QED BY <1>1, <2>5, <2>7, <2>11
<1>13. CASE how.err = "parent"
  <2>1. third = 2
    BY <1>13 DEF ThirdOf
  <2>5. PICK r : r = Remapped(Remapped(Remapped(e, 0, in.a), 1, out.b), 2, third)
    OBVIOUS
  <2>6. ThreeAre(r, e, in.a, out.b, third)
    BY <1>2, <1>4, <1>7, <1>9, <1>10, <2>1, <2>5, Three
  <2>7. PICK c : c = Close(Close(Close(r, in.b), out.a), err.a)
    OBVIOUS
  <2>8. OwnThreeIn(c, r)
    BY <1>4, <1>5, <2>6, <2>7, ClosedThree DEF ThreeAre
  <2>9. r[2] = t[2] /\ t[2].is = "parent's" /\ t[2].cloexec = FALSE
    BY <1>6, <2>1, <2>6 DEF ThreeAre, OwnThree
  <2>10. c[0] = Got(e, in.a) /\ c[1] = Got(e, out.b) /\ c[2] = t[2]
    BY <2>6, <2>8, <2>9 DEF ThreeAre, OwnThreeIn
  <2>11. StdioOf(c, t, how, id)
    BY <1>9, <1>10, <1>13, <2>9, <2>10 DEF StdioOf
  <2> QED BY <1>1, <2>5, <2>7, <2>11
<1>14. how.err \in {"own", "with", "parent"}
  BY DEF Ways
<1> QED BY <1>11, <1>12, <1>13, <1>14

\* A child behind a pseudo terminal.
TtyLinked(t, id, pty) ==
  /\ t \in Tables /\ pty.t \in Tables /\ pty.a \in Fds /\ pty.b \in Fds /\ pty.a # pty.b
  /\ t[pty.a] = FreeFd /\ t[pty.b] = FreeFd
  /\ pty.t[pty.a] = Thing("master", id, FALSE) /\ pty.t[pty.b] = Thing("slave", id, FALSE)
  /\ \A x \in Fds : x # pty.a /\ x # pty.b => pty.t[x] = t[x]

\* The link of a child behind a pseudo terminal.
LEMMA TtyLinks ==
  ASSUME NEW t \in Tables, NEW id \in Nat, NEW pty, pty = Pair(t, "master", "slave", id), pty.a # -1
  PROVE  TtyLinked(t, id, pty)
<1>1. {"master", "slave"} \subseteq ThingKinds
  BY DEF ThingKinds
<1>2. PairOf(t, pty, "master", "slave", id)
  BY <1>1, PairIs
<1> QED BY <1>2 DEF PairOf, TtyLinked

\* The descriptors of that child, after what it has done to them.
LEMMA TtyChild ==
  ASSUME NEW t, NEW id \in Nat, NEW pty, TtyLinked(t, id, pty), NoEnds(t)
  PROVE  ChildTable(Close(Close(Remapped(Remapped(Remapped(pty.t, 0, pty.b), 1, pty.b), 2, pty.b), pty.a), pty.b), t, id)
<1>0. /\ Thing("master", id, FALSE).is = "master" /\ Thing("slave", id, FALSE).is = "slave" /\ Thing("slave", id, FALSE).id = id
  <2>1. "master" \in ThingKinds /\ "slave" \in ThingKinds
    BY DEF ThingKinds
  <2> QED BY <2>1, ThingsAre
<1>1. PICK e, f, m : e = pty.t /\ f = pty.b /\ m = pty.a
  OBVIOUS
<1>2. /\ t \in Tables /\ e \in Tables /\ m \in Fds /\ f \in Fds /\ m # f
      /\ e[m] = Thing("master", id, FALSE) /\ e[f] = Thing("slave", id, FALSE)
      /\ \A x \in Fds : x # m /\ x # f => e[x] = t[x]
  BY <1>1 DEF TtyLinked
<1>3. Mine(e, id)
  <2>1. SUFFICES ASSUME NEW x \in Fds, e[x].is \in ChildEnds PROVE e[x].id = id
    BY DEF Mine
  <2>2. CASE x = m
    BY <1>0, <1>2, <2>1, <2>2 DEF ChildEnds
  <2>3. CASE x = f
    BY <1>0, <1>2, <2>1, <2>3 DEF ChildEnds
  <2>4. CASE x # m /\ x # f
    BY <1>2, <2>1, <2>4 DEF NoEnds
  <2> QED BY <2>2, <2>3, <2>4
<1>4. KeepsAll(e, e) /\ f \in Numbers /\ m \in Numbers /\ e[f].is # "stdin w"
  BY <1>0, <1>2 DEF KeepsAll, Numbers
<1>5. PICK r1 : r1 = Remapped(e, 0, f)
  OBVIOUS
<1>6. KeepsAll(r1, e) /\ Mine(r1, id) /\ r1 \in Tables
  BY <1>2, <1>3, <1>4, <1>5, FdsAre, RemapKeepsOn
<1>7. PICK r2 : r2 = Remapped(r1, 1, f)
  OBVIOUS
<1>8. KeepsAll(r2, e) /\ Mine(r2, id) /\ r2 \in Tables
  BY <1>2, <1>4, <1>6, <1>7, FdsAre, RemapKeepsOn
<1>9. PICK r3 : r3 = Remapped(r2, 2, f)
  OBVIOUS
<1>10. KeepsAll(r3, e) /\ Mine(r3, id) /\ r3 \in Tables
  BY <1>2, <1>4, <1>8, <1>9, FdsAre, RemapKeepsOn
<1>11. PICK c1 : c1 = Close(r3, m)
  OBVIOUS
<1>12. KeepsAll(c1, e) /\ Mine(c1, id) /\ c1 \in Tables
  BY <1>2, <1>4, <1>10, <1>11, CloseKeepsOn
<1>13. PICK c2 : c2 = Close(c1, f)
  OBVIOUS
<1>14. KeepsAll(c2, e) /\ Mine(c2, id) /\ c2 \in Tables
  BY <1>2, <1>4, <1>12, <1>13, CloseKeepsOn
<1>15. ASSUME NEW x \in Fds, c2[x].is = "stdin w" PROVE c2[x] = t[x]
  <2>1. c2[x] = e[x]
    BY <1>14, <1>15 DEF KeepsAll
  <2>2. x # m /\ x # f
    BY <1>0, <1>2, <1>15, <2>1
  <2> QED BY <1>2, <2>1, <2>2
<1>16. ChildTable(c2, t, id)
  BY <1>14, <1>15 DEF ChildTable
<1> QED BY <1>1, <1>5, <1>7, <1>9, <1>11, <1>13, <1>16

\* What it has at 0, 1 and 2.
LEMMA TtyStdio ==
  ASSUME NEW t, NEW id \in Nat, NEW how, how.tty, NEW pty, TtyLinked(t, id, pty), OwnThree(t)
  PROVE  StdioOf(Close(Close(Remapped(Remapped(Remapped(pty.t, 0, pty.b), 1, pty.b), 2, pty.b), pty.a), pty.b), t, how, id)
<1>0. "slave" \in ThingKinds \ {"free"}
  BY DEF ThingKinds
<1>1. PICK e, f, m : e = pty.t /\ f = pty.b /\ m = pty.a
  OBVIOUS
<1>2. /\ t \in Tables /\ e \in Tables /\ m \in Fds /\ f \in Fds /\ m # f /\ t[m] = FreeFd /\ t[f] = FreeFd
      /\ e[f] = Thing("slave", id, FALSE)
      /\ \A x \in Fds : x # m /\ x # f => e[x] = t[x]
  BY <1>1 DEF TtyLinked
<1>3. m \in Numbers /\ f \in Numbers /\ Apart(m) /\ Apart(f) /\ \A x \in {0, 1, 2} : t[x] # FreeFd
  BY <1>2, ThreeAreApart DEF Numbers
<1>4. \A x \in {0, 1, 2} : e[x] # FreeFd
  <2>1. \A x \in {0, 1, 2} : x \in Fds /\ x # m /\ x # f
    BY <1>3, FdsAre DEF Apart
  <2> QED BY <1>2, <1>3, <2>1
<1>5. Carries(e, f, "slave", id)
  BY <1>0, <1>2, CarriesIt
<1>6. PICK r : r = Remapped(Remapped(Remapped(e, 0, f), 1, f), 2, f)
  OBVIOUS
<1>7. ThreeAre(r, e, f, f, f)
  BY <1>2, <1>3, <1>4, <1>5, <1>6, Three DEF Carries
<1>8. PICK u : u = Close(r, m)
  OBVIOUS
<1>9. u \in Tables /\ OwnThreeIn(u, r)
  BY <1>3, <1>7, <1>8, CloseApart DEF ThreeAre
<1>10. PICK v : v = Close(u, f)
  OBVIOUS
<1>11. OwnThreeIn(v, u)
  BY <1>3, <1>9, <1>10, CloseApart
<1>12. v[0] = Got(e, f) /\ v[1] = Got(e, f) /\ v[2] = Got(e, f)
  BY <1>3, <1>7, <1>9, <1>11 DEF ThreeAre, OwnThreeIn, Apart
<1>13. \A x \in 0..2 : v[x].is = "slave" /\ v[x].id = id
  <2>1. \A x \in 0..2 : x = 0 \/ x = 1 \/ x = 2
    OBVIOUS
  <2> QED BY <1>5, <1>12, <2>1 DEF Carries
<1>14. StdioOf(v, t, how, id)
  BY <1>5, <1>12, <1>13 DEF Carries, StdioOf
<1> QED BY <1>1, <1>6, <1>8, <1>10, <1>14

\* What the parent's descriptors are after a spawn: those that were in use stay, and of the
\* new ones none is an end of the child's.
OwnKinds == {"null", "stdout r", "stderr r", "stdin w", "master"}
NewOf(thing, id) == thing.is \in OwnKinds /\ thing.cloexec = FALSE /\ (thing.id = id \/ thing.is = "null")
Grown(u, t, id, inFd) ==
  /\ u \in Tables
  /\ \A x \in Fds : t[x] # FreeFd => u[x] = t[x]
  /\ \A x \in Fds : t[x] = FreeFd /\ u[x] # FreeFd =>
       NewOf(u[x], id) /\ (u[x].is = "stdin w" => x = inFd)
Opened(u, t, fd) == fd \in Numbers /\ (fd # -1 => t[fd] = FreeFd /\ u[fd] # FreeFd)

\* What the parent may get anew.
LEMMA NewThings ==
  ASSUME NEW id \in Nat
  PROVE  /\ NewOf(Null, id) /\ Null.is # "stdin w"
         /\ \A k \in {"stdout r", "stderr r", "stdin w", "master"} :
              NewOf(Thing(k, id, FALSE), id) /\ Thing(k, id, FALSE).is = k /\ Thing(k, id, FALSE) # FreeFd
<1>1. \A k \in {"stdout r", "stderr r", "stdin w", "master"} : k \in ThingKinds /\ k # "free" /\ k \in OwnKinds
  BY DEF ThingKinds, OwnKinds
<1>2. NewOf(Null, id) /\ Null.is # "stdin w"
  BY ThingsAre DEF NewOf, OwnKinds
<1>3. ASSUME NEW k \in {"stdout r", "stderr r", "stdin w", "master"}
      PROVE  NewOf(Thing(k, id, FALSE), id) /\ Thing(k, id, FALSE).is = k /\ Thing(k, id, FALSE) # FreeFd
  <2>1. PICK thing : thing = Thing(k, id, FALSE)
    OBVIOUS
  <2>2. thing.is = k /\ thing.id = id /\ thing.cloexec = FALSE
    BY <2>1 DEF Thing
  <2>3. k \in ThingKinds /\ k # "free" /\ k \in OwnKinds
    BY <1>1
  <2>4. NewOf(thing, id)
    BY <2>2, <2>3 DEF NewOf
  <2>5. thing # FreeFd
    BY <2>2, <2>3, ThingsAre
  <2> QED BY <2>1, <2>2, <2>4, <2>5
<1> QED BY <1>2, <1>3

\* With /dev/null where no pipe was to be had.
LEMMA NullGrows ==
  ASSUME NEW u, NEW t \in Tables, NEW id \in Nat, NEW inFd, Grown(u, t, id, inFd), NEW l, l = Lowest(u)
  PROVE  /\ Grown(Put(u, l, Null), t, id, inFd) /\ Opened(Put(u, l, Null), t, l)
         /\ \A x \in Fds : u[x] # FreeFd => Put(u, l, Null)[x] = u[x]
<1>1. u \in Tables
  BY DEF Grown
<1>2. l \in Numbers /\ (l # -1 => u[l] = FreeFd)
  BY <1>1, LowestIsIn, LowestIs
<1>3. PICK v : v = Put(u, l, Null)
  OBVIOUS
<1>4. v \in Tables /\ (l # -1 => v[l] = Null) /\ (\A x \in Fds : x # l => v[x] = u[x]) /\ (l = -1 => v = u)
  <2>1. PICK thing \in Things : thing = Null
    BY ThingsAre
  <2>2. v = Put(u, l, thing)
    BY <1>3, <2>1
  <2> QED BY <1>1, <1>2, <2>1, <2>2, PutIs
<1>5. \A x \in Fds : u[x] # FreeFd => v[x] = u[x]
  BY <1>2, <1>4 DEF Numbers
<1>6. \A x \in Fds : t[x] # FreeFd => v[x] = t[x]
  BY <1>5 DEF Grown
<1>7. ASSUME NEW x \in Fds, t[x] = FreeFd, v[x] # FreeFd
      PROVE  NewOf(v[x], id) /\ (v[x].is = "stdin w" => x = inFd)
  <2>1. CASE x = l
    <3>1. v[x] = Null
      BY <1>4, <2>1, FdsAre
    <3> QED BY <3>1, NewThings
  <2>2. CASE x # l
    <3>1. v[x] = u[x]
      BY <1>4, <2>2
    <3> QED BY <1>7, <3>1 DEF Grown
  <2> QED BY <2>1, <2>2
<1>8. Grown(v, t, id, inFd)
  BY <1>4, <1>6, <1>7 DEF Grown
<1>9. Opened(v, t, l)
  <2>1. CASE l = -1
    BY <1>2, <2>1 DEF Opened
  <2>2. CASE l # -1
    <3>1. l \in Fds /\ u[l] = FreeFd /\ v[l] # FreeFd
      BY <1>2, <1>4, <2>2, ThingsAre DEF Numbers
    <3>2. t[l] = FreeFd
      BY <3>1 DEF Grown
    <3> QED BY <1>2, <3>1, <3>2 DEF Opened
  <2> QED BY <2>1, <2>2
<1> QED BY <1>3, <1>5, <1>8, <1>9

\* The parent closes the ends that are the child's.
LEMMA ClosedGrown ==
  ASSUME NEW t, NEW id \in Nat, NEW in, NEW out, NEW err, Linked(t, id, in, out, err)
  PROVE  /\ Grown(ParentCloses(err.t, in, out, err), t, id, in.b)
         /\ Opened(ParentCloses(err.t, in, out, err), t, in.b)
         /\ Opened(ParentCloses(err.t, in, out, err), t, out.a)
<1>1. PICK e : e = err.t
  OBVIOUS
<1>2. t \in Tables /\ e \in Tables
  BY <1>1 DEF Linked
<1>3. LinkIs(t, e, in, "stdin r", "stdin w", id) /\ LinkIs(t, e, out, "stdout r", "stdout w", id)
      /\ LinkIs(t, e, err, "stderr r", "stderr w", id) /\ Others(t, e, in, out, err)
  BY <1>1 DEF Linked
<1>4. in.a \in Numbers /\ in.b \in Numbers /\ out.a \in Numbers /\ out.b \in Numbers /\ err.a \in Numbers /\ err.b \in Numbers
  BY <1>3 DEF LinkIs
<1>5. PICK u : u = Close(e, in.a)
  OBVIOUS
<1>6. u \in Tables /\ (in.a # -1 => u[in.a] = FreeFd) /\ \A x \in Fds : x # in.a => u[x] = e[x]
  BY <1>2, <1>4, <1>5, CloseIs
<1>7. PICK v : v = Close(u, out.b)
  OBVIOUS
<1>8. v \in Tables /\ (out.b # -1 => v[out.b] = FreeFd) /\ \A x \in Fds : x # out.b => v[x] = u[x]
  BY <1>4, <1>6, <1>7, CloseIs
<1>9. PICK w : w = Close(v, err.b)
  OBVIOUS
<1>10. w \in Tables /\ (err.b # -1 => w[err.b] = FreeFd) /\ \A x \in Fds : x # err.b => w[x] = v[x]
  BY <1>4, <1>8, <1>9, CloseIs
<1>11. w = ParentCloses(err.t, in, out, err)
  BY <1>1, <1>5, <1>7, <1>9 DEF ParentCloses
<1>12. \A x \in Fds : IF x \in {in.a, out.b, err.b} THEN w[x] = FreeFd ELSE w[x] = e[x]
  <2>1. \A x \in Fds : u[x] = IF x = in.a THEN FreeFd ELSE e[x]
    BY <1>6, FdsAre
  <2>2. \A x \in Fds : v[x] = IF x = out.b THEN FreeFd ELSE u[x]
    BY <1>8, FdsAre
  <2>3. \A x \in Fds : w[x] = IF x = err.b THEN FreeFd ELSE v[x]
    BY <1>10, FdsAre
  <2> QED BY <2>1, <2>2, <2>3
<1>13. /\ \A x \in Fds : x = in.b => e[x] = Thing("stdin w", id, FALSE)
       /\ \A x \in Fds : x = out.a => e[x] = Thing("stdout r", id, FALSE)
       /\ \A x \in Fds : x = err.a => e[x] = Thing("stderr r", id, FALSE)
       /\ \A x \in Fds : x \in {in.a, in.b, out.a, out.b, err.a, err.b} => t[x] = FreeFd
       /\ \A x \in Fds : x = in.a => e[x] = Thing("stdin r", id, FALSE)
       /\ \A x \in Fds : x = out.b => e[x] = Thing("stdout w", id, FALSE)
       /\ \A x \in Fds : x = err.b => e[x] = Thing("stderr w", id, FALSE)
  BY <1>3, FdsAre DEF LinkIs
<1>14. /\ Thing("stdin w", id, FALSE).is = "stdin w" /\ Thing("stdout r", id, FALSE).is = "stdout r"
       /\ Thing("stderr r", id, FALSE).is = "stderr r" /\ Thing("stdin r", id, FALSE).is = "stdin r"
       /\ Thing("stdout w", id, FALSE).is = "stdout w" /\ Thing("stderr w", id, FALSE).is = "stderr w"
  BY DEF Thing
<1>15. \A x \in Fds : t[x] # FreeFd => w[x] = t[x]
  BY <1>3, <1>12, <1>13 DEF Others
<1>16. ASSUME NEW x \in Fds, t[x] = FreeFd, w[x] # FreeFd
       PROVE  NewOf(w[x], id) /\ (w[x].is = "stdin w" => x = in.b)
  <2>1. w[x] = e[x]
    BY <1>12, <1>16
  <2>2. CASE x = in.b
    <3>1. w[x] = Thing("stdin w", id, FALSE)
      BY <1>13, <2>1, <2>2
    <3> QED BY <2>2, <3>1, NewThings
  <2>3. CASE x = out.a
    <3>1. w[x] = Thing("stdout r", id, FALSE)
      BY <1>13, <2>1, <2>3
    <3> QED BY <1>14, <3>1, NewThings
  <2>4. CASE x = err.a
    <3>1. w[x] = Thing("stderr r", id, FALSE)
      BY <1>13, <2>1, <2>4
    <3> QED BY <1>14, <3>1, NewThings
  <2>5. CASE x \in {in.a, out.b, err.b}
    BY <1>12, <1>16, <2>5
  <2>6. CASE x \notin {in.a, in.b, out.a, out.b, err.a, err.b}
    BY <1>3, <1>16, <2>1, <2>6 DEF Others
  <2> QED BY <2>2, <2>3, <2>4, <2>5, <2>6
<1>17. Grown(w, t, id, in.b)
  BY <1>10, <1>15, <1>16 DEF Grown
<1>18. ASSUME NEW x \in Fds, x = in.b \/ x = out.a PROVE t[x] = FreeFd /\ w[x] # FreeFd
  <2>1. t[x] = FreeFd
    BY <1>13, <1>18
  <2>2. e[x].is = "stdin w" \/ e[x].is = "stdout r"
    BY <1>13, <1>14, <1>18
  <2>3. x \notin {in.a, out.b, err.b}
    BY <1>13, <1>14, <2>2
  <2>4. w[x] = e[x]
    BY <1>12, <2>3
  <2> QED BY <2>1, <2>2, <2>4, ThingsAre
<1>19. Opened(w, t, in.b) /\ Opened(w, t, out.a)
  BY <1>4, <1>18 DEF Opened, Numbers
<1> QED BY <1>11, <1>17, <1>19

Gone == [fd \in Fds |-> FreeFd]
Records == [how : Ways, alive : BOOLEAN, std : BOOLEAN, room : BOOLEAN, marked : SUBSET Nat, table : Tables]
StdioRight(child, c) == child.alive /\ child.std /\ child.room =>
  IF child.how.tty THEN \A fd \in 0..2 : child.table[fd].is = "slave" /\ child.table[fd].id = c
  ELSE /\ child.table[0].is = "stdin r" /\ child.table[0].id = c
       /\ child.table[1].is = IF child.how.outNull THEN "null" ELSE "stdout w"
       /\ CASE child.how.err = "own" -> child.table[2].is = "stderr w"
            [] child.how.err = "with" -> child.table[2].is = child.table[1].is
            [] OTHER -> child.table[2].is = "parent's"
ChildRight(child, c) ==
  /\ child \in Records /\ Mine(child.table, c)
  /\ ~child.alive => child.table = Gone
  /\ \A fd \in Fds : child.table[fd].is = "stdin w" =>
       child.table[fd].id < c /\ ~(child.how.execs /\ child.table[fd].id \in child.marked)
  /\ StdioRight(child, c)

ParentRight(t, n) ==
  /\ t \in Tables /\ NoEnds(t)
  /\ \A fd \in Fds : t[fd].is = "stdin w" => t[fd].id \in 1..n
  /\ \A fd \in Fds : t[fd].is = "parent's" => t[fd].cloexec = FALSE
StreamIs(t, s, stream) ==
  /\ stream.in \in Numbers /\ stream.out \in Numbers
  /\ stream.in # -1 => t[stream.in].is \notin {"free", "parent's"}
  /\ stream.out # -1 => t[stream.out].is \notin {"free", "parent's"} /\ (t[stream.out].id = s \/ t[stream.out].is = "null")
  /\ \A fd \in Fds : t[fd].is = "stdin w" /\ t[fd].id = s /\ stream.out # -1 => fd = stream.out
Apart2(p, q) == {p.in, p.out} \cap {q.in, q.out} \subseteq {-1}
StreamsAre(t, n, ss) ==
  /\ ss \in Seq([in : Numbers, out : Numbers]) /\ Len(ss) = n
  /\ \A s \in 1..n : StreamIs(t, s, ss[s])
  /\ \A s, z \in 1..n : z # s => Apart2(ss[s], ss[z])

SpawnInv ==
  /\ ParentRight(table, Len(children)) /\ StreamsAre(table, Len(children), streams)
  /\ children \in Seq(Records)
  /\ \A c \in 1..Len(children) : ChildRight(children[c], c)

-----------------------------------------------------------------------------

\* Who is not running has nothing open.
LEMMA GoneIs == Gone \in Tables /\ \A fd \in Fds : Gone[fd].is = "free"
BY ThingsAre DEF Gone, Tables

IsExecuted(u, how, t) ==
  /\ u \in Tables
  /\ \A fd \in Fds : u[fd] = t[fd] \/ u[fd] = FreeFd
  /\ \A fd \in Fds : t[fd].cloexec = FALSE => u[fd] = t[fd]
  /\ \A fd \in Fds : t[fd].cloexec /\ how.execs => u[fd] = FreeFd

\* What an exec leaves open.
LEMMA ExecutedIs ==
  ASSUME NEW how, NEW t \in Tables
  PROVE  IsExecuted(Executed(how, t), how, t)
<1>1. \A fd \in Fds : t[fd] \in Things /\ t[fd].cloexec \in BOOLEAN
  BY DEF Tables, Things
<1>2. CASE how.execs
  <2>1. PICK u : u = [fd \in Fds |-> IF t[fd].cloexec THEN FreeFd ELSE t[fd]]
    OBVIOUS
  <2>2. \A fd \in Fds : u[fd] = IF t[fd].cloexec THEN FreeFd ELSE t[fd]
    BY <2>1
  <2>3. u \in Tables
    BY <1>1, <2>1, ThingsAre DEF Tables
  <2>4. Executed(how, t) = u
    BY <1>2, <2>1 DEF Executed
  <2> QED BY <2>2, <2>3, <2>4 DEF IsExecuted
<1>3. CASE ~how.execs
  BY <1>3 DEF Executed, IsExecuted
<1> QED BY <1>2, <1>3

\* The child that is forked.
LEMMA NewChildRight ==
  ASSUME NEW t, NEW n \in Nat, NEW ss, ParentRight(t, n), StreamsAre(t, n, ss), NEW how \in Ways, NEW r,
         ChildTable(r, t, n + 1),
         OwnThree(t) /\ Cardinality(Free(t)) > 6 => StdioOf(r, t, how, n + 1),
         NEW forks \in BOOLEAN, NEW child,
         child = [how |-> how, alive |-> forks, std |-> \A fd \in 0..2 : t[fd].is = "parent's",
                  room |-> Cardinality(Free(t)) > 6,
                  marked |-> {s \in DOMAIN ss : ss[s].out # -1 /\ t[ss[s].out].cloexec},
                  table |-> IF forks THEN Executed(how, r) ELSE Gone]
  PROVE  ChildRight(child, n + 1)
<1>1. r \in Tables /\ Mine(r, n + 1) /\ t \in Tables /\ \A fd \in Fds : r[fd].is = "stdin w" => r[fd] = t[fd]
  BY DEF ChildTable, ParentRight
<1>2. PICK e : e = child.table
  OBVIOUS
<1>3. e = IF forks THEN Executed(how, r) ELSE Gone
  BY <1>2
<1>16. IsExecuted(Executed(how, r), how, r)
  BY <1>1, ExecutedIs
<1>4. e \in Tables
  BY <1>3, <1>16, GoneIs DEF IsExecuted
<1>5. child.how = how /\ child.alive = forks /\ child.std = (\A fd \in 0..2 : t[fd].is = "parent's")
      /\ child.room = (Cardinality(Free(t)) > 6)
      /\ child.marked = {s \in DOMAIN ss : ss[s].out # -1 /\ t[ss[s].out].cloexec}
  OBVIOUS
<1>6. child \in Records
  <2>1. DOMAIN ss = 1..n
    BY DEF StreamsAre
  <2>2. {s \in DOMAIN ss : ss[s].out # -1 /\ t[ss[s].out].cloexec} \in SUBSET Nat
    BY <2>1
  <2>3. (\A fd \in 0..2 : t[fd].is = "parent's") \in BOOLEAN /\ (Cardinality(Free(t)) > 6) \in BOOLEAN
    OBVIOUS
  <2>4. PICK a, b, m : /\ a = (\A fd \in 0..2 : t[fd].is = "parent's") /\ b = (Cardinality(Free(t)) > 6)
                       /\ m = {s \in DOMAIN ss : ss[s].out # -1 /\ t[ss[s].out].cloexec}
    OBVIOUS
  <2>5. child = [how |-> how, alive |-> forks, std |-> a, room |-> b, marked |-> m, table |-> e]
    BY <1>3, <2>4
  <2> QED BY <1>4, <2>2, <2>3, <2>4, <2>5 DEF Records
<1>7. \A fd \in Fds : e[fd] = r[fd] \/ e[fd].is = "free"
  <2>1. CASE forks
    BY <1>3, <1>16, <2>1, ThingsAre DEF IsExecuted
  <2>2. CASE ~forks
    BY <1>3, <2>2, GoneIs
  <2> QED BY <2>1, <2>2
<1>8. Mine(e, n + 1)
  BY <1>1, <1>7 DEF Mine, ChildEnds
<1>9. ~forks => e = Gone
  BY <1>3
<1>10. ASSUME NEW fd \in Fds, e[fd].is = "stdin w"
       PROVE  e[fd].id < n + 1 /\ ~(how.execs /\ e[fd].id \in child.marked)
  <2>1. e[fd] = r[fd] /\ r[fd] = t[fd] /\ forks
    BY <1>1, <1>3, <1>7, <1>10, GoneIs
  <2>2. t[fd].id \in 1..n
    BY <1>10, <2>1 DEF ParentRight
  <2>3. ASSUME how.execs, e[fd].id \in child.marked PROVE FALSE
    <3>1. PICK s : s = t[fd].id
      OBVIOUS
    <3>2. s \in 1..n /\ ss[s].out # -1 /\ t[ss[s].out].cloexec
      BY <1>5, <2>1, <2>2, <2>3, <3>1
    <3>3. StreamIs(t, s, ss[s])
      BY <3>2 DEF StreamsAre
    <3>4. fd = ss[s].out
      BY <1>10, <2>1, <3>1, <3>2, <3>3 DEF StreamIs
    <3>5. Executed(how, r)[fd] = FreeFd
      BY <1>16, <2>1, <2>3, <3>2, <3>4 DEF IsExecuted
    <3> QED BY <1>3, <1>10, <2>1, <3>5, ThingsAre
  <2>4. t[fd].id < n + 1
    BY <2>2
  <2> QED BY <2>1, <2>3, <2>4
<1>11. StdioRight(child, n + 1)
  <2>1. SUFFICES ASSUME child.alive, child.std, child.room PROVE StdioRight(child, n + 1)
    BY DEF StdioRight
  <2>2. forks /\ (\A fd \in 0..2 : t[fd].is = "parent's") /\ Cardinality(Free(t)) > 6
    BY <1>5, <2>1
  <2>3. OwnThree(t)
    <3>1. \A fd \in 0..2 : fd \in Fds
      <4>1. \A fd \in 0..2 : fd = 0 \/ fd = 1 \/ fd = 2
        OBVIOUS
      <4> QED BY <4>1, FdsAre
    <3> QED BY <2>2, <3>1 DEF OwnThree, ParentRight
  <2>4. StdioOf(r, t, how, n + 1)
    BY <2>2, <2>3
  <2>5. e[0] = r[0] /\ e[1] = r[1] /\ e[2] = r[2]
    <3>1. e = Executed(how, r)
      BY <1>3, <2>2
    <3>2. r[0].cloexec = FALSE /\ r[1].cloexec = FALSE /\ r[2].cloexec = FALSE
      BY <2>4 DEF StdioOf
    <3> QED BY <1>16, <3>1, <3>2, FdsAre DEF IsExecuted
  <2>6. \A fd \in 0..2 : e[fd] = r[fd]
    <3>1. \A fd \in 0..2 : fd = 0 \/ fd = 1 \/ fd = 2
      OBVIOUS
    <3> QED BY <2>5, <3>1
  <2>7. CASE how.tty
    <3>1. \A fd \in 0..2 : r[fd].is = "slave" /\ r[fd].id = n + 1
      BY <2>4, <2>7 DEF StdioOf
    <3>2. \A fd \in 0..2 : child.table[fd].is = "slave" /\ child.table[fd].id = n + 1
      BY <1>2, <2>6, <3>1
    <3> QED BY <1>5, <2>7, <3>2 DEF StdioRight
  <2>8. CASE ~how.tty
    <3>1. /\ r[0].is = "stdin r" /\ r[0].id = n + 1
          /\ r[1].is = IF how.outNull THEN "null" ELSE "stdout w"
          /\ CASE how.err = "own" -> r[2].is = "stderr w"
               [] how.err = "with" -> r[2].is = r[1].is
               [] OTHER -> r[2].is = "parent's"
      BY <2>4, <2>8 DEF StdioOf
    <3> QED BY <1>2, <1>5, <2>5, <2>8, <3>1 DEF StdioRight
  <2> QED BY <2>7, <2>8
<1> QED BY <1>2, <1>5, <1>6, <1>8, <1>9, <1>10, <1>11 DEF ChildRight

\* The parent's own after a spawn.
LEMMA ParentGrows ==
  ASSUME NEW t, NEW n \in Nat, ParentRight(t, n), NEW u, NEW inFd, Grown(u, t, n + 1, inFd)
  PROVE  ParentRight(u, n + 1)
<1>1. \A fd \in Fds : u[fd] = t[fd] \/ u[fd] = FreeFd \/ NewOf(u[fd], n + 1)
  BY DEF Grown
<1>2. u \in Tables
  BY DEF Grown
<1>3. NoEnds(u)
  <2>1. SUFFICES ASSUME NEW fd \in Fds PROVE u[fd].is \notin ChildEnds
    BY DEF NoEnds
  <2>2. CASE u[fd] = t[fd]
    BY <2>2 DEF ParentRight, NoEnds
  <2>3. CASE u[fd] = FreeFd
    BY <2>3, ThingsAre DEF ChildEnds
  <2>4. CASE NewOf(u[fd], n + 1)
    BY <2>4 DEF NewOf, OwnKinds, ChildEnds
  <2> QED BY <1>1, <2>2, <2>3, <2>4
<1>4. ASSUME NEW fd \in Fds, u[fd].is = "stdin w" PROVE u[fd].id \in 1..(n + 1)
  <2>1. CASE u[fd] = t[fd]
    <3>1. t[fd].id \in 1..n
      BY <1>4, <2>1 DEF ParentRight
    <3> QED BY <2>1, <3>1
  <2>2. CASE u[fd] = FreeFd
    BY <1>4, <2>2, ThingsAre
  <2>3. CASE NewOf(u[fd], n + 1)
    <3>1. u[fd].id = n + 1
      BY <1>4, <2>3 DEF NewOf
    <3> QED BY <3>1
  <2> QED BY <1>1, <2>1, <2>2, <2>3
<1>5. ASSUME NEW fd \in Fds, u[fd].is = "parent's" PROVE u[fd].cloexec = FALSE
  <2>1. CASE u[fd] = t[fd]
    BY <1>5, <2>1 DEF ParentRight
  <2>2. CASE u[fd] = FreeFd
    BY <1>5, <2>2, ThingsAre
  <2>3. CASE NewOf(u[fd], n + 1)
    BY <2>3 DEF NewOf
  <2> QED BY <1>1, <2>1, <2>2, <2>3
<1> QED BY <1>2, <1>3, <1>4, <1>5 DEF ParentRight

\* The streams it had,
LEMMA StreamStays ==
  ASSUME NEW t, NEW n \in Nat, NEW u, NEW inFd, Grown(u, t, n + 1, inFd), NEW s \in 1..n, NEW stream,
         StreamIs(t, s, stream)
  PROVE  StreamIs(u, s, stream)
<1>1. \A fd \in Fds : t[fd].is # "free" => u[fd] = t[fd]
  BY ThingsAre DEF Grown
<1>2. stream.in \in Numbers /\ stream.out \in Numbers
  BY DEF StreamIs
<1>3. stream.in # -1 => stream.in \in Fds /\ u[stream.in] = t[stream.in]
  BY <1>1, <1>2 DEF StreamIs, Numbers
<1>4. stream.out # -1 => stream.out \in Fds /\ u[stream.out] = t[stream.out]
  BY <1>1, <1>2 DEF StreamIs, Numbers
<1>5. ASSUME NEW fd \in Fds, u[fd].is = "stdin w", u[fd].id = s PROVE u[fd] = t[fd]
  <2>1. CASE t[fd] # FreeFd
    BY <2>1 DEF Grown
  <2>2. CASE t[fd] = FreeFd
    <3>1. u[fd] # FreeFd
      BY <1>5, ThingsAre
    <3>2. u[fd].id = n + 1
      BY <1>5, <2>2, <3>1 DEF Grown, NewOf
    <3>3. n + 1 \notin 1..n
      OBVIOUS
    <3>4. s = n + 1
      BY <1>5, <3>2
    <3> QED BY <3>3, <3>4
  <2> QED BY <2>1, <2>2
<1>6. \A fd \in Fds : u[fd].is = "stdin w" /\ u[fd].id = s /\ stream.out # -1 => fd = stream.out
  BY <1>5 DEF StreamIs
<1> QED BY <1>2, <1>3, <1>4, <1>6 DEF StreamIs

\* the new one,
LEMMA StreamStarts ==
  ASSUME NEW t, NEW n \in Nat, ParentRight(t, n), NEW u, NEW in, NEW out, Grown(u, t, n + 1, out), Opened(u, t, in),
         Opened(u, t, out), NEW stream, stream.in = in, stream.out = out
  PROVE  StreamIs(u, n + 1, stream)
<1>1. \A fd \in Fds : t[fd] = FreeFd /\ u[fd] # FreeFd => NewOf(u[fd], n + 1)
  BY DEF Grown
<1>2. in \in Numbers /\ out \in Numbers
  BY DEF Opened
<1>3. in # -1 => in \in Fds /\ NewOf(u[in], n + 1)
  BY <1>1, <1>2 DEF Opened, Numbers
<1>4. out # -1 => out \in Fds /\ NewOf(u[out], n + 1)
  BY <1>1, <1>2 DEF Opened, Numbers
<1>5. ASSUME NEW fd \in Fds, u[fd].is = "stdin w", u[fd].id = n + 1 PROVE fd = out
  <2>1. CASE t[fd] # FreeFd
    <3>1. u[fd] = t[fd]
      BY <2>1 DEF Grown
    <3>2. t[fd].id \in 1..n
      BY <1>5, <3>1 DEF ParentRight
    <3>3. n + 1 \notin 1..n
      OBVIOUS
    <3> QED BY <1>5, <3>1, <3>2, <3>3
  <2>2. CASE t[fd] = FreeFd
    <3>1. u[fd] # FreeFd
      BY <1>5, ThingsAre
    <3> QED BY <1>5, <2>2, <3>1 DEF Grown
  <2> QED BY <2>1, <2>2
<1>6. in # -1 => u[in].is \notin {"free", "parent's"}
  BY <1>3 DEF NewOf, OwnKinds
<1>7. out # -1 => u[out].is \notin {"free", "parent's"} /\ (u[out].id = n + 1 \/ u[out].is = "null")
  BY <1>4 DEF NewOf, OwnKinds
<1> QED BY <1>2, <1>5, <1>6, <1>7 DEF StreamIs

\* and all of them.
LEMMA StreamsGrow ==
  ASSUME NEW t, NEW n \in Nat, ParentRight(t, n), NEW ss, StreamsAre(t, n, ss), NEW u, NEW in, NEW out,
         Grown(u, t, n + 1, out), Opened(u, t, in), Opened(u, t, out), NEW forks \in BOOLEAN
  PROVE  StreamsAre(u, n + 1, Append(ss, IF forks THEN [in |-> in, out |-> out] ELSE [in |-> -1, out |-> -1]))
<1>1. PICK stream : stream = IF forks THEN [in |-> in, out |-> out] ELSE [in |-> -1, out |-> -1]
  OBVIOUS
<1>2. PICK zz : zz = Append(ss, stream)
  OBVIOUS
<1>3. ss \in Seq([in : Numbers, out : Numbers]) /\ Len(ss) = n
  BY DEF StreamsAre
<1>4. in \in Numbers /\ out \in Numbers /\ -1 \in Numbers
  BY DEF Opened, Numbers
<1>5. stream \in [in : Numbers, out : Numbers]
  BY <1>1, <1>4
<1>6. zz \in Seq([in : Numbers, out : Numbers]) /\ Len(zz) = n + 1 /\ zz[n + 1] = stream
      /\ \A s \in 1..n : zz[s] = ss[s]
  BY <1>2, <1>3, <1>5
<1>7. StreamIs(u, n + 1, stream)
  <2>1. CASE forks
    BY <1>1, <2>1, StreamStarts
  <2>2. CASE ~forks
    BY <1>1, <1>4, <2>2 DEF StreamIs
  <2> QED BY <2>1, <2>2
<1>8. ASSUME NEW s \in 1..n PROVE StreamIs(u, s, zz[s])
  <2>1. StreamIs(t, s, ss[s])
    BY DEF StreamsAre
  <2>2. StreamIs(u, s, ss[s])
    BY <2>1, StreamStays
  <2> QED BY <1>6, <2>2
<1>9. ASSUME NEW s \in 1..n PROVE Apart2(ss[s], stream) /\ Apart2(stream, ss[s])
  <2>1. StreamIs(t, s, ss[s])
    BY DEF StreamsAre
  <2>2. (ss[s].in # -1 => t[ss[s].in] # FreeFd) /\ (ss[s].out # -1 => t[ss[s].out] # FreeFd)
    BY <2>1, ThingsAre DEF StreamIs
  <2>3. (stream.in # -1 => t[stream.in] = FreeFd) /\ (stream.out # -1 => t[stream.out] = FreeFd)
    BY <1>1 DEF Opened
  <2> QED BY <2>2, <2>3 DEF Apart2
<1>10. \A s \in 1..(n + 1) : s \in 1..n \/ s = n + 1
  OBVIOUS
<1>11. \A s \in 1..(n + 1) : StreamIs(u, s, zz[s])
  BY <1>6, <1>7, <1>8, <1>10
<1>12. ASSUME NEW s \in 1..(n + 1), NEW z \in 1..(n + 1), z # s PROVE Apart2(zz[s], zz[z])
  <2>1. CASE s \in 1..n /\ z \in 1..n
    BY <1>6, <1>12, <2>1 DEF StreamsAre
  <2>2. CASE s = n + 1
    BY <1>6, <1>9, <1>10, <1>12, <2>2
  <2>3. CASE z = n + 1
    BY <1>6, <1>9, <1>10, <1>12, <2>3
  <2> QED BY <1>10, <2>1, <2>2, <2>3
<1>13. StreamsAre(u, n + 1, zz)
  BY <1>6, <1>11, <1>12 DEF StreamsAre
<1> QED BY <1>1, <1>2, <1>13

\* A fork, of whatever kind.
LEMMA ForkKeeps ==
  ASSUME SpawnInv, NEW how \in Ways, NEW u, NEW r, NEW in, NEW out, Forked(how, u, r, in, out),
         Grown(u, table, Len(children) + 1, out), Opened(u, table, in), Opened(u, table, out),
         ChildTable(r, table, Len(children) + 1),
         OwnThree(table) /\ Cardinality(Free(table)) > 6 => StdioOf(r, table, how, Len(children) + 1)
  PROVE  SpawnInv'
<1>1. PICK n : n = Len(children)
  OBVIOUS
<1>2. n \in Nat /\ children \in Seq(Records) /\ ParentRight(table, n) /\ StreamsAre(table, n, streams)
  BY <1>1 DEF SpawnInv
<1>3. PICK forks, child : forks \in BOOLEAN
        /\ child = [how |-> how, alive |-> forks, std |-> \A fd \in 0..2 : table[fd].is = "parent's",
                    room |-> Cardinality(Free(table)) > 6,
                    marked |-> {s \in DOMAIN streams : streams[s].out # -1 /\ table[streams[s].out].cloexec},
                    table |-> IF forks THEN Executed(how, r) ELSE Gone]
        /\ table' = u /\ children' = Append(children, child)
        /\ streams' = Append(streams, IF forks THEN [in |-> in, out |-> out] ELSE [in |-> -1, out |-> -1])
  BY DEF Forked, Gone
<1>4. ChildRight(child, n + 1)
  BY <1>1, <1>2, <1>3, NewChildRight
<1>5. child \in Records
  BY <1>4 DEF ChildRight
<1>6. children' \in Seq(Records) /\ Len(children') = n + 1 /\ children'[n + 1] = child
      /\ \A c \in 1..n : children'[c] = children[c]
  BY <1>1, <1>2, <1>3, <1>5
<1>7. ParentRight(table', n + 1)
  BY <1>1, <1>2, <1>3, ParentGrows
<1>8. StreamsAre(table', n + 1, streams')
  BY <1>1, <1>2, <1>3, StreamsGrow
<1>9. \A c \in 1..(n + 1) : ChildRight(children'[c], c)
  <2>1. \A c \in 1..(n + 1) : c \in 1..n \/ c = n + 1
    BY <1>2
  <2>2. \A c \in 1..n : ChildRight(children[c], c)
    BY <1>1 DEF SpawnInv
  <2> QED BY <1>4, <1>6, <2>1, <2>2
<1> QED BY <1>6, <1>7, <1>8, <1>9 DEF SpawnInv

\* What there is before a spawn.
LEMMA BeforeSpawn ==
  ASSUME SpawnInv
  PROVE  /\ Len(children) \in Nat /\ Id \in Nat /\ Id = Len(children) + 1 /\ table \in Tables /\ NoEnds(table)
<1>1. Len(children) \in Nat
  <2>1. children \in Seq(Records)
    BY DEF SpawnInv
  <2> QED BY <2>1
<1>2. table \in Tables /\ NoEnds(table)
  BY DEF SpawnInv, ParentRight
<1> QED BY <1>1, <1>2 DEF Id

\* A program behind pipes.
LEMMA PipeKeeps ==
  ASSUME SpawnInv, NEW how \in Ways, how.tty = FALSE, PipeSpawnFunction(how)
  PROVE  SpawnInv'
<1> DEFINE id == Id
           in == Pair(table, "stdin r", "stdin w", Id)
           out == IF how.outNull THEN NoPair(in.t) ELSE Pair(in.t, "stdout r", "stdout w", Id)
           err == IF how.err = "own" THEN Pair(out.t, "stderr r", "stderr w", Id) ELSE NoPair(out.t)
           third == CASE how.err = "own" -> err.b [] how.err = "with" -> out.b [] OTHER -> 2
           remaps == Remapped(Remapped(Remapped(err.t, 0, in.a), 1, out.b), 2, third)
           child == Close(Close(Close(remaps, in.b), out.a), err.a)
           mine == ParentCloses(err.t, in, out, err)
           inFd == IF in.b = -1 THEN Lowest(mine) ELSE in.b
           mine1 == IF in.b = -1 THEN Put(mine, inFd, Null) ELSE mine
           outFd == IF out.a = -1 THEN Lowest(mine1) ELSE out.a
           mine2 == IF out.a = -1 THEN Put(mine1, outFd, Null) ELSE mine1
<1>1. Forked(how, mine2, child, outFd, inFd)
  BY DEF PipeSpawnFunction
<1>2. id \in Nat /\ id = Len(children) + 1 /\ table \in Tables /\ NoEnds(table)
  BY BeforeSpawn
<1>3. in = InOf(table, id)
  BY DEF InOf
<1>4. out = OutOf(how, in, id)
  BY DEF OutOf
<1>5. err = ErrOf(how, out, id)
  BY DEF ErrOf
<1> HIDE DEF id, in, out, err
<1>6. third = ThirdOf(how, out, err)
  BY DEF ThirdOf
<1> HIDE DEF third
<1>7. child = Close(Close(Close(Remapped(Remapped(Remapped(err.t, 0, in.a), 1, out.b), 2, third),
                                in.b), out.a), err.a)
  OBVIOUS
<1>8. mine = ParentCloses(err.t, in, out, err)
  OBVIOUS
<1> HIDE DEF child, remaps, mine
<1>9. /\ inFd = IF in.b = -1 THEN Lowest(mine) ELSE in.b
      /\ mine1 = IF in.b = -1 THEN Put(mine, inFd, Null) ELSE mine
  OBVIOUS
<1> HIDE DEF inFd, mine1
<1>10. /\ outFd = IF out.a = -1 THEN Lowest(mine1) ELSE out.a
       /\ mine2 = IF out.a = -1 THEN Put(mine1, outFd, Null) ELSE mine1
  OBVIOUS
<1> HIDE DEF outFd, mine2
<1>11. Forked(how, mine2, child, outFd, inFd)
  BY <1>1
<1>12. Linked(table, id, in, out, err)
  BY <1>2, <1>3, <1>4, <1>5, LinksAre
<1>13. Grown(mine, table, id, in.b) /\ Opened(mine, table, in.b) /\ Opened(mine, table, out.a)
  BY <1>2, <1>8, <1>12, ClosedGrown
<1>14. /\ Grown(mine1, table, id, inFd) /\ Opened(mine1, table, inFd)
       /\ out.a # -1 => Opened(mine1, table, out.a)
  <2>1. CASE in.b = -1
    <3>1. Grown(mine, table, id, inFd)
      BY <1>13, <2>1, FdsAre DEF Grown
    <3>2. inFd = Lowest(mine) /\ mine1 = Put(mine, inFd, Null)
      BY <1>9, <2>1
    <3>3. PICK l, v : l = inFd /\ v = mine1
      OBVIOUS
    <3>4. Grown(v, table, id, inFd) /\ Opened(v, table, l) /\ \A x \in Fds : mine[x] # FreeFd => v[x] = mine[x]
      BY <1>2, <3>1, <3>2, <3>3, NullGrows
    <3>5. out.a # -1 => Opened(v, table, out.a)
      BY <1>13, <3>4 DEF Opened, Numbers
    <3> QED BY <3>3, <3>4, <3>5
  <2>2. CASE in.b # -1
    BY <1>9, <1>13, <2>2
  <2> QED BY <2>1, <2>2
<1>15. Grown(mine2, table, id, inFd) /\ Opened(mine2, table, inFd) /\ Opened(mine2, table, outFd)
  <2>1. CASE out.a = -1
    <3>1. outFd = Lowest(mine1) /\ mine2 = Put(mine1, outFd, Null)
      BY <1>10, <2>1
    <3>2. PICK l, v : l = outFd /\ v = mine2
      OBVIOUS
    <3>3. Grown(v, table, id, inFd) /\ Opened(v, table, l) /\ \A x \in Fds : mine1[x] # FreeFd => v[x] = mine1[x]
      BY <1>2, <1>14, <3>1, <3>2, NullGrows
    <3>4. Opened(v, table, inFd)
      BY <1>14, <3>3 DEF Opened, Numbers
    <3> QED BY <3>2, <3>3, <3>4
  <2>2. CASE out.a # -1
    BY <1>10, <1>14, <2>2
  <2> QED BY <2>1, <2>2
<1>16. how.err \in {"own", "with", "parent"}
  BY DEF Ways
<1>17. third \in Numbers /\ IsThird(third, out, err)
  <2>1. out.b \in Numbers /\ err.b \in Numbers /\ 2 \in Numbers
    BY <1>12, FdsAre DEF Linked, LinkIs, Numbers
  <2>2. third = err.b \/ third = out.b \/ third = 2
    BY <1>6 DEF ThirdOf
  <2> QED BY <2>1, <2>2 DEF IsThird
<1>18. ChildTable(child, table, id)
  BY <1>2, <1>7, <1>12, <1>17, PipeChild
<1>19. ASSUME OwnThree(table), Cardinality(Free(table)) > 6 PROVE StdioOf(child, table, how, id)
  <2>1. in.a # -1
    BY <1>2, <1>3, <1>4, <1>5, <1>19, RoomIsEnough
  <2>2. ~how.outNull => out.a # -1
    BY <1>2, <1>3, <1>4, <1>5, <1>19, RoomIsEnough
  <2>3. how.err = "own" => err.a # -1
    BY <1>2, <1>3, <1>4, <1>5, <1>19, RoomIsEnough
  <2>4. how.outNull => out.b = -1 /\ \E z \in Fds : err.t[z] = FreeFd
    BY <1>2, <1>3, <1>4, <1>5, <1>19, RoomIsEnough
  <2> QED BY <1>2, <1>6, <1>7, <1>12, <1>19, <2>1, <2>2, <2>3, <2>4, PipeStdio
<1> QED BY <1>2, <1>11, <1>15, <1>18, <1>19, ForkKeeps

\* A program behind a pseudo terminal.
LEMMA TtyKeeps ==
  ASSUME SpawnInv, NEW how \in Ways, how.tty, PseudoTTYSpawnFunction(how)
  PROVE  SpawnInv'
<1>1. PICK id : id = Id
  OBVIOUS
<1>2. id \in Nat /\ id = Len(children) + 1 /\ table \in Tables /\ NoEnds(table)
  BY <1>1, BeforeSpawn
<1>3. PICK pty : pty = Pair(table, "master", "slave", id)
  OBVIOUS
<1>4. PICK child : child = Close(Close(Remapped(Remapped(Remapped(pty.t, 0, pty.b), 1, pty.b), 2, pty.b), pty.a), pty.b)
  OBVIOUS
<1>5. PICK mine : mine = Close(pty.t, pty.b)
  OBVIOUS
<1>6. pty.a # -1 /\ Forked(how, mine, child, pty.a, pty.a)
  BY <1>1, <1>3, <1>4, <1>5 DEF PseudoTTYSpawnFunction
<1>7. TtyLinked(table, id, pty)
  BY <1>2, <1>3, <1>6, TtyLinks
<1>8. ChildTable(child, table, id)
  BY <1>2, <1>4, <1>7, TtyChild
<1>9. OwnThree(table) /\ Cardinality(Free(table)) > 6 => StdioOf(child, table, how, id)
  BY <1>2, <1>4, <1>7, TtyStdio
<1>10. PICK e, m, f : e = pty.t /\ m = pty.a /\ f = pty.b
  OBVIOUS
<1>11. /\ e \in Tables /\ m \in Fds /\ f \in Fds /\ m # f /\ table[m] = FreeFd /\ table[f] = FreeFd
       /\ e[m] = Thing("master", id, FALSE) /\ \A x \in Fds : x # m /\ x # f => e[x] = table[x]
  BY <1>7, <1>10 DEF TtyLinked
<1>12. mine \in Tables /\ mine[f] = FreeFd /\ \A x \in Fds : x # f => mine[x] = e[x]
  <2>1. f \in Numbers /\ f # -1
    BY <1>11, FdsAre DEF Numbers
  <2> QED BY <1>5, <1>10, <1>11, <2>1, CloseIs
<1>13. NewOf(mine[m], id) /\ mine[m].is = "master" /\ mine[m] # FreeFd
  BY <1>2, <1>11, <1>12, NewThings
<1>14. Grown(mine, table, id, m)
  BY <1>11, <1>12, <1>13 DEF Grown
<1>15. Opened(mine, table, m)
  BY <1>11, <1>13 DEF Opened, Numbers
<1> QED BY <1>2, <1>6, <1>8, <1>9, <1>10, <1>14, <1>15, ForkKeeps

\* A step that changes no child: what is in the table stays what it is, or is free.
LEMMA ChildrenSame ==
  ASSUME SpawnInv, children' = children, ParentRight(table', Len(children)), StreamsAre(table', Len(children), streams')
  PROVE  SpawnInv'
BY DEF SpawnInv

\* SF_EXEC_INHERIT is set or taken back.
LEMMA FlagsKeep ==
  ASSUME SpawnInv, NEW s \in DOMAIN streams, STREAMSetFlags(s)
  PROVE  SpawnInv'
<1>1. PICK n, u, ss : n = Len(children) /\ u = table' /\ ss = streams
  OBVIOUS
<1>2. ParentRight(table, n) /\ StreamsAre(table, n, ss) /\ ss \in Seq([in : Numbers, out : Numbers]) /\ Len(ss) = n
  BY <1>1 DEF SpawnInv, StreamsAre
<1>3. s \in 1..n
  BY <1>1, <1>2
<1>4. PICK flagged : flagged = {ss[s].in, ss[s].out}
  OBVIOUS
<1>5. u = [fd \in Fds |-> IF fd \in flagged THEN [table[fd] EXCEPT !.cloexec = TRUE] ELSE table[fd]]
      /\ children' = children /\ streams' = ss
  BY <1>1, <1>4 DEF STREAMSetFlags
<1>6. \A fd \in Fds : table[fd] \in Things
  BY <1>2 DEF ParentRight, Tables
<1>7. \A fd \in Fds : [table[fd] EXCEPT !.cloexec = TRUE] \in Things
                      /\ [table[fd] EXCEPT !.cloexec = TRUE].is = table[fd].is
                      /\ [table[fd] EXCEPT !.cloexec = TRUE].id = table[fd].id
  BY <1>6 DEF Things
<1>8. /\ u \in Tables
      /\ \A fd \in Fds : u[fd].is = table[fd].is /\ u[fd].id = table[fd].id /\ (fd \notin flagged => u[fd] = table[fd])
  BY <1>5, <1>6, <1>7 DEF Tables
<1>9. \A fd \in flagged : fd # -1 => table[fd].is # "parent's"
  <2>1. StreamIs(table, s, ss[s])
    BY <1>2, <1>3 DEF StreamsAre
  <2> QED BY <1>4, <2>1 DEF StreamIs
<1>10. ParentRight(u, n)
  <2>1. NoEnds(u)
    BY <1>2, <1>8 DEF ParentRight, NoEnds
  <2>2. \A fd \in Fds : u[fd].is = "stdin w" => u[fd].id \in 1..n
    BY <1>2, <1>8 DEF ParentRight
  <2>3. \A fd \in Fds : u[fd].is = "parent's" => u[fd].cloexec = FALSE
    BY <1>2, <1>8, <1>9, FdsAre DEF ParentRight
  <2> QED BY <1>8, <2>1, <2>2, <2>3 DEF ParentRight
<1>11. ASSUME NEW z \in 1..n PROVE StreamIs(u, z, ss[z])
  <2>1. StreamIs(table, z, ss[z])
    BY <1>2 DEF StreamsAre
  <2> QED BY <1>8, <2>1 DEF StreamIs, Numbers
<1>12. StreamsAre(u, n, ss)
  BY <1>2, <1>11 DEF StreamsAre
<1> QED BY <1>1, <1>5, <1>10, <1>12, ChildrenSame

\* A descriptor of the parent's is closed.
LEMMA CloseKeepsParent ==
  ASSUME NEW t, NEW n \in Nat, ParentRight(t, n), NEW fd \in Numbers
  PROVE  ParentRight(Close(t, fd), n)
<1>1. PICK u : u = Close(t, fd)
  OBVIOUS
<1>2. u \in Tables /\ \A x \in Fds : u[x] = t[x] \/ u[x] = FreeFd
  BY <1>1, CloseIs, ZenonT(30) DEF ParentRight
<1>3. NoEnds(u)
  BY <1>2, ThingsAre DEF ParentRight, NoEnds, ChildEnds
<1>4. \A x \in Fds : (u[x].is = "stdin w" => u[x].id \in 1..n) /\ (u[x].is = "parent's" => u[x].cloexec = FALSE)
  BY <1>2, ThingsAre DEF ParentRight
<1> QED BY <1>1, <1>2, <1>3, <1>4 DEF ParentRight

\* A stream is closed.
LEMMA ClosedKeeps ==
  ASSUME SpawnInv, NEW s \in DOMAIN streams, STREAMClose(s)
  PROVE  SpawnInv'
<1>1. PICK n, u, ss : n = Len(children) /\ u = table' /\ ss = streams
  OBVIOUS
<1>2. ParentRight(table, n) /\ StreamsAre(table, n, ss) /\ ss \in Seq([in : Numbers, out : Numbers]) /\ Len(ss) = n
      /\ children \in Seq(Records) /\ n \in Nat
  BY <1>1 DEF SpawnInv, StreamsAre
<1>3. s \in 1..n
  BY <1>1, <1>2
<1>4. PICK i, o : i = ss[s].in /\ o = ss[s].out
  OBVIOUS
<1>5. PICK v : v = Close(table, o)
  OBVIOUS
<1>6. u = Close(v, i) /\ children' = children /\ streams' = [ss EXCEPT ![s] = [in |-> -1, out |-> -1]]
  BY <1>1, <1>4, <1>5 DEF STREAMClose
<1>7. i \in Numbers /\ o \in Numbers
  <2>1. ss[s] \in [in : Numbers, out : Numbers]
    BY <1>2, <1>3, ElementOfSeq
  <2> QED BY <1>4, <2>1
<1>8. ParentRight(v, n)
  BY <1>2, <1>5, <1>7, CloseKeepsParent
<1>9. ParentRight(u, n)
  BY <1>2, <1>6, <1>7, <1>8, CloseKeepsParent
<1>10. /\ \A x \in Fds : x # o => v[x] = table[x]
       /\ \A x \in Fds : x # i => u[x] = v[x]
       /\ \A x \in Fds : u[x] = v[x] \/ u[x] = FreeFd
       /\ \A x \in Fds : v[x] = table[x] \/ v[x] = FreeFd
  <2>1. table \in Tables /\ v \in Tables
    BY <1>2, <1>8 DEF ParentRight
  <2>2. (\A x \in Fds : x # o => v[x] = table[x]) /\ (o # -1 => v[o] = FreeFd)
    BY <1>5, <1>7, <2>1, CloseIs
  <2>3. (\A x \in Fds : x # i => u[x] = v[x]) /\ (i # -1 => u[i] = FreeFd)
    BY <1>6, <1>7, <2>1, CloseIs
  <2> QED BY <2>2, <2>3, FdsAre
<1>11. PICK zz : zz = [ss EXCEPT ![s] = [in |-> -1, out |-> -1]]
  OBVIOUS
<1>12. zz \in Seq([in : Numbers, out : Numbers]) /\ Len(zz) = n /\ zz[s] = [in |-> -1, out |-> -1]
       /\ \A z \in 1..n : z # s => zz[z] = ss[z]
  <2>1. [in |-> -1, out |-> -1] \in [in : Numbers, out : Numbers]
    BY DEF Numbers
  <2> QED BY <1>2, <1>3, <1>11, <2>1
<1>13. ASSUME NEW z \in 1..n PROVE StreamIs(u, z, zz[z])
  <2>1. CASE z = s
    <3>1. zz[z].in = -1 /\ zz[z].out = -1 /\ -1 \in Numbers
      BY <1>12, <2>1 DEF Numbers
    <3> QED BY <3>1 DEF StreamIs
  <2>2. CASE z # s
    <3>1. StreamIs(table, z, ss[z])
      BY <1>2 DEF StreamsAre
    <3>2. Apart2(ss[s], ss[z])
      BY <1>2, <1>3, <2>2 DEF StreamsAre
    <3>3. PICK in, out : in = ss[z].in /\ out = ss[z].out
      OBVIOUS
    <3>4. in \in Numbers /\ out \in Numbers
      BY <3>1, <3>3 DEF StreamIs
    <3>5. (in # -1 => in # i /\ in # o) /\ (out # -1 => out # i /\ out # o)
      BY <1>4, <3>2, <3>3 DEF Apart2
    <3>6. (in # -1 => u[in] = table[in]) /\ (out # -1 => u[out] = table[out])
      BY <1>10, <3>4, <3>5 DEF Numbers
    <3>7. \A x \in Fds : u[x].is = "stdin w" => u[x] = table[x]
      BY <1>10, ThingsAre
    <3>8. StreamIs(u, z, ss[z])
      BY <3>1, <3>3, <3>6, <3>7 DEF StreamIs
    <3> QED BY <1>12, <2>2, <3>8
  <2> QED BY <2>1, <2>2
<1>14. ASSUME NEW y \in 1..n, NEW z \in 1..n, z # y PROVE Apart2(zz[y], zz[z])
  <2>1. CASE y = s \/ z = s
    BY <1>12, <2>1 DEF Apart2
  <2>2. CASE y # s /\ z # s
    <3>1. Apart2(ss[y], ss[z])
      BY <1>2, <1>14 DEF StreamsAre
    <3> QED BY <1>12, <2>2, <3>1
  <2> QED BY <2>1, <2>2
<1>15. StreamsAre(u, n, zz)
  BY <1>12, <1>13, <1>14 DEF StreamsAre
<1> QED BY <1>1, <1>6, <1>9, <1>11, <1>15, ChildrenSame

\* A child ends.
LEMMA ExitKeeps ==
  ASSUME SpawnInv, NEW c \in DOMAIN children, Exit(c)
  PROVE  SpawnInv'
<1>1. PICK cs, n : cs = children /\ n = Len(children)
  OBVIOUS
<1>2. cs \in Seq(Records) /\ c \in 1..n /\ Len(cs) = n /\ (\A d \in 1..n : ChildRight(cs[d], d))
      /\ ParentRight(table, n) /\ StreamsAre(table, n, streams)
  BY <1>1 DEF SpawnInv
<1>3. PICK child : child = [cs[c] EXCEPT !.alive = FALSE, !.table = Gone]
  OBVIOUS
<1>4. children' = [cs EXCEPT ![c] = child] /\ table' = table /\ streams' = streams
  BY <1>1, <1>2, <1>3 DEF Exit, Gone
<1>5. cs[c] \in Records
  BY <1>2
<1>6. child \in Records /\ child.alive = FALSE /\ child.table = Gone
  BY <1>3, <1>5, GoneIs DEF Records
<1>7. ChildRight(child, c)
  <2>1. \A fd \in Fds : child.table[fd].is = "free"
    BY <1>6, GoneIs
  <2>2. Mine(child.table, c)
    BY <2>1 DEF Mine, ChildEnds
  <2> QED BY <1>6, <2>1, <2>2 DEF ChildRight, StdioRight
<1>8. PICK ds : ds = children'
  OBVIOUS
<1>9. ds \in Seq(Records) /\ Len(ds) = n /\ ds[c] = child /\ \A d \in 1..n : d # c => ds[d] = cs[d]
  BY <1>2, <1>4, <1>6, <1>8
<1>10. \A d \in 1..n : ChildRight(ds[d], d)
  BY <1>2, <1>7, <1>9
<1> QED BY <1>2, <1>4, <1>8, <1>9, <1>10 DEF SpawnInv

\* Nothing was started,
LEMMA SpawnStarts == SpawnInit => SpawnInv
<1>1. SUFFICES ASSUME SpawnInit PROVE SpawnInv
  OBVIOUS
<1>2. PICK open : table = [fd \in Fds |-> IF fd \in open THEN Thing("parent's", fd, FALSE) ELSE FreeFd]
  BY <1>1 DEF SpawnInit
<1>3. \A fd \in Fds : Thing("parent's", fd, FALSE) \in Things /\ Thing("parent's", fd, FALSE).is = "parent's"
                      /\ Thing("parent's", fd, FALSE).cloexec = FALSE
  <2>1. "parent's" \in ThingKinds
    BY DEF ThingKinds
  <2> QED BY <2>1, ThingsAre, FdsAre
<1>4. \A fd \in Fds : table[fd] \in Things /\ table[fd].is \in {"parent's", "free"} /\ table[fd].cloexec = FALSE
  BY <1>2, <1>3, ThingsAre
<1>5. table \in Tables
  BY <1>2, <1>4 DEF Tables
<1>6. children = <<>> /\ streams = <<>>
  BY <1>1 DEF SpawnInit
<1>7. children \in Seq(Records) /\ Len(children) = 0 /\ streams \in Seq([in : Numbers, out : Numbers]) /\ Len(streams) = 0
  BY <1>6
<1>8. 1..0 = {}
  OBVIOUS
<1>9. NoEnds(table)
  BY <1>4 DEF NoEnds, ChildEnds
<1>10. ParentRight(table, Len(children))
  BY <1>4, <1>5, <1>9 DEF ParentRight
<1>11. StreamsAre(table, Len(children), streams)
  BY <1>7, <1>8 DEF StreamsAre
<1> QED BY <1>7, <1>8, <1>10, <1>11 DEF SpawnInv

\* every step keeps the invariant,
LEMMA SpawnKeeps == SpawnInv /\ [SpawnNext]_spawnVars => SpawnInv'
<1>1. SUFFICES ASSUME SpawnInv, [SpawnNext]_spawnVars PROVE SpawnInv'
  OBVIOUS
<1>2. CASE STREAMSpawnFunction
  <2>1. PICK how \in Ways : IF how.tty THEN how.outNull = FALSE /\ how.err = "with" /\ PseudoTTYSpawnFunction(how)
                            ELSE PipeSpawnFunction(how)
    BY <1>2 DEF STREAMSpawnFunction
  <2>2. how.tty \in BOOLEAN
    BY DEF Ways
  <2>3. CASE how.tty
    BY <1>1, <2>1, <2>3, TtyKeeps
  <2>4. CASE how.tty = FALSE
    BY <1>1, <2>1, <2>4, PipeKeeps
  <2> QED BY <2>2, <2>3, <2>4
<1>3. ASSUME NEW s \in DOMAIN streams, STREAMSetFlags(s) \/ STREAMClose(s) PROVE SpawnInv'
  BY <1>1, <1>3, FlagsKeep, ClosedKeeps
<1>4. ASSUME NEW c \in DOMAIN children, Exit(c) PROVE SpawnInv'
  BY <1>1, <1>4, ExitKeeps
<1>5. CASE UNCHANGED spawnVars
  BY <1>1, <1>5 DEF spawnVars, SpawnInv
<1> QED BY <1>1, <1>2, <1>3, <1>4, <1>5 DEF SpawnNext

\* and that is enough for the property.
LEMMA SpawnIsRight == SpawnInv => SpawnTypeOK /\ SpawnRight
<1>1. SUFFICES ASSUME SpawnInv PROVE SpawnTypeOK /\ SpawnRight
  OBVIOUS
<1>2. PICK n : n = Len(children)
  OBVIOUS
<1>3. /\ ParentRight(table, n) /\ StreamsAre(table, n, streams) /\ children \in Seq(Records)
      /\ \A c \in 1..n : ChildRight(children[c], c)
      /\ DOMAIN children = 1..n
  BY <1>1, <1>2 DEF SpawnInv
<1>4. streams \in Seq([in : Numbers, out : Numbers]) /\ Len(streams) = n /\ DOMAIN streams = 1..n
  BY <1>3 DEF StreamsAre
<1>5. \A s \in 1..n : StreamIs(table, s, streams[s])
  BY <1>3 DEF StreamsAre
<1>6. SpawnTypeOK
  <2>1. \A fd \in Fds : table[fd].cloexec \in BOOLEAN
    BY <1>3 DEF ParentRight, Tables, Things
  <2>2. \A s \in DOMAIN streams : {streams[s].in, streams[s].out} \subseteq Fds \cup {-1}
    <3>1. \A s \in DOMAIN streams : streams[s] \in [in : Numbers, out : Numbers]
      BY <1>4, ElementOfSeq
    <3> QED BY <3>1 DEF Numbers
  <2> QED BY <1>2, <1>4, <2>1, <2>2 DEF SpawnTypeOK
<1>7. ChildStdio
  BY <1>3 DEF ChildRight, StdioRight, ChildStdio
<1>8. EndIsSeen
  <2>1. SUFFICES ASSUME NEW c \in 1..n, ~children[c].alive, NEW end \in {"stdout w", "stderr w", "slave"}
                 PROVE  ~Held(end, c)
    BY <1>3 DEF EndIsSeen
  <2>2. end \in ChildEnds
    BY DEF ChildEnds
  <2>3. ~HasEnd(table, end, c)
    BY <1>3, <2>2 DEF ParentRight, NoEnds, HasEnd
  <2>4. ASSUME NEW d \in 1..n, HasEnd(children[d].table, end, c) PROVE FALSE
    <3>1. PICK fd \in Fds : children[d].table[fd].is = end /\ children[d].table[fd].id = c
      BY <2>4 DEF HasEnd
    <3>2. Mine(children[d].table, d)
      BY <1>3 DEF ChildRight
    <3>3. d = c
      BY <2>2, <3>1, <3>2 DEF Mine
    <3>4. children[c].table = Gone
      BY <1>3, <2>1 DEF ChildRight
    <3>5. children[c].table[fd].is = "free"
      BY <3>4, GoneIs
    <3> QED BY <3>1, <3>3, <3>5
  <2> QED BY <1>3, <2>3, <2>4 DEF Held
<1>9. InputEnds
  <2>1. SUFFICES ASSUME NEW c \in 1..n, NEW d \in 1..n, d <= c \/ (children[d].how.execs /\ c \in children[d].marked),
                        HasEnd(children[d].table, "stdin w", c)
                 PROVE  FALSE
    BY <1>3 DEF InputEnds
  <2>2. PICK fd \in Fds : children[d].table[fd].is = "stdin w" /\ children[d].table[fd].id = c
    BY <2>1 DEF HasEnd
  <2>3. c < d /\ ~(children[d].how.execs /\ c \in children[d].marked)
    BY <1>3, <2>2 DEF ChildRight
  <2>4. ~(d <= c)
    <3>1. c \in Nat /\ d \in Nat
      BY <1>2, <1>3
    <3> QED BY <2>3, <3>1
  <2> QED BY <2>1, <2>3, <2>4
<1>10. StreamsApart
  <2>1. ASSUME NEW s \in 1..n, streams[s].out # -1
        PROVE  table[streams[s].out].id = s \/ table[streams[s].out].is \in {"null"}
    BY <1>5, <2>1 DEF StreamIs
  <2>2. ASSUME NEW s \in 1..n, NEW z \in 1..n, z # s
        PROVE  {streams[s].in, streams[s].out} \cap {streams[z].in, streams[z].out} \subseteq {-1}
    BY <1>3, <2>2 DEF StreamsAre, Apart2
  <2> QED BY <1>4, <2>1, <2>2 DEF StreamsApart
<1> QED BY <1>6, <1>7, <1>8, <1>9, <1>10 DEF SpawnRight

-----------------------------------------------------------------------------
(* The log                                                                 *)

Entries == [by : Loggers, n : Nat, text : Texts \cup {"repeated"}, times : Nat]
Lines == Seq(Entries)

\* What p has still to write is its own, and in order.
QueueOf(p, q, m) == q \in Lines /\ \A i \in 1..Len(q) : q[i].by = p /\ (Own(p, q[i]) => q[i].n \in 1..m)
QueueUp(p, q) == \A i, j \in 1..Len(q) : Own(p, q[i]) /\ Own(p, q[j]) /\ i < j => q[i].n < q[j].n
\* What it has written is older, and in no file that is younger than the one it writes to.
OlderThan(p, e, q) == \A i \in 1..Len(q) : Own(p, q[i]) => e.n < q[i].n
InFiles(p, fs, f, q, m) ==
  \A g \in 1..Len(fs) : \A a \in 1..Len(fs[g]) :
    Own(p, fs[g][a]) => fs[g][a].n \in 1..m /\ (f # 0 => g <= f) /\ OlderThan(p, fs[g][a], q)
StandsBefore(g, a, h, b) == g < h \/ (g = h /\ a < b)
FilesUp(p, fs) ==
  \A g \in 1..Len(fs) : \A h \in 1..Len(fs) : \A a \in 1..Len(fs[g]) : \A b \in 1..Len(fs[h]) :
    Own(p, fs[g][a]) /\ Own(p, fs[h][b]) /\ StandsBefore(g, a, h, b) => fs[g][a].n < fs[h][b].n
Told(p, fs, f, q, m) ==
  /\ fs \in Seq(Lines) /\ f \in 0..Len(fs) /\ m \in Nat
  /\ QueueOf(p, q, m) /\ QueueUp(p, q) /\ InFiles(p, fs, f, q, m) /\ FilesUp(p, fs)

-----------------------------------------------------------------------------
Joined(u, q, r) ==
  /\ u \in Lines /\ Len(u) = Len(q) + Len(r)
  /\ \A a \in 1..Len(q) : a \in 1..Len(u) /\ u[a] = q[a]
  /\ \A a \in 1..Len(r) : Len(q) + a \in 1..Len(u) /\ u[Len(q) + a] = r[a]
  /\ \A b \in 1..Len(u) : b \in 1..Len(q) \/ \E a \in 1..Len(r) : b = Len(q) + a

\* What two queues are, one behind the other.
LEMMA JoinedIs ==
  ASSUME NEW q \in Lines, NEW r \in Lines
  PROVE  Joined(q \o r, q, r)
<1>1. PICK u : u = q \o r
  OBVIOUS
<1>2. PICK E : E = Entries
  OBVIOUS
<1>3. q \in Seq(E) /\ r \in Seq(E)
  BY <1>2 DEF Lines
<1>4. Len(q) \in Nat /\ Len(r) \in Nat
  BY <1>3
<1>5. u \in Seq(E) /\ Len(u) = Len(q) + Len(r)
  BY <1>1, <1>3
<1>6. ASSUME NEW a \in 1..Len(q) PROVE a \in 1..Len(u) /\ u[a] = q[a]
  BY <1>1, <1>3, <1>4, <1>5
<1>7. ASSUME NEW a \in 1..Len(r) PROVE Len(q) + a \in 1..Len(u) /\ u[Len(q) + a] = r[a]
  <2>1. Len(q) + a \in 1..Len(u)
    BY <1>4, <1>5
  <2> QED BY <1>1, <1>3, <1>4, <1>5, <2>1
<1>8. ASSUME NEW b \in 1..Len(u), b \notin 1..Len(q) PROVE \E a \in 1..Len(r) : b = Len(q) + a
  <2>1. PICK a : a = b - Len(q)
    OBVIOUS
  <2>2. a \in 1..Len(r) /\ b = Len(q) + a
    BY <1>4, <1>5, <1>8, <2>1
  <2> QED BY <2>2
<1>9. Joined(u, q, r)
  BY <1>2, <1>5, <1>6, <1>7, <1>8 DEF Joined, Lines
<1> QED BY <1>1, <1>9

\* Lines are added to one file.
Poured(u, fs, f, q) ==
  /\ u \in Seq(Lines) /\ Len(u) = Len(fs)
  /\ \A g \in 1..Len(fs) : g # f => u[g] = fs[g]
  /\ Joined(u[f], fs[f], q)

\* What a file is when a queue is written to it.
LEMMA PouredIs ==
  ASSUME NEW fs \in Seq(Lines), NEW f \in 1..Len(fs), NEW q \in Lines
  PROVE  Poured([fs EXCEPT ![f] = @ \o q], fs, f, q)
<1>1. PICK r : r = fs[f] \o q
  OBVIOUS
<1>2. fs[f] \in Lines
  BY ElementOfSeq
<1>3. Joined(r, fs[f], q)
  BY <1>1, <1>2, JoinedIs
<1>4. r \in Lines
  BY <1>3 DEF Joined
<1>5. PICK u : u = [fs EXCEPT ![f] = r]
  OBVIOUS
<1>6. u \in Seq(Lines) /\ Len(u) = Len(fs) /\ u[f] = r /\ \A g \in 1..Len(fs) : g # f => u[g] = fs[g]
  BY <1>4, <1>5
<1>7. Poured(u, fs, f, q)
  BY <1>3, <1>6 DEF Poured
<1> QED BY <1>1, <1>5, <1>7

\* Where a line is after that.
From(u, fs, f, q, g, a) ==
  \/ a \in 1..Len(fs[g]) /\ u[g][a] = fs[g][a]
  \/ g = f /\ \E k \in 1..Len(q) : a = Len(fs[f]) + k /\ u[g][a] = q[k]

\* Where a message of the files comes from.
LEMMA PouredFrom ==
  ASSUME NEW u, NEW fs \in Seq(Lines), NEW f \in 1..Len(fs), NEW q \in Lines, Poured(u, fs, f, q),
         NEW g \in 1..Len(u), NEW a \in 1..Len(u[g])
  PROVE  From(u, fs, f, q, g, a)
<1>1. g \in 1..Len(fs)
  BY DEF Poured
<1>2. CASE g # f
  BY <1>1, <1>2 DEF Poured, From
<1>3. CASE g = f
  <2>1. Joined(u[f], fs[f], q)
    BY DEF Poured
  <2>2. CASE a \in 1..Len(fs[f])
    BY <1>3, <2>1, <2>2 DEF Joined, From
  <2>3. CASE a \notin 1..Len(fs[f])
    <3>1. PICK k \in 1..Len(q) : a = Len(fs[f]) + k
      BY <1>3, <2>1, <2>3 DEF Joined
    <3> QED BY <1>3, <2>1, <3>1 DEF Joined, From
  <2> QED BY <2>2, <2>3
<1> QED BY <1>2, <1>3

\* A file.
LEMMA FileIs == ASSUME NEW fs \in Seq(Lines), NEW g \in 1..Len(fs) PROVE fs[g] \in Lines /\ Len(fs[g]) \in Nat
<1>1. fs[g] \in Lines
  BY ElementOfSeq
<1> QED BY <1>1 DEF Lines

-----------------------------------------------------------------------------
\* A process writes the first of what it has to write.
LEMMA ToldPour ==
  ASSUME NEW p, NEW fs, NEW f, NEW q \in Lines, NEW r \in Lines, NEW m, Told(p, fs, f, q \o r, m), f # 0,
         NEW u, u = [fs EXCEPT ![f] = @ \o q]
  PROVE  Told(p, u, f, r, m)
<1>1. fs \in Seq(Lines) /\ f \in 1..Len(fs) /\ m \in Nat
  BY DEF Told
<1>2. PICK w : w = q \o r
  OBVIOUS
<1>3. Joined(w, q, r)
  BY <1>2, JoinedIs
<1>4. QueueOf(p, w, m) /\ QueueUp(p, w) /\ InFiles(p, fs, f, w, m) /\ FilesUp(p, fs)
  BY <1>2 DEF Told
<1>5. Poured(u, fs, f, q)
  BY <1>1, PouredIs
<1>6. Len(q) \in Nat /\ Len(r) \in Nat
  BY DEF Lines
<1>7. QueueOf(p, r, m)
  BY <1>3, <1>4 DEF QueueOf, Joined
<1>8. QueueUp(p, r)
  <2>1. SUFFICES ASSUME NEW i \in 1..Len(r), NEW j \in 1..Len(r), Own(p, r[i]), Own(p, r[j]), i < j PROVE r[i].n < r[j].n
    BY DEF QueueUp
  <2>2. Len(q) + i \in 1..Len(w) /\ w[Len(q) + i] = r[i] /\ Len(q) + j \in 1..Len(w) /\ w[Len(q) + j] = r[j]
    BY <1>3 DEF Joined
  <2>3. Len(q) + i < Len(q) + j
    BY <1>6, <2>1
  <2> QED BY <1>4, <2>1, <2>2, <2>3 DEF QueueUp
<1>9. ASSUME NEW k \in 1..Len(q), Own(p, q[k]) PROVE q[k].n \in 1..m /\ OlderThan(p, q[k], r)
  <2>1. k \in 1..Len(w) /\ w[k] = q[k]
    BY <1>3 DEF Joined
  <2>2. q[k].n \in 1..m
    BY <1>4, <1>9, <2>1 DEF QueueOf
  <2>3. ASSUME NEW i \in 1..Len(r), Own(p, r[i]) PROVE q[k].n < r[i].n
    <3>1. Len(q) + i \in 1..Len(w) /\ w[Len(q) + i] = r[i]
      BY <1>3 DEF Joined
    <3>2. k < Len(q) + i
      BY <1>6
    <3> QED BY <1>4, <1>9, <2>1, <2>3, <3>1, <3>2 DEF QueueUp
  <2> QED BY <2>2, <2>3 DEF OlderThan
<1>10. ASSUME NEW g \in 1..Len(fs), NEW a \in 1..Len(fs[g]), Own(p, fs[g][a])
       PROVE  /\ fs[g][a].n \in 1..m /\ g <= f /\ OlderThan(p, fs[g][a], r) /\ OlderThan(p, fs[g][a], q)
  <2>1. fs[g][a].n \in 1..m /\ g <= f /\ OlderThan(p, fs[g][a], w)
    BY <1>4, <1>10 DEF InFiles
  <2>2. OlderThan(p, fs[g][a], r) /\ OlderThan(p, fs[g][a], q)
    BY <1>3, <2>1 DEF OlderThan, Joined
  <2> QED BY <2>1, <2>2
<1>11. InFiles(p, u, f, r, m)
  <2>1. SUFFICES ASSUME NEW g \in 1..Len(u), NEW a \in 1..Len(u[g]), Own(p, u[g][a])
                 PROVE  u[g][a].n \in 1..m /\ (f # 0 => g <= f) /\ OlderThan(p, u[g][a], r)
    BY DEF InFiles
  <2>2. g \in 1..Len(fs)
    BY <1>5 DEF Poured
  <2>3. CASE a \in 1..Len(fs[g]) /\ u[g][a] = fs[g][a]
    BY <1>10, <2>1, <2>2, <2>3
  <2>4. CASE g = f /\ \E k \in 1..Len(q) : a = Len(fs[f]) + k /\ u[g][a] = q[k]
    <3>1. PICK k \in 1..Len(q) : u[g][a] = q[k]
      BY <2>4
    <3>2. g <= f
      BY <1>1, <2>4
    <3> QED BY <1>9, <2>1, <3>1, <3>2
  <2>5. From(u, fs, f, q, g, a)
    BY <1>1, <1>5, PouredFrom
  <2> QED BY <2>3, <2>4, <2>5 DEF From
<1>12. FilesUp(p, u)
  <2>1. SUFFICES ASSUME NEW g \in 1..Len(u), NEW h \in 1..Len(u), NEW a \in 1..Len(u[g]), NEW b \in 1..Len(u[h]),
                        Own(p, u[g][a]), Own(p, u[h][b]), StandsBefore(g, a, h, b)
                 PROVE  u[g][a].n < u[h][b].n
    BY ZenonT(30) DEF FilesUp
  <2>2. g \in 1..Len(fs) /\ h \in 1..Len(fs)
    BY <1>5 DEF Poured
  <2>3. \/ a \in 1..Len(fs[g]) /\ u[g][a] = fs[g][a]
        \/ g = f /\ \E k \in 1..Len(q) : a = Len(fs[f]) + k /\ u[g][a] = q[k]
    <3>1. From(u, fs, f, q, g, a)
      BY <1>1, <1>5, PouredFrom
    <3> QED BY <3>1 DEF From
  <2>4. \/ b \in 1..Len(fs[h]) /\ u[h][b] = fs[h][b]
        \/ h = f /\ \E k \in 1..Len(q) : b = Len(fs[f]) + k /\ u[h][b] = q[k]
    <3>1. From(u, fs, f, q, h, b)
      BY <1>1, <1>5, PouredFrom
    <3> QED BY <3>1 DEF From
  <2>5. CASE (a \in 1..Len(fs[g]) /\ u[g][a] = fs[g][a]) /\ (b \in 1..Len(fs[h]) /\ u[h][b] = fs[h][b])
    BY <1>4, <2>1, <2>2, <2>5 DEF FilesUp
  <2>6. ASSUME a \in 1..Len(fs[g]), u[g][a] = fs[g][a], NEW k \in 1..Len(q), u[h][b] = q[k] PROVE u[g][a].n < u[h][b].n
    <3>1. OlderThan(p, fs[g][a], q)
      BY <1>10, <2>1, <2>2, <2>6
    <3> QED BY <2>1, <2>6, <3>1 DEF OlderThan
  <2>7. ASSUME g = f, NEW k \in 1..Len(q), a = Len(fs[f]) + k, b \in 1..Len(fs[h]), u[h][b] = fs[h][b] PROVE FALSE
    <3>1. h <= f
      BY <1>10, <2>1, <2>2, <2>7
    <3>2. Len(fs[f]) \in Nat
      BY <1>1, FileIs
    <3>3. g = h /\ a < b
      BY <1>1, <2>1, <2>2, <2>7, <3>1 DEF StandsBefore
    <3> QED BY <2>7, <3>2, <3>3
  <2>8. ASSUME g = f, h = f, NEW k \in 1..Len(q), a = Len(fs[f]) + k, u[g][a] = q[k],
               NEW l \in 1..Len(q), b = Len(fs[f]) + l, u[h][b] = q[l] PROVE u[g][a].n < u[h][b].n
    <3>1. Len(fs[f]) \in Nat
      BY <1>1, FileIs
    <3>2. k < l
      BY <1>1, <2>1, <2>8, <3>1 DEF StandsBefore
    <3>3. k \in 1..Len(w) /\ w[k] = q[k] /\ l \in 1..Len(w) /\ w[l] = q[l]
      BY <1>3 DEF Joined
    <3> QED BY <1>4, <2>1, <2>8, <3>2, <3>3 DEF QueueUp
  <2> QED BY <2>3, <2>4, <2>5, <2>6, <2>7, <2>8
<1>13. u \in Seq(Lines) /\ Len(u) = Len(fs)
  BY <1>5 DEF Poured
<1> QED BY <1>1, <1>7, <1>8, <1>11, <1>12, <1>13 DEF Told

\* Another process writes.
LEMMA ToldByOther ==
  ASSUME NEW c, NEW fs, NEW f, NEW q, NEW m, Told(c, fs, f, q, m), NEW r \in Lines, NEW g0 \in 1..Len(fs),
         \A i \in 1..Len(r) : r[i].by # c, NEW u, u = [fs EXCEPT ![g0] = @ \o r]
  PROVE  Told(c, u, f, q, m)
<1>1. fs \in Seq(Lines) /\ InFiles(c, fs, f, q, m) /\ FilesUp(c, fs)
  BY DEF Told
<1>2. Poured(u, fs, g0, r)
  BY <1>1, PouredIs
<1>3. u \in Seq(Lines) /\ Len(u) = Len(fs)
  BY <1>2 DEF Poured
<1>4. ASSUME NEW g \in 1..Len(u), NEW a \in 1..Len(u[g]), Own(c, u[g][a])
      PROVE  g \in 1..Len(fs) /\ a \in 1..Len(fs[g]) /\ u[g][a] = fs[g][a]
  <2>1. From(u, fs, g0, r, g, a)
    BY <1>1, <1>2, PouredFrom
  <2>2. u[g][a].by = c
    BY <1>4 DEF Own
  <2> QED BY <1>3, <2>1, <2>2 DEF From
<1>5. InFiles(c, u, f, q, m)
  <2>1. SUFFICES ASSUME NEW g \in 1..Len(u), NEW a \in 1..Len(u[g]), Own(c, u[g][a])
                 PROVE  u[g][a].n \in 1..m /\ (f # 0 => g <= f) /\ OlderThan(c, u[g][a], q)
    BY DEF InFiles
  <2> QED BY <1>1, <1>4, <2>1 DEF InFiles
<1>6. FilesUp(c, u)
  <2>1. SUFFICES ASSUME NEW g \in 1..Len(u), NEW h \in 1..Len(u), NEW a \in 1..Len(u[g]), NEW b \in 1..Len(u[h]),
                        Own(c, u[g][a]), Own(c, u[h][b]), StandsBefore(g, a, h, b)
                 PROVE  u[g][a].n < u[h][b].n
    BY ZenonT(30) DEF FilesUp
  <2>2. /\ g \in 1..Len(fs) /\ a \in 1..Len(fs[g]) /\ u[g][a] = fs[g][a]
        /\ h \in 1..Len(fs) /\ b \in 1..Len(fs[h]) /\ u[h][b] = fs[h][b]
    BY <1>4, <2>1
  <2> QED BY <1>1, <2>1, <2>2 DEF FilesUp
<1> QED BY <1>3, <1>5, <1>6 DEF Told

\* A process leaves its file, or has the youngest.
LEMMA ToldAt ==
  ASSUME NEW p, NEW fs, NEW f, NEW q, NEW m, Told(p, fs, f, q, m), NEW f2 \in {0, Len(fs)}
  PROVE  Told(p, fs, f2, q, m)
<1>1. fs \in Seq(Lines) /\ InFiles(p, fs, f, q, m)
  BY DEF Told
<1>2. Len(fs) \in Nat
  BY <1>1
<1>3. f2 \in 0..Len(fs) /\ \A g \in 1..Len(fs) : f2 # 0 => g <= f2
  BY <1>2
<1>4. InFiles(p, fs, f2, q, m)
  BY <1>1, <1>3 DEF InFiles
<1> QED BY <1>3, <1>4 DEF Told

\* What it had to write is lost.
LEMMA ToldLost ==
  ASSUME NEW p, NEW fs, NEW f, NEW q, NEW m, Told(p, fs, f, q, m)
  PROVE  Told(p, fs, f, <<>>, m)
<1>1. <<>> \in Lines /\ Len(<<>>) = 0
  BY DEF Lines
<1>2. 1..0 = {}
  OBVIOUS
<1>3. QueueOf(p, <<>>, m) /\ QueueUp(p, <<>>)
  BY <1>1, <1>2 DEF QueueOf, QueueUp
<1>4. \A e : OlderThan(p, e, <<>>)
  BY <1>1, <1>2 DEF OlderThan
<1>5. InFiles(p, fs, f, <<>>, m)
  BY <1>4 DEF InFiles, Told
<1> QED BY <1>3, <1>5 DEF Told

\* A file is made.
LEMMA ToldNew ==
  ASSUME NEW p, NEW fs, NEW f, NEW q, NEW m, Told(p, fs, f, q, m)
  PROVE  Told(p, Append(fs, <<>>), f, q, m)
<1>1. fs \in Seq(Lines) /\ f \in 0..Len(fs) /\ InFiles(p, fs, f, q, m) /\ FilesUp(p, fs)
  BY DEF Told
<1>2. PICK u, e : u = Append(fs, e) /\ e = <<>>
  OBVIOUS
<1>3. e \in Lines /\ Len(e) = 0
  BY <1>2 DEF Lines
<1>4. u \in Seq(Lines) /\ Len(u) = Len(fs) + 1 /\ u[Len(fs) + 1] = e /\ Len(fs) \in Nat
      /\ \A g \in 1..Len(fs) : u[g] = fs[g]
  BY <1>1, <1>2, <1>3
<1>5. \A g \in 1..Len(u) : g \in 1..Len(fs) \/ g = Len(fs) + 1
  BY <1>4
<1>6. ASSUME NEW g \in 1..Len(u), NEW a \in 1..Len(u[g])
      PROVE  g \in 1..Len(fs) /\ u[g] = fs[g]
  <2>1. CASE g = Len(fs) + 1
    <3>1. Len(u[g]) = 0
      BY <1>3, <1>4, <2>1
    <3> QED BY <3>1
  <2> QED BY <1>4, <1>5, <2>1
<1>7. InFiles(p, u, f, q, m)
  <2>1. SUFFICES ASSUME NEW g \in 1..Len(u), NEW a \in 1..Len(u[g]), Own(p, u[g][a])
                 PROVE  u[g][a].n \in 1..m /\ (f # 0 => g <= f) /\ OlderThan(p, u[g][a], q)
    BY DEF InFiles
  <2> QED BY <1>1, <1>6, <2>1 DEF InFiles
<1>8. FilesUp(p, u)
  <2>1. SUFFICES ASSUME NEW g \in 1..Len(u), NEW h \in 1..Len(u), NEW a \in 1..Len(u[g]), NEW b \in 1..Len(u[h]),
                        Own(p, u[g][a]), Own(p, u[h][b]), StandsBefore(g, a, h, b)
                 PROVE  u[g][a].n < u[h][b].n
    BY DEF FilesUp
  <2>2. g \in 1..Len(fs) /\ u[g] = fs[g] /\ h \in 1..Len(fs) /\ u[h] = fs[h]
    BY <1>6
  <2> QED BY <1>1, <2>1, <2>2 DEF FilesUp
<1>9. f \in 0..Len(u)
  BY <1>1, <1>4
<1>10. Told(p, u, f, q, m)
  BY <1>4, <1>7, <1>8, <1>9 DEF Told
<1> QED BY <1>2, <1>10

\* A child that has said nothing has any file.
LEMMA ToldNothing ==
  ASSUME NEW c, NEW fs, NEW f, NEW q, Told(c, fs, f, q, 0), NEW f2 \in 0..Len(fs)
  PROVE  Told(c, fs, f2, <<>>, 0)
<1>1. Told(c, fs, f, <<>>, 0)
  BY ToldLost
<1>2. InFiles(c, fs, f2, <<>>, 0)
  BY <1>1 DEF Told, InFiles
<1> QED BY <1>1, <1>2 DEF Told

\* A message is said; a line that says how often the last one was repeated may come first.
Adds(p, r, m) ==
  /\ r \in Lines
  /\ \A i \in 1..Len(r) : r[i].by = p /\ (Own(p, r[i]) => r[i].n = m)
  /\ \A i, j \in 1..Len(r) : Own(p, r[i]) /\ Own(p, r[j]) => i = j

\* A process says more.
LEMMA ToldMore ==
  ASSUME NEW p, NEW fs, NEW f, NEW q, NEW m, Told(p, fs, f, q, m), NEW r, Adds(p, r, m + 1)
  PROVE  Told(p, fs, f, q \o r, m + 1)
<1>1. m \in Nat /\ QueueOf(p, q, m) /\ QueueUp(p, q) /\ InFiles(p, fs, f, q, m) /\ q \in Lines /\ r \in Lines
  BY DEF Told, QueueOf, Adds
<1>2. PICK w : w = q \o r
  OBVIOUS
<1>3. Joined(w, q, r)
  BY <1>1, <1>2, JoinedIs
<1>4. \A n \in 1..m : n \in 1..(m + 1) /\ n < m + 1
  BY <1>1
<1>5. m + 1 \in 1..(m + 1)
  BY <1>1
<1>6. Len(q) \in Nat /\ Len(r) \in Nat /\ w \in Lines
  BY <1>1, <1>3 DEF Lines, Joined
<1>7. ASSUME NEW b \in 1..Len(w)
      PROVE  \/ b \in 1..Len(q) /\ w[b] = q[b]
             \/ \E a \in 1..Len(r) : b = Len(q) + a /\ w[b] = r[a]
  BY <1>3 DEF Joined
<1>8. QueueOf(p, w, m + 1)
  <2>1. ASSUME NEW i \in 1..Len(w) PROVE w[i].by = p /\ (Own(p, w[i]) => w[i].n \in 1..(m + 1))
    <3>1. CASE i \in 1..Len(q) /\ w[i] = q[i]
      BY <1>1, <1>4, <3>1 DEF QueueOf
    <3>2. CASE \E a \in 1..Len(r) : i = Len(q) + a /\ w[i] = r[a]
      BY <1>5, <3>2 DEF Adds
    <3> QED BY <1>7, <3>1, <3>2
  <2> QED BY <1>6, <2>1 DEF QueueOf
<1>9. QueueUp(p, w)
  <2>1. SUFFICES ASSUME NEW i \in 1..Len(w), NEW j \in 1..Len(w), Own(p, w[i]), Own(p, w[j]), i < j PROVE w[i].n < w[j].n
    BY DEF QueueUp
  <2>2. CASE i \in 1..Len(q) /\ w[i] = q[i] /\ j \in 1..Len(q) /\ w[j] = q[j]
    BY <1>1, <2>1, <2>2 DEF QueueUp
  <2>3. ASSUME i \in 1..Len(q), w[i] = q[i], NEW a \in 1..Len(r), w[j] = r[a] PROVE w[i].n < w[j].n
    <3>1. w[i].n \in 1..m
      BY <1>1, <2>1, <2>3 DEF QueueOf
    <3>2. w[j].n = m + 1
      BY <2>1, <2>3 DEF Adds
    <3> QED BY <1>4, <3>1, <3>2
  <2>4. ASSUME NEW a \in 1..Len(r), i = Len(q) + a, j \in 1..Len(q) PROVE FALSE
    BY <1>6, <2>1, <2>4
  <2>5. ASSUME NEW a \in 1..Len(r), i = Len(q) + a, w[i] = r[a], NEW b \in 1..Len(r), j = Len(q) + b, w[j] = r[b] PROVE FALSE
    <3>1. a = b
      BY <2>1, <2>5 DEF Adds
    <3> QED BY <1>6, <2>1, <2>5, <3>1
  <2> QED BY <1>7, <2>2, <2>3, <2>4, <2>5
<1>10. InFiles(p, fs, f, w, m + 1)
  <2>1. SUFFICES ASSUME NEW g \in 1..Len(fs), NEW a \in 1..Len(fs[g]), Own(p, fs[g][a])
                 PROVE  fs[g][a].n \in 1..(m + 1) /\ (f # 0 => g <= f) /\ OlderThan(p, fs[g][a], w)
    BY DEF InFiles
  <2>2. fs[g][a].n \in 1..m /\ (f # 0 => g <= f) /\ OlderThan(p, fs[g][a], q)
    BY <1>1, <2>1 DEF InFiles
  <2>3. ASSUME NEW i \in 1..Len(w), Own(p, w[i]) PROVE fs[g][a].n < w[i].n
    <3>1. CASE i \in 1..Len(q) /\ w[i] = q[i]
      BY <2>2, <2>3, <3>1 DEF OlderThan
    <3>2. CASE \E b \in 1..Len(r) : i = Len(q) + b /\ w[i] = r[b]
      <4>1. w[i].n = m + 1
        BY <2>3, <3>2 DEF Adds
      <4> QED BY <1>4, <2>2, <4>1
    <3> QED BY <1>7, <3>1, <3>2
  <2> QED BY <1>4, <2>2, <2>3 DEF OlderThan
<1>11. Told(p, fs, f, w, m + 1)
  BY <1>1, <1>8, <1>9, <1>10 DEF Told
<1> QED BY <1>2, <1>11

\* What is kept of a process is in a file that has a name, or still to be written.
NamedFiles(ps) == {ps[i] : i \in 0..MaxRotate} \ {0}
InNamed(p, fs, ps, n) ==
  \E g \in 1..Len(fs) : g \in NamedFiles(ps) /\ \E a \in 1..Len(fs[g]) : Own(p, fs[g][a]) /\ fs[g][a].n = n
InQueue(p, q, n) == \E i \in 1..Len(q) : Own(p, q[i]) /\ q[i].n = n
IsThere(p, fs, ps, q, n) == InNamed(p, fs, ps, n) \/ InQueue(p, q, n)
Lost(p, cr, n) == \E e \in cr : e.by = p /\ e.n = n
Complete(p, fs, ps, q, m, cr) ==
  \A n \in 1..m : \A k \in 1..m : IsThere(p, fs, ps, q, k) /\ k < n /\ ~IsThere(p, fs, ps, q, n) => Lost(p, cr, n)

\* The names, from the youngest file to the oldest.
PathsOk(ps, fs) ==
  /\ fs \in Seq(Lines) /\ ps \in [0..MaxRotate -> 0..Len(fs)]
  /\ ps[0] # 0 => ps[0] = Len(fs)
  /\ \A i, j \in 0..MaxRotate : i < j /\ ps[i] # 0 /\ ps[j] # 0 => ps[j] < ps[i]

\* The archives.
LEMMA MaxRotateIs == MaxRotate \in Nat /\ 0 \in 0..MaxRotate
BY LogAssumption

\* The same messages are there.
LEMMA SameHas ==
  ASSUME NEW p, NEW fs, NEW ps, NEW q, NEW m, NEW cr, Complete(p, fs, ps, q, m, cr), NEW fs2, NEW ps2, NEW q2,
         \A n : IsThere(p, fs2, ps2, q2, n) <=> IsThere(p, fs, ps, q, n)
  PROVE  Complete(p, fs2, ps2, q2, m, cr)
BY DEF Complete

\* The messages of two queues.
LEMMA QueueSplit ==
  ASSUME NEW p, NEW q \in Lines, NEW r \in Lines, NEW n
  PROVE  InQueue(p, q \o r, n) <=> InQueue(p, q, n) \/ InQueue(p, r, n)
<1>1. PICK w : w = q \o r
  OBVIOUS
<1>2. Joined(w, q, r)
  BY <1>1, JoinedIs
<1>3. ASSUME InQueue(p, w, n) PROVE InQueue(p, q, n) \/ InQueue(p, r, n)
  <2>1. PICK i \in 1..Len(w) : Own(p, w[i]) /\ w[i].n = n
    BY <1>3 DEF InQueue
  <2>2. CASE i \in 1..Len(q)
    BY <1>2, <2>1, <2>2 DEF Joined, InQueue
  <2>3. CASE i \notin 1..Len(q)
    <3>1. PICK a \in 1..Len(r) : i = Len(q) + a
      BY <1>2, <2>3 DEF Joined
    <3>2. w[i] = r[a]
      BY <1>2, <3>1 DEF Joined
    <3> QED BY <2>1, <3>2 DEF InQueue
  <2> QED BY <2>2, <2>3
<1>4. ASSUME InQueue(p, q, n) PROVE InQueue(p, w, n)
  <2>1. PICK i \in 1..Len(q) : Own(p, q[i]) /\ q[i].n = n
    BY <1>4 DEF InQueue
  <2>2. i \in 1..Len(w) /\ w[i] = q[i]
    BY <1>2 DEF Joined
  <2> QED BY <2>1, <2>2 DEF InQueue
<1>5. ASSUME InQueue(p, r, n) PROVE InQueue(p, w, n)
  <2>1. PICK i \in 1..Len(r) : Own(p, r[i]) /\ r[i].n = n
    BY <1>5 DEF InQueue
  <2>2. Len(q) + i \in 1..Len(w) /\ w[Len(q) + i] = r[i]
    BY <1>2 DEF Joined
  <2> QED BY <2>1, <2>2 DEF InQueue
<1> QED BY <1>1, <1>3, <1>4, <1>5

\* Lines that are poured into a file stay in it, and those that were in it.
LEMMA PouredNamed ==
  ASSUME NEW p, NEW fs \in Seq(Lines), NEW f \in 1..Len(fs), NEW q \in Lines, NEW u, Poured(u, fs, f, q), NEW ps, NEW n
  PROVE  InNamed(p, u, ps, n) <=> InNamed(p, fs, ps, n) \/ (f \in NamedFiles(ps) /\ InQueue(p, q, n))
<1>1. Len(u) = Len(fs) /\ (\A g \in 1..Len(fs) : g # f => u[g] = fs[g]) /\ Joined(u[f], fs[f], q)
  BY DEF Poured
<1>2. ASSUME InNamed(p, u, ps, n) PROVE InNamed(p, fs, ps, n) \/ (f \in NamedFiles(ps) /\ InQueue(p, q, n))
  <2>1. PICK g \in 1..Len(u) : g \in NamedFiles(ps) /\ \E a \in 1..Len(u[g]) : Own(p, u[g][a]) /\ u[g][a].n = n
    BY <1>2 DEF InNamed
  <2>2. PICK a \in 1..Len(u[g]) : Own(p, u[g][a]) /\ u[g][a].n = n
    BY <2>1
  <2>3. From(u, fs, f, q, g, a)
    BY PouredFrom
  <2>4. CASE a \in 1..Len(fs[g]) /\ u[g][a] = fs[g][a]
    BY <1>1, <2>1, <2>2, <2>4 DEF InNamed
  <2>5. CASE g = f /\ \E k \in 1..Len(q) : a = Len(fs[f]) + k /\ u[g][a] = q[k]
    BY <2>1, <2>2, <2>5 DEF InQueue
  <2> QED BY <2>3, <2>4, <2>5 DEF From
<1>3. ASSUME InNamed(p, fs, ps, n) PROVE InNamed(p, u, ps, n)
  <2>1. PICK g \in 1..Len(fs) : g \in NamedFiles(ps) /\ \E a \in 1..Len(fs[g]) : Own(p, fs[g][a]) /\ fs[g][a].n = n
    BY <1>3 DEF InNamed
  <2>2. PICK a \in 1..Len(fs[g]) : Own(p, fs[g][a]) /\ fs[g][a].n = n
    BY <2>1
  <2>3. a \in 1..Len(u[g]) /\ u[g][a] = fs[g][a]
    BY <1>1 DEF Joined
  <2> QED BY <1>1, <2>1, <2>2, <2>3 DEF InNamed
<1>4. ASSUME f \in NamedFiles(ps), InQueue(p, q, n) PROVE InNamed(p, u, ps, n)
  <2>1. PICK i \in 1..Len(q) : Own(p, q[i]) /\ q[i].n = n
    BY <1>4 DEF InQueue
  <2>2. PICK a : a = Len(fs[f]) + i
    OBVIOUS
  <2>3. a \in 1..Len(u[f]) /\ u[f][a] = q[i]
    BY <1>1, <2>2 DEF Joined
  <2> QED BY <1>1, <1>4, <2>1, <2>3 DEF InNamed
<1> QED BY <1>2, <1>3, <1>4

\* What was still to write is written, to a file that has a name.
LEMMA CompletePour ==
  ASSUME NEW p, NEW fs \in Seq(Lines), NEW f \in 1..Len(fs), NEW q \in Lines, NEW r \in Lines, NEW ps, NEW m, NEW cr,
         Complete(p, fs, ps, q \o r, m, cr), f \in NamedFiles(ps), NEW u, u = [fs EXCEPT ![f] = @ \o q]
  PROVE  Complete(p, u, ps, r, m, cr)
<1>1. Poured(u, fs, f, q)
  BY PouredIs
<1>2. ASSUME NEW n PROVE IsThere(p, u, ps, r, n) <=> IsThere(p, fs, ps, q \o r, n)
  <2>1. InNamed(p, u, ps, n) <=> InNamed(p, fs, ps, n) \/ (f \in NamedFiles(ps) /\ InQueue(p, q, n))
    BY <1>1, PouredNamed
  <2>2. InQueue(p, q \o r, n) <=> InQueue(p, q, n) \/ InQueue(p, r, n)
    BY QueueSplit
  <2> QED BY <2>1, <2>2 DEF IsThere
<1> QED BY <1>2, SameHas

\* Another process writes.
LEMMA CompleteByOther ==
  ASSUME NEW p, NEW fs \in Seq(Lines), NEW f \in 1..Len(fs), NEW q, NEW r \in Lines, NEW ps, NEW m, NEW cr,
         Complete(p, fs, ps, q, m, cr), \A i \in 1..Len(r) : r[i].by # p, NEW u, u = [fs EXCEPT ![f] = @ \o r]
  PROVE  Complete(p, u, ps, q, m, cr)
<1>1. Poured(u, fs, f, r)
  BY PouredIs
<1>2. ASSUME NEW n PROVE IsThere(p, u, ps, q, n) <=> IsThere(p, fs, ps, q, n)
  <2>1. InNamed(p, u, ps, n) <=> InNamed(p, fs, ps, n) \/ (f \in NamedFiles(ps) /\ InQueue(p, r, n))
    BY <1>1, PouredNamed
  <2>2. ~InQueue(p, r, n)
    BY DEF InQueue, Own
  <2> QED BY <2>1, <2>2 DEF IsThere
<1> QED BY <1>2, SameHas

\* What a killed process had still to write is lost.
LEMMA CompleteLost ==
  ASSUME NEW p, NEW fs, NEW ps, NEW q \in Lines, NEW m, NEW cr, Complete(p, fs, ps, q, m, cr),
         NEW cr2, cr \subseteq cr2, \A i \in 1..Len(q) : q[i] \in cr2
  PROVE  Complete(p, fs, ps, <<>>, m, cr2)
<1>1. Len(<<>>) = 0 /\ 1..0 = {}
  OBVIOUS
<1>2. \A n : ~InQueue(p, <<>>, n)
  BY <1>1 DEF InQueue
<1>3. SUFFICES ASSUME NEW n \in 1..m, NEW k \in 1..m, IsThere(p, fs, ps, <<>>, k), k < n, ~IsThere(p, fs, ps, <<>>, n)
               PROVE  Lost(p, cr2, n)
  BY DEF Complete
<1>4. IsThere(p, fs, ps, q, k)
  BY <1>2, <1>3 DEF IsThere
<1>5. CASE IsThere(p, fs, ps, q, n)
  <2>1. InQueue(p, q, n)
    BY <1>3, <1>5 DEF IsThere
  <2> QED BY <2>1 DEF InQueue, Lost, Own
<1>6. CASE ~IsThere(p, fs, ps, q, n)
  <2>1. Lost(p, cr, n)
    BY <1>3, <1>4, <1>6 DEF Complete
  <2> QED BY <2>1 DEF Lost
<1> QED BY <1>5, <1>6

\* More was lost.
LEMMA CompleteWider ==
  ASSUME NEW p, NEW fs, NEW ps, NEW q, NEW m, NEW cr, Complete(p, fs, ps, q, m, cr), NEW cr2, cr \subseteq cr2
  PROVE  Complete(p, fs, ps, q, m, cr2)
BY DEF Complete, Lost

\* What is said is to be written.
LEMMA CompleteMore ==
  ASSUME NEW p, NEW fs, NEW f, NEW ps, NEW q \in Lines, NEW m, NEW cr, Complete(p, fs, ps, q, m, cr), Told(p, fs, f, q, m),
         NEW r \in Lines, InQueue(p, r, m + 1), Adds(p, r, m + 1)
  PROVE  Complete(p, fs, ps, q \o r, m + 1, cr)
<1>1. m \in Nat /\ QueueOf(p, q, m)
  BY DEF Told
<1>2. SUFFICES ASSUME NEW n \in 1..(m + 1), NEW k \in 1..(m + 1), IsThere(p, fs, ps, q \o r, k), k < n,
                      ~IsThere(p, fs, ps, q \o r, n)
               PROVE  Lost(p, cr, n)
  BY DEF Complete
<1>3. ~IsThere(p, fs, ps, q, n) /\ n # m + 1
  BY <1>2, QueueSplit DEF IsThere
<1>4. n \in 1..m /\ k \in 1..m /\ k # m + 1
  BY <1>1, <1>2, <1>3
<1>5. ~InQueue(p, r, k)
  BY <1>4 DEF InQueue, Adds
<1>6. IsThere(p, fs, ps, q, k)
  BY <1>2, <1>5, QueueSplit DEF IsThere
<1> QED BY <1>2, <1>3, <1>4, <1>6 DEF Complete

\* The file that Path names is opened, or made.
NowOpen(fs, ps, f2, fs2, ps2) ==
  IF ps[0] # 0 THEN f2 = ps[0] /\ fs2 = fs /\ ps2 = ps
  ELSE fs2 = Append(fs, <<>>) /\ f2 = Len(fs) + 1 /\ ps2 = [ps EXCEPT ![0] = Len(fs) + 1]

\* A file is made.
LEMMA NewFile ==
  ASSUME NEW fs \in Seq(Lines), NEW u, u = Append(fs, <<>>)
  PROVE  /\ u \in Seq(Lines) /\ Len(u) = Len(fs) + 1 /\ Len(fs) \in Nat /\ Len(u[Len(fs) + 1]) = 0
         /\ \A g \in 1..Len(fs) : u[g] = fs[g]
<1>1. PICK e : e = <<>>
  OBVIOUS
<1>2. e \in Lines /\ Len(e) = 0
  BY <1>1 DEF Lines
<1>3. u = Append(fs, e)
  BY <1>1
<1> QED BY <1>2, <1>3

\* The names when a file was opened,
LEMMA OpenPaths ==
  ASSUME NEW fs, NEW ps, PathsOk(ps, fs), NEW f2, NEW fs2, NEW ps2, NowOpen(fs, ps, f2, fs2, ps2)
  PROVE  /\ PathsOk(ps2, fs2) /\ f2 = ps2[0] /\ f2 = Len(fs2) /\ f2 \in 1..Len(fs2)
         /\ \A i \in 0..MaxRotate : i # 0 => ps2[i] = ps[i]
<1>1. fs \in Seq(Lines) /\ ps \in [0..MaxRotate -> 0..Len(fs)] /\ Len(fs) \in Nat /\ 0 \in 0..MaxRotate
  BY MaxRotateIs DEF PathsOk
<1>2. CASE ps[0] # 0
  <2>1. f2 = ps[0] /\ fs2 = fs /\ ps2 = ps /\ ps[0] = Len(fs)
    BY <1>2 DEF NowOpen, PathsOk
  <2>2. ps[0] \in 0..Len(fs)
    BY <1>1
  <2>3. f2 \in 1..Len(fs2)
    BY <1>1, <1>2, <2>1, <2>2
  <2> QED BY <2>1, <2>3
<1>3. CASE ps[0] = 0
  <2>1. PICK l : l = Len(fs) + 1
    OBVIOUS
  <2>2. fs2 = Append(fs, <<>>) /\ f2 = l /\ ps2 = [ps EXCEPT ![0] = l]
    BY <1>3, <2>1 DEF NowOpen
  <2>3. fs2 \in Seq(Lines) /\ Len(fs2) = l
    BY <1>1, <2>1, <2>2, NewFile
  <2>4. l \in 0..l /\ l \in 1..l /\ l # 0 /\ l \in Nat /\ \A x \in 0..Len(fs) : x \in 0..l /\ x < l
    BY <1>1, <2>1
  <2>5. ps2 \in [0..MaxRotate -> 0..l]
    BY <1>1, <2>2, <2>4
  <2>6. ps2[0] = l /\ \A i \in 0..MaxRotate : i # 0 => ps2[i] = ps[i]
    BY <1>1, <2>2
  <2>7. ASSUME NEW i \in 0..MaxRotate, NEW j \in 0..MaxRotate, i < j, ps2[i] # 0, ps2[j] # 0 PROVE ps2[j] < ps2[i]
    <3>1. j # 0
      BY <2>7
    <3>2. ps2[j] = ps[j] /\ ps[j] \in 0..Len(fs)
      BY <1>1, <2>6, <3>1
    <3>3. CASE i = 0
      BY <2>4, <2>6, <3>2, <3>3
    <3>4. CASE i # 0
      <4>1. ps2[i] = ps[i]
        BY <2>6, <3>4
      <4> QED BY <2>7, <3>2, <4>1 DEF PathsOk
    <3> QED BY <3>3, <3>4
  <2>8. PathsOk(ps2, fs2)
    BY <2>3, <2>5, <2>6, <2>7 DEF PathsOk
  <2> QED BY <2>2, <2>3, <2>4, <2>6, <2>8
<1> QED BY <1>2, <1>3

\* what is in the files,
LEMMA OpenTold ==
  ASSUME NEW fs, NEW ps, NEW f2, NEW fs2, NEW ps2, NowOpen(fs, ps, f2, fs2, ps2),
         NEW p, NEW f, NEW q, NEW m, Told(p, fs, f, q, m)
  PROVE  Told(p, fs2, f, q, m)
<1>1. CASE ps[0] # 0
  BY <1>1 DEF NowOpen
<1>2. CASE ps[0] = 0
  <2>1. fs2 = Append(fs, <<>>)
    BY <1>2 DEF NowOpen
  <2> QED BY <2>1, ToldNew
<1> QED BY <1>1, <1>2

\* and what is missing.
LEMMA OpenComplete ==
  ASSUME NEW fs, NEW ps, PathsOk(ps, fs), NEW f2, NEW fs2, NEW ps2, NowOpen(fs, ps, f2, fs2, ps2),
         NEW p, NEW q, NEW m, NEW cr, Complete(p, fs, ps, q, m, cr)
  PROVE  Complete(p, fs2, ps2, q, m, cr)
<1>1. CASE ps[0] # 0
  BY <1>1 DEF NowOpen
<1>2. CASE ps[0] = 0
  <2>1. fs \in Seq(Lines) /\ ps \in [0..MaxRotate -> 0..Len(fs)] /\ 0 \in 0..MaxRotate
    BY MaxRotateIs DEF PathsOk
  <2>2. PICK l : l = Len(fs) + 1
    OBVIOUS
  <2>3. fs2 = Append(fs, <<>>) /\ ps2 = [ps EXCEPT ![0] = l]
    BY <1>2, <2>2 DEF NowOpen
  <2>4. /\ Len(fs2) = l /\ Len(fs) \in Nat /\ Len(fs2[l]) = 0
        /\ \A g \in 1..Len(fs) : fs2[g] = fs[g]
    BY <2>1, <2>2, <2>3, NewFile
  <2>5. ps2[0] = l /\ \A i \in 0..MaxRotate : i # 0 => ps2[i] = ps[i]
    BY <2>1, <2>3
  <2>6. l \notin 1..Len(fs) /\ l \notin 0..Len(fs) /\ l # 0 /\ \A g \in 1..Len(fs2) : g = l \/ g \in 1..Len(fs)
    BY <2>2, <2>4
  <2>7. \A g \in 1..Len(fs) : g \in NamedFiles(ps2) <=> g \in NamedFiles(ps)
    <3>1. ASSUME NEW g \in 1..Len(fs), g \in NamedFiles(ps) PROVE g \in NamedFiles(ps2)
      <4>1. PICK i \in 0..MaxRotate : g = ps[i] /\ g # 0
        BY <3>1 DEF NamedFiles
      <4>2. i # 0
        BY <1>2, <4>1
      <4> QED BY <2>5, <4>1, <4>2 DEF NamedFiles
    <3>2. ASSUME NEW g \in 1..Len(fs), g \in NamedFiles(ps2) PROVE g \in NamedFiles(ps)
      <4>1. PICK i \in 0..MaxRotate : g = ps2[i] /\ g # 0
        BY <3>2 DEF NamedFiles
      <4>2. i # 0
        BY <2>5, <2>6, <4>1
      <4> QED BY <2>5, <4>1, <4>2 DEF NamedFiles
    <3> QED BY <3>1, <3>2
  <2>8. ASSUME NEW n PROVE InNamed(p, fs2, ps2, n) <=> InNamed(p, fs, ps, n)
    <3>1. ASSUME InNamed(p, fs2, ps2, n) PROVE InNamed(p, fs, ps, n)
      <4>1. PICK g \in 1..Len(fs2) : g \in NamedFiles(ps2) /\ \E a \in 1..Len(fs2[g]) : Own(p, fs2[g][a]) /\ fs2[g][a].n = n
        BY <3>1 DEF InNamed
      <4>2. g # l
        BY <2>4, <4>1
      <4> QED BY <2>4, <2>6, <2>7, <4>1, <4>2 DEF InNamed
    <3>2. ASSUME InNamed(p, fs, ps, n) PROVE InNamed(p, fs2, ps2, n)
      <4>1. PICK g \in 1..Len(fs) : g \in NamedFiles(ps) /\ \E a \in 1..Len(fs[g]) : Own(p, fs[g][a]) /\ fs[g][a].n = n
        BY <3>2 DEF InNamed
      <4>2. g \in 1..Len(fs2)
        BY <2>2, <2>4
      <4> QED BY <2>4, <2>7, <4>1, <4>2 DEF InNamed
    <3> QED BY <3>1, <3>2
  <2>9. \A n : IsThere(p, fs2, ps2, q, n) <=> IsThere(p, fs, ps, q, n)
    BY <2>8 DEF IsThere
  <2> QED BY <2>9, SameHas
<1> QED BY <1>1, <1>2

-----------------------------------------------------------------------------
\* A file gets the next name, which no file has.
MovedTo(ps, from, to) == IF ps[from] = 0 THEN ps ELSE [ps EXCEPT ![to] = ps[from], ![from] = 0]

\* A file gets the name of an older archive, which no file has.
LEMMA MovedIs ==
  ASSUME NEW fs, NEW ps, PathsOk(ps, fs), NEW k \in 0..MaxRotate, k + 1 \in 0..MaxRotate, ps[k + 1] = 0,
         NEW ps2, ps2 = MovedTo(ps, k, k + 1)
  PROVE  /\ PathsOk(ps2, fs) /\ ps2[k] = 0 /\ NamedFiles(ps2) = NamedFiles(ps)
         /\ (k # 0 => ps2[0] = ps[0])
<1>0. PICK l : l = k + 1
  OBVIOUS
<1>1. /\ fs \in Seq(Lines) /\ ps \in [0..MaxRotate -> 0..Len(fs)] /\ Len(fs) \in Nat /\ 0 \in 0..MaxRotate
      /\ k # l /\ l \in 0..MaxRotate /\ ps[l] = 0 /\ 0 \in 0..Len(fs) /\ l # 0 /\ k \in Nat /\ l \in Nat
  BY <1>0, MaxRotateIs DEF PathsOk
<1>2. CASE ps[k] = 0
  BY <1>2 DEF MovedTo
<1>3. CASE ps[k] # 0
  <2>1. ps2 = [ps EXCEPT ![l] = ps[k], ![k] = 0]
    BY <1>0, <1>3 DEF MovedTo
  <2>2. ps2 \in [0..MaxRotate -> 0..Len(fs)]
    BY <1>1, <2>1
  <2>3. ps2[k] = 0 /\ ps2[l] = ps[k] /\ \A i \in 0..MaxRotate : i # k /\ i # l => ps2[i] = ps[i]
    BY <1>1, <2>1
  <2>4. ps2[0] # 0 => ps2[0] = Len(fs)
    BY <1>1, <2>3 DEF PathsOk
  <2>5. ASSUME NEW i \in 0..MaxRotate, NEW j \in 0..MaxRotate, i < j, ps2[i] # 0, ps2[j] # 0 PROVE ps2[j] < ps2[i]
    <3>1. i # k /\ j # k
      BY <2>3, <2>5
    <3>2. CASE i = l
      <4>1. k < j /\ j # l
        BY <1>0, <2>5, <3>2
      <4>2. ps2[j] = ps[j] /\ ps2[i] = ps[k]
        BY <2>3, <3>1, <3>2, <4>1
      <4> QED BY <1>3, <2>5, <4>1, <4>2 DEF PathsOk
    <3>3. CASE j = l
      <4>1. i < k /\ i # l
        BY <1>0, <2>5, <3>1, <3>3
      <4>2. ps2[i] = ps[i] /\ ps2[j] = ps[k]
        BY <2>3, <3>1, <3>3, <4>1
      <4> QED BY <1>3, <2>5, <4>1, <4>2 DEF PathsOk
    <3>4. CASE i # l /\ j # l
      <4>1. ps2[i] = ps[i] /\ ps2[j] = ps[j]
        BY <2>3, <3>1, <3>4
      <4> QED BY <2>5, <4>1 DEF PathsOk
    <3> QED BY <3>2, <3>3, <3>4
  <2>6. PathsOk(ps2, fs)
    BY <1>1, <2>2, <2>4, <2>5 DEF PathsOk
  <2>7. NamedFiles(ps2) = NamedFiles(ps)
    <3>1. ASSUME NEW g \in NamedFiles(ps) PROVE g \in NamedFiles(ps2)
      <4>1. PICK i \in 0..MaxRotate : g = ps[i] /\ g # 0
        BY <3>1 DEF NamedFiles
      <4>2. i # l
        BY <1>1, <4>1
      <4>3. CASE i = k
        <5>1. g = ps2[l]
          BY <2>3, <4>1, <4>3
        <5> QED BY <1>1, <4>1, <5>1 DEF NamedFiles
      <4>4. CASE i # k
        <5>1. g = ps2[i]
          BY <2>3, <4>1, <4>2, <4>4
        <5> QED BY <4>1, <5>1 DEF NamedFiles
      <4> QED BY <4>3, <4>4
    <3>2. ASSUME NEW g \in NamedFiles(ps2) PROVE g \in NamedFiles(ps)
      <4>1. PICK i \in 0..MaxRotate : g = ps2[i] /\ g # 0
        BY <3>2 DEF NamedFiles
      <4>2. i # k
        BY <2>3, <4>1
      <4>3. CASE i = l
        <5>1. g = ps[k]
          BY <2>3, <4>1, <4>3
        <5> QED BY <4>1, <5>1 DEF NamedFiles
      <4>4. CASE i # l
        <5>1. g = ps[i]
          BY <2>3, <4>1, <4>2, <4>4
        <5> QED BY <4>1, <5>1 DEF NamedFiles
      <4> QED BY <4>3, <4>4
    <3> QED BY <3>1, <3>2
  <2> QED BY <1>1, <2>3, <2>6, <2>7
<1> QED BY <1>2, <1>3

\* The oldest archive goes: what is kept is younger.
LEMMA UnlinkedIs ==
  ASSUME NEW fs, NEW ps, PathsOk(ps, fs), NEW ps2, ps2 = [ps EXCEPT ![MaxRotate] = 0]
  PROVE  /\ PathsOk(ps2, fs) /\ ps2[MaxRotate] = 0 /\ (MaxRotate # 0 => ps2[0] = ps[0])
         /\ \A i \in 0..MaxRotate : i # MaxRotate => ps2[i] = ps[i]
<1>1. /\ fs \in Seq(Lines) /\ ps \in [0..MaxRotate -> 0..Len(fs)] /\ Len(fs) \in Nat /\ 0 \in 0..MaxRotate
      /\ MaxRotate \in 0..MaxRotate /\ 0 \in 0..Len(fs)
  BY MaxRotateIs DEF PathsOk
<1>2. ps2 \in [0..MaxRotate -> 0..Len(fs)] /\ ps2[MaxRotate] = 0 /\ \A i \in 0..MaxRotate : i # MaxRotate => ps2[i] = ps[i]
  BY <1>1
<1>3. ASSUME NEW i \in 0..MaxRotate, NEW j \in 0..MaxRotate, i < j, ps2[i] # 0, ps2[j] # 0 PROVE ps2[j] < ps2[i]
  BY <1>2, <1>3 DEF PathsOk
<1>4. ps2[0] # 0 => ps2[0] = Len(fs)
  BY <1>1, <1>2 DEF PathsOk
<1> QED BY <1>1, <1>2, <1>3, <1>4 DEF PathsOk

\* The oldest file is unlinked: what it had is older than the rest.
LEMMA CompleteUnlinked ==
  ASSUME NEW fs, NEW ps, PathsOk(ps, fs), NEW ps2, ps2 = [ps EXCEPT ![MaxRotate] = 0],
         NEW p, NEW f, NEW q, NEW m, NEW cr, Told(p, fs, f, q, m), Complete(p, fs, ps, q, m, cr)
  PROVE  Complete(p, fs, ps2, q, m, cr)
<1>1. fs \in Seq(Lines) /\ ps \in [0..MaxRotate -> 0..Len(fs)] /\ MaxRotate \in 0..MaxRotate /\ MaxRotate \in Nat
  BY MaxRotateIs DEF PathsOk
<1>2. ps2[MaxRotate] = 0 /\ \A i \in 0..MaxRotate : i # MaxRotate => ps2[i] = ps[i]
  BY <1>1
<1>3. SUFFICES ASSUME NEW n \in 1..m, NEW k \in 1..m, IsThere(p, fs, ps2, q, k), k < n, ~IsThere(p, fs, ps2, q, n)
               PROVE  Lost(p, cr, n)
  BY DEF Complete
<1>4. NamedFiles(ps2) \subseteq NamedFiles(ps)
  BY <1>2 DEF NamedFiles
<1>5. IsThere(p, fs, ps, q, k)
  BY <1>3, <1>4 DEF IsThere, InNamed
<1>6. CASE ~IsThere(p, fs, ps, q, n)
  BY <1>3, <1>5, <1>6 DEF Complete
<1>7. CASE IsThere(p, fs, ps, q, n)
  <2>1. InNamed(p, fs, ps, n) /\ ~InNamed(p, fs, ps2, n) /\ ~InQueue(p, q, n)
    BY <1>3, <1>7 DEF IsThere
  <2>2. PICK g \in 1..Len(fs) : g \in NamedFiles(ps) /\ \E a \in 1..Len(fs[g]) : Own(p, fs[g][a]) /\ fs[g][a].n = n
    BY <2>1 DEF InNamed
  <2>3. PICK a \in 1..Len(fs[g]) : Own(p, fs[g][a]) /\ fs[g][a].n = n
    BY <2>2
  <2>4. g \notin NamedFiles(ps2)
    BY <2>1, <2>2 DEF InNamed
  <2>5. PICK i \in 0..MaxRotate : g = ps[i] /\ g # 0
    BY <2>2 DEF NamedFiles
  <2>6. i = MaxRotate
    BY <1>2, <2>4, <2>5 DEF NamedFiles
  <2>7. CASE InQueue(p, q, k)
    <3>1. PICK j \in 1..Len(q) : Own(p, q[j]) /\ q[j].n = k
      BY <2>7 DEF InQueue
    <3>2. OlderThan(p, fs[g][a], q)
      BY <2>3 DEF Told, InFiles
    <3>3. n < k
      BY <2>3, <3>1, <3>2 DEF OlderThan
    <3> QED BY <1>3, <3>3
  <2>8. CASE InNamed(p, fs, ps2, k)
    <3>1. PICK h \in 1..Len(fs) : h \in NamedFiles(ps2) /\ \E b \in 1..Len(fs[h]) : Own(p, fs[h][b]) /\ fs[h][b].n = k
      BY <2>8 DEF InNamed
    <3>2. PICK b \in 1..Len(fs[h]) : Own(p, fs[h][b]) /\ fs[h][b].n = k
      BY <3>1
    <3>3. PICK j \in 0..MaxRotate : h = ps2[j] /\ h # 0
      BY <3>1 DEF NamedFiles
    <3>4. j # MaxRotate /\ h = ps[j]
      BY <1>2, <3>3
    <3>5. j < MaxRotate
      BY <1>1, <3>4
    <3>6. g < h
      BY <2>5, <2>6, <3>3, <3>4, <3>5 DEF PathsOk
    <3>7. StandsBefore(g, a, h, b)
      BY <3>6 DEF StandsBefore
    <3>8. FilesUp(p, fs)
      BY DEF Told
    <3>9. n < k
      BY <2>3, <3>2, <3>7, <3>8 DEF FilesUp
    <3> QED BY <1>3, <3>9
  <2> QED BY <1>3, <2>7, <2>8 DEF IsThere
<1> QED BY <1>6, <1>7

\* The names are other ones, of the same files.
LEMMA CompleteNamed ==
  ASSUME NEW p, NEW fs, NEW ps, NEW q, NEW m, NEW cr, Complete(p, fs, ps, q, m, cr), NEW ps2, NamedFiles(ps2) = NamedFiles(ps)
  PROVE  Complete(p, fs, ps2, q, m, cr)
<1>1. \A n : IsThere(p, fs, ps2, q, n) <=> IsThere(p, fs, ps, q, n)
  BY DEF IsThere, InNamed
<1> QED BY <1>1, SameHas

\* A process: where its call is, and what is written of what it said.
Ats == {"off", "idle", "check", "rotate", "write"}
Control(p, ps, f, h, w, at, r, fl) ==
  /\ h \in Lines /\ w \in Lines /\ at \in Ats /\ r \in 0..MaxRotate
  /\ at \in {"check", "rotate", "write"} => f # 0
  /\ at \in {"off", "idle"} => w = <<>>
  /\ at = "off" => f = 0
  /\ f = 0 => h = <<>>
  /\ at = "rotate" => p \in Rotators /\ (r < MaxRotate => ps[r + 1] = 0)
  /\ p \in Rotators /\ f # 0 => f = ps[0]
  /\ "flush" \in fl => h = <<>>
Whole(p, fs, ps, h, w, m, cr, fl) == p \in Rotators /\ "repeats" \notin fl => Complete(p, fs, ps, h \o w, m, cr)
Proc(p, fs, ps, f, h, w, at, r, m, cr, fl) ==
  /\ Control(p, ps, f, h, w, at, r, fl)
  /\ Told(p, fs, f, h \o w, m)
  /\ Whole(p, fs, ps, h, w, m, cr, fl)

\* A step of p that leaves the others as they are.
Leaves(p, fs, ps, fs2, ps2) ==
  \A c \in Loggers \ {p} : \A f, h, w, at, r, m, cr, fl :
    Proc(c, fs, ps, f, h, w, at, r, m, cr, fl) => Proc(c, fs2, ps2, f, h, w, at, r, m, cr, fl)

\* One step after the other.
LEMMA LeavesOn ==
  ASSUME NEW p, NEW fs, NEW ps, NEW fs2, NEW ps2, NEW fs3, NEW ps3, Leaves(p, fs, ps, fs2, ps2), Leaves(p, fs2, ps2, fs3, ps3)
  PROVE  Leaves(p, fs, ps, fs3, ps3)
BY DEF Leaves

\* What a process writes is its own.
LEMMA PourLeaves ==
  ASSUME NEW p, NEW fs \in Seq(Lines), NEW ps, NEW g \in 1..Len(fs), NEW q \in Lines, \A i \in 1..Len(q) : q[i].by = p,
         NEW u, u = [fs EXCEPT ![g] = @ \o q]
  PROVE  Leaves(p, fs, ps, u, ps)
<1>1. SUFFICES ASSUME NEW c \in Loggers \ {p}, NEW f, NEW h, NEW w, NEW at, NEW r, NEW m, NEW cr, NEW fl,
                      Proc(c, fs, ps, f, h, w, at, r, m, cr, fl)
               PROVE  Proc(c, u, ps, f, h, w, at, r, m, cr, fl)
  BY DEF Leaves
<1>2. \A i \in 1..Len(q) : q[i].by # c
  OBVIOUS
<1>3. Told(c, u, f, h \o w, m)
  BY <1>1, <1>2, ToldByOther DEF Proc
<1>4. Whole(c, u, ps, h, w, m, cr, fl)
  <2>1. SUFFICES ASSUME c \in Rotators, "repeats" \notin fl PROVE Complete(c, u, ps, h \o w, m, cr)
    BY DEF Whole
  <2>2. Complete(c, fs, ps, h \o w, m, cr)
    BY <1>1, <2>1 DEF Proc, Whole
  <2> QED BY <1>2, <2>2, CompleteByOther
<1> QED BY <1>1, <1>3, <1>4 DEF Proc

\* A file was opened: the control of a process,
LEMMA OpenControl ==
  ASSUME NEW fs, NEW ps, PathsOk(ps, fs), NEW f2, NEW fs2, NEW ps2, NowOpen(fs, ps, f2, fs2, ps2),
         NEW p, NEW f, NEW h, NEW w, NEW at, NEW r, NEW fl, Control(p, ps, f, h, w, at, r, fl)
  PROVE  Control(p, ps2, f, h, w, at, r, fl)
<1>1. ASSUME at = "rotate", r < MaxRotate PROVE ps2[r + 1] = 0
  <2>1. r \in 0..MaxRotate /\ ps[r + 1] = 0
    BY <1>1 DEF Control
  <2>2. r + 1 \in 0..MaxRotate /\ r + 1 # 0
    BY <1>1, <2>1, MaxRotateIs
  <2> QED BY <2>1, <2>2, OpenPaths
<1>2. ASSUME p \in Rotators, f # 0 PROVE f = ps2[0]
  <2>1. f = ps[0] /\ ps[0] # 0
    BY <1>2 DEF Control
  <2> QED BY <2>1 DEF NowOpen
<1> QED BY <1>1, <1>2 DEF Control

\* and all that is known of it.
LEMMA OpenLeaves ==
  ASSUME NEW fs, NEW ps, PathsOk(ps, fs), NEW f2, NEW fs2, NEW ps2, NowOpen(fs, ps, f2, fs2, ps2), NEW p
  PROVE  Leaves(p, fs, ps, fs2, ps2)
<1>1. SUFFICES ASSUME NEW c \in Loggers \ {p}, NEW f, NEW h, NEW w, NEW at, NEW r, NEW m, NEW cr, NEW fl,
                      Proc(c, fs, ps, f, h, w, at, r, m, cr, fl)
               PROVE  Proc(c, fs2, ps2, f, h, w, at, r, m, cr, fl)
  BY DEF Leaves
<1>2. Control(c, ps2, f, h, w, at, r, fl)
  BY <1>1, OpenControl DEF Proc
<1>3. Told(c, fs2, f, h \o w, m)
  BY <1>1, OpenTold DEF Proc
<1>4. Whole(c, fs2, ps2, h, w, m, cr, fl)
  <2>1. SUFFICES ASSUME c \in Rotators, "repeats" \notin fl PROVE Complete(c, fs2, ps2, h \o w, m, cr)
    BY DEF Whole
  <2>2. Complete(c, fs, ps, h \o w, m, cr)
    BY <1>1, <2>1 DEF Proc, Whole
  <2> QED BY <2>2, OpenComplete
<1> QED BY <1>2, <1>3, <1>4 DEF Proc

\* Names are of interest to the one that rotates alone.
LEMMA NamesLeave ==
  ASSUME NEW fs, NEW ps, NEW ps2, NEW p \in Rotators
  PROVE  Leaves(p, fs, ps, fs, ps2)
<1>1. SUFFICES ASSUME NEW c \in Loggers \ {p}, NEW f, NEW h, NEW w, NEW at, NEW r, NEW m, NEW cr, NEW fl,
                      Proc(c, fs, ps, f, h, w, at, r, m, cr, fl)
               PROVE  Proc(c, fs, ps2, f, h, w, at, r, m, cr, fl)
  BY DEF Leaves
<1>2. c \notin Rotators
  BY LogAssumption
<1> QED BY <1>1, <1>2 DEF Proc, Control, Whole

\* More was lost.
LEMMA WiderIs ==
  ASSUME NEW p, NEW fs, NEW ps, NEW f, NEW h, NEW w, NEW at, NEW r, NEW m, NEW cr, NEW fl,
         Proc(p, fs, ps, f, h, w, at, r, m, cr, fl), NEW cr2, cr \subseteq cr2
  PROVE  Proc(p, fs, ps, f, h, w, at, r, m, cr2, fl)
<1>1. Whole(p, fs, ps, h, w, m, cr2, fl)
  BY CompleteWider DEF Proc, Whole
<1> QED BY <1>1 DEF Proc

-----------------------------------------------------------------------------
LogTypes ==
  /\ logFile \in [Loggers -> Nat] /\ held \in [Loggers -> Lines] /\ toWrite \in [Loggers -> Lines]
  /\ logAt \in [Loggers -> Ats] /\ rung \in [Loggers -> 0..MaxRotate] /\ repeated \in [Loggers -> Nat]
  /\ said \in [Loggers -> Seq(Texts)]
ProcNow(p) ==
  Proc(p, files, paths, logFile[p], held[p], toWrite[p], logAt[p], rung[p], Len(said[p]), crashed, logFlags)
LogInv == LogTypes /\ PathsOk(paths, files) /\ \A p \in Loggers : ProcNow(p)

\* A step of one process.
Same(c) ==
  /\ logFile'[c] = logFile[c] /\ held'[c] = held[c] /\ toWrite'[c] = toWrite[c] /\ logAt'[c] = logAt[c]
  /\ rung'[c] = rung[c] /\ said'[c] = said[c]

\* What one process does keeps the invariant when it keeps what is known of that process.
LEMMA StepOf ==
  ASSUME LogInv, LogTypes', PathsOk(paths, files)', NEW p \in Loggers, ProcNow(p)',
         Leaves(p, files, paths, files', paths'), \A c \in Loggers \ {p} : Same(c),
         crashed \subseteq crashed', logFlags' = logFlags
  PROVE  LogInv'
<1>1. ASSUME NEW c \in Loggers, c # p PROVE ProcNow(c)'
  <2>1. Proc(c, files, paths, logFile[c], held[c], toWrite[c], logAt[c], rung[c], Len(said[c]), crashed, logFlags)
    BY DEF LogInv, ProcNow
  <2>2. Proc(c, files', paths', logFile[c], held[c], toWrite[c], logAt[c], rung[c], Len(said[c]), crashed, logFlags)
    BY <1>1, <2>1 DEF Leaves
  <2>3. Proc(c, files', paths', logFile[c], held[c], toWrite[c], logAt[c], rung[c], Len(said[c]), crashed', logFlags)
    BY <2>2, WiderIs
  <2>4. Same(c)
    BY <1>1
  <2> QED BY <2>3, <2>4 DEF ProcNow, Same
<1> QED BY <1>1 DEF LogInv

\* The empty queue.
LEMMA NothingBefore == ASSUME NEW q \in Lines PROVE <<>> \o q = q /\ q \o <<>> = q /\ <<>> \in Lines
BY ConcatEmptySeq, EmptySeq DEF Lines

\* Of what p has still to write, the first part is written to its file.
PoursIn(p, fs, ps, f, r, m, cr, fl, u) ==
  /\ PathsOk(ps, u) /\ Len(u) = Len(fs) /\ u \in Seq(Lines)
  /\ Told(p, u, f, r, m) /\ Whole(p, u, ps, <<>>, r, m, cr, fl)
  /\ Leaves(p, fs, ps, u, ps)
Owes(p, fs, ps, f, q, m, cr, fl) ==
  /\ Told(p, fs, f, q, m) /\ (p \in Rotators /\ "repeats" \notin fl => Complete(p, fs, ps, q, m, cr))
  /\ f # 0 /\ (p \in Rotators => f = ps[0])

\* That keeps what is known.
LEMMA PourDone ==
  ASSUME NEW p, NEW fs, NEW ps, PathsOk(ps, fs), NEW f, NEW q \in Lines, NEW r \in Lines, NEW m, NEW cr, NEW fl,
         Owes(p, fs, ps, f, q \o r, m, cr, fl), NEW u, u = [fs EXCEPT ![f] = @ \o q]
  PROVE  PoursIn(p, fs, ps, f, r, m, cr, fl, u)
<1>1. fs \in Seq(Lines) /\ f \in 1..Len(fs) /\ Len(fs) \in Nat
  BY FileIs DEF Owes, Told
<1>2. Poured(u, fs, f, q)
  BY <1>1, PouredIs
<1>3. PathsOk(ps, u) /\ Len(u) = Len(fs) /\ u \in Seq(Lines)
  BY <1>2 DEF PathsOk, Poured
<1>4. Told(p, u, f, r, m)
  BY ToldPour DEF Owes
<1>5. Whole(p, u, ps, <<>>, r, m, cr, fl)
  <2>1. SUFFICES ASSUME p \in Rotators, "repeats" \notin fl PROVE Complete(p, u, ps, r, m, cr)
    BY NothingBefore DEF Whole
  <2>2. f \in NamedFiles(ps)
    BY <1>1, <2>1, MaxRotateIs DEF Owes, NamedFiles
  <2>3. Complete(p, fs, ps, q \o r, m, cr)
    BY <2>1 DEF Owes
  <2> QED BY <1>1, <2>2, <2>3, CompletePour
<1>6. \A i \in 1..Len(q) : q[i].by = p
  <2>1. QueueOf(p, q \o r, m)
    BY DEF Owes, Told
  <2>2. Joined(q \o r, q, r)
    BY JoinedIs
  <2>3. SUFFICES ASSUME NEW i \in 1..Len(q) PROVE q[i].by = p
    OBVIOUS
  <2>4. i \in 1..Len(q \o r) /\ (q \o r)[i] = q[i]
    BY <2>2 DEF Joined
  <2> QED BY <2>1, <2>4 DEF QueueOf
<1>7. Leaves(p, fs, ps, u, ps)
  BY <1>1, <1>6, PourLeaves
<1> QED BY <1>3, <1>4, <1>5, <1>7 DEF PoursIn

\* So it is with a process that has a file.
LEMMA CarriesIs ==
  ASSUME NEW p, NEW fs, NEW ps, NEW f, NEW h, NEW w, NEW at, NEW r, NEW m, NEW cr, NEW fl,
         Proc(p, fs, ps, f, h, w, at, r, m, cr, fl), f # 0
  PROVE  Owes(p, fs, ps, f, h \o w, m, cr, fl) /\ h \in Lines /\ w \in Lines
BY DEF Proc, Control, Whole, Owes

\* The file is opened for p.
LEMMA OpenDone ==
  ASSUME NEW fs, NEW ps, PathsOk(ps, fs), NEW f2, NEW fs2, NEW ps2, NowOpen(fs, ps, f2, fs2, ps2),
         NEW p, NEW f, NEW w \in Lines, NEW m, NEW cr, NEW fl, Told(p, fs, f, w, m), Whole(p, fs, ps, <<>>, w, m, cr, fl)
  PROVE  Told(p, fs2, f2, w, m) /\ Whole(p, fs2, ps2, <<>>, w, m, cr, fl)
<1>1. Told(p, fs2, f, w, m)
  BY OpenTold
<1>2. f2 = Len(fs2)
  BY OpenPaths
<1>3. Told(p, fs2, f2, w, m)
  BY <1>1, <1>2, ToldAt
<1>4. Whole(p, fs2, ps2, <<>>, w, m, cr, fl)
  <2>1. SUFFICES ASSUME p \in Rotators, "repeats" \notin fl PROVE Complete(p, fs2, ps2, w, m, cr)
    BY NothingBefore DEF Whole
  <2>2. Complete(p, fs, ps, w, m, cr)
    BY <2>1, NothingBefore DEF Whole
  <2> QED BY <2>2, OpenComplete
<1> QED BY <1>3, <1>4

\* Nothing is done.
LEMMA LeavesAsIs == ASSUME NEW p, NEW fs, NEW ps PROVE Leaves(p, fs, ps, fs, ps)
BY DEF Leaves

\* A call looks for the size of its file.
LEMMA KeepsCheckRotate ==
  ASSUME LogInv, NEW p \in Loggers, CheckRotate(p) PROVE LogInv'
<1>1. LogTypes /\ PathsOk(paths, files) /\ ProcNow(p)
  BY DEF LogInv
<1>2. LogTypes' /\ (\A c \in Loggers \ {p} : Same(c))
  <2>1. logAt' \in [Loggers -> Ats] /\ \A c \in Loggers \ {p} : logAt'[c] = logAt[c]
    BY <1>1 DEF LogTypes, CheckRotate, Goes, Ats
  <2>2. rung' \in [Loggers -> 0..MaxRotate] /\ \A c \in Loggers \ {p} : rung'[c] = rung[c]
    <3>1. rung' = rung \/ rung' = [rung EXCEPT ![p] = MaxRotate]
      BY DEF CheckRotate
    <3>2. MaxRotate \in 0..MaxRotate
      BY MaxRotateIs
    <3> QED BY <1>1, <3>1, <3>2 DEF LogTypes
  <2> QED BY <1>1, <2>1, <2>2 DEF LogTypes, CheckRotate, SaidSame, Same
<1>3. PathsOk(paths, files)' /\ crashed' = crashed /\ logFlags' = logFlags /\ files' = files /\ paths' = paths
  BY <1>1 DEF CheckRotate, SaidSame
<1>4. ProcNow(p)'
  <2>1. logFile'[p] = logFile[p] /\ held'[p] = held[p] /\ toWrite'[p] = toWrite[p] /\ said'[p] = said[p]
    BY DEF CheckRotate, SaidSame
  <2>2. \/ p \in Rotators /\ logAt'[p] = "rotate" /\ rung'[p] = MaxRotate
        \/ logAt'[p] = "write" /\ rung'[p] = rung[p]
    BY <1>1 DEF CheckRotate, Goes, TooBig, LogTypes
  <2>3. logFile[p] # 0
    BY DEF CheckRotate
  <2>4. Control(p, paths, logFile[p], held[p], toWrite[p], logAt[p], rung[p], logFlags)
    BY <1>1 DEF ProcNow, Proc
  <2>5. Control(p, paths', logFile'[p], held'[p], toWrite'[p], logAt'[p], rung'[p], logFlags')
    BY <1>3, <2>1, <2>2, <2>3, <2>4, MaxRotateIs DEF Control, Ats
  <2> QED BY <1>1, <1>3, <2>1, <2>5 DEF ProcNow, Proc, Whole
<1>5. Leaves(p, files, paths, files', paths')
  BY <1>3, LeavesAsIs
<1> QED BY <1>2, <1>3, <1>4, <1>5, StepOf

\* A program asks for that.
LEMMA KeepsLogFileCheckRotate ==
  ASSUME LogInv, NEW p \in Loggers, LogFileCheckRotate(p) PROVE LogInv'
<1>1. LogTypes /\ PathsOk(paths, files) /\ ProcNow(p)
  BY DEF LogInv
<1>2. LogTypes' /\ (\A c \in Loggers \ {p} : Same(c))
  BY <1>1 DEF LogTypes, LogFileCheckRotate, SaidSame, Same, Goes, Ats
<1>3. PathsOk(paths, files)' /\ crashed' = crashed /\ logFlags' = logFlags /\ files' = files /\ paths' = paths
  BY <1>1 DEF LogFileCheckRotate, SaidSame
<1>4. ProcNow(p)'
  <2>1. /\ logFile'[p] = logFile[p] /\ held'[p] = held[p] /\ toWrite'[p] = toWrite[p] /\ said'[p] = said[p]
        /\ logAt'[p] = "check" /\ rung'[p] = rung[p] /\ logFile[p] # 0
    BY <1>1 DEF LogFileCheckRotate, SaidSame, Goes, LogTypes
  <2>2. Control(p, paths, logFile[p], held[p], toWrite[p], logAt[p], rung[p], logFlags)
    BY <1>1 DEF ProcNow, Proc
  <2>3. Control(p, paths', logFile'[p], held'[p], toWrite'[p], logAt'[p], rung'[p], logFlags')
    BY <1>3, <2>1, <2>2 DEF Control, Ats
  <2> QED BY <1>1, <1>3, <2>1, <2>3 DEF ProcNow, Proc, Whole
<1>5. Leaves(p, files, paths, files', paths')
  BY <1>3, LeavesAsIs
<1> QED BY <1>2, <1>3, <1>4, <1>5, StepOf

\* The parent is started again.
LEMMA KeepsRestart ==
  ASSUME LogInv, NEW p \in Loggers, Restart(p) PROVE LogInv'
<1>1. LogTypes /\ PathsOk(paths, files) /\ ProcNow(p)
  BY DEF LogInv
<1>2. LogTypes' /\ (\A c \in Loggers \ {p} : Same(c))
  BY <1>1 DEF LogTypes, Restart, SaidSame, Same, Goes, Ats
<1>3. PathsOk(paths, files)' /\ crashed' = crashed /\ logFlags' = logFlags /\ files' = files /\ paths' = paths
  BY <1>1 DEF Restart, SaidSame
<1>4. ProcNow(p)'
  <2>1. /\ logFile'[p] = logFile[p] /\ held'[p] = held[p] /\ toWrite'[p] = toWrite[p] /\ said'[p] = said[p]
        /\ logAt'[p] = "idle" /\ rung'[p] = rung[p] /\ logAt[p] = "off"
    BY <1>1 DEF Restart, SaidSame, Goes, LogTypes, Running
  <2>2. Control(p, paths, logFile[p], held[p], toWrite[p], logAt[p], rung[p], logFlags)
    BY <1>1 DEF ProcNow, Proc
  <2>3. Control(p, paths', logFile'[p], held'[p], toWrite'[p], logAt'[p], rung'[p], logFlags')
    BY <1>3, <2>1, <2>2 DEF Control, Ats
  <2> QED BY <1>1, <1>3, <2>1, <2>3 DEF ProcNow, Proc, Whole
<1>5. Leaves(p, files, paths, files', paths')
  BY <1>3, LeavesAsIs
<1> QED BY <1>2, <1>3, <1>4, <1>5, StepOf

\* A process is killed.
LEMMA KeepsKill ==
  ASSUME LogInv, NEW p \in Loggers, Kill(p) PROVE LogInv'
<1>1. LogTypes /\ PathsOk(paths, files) /\ ProcNow(p)
  BY DEF LogInv
<1>2. LogTypes' /\ (\A c \in Loggers \ {p} : Same(c))
  BY <1>1, EmptySeq DEF LogTypes, Kill, Same, Goes, Ats, Lines
<1>3. PathsOk(paths, files)' /\ crashed \subseteq crashed' /\ logFlags' = logFlags /\ files' = files /\ paths' = paths
  BY <1>1 DEF Kill
<1>4. ProcNow(p)'
  <2>1. /\ logFile'[p] = 0 /\ held'[p] = <<>> /\ toWrite'[p] = <<>> /\ said'[p] = said[p]
        /\ logAt'[p] = "off" /\ rung'[p] = rung[p]
    BY <1>1 DEF Kill, Goes, LogTypes
  <2>2. Control(p, paths, logFile[p], held[p], toWrite[p], logAt[p], rung[p], logFlags)
    BY <1>1 DEF ProcNow, Proc
  <2>3. Control(p, paths, 0, <<>>, <<>>, "off", rung[p], logFlags)
    BY <2>2, NothingBefore DEF Control, Ats
  <2> DEFINE q == held[p] \o toWrite[p]
  <2>4. q \in Lines /\ <<>> \in Lines /\ <<>> \o <<>> = <<>>
    BY <2>2, JoinedIs, NothingBefore DEF Control, Joined
  <2>5. Told(p, files, logFile[p], q, Len(said[p]))
    BY <1>1 DEF ProcNow, Proc
  <2>6. \A i \in 1..Len(q) : q[i] \in crashed'
    <3>1. SUFFICES ASSUME NEW i \in 1..Len(q) PROVE q[i] \in crashed'
      OBVIOUS
    <3>2. i \in DOMAIN q /\ DOMAIN q = 1..Len(q)
      <4>1. q \in Seq(Entries)
        BY <2>4 DEF Lines
      <4> QED BY <4>1, LenProperties
    <3>3. q[i] \in Range(q)
      BY <3>2 DEF Range
    <3> QED BY <3>3 DEF Kill
  <2> HIDE DEF q
  <2>7. Told(p, files, 0, <<>>, Len(said[p]))
    <3>1. Told(p, files, 0, q, Len(said[p]))
      BY <2>5, ToldAt
    <3> QED BY <3>1, ToldLost
  <2>8. Whole(p, files, paths, <<>>, <<>>, Len(said[p]), crashed', logFlags)
    <3>1. SUFFICES ASSUME p \in Rotators, "repeats" \notin logFlags
                   PROVE  Complete(p, files, paths, <<>>, Len(said[p]), crashed')
      BY <2>4 DEF Whole
    <3>2. Complete(p, files, paths, q, Len(said[p]), crashed)
      BY <1>1, <3>1 DEF ProcNow, Proc, Whole, q
    <3> QED BY <1>3, <2>4, <2>6, <3>2, CompleteLost
  <2> QED BY <1>3, <2>1, <2>3, <2>4, <2>7, <2>8 DEF ProcNow, Proc
<1>5. Leaves(p, files, paths, files', paths')
  BY <1>3, LeavesAsIs
<1> QED BY <1>2, <1>3, <1>4, <1>5, StepOf

\* An archive is unlinked, or gets its next name.
LEMMA KeepsRotateOne ==
  ASSUME LogInv, NEW p \in Loggers, RotateOne(p) PROVE LogInv'
<1> DEFINE k == rung[p]
<1>1. LogTypes /\ PathsOk(paths, files) /\ ProcNow(p)
  BY DEF LogInv
<1>2. Control(p, paths, logFile[p], held[p], toWrite[p], logAt[p], k, logFlags)
  BY <1>1 DEF ProcNow, Proc
<1>3. p \in Rotators /\ logAt[p] = "rotate" /\ k \in 0..MaxRotate /\ k > 0 /\ (k < MaxRotate => paths[k + 1] = 0)
  BY <1>2 DEF Control, RotateOne
<1>4. k - 1 \in 0..MaxRotate /\ (k - 1) + 1 = k /\ MaxRotate # 0 /\ k # 0
  BY <1>3, MaxRotateIs
<1>5. Told(p, files, logFile[p], held[p] \o toWrite[p], Len(said[p]))
  BY <1>1 DEF ProcNow, Proc
<1>6. Whole(p, files, paths, held[p], toWrite[p], Len(said[p]), crashed, logFlags)
  BY <1>1 DEF ProcNow, Proc
<1>7. PathsOk(paths', files) /\ paths'[k] = 0 /\ paths'[0] = paths[0]
      /\ Whole(p, files, paths', held[p], toWrite[p], Len(said[p]), crashed, logFlags)
  <2>1. CASE k = MaxRotate
    <3>1. paths' = [paths EXCEPT ![MaxRotate] = 0]
      BY <2>1 DEF RotateOne
    <3>2. PathsOk(paths', files) /\ paths'[k] = 0 /\ paths'[0] = paths[0]
      <4>1. PathsOk(paths', files) /\ paths'[MaxRotate] = 0 /\ (MaxRotate # 0 => paths'[0] = paths[0])
        BY <1>1, <3>1, UnlinkedIs
      <4> QED BY <1>4, <2>1, <4>1
    <3>3. ASSUME p \in Rotators, "repeats" \notin logFlags
          PROVE  Complete(p, files, paths', held[p] \o toWrite[p], Len(said[p]), crashed)
      <4>1. Complete(p, files, paths, held[p] \o toWrite[p], Len(said[p]), crashed)
        BY <1>6, <3>3 DEF Whole
      <4> QED BY <1>1, <1>5, <3>1, <4>1, CompleteUnlinked
    <3> QED BY <3>2, <3>3 DEF Whole
  <2>2. CASE k < MaxRotate
    <3>1. paths' = MovedTo(paths, k, k + 1)
      BY <2>2, MaxRotateIs, <1>3 DEF RotateOne, Moved, MovedTo
    <3>2. k + 1 \in 0..MaxRotate /\ paths[k + 1] = 0
      BY <1>3, <2>2, MaxRotateIs
    <3>3. PathsOk(paths', files) /\ paths'[k] = 0 /\ paths'[0] = paths[0] /\ NamedFiles(paths') = NamedFiles(paths)
      BY <1>1, <1>3, <1>4, <3>1, <3>2, MovedIs
    <3>4. ASSUME p \in Rotators, "repeats" \notin logFlags
          PROVE  Complete(p, files, paths', held[p] \o toWrite[p], Len(said[p]), crashed)
      <4>1. Complete(p, files, paths, held[p] \o toWrite[p], Len(said[p]), crashed)
        BY <1>6, <3>4 DEF Whole
      <4> QED BY <3>3, <4>1, CompleteNamed
    <3> QED BY <3>3, <3>4 DEF Whole
  <2>3. k = MaxRotate \/ k < MaxRotate
    BY <1>3, MaxRotateIs
  <2> QED BY <2>1, <2>2, <2>3
<1>8. LogTypes' /\ (\A c \in Loggers \ {p} : Same(c)) /\ rung'[p] = k - 1
  <2>1. rung' = [rung EXCEPT ![p] = k - 1]
    BY DEF RotateOne
  <2> HIDE DEF k
  <2> QED BY <1>1, <1>4, <2>1 DEF LogTypes, RotateOne, SaidSame, Same
<1> HIDE DEF k
<1>9. /\ crashed' = crashed /\ logFlags' = logFlags /\ files' = files /\ logFile' = logFile /\ held' = held
      /\ toWrite' = toWrite /\ logAt' = logAt /\ said' = said
  BY DEF RotateOne, SaidSame
<1>10. Control(p, paths', logFile[p], held[p], toWrite[p], logAt[p], k - 1, logFlags)
  BY <1>2, <1>4, <1>7 DEF Control
<1>11. ProcNow(p)'
  BY <1>5, <1>7, <1>8, <1>9, <1>10 DEF ProcNow, Proc
<1>12. Leaves(p, files, paths, files', paths')
  BY <1>3, <1>9, NamesLeave
<1>13. PathsOk(paths, files)'
  BY <1>7, <1>9
<1>14. crashed \subseteq crashed'
  BY <1>9
<1> QED BY <1>8, <1>9, <1>11, <1>12, <1>13, <1>14, StepOf

\* LogFileOpen opens the file at Path.
OpensAs(p, fs, ps, f2) ==
  /\ NowOpen(fs, ps, f2, files', paths') /\ f2 \in Nat /\ f2 # 0 /\ f2 = paths'[0] /\ PathsOk(paths', files')
  /\ logFile' = [logFile EXCEPT ![p] = f2] /\ held' = [held EXCEPT ![p] = <<>>]

\* That keeps the names as they should be.
LEMMA OpensIt ==
  ASSUME NEW p \in Loggers, NEW fs, NEW ps, PathsOk(ps, fs), Opens(p, fs, ps)
  PROVE  \E f2 : OpensAs(p, fs, ps, f2)
<1>1. PICK f2 : f2 = IF ps[0] # 0 THEN ps[0] ELSE Len(fs) + 1
  OBVIOUS
<1>2. NowOpen(fs, ps, f2, files', paths') /\ logFile' = [logFile EXCEPT ![p] = f2] /\ held' = [held EXCEPT ![p] = <<>>]
  BY <1>1 DEF Opens, NowOpen
<1>3. PathsOk(paths', files') /\ f2 = paths'[0] /\ f2 \in 1..Len(files') /\ f2 = Len(files')
  BY <1>2, OpenPaths
<1>4. files' \in Seq(Lines)
  BY <1>3 DEF PathsOk
<1>5. Len(files') \in Nat
  BY <1>4, LenProperties
<1>6. f2 \in Nat /\ f2 # 0
  BY <1>3, <1>5
<1> QED BY <1>2, <1>3, <1>6 DEF OpensAs

\* A step of p that changes the file its stream has, with an empty buffer after it.
Settled(p, fs, ps, f, at, r, fl) ==
  /\ at \in Ats /\ r \in 0..MaxRotate /\ at # "rotate" /\ at # "off"
  /\ (at \in {"check", "write"} => f # 0)
  /\ (p \in Rotators /\ f # 0 => f = ps[0])

\* All is known of the process then.
LEMMA SettledIs ==
  ASSUME NEW p, NEW fs, NEW ps, NEW f, NEW w \in Lines, NEW at, NEW r, NEW m, NEW cr, NEW fl,
         Settled(p, fs, ps, f, at, r, fl), at = "idle" => w = <<>>, Told(p, fs, f, w, m), Whole(p, fs, ps, <<>>, w, m, cr, fl)
  PROVE  Proc(p, fs, ps, f, <<>>, w, at, r, m, cr, fl)
<1>1. <<>> \in Lines /\ <<>> \o w = w
  BY NothingBefore
<1>2. Control(p, ps, f, <<>>, w, at, r, fl)
  BY <1>1 DEF Settled, Control
<1> QED BY <1>1, <1>2 DEF Proc

\* The file itself is archived, and opened anew.
LEMMA KeepsRotateLive ==
  ASSUME LogInv, NEW p \in Loggers, RotateLive(p) PROVE LogInv'
<1>1. LogTypes /\ PathsOk(paths, files) /\ ProcNow(p)
  BY DEF LogInv
<1>2. Proc(p, files, paths, logFile[p], held[p], toWrite[p], logAt[p], rung[p], Len(said[p]), crashed, logFlags)
  BY <1>1 DEF ProcNow
<1>3. Control(p, paths, logFile[p], held[p], toWrite[p], logAt[p], rung[p], logFlags)
  BY <1>2 DEF Proc
<1>4. /\ p \in Rotators /\ logFile[p] # 0 /\ logFile[p] = paths[0] /\ rung[p] = 0
      /\ (0 < MaxRotate => paths[0 + 1] = 0)
  BY <1>3 DEF Control, RotateLive
<1>5. PICK u : u = [files EXCEPT ![logFile[p]] = @ \o held[p]]
  OBVIOUS
<1>6. PICK ps : ps = IF MaxRotate > 0 THEN Moved(0, 1) ELSE paths
  OBVIOUS
<1>7. Owes(p, files, paths, logFile[p], held[p] \o toWrite[p], Len(said[p]), crashed, logFlags)
      /\ held[p] \in Lines /\ toWrite[p] \in Lines
  BY <1>2, <1>4, CarriesIs
<1>8. PoursIn(p, files, paths, logFile[p], toWrite[p], Len(said[p]), crashed, logFlags, u)
  BY <1>1, <1>5, <1>7, PourDone
<1>9. /\ PathsOk(paths, u) /\ Told(p, u, logFile[p], toWrite[p], Len(said[p]))
      /\ Whole(p, u, paths, <<>>, toWrite[p], Len(said[p]), crashed, logFlags) /\ Leaves(p, files, paths, u, paths)
  BY <1>8 DEF PoursIn
<1>10. PathsOk(ps, u) /\ Whole(p, u, ps, <<>>, toWrite[p], Len(said[p]), crashed, logFlags)
  <2>1. CASE MaxRotate > 0
    <3>1. ps = MovedTo(paths, 0, 0 + 1)
      BY <1>6, <2>1 DEF Moved, MovedTo
    <3>2. 0 \in 0..MaxRotate /\ 0 + 1 \in 0..MaxRotate /\ paths[0 + 1] = 0
      BY <1>4, <2>1, MaxRotateIs
    <3>3. PathsOk(ps, u) /\ NamedFiles(ps) = NamedFiles(paths)
      BY <1>9, <3>1, <3>2, MovedIs
    <3>4. ASSUME p \in Rotators, "repeats" \notin logFlags
          PROVE  Complete(p, u, ps, <<>> \o toWrite[p], Len(said[p]), crashed)
      <4>1. Complete(p, u, paths, <<>> \o toWrite[p], Len(said[p]), crashed)
        BY <1>9, <3>4 DEF Whole
      <4> QED BY <3>3, <4>1, CompleteNamed
    <3> QED BY <3>3, <3>4 DEF Whole
  <2>2. CASE ~(MaxRotate > 0)
    BY <1>6, <1>9, <2>2
  <2> QED BY <2>1, <2>2
<1>11. Leaves(p, files, paths, u, ps)
  <2>1. Leaves(p, u, paths, u, ps)
    BY <1>4, NamesLeave
  <2> QED BY <1>9, <2>1, LeavesOn
<1>12. Opens(p, u, ps)
  BY <1>5, <1>6 DEF RotateLive, Flushed
<1>13. PICK f2 : OpensAs(p, u, ps, f2)
  BY <1>10, <1>12, OpensIt
<1>14. NowOpen(u, ps, f2, files', paths') /\ f2 \in Nat /\ f2 # 0 /\ f2 = paths'[0]
  BY <1>13 DEF OpensAs
<1>15. Leaves(p, u, ps, files', paths')
  BY <1>10, <1>14, OpenLeaves
<1>16. Leaves(p, files, paths, files', paths')
  BY <1>11, <1>15, LeavesOn
<1>17. /\ Told(p, files', f2, toWrite[p], Len(said[p]))
       /\ Whole(p, files', paths', <<>>, toWrite[p], Len(said[p]), crashed, logFlags)
  BY <1>7, <1>9, <1>10, <1>14, OpenDone
<1>18. Settled(p, files', paths', f2, "write", rung[p], logFlags)
  BY <1>4, <1>14, MaxRotateIs DEF Settled, Ats
<1>19. Proc(p, files', paths', f2, <<>>, toWrite[p], "write", rung[p], Len(said[p]), crashed, logFlags)
  BY <1>7, <1>17, <1>18, SettledIs
<1>20. LogTypes' /\ (\A c \in Loggers \ {p} : Same(c)) /\ logFile'[p] = f2 /\ held'[p] = <<>> /\ logAt'[p] = "write"
  <2>1. logFile' = [logFile EXCEPT ![p] = f2] /\ held' = [held EXCEPT ![p] = <<>>] /\ <<>> \in Lines
    <3>1. logFile' = [logFile EXCEPT ![p] = f2] /\ held' = [held EXCEPT ![p] = <<>>]
      BY <1>13 DEF OpensAs
    <3> QED BY <3>1, <1>7, NothingBefore
  <2>2. logAt' = [logAt EXCEPT ![p] = "write"] /\ "write" \in Ats
    BY DEF RotateLive, Goes, Ats
  <2> QED BY <1>1, <1>14, <2>1, <2>2 DEF LogTypes, RotateLive, SaidSame, Same
<1>21. ProcNow(p)'
  BY <1>19, <1>20 DEF ProcNow, RotateLive, SaidSame
<1>22. PathsOk(paths, files)' /\ crashed \subseteq crashed' /\ logFlags' = logFlags
  BY <1>13 DEF OpensAs, RotateLive, SaidSame
<1> QED BY <1>16, <1>20, <1>21, <1>22, StepOf

\* A log is closed.
LEMMA KeepsLogFileClose ==
  ASSUME LogInv, NEW p \in Loggers, LogFileClose(p) PROVE LogInv'
<1>1. LogTypes /\ PathsOk(paths, files) /\ ProcNow(p)
  BY DEF LogInv
<1>2. Proc(p, files, paths, logFile[p], held[p], toWrite[p], logAt[p], rung[p], Len(said[p]), crashed, logFlags)
  BY <1>1 DEF ProcNow
<1>3. Control(p, paths, logFile[p], held[p], toWrite[p], logAt[p], rung[p], logFlags)
  BY <1>2 DEF Proc
<1>4. logAt[p] = "idle" /\ logFile[p] # 0 /\ toWrite[p] = <<>> /\ rung[p] \in 0..MaxRotate
  BY <1>3 DEF Control, LogFileClose
<1>5. files' = [files EXCEPT ![logFile[p]] = @ \o held[p]] /\ paths' = paths
  BY DEF LogFileClose, Flushed
<1>6. Owes(p, files, paths, logFile[p], held[p] \o toWrite[p], Len(said[p]), crashed, logFlags)
      /\ held[p] \in Lines /\ toWrite[p] \in Lines
  BY <1>2, <1>4, CarriesIs
<1>7. PoursIn(p, files, paths, logFile[p], toWrite[p], Len(said[p]), crashed, logFlags, files')
  BY <1>1, <1>5, <1>6, PourDone
<1>8. /\ PathsOk(paths, files') /\ Told(p, files', logFile[p], toWrite[p], Len(said[p]))
      /\ Whole(p, files', paths, <<>>, toWrite[p], Len(said[p]), crashed, logFlags) /\ Leaves(p, files, paths, files', paths)
  BY <1>7 DEF PoursIn
<1>9. Told(p, files', 0, toWrite[p], Len(said[p]))
  BY <1>8, ToldAt
<1>10. Settled(p, files', paths, 0, "idle", rung[p], logFlags)
  BY <1>4 DEF Settled, Ats
<1>11. Proc(p, files', paths, 0, <<>>, toWrite[p], "idle", rung[p], Len(said[p]), crashed, logFlags)
  BY <1>4, <1>6, <1>8, <1>9, <1>10, SettledIs
<1>12. LogTypes' /\ (\A c \in Loggers \ {p} : Same(c)) /\ logFile'[p] = 0 /\ held'[p] = <<>>
  <2>1. <<>> \in Lines
    BY <1>6, NothingBefore
  <2> QED BY <1>1, <2>1 DEF LogTypes, LogFileClose, Same
<1>13. ProcNow(p)'
  BY <1>4, <1>5, <1>11, <1>12 DEF ProcNow, LogFileClose
<1>14. PathsOk(paths, files)' /\ crashed \subseteq crashed' /\ logFlags' = logFlags
  BY <1>5, <1>8 DEF LogFileClose
<1>15. Leaves(p, files, paths, files', paths')
  BY <1>5, <1>8
<1> QED BY <1>12, <1>13, <1>14, <1>15, StepOf

\* A log is flushed, or opened anew.
LEMMA KeepsLogFileFlushAll ==
  ASSUME LogInv, NEW p \in Loggers, LogFileFlushAll(p) PROVE LogInv'
<1>1. LogTypes /\ PathsOk(paths, files) /\ ProcNow(p)
  BY DEF LogInv
<1>2. Proc(p, files, paths, logFile[p], held[p], toWrite[p], logAt[p], rung[p], Len(said[p]), crashed, logFlags)
  BY <1>1 DEF ProcNow
<1>3. Control(p, paths, logFile[p], held[p], toWrite[p], logAt[p], rung[p], logFlags)
  BY <1>2 DEF Proc
<1>4. /\ logAt[p] = "idle" /\ logFile[p] # 0 /\ toWrite[p] = <<>> /\ rung[p] \in 0..MaxRotate
      /\ (p \in Rotators => logFile[p] = paths[0])
  BY <1>3 DEF Control, LogFileFlushAll
<1>5. PICK u : u = [files EXCEPT ![logFile[p]] = @ \o held[p]]
  OBVIOUS
<1>6. Owes(p, files, paths, logFile[p], held[p] \o toWrite[p], Len(said[p]), crashed, logFlags)
      /\ held[p] \in Lines /\ toWrite[p] \in Lines
  BY <1>2, <1>4, CarriesIs
<1>7. PoursIn(p, files, paths, logFile[p], toWrite[p], Len(said[p]), crashed, logFlags, u)
  BY <1>1, <1>5, <1>6, PourDone
<1>8. /\ PathsOk(paths, u) /\ Told(p, u, logFile[p], toWrite[p], Len(said[p]))
      /\ Whole(p, u, paths, <<>>, toWrite[p], Len(said[p]), crashed, logFlags) /\ Leaves(p, files, paths, u, paths)
  BY <1>7 DEF PoursIn
<1> DEFINE EndsWith(f) ==
      /\ PathsOk(paths', files') /\ Leaves(p, files, paths, files', paths')
      /\ logFile' = [logFile EXCEPT ![p] = f] /\ f \in Nat /\ held' = [held EXCEPT ![p] = <<>>]
      /\ Proc(p, files', paths', f, <<>>, toWrite[p], "idle", rung[p], Len(said[p]), crashed, logFlags)
<1>9. \E f : EndsWith(f)
  <2>1. CASE Opens(p, Flushed(p, files), paths)
    <3>1. Opens(p, u, paths)
      BY <1>5, <2>1 DEF Flushed
    <3>2. PICK f2 : OpensAs(p, u, paths, f2)
      BY <1>8, <3>1, OpensIt
    <3>3. NowOpen(u, paths, f2, files', paths') /\ f2 \in Nat /\ f2 # 0 /\ f2 = paths'[0] /\ PathsOk(paths', files')
      BY <3>2 DEF OpensAs
    <3>4. Leaves(p, u, paths, files', paths')
      BY <1>8, <3>3, OpenLeaves
    <3>5. Leaves(p, files, paths, files', paths')
      BY <1>8, <3>4, LeavesOn
    <3>6. /\ Told(p, files', f2, toWrite[p], Len(said[p]))
          /\ Whole(p, files', paths', <<>>, toWrite[p], Len(said[p]), crashed, logFlags)
      BY <1>6, <1>8, <3>3, OpenDone
    <3>7. Settled(p, files', paths', f2, "idle", rung[p], logFlags)
      BY <1>4, <3>3 DEF Settled, Ats
    <3>8. Proc(p, files', paths', f2, <<>>, toWrite[p], "idle", rung[p], Len(said[p]), crashed, logFlags)
      BY <1>4, <1>6, <3>6, <3>7, SettledIs
    <3>9. EndsWith(f2)
      BY <3>2, <3>3, <3>5, <3>8 DEF OpensAs
    <3> QED BY <3>9
  <2>2. CASE files' = Flushed(p, files) /\ held' = [held EXCEPT ![p] = <<>>] /\ UNCHANGED <<paths, logFile>>
    <3>1. files' = u /\ paths' = paths /\ logFile' = logFile
      BY <1>5, <2>2 DEF Flushed
    <3>2. Settled(p, u, paths, logFile[p], "idle", rung[p], logFlags)
      BY <1>4 DEF Settled, Ats
    <3>3. Proc(p, u, paths, logFile[p], <<>>, toWrite[p], "idle", rung[p], Len(said[p]), crashed, logFlags)
      BY <1>4, <1>6, <1>8, <3>2, SettledIs
    <3>4. logFile' = [logFile EXCEPT ![p] = logFile[p]] /\ logFile[p] \in Nat
      BY <1>1, <3>1 DEF LogTypes
    <3>5. EndsWith(logFile[p])
      BY <1>8, <2>2, <3>1, <3>3, <3>4
    <3> QED BY <3>5
  <2>3. Opens(p, Flushed(p, files), paths)
        \/ (files' = Flushed(p, files) /\ held' = [held EXCEPT ![p] = <<>>] /\ UNCHANGED <<paths, logFile>>)
    BY DEF LogFileFlushAll
  <2> QED BY <2>1, <2>2, <2>3
<1>10. PICK f : EndsWith(f)
  BY <1>9
<1>11. LogTypes' /\ (\A c \in Loggers \ {p} : Same(c)) /\ logFile'[p] = f /\ held'[p] = <<>>
  <2>1. <<>> \in Lines
    BY <1>6, NothingBefore
  <2> QED BY <1>1, <1>10, <2>1 DEF LogTypes, LogFileFlushAll, SaidSame, Same
<1>12. ProcNow(p)'
  BY <1>4, <1>10, <1>11 DEF ProcNow, LogFileFlushAll, SaidSame
<1>13. PathsOk(paths, files)' /\ crashed \subseteq crashed' /\ logFlags' = logFlags
  BY <1>10 DEF LogFileFlushAll, SaidSame
<1> QED BY <1>10, <1>11, <1>12, <1>13, StepOf

\* The first of what is to write goes to the buffer.
LEMMA QueueShift ==
  ASSUME NEW h \in Lines, NEW w \in Lines, w # <<>>
  PROVE  /\ <<w[1]>> \in Lines /\ Tail(w) \in Lines /\ h \o <<w[1]>> \in Lines
         /\ (h \o <<w[1]>>) \o Tail(w) = h \o w
<1>1. w \in Seq(Entries) /\ h \in Seq(Entries)
  BY DEF Lines
<1>2. Len(w) \in Nat /\ Len(w) # 0 /\ 1 \in 1..Len(w)
  BY <1>1, EmptySeq, LenProperties
<1>3. w[1] \in Entries
  BY <1>1, <1>2, ElementOfSeq
<1>4. <<w[1]>> \in Seq(Entries) /\ Len(<<w[1]>>) = 1
  BY <1>3
<1>5. Tail(w) \in Seq(Entries)
  BY <1>1, <1>2, HeadTailProperties
<1>6. h \o <<w[1]>> \in Seq(Entries)
  BY <1>1, <1>4, ConcatProperties
<1>7. <<w[1]>> \o Tail(w) = w
  <2>1. w = <<Head(w)>> \o Tail(w)
    BY <1>1, <1>2
  <2> QED BY <2>1, <1>1
<1>8. (h \o <<w[1]>>) \o Tail(w) = h \o (<<w[1]>> \o Tail(w))
  BY <1>1, <1>4, <1>5, ConcatAssociative
<1> QED BY <1>4, <1>5, <1>6, <1>7, <1>8 DEF Lines

\* A message goes to the buffer, or with the buffer to the file.
LEMMA KeepsWrite ==
  ASSUME LogInv, NEW p \in Loggers, Write(p) PROVE LogInv'
<1>1. LogTypes /\ PathsOk(paths, files) /\ ProcNow(p)
  BY DEF LogInv
<1>2. Proc(p, files, paths, logFile[p], held[p], toWrite[p], logAt[p], rung[p], Len(said[p]), crashed, logFlags)
  BY <1>1 DEF ProcNow
<1>3. Control(p, paths, logFile[p], held[p], toWrite[p], logAt[p], rung[p], logFlags)
  BY <1>2 DEF Proc
<1>4. /\ logAt[p] = "write" /\ logFile[p] # 0 /\ rung[p] \in 0..MaxRotate /\ (p \in Rotators => logFile[p] = paths[0])
      /\ held[p] \in Lines /\ toWrite[p] \in Lines
  BY <1>3 DEF Control, Write
<1>5. /\ crashed \subseteq crashed' /\ logFlags' = logFlags /\ crashed' = crashed
      /\ paths' = paths /\ logFile' = logFile /\ said' = said
      /\ rung' = rung
  BY DEF Write, SaidSame
<1>6. CASE toWrite[p] = <<>>
  <2>1. Goes(p, "idle") /\ files' = files /\ held' = held /\ toWrite' = toWrite
    BY <1>6 DEF Write
  <2>2. LogTypes' /\ (\A c \in Loggers \ {p} : Same(c)) /\ logAt'[p] = "idle"
    BY <1>1, <2>1 DEF LogTypes, Write, SaidSame, Same, Goes, Ats
  <2>3. Control(p, paths, logFile[p], held[p], toWrite[p], "idle", rung[p], logFlags)
    BY <1>3, <1>4, <1>6 DEF Control, Ats
  <2>4. ProcNow(p)'
    BY <1>2, <1>5, <2>1, <2>2, <2>3 DEF ProcNow, Proc
  <2>5. Leaves(p, files, paths, files', paths') /\ PathsOk(paths, files)'
    BY <1>1, <1>5, <2>1, LeavesAsIs
  <2> QED BY <1>5, <2>2, <2>4, <2>5, StepOf
<1>7. CASE toWrite[p] # <<>>
  <2>1. PICK q : q = held[p] \o <<toWrite[p][1]>>
    OBVIOUS
  <2>2. PICK w : w = Tail(toWrite[p])
    OBVIOUS
  <2>3. q \in Lines /\ w \in Lines /\ q \o w = held[p] \o toWrite[p]
    BY <1>4, <1>7, <2>1, <2>2, QueueShift
  <2>4. Goes(p, "check") /\ toWrite' = [toWrite EXCEPT ![p] = w]
    BY <1>7, <2>2 DEF Write
  <2> DEFINE EndsWith(h) ==
        /\ PathsOk(paths, files)' /\ Leaves(p, files, paths, files', paths')
        /\ held' = [held EXCEPT ![p] = h] /\ h \in Lines
        /\ Proc(p, files', paths', logFile[p], h, w, "check", rung[p], Len(said[p]), crashed, logFlags)
  <2>5. \E h : EndsWith(h)
    <3>1. CASE files' = [files EXCEPT ![logFile[p]] = @ \o q] /\ held' = [held EXCEPT ![p] = <<>>]
      <4>1. Owes(p, files, paths, logFile[p], q \o w, Len(said[p]), crashed, logFlags)
        BY <1>2, <1>4, <2>3, CarriesIs
      <4>2. PoursIn(p, files, paths, logFile[p], w, Len(said[p]), crashed, logFlags, files')
        BY <1>1, <2>3, <3>1, <4>1, PourDone
      <4>3. /\ PathsOk(paths, files') /\ Told(p, files', logFile[p], w, Len(said[p]))
            /\ Whole(p, files', paths, <<>>, w, Len(said[p]), crashed, logFlags) /\ Leaves(p, files, paths, files', paths)
        BY <4>2 DEF PoursIn
      <4>4. Settled(p, files', paths, logFile[p], "check", rung[p], logFlags)
        BY <1>4 DEF Settled, Ats
      <4>5. Proc(p, files', paths, logFile[p], <<>>, w, "check", rung[p], Len(said[p]), crashed, logFlags)
        BY <2>3, <4>3, <4>4, SettledIs
      <4>6. <<>> \in Lines
        BY <2>3, NothingBefore
      <4>7. EndsWith(<<>>)
        BY <1>5, <3>1, <4>3, <4>5, <4>6
      <4> QED BY <4>7
    <3>2. CASE held' = [held EXCEPT ![p] = q] /\ files' = files /\ "flush" \notin logFlags
      <4>1. Control(p, paths, logFile[p], q, w, "check", rung[p], logFlags)
        BY <1>3, <1>4, <2>3, <3>2 DEF Control, Ats
      <4>2. Proc(p, files, paths, logFile[p], q, w, "check", rung[p], Len(said[p]), crashed, logFlags)
        BY <1>2, <2>3, <4>1 DEF Proc, Whole
      <4>3. Leaves(p, files, paths, files', paths') /\ PathsOk(paths, files)'
        BY <1>1, <1>5, <3>2, LeavesAsIs
      <4>4. EndsWith(q)
        BY <1>5, <2>3, <3>2, <4>2, <4>3
      <4> QED BY <4>4
    <3>3. \/ files' = [files EXCEPT ![logFile[p]] = @ \o q] /\ held' = [held EXCEPT ![p] = <<>>]
          \/ held' = [held EXCEPT ![p] = q] /\ files' = files /\ "flush" \notin logFlags
      <4>1. \E sends \in (IF "flush" \in logFlags \/ Len(q) > LogBuffer THEN {TRUE} ELSE BOOLEAN) :
              IF sends THEN files' = [files EXCEPT ![logFile[p]] = @ \o q] /\ held' = [held EXCEPT ![p] = <<>>]
              ELSE held' = [held EXCEPT ![p] = q] /\ files' = files
        BY <1>7, <2>1 DEF Write
      <4>2. CASE "flush" \in logFlags
        BY <4>1, <4>2
      <4>3. CASE "flush" \notin logFlags
        BY <4>1, <4>3
      <4> QED BY <4>2, <4>3
    <3> QED BY <3>1, <3>2, <3>3
  <2>6. PICK h : EndsWith(h)
    BY <2>5
  <2>7. LogTypes' /\ (\A c \in Loggers \ {p} : Same(c)) /\ held'[p] = h /\ toWrite'[p] = w /\ logAt'[p] = "check"
    <3>1. logAt' = [logAt EXCEPT ![p] = "check"] /\ "check" \in Ats
      BY <2>4 DEF Goes, Ats
    <3> QED BY <1>1, <1>5, <2>3, <2>4, <2>6, <3>1 DEF LogTypes, SaidSame, Same, Write
  <2>8. ProcNow(p)'
    BY <1>5, <2>6, <2>7 DEF ProcNow
  <2> QED BY <1>5, <2>6, <2>7, <2>8, StepOf
<1> QED BY <1>6, <1>7

OneIs(w, x) == w \in Lines /\ Len(w) = 1 /\ w[1] = x /\ 1 \in 1..Len(w) /\ \A i \in 1..Len(w) : i = 1

\* A queue of one message,
LEMMA OneEntry == ASSUME NEW x \in Entries PROVE OneIs(<<x>>, x)
<1>1. <<x>> \in Seq(Entries) /\ Len(<<x>>) = 1 /\ <<x>>[1] = x
  OBVIOUS
<1> QED BY <1>1 DEF OneIs, Lines
TwoAre(w, x, y) == w \in Lines /\ Len(w) = 2 /\ w[1] = x /\ w[2] = y /\ \A i \in 1..Len(w) : i = 1 \/ i = 2

\* and one of two.
LEMMA TwoEntries == ASSUME NEW x \in Entries, NEW y \in Entries PROVE TwoAre(<<x, y>>, x, y)
<1>1. <<x, y>> \in Seq(Entries) /\ Len(<<x, y>>) = 2 /\ <<x, y>>[1] = x /\ <<x, y>>[2] = y
  OBVIOUS
<1> QED BY <1>1 DEF TwoAre, Lines

\* What a call has to write is the message that it was given, and at most one more.
LEMMA PushedIs ==
  ASSUME LogTypes, NEW p \in Loggers, NEW text \in Texts,
         NEW entry, entry = [by |-> p, n |-> Len(said[p]) + 1, text |-> text, times |-> 1],
         NEW w, w = Pushed(p, text, entry)
  PROVE  Adds(p, w, Len(said[p]) + 1) /\ ("repeats" \notin logFlags => InQueue(p, w, Len(said[p]) + 1))
<1>1. said[p] \in Seq(Texts) /\ repeated[p] \in Nat
  BY DEF LogTypes
<1>2. Len(said[p]) \in Nat
  BY <1>1, LenProperties
<1>3. PICK e : e = [by |-> p, n |-> Len(said[p]), text |-> "repeated", times |-> repeated[p]]
  OBVIOUS
<1>4. e \in Entries /\ entry \in Entries
  BY <1>1, <1>2, <1>3 DEF Entries
<1>5. e.by = p /\ ~Own(p, e) /\ entry.by = p /\ Own(p, entry) /\ entry.n = Len(said[p]) + 1
  BY <1>3 DEF Own, Texts
<1>6. w = <<entry>> \/ ("repeats" \in logFlags /\ (w = <<>> \/ w = <<e, entry>>))
  BY <1>3 DEF Pushed
<1>7. CASE w = <<entry>>
  <2>9. OneIs(w, entry)
    BY <1>4, <1>7, OneEntry
  <2>1. Len(w) = 1 /\ w[1] = entry /\ w \in Lines
    BY <2>9 DEF OneIs
  <2>2. \A i \in 1..Len(w) : i = 1
    BY <2>9 DEF OneIs
  <2>3. 1 \in 1..Len(w)
    BY <2>9 DEF OneIs
  <2>4. InQueue(p, w, Len(said[p]) + 1)
    BY <1>5, <2>1, <2>3 DEF InQueue
  <2>5. Adds(p, w, Len(said[p]) + 1)
    BY <1>5, <2>1, <2>2 DEF Adds
  <2> QED BY <2>4, <2>5
<1>8. CASE w = <<>> /\ "repeats" \in logFlags
  <2>1. Len(w) = 0 /\ w \in Lines
    BY <1>8 DEF Lines
  <2>2. \A i \in 1..Len(w) : FALSE
    BY <2>1
  <2> QED BY <1>8, <2>1, <2>2 DEF Adds
<1>9. CASE w = <<e, entry>> /\ "repeats" \in logFlags
  <2>9. TwoAre(w, e, entry)
    BY <1>4, <1>9, TwoEntries
  <2>1. Len(w) = 2 /\ w[1] = e /\ w[2] = entry /\ w \in Lines
    BY <2>9 DEF TwoAre
  <2>2. \A i \in 1..Len(w) : i = 1 \/ i = 2
    BY <2>9 DEF TwoAre
  <2>3. \A i \in 1..Len(w) : w[i].by = p /\ (Own(p, w[i]) => i = 2 /\ w[i].n = Len(said[p]) + 1)
    BY <1>5, <2>1, <2>2
  <2>5. Adds(p, w, Len(said[p]) + 1)
    BY <2>1, <2>3 DEF Adds
  <2> QED BY <1>9, <2>5
<1> QED BY <1>6, <1>7, <1>8, <1>9

\* A process has more to write.
LEMMA SaysMore ==
  ASSUME NEW p, NEW fs, NEW ps, NEW f, NEW h, NEW r, NEW m, NEW cr, NEW fl, m \in Nat,
         Proc(p, fs, ps, f, h, <<>>, "idle", r, m, cr, fl), f # 0,
         NEW w, Adds(p, w, m + 1), "repeats" \notin fl => InQueue(p, w, m + 1)
  PROVE  Proc(p, fs, ps, f, h, w, "check", r, m + 1, cr, fl)
<1>1. Control(p, ps, f, h, <<>>, "idle", r, fl) /\ Told(p, fs, f, h \o <<>>, m)
      /\ Whole(p, fs, ps, h, <<>>, m, cr, fl)
  BY DEF Proc
<1>2. h \in Lines /\ w \in Lines /\ h \o <<>> = h
  BY <1>1, NothingBefore DEF Control, Adds
<1>3. Control(p, ps, f, h, w, "check", r, fl)
  BY <1>1, <1>2 DEF Control, Ats
<1>4. Told(p, fs, f, h, m)
  BY <1>1, <1>2
<1>5. Told(p, fs, f, h \o w, m + 1)
  BY <1>4, ToldMore
<1>6. Whole(p, fs, ps, h, w, m + 1, cr, fl)
  <2>1. SUFFICES ASSUME p \in Rotators, "repeats" \notin fl PROVE Complete(p, fs, ps, h \o w, m + 1, cr)
    BY DEF Whole
  <2>2. Complete(p, fs, ps, h, m, cr)
    BY <1>1, <1>2, <2>1 DEF Whole
  <2> QED BY <1>2, <1>4, <2>1, <2>2, CompleteMore
<1> QED BY <1>3, <1>5, <1>6 DEF Proc

\* A process is given a message.
LEMMA KeepsLogToFile ==
  ASSUME LogInv, NEW p \in Loggers, LogToFile(p) PROVE LogInv'
<1>1. LogTypes /\ PathsOk(paths, files) /\ ProcNow(p)
  BY DEF LogInv
<1>2. Proc(p, files, paths, logFile[p], held[p], toWrite[p], logAt[p], rung[p], Len(said[p]), crashed, logFlags)
  BY <1>1 DEF ProcNow
<1>3. Control(p, paths, logFile[p], held[p], toWrite[p], logAt[p], rung[p], logFlags)
  BY <1>2 DEF Proc
<1>4. /\ logAt[p] = "idle" /\ toWrite[p] = <<>> /\ rung[p] \in 0..MaxRotate /\ held[p] \in Lines
      /\ (logFile[p] = 0 => held[p] = <<>>)
  BY <1>3 DEF Control, LogToFile
<1>5. PICK text \in Texts : \E entry, w :
         /\ entry = [by |-> p, n |-> Len(said[p]) + 1, text |-> text, times |-> 1]
         /\ w = Pushed(p, text, entry)
         /\ said' = [said EXCEPT ![p] = Append(@, text)] /\ toWrite' = [toWrite EXCEPT ![p] = w]
         /\ repeated' = [repeated EXCEPT ![p] = IF "repeats" \in logFlags /\ lastText[p] = text THEN @ + 1 ELSE 0]
  BY DEF LogToFile, Texts
<1>6. PICK entry, w :
         /\ entry = [by |-> p, n |-> Len(said[p]) + 1, text |-> text, times |-> 1]
         /\ w = Pushed(p, text, entry)
         /\ said' = [said EXCEPT ![p] = Append(@, text)] /\ toWrite' = [toWrite EXCEPT ![p] = w]
         /\ repeated' = [repeated EXCEPT ![p] = IF "repeats" \in logFlags /\ lastText[p] = text THEN @ + 1 ELSE 0]
  BY <1>5
<1>7. Adds(p, w, Len(said[p]) + 1) /\ ("repeats" \notin logFlags => InQueue(p, w, Len(said[p]) + 1))
  BY <1>1, <1>6, PushedIs
<1> DEFINE EndsWith(f, h) ==
      /\ PathsOk(paths, files)' /\ Leaves(p, files, paths, files', paths')
      /\ logFile' = [logFile EXCEPT ![p] = f] /\ f \in Nat /\ f # 0
      /\ held' = [held EXCEPT ![p] = h] /\ h \in Lines
      /\ Proc(p, files', paths', f, h, <<>>, "idle", rung[p], Len(said[p]), crashed, logFlags)
<1>8. \E f, h : EndsWith(f, h)
  <2>1. CASE logFile[p] = 0
    <3>1. Opens(p, files, paths)
      BY <2>1 DEF LogToFile
    <3>2. PICK f2 : OpensAs(p, files, paths, f2)
      BY <1>1, <3>1, OpensIt
    <3>3. NowOpen(files, paths, f2, files', paths') /\ f2 \in Nat /\ f2 # 0 /\ f2 = paths'[0] /\ PathsOk(paths', files')
      BY <3>2 DEF OpensAs
    <3>4. Leaves(p, files, paths, files', paths')
      BY <1>1, <3>3, OpenLeaves
    <3>5. held[p] = <<>> /\ <<>> \in Lines /\ <<>> \o <<>> = <<>>
      BY <1>4, <2>1, NothingBefore
    <3>6. Told(p, files, logFile[p], <<>>, Len(said[p])) /\ Whole(p, files, paths, <<>>, <<>>, Len(said[p]), crashed, logFlags)
      BY <1>2, <1>4, <3>5 DEF Proc
    <3>7. /\ Told(p, files', f2, <<>>, Len(said[p]))
          /\ Whole(p, files', paths', <<>>, <<>>, Len(said[p]), crashed, logFlags)
      BY <1>1, <3>3, <3>5, <3>6, OpenDone
    <3>8. Settled(p, files', paths', f2, "idle", rung[p], logFlags)
      BY <1>4, <3>3 DEF Settled, Ats
    <3>9. Proc(p, files', paths', f2, <<>>, <<>>, "idle", rung[p], Len(said[p]), crashed, logFlags)
      BY <3>5, <3>7, <3>8, SettledIs
    <3>10. EndsWith(f2, <<>>)
      BY <3>2, <3>3, <3>4, <3>5, <3>9 DEF OpensAs
    <3> QED BY <3>10
  <2>2. CASE logFile[p] # 0
    <3>1. logFile' = logFile /\ held' = held /\ files' = files /\ paths' = paths
      BY <2>2 DEF LogToFile
    <3>2. logFile' = [logFile EXCEPT ![p] = logFile[p]] /\ logFile[p] \in Nat /\ held' = [held EXCEPT ![p] = held[p]]
      BY <1>1, <3>1 DEF LogTypes
    <3>3. Leaves(p, files, paths, files', paths') /\ PathsOk(paths, files)'
      BY <1>1, <3>1, LeavesAsIs
    <3>4. Proc(p, files', paths', logFile[p], held[p], <<>>, "idle", rung[p], Len(said[p]), crashed, logFlags)
      BY <1>2, <1>4, <3>1
    <3>5. EndsWith(logFile[p], held[p])
      BY <1>4, <2>2, <3>2, <3>3, <3>4
    <3> QED BY <3>5
  <2> QED BY <2>1, <2>2
<1>9. PICK f, h : EndsWith(f, h)
  BY <1>8
<1>10. said[p] \in Seq(Texts) /\ Len(said[p]) \in Nat
  BY <1>1, LenProperties DEF LogTypes
<1>11. Proc(p, files', paths', f, h, w, "check", rung[p], Len(said[p]) + 1, crashed, logFlags)
  BY <1>7, <1>9, <1>10, SaysMore
<1>12. Append(said[p], text) \in Seq(Texts) /\ Len(Append(said[p], text)) = Len(said[p]) + 1
  BY <1>5, <1>10, AppendProperties
<1>13. w \in Lines /\ (IF "repeats" \in logFlags /\ lastText[p] = text THEN repeated[p] + 1 ELSE 0) \in Nat
  BY <1>1, <1>7 DEF Adds, LogTypes
<1>14. crashed \subseteq crashed' /\ logFlags' = logFlags /\ crashed' = crashed /\ rung' = rung
  BY DEF LogToFile
<1>15. LogTypes' /\ (\A c \in Loggers \ {p} : Same(c)) /\ logFile'[p] = f /\ held'[p] = h /\ toWrite'[p] = w
       /\ logAt'[p] = "check" /\ Len(said'[p]) = Len(said[p]) + 1
  <2>1. logAt' = [logAt EXCEPT ![p] = "check"] /\ "check" \in Ats
    BY DEF LogToFile, Goes, Ats
  <2>2. said' = [said EXCEPT ![p] = Append(said[p], text)] /\ toWrite' = [toWrite EXCEPT ![p] = w]
        /\ repeated' = [repeated EXCEPT ![p] = IF "repeats" \in logFlags /\ lastText[p] = text THEN @ + 1 ELSE 0]
    BY <1>6
  <2>3. logFile' = [logFile EXCEPT ![p] = f] /\ f \in Nat /\ held' = [held EXCEPT ![p] = h] /\ h \in Lines
    BY <1>9
  <2> QED BY <1>1, <1>12, <1>13, <1>14, <2>1, <2>2, <2>3 DEF LogTypes, Same
<1>16. ProcNow(p)'
  BY <1>11, <1>14, <1>15 DEF ProcNow
<1> QED BY <1>9, <1>14, <1>15, <1>16, StepOf

\* The whole buffer.
LEMMA AllOfIt == ASSUME NEW h \in Lines PROVE SubSeq(h, 1 + Len(<<>>), Len(h)) = h
<1>1. h \in Seq(Entries) /\ Len(h) \in Nat
  BY LenProperties DEF Lines
<1>2. 1 + Len(<<>>) = 1
  OBVIOUS
<1>3. SubSeq(h, 1, Len(h)) = h
  BY <1>1
<1> QED BY <1>2, <1>3

\* A process forks.
LEMMA KeepsFork ==
  ASSUME LogInv, NEW p \in Loggers, NEW c \in Loggers, Fork(p, c) PROVE LogInv'
<1>1. LogTypes /\ PathsOk(paths, files) /\ ProcNow(p) /\ ProcNow(c)
  BY DEF LogInv
<1>2. Proc(p, files, paths, logFile[p], held[p], toWrite[p], logAt[p], rung[p], Len(said[p]), crashed, logFlags)
  BY <1>1 DEF ProcNow
<1>3. Control(p, paths, logFile[p], held[p], toWrite[p], logAt[p], rung[p], logFlags)
  BY <1>2 DEF Proc
<1>4. /\ logAt[p] = "idle" /\ logFile[p] # 0 /\ toWrite[p] = <<>> /\ rung[p] \in 0..MaxRotate
      /\ (p \in Rotators => logFile[p] = paths[0]) /\ held[p] \in Lines
  BY <1>3 DEF Control, Fork
<1>5. /\ logAt[c] = "off" /\ c \notin Rotators /\ said[c] = <<>> /\ p # c
  BY <1>4 DEF Fork
<1>6. files' = [files EXCEPT ![logFile[p]] = @ \o held[p]] /\ paths' = paths
  <2>1. files' = [files EXCEPT ![logFile[p]] = @ \o SubSeq(held[p], 1 + Len(<<>>), Len(held[p]))]
    BY DEF Fork, FlushedAtFork
  <2> QED BY <1>4, <2>1, AllOfIt DEF Fork
<1>7. Owes(p, files, paths, logFile[p], held[p] \o toWrite[p], Len(said[p]), crashed, logFlags)
      /\ held[p] \in Lines /\ toWrite[p] \in Lines
  BY <1>2, <1>4, CarriesIs
<1>8. PoursIn(p, files, paths, logFile[p], toWrite[p], Len(said[p]), crashed, logFlags, files')
  BY <1>1, <1>6, <1>7, PourDone
<1>9. /\ PathsOk(paths, files') /\ Told(p, files', logFile[p], toWrite[p], Len(said[p]))
      /\ Whole(p, files', paths, <<>>, toWrite[p], Len(said[p]), crashed, logFlags) /\ Leaves(p, files, paths, files', paths)
  BY <1>8 DEF PoursIn
<1>10. Settled(p, files', paths, logFile[p], "idle", rung[p], logFlags)
  BY <1>4 DEF Settled, Ats
<1>11. Proc(p, files', paths, logFile[p], <<>>, toWrite[p], "idle", rung[p], Len(said[p]), crashed, logFlags)
  BY <1>4, <1>7, <1>9, <1>10, SettledIs
<1>12. /\ logFile' = [logFile EXCEPT ![c] = logFile[p]] /\ held' = [held EXCEPT ![p] = <<>>, ![c] = <<>>]
       /\ logAt' = [logAt EXCEPT ![c] = "idle"] /\ repeated' = [repeated EXCEPT ![c] = repeated[p]]
       /\ toWrite' = toWrite /\ rung' = rung /\ said' = said /\ crashed' = crashed /\ logFlags' = logFlags
  BY DEF Fork, Goes, FlushedAtFork
<1>13. LogTypes'
  <2>1. <<>> \in Lines /\ "idle" \in Ats /\ logFile[p] \in Nat /\ repeated[p] \in Nat
    BY <1>1, <1>7, NothingBefore DEF Ats, LogTypes
  <2> QED BY <1>1, <1>12, <2>1 DEF LogTypes
<1>14. ProcNow(p)'
  <2>1. logFile'[p] = logFile[p] /\ held'[p] = <<>> /\ logAt'[p] = "idle"
    BY <1>1, <1>4, <1>5, <1>12 DEF LogTypes
  <2> QED BY <1>6, <1>11, <1>12, <2>1 DEF ProcNow
<1>15. ProcNow(c)'
  <2>1. Proc(c, files, paths, logFile[c], held[c], toWrite[c], logAt[c], rung[c], Len(said[c]), crashed, logFlags)
    BY <1>1 DEF ProcNow
  <2>2. Proc(c, files', paths, logFile[c], held[c], toWrite[c], logAt[c], rung[c], Len(said[c]), crashed, logFlags)
    BY <1>5, <1>9, <2>1 DEF Leaves
  <2>3. Control(c, paths, logFile[c], held[c], toWrite[c], logAt[c], rung[c], logFlags)
    BY <2>2 DEF Proc
  <2>4. toWrite[c] = <<>> /\ rung[c] \in 0..MaxRotate /\ Len(said[c]) = 0
    BY <1>5, <2>3 DEF Control
  <2>5. <<>> \in Lines /\ <<>> \o <<>> = <<>>
    BY <1>7, NothingBefore
  <2>6. Told(c, files', logFile[c], held[c] \o toWrite[c], 0)
    BY <2>2, <2>4 DEF Proc
  <2>7. logFile[p] \in 0..Len(files')
    BY <1>9 DEF Told
  <2>8. Told(c, files', logFile[p], <<>>, 0)
    BY <2>6, <2>7, ToldNothing
  <2>9. Whole(c, files', paths, <<>>, <<>>, 0, crashed, logFlags)
    BY <1>5 DEF Whole
  <2>10. Settled(c, files', paths, logFile[p], "idle", rung[c], logFlags)
    BY <1>5, <2>4 DEF Settled, Ats
  <2>11. Proc(c, files', paths, logFile[p], <<>>, <<>>, "idle", rung[c], 0, crashed, logFlags)
    BY <2>5, <2>8, <2>9, <2>10, SettledIs
  <2>12. logFile'[c] = logFile[p] /\ held'[c] = <<>> /\ logAt'[c] = "idle"
    BY <1>1, <1>5, <1>12 DEF LogTypes
  <2> QED BY <1>6, <1>12, <2>4, <2>11, <2>12 DEF ProcNow
<1>16. ASSUME NEW d \in Loggers, d # p, d # c PROVE ProcNow(d)'
  <2>1. Proc(d, files, paths, logFile[d], held[d], toWrite[d], logAt[d], rung[d], Len(said[d]), crashed, logFlags)
    BY DEF ProcNow, LogInv
  <2>2. Proc(d, files', paths, logFile[d], held[d], toWrite[d], logAt[d], rung[d], Len(said[d]), crashed, logFlags)
    BY <1>9, <1>16, <2>1 DEF Leaves
  <2>3. logFile'[d] = logFile[d] /\ held'[d] = held[d] /\ logAt'[d] = logAt[d]
    BY <1>1, <1>12, <1>16 DEF LogTypes
  <2> QED BY <1>6, <1>12, <2>2, <2>3 DEF ProcNow
<1>17. PathsOk(paths, files)'
  BY <1>6, <1>9
<1> QED BY <1>13, <1>14, <1>15, <1>16, <1>17 DEF LogInv

\* Nothing was said,
LEMMA LogStarts == LogInit => LogInv
<1>1. SUFFICES ASSUME LogInit PROVE LogInv
  OBVIOUS
<1>2. <<>> \in Lines /\ <<>> \o <<>> = <<>> /\ <<>> \in Seq(Texts) /\ <<>> \in Seq(Lines) /\ Len(<<>>) = 0
  BY EmptySeq, NothingBefore DEF Lines
<1>3. LogTypes
  BY <1>1, <1>2, MaxRotateIs DEF LogInit, LogTypes, Ats
<1>4. PathsOk(paths, files)
  <2>1. files \in Seq(Lines) /\ Len(files) = 0 /\ paths = [i \in 0..MaxRotate |-> 0]
    BY <1>1, <1>2 DEF LogInit
  <2>2. paths \in [0..MaxRotate -> 0..Len(files)] /\ \A i \in 0..MaxRotate : paths[i] = 0
    BY <2>1
  <2> QED BY <2>1, <2>2, MaxRotateIs DEF PathsOk
<1>5. ASSUME NEW p \in Loggers PROVE ProcNow(p)
  <2>1. logFile[p] = 0 /\ held[p] = <<>> /\ toWrite[p] = <<>> /\ rung[p] = 0 /\ Len(said[p]) = 0 /\ files = <<>>
        /\ (logAt[p] = "idle" \/ logAt[p] = "off")
    BY <1>1, <1>2 DEF LogInit
  <2>2. Control(p, paths, 0, <<>>, <<>>, logAt[p], 0, logFlags)
    BY <1>2, <2>1, MaxRotateIs DEF Control, Ats
  <2>3. Told(p, files, 0, <<>>, 0)
    BY <1>2, <2>1 DEF Told, QueueOf, QueueUp, InFiles, FilesUp
  <2>4. Whole(p, files, paths, <<>>, <<>>, 0, crashed, logFlags)
    BY DEF Whole, Complete
  <2> QED BY <1>2, <2>1, <2>2, <2>3, <2>4 DEF ProcNow, Proc
<1> QED BY <1>3, <1>4, <1>5 DEF LogInv

\* every step keeps the invariant,
LEMMA LogKeeps == LogInv /\ [LogNext]_logVars => LogInv'
<1>1. SUFFICES ASSUME LogInv, [LogNext]_logVars PROVE LogInv'
  OBVIOUS
<1>2. CASE UNCHANGED logVars
  BY <1>1, <1>2 DEF logVars, LogInv, LogTypes, ProcNow
<1>3. CASE LogNext
  <2>1. PICK p \in Loggers :
    \/ LogToFile(p) \/ CheckRotate(p) \/ RotateOne(p) \/ RotateLive(p) \/ Write(p)
    \/ LogFileCheckRotate(p) \/ LogFileFlushAll(p) \/ LogFileClose(p) \/ Kill(p) \/ Restart(p)
    \/ \E c \in Loggers : Fork(p, c)
    BY <1>3 DEF LogNext
  <2> QED BY <1>1, <2>1, KeepsLogToFile, KeepsCheckRotate, KeepsRotateOne, KeepsRotateLive, KeepsWrite,
             KeepsLogFileCheckRotate, KeepsLogFileFlushAll, KeepsLogFileClose, KeepsKill, KeepsRestart, KeepsFork
<1> QED BY <1>1, <1>2, <1>3

InArchive(p, n) == \E i \in 0..MaxRotate : \E e \in Range(Archive(i)) : Own(p, e) /\ e.n = n

\* What a queue has.
LEMMA RangeIs == ASSUME NEW q \in Lines PROVE \A e : e \in Range(q) <=> \E k \in 1..Len(q) : e = q[k]
<1>1. DOMAIN q = 1..Len(q)
  BY LenProperties DEF Lines
<1> QED BY <1>1 DEF Range

\* What can be read is what is in files that have names.
LEMMA InArchiveIs ==
  ASSUME PathsOk(paths, files), NEW p, NEW n
  PROVE  InArchive(p, n) <=> InNamed(p, files, paths, n)
<1>1. files \in Seq(Lines) /\ (\A i \in 0..MaxRotate : paths[i] \in 0..Len(files)) /\ Len(files) \in Nat
  BY FileIs, LenProperties DEF PathsOk
<1>2. ASSUME InArchive(p, n) PROVE InNamed(p, files, paths, n)
  <2>1. PICK i \in 0..MaxRotate : \E e \in Range(Archive(i)) : Own(p, e) /\ e.n = n
    BY <1>2 DEF InArchive
  <2>2. PICK e \in Range(Archive(i)) : Own(p, e) /\ e.n = n
    BY <2>1
  <2>3. paths[i] # 0
    <3>1. SUFFICES ASSUME paths[i] = 0 PROVE FALSE
      OBVIOUS
    <3>2. Archive(i) = <<>>
      BY <3>1 DEF Archive
    <3>3. Range(<<>>) = {}
      BY DEF Range
    <3> QED BY <2>2, <3>2, <3>3
  <2>4. paths[i] \in 1..Len(files) /\ Archive(i) = files[paths[i]]
    BY <1>1, <2>3 DEF Archive
  <2>5. files[paths[i]] \in Lines
    BY <1>1, <2>4, FileIs
  <2>6. PICK k \in 1..Len(files[paths[i]]) : e = files[paths[i]][k]
    BY <2>2, <2>4, <2>5, RangeIs
  <2>7. paths[i] \in NamedFiles(paths)
    BY <2>3 DEF NamedFiles
  <2> QED BY <2>2, <2>4, <2>6, <2>7 DEF InNamed
<1>3. ASSUME InNamed(p, files, paths, n) PROVE InArchive(p, n)
  <2>1. PICK g \in 1..Len(files) : g \in NamedFiles(paths) /\ \E a \in 1..Len(files[g]) : Own(p, files[g][a]) /\ files[g][a].n = n
    BY <1>3 DEF InNamed
  <2>2. PICK a \in 1..Len(files[g]) : Own(p, files[g][a]) /\ files[g][a].n = n
    BY <2>1
  <2>3. PICK i \in 0..MaxRotate : paths[i] = g /\ g # 0
    BY <2>1 DEF NamedFiles
  <2>4. Archive(i) = files[g]
    BY <2>3 DEF Archive
  <2>5. files[g] \in Lines
    BY <1>1, FileIs
  <2>6. files[g][a] \in Range(Archive(i))
    BY <2>4, <2>5, RangeIs
  <2> QED BY <2>2, <2>6 DEF InArchive
<1> QED BY <1>2, <1>3

\* What is kept is what can be read or is to be written.
LEMMA KeptIs ==
  ASSUME PathsOk(paths, files), NEW p, held[p] \o toWrite[p] \in Lines, NEW n
  PROVE  n \in Kept(p) <=> IsThere(p, files, paths, held[p] \o toWrite[p], n)
<1>1. PICK q \in Lines : q = held[p] \o toWrite[p]
  OBVIOUS
<1>2. n \in Kept(p) <=> (\E e \in Range(q) : Own(p, e) /\ e.n = n) \/ InArchive(p, n)
  BY <1>1 DEF Kept, InArchive
<1>3. (\E e \in Range(q) : Own(p, e) /\ e.n = n) <=> InQueue(p, q, n)
  <2>1. \A e : e \in Range(q) <=> \E k \in 1..Len(q) : e = q[k]
    BY RangeIs
  <2> QED BY <2>1 DEF InQueue
<1> QED BY <1>1, <1>2, <1>3, InArchiveIs DEF IsThere

\* The types,
LEMMA LogIsTyped == LogInv => LogTypeOK
<1>1. SUFFICES ASSUME LogInv PROVE LogTypeOK
  OBVIOUS
<1>2. \A p \in Loggers : logFile[p] \in 0..Len(files)
  BY <1>1 DEF LogInv, ProcNow, Proc, Told
<1>3. LogTypes /\ PathsOk(paths, files)
  BY <1>1 DEF LogInv
<1>4. logFile \in [Loggers -> 0..Len(files)]
  BY <1>2, <1>3 DEF LogTypes
<1> QED BY <1>3, <1>4 DEF LogTypes, PathsOk, LogTypeOK, Ats

\* the order,
LEMMA LogIsInOrder == LogInv => InOrder
<1>1. SUFFICES ASSUME LogInv, NEW p \in Loggers, NEW i \in 0..MaxRotate, NEW j \in 0..MaxRotate,
                      NEW a \in DOMAIN Archive(i), NEW b \in DOMAIN Archive(j),
                      Own(p, Archive(i)[a]), Own(p, Archive(j)[b]), i > j \/ (i = j /\ a < b)
               PROVE  Archive(i)[a].n < Archive(j)[b].n
  BY DEF InOrder
<1>2. PathsOk(paths, files) /\ FilesUp(p, files)
  BY <1>1 DEF LogInv, ProcNow, Proc, Told
<1>3. ASSUME NEW k \in 0..MaxRotate, NEW x \in DOMAIN Archive(k)
      PROVE  paths[k] \in 1..Len(files) /\ paths[k] # 0 /\ Archive(k) = files[paths[k]] /\ x \in 1..Len(files[paths[k]])
  <2>1. paths[k] # 0
    <3>1. SUFFICES ASSUME paths[k] = 0 PROVE FALSE
      OBVIOUS
    <3>2. Archive(k) = <<>>
      BY <3>1 DEF Archive
    <3> QED BY <1>3, <3>2
  <2>2. files \in Seq(Lines) /\ paths[k] \in 0..Len(files)
    BY <1>2 DEF PathsOk
  <2>3. paths[k] \in 1..Len(files) /\ Archive(k) = files[paths[k]]
    BY <2>1, <2>2, LenProperties DEF Archive
  <2>4. files[paths[k]] \in Seq(Entries)
    BY <2>2, <2>3, FileIs DEF Lines
  <2>5. DOMAIN files[paths[k]] = 1..Len(files[paths[k]])
    BY <2>4, LenProperties
  <2> QED BY <1>3, <2>1, <2>3, <2>5
<1>4. paths[i] \in 1..Len(files) /\ paths[i] # 0 /\ Archive(i) = files[paths[i]] /\ a \in 1..Len(files[paths[i]])
  BY <1>3
<1>5. paths[j] \in 1..Len(files) /\ paths[j] # 0 /\ Archive(j) = files[paths[j]] /\ b \in 1..Len(files[paths[j]])
  BY <1>3
<1>6. StandsBefore(paths[i], a, paths[j], b)
  <2>1. CASE i > j
    <3>1. j < i
      BY <2>1
    <3>2. paths[i] < paths[j]
      BY <1>2, <1>4, <1>5, <3>1 DEF PathsOk
    <3> QED BY <3>2 DEF StandsBefore
  <2>2. CASE i = j /\ a < b
    BY <2>2 DEF StandsBefore
  <2> QED BY <1>1, <2>1, <2>2
<1> QED BY <1>1, <1>2, <1>4, <1>5, <1>6 DEF FilesUp

\* what is missing,
LEMMA LogIsComplete == LogInv => NoneMissing
<1>1. SUFFICES ASSUME LogInv, "repeats" \notin logFlags, NEW p \in Rotators, NEW n \in 1..Len(said[p]),
                      NEW m \in Kept(p), m < n, n \notin Kept(p)
               PROVE  \E e \in crashed : e.by = p /\ e.n = n
  BY DEF NoneMissing
<1>2. p \in Loggers
  BY LogAssumption
<1>3. /\ PathsOk(paths, files)
      /\ Proc(p, files, paths, logFile[p], held[p], toWrite[p], logAt[p], rung[p], Len(said[p]), crashed, logFlags)
  BY <1>1, <1>2 DEF LogInv, ProcNow
<1>4. Told(p, files, logFile[p], held[p] \o toWrite[p], Len(said[p]))
  BY <1>3 DEF Proc
<1>5. Complete(p, files, paths, held[p] \o toWrite[p], Len(said[p]), crashed)
  BY <1>1, <1>3 DEF Proc, Whole
<1>6. PICK q : q = held[p] \o toWrite[p]
  OBVIOUS
<1>7. q \in Lines /\ QueueOf(p, q, Len(said[p])) /\ InFiles(p, files, logFile[p], q, Len(said[p]))
  BY <1>4, <1>6 DEF Told, QueueOf
<1>8. IsThere(p, files, paths, q, m) /\ ~IsThere(p, files, paths, q, n)
  BY <1>1, <1>3, <1>6, <1>7, KeptIs
<1>9. m \in 1..Len(said[p])
  BY <1>7, <1>8 DEF IsThere, InNamed, InQueue, QueueOf, InFiles
<1>10. Lost(p, crashed, n)
  BY <1>1, <1>5, <1>6, <1>8, <1>9 DEF Complete
<1> QED BY <1>10 DEF Lost

\* and all that is said of logs.
LEMMA LogIsKept == LogInv => LogTypeOK /\ LogsKept
<1>1. LogInv => FlushedWhenSaid
  BY DEF LogInv, ProcNow, Proc, Control, FlushedWhenSaid
<1> QED BY <1>1, LogIsTyped, LogIsInOrder, LogIsComplete DEF LogsKept

-----------------------------------------------------------------------------
(* The processes of the program                                            *)

\* The parts that rest are as they were when they started.
ProcessesInv ==
  /\ LogInv /\ SpawnInv /\ ConfigInv

\* Each of them keeps to its own.
LEMMA ProcessesKeep ==
  ProcessesInv /\ [Daemon \/ Typed \/ Looping \/ Logging \/ Spawning \/ Configuring]_programVars =>
    ProcessesInv'
<1> SUFFICES ASSUME ProcessesInv,
                    [Daemon \/ Typed \/ Looping \/ Logging \/ Spawning \/ Configuring]_programVars
             PROVE  ProcessesInv'
  OBVIOUS
<1>1. [LogNext]_logVars
  BY DEF Daemon, Typed, Looping, Logging, Spawning, Configuring, programVars
<1>2. [SpawnNext]_spawnVars
  BY DEF Daemon, Typed, Looping, Logging, Spawning, Configuring, programVars
<1>3. [ConfigNext]_configVars
  BY DEF Daemon, Typed, Looping, Logging, Spawning, Configuring, programVars
<1> QED BY <1>1, <1>2, <1>3, LogKeeps, SpawnKeeps, ConfigKeeps DEF ProcessesInv

\* For any processes and any log that they share, for any table of descriptors, and for all
\* configs: the log keeps what a process said, each message once and in its order, over
\* rotations, forks and crashes (Log.c); the programs that are started have the ends of
\* their own links and no others (SpawnPrograms.c); and a process that runs is what its
\* config asked for (Process.c).
THEOREM ProcessesAreTrue == Spec => []ProcessesTrue
<1>1. Init => ProcessesInv
  BY LogStarts, SpawnStarts, ConfigStarts DEF Init, ProcessesInv
<1>2. ProcessesInv => ProcessesTrue
  BY LogIsKept, SpawnIsRight, ConfigIsApplied DEF ProcessesInv, ProcessesTrue
<1> QED BY <1>1, <1>2, ProcessesKeep, PTL DEF Spec

-----------------------------------------------------------------------------
(* The types of a time that is typed                                       *)

\* What mktime is off by, if it is off, has the sign of summer.
LEMMA HoursAre ==
  ASSUME summer \in BOOLEAN, NEW hours \in MktimeError
  PROVE  hours \in -1..1 /\ (hours # 0 => (summer <=> hours = 1))
BY DEF MktimeError

\* The time that is typed, and what is done with it.
LEMMA SetTimeIsTyped == SetTimeTypeOK /\ [SetTimeFromCommandLine]_setTimeVars => SetTimeTypeOK'
<1> SUFFICES ASSUME SetTimeTypeOK, [SetTimeFromCommandLine]_setTimeVars PROVE SetTimeTypeOK'
  OBVIOUS
<1>1. CASE UNCHANGED setTimeVars
  BY <1>1 DEF setTimeVars, SetTimeTypeOK
<1>2. CASE SetTimeFromCommandLine
  <2>1. typed' = typed /\ summer' = summer /\ summer \in BOOLEAN
    BY <1>2 DEF SetTimeFromCommandLine, SetTimeTypeOK
  <2>2. \E d \in {"none", "typed", "today", "garbled"} : \E t \in {"none", "typed", "now"} : \E hours \in MktimeError :
          time' = [date |-> d, time |-> t, hours |-> hours]
    <3>1. DateOf(DateField) \in {"typed", "garbled"}
      BY DEF DateOf
    <3>2. CASE SetFromFields
      <4>1. PICK hours \in MktimeError :
              time' = [date |-> IF DateField = NoField THEN "today" ELSE DateOf(DateField),
                       time |-> IF TimeField = NoField THEN "now" ELSE "typed", hours |-> hours]
        BY <3>2 DEF SetFromFields
      <4> QED BY <3>1, <4>1
    <3>3. CASE SetFromNames
      <4>1. PICK skips \in BOOLEAN, hours \in MktimeError :
              time' = [date |-> IF skips \/ typed[1].zone = "none" THEN "typed" ELSE "garbled",
                       time |-> "typed", hours |-> hours]
        BY <3>3 DEF SetFromNames
      <4> QED BY <4>1
    <3> QED BY <1>2, <3>2, <3>3 DEF SetTimeFromCommandLine
  <2>3. PICK d \in {"none", "typed", "today", "garbled"}, t \in {"none", "typed", "now"}, hours \in MktimeError :
          time' = [date |-> d, time |-> t, hours |-> hours]
    BY <2>2
  <2>4. hours \in -1..1 /\ (hours # 0 => (summer <=> hours = 1))
    BY <2>1, HoursAre
  <2> QED BY <2>1, <2>3, <2>4 DEF SetTimeTypeOK
<1> QED BY <1>1, <1>2

\* Nothing is set yet.
LEMMA SetTimeStartsTyped == SetTimeInit => SetTimeTypeOK
<1>1. 0 \in -1..1
  OBVIOUS
<1> QED BY <1>1, SetTimeAssumption DEF SetTimeInit, SetTimeTypeOK, Unset

-----------------------------------------------------------------------------
(* The types of the loop with its servers                                 *)

\* The zones that the lines of servers leave are zones.
LEMMA ZonesAre ==
  ASSUME SourcesTypeOK
  PROVE  /\ Restored(tz) \in Names \cup {"unset"} /\ Restored(remote) \in Names \cup {"unset"}
         /\ \A field \in Names : Keeps(field) \in Names
         /\ serverZone \in Names
BY SourcesAssumption DEF SourcesTypeOK, Restored, Keeps, Names

\* The error of a date is a number of hours.
LEMMA ErrorIs == ASSUME SourcesTypeOK, NEW zone PROVE ParseError(zone) \in Int
<1>1. serverZone \in Zones /\ Local \in Zones /\ Known \subseteq Zones /\ Offset \in [Zones -> Int]
  BY SourcesAssumption DEF SourcesTypeOK
<1>2. \A z \in Zones : Offset[z] \in Int
  BY <1>1
<1>3. Local \in Zones /\ (zone \in Known => zone \in Zones) /\ 0 \in Int
  BY <1>1
<1>4. LibcOffset(zone) \in Int
  BY <1>2, <1>3 DEF LibcOffset
<1> QED BY <1>1, <1>2, <1>4 DEF ParseError

\* The server that is asked and those after it.
LEMMA TodoIs ==
  ASSUME NEW s \in Seq(Kinds), s # <<>>
  PROVE  Tail(s) \in Seq(Kinds) /\ Head(s) \in Kinds
<1>1. Len(s) \in Nat /\ Len(s) # 0 /\ 1 \in 1..Len(s)
  BY EmptySeq, LenProperties
<1>2. s[1] \in Kinds
  BY <1>1, ElementOfSeq
<1> QED BY <1>1, <1>2, HeadTailProperties

\* A turn of the loop that asks a server comes to one of its ends.
AsksOn == todo' \in Seq(Kinds) /\ pc' = (IF todo' = <<>> THEN "receive" ELSE "ask")
Rest == UNCHANGED <<fixed, serverZone, service>>

\* What asking the next of them comes to.
LEMMA NextIs ==
  ASSUME SourcesTypeOK, NEW rest \in Seq(Kinds), AskNext(rest)
  PROVE  AsksOn
BY DEF AskNext, AsksOn

\* A server has no time.
LEMMA FailedIs ==
  ASSUME SourcesTypeOK, todo # <<>>, Failed, Rest, pc \in {"ask", "read"},
         remote' \in Names, tz' \in Names \cup {"unset"}
  PROVE  SourcesTypeOK'
<1>1. Tail(todo) \in Seq(Kinds)
  BY TodoIs DEF SourcesTypeOK
<1>2. AsksOn
  BY <1>1, NextIs DEF Failed
<1>3. got' = got /\ shown' = shown
  BY DEF Failed, given
<1> QED BY <1>2, <1>3 DEF AsksOn, SourcesTypeOK, Rest, fixed, service

\* A server has a time.
LEMMA HandedIs ==
  ASSUME SourcesTypeOK, todo # <<>>, NEW error \in Int, NEW zone \in Names \cup {"unset"}, HandedOver(error, zone), Rest,
         pc \in {"ask", "read"}, remote' \in Names
  PROVE  SourcesTypeOK'
<1>1. Head(todo) \in Kinds /\ <<>> \in Seq(Kinds)
  BY TodoIs, EmptySeq DEF SourcesTypeOK
<1>2. AsksOn
  BY <1>1, NextIs DEF HandedOver
<1>3. got' = [kind |-> Head(todo), zone |-> serverZone, error |-> error] /\ tz' = zone /\ shown' = zone
  BY DEF HandedOver
<1>4. got' \in [kind : Kinds \cup {"none"}, zone : Zones \cup {""}, error : Int]
  BY <1>1, <1>3 DEF SourcesTypeOK
<1> QED BY <1>2, <1>3, <1>4 DEF AsksOn, SourcesTypeOK, Rest, fixed, service

\* Every turn of the loop, and every line of a server.
LEMMA SourcesIsTyped == SourcesTypeOK /\ [SourcesNext]_sourceVars => SourcesTypeOK'
<1> SUFFICES ASSUME SourcesTypeOK, [SourcesNext]_sourceVars PROVE SourcesTypeOK'
  OBVIOUS
<1>0. /\ 0 \in Int /\ Garbage \in Int /\ tz \in Names \cup {"unset"} /\ remote \in Names
      /\ pc \in {"ask", "read"} => todo # <<>>
  <2>1. Garbage \in Int
    BY DEF Garbage
  <2>2. pc \in {"ask", "read"} => todo # <<>>
    BY DEF SourcesTypeOK
  <2>3. tz \in Names \cup {"unset"} /\ remote \in Names
    BY DEF SourcesTypeOK
  <2>4. 0 \in Int
    OBVIOUS
  <2> QED BY <2>1, <2>2, <2>3, <2>4
<1>16. MaxQueue \in Nat /\ queue \in Nat /\ ours \in Nat /\ queue <= MaxQueue /\ ours <= queue
  <2>1. MaxQueue \in Nat
    BY SourcesAssumption
  <2>2. queue \in 0..MaxQueue /\ ours \in 0..queue
    BY DEF SourcesTypeOK
  <2> QED BY <2>1, <2>2
<1>1. CASE Top
  <2>1. chain \in Seq(Kinds) /\ <<>> \in Seq(Kinds)
    <3>1. chain = DefaultServers \/ \E kind \in Kinds : chain = <<kind>>
      BY SourcesAssumption DEF SourcesTypeOK
    <3>2. DefaultServers \in Seq(Kinds)
      BY DEF DefaultServers, Kinds
    <3>3. \A kind \in Kinds : <<kind>> \in Seq(Kinds)
      OBVIOUS
    <3>4. chain \in Seq(Kinds)
      BY <3>1, <3>2, <3>3
    <3> QED BY <3>4, EmptySeq
  <2>2. AsksOn
    BY <1>1, <2>1, NextIs DEF Top
  <2> QED BY <1>1, <2>2 DEF Top, AsksOn, SourcesTypeOK, fixed, zoneVars, given, service
<1>2. CASE Receive
  <2>1. todo = <<>> /\ pc' = "select" /\ todo' = todo
    BY <1>2 DEF Receive, SourcesTypeOK
  <2>2. queue' \in 0..MaxQueue /\ ours' \in 0..queue'
    <3>1. CASE ready
      <4>1. queue > 0 /\ queue' = queue - 1 /\ ours' = IF ours > 0 THEN ours - 1 ELSE 0
        BY <1>2, <3>1 DEF Receive, Serves, SourcesTypeOK
      <4> QED BY <1>16, <4>1
    <3>2. CASE ~ready
      BY <1>2, <3>2 DEF Receive, Serves, SourcesTypeOK
    <3> QED BY <3>1, <3>2
  <2> QED BY <1>2, <2>1, <2>2 DEF Receive, SourcesTypeOK, fixed, zoneVars, given
<1>3. CASE Select
  <2>1. ready' = (queue > 0) /\ pc' = "top" /\ pc = "select" /\ UNCHANGED <<queue, ours, todo>>
    BY <1>3 DEF Select
  <2>2. ready' \in BOOLEAN /\ (ready' => queue' > 0) /\ todo' = <<>>
    <3>1. todo = <<>>
      BY <2>1 DEF SourcesTypeOK
    <3>2. ready' \in BOOLEAN /\ (ready' => queue > 0)
      <4>1. CASE queue > 0
        <5>1. ready' = TRUE
          BY <2>1, <4>1, Zenon
        <5> QED BY <4>1, <5>1
      <4>2. CASE ~(queue > 0)
        <5>1. (queue > 0) = FALSE
          BY <4>2
        <5>2. ready' = FALSE
          BY <2>1, <5>1, Zenon
        <5> QED BY <5>2
      <4> QED BY <4>1, <4>2
    <3> QED BY <2>1, <3>1, <3>2
  <2>3. queue' \in 0..MaxQueue /\ ours' \in 0..queue'
    BY <2>1 DEF SourcesTypeOK
  <2>4. /\ chain' \in Chains /\ tzOption' \in TzOptions /\ remote' \in Names /\ tz' \in Names \cup {"unset"}
        /\ shown' \in Names \cup {"unset"} /\ serverZone' \in Zones
        /\ got' \in [kind : Kinds \cup {"none"}, zone : Zones \cup {""}, error : Int] /\ todo' \in Seq(Kinds)
    BY <1>3 DEF Select, SourcesTypeOK, fixed, zoneVars, given
  <2> QED BY <2>1, <2>2, <2>3, <2>4 DEF SourcesTypeOK
<1>4. CASE NoAnswer
  <2>1. Rest /\ Failed /\ remote' = remote /\ tz' = tz /\ pc = "ask"
    BY <1>4 DEF NoAnswer, Rest, zoneVars
  <2> QED BY <1>0, <2>1, FailedIs
<1>5. CASE Connect
  BY <1>5 DEF Connect, Asking, SourcesTypeOK, fixed, zoneVars, given, service
<1>6. CASE ExactTime \/ ShortTime
  <2>1. Rest /\ remote' = remote /\ pc = "ask" /\ \E error \in {0, Garbage} : HandedOver(error, tz)
    BY <1>6 DEF ExactTime, ShortTime, Rest
  <2>2. PICK error \in {0, Garbage} : HandedOver(error, tz)
    BY <2>1
  <2>3. error \in Int
    BY <1>0
  <2> QED BY <1>0, <2>1, <2>2, <2>3, HandedIs
<1>7. CASE HttpDate \/ SshDate
  <2>1. /\ Rest /\ pc \in {"ask", "read"} /\ HandedOver(ParseError(remote'), Restored(tz))
        /\ \E field \in {serverZone, "junk"} : remote' = Keeps(field)
    BY <1>7 DEF HttpDate, SshDate, Rest
  <2>2. remote' \in Names /\ Restored(tz) \in Names \cup {"unset"}
    BY <2>1, ZonesAre DEF Names
  <2>3. ParseError(remote') \in Int
    BY ErrorIs
  <2> QED BY <1>0, <2>1, <2>2, <2>3, HandedIs
<1>8. CASE OtherDaytimeLine
  <2>1. Rest /\ Failed /\ remote' = remote /\ tz' = Restored(remote) /\ pc = "read"
    BY <1>8 DEF OtherDaytimeLine, Rest
  <2>2. tz' \in Names \cup {"unset"}
    BY <2>1, ZonesAre
  <2> QED BY <1>0, <2>1, <2>2, FailedIs
<1>9. CASE DaytimeLine
  <2>1. Rest /\ remote' = remote /\ pc = "read" /\ HandedOver(ParseError(remote), Restored(remote))
    BY <1>9 DEF DaytimeLine, Rest
  <2>2. Restored(remote) \in Names \cup {"unset"} /\ ParseError(remote) \in Int
    BY ZonesAre, ErrorIs
  <2> QED BY <1>0, <2>1, <2>2, HandedIs
<1>10. CASE DaytimeCrash
  BY <1>10 DEF DaytimeCrash, SourcesTypeOK, fixed, zoneVars, given, service
<1>11. CASE SshEnd
  <2>1. Rest /\ Failed /\ remote' = remote /\ tz' = tz /\ pc = "read"
    BY <1>11 DEF SshEnd, Rest, zoneVars
  <2> QED BY <1>0, <2>1, FailedIs
<1>12. CASE OtherSshLine
  <2>1. remote' \in Names /\ tz' \in Names \cup {"unset"}
    BY <1>12, ZonesAre DEF OtherSshLine, Names
  <2> QED BY <1>12, <2>1 DEF OtherSshLine, SourcesTypeOK, fixed, given, service
<1>13. CASE ZoneChanges
  BY <1>13 DEF ZoneChanges, SourcesTypeOK, fixed, zoneVars, given, service
<1>14. CASE Arrive
  <2>2. queue' \in 0..MaxQueue /\ ours' \in 0..queue' /\ queue' > 0
    <3>1. queue < MaxQueue /\ queue' = queue + 1 /\ ours' \in {ours, IF ours = 0 THEN queue' ELSE ours}
      BY <1>14 DEF Arrive
    <3> QED BY <1>16, <3>1
  <2> QED BY <1>14, <2>2 DEF Arrive, SourcesTypeOK, fixed, zoneVars, given
<1>15. CASE UNCHANGED sourceVars
  BY <1>15 DEF sourceVars, SourcesTypeOK
<1> QED BY <1>1, <1>2, <1>3, <1>4, <1>5, <1>6, <1>7, <1>8, <1>9, <1>10, <1>11, <1>12, <1>13, <1>14, <1>15
        DEF SourcesNext, Loop, Ask, ServerEnds

\* The loop has not begun.
LEMMA SourcesStartTyped == SourcesInit => SourcesTypeOK
<1> SUFFICES ASSUME SourcesInit PROVE SourcesTypeOK
  OBVIOUS
<1>1. 0 \in 0..MaxQueue /\ <<>> \in Seq(Kinds)
  <2>1. MaxQueue \in Nat
    BY SourcesAssumption
  <2> QED BY <2>1, EmptySeq
<1>2. got \in [kind : Kinds \cup {"none"}, zone : Zones \cup {""}, error : Int]
  <2>1. got = [kind |-> "none", zone |-> "", error |-> 0]
    BY DEF SourcesInit, Nothing
  <2>2. "none" \in Kinds \cup {"none"} /\ "" \in Zones \cup {""} /\ 0 \in Int
    OBVIOUS
  <2> QED BY <2>1, <2>2
<1>3. /\ remote \in Names /\ tz \in Names \cup {"unset"} /\ shown \in Names \cup {"unset"}
      /\ chain \in Chains /\ tzOption \in TzOptions /\ serverZone \in Zones
  BY SourcesAssumption DEF SourcesInit, Names
<1>4. pc = "top" /\ todo = <<>> /\ ready = FALSE /\ queue = 0 /\ ours = 0
  BY DEF SourcesInit
<1>5. todo \in Seq(Kinds) /\ (pc \in {"ask", "read"} <=> todo # <<>> /\ pc # "crashed") /\ ready \in BOOLEAN
  BY <1>1, <1>4
<1>6. queue \in 0..MaxQueue /\ ours \in 0..queue /\ (ready /\ pc \in {"top", "ask", "read", "receive"} => queue > 0)
  BY <1>1, <1>4
<1> QED BY <1>2, <1>3, <1>4, <1>5, <1>6 DEF SourcesTypeOK

-----------------------------------------------------------------------------
(* The types of the start                                                  *)

Flags == UNION {Sets(o) : o \in Options}
ArgsOf == [flags : SUBSET Flags, url : Urls]

\* The flags and the URL of a command line stay flags and a URL.
LEMMA ArgsTyped ==
  ASSUME NEW a \in ArgsOf, NEW option \in Options
  PROVE  AfterOption(a, option) \in ArgsOf
<1>1. FlagsAfter(a, option) \in SUBSET Flags
  BY DEF ArgsOf, FlagsAfter, Flags
<1>2. UrlOfHost(a) \in Urls
  <2> DEFINE asked == {i \in DOMAIN Precedence : Precedence[i] \in a.flags}
  <2>1. CASE asked = {}
    BY <2>1 DEF UrlOfHost, ArgsOf
  <2>2. CASE asked # {}
    <3>1. DOMAIN Precedence = 1..6
      BY DEF Precedence
    <3>2. asked \in SUBSET Nat /\ asked \subseteq 1..6
      BY <3>1
    <3>3. \E i \in asked : \A j \in asked : i <= j
      BY <2>2, <3>2, HasSmallest
    <3>4. PICK i : i = CHOOSE k \in asked : \A j \in asked : k <= j
      OBVIOUS
    <3>5. i \in 1..6
      <4> HIDE DEF asked
      <4> QED BY <3>2, <3>3, <3>4
    <3>6. i \in DOMAIN Protocol
      BY <3>5 DEF Protocol
    <3>7. UrlOfHost(a) = <<Protocol[i], "given">>
      BY <2>2, <3>4 DEF UrlOfHost
    <3> QED BY <3>6, <3>7 DEF Urls
  <2> QED BY <2>1, <2>2
<1>3. ASSUME option \in OwnServer PROVE ServerOf(option) \in Urls
  BY <1>3 DEF Urls
<1>4. UrlAfter(a, option) \in Urls
  <2>1. <<"any", "given">> \in Urls /\ a.url \in Urls
    BY DEF ArgsOf, Urls
  <2> QED BY <1>2, <1>3, <2>1 DEF UrlAfter
<1> QED BY <1>1, <1>4 DEF AfterOption, ArgsOf

\* A command line of which nothing is read.
LEMMA NoArgsTyped == NoArgs \in ArgsOf
<1>1. NoUrl \in Urls
  BY DEF Urls
<1> QED BY <1>1 DEF NoArgs, ArgsOf

\* Every step of every daemon.
LEMMA ArgsStay ==
  ASSUME args \in [Procs -> ArgsOf], OptionsInv, [StartupNext]_startVars
  PROVE  args' \in [Procs -> ArgsOf]
<1>1. CASE UNCHANGED startVars
  BY <1>1 DEF startVars
<1>2. CASE StartupNext
  <2> PICK p \in DOMAIN argv : Start(p) \/ Starting(p) \/ Finish(p) \/ Killed(p)
    BY <1>2 DEF StartupNext
  <2>1. p \in Procs
    BY DEF OptionsInv
  <2>2. CASE Start(p) \/ Ends(p)
    <3>1. args' = [args EXCEPT ![p] = NoArgs]
      BY <2>2 DEF Start, Ends
    <3> QED BY <2>1, <3>1, NoArgsTyped
  <2>3. CASE ParseOption(p)
    <3>1. args' = [args EXCEPT ![p] = AfterOption(args[p], argv[p][turn[p] + 1])]
          /\ turn[p] < Len(argv[p])
      BY <2>3 DEF ParseOption
    <3>2. argv[p] \in Seq(Options) /\ turn[p] \in Nat
      BY DEF OptionsInv, TurnInv
    <3>3. turn[p] + 1 \in 1..Len(argv[p])
      BY <3>1, <3>2, LenProperties
    <3>4. argv[p][turn[p] + 1] \in Options
      BY <3>2, <3>3, ElementOfSeq
    <3>5. AfterOption(args[p], argv[p][turn[p] + 1]) \in ArgsOf
      BY <2>1, <3>4, ArgsTyped
    <3> QED BY <2>1, <3>1, <3>5
  <2>4. CASE ~(Start(p) \/ Ends(p) \/ ParseOption(p))
    <3>1. args' = args
      BY <2>4 DEF Starting, Finish, Killed, EndOfOptions, Demonize, OpenPidFile, LockPidFile, LockFails,
                  TruncatePidFile, WritePid, BindPort, EnterLoop, At
    <3> QED BY <3>1
  <2> QED BY <2>2, <2>3, <2>4
<1> QED BY <1>1, <1>2

-----------------------------------------------------------------------------
\* A process that starts has pids left, and the file only ever has one of them.
PidOk(p) ==
  /\ pid[p] <= MaxPid
  /\ phase[p] # "off" => pid[p] >= 1
  /\ phase[p] = "parse" \/ "demonize" \in stages[p] => pid[p] + 2 <= MaxPid

FileOk ==
  /\ lock \in Procs \cup {Nobody}
  /\ file \in {None} \cup (Procs \X (1..MaxPid))

PidsOk == FileOk /\ \A p \in Procs : PidOk(p)

\* A step of one process, given what it does to that one.
LEMMA PidsOf ==
  ASSUME PidsOk, NEW p \in Procs, PidOk(p)',
         \A q \in Procs : q # p => phase'[q] = phase[q] /\ stages'[q] = stages[q] /\ pid'[q] = pid[q],
         lock' \in {lock, p, Nobody},
         file' = file \/ file' = None \/ (file' = Me(p) /\ pid[p] \in 1..MaxPid)
  PROVE  PidsOk'
<1>1. \A q \in Procs : q # p => PidOk(q)'
  BY DEF PidsOk, PidOk
<1>2. FileOk'
  BY DEF PidsOk, FileOk, Me
<1> QED BY <1>1, <1>2 DEF PidsOk

\* The pids are enough for every step.
LEMMA PidsStay ==
  ASSUME PidInv, PidsOk, [StartupNext]_startVars
  PROVE  PidsOk'
<1>0. MaxPid \in Nat
  BY StartupAssumption
<1>1. CASE UNCHANGED startVars
  BY <1>1 DEF startVars, PidsOk, PidOk, FileOk
<1>2. CASE StartupNext
  <2> PICK p \in DOMAIN argv : Start(p) \/ Starting(p) \/ Finish(p) \/ Killed(p)
    BY <1>2 DEF StartupNext
  <2>1. p \in Procs /\ PidOk(p) /\ LeftInv(p) /\ pid[p] \in Nat
    BY DEF PidInv, PidsOk
  <2>2. DOMAIN phase = Procs /\ DOMAIN stages = Procs /\ DOMAIN pid = Procs
    BY DEF PidInv
  <2>3. CASE Start(p)
    <3>1. /\ phase' = [phase EXCEPT ![p] = "parse"] /\ stages' = stages /\ lock' = lock /\ file' = file
          /\ pid' = [pid EXCEPT ![p] = @ + 1] /\ pid[p] + 3 <= MaxPid /\ phase[p] = "off"
      BY <2>3 DEF Start
    <3>2. /\ phase'[p] = "parse" /\ pid'[p] = pid[p] + 1
          /\ \A q \in Procs : q # p => phase'[q] = phase[q] /\ stages'[q] = stages[q] /\ pid'[q] = pid[q]
      BY <2>1, <2>2, <3>1
    <3>3. PidOk(p)'
      BY <1>0, <2>1, <3>1, <3>2 DEF PidOk
    <3> QED BY <2>1, <3>1, <3>2, <3>3, PidsOf
  <2>4. CASE EndOfOptions(p)
    <3>1. /\ phase' = [phase EXCEPT ![p] = "start"] /\ lock' = lock /\ file' = file /\ pid' = pid
          /\ phase[p] = "parse"
      BY <2>4 DEF EndOfOptions
    <3>2. \A q \in Procs : q # p => phase'[q] = phase[q] /\ stages'[q] = stages[q] /\ pid'[q] = pid[q]
      BY <2>2, <2>4 DEF EndOfOptions
    <3>3. phase'[p] = "start"
      BY <2>1, <2>2, <3>1
    <3>4. PidOk(p)'
      BY <2>1, <3>1, <3>3 DEF PidOk
    <3> QED BY <2>1, <3>1, <3>2, <3>4, PidsOf
  <2>5. CASE Demonize(p)
    <3>1. /\ phase' = phase /\ lock' = lock /\ file' = file /\ "demonize" \in stages[p] /\ phase[p] = "start"
          /\ pid' = [pid EXCEPT ![p] = @ + 2] /\ stages' = [stages EXCEPT ![p] = @ \ {"demonize"}]
      BY <2>5 DEF Demonize, At, Done
    <3>2. /\ pid'[p] = pid[p] + 2 /\ "demonize" \notin stages'[p]
          /\ \A q \in Procs : q # p => phase'[q] = phase[q] /\ stages'[q] = stages[q] /\ pid'[q] = pid[q]
      BY <2>1, <2>2, <3>1
    <3>3. PidOk(p)'
      BY <1>0, <2>1, <3>1, <3>2 DEF PidOk
    <3> QED BY <2>1, <3>1, <3>2, <3>3, PidsOf
  <2>6. CASE OpenPidFile(p) \/ LockPidFile(p) \/ LockFails(p) \/ TruncatePidFile(p) \/ WritePid(p) \/ BindPort(p)
    <3>1. /\ phase' = phase /\ phase[p] = "start" /\ pid' = pid
          /\ \E gone : stages' = [stages EXCEPT ![p] = @ \ gone]
      BY <2>6 DEF OpenPidFile, LockPidFile, LockFails, TruncatePidFile, WritePid, BindPort, At, Done
    <3>2. lock' \in {lock, p} /\ (file' = file \/ file' = None \/ file' = Me(p))
      BY <2>6 DEF OpenPidFile, LockPidFile, LockFails, TruncatePidFile, WritePid, BindPort, Locked, AsOpened
    <3>3. /\ stages'[p] \subseteq stages[p]
          /\ \A q \in Procs : q # p => phase'[q] = phase[q] /\ stages'[q] = stages[q] /\ pid'[q] = pid[q]
      BY <2>1, <2>2, <3>1
    <3>4. PidOk(p)' /\ pid[p] \in 1..MaxPid
      BY <1>0, <2>1, <3>1, <3>3 DEF PidOk
    <3> QED BY <2>1, <3>2, <3>3, <3>4, PidsOf
  <2>7. CASE EnterLoop(p)
    <3>1. /\ phase' = [phase EXCEPT ![p] = "run"] /\ stages' = stages /\ lock' = lock /\ file' = file /\ pid' = pid
          /\ phase[p] = "start"
      BY <2>7 DEF EnterLoop
    <3>2. /\ phase'[p] = "run"
          /\ \A q \in Procs : q # p => phase'[q] = phase[q] /\ stages'[q] = stages[q] /\ pid'[q] = pid[q]
      BY <2>1, <2>2, <3>1
    <3>3. PidOk(p)'
      BY <2>1, <3>1, <3>2 DEF PidOk
    <3> QED BY <2>1, <3>1, <3>2, <3>3, PidsOf
  <2>8. CASE Ends(p)
    <3>1. /\ phase' = [phase EXCEPT ![p] = "off"] /\ stages' = [stages EXCEPT ![p] = {}]
          /\ lock' \in {lock, Nobody} /\ file' = file /\ pid' = pid
      BY <2>8 DEF Ends
    <3>2. /\ phase'[p] = "off" /\ stages'[p] = {}
          /\ \A q \in Procs : q # p => phase'[q] = phase[q] /\ stages'[q] = stages[q] /\ pid'[q] = pid[q]
      BY <2>1, <2>2, <3>1
    <3>3. PidOk(p)'
      BY <2>1, <3>1, <3>2 DEF PidOk
    <3> QED BY <2>1, <3>1, <3>2, <3>3, PidsOf
  <2>9. CASE ParseOption(p)
    <3>1. UNCHANGED <<phase, stages, pid, lock, file>>
      BY <2>9 DEF ParseOption
    <3> QED BY <3>1 DEF PidsOk, PidOk, FileOk
  <2> QED BY <2>3, <2>4, <2>5, <2>6, <2>7, <2>8, <2>9 DEF Starting, Finish, Killed
<1> QED BY <1>1, <1>2

-----------------------------------------------------------------------------
\* Nobody is bound twice: one that is bound has nothing to bind.
Bound(p) == phase[p] \in {"start", "run"} /\ "bind" \notin stages[p]
Once(s) == \A k, l \in 1..Len(s) : k # l => s[k] # s[l]
PortOk == port \in Seq(Procs) /\ Once(port) /\ \A k \in 1..Len(port) : Bound(port[k])

\* One that ends is bound no more, and the others stay.
LEMMA WithoutIs ==
  ASSUME NEW s \in Seq(Procs), Once(s), NEW p \in Procs
  PROVE  /\ Without(s, p) \in Seq(Procs) /\ Once(Without(s, p))
         /\ \A k \in 1..Len(Without(s, p)) : Without(s, p)[k] # p /\ \E j \in 1..Len(s) : s[j] = Without(s, p)[k]
<1> DEFINE At1(x) == CHOOSE k \in 1..Len(s) : s[k] = x
           r == [x \in Procs |-> IF \E k \in 1..Len(s) : s[k] = x THEN At1(x) ELSE 0]
<1>1. \A k \in 1..Len(s) : s[k] \in Procs /\ At1(s[k]) = k
  BY ElementOfSeq DEF Once
<1>2. \A x \in Procs : r[x] \in Nat
  BY LenProperties
<1>3. r \in [Procs -> Nat]
  BY <1>2
<1>4. \A k \in 1..Len(s) : r[s[k]] = k
  BY <1>1
<1> HIDE DEF r
<1>5. Climbs(r, s, Len(s))
  BY <1>4 DEF Climbs
<1>6. PICK t : t = Only(s, Procs \ {p})
  OBVIOUS
<1>7. t \in Seq(Procs) /\ TakenOf(t, s, Procs \ {p}, Len(s)) /\ Climbs(r, t, Len(t))
  BY <1>3, <1>5, <1>6, OnlyTakes
<1>8. Once(t)
  <2> SUFFICES ASSUME NEW k \in 1..Len(t), NEW l \in 1..Len(t), k # l PROVE t[k] # t[l]
    BY DEF Once
  <2>1. Len(t) \in Nat /\ t[k] \in Procs /\ t[l] \in Procs
    BY <1>7, LenProperties, ElementOfSeq
  <2>2. k < l \/ l < k
    BY <2>1
  <2>3. r[t[k]] < r[t[l]] \/ r[t[l]] < r[t[k]]
    BY <1>7, <2>2 DEF Climbs
  <2>4. r[t[k]] \in Nat /\ r[t[l]] \in Nat
    BY <1>3, <2>1
  <2> QED BY <2>3, <2>4
<1>9. \A k \in 1..Len(t) : t[k] # p /\ \E j \in 1..Len(s) : s[j] = t[k]
  BY <1>7 DEF TakenOf
<1> QED BY <1>6, <1>7, <1>8, <1>9 DEF Without

\* Every step leaves each bound once.
LEMMA PortStays ==
  ASSUME PidInv, PortOk, [StartupNext]_startVars
  PROVE  PortOk'
<1>1. CASE UNCHANGED startVars
  BY <1>1 DEF startVars, PortOk, Bound
<1>2. CASE StartupNext
  <2> PICK p \in DOMAIN argv : Start(p) \/ Starting(p) \/ Finish(p) \/ Killed(p)
    BY <1>2 DEF StartupNext
  <2>1. p \in Procs /\ DOMAIN phase = Procs /\ DOMAIN stages = Procs /\ LeftInv(p)
    BY DEF PidInv
  <2>2. \A k \in 1..Len(port) : port[k] \in Procs
    BY ElementOfSeq DEF PortOk
  <2>3. CASE BindPort(p)
    <3>1. /\ phase' = phase /\ phase[p] = "start" /\ "bind" \in stages[p]
          /\ stages' = [stages EXCEPT ![p] = @ \ {"bind"}] /\ port' = <<p>> \o port
      BY <2>3 DEF BindPort, At, Done
    <3>2. /\ "bind" \notin stages'[p]
          /\ \A q \in Procs : q # p => stages'[q] = stages[q]
      BY <2>1, <3>1
    <3>3. \A k \in 1..Len(port) : port[k] # p
      BY <3>1 DEF PortOk, Bound
    <3>4. PICK old : old = port
      OBVIOUS
    <3>5. PICK new : new = <<p>> \o old
      OBVIOUS
    <3>6. old \in Seq(Procs) /\ Len(old) \in Nat
      BY <3>4, LenProperties DEF PortOk
    <3>7. /\ new \in Seq(Procs) /\ Len(new) = Len(old) + 1 /\ new[1] = p
          /\ \A k \in 1..Len(new) : k # 1 => k - 1 \in 1..Len(old) /\ new[k] = old[k - 1]
      BY <2>1, <3>5, <3>6
    <3>8. Once(new)
      <4> SUFFICES ASSUME NEW k \in 1..Len(new), NEW l \in 1..Len(new), k # l PROVE new[k] # new[l]
        BY DEF Once
      <4>1. CASE k = 1
        BY <3>3, <3>4, <3>7, <4>1
      <4>2. CASE l = 1
        BY <3>3, <3>4, <3>7, <4>2
      <4>3. CASE k # 1 /\ l # 1
        <5>1. k - 1 \in 1..Len(old) /\ l - 1 \in 1..Len(old) /\ new[k] = old[k - 1] /\ new[l] = old[l - 1]
          BY <3>7, <4>3
        <5>2. k - 1 # l - 1
          BY <3>6, <3>7
        <5>3. Once(old)
          BY <3>4 DEF PortOk
        <5>4. old[k - 1] # old[l - 1]
          BY <5>1, <5>2, <5>3 DEF Once
        <5> QED BY <5>1, <5>4
      <4> QED BY <4>1, <4>2, <4>3
    <3>9. \A k \in 1..Len(old) : Bound(old[k])'
      <4> SUFFICES ASSUME NEW k \in 1..Len(old) PROVE Bound(old[k])'
        OBVIOUS
      <4>1. Bound(old[k]) /\ old[k] # p /\ old[k] \in Procs
        BY <2>2, <3>3, <3>4 DEF PortOk
      <4> QED BY <3>1, <3>2, <4>1 DEF Bound
    <3>10. Bound(p)'
      BY <3>1, <3>2 DEF Bound
    <3>11. \A k \in 1..Len(new) : Bound(new[k])'
      BY <3>7, <3>9, <3>10
    <3>12. port' = new
      BY <3>1, <3>4, <3>5
    <3> QED BY <3>7, <3>8, <3>11, <3>12 DEF PortOk
  <2>4. CASE Ends(p)
    <3>1. /\ phase' = [phase EXCEPT ![p] = "off"] /\ stages' = [stages EXCEPT ![p] = {}]
          /\ port' = Without(port, p)
      BY <2>4 DEF Ends
    <3>2. \A q \in Procs : q # p => phase'[q] = phase[q] /\ stages'[q] = stages[q]
      BY <2>1, <3>1
    <3>3. PICK t : t = Without(port, p)
      OBVIOUS
    <3>4. /\ t \in Seq(Procs) /\ Once(t)
          /\ \A k \in 1..Len(t) : t[k] # p /\ \E j \in 1..Len(port) : port[j] = t[k]
      BY <2>1, <3>3, WithoutIs, ZenonT(30) DEF PortOk
    <3>5. \A k \in 1..Len(t) : Bound(t[k])'
      <4> SUFFICES ASSUME NEW k \in 1..Len(t) PROVE Bound(t[k])'
        OBVIOUS
      <4>1. PICK j \in 1..Len(port) : port[j] = t[k]
        BY <3>4
      <4>2. Bound(t[k]) /\ t[k] # p /\ t[k] \in Procs
        BY <2>2, <3>4, <4>1 DEF PortOk
      <4> QED BY <3>2, <4>2 DEF Bound
    <3>6. port' = t
      BY <3>1, <3>3
    <3> QED BY <3>4, <3>5, <3>6 DEF PortOk
  <2>5. CASE Start(p) \/ EndOfOptions(p)
    <3>1. /\ phase[p] \in {"off", "parse"} /\ port' = port
          /\ \A q \in Procs : q # p => phase'[q] = phase[q] /\ stages'[q] = stages[q]
      BY <2>1, <2>5 DEF Start, EndOfOptions
    <3>2. \A k \in 1..Len(port) : port[k] # p
      BY <3>1 DEF PortOk, Bound
    <3>3. \A k \in 1..Len(port) : Bound(port[k])'
      BY <2>2, <3>1, <3>2 DEF PortOk, Bound
    <3> QED BY <3>1, <3>3 DEF PortOk
  <2>6. CASE \/ Demonize(p) \/ OpenPidFile(p) \/ LockPidFile(p) \/ LockFails(p) \/ TruncatePidFile(p)
             \/ WritePid(p)
    <3>1. /\ phase' = phase /\ port' = port
          /\ \E gone : stages' = [stages EXCEPT ![p] = @ \ gone]
      BY <2>6 DEF Demonize, OpenPidFile, LockPidFile, LockFails, TruncatePidFile, WritePid, At, Done
    <3>2. \A q \in Procs : stages'[q] \subseteq stages[q]
      BY <2>1, <3>1
    <3>3. \A k \in 1..Len(port) : Bound(port[k])'
      BY <2>2, <3>1, <3>2 DEF PortOk, Bound
    <3> QED BY <3>1, <3>3 DEF PortOk
  <2>7. CASE EnterLoop(p) \/ ParseOption(p)
    <3>1. /\ phase' = phase \/ phase' = [phase EXCEPT ![p] = "run"]
          /\ stages' = stages /\ port' = port
      BY <2>7 DEF EnterLoop, ParseOption
    <3>2. \A q \in Procs : phase'[q] = phase[q] \/ phase'[q] = "run"
      BY <2>1, <3>1
    <3>3. \A k \in 1..Len(port) : Bound(port[k])'
      BY <2>2, <3>1, <3>2 DEF PortOk, Bound
    <3> QED BY <3>1, <3>3 DEF PortOk
  <2> QED BY <2>3, <2>4, <2>5, <2>6, <2>7 DEF Starting, Finish, Killed
<1> QED BY <1>1, <1>2

-----------------------------------------------------------------------------
\* All of it.
StartInv == PidInv /\ OptionsInv /\ args \in [Procs -> ArgsOf] /\ PidsOk /\ PortOk

\* Nobody has started.
LEMMA StartTypesBegin == StartupInit => args \in [Procs -> ArgsOf] /\ PidsOk /\ PortOk
<1> SUFFICES ASSUME StartupInit PROVE args \in [Procs -> ArgsOf] /\ PidsOk /\ PortOk
  OBVIOUS
<1>1. args \in [Procs -> ArgsOf]
  BY NoArgsTyped DEF StartupInit
<1>2. \A p \in Procs : PidOk(p)
  BY StartupAssumption DEF StartupInit, PidOk
<1>3. FileOk
  BY DEF StartupInit, FileOk
<1>4. port = <<>>
  BY DEF StartupInit
<1>5. PortOk
  BY <1>4, EmptySeq DEF PortOk, Once
<1> QED BY <1>1, <1>2, <1>3, <1>5 DEF PidsOk

\* What the types of the start are.
LEMMA StartIsTyped == StartInv => StartupTypeOK
<1> SUFFICES ASSUME StartInv PROVE StartupTypeOK
  OBVIOUS
<1>1. /\ DOMAIN argv \subseteq Procs /\ \A p \in DOMAIN argv : argv[p] \in Seq(Options)
      /\ \A p \in DOMAIN argv : turn[p] \in 0..Len(argv[p])
  BY LenProperties DEF StartInv, OptionsInv, TurnInv
<1>2. args \in [Procs -> [flags : SUBSET UNION {Sets(o) : o \in Options}, url : Urls]]
  BY DEF StartInv, ArgsOf, Flags
<1>3. pid \in [Procs -> 0..MaxPid]
  <2>1. pid \in [Procs -> Nat] /\ \A p \in Procs : pid[p] <= MaxPid
    BY DEF StartInv, PidInv, PidsOk, PidOk
  <2>2. \A p \in Procs : pid[p] \in 0..MaxPid
    BY <2>1, StartupAssumption
  <2> QED BY <2>1, <2>2
<1>4. \A k, l \in DOMAIN port : k # l => port[k] # port[l]
  <2>1. DOMAIN port = 1..Len(port)
    BY LenProperties DEF StartInv, PortOk
  <2> QED BY <2>1 DEF StartInv, PortOk, Once
<1> QED BY <1>1, <1>2, <1>3, <1>4 DEF StartInv, PidInv, PidsOk, FileOk, StartupTypeOK

-----------------------------------------------------------------------------
(* The types of the whole program                                          *)

\* What stays of a config, whatever becomes of its process.
ConfigFixed == passwd \in Passwds /\ DOMAIN config = Tasks

LEMMA ConfigStays == ConfigFixed /\ [ConfigNext]_configVars => ConfigFixed'
<1> SUFFICES ASSUME ConfigFixed, [ConfigNext]_configVars PROVE ConfigFixed'
  OBVIOUS
<1>1. passwd' = passwd /\ config' = config
  BY DEF ConfigNext, ApplyStep, FailsLater, FailsAtOnce, FailsAndEnds, Fails, RunsIt, TaskEnds, Step,
         configVars
<1> QED BY <1>1 DEF ConfigFixed

\* The words a process still has to apply are words.
LEMMA ConfigIsTyped == ConfigInv /\ ConfigFixed => ConfigTypeOK
<1> SUFFICES ASSUME ConfigInv, ConfigFixed PROVE ConfigTypeOK
  OBVIOUS
<1>1. ASSUME NEW p \in Tasks
      PROVE  /\ state[p] \in {"applies", "runs", "refused", "gone"}
             /\ Range(steps[p]) \subseteq ConfigWords \cup {"chdir", "look up user", "look up group"}
  <2>1. state[p] \in {"applies", "runs", "refused", "gone"} /\ steps[p] \in Seq(StepWords)
    BY DEF ConfigInv, TaskInv
  <2>2. PICK s : s = steps[p]
    OBVIOUS
  <2>3. DOMAIN s = 1..Len(s) /\ s \in Seq(StepWords)
    BY <2>1, <2>2, LenProperties
  <2>4. \A i \in DOMAIN s : s[i] \in StepWords
    BY <2>3, ElementOfSeq
  <2>5. Range(s) \subseteq StepWords
    BY <2>4 DEF Range
  <2> QED BY <2>1, <2>2, <2>5 DEF StepWords
<1> QED BY <1>1 DEF StepNames, ConfigFixed, ConfigTypeOK

ProgramInv ==
  /\ StartInv /\ SetTimeTypeOK /\ SourcesTypeOK
  /\ ProcessesInv /\ ConfigFixed

\* For any daemons, servers, zones, logs, descriptors and configs: every variable of the
\* program keeps its type; in particular no daemon is bound to the port twice, the loop asks
\* a server exactly while one is left to ask, and it reads a request only if one is there
\* (main.c, command-line-args.c, settime.c, Log.c, SpawnPrograms.c, Process.c).
THEOREM ProgramIsTyped == Spec => []ProgramTypeOK
<1>1. Init => ProgramInv
  <2> SUFFICES ASSUME Init PROVE ProgramInv
    OBVIOUS
  <2>1. StartInv
    BY PidStarts, OptionsStart, StartTypesBegin DEF Init, StartInv
  <2>2. SetTimeTypeOK /\ SourcesTypeOK
    BY SetTimeStartsTyped, SourcesStartTyped DEF Init
  <2>3. ProcessesInv
    BY LogStarts, SpawnStarts, ConfigStarts DEF Init, ProcessesInv
  <2>4. ConfigFixed
    BY DEF Init, ConfigInit, ConfigFixed
  <2> QED BY <2>1, <2>2, <2>3, <2>4 DEF ProgramInv
<1>2. ProgramInv /\ [Daemon \/ Typed \/ Looping \/ Logging \/ Spawning \/ Configuring]_programVars => ProgramInv'
  <2> SUFFICES ASSUME ProgramInv,
                      [Daemon \/ Typed \/ Looping \/ Logging \/ Spawning \/ Configuring]_programVars
               PROVE  ProgramInv'
    OBVIOUS
  <2>1. /\ [StartupNext]_startVars /\ [SetTimeFromCommandLine]_setTimeVars /\ [SourcesNext]_sourceVars
        /\ [ConfigNext]_configVars
    BY DEF Daemon, Typed, Looping, Logging, Spawning, Configuring, programVars
  <2>2. StartInv'
    BY <2>1, PidStep, OptionsKeep, ArgsStay, PidsStay, PortStays DEF ProgramInv, StartInv
  <2>3. SetTimeTypeOK'
    BY <2>1, SetTimeIsTyped DEF ProgramInv
  <2>4. SourcesTypeOK'
    BY <2>1, SourcesIsTyped DEF ProgramInv
  <2>5. ProcessesInv'
    BY ProcessesKeep DEF ProgramInv
  <2>6. ConfigFixed'
    BY <2>1, ConfigStays DEF ProgramInv
  <2> QED BY <2>2, <2>3, <2>4, <2>5, <2>6 DEF ProgramInv
<1>3. ProgramInv => ProgramTypeOK
  <2> SUFFICES ASSUME ProgramInv PROVE ProgramTypeOK
    OBVIOUS
  <2>1. StartupTypeOK
    BY StartIsTyped DEF ProgramInv
  <2>2. LogTypeOK
    BY LogIsKept DEF ProgramInv, ProcessesInv
  <2>3. SpawnTypeOK
    BY SpawnIsRight DEF ProgramInv, ProcessesInv
  <2>4. ConfigTypeOK
    BY ConfigIsTyped DEF ProgramInv, ProcessesInv
  <2> QED BY <2>1, <2>2, <2>3, <2>4 DEF ProgramInv, ProgramTypeOK
<1> QED BY <1>1, <1>2, <1>3, PTL DEF Spec
=============================================================================
