------------------------------ MODULE Startup ------------------------------
(***************************************************************************)
(* Daemons that are started, killed and started again on one machine       *)
(* (main.c, libUseful/Process.c): the command line, demonize, the pid file *)
(* and its lock, and port 123.  The command line comes first.              *)
(***************************************************************************)
EXTENDS Naturals, SequencesExt, Selection

-----------------------------------------------------------------------------
(***************************************************************************)
(* CommandLineParse (command-line-args.c): what each option does to the    *)
(* flags and to the URL.                                                   *)
(***************************************************************************)

\* No argv[0].  "host" is a server's name without a protocol, "url" one with
\* it; an option with a value is one element, -S takes all that follow.
Options ==
  {"-s", "-r", "-P", "-S", "-d", "-D", "-daytime", "-time", "-nist", "-http", "-sntp", "-ssh",
   "-sntpd", "-sntp-bcast", "bcast", "host", "url"}

Sets(option) ==
  CASE option = "-s" -> {"SETSYS"}
    [] option = "-r" -> {"SETRTC"}
    [] option = "-P" -> {"PIDFILE"}
    [] option = "-S" -> {"CMDLINE_TIME", "SETSYS"}
    [] option = "-d" -> {"DEMON", "BACKGROUND"}
    [] option = "-D" -> {"DEMON"}
    [] option = "-sntpd" -> {"SNTPD", "DEMON", "BACKGROUND"}
    [] option = "-daytime" -> {"DAYTIME"}
    [] option = "-time" -> {"TIME"}
    [] option = "-nist" -> {"NIST"}
    [] option = "-http" -> {"HTTP"}
    [] option = "-sntp" -> {"SNTP"}
    [] option = "-ssh" -> {"SSH"}
    [] option = "-sntp-bcast" -> {"BCAST_SEND"}
    [] option = "bcast" -> {"BCAST_RECV"}
    [] OTHER -> {}

Clears(option) ==
  CASE option = "-D" -> {"BACKGROUND"} [] option = "bcast" -> {"SNTP"} [] OTHER -> {}

\* The options that come with a server, and the server.
OwnServer == {"-time", "-nist", "-http", "-sntp"}
ServerOf(option) ==
  CASE option = "-time" -> <<"time", "time-a.nist.gov">>
    [] option = "-nist" -> <<"nist", "time-a.nist.gov">>
    [] option = "-http" -> <<"http", "www.google.com">>
    [] option = "-sntp" -> <<"sntp", "pool.ntp.org">>

\* The order in which CommandLineParseTimeSource looks at the flags.
Precedence == <<"HTTP", "SSH", "SNTP", "DAYTIME", "TIME", "NIST">>
Protocol == <<"http", "ssh", "sntp", "daytime", "time", "nist">>

NoUrl == <<>>
NoArgs == [flags |-> {}, url |-> NoUrl]

-----------------------------------------------------------------------------
\* A variant of FlagsAfter below with a slip in it, used by nothing: the property is
\* tried with it in the place of FlagsAfter.
NeverClears(args, option) == args.flags \cup Sets(option)

FlagsAfter(args, option) == (args.flags \cup Sets(option)) \ Clears(option)

\* A server without a protocol is asked by the first of the flags in their
\* order; without any it is forgotten.
UrlOfHost(args) ==
  LET asked == {i \in DOMAIN Precedence : Precedence[i] \in args.flags} IN
  IF asked = {} THEN args.url
  ELSE <<Protocol[CHOOSE i \in asked : \A j \in asked : i <= j], "given">>

UrlAfter(args, option) ==
  IF option = "host" THEN UrlOfHost(args)
  ELSE IF option = "url" THEN <<"any", "given">>
  ELSE IF option \in OwnServer THEN ServerOf(option)
  ELSE args.url

AfterOption(args, option) == [flags |-> FlagsAfter(args, option), url |-> UrlAfter(args, option)]

-----------------------------------------------------------------------------
CONSTANTS
  Procs,       \* the daemons that may be started
  CommandLines,\* which may be started together: argv of each of them
  MaxPid       \* bound: processes each has been

ASSUME StartupAssumption ==
  /\ MaxPid \in Nat /\ "nobody" \notin Procs
  /\ \A lines \in CommandLines :
       DOMAIN lines \subseteq Procs /\ \A p \in DOMAIN lines : lines[p] \in Seq(Options)

VARIABLES
  argv,   \* the command line of each
  args,   \* Args
  turn,   \* options that CommandLineParse has taken, i - 1
  phase,     \* "off", "parse", "start", "run"
  stages, \* what is left of the start
  pid,    \* getpid(), counted up by every fork
  lock,   \* who has locked the pid file, or None
  file,   \* the pid in it; None in an empty one or if there is none
  port    \* who is bound to port 123, the last one first

startVars == <<argv, args, turn, phase, stages, pid, lock, file, port>>

None == <<>>
Nobody == "nobody"
Me(p) == <<p, pid[p]>>

StartupInit ==
  /\ argv \in CommandLines
  /\ args = [p \in Procs |-> NoArgs] /\ turn = [p \in Procs |-> 0]
  /\ phase = [p \in Procs |-> "off"] /\ stages = [p \in Procs |-> {}]
  /\ pid = [p \in Procs |-> 0]
  /\ lock = Nobody /\ file = None /\ port = <<>>

-----------------------------------------------------------------------------
\* A variant of Order below with a slip in it, used by nothing: the property is tried
\* with it in the place of Order.
PidFileFirst ==
  [open |-> 1, lock |-> 2, truncate |-> 3, write |-> 4, demonize |-> 5, bind |-> 6]

\* The steps of a start, in their order.
Order == [demonize |-> 1, open |-> 2, lock |-> 3, truncate |-> 4, write |-> 5, bind |-> 6]
StageNames == {"demonize", "open", "lock", "truncate", "write", "bind"}

Detach(flags) == IF "BACKGROUND" \in flags THEN {"demonize"} ELSE {}
KeepPid(flags) == IF "PIDFILE" \in flags THEN {"open", "lock", "truncate", "write"} ELSE {}
Listen(flags) == IF flags \cap {"SNTPD", "BCAST_RECV"} # {} THEN {"bind"} ELSE {}

\* What main() does between the options and the loop, which a time on the
\* command line leaves out.
Stages(flags) ==
  IF "CMDLINE_TIME" \in flags THEN {} ELSE Detach(flags) \cup KeepPid(flags) \cup Listen(flags)

\* The pid file after it was opened: O_CREAT without O_TRUNC.
AsOpened == file

\* flock(LOCK_EX | LOCK_NB)
Locked(p) == lock = Nobody /\ lock' = p

WouldBlock == lock # Nobody

Without(s, p) == Only(s, Procs \ {p})

-----------------------------------------------------------------------------
Start(p) ==
  /\ phase[p] = "off" /\ pid[p] + 3 <= MaxPid
  /\ phase' = [phase EXCEPT ![p] = "parse"]
  /\ args' = [args EXCEPT ![p] = NoArgs] /\ turn' = [turn EXCEPT ![p] = 0]
  /\ pid' = [pid EXCEPT ![p] = @ + 1]
  /\ UNCHANGED <<argv, stages, lock, file, port>>

\* One turn of the loop over argv; -S is followed by nothing but the time.
ParseOption(p) ==
  /\ phase[p] = "parse" /\ turn[p] < Len(argv[p])
  /\ LET option == argv[p][turn[p] + 1] IN
       /\ args' = [args EXCEPT ![p] = AfterOption(args[p], option)]
       /\ turn' = [turn EXCEPT ![p] = IF option = "-S" THEN Len(argv[p]) ELSE turn[p] + 1]
  /\ UNCHANGED <<argv, phase, stages, pid, lock, file, port>>

EndOfOptions(p) ==
  /\ phase[p] = "parse" /\ turn[p] = Len(argv[p])
  /\ phase' = [phase EXCEPT ![p] = "start"]
  /\ stages' = [stages EXCEPT ![p] = Stages(args[p].flags)]
  /\ UNCHANGED <<argv, args, turn, pid, lock, file, port>>

At(p, stage) ==
  /\ phase[p] = "start" /\ stage \in stages[p]
  /\ \A other \in stages[p] : Order[stage] <= Order[other]
  /\ UNCHANGED <<argv, args, turn, phase>>

Done(p, stage) == stages' = [stages EXCEPT ![p] = @ \ {stage}]

\* Two forks, whose parents exit.
Demonize(p) ==
  /\ At(p, "demonize") /\ Done(p, "demonize")
  /\ pid' = [pid EXCEPT ![p] = @ + 2]
  /\ UNCHANGED <<lock, file, port>>

OpenPidFile(p) ==
  /\ At(p, "open") /\ Done(p, "open")
  /\ file' = AsOpened
  /\ UNCHANGED <<pid, lock, port>>

LockPidFile(p) ==
  /\ At(p, "lock") /\ Done(p, "lock")
  /\ Locked(p)
  /\ UNCHANGED <<pid, file, port>>

\* Somebody else has it: an error is raised, and main() goes on.
LockFails(p) ==
  /\ At(p, "lock") /\ WouldBlock
  /\ stages' = [stages EXCEPT ![p] = @ \ {"lock", "truncate", "write"}]
  /\ UNCHANGED <<pid, lock, file, port>>

TruncatePidFile(p) ==
  /\ At(p, "truncate") /\ Done(p, "truncate")
  /\ file' = None
  /\ UNCHANGED <<pid, lock, port>>

WritePid(p) ==
  /\ At(p, "write") /\ Done(p, "write")
  /\ file' = Me(p)
  /\ UNCHANGED <<pid, lock, port>>

\* SO_REUSEADDR: a second socket is bound as well, and gets the datagrams.
BindPort(p) ==
  /\ At(p, "bind") /\ Done(p, "bind")
  /\ port' = <<p>> \o port
  /\ UNCHANGED <<pid, lock, file>>

EnterLoop(p) ==
  /\ phase[p] = "start" /\ stages[p] = {}
  /\ phase' = [phase EXCEPT ![p] = "run"]
  /\ UNCHANGED <<argv, args, turn, stages, pid, lock, file, port>>

Ends(p) ==
  /\ phase' = [phase EXCEPT ![p] = "off"] /\ stages' = [stages EXCEPT ![p] = {}]
  /\ lock' = (IF lock = p THEN Nobody ELSE lock)
  /\ port' = Without(port, p)
  /\ args' = [args EXCEPT ![p] = NoArgs] /\ turn' = [turn EXCEPT ![p] = 0]
  /\ UNCHANGED <<argv, pid, file>>

\* Not a daemon: one turn, or none.
Finish(p) ==
  /\ phase[p] = "run" /\ ("DEMON" \in args[p].flags => "CMDLINE_TIME" \in args[p].flags)
  /\ Ends(p)

\* At any moment.
Killed(p) == phase[p] # "off" /\ Ends(p)

Starting(p) ==
  \/ ParseOption(p) \/ EndOfOptions(p) \/ Demonize(p)
  \/ OpenPidFile(p) \/ LockPidFile(p) \/ LockFails(p) \/ TruncatePidFile(p) \/ WritePid(p)
  \/ BindPort(p) \/ EnterLoop(p)

StartupNext == \E p \in DOMAIN argv : Start(p) \/ Starting(p) \/ Finish(p) \/ Killed(p)

\* The start of a daemon takes its course.
StartupSpec ==
  StartupInit /\ [][StartupNext]_startVars /\ \A p \in Procs : WF_startVars(Starting(p))

-----------------------------------------------------------------------------
(* Properties                                                              *)

\* The servers there are to ask.
Urls ==
  {NoUrl, <<"any", "given">>} \cup {ServerOf(option) : option \in OwnServer}
    \cup {<<Protocol[i], "given">> : i \in DOMAIN Protocol}

StartupTypeOK ==
  /\ DOMAIN argv \subseteq Procs /\ \A p \in DOMAIN argv : argv[p] \in Seq(Options)
  /\ args \in [Procs -> [flags : SUBSET UNION {Sets(o) : o \in Options}, url : Urls]]
  /\ \A p \in DOMAIN argv : turn[p] \in 0..Len(argv[p])
  /\ phase \in [Procs -> {"off", "parse", "start", "run"}]
  /\ stages \in [Procs -> SUBSET StageNames]
  /\ pid \in [Procs -> 0..MaxPid]
  /\ lock \in Procs \cup {Nobody}
  /\ file \in {None} \cup (Procs \X (1..MaxPid))
  /\ \A k, l \in DOMAIN port : k # l => port[k] # port[l]

Runs(p) == phase[p] = "run"

\* The pid file has the pid of a daemon that runs exactly if it has the lock,
\* never that of a parent, of a daemon that was killed or of one that came later
\* and runs without the lock, whatever steps of theirs fall between its opening,
\* locking, truncating and writing the file (Process.c:218).
PidFileNamesHolder == \A p \in Procs : Runs(p) => (file = Me(p) <=> lock = p)

\* A daemon that is started runs in the end: another one that has the lock of
\* the pid file does not keep it waiting (LOCK_NB).
StartsUp == \A p \in Procs : phase[p] = "parse" ~> Runs(p) \/ phase[p] = "off"

\* Whatever the order of the options, an SNTP server is a daemon and only a
\* daemon goes to the background; whether it does is up to the last of the
\* options that tell so, before -S takes the rest.
Before(line) == {k \in DOMAIN line : \A j \in 1..(k - 1) : line[j] # "-S"}
Tells(line) == {k \in Before(line) : line[k] \in {"-d", "-D", "-sntpd"}}

LastTells ==
  \A p \in DOMAIN argv : phase[p] \in {"start", "run"} =>
    LET flags == args[p].flags
        tells == Tells(argv[p]) IN
    /\ "SNTPD" \in flags => "DEMON" \in flags
    /\ "DEMON" \in flags <=> tells # {}
    /\ "BACKGROUND" \in flags <=> \E k \in tells : argv[p][k] # "-D" /\ \A l \in tells : l <= k

\* A server that is named after the option of its protocol is the one that is
\* asked, unless a later option brings a server of its own.
HostIsAsked ==
  \A p \in DOMAIN argv : phase[p] \in {"start", "run"} =>
    LET line == argv[p] IN
    \A k \in Before(line) :
      /\ line[k] = "host"
      /\ \E j \in 1..(k - 1) : line[j] \in {"-http", "-ssh", "-sntp", "-daytime", "-time", "-nist"}
      /\ \A j \in 1..(k - 1) : line[j] # "bcast"
      /\ \A j \in Before(line) : j > k => line[j] \notin OwnServer
      => args[p].url # NoUrl /\ args[p].url[2] = "given"

\* The command line does what its options say, whatever their order.
OptionsObeyed == LastTells /\ HostIsAsked
=============================================================================
