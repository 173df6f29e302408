----------------------------- MODULE MCProgram -----------------------------
(* The program around its clock, on small instances: two daemons that share *)
(* a pid file and the port, one daemon with any short command line, the     *)
(* program that sets the time that was typed, the loop with its servers, the *)
(* logs, and the processes that are started.                                *)
EXTENDS Startup, SetTime, TimeSources, Log, Spawn, ProcessConfig

VARIABLE side

Daemons == {<<"-d", "-P">>, <<"-sntpd", "-P">>, <<"-D", "-P", "-sntp", "bcast">>, <<"-sntpd">>, <<"-P", "-s">>}

MCWords == {"-s", "-S", "-d", "-D", "-sntpd", "-sntp", "-time", "-nist", "bcast", "host"}
Short == UNION {[1..n -> MCWords] : n \in 0..3}

MCCommandLines ==
  [Procs -> Daemons] \cup {[p \in {"a"} |-> line] : line \in Short}

\* EST is what the server's own zone is called there; libc knows the others.
MCOffset == [zone \in Zones |-> CASE zone = "GMT" -> 0 [] zone = "CET" -> 1 [] zone = "EST" -> -5]
MCChains ==
  {<<"http", "http", "sntp">>, <<"http">>, <<"ssh">>, <<"daytime">>, <<"time">>}

AnyTyped == CHOOSE form \in Forms : TRUE
AnyZone == CHOOSE zone \in Zones : TRUE
AnyChain == CHOOSE c \in Chains : TRUE

\* The parent of a child says enough to rotate twice.
MCSaid == [p \in Loggers |-> IF p \in Rotators THEN 3 ELSE 2]
MCConfigs ==
  {<<>>} \cup
  {<<"daemon", "pidfile", "lockfile", "user", "group">>, <<"user", "chroot", "lockfile", "dir">>,
   <<"lockfile", "dir", "user", "group", "jail">>, <<"ns", "lockfile", "setsid">>,
   <<"container", "dir", "pidfile", "group", "user", "resist_ptrace">>,
   <<"chroot", "user", "group", "resist_ptrace">>}
MCPasswds ==
  {{}, {"user", "group"} \X {"outside"}, {"user", "group"} \X {"inside"},
   {<<"user", "outside">>, <<"group", "inside">>}}
MCOpenFds == {0..2, {1, 2}, {0, 2}, {}, 0..6}

Resting(part) == side # part

\* The inputs of the parts that rest are fixed.
Inputs ==
  /\ side \in {"daemons", "typed", "loop", "logs", "spawns", "config"}
  /\ IF Resting("daemons") THEN argv = [p \in {"a"} |-> <<"-S">>] ELSE TRUE
  /\ IF Resting("typed") THEN typed = AnyTyped /\ summer = FALSE ELSE TRUE
  /\ IF Resting("loop")
       THEN tzOption = "" /\ tz = "" /\ serverZone = AnyZone /\ chain = AnyChain ELSE TRUE
  /\ IF Resting("logs") THEN logFlags = {} ELSE TRUE
  /\ IF Resting("spawns") THEN table = [fd \in Fds |-> FreeFd] ELSE TRUE
  /\ IF Resting("config") THEN passwd = {} /\ config = [p \in Tasks |-> <<>>] ELSE TRUE

Init == Inputs /\ StartupInit /\ SetTimeInit /\ SourcesInit /\ LogInit /\ SpawnInit /\ ConfigInit

programVars == <<startVars, setTimeVars, sourceVars, logVars, spawnVars, configVars, side>>

Daemon == side = "daemons" /\ StartupNext /\ UNCHANGED <<setTimeVars, sourceVars, logVars, spawnVars, configVars, side>>
Typed == side = "typed" /\ SetTimeFromCommandLine /\ UNCHANGED <<startVars, sourceVars, logVars, spawnVars, configVars, side>>
Looping == side = "loop" /\ SourcesNext /\ UNCHANGED <<startVars, setTimeVars, logVars, spawnVars, configVars, side>>
Logging == side = "logs" /\ LogNext /\ UNCHANGED <<startVars, setTimeVars, sourceVars, spawnVars, configVars, side>>
Spawning == side = "spawns" /\ SpawnNext /\ UNCHANGED <<startVars, setTimeVars, sourceVars, logVars, configVars, side>>
Configuring ==
  side = "config" /\ ConfigNext /\ UNCHANGED <<startVars, setTimeVars, sourceVars, logVars, spawnVars, side>>

Spec ==
  /\ Init /\ [][Daemon \/ Typed \/ Looping \/ Logging \/ Spawning \/ Configuring]_programVars
  /\ \A p \in Procs : WF_startVars(side = "daemons" /\ Starting(p))
  /\ WF_sourceVars(side = "loop" /\ Loop) /\ WF_sourceVars(side = "loop" /\ Ask)
  /\ WF_sourceVars(side = "loop" /\ ServerEnds)

-----------------------------------------------------------------------------
\* Types of all parts.
ProgramTypeOK ==
  /\ StartupTypeOK /\ SetTimeTypeOK /\ SourcesTypeOK
  /\ LogTypeOK /\ SpawnTypeOK /\ ConfigTypeOK

\* Processes that share a log keep it whole and in order, and those that are joined by
\* pipes have the ends that are theirs and no others; and a process that runs is what its
\* config asked for.
ProcessesTrue ==
  /\ side = "logs" => LogsKept
  /\ side = "spawns" => SpawnRight
  /\ side = "config" => ConfigApplied

\* What is typed, as options or as a time, is what is done.
CommandsObeyed == OptionsObeyed /\ TypedIsSet

\* A daemon comes up or ends, and one that is up gets round to its requests.
ComesUp == StartsUp /\ RequestsServed
=============================================================================
