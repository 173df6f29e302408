--------------------------- MODULE ProcessConfig ---------------------------
(***************************************************************************)
(* What a new process makes of itself before it runs what it was started   *)
(* for (libUseful/Process.c, ProcessApplyConfig): the words of its config  *)
(* in two passes, the forks of a daemon and of a container, the lock file, *)
(* and the order in which it gives up its root directory, its group and    *)
(* its user.                                                               *)
(***************************************************************************)
EXTENDS Integers, SequencesExt, Selection

CONSTANTS
  Tasks,    \* processes that are started
  Configs,  \* the words of their configs
  Passwds   \* which of the user and the group that are asked for is known in which root

\* A "container" has a directory of its own; that of "ns" is "dir", or one with a new name.
ConfigWords ==
  {"chroot", "daemon", "setsid", "user", "group", "dir", "pidfile", "lockfile", "container", "ns",
   "jail", "resist_ptrace"}

ASSUME ProcessConfigAssumption ==
  /\ Configs \subseteq Seq(ConfigWords)
  /\ \A line \in Configs : ~({"container", "ns"} \subseteq Range(line))
  /\ Passwds \subseteq SUBSET ({"user", "group"} \X {"outside", "inside"})

VARIABLES
  passwd,  \* the users and groups that are known, and in which root
  config,  \* of each task
  steps,   \* what is left to be applied
  self,    \* what each has become
  state    \* "applies", "runs", "refused", "gone"

configVars == <<passwd, config, steps, self, state>>

Words(p) == Range(config[p])

-----------------------------------------------------------------------------
(* The order                                                               *)

Early(words) ==
  Only(<<"chdir", "daemon", "setsid", "chroot">>,
       (words \ (IF "daemon" \in words THEN {"setsid"} ELSE {}))
         \cup (IF "chroot" \in words THEN {"chdir"} ELSE {}))

\* What the second pass makes of a user or a group.
LookedUp(word) ==
  IF word = "user" THEN "look up user" ELSE IF word = "group" THEN "look up group" ELSE word

StepNames == ConfigWords \cup {"chdir", "look up user", "look up group"}

\* The words of the second pass, in the order in which they are written.
Pass(line) ==
  Only([i \in DOMAIN line |-> LookedUp(line[i])],
       {"look up user", "look up group", "dir", "pidfile", "lockfile"})

\* "Always do group first, otherwise we'll lose ability to switch user/group"
GiveUp == <<"group", "user">>

Late(words) == Only(<<"container", "ns">> \o GiveUp \o <<"resist_ptrace", "jail">>, words)

ConfigInit ==
  /\ passwd \in Passwds /\ config \in [Tasks -> Configs]
  /\ steps = [p \in Tasks |-> Early(Words(p)) \o Pass(config[p]) \o Late(Words(p))]
  /\ self = [p \in Tasks |->
       [root |-> "outside", user |-> "root", group |-> "root", uid |-> -1, gid |-> -1,
        forks |-> 0, session |-> "caller's", inDir |-> FALSE, astray |-> {}, named |-> -1,
        lockAt |-> "nowhere", dumpable |-> TRUE, fail |-> FALSE, mishap |-> FALSE]]
  /\ state = [p \in Tasks |-> "applies"]

-----------------------------------------------------------------------------
(* The steps                                                               *)

\* ProcessContainer: it goes to the container's directory, takes that for its root, and
\* goes to "dir" in it, which is the directory of an "ns" itself.  A chdir that fails is
\* only reported: the root is then made wherever the process was.  One fork for the new
\* namespace, and, unless it joins one that is there, one more that leaves its parent
\* behind as init.
Contained(me, joins, failing) ==
  [me EXCEPT !.forks = @ + (IF joins THEN 1 ELSE 2),
             !.root = IF "container" \in failing /\ @ # "inside" THEN "astray" ELSE "inside",
             !.inDir = IF joins THEN @ \/ "container" \notin failing ELSE "dir" \notin failing,
             !.astray = @ \cup failing,
             !.session = IF joins THEN @ ELSE "own"]

\* LookupUID and LookupGID: 1 for one that is known, and not that of root.
AccountId(name, root) == IF <<name, root>> \in passwd THEN 1 ELSE -1

\* "if (gid > 0) SwitchGID(gid)": with a group that is not known it keeps its own.
SwitchGID(me) == IF me.gid > 0 THEN [me EXCEPT !.group = "asked"] ELSE me

\* A change of the user may make a process dumpable again.
SwitchUID(me) ==
  IF me.uid > 0 THEN [me EXCEPT !.user = "asked", !.dumpable = TRUE] ELSE me

Applied(me, step, failing) ==
  CASE step = "chdir" -> me
    [] step = "daemon" -> [me EXCEPT !.forks = @ + 2, !.session = "own"]
    [] step = "setsid" -> [me EXCEPT !.session = "own"]
    [] step \in {"chroot", "jail"} -> [me EXCEPT !.root = "inside"]
    [] step = "look up user" -> [me EXCEPT !.uid = AccountId("user", me.root)]
    [] step = "look up group" -> [me EXCEPT !.gid = AccountId("group", me.root)]
    [] step = "dir" -> [me EXCEPT !.inDir = TRUE]
    [] step = "pidfile" -> [me EXCEPT !.named = me.forks]
    [] step = "lockfile" -> [me EXCEPT !.lockAt = me.root]
    [] step \in {"container", "ns"} -> Contained(me, step = "ns", failing)
    [] step = "group" -> SwitchGID(me)
    [] step = "user" -> SwitchUID(me)
    [] step = "resist_ptrace" -> [me EXCEPT !.dumpable = FALSE]

\* A user or a group that is not known is not switched to.
Switches(me, step) == (step = "group" => me.gid > 0) /\ (step = "user" => me.uid > 0)

\* What only root may do.
Permitted(me, step) ==
  step \in {"chroot", "jail", "container", "ns", "group", "user"} /\ Switches(me, step) =>
    me.user = "root"

\* flock(fd, LOCK_EX) waits for the lock on the file it opened.
LockFree(p) ==
  \A q \in Tasks \ {p} : state[q] \in {"applies", "runs"} => self[q].lockAt # self[p].root

\* What the next step of p is, and what is left then.
Step(p, step) ==
  /\ state[p] = "applies" /\ steps[p] # <<>> /\ Head(steps[p]) = step
  /\ steps' = [steps EXCEPT ![p] = Tail(@)] /\ UNCHANGED <<passwd, config>>

ApplyStep(p) ==
  \E step \in StepNames, failing \in SUBSET {"container", "dir"} :
    /\ Step(p, step) /\ Permitted(self[p], step)
    /\ step = "lockfile" => LockFree(p)
    /\ self' = [self EXCEPT ![p] = Applied(self[p], step, failing)]
    /\ UNCHANGED state

\* A step fails, for want of a right or by chance.
Fails(p, step) ==
  /\ Step(p, step)
  /\ self' = [self EXCEPT ![p].mishap = @ \/ Permitted(self[p], step),
                          ![p].fail = @ \/ step # "pidfile"]

\* PROC_SETUP_FAIL: it goes on to the end, where it is not run; a pid file that cannot be
\* written is only reported.
FailsLater(p) ==
  /\ \E step \in {"dir", "pidfile", "container", "ns", "jail"} : Fails(p, step)
  /\ UNCHANGED state

FailsAtOnce(p) ==
  /\ \E step \in {"chdir", "chroot"} : Fails(p, step)
  /\ state' = [state EXCEPT ![p] = "refused"]

\* exit(): a fork, the lock, the group or the user, for which SwitchGroupAllowFail and
\* SwitchUserAllowFail are not set.
FailsAndEnds(p) ==
  /\ \E step \in {"daemon", "lockfile", "container", "ns", "group", "user", "resist_ptrace"} :
       Fails(p, step) /\ Switches(self[p], step)
  /\ state' = [state EXCEPT ![p] = "gone"]

\* The caller: "if (! (Flags & PROC_SETUP_FAIL)) Func(Data, Flags)".
RunsIt(p) ==
  /\ state[p] = "applies" /\ steps[p] = <<>>
  /\ state' = [state EXCEPT ![p] = IF self[p].fail THEN "refused" ELSE "runs"]
  /\ UNCHANGED <<passwd, config, steps, self>>

TaskEnds(p) ==
  /\ state[p] = "runs" /\ state' = [state EXCEPT ![p] = "gone"]
  /\ UNCHANGED <<passwd, config, steps, self>>

ConfigNext ==
  \E p \in Tasks :
    \/ ApplyStep(p) \/ FailsLater(p) \/ FailsAtOnce(p) \/ FailsAndEnds(p)
    \/ RunsIt(p) \/ TaskEnds(p)

-----------------------------------------------------------------------------
\* Types of all of it.
ConfigTypeOK ==
  /\ passwd \in Passwds /\ DOMAIN config = Tasks
  /\ \A p \in Tasks : state[p] \in {"applies", "runs", "refused", "gone"}
  /\ \A p \in Tasks : Range(steps[p]) \subseteq StepNames

\* The root in which the second pass finds itself: with chroot the new one, with jail and
\* a container the old (Process.h, ProcessApplyConfig).
RootOfPass(words) == IF "chroot" \in words THEN "inside" ELSE "outside"

KnownInPass(name, words) == <<name, RootOfPass(words)>> \in passwd

\* A process that runs what it was started for is what its config says, however the steps
\* before it went.  Left out are a user and a group that are not known where they are
\* looked up: it keeps its own then; and the two chdirs of a container, whose failures are
\* only reported.
AsAsked ==
  \A p \in Tasks : state[p] = "runs" =>
    /\ Words(p) \cap {"chroot", "jail"} # {} => self[p].root = "inside"
    /\ Words(p) \cap {"container", "ns"} # {} /\ "container" \notin self[p].astray =>
         self[p].root = "inside"
    /\ "user" \in Words(p) /\ KnownInPass("user", Words(p)) => self[p].user = "asked"
    /\ "group" \in Words(p) /\ KnownInPass("group", Words(p)) => self[p].group = "asked"
    /\ "daemon" \in Words(p) => self[p].forks > 1 /\ self[p].session = "own"
    /\ "setsid" \in Words(p) => self[p].session = "own"
    /\ "dir" \in Words(p) /\ "dir" \notin self[p].astray => self[p].inDir
    /\ "resist_ptrace" \in Words(p) => ~self[p].dumpable

\* The user and the group are looked up and the lock file is made in that root, and in no
\* other.
WithinChroot ==
  \A p \in Tasks :
    /\ self[p].lockAt # "nowhere" => self[p].lockAt = RootOfPass(Words(p))
    /\ self[p].uid > 0 => KnownInPass("user", Words(p))
    /\ self[p].gid > 0 => KnownInPass("group", Words(p))

\* The pid file names the process that runs; that of a container is written too early.
NamedRight ==
  \A p \in Tasks :
    state[p] = "runs" /\ self[p].named # -1 /\ Words(p) \cap {"container", "ns"} = {} =>
      self[p].named = self[p].forks

\* Of those that share a lock file one at a time runs.
OneHolder ==
  \A p, q \in Tasks :
    p # q /\ state[p] = "runs" /\ state[q] = "runs" /\ self[p].lockAt = self[q].lockAt =>
      self[p].lockAt = "nowhere"

\* It is refused only after a mishap, not because of what it gave up before; a jail behind
\* a change of the user is the exception.
NotItsOwnDoing ==
  \A p \in Tasks :
    self[p].fail /\ ~({"user", "jail"} \subseteq Words(p)) => self[p].mishap

ConfigApplied == AsAsked /\ WithinChroot /\ NamedRight /\ OneHolder /\ NotItsOwnDoing
=============================================================================
