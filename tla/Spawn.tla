------------------------------- MODULE Spawn -------------------------------
(***************************************************************************)
(* Programs that are started behind pipes or a pseudo terminal             *)
(* (libUseful/SpawnPrograms.c, Pty.c): which descriptor is what in the     *)
(* parent and in its children, and who holds the ends of a pipe.  ssh time *)
(* servers are asked through one.                                          *)
(***************************************************************************)
EXTENDS Integers, SequencesExt, FiniteSetsExt

CONSTANTS
  MaxFd,     \* the highest descriptor
  OpenFds,   \* the descriptors that the parent may have at first
  MaxSpawns  \* bound: children

ASSUME SpawnAssumption == MaxFd \in Nat /\ MaxFd >= 2 /\ MaxSpawns \in Nat /\ OpenFds \subseteq SUBSET (0..MaxFd)

VARIABLES
  table,     \* the parent's descriptors
  children,  \* the children that were started, with what they were started with
  streams    \* the parent's streams: the descriptors in_fd and out_fd, -1 for none

spawnVars == <<table, children, streams>>

Fds == 0..MaxFd
Thing(is, id, cloexec) == [is |-> is, id |-> id, cloexec |-> cloexec]
FreeFd == Thing("free", 0, FALSE)
Null == Thing("null", 0, FALSE)

-----------------------------------------------------------------------------
(* Descriptors; -1 is none                                                 *)

Free(t) == {fd \in Fds : t[fd] = FreeFd}
Lowest(t) == IF Free(t) = {} THEN -1 ELSE Min(Free(t))
Put(t, fd, thing) == IF fd = -1 THEN t ELSE [t EXCEPT ![fd] = thing]
Close(t, fd) == Put(t, fd, FreeFd)
Dup(t, fd) ==
  IF fd = -1 \/ t[fd] = FreeFd THEN t ELSE Put(t, Lowest(t), [t[fd] EXCEPT !.cloexec = FALSE])

\* fd_remap, and fd_remap_path with /dev/null: what is duplicated goes to the lowest free
\* descriptor, whichever that is.
fd_remap(t, fd, newfd) == Dup(Close(t, fd), newfd)
fd_remap_null(t, fd) ==
  IF Lowest(t) = -1 THEN t
  ELSE LET opened == Put(t, Lowest(t), Null) IN Close(fd_remap(opened, fd, Lowest(t)), Lowest(t))

Remapped(t, fd, newfd) ==
  IF newfd = fd THEN t ELSE IF newfd = -1 THEN fd_remap_null(t, fd) ELSE fd_remap(t, fd, newfd)

\* pipe(2) and /dev/ptmx with its slave: two descriptors or none.
Pair(t, first, second, id) ==
  LET a == Lowest(t)
      b == Lowest(Put(t, a, Null))
  IN IF a = -1 \/ b = -1 THEN [t |-> t, a |-> -1, b |-> -1]
     ELSE [t |-> Put(Put(t, a, Thing(first, id, FALSE)), b, Thing(second, id, FALSE)), a |-> a, b |-> b]
NoPair(t) == [t |-> t, a |-> -1, b |-> -1]

-----------------------------------------------------------------------------
(* Spawning                                                                *)

Id == Len(children) + 1
Ways == [tty : BOOLEAN, outNull : BOOLEAN, err : {"own", "with", "parent"}, execs : BOOLEAN]

\* A program that is executed has only what is not marked.
Executed(how, t) ==
  IF how.execs THEN [fd \in Fds |-> IF t[fd].cloexec THEN FreeFd ELSE t[fd]] ELSE t

\* The child, or a fork that fails: the parent goes on just the same, and makes no stream.
Forked(how, parentTable, childTable, in, out) ==
  \E forks \in BOOLEAN :
    /\ table' = parentTable
    /\ children' = Append(children,
         [how |-> how, alive |-> forks, std |-> \A fd \in 0..2 : table[fd].is = "parent's",
          room |-> Cardinality(Free(table)) > 6,
          marked |-> {s \in DOMAIN streams : streams[s].out # -1 /\ table[streams[s].out].cloexec},
          table |-> IF forks THEN Executed(how, childTable) ELSE [fd \in Fds |-> FreeFd]])
    /\ streams' = Append(streams, IF forks THEN [in |-> in, out |-> out] ELSE [in |-> -1, out |-> -1])

\* The parent closes its halves of the link.
ParentCloses(t, in, out, err) == Close(Close(Close(t, in.a), out.b), err.b)

PipeSpawnFunction(how) ==
  LET in == Pair(table, "stdin r", "stdin w", Id)
      out == IF how.outNull THEN NoPair(in.t) ELSE Pair(in.t, "stdout r", "stdout w", Id)
      err == IF how.err = "own" THEN Pair(out.t, "stderr r", "stderr w", Id) ELSE NoPair(out.t)
      c3 == CASE how.err = "own" -> err.b [] how.err = "with" -> out.b [] OTHER -> 2
      child == Remapped(Remapped(Remapped(err.t, 0, in.a), 1, out.b), 2, c3)
      \* the parent; what it could not get a pipe for is /dev/null
      mine == ParentCloses(err.t, in, out, err)
      inFd == IF in.b = -1 THEN Lowest(mine) ELSE in.b
      mine1 == IF in.b = -1 THEN Put(mine, inFd, Null) ELSE mine
      outFd == IF out.a = -1 THEN Lowest(mine1) ELSE out.a
      mine2 == IF out.a = -1 THEN Put(mine1, outFd, Null) ELSE mine1
  IN  Forked(how, mine2, Close(Close(Close(child, in.b), out.a), err.a), outFd, inFd)

PseudoTTYSpawnFunction(how) ==
  LET pty == Pair(table, "master", "slave", Id)
      child == Remapped(Remapped(Remapped(pty.t, 0, pty.b), 1, pty.b), 2, pty.b)
  IN  /\ pty.a # -1
      /\ Forked(how, Close(pty.t, pty.b), Close(Close(child, pty.a), pty.b), pty.a, pty.a)

STREAMSpawnFunction ==
  /\ Len(children) < MaxSpawns
  /\ \E how \in Ways :
       IF how.tty THEN how.outNull = FALSE /\ how.err = "with" /\ PseudoTTYSpawnFunction(how)
       ELSE PipeSpawnFunction(how)

\* STREAMSetFlags marks what a program that is started later is not to have.
STREAMSetFlags(s) ==
  /\ table' = [fd \in Fds |-> IF fd \in {streams[s].in, streams[s].out} THEN [table[fd] EXCEPT !.cloexec = TRUE]
                              ELSE table[fd]]
  /\ UNCHANGED <<children, streams>>

STREAMClose(s) ==
  /\ table' = Close(Close(table, streams[s].out), streams[s].in)
  /\ streams' = [streams EXCEPT ![s] = [in |-> -1, out |-> -1]]
  /\ UNCHANGED children

Exit(c) ==
  /\ children[c].alive
  /\ children' = [children EXCEPT ![c].alive = FALSE, ![c].table = [fd \in Fds |-> FreeFd]]
  /\ UNCHANGED <<table, streams>>

\* The parent may have closed descriptors of its own.
SpawnInit ==
  /\ table \in {[fd \in Fds |-> IF fd \in open THEN Thing("parent's", fd, FALSE) ELSE FreeFd] :
                  open \in OpenFds}
  /\ children = <<>> /\ streams = <<>>

SpawnNext ==
  \/ STREAMSpawnFunction
  \/ \E s \in DOMAIN streams : streams[s].in # -1 /\ (STREAMSetFlags(s) \/ STREAMClose(s))
  \/ \E c \in DOMAIN children : Exit(c)

SpawnSpec == SpawnInit /\ [][SpawnNext]_spawnVars

-----------------------------------------------------------------------------
(* Properties                                                              *)

SpawnTypeOK ==
  /\ \A fd \in Fds : table[fd].cloexec \in BOOLEAN
  /\ Len(streams) = Len(children)
  /\ \A s \in DOMAIN streams : {streams[s].in, streams[s].out} \subseteq Fds \cup {-1}

HasEnd(t, is, id) == \E fd \in Fds : t[fd].is = is /\ t[fd].id = id
Held(is, id) == HasEnd(table, is, id) \/ \E c \in DOMAIN children : HasEnd(children[c].table, is, id)

\* A child of a parent that has its own three has what it was started with at 0, 1 and 2,
\* whatever numbers the pipes had.
ChildStdio ==
  \A c \in DOMAIN children :
    LET child == children[c]
        At(fd) == child.table[fd].is
    IN child.alive /\ child.std /\ child.room =>
         IF child.how.tty THEN \A fd \in 0..2 : At(fd) = "slave" /\ child.table[fd].id = c
         ELSE /\ At(0) = "stdin r" /\ child.table[0].id = c
              /\ At(1) = IF child.how.outNull THEN "null" ELSE "stdout w"
              /\ CASE child.how.err = "own" -> At(2) = "stderr w"
                   [] child.how.err = "with" -> At(2) = At(1)
                   [] OTHER -> At(2) = "parent's"

\* When a child has gone, the parent comes to the end of what it said, whoever else was
\* started in the meantime.
EndIsSeen ==
  \A c \in DOMAIN children : ~children[c].alive =>
    \A end \in {"stdout w", "stderr w", "slave"} : ~Held(end, c)

\* And when the parent closes the stream, the child comes to the end of its input, unless
\* one that was started in between has it too: that is one without an exec, or one that
\* STREAMSetFlags came too late for.
InputEnds ==
  \A c \in DOMAIN children : streams[c].in = -1 /\ ~HasEnd(table, "stdin w", c) =>
    \A d \in DOMAIN children :
      d <= c \/ (children[d].how.execs /\ c \in children[d].marked) => ~HasEnd(children[d].table, "stdin w", c)

\* A stream's descriptors are its own.
StreamsApart ==
  \A s \in DOMAIN streams :
    /\ streams[s].out # -1 =>
         table[streams[s].out].id = s \/ table[streams[s].out].is \in {"null"}
    /\ \A z \in DOMAIN streams : z # s => {streams[s].in, streams[s].out} \cap {streams[z].in, streams[z].out} \subseteq {-1}

SpawnRight == ChildStdio /\ EndIsSeen /\ InputEnds /\ StreamsApart
=============================================================================
