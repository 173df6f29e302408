-------------------------------- MODULE Log --------------------------------
(***************************************************************************)
(* Log files (libUseful/Log.c): messages that are buffered, files that are *)
(* rotated a step at a time, and processes that share a file because one   *)
(* is the child of the other.  Only who has ParentPID rotates.  Messages   *)
(* are written whole; a file's size is the number of its messages.         *)
(***************************************************************************)
EXTENDS Integers, SequencesExt, FiniteSetsExt

CONSTANTS
  Loggers,     \* the processes
  Rotators,    \* those that are their own ParentPID
  LogMaxSize,  \* MaxSize
  MaxRotate,   \* the archives Path.1, Path.2, ... that are kept
  LogBuffer,   \* messages that FLUSH_FULL holds back
  MaxSaid      \* bound: messages of each process

\* One program and its children: one process is its own ParentPID.
ASSUME LogAssumption ==
  /\ Rotators \subseteq Loggers /\ \A p, q \in Rotators : p = q
  /\ {LogMaxSize, MaxRotate, LogBuffer} \subseteq Nat /\ MaxSaid \in [Loggers -> Nat]

VARIABLES
  logFlags,  \* LOGFILE_FLUSH as "flush", LOGFILE_REPEATS as "repeats"
  paths,     \* the file at Path (0) and at Path.i, 0 for none
  files,     \* what files contain, those that have lost their names too
  logFile,   \* the file of a process's stream, 0 for none
  held,      \* its buffer
  toWrite,   \* what it has still to write before its call returns
  logAt,     \* where its call is: "idle", "check", "rotate" or "write"
  rung,      \* i of LogFileInternalDoRotate
  lastText,  \* LastMessage
  repeated,  \* RepeatCount
  said,      \* history: the messages it was given
  crashed    \* history: messages that were lost with the buffer of a process

logVars == <<logFlags, paths, files, logFile, held, toWrite, logAt, rung, lastText, repeated,
             said, crashed>>

Texts == {"m", "n"}
Running(p) == logAt[p] # "off"

-----------------------------------------------------------------------------
(* The file and the stream                                                 *)

\* STREAMFlush, and STREAMClose before it closes.
Flushed(p, fs) == [fs EXCEPT ![logFile[p]] = @ \o held[p]]

\* LogFileOpen: the file that Path names, which is created.
Opens(p, fs, ps) ==
  /\ held' = [held EXCEPT ![p] = <<>>]
  /\ IF ps[0] # 0
     THEN logFile' = [logFile EXCEPT ![p] = ps[0]] /\ files' = fs /\ paths' = ps
     ELSE /\ files' = Append(fs, <<>>)
          /\ logFile' = [logFile EXCEPT ![p] = Len(fs) + 1]
          /\ paths' = [ps EXCEPT ![0] = Len(fs) + 1]

Goes(p, to) == logAt' = [logAt EXCEPT ![p] = to]
SaidSame == UNCHANGED <<logFlags, lastText, repeated, said, crashed>>

-----------------------------------------------------------------------------
(* LogFileInternalDoRotate                                                 *)

TooBig(p) == p \in Rotators /\ Len(files[logFile[p]]) > LogMaxSize

CheckRotate(p) ==
  /\ logAt[p] = "check" /\ logFile[p] # 0
  /\ IF TooBig(p) THEN Goes(p, "rotate") /\ rung' = [rung EXCEPT ![p] = MaxRotate]
     ELSE Goes(p, "write") /\ UNCHANGED rung
  /\ UNCHANGED <<paths, files, logFile, held, toWrite>> /\ SaidSame

Moved(from, to) ==
  IF paths[from] = 0 THEN paths ELSE [paths EXCEPT ![to] = paths[from], ![from] = 0]

\* One archive is unlinked or renamed.
RotateOne(p) ==
  /\ logAt[p] = "rotate" /\ rung[p] > 0
  /\ paths' = (IF rung[p] = MaxRotate THEN [paths EXCEPT ![MaxRotate] = 0]
               ELSE Moved(rung[p], rung[p] + 1))
  /\ rung' = [rung EXCEPT ![p] = @ - 1]
  /\ UNCHANGED <<files, logFile, held, toWrite, logAt>> /\ SaidSame

\* The file itself, then the stream; with no archives the file stays where it is.
RotateLive(p) ==
  /\ logAt[p] = "rotate" /\ rung[p] = 0
  /\ Opens(p, Flushed(p, files), IF MaxRotate > 0 THEN Moved(0, 1) ELSE paths)
  /\ Goes(p, "write")
  /\ UNCHANGED <<toWrite, rung>> /\ SaidSame

-----------------------------------------------------------------------------
(* LogFileInternalWrite                                                    *)

\* The FlushInterval may be over at any time.
Write(p) ==
  /\ logAt[p] = "write"
  /\ IF toWrite[p] = <<>> THEN Goes(p, "idle") /\ UNCHANGED <<files, held, toWrite>>
     ELSE LET queue == held[p] \o <<toWrite[p][1]>> IN
       /\ toWrite' = [toWrite EXCEPT ![p] = Tail(@)]
       /\ Goes(p, "check")
       /\ \E sends \in (IF "flush" \in logFlags \/ Len(queue) > LogBuffer THEN {TRUE} ELSE BOOLEAN) :
            IF sends THEN files' = [files EXCEPT ![logFile[p]] = @ \o queue]
                          /\ held' = [held EXCEPT ![p] = <<>>]
            ELSE held' = [held EXCEPT ![p] = queue] /\ UNCHANGED files
  /\ UNCHANGED <<paths, logFile, rung>> /\ SaidSame

\* LogFileInternalPush. A message that differs from the last one is not written as long
\* as none was repeated.
Pushed(p, text, entry) ==
  IF "repeats" \notin logFlags THEN <<entry>>
  ELSE IF lastText[p] = text \/ repeated[p] = 0 THEN <<>>
  ELSE <<[by |-> p, n |-> Len(said[p]), text |-> "repeated", times |-> repeated[p]], entry>>

LogToFile(p) ==
  /\ logAt[p] = "idle" /\ Len(said[p]) < MaxSaid[p]
  /\ \E text \in (IF "repeats" \in logFlags THEN Texts ELSE {"m"}) :
     LET entry == [by |-> p, n |-> Len(said[p]) + 1, text |-> text, times |-> 1]
         writes == Pushed(p, text, entry)
     IN /\ said' = [said EXCEPT ![p] = Append(@, text)]
        /\ toWrite' = [toWrite EXCEPT ![p] = writes]
        /\ lastText' = [lastText EXCEPT ![p] = IF writes # <<>> THEN text ELSE @]
        /\ repeated' = [repeated EXCEPT ![p] =
             IF "repeats" \in logFlags /\ lastText[p] = text THEN @ + 1 ELSE 0]
  /\ IF logFile[p] = 0 THEN Opens(p, files, paths) ELSE UNCHANGED <<logFile, held, files, paths>>
  /\ Goes(p, "check")
  /\ UNCHANGED <<logFlags, rung, crashed>>

LogFileCheckRotate(p) ==
  /\ logAt[p] = "idle" /\ logFile[p] # 0
  /\ Goes(p, "check")
  /\ UNCHANGED <<paths, files, logFile, held, toWrite, rung>> /\ SaidSame

\* With LOGFLUSH_REOPEN the stream is opened anew.
LogFileFlushAll(p) ==
  /\ logAt[p] = "idle" /\ logFile[p] # 0
  /\ \/ Opens(p, Flushed(p, files), paths)
     \/ /\ files' = Flushed(p, files) /\ held' = [held EXCEPT ![p] = <<>>]
        /\ UNCHANGED <<paths, logFile>>
  /\ UNCHANGED <<toWrite, logAt, rung>> /\ SaidSame

LogFileClose(p) ==
  /\ logAt[p] = "idle" /\ logFile[p] # 0
  /\ files' = Flushed(p, files)
  /\ held' = [held EXCEPT ![p] = <<>>] /\ logFile' = [logFile EXCEPT ![p] = 0]
  /\ lastText' = [lastText EXCEPT ![p] = ""] /\ repeated' = [repeated EXCEPT ![p] = 0]
  /\ UNCHANGED <<logFlags, paths, toWrite, logAt, rung, said, crashed>>

-----------------------------------------------------------------------------
(* Processes                                                               *)

\* A variant of FlushedAtFork below with a slip in it, used by nothing: the property is
\* tried with it in the place of FlushedAtFork.
HeldAtFork(p) == held[p]

\* xfork flushes all logs, so that the child has nothing to write of its parent.
FlushedAtFork(p) == <<>>

\* The child is a process that has said nothing.
Fork(p, c) ==
  /\ logAt[p] = "idle" /\ logFile[p] # 0 /\ logAt[c] = "off" /\ c \notin Rotators /\ said[c] = <<>>
  /\ files' = [files EXCEPT ![logFile[p]] = @ \o SubSeq(held[p], 1 + Len(FlushedAtFork(p)), Len(held[p]))]
  /\ held' = [held EXCEPT ![p] = FlushedAtFork(p), ![c] = FlushedAtFork(p)]
  /\ logFile' = [logFile EXCEPT ![c] = logFile[p]]
  /\ lastText' = [lastText EXCEPT ![c] = lastText[p]]
  /\ repeated' = [repeated EXCEPT ![c] = repeated[p]]
  /\ Goes(c, "idle")
  /\ UNCHANGED <<logFlags, paths, toWrite, rung, said, crashed>>

\* A process is killed, at any step; a parent may be started again.
Kill(p) ==
  /\ Running(p)
  /\ crashed' = crashed \cup Range(held[p] \o toWrite[p])
  /\ held' = [held EXCEPT ![p] = <<>>] /\ toWrite' = [toWrite EXCEPT ![p] = <<>>]
  /\ logFile' = [logFile EXCEPT ![p] = 0]
  /\ lastText' = [lastText EXCEPT ![p] = ""] /\ repeated' = [repeated EXCEPT ![p] = 0]
  /\ Goes(p, "off")
  /\ UNCHANGED <<logFlags, paths, files, rung, said>>
Restart(p) ==
  /\ ~Running(p) /\ p \in Rotators
  /\ Goes(p, "idle")
  /\ UNCHANGED <<paths, files, logFile, held, toWrite, rung>> /\ SaidSame

LogInit ==
  /\ logFlags \in {{}, {"flush"}, {"repeats"}}
  /\ paths = [i \in 0..MaxRotate |-> 0] /\ files = <<>>
  /\ logFile = [p \in Loggers |-> 0]
  /\ held = [p \in Loggers |-> <<>>] /\ toWrite = [p \in Loggers |-> <<>>]
  /\ logAt = [p \in Loggers |-> IF p \in Rotators THEN "idle" ELSE "off"]
  /\ rung = [p \in Loggers |-> 0]
  /\ lastText = [p \in Loggers |-> ""] /\ repeated = [p \in Loggers |-> 0]
  /\ said = [p \in Loggers |-> <<>>] /\ crashed = {}

LogNext ==
  \E p \in Loggers :
    \/ LogToFile(p) \/ CheckRotate(p) \/ RotateOne(p) \/ RotateLive(p) \/ Write(p)
    \/ LogFileCheckRotate(p) \/ LogFileFlushAll(p) \/ LogFileClose(p) \/ Kill(p) \/ Restart(p)
    \/ \E c \in Loggers : Fork(p, c)

LogSpec == LogInit /\ [][LogNext]_logVars

-----------------------------------------------------------------------------
(* Properties                                                              *)

LogTypeOK ==
  /\ paths \in [0..MaxRotate -> 0..Len(files)] /\ logFile \in [Loggers -> 0..Len(files)]
  /\ logAt \in [Loggers -> {"off", "idle", "check", "rotate", "write"}]
  /\ rung \in [Loggers -> 0..MaxRotate] /\ repeated \in [Loggers -> Nat]

\* What can be read, from the oldest archive to the file at Path.
Archive(i) == IF paths[i] = 0 THEN <<>> ELSE files[paths[i]]
Own(p, e) == e.by = p /\ e.text # "repeated"

\* The messages of a process stand in their order, each once, whenever files are rotated,
\* by whom a file is held, and whoever is killed in between.
InOrder ==
  \A p \in Loggers : \A i, j \in 0..MaxRotate : \A a \in DOMAIN Archive(i), b \in DOMAIN Archive(j) :
    /\ Own(p, Archive(i)[a]) /\ Own(p, Archive(j)[b])
    /\ i > j \/ (i = j /\ a < b)
    => Archive(i)[a].n < Archive(j)[b].n

\* Of the process that rotates no message is missing between two that are kept, unless it
\* was killed with that in its buffer; and none is missing at the end.
Kept(p) ==
  {e.n : e \in {f \in Range(held[p] \o toWrite[p]) \cup UNION {Range(Archive(i)) : i \in 0..MaxRotate} : Own(p, f)}}
NoneMissing ==
  "repeats" \notin logFlags =>
    \A p \in Rotators : \A n \in 1..Len(said[p]) :
      (\E m \in Kept(p) : m < n) /\ n \notin Kept(p) => \E e \in crashed : e.by = p /\ e.n = n

\* With LOGFILE_FLUSH a message is in a file when the call has returned.
FlushedWhenSaid == "flush" \in logFlags => \A p \in Loggers : logAt[p] = "idle" => held[p] = <<>>

LogsKept == InOrder /\ NoneMissing /\ FlushedWhenSaid
=============================================================================
