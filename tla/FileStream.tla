----------------------------- MODULE FileStream -----------------------------
(***************************************************************************)
(* A STREAM on a file (libUseful/Stream.c): one offset in the kernel, the  *)
(* bytes that were read ahead of the program and those that it wrote and   *)
(* that are still to go.  How the file is opened comes at the end.         *)
(***************************************************************************)
EXTENDS Integers, FiniteSets, SequencesExt

CONSTANTS
  FileModes,  \* how the file may be opened: "rw", "append", "mmap"
  MaxFile,    \* bound: bytes of the file
  FileBuff,   \* S->BuffSize
  Mixes       \* the program reads and writes without a seek in between

ASSUME FileAssumption ==
  /\ FileModes \subseteq {"rw", "append", "mmap"}
  /\ MaxFile \in Nat /\ FileBuff \in Nat \ {0} /\ Mixes \in BOOLEAN

VARIABLES
  mode,    \* how it was opened
  disk,    \* the file
  offset,  \* where the kernel reads and writes next; of an mmap S->InStart
  unread,  \* S->InputBuff from InStart to InEnd
  unsent,  \* S->OutputBuff up to OutEnd
  fresh,   \* history: the bytes written so far
  doing,   \* history: the program "reads", "writes", or has just been told to "seek"
  given,   \* what the last read returned
  toldPos  \* what the last tell or seek returned

fileStreamVars == <<mode, disk, offset, unread, unsent, fresh, doing, given, toldPos>>

Content(n) == [i \in 1..n |-> i]

\* STREAMFileOpen: the file has bytes of its own.
FileInit ==
  /\ mode \in FileModes
  /\ \E n \in 0..MaxFile : disk = Content(n)
  /\ offset = (IF mode = "append" THEN Len(disk) ELSE 0)
  /\ unread = <<>> /\ unsent = <<>> /\ fresh = 0 /\ doing = "seek"
  /\ given = <<>> /\ toldPos = 0

-----------------------------------------------------------------------------
\* A variant of AfterSeek below with a slip in it, used by nothing: the property is
\* tried with it in the place of AfterSeek.
KeepsAhead == unread

Less(a, b) == IF a < b THEN a ELSE b

\* write(2) of bytes at the offset, or at the end.
WriteAt(bytes) ==
  LET from == IF mode = "append" THEN Len(disk) ELSE offset
      end == from + Len(bytes)
  IN  [disk |-> [i \in 1..(IF end > Len(disk) THEN end ELSE Len(disk)) |->
                   IF i \in (from + 1)..end THEN bytes[i - from]
                   ELSE IF i <= Len(disk) THEN disk[i] ELSE 0],
       offset |-> end]

\* STREAMFlush
FlushedFile == IF unsent = <<>> THEN [disk |-> disk, offset |-> offset] ELSE WriteAt(unsent)

\* STREAMReadBytes: what was read ahead, and as many blocks behind it as it takes to
\* have some left; none is left at the end of the file only.
ReadFileBytes(n) ==
  LET ahead == unread \o SubSeq(disk, offset + 1, Len(disk))
      blocks == IF n < Len(unread) THEN 0 ELSE 1 + ((n - Len(unread)) \div FileBuff)
      last == IF offset > Len(disk) THEN offset ELSE Less(offset + (blocks * FileBuff), Len(disk))
  IN  /\ doing # "writes" \/ Mixes
      /\ doing' = "reads"
      /\ given' = SubSeq(ahead, 1, Less(n, Len(ahead)))
      /\ IF mode = "mmap"
           THEN offset' = Less(offset + n, Len(disk)) /\ UNCHANGED unread
           ELSE /\ offset' = last
                /\ unread' = SubSeq(ahead, n + 1, Len(unread) + (last - offset))
      /\ UNCHANGED <<mode, disk, unsent, fresh, toldPos>>

\* STREAMWriteBytes of a stream that flushes when its buffer is full.
WriteFileBytes(n) ==
  LET all == unsent \o [i \in 1..n |-> -(fresh + i)]
      full == FileBuff * (Len(all) \div FileBuff)
      written == WriteAt(SubSeq(all, 1, full))
  IN  /\ mode # "mmap"
      /\ doing # "reads" \/ Mixes
      /\ fresh + n <= MaxFile
      /\ doing' = "writes"
      /\ fresh' = fresh + n
      /\ unsent' = SubSeq(all, full + 1, Len(all))
      /\ IF full = 0 THEN UNCHANGED <<disk, offset>>
                     ELSE disk' = written.disk /\ offset' = written.offset
      /\ UNCHANGED <<mode, unread, given, toldPos>>

\* Where the stream is when nothing is left to be sent.
FilePlace == FlushedFile.offset - Len(unread)

STREAMTell ==
  /\ toldPos' = FilePlace
  /\ disk' = FlushedFile.disk /\ offset' = FlushedFile.offset /\ unsent' = <<>>
  /\ UNCHANGED <<mode, unread, fresh, doing, given>>

\* What is left of the read ahead when lseek(2) is called.
AfterSeek == <<>>

\* Where a seek by d from whence leads; programs stay within the file.
Target(whence, d) ==
  CASE whence = "SEEK_SET" -> d
    [] whence = "SEEK_CUR" -> FilePlace + d
    [] whence = "SEEK_END" -> IF mode = "mmap" THEN Len(disk) - d ELSE Len(FlushedFile.disk) + d

STREAMSeek(whence, d) ==
  /\ Target(whence, d) \in 0..Len(FlushedFile.disk)
  /\ toldPos' = Target(whence, d)
  /\ offset' = toldPos' /\ disk' = FlushedFile.disk
  /\ unread' = AfterSeek /\ unsent' = <<>>
  /\ doing' = "seek"
  /\ UNCHANGED <<mode, fresh, given>>

\* STREAMTruncate goes past the buffers: the program seeks before and behind it.
STREAMTruncate(n) ==
  /\ mode # "mmap" /\ doing = "seek"
  /\ n \in offset..Len(disk)
  /\ disk' = SubSeq(disk, 1, n)
  /\ UNCHANGED <<mode, offset, unread, unsent, fresh, doing, given, toldPos>>

FileNext ==
  \/ \E n \in 1..MaxFile : ReadFileBytes(n) \/ WriteFileBytes(n)
  \/ STREAMTell
  \/ \E whence \in {"SEEK_SET", "SEEK_CUR", "SEEK_END"}, d \in (-MaxFile)..(2 * MaxFile) :
       STREAMSeek(whence, d)
  \/ \E n \in 0..(2 * MaxFile) : STREAMTruncate(n)

FileStreamSpec == FileInit /\ [][FileNext]_fileStreamVars

-----------------------------------------------------------------------------
(* Properties                                                              *)

FileTypeOK ==
  /\ mode \in FileModes /\ doing \in {"reads", "writes", "seek"}
  /\ disk \in Seq(Int) /\ Len(disk) <= 2 * MaxFile
  /\ offset \in 0..(2 * MaxFile) /\ toldPos \in 0..(2 * MaxFile) /\ fresh \in 0..MaxFile
  /\ \A buffer \in {unread, unsent} : buffer \in Seq(Int) /\ Len(buffer) < FileBuff + 1
  /\ given \in Seq(Int)

\* The file as the program sees it.
Seen == INSTANCE File WITH
  append <- mode = "append", content <- FlushedFile.disk,
  place <- FilePlace, told <- toldPos

\* The two buffers and the offset are one file with one place: what is read is what
\* is there or was written before, where the stream says it is.
FileIsFile == Seen!Spec

-----------------------------------------------------------------------------
(***************************************************************************)
(* Opening a file as a STREAM (STREAMFileOpen and STREAMParseConfig of     *)
(* libUseful/Stream.c): the letters of the configuration, and the calls    *)
(* that open, lock, check and truncate the file while other processes do   *)
(* the same.                                                               *)
(***************************************************************************)

CONSTANTS
  Openers,      \* the processes
  Configs,      \* what they open the file with: sequences of letters
  MaxRecords    \* bound: what is written to the file

ASSUME OpenAssumption ==
  /\ MaxRecords \in Nat
  /\ \A c \in Configs : c \in Seq({"r", "w", "a", "c", "+", "l", "L", "x", "F", "m"})

VARIABLES
  config,  \* what each process opens the file with
  linked,  \* its path is a symbolic link
  exists,  \* the file is there
  file,    \* its records
  locks,   \* flock(2): <<process, "SH" or "EX">>
  step,    \* where each process is: the calls left of STREAMFileOpen, or
  stream,  \* what it returned: "none" before, "open", "NULL", and "closed" later
  queued,  \* it has a record in its output buffer
  emptied  \* history: the processes whose open took records from the file

openVars == <<config, linked, exists, file, locks, step, stream, queued, emptied>>

-----------------------------------------------------------------------------
(* STREAMParseConfig                                                       *)

Rights == {"SF_RDONLY", "SF_WRONLY"}

AfterLetter(set, c) ==
  CASE c = "c" -> set \cup {"SF_CREATE"}
    [] c = "r" -> IF "SF_WRONLY" \in set THEN set \ Rights ELSE set \cup {"SF_RDONLY"}
    [] c = "w" -> IF "SF_RDONLY" \in set THEN set \ Rights
                  ELSE set \cup {"SF_WRONLY", "SF_CREATE", "SF_TRUNC"}
    [] c = "a" -> set \cup {"STREAM_APPEND", "SF_CREATE"}
    [] c = "l" -> set \cup {"SF_RDLOCK"}
    [] c = "L" -> set \cup {"SF_WRLOCK"}
    [] c = "m" -> set \cup {"SF_MMAP"}
    [] c = "F" -> set \cup {"SF_FOLLOW"}
    [] c = "x" -> set \cup {"SF_EXCL"}
    [] c = "+" -> set \ Rights

STREAMParseConfig(letters) == FoldLeft(AfterLetter, {}, letters)

FlagsOf(p) == STREAMParseConfig(config[p])
Set(p, flag) == flag \in FlagsOf(p)
MayRead(p) == ~Set(p, "SF_WRONLY")
MayWrite(p) == Set(p, "SF_WRONLY") \/ ~Set(p, "SF_RDONLY")

-----------------------------------------------------------------------------
\* A variant of Calls below with a slip in it, used by nothing: the property is
\* tried with it in the place of Calls.
TruncatesFirst == <<"open", "prepare", "lock", "check">>

\* The calls of STREAMFileOpen in their order.
Calls == <<"open", "lock", "check", "prepare">>

OpenInit ==
  /\ config \in [Openers -> Configs] /\ linked \in BOOLEAN
  /\ exists \in BOOLEAN /\ (linked => exists)
  /\ file = (IF exists THEN <<"old">> ELSE <<>>)
  /\ locks = {} /\ step = [p \in Openers |-> Calls]
  /\ stream = [p \in Openers |-> "none"] /\ queued = [p \in Openers |-> FALSE]
  /\ emptied = {}

At(p, call) == step[p] # <<>> /\ Head(step[p]) = call
Proceeds(p) == step' = [step EXCEPT ![p] = Tail(@)] /\ UNCHANGED stream
Without(p) == {l \in locks : l[1] # p}

\* The descriptor is closed, and its lock with it.
Fails(p) ==
  /\ step' = [step EXCEPT ![p] = <<>>]
  /\ stream' = [stream EXCEPT ![p] = "NULL"]
  /\ locks' = Without(p)
  /\ UNCHANGED <<exists, file>>

Open(p) ==
  /\ At(p, "open")
  /\ IF \/ ~exists /\ ~Set(p, "SF_CREATE")
        \/ exists /\ {"SF_CREATE", "SF_EXCL"} \subseteq FlagsOf(p)
       THEN Fails(p)
       ELSE exists' = TRUE /\ Proceeds(p) /\ UNCHANGED <<file, locks>>
  /\ UNCHANGED <<config, linked, queued, emptied>>

\* Another process has a lock that one of this kind cannot be taken beside.
Excludes(p, kind) == \E l \in locks : l[1] # p /\ "EX" \in {kind, l[2]}

\* A shared lock that is asked for, too, takes the place of the exclusive one.
Lock(p) ==
  /\ At(p, "lock")
  /\ IF \/ Set(p, "SF_WRLOCK") /\ Excludes(p, "EX")
        \/ Set(p, "SF_RDLOCK") /\ Excludes(p, "SH")
       THEN Fails(p)
       ELSE /\ locks' = Without(p) \cup
                 (IF Set(p, "SF_RDLOCK") THEN {<<p, "SH">>}
                  ELSE IF Set(p, "SF_WRLOCK") THEN {<<p, "EX">>} ELSE {})
            /\ Proceeds(p) /\ UNCHANGED <<exists, file>>
  /\ UNCHANGED <<config, linked, queued, emptied>>

\* A file that may be written, or is opened with more than O_RDONLY, is not opened
\* through a link.
LooksForLink(p) ==
  ~Set(p, "SF_FOLLOW") /\ (MayWrite(p) \/ FlagsOf(p) \cap {"STREAM_APPEND", "SF_CREATE", "SF_EXCL"} # {})

Check(p) ==
  /\ At(p, "check")
  /\ IF linked /\ LooksForLink(p)
       THEN Fails(p) ELSE Proceeds(p) /\ UNCHANGED <<exists, file, locks>>
  /\ UNCHANGED <<config, linked, queued, emptied>>

\* ftruncate(2), which fails for a descriptor that may only read.
Truncates(p) ==
  Set(p, "SF_TRUNC") /\ MayWrite(p) /\ ~({"SF_RDONLY", "SF_MMAP"} \subseteq FlagsOf(p))

Prepare(p) ==
  /\ At(p, "prepare")
  /\ file' = (IF Truncates(p) THEN <<>> ELSE file)
  /\ emptied' = (IF file' = file THEN emptied ELSE emptied \cup {p})
  /\ Proceeds(p)
  /\ UNCHANGED <<config, linked, exists, locks, queued>>

Returned(p) ==
  /\ step[p] = <<>> /\ stream[p] = "none"
  /\ stream' = [stream EXCEPT ![p] = "open"]
  /\ UNCHANGED <<config, linked, exists, file, locks, step, queued, emptied>>

-----------------------------------------------------------------------------
\* A record in the output buffer.
QueueRecord(p) ==
  /\ stream[p] = "open" /\ MayWrite(p)
  /\ queued' = [queued EXCEPT ![p] = TRUE]
  /\ UNCHANGED <<config, linked, exists, file, locks, step, stream, emptied>>

\* STREAMBasicSendBytes: the lock of the write waits for others, and takes the lock
\* of the opening with it when it goes.
PushRecord(p) ==
  /\ stream[p] = "open" /\ queued[p]
  /\ Set(p, "SF_WRLOCK") => ~Excludes(p, "EX")
  /\ Len(file) < MaxRecords
  /\ file' = Append(file, p)
  /\ locks' = (IF Set(p, "SF_WRLOCK") THEN Without(p) ELSE locks)
  /\ queued' = [queued EXCEPT ![p] = FALSE]
  /\ UNCHANGED <<config, linked, exists, step, stream, emptied>>

\* STREAMReadCharsToBuffer_Default of a stream that locks its reads.
ReadLocked(p) ==
  /\ stream[p] = "open" /\ MayRead(p) /\ Set(p, "SF_RDLOCK") /\ ~Excludes(p, "SH")
  /\ locks' = Without(p)
  /\ UNCHANGED <<config, linked, exists, file, step, stream, queued, emptied>>

\* STREAMClose, when what was queued is written.
Close(p) ==
  /\ stream[p] = "open" /\ ~queued[p]
  /\ stream' = [stream EXCEPT ![p] = "closed"]
  /\ locks' = Without(p)
  /\ UNCHANGED <<config, linked, exists, file, step, queued, emptied>>

FileUse(p) ==
  \/ Open(p) \/ Lock(p) \/ Check(p) \/ Prepare(p) \/ Returned(p)
  \/ QueueRecord(p) \/ PushRecord(p) \/ ReadLocked(p) \/ Close(p)

OpenNext == \E p \in Openers : FileUse(p)

OpenSpec == OpenInit /\ [][OpenNext]_openVars

-----------------------------------------------------------------------------
(* Properties                                                              *)

OpenTypeOK ==
  /\ config \in [Openers -> Configs] /\ linked \in BOOLEAN
  /\ exists \in BOOLEAN /\ file \in Seq(Openers \cup {"old"})
  /\ locks \subseteq Openers \X {"SH", "EX"}
  /\ \A p \in Openers : IsSuffix(step[p], Calls)
  /\ stream \in [Openers -> {"none", "open", "NULL", "closed"}] /\ queued \in [Openers -> BOOLEAN]
  /\ emptied \subseteq Openers

\* A process whose open went through: no call of it failed, and none is left.
WentThrough(p) == step[p] = <<>> /\ stream[p] # "NULL"

\* An open leaves every byte of the file as it was, unless it was to empty it, may
\* write it, and went through: with the lock it asked for, and not through a link
\* that it must not follow.  Each call looks at the file on its own, and the others
\* come in between.  Two processes have a lock only if both have a shared one, and
\* one whose open failed or that has closed the file has none.
OpenKeepsFile ==
  /\ \A l, m \in locks : l[1] # m[1] => l[2] = "SH" /\ m[2] = "SH"
  /\ \A l \in locks : stream[l[1]] \in {"none", "open"}
  /\ \A p \in emptied :
       /\ Set(p, "SF_TRUNC") /\ MayWrite(p) /\ WentThrough(p)
       /\ linked => Set(p, "SF_FOLLOW")

\* A process that asks for a lock does not empty the file under the exclusive lock of
\* another; and one that asks for the exclusive lock ("L") and not for the shared one
\* ("l") does not empty it under any lock of another.  "wl" is left out: its lock
\* stands beside the shared ones of the others, and the file is emptied all the same.
NeverEmptiesLocked ==
  [][\A p, q \in Openers :
       /\ file # <<>> /\ file' = <<>>
       /\ At(p, "prepare") /\ step[p] # step'[p] /\ p # q
       => /\ FlagsOf(p) \cap {"SF_WRLOCK", "SF_RDLOCK"} # {} => <<q, "EX">> \notin locks
          /\ Set(p, "SF_WRLOCK") /\ ~Set(p, "SF_RDLOCK") => \A l \in locks : l[1] # q]_openVars
=============================================================================
