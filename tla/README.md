# Specifications of daytime

TLA+ specifications of *daytime*, the program that asks a server for the time,
sets the system clock from it, and as a daemon also serves, sends and receives
SNTP (`src/*.c`), and of *libUseful*, the library it is built on and comes with
(`src/libUseful`).  The specifications are model-checked with TLC and the
theorems about them are proved with TLAPS.

Contents: 1 the system, 2 the modules, 3 what is checked, 4 what is proved,
5 what is not modelled and what is left to do.

## 1. The system

### The program

daytime is one process with one thread.  What makes it hard is not concurrency
inside it but time: it acts on readings of a clock that it changes itself,
reads the clock in few places, keeps the reading in a global (`TimeNow`) and
uses it after calls that take seconds, while the network goes on.

| Component | State | Operations | Hard because | Correct when |
|---|---|---|---|---|
| Main loop (`main.c:360`) | `TimeNow`, `NextSync`, `S`, `tv` | one iteration: read clock, maybe fetch, broadcast, receive, select | `NextSync` is a date of a clock that is set in between; select wakes exactly at it; `tv_usec` is what was left there | checks go on at a bounded pace, and no faster; nothing blocks between select and select |
| Time sources (`main.c:74`-`258`) | sockets, `RemoteTimeZone` | ask one server, or three in turn | slow, partial and failing answers; formats; zones | an answer is the server's time or none; requests are served meanwhile |
| Received time (`common.c:105`, `sysclock.c`) | system clock, slew in progress, hardware clock | `HandleReceivedTime`: skip, slew or step | compares the answer with a stale `TimeNow` | the clock ends near the server and stays there |
| SNTP client (`sntp.c:203`-`307`) | one socket per call | up to ten datagrams out, one in | loss, late answers, float arithmetic | returns in bounded time, time within the round trip |
| SNTP server and listener (`sntp.c:311`-`403`) | socket on port 123 and its queue | answer a request, believe a broadcast, broadcast | stamps from `TimeNow`; datagrams wait during a fetch | stamps are recent and not before the request; a late broadcast does bounded harm |
| Command line (`command-line-args.c`) | `Args` | options in order | options undo each other | the last one that speaks of a thing tells |
| `-S` (`main.c:262`) | none | parse a date | several formats, uninitialised `struct tm` | every listed form gives its date |
| Time zones (`main.c:7`, `:373`) | `TZ`, `RemoteTimeZone`, `OldTimeZone` | set from answers, restored at exit | sticky | each answer is read in its zone; the hardware clock stays in one |
| Process control (`libUseful/Process.c`) | pid file and lock | daemonise, write and lock | the lock's failure is ignored | the pid file names the daemon that has the lock |

The components interact by calls from the main loop and through shared state:
`TimeNow` is written by the main loop and the SNTP client and read by the SNTP
server, the broadcasts and `UpdateSystemClock`; the system clock is written by
`UpdateSystemClock` and read by the loop; the socket's queue is filled by the
network at any time and emptied one datagram per iteration.

### The library

libUseful is a general library, most of it built around `STREAM`, a buffered
connection to a file, a socket, a program or a terminal.  Its parts are called
one by one by a program and share no state but the streams they are handed.

| Component | State | Hard because | Correct when |
|---|---|---|---|
| Streams (`Stream.c`) | two buffers with their indices | bytes come and go in any pieces, calls end by a timeout in the middle | no byte is lost, repeated or out of place; what is to be sent is sent |
| Files (`Stream.c`) | the same buffers, an offset, locks | one offset for what is read ahead and what is still to be written; an open is many calls | one file with one place; a failed open leaves the file |
| Strings (`String.c`, `StrLenCache.c`) | lengths cached by address | strings change in place, move, are freed | the length is the string's |
| Tokens, patterns (`Tokenizer.c`, `PatternMatch.c`) | a pointer that is handed on | several separators, quotes, escapes; one function moves the pointer of another | the first separator ends a token; a match is one |
| Lists (`List.c`) | links, count, cached item | each operation keeps each pointer by hand | links agree; what is in is found |
| Hashes (`md5c.c`, `sha1.c`, ...) | a partial block | padding at the edge of a block | the hash is that of the message |
| Terminal (`Terminal*.c`) | the line, the menu, the row on the screen | sequences share beginnings; the row and the line are kept apart | what is typed is read and shown |
| Connections (`Socket.c`, `ConnectionChain.c`) | one socket | each proxy has its protocol, late bytes, failures | it leads to whom it was asked for |
| Servers (`Server.c`) | the queue of the socket | one client at a time, TLS found out by looking | each client gets its answer |
| HTTP (`Http.c`, `HttpChunkedTransfer.c`) | request flags, the open connection | redirects, challenges, left over bodies | it ends; nobody waits for what does not come; the body is whole |
| WebSocket, TLS, mail, OAuth | a session with a peer | replies out of step, masks, retries, a file that is shared | messages whole, nothing in the clear, delivered once, tokens kept |
| Logs (`Log.c`) | buffers, open files | rotation with children that hold the old files | messages kept in order |
| Processes (`Process.c`, `SpawnPrograms.c`, `Pty.c`) | descriptors, user, root, locks | forks copy what is open; privileges go step by step | the child has what is its own; it runs as it was configured or not at all |

## 2. The modules

| Module | Models | Role |
|---|---|---|
| `SysClock` | `sysclock.c:3`-`44`, kernel slewing, `struct timeval` | operators: skip, slew or step; the clock after it |
| `Sntp` | `sntp.c:283`-`299` | operators: round trip and time of an exchange, with the float |
| `ClockDiscipline` | `SysClock` in a loop with a perfect server | state machine, and theorems about it |
| `Daytime` | `main()` and everything it calls in its loop | state machine, the core |
| `SntpFetch` | `SNTPGetTime` as the main loop sees it | abstract specification of one SNTP request |
| `SntpExchange` | `SNTPGetTime`, `SNTPServerTransact`, `SNTPReadPacket` and the network | state machine that implements `SntpFetch` |
| `Startup` | `command-line-args.c`, the start of `main()`, `demonize`, `WritePidFile` | daemons that are started, killed and started again |
| `SetTime` | `SetTimeFromCommandLine` | one step for each form that may be typed |
| `TimeSources` | `GetTimeFromHost` and the four kinds of server below it, `TZ` | the loop, its servers' lines, zones and the requests that wait |
| `ProcessConfig`, `Spawn`, `Log` | `Process.c`, `SpawnPrograms.c` with `Pty.c`, `Log.c` | processes of libUseful |
| `Selection` | the words of a config that a pass looks at | operator of `Startup` and `ProcessConfig` |
| `ByteChannel` | what `Stream.h` promises of a direction | abstract specification |
| `StreamInput`, `StreamOutput` | the two buffers of a `STREAM` and the kernel's behind them | state machines with a peer; the first implements `ByteChannel` |
| `File` | what `Stream.h` promises of a file | abstract specification |
| `FileStream` | a `STREAM` on a file, and opening it | implements `File`; two processes that open |
| `StreamFind`, `SendFile` | `STREAMFind`, `STREAMSendFile` | state machines |
| `Strings`, `List`, `HashBlocks`, `Tokenizer` | the files of these names, `PatternMatch.c` in the last | state machines whose steps are calls |
| `TerminalKeys`, `TerminalDialog` | `TerminalKeys.c`; `Terminal.c`, `TerminalMenu.c`, `TerminalChoice.c`, `TerminalBar.c`, `Unicode.c` | a step is a key |
| `ConnectionChain`, `Service`, `WebSocket`, `Tls` | `Socket.c` and `ConnectionChain.c`; `Server.c`, `StreamAuth.c`, `HttpServer.c`; `WebSocket.c`; `OpenSSL.c` | a client, or a server with clients, and what arrives when |
| `Http`, `ChunkedTransfer`, `Smtp`, `OAuth` | the files of these names | sessions with a server |
| `MCDaytime`, `MCSntpExchange` | | constants for TLC |
| `MCProgram`, `MCLibrary`, `MCHttp` | | several parts side by side, constants for TLC |
| `DaytimeProofs`, `SntpExchangeProofs`, `ProgramProofs`, `HttpProofs`, `SessionProofs`, `StreamProofs`, `LibraryProofs` | | theorems |

`Daytime` extends `SysClock` and `Sntp`: setting the clock and working out an
SNTP answer are operators, and the actions of `Daytime` apply them to its state.
An SNTP request is one action of `Daytime` (`SntpAnswer`, `NoAnswer` or
`NoSocket`), although the code sends up to ten datagrams in it.  `SntpFetch`
states what that action relies on, with the same operator `SntpTimes` for the
times that may come out, and `SntpExchange` is the request datagram by datagram,
shown to implement `SntpFetch`.  `TimeSources` looks at the same loop from
another side: not how long an answer takes and how good it is, but which line
it comes in, in which zone it is read, and whether the connection ends.

`MCProgram`, `MCLibrary` and `MCHttp` put modules that share no state into one
specification: a variable (`part`, `side`) says which of them a behaviour is
about, and the others rest in one initial state, so that the states are the sum
and not the product of the parts.  In `MCHttp` a request and the body behind it
do compose: `ChunkedTransfer` runs when `Http` has come to its result.

### Time

The true time `now` is counted in ticks, `TicksPerSec` to the second (10^6 in
the program, 2 to 20 in the models).  The system clock shows `now + offset`;
`slew` is what `adjtime()` has still to add.  The program reads the clock only
where the code does (`ReadClock`, `main.c:397` and `sntp.c:283`).  `Tick` lets
time pass where the program blocks: while a server is asked, at most `MaxFetch`
ticks per server, and in select, until its timeout.  Everything else takes no
time.  Slewing may work off one tick per tick or pause; the kernel is slower,
and all properties hold for every pace up to that.

### Daytime, action by action

`pc` is the place in `main()`.

| Action | Code | What it does |
|---|---|---|
| `BindSntpPort` | `main.c:388`-`392` | binds port 123 or goes on without |
| `Top` | `main.c:397`-`398` | reads the clock, decides whether `NextSync` has passed |
| `TcpAnswer` | `main.c:208`-`258`, `common.c:105` | a TCP server answers: its second, at some moment since it was asked; the time is handled |
| `SntpAnswer` | `sntp.c:249`-`307` | an SNTP server answers: `TimeNow` is read again, the time worked out and handled, a socket leaked |
| `NoAnswer` | `main.c:247`-`251` | the next server is asked, or the fetch ends without a time |
| `NoLine` | `main.c:88`-`97`, `:41` | a daytime server closes without a line, or its line is one word: the program crashes |
| `NoSocket` | `sntp.c:266`, `main.c:400` | FATAL: the loop is left |
| `Broadcast` | `sntp.c:338`, `main.c:405`-`407` | broadcasts `TimeNow`, sets `NextSync` |
| `SntpReceive`, `NothingReceived` | `sntp.c:363`-`403`, `main.c:409` | answers a request, believes a broadcast, drops the rest |
| `EnterSelect`, `SelectReadable`, `SelectTimeout` | `main.c:411`-`413`, `Stream.c:64`, `:389` | sleeps; `tv_usec` keeps the remainder |
| `Tick`, `Arrive` | the world | time; datagrams |

`HandleReceivedTime` is part of the actions that call it.  Uninitialised
`tv_usec` is the value `Garbage`: the select then ends at a time nobody knows.
A command line is a record of what the rest of the program reads from `Args`;
`sources` is the order in which servers are asked: a daytime server, another one
by TCP, or one by SNTP.  A missing
privilege makes every setting fail, which the code ignores, and is the same as
a command line without `-s` and `-r`.

The history variables `readAt`, `syncAt`, `putBack`, `putAhead`, `wild` and
`wasSet` record when `TimeNow` was read, when the last fetch began, whether the
clock was put back or slowed, or ahead or sped up, since, whether a select
since had garbage in `tv_usec`, and that some time was handled.  `out` holds the datagrams of the current iteration.

### Assumptions about the world

The servers and the other broadcasters tell the true time: the properties are
about what the program adds to it.  An attempt to ask a server ends after
`MaxFetch` ticks (libUseful's stream timeout, or ten times 100 ms for SNTP).
Datagrams are received in the order of arrival.  `adjtime()` replaces the slew
in progress; `settimeofday()` ends it.

### SntpExchange, action by action

One behaviour is one call of `SNTPGetTime`.  Its constants give the state it may
find: the error of the clock, a slew in progress, the age of `TimeNow`.

| Action | Code | What it does |
|---|---|---|
| `Bind` | `sntp.c:261`-`270` | a socket on any port, or FATAL |
| `Send` | `sntp.c:203`-`226` | one of the name's addresses is asked, with `TimeNow` in the request |
| `NoAddress` | `sntp.c:216`-`245` | the name does not resolve: the attempt is over at once |
| `ReadReply` | `sntp.c:227`-`301` | the first datagram in the queue: the reply of the address asked last is used; anything else ends the attempt |
| `TimeOut` | `sntp.c:126`-`131` | nothing within 100 ms |
| `GiveUp` | `sntp.c:274`-`307` | ten attempts are over |
| `Deliver`, `Tick` | the world | a reply to any request, any number of times, or a stray datagram; time |

A reply carries the `TimeNow` it answers back, and all requests of a call carry
the same one: a reply says which address it is from and nothing about which
attempt it answers.  So the model keeps for every address when it was first
asked, and a reply may have been made at any moment since.  Time passes while a
name is looked up (`Lookup`) and in the select (`Wait`).

### The program around its loop

`Startup` (`command-line-args.c:135`-`262`, `main.c:360`-`420`,
`Process.c:216`-`244` and `949`-`986`).  Every daemon is at a `phase` and has `stages` of its
start left: the forks of `demonize`, opening, locking, truncating and writing
the pid file, binding port 123.  `Order` says in which order they come, one
action each, and `Killed` may fall between any two.  A pid counts up at every
fork, so that the file of a parent, of a killed daemon and of the one before it
are told apart.  `ParseOption` is one turn of the loop of `CommandLineParse`:
`turn` counts the options that were taken, `args` has the flags and the URL they
left, and -S takes the rest of the line; `EndOfOptions` is what `main()` makes of
them.

`SetTime` (`main.c:262`-`357`) is one step from what was typed to what
`HandleReceivedTime` is given.  A field is known by what the code looks at: its
separator, the order of its halves, its length.

`TimeSources` (`main.c:74`-`258`) asks the servers of a `chain` one after the
other.  A server may send its date, something else, a part, nothing, or be
silent, and a time is known by the hours it is wrong by: 0 if it was read in the
zone it was meant in.  `TZ` in the environment, `RemoteTimeZone` and the
libc's reading of a zone it does not know are state or constants.  A crash
(`ParseDayTimeLine` with NULL, or with a line that has no space, as the code's
own ISO form has none) is a place, `crashed`.

`ProcessConfig` applies the words of a config one step at a time
(`ApplyStep`), in the order of the code and not in that of the words, with the
failures of each step and what the code does about them; a user or a group that
is not known, or that a new root does not know, is none to switch to.  `Spawn` has a table of
descriptors for the parent and each child, numbers and all, because the code
closes, duplicates and forgets by number.  `Log` has files that live on without
a name, so that a child's messages are somewhere after a rotation.

### libUseful, module by module

A call that can be interrupted (by a timeout, a peer, another process) is
several actions with a place; a call that cannot is one action, loop and all.
Contents are numbers: byte *i* is the *i*-th that was sent, so that a lost or
repeated byte shows.

| Module | Actions | What is abstracted |
|---|---|---|
| `StreamInput` | `ReadLine` and `ReadBytes` begin a call; `Reader` is one turn of its loop: hand over what is there, move the rest to the front, read, see the end or time out; `PeerSends`, `PeerCloses` | bytes are their places; `InputBuff` keeps its indices and its size |
| `StreamOutput` | `Write`, `Flush` begin a call; `Writer` queues, pushes a part, decides by flush type; `PeerTakes`, `PeerGoes` | the same |
| `FileStream` | reads, writes, seeks, tell, truncate; `OpenStep` for the calls within `STREAMFileOpen` | a file of a few bytes, a buffer of two |
| `StreamFind` | `Halve`, `Near`, `Rewind`, `Forward` | a line is a key and a length |
| `SendFile` | the kernel's copy, reads, writes, and Out's peer | bytes are their places |
| `Strings` | `CopyStr`, `CatStr`, `StrTrunc`, the Strip functions, `Destroy` | texts up to three characters; addresses are reused at once |
| `List` | adding, adding in order, finding, deleting, clearing | items are nodes with a tag |
| `HashBlocks` | `Update`, `Finish` | compression: a hash is the sequence of its blocks; blocks of 8 bytes with the lengths' fields in proportion |
| `Tokenizer` | `GetToken`; `Pmatch` | one character of each class |
| `TerminalKeys` | `Press`, `TerminalReadChar` | a key is a modifier and a word |
| `TerminalDialog` | a key in each of four dialogs; `TerminalFormatSubStr` | a row of four columns |
| `ConnectionChain` | `STREAMProcessConnectHops` with the replies of each hop, `Arrive`; the steps of `STREAMNetConnect` | a reply is a piece or two |
| `Service` | the stages of `STREAMServerAccept` for one client, `ConnectTo`, `HangUp` | who may log in is a choice |
| `WebSocket` | sends of a message and of control frames, whole or cut short, reads of any room, `OtherRead` (another WebSocket of the process) | masks by their number |
| `Tls` | `Starts`, `ClientTries`, `ServerTries`, `Notes`, `WritesBytes`, `OpenSSLClose` | keys and ciphers |
| `Http` | `Connect`, `Lost`, `Request`, `CallerWrites`, `ConnectsAgain`, `Answer`, `HangsUp`, `Reset`, `Respond` | headers by what they decide |
| `ChunkedTransfer` | `SendSome`, `CloseConnection`, `Pull`, `Flush` | none: sizes, line ends and bytes are there |
| `Smtp` | one action per line written, with the reply to the one before; `ServerTakes` | a line is its verb |
| `OAuth` | load, clean up, save and grant, cut where the file is locked, truncated and written; `Killed` | a pair of tokens is a number |

External code (the kernel's sockets, files and locks, OpenSSL, peers) is
modelled from how `src/` uses it and marked external in the map.

## 3. What is checked

`CHECK_DEADLOCK FALSE` because the program and the calls end, and because the
model of the main loop stops at `MaxTime`.  All passing runs are complete: TLC
visits every state within the bounds.

| Run | Question | Bounds |
|---|---|---|
| `clock_discipline` | does `UpdateSystemClock`, fed the exact time, keep the clock within a second? | second of 12 ticks, slew below 5, errors -15..15; no bound on the number of steps |
| `server` | pace both ways, stamps and error of a server that broadcasts, sets both clocks from one TCP source and gets requests at any moment; of a daemon and of a single look with the three default servers; of one that only shows the time | 11 seconds, i.e. three checks; select of 2 to 2.5 s; fetch up to 1.5 s; two datagrams queued; two descriptors; errors larger than any the program causes |
| `listener` | `-D -s -r -sntp bcast`, which polls an SNTP server too: error of the clocks | 4.5 seconds; 4 ticks a second so that slews happen; floats 2 s apart; one datagram queued |
| `sntp_exchange` | one SNTP request: does it return, in its time, with a time as good as the main loop's model takes it to be? | two attempts, two addresses, lookup 50 ms, wait 100 ms, two datagrams queued, a slew either way, the float of today at its worst places |
| `program` | `Startup`, `SetTime`, `TimeSources`, `Log`, `Spawn`, `ProcessConfig` | two daemons with six pids each; every command line of three words; every form of a date; three zones; a file and two archives, a parent that says three messages and a child that says two; nine descriptors, two children; six configs for each of two processes |
| `library` | `StreamInput`, `StreamOutput`, `FileStream`, `StreamFind`, `Strings`, `List`, `HashBlocks`, `Tokenizer`, `TerminalKeys`, `TerminalDialog` | buffers of 3 and 4 bytes with 8 to go through, i.e. at least two times around; files of 3 bytes, five lines to find a key in; three list items, texts of three characters, messages over three blocks; lines of four characters; two keys of every sequence |
| `http` | `Http`, `ChunkedTransfer`, `ConnectionChain`, `Service`, `WebSocket`, `Smtp`, `OAuth`, `Tls`, `SendFile` | two pages with every behaviour each, five bodies cut anywhere, two hops of eight kinds, two clients, two frames, two recipients and one late reply, two processes with two grants each, three versions of TLS |

The other five runs are the disagreements below.

Two attempts are enough for `sntp_exchange` because an attempt differs from the
one before it only in what the earlier ones left: an address that was asked and
datagrams in the queue, both of which the second attempt finds.  The start times
put the clock where the float is 64 seconds behind and 63 ahead, and a bound in
`TimeWithinCall` smaller by two ticks is violated.  The theorems of section 4
hold for any number of attempts.  In the library, what can go wrong goes wrong
at the edge of a buffer, a block or a chain of two; the bounds put every edge
within reach and let each be crossed at least twice.

### The properties

Of the clock:

- `WithinASecond`: the slew's sign is wrong and small times are not compared
  below the second, yet the loop keeps the clock within a second.
- `NextSyncNear`: `NextSync` is never more than the sleep time ahead of the
  clock, unless the clock was put back since it was computed.
- `SyncGap`: from one fetch to the next it takes at most the fetch and two
  selects, whatever datagrams wake the loop (not after the clock was put back,
  nor across a select with garbage in `tv_usec`).
- `StampAge`: no datagram carries a reading older than one fetch.
- `ReplyAfterRequest`: the receive time in a reply is not before the request.
- `NeverBlocksInReceive`: `SNTPReceive` is only called with a datagram waiting.
- `SyncPace`: servers are not asked again before the sleep time has passed,
  although `NextSync` may be worked out from a reading that is a fetch old (not
  after the clock was put ahead).
- `ClockErrorBounded`: once set, both clocks stay within a bound made of the
  second, the fetch, the broadcasts' time in the queue and half a step of the
  float, in whole ticks rounded up.
- `TimeWithinCall`: the time an SNTP request reports is wrong by at most half of
  the call, of `TimeNow`'s age, of the slew in progress and of half a step of
  the float, although late, duplicated and foreign datagrams arrive.
- `FetchSpec`: the request is a step of `SntpFetch`: it ends within its
  attempts' lookups and waits, is FATAL only at once, and uses a reply that was
  made during the call.
- `Returns`: the request ends.

Of the program around it:

- `PidFileNamesHolder`: the pid file has the pid of a daemon that runs exactly
  if that daemon has the lock.
- `CommandsObeyed`: the last option that speaks of a thing tells, whatever the
  order (`OptionsObeyed`); the date and time typed are those set (`TypedIsSet`).
- `ZoneExact`: a date from a server in the zone that is kept is read right;
  `RtcSameZone`: the hardware clock is set in the same zone every time.
- `ProcessesTrue`: `LogsKept` (in order, none missing, flushed when said),
  `SpawnRight` (a child has its stdio, ends of pipes are seen, streams are
  apart), `ConfigApplied` (a process that runs is what its config asked for, and
  one is not refused because of its own earlier steps).  Left out by name: a user
  or a group that is not known leaves the process its own; of a container's
  directory only the attempt counts, as its `chdir` calls may fail unseen; the
  flags that let a failed switch pass are not set; a config has a container or
  namespaces of its own, not both.
- `ComesUp`: a daemon that is started runs or ends, whoever has the lock; a
  request that waits at port 123 is answered, although servers are asked in
  between, as long as they end what they say.

Of the library:

- `InputIsChannel`: the input side implements `ByteChannel`; `ResultsTrue`: a
  line is whole, the end is the end, a timeout takes nothing of the line.
- `WritesAll`: nothing is lost on the way out, and what the flush type says is
  sent has been sent.  `CallsEnd`: reads return, writes return or wait for room.
- `FileIsFile`: the buffers and the offset implement `File`; `OpenKeepsFile`:
  locks exclude each other, and bytes are taken from a file only by an open that
  was to empty it, may write it and went through, to its lock and past the look
  for a link; `NeverEmptiesLocked`: who asks for a lock does not empty the file
  under another's exclusive lock, and who asks for the exclusive one not under
  any ("wl" is listed below).
- `DataTrue`: cached lengths, lists and hashes are what they are to be.
- `ScansExactly`: tokens end where the first separator stands; matches match; a
  key is found in a file if it is there (`KeyIsFound`).
- `TerminalTrue`: keys as typed, the row shows the line, text is measured as it
  is formatted.
- `NoMutualWait`: a client that waits for an answer has sent its whole request
  to the host of the page, unless the connection was reset while its caller
  wrote; `LoginsEnd`: two challenges at most, no rest of a reply is taken for the next; `BodyIsWhole`: a chunked body comes out in order,
  and all of it.
- `ConnectionsTrue`: a stream is connected to whom it was asked for, and marked
  so only when it is (unless it has SF_NONBLOCK); a server finds TLS with those
  who speak it, of whom two bytes are there when it looks, and answers each
  client once; no byte of a client leaves in the clear as long as it has
  something to negotiate with (`able`: a library and a context), and a noted
  certificate is one; copies are whole; mail is delivered once or not at all and
  only to a server that waits for it, line by line but for the full stop that a
  line begins with.
- `SessionsTrue`: a connection leads through its hops to its destination;
  WebSocket messages whose frames left whole are read whole; the tokens in the
  file are those the server honours.
- `WebCallsReturn`: requests, bodies and servers come to their ends.

`TypeOK`, `ProgramTypeOK`, `LibraryTypeOK` and `WebTypeOK` are the type
invariants.  Where a property has a condition (`~misread`, `Searchable`,
`Lenient`, `crossed`, `upset`, `Lag`, `Careful`, `broke`, `able`, `flagged`), the
condition names what the code does not do right, and the list at the end of this section says what
happens then.

Every property of a passing run is also tried on a specification with a slip
in it (variants such as `PidFileFirst`, `StaysCached` or `WritesAhead`, used by
nothing else) and fails there.

### Fairness

- `clock_discipline`, `server`, `listener`: safety only, no fairness.
- `sntp_exchange`: weak fairness of the program's own steps (nothing but the
  kernel's scheduling keeps a single thread from its next step, and a select
  whose time is over ends) and of `Tick` (time goes on).  Nothing is assumed of
  the network, which may deliver for ever or never.
- `program`: weak fairness of each daemon's start (the pid file is locked with
  `LOCK_NB`, so no step of it waits), of the loop and its asking, and
  of `ServerEnds`: a server ends what it says, because the loops that read a
  daytime or ssh host have no other end.  Without that the daemon is held for
  ever, which is listed below.
- `library`: weak fairness of the caller of a stream; none of its peer, as a
  read has a timeout.  A writer may wait for its peer, and `WriteEnds` says so.
- `http`: weak fairness of the client, and that a server that has a whole
  request answers or hangs up, or the client's own timeout (30 s of each stream,
  `HangsUp` too) ends the wait, and that it sends the body it began; of
  `STREAMServerAccept`, but not of the clients it looks at.

### Where the code does not keep what is said of it

| Run | Said | Done |
|---|---|---|
| `slew_direction` | `-s` sets the clock to the server's time | a slew moves it away (`sysclock.c:27`) |
| `put_back` | updated every 60 seconds | not after the clock was put back (`main.c:407`) |
| `socket_leak` | a daemon stays running | each SNTP poll leaks a socket and the limit ends the loop (`sntp.c:264`) |
| `own_broadcast` | the clock is set to the server's time | own broadcasts set it back (`sntp.c:391`) |
| `http_loop` | no eternal loop of sending passwords, no circular redirects | a proxy that answers every request with 407 keeps the call for ever (`Http.c:1129`); the run is `Http` alone with one such page, asked with HEAD.  Two pages that redirect to each other do the same, which needs a second page and is not what the run shows |

The models also contain what follows, without a run of its own; each property
that could not hold because of it says so in its condition.

*The program.*
`-t` is the time between checks, but they come after half of it
(`main.c:398`).  A broadcast carries the time from before the correction
(`sntp.c:158`).  The float in the round trip costs up to 32 s (`sntp.c:286`).
The first select sleeps for whatever `tv_usec` held (`main.c:412`).  A clock
that is fast by the time the fetch took is said to be synchronised
(`sysclock.c:13`).  The round trip contains the attempts that failed, because
all of them send the same `TimeNow` (`sntp.c:287`).  A daytime server that closes
without a line ends the daemon (`main.c:96`), as does a line of one word
(`main.c:41`: there is no space to look behind), one that closes early sets
garbage (`main.c:125`), a silent one holds it.  date(1)'s line from ssh has its
zone in the wrong field on days of one digit.  A second daemon binds the
same port (SO_REUSEADDR) and takes the first one's datagrams.

*Streams and files.*
Reads and writes of one file without a seek between them go astray
(`Mixes = TRUE` violates `FileIsFile`); a failing `lseek` drops what was read
ahead; `SEEK_END` of a mapped file has the wrong sign; "wr" creates and
truncates; a push releases the lock the file was opened with;
"wl" takes a shared lock and empties the file beside those of others
(`Stream.c:855`, `:908`).
`STREAMFind` compares prefixes, and a long last line may be
missed.  The kernel's copy of `STREAMSendFile` passes over what was read ahead
and returns 0, with a maximum it copies more, and some of its loops do not end.

*Strings, tokens, patterns, lists, hashes.*
`StripQuotes` leaves a wrong cached length.  A backslash within a partly matched
separator is not seen, nor by the short cut for one character; a lone quote
swallows; the last token keeps its quotes.  "?" and "[!a]" match nothing at the
end of a string, "$" never matches there, "*" is not gone back to, "?+" overruns
the pattern.  A swap in a list does not update the pointer to the last item in
every case.  jh's update is passed bytes for bits, so it is only checked for its
types.

*Terminal.*
`TerminalReadText` keeps characters that were erased although `Terminal.h` says
otherwise, a hidden line's backspace erases the prompt, and the arrows insert a
character.  The names of control keys and some others are not read back.  ESC O
and CSI differ in two keys, and an unknown modifier leaves a letter unread.
"\x" and "\0" are measured one too long, a cut may fall within a character, and
`UnicodeDecode` drops a bit and characters of four bytes.  A menu at the end of
its input never ends.

*Connections and sessions.*
The failure of an earlier hop is overwritten by the next one; a tcp hop behind
others is always TRUE; late answers are taken for the next hop's; SOCKS4 with an
address sends user and host twice; a name that does not resolve connects to this
host; a connect that does not block is TRUE although it failed, and a stream with
SF_NONBLOCK is marked as connected before it is (`Socket.c:966`).  A connection
that is reset between a request's headers and its body is made again, but the
headers count as sent: the client waits until its timeout for a server that it
asked nothing (`Http.c:988`-`996`).  A client without libssl, or without a
context, is marked as connected and writes in the clear (`OpenSSL.c:627`, `681`).  A server's TLS
negotiation that fails leaves the stream in the clear and its callers do not
look; `SSL_ERROR_SSL` equals TRUE; a certificate's verdict is only noted;
`OpenSSLAutoDetect` waits without its timeout, and takes a client of whom one
byte is there for one that does not speak TLS (`OpenSSL.c:919`).  A WebSocket's control frames
leave their mask unread, its message length is static and shared by all;
a write that comes short loses the rest of a frame (`WebSocket.c:177`).  With a
server that only knows HELO all SMTP replies are one behind, the final reply is
ignored, a line that is a full stop ends the mail and one that begins with a full
stop loses it (`Smtp.c:284`, `311`).  A failed OAuth refresh
saves its old tokens behind newer ones of another process, and a kill during the
clean up loses the file.

*Processes and logs.*
An unknown user or group leaves a process its own, and a container whose
directory cannot be entered starts all the same; a jail together with a user always
fails, although `Process.c` says that it must come last; the pid file of a
container names a process that has exited; "innull" opens its input write-only.
Children keep duplicates of their pipes' ends, and those of other streams if they
do not exec; a failed fork leaks two descriptors.  A log that counts repeats
writes nothing until a message was repeated, a limit of no archives reopens the
file at every write, hardened logs cannot be renamed, and a kill in the middle of
a rotation costs an archive.

## 4. What is proved

The theorems hold for every value of the constants that satisfies the named
assumptions of the modules: any tick, any slew limit up to half a second, any
float step, any set of command lines with at least one server, any sleep time,
fetch time, descriptor limit and queue length, any errors of the clock that do
not put it before 1970; any number of daemons, pages, zones, and any size of a
buffer.  They are about the modules' specifications without fairness.

`ClockDiscipline`

- `TypeCorrect`.
- `StaysWithinASecond`.  The inductive invariant adds that nothing is slewed
  before the first correction.  The lemmas say that two instants of one second
  differ by their microseconds (`SameSecond`) and that a slew aims at less than
  a second, twice the error, because `AdjLimit` is at most half a second
  (`SlewTarget`).

`DaytimeProofs`

- `TypeCorrect`.  The invariant is proved in three parts, names, numbers and
  sequences, because the provers do not mix them well.
- `ServersSpared` (`SyncPace`).  `ReadInFetch` says that the reading which
  `NextSync` will be worked out from is not older than the fetch, and what the
  clock showed at it; `DateAhead` that `NextSync` lies the sleep time beyond what
  the clock showed when the last fetch began, which as long as nothing puts the
  clock ahead takes at least that time to pass.
- `ReceiveNeverBlocks` (`NeverBlocksInReceive`): `QueueInv` says that what select
  reported is still there at every place up to the receive.
- `NextSyncWithinReach` (`NextSyncNear`): `ReadingBehind` says that `TimeNow` is
  not ahead of the clock when `NextSync` is computed from it.
- `StampsRecent` (`StampAge`) and `RepliesInOrder` (`ReplyAfterRequest`):
  `FetchTimed` bounds what the servers asked so far have taken; `ArrivalsInv`
  says that what select reported arrived before `TimeNow` was read.
- `SynchronizesInTime` (`SyncGap`).  The argument is about the true time at which
  the clock will pass `NextSync` if it keeps its pace, `DueDate - offset`: it is
  at most a fetch and a select after the last fetch (`PaceKept`), corrections
  that do not put the clock back only bring it nearer (`SlewForward`), and a
  select that begins before it ends a `LongestSelect` later at the latest.
- `ClockError` (`ClockErrorBounded` of every program that does not believe its
  own broadcasts, `Trusted`; run `own_broadcast` shows that this is needed).
  `ErrorKept` says that both the offset and the offset that the slew in progress
  leads to are within the bound; each answer is then judged by what it is
  compared with.  `AgesInv` bounds the age of a datagram by its place in the
  queue: a fetch for each place it came forward.  `ReadingInv` says what may lie
  between `TimeNow` and the clock: what a slew did since the reading
  (`Unstepped`), or a correction by the fetch in between, to a second that
  `TimeNow` was not in (`SteppedTcp`) or to what an SNTP server told
  (`SteppedSntp`).  The round trip of an SNTP answer and its float are worked
  out in lemmas about `SntpTime`.

`SntpExchangeProofs`

- `TypeCorrect`.
- `ImplementsFetch` (`FetchSpec`).  `AskedInCall` says that every datagram in the
  queue with times to go by was made between the beginning of the call and now,
  because nobody is asked before it; `CallTimed` that attempt `i` begins after
  at most `i` lookups and waits.  Each step then is a step of `SntpFetch` or a
  stutter.
- `CallAccuracy` (`TimeWithinCall`).  `SlewInv` says that the clock gained what
  is done of a slew, which with what is left is at most `AdjLimit`;
  `FloatReadingError` that the float is off by half a step; `ReplyError` does
  the sum.

`ProgramProofs`

- `PidFileTrue` (`PidFileNamesHolder`), for any number of daemons.  What TLC
  checks says nothing of a start under way; the invariant `PidInv` goes through
  its steps.  `LeftInv` says which steps can be left together, `HolderInv` that
  the file has a daemon's pid only if it has the lock and has written, that who
  holds the lock and runs has written, and that no pid in the file is one still
  to come, because pids only grow.
- `DatesReadRight` (`ZoneExact`), for any zones and any lines.  `ZoneInv` adds
  that a zone given with `-tz` stays; `ReadRight` is the arithmetic: a date read
  in the zone it was written in is off by nothing.
- `RtcInOneZone` (`RtcSameZone`, an action property).  `ShownInv` says why: a
  daytime server, which sets `TZ` before it is known whether a date comes, is
  never asked along with others, and with the others `TZ` is left as it was when
  a time was handed over first.
- `TypedIsDone` (`CommandsObeyed`), for command lines of any length.
  `OptionsObeyed` says nothing before the last option is taken; `OptionsInv` says
  it of the options taken so far: after every turn the flags are what the last
  of them about daemons tells, a flag of a protocol is still there, and a server
  that was named behind it is the one that will be asked.  `FlagsTurn` and
  `ServerTurn` are what one option does, `MetGrows` that -S ends the count.
  `TypedIsSet` goes through the forms (`AloneSet`, `BothSet`).
- `ProcessesAreTrue` (`ProcessesTrue`), for any processes that share a log, any
  table of descriptors and any configs, with an invariant for each of the three.
  - `LogInv` is about one process at a time (`Proc`), with everything it is
    about as an argument, so that what a step of one leaves to the others is one
    lemma (`Leaves`).  Its parts: where in a rotation it is and which names are
    free there (`Control`); that what it said is in the files in order, and what
    it holds comes behind it (`Told`); and, of the one that rotates, that
    nothing is missing in between (`Complete`).  `PathsOk` says that an older
    archive is an older file.  One process at most rotates, and it is in the assumption of
    `Log` because it is in the code: `ParentPID` is one number (`Log.c:10`, `33`,
    `177`).
  - `SpawnInv` goes by what a descriptor is (`Things`): which ends a table may
    hold (`ParentRight`, `ChildRight`), that a stream's descriptors are its own
    and nobody else has its write end (`StreamIs`), and that an end of an earlier
    stream that a child inherited is not one that was marked to close on exec.
    The remapping to 0, 1 and 2 is followed one `dup2` at a time.
  - `ConfigInv` says what a process has become by the words that are done
    (`Become`), that the words that are left are in the order of the code
    (`InOrderOf`, `Follows`), and what stays true of it when it has gone
    (`Stays`).  Needed because a later word undoes an earlier one: who has given
    up root cannot change its group.  The order comes from what `Only` leaves of
    the line of all words, which is why `Only` is a recursive function and not
    the library's `SelectSeq`: an operator that is an argument cannot be
    expanded, an equation can.
- `ProgramIsTyped` (`ProgramTypeOK`).  `ProgramInv` puts the invariants above
  together, with the numbers of pids (`PidsOk`: who has forks ahead of it has pids for them)
  and who is bound to the port (`PortOk`: only who runs or starts, and once).

`HttpProofs`, for any number of pages with any behaviour

- `NeverWaitForEachOther` (`NoMutualWait`).  `AskedInv` says that a connection
  is one to the host of the page that is wanted and that who waits has written
  all of the request; the hard steps are the answers that lead to another
  request on the connection that is still open.  A connection that is reset
  while the caller writes is left out (`broke`), and only that call.
- `LoginsAreEnded` (`LoginsEnd`).  `LoginInv` says that after a first
  challenge the login that was sent is remembered, in the flags or as a header;
  `BlindInv` that a login from a URL is sent with the first request, so that no
  refused reply leaves a body behind.
- `WebIsTrue` (`ConnectionsTrue`), for any clients, hosts, levels, certificates,
  sizes and mails, with an invariant for each of the five modules.
  `ConnectInv`: where a connect is tells what the kernel may say of the socket, as
  long as the stream has no SF_NONBLOCK.
  `ServiceInv`: a client is in the queue, looked at or answered, never two of
  these (`QueueInv`), and what the server knows of the one it looks at follows
  from its stage (`DetectInv`).  `TlsInv`: which places the negotiation can be at
  with which handshake, that the version is one both ends allow, and that only a client that had
  nothing to negotiate with passes on without.  `CopyInv`:
  what was copied, queued, read ahead and is still to come are the source one
  behind the other (`CopyOrder`), and the count is theirs (`CopyCounts`).
  `MailInv`: each line and each reply is numbered so that a reply's distance from
  the line it answers is the lag (`Numbering`); without a lag the server's session
  is the one the call thinks it is in (`Tracks`); nothing is delivered before the
  body (`NothingYet`), and from then on the body follows the one DATA that it is
  for (`TakesBody`), whatever the replies were.

`SessionProofs`, for chains of any length, any frames, any processes that share
a file of tokens, and any transfers; `HttpProofs` puts them together

- `SessionsAreTrue` (`SessionsTrue`) from the next three, one for each side.
  - `ChainLeadsTo` (`ChainLeads`).  `ChainInv` says for each step of a hop how
    far the connection has come (`FarIs`) and what is to be read: the answer
    that the host is reached, how much is left of it, or one in which no later
    hop believes anything (`Placed`).  The first attempt failed, and a chain of
    three hops showed why: a SOCKS5 server behind the first hop takes the
    request for its list of logins and answers with two bytes, and what is left
    of them may be taken for a later hop's answer.  `NeverElsewhere` claimed too
    much there, which TLC could not see within the bounds of its run; it now
    leaves out those chains, and answers that are read in part.
  - `MessagesAreWhole` (`MessagesWhole`).  `FrameInv` lays out what was sent
    frame by frame (`Laid`) and beside it what is to be read of each (`ToldAt`),
    and says where in both the reader is: behind a frame (`Between`), in one
    (`Within`), or at the mask of a ping that it leaves there, as long as
    nothing was misread.
  - `OAuthKeepsTokens` (`TokensKept`).  `OAuthInv` has, besides the types, who
    has which lock at which place (`LocksRight`), that what was read of the file
    is what it says until it is truncated (`ReadRight`), that a process that
    works with a token has the one its server honours and is the only one of
    its name (`TokensRight`), and that the file, with the lines that who writes
    it anew has yet to write, has what is to be kept (`SavedRight`).
- `BodyIsTrue` (`BodyIsWhole`).  `BodyInv` says where the reader of a chunked
  body is (`Reader`): before a size, in a chunk, at the end, or behind a size
  that was the last that came before the server closed; what is buffered and
  still to come is then the rest of the chunks from there, and what was read the
  body up to there.

Bodies and frames are sequences of sequences, flattened by a recursion of the
community modules.  The library's induction theorems cannot be used
(they take an operator), so the facts about `FlattenSeq` are proved from its
definition: that there is one function with its equation, and that a claim that
fails somewhere fails at a smallest length, which the well-founded order of the
naturals gives (`HasSmallest`).

`StreamProofs`, for any size of the buffers and blocks and any terminator

- `BytesInOrder`.  `IndicesInv` bounds the indices, and `InputInOrder` says that
  the bytes handed over are the first of the peer's and those between the
  indices the next ones.  `PullKeepsOrder` is the `memmove` and the read behind
  it.
- `StreamIsChannel` (`InputIsChannel`): the input side implements
  `ByteChannel`, with `sent` as the bytes sent so far and `received` as those
  handed over.
- `ReturnsAreTrue` (`ResultsTrue`).  `LineSoFar` says what was handed over of the
  line that is being read: no terminator is in it, and it is nothing, or at least
  what the buffer takes, unless the peer has gone.
- `WritesAllOfIt` (`WritesAll`).  `OutInv` has three parts: `CountsInv`, which numbers
  go with which place of a call; `SentInOrder`, that wire, unpushed bytes and
  bytes still to queue are the offered ones one behind the other, which
  `NothingLost` follows from; and `FlushInv`, that a stream that does not flush
  in blocks pushes all of its buffer, so that a push that ends leaves nothing.

`LibraryProofs`, for any size of the buffer and any number of processes

- `StreamIsFile` (`FileIsFile`): a `STREAM` on a file implements `File`.
  `BuffersInv` says that what is read ahead is what stands before the kernel's
  offset, and that one of the two buffers is empty as long as the program does
  not mix reads and writes.  The place in the file is the offset less what was
  read ahead, and the file what the disk would have if the buffer were written;
  the lemmas about bytes written over others (`Overwritten` and what follows it)
  say that a write in two parts is a write.
- `OpensKeepFile` (`OpenKeepsFile`) and `LockedNotEmptied` (`NeverEmptiesLocked`,
  an action property).  `OpenInv` says what an open has seen to at each of its
  calls: which of them a process that met a link does not come to (`StepsInv`),
  that who asked for a lock has it until the file is prepared (`LocksInv`), and
  that who has taken bytes from the file was to, and went on to the end (`EmptiedInv`).

- `StringsStayTrue` (`StringsTrue`, the part of `DataTrue` about strings), for
  any number of strings, addresses and cached lengths, as long as quotes are
  stripped only of strings too short for the cache (`~AnyQuotes`; with
  it, `StripQuotes` leaves a wrong length).  `StringsInv` adds to what TLC checks that a string
  without an address is empty, and that an address in the cache is that of
  *some* string with this length: the one that is freed must leave the cache,
  for the next one is put at its address.  `AddIs` is `StrLenCacheAdd` whatever
  it throws out, `StrippedIs` the loop that looks for the last character that is
  no white space.
- `ListsStaySound` (`ListSound` and `FindsWhatIsThere`, the part about lists), for any items and any
  order of calls, as long as no list is both kept in order and organising
  itself.  `ListInv` says that there is a walk from the head along which every
  `next` has its `prev`; the count, the last item and the order are then said of
  the walk.  An operation is one of three changes to it: an item put in
  (`PutsBehind`), one taken out (`TakesOut`), two that change places (`Swaps`).

Only model-checked:

- The hashes of `DataTrue`, `ScansExactly` and `TerminalTrue`, which are about
  texts, blocks and patterns taken apart by recursion: they would need
  induction over data.
- The types of the other two composed models (`LibraryTypeOK`, `WebTypeOK`).  The
  first is beyond the prover as it stands: `MCLibrary` reaches the RECURSIVE
  operators of `Tokenizer`.
- Everything that says that something happens in the end (`Returns`,
  `ComesUp`, `CallsEnd`, `WebCallsReturn`): liveness under fairness is beyond the
  prover.
- Every disagreement of the table above.

## 5. What is not modelled, and what is left

Not modelled, and why:

- *Packet authentication* (`sntp.c:66`-`119`): the option that reaches it is
  commented out of the command line.
- *The 32 bit seconds of a packet* and their wrap in 2036 (`sntp.c:45`): stamps
  in the models are numbers.  Nothing in the code handles the wrap.
- *Formatting, printing, logging and wording* anywhere, and options that print
  and exit.
- *Parsers and encodings* (`DataParser.c`, `Encodings.c`, `base64.c`, `URL.c`,
  ...) are functions of their arguments.  What the other models need of them is
  an input.
- *Wrappers* of one library or system call (`Compression.c`, `DataProcessing.c`
  around OpenSSL's ciphers, `SysInfo.c`, `FileSystem.c`) and tables
  (`UnitsOfMeasure.c`, `ContentType.c`) have no control of their own.
- *Compression functions of the hashes*: opaque; what goes wrong there, test
  vectors find.
- Of modelled components: processors of a stream, maps and sorting of
  lists, cookies and ranges of HTTP, syslog, capabilities and resource limits,
  mouse reports and themes of terminals, Gemini.

What could come next, in this order:

1. A proof of the types of `MCHttp`.
2. `Select` with several streams, which `STREAMSelect` serves in turn and which
   daytime never has.
3. Expect and dialogs with programs (`Expect.c`) on top of `Spawn`.
