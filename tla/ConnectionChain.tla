-------------------------- MODULE ConnectionChain --------------------------
(***************************************************************************)
(* A connection through proxies (libUseful/ConnectionChain.c and           *)
(* STREAMConnect of Socket.c): the hops of "https:a|socks5:b|tcp:c" are    *)
(* taken one after the other on one connection, whose other end is each    *)
(* time a host further on.  What hosts send is a sequence of pieces, a     *)
(* line or a byte each, that arrives when it likes.  One TCP connection,   *)
(* which the first hop is, comes at the end.                               *)
(***************************************************************************)
EXTENDS Integers, SequencesExt, FiniteSetsExt

CONSTANTS
  HopTypes,  \* among "tcp", "https", "ssh", "sshtunnel", "sshproxy", "socks4", "socks5",
             \* "socks5 login" (with a password) and "none" for a type it does not know
  MaxHops    \* bound

ASSUME ChainAssumption ==
  /\ HopTypes \subseteq {"tcp", "https", "ssh", "sshtunnel", "sshproxy", "socks4", "socks5",
                         "socks5 login", "none"}
  /\ MaxHops \in Nat \ {0}

VARIABLES
  hops,     \* HopList but for its last URL, the destination: host i is that of hop i
  numeric,  \* the hosts are addresses and not names
  hop,      \* count + 1
  step,     \* what the hop waits for, "start" or "end"
  through,  \* result of STREAMProcessConnectHops
  route,    \* the hosts that the connection passes; the last is its other end
  coming,   \* what hosts have sent and is on its way
  arrived,  \* what has arrived and is not read yet
  hungUp,   \* the other end has closed
  stray,    \* the other end was sent bytes that are no request and no data
  upset     \* history: what did not go as it should

chainVars == <<hops, numeric, hop, step, through, route, coming, arrived, hungUp, stray, upset>>

Dest == Len(hops) + 1
Far == IF route = <<>> THEN 0 ELSE Last(route)

-----------------------------------------------------------------------------
(* The hosts                                                               *)

\* Who reaches a host of a "tcp" hop is put through to the next one.
Landing(first) ==
  LET stop == Min({h \in first..Dest : h = Dest \/ hops[h] # "tcp"})
  IN  [k \in 1..(stop - first + 1) |-> first + k - 1]

Sent(by, pieces) == [k \in 1..Len(pieces) |-> [by |-> by, is |-> pieces[k]]]
Greeting(path) == IF path # <<>> /\ Last(path) = Dest THEN Sent(Dest, <<"data">>) ELSE <<>>

\* A connection to a host is made, which need not put it through, or fails.
Dial(peer, puts) ==
  /\ \E forwards \in (IF puts \/ hops[peer] = "tcp" THEN BOOLEAN ELSE {TRUE}) :
       LET path == IF ~forwards THEN <<peer>>
                   ELSE (IF puts THEN <<peer>> \o Landing(peer + 1) ELSE Landing(peer))
       IN  /\ route' = path /\ coming' = coming \o Greeting(path)
           /\ upset' = (IF forwards THEN upset ELSE upset \cup {"blind"})
  /\ hungUp' = FALSE

Speaks(peer) ==
  IF peer \notin DOMAIN hops THEN "none"
  ELSE IF hops[peer] \in {"sshproxy", "socks5", "socks5 login"} THEN "socks5" ELSE hops[peer]

\* The answers to a request. A SOCKS5 server takes the request of one who has not said
\* which logins it knows for that, and its rest for nothing.
Replies(language, ok) ==
  CASE language = "https" ->
         {<<IF ok THEN "200" ELSE "502">> \o headers \o <<"empty">> : headers \in {<<>>, <<"header">>}}
    [] language = "socks4" -> {<<"0", IF ok THEN "Z" ELSE "[", "x", "x", "x", "x", "x", "x">>}
    [] language = "socks5" ->
         IF hop > 1 THEN {<<"5", "0">>}
         ELSE {<<"5", IF ok THEN "0" ELSE "1", "x">> \o to : to \in {<<"ip", "x", "x", "x", "x", "x", "x">>,
                                                                    <<"name", "2", "x", "x", "x", "x">>}}

\* The other end is asked for a host. One that does not understand hangs up.
Ask(language) ==
  LET peer == hop + 1
      strays == language = "socks4" /\ numeric
  IN  IF hungUp \/ stray \/ Speaks(Far) # language
      THEN hungUp' = TRUE /\ UNCHANGED <<route, coming, stray>>
      ELSE \E ok \in (IF language = "socks5" /\ hop > 1 THEN {FALSE} ELSE BOOLEAN) :
           /\ \E reply \in Replies(language, ok) :
                coming' = coming \o Sent(Far, reply) \o (IF ok THEN Greeting(Landing(peer)) ELSE <<>>)
           /\ route' = (IF ok THEN route \o Landing(peer) ELSE route)
           /\ hungUp' \in (IF ok THEN {FALSE} ELSE BOOLEAN)
           /\ stray' = (ok /\ strays)

\* The login of a SOCKS5 server: the method, then the password.
AskLogin(method) ==
  /\ IF hungUp \/ Speaks(Far) # "socks5"
     THEN hungUp' = TRUE /\ UNCHANGED coming
     ELSE \E ok \in BOOLEAN :
            /\ coming' = coming \o Sent(Far, <<IF method THEN "5" ELSE "1",
                                   IF ~ok THEN "255" ELSE IF method /\ hops[hop] = "socks5 login" THEN "2" ELSE "0">>)
            /\ hungUp' = ~ok
  /\ UNCHANGED <<route, stray>>

Arrive ==
  /\ coming # <<>>
  /\ \E n \in {1, Len(coming)} :
       arrived' = arrived \o SubSeq(coming, 1, n) /\ coming' = SubSeq(coming, n + 1, Len(coming))
  /\ UNCHANGED <<hops, numeric, hop, step, through, route, hungUp, stray, upset>>

-----------------------------------------------------------------------------
(* Reading a reply                                                         *)

Take(n) == arrived' = SubSeq(arrived, n + 1, Len(arrived)) /\ UNCHANGED <<coming, hungUp>>

\* STREAMReadBytes hands over what has arrived, up to n.
Bytes(n) == arrived # <<>> /\ Take(Min({n, Len(arrived)}))
Whole(n) == Len(arrived) >= n
IsByte(i, b) == i <= Len(arrived) /\ arrived[i].is = b

Lines == {"200", "502", "header", "empty", "data"}
LineEnds == {i \in DOMAIN arrived : arrived[i].is \in Lines}
Line == LineEnds # {} /\ Take(Min(LineEnds))
LineIs == arrived[Min(LineEnds)].is

\* Nothing comes any more, or not in time.
Closed == coming = <<>> /\ hungUp
NoBytes == arrived = <<>> /\ UNCHANGED <<coming, arrived, hungUp>>
NoLine == LineEnds = {} /\ arrived' = <<>> /\ UNCHANGED <<coming, hungUp>>
Late == IF Closed THEN upset ELSE upset \cup {"late"}

\* A read that was given less than the whole is noted.
Short(n) == IF Whole(n) THEN upset ELSE upset \cup {"short"}

\* The hop is over: what it returns takes the place of what the hops before returned.
Returned(ok, notes) ==
  /\ through' = ok
  /\ upset' = (IF ok THEN notes ELSE notes \cup {"failed"})
  /\ hop' = hop + 1
  /\ step' = (IF hop = Len(hops) THEN "end" ELSE "start")

Waits(next, notes) == step' = next /\ upset' = notes /\ UNCHANGED <<hop, through>>

-----------------------------------------------------------------------------
(* The hops                                                                *)

IsFirst == hop = 1      \* not SS_INITIAL_CONNECT_DONE
Fresh == UNCHANGED <<route, coming, arrived, hungUp, stray>>

CannotConnect == IsFirst /\ Returned(FALSE, upset) /\ Fresh

\* CONNECT_HOP_TCP: nothing to be done for one behind others.
HopTcp ==
  /\ hops[hop] = "tcp"
  /\ \/ ~IsFirst /\ Returned(TRUE, upset) /\ Fresh
     \/ CannotConnect
     \/ /\ IsFirst /\ Dial(1, FALSE) /\ UNCHANGED <<arrived, stray>>
        /\ through' = TRUE /\ hop' = 2 /\ step' = (IF Len(hops) = 1 THEN "end" ELSE "start")

\* ConnectHopSSH, of "ssh" and "sshtunnel": whether ssh gets through is not asked.
HopSsh ==
  /\ hops[hop] \in {"ssh", "sshtunnel"}
  /\ \/ ~IsFirst /\ Returned(FALSE, upset) /\ Fresh
     \/ CannotConnect
     \/ /\ IsFirst /\ Dial(1, TRUE) /\ UNCHANGED <<arrived, stray>>
        /\ through' = TRUE /\ hop' = 2 /\ step' = (IF Len(hops) = 1 THEN "end" ELSE "start")

\* The proxies' first connection, before they are asked for anything.
Connects ==
  /\ hops[hop] \in {"https", "socks4", "socks5", "socks5 login", "sshproxy"}
  /\ IsFirst
  /\ \/ CannotConnect
     \/ /\ route = <<>>
        /\ Dial(1, FALSE) /\ UNCHANGED <<hop, through, arrived, stray>>
        /\ step' = (IF Speaks(1) = "socks5" THEN "login" ELSE "ask")

SshProxyBehind == hops[hop] = "sshproxy" /\ ~IsFirst /\ Returned(FALSE, upset) /\ Fresh
Unknown == hops[hop] = "none" /\ Returned(through, upset) /\ Fresh

StartHop ==
  /\ step = "start"
  /\ \/ HopTcp \/ HopSsh \/ Connects \/ SshProxyBehind \/ Unknown
     \/ /\ ~IsFirst /\ hops[hop] \in {"https", "socks4", "socks5", "socks5 login"}
        /\ Waits("ask", upset) /\ Fresh

Language == Speaks(hop)

\* ConnectHopSocks5Auth: up to ten bytes are read of an answer of two.
Login ==
  \/ step = "login" /\ AskLogin(TRUE) /\ Waits("method", upset) /\ UNCHANGED arrived
  \/ /\ step = "method" /\ UNCHANGED <<route, stray>>
     /\ \/ Bytes(10) /\ Whole(2) /\ IsByte(1, "5") /\ IsByte(2, "0") /\ Waits("ask", upset)
        \/ Bytes(10) /\ Whole(2) /\ IsByte(1, "5") /\ IsByte(2, "2") /\ Waits("say password", upset)
        \/ Bytes(10) /\ ~(IsByte(1, "5") /\ (IsByte(2, "0") \/ IsByte(2, "2"))) /\ Returned(FALSE, Short(2))
        \/ NoBytes /\ Returned(FALSE, Late)
  \/ step = "say password" /\ AskLogin(FALSE) /\ Waits("password", upset) /\ UNCHANGED arrived
  \/ /\ step = "password" /\ UNCHANGED <<route, stray>>
     /\ \/ Bytes(10) /\ IsByte(1, "1") /\ IsByte(2, "0") /\ Waits("ask", upset)
        \/ Bytes(10) /\ ~(IsByte(1, "1") /\ IsByte(2, "0")) /\ Returned(FALSE, Short(2))
        \/ NoBytes /\ Returned(FALSE, Late)

SendRequest == step = "ask" /\ Ask(Language) /\ Waits("reply", upset) /\ UNCHANGED arrived

\* Behind the status of a CONNECT come lines until an empty one.
HttpsReply ==
  /\ Language = "https" /\ step = "reply"
  /\ \/ Line /\ Waits(IF LineIs = "200" THEN "headers" ELSE "rest", upset)
     \/ NoLine /\ Returned(FALSE, Late)
HttpsHeaders ==
  /\ step \in {"headers", "rest"}
  /\ \/ Line /\ LineIs # "empty" /\ Waits(step, upset)
     \/ Line /\ LineIs = "empty" /\ Returned(step = "headers", upset)
     \/ NoLine /\ Returned(step = "headers", Late)

Socks4Reply ==
  /\ Language = "socks4" /\ step = "reply"
  /\ \/ Bytes(8) /\ Returned(Whole(8) /\ IsByte(1, "0") /\ IsByte(2, "Z"), Short(8))
     \/ NoBytes /\ Returned(FALSE, Late)

\* The status, the address of which no read is looked at, and the port.
PortBytes == 2
Socks5Reply ==
  /\ Language = "socks5" /\ step = "reply"
  /\ \/ Bytes(3) /\ Whole(3) /\ IsByte(1, "5") /\ IsByte(2, "0") /\ Waits("type", upset)
     \/ Bytes(3) /\ ~(Whole(3) /\ IsByte(1, "5") /\ IsByte(2, "0")) /\ Returned(FALSE, Short(3))
     \/ NoBytes /\ Returned(FALSE, Late)
Socks5Address ==
  \/ /\ step = "type"
     /\ \/ Bytes(1) /\ Waits(IF IsByte(1, "ip") THEN "address" ELSE "length", upset)
        \/ NoBytes /\ Waits("port", Late)
  \/ /\ step = "length"
     /\ \/ Bytes(1) /\ Waits("name", upset)
        \/ NoBytes /\ Waits("port", Late)
  \/ /\ step \in {"address", "name"}
     /\ \/ \E n \in {IF step = "address" THEN 4 ELSE 2} : Bytes(n) /\ Waits("port", Short(n))
        \/ NoBytes /\ Waits("port", Late)
  \/ /\ step = "port"
     /\ \/ Bytes(PortBytes) /\ Returned(TRUE, Short(2))
        \/ NoBytes /\ Returned(TRUE, Late)

Reply ==
  /\ HttpsReply \/ HttpsHeaders \/ Socks4Reply \/ Socks5Reply \/ Socks5Address
  /\ UNCHANGED <<route, stray>>

STREAMProcessConnectHops ==
  /\ step # "end"
  /\ StartHop \/ Login \/ SendRequest \/ Reply
  /\ UNCHANGED <<hops, numeric>>

ChainInit ==
  /\ hops \in UNION {[1..n -> HopTypes] : n \in 1..MaxHops}
  /\ numeric \in BOOLEAN
  /\ hop = 1 /\ step = "start" /\ through = FALSE
  /\ route = <<>> /\ coming = <<>> /\ arrived = <<>> /\ hungUp = FALSE /\ stray = FALSE /\ upset = {}

ChainNext == STREAMProcessConnectHops \/ Arrive

ChainSpec == ChainInit /\ [][ChainNext]_chainVars

-----------------------------------------------------------------------------
(* Properties                                                              *)

ChainTypeOK ==
  /\ hop \in 1..(Len(hops) + 1) /\ through \in BOOLEAN /\ stray \in BOOLEAN
  /\ upset \subseteq {"late", "short", "blind", "failed"}
  /\ route \in Seq(1..Dest)

\* A stream that is connected through hops of which none failed, was late or was read
\* in part ends at the destination, passes all of them, and the first byte that is
\* read from it is the destination's.
LeadsToDest ==
  step = "end" /\ upset = {} /\ (\A k \in DOMAIN hops : hops[k] # "none") =>
    /\ through
    /\ route = [k \in 1..Dest |-> k]
    /\ \A i \in DOMAIN arrived : arrived[i].by = Dest
    /\ \A i \in DOMAIN coming : coming[i].by = Dest

\* Whatever hops fail on the way, TRUE is only returned at the destination, as long as
\* all hops can tell, no answer is late or read in part, and no SOCKS5 server is asked
\* behind the first hop: there it takes the request for the list of logins and answers
\* with two bytes, and what is left of those may be taken for the answer of a later hop.
\* And the destination is sent no byte of a request unless that was SOCKS4 for an address.
NeverElsewhere ==
  step = "end" /\ through /\ upset \cap {"late", "short", "blind"} = {} =>
    /\ (\A k \in DOMAIN hops : hops[k] # "none" /\ (k > 1 => hops[k] \notin {"tcp", "socks5", "socks5 login"}))
         => Far = Dest
    /\ stray => numeric

ChainLeads == LeadsToDest /\ NeverElsewhere

-----------------------------------------------------------------------------
(***************************************************************************)
(* One TCP connection (libUseful/Socket.c): STREAMNetConnect with the      *)
(* socket that is bound, the host that is looked up, the connect, blocking *)
(* or not, and the wait for it.                                            *)
(***************************************************************************)

VARIABLES
  nonblock,  \* CONNECT_NONBLOCK of the configuration: the socket's
  flagged,   \* SF_NONBLOCK of the stream, which the configuration does not set
  host,      \* the host that is asked for: "known" or "unknown" to the resolver
  listens,   \* who would accept: among "host" and "self"
  socket,    \* "none", "open" or "closed"
  toward,    \* whom the socket is connected to or connects to: "host", "self" or "none"
  tcp,       \* what the kernel says of it: "idle", "connecting", "connected", "failed"
  at,        \* where STREAMNetConnect is
  returns,   \* what it has returned: "none", TRUE or FALSE as "yes" and "no"
  posted     \* SS_CONNECTED

connectVars == <<nonblock, flagged, host, listens, socket, toward, tcp, at, returns, posted>>
plan == <<nonblock, flagged, host, listens>>

Goes(next) == at' = next
Ends(how) == at' = "done" /\ returns' = how

\* BindSock. What it returns is not looked at: connect(2) fails for a socket that is -1.
BindSock ==
  /\ at = "bind" /\ Goes("connect")
  /\ socket' \in {"none", "open"}
  /\ UNCHANGED <<plan, toward, tcp, returns, posted>>

\* SockAddrCreate: no address is INADDR_ANY, and to connect to that is to connect to
\* this host.
SockAddrCreate == IF host = "known" THEN "host" ELSE "self"

\* NetConnectWithSettings closes a socket that could not connect.
Failed == Ends("no") /\ socket' = (IF socket = "open" THEN "closed" ELSE "none")

IPReconnect ==
  /\ at = "connect"
  /\ IF socket = "none" THEN Failed /\ UNCHANGED <<toward, tcp>>
     ELSE /\ toward' = SockAddrCreate
          /\ \/ ~nonblock /\ SockAddrCreate \notin listens /\ tcp' = "failed" /\ Failed
             \/ ~nonblock /\ SockAddrCreate \in listens /\ tcp' = "connected"
                /\ Goes("wait") /\ UNCHANGED <<socket, returns>>
             \/ nonblock /\ tcp' = "connecting" /\ Goes("wait") /\ UNCHANGED <<socket, returns>>
  /\ UNCHANGED <<plan, posted>>

\* The kernel, at any moment.
Settle ==
  /\ tcp = "connecting"
  /\ tcp' = (IF toward \in listens THEN "connected" ELSE "failed")
  /\ UNCHANGED <<plan, socket, toward, at, returns, posted>>

\* STREAMWaitConnect waits until the socket is ready, which one that failed is too, or
\* the timeout if there is one; STREAMIsConnected asks for the peer, and of a stream with
\* SF_NONBLOCK, which is SS_CONNECTING, no peer counts as one to come. TRUE is returned
\* whatever comes out.
STREAMWaitConnect ==
  /\ at = "wait"
  /\ posted' \in (CASE tcp = "connected" -> {TRUE}
                    [] tcp = "connecting" /\ flagged -> BOOLEAN
                    [] OTHER -> {flagged})
  /\ Ends("yes")
  /\ UNCHANGED <<plan, socket, toward, tcp>>

STREAMNetConnect == BindSock \/ IPReconnect \/ STREAMWaitConnect

ConnectInit ==
  /\ nonblock \in BOOLEAN /\ flagged \in BOOLEAN
  /\ host \in {"known", "unknown"} /\ listens \in SUBSET {"host", "self"}
  /\ socket = "none" /\ toward = "none" /\ tcp = "idle"
  /\ at = "bind" /\ returns = "none" /\ posted = FALSE

ConnectNext == STREAMNetConnect \/ Settle

ConnectSpec == ConnectInit /\ [][ConnectNext]_connectVars

-----------------------------------------------------------------------------
(* Properties                                                              *)

ConnectTypeOK ==
  /\ socket \in {"none", "open", "closed"} /\ toward \in {"none", "host", "self"}
  /\ returns \in {"none", "yes", "no"} /\ posted \in BOOLEAN

\* A call that fails leaves no socket open; a blocking one that succeeds has a connection,
\* to the host if that could be looked up; and a stream is only marked as connected when
\* it is, however the connect of one that does not block ends before or after the wait,
\* but for a stream with SF_NONBLOCK, whose connection may be to come or have failed.
ConnectedIsConnected ==
  /\ returns = "no" => socket # "open"
  /\ returns = "yes" => socket = "open"
  /\ returns = "yes" /\ ~nonblock => tcp = "connected" /\ posted
  /\ posted => (tcp = "connected" \/ flagged) /\ (host = "known" => toward = "host")
=============================================================================
