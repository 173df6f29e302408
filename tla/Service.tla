------------------------------ MODULE Service ------------------------------
(***************************************************************************)
(* A server that accepts streams (libUseful/Server.c, StreamAuth.c, the    *)
(* client's headers of HttpServer.c, WebSocketAccept, and the negotiation  *)
(* of OpenSSL.c).  STREAMServerAccept does all that a client needs before  *)
(* it is let in, so one client at a time is looked at and others wait.     *)
(***************************************************************************)
EXTENDS Integers, SequencesExt, FiniteSetsExt

CONSTANTS
  Clients,   \* who connects
  Backlog,   \* of listen(2)
  Headers    \* bound: header lines of a request

ASSUME ServiceAssumption == Backlog \in Nat \ {0} /\ Headers \in Nat /\ "none" \notin Clients

Protocols == {"tcp", "http", "ws"}

VARIABLES
  server,    \* [proto, tls, methods]: Type, SF_TLS and SF_TLS_AUTO, and the Authenticator's
             \* methods: those that can only let in ("lets") and those that decide ("decides")
  talks,     \* what a client says: "plain", "tls", TLS of which one byte may arrive first
             \* ("cut"), or nothing ("silent")
  left,      \* the lines of its request that it has still to send; it may hang up before
  gone,      \* the clients that have hung up
  queue,     \* connected and not accepted
  peer,      \* whom STREAMServerAccept looks at, or "none"
  stage,     \* where it is: "detect", "handshake", "headers", "upgrade", "auth"
  tlsOn,     \* SS_SSL of the client's stream
  fate       \* what became of it: "none", "waiting", "stream" or "closed"

serviceVars == <<server, talks, left, gone, queue, peer, stage, tlsOn, fate>>

clientVars == <<talks, left, gone>>

-----------------------------------------------------------------------------
(* The clients                                                             *)

ConnectTo(c) ==
  /\ fate[c] = "none" /\ Len(queue) < Backlog
  /\ queue' = Append(queue, c) /\ fate' = [fate EXCEPT ![c] = "waiting"]
  /\ UNCHANGED <<server, clientVars, peer, stage, tlsOn>>

HangUp(c) ==
  /\ fate[c] = "waiting" /\ c \notin gone
  /\ gone' = gone \cup {c}
  /\ UNCHANGED <<server, talks, left, queue, peer, stage, tlsOn, fate>>

\* Something is to be read from it, or the end.
Readable(c) == talks[c] # "silent" \/ c \in gone

-----------------------------------------------------------------------------
(* STREAMServerAccept                                                      *)

\* A variant of FirstStage below with a slip in it, used by nothing: the property is
\* tried with it in the place of FirstStage.
DetectsAlways == IF server.tls = "yes" THEN "handshake" ELSE "detect"

FirstStage ==
  CASE server.tls = "auto" -> "detect" [] server.tls = "yes" -> "handshake" [] OTHER -> "plain"
AfterTls == IF server.proto = "tcp" THEN "auth" ELSE "headers"

Accept ==
  /\ peer = "none" /\ queue # <<>>
  /\ peer' = Head(queue) /\ queue' = Tail(queue)
  /\ stage' = (IF FirstStage = "plain" THEN AfterTls ELSE FirstStage)
  /\ UNCHANGED <<server, clientVars, tlsOn, fate>>

SpeaksTls(c) == talks[c] \in {"tls", "cut"}

\* Two bytes have to be there at the one look that is taken.
LooksLikeTls(c) == {talks[c] = "tls"} \cup IF talks[c] = "cut" THEN {TRUE} ELSE {}

\* OpenSSLAutoDetect waits without a timeout until there is something.
OpenSSLAutoDetect ==
  /\ stage = "detect" /\ Readable(peer)
  /\ \E looks \in LooksLikeTls(peer) :
       stage' = (IF looks /\ peer \notin gone THEN "handshake" ELSE AfterTls)
  /\ UNCHANGED <<server, clientVars, queue, peer, tlsOn, fate>>

\* SSL_ERROR_SSL, the error for who speaks something else, has the value of TRUE; what
\* the negotiation returns is not looked at.
DoSSLServerNegotiation ==
  /\ stage = "handshake" /\ Readable(peer)
  /\ \E on \in (IF peer \in gone THEN BOOLEAN ELSE {TRUE}) : tlsOn' = [tlsOn EXCEPT ![peer] = on]
  /\ stage' = AfterTls
  /\ UNCHANGED <<server, clientVars, queue, peer, fate>>

\* Bytes can be read: TLS where it was negotiated, none where it was not.
Understood == tlsOn[peer] = SpeaksTls(peer)

\* HTTPServerParseClientHeaders reads lines until an empty one, the end or a timeout.
ReadHeader ==
  /\ stage = "headers" /\ talks[peer] # "silent" /\ Understood /\ left[peer] > 0
  /\ left' = [left EXCEPT ![peer] = @ - 1]
  /\ UNCHANGED <<server, talks, gone, queue, peer, stage, tlsOn, fate>>
HeadersEnd ==
  /\ stage = "headers"
  /\ left[peer] = 0 \/ ~Understood \/ talks[peer] = "silent" \/ peer \in gone
  /\ stage' = (IF server.proto = "ws" THEN "upgrade" ELSE "done")
  /\ UNCHANGED <<server, clientVars, queue, peer, tlsOn, fate>>

\* WebSocketAccept answers 400, 401 or 101; the stream is returned after each.
WebSocketAccept ==
  /\ stage = "upgrade"
  /\ stage' = "done"
  /\ UNCHANGED <<server, clientVars, queue, peer, tlsOn, fate>>

\* STREAMAuth: a method that decides takes back what one before it said.
LetIn(verdicts) ==
  LET from[k \in 0..Len(server.methods)] ==
        IF k = 0 THEN server.methods = <<>>
        ELSE IF server.methods[k] = "lets" THEN verdicts[k] \/ from[k - 1] ELSE verdicts[k]
  IN  from[Len(server.methods)]

Finished(how) ==
  /\ fate' = [fate EXCEPT ![peer] = how]
  /\ peer' = "none" /\ stage' = "idle"
  /\ UNCHANGED <<server, clientVars, queue, tlsOn>>

STREAMAuth ==
  /\ stage = "auth"
  /\ \E verdicts \in [1..Len(server.methods) -> BOOLEAN] :
       Finished(IF LetIn(verdicts) THEN "stream" ELSE "closed")
Return == stage = "done" /\ Finished("stream")

STREAMServerAccept ==
  \/ Accept \/ OpenSSLAutoDetect \/ DoSSLServerNegotiation
  \/ ReadHeader \/ HeadersEnd \/ WebSocketAccept \/ STREAMAuth \/ Return

ServiceInit ==
  /\ server \in [proto : Protocols, tls : {"no", "yes", "auto"},
                 methods : {<<>>, <<"lets">>, <<"lets", "decides">>}]
  /\ server.proto # "tcp" => server.methods = <<>>
  /\ talks \in [Clients -> {"plain", "tls", "cut", "silent"}]
  /\ left = [c \in Clients |-> Headers]
  /\ gone = {} /\ queue = <<>> /\ peer = "none" /\ stage = "idle"
  /\ tlsOn = [c \in Clients |-> FALSE] /\ fate = [c \in Clients |-> "none"]

ServiceNext == STREAMServerAccept \/ \E c \in Clients : ConnectTo(c) \/ HangUp(c)

\* The program calls STREAMServerAccept again and again.
ServiceSpec == ServiceInit /\ [][ServiceNext]_serviceVars /\ WF_serviceVars(STREAMServerAccept)

-----------------------------------------------------------------------------
(* Properties                                                              *)

ServiceTypeOK ==
  /\ peer \in Clients \cup {"none"} /\ (peer = "none") = (stage = "idle")
  /\ queue \in Seq(Clients) /\ left \in [Clients -> 0..Headers]
  /\ tlsOn \in [Clients -> BOOLEAN]

\* A server that detects TLS has it on with the clients that speak it, unless they hung
\* up or one byte came before the others, and with no others, however many come and go
\* while it looks at one; and a client is in the queue, looked at, or has its answer,
\* never two of these and never lost.
Detects ==
  /\ server.tls = "auto" =>
       \A c \in Clients : fate[c] = "stream" /\ c \notin gone =>
         \/ tlsOn[c] = SpeaksTls(c)
         \/ talks[c] = "cut"
  /\ server.tls = "no" => \A c \in Clients : ~tlsOn[c]
  /\ \A c \in Clients :
       (fate[c] = "waiting") = (c = peer \/ \E i \in DOMAIN queue : queue[i] = c)

\* Who connects is let in or sent away in the end, unless a server with TLS is held by
\* a client that says nothing and does not hang up.
AllAnswered ==
  (server.tls = "no" \/ \A c \in Clients : talks[c] # "silent") =>
    \A c \in Clients : (fate[c] = "waiting") ~> (fate[c] # "waiting")
=============================================================================
