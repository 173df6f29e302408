------------------------------- MODULE MCHttp -------------------------------
(* Connections and what runs on them, on small instances: HTTPTransact with  *)
(* any site, with one site the body that is read when it is over, the one    *)
(* connection and the chain of hops it may go through, the server at the     *)
(* other end, and the frames of a WebSocket.                                 *)
EXTENDS Http, ChunkedTransfer, ConnectionChain, Service, WebSocket,
  Smtp, OAuth, Tls, SendFile

VARIABLE side

Parts == {"transact", "body", "connect", "chain", "service", "frames", "mail", "oauth", "tls",
          "copy"}
Resting(part) == side # part

MCMessages == {<<"text">>, <<"text", "dot", "text">>, <<"dotted">>}
MCNameOf == [u \in Users |-> "app"]
MCVersions == {{10}, {11, 12, 13}}
MCCerts ==
  [given : {TRUE}, names : BOOLEAN, by : {"system", "own", "nobody"}]
    \cup {[given |-> FALSE, names |-> FALSE, by |-> "nobody"]}

MCTransfers ==
  {<<>>, <<<<1>>>>, <<<<1, 2>>, <<3>>>>, <<<<1, 2, 3>>, <<4, 5>>>>, <<<<1>>, <<2>>, <<3>>>>}

\* The inputs of the parts that rest are fixed.
MCInputs ==
  /\ side \in Parts
  /\ IF Resting("transact")
       THEN /\ site = [p \in Pages |-> [code |-> "200", to |-> ""]] /\ follow = FALSE /\ login = "url"
            /\ method = "HEAD" /\ page = CHOOSE p \in Pages : TRUE
       ELSE TRUE
  /\ IF Resting("body") THEN wire = Encoded(<<>>) ELSE TRUE
  /\ IF Resting("connect") THEN nonblock = FALSE /\ flagged = FALSE /\ host = "known" /\ listens = {} ELSE TRUE
  /\ IF Resting("chain") THEN hops = <<"tcp">> /\ numeric = FALSE ELSE TRUE
  /\ IF Resting("service")
       THEN /\ server = [proto |-> "tcp", tls |-> "no", methods |-> <<>>]
            /\ talks = [c \in Clients |-> "plain"]
       ELSE TRUE
  /\ IF Resting("frames") THEN masks = FALSE ELSE TRUE
  /\ IF Resting("mail")
       THEN /\ mailServer = [ehlo |-> TRUE, auth |-> {}, tls |-> FALSE]
            /\ mail = [user |-> FALSE, nossl |-> FALSE, recipients |-> 1, from |-> "text",
                       message |-> <<"text">>]
       ELSE mail \in [user : BOOLEAN, nossl : BOOLEAN, recipients : 1..MaxRecipients,
                      from : {"text", "file", "no file"}, message : Messages]
            /\ (mail.from = "file") = (mail.message # <<"text">>)
  /\ IF Resting("copy")
       THEN copy = [max |-> 0, kernel |-> FALSE, loop |-> FALSE, noread |-> FALSE, flush |-> FALSE,
                    ahead |-> 0, before |-> 0]
       ELSE TRUE
  /\ IF Resting("tls")
       THEN /\ end = "client" /\ peerSpeaks = {10} /\ able = TRUE /\ levels = [stream |-> "", library |-> ""]
            /\ trust = levels /\ peerCert = [given |-> FALSE, names |-> FALSE, by |-> "nobody"]
       ELSE /\ levels \in [stream : Levels, library : Levels]
            /\ trust \in [stream : {"", "own", "other"}, library : {"", "own", "other"}]
            /\ "" \in {levels.stream, trust.stream} /\ "" \in {levels.library, trust.library}

Init ==
  /\ MCInputs
  /\ HttpInit /\ ChunkedInit /\ ConnectInit /\ ChainInit /\ ServiceInit /\ SocketInit
  /\ SmtpInit /\ OAuthInit /\ TlsInit /\ SendInit

HttpRuns == side \in {"transact", "body"}
BodyRuns == side = "body" /\ result = "stream"

Transact == HttpRuns /\ HttpNext
Body == BodyRuns /\ ChunkedNext

callVars == <<connectVars, chainVars, serviceVars, wsVars>>
sessionVars == <<smtpVars, oauthVars, tlsVars, sendVars>>
mcVars == <<httpVars, chunkVars, callVars, sessionVars, side>>

Calls ==
  \/ side = "connect" /\ ConnectNext /\ UNCHANGED <<chainVars, serviceVars, wsVars>>
  \/ side = "chain" /\ ChainNext /\ UNCHANGED <<connectVars, serviceVars, wsVars>>
  \/ side = "service" /\ ServiceNext /\ UNCHANGED <<connectVars, chainVars, wsVars>>
  \/ side = "frames" /\ SocketNext /\ UNCHANGED <<connectVars, chainVars, serviceVars>>

Sessions ==
  \/ side = "mail" /\ SmtpNext /\ UNCHANGED <<oauthVars, tlsVars, sendVars>>
  \/ side = "oauth" /\ OAuthNext /\ UNCHANGED <<smtpVars, tlsVars, sendVars>>
  \/ side = "tls" /\ TlsNext /\ UNCHANGED <<smtpVars, oauthVars, sendVars>>
  \/ side = "copy" /\ SendNext /\ UNCHANGED <<smtpVars, oauthVars, tlsVars>>

Next ==
  \/ Transact /\ UNCHANGED <<chunkVars, callVars, sessionVars, side>>
  \/ Body /\ UNCHANGED <<httpVars, callVars, sessionVars, side>>
  \/ Calls /\ UNCHANGED <<httpVars, chunkVars, sessionVars, side>>
  \/ Sessions /\ UNCHANGED <<httpVars, chunkVars, callVars, side>>

Spec ==
  /\ Init /\ [][Next]_mcVars
  /\ WF_httpVars(HttpRuns /\ (Connect \/ ConnectFails))
  /\ WF_httpVars(HttpRuns /\ Request) /\ WF_httpVars(HttpRuns /\ Respond)
  /\ WF_httpVars(HttpRuns /\ (Answer \/ HangsUp))
  /\ WF_chunkVars(BodyRuns /\ (Pull \/ Flush))
  /\ WF_chunkVars(BodyRuns /\ SendSome) /\ WF_chunkVars(BodyRuns /\ CloseConnection)
  /\ WF_serviceVars(side = "service" /\ STREAMServerAccept)

-----------------------------------------------------------------------------
\* Of the part that runs.
Of(part, P) == side = part => P

\* Types of all of them.
WebTypeOK ==
  /\ HttpTypeOK /\ ChunkedTypeOK
  /\ ConnectTypeOK /\ ChainTypeOK /\ ServiceTypeOK /\ WebSocketTypeOK
  /\ SmtpTypeOK /\ OAuthTypeOK /\ TlsTypeOK /\ SendTypeOK

\* A stream that is connected is connected to whom it was asked for; a server finds out
\* about TLS with every client; TLS is what was asked for; a body is copied whole; and
\* mail is delivered once and as the server agreed to take it.
ConnectionsTrue ==
  /\ Of("connect", ConnectedIsConnected) /\ Of("service", Detects) /\ Of("tls", TlsTrue)
  /\ Of("copy", CopyTrue) /\ Of("mail", MailTrue)

\* Whatever hops are asked on the way, a connection leads to its destination; messages
\* are read whole; and the tokens in the file are those the server honours.
SessionsTrue ==
  Of("chain", ChainLeads) /\ Of("frames", MessagesWhole) /\ Of("oauth", TokensKept)

\* The call returns, and so does the reading of the body behind it; and a server answers
\* all its clients.
WebCallsReturn ==
  /\ HttpRuns => Returns
  /\ side = "body" => ReaderReturns
  /\ side = "service" => AllAnswered
=============================================================================
