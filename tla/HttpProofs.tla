----------------------------- MODULE HttpProofs -----------------------------
(***************************************************************************)
(* HTTPTransact, for any number of pages whatever they do: client and      *)
(* server never wait for each other, and logins end.  And the connections  *)
(* around it: to whom they lead, what TLS they speak, how a server finds   *)
(* out, what is copied over them, and which mails are delivered.           *)
(***************************************************************************)
EXTENDS MCHttp, SessionProofs, SequenceTheorems, FiniteSetTheorems, TLAPS

\* Where a request may be under way, and what is known of it there.
ShapeInv ==
  /\ pc \in {"connect", "wait", "paused", "over"}
  /\ site \in [Pages -> Behaviours]
  /\ pc = "connect" => state = {}
  /\ conn \in Pages \cup {"none"}
  /\ request \in [page : Pages \cup {"", "none"}, login : BOOLEAN, proxy : BOOLEAN, whole : BOOLEAN]

\* A connection is one to the host of the page that is wanted; who writes has asked
\* there, and who waits has written all, unless the connection was reset meanwhile.
AskedInv ==
  /\ broke \in BOOLEAN
  /\ pc = "connect" => conn \in {"none", page}
  /\ pc \in {"wait", "paused"} => page \in Pages
  /\ pc = "paused" => request.page = page /\ (conn = page \/ (conn = "none" /\ broke = TRUE))
  /\ pc = "wait" =>
       conn = page /\ (broke = FALSE => request.whole) /\ (request.whole => request.page = page)

\* A login that was sent is remembered, one way or the other.
LoginInv ==
  /\ authorization \in BOOLEAN /\ proxyAuthorization \in BOOLEAN
  /\ challenges \in {0, 1, 2} /\ (challenges = 2 => pc = "over")
  /\ challenges = 1 /\ pc # "over" =>
       \/ "oauth" \in authFlags /\ "return" \in authFlags
       \/ /\ "oauth" \notin authFlags /\ authorization
          /\ pc \in {"wait", "paused"} => "sent" \in authFlags

\* Nothing that leaves a body unread happens to a call like that of a URL's.
NoProxies == \A p \in Pages : site[p].code \notin {"proxy", "proxyrefuse"}

BlindInv ==
  login = "url" /\ NoProxies =>
    /\ ~stale /\ reply.code # "407"
    /\ "basic" \in authFlags /\ "oauth" \notin authFlags
    /\ pc \in {"wait", "paused"} => "sent" \in authFlags

HttpInv == ShapeInv /\ AskedInv /\ LoginInv /\ BlindInv

LEMMA HttpStarts == HttpInit => HttpInv
<1> SUFFICES ASSUME HttpInit PROVE HttpInv
  OBVIOUS
<1>1. ShapeInv
  BY DEF HttpInit, ShapeInv, NoRequest
<1>2. AskedInv
  BY DEF HttpInit, AskedInv
<1>3. LoginInv
  <2>1. authorization \in BOOLEAN /\ proxyAuthorization \in BOOLEAN
    BY Zenon DEF HttpInit
  <2>2. challenges = 0
    BY DEF HttpInit
  <2> QED BY <2>1, <2>2 DEF LoginInv
<1>4. BlindInv
  BY DEF HttpInit, BlindInv, NoReply
<1> QED BY <1>1, <1>2, <1>3, <1>4 DEF HttpInv

\* The steps of the connection and of the request.
LEMMA ConnectStep == HttpInv /\ (Connect \/ ConnectFails) => HttpInv'
<1> SUFFICES ASSUME HttpInv, Connect \/ ConnectFails PROVE HttpInv'
  OBVIOUS
<1>1. /\ UNCHANGED <<site, login, page, authFlags, authorization, proxyAuthorization, challenges,
                     state, request, reply, broke>>
      /\ \/ pc' = pc /\ pc = "connect" /\ conn' = page /\ page \in Pages /\ stale' = FALSE
         \/ pc' = "over" /\ conn' = conn /\ stale' = stale
  BY DEF Connect, ConnectFails, ofCall, setup, target, auth
<1>2. ShapeInv'
  BY <1>1 DEF HttpInv, ShapeInv
<1>3. AskedInv'
  BY <1>1 DEF HttpInv, AskedInv
<1>4. LoginInv'
  BY <1>1 DEF HttpInv, LoginInv
<1>5. BlindInv'
  BY <1>1 DEF HttpInv, BlindInv, NoProxies
<1> QED BY <1>2, <1>3, <1>4, <1>5 DEF HttpInv

LEMMA RequestStep == HttpInv /\ Request => HttpInv'
<1> SUFFICES ASSUME HttpInv, Request PROVE HttpInv'
  OBVIOUS
<1>1. pc = "connect" /\ state = {} /\ conn = page /\ page \in Pages
  BY DEF HttpInv, ShapeInv, AskedInv, Request
<1>2. /\ UNCHANGED <<site, login, page, authorization, proxyAuthorization, challenges, conn,
                     broke>>
      /\ request' = [page |-> page, login |-> SendsAuth, proxy |-> proxyAuthorization,
                     whole |-> method # "PUT"]
      /\ authFlags' = authFlags \cup Marked
      /\ pc' = IF method = "PUT" THEN "paused" ELSE "wait"
      /\ stale' \in {FALSE, stale} /\ reply' = NoReply
  <2>1. "headers" \notin state /\ "data" \notin state
    BY <1>1
  <2>2. UNCHANGED <<site, login, page, authorization, proxyAuthorization, challenges, conn, broke>>
    BY DEF Request, ofCall, setup, target
  <2>3. stale' \in {FALSE, stale} /\ reply' = NoReply
    BY DEF Request
  <2>4. /\ request' = [page |-> page, login |-> SendsAuth, proxy |-> proxyAuthorization,
                       whole |-> method # "PUT"]
        /\ authFlags' = authFlags \cup Marked
    BY <2>1 DEF Request
  <2>5. pc' = IF method = "PUT" THEN "paused" ELSE "wait"
    BY <2>1 DEF Request
  <2> QED BY <2>2, <2>3, <2>4, <2>5
<1>3. SendsAuth \in BOOLEAN
  BY DEF HttpInv, LoginInv, SendsAuth
<1>4. ShapeInv'
  BY <1>1, <1>2, <1>3 DEF HttpInv, ShapeInv, LoginInv
<1>5. AskedInv'
  <2>1. broke \in BOOLEAN
    BY DEF HttpInv, AskedInv
  <2>2. request'.page = page /\ request'.whole = (method # "PUT")
    BY <1>2
  <2>3. pc' = "wait" => request'.whole
    BY <1>2, <2>2
  <2>4. pc' = "paused" \/ pc' = "wait"
    BY <1>2
  <2>5. broke' = broke /\ conn' = conn /\ page' = page
    BY <1>2
  <2>6. CASE pc' = "paused"
    <3>1. request'.page = page' /\ conn' = page' /\ page' \in Pages /\ broke' \in BOOLEAN
      BY <1>1, <2>1, <2>2, <2>5
    <3>2. pc' # "wait" /\ pc' # "connect"
      BY <2>6
    <3> QED BY <3>1, <3>2 DEF AskedInv
  <2>7. CASE pc' = "wait"
    BY <1>1, <2>1, <2>2, <2>3, <2>5, <2>7 DEF AskedInv
  <2> QED BY <2>4, <2>6, <2>7
<1>6. LoginInv'
  <2>1. authorization /\ "oauth" \notin authFlags => "sent" \in authFlags'
    BY <1>2 DEF Marked, SendsAuth
  <2>2. authFlags \subseteq authFlags' /\ authFlags' \subseteq authFlags \cup {"sent"}
    BY <1>2 DEF Marked
  <2> QED BY <1>1, <1>2, <2>1, <2>2 DEF HttpInv, LoginInv
<1>7. BlindInv'
  <2>1. "basic" \in authFlags /\ "oauth" \notin authFlags => "sent" \in authFlags'
    BY <1>2 DEF Marked, SendsAuth
  <2>2. authFlags \subseteq authFlags' /\ authFlags' \subseteq authFlags \cup {"sent"}
    BY <1>2 DEF Marked
  <2> QED BY <1>1, <1>2, <2>1, <2>2 DEF HttpInv, BlindInv, NoProxies, NoReply
<1> QED BY <1>4, <1>5, <1>6, <1>7 DEF HttpInv

LEMMA LostStep == HttpInv /\ Lost => HttpInv'
<1> SUFFICES ASSUME HttpInv, Lost PROVE HttpInv'
  OBVIOUS
<1>1. /\ UNCHANGED <<site, login, page, authorization, proxyAuthorization, challenges, conn, broke,
                     request, reply, stale>>
      /\ pc' = "over" /\ authFlags' = authFlags \cup Marked
  BY DEF Lost, ofCall, setup, target
<1>2. ShapeInv'
  BY <1>1 DEF HttpInv, ShapeInv
<1>3. AskedInv'
  BY <1>1 DEF HttpInv, AskedInv
<1>4. LoginInv'
  BY <1>1 DEF HttpInv, LoginInv
<1>5. BlindInv'
  <2>1. "oauth" \notin authFlags => "oauth" \notin authFlags'
    BY <1>1 DEF Marked
  <2> QED BY <1>1, <2>1 DEF HttpInv, BlindInv, NoProxies
<1> QED BY <1>2, <1>3, <1>4, <1>5 DEF HttpInv

LEMMA CallerStep == HttpInv /\ CallerWrites => HttpInv'
<1> SUFFICES ASSUME HttpInv, CallerWrites PROVE HttpInv'
  OBVIOUS
<1>1. /\ UNCHANGED <<site, login, page, authFlags, authorization, proxyAuthorization, challenges,
                     conn, state, reply, stale, broke>>
      /\ pc = "paused" /\ conn # "none" /\ pc' = "wait"
      /\ request' = [request EXCEPT !.whole = TRUE]
  BY DEF CallerWrites, ofCall, setup, target, auth
<1>2. ShapeInv' /\ request'.whole /\ request'.page = request.page
  BY <1>1 DEF HttpInv, ShapeInv
<1>3. AskedInv'
  BY <1>1, <1>2 DEF HttpInv, AskedInv
<1>4. LoginInv'
  BY <1>1 DEF HttpInv, LoginInv
<1>5. BlindInv'
  BY <1>1 DEF HttpInv, BlindInv, NoProxies
<1> QED BY <1>2, <1>3, <1>4, <1>5 DEF HttpInv

\* The connection goes while the caller writes, and there may be another one.
LEMMA ResetStep == HttpInv /\ (Reset \/ ConnectsAgain) => HttpInv'
<1> SUFFICES ASSUME HttpInv, Reset \/ ConnectsAgain PROVE HttpInv'
  OBVIOUS
<1>1. /\ UNCHANGED <<site, login, page, authFlags, authorization, proxyAuthorization, challenges,
                     state, reply>>
      /\ pc = "paused"
      /\ \/ /\ pc' = "paused" /\ conn' = "none" /\ broke' = TRUE
            /\ UNCHANGED <<request, stale>>
         \/ /\ pc' = "wait" /\ conn = "none" /\ conn' = page /\ broke' = broke /\ stale' = FALSE
            /\ request' = NoRequest
         \/ /\ pc' = "over" /\ UNCHANGED <<conn, broke, stale>>
            /\ request' = NoRequest
  BY DEF Reset, ConnectsAgain, ofCall, setup, target, auth
<1>2. page \in Pages
  BY <1>1 DEF HttpInv, AskedInv
<1>3. ShapeInv'
  <2>1. NoRequest \in [page : Pages \cup {"", "none"}, login : BOOLEAN, proxy : BOOLEAN, whole : BOOLEAN]
    BY DEF NoRequest
  <2>2. pc' # "connect" /\ conn' \in Pages \cup {"none"}
    BY <1>1, <1>2 DEF HttpInv, ShapeInv
  <2>3. request' \in [page : Pages \cup {"", "none"}, login : BOOLEAN, proxy : BOOLEAN, whole : BOOLEAN]
    BY <1>1, <2>1 DEF HttpInv, ShapeInv
  <2> QED BY <1>1, <2>2, <2>3 DEF HttpInv, ShapeInv
<1>4. AskedInv'
  <2>1. NoRequest.whole = FALSE
    BY DEF NoRequest
  <2>2. "none" \notin Pages
    BY HttpAssumption
  <2> QED BY <1>1, <1>2, <2>1, <2>2 DEF HttpInv, AskedInv
<1>5. LoginInv'
  BY <1>1 DEF HttpInv, LoginInv
<1>6. BlindInv'
  BY <1>1 DEF HttpInv, BlindInv, NoProxies
<1> QED BY <1>3, <1>4, <1>5, <1>6 DEF HttpInv

\* Only a proxy answers with 407.
LEMMA CodeOfPage ==
  ASSUME NEW r, r.page \in Pages, site \in [Pages -> Behaviours], NoProxies
  PROVE  Code(r) # "407"
<1>1. site[r.page].code \in {"302", "303", "200", "404", "login", "refuse"}
  BY DEF Behaviours, Redirects, NoProxies
<1>2. CASE site[r.page].code = "login"
  BY <1>2 DEF Code
<1>3. CASE site[r.page].code = "refuse"
  BY <1>3 DEF Code
<1>4. CASE site[r.page].code \in {"302", "303", "200", "404"}
  BY <1>4 DEF Code
<1> QED BY <1>1, <1>2, <1>3, <1>4

LEMMA ServerStep == HttpInv /\ (Answer \/ HangsUp) => HttpInv'
<1> SUFFICES ASSUME HttpInv, Answer \/ HangsUp PROVE HttpInv'
  OBVIOUS
<1>1. /\ UNCHANGED <<site, login, page, authFlags, authorization, proxyAuthorization, challenges,
                     conn, state, pc, request, stale, broke>>
      /\ pc = "wait"
      /\ \/ reply' = reply
         \/ request.whole /\ reply' = [code |-> Code(request), to |-> site[request.page].to]
  BY DEF Answer, HangsUp, ofCall, setup, target, auth
<1>2. ShapeInv'
  BY <1>1 DEF HttpInv, ShapeInv
<1>3. AskedInv'
  BY <1>1 DEF HttpInv, AskedInv
<1>4. LoginInv'
  BY <1>1 DEF HttpInv, LoginInv
<1>5. BlindInv'
  <2>1. NoProxies => reply'.code = reply.code \/ reply'.code # "407"
    <3>1. (request.whole => request.page \in Pages) /\ site \in [Pages -> Behaviours]
      BY <1>1 DEF HttpInv, AskedInv, ShapeInv
    <3>2. NoProxies /\ request.whole => Code(request) # "407"
      BY <3>1, CodeOfPage
    <3> QED BY <1>1, <3>2
  <2>2. NoProxies' <=> NoProxies
    BY <1>1 DEF NoProxies
  <2> QED BY <1>1, <2>1, <2>2 DEF HttpInv, BlindInv
<1> QED BY <1>2, <1>3, <1>4, <1>5 DEF HttpInv

\* The call is over, or goes on with another page.
LEMMA LeaveStep == HttpInv /\ (Finish \/ CircularRedirect \/ Redirect) => HttpInv'
<1> SUFFICES ASSUME HttpInv, Finish \/ CircularRedirect \/ Redirect PROVE HttpInv'
  OBVIOUS
<1>1. /\ UNCHANGED <<site, login, authFlags, authorization, proxyAuthorization, challenges,
                     request, reply, broke>>
      /\ stale' = stale /\ state' = {} /\ pc = "wait"
  BY DEF Finish, CircularRedirect, Redirect, Over, HasAnswer, Cleared, ofCall, setup, target, auth
<1>2. \/ pc' = "over" /\ conn' = conn
      \/ pc' = "connect" /\ conn' = "none"
  BY DEF Finish, CircularRedirect, Redirect, Over, Disconnected
<1>3. ShapeInv'
  BY <1>1, <1>2 DEF HttpInv, ShapeInv
<1>4. AskedInv'
  BY <1>1, <1>2 DEF HttpInv, AskedInv
<1>5. LoginInv'
  BY <1>1, <1>2 DEF HttpInv, LoginInv
<1>6. BlindInv'
  BY <1>1, <1>2 DEF HttpInv, BlindInv, NoProxies
<1> QED BY <1>3, <1>4, <1>5, <1>6 DEF HttpInv

\* A second challenge is given up; so is the first one when a login was sent blindly.
LEMMA ChallengeStep == HttpInv /\ Challenge => HttpInv'
<1> SUFFICES ASSUME HttpInv, Challenge PROVE HttpInv'
  OBVIOUS
<1>1. /\ UNCHANGED <<site, login, page, proxyAuthorization, request, reply, broke>>
      /\ state' = {} /\ pc = "wait" /\ conn' \in {conn, "none"}
  BY DEF Challenge, HasAnswer, Cleared, Over, TryAgain, ofCall, setup, target
<1>2. challenges' = challenges + 1 /\ challenges \in {0, 1}
  BY <1>1 DEF Challenge, HttpInv, LoginInv
<1>3. PICK named \in BOOLEAN :
        /\ authorization' = (authorization \/ named \/ "oauth" \in authFlags)
        /\ authFlags' = authFlags \cup (IF named THEN {"basic"} ELSE {})
                                  \cup (IF "oauth" \in authFlags THEN {"return"} ELSE {})
  BY DEF Challenge
<1>4. /\ authFlags \subseteq authFlags'
      /\ "oauth" \in authFlags' <=> "oauth" \in authFlags
      /\ "oauth" \in authFlags => "return" \in authFlags'
  BY <1>3
<1>5. authorization' \in BOOLEAN
  BY <1>3 DEF HttpInv, LoginInv
<1>6. \/ GivesUp /\ pc' = "over" /\ stale' = stale
      \/ ~GivesUp /\ pc' = "connect"
  BY DEF Challenge, Over, TryAgain
<1>7. challenges = 1 => GivesUp
  BY <1>1 DEF HttpInv, LoginInv, GivesUp
<1>8. ~GivesUp => "oauth" \in authFlags \/ authorization'
  BY DEF GivesUp
<1>9. ShapeInv' /\ AskedInv'
  BY <1>1, <1>6 DEF HttpInv, ShapeInv, AskedInv
<1>10. LoginInv'
  <2>1. proxyAuthorization' \in BOOLEAN
    BY <1>1 DEF HttpInv, LoginInv
  <2>2. CASE challenges = 1
    BY <1>2, <1>5, <1>6, <1>7, <2>1, <2>2 DEF LoginInv
  <2>3. CASE challenges = 0
    <3>1. challenges' = 1
      BY <1>2, <2>3
    <3>2. pc' # "over" => \/ "oauth" \in authFlags' /\ "return" \in authFlags'
                          \/ "oauth" \notin authFlags' /\ authorization'
      <4>1. CASE "oauth" \in authFlags
        BY <1>4, <4>1
      <4>2. CASE "oauth" \notin authFlags
        <5>1. pc' # "over" => authorization'
          BY <1>6, <1>8, <4>2, Zenon
        <5> QED BY <1>4, <4>2, <5>1
      <4> QED BY <4>1, <4>2
    <3>3. pc' \notin {"wait", "paused"}
      BY <1>6
    <3> QED BY <1>5, <2>1, <3>1, <3>2, <3>3 DEF LoginInv
  <2> QED BY <1>2, <2>2, <2>3
<1>11. BlindInv'
  <2>1. "sent" \in authFlags /\ "oauth" \notin authFlags => GivesUp
    BY DEF GivesUp
  <2> QED BY <1>1, <1>4, <1>6, <2>1 DEF HttpInv, BlindInv, NoProxies
<1> QED BY <1>9, <1>10, <1>11 DEF HttpInv

LEMMA ProxyStep == HttpInv /\ ProxyChallenge => HttpInv'
<1> SUFFICES ASSUME HttpInv, ProxyChallenge PROVE HttpInv'
  OBVIOUS
<1>1. /\ UNCHANGED <<site, login, page, authorization, challenges, request, reply, broke>>
      /\ state' = {} /\ pc = "wait" /\ Status = "407" /\ conn' \in {conn, "none"}
  BY DEF ProxyChallenge, HasAnswer, Cleared, Over, TryAgain, ofCall, setup, target
<1>2. PICK named \in BOOLEAN :
        /\ proxyAuthorization' = (proxyAuthorization \/ named)
        /\ authFlags' = authFlags \cup (IF named THEN {"basic"} ELSE {})
  BY DEF ProxyChallenge
<1>3. proxyAuthorization' \in BOOLEAN
  BY <1>2 DEF HttpInv, LoginInv
<1>4. authFlags \subseteq authFlags' /\ authFlags' \subseteq authFlags \cup {"basic"}
  BY <1>2
<1>5. pc' \in {"over", "connect"}
  BY DEF ProxyChallenge, Over, TryAgain
<1>6. ShapeInv' /\ AskedInv'
  BY <1>1, <1>5 DEF HttpInv, ShapeInv, AskedInv
<1>7. LoginInv'
  BY <1>1, <1>3, <1>4, <1>5 DEF HttpInv, LoginInv
<1>8. BlindInv'
  <2>1. reply.code = "407"
    BY <1>1 DEF Status
  <2> QED BY <1>1, <2>1 DEF HttpInv, BlindInv, NoProxies
<1> QED BY <1>6, <1>7, <1>8 DEF HttpInv

LEMMA HttpStep == HttpInv /\ [HttpNext]_httpVars => HttpInv'
<1>1. HttpInv /\ UNCHANGED httpVars => HttpInv'
  <2> SUFFICES ASSUME HttpInv, UNCHANGED httpVars PROVE HttpInv'
    OBVIOUS
  <2>1. ShapeInv' /\ AskedInv'
    BY DEF HttpInv, ShapeInv, AskedInv, httpVars
  <2>2. LoginInv' /\ BlindInv'
    BY DEF HttpInv, LoginInv, BlindInv, NoProxies, httpVars
  <2> QED BY <2>1, <2>2 DEF HttpInv
<1> QED BY <1>1, ConnectStep, RequestStep, LostStep, CallerStep, ResetStep, ServerStep, LeaveStep,
           ChallengeStep, ProxyStep DEF HttpNext, Respond

\* Client and server never wait for each other: for any pages, whatever they redirect to
\* and ask for, any method, and a connection that breaks anywhere but under the caller
\* who writes a body.
THEOREM NeverWaitForEachOther == HttpSpec => []NoMutualWait
<1>1. HttpInv => NoMutualWait
  BY DEF HttpInv, AskedInv, NoMutualWait
<1> QED BY <1>1, HttpStarts, HttpStep, PTL DEF HttpSpec

\* However many pages redirect to each other and ask for a login: the second challenge is
\* the last one, and with a login that was in the URL no reply is read for another.
THEOREM LoginsAreEnded == HttpSpec => []LoginsEnd
<1>1. HttpInv => LoginsEnd
  <2> SUFFICES ASSUME HttpInv PROVE LoginsEnd
    OBVIOUS
  <2>1. TwoChallengesAtMost
    BY DEF HttpInv, LoginInv, TwoChallengesAtMost
  <2>2. NoStaleAnswer
    BY DEF HttpInv, BlindInv, NoStaleAnswer, NoProxies
  <2> QED BY <2>1, <2>2 DEF LoginsEnd
<1> QED BY <1>1, HttpStarts, HttpStep, PTL DEF HttpSpec

-----------------------------------------------------------------------------
(* One TCP connection: where STREAMNetConnect is tells what the kernel may *)
(* say of the socket.                                                      *)

ConnectInv ==
  /\ at \in {"bind", "connect", "wait", "done"}
  /\ at = "bind" => socket = "none" /\ returns = "none" /\ tcp = "idle"
  /\ at = "connect" => socket \in {"none", "open"} /\ returns = "none" /\ tcp = "idle"
  /\ at = "wait" => socket = "open" /\ returns = "none" /\ (~nonblock => tcp = "connected")
                    /\ tcp \in {"connected", "connecting", "failed"} /\ toward = SockAddrCreate
  /\ at \in {"bind", "connect"} => ~posted
  /\ tcp = "connecting" => nonblock
  /\ posted => tcp = "connected" \/ flagged = TRUE
  /\ posted \in BOOLEAN /\ flagged \in BOOLEAN
  /\ tcp = "connected" => toward = SockAddrCreate
  /\ tcp = "connecting" => toward = SockAddrCreate
  /\ ConnectedIsConnected

LEMMA ConnectStarts == ConnectInit => ConnectInv
BY DEF ConnectInit, ConnectInv, ConnectedIsConnected

LEMMA ConnectKeeps == ConnectInv /\ [ConnectNext]_connectVars => ConnectInv'
<1> SUFFICES ASSUME ConnectInv, [ConnectNext]_connectVars PROVE ConnectInv'
  OBVIOUS
<1> USE DEF ConnectInv, ConnectedIsConnected, SockAddrCreate
<1>1. CASE BindSock
  BY <1>1 DEF BindSock, Goes, plan
<1>2. CASE IPReconnect
  <2>1. CASE socket = "none"
    BY <1>2, <2>1 DEF IPReconnect, plan, Failed, Ends
  <2>2. CASE socket # "none"
    <3>1. CASE tcp' = "failed" /\ Failed
      BY <1>2, <2>2, <3>1 DEF IPReconnect, plan, Failed, Ends
    <3>2. CASE tcp' = "connected" /\ Goes("wait") /\ UNCHANGED <<socket, returns>>
      BY <1>2, <2>2, <3>2 DEF IPReconnect, plan, Goes
    <3>3. CASE nonblock /\ tcp' = "connecting" /\ Goes("wait") /\ UNCHANGED <<socket, returns>>
      BY <1>2, <2>2, <3>3 DEF IPReconnect, plan, Goes
    <3> QED BY <1>2, <2>2, <3>1, <3>2, <3>3 DEF IPReconnect
  <2> QED BY <2>1, <2>2
<1>3. CASE STREAMWaitConnect
  <2>1. /\ at = "wait" /\ at' = "done" /\ returns' = "yes"
        /\ UNCHANGED <<nonblock, flagged, host, listens, socket, toward, tcp>>
    BY <1>3 DEF STREAMWaitConnect, plan, Ends
  <2>2. /\ posted' \in BOOLEAN
        /\ posted' => tcp = "connected" \/ flagged = TRUE
        /\ tcp = "connected" => posted'
    <3>1. posted' \in (CASE tcp = "connected" -> {TRUE}
                        [] tcp = "connecting" /\ flagged -> BOOLEAN
                        [] OTHER -> {flagged})
      BY <1>3 DEF STREAMWaitConnect
    <3>2. CASE tcp = "connected"
      BY <3>1, <3>2
    <3>3. CASE tcp = "connecting" /\ flagged
      BY <3>1, <3>3
    <3>4. CASE tcp # "connected" /\ ~(tcp = "connecting" /\ flagged)
      <4>1. posted' = flagged
        BY <3>1, <3>4
      <4> QED BY <3>4, <4>1
    <3> QED BY <3>2, <3>3, <3>4
  <2> QED BY <2>1, <2>2
<1>4. CASE Settle
  BY <1>4 DEF Settle, plan
<1>5. CASE UNCHANGED connectVars
  BY <1>5 DEF connectVars
<1> QED BY <1>1, <1>2, <1>3, <1>4, <1>5 DEF ConnectNext, STREAMNetConnect

-----------------------------------------------------------------------------
(* TLS: what is known of the handshake at each place of the negotiation.   *)

TlsPlaceInv ==
  /\ end \in {"client", "server"}
  /\ peerSpeaks \subseteq 9..13
  /\ tlsAt \in {"init", "try", "settle", "note", "open", "over"}
  /\ handshake \in {"begun", "done", "failed"}
  /\ tlsAt \in {"try", "note"} => sslObj = TRUE
  /\ tlsAt = "open" => sslObj = TRUE \/ able = FALSE
  /\ able \in BOOLEAN
  /\ able = FALSE => certCame = FALSE /\ ssSsl = FALSE /\ tlsAt \in {"init", "open", "over"}
  /\ tlsAt = "settle" => sslObj = TRUE /\ end = "client"
  /\ tlsAt \in {"init", "try", "settle"} => tlsResult = "none"
  /\ tlsAt = "note" => ssSsl = TRUE
  /\ tlsAt = "open" => ssSsl = TRUE \/ (tlsResult = "FALSE" /\ (end = "server" \/ able = FALSE))
  /\ tlsAt \in {"init", "try"} => handshake = "begun"
  /\ tlsResult = "TRUE" /\ end = "client" => handshake = "done"
  /\ "clear" \in wrote => tlsResult = "FALSE" /\ (end = "server" \/ able = FALSE)

\* The version is one that both ends allow, and a certificate that came was given.
TlsAgreedInv ==
  /\ version = 0 \/ version \in Agreed
  /\ certCame => peerCert.given
  /\ verified = "OK" => certCame /\ HostMatches /\ ChainHolds /\ tlsAt \in {"open", "over"}
  /\ {trust.stream, trust.library} \subseteq {"", "own", "other"}

TlsInv == TlsPlaceInv /\ TlsAgreedInv

LEMMA AgreedHasMax ==
  ASSUME TlsPlaceInv, Agreed # {} PROVE Max(Agreed) \in Agreed
<1>1. Agreed \subseteq 9..13
  BY DEF TlsPlaceInv, Agreed
<1>2. \E m \in Agreed : \A n \in Agreed : m >= n
  <2>1. PICK a \in Agreed : TRUE
    OBVIOUS
  <2>2. a \in {9, 10, 11, 12, 13}
    BY <1>1
  <2>3. \A n \in Agreed : n \in {9, 10, 11, 12, 13}
    BY <1>1
  <2>4. CASE 13 \in Agreed
    BY <2>3, <2>4
  <2>5. CASE 13 \notin Agreed /\ 12 \in Agreed
    BY <2>3, <2>5
  <2>6. CASE 13 \notin Agreed /\ 12 \notin Agreed /\ 11 \in Agreed
    BY <2>3, <2>6
  <2>7. CASE 13 \notin Agreed /\ 12 \notin Agreed /\ 11 \notin Agreed /\ 10 \in Agreed
    BY <2>3, <2>7
  <2>8. CASE 13 \notin Agreed /\ 12 \notin Agreed /\ 11 \notin Agreed /\ 10 \notin Agreed
    BY <2>2, <2>3, <2>8
  <2> QED BY <2>4, <2>5, <2>6, <2>7, <2>8
<1> QED BY <1>2, Zenon DEF Max

\* What a call of OpenSSL leaves true, whoever makes it.
LEMMA StepAgrees ==
  ASSUME TlsInv, NEW how, Step(how), UNCHANGED tlsInputs
  PROVE  /\ handshake' \in {"begun", "done", "failed"}
         /\ version' = 0 \/ version' \in Agreed'
         /\ certCame' => peerCert'.given
<1>1. Agreed' = Agreed /\ peerCert' = peerCert
  BY DEF tlsInputs, Agreed, OpenSSLSetOptions, LevelSet, LibraryLevel
<1>2. /\ version = 0 \/ version \in Agreed
      /\ certCame => peerCert.given
  BY DEF TlsInv, TlsAgreedInv
<1>3. /\ how = "done" => Max(Agreed) \in Agreed
  BY AgreedHasMax DEF Step, TlsInv
<1>4. handshake' \in {"begun", "done", "failed"}
  BY DEF Step
<1>5. version' = 0 \/ version' \in Agreed'
  <2>1. (version' = Max(Agreed) /\ how = "done") \/ version' = version
    BY DEF Step
  <2> QED BY <1>1, <1>2, <1>3, <2>1
<1>6. certCame' => peerCert'.given
  <2>1. certCame' = peerCert.given \/ certCame' = certCame
    BY DEF Step
  <2> QED BY <1>1, <1>2, <2>1
<1> QED BY <1>4, <1>5, <1>6

\* A call moves no place: who makes it does.
LEMMA TlsMoves ==
  ASSUME TlsInv, UNCHANGED tlsInputs, TlsPlaceInv',
         \/ \E how : Step(how)
         \/ UNCHANGED <<handshake, certCame, version>>,
         \/ UNCHANGED verified /\ (tlsAt \in {"open", "over"} => tlsAt' \in {"open", "over"})
         \/ verified' = Verdict /\ tlsAt' = "open" /\ UNCHANGED certCame
  PROVE  TlsInv'
<1>1. /\ Agreed' = Agreed /\ peerCert' = peerCert /\ HostMatches' = HostMatches
      /\ ChainHolds' = ChainHolds /\ trust' = trust
  BY DEF tlsInputs, Agreed, OpenSSLSetOptions, LevelSet, LibraryLevel, HostMatches, ChainHolds, Roots
<1>2. /\ version' = 0 \/ version' \in Agreed'
      /\ certCame' => peerCert'.given
  <2>1. CASE \E how : Step(how)
    BY <2>1, StepAgrees
  <2>2. CASE UNCHANGED <<handshake, certCame, version>>
    BY <1>1, <2>2 DEF TlsInv, TlsAgreedInv
  <2> QED BY <2>1, <2>2
<1>3. certCame => certCame'
  <2>1. CASE \E how : Step(how)
    <3>1. PICK how : Step(how)
      BY <2>1
    <3>2. certCame' = peerCert.given \/ certCame' = certCame
      BY <3>1 DEF Step
    <3> QED BY <3>2 DEF TlsInv, TlsAgreedInv
  <2> QED BY <2>1
<1>4. verified' = "OK" => certCame' /\ HostMatches' /\ ChainHolds' /\ tlsAt' \in {"open", "over"}
  <2>1. CASE UNCHANGED verified /\ (tlsAt \in {"open", "over"} => tlsAt' \in {"open", "over"})
    BY <1>1, <1>3, <2>1 DEF TlsInv, TlsAgreedInv
  <2>2. CASE verified' = Verdict /\ tlsAt' = "open" /\ UNCHANGED certCame
    BY <1>1, <2>2 DEF Verdict
  <2> QED BY <2>1, <2>2
<1> QED BY <1>1, <1>2, <1>4 DEF TlsInv, TlsAgreedInv

LEMMA TlsStarts == TlsInit => TlsInv
BY TlsAssumption DEF TlsInit, TlsInv, TlsPlaceInv, TlsAgreedInv

LEMMA TlsKeeps == TlsInv /\ [TlsNext]_tlsVars => TlsInv'
<1> SUFFICES ASSUME TlsInv, [TlsNext]_tlsVars PROVE TlsInv'
  OBVIOUS
<1>0. TlsPlaceInv
  BY DEF TlsInv
<1>1. CASE Starts
  <2>1. TlsPlaceInv'
    BY <1>0, <1>1 DEF Starts, tlsInputs, TlsPlaceInv
  <2> QED BY <1>1, <2>1, TlsMoves DEF Starts
<1>2. CASE ClientTries
  <2>1. PICK how \in {"done", "failed", "wants"} :
          /\ Step(how) /\ (how = "wants" => handshake' = "begun")
          /\ tlsAt' = "settle" \/ (tlsAt' = "try" /\ how = "wants")
    BY <1>2 DEF ClientTries, Step
  <2>2. handshake' \in {"begun", "done", "failed"}
    BY <2>1, StepAgrees, <1>2 DEF ClientTries
  <2>3. TlsPlaceInv'
    BY <1>0, <1>2, <2>1, <2>2 DEF ClientTries, tlsInputs, TlsPlaceInv
  <2>4. UNCHANGED <<tlsInputs, verified>> /\ tlsAt \notin {"open", "over"}
    BY <1>2 DEF ClientTries
  <2> QED BY <2>1, <2>3, <2>4, TlsMoves
<1>3. CASE ClientSettles
  <2>1. Same \/ \E how \in {"done", "wants", "failed"} : Step(how)
    BY <1>3 DEF ClientSettles
  <2>2. handshake' \in {"begun", "done", "failed"}
    BY <1>0, <1>3, <2>1, StepAgrees DEF ClientSettles, Same, TlsPlaceInv
  <2>3. TlsPlaceInv'
    BY <1>0, <1>3, <2>2 DEF ClientSettles, tlsInputs, TlsPlaceInv
  <2>4. UNCHANGED <<tlsInputs, verified>> /\ tlsAt \notin {"open", "over"}
    BY <1>3 DEF ClientSettles
  <2> QED BY <2>1, <2>3, <2>4, TlsMoves DEF Same
<1>4. CASE ServerTries
  <2>1. PICK how \in {"done", "failed", "wants"} :
          /\ Step(how) /\ (how = "wants" => handshake' = "begun" /\ UNCHANGED <<tlsAt, tlsResult, ssSsl>>)
          /\ how # "wants" =>
               \/ tlsAt' = "note" /\ tlsResult' = "TRUE" /\ ssSsl' = TRUE
               \/ tlsAt' = "open" /\ tlsResult' = "FALSE" /\ ssSsl' = ssSsl
    BY <1>4 DEF ServerTries, Step
  <2>2. handshake' \in {"begun", "done", "failed"}
    BY <2>1, StepAgrees, <1>4 DEF ServerTries
  <2>3. TlsPlaceInv'
    BY <1>0, <1>4, <2>1, <2>2 DEF ServerTries, tlsInputs, TlsPlaceInv
  <2>4. UNCHANGED <<tlsInputs, verified>> /\ tlsAt \notin {"open", "over"}
    BY <1>4 DEF ServerTries
  <2> QED BY <2>1, <2>3, <2>4, TlsMoves
<1>5. CASE Notes
  <2>1. TlsPlaceInv'
    BY <1>0, <1>5 DEF Notes, tlsInputs, TlsPlaceInv
  <2>2. UNCHANGED <<tlsInputs, handshake, certCame, version>> /\ verified' = Verdict /\ tlsAt' = "open"
    BY <1>5 DEF Notes
  <2> QED BY <2>1, <2>2, TlsMoves
<1>6. CASE WritesBytes
  <2>1. (Same \/ \E how \in {"done", "wants", "failed"} : handshake = "begun" /\ Step(how))
        \/ UNCHANGED <<handshake, certCame, version>>
    BY <1>6 DEF WritesBytes
  <2>2. handshake' \in {"begun", "done", "failed"} /\ (handshake = "done" => handshake' = "done")
    BY <1>0, <1>6, <2>1, StepAgrees DEF WritesBytes, Same, TlsPlaceInv
  <2>3. TlsPlaceInv'
    BY <1>0, <1>6, <2>2 DEF WritesBytes, tlsInputs, TlsPlaceInv
  <2>4. UNCHANGED <<tlsInputs, verified, tlsAt>>
    BY <1>6 DEF WritesBytes
  <2>5. (\E how : Step(how)) \/ UNCHANGED <<handshake, certCame, version>>
    BY <2>1 DEF Same
  <2> QED BY <2>3, <2>4, <2>5, TlsMoves
<1>7. CASE OpenSSLClose
  <2>1. TlsPlaceInv'
    BY <1>0, <1>7 DEF OpenSSLClose, tlsInputs, TlsPlaceInv
  <2>2. /\ UNCHANGED <<tlsInputs, handshake, certCame, version, verified>>
        /\ tlsAt' = "over"
    BY <1>7 DEF OpenSSLClose
  <2> QED BY <2>1, <2>2, TlsMoves
<1>8. CASE UNCHANGED tlsVars
  <2>1. TlsPlaceInv'
    BY <1>0, <1>8 DEF tlsVars, tlsInputs, TlsPlaceInv
  <2>2. UNCHANGED <<tlsInputs, handshake, certCame, version, verified, tlsAt>>
    BY <1>8 DEF tlsVars
  <2> QED BY <2>1, <2>2, TlsMoves
<1> QED BY <1>1, <1>2, <1>3, <1>4, <1>5, <1>6, <1>7, <1>8 DEF TlsNext

\* The roots are those of the system and what the settings name.
LEMMA TlsIsTrue == ASSUME TlsInv PROVE TlsTrue
<1>1. KeptSecret
  <2>1. LevelSet = (IF levels.stream # "" THEN levels.stream
                    ELSE IF levels.library # "" THEN levels.library ELSE "tls")
    BY DEF LevelSet, LibraryLevel
  <2>2. version # 0 => version >= LeastOf(LevelSet)
    BY DEF TlsInv, TlsAgreedInv, Agreed, OpenSSLSetOptions
  <2> QED BY <2>1, <2>2 DEF KeptSecret, TlsInv, TlsPlaceInv
<1>2. OkIsOk
  BY DEF OkIsOk, TlsInv, TlsPlaceInv, TlsAgreedInv, HostMatches, ChainHolds, Roots, OpenSSLIsPeerAuth
<1> QED BY <1>1, <1>2 DEF TlsTrue

-----------------------------------------------------------------------------
(* A server: each client is in the queue, looked at, or has its answer.    *)

Stages == {"idle", "detect", "handshake", "headers", "upgrade", "auth", "done"}
Fates == {"none", "waiting", "stream", "closed"}
Queued(c) == \E i \in DOMAIN queue : queue[i] = c

QueueInv ==
  /\ peer \in Clients \cup {"none"} /\ (peer = "none") = (stage = "idle") /\ stage \in Stages
  /\ queue \in Seq(Clients) /\ fate \in [Clients -> Fates]
  /\ \A i, j \in DOMAIN queue : queue[i] = queue[j] => i = j
  /\ \A i \in DOMAIN queue : queue[i] # peer
  /\ \A c \in Clients : (fate[c] = "waiting") <=> (c = peer \/ Queued(c))

\* What the server knows of the client it looks at, from where it is.
DetectInv ==
  /\ tlsOn \in [Clients -> BOOLEAN]
  /\ server.tls = "no" => stage \notin {"detect", "handshake"} /\ \A c \in Clients : ~tlsOn[c]
  /\ \A c \in Clients : fate[c] = "none" \/ Queued(c) => ~tlsOn[c]
  /\ server.tls = "auto" =>
       /\ \A c \in Clients : fate[c] = "stream" /\ c \notin gone => talks[c] = "cut" \/ tlsOn[c] = (talks[c] = "tls")
       /\ stage = "handshake" => talks[peer] \in {"tls", "cut"}
       /\ stage \in {"detect", "handshake"} => ~tlsOn[peer]
       /\ stage \in {"headers", "upgrade", "auth", "done"} /\ peer \notin gone =>
            talks[peer] = "cut" \/ tlsOn[peer] = (talks[peer] = "tls")

ServiceInv == QueueInv /\ DetectInv

LEMMA ServiceStarts == ServiceInit => ServiceInv
<1> SUFFICES ASSUME ServiceInit PROVE ServiceInv
  OBVIOUS
<1> USE ServiceAssumption
<1>1. QueueInv
  BY DEF ServiceInit, QueueInv, Stages, Fates, Queued
<1>2. DetectInv
  BY DEF ServiceInit, DetectInv
<1> QED BY <1>1, <1>2 DEF ServiceInv

\* A step that moves no client to another place.
LEMMA LooksOn ==
  ASSUME ServiceInv, UNCHANGED <<server, talks, queue, peer, fate>>, gone \subseteq gone',
         stage' \in Stages, stage = "idle" <=> stage' = "idle", DetectInv'
  PROVE  ServiceInv'
BY DEF ServiceInv, QueueInv, Queued

LEMMA LooksOnSame ==
  ASSUME ServiceInv, UNCHANGED <<server, talks, queue, peer, fate, tlsOn>>, gone \subseteq gone',
         stage' \in Stages, stage = "idle" <=> stage' = "idle",
         server.tls = "no" => stage' \notin {"detect", "handshake"},
         server.tls = "auto" =>
           /\ stage' = "handshake" => talks[peer] \in {"tls", "cut"}
           /\ stage' \in {"detect", "handshake"} => ~tlsOn[peer]
           /\ stage' \in {"headers", "upgrade", "auth", "done"} /\ peer \notin gone =>
                talks[peer] = "cut" \/ tlsOn[peer] = (talks[peer] = "tls")
  PROVE  ServiceInv'
<1>1. DetectInv'
  BY DEF ServiceInv, DetectInv, Queued
<1> QED BY <1>1, LooksOn

LEMMA ServiceKeeps == ServiceInv /\ [ServiceNext]_serviceVars => ServiceInv'
<1> SUFFICES ASSUME ServiceInv, [ServiceNext]_serviceVars PROVE ServiceInv'
  OBVIOUS
<1> USE ServiceAssumption
<1>0. QueueInv /\ DetectInv
  BY DEF ServiceInv
<1>1. ASSUME NEW c \in Clients, ConnectTo(c) PROVE ServiceInv'
  <2>1. /\ fate[c] = "none" /\ queue' = Append(queue, c) /\ fate' = [fate EXCEPT ![c] = "waiting"]
        /\ UNCHANGED <<server, talks, left, gone, peer, stage, tlsOn>>
    BY <1>1 DEF ConnectTo, clientVars
  <2>2. /\ queue \in Seq(Clients) /\ Len(queue) \in Nat /\ DOMAIN queue = 1..Len(queue)
        /\ queue' \in Seq(Clients) /\ DOMAIN queue' = 1..(Len(queue) + 1)
        /\ queue'[Len(queue) + 1] = c
        /\ \A i \in DOMAIN queue : queue'[i] = queue[i]
    BY <1>0, <2>1 DEF QueueInv
  <2>3. ~Queued(c) /\ c # peer
    BY <1>0, <2>1 DEF QueueInv
  <2>4. \A d \in Clients : Queued(d)' <=> d = c \/ Queued(d)
    <3>1. ASSUME NEW d \in Clients, Queued(d)' PROVE d = c \/ Queued(d)
      <4>1. PICK i \in 1..(Len(queue) + 1) : queue'[i] = d
        BY <2>2, <3>1 DEF Queued
      <4>2. CASE i = Len(queue) + 1
        BY <2>2, <4>1, <4>2
      <4>3. CASE i # Len(queue) + 1
        <5>1. i \in DOMAIN queue
          BY <2>2, <4>3
        <5> QED BY <2>2, <4>1, <5>1 DEF Queued
      <4> QED BY <4>2, <4>3
    <3>2. ASSUME NEW d \in Clients, Queued(d) PROVE Queued(d)'
      <4>1. PICK i \in DOMAIN queue : queue[i] = d
        BY <3>2 DEF Queued
      <4>2. i \in DOMAIN queue' /\ queue'[i] = d
        BY <2>2, <4>1
      <4> QED BY <4>2 DEF Queued
    <3>3. Queued(c)'
      <4>1. Len(queue) + 1 \in DOMAIN queue'
        BY <2>2
      <4> QED BY <2>2, <4>1 DEF Queued
    <3> QED BY <3>1, <3>2, <3>3
  <2>5. \A i, j \in DOMAIN queue' : queue'[i] = queue'[j] => i = j
    <3>1. ASSUME NEW i \in DOMAIN queue', NEW j \in DOMAIN queue', queue'[i] = queue'[j] PROVE i = j
      <4>1. i \in DOMAIN queue \/ i = Len(queue) + 1
        BY <2>2
      <4>2. j \in DOMAIN queue \/ j = Len(queue) + 1
        BY <2>2
      <4>3. \A k \in DOMAIN queue : queue'[k] # c
        BY <2>2, <2>3 DEF Queued
      <4> QED BY <1>0, <2>2, <3>1, <4>1, <4>2, <4>3 DEF QueueInv
    <3> QED BY <3>1
  <2>6. \A i \in DOMAIN queue' : queue'[i] # peer'
    <3>1. ASSUME NEW i \in DOMAIN queue' PROVE queue'[i] # peer
      <4>1. i \in DOMAIN queue \/ i = Len(queue) + 1
        BY <2>2
      <4> QED BY <1>0, <2>2, <2>3, <4>1 DEF QueueInv
    <3> QED BY <2>1, <3>1
  <2>7. QueueInv'
    <3>1. fate' \in [Clients -> Fates]
      BY <1>0, <2>1 DEF QueueInv, Fates
    <3>2. \A d \in Clients : (fate'[d] = "waiting") <=> (d = peer' \/ Queued(d)')
      BY <1>0, <2>1, <2>4 DEF QueueInv
    <3> QED BY <1>0, <2>1, <2>2, <2>5, <2>6, <3>1, <3>2 DEF QueueInv, Queued
  <2>8. DetectInv'
    BY <1>0, <2>1, <2>4 DEF QueueInv, DetectInv
  <2> QED BY <2>7, <2>8 DEF ServiceInv
<1>2. ASSUME NEW c \in Clients, HangUp(c) PROVE ServiceInv'
  BY <1>0, <1>2, LooksOnSame DEF HangUp, QueueInv, DetectInv
<1>3. CASE Accept
  <2>1. /\ peer = "none" /\ queue # <<>> /\ peer' = Head(queue) /\ queue' = Tail(queue)
        /\ stage' = (IF FirstStage = "plain" THEN AfterTls ELSE FirstStage)
        /\ UNCHANGED <<server, talks, left, gone, tlsOn, fate>>
    BY <1>3 DEF Accept, clientVars
  <2>2. /\ queue \in Seq(Clients) /\ Len(queue) \in Nat /\ DOMAIN queue = 1..Len(queue) /\ Len(queue) > 0
        /\ queue' \in Seq(Clients) /\ DOMAIN queue' = 1..(Len(queue) - 1)
        /\ peer' = queue[1] /\ peer' \in Clients
        /\ \A i \in DOMAIN queue' : queue'[i] = queue[i + 1]
    BY <1>0, <2>1 DEF QueueInv
  <2>3. \A d \in Clients : Queued(d) <=> d = peer' \/ Queued(d)'
    <3>1. ASSUME NEW d \in Clients, Queued(d), d # peer' PROVE Queued(d)'
      <4>1. PICK i \in 1..Len(queue) : queue[i] = d
        BY <2>2, <3>1 DEF Queued
      <4>2. i - 1 \in DOMAIN queue' /\ queue'[i - 1] = d
        BY <2>2, <3>1, <4>1
      <4> QED BY <4>2 DEF Queued
    <3>2. ASSUME NEW d \in Clients, Queued(d)' PROVE Queued(d)
      <4>1. PICK i \in DOMAIN queue' : queue'[i] = d
        BY <3>2 DEF Queued
      <4>2. i + 1 \in DOMAIN queue /\ queue[i + 1] = d
        BY <2>2, <4>1
      <4> QED BY <4>2 DEF Queued
    <3>3. Queued(peer')
      <4>1. 1 \in DOMAIN queue
        BY <2>2
      <4> QED BY <2>2, <4>1 DEF Queued
    <3> QED BY <3>1, <3>2, <3>3
  <2>4. \A i, j \in DOMAIN queue' : queue'[i] = queue'[j] => i = j
    <3>1. ASSUME NEW i \in DOMAIN queue', NEW j \in DOMAIN queue', queue'[i] = queue'[j] PROVE i = j
      <4>1. i + 1 \in DOMAIN queue /\ j + 1 \in DOMAIN queue /\ i \in Nat /\ j \in Nat
        BY <2>2
      <4>2. queue[i + 1] = queue[j + 1]
        BY <2>2, <3>1
      <4>3. i + 1 = j + 1
        BY <1>0, <4>1, <4>2 DEF QueueInv
      <4> QED BY <4>1, <4>3
    <3> QED BY <3>1
  <2>5. \A i \in DOMAIN queue' : queue'[i] # peer'
    <3>1. ASSUME NEW i \in DOMAIN queue', queue'[i] = peer' PROVE FALSE
      <4>1. i + 1 \in DOMAIN queue /\ 1 \in DOMAIN queue /\ i \in Nat /\ i # 0
        BY <2>2
      <4>2. queue[i + 1] = queue[1]
        BY <2>2, <3>1
      <4>3. i + 1 = 1
        BY <1>0, <4>1, <4>2 DEF QueueInv
      <4> QED BY <4>1, <4>3
    <3> QED BY <3>1
  <2>6. stage' \in Stages \ {"idle"} /\ peer' # "none"
    BY <2>1, <2>2 DEF Stages, FirstStage, AfterTls
  <2>7. QueueInv'
    <3>1. \A d \in Clients : (fate'[d] = "waiting") <=> (d = peer' \/ Queued(d)')
      BY <1>0, <2>1, <2>3 DEF QueueInv
    <3> QED BY <1>0, <2>1, <2>2, <2>4, <2>5, <2>6, <3>1 DEF QueueInv, Queued
  <2>8. DetectInv'
    <3>1. ~tlsOn[peer']
      BY <1>0, <2>2, <2>3 DEF DetectInv
    <3>2. server.tls = "no" => stage' \notin {"detect", "handshake"}
      BY <2>1 DEF FirstStage, AfterTls
    <3>3. server.tls = "auto" => stage' = "detect"
      BY <2>1 DEF FirstStage
    <3> QED BY <1>0, <2>1, <2>3, <3>1, <3>2, <3>3 DEF QueueInv, DetectInv
  <2> QED BY <2>7, <2>8 DEF ServiceInv
<1>4. CASE OpenSSLAutoDetect
  <2>1. /\ stage = "detect" /\ UNCHANGED <<server, talks, gone, queue, peer, tlsOn, fate>>
    BY <1>4 DEF OpenSSLAutoDetect, clientVars
  <2>0. PICK looks \in LooksLikeTls(peer) :
          stage' = (IF looks /\ peer \notin gone THEN "handshake" ELSE AfterTls)
    BY <1>4 DEF OpenSSLAutoDetect
  <2>10. /\ looks \in BOOLEAN
         /\ looks = TRUE => talks[peer] \in {"tls", "cut"}
         /\ looks = FALSE => talks[peer] # "tls"
    BY DEF LooksLikeTls
  <2>2. server.tls = "no" => FALSE
    BY <1>0, <2>1 DEF DetectInv
  <2>3. peer \in Clients /\ (server.tls = "auto" => ~tlsOn[peer]) /\ tlsOn \in [Clients -> BOOLEAN]
    BY <1>0, <2>1 DEF QueueInv, DetectInv
  <2>4. stage' \in Stages \ {"idle", "detect"}
    BY <2>0 DEF AfterTls, Stages
  <2>5. CASE looks = TRUE /\ peer \notin gone
    <3>1. stage' = "handshake" /\ talks[peer] \in {"tls", "cut"}
      BY <2>0, <2>5, <2>10
    <3> QED BY <2>1, <2>2, <2>3, <2>4, <3>1, LooksOnSame
  <2>6. CASE looks = FALSE \/ peer \in gone
    <3>1. stage' \in {"headers", "auth"}
      BY <2>0, <2>6 DEF AfterTls
    <3>2. peer \in gone \/ talks[peer] # "tls"
      BY <2>6, <2>10
    <3> QED BY <2>1, <2>2, <2>3, <2>4, <3>1, <3>2, LooksOnSame
  <2> QED BY <2>5, <2>6, <2>10
<1>5. CASE DoSSLServerNegotiation
  <2>1. PICK on \in (IF peer \in gone THEN BOOLEAN ELSE {TRUE}) : tlsOn' = [tlsOn EXCEPT ![peer] = on]
    BY <1>5 DEF DoSSLServerNegotiation
  <2>2. /\ stage = "handshake" /\ stage' \in {"headers", "auth"}
        /\ UNCHANGED <<server, talks, gone, queue, peer, fate>>
    BY <1>5 DEF DoSSLServerNegotiation, AfterTls, clientVars
  <2>3. /\ peer \in Clients /\ server.tls # "no" /\ (server.tls = "auto" => talks[peer] \in {"tls", "cut"})
        /\ fate[peer] = "waiting" /\ ~Queued(peer) /\ tlsOn \in [Clients -> BOOLEAN]
    BY <1>0, <2>2 DEF QueueInv, DetectInv, Queued
  <2>4. on \in BOOLEAN /\ (peer \notin gone => on = TRUE)
    BY <2>1
  <2>5. tlsOn' \in [Clients -> BOOLEAN] /\ tlsOn'[peer] = on /\ \A c \in Clients \ {peer} : tlsOn'[c] = tlsOn[c]
    BY <2>1, <2>3, <2>4, Zenon
  <2>6. DetectInv'
    <3>1. \A c \in Clients : fate'[c] = "none" \/ Queued(c)' => ~tlsOn'[c]
      BY <1>0, <2>2, <2>3, <2>5 DEF DetectInv, Queued
    <3>2. \A c \in Clients : server.tls = "auto" /\ fate'[c] = "stream" /\ c \notin gone' =>
            talks[c] = "cut" \/ tlsOn'[c] = (talks[c] = "tls")
      BY <1>0, <2>2, <2>3, <2>5 DEF DetectInv
    <3>3. server.tls = "auto" /\ peer \notin gone => talks[peer] = "cut" \/ tlsOn'[peer] = (talks[peer] = "tls")
      BY <2>3, <2>4, <2>5
    <3> QED BY <2>2, <2>3, <2>5, <3>1, <3>2, <3>3 DEF DetectInv
  <2>7. stage' \in Stages /\ stage # "idle" /\ stage' # "idle"
    BY <2>2 DEF Stages
  <2> QED BY <2>2, <2>6, <2>7, LooksOn
<1>6. CASE ReadHeader
  <2>1. UNCHANGED <<server, talks, gone, queue, peer, stage, fate, tlsOn>>
    BY <1>6 DEF ReadHeader
  <2> QED BY <1>0, <2>1, LooksOnSame DEF QueueInv, DetectInv
<1>7. CASE HeadersEnd
  <2>1. /\ stage = "headers" /\ stage' \in {"upgrade", "done"}
        /\ UNCHANGED <<server, talks, gone, queue, peer, fate, tlsOn>>
    BY <1>7 DEF HeadersEnd, clientVars
  <2> QED BY <1>0, <2>1, LooksOnSame DEF DetectInv, Stages
<1>8. CASE WebSocketAccept
  <2>1. /\ stage = "upgrade" /\ stage' = "done"
        /\ UNCHANGED <<server, talks, gone, queue, peer, fate, tlsOn>>
    BY <1>8 DEF WebSocketAccept, clientVars
  <2> QED BY <1>0, <2>1, LooksOnSame DEF DetectInv, Stages
<1>9. ASSUME NEW how \in {"stream", "closed"}, stage \in {"auth", "done"}, Finished(how) PROVE ServiceInv'
  <2>1. /\ fate' = [fate EXCEPT ![peer] = how] /\ peer' = "none" /\ stage' = "idle"
        /\ UNCHANGED <<server, talks, gone, queue, tlsOn>>
    BY <1>9 DEF Finished, clientVars
  <2>2. peer \in Clients /\ ~Queued(peer)
    BY <1>0, <1>9 DEF QueueInv, Queued
  <2>3. QueueInv'
    <3>1. \A d \in Clients : (fate'[d] = "waiting") <=> (d = peer' \/ Queued(d)')
      BY <1>0, <2>1, <2>2 DEF QueueInv, Queued
    <3>2. fate' \in [Clients -> Fates] /\ \A i \in DOMAIN queue : queue[i] # "none"
      BY <1>0, <1>9, <2>1, <2>2 DEF QueueInv, Fates
    <3> QED BY <1>0, <2>1, <3>1, <3>2 DEF QueueInv, Stages
  <2>4. DetectInv'
    <3>1. \A c \in Clients : fate'[c] = "none" \/ Queued(c)' => ~tlsOn'[c]
      BY <1>0, <1>9, <2>1, <2>2 DEF QueueInv, DetectInv, Queued
    <3>2. \A c \in Clients : server.tls = "auto" /\ fate'[c] = "stream" /\ c \notin gone =>
            talks[c] = "cut" \/ tlsOn[c] = (talks[c] = "tls")
      BY <1>0, <1>9, <2>1, <2>2 DEF QueueInv, DetectInv
    <3> QED BY <1>0, <2>1, <3>1, <3>2 DEF DetectInv
  <2> QED BY <2>3, <2>4 DEF ServiceInv
<1>10. CASE STREAMAuth \/ Return
  <2>1. \E how \in {"stream", "closed"} : stage \in {"auth", "done"} /\ Finished(how)
    BY <1>10 DEF STREAMAuth, Return
  <2> QED BY <1>9, <2>1
<1>11. CASE UNCHANGED serviceVars
  <2>1. UNCHANGED <<server, talks, gone, queue, peer, stage, fate, tlsOn>>
    BY <1>11 DEF serviceVars
  <2> QED BY <1>0, <2>1, LooksOnSame DEF QueueInv, DetectInv
<1> QED BY <1>1, <1>2, <1>3, <1>4, <1>5, <1>6, <1>7, <1>8, <1>10, <1>11
        DEF ServiceNext, STREAMServerAccept

LEMMA ServiceDetects == ASSUME ServiceInv PROVE Detects
<1>1. \A c \in Clients : talks[c] # "cut" => SpeaksTls(c) = (talks[c] = "tls")
  BY DEF SpeaksTls
<1> QED BY <1>1 DEF ServiceInv, QueueInv, DetectInv, Detects, Queued

-----------------------------------------------------------------------------
(* A body that is copied: what was written, what is queued, what was read  *)
(* ahead and what is still to come are the source, in its order.           *)

CopyTypes ==
  /\ copy \in [max : 0..SourceLen, kernel : BOOLEAN, loop : BOOLEAN, noread : BOOLEAN,
               flush : BOOLEAN, ahead : 0..SourceLen, before : 0..1]
  /\ copyAt \in {"call", "loop", "write", "done"}
  /\ kernel \in BOOLEAN /\ outGone \in BOOLEAN /\ moved \in Nat
  /\ source \in Seq(Int) /\ ahead \in Seq(Int) /\ queued \in Seq(Int) /\ copied \in Seq(Int)
  /\ Len(queued) <= QueueSize

WholeSource == Places(1 - copy.before, SourceLen)
Balanced == (copied \o queued) \o (ahead \o source) = WholeSource
CopyClosed(where) == where = "done" /\ outGone

\* A stream that is closed under the write may take back what was queued.
CopyOrder ==
  Careful =>
    /\ IsPrefix(copied, WholeSource)
    /\ Balanced \/ CopyClosed(copyAt)
    /\ copy.kernel /\ copyAt = "call" => ahead = <<>>
    /\ kernel /\ ~outGone => queued = <<>> /\ ahead = <<>>

CopyCounts ==
  /\ ~copy.kernel => ~kernel
  /\ ~copy.kernel /\ ~outGone => moved + copy.before = Len(copied) + Len(queued)
  /\ copy.max > 0 => moved <= copy.max
  /\ copyAt = "call" => moved = 0
  /\ copyAt \in {"loop", "write"} => Wanted(moved) > 0
  /\ copyAt = "done" /\ ~outGone /\ copy.loop =>
       (source = <<>> /\ ahead = <<>>) \/ (copy.max > 0 /\ moved = copy.max)

CopyInv == CopyTypes /\ CopyOrder /\ CopyCounts

LEMMA Regroup == \A s, t, u \in Seq(Int) : (s \o t) \o u = s \o (t \o u)
BY ConcatAssociative, SMTT(30)

LEMMA Splits ==
  ASSUME NEW s \in Seq(Int), NEW n \in 0..Len(s)
  PROVE  /\ Taken(s, n) \in Seq(Int) /\ Len(Taken(s, n)) = n
         /\ After(s, n) \in Seq(Int) /\ Len(After(s, n)) = Len(s) - n
         /\ Taken(s, n) \o After(s, n) = s
<1>1. Len(s) \in Nat
  OBVIOUS
<1>2. SubSeq(s, 1, n) \o SubSeq(s, n + 1, Len(s)) = SubSeq(s, 1, Len(s))
  <2> DEFINE len == Len(s)
  <2>1. len \in Nat /\ len = Len(s) /\ n \in 0..len
    BY <1>1
  <2> HIDE DEF len
  <2>2. 1 \in 1..(len + 1) /\ n \in (1 - 1)..len /\ len \in n..len
    BY <2>1
  <2>3. SubSeq(s, 1, n) \o SubSeq(s, n + 1, len) = SubSeq(s, 1, len)
    BY <2>1, <2>2, ConcatAdjacentSubSeq
  <2> QED BY <2>1, <2>3
<1>3. SubSeq(s, 1, Len(s)) = s
  BY SubSeqFull
<1>4. \A i \in 1..n : s[i] \in Int
  BY <1>1
<1>5. SubSeq(s, 1, n) \in Seq(Int) /\ Len(SubSeq(s, 1, n)) = n
  BY <1>1, <1>4, SubSeqProperties
<1>6. \A i \in (n + 1)..Len(s) : s[i] \in Int
  BY <1>1
<1>7. SubSeq(s, n + 1, Len(s)) \in Seq(Int) /\ Len(SubSeq(s, n + 1, Len(s))) = Len(s) - n
  BY <1>1, <1>6, SubSeqProperties
<1> QED BY <1>2, <1>3, <1>5, <1>7 DEF Taken, After

\* Bytes that go from the front of one sequence to the end of another stay where they are.
LEMMA MovesOver ==
  ASSUME NEW a \in Seq(Int), NEW b \in Seq(Int), NEW n \in 0..Len(b)
  PROVE  (a \o Taken(b, n)) \o After(b, n) = a \o b
<1>1. /\ Taken(b, n) \in Seq(Int) /\ After(b, n) \in Seq(Int) /\ Taken(b, n) \o After(b, n) = b
  BY Splits
<1>2. (a \o Taken(b, n)) \o After(b, n) = a \o (Taken(b, n) \o After(b, n))
  BY <1>1, Regroup, Zenon
<1> QED BY <1>1, <1>2

LEMMA TakenNone ==
  ASSUME NEW a \in Seq(Int), NEW b \in Seq(Int)
  PROVE  Taken(b, 0) = <<>> /\ After(b, 0) = b /\ a \o Taken(b, 0) = a
<1>1. Taken(b, 0) = <<>>
  BY SubSeqEmpty DEF Taken
<1>2. After(b, 0) = b
  BY SubSeqFull DEF After
<1>3. a \o <<>> = a
  BY ConcatEmptySeq
<1> QED BY <1>1, <1>2, <1>3

LEMMA PrefixOfConcat ==
  ASSUME NEW a \in Seq(Int), NEW b \in Seq(Int)
  PROVE  IsPrefix(a, a \o b)
<1>1. Len(a) \in Nat /\ Len(b) \in Nat /\ a \o b \in Seq(Int) /\ Len(a \o b) = Len(a) + Len(b)
  BY ConcatProperties
<1>2. SubSeq(a, 1, Len(a)) = a
  BY SubSeqFull
<1>3. SubSeq(a \o b, 1, Len(a)) = a
  <2>1. CASE Len(a) = 0
    <3>1. a = <<>>
      BY <2>1
    <3>2. SubSeq(a \o b, 1, Len(a)) = <<>>
      BY <2>1, SubSeqEmpty
    <3> QED BY <3>1, <3>2
  <2>2. CASE Len(a) # 0
    <3>1. 1 \in 1..Len(a) /\ Len(a) \in 1..Len(a)
      BY <1>1, <2>2
    <3>2. SubSeq(a \o b, 1, Len(a)) = SubSeq(a, 1, Len(a))
      BY <3>1, SubSeqOfConcat1
    <3> QED BY <1>2, <3>2
  <2> QED BY <2>1, <2>2
<1> QED BY <1>1, <1>2, <1>3 DEF IsPrefix

LEMMA BalancedIsPrefix ==
  ASSUME NEW c \in Seq(Int), NEW q \in Seq(Int), NEW a \in Seq(Int), NEW s \in Seq(Int)
  PROVE  IsPrefix(c, (c \o q) \o (a \o s))
<1>1. a \o s \in Seq(Int)
  BY ConcatProperties
<1>2. q \o (a \o s) \in Seq(Int)
  BY <1>1, ConcatProperties
<1>3. (c \o q) \o (a \o s) = c \o (q \o (a \o s))
  BY <1>1, Regroup, Zenon
<1>4. IsPrefix(c, c \o (q \o (a \o s)))
  BY <1>2, PrefixOfConcat
<1> QED BY <1>3, <1>4

LEMMA PlacesIs ==
  \A from, to \in Int : from <= to + 1 =>
    /\ Places(from, to) \in Seq(Int) /\ Len(Places(from, to)) = to - from + 1
    /\ \A i \in 1..(to - from + 1) : Places(from, to)[i] = from + i - 1
<1> SUFFICES ASSUME NEW from \in Int, NEW to \in Int, from <= to + 1
             PROVE  /\ Places(from, to) \in Seq(Int) /\ Len(Places(from, to)) = to - from + 1
                    /\ \A i \in 1..(to - from + 1) : Places(from, to)[i] = from + i - 1
  OBVIOUS
<1>1. to - from + 1 \in Nat
  OBVIOUS
<1> QED BY <1>1 DEF Places

LEMMA PlacesMeet ==
  \A from, mid, to \in Int :
    from <= mid + 1 /\ mid <= to => Places(from, mid) \o Places(mid + 1, to) = Places(from, to)
<1> SUFFICES ASSUME NEW from \in Int, NEW mid \in Int, NEW to \in Int, from <= mid + 1, mid <= to
             PROVE  Places(from, mid) \o Places(mid + 1, to) = Places(from, to)
  OBVIOUS
<1> DEFINE a == Places(from, mid)
           b == Places(mid + 1, to)
           c == Places(from, to)
<1>1. /\ a \in Seq(Int) /\ Len(a) = mid - from + 1
      /\ \A i \in 1..(mid - from + 1) : a[i] = from + i - 1
  BY PlacesIs, Zenon
<1>2. /\ b \in Seq(Int) /\ Len(b) = to - (mid + 1) + 1
      /\ \A i \in 1..(to - (mid + 1) + 1) : b[i] = (mid + 1) + i - 1
  <2>1. mid + 1 \in Int /\ mid + 1 <= to + 1
    OBVIOUS
  <2> QED BY <2>1, PlacesIs, Zenon
<1>3. /\ c \in Seq(Int) /\ Len(c) = to - from + 1
      /\ \A i \in 1..(to - from + 1) : c[i] = from + i - 1
  <2>1. from <= to + 1
    OBVIOUS
  <2> QED BY <2>1, PlacesIs, Zenon
<1> DEFINE la == Len(a)
           lb == Len(b)
<1>0. la = Len(a) /\ lb = Len(b) /\ la \in Nat /\ lb \in Nat
  BY <1>1, <1>2
<1> HIDE DEF a, b, c, la, lb
<1>4. /\ a \o b \in Seq(Int) /\ Len(a \o b) = la + lb
      /\ \A i \in 1..(la + lb) : (a \o b)[i] = IF i <= la THEN a[i] ELSE b[i - la]
  BY <1>0, <1>1, <1>2, ConcatProperties
<1>5. la = mid - from + 1 /\ lb = to - mid /\ Len(a \o b) = Len(c) /\ la + lb = to - from + 1
  BY <1>0, <1>1, <1>2, <1>3, <1>4
<1>7. ASSUME NEW i \in 1..(la + lb) PROVE (a \o b)[i] = c[i]
  <2>1. (a \o b)[i] = (IF i <= la THEN a[i] ELSE b[i - la]) /\ c[i] = from + i - 1
    BY <1>3, <1>4, <1>5
  <2>2. CASE i <= la
    <3>1. a[i] = from + i - 1
      BY <1>0, <1>1, <1>5, <2>2
    <3> QED BY <2>1, <2>2, <3>1
  <2>3. CASE ~(i <= la)
    <3>1. i - la \in 1..(to - (mid + 1) + 1)
      BY <1>0, <1>5, <2>3
    <3>2. b[i - la] = (mid + 1) + (i - la) - 1
      BY <1>2, <3>1
    <3>3. (mid + 1) + (i - la) - 1 = from + i - 1
      BY <1>5
    <3> QED BY <2>1, <2>3, <3>2, <3>3
  <2> QED BY <2>2, <2>3
<1>6. a \o b = c
  BY <1>3, <1>4, <1>5, <1>7, SeqEqual
<1> QED BY <1>6 DEF a, b, c

LEMMA CopyStarts == SendInit => CopyInv
<1> SUFFICES ASSUME SendInit PROVE CopyInv
  OBVIOUS
<1> DEFINE b == copy.before
           a == copy.ahead
<1>1. /\ SourceLen \in Nat /\ QueueSize \in Nat /\ QueueSize >= 1 /\ CopyLen \in Nat /\ CopyLen > 0
      /\ AheadSize \in Nat
  BY SendFileAssumption
<1>2. /\ b \in 0..1 /\ a \in 0..SourceLen /\ copy.max \in 0..SourceLen
      /\ copy.kernel \in BOOLEAN /\ copy.loop \in BOOLEAN
      /\ copy \in [max : 0..SourceLen, kernel : BOOLEAN, loop : BOOLEAN, noread : BOOLEAN,
                   flush : BOOLEAN, ahead : 0..SourceLen, before : 0..1]
  <2>1. Shorter(AheadSize, SourceLen) \in 0..SourceLen
    BY <1>1 DEF Shorter
  <2> QED BY <1>1, <2>1 DEF SendInit
<1>3. /\ ahead = Places(1, a) /\ source = Places(a + 1, SourceLen)
      /\ queued = Places(1 - b, 0) /\ copied = <<>>
      /\ copyAt = "call" /\ kernel = FALSE /\ moved = 0 /\ outGone = FALSE
  BY DEF SendInit
<1> HIDE DEF a, b
<1>4. ahead \in Seq(Int) /\ Len(ahead) = a
  <2>1. 1 <= a + 1 /\ a \in Int /\ 1 \in Int /\ a - 1 + 1 = a
    BY <1>2
  <2>2. ahead \in Seq(Int) /\ Len(ahead) = a - 1 + 1
    BY <1>3, <2>1, PlacesIs, Zenon
  <2> QED BY <2>1, <2>2
<1>5. source \in Seq(Int)
  <2>1. a + 1 <= SourceLen + 1 /\ a + 1 \in Int /\ SourceLen \in Int
    BY <1>1, <1>2
  <2> QED BY <1>3, <2>1, PlacesIs, Zenon
<1>6. queued \in Seq(Int) /\ Len(queued) = b
  <2>1. 1 - b <= 0 + 1 /\ 1 - b \in Int /\ 0 - (1 - b) + 1 = b /\ 0 \in Int
    BY <1>2
  <2>2. queued \in Seq(Int) /\ Len(queued) = 0 - (1 - b) + 1
    BY <1>3, <2>1, PlacesIs, Zenon
  <2> QED BY <2>1, <2>2
<1>7. CopyTypes
  <2>1. Len(queued) <= QueueSize
    BY <1>1, <1>2, <1>6
  <2>2. copied \in Seq(Int) /\ moved \in Nat
    BY <1>3
  <2>3. kernel \in BOOLEAN /\ outGone \in BOOLEAN /\ copyAt \in {"call", "loop", "write", "done"}
    BY <1>3, Zenon
  <2> QED BY <1>2, <1>4, <1>5, <1>6, <2>1, <2>2, <2>3 DEF CopyTypes
<1>8. Balanced
  <2>1. ahead \o source = Places(1, SourceLen)
    <3>1. 1 <= a + 1 /\ a \in Int /\ a <= SourceLen /\ SourceLen \in Int /\ 1 \in Int
      BY <1>1, <1>2
    <3> QED BY <1>3, <3>1, PlacesMeet, Zenon
  <2>2. copied \o queued = Places(1 - b, 0)
    BY <1>3, <1>6, ConcatEmptySeq
  <2>3. Places(1 - b, 0) \o Places(0 + 1, SourceLen) = Places(1 - b, SourceLen)
    <3>1. 1 - b <= 0 + 1 /\ 1 - b \in Int /\ 0 <= SourceLen /\ SourceLen \in Int /\ 0 \in Int
      BY <1>1, <1>2
    <3> QED BY <3>1, PlacesMeet, Zenon
  <2>4. 0 + 1 = 1
    OBVIOUS
  <2> QED BY <2>1, <2>2, <2>3, <2>4 DEF Balanced, WholeSource, b
<1>9. CopyOrder
  <2>1. copied \in Seq(Int)
    BY <1>7 DEF CopyTypes
  <2>2. IsPrefix(copied, (copied \o queued) \o (ahead \o source))
    BY <1>4, <1>5, <1>6, <2>1, BalancedIsPrefix, Zenon
  <2>3. IsPrefix(copied, WholeSource)
    BY <1>8, <2>2, Zenon DEF Balanced
  <2>4. Careful /\ copy.kernel => ahead = <<>>
    BY <1>4 DEF Careful, a
  <2> QED BY <1>3, <1>8, <2>3, <2>4 DEF CopyOrder
<1>10. CopyCounts
  <2>1. Len(copied) + Len(queued) = b
    BY <1>2, <1>3, <1>6
  <2> QED BY <1>2, <1>3, <2>1 DEF CopyCounts, b
<1> QED BY <1>7, <1>9, <1>10 DEF CopyInv

LEMMA OrderFrom ==
  ASSUME CopyOrder, CopyTypes', UNCHANGED copy, Careful => Balanced',
         copyAt' # "call" \/ UNCHANGED <<ahead, copyAt>>,
         Careful /\ kernel' /\ ~outGone' => queued' = <<>> /\ ahead' = <<>>
  PROVE  CopyOrder'
<1>1. copied' \in Seq(Int) /\ queued' \in Seq(Int) /\ ahead' \in Seq(Int) /\ source' \in Seq(Int)
  BY DEF CopyTypes
<1>2. IsPrefix(copied', (copied' \o queued') \o (ahead' \o source'))
  BY <1>1, BalancedIsPrefix, Zenon
<1>3. Balanced' => IsPrefix(copied', WholeSource')
  BY <1>2, Zenon DEF Balanced
<1>4. Careful' = Careful
  BY DEF Careful
<1>5. Careful /\ copy'.kernel /\ copyAt' = "call" => ahead' = <<>>
  BY DEF CopyOrder
<1> QED BY <1>3, <1>4, <1>5 DEF CopyOrder

LEMMA Joins == \A a, b \in Seq(Int) : a \o b \in Seq(Int) /\ Len(a \o b) = Len(a) + Len(b)
BY ConcatProperties

LEMMA PushedOver ==
  \A c, q \in Seq(Int) : \A n \in 0..Len(q) :
    /\ c \o Taken(q, n) \in Seq(Int) /\ Len(c \o Taken(q, n)) = Len(c) + n
    /\ After(q, n) \in Seq(Int) /\ Len(After(q, n)) = Len(q) - n
    /\ (c \o Taken(q, n)) \o After(q, n) = c \o q
<1> SUFFICES ASSUME NEW c \in Seq(Int), NEW q \in Seq(Int), NEW n \in 0..Len(q)
             PROVE  /\ c \o Taken(q, n) \in Seq(Int) /\ Len(c \o Taken(q, n)) = Len(c) + n
                    /\ After(q, n) \in Seq(Int) /\ Len(After(q, n)) = Len(q) - n
                    /\ (c \o Taken(q, n)) \o After(q, n) = c \o q
  OBVIOUS
<1>1. /\ Taken(q, n) \in Seq(Int) /\ Len(Taken(q, n)) = n
      /\ After(q, n) \in Seq(Int) /\ Len(After(q, n)) = Len(q) - n
  BY Splits
<1>2. c \o Taken(q, n) \in Seq(Int) /\ Len(c \o Taken(q, n)) = Len(c) + n
  BY <1>1, ConcatProperties
<1>3. (c \o Taken(q, n)) \o After(q, n) = c \o q
  BY MovesOver
<1> QED BY <1>1, <1>2, <1>3

\* How many bytes of a queue are written at a time.
LEMMA FlushedIs ==
  ASSUME NEW q \in Seq(Int), outGone \in BOOLEAN
  PROVE  /\ Flushed(q) \in 0..Len(q) /\ \A n \in Pushes(q) : n \in 0..Len(q)
         /\ outGone => Flushed(q) = 0 /\ Pushes(q) = {0}
         /\ ~outGone => Flushed(q) = Len(q)
BY DEF Flushed, Pushes

LEMMA WantedIs ==
  ASSUME CopyTypes, NEW m \in Nat
  PROVE  Wanted(m) \in Int /\ (copy.max = 0 => Wanted(m) > 0) /\ (copy.max # 0 => Wanted(m) = copy.max - m)
         /\ copy.max \in Nat
BY SendFileAssumption DEF CopyTypes, Wanted

LEMMA BeginKeeps == CopyInv /\ CopyBegins => CopyInv'
<1> SUFFICES ASSUME CopyInv, CopyBegins PROVE CopyInv'
  OBVIOUS
<1> DEFINE n == IF copy.kernel THEN Flushed(queued) ELSE 0
<1>1. /\ copyAt = "call" /\ copyAt' = "loop" /\ kernel' = copy.kernel
      /\ copied' = copied \o Taken(queued, n) /\ queued' = After(queued, n)
      /\ UNCHANGED <<copy, source, ahead, moved, outGone>>
  BY DEF CopyBegins
<1>2. CopyTypes /\ CopyOrder /\ CopyCounts
  BY DEF CopyInv
<1>3. /\ copied \in Seq(Int) /\ queued \in Seq(Int) /\ outGone \in BOOLEAN /\ copy.kernel \in BOOLEAN
      /\ Len(queued) <= QueueSize /\ Len(queued) \in Nat
  BY <1>2 DEF CopyTypes
<1>4. n \in 0..Len(queued) /\ (copy.kernel /\ ~outGone => n = Len(queued)) /\ (~copy.kernel => n = 0)
  BY <1>3, FlushedIs
<1> HIDE DEF n
<1>5. /\ copied' \in Seq(Int) /\ Len(copied') = Len(copied) + n
      /\ queued' \in Seq(Int) /\ Len(queued') = Len(queued) - n
      /\ copied' \o queued' = copied \o queued
  BY <1>1, <1>3, <1>4, PushedOver, ZenonT(30)
<1>6. CopyTypes'
  <2>1. Len(queued') <= QueueSize
    BY <1>3, <1>4, <1>5, SendFileAssumption
  <2> QED BY <1>1, <1>2, <1>3, <1>5, <2>1 DEF CopyTypes
<1>7. CopyOrder'
  <2>1. Careful => Balanced'
    BY <1>1, <1>2, <1>5 DEF CopyOrder, Balanced, WholeSource, CopyClosed
  <2>2. Careful /\ kernel' /\ ~outGone' => queued' = <<>> /\ ahead' = <<>>
    <3>1. SUFFICES ASSUME Careful, copy.kernel, ~outGone PROVE queued' = <<>> /\ ahead' = <<>>
      BY <1>1
    <3>2. Len(queued') = 0
      BY <1>3, <1>4, <1>5, <3>1
    <3>3. queued' = <<>>
      BY <1>5, <3>2
    <3> QED BY <1>1, <1>2, <3>1, <3>3 DEF CopyOrder
  <2> QED BY <1>1, <1>2, <1>6, <2>1, <2>2, OrderFrom
<1>8. CopyCounts'
  <2>1. Wanted(moved') > 0
    BY <1>1, <1>2, WantedIs DEF CopyCounts
  <2>2. Wanted(moved)' = Wanted(moved)
    BY <1>1 DEF Wanted
  <2>3. ~copy.kernel /\ ~outGone => Len(copied') = Len(copied) /\ Len(queued') = Len(queued)
    BY <1>3, <1>4, <1>5
  <2> QED BY <1>1, <1>2, <2>1, <2>2, <2>3 DEF CopyCounts
<1> QED BY <1>6, <1>7, <1>8 DEF CopyInv

\* Whether the loop goes on.
LEMMA GoesOnIs ==
  ASSUME CopyTypes, NEW m \in Nat, GoesOn(m), UNCHANGED copy, copy.max > 0 => m <= copy.max
  PROVE  /\ copyAt' \in {"loop", "done"}
         /\ copyAt' = "loop" => Wanted(m) > 0
         /\ copyAt' = "done" /\ copy.loop => copy.max > 0 /\ m = copy.max
<1>1. copy.loop \in BOOLEAN /\ copy.max \in Nat
  BY DEF CopyTypes
<1>2. Wanted(m) \in Int /\ (copy.max = 0 => Wanted(m) > 0) /\ (copy.max # 0 => Wanted(m) = copy.max - m)
  BY WantedIs
<1> QED BY <1>1, <1>2 DEF GoesOn

LEMMA KernelKeeps == CopyInv /\ KernelCopies => CopyInv'
<1> SUFFICES ASSUME CopyInv, KernelCopies PROVE CopyInv'
  OBVIOUS
<1>1. /\ copyAt = "loop" /\ kernel /\ ~outGone /\ GoesOn(moved)
      /\ UNCHANGED <<copy, ahead, queued, moved, kernel, outGone>>
  BY DEF KernelCopies
<1>2. PICK n \in 1..Shorter(Wanted(moved), Len(source)) :
        copied' = copied \o Taken(source, n) /\ source' = After(source, n)
  BY DEF KernelCopies
<1>3. CopyTypes /\ CopyOrder /\ CopyCounts
  BY DEF CopyInv
<1>4. /\ copied \in Seq(Int) /\ source \in Seq(Int) /\ moved \in Nat /\ Wanted(moved) \in Int
      /\ Len(source) \in Nat
  BY <1>3, WantedIs DEF CopyTypes
<1>5. n \in 0..Len(source)
  BY <1>2, <1>4 DEF Shorter
<1>6. /\ copied' \in Seq(Int) /\ source' \in Seq(Int) /\ copied' \o source' = copied \o source
  BY <1>2, <1>4, <1>5, PushedOver, Zenon
<1>7. /\ copyAt' \in {"loop", "done"} /\ (copyAt' = "loop" => Wanted(moved) > 0)
      /\ copyAt' = "done" /\ copy.loop => copy.max > 0 /\ moved = copy.max
  BY <1>1, <1>3, <1>4, GoesOnIs DEF CopyCounts
<1>8. CopyTypes'
  BY <1>1, <1>3, <1>6, <1>7 DEF CopyTypes
<1>9. CopyOrder'
  <2>1. ASSUME Careful PROVE Balanced' /\ queued' = <<>> /\ ahead' = <<>>
    <3>1. queued = <<>> /\ ahead = <<>> /\ Balanced
      BY <1>1, <1>3, <2>1 DEF CopyOrder, CopyClosed
    <3>2. (copied \o <<>>) \o (<<>> \o source) = copied \o source
      BY <1>4, ConcatEmptySeq
    <3>3. (copied' \o <<>>) \o (<<>> \o source') = copied' \o source'
      BY <1>6, ConcatEmptySeq
    <3> QED BY <1>1, <1>6, <3>1, <3>2, <3>3 DEF Balanced, WholeSource
  <2> QED BY <1>1, <1>3, <1>7, <1>8, <2>1, OrderFrom
<1>10. CopyCounts'
  <2>1. copy.kernel
    BY <1>1, <1>3 DEF CopyCounts
  <2>2. Wanted(moved)' = Wanted(moved)
    BY <1>1 DEF Wanted
  <2> QED BY <1>1, <1>3, <1>7, <2>1, <2>2 DEF CopyCounts
<1> QED BY <1>8, <1>9, <1>10 DEF CopyInv

\* The kernel's copy ends, the other end goes, or nothing happens.
LEMMA CopyWaits == CopyInv /\ (KernelEnds \/ OutGoes \/ UNCHANGED sendVars) => CopyInv'
<1> SUFFICES ASSUME CopyInv, KernelEnds \/ OutGoes \/ UNCHANGED sendVars PROVE CopyInv'
  OBVIOUS
<1>1. /\ UNCHANGED <<copy, copyAt, source, ahead, queued, copied, moved>>
      /\ kernel' \in {kernel, FALSE} /\ outGone' \in {outGone, TRUE}
      /\ outGone' # outGone => copyAt # "done"
  BY DEF KernelEnds, OutGoes, sendVars
<1>2. CopyTypes /\ CopyOrder /\ CopyCounts
  BY DEF CopyInv
<1>3. kernel \in BOOLEAN /\ outGone \in BOOLEAN /\ (kernel' => kernel) /\ (outGone => outGone')
  <2>1. kernel \in BOOLEAN /\ outGone \in BOOLEAN
    BY <1>2 DEF CopyTypes
  <2>2. kernel' = kernel \/ kernel' = FALSE
    BY <1>1
  <2>3. outGone' = outGone \/ outGone' = TRUE
    BY <1>1
  <2>4. kernel' => kernel
    BY <2>2
  <2>5. outGone => outGone'
    BY <2>3
  <2> QED BY <2>1, <2>4, <2>5
<1>4. kernel' \in BOOLEAN /\ outGone' \in BOOLEAN
  BY <1>1, <1>3, Zenon
<1>5. CopyTypes'
  BY <1>1, <1>2, <1>4 DEF CopyTypes
<1>6. CopyOrder'
  BY <1>1, <1>2, <1>3 DEF CopyOrder, Careful, Balanced, WholeSource, CopyClosed
<1>7. CopyCounts'
  BY <1>1, <1>2, <1>3 DEF CopyCounts, Wanted
<1> QED BY <1>5, <1>6, <1>7 DEF CopyInv

LEMMA ReadsKeep == CopyInv /\ CopyReads => CopyInv'
<1> SUFFICES ASSUME CopyInv, CopyReads PROVE CopyInv'
  OBVIOUS
<1>1. /\ copyAt = "loop" /\ ~kernel /\ copyAt' = "write"
      /\ UNCHANGED <<copy, queued, copied, moved, kernel, outGone>>
  BY DEF CopyReads
<1>2. CopyTypes /\ CopyOrder /\ CopyCounts
  BY DEF CopyInv
<1>3. ahead \in Seq(Int) /\ source \in Seq(Int) /\ Len(ahead) \in Nat /\ Len(source) \in Nat
  BY <1>2 DEF CopyTypes
<1>4. PICK n \in (IF MustRead THEN 0..Shorter(AheadSize - Len(ahead), Len(source)) ELSE {0}) :
        ahead' = ahead \o Taken(source, n) /\ source' = After(source, n)
  BY DEF CopyReads
<1>5. n \in 0..Len(source)
  BY <1>3, <1>4, SendFileAssumption DEF Shorter
<1>6. ahead' \in Seq(Int) /\ source' \in Seq(Int) /\ ahead' \o source' = ahead \o source
  BY <1>3, <1>4, <1>5, PushedOver, Zenon
<1>7. CopyTypes'
  BY <1>1, <1>2, <1>6 DEF CopyTypes
<1>8. CopyOrder'
  <2>1. Careful => Balanced'
    BY <1>1, <1>2, <1>6 DEF CopyOrder, Balanced, WholeSource, CopyClosed
  <2> QED BY <1>1, <1>2, <1>7, <2>1, OrderFrom
<1>9. CopyCounts'
  BY <1>1, <1>2 DEF CopyCounts, Wanted
<1> QED BY <1>7, <1>8, <1>9 DEF CopyInv

LEMMA EndKeeps == CopyInv /\ CopyEnds => CopyInv'
<1> SUFFICES ASSUME CopyInv, CopyEnds PROVE CopyInv'
  OBVIOUS
<1> DEFINE n == Flushed(queued)
<1>1. /\ copyAt = "loop" /\ ~kernel /\ copyAt' = "done" /\ source = <<>> /\ ahead = <<>>
      /\ copied' = copied \o Taken(queued, n) /\ queued' = After(queued, n)
      /\ UNCHANGED <<copy, source, ahead, moved, kernel, outGone>>
  BY DEF CopyEnds
<1>2. CopyTypes /\ CopyOrder /\ CopyCounts
  BY DEF CopyInv
<1>3. /\ copied \in Seq(Int) /\ queued \in Seq(Int) /\ outGone \in BOOLEAN
      /\ Len(queued) <= QueueSize /\ Len(queued) \in Nat /\ Len(copied) \in Nat
  BY <1>2 DEF CopyTypes
<1>4. n \in 0..Len(queued)
  BY <1>3, FlushedIs
<1> HIDE DEF n
<1>5. /\ copied' \in Seq(Int) /\ Len(copied') = Len(copied) + n
      /\ queued' \in Seq(Int) /\ Len(queued') = Len(queued) - n
      /\ copied' \o queued' = copied \o queued
  BY <1>1, <1>3, <1>4, PushedOver, Zenon
<1>6. CopyTypes'
  <2>1. Len(queued') <= QueueSize
    BY <1>3, <1>4, <1>5, SendFileAssumption
  <2> QED BY <1>1, <1>2, <1>5, <2>1 DEF CopyTypes
<1>7. CopyOrder'
  <2>1. Careful => Balanced'
    BY <1>1, <1>2, <1>5 DEF CopyOrder, Balanced, WholeSource, CopyClosed
  <2> QED BY <1>1, <1>2, <1>6, <2>1, OrderFrom
<1>8. CopyCounts'
  <2>1. Len(copied') + Len(queued') = Len(copied) + Len(queued)
    BY <1>3, <1>4, <1>5
  <2> QED BY <1>1, <1>2, <2>1 DEF CopyCounts
<1> QED BY <1>6, <1>7, <1>8 DEF CopyInv

LEMMA Regroup4 ==
  \A x, h, t, s \in Seq(Int) : (x \o h) \o (t \o s) = x \o ((h \o t) \o s)
<1> SUFFICES ASSUME NEW x \in Seq(Int), NEW h \in Seq(Int), NEW t \in Seq(Int), NEW s \in Seq(Int)
             PROVE  (x \o h) \o (t \o s) = x \o ((h \o t) \o s)
  OBVIOUS
<1>1. t \o s \in Seq(Int)
  BY Joins, Zenon
<1>2. (x \o h) \o (t \o s) = x \o (h \o (t \o s))
  BY <1>1, Regroup, Zenon
<1>3. (h \o t) \o s = h \o (t \o s)
  BY Regroup, Zenon
<1> QED BY <1>2, <1>3, Zenon

\* What a write leaves: STREAMWriteBytes pushes p bytes, queues n, pushes q and may flush f.
FullQueue(q0, a, p, n) == After(q0, p) \o Taken(a, n)
RestOfQueue(q0, a, p, n, q) == After(FullQueue(q0, a, p, n), q)
Written(c, q0, a, p, n, q, f) ==
  c \o Taken(q0, p) \o Taken(FullQueue(q0, a, p, n), q) \o Taken(RestOfQueue(q0, a, p, n, q), f)

LEMMA FullQueueIs ==
  ASSUME NEW c \in Seq(Int), NEW q0 \in Seq(Int), NEW a \in Seq(Int),
         NEW p \in 0..Len(q0), NEW n \in 0..Len(a)
  PROVE  /\ FullQueue(q0, a, p, n) \in Seq(Int) /\ Len(FullQueue(q0, a, p, n)) = Len(q0) - p + n
         /\ (c \o Taken(q0, p)) \o FullQueue(q0, a, p, n) = (c \o q0) \o Taken(a, n)
<1>1. /\ c \o Taken(q0, p) \in Seq(Int) /\ Len(c \o Taken(q0, p)) = Len(c) + p
      /\ After(q0, p) \in Seq(Int) /\ Len(After(q0, p)) = Len(q0) - p
      /\ (c \o Taken(q0, p)) \o After(q0, p) = c \o q0
  BY PushedOver, Zenon
<1>2. Taken(a, n) \in Seq(Int) /\ Len(Taken(a, n)) = n
  BY Splits
<1>3. FullQueue(q0, a, p, n) \in Seq(Int) /\ Len(FullQueue(q0, a, p, n)) = Len(After(q0, p)) + Len(Taken(a, n))
  BY <1>1, <1>2, Joins, Zenon DEF FullQueue
<1>4. Len(FullQueue(q0, a, p, n)) = Len(q0) - p + n
  BY <1>1, <1>2, <1>3, Zenon
<1>5. ((c \o Taken(q0, p)) \o After(q0, p)) \o Taken(a, n) = (c \o Taken(q0, p)) \o FullQueue(q0, a, p, n)
  BY <1>1, <1>2, Regroup, ZenonT(30) DEF FullQueue
<1> QED BY <1>1, <1>3, <1>4, <1>5, Zenon

LEMMA TakenGoesOn ==
  ASSUME NEW x \in Seq(Int), NEW a \in Seq(Int), NEW s \in Seq(Int), NEW n \in 0..Len(a)
  PROVE  (x \o Taken(a, n)) \o (After(a, n) \o s) = x \o (a \o s)
<1> DEFINE h == Taken(a, n)
           t == After(a, n)
<1>1. h \in Seq(Int) /\ t \in Seq(Int)
  BY Splits
<1>2. h \o t = a
  BY Splits
<1> HIDE DEF h, t
<1>a. t \o s \in Seq(Int)
  BY <1>1, Joins, Zenon
<1>b. (x \o h) \o (t \o s) = x \o (h \o (t \o s))
  BY <1>1, <1>a, Regroup, SMTT(30)
<1>c. (h \o t) \o s = h \o (t \o s)
  BY <1>1, Regroup, SMTT(30)
<1>3. (x \o h) \o (t \o s) = x \o ((h \o t) \o s)
  BY <1>b, <1>c, Zenon
<1>4. (x \o h) \o (t \o s) = x \o (a \o s)
  BY <1>2, <1>3, Zenon
<1> QED BY <1>4 DEF h, t

Balances(c, q0, a, s, p, n, q, f) ==
  /\ Len(FullQueue(q0, a, p, n)) = Len(q0) - p + n
  /\ Len(RestOfQueue(q0, a, p, n, q)) = Len(FullQueue(q0, a, p, n)) - q
  /\ Written(c, q0, a, p, n, q, f) \in Seq(Int)
  /\ Len(Written(c, q0, a, p, n, q, f)) = Len(c) + p + q + f
  /\ After(RestOfQueue(q0, a, p, n, q), f) \in Seq(Int)
  /\ Len(After(RestOfQueue(q0, a, p, n, q), f)) = Len(RestOfQueue(q0, a, p, n, q)) - f
  /\ After(a, n) \in Seq(Int)
  /\ (Written(c, q0, a, p, n, q, f) \o After(RestOfQueue(q0, a, p, n, q), f)) \o (After(a, n) \o s)
       = (c \o q0) \o (a \o s)

LEMMA WriteBalances ==
  ASSUME NEW c \in Seq(Int), NEW q0 \in Seq(Int), NEW a \in Seq(Int), NEW s \in Seq(Int),
         NEW p \in 0..Len(q0), NEW n \in 0..Len(a), NEW q \in 0..Len(FullQueue(q0, a, p, n)),
         NEW f \in 0..Len(RestOfQueue(q0, a, p, n, q))
  PROVE  Balances(c, q0, a, s, p, n, q, f)
<1> DEFINE full == FullQueue(q0, a, p, n)
           kept == RestOfQueue(q0, a, p, n, q)
           cp == c \o Taken(q0, p)
           cq == cp \o Taken(full, q)
           cf == cq \o Taken(kept, f)
<1>1. full \in Seq(Int) /\ Len(full) = Len(q0) - p + n /\ cp \o full = (c \o q0) \o Taken(a, n)
  BY FullQueueIs, ZenonT(30)
<1>2. cp \in Seq(Int) /\ Len(cp) = Len(c) + p
  BY PushedOver, Zenon
<1>3. kept = After(full, q)
  BY DEF RestOfQueue
<1>a. q \in 0..Len(full) /\ f \in 0..Len(kept)
  OBVIOUS
<1>b. full \in Seq(Int)
  BY FullQueueIs
<1>4. Written(c, q0, a, p, n, q, f) = cf
  BY DEF Written
<1> HIDE DEF cp, full, kept
<1>5. /\ cq \in Seq(Int) /\ Len(cq) = Len(cp) + q /\ After(full, q) \in Seq(Int)
      /\ Len(After(full, q)) = Len(full) - q /\ cq \o After(full, q) = cp \o full
  BY <1>2, <1>a, <1>b, PushedOver, Zenon
<1> HIDE DEF cq
<1>6. kept \in Seq(Int) /\ Len(kept) = Len(full) - q /\ cq \o kept = cp \o full
  BY <1>3, <1>5, Zenon
<1>c. kept \in Seq(Int) /\ cq \in Seq(Int)
  BY <1>5, <1>6
<1>7. /\ cf \in Seq(Int) /\ Len(cf) = Len(cq) + f /\ After(kept, f) \in Seq(Int)
      /\ Len(After(kept, f)) = Len(kept) - f /\ cf \o After(kept, f) = cq \o kept
  BY <1>a, <1>c, PushedOver, Zenon
<1> HIDE DEF cf
<1>8. /\ Taken(a, n) \in Seq(Int) /\ After(a, n) \in Seq(Int) /\ Taken(a, n) \o After(a, n) = a
  BY Splits
<1>9. (cf \o After(kept, f)) \o (After(a, n) \o s) = (c \o q0) \o (a \o s)
  <2>1. c \o q0 \in Seq(Int)
    BY Joins, Zenon
  <2>2. ((c \o q0) \o Taken(a, n)) \o (After(a, n) \o s) = (c \o q0) \o (a \o s)
    BY <2>1, TakenGoesOn, ZenonT(30)
  <2>3. cf \o After(kept, f) = (c \o q0) \o Taken(a, n)
    BY <1>1, <1>6, <1>7, Zenon
  <2> QED BY <2>2, <2>3, Zenon
<1>10. Len(cf) = Len(c) + p + q + f
  <2> DEFINE x == Len(cf)
             y == Len(cq)
             z == Len(cp)
             w == Len(c)
  <2>1. x = y + f /\ y = z + q /\ z = w + p /\ w \in Nat
    BY <1>2, <1>5, <1>7
  <2>2. p \in Nat /\ q \in Nat /\ f \in Nat
    OBVIOUS
  <2> HIDE DEF x, y, z, w
  <2>3. x = w + p + q + f
    BY <2>1, <2>2
  <2> QED BY <2>3 DEF x, w
<1> QED BY <1>1, <1>4, <1>6, <1>7, <1>8, <1>9, <1>10, Zenon DEF full, kept, Balances

LEMMA WritesKeep == CopyInv /\ CopyWrites => CopyInv'
<1> SUFFICES ASSUME CopyInv, CopyWrites PROVE CopyInv'
  OBVIOUS
<1>1. copyAt = "write" /\ UNCHANGED <<copy, source, kernel, outGone>>
  BY DEF CopyWrites
<1>2. CopyTypes /\ CopyOrder /\ CopyCounts
  BY DEF CopyInv
<1>3. /\ copied \in Seq(Int) /\ queued \in Seq(Int) /\ ahead \in Seq(Int) /\ source \in Seq(Int)
      /\ outGone \in BOOLEAN /\ kernel \in BOOLEAN
      /\ Len(queued) <= QueueSize /\ Len(queued) \in Nat /\ Len(ahead) \in Nat /\ Len(copied) \in Nat
      /\ moved \in Nat /\ copy.max \in Nat /\ copy.before \in 0..1 /\ QueueSize \in Nat
      /\ copy.flush \in BOOLEAN /\ copy.loop \in BOOLEAN /\ copy.kernel \in BOOLEAN
  BY <1>2, SendFileAssumption DEF CopyTypes
<1>4. PICK p \in (IF Len(queued) = QueueSize THEN Pushes(queued) ELSE {0}) :
        LET kept == After(queued, p)
            n == ToWrite(QueueSize - Len(kept))
            full == kept \o Taken(ahead, n)
            push == Len(full) = QueueSize \/ (n = 0 /\ full # <<>>) IN
        \E q \in IF push THEN Pushes(full) ELSE {0} :
          LET rest == After(full, q)
              f == IF copy.flush THEN Flushed(rest) ELSE 0 IN
          /\ copied' = copied \o Taken(queued, p) \o Taken(full, q) \o Taken(rest, f)
          /\ queued' = After(rest, f)
          /\ IF push /\ outGone
               THEN copyAt' = "done" /\ UNCHANGED <<ahead, moved>>
               ELSE ahead' = After(ahead, n) /\ moved' = moved + n /\ GoesOn(moved + n)
  BY DEF CopyWrites
<1> DEFINE kept == After(queued, p)
           n == ToWrite(QueueSize - Len(kept))
           full == kept \o Taken(ahead, n)
           push == Len(full) = QueueSize \/ (n = 0 /\ full # <<>>)
<1>5. p \in 0..Len(queued) /\ (outGone => p = 0)
  BY <1>3, <1>4, FlushedIs
<1>6. PICK q \in (IF push THEN Pushes(full) ELSE {0}) :
          LET rest == After(full, q)
              f == IF copy.flush THEN Flushed(rest) ELSE 0 IN
          /\ copied' = copied \o Taken(queued, p) \o Taken(full, q) \o Taken(rest, f)
          /\ queued' = After(rest, f)
          /\ IF push /\ outGone
               THEN copyAt' = "done" /\ UNCHANGED <<ahead, moved>>
               ELSE ahead' = After(ahead, n) /\ moved' = moved + n /\ GoesOn(moved + n)
  BY <1>4
<1> DEFINE rest == After(full, q)
           f == IF copy.flush THEN Flushed(rest) ELSE 0
<1>7. /\ copied' = copied \o Taken(queued, p) \o Taken(full, q) \o Taken(rest, f)
      /\ queued' = After(rest, f)
      /\ push /\ outGone => copyAt' = "done" /\ UNCHANGED <<ahead, moved>>
      /\ ~(push /\ outGone) => ahead' = After(ahead, n) /\ moved' = moved + n /\ GoesOn(moved + n)
  BY <1>6
<1>8. kept \in Seq(Int) /\ Len(kept) = Len(queued) - p
  BY <1>3, <1>5, Splits
<1>9. n \in 0..Len(ahead) /\ n <= QueueSize - Len(kept) /\ n <= Wanted(moved)
  <2>1. Wanted(moved) \in Int /\ Wanted(moved) > 0
    BY <1>1, <1>2, <1>3, WantedIs DEF CopyCounts
  <2>2. QueueSize - Len(kept) \in Nat
    BY <1>3, <1>5, <1>8
  <2> DEFINE la == Len(ahead)
             w == Wanted(moved)
             room == QueueSize - Len(kept)
  <2>3. la \in Nat /\ w \in Int /\ w > 0 /\ room \in Nat
    BY <1>3, <2>1, <2>2
  <2>4. n = Shorter(Shorter(la, w), room)
    BY DEF ToWrite
  <2> HIDE DEF la, w, room, n
  <2>5. n \in 0..la /\ n <= room /\ n <= w
    BY <2>3, <2>4 DEF Shorter
  <2> QED BY <2>5 DEF la, w, room
<1>10. full = FullQueue(queued, ahead, p, n) /\ rest = RestOfQueue(queued, ahead, p, n, q)
  BY DEF FullQueue, RestOfQueue
<1> HIDE DEF kept, n
<1>11. full \in Seq(Int) /\ Len(full) = Len(queued) - p + n
  BY <1>3, <1>5, <1>9, <1>10, FullQueueIs
<1>12. q \in 0..Len(full) /\ (outGone => q = 0)
  <2>1. Len(full) \in Nat
    BY <1>11
  <2> HIDE DEF full, push
  <2> QED BY <1>3, <1>6, <1>11, <2>1, FlushedIs
<1>13. rest \in Seq(Int)
  BY <1>11, <1>12, Splits
<1> HIDE DEF full, push, rest
<1>14. f \in 0..Len(rest) /\ (outGone => f = 0)
  BY <1>3, <1>13, FlushedIs
<1> HIDE DEF f
<1>15. /\ copied' \in Seq(Int) /\ queued' \in Seq(Int) /\ After(ahead, n) \in Seq(Int)
       /\ Len(full) = Len(queued) - p + n /\ Len(rest) = Len(full) - q
       /\ Len(copied') = Len(copied) + p + q + f /\ Len(queued') = Len(rest) - f
       /\ (copied' \o queued') \o (After(ahead, n) \o source) = (copied \o queued) \o (ahead \o source)
  <2>1. copied' = Written(copied, queued, ahead, p, n, q, f)
    BY <1>7, <1>10 DEF Written
  <2>2. /\ q \in 0..Len(FullQueue(queued, ahead, p, n))
        /\ f \in 0..Len(RestOfQueue(queued, ahead, p, n, q))
    BY <1>10, <1>12, <1>14
  <2>a. queued' = After(RestOfQueue(queued, ahead, p, n, q), f)
    BY <1>7, <1>10
  <2>3. /\ copied \in Seq(Int) /\ queued \in Seq(Int) /\ ahead \in Seq(Int) /\ source \in Seq(Int)
        /\ p \in 0..Len(queued) /\ n \in 0..Len(ahead)
    BY <1>3, <1>5, <1>9
  <2>4. Balances(copied, queued, ahead, source, p, n, q, f)
    <3>1. \A c, q0, a, s \in Seq(Int) : \A pp \in 0..Len(q0), nn \in 0..Len(a) :
             \A qq \in 0..Len(FullQueue(q0, a, pp, nn)) :
               \A ff \in 0..Len(RestOfQueue(q0, a, pp, nn, qq)) :
                 Balances(c, q0, a, s, pp, nn, qq, ff)
      BY WriteBalances
    <3> QED BY <2>2, <2>3, <3>1
  <2> QED BY <1>10, <2>1, <2>a, <2>4, Zenon DEF Balances
<1>16. Len(queued') <= QueueSize /\ Len(copied') + Len(queued') = Len(copied) + Len(queued) + n
  BY <1>3, <1>5, <1>8, <1>9, <1>12, <1>14, <1>15
<1>17. moved + n \in Nat /\ (copy.max > 0 => moved + n <= copy.max)
  <2>1. copy.max # 0 => Wanted(moved) = copy.max - moved
    BY <1>2, <1>3, WantedIs
  <2> QED BY <1>3, <1>9, <2>1
<1>18. CASE push /\ outGone
  <2>1. copyAt' = "done" /\ UNCHANGED <<ahead, moved>>
    BY <1>7, <1>18
  <2>2. copied' = copied
    <3>1. p = 0 /\ q = 0 /\ f = 0
      BY <1>5, <1>12, <1>14, <1>18
    <3>2. copied \o Taken(queued, 0) = copied /\ copied \o Taken(full, 0) = copied /\ copied \o Taken(rest, 0) = copied
      BY <1>3, <1>11, <1>13, TakenNone
    <3> QED BY <1>7, <3>1, <3>2
  <2>3. CopyTypes'
    BY <1>1, <1>2, <1>15, <1>16, <2>1 DEF CopyTypes
  <2>4. CopyOrder'
    BY <1>1, <1>2, <1>18, <2>1, <2>2 DEF CopyOrder, Careful, CopyClosed, WholeSource
  <2>5. CopyCounts'
    BY <1>1, <1>2, <1>18, <2>1 DEF CopyCounts
  <2> QED BY <2>3, <2>4, <2>5 DEF CopyInv
<1>19. CASE ~(push /\ outGone)
  <2>1. ahead' = After(ahead, n) /\ moved' = moved + n /\ GoesOn(moved + n)
    BY <1>7, <1>19
  <2>2. /\ copyAt' \in {"loop", "done"} /\ (copyAt' = "loop" => Wanted(moved + n) > 0)
        /\ copyAt' = "done" /\ copy.loop => copy.max > 0 /\ moved + n = copy.max
    BY <1>1, <1>2, <1>17, <2>1, GoesOnIs
  <2>3. CopyTypes'
    BY <1>1, <1>2, <1>15, <1>16, <1>17, <2>1, <2>2 DEF CopyTypes
  <2>4. CopyOrder'
    <3>1. Careful => Balanced'
      BY <1>1, <1>2, <1>15, <2>1 DEF CopyOrder, Balanced, WholeSource, CopyClosed
    <3>2. Careful /\ kernel' /\ ~outGone' => queued' = <<>> /\ ahead' = <<>>
      <4>1. SUFFICES ASSUME Careful, kernel, ~outGone PROVE queued' = <<>> /\ ahead' = <<>>
        BY <1>1
      <4>2. queued = <<>> /\ ahead = <<>>
        BY <1>2, <4>1 DEF CopyOrder
      <4>3. Len(ahead) = 0 /\ Len(queued) = 0
        BY <4>2
      <4>4. n = 0 /\ Len(queued') = 0
        BY <1>3, <1>5, <1>9, <1>12, <1>14, <1>15, <4>3
      <4>5. queued' = <<>>
        BY <1>15, <4>4
      <4>6. ahead' = <<>>
        BY <1>3, <2>1, <4>2, <4>4, TakenNone
      <4> QED BY <4>5, <4>6
    <3> QED BY <1>1, <1>2, <2>2, <2>3, <3>1, <3>2, OrderFrom
  <2>5. CopyCounts'
    <3>1. ~copy.kernel /\ ~outGone => moved' + copy.before = Len(copied') + Len(queued')
      <4>1. SUFFICES ASSUME ~copy.kernel, ~outGone PROVE moved' + copy.before = Len(copied') + Len(queued')
        OBVIOUS
      <4>2. moved + copy.before = Len(copied) + Len(queued)
        BY <1>2, <4>1 DEF CopyCounts
      <4>3. Len(copied') + Len(queued') = Len(copied) + Len(queued) + n /\ n \in Nat /\ Len(ahead) \in Nat
        BY <1>3, <1>9, <1>16
      <4> DEFINE x == Len(copied') + Len(queued')
                 y == Len(copied) + Len(queued)
                 b == copy.before
      <4>4. x = y + n /\ moved + b = y /\ moved' = moved + n /\ b \in 0..1 /\ moved \in Nat /\ n \in Nat /\ y \in Nat
        BY <1>3, <2>1, <4>2, <4>3
      <4> HIDE DEF x, y, b, n
      <4>5. moved' + b = x
        BY <4>4
      <4> QED BY <1>1, <4>5 DEF x, b
    <3>2. copyAt' \in {"loop", "write"} => Wanted(moved)' > 0
      BY <1>1, <2>1, <2>2 DEF Wanted
    <3> QED BY <1>1, <1>2, <1>17, <2>1, <2>2, <3>1, <3>2 DEF CopyCounts
  <2> QED BY <2>3, <2>4, <2>5 DEF CopyInv
<1> QED BY <1>18, <1>19

LEMMA CopyKeeps == CopyInv /\ [SendNext]_sendVars => CopyInv'
BY BeginKeeps, KernelKeeps, CopyWaits, ReadsKeep, EndKeeps, WritesKeep DEF SendNext

LEMMA CopyIsTrue == ASSUME CopyInv PROVE CopyTrue
<1>1. CopyTypes /\ CopyOrder /\ CopyCounts
  BY DEF CopyInv
<1>2. copied \in Seq(Int) /\ queued \in Seq(Int) /\ ahead \in Seq(Int) /\ source \in Seq(Int)
  BY <1>1 DEF CopyTypes
<1>3. copied \o queued \in Seq(Int) /\ Len(copied \o queued) = Len(copied) + Len(queued)
  BY <1>2, ConcatProperties
<1>4. NothingLost
  <2>1. ((copied \o queued) \o ahead) \o source = (copied \o queued) \o (ahead \o source)
    BY <1>2, <1>3, Regroup, Zenon
  <2> QED BY <1>1, <2>1 DEF CopyOrder, CopyClosed, NothingLost, Balanced, WholeSource
<1>5. WhatItSays
  <2>1. /\ moved \in Nat /\ copy.before \in 0..1 /\ Len(copied) \in Nat /\ Len(queued) \in Nat
    BY <1>1, <1>2 DEF CopyTypes
  <2>2. ~copy.kernel /\ ~outGone => moved = Len(copied \o queued) - copy.before
    BY <1>1, <1>3, <2>1 DEF CopyCounts
  <2> QED BY <1>1, <2>2 DEF WhatItSays, CopyCounts
<1> QED BY <1>4, <1>5 DEF CopyTrue

\* The states of a call that waits for a reply; the number of the reply that it reads next.
Due == asked + (IF mailAt = "HELO" THEN -(slips + 1)
                ELSE IF BeforeBody THEN -Lag ELSE 1 - Lag)

Words == {"EHLO", "HELO", "STARTTLS", "AUTH LOGIN", "AUTH PLAIN", "user", "pass", "MAIL", "RCPT",
          "DATA", "text", "dotted", "dot", "QUIT"}
Commands == Words \ {"text", "dot", "dotted", "QUIT"}

MailTypes ==
  /\ replies \in Seq([to : Int, is : {"ok", "no"}]) /\ mailLines \in Seq([n : Int, is : Words])
  /\ asked \in Nat /\ slips \in Nat /\ rcpts \in Nat
  /\ accepted \in BOOLEAN /\ told \in BOOLEAN /\ (told => mailAt = "end")
  /\ mailServer.auth \subseteq AuthCaps /\ mail.message \in Seq({"text", "dot", "dotted"}) /\ mail.from \in {"text", "file", "no file"}
  /\ mailAt \in {"connect", "tls", "body", "sent", "QUIT", "end", "greeting", "HELO"} \cup Commands

\* The lines that are sent after DATA, without the full stop behind them.
Text == (IF mail.from = "text" THEN <<"text">> ELSE <<>>) \o mail.message
NoDots == {"dot", "dotted"} \cap {mail.message[k] : k \in DOMAIN mail.message} = {}

\* Until the call connects there is nothing, and then the greeting.
MailUnopened ==
  /\ mailAt = "connect" => Gone /\ replies = <<>> /\ slips = 0 /\ asked = 0
  /\ mailAt \in {"connect", "greeting"} => mailLines = <<>>

\* What the call knows at its beginning.
MailFresh ==
  /\ mailAt \in {"connect", "greeting", "EHLO", "HELO"} => caps = {}
  /\ mailAt \notin {"RCPT", "DATA", "body", "sent", "QUIT", "end"} => ~accepted

\* The replies are numbered without a gap from the one that is read next, and the lines on
\* from there to the last one.
NumberedFrom(d, rs, ls, upto, off) ==
  /\ \A k \in 1..Len(rs) : rs[k].to = d + k - 1
  /\ d + Len(rs) <= upto + 1
  /\ ~off => /\ d + Len(rs) + Len(ls) = upto + 1
              /\ \A k \in 1..Len(ls) : ls[k].n = d + Len(rs) + k - 1
Numbering ==
  mailAt \notin {"connect", "sent", "QUIT", "end"} =>
    NumberedFrom(Due, replies, mailLines, asked, Gone)

\* What the server is waiting for when it has not answered the last line, and when it has.
Unanswered ==
  IF mailAt = "EHLO" THEN {"new"} ELSE IF mailAt \in {"user", "pass"} THEN {mailAt}
  ELSE IF mailAt = "RCPT" THEN (IF accepted THEN {"rcpt"} ELSE {"mail", "rcpt"})
  ELSE IF mailAt = "DATA" THEN {"rcpt"} ELSE {"hello"}
AfterOk ==
  IF mailAt = "greeting" THEN "new" ELSE IF mailAt = "STARTTLS" THEN "tls"
  ELSE IF mailAt = "AUTH LOGIN" THEN "user" ELSE IF mailAt = "user" THEN "pass"
  ELSE IF mailAt = "MAIL" THEN "mail" ELSE IF mailAt = "RCPT" THEN "rcpt"
  ELSE IF mailAt = "DATA" THEN "data" ELSE "hello"
AfterNo == IF mailAt \in {"user", "pass"} THEN {"hello"} ELSE Unanswered

\* With no reply out of step the server is where the call thinks it is, or gone.
Tracks ==
  Lag = 0 /\ mailAt # "HELO" =>
    /\ BeforeBody => (Gone => replies = <<>>)
    /\ BeforeBody /\ ~Gone /\ mailAt # "greeting" =>
         /\ replies = <<>> => session \in Unanswered /\ mailLines[1].is = mailAt
         /\ replies # <<>> /\ replies[1].is = "no" => session \in AfterNo
    /\ BeforeBody /\ ~Gone /\ replies # <<>> /\ replies[1].is = "ok" => session = AfterOk
    /\ mailAt = "tls" => session \in {"tls", "gone"}
    /\ mailAt = "body" => session = "data"
RcptsCount == session \in {"rcpt", "data"} => rcpts > 0

\* Before the body is sent nothing is delivered and DATA is the last line, if it is one at all.
Early == mailAt \notin {"sent", "QUIT"} /\ ~told
NothingYet ==
  Early =>
    /\ delivered = <<>> /\ box = <<>>
    /\ \A k \in 1..Len(mailLines) : mailLines[k].is \in Commands
    /\ \A k \in 1..Len(mailLines) :
         mailLines[k].is = "DATA" => k = Len(mailLines) /\ mailAt \in {"DATA", "body", "end"}
    /\ session = "data" => mailLines = <<>> /\ mailAt \in {"DATA", "body", "end"}

\* Behind the line at d is what is left of the message tx when its first lines are taken,
\* and the full stop.
BodyAt(ls, tx, d, taken) ==
  /\ Len(ls) >= d + Len(tx) + 1 - taken
  /\ \A k \in 1..(Len(tx) + 1 - taken) :
       ls[d + k].is = (IF taken + k <= Len(tx) THEN tx[taken + k] ELSE "dot")
NoData(ls) == \A d \in 1..Len(ls) : ls[d].is # "DATA"
DataLeads(ls, tx) ==
  \A d \in 1..Len(ls) : ls[d].is = "DATA" =>
    BodyAt(ls, tx, d, 0) /\ \A e \in 1..Len(ls) : ls[e].is = "DATA" => d = e
KeptKinds == {"text", "dot", "dotted", "rest"}
InBody(ls, tx, bx) ==
  /\ bx \in Seq(KeptKinds) /\ Len(bx) <= Len(tx) /\ \A k \in 1..Len(bx) : bx[k] = Kept(tx[k])
  /\ BodyAt(ls, tx, 0, Len(bx))
Outcome(mails, tx, nodots) == mails = <<>> \/ (Len(mails) = 1 /\ (nodots => mails[1] = tx))

\* From then on one message is delivered, when the body follows the DATA it is for.
TakesBody ==
  ~Early =>
    /\ Outcome(delivered, Text, NoDots)
    /\ ~Gone => /\ DataLeads(mailLines, Text)
                /\ session = "data" \/ delivered # <<>> => NoData(mailLines)
                /\ session = "data" => delivered = <<>> /\ InBody(mailLines, Text, box)

MailInv ==
  MailTypes /\ MailUnopened /\ MailFresh /\ Numbering /\ Tracks /\ RcptsCount /\ NothingYet /\ TakesBody

LEMMA MailStarts == SmtpAssumption /\ SmtpInit => MailInv
<1> SUFFICES ASSUME SmtpAssumption, SmtpInit PROVE MailInv
  OBVIOUS
<1>1. /\ mailAt = "connect" /\ accepted = FALSE /\ caps = {} /\ told = FALSE
      /\ mailLines = <<>> /\ replies = <<>> /\ session = "gone" /\ rcpts = 0 /\ box = <<>>
      /\ delivered = <<>> /\ asked = 0 /\ slips = 0
      /\ mailServer.auth \subseteq AuthCaps /\ mail.from \in {"text", "file", "no file"}
  BY DEF SmtpInit
<1>2. mail.message \in Seq({"text", "dot", "dotted"})
  BY DEF SmtpInit, SmtpAssumption
<1>3. MailTypes
  <2>1. replies \in Seq([to : Int, is : {"ok", "no"}]) /\ mailLines \in Seq([n : Int, is : Words])
    BY <1>1, EmptySeq, Zenon
  <2> QED BY <1>1, <1>2, <2>1 DEF MailTypes
<1>4. MailUnopened /\ MailFresh /\ Numbering /\ RcptsCount
  BY <1>1 DEF MailUnopened, MailFresh, Numbering, RcptsCount, Gone
<1>5. Tracks
  BY <1>1 DEF Tracks, BeforeBody
<1>6. Early
  BY <1>1 DEF Early
<1>7. NothingYet
  <2>1. Len(mailLines) = 0
    BY <1>1
  <2>2. 1..Len(mailLines) = {}
    BY <2>1
  <2> QED BY <1>1, <2>2 DEF NothingYet
<1>8. TakesBody
  BY <1>6 DEF TakesBody
<1> QED BY <1>3, <1>4, <1>5, <1>7, <1>8 DEF MailInv

-----------------------------------------------------------------------------
(* The numbers of the lines and of the replies                             *)

ReplySet == [to : Int, is : {"ok", "no"}]
LineSet == [n : Int, is : Words]

LEMMA ReadFirst ==
  ASSUME NEW d \in Int, NEW upto \in Int, NEW off \in BOOLEAN, NEW rs \in Seq(ReplySet),
         NEW ls \in Seq(LineSet), rs # <<>>, NumberedFrom(d, rs, ls, upto, off)
  PROVE  NumberedFrom(d + 1, Tail(rs), ls, upto, off)
<1>1. /\ Tail(rs) \in Seq(ReplySet) /\ Len(Tail(rs)) = Len(rs) - 1
      /\ \A k \in 1..Len(Tail(rs)) : Tail(rs)[k] = rs[k + 1]
  BY HeadTailProperties
<1>2. Len(rs) \in Nat /\ Len(ls) \in Nat /\ Len(Tail(rs)) \in Nat
  BY <1>1
<1>3. \A k \in 1..Len(Tail(rs)) : Tail(rs)[k].to = d + 1 + k - 1
  <2> TAKE k \in 1..Len(Tail(rs))
  <2>1. k + 1 \in 1..Len(rs)
    BY <1>1, <1>2
  <2>2. rs[k + 1].to = d + (k + 1) - 1
    BY <2>1 DEF NumberedFrom
  <2> QED BY <1>1, <2>2
<1> QED BY <1>1, <1>2, <1>3 DEF NumberedFrom

LEMMA WriteLast ==
  ASSUME NEW d \in Int, NEW upto \in Int, NEW off \in BOOLEAN, NEW rs \in Seq(ReplySet),
         NEW ls \in Seq(LineSet), NEW ws \in Seq(Words), NumberedFrom(d, rs, ls, upto, off)
  PROVE  /\ NumberedFrom(d, rs, IF off THEN ls
                                ELSE ls \o [k \in 1..Len(ws) |-> [n |-> upto + k, is |-> ws[k]]],
                         upto + Len(ws), off)
         /\ ls \o [k \in 1..Len(ws) |-> [n |-> upto + k, is |-> ws[k]]] \in Seq(LineSet)
<1> DEFINE new == [k \in 1..Len(ws) |-> [n |-> upto + k, is |-> ws[k]]]
<1>1. Len(rs) \in Nat /\ Len(ls) \in Nat /\ Len(ws) \in Nat
  OBVIOUS
<1>2. new \in Seq(LineSet) /\ Len(new) = Len(ws)
  <2>1. \A k \in 1..Len(ws) : [n |-> upto + k, is |-> ws[k]] \in LineSet
    BY <1>1 DEF LineSet
  <2>2. new \in [1..Len(ws) -> LineSet]
    BY <2>1
  <2> QED BY <1>1, <2>2, IsASeq, LenProperties
<1>3. /\ ls \o new \in Seq(LineSet) /\ Len(ls \o new) = Len(ls) + Len(ws)
      /\ \A k \in 1..Len(ls) : (ls \o new)[k] = ls[k]
      /\ \A k \in 1..Len(ws) : (ls \o new)[Len(ls) + k] = new[k]
  BY <1>2
<1> HIDE DEF new
<1>4. CASE off
  BY <1>1, <1>3, <1>4 DEF NumberedFrom, new
<1>5. CASE ~off
  <2>1. d + Len(rs) + Len(ls) = upto + 1
    BY <1>5 DEF NumberedFrom
  <2>2. \A k \in 1..Len(ls \o new) : (ls \o new)[k].n = d + Len(rs) + k - 1
    <3> TAKE k \in 1..Len(ls \o new)
    <3>1. CASE k <= Len(ls)
      <4>1. k \in 1..Len(ls)
        BY <1>1, <1>3, <3>1
      <4>2. ls[k].n = d + Len(rs) + k - 1
        BY <1>5, <4>1 DEF NumberedFrom
      <4> QED BY <1>3, <4>1, <4>2
    <3>2. CASE ~(k <= Len(ls))
      <4> DEFINE j == k - Len(ls)
      <4>1. j \in 1..Len(ws) /\ k = Len(ls) + j
        BY <1>1, <1>3, <3>2
      <4>2. (ls \o new)[k] = new[j]
        BY <1>3, <4>1
      <4>3. new[j].n = upto + j
        BY <4>1 DEF new
      <4>4. j \in Int /\ (ls \o new)[k].n = upto + j
        BY <4>1, <4>2, <4>3
      <4> HIDE DEF j
      <4>5. upto + j = d + Len(rs) + k - 1
        <5> DEFINE a == Len(rs)
                   b == Len(ls)
        <5>1. a \in Nat /\ b \in Nat /\ d + a + b = upto + 1 /\ k = b + j
          BY <1>1, <2>1, <4>1
        <5> HIDE DEF a, b
        <5>2. upto + j = d + a + k - 1
          BY <4>4, <5>1
        <5> QED BY <5>2 DEF a
      <4> QED BY <4>4, <4>5
    <3> QED BY <3>1, <3>2
  <2>3. d + Len(rs) <= upto + Len(ws) + 1
    BY <1>1 DEF NumberedFrom
  <2>4. d + Len(rs) + Len(ls \o new) = upto + Len(ws) + 1
    <3> DEFINE a == Len(rs)
               b == Len(ls)
               c == Len(ws)
               e == Len(ls \o new)
    <3>1. a \in Nat /\ b \in Nat /\ c \in Nat /\ e = b + c /\ d + a + b = upto + 1
      BY <1>1, <1>3, <2>1
    <3> HIDE DEF a, b, c, e
    <3>2. d + a + e = upto + c + 1
      BY <3>1
    <3> QED BY <3>2 DEF a, c, e
  <2>5. \A k \in 1..Len(rs) : rs[k].to = d + k - 1
    BY DEF NumberedFrom
  <2>6. NumberedFrom(d, rs, ls \o new, upto + Len(ws), off)
    BY <2>2, <2>3, <2>4, <2>5 DEF NumberedFrom
  <2> QED BY <1>3, <1>5, <2>6 DEF new
<1> QED BY <1>4, <1>5

\* What the server does with the line that is next.
LEMMA ServerReads ==
  ASSUME NEW d \in Int, NEW upto \in Int, NEW rs \in Seq(ReplySet), NEW ls \in Seq(LineSet),
         ls # <<>>, NumberedFrom(d, rs, ls, upto, FALSE), NEW is \in {"ok", "no"}, NEW off \in BOOLEAN
  PROVE  /\ NumberedFrom(d, Append(rs, [to |-> Head(ls).n, is |-> is]), Tail(ls), upto, off)
         /\ Append(rs, [to |-> Head(ls).n, is |-> is]) \in Seq(ReplySet)
         /\ NumberedFrom(d, rs, Tail(ls), upto, TRUE)
<1>1. /\ Tail(ls) \in Seq(LineSet) /\ Len(Tail(ls)) = Len(ls) - 1
      /\ \A k \in 1..Len(Tail(ls)) : Tail(ls)[k] = ls[k + 1]
      /\ Head(ls) \in LineSet
  BY HeadTailProperties
<1>2. Len(rs) \in Nat /\ Len(ls) \in Nat /\ Len(Tail(ls)) \in Nat /\ Len(ls) > 0
  BY <1>1
<1> DEFINE r == [to |-> Head(ls).n, is |-> is]
           rr == Append(rs, r)
<1>3. r \in ReplySet
  BY <1>1 DEF ReplySet, LineSet
<1>4. r.to = d + Len(rs)
  <2>1. Head(ls) = ls[1]
    OBVIOUS
  <2>2. 1 \in 1..Len(ls)
    BY <1>2
  <2>3. ls[1].n = d + Len(rs) + 1 - 1
    BY <2>2 DEF NumberedFrom
  <2> QED BY <1>2, <2>1, <2>3
<1> HIDE DEF r
<1>5. /\ rr \in Seq(ReplySet) /\ Len(rr) = Len(rs) + 1 /\ rr[Len(rs) + 1] = r
      /\ \A k \in 1..Len(rs) : rr[k] = rs[k]
  BY <1>3, AppendProperties
<1> HIDE DEF rr
<1>6. d + Len(rs) + Len(ls) = upto + 1
  BY DEF NumberedFrom
<1>7. \A k \in 1..Len(rr) : rr[k].to = d + k - 1
  <2> TAKE k \in 1..Len(rr)
  <2>1. CASE k = Len(rs) + 1
    BY <1>2, <1>4, <1>5, <2>1
  <2>2. CASE k # Len(rs) + 1
    <3>1. k \in 1..Len(rs)
      BY <1>2, <1>5, <2>2
    <3>2. rs[k].to = d + k - 1
      BY <3>1 DEF NumberedFrom
    <3> QED BY <1>5, <3>1, <3>2
  <2> QED BY <2>1, <2>2
<1>8. \A k \in 1..Len(Tail(ls)) : Tail(ls)[k].n = d + Len(rr) + k - 1
  <2> TAKE k \in 1..Len(Tail(ls))
  <2>1. k + 1 \in 1..Len(ls)
    BY <1>1, <1>2
  <2>2. ls[k + 1].n = d + Len(rs) + (k + 1) - 1
    BY <2>1 DEF NumberedFrom
  <2> QED BY <1>1, <1>2, <1>5, <2>2
<1>9. d + Len(rr) <= upto + 1 /\ d + Len(rr) + Len(Tail(ls)) = upto + 1
  BY <1>1, <1>2, <1>5, <1>6
<1>10. NumberedFrom(d, rr, Tail(ls), upto, off)
  BY <1>7, <1>8, <1>9 DEF NumberedFrom
<1>11. NumberedFrom(d, rs, Tail(ls), upto, TRUE)
  BY DEF NumberedFrom
<1> QED BY <1>5, <1>10, <1>11 DEF rr, r

-----------------------------------------------------------------------------
(* What the steps of the call come to                                      *)

\* The answer is read and one line is written.
SaysLine(is, w) ==
  /\ BeforeBody /\ mailAt # "DATA" /\ (mailAt = "greeting" => is = "ok")
  /\ Read(is) /\ Mine /\ UNCHANGED told
  /\ Writes(<<w>>, w) /\ w \in Commands \ {"HELO"} /\ (w = "DATA" => mailAt = "RCPT")
  /\ \/ mailAt \notin {"EHLO", "HELO"} /\ caps' = caps
     \/ mailAt = "HELO" /\ is = "ok" /\ caps' = {"helo"}
     \/ mailAt = "EHLO" /\ "helo" \notin caps'
  /\ w = "EHLO" => caps' = {}
  /\ accepted' \in BOOLEAN /\ (accepted' => w \in {"RCPT", "DATA"})
  /\ mailAt = "HELO" \/ is = "none"
       \/ (IF is = "ok" THEN {AfterOk} ELSE AfterNo) \subseteq Unanswered'

GivesMailUp ==
  /\ BeforeBody /\ (\E is \in {"ok", "no", "none"} : Read(is)) /\ Mine /\ EndsMail(FALSE)
  /\ accepted' \in BOOLEAN

GoesAhead(to) ==
  /\ (mailAt = "STARTTLS" /\ to = "tls") \/ (mailAt = "DATA" /\ to = "body")
  /\ Read("ok") /\ Proceeds(to) /\ Mine /\ UNCHANGED <<accepted, caps, told>>

SaysHelo ==
  /\ mailAt = "EHLO" /\ (Read("no") \/ Read("none")) /\ Writes(HeloLines, "HELO")
  /\ Mine /\ UNCHANGED <<accepted, caps, told>>

AnswersRead ==
  \/ \E is \in {"ok", "no", "none"}, w \in Commands : SaysLine(is, w)
  \/ GivesMailUp \/ (\E to \in {"tls", "body"} : GoesAhead(to)) \/ SaysHelo

LEMMA LoginsSpeak ==
  ASSUME NEW has, LoginOrMail(has)
  PROVE  \E w \in {"AUTH LOGIN", "AUTH PLAIN", "MAIL"} : Writes(<<w>>, w)
BY DEF LoginOrMail

LEMMA SecureSpeaks ==
  ASSUME NEW has, SecureOrNot(has)
  PROVE  caps' = has /\ \E w \in {"STARTTLS", "AUTH LOGIN", "AUTH PLAIN", "MAIL"} : Writes(<<w>>, w)
<1>1. CASE mail.nossl
  <2>1. LoginOrMail(has) /\ caps' = has
    BY <1>1 DEF SecureOrNot
  <2> QED BY <2>1, LoginsSpeak
<1>2. CASE ~mail.nossl
  BY <1>2 DEF SecureOrNot
<1> QED BY <1>1, <1>2

LEMMA GreetingRead == MailInv /\ Greeted => AnswersRead
<1> SUFFICES ASSUME MailInv, Greeted PROVE AnswersRead
  OBVIOUS
<1>1. mailAt = "greeting" /\ Mine /\ BeforeBody /\ caps = {} /\ accepted = FALSE
  BY DEF Greeted, BeforeBody, MailInv, MailFresh, MailTypes
<1>2. CASE Read("ok") /\ Writes(<<"EHLO">>, "EHLO") /\ Otherwise
  <2>1. mailAt' = "EHLO"
    BY <1>2 DEF Writes
  <2>2. {AfterOk} \subseteq Unanswered'
    BY <1>1, <2>1 DEF AfterOk, Unanswered
  <2>3. SaysLine("ok", "EHLO")
    BY <1>1, <1>2, <2>2 DEF SaysLine, Otherwise, Commands, Words
  <2> QED BY <2>3 DEF AnswersRead, Commands, Words
<1>3. CASE (Read("no") \/ Read("none")) /\ EndsMail(FALSE) /\ UNCHANGED accepted
  BY <1>1, <1>3 DEF AnswersRead, GivesMailUp
<1> QED BY <1>2, <1>3 DEF Greeted

LEMMA HeloRead == MailInv /\ SMTPHelo => AnswersRead
<1> SUFFICES ASSUME MailInv, SMTPHelo PROVE AnswersRead
  OBVIOUS
<1>1. /\ mailAt \in {"EHLO", "HELO"} /\ Mine /\ BeforeBody /\ caps = {} /\ accepted = FALSE
      /\ UNCHANGED accepted /\ mailServer.auth \subseteq AuthCaps
  BY DEF SMTPHelo, BeforeBody, MailInv, MailFresh, MailTypes
<1>2. CASE mailAt = "EHLO" /\ Read("ok") /\ SecureOrNot({"ehlo"} \cup mailServer.auth) /\ UNCHANGED told
  <2>1. PICK w \in {"STARTTLS", "AUTH LOGIN", "AUTH PLAIN", "MAIL"} :
          Writes(<<w>>, w) /\ caps' = {"ehlo"} \cup mailServer.auth
    BY <1>2, SecureSpeaks
  <2>2. mailAt' = w
    BY <2>1 DEF Writes
  <2>3. {AfterOk} \subseteq Unanswered'
    BY <1>2, <2>1, <2>2 DEF AfterOk, Unanswered
  <2>4. "helo" \notin caps'
    BY <1>1, <2>1 DEF AuthCaps
  <2>5. w \in Commands \ {"HELO"} /\ w # "DATA" /\ w # "EHLO"
    BY <2>1 DEF Commands, Words
  <2>6. SaysLine("ok", w)
    BY <1>1, <1>2, <2>1, <2>3, <2>4, <2>5 DEF SaysLine
  <2> QED BY <2>5, <2>6 DEF AnswersRead
<1>3. CASE mailAt = "EHLO" /\ (Read("no") \/ Read("none")) /\ Writes(HeloLines, "HELO")
           /\ UNCHANGED caps /\ UNCHANGED told
  BY <1>1, <1>3 DEF AnswersRead, SaysHelo
<1>4. CASE mailAt = "HELO" /\ Read("ok") /\ SecureOrNot({"helo"}) /\ UNCHANGED told
  <2>1. PICK w \in {"STARTTLS", "AUTH LOGIN", "AUTH PLAIN", "MAIL"} :
          Writes(<<w>>, w) /\ caps' = {"helo"}
    BY <1>4, SecureSpeaks
  <2>2. w \in Commands \ {"HELO"} /\ w # "DATA" /\ w # "EHLO"
    BY <2>1 DEF Commands, Words
  <2>3. SaysLine("ok", w)
    BY <1>1, <1>4, <2>1, <2>2 DEF SaysLine
  <2> QED BY <2>2, <2>3 DEF AnswersRead
<1>5. CASE mailAt = "HELO" /\ (Read("no") \/ Read("none")) /\ EndsMail(FALSE)
  BY <1>1, <1>5 DEF AnswersRead, GivesMailUp
<1> QED BY <1>2, <1>3, <1>4, <1>5 DEF SMTPHelo

LEMMA TlsRead == MailInv /\ StartTls => AnswersRead
<1> SUFFICES ASSUME MailInv, StartTls PROVE AnswersRead
  OBVIOUS
<1>1. /\ mailAt = "STARTTLS" /\ Mine /\ BeforeBody /\ accepted = FALSE
      /\ UNCHANGED <<accepted, caps, told>>
  BY DEF StartTls, BeforeBody, MailInv, MailFresh, MailTypes, Otherwise
<1>2. CASE Read("ok") /\ Proceeds("tls")
  <2>1. GoesAhead("tls")
    BY <1>1, <1>2 DEF GoesAhead
  <2> QED BY <2>1 DEF AnswersRead
<1>3. ASSUME NEW is \in {"no", "none"}, Read(is), LoginOrMail(caps) PROVE AnswersRead
  <2>1. PICK w \in {"AUTH LOGIN", "AUTH PLAIN", "MAIL"} : Writes(<<w>>, w)
    BY <1>3, LoginsSpeak
  <2>2. mailAt' = w
    BY <2>1 DEF Writes
  <2>3. AfterNo \subseteq Unanswered'
    BY <1>1, <2>1, <2>2 DEF AfterNo, Unanswered
  <2>4. w \in Commands \ {"HELO"} /\ w # "DATA" /\ w # "EHLO"
    BY <2>1 DEF Commands, Words
  <2>5. SaysLine(is, w)
    BY <1>1, <1>3, <2>1, <2>3, <2>4 DEF SaysLine
  <2> QED BY <2>4, <2>5 DEF AnswersRead
<1> QED BY <1>2, <1>3 DEF StartTls

LEMMA LoginRead == MailInv /\ SMTPLogin => AnswersRead
<1> SUFFICES ASSUME MailInv, SMTPLogin PROVE AnswersRead
  OBVIOUS
<1>1. /\ mailAt \in {"AUTH LOGIN", "AUTH PLAIN", "user", "pass"} /\ Mine /\ BeforeBody /\ accepted = FALSE
      /\ UNCHANGED <<accepted, caps, told>>
  BY DEF SMTPLogin, BeforeBody, MailInv, MailFresh, MailTypes, Otherwise
<1>2. ASSUME NEW is \in {"ok", "no", "none"}, NEW w \in {"user", "pass", "MAIL"}, Read(is),
             Writes(<<w>>, w),
             \/ mailAt = "AUTH LOGIN" /\ is = "ok" /\ w = "user"
             \/ mailAt = "user" /\ is = "ok" /\ w = "pass"
             \/ mailAt \in {"AUTH LOGIN", "user"} /\ is \in {"no", "none"} /\ w = "MAIL"
             \/ mailAt \in {"AUTH PLAIN", "pass"} /\ w = "MAIL"
      PROVE  AnswersRead
  <2>1. mailAt' = w
    BY <1>2 DEF Writes
  <2>2. is # "none" => (IF is = "ok" THEN {AfterOk} ELSE AfterNo) \subseteq Unanswered'
    BY <1>2, <2>1 DEF AfterOk, AfterNo, Unanswered
  <2>3. w \in Commands \ {"HELO"} /\ w # "DATA" /\ w # "EHLO"
    BY DEF Commands, Words
  <2>4. SaysLine(is, w)
    BY <1>1, <1>2, <2>2, <2>3 DEF SaysLine
  <2> QED BY <2>3, <2>4 DEF AnswersRead
<1> QED BY <1>2 DEF SMTPLogin

LEMMA MailFromRead == MailInv /\ MailFrom => AnswersRead
<1> SUFFICES ASSUME MailInv, MailFrom PROVE AnswersRead
  OBVIOUS
<1>1. mailAt = "MAIL" /\ Mine /\ BeforeBody /\ accepted = FALSE /\ UNCHANGED <<accepted, caps>>
  BY DEF MailFrom, BeforeBody, MailInv, MailFresh, MailTypes
<1>2. CASE Read("ok") /\ Writes(<<"RCPT">>, "RCPT") /\ UNCHANGED told
  <2>1. mailAt' = "RCPT"
    BY <1>2 DEF Writes
  <2>2. {AfterOk} \subseteq Unanswered'
    BY <1>1, <2>1 DEF AfterOk, Unanswered
  <2>3. SaysLine("ok", "RCPT")
    BY <1>1, <1>2, <2>2 DEF SaysLine, Commands, Words
  <2> QED BY <2>3 DEF AnswersRead, Commands, Words
<1>3. CASE (Read("no") \/ Read("none")) /\ EndsMail(FALSE)
  BY <1>1, <1>3 DEF AnswersRead, GivesMailUp
<1> QED BY <1>2, <1>3 DEF MailFrom

LEMMA RecipientRead == MailInv /\ SmtpSendRecipients => AnswersRead
<1> SUFFICES ASSUME MailInv, SmtpSendRecipients PROVE AnswersRead
  OBVIOUS
<1>1. mailAt = "RCPT" /\ Mine /\ BeforeBody /\ UNCHANGED caps /\ accepted \in BOOLEAN
  BY DEF SmtpSendRecipients, BeforeBody, MailInv, MailTypes
<1>2. PICK is \in {"ok", "no", "none"} : Read(is) /\ accepted' = (accepted \/ is = "ok")
  BY DEF SmtpSendRecipients, AnyRecipient
<1>3. ASSUME NEW w \in {"RCPT", "DATA"}, Writes(<<w>>, w), UNCHANGED told, w = "DATA" => accepted'
      PROVE  AnswersRead
  <2>1. mailAt' = w
    BY <1>3 DEF Writes
  <2>2. is # "none" => (IF is = "ok" THEN {AfterOk} ELSE AfterNo) \subseteq Unanswered'
    BY <1>1, <1>2, <1>3, <2>1 DEF AfterOk, AfterNo, Unanswered
  <2>3. w \in Commands \ {"HELO"} /\ w # "EHLO"
    BY DEF Commands, Words
  <2>4. SaysLine(is, w)
    BY <1>1, <1>2, <1>3, <2>2, <2>3 DEF SaysLine
  <2> QED BY <2>3, <2>4 DEF AnswersRead
<1>4. CASE EndsMail(FALSE)
  BY <1>1, <1>2, <1>4 DEF AnswersRead, GivesMailUp
<1>5. \/ Writes(<<"RCPT">>, "RCPT") /\ UNCHANGED told
      \/ accepted' /\ Writes(<<"DATA">>, "DATA") /\ UNCHANGED told
      \/ EndsMail(FALSE)
  BY DEF SmtpSendRecipients
<1> QED BY <1>3, <1>4, <1>5

LEMMA DataRead == MailInv /\ Data => AnswersRead
<1> SUFFICES ASSUME MailInv, Data PROVE AnswersRead
  OBVIOUS
<1>1. mailAt = "DATA" /\ Mine /\ BeforeBody /\ UNCHANGED <<accepted, caps>>
      /\ accepted \in BOOLEAN
  BY DEF Data, BeforeBody, MailInv, MailTypes
<1>2. CASE Read("ok") /\ Proceeds("body") /\ UNCHANGED told
  BY <1>1, <1>2 DEF AnswersRead, GoesAhead
<1>3. CASE (Read("no") \/ Read("none")) /\ EndsMail(FALSE)
  BY <1>1, <1>3 DEF AnswersRead, GivesMailUp
<1> QED BY <1>2, <1>3 DEF Data

LEMMA MailIs ==
  ASSUME MailTypes
  PROVE  /\ mailLines \in Seq(LineSet) /\ replies \in Seq(ReplySet) /\ asked \in Nat /\ slips \in Nat
         /\ Gone \in BOOLEAN /\ Len(mailLines) \in Nat /\ Len(replies) \in Nat
<1>1. mailLines \in Seq(LineSet) /\ replies \in Seq(ReplySet)
  BY Zenon DEF MailTypes, LineSet, ReplySet
<1>2. asked \in Nat /\ slips \in Nat
  BY DEF MailTypes
<1>3. Len(mailLines) \in Nat /\ Len(replies) \in Nat
  BY <1>1
<1> QED BY <1>1, <1>2, <1>3, Zenon DEF Gone

LEMMA ReadIs ==
  ASSUME MailTypes, NEW is \in {"ok", "no", "none"}, Read(is)
  PROVE  /\ replies' \in Seq(ReplySet) /\ slips' \in Nat
         /\ slips' = slips + (IF replies # <<>> \/ Gone THEN 0 ELSE 1)
         /\ \/ replies # <<>> /\ is # "none" /\ replies[1].is = is /\ replies' = Tail(replies)
            \/ replies = <<>> /\ is = "none" /\ replies' = <<>>
<1>1. replies \in Seq(ReplySet) /\ slips \in Nat
  BY MailIs
<1>2. CASE replies # <<>>
  <2>1. is = Head(replies).is /\ replies' = Tail(replies) /\ slips' = slips
    BY <1>2 DEF Read
  <2>2. Head(replies) = replies[1] /\ Head(replies) \in ReplySet /\ Tail(replies) \in Seq(ReplySet)
    BY <1>1, <1>2, HeadTailProperties
  <2>3. is # "none"
    BY <2>1, <2>2 DEF ReplySet
  <2> QED BY <1>1, <1>2, <2>1, <2>2, <2>3
<1>3. CASE replies = <<>>
  <2>1. is = "none" /\ replies' = replies /\ slips' = (IF Gone THEN slips ELSE slips + 1)
    BY <1>3 DEF Read
  <2> QED BY <1>1, <1>3, <2>1
<1> QED BY <1>2, <1>3

LEMMA WritesIs ==
  ASSUME MailTypes, NEW ws \in Seq(Words), NEW to, Writes(ws, to)
  PROVE  /\ mailLines' \in Seq(LineSet) /\ asked' \in Nat /\ asked' = asked + Len(ws) /\ mailAt' = to
         /\ ~Gone => mailLines' = mailLines \o [k \in 1..Len(ws) |-> [n |-> asked + k, is |-> ws[k]]]
         /\ Gone => mailLines' = mailLines
         /\ \A d \in Int, rs \in Seq(ReplySet) :
              NumberedFrom(d, rs, mailLines, asked, Gone) => NumberedFrom(d, rs, mailLines', asked', Gone)
<1>1. mailLines \in Seq(LineSet) /\ asked \in Nat /\ Len(ws) \in Nat
  <2>1. Len(ws) \in Nat
    OBVIOUS
  <2> QED BY <2>1, MailIs
<1> DEFINE new == [k \in 1..Len(ws) |-> [n |-> asked + k, is |-> ws[k]]]
<1>2. mailLines' = (IF Gone THEN mailLines ELSE mailLines \o new) /\ asked' = asked + Len(ws) /\ mailAt' = to
  BY DEF Writes, Numbered
<1>3. NumberedFrom(asked + 1 - Len(mailLines), <<>>, mailLines, asked, TRUE)
  BY <1>1 DEF NumberedFrom
<1>4. mailLines \o new \in Seq(LineSet)
  <2>1. <<>> \in Seq(ReplySet)
    BY EmptySeq, Zenon
  <2>2. asked + 1 - Len(mailLines) \in Int /\ asked \in Int
    BY <1>1
  <2> QED BY <1>1, <1>3, <2>1, <2>2, WriteLast
<1>5. ASSUME NEW d \in Int, NEW rs \in Seq(ReplySet), NumberedFrom(d, rs, mailLines, asked, Gone)
      PROVE  NumberedFrom(d, rs, mailLines', asked', Gone)
  <2>1. Gone \in BOOLEAN /\ asked \in Int
    BY <1>1 DEF Gone
  <2>2. NumberedFrom(d, rs, IF Gone THEN mailLines ELSE mailLines \o new, asked + Len(ws), Gone)
    BY <1>1, <1>5, <2>1, WriteLast
  <2> QED BY <1>2, <2>2
<1> QED BY <1>1, <1>2, <1>4, <1>5

LEMMA ReadNumbers ==
  ASSUME MailTypes, NEW d \in Int, NumberedFrom(d, replies, mailLines, asked, Gone),
         NEW is \in {"ok", "no", "none"}, Read(is),
         NEW ws \in Seq(Words), ws # <<>>, NEW to, Writes(ws, to)
  PROVE  NumberedFrom(d + (IF replies # <<>> \/ Gone THEN 1 ELSE 0), replies', mailLines', asked', Gone)
<1>1. /\ mailLines \in Seq(LineSet) /\ replies \in Seq(ReplySet) /\ asked \in Nat /\ Len(ws) \in Nat
      /\ Len(ws) > 0 /\ Gone \in BOOLEAN
  <2>1. Len(ws) \in Nat /\ Len(ws) > 0
    OBVIOUS
  <2> QED BY <2>1, MailIs
<1>2. /\ replies' \in Seq(ReplySet)
      /\ replies # <<>> => replies' = Tail(replies)
      /\ replies = <<>> => replies' = replies
  BY ReadIs
<1>3. /\ asked' = asked + Len(ws)
      /\ \A e \in Int, rs \in Seq(ReplySet) :
           NumberedFrom(e, rs, mailLines, asked, Gone) => NumberedFrom(e, rs, mailLines', asked', Gone)
  BY WritesIs
<1>4. CASE replies # <<>>
  <2>1. NumberedFrom(d + 1, Tail(replies), mailLines, asked, Gone)
    BY <1>1, <1>4, ReadFirst
  <2>2. d + 1 \in Int
    OBVIOUS
  <2> QED BY <1>2, <1>3, <1>4, <2>1, <2>2
<1>5. CASE replies = <<>> /\ ~Gone
  <2>1. NumberedFrom(d, replies, mailLines', asked', Gone)
    BY <1>1, <1>3
  <2> QED BY <1>2, <1>5, <2>1
<1>6. CASE replies = <<>> /\ Gone
  <2>1. replies' = <<>> /\ Len(replies) = 0 /\ Len(replies') = 0
    BY <1>2, <1>6
  <2>2. d + 0 <= asked + 1
    BY <2>1 DEF NumberedFrom
  <2>3. d + 1 + 0 <= asked' + 1
    BY <1>1, <1>3, <2>2
  <2>4. d + 1 + Len(replies') <= asked' + 1
    BY <2>1, <2>3
  <2>5. NumberedFrom(d + 1, replies', mailLines', asked', TRUE)
    BY <2>1, <2>4 DEF NumberedFrom
  <2> QED BY <1>6, <2>5
<1> QED BY <1>4, <1>5, <1>6

LEMMA DueIs ==
  ASSUME MailTypes
  PROVE  /\ Lag \in Nat /\ Due \in Int
         /\ mailAt = "HELO" => Due = asked - slips - 1
         /\ BeforeBody /\ mailAt # "HELO" => Due = asked - Lag
         /\ ~BeforeBody => Due = asked + 1 - Lag
<1>1. slips \in Nat /\ asked \in Nat
  BY DEF MailTypes
<1>2. Lag \in Nat
  BY <1>1 DEF Lag
<1>3. mailAt = "HELO" => BeforeBody
  BY DEF BeforeBody
<1> QED BY <1>1, <1>2, <1>3 DEF Due

LEMMA SpeaksTypes ==
  ASSUME MailInv, NEW is \in {"ok", "no", "none"}, NEW w \in Commands, SaysLine(is, w)
  PROVE  MailTypes' /\ mailAt' = w /\ BeforeBody' /\ Early'
<1>1. /\ BeforeBody /\ Read(is) /\ Mine /\ UNCHANGED told /\ Writes(<<w>>, w) /\ w \in Commands
      /\ accepted' \in BOOLEAN
  BY DEF SaysLine
<1>2. MailTypes /\ told = FALSE
  BY <1>1 DEF MailInv, MailTypes, BeforeBody
<1>3. <<w>> \in Seq(Words)
  BY DEF Commands
<1>4. mailLines' \in Seq(LineSet) /\ asked' \in Nat /\ mailAt' = w
  BY <1>1, <1>2, <1>3, WritesIs
<1>5. replies' \in Seq(ReplySet) /\ slips' \in Nat
  BY <1>1, <1>2, ReadIs
<1>6. MailTypes'
  BY <1>1, <1>2, <1>4, <1>5 DEF MailTypes, Mine, LineSet, ReplySet
<1>7. BeforeBody' /\ Early'
  BY <1>1, <1>2, <1>4 DEF BeforeBody, Early, Commands, Words
<1> QED BY <1>4, <1>6, <1>7

LEMMA SpeaksNumbers ==
  ASSUME MailInv, NEW is \in {"ok", "no", "none"}, NEW w \in Commands, SaysLine(is, w)
  PROVE  Numbering'
<1>1. /\ BeforeBody /\ Read(is) /\ Mine /\ Writes(<<w>>, w) /\ w # "HELO"
  BY DEF SaysLine
<1>2. /\ MailTypes /\ MailTypes' /\ mailAt' = w /\ BeforeBody' /\ (mailAt = "EHLO" => caps = {})
      /\ slips \in Nat /\ asked \in Nat
  BY SpeaksTypes DEF MailInv, MailTypes, MailFresh
<1>3. NumberedFrom(Due, replies, mailLines, asked, Gone)
  BY <1>1 DEF MailInv, Numbering, BeforeBody
<1>4. <<w>> \in Seq(Words) /\ Len(<<w>>) = 1 /\ <<w>> # <<>>
  BY DEF Commands
<1> DEFINE turn == IF replies # <<>> \/ Gone THEN 1 ELSE 0
<1>5. NumberedFrom(Due + turn, replies', mailLines', asked', Gone)
  BY <1>1, <1>2, <1>3, <1>4, DueIs, ReadNumbers
<1>6. asked' = asked + 1 /\ slips' = slips + 1 - turn /\ (is = "ok" => turn = 1) /\ turn \in 0..1
  <2>1. asked' = asked + 1
    BY <1>1, <1>2, <1>4, WritesIs
  <2>2. slips' = slips + (IF replies # <<>> \/ Gone THEN 0 ELSE 1) /\ (is = "ok" => replies # <<>>)
    BY <1>1, <1>2, ReadIs
  <2> QED BY <1>2, <2>1, <2>2
<1> HIDE DEF turn
<1>7. Due' = asked' - Lag'
  BY <1>1, <1>2 DEF Due
<1>8. Due' = Due + turn
  <2>1. CASE mailAt \notin {"EHLO", "HELO"}
    <3>1. Lag' = Lag + 1 - turn
      BY <1>2, <1>6, <2>1 DEF SaysLine, Lag
    <3> QED BY <1>1, <1>2, <1>6, <1>7, <2>1, <3>1, DueIs
  <2>2. CASE mailAt = "HELO"
    <3>1. is = "ok" /\ caps' = {"helo"}
      BY <2>2 DEF SaysLine
    <3>2. Lag' = slips + 1
      BY <1>2, <1>6, <3>1 DEF Lag
    <3> QED BY <1>2, <1>6, <1>7, <2>2, <3>1, <3>2, DueIs
  <2>3. CASE mailAt = "EHLO"
    <3>1. "helo" \notin caps' /\ caps = {}
      BY <1>2, <2>3 DEF SaysLine
    <3>2. Lag' = slips' /\ Lag = slips
      <4>1. slips' \in Nat
        BY <1>2, <1>6
      <4>2. Lag' = slips' + 0
        BY <3>1, Zenon DEF Lag
      <4>3. "helo" \notin caps
        BY <3>1
      <4>4. Lag = slips + 0
        BY <4>3, Zenon DEF Lag
      <4>5. slips \in Nat
        BY <1>2
      <4>6. slips' + 0 = slips' /\ slips + 0 = slips
        <5>1. \A x \in Nat : x + 0 = x
          OBVIOUS
        <5> QED BY <4>1, <4>5, <5>1, Zenon
      <4> QED BY <4>2, <4>4, <4>6, Zenon
    <3> QED BY <1>1, <1>2, <1>6, <1>7, <2>3, <3>2, DueIs
  <2> QED BY <2>1, <2>2, <2>3
<1>9. Gone' = Gone
  BY <1>1 DEF Mine, Gone
<1> QED BY <1>5, <1>8, <1>9 DEF Numbering

LEMMA OneIsNext ==
  ASSUME MailInv, BeforeBody, mailAt # "HELO", Lag = 0, ~Gone
  PROVE  Len(replies) + Len(mailLines) = 1
<1>1. MailTypes /\ NumberedFrom(Due, replies, mailLines, asked, Gone)
  BY DEF MailInv, Numbering, BeforeBody
<1>2. Due = asked - 0 /\ asked \in Nat /\ Len(replies) \in Nat /\ Len(mailLines) \in Nat
  BY <1>1, DueIs, MailIs
<1>3. Due + Len(replies) + Len(mailLines) = asked + 1
  BY <1>1 DEF NumberedFrom
<1> QED BY <1>2, <1>3

LEMMA SpeaksInStep ==
  ASSUME MailInv, NEW is \in {"ok", "no", "none"}, NEW w \in Commands, SaysLine(is, w), Lag' = 0
  PROVE  Lag = 0 /\ mailAt # "HELO" /\ (replies # <<>> \/ Gone)
<1>1. /\ BeforeBody /\ Read(is) /\ Mine /\ Writes(<<w>>, w)
  BY DEF SaysLine
<1>2. MailTypes /\ (mailAt = "EHLO" => caps = {}) /\ slips \in Nat
  BY DEF MailInv, MailFresh, MailTypes
<1>3. slips' \in Nat /\ slips' = slips + (IF replies # <<>> \/ Gone THEN 0 ELSE 1)
  BY <1>1, <1>2, ReadIs
<1>4. slips' = 0 /\ "helo" \notin caps'
  BY <1>3 DEF Lag
<1>5. slips = 0 /\ (replies # <<>> \/ Gone)
  BY <1>2, <1>3, <1>4
<1>6. mailAt # "HELO"
  BY <1>4 DEF SaysLine
<1>7. "helo" \notin caps
  BY <1>2, <1>4, <1>6 DEF SaysLine
<1> QED BY <1>5, <1>6, <1>7 DEF Lag

LEMMA SpeaksTracks ==
  ASSUME MailInv, NEW is \in {"ok", "no", "none"}, NEW w \in Commands, SaysLine(is, w)
  PROVE  Tracks'
<1>1. /\ BeforeBody /\ Read(is) /\ Mine /\ Writes(<<w>>, w) /\ (mailAt = "greeting" => is = "ok")
  BY DEF SaysLine
<1>2. MailTypes /\ mailAt' = w /\ BeforeBody' /\ session' = session /\ Gone' = Gone
  BY <1>1, SpeaksTypes DEF MailInv, Mine, Gone
<1>3. SUFFICES ASSUME Lag' = 0 PROVE Tracks'
  BY DEF Tracks
<1>4. Lag = 0 /\ mailAt # "HELO" /\ (replies # <<>> \/ Gone)
  BY <1>3, SpeaksInStep
<1>5. mailAt' # "tls" /\ mailAt' # "body"
  BY <1>2 DEF Commands, Words
<1>6. /\ Gone => replies = <<>>
      /\ ~Gone /\ replies # <<>> /\ mailAt # "greeting" /\ replies[1].is = "no" => session \in AfterNo
      /\ ~Gone /\ replies # <<>> /\ replies[1].is = "ok" => session = AfterOk
  BY <1>1, <1>4 DEF MailInv, Tracks
<1>7. \/ replies # <<>> /\ is # "none" /\ replies[1].is = is /\ replies' = Tail(replies)
      \/ replies = <<>> /\ is = "none" /\ replies' = <<>>
  BY <1>1, <1>2, ReadIs
<1>8. CASE Gone
  <2>1. replies' = <<>>
    BY <1>6, <1>7, <1>8
  <2> QED BY <1>2, <1>5, <1>8, <2>1 DEF Tracks
<1>9. CASE ~Gone
  <2>1. replies # <<>> /\ is # "none" /\ replies[1].is = is /\ replies' = Tail(replies)
    BY <1>4, <1>7, <1>9
  <2>2. Len(replies) = 1 /\ Len(mailLines) = 0
    <3>1. Len(replies) + Len(mailLines) = 1
      BY <1>1, <1>4, <1>9, OneIsNext
    <3>2. Len(replies) > 0 /\ Len(replies) \in Nat /\ Len(mailLines) \in Nat
      BY <1>2, <2>1, MailIs, EmptySeq
    <3> DEFINE a == Len(replies)
               b == Len(mailLines)
    <3>3. a + b = 1 /\ a > 0 /\ a \in Nat /\ b \in Nat
      BY <3>1, <3>2
    <3> HIDE DEF a, b
    <3>4. a = 1 /\ b = 0
      BY <3>3
    <3> QED BY <3>4 DEF a, b
  <2>3. replies' = <<>>
    <3>1. replies \in Seq(ReplySet)
      BY <1>2, MailIs
    <3>2. Tail(replies) \in Seq(ReplySet) /\ Len(Tail(replies)) = 0
      BY <2>1, <2>2, <3>1, HeadTailProperties
    <3> QED BY <2>1, <3>2, EmptySeq
  <2>4. mailLines'[1].is = w
    <3>1. <<w>> \in Seq(Words) /\ Len(<<w>>) = 1 /\ <<w>>[1] = w
      BY DEF Commands
    <3>2. mailLines' = mailLines \o [k \in 1..1 |-> [n |-> asked + k, is |-> <<w>>[k]]]
      BY <1>1, <1>2, <1>9, <3>1, WritesIs
    <3>3. mailLines = <<>>
      BY <1>2, <2>2, MailIs, EmptySeq
    <3>4. mailLines'[1] = [n |-> asked + 1, is |-> <<w>>[1]]
      BY <3>2, <3>3
    <3> QED BY <3>1, <3>4
  <2>5. session \in (IF is = "ok" THEN {AfterOk} ELSE AfterNo)
    BY <1>1, <1>6, <1>9, <2>1
  <2>6. session' \in Unanswered'
    BY <1>2, <1>4, <2>1, <2>5 DEF SaysLine
  <2> QED BY <1>2, <1>5, <1>9, <2>3, <2>4, <2>6 DEF Tracks
<1> QED BY <1>8, <1>9

\* Commands that are written before the body, after which nothing is delivered either.
LEMMA CommandsFollow ==
  ASSUME MailTypes, NothingYet, Early, mailAt \notin {"DATA", "body", "end"},
         NEW ws \in Seq(Commands), ws # <<>>, NEW to, Writes(ws, to), Early',
         \A k \in 1..Len(ws) : ws[k] = "DATA" => k = Len(ws) /\ to = "DATA",
         session' \in {session, "gone", "hello"}, UNCHANGED <<box, delivered>>
  PROVE  NothingYet'
<1>1. /\ delivered = <<>> /\ box = <<>> /\ session # "data"
      /\ \A k \in 1..Len(mailLines) : mailLines[k].is \in Commands /\ mailLines[k].is # "DATA"
  BY DEF NothingYet
<1>2. ws \in Seq(Words) /\ Len(ws) \in Nat /\ Commands \subseteq Words
  <2>1. Commands \subseteq Words
    BY DEF Commands
  <2> QED BY <2>1
<1> DEFINE new == [k \in 1..Len(ws) |-> [n |-> asked + k, is |-> ws[k]]]
<1>3. /\ mailAt' = to /\ (~Gone => mailLines' = mailLines \o new) /\ (Gone => mailLines' = mailLines)
  BY <1>2, WritesIs
<1>4. mailLines \in Seq(LineSet) /\ Len(mailLines) \in Nat /\ new \in Seq(LineSet) /\ Len(new) = Len(ws)
  <2>1. \A k \in 1..Len(ws) : [n |-> asked + k, is |-> ws[k]] \in LineSet
    BY <1>2, MailIs DEF LineSet
  <2>2. new \in [1..Len(ws) -> LineSet]
    BY <2>1
  <2> QED BY <1>2, <2>2, MailIs, IsASeq, LenProperties, SMTT(30)
<1>5. \A k \in 1..Len(new) : new[k].is = ws[k] /\ ws[k] \in Commands
  BY <1>4
<1> HIDE DEF new
<1>6. ASSUME NEW k \in 1..Len(mailLines')
      PROVE  /\ mailLines'[k].is \in Commands
             /\ mailLines'[k].is = "DATA" => k = Len(mailLines') /\ to = "DATA"
  <2>1. CASE Gone
    BY <1>1, <1>3, <2>1
  <2>2. CASE ~Gone
    <3>1. /\ mailLines' = mailLines \o new /\ Len(mailLines') = Len(mailLines) + Len(ws)
          /\ \A j \in 1..Len(mailLines) : mailLines'[j] = mailLines[j]
          /\ \A j \in 1..Len(new) : mailLines'[Len(mailLines) + j] = new[j]
      <4>1. /\ Len(mailLines \o new) = Len(mailLines) + Len(new)
            /\ \A j \in 1..Len(mailLines) : (mailLines \o new)[j] = mailLines[j]
            /\ \A j \in 1..Len(new) : (mailLines \o new)[Len(mailLines) + j] = new[j]
        BY <1>4
      <4> QED BY <1>3, <1>4, <2>2, <4>1, Zenon
    <3>2. CASE k \in 1..Len(mailLines)
      BY <1>1, <3>1, <3>2
    <3>3. CASE k \notin 1..Len(mailLines)
      <4> DEFINE j == k - Len(mailLines)
      <4>1. j \in 1..Len(new) /\ k = Len(mailLines) + j
        BY <1>2, <1>4, <3>1, <3>3
      <4> HIDE DEF j
      <4>2. mailLines'[k].is = ws[j] /\ ws[j] \in Commands
        BY <1>5, <3>1, <4>1
      <4>3. ws[j] = "DATA" => j = Len(ws) /\ to = "DATA"
        BY <1>4, <4>1
      <4> QED BY <1>4, <3>1, <4>1, <4>2, <4>3
    <3> QED BY <3>2, <3>3
  <2> QED BY <2>1, <2>2
<1>7. session' # "data"
  BY <1>1
<1> QED BY <1>1, <1>3, <1>6, <1>7 DEF NothingYet

LEMMA SpeaksKeeps ==
  ASSUME MailInv, NEW is \in {"ok", "no", "none"}, NEW w \in Commands, SaysLine(is, w)
  PROVE  MailInv'
<1>1. /\ BeforeBody /\ Mine /\ Writes(<<w>>, w) /\ mailAt # "DATA" /\ (w = "DATA" => mailAt = "RCPT")
      /\ w # "HELO" /\ (accepted' => w \in {"RCPT", "DATA"}) /\ (w = "EHLO" => caps' = {})
      /\ UNCHANGED <<session, rcpts, box, delivered>>
  BY DEF SaysLine, Mine
<1>2. MailTypes' /\ mailAt' = w /\ BeforeBody' /\ Early' /\ Numbering' /\ Tracks'
  BY SpeaksTypes, SpeaksNumbers, SpeaksTracks
<1>3. MailTypes /\ NothingYet /\ RcptsCount /\ Early /\ mailAt \notin {"DATA", "body", "end"}
  BY <1>1 DEF MailInv, MailTypes, BeforeBody, Early
<1>4. MailUnopened' /\ MailFresh' /\ RcptsCount' /\ TakesBody'
  BY <1>1, <1>2, <1>3 DEF MailUnopened, MailFresh, RcptsCount, TakesBody, Commands, Words
<1>5. <<w>> \in Seq(Commands) /\ <<w>> # <<>> /\ Len(<<w>>) = 1 /\ <<w>>[1] = w
  OBVIOUS
<1>6. \A k \in 1..Len(<<w>>) : <<w>>[k] = "DATA" => k = Len(<<w>>) /\ w = "DATA"
  BY <1>5
<1>7. NothingYet'
  BY <1>1, <1>2, <1>3, <1>5, <1>6, CommandsFollow
<1> QED BY <1>2, <1>4, <1>7 DEF MailInv

LEMMA GivesUpKeeps == MailInv /\ GivesMailUp => MailInv'
<1> SUFFICES ASSUME MailInv, GivesMailUp PROVE MailInv'
  OBVIOUS
<1>1. /\ Mine /\ mailAt' = "end" /\ told' = FALSE /\ UNCHANGED <<mailLines, asked>>
      /\ UNCHANGED <<session, rcpts, box, delivered, mailServer, mail>> /\ accepted' \in BOOLEAN
  BY DEF GivesMailUp, EndsMail, Mine
<1>2. MailTypes /\ NothingYet /\ RcptsCount /\ Early
  BY DEF GivesMailUp, BeforeBody, MailInv, MailTypes, Early
<1>3. replies' \in Seq(ReplySet) /\ slips' \in Nat
  BY <1>2, ReadIs DEF GivesMailUp
<1>4. MailTypes'
  BY <1>1, <1>2, <1>3 DEF MailTypes, ReplySet
<1>5. Early' /\ ~BeforeBody'
  BY <1>1 DEF Early, BeforeBody
<1>6. MailUnopened' /\ MailFresh' /\ RcptsCount' /\ TakesBody' /\ Numbering' /\ Tracks'
  BY <1>1, <1>2, <1>5 DEF MailUnopened, MailFresh, RcptsCount, TakesBody, Numbering, Tracks
<1>7. NothingYet'
  BY <1>1, <1>2 DEF NothingYet
<1> QED BY <1>4, <1>6, <1>7 DEF MailInv

LEMMA GoesAheadKeeps == ASSUME NEW to \in {"tls", "body"} PROVE MailInv /\ GoesAhead(to) => MailInv'
<1> SUFFICES ASSUME MailInv, GoesAhead(to) PROVE MailInv'
  OBVIOUS
<1>1. /\ mailAt \in {"STARTTLS", "DATA"} /\ (to = "tls" <=> mailAt = "STARTTLS") /\ Read("ok")
      /\ mailAt' = to /\ UNCHANGED <<mailLines, asked, accepted, caps, told>>
      /\ UNCHANGED <<session, rcpts, box, delivered, mailServer, mail>>
  BY DEF GoesAhead, Proceeds, Mine
<1>2. MailTypes /\ NothingYet /\ RcptsCount /\ Early /\ BeforeBody /\ MailFresh /\ Tracks /\ told = FALSE
  BY <1>1 DEF BeforeBody, MailInv, MailTypes, Early
<1>3. /\ replies' \in Seq(ReplySet) /\ slips' = slips /\ replies # <<>> /\ replies[1].is = "ok"
      /\ replies' = Tail(replies) /\ slips \in Nat
  BY <1>1, <1>2, ReadIs, MailIs
<1>4. MailTypes'
  BY <1>1, <1>2, <1>3 DEF MailTypes, ReplySet
<1>5. Early' /\ ~BeforeBody' /\ Gone' = Gone /\ Lag' = Lag
  BY <1>1, <1>2, <1>3 DEF Early, BeforeBody, Gone, Lag
<1>6. MailUnopened' /\ MailFresh' /\ RcptsCount' /\ TakesBody'
  BY <1>1, <1>2, <1>5 DEF MailUnopened, MailFresh, RcptsCount, TakesBody
<1>7. NothingYet'
  BY <1>1, <1>2, <1>5 DEF NothingYet
<1>8. Numbering'
  <2>1. Due = asked - Lag /\ Lag \in Nat /\ Due \in Int /\ asked \in Nat
    BY <1>1, <1>2, DueIs, MailIs
  <2>2. Due' = asked' + (1 - Lag')
    BY <1>1, <1>5 DEF Due
  <2>3. Due' = Due + 1
    BY <1>1, <1>5, <2>1, <2>2
  <2>4. NumberedFrom(Due, replies, mailLines, asked, Gone)
    BY <1>1 DEF MailInv, Numbering
  <2>5. NumberedFrom(Due + 1, Tail(replies), mailLines, asked, Gone)
    BY <1>2, <1>3, <2>1, <2>4, MailIs, ReadFirst
  <2> QED BY <1>1, <1>3, <1>5, <2>3, <2>5 DEF Numbering
<1>9. Tracks'
  <2>1. SUFFICES ASSUME Lag = 0 PROVE Tracks'
    BY <1>5 DEF Tracks
  <2>2. session = AfterOk
    BY <1>1, <1>2, <1>3, <2>1 DEF Tracks
  <2> QED BY <1>1, <1>5, <2>2 DEF Tracks, AfterOk
<1> QED BY <1>4, <1>6, <1>7, <1>8, <1>9 DEF MailInv

LEMMA SaysHeloKeeps == MailInv /\ SaysHelo => MailInv'
<1> SUFFICES ASSUME MailInv, SaysHelo PROVE MailInv'
  OBVIOUS
<1>1. /\ mailAt = "EHLO" /\ Writes(HeloLines, "HELO") /\ UNCHANGED <<accepted, caps, told>>
      /\ UNCHANGED <<session, rcpts, box, delivered, mailServer, mail>>
  BY DEF SaysHelo, Mine
<1>2. /\ MailTypes /\ NothingYet /\ RcptsCount /\ Early /\ BeforeBody /\ caps = {} /\ accepted = FALSE
      /\ told = FALSE
  BY <1>1 DEF BeforeBody, MailInv, MailTypes, MailFresh, Early
<1>3. PICK is \in {"no", "none"} : Read(is)
  BY DEF SaysHelo
<1>4. HeloLines \in Seq(Commands) /\ HeloLines # <<>> /\ Len(HeloLines) = 2 /\ Commands \subseteq Words
  <2>1. "HELO" \in Commands /\ Commands \subseteq Words
    BY DEF Commands, Words
  <2> QED BY <2>1 DEF HeloLines
<1>5. HeloLines \in Seq(Words)
  BY DEF HeloLines, Words
<1>6. mailLines' \in Seq(LineSet) /\ asked' \in Nat /\ asked' = asked + 2 /\ mailAt' = "HELO"
  BY <1>1, <1>2, <1>4, <1>5, WritesIs
<1>7. /\ replies' \in Seq(ReplySet) /\ slips' \in Nat
      /\ slips' = slips + (IF replies # <<>> \/ Gone THEN 0 ELSE 1)
  BY <1>2, <1>3, ReadIs
<1>8. MailTypes'
  BY <1>1, <1>2, <1>6, <1>7 DEF MailTypes, ReplySet, LineSet
<1>9. BeforeBody' /\ Early' /\ Gone' = Gone
  BY <1>1, <1>2, <1>6 DEF BeforeBody, Early, Gone
<1>10. MailUnopened' /\ MailFresh' /\ RcptsCount' /\ TakesBody' /\ Tracks'
  BY <1>1, <1>2, <1>6, <1>9 DEF MailUnopened, MailFresh, RcptsCount, TakesBody, Tracks
<1>11. NothingYet'
  <2>1. \A k \in 1..Len(HeloLines) : HeloLines[k] = "DATA" => k = Len(HeloLines) /\ "HELO" = "DATA"
    BY DEF HeloLines
  <2> QED BY <1>1, <1>2, <1>4, <1>9, <2>1, CommandsFollow
<1>12. Numbering'
  <2> DEFINE turn == IF replies # <<>> \/ Gone THEN 1 ELSE 0
  <2>1. NumberedFrom(Due, replies, mailLines, asked, Gone) /\ Due \in Int
    BY <1>1, <1>2, DueIs DEF MailInv, Numbering
  <2>2. NumberedFrom(Due + turn, replies', mailLines', asked', Gone)
    BY <1>1, <1>2, <1>3, <1>4, <1>5, <2>1, ReadNumbers
  <2>3. asked \in Nat /\ slips \in Nat /\ Due = asked - slips
    <3>1. asked \in Nat /\ slips \in Nat
      BY <1>2, MailIs
    <3>2. Lag = slips
      BY <1>2, <3>1 DEF Lag
    <3> QED BY <1>1, <1>2, <3>1, <3>2, DueIs
  <2>4. Due' = asked' - slips' - 1
    <3>1. Due' = asked' + (-(slips' + 1))
      BY <1>6 DEF Due
    <3>2. \A x, y \in Nat : x + (-(y + 1)) = x - y - 1
      OBVIOUS
    <3> QED BY <1>6, <1>7, <3>1, <3>2, Zenon
  <2>5. slips' = slips + 1 - turn /\ turn \in 0..1
    BY <1>7, <2>3
  <2> HIDE DEF turn
  <2>6. Due' = Due + turn
    BY <1>6, <2>3, <2>4, <2>5
  <2> QED BY <1>9, <2>2, <2>6 DEF Numbering
<1> QED BY <1>8, <1>10, <1>11, <1>12 DEF MailInv

LEMMA AnswersReadKeep == MailInv /\ AnswersRead => MailInv'
BY SpeaksKeeps, GivesUpKeeps, GoesAheadKeeps, SaysHeloKeeps DEF AnswersRead

LEMMA ConnectsKeep == MailInv /\ SMTPConnects => MailInv'
<1> SUFFICES ASSUME MailInv, SMTPConnects PROVE MailInv'
  OBVIOUS
<1>1. /\ mailAt = "connect" /\ UNCHANGED <<mailServer, mail, unasked, accepted, caps, rcpts, box, delivered, slips>>
      /\ UNCHANGED <<mailLines, asked>> /\ told' = FALSE
  BY DEF SMTPConnects, EndsMail, Proceeds, MailInv, MailTypes
<1>2. /\ MailTypes /\ NothingYet /\ RcptsCount /\ Early /\ told = FALSE /\ caps = {} /\ accepted = FALSE
      /\ session = "gone" /\ mailLines = <<>> /\ replies = <<>> /\ slips = 0 /\ asked = 0
  BY <1>1 DEF MailInv, MailTypes, MailFresh, MailUnopened, Early, Gone
<1>3. CASE mailAt' = "end" /\ UNCHANGED <<replies, session>>
  <2>1. MailTypes' /\ Early' /\ ~BeforeBody'
    BY <1>1, <1>2, <1>3 DEF MailTypes, Early, BeforeBody
  <2>2. MailUnopened' /\ MailFresh' /\ RcptsCount' /\ TakesBody' /\ Numbering' /\ Tracks'
    BY <1>1, <1>2, <1>3, <2>1 DEF MailUnopened, MailFresh, RcptsCount, TakesBody, Numbering, Tracks
  <2>3. NothingYet'
    BY <1>1, <1>2, <1>3 DEF NothingYet
  <2> QED BY <2>1, <2>2, <2>3 DEF MailInv
<1>4. ASSUME NEW is \in {"ok", "no"}, mailAt' = "greeting", session' = "new",
             replies' = <<[to |-> 0, is |-> is]>>
      PROVE  MailInv'
  <2>1. replies' \in Seq([to : Int, is : {"ok", "no"}]) /\ Len(replies') = 1 /\ replies' # <<>>
        /\ replies'[1].to = 0
    BY <1>4
  <2>2. MailTypes' /\ Early' /\ BeforeBody' /\ ~Gone'
    BY <1>1, <1>2, <1>4, <2>1 DEF MailTypes, Early, BeforeBody, Gone
  <2>3. MailUnopened' /\ MailFresh' /\ RcptsCount' /\ TakesBody'
    BY <1>1, <1>2, <1>4, <2>2 DEF MailUnopened, MailFresh, RcptsCount, TakesBody
  <2>4. Tracks'
    BY <1>4, <2>1, <2>2 DEF Tracks, AfterOk
  <2>5. Numbering'
    <3>1. Due' = 0
      <4>1. "helo" \notin caps' /\ slips' = 0 /\ asked' = 0
        BY <1>1, <1>2
      <4>2. Lag' = 0 + 0
        BY <4>1, Zenon DEF Lag
      <4>3. Lag' = 0
        BY <4>2
      <4>4. mailAt' # "HELO"
        BY <1>4
      <4>5. Due' = 0 + (-0)
        BY <2>2, <4>1, <4>3, <4>4, Zenon DEF Due
      <4> QED BY <4>5
    <3>2. Len(mailLines') = 0 /\ asked' = 0
      BY <1>1, <1>2
    <3>3. NumberedFrom(0, replies', mailLines', 0, FALSE)
      BY <2>1, <3>2 DEF NumberedFrom
    <3>4. Gone' = FALSE
      BY <2>2 DEF Gone
    <3> QED BY <3>1, <3>2, <3>3, <3>4 DEF Numbering
  <2>6. NothingYet'
    BY <1>1, <1>2, <1>4 DEF NothingYet
  <2> QED BY <2>2, <2>3, <2>4, <2>5, <2>6 DEF MailInv
<1> QED BY <1>3, <1>4 DEF SMTPConnects, EndsMail, Proceeds

\* What may be written when STARTTLS is over.
LoginLines == {"AUTH LOGIN", "AUTH PLAIN", "MAIL"}

LEMMA NegotiatesKeep == MailInv /\ Negotiates => MailInv'
<1> SUFFICES ASSUME MailInv, Negotiates PROVE MailInv'
  OBVIOUS
<1>1. /\ mailAt = "tls" /\ UNCHANGED <<mailServer, mail, rcpts, box, delivered, slips>>
      /\ UNCHANGED <<unasked, accepted, caps, told>>
  BY DEF Negotiates, Otherwise
<1>2. /\ MailTypes /\ NothingYet /\ RcptsCount /\ Early /\ told = FALSE /\ accepted = FALSE
      /\ slips \in Nat /\ asked \in Nat
  BY <1>1, MailIs DEF MailInv, MailTypes, MailFresh, Early
<1>3. /\ NumberedFrom(Due, replies, mailLines, asked, Gone) /\ Due = asked + 1 - Lag /\ Lag \in Nat
      /\ Due \in Int
  BY <1>1, <1>2, DueIs DEF MailInv, Numbering, BeforeBody
<1>4. ASSUME NEW w \in LoginLines, session = "tls", mailLines = <<>>,
             replies = <<>>, session' = "hello", Writes(<<w>>, w), UNCHANGED replies
      PROVE  MailInv'
  <2>1. <<w>> \in Seq(Words) /\ <<w>> \in Seq(Commands) /\ <<w>> # <<>> /\ Len(<<w>>) = 1
        /\ <<w>>[1] = w /\ w \in Commands
    <3>1. w \in Words /\ w \in Commands
      BY DEF Commands, Words, LoginLines
    <3>2. <<w>> \in Seq(Words)
      BY <3>1
    <3>3. <<w>> \in Seq(Commands)
      BY <3>1
    <3>4. <<w>> # <<>> /\ Len(<<w>>) = 1 /\ <<w>>[1] = w
      OBVIOUS
    <3> QED BY <3>1, <3>2, <3>3, <3>4
  <2>2. /\ mailLines' \in Seq(LineSet) /\ asked' \in Nat /\ asked' = asked + 1 /\ mailAt' = w
        /\ NumberedFrom(Due, replies, mailLines', asked', Gone)
    BY <1>2, <1>3, <1>4, <2>1, WritesIs, MailIs
  <2>3. MailTypes' /\ Early' /\ BeforeBody' /\ ~Gone /\ ~Gone' /\ Gone' = Gone
    <3>1. MailTypes'
      BY <1>1, <1>2, <1>4, <2>1, <2>2 DEF MailTypes, LineSet
    <3>2. Early' /\ BeforeBody'
      BY <1>1, <1>2, <1>4, <2>2 DEF Early, BeforeBody, LoginLines
    <3> QED BY <1>4, <3>1, <3>2 DEF Gone
  <2>4. MailUnopened' /\ MailFresh' /\ RcptsCount' /\ TakesBody'
    BY <1>1, <1>2, <1>4, <2>2, <2>3 DEF MailUnopened, MailFresh, RcptsCount, TakesBody, LoginLines
  <2>5. Numbering'
    <3>1. Lag' = Lag
      BY <1>1 DEF Lag
    <3>2. Due' = asked' + (-Lag')
      BY <1>4, <2>2, <2>3 DEF Due, LoginLines
    <3>3. Due' = (asked + 1) + (-Lag)
      BY <2>2, <3>1, <3>2, Zenon
    <3>4. (asked + 1) + (-Lag) = Due
      BY <1>2, <1>3
    <3> QED BY <1>4, <2>2, <2>3, <3>3, <3>4 DEF Numbering
  <2>6. mailLines'[1].is = w
    <3>1. mailLines' = mailLines \o [k \in 1..1 |-> [n |-> asked + k, is |-> <<w>>[k]]]
      BY <1>2, <1>4, <2>1, <2>3, WritesIs
    <3>2. mailLines = <<>>
      BY <1>4
    <3>3. mailLines'[1] = [n |-> asked + 1, is |-> <<w>>[1]]
      BY <3>1, <3>2
    <3>4. <<w>>[1] = w
      OBVIOUS
    <3> QED BY <3>3, <3>4
  <2>7. session' \in Unanswered'
    BY <1>4, <2>2 DEF Unanswered, LoginLines
  <2>8. Tracks'
    BY <1>4, <2>2, <2>3, <2>6, <2>7 DEF Tracks, LoginLines
  <2>9. NothingYet'
    <3>1. \A k \in 1..Len(<<w>>) : <<w>>[k] = "DATA" => k = Len(<<w>>) /\ w = "DATA"
      <4>1. Len(<<w>>) = 1 /\ <<w>>[1] = w
        OBVIOUS
      <4> QED BY <4>1
    <3> QED BY <1>1, <1>2, <1>4, <2>1, <2>3, <3>1, CommandsFollow
  <2> QED BY <2>3, <2>4, <2>5, <2>8, <2>9 DEF MailInv
<1>5. ASSUME NEW w \in LoginLines, session' = "gone", replies' = <<>>,
             mailLines' = <<>>, asked' = asked + 1, mailAt' = w
      PROVE  MailInv'
  <2>1. replies' \in Seq([to : Int, is : {"ok", "no"}]) /\ mailLines' \in Seq([n : Int, is : Words])
    BY <1>5, EmptySeq, Zenon
  <2>2. MailTypes' /\ Early' /\ BeforeBody' /\ Gone' = TRUE
    <3>a. asked + 1 \in Nat
      BY <1>2
    <3>b. mailAt' \in Commands
      BY <1>5 DEF Commands, Words, LoginLines
    <3>1. mailAt' \in Commands /\ asked' \in Nat
      BY <1>5, <3>a, <3>b, Zenon
    <3> QED BY <1>1, <1>2, <1>5, <2>1, <3>1 DEF MailTypes, Early, BeforeBody, Gone, LoginLines
  <2>3. MailUnopened' /\ MailFresh' /\ RcptsCount' /\ TakesBody' /\ Tracks'
    BY <1>1, <1>2, <1>5, <2>2 DEF MailUnopened, MailFresh, RcptsCount, TakesBody, Tracks, LoginLines
  <2>4. Numbering'
    <3>1. Lag' = Lag
      BY <1>1 DEF Lag
    <3>2. Due' = asked' + (-Lag')
      BY <1>5, <2>2 DEF Due, LoginLines
    <3>3. Due' = (asked + 1) + (-Lag)
      BY <1>5, <3>1, <3>2, Zenon
    <3> DEFINE d == (asked + 1) + (-Lag)
    <3>4. d + 0 <= (asked + 1) + 1
      BY <1>2, <1>3
    <3> HIDE DEF d
    <3>5. NumberedFrom(d, <<>>, <<>>, asked + 1, TRUE)
      BY <3>4 DEF NumberedFrom
    <3>6. NumberedFrom(Due', replies', mailLines', asked', TRUE)
      BY <1>5, <3>3, <3>5, Zenon DEF d
    <3> QED BY <2>2, <3>6 DEF Numbering
  <2>5. NothingYet'
    <3>0. Len(mailLines') = 0
      BY <1>5
    <3>1. 1..Len(mailLines') = {}
      BY <3>0
    <3> QED BY <1>1, <1>2, <1>5, <3>1 DEF NothingYet
  <2> QED BY <2>2, <2>3, <2>4, <2>5 DEF MailInv
<1>6. CASE /\ session = "tls" /\ mailLines = <<>> /\ replies = <<>> /\ session' = "hello"
           /\ LoginOrMail(caps) /\ UNCHANGED replies
  BY <1>4, <1>6, LoginsSpeak DEF LoginLines
<1>7. CASE /\ session' = "gone" /\ replies' = <<>> /\ mailLines' = <<>> /\ asked' = asked + 1
           /\ mailAt' = (IF mail.user /\ caps \cap AuthCaps # {} THEN
                           (IF "login" \in caps THEN "AUTH LOGIN" ELSE "AUTH PLAIN") ELSE "MAIL")
  <2>1. mailAt' \in {"AUTH LOGIN", "AUTH PLAIN", "MAIL"}
    BY <1>7
  <2> QED BY <1>5, <1>7, <2>1 DEF LoginLines
<1> QED BY <1>6, <1>7 DEF Negotiates

-----------------------------------------------------------------------------
(* The server, before the body is sent                                     *)

LEMMA Reacts ==
  ASSUME session # "data", session # "gone", NEW line \in Words, NEW r \in Reactions(line)
  PROVE  /\ r[1] \in {"", "ok", "no"} /\ (r[1] = "" => r[2] = "gone")
         /\ r[1] # "" /\ line # "QUIT" => r[2] # "gone"
         /\ r[2] = "data" => line = "DATA" /\ session = "rcpt"
         /\ r[2] = "rcpt" => session = "rcpt" \/ (line = "RCPT" /\ r[1] = "ok")
         /\ line = mailAt /\ line # "QUIT" /\ session \in Unanswered =>
              (r[1] = "ok" => r[2] = AfterOk) /\ (r[1] = "no" => r[2] \in AfterNo)
<1>1. CASE session = "tls"
  <2>1. r = <<"", "gone">>
    BY <1>1 DEF Reactions
  <2> QED BY <2>1
<1>2. CASE session \in {"user", "pass"}
  <2>1. r \in {<<"ok", "pass">>, <<"no", "hello">>, <<"ok", "hello">>}
    BY <1>2 DEF Reactions
  <2>2. session = "user" => r \in {<<"ok", "pass">>, <<"no", "hello">>}
    BY <1>2 DEF Reactions
  <2>3. session = "pass" => r \in {<<"ok", "hello">>, <<"no", "hello">>}
    BY <1>2 DEF Reactions
  <2>4. session \in Unanswered => session = mailAt
    BY <1>2 DEF Unanswered
  <2>5. r[1] \in {"ok", "no"} /\ r[2] \in {"pass", "hello"}
    BY <2>1
  <2>6. ASSUME session \in Unanswered
        PROVE  (r[1] = "ok" => r[2] = AfterOk) /\ (r[1] = "no" => r[2] \in AfterNo)
    <3>a. AfterNo = {"hello"} /\ (mailAt = "user" => AfterOk = "pass") /\ (mailAt = "pass" => AfterOk = "hello")
      BY <1>2, <2>4, <2>6, Zenon DEF AfterOk, AfterNo
    <3>1. CASE session = "user"
      BY <2>2, <2>4, <2>6, <3>1, <3>a
    <3>2. CASE session = "pass"
      BY <2>3, <2>4, <2>6, <3>2, <3>a
    <3> QED BY <1>2, <3>1, <3>2
  <2> QED BY <2>5, <2>6
<1>3. CASE session \notin {"tls", "user", "pass"} /\ line = "QUIT"
  <2>1. r = <<"ok", "gone">>
    BY <1>3 DEF Reactions
  <2> QED BY <1>3, <2>1
<1>4. CASE session \notin {"tls", "user", "pass"} /\ line # "QUIT"
  <2>1. r = <<"no", session>> \/ r = <<"", "gone">> \/ (Takes(line) /\ r = <<"ok", Becomes(line)>>)
    BY <1>4 DEF Reactions
  <2>2. CASE r = <<"no", session>>
    BY <1>4, <2>2 DEF AfterNo, Unanswered
  <2>3. CASE r = <<"", "gone">>
    BY <2>3
  <2>4. CASE Takes(line) /\ r = <<"ok", Becomes(line)>>
    <3>1. /\ line \in {"EHLO", "HELO", "STARTTLS", "AUTH LOGIN", "AUTH PLAIN", "MAIL", "RCPT", "DATA"}
          /\ line = "DATA" => session = "rcpt"
      BY <2>4 DEF Takes, Words
    <3>2. /\ line \in {"EHLO", "HELO", "AUTH PLAIN"} => Becomes(line) = "hello"
          /\ line = "STARTTLS" => Becomes(line) = "tls"
          /\ line = "AUTH LOGIN" => Becomes(line) = "user"
          /\ line = "MAIL" => Becomes(line) = "mail"
          /\ line = "RCPT" => Becomes(line) = "rcpt"
          /\ line = "DATA" => Becomes(line) = "data"
      BY DEF Becomes
    <3> QED BY <1>4, <2>4, <3>1, <3>2 DEF AfterOk
  <2> QED BY <2>1, <2>2, <2>3, <2>4
<1> QED BY <1>1, <1>2, <1>3, <1>4

\* What a line taken before the body comes to.
LEMMA TakesIs ==
  ASSUME MailTypes, ServerTakes, session # "data"
  PROVE  /\ mailLines # <<>> /\ ~Gone /\ mailLines' = Tail(mailLines) /\ box' = <<>>
         /\ delivered' = delivered
         /\ UNCHANGED <<mailServer, mail, mailAt, unasked, accepted, caps, told, asked, slips>>
         /\ Head(mailLines) = mailLines[1] /\ Head(mailLines).is \in Words /\ 1 \in 1..Len(mailLines)
         /\ Tail(mailLines) \in Seq(LineSet) /\ Len(Tail(mailLines)) = Len(mailLines) - 1
         /\ \A k \in 1..Len(Tail(mailLines)) : Tail(mailLines)[k] = mailLines[k + 1]
         /\ \E r \in Reactions(Head(mailLines).is) :
              /\ session' = r[2]
              /\ r[1] = "" => replies' = replies
              /\ r[1] # "" => replies' = Append(replies, [to |-> Head(mailLines).n, is |-> r[1]])
              /\ rcpts' = (IF Head(mailLines).is = "RCPT" /\ r[2] = "rcpt" /\ r[1] = "ok"
                           THEN rcpts + 1 ELSE rcpts)
<1>1. mailLines # <<>> /\ mailLines \in Seq(LineSet) /\ Len(mailLines) \in Nat
  BY MailIs DEF ServerTakes
<1>2. /\ Head(mailLines) = mailLines[1] /\ Head(mailLines) \in LineSet
      /\ Tail(mailLines) \in Seq(LineSet) /\ Len(Tail(mailLines)) = Len(mailLines) - 1
      /\ \A k \in 1..Len(Tail(mailLines)) : Tail(mailLines)[k] = mailLines[k + 1]
  BY <1>1, HeadTailProperties
<1>3. Head(mailLines).is \in Words /\ 1 \in 1..Len(mailLines)
  BY <1>1, <1>2 DEF LineSet
<1> QED BY <1>1, <1>2, <1>3 DEF ServerTakes

LEMMA EarlyTakesKeep == MailInv /\ Early /\ ServerTakes => MailInv'
<1> SUFFICES ASSUME MailInv, Early, ServerTakes PROVE MailInv'
  OBVIOUS
<1>1. MailTypes /\ NothingYet /\ RcptsCount /\ MailFresh /\ MailUnopened /\ Tracks /\ Numbering
  BY DEF MailInv
<1>2. session # "data" /\ session # "gone"
  BY <1>1 DEF ServerTakes, NothingYet, Gone
<1> DEFINE line == Head(mailLines)
<1>3. /\ mailLines # <<>> /\ ~Gone /\ mailLines' = Tail(mailLines) /\ box' = <<>> /\ delivered' = delivered
      /\ UNCHANGED <<mailServer, mail, mailAt, unasked, accepted, caps, told, asked, slips>>
      /\ line = mailLines[1] /\ line.is \in Words /\ 1 \in 1..Len(mailLines)
      /\ Tail(mailLines) \in Seq(LineSet) /\ Len(Tail(mailLines)) = Len(mailLines) - 1
      /\ \A k \in 1..Len(Tail(mailLines)) : Tail(mailLines)[k] = mailLines[k + 1]
  BY <1>1, <1>2, TakesIs
<1>4. PICK r \in Reactions(line.is) :
        /\ session' = r[2]
        /\ r[1] = "" => replies' = replies
        /\ r[1] # "" => replies' = Append(replies, [to |-> line.n, is |-> r[1]])
        /\ rcpts' = (IF line.is = "RCPT" /\ r[2] = "rcpt" /\ r[1] = "ok" THEN rcpts + 1 ELSE rcpts)
  BY <1>1, <1>2, TakesIs
<1>5. line.is \in Commands /\ (line.is = "DATA" => 1 = Len(mailLines) /\ mailAt \in {"DATA", "body", "end"})
  BY <1>1, <1>3 DEF NothingYet
<1>6. /\ r[1] \in {"", "ok", "no"} /\ (r[1] = "" => r[2] = "gone") /\ (r[1] # "" => r[2] # "gone")
      /\ r[2] = "data" => line.is = "DATA" /\ session = "rcpt"
      /\ r[2] = "rcpt" => session = "rcpt" \/ (line.is = "RCPT" /\ r[1] = "ok")
      /\ line.is = mailAt /\ session \in Unanswered =>
           (r[1] = "ok" => r[2] = AfterOk) /\ (r[1] = "no" => r[2] \in AfterNo)
  <2>1. line.is # "QUIT"
    BY <1>5 DEF Commands
  <2> DEFINE is == line.is
  <2>2. is \in Words /\ r \in Reactions(is) /\ is # "QUIT"
    BY <1>3, <2>1
  <2> HIDE DEF is
  <2>3. /\ r[1] \in {"", "ok", "no"} /\ (r[1] = "" => r[2] = "gone") /\ (r[1] # "" => r[2] # "gone")
        /\ r[2] = "data" => is = "DATA" /\ session = "rcpt"
        /\ r[2] = "rcpt" => session = "rcpt" \/ (is = "RCPT" /\ r[1] = "ok")
        /\ is = mailAt /\ session \in Unanswered =>
             (r[1] = "ok" => r[2] = AfterOk) /\ (r[1] = "no" => r[2] \in AfterNo)
    BY <1>2, <2>2, Reacts, ZenonT(30)
  <2> QED BY <2>3 DEF is
<1> HIDE DEF line
<1>7. /\ replies' \in Seq(ReplySet) /\ rcpts' \in Nat
      /\ mailAt \notin {"connect", "sent", "QUIT", "end"} =>
           NumberedFrom(Due, replies', mailLines', asked, IF r[1] = "" THEN TRUE ELSE FALSE)
  <2>1. rcpts' \in Nat
    <3>a. rcpts \in Nat
      BY <1>1, Zenon DEF MailTypes
    <3>1. rcpts \in Nat /\ rcpts + 1 \in Nat
      BY <3>a
    <3> QED BY <1>4, <3>1, Zenon
  <2>2. replies \in Seq(ReplySet) /\ mailLines \in Seq(LineSet) /\ Due \in Int /\ asked \in Int
    BY <1>1, MailIs, DueIs
  <2>3. line \in LineSet
    BY <1>3, <2>2
  <2>4. replies' \in Seq(ReplySet)
    <3>1. CASE r[1] = ""
      BY <1>4, <2>2, <3>1
    <3>2. CASE r[1] # ""
      <4>1. [to |-> line.n, is |-> r[1]] \in ReplySet
        BY <1>6, <2>3, <3>2 DEF ReplySet, LineSet
      <4> QED BY <1>4, <2>2, <3>2, <4>1, AppendProperties
    <3> QED BY <3>1, <3>2
  <2>5. ASSUME mailAt \notin {"connect", "sent", "QUIT", "end"}
        PROVE  NumberedFrom(Due, replies', mailLines', asked, IF r[1] = "" THEN TRUE ELSE FALSE)
    <3>1. Gone = FALSE
      BY <1>3 DEF Gone
    <3>2. NumberedFrom(Due, replies, mailLines, asked, FALSE)
      BY <1>1, <2>5, <3>1 DEF Numbering
    <3>3. CASE r[1] = ""
      <4>1. NumberedFrom(Due, replies, Tail(mailLines), asked, TRUE)
        BY <1>3, <2>2, <3>2, ServerReads
      <4> QED BY <1>3, <1>4, <3>3, <4>1
    <3>4. CASE r[1] # ""
      <4>1. r[1] \in {"ok", "no"}
        BY <1>6, <3>4
      <4>2. NumberedFrom(Due, Append(replies, [to |-> line.n, is |-> r[1]]), Tail(mailLines), asked, FALSE)
        BY <1>3, <2>2, <3>2, <4>1, ServerReads DEF line
      <4> QED BY <1>3, <1>4, <3>4, <4>2
    <3> QED BY <3>3, <3>4
  <2> QED BY <2>1, <2>4, <2>5
<1>8. Gone' = (IF r[1] = "" THEN TRUE ELSE FALSE)
  BY <1>4, <1>6 DEF Gone
<1>9. Due' = Due /\ Lag' = Lag /\ Early' /\ (BeforeBody <=> BeforeBody')
  BY <1>3 DEF Due, Lag, Early, BeforeBody
<1>10. MailTypes'
  <2>1. mailLines' \in Seq(LineSet) /\ replies' \in Seq(ReplySet) /\ rcpts' \in Nat
    BY <1>3, <1>7
  <2> QED BY <1>1, <1>3, <2>1 DEF MailTypes, LineSet, ReplySet
<1>11. Numbering'
  BY <1>3, <1>7, <1>8, <1>9 DEF Numbering
<1>12. MailUnopened' /\ MailFresh' /\ TakesBody'
  BY <1>1, <1>3, <1>9 DEF MailUnopened, MailFresh, TakesBody, Gone
<1>13. RcptsCount'
  <2>1. rcpts \in Nat /\ rcpts + 1 > 0 /\ (session = "rcpt" => rcpts > 0)
    <3>1. rcpts \in Nat /\ (session = "rcpt" => rcpts > 0)
      BY <1>1, Zenon DEF RcptsCount, MailTypes
    <3> QED BY <3>1
  <2>2. session' \in {"rcpt", "data"} => session = "rcpt" \/ rcpts' = rcpts + 1
    BY <1>4, <1>6
  <2>3. rcpts' = rcpts \/ rcpts' = rcpts + 1
    BY <1>4
  <2> QED BY <2>1, <2>2, <2>3, Zenon DEF RcptsCount
<1>14. NothingYet'
  <2>1. ASSUME NEW k \in 1..Len(mailLines')
        PROVE  /\ mailLines'[k].is \in Commands
               /\ mailLines'[k].is = "DATA" => k = Len(mailLines') /\ mailAt \in {"DATA", "body", "end"}
    <3>1. k + 1 \in 1..Len(mailLines) /\ mailLines'[k] = mailLines[k + 1] /\ Len(mailLines') = Len(mailLines) - 1
          /\ Len(mailLines) \in Nat
      BY <1>1, <1>3, MailIs
    <3>2. /\ mailLines[k + 1].is \in Commands
          /\ mailLines[k + 1].is = "DATA" => k + 1 = Len(mailLines) /\ mailAt \in {"DATA", "body", "end"}
      BY <1>1, <3>1 DEF NothingYet
    <3> QED BY <3>1, <3>2
  <2>2. session' = "data" => mailLines' = <<>> /\ mailAt \in {"DATA", "body", "end"}
    <3>1. session' = "data" => 1 = Len(mailLines) /\ mailAt \in {"DATA", "body", "end"}
      BY <1>4, <1>5, <1>6
    <3>2. 1 = Len(mailLines) => Len(mailLines') = 0
      BY <1>3
    <3>3. Len(mailLines') = 0 => mailLines' = <<>>
      BY <1>3, EmptySeq
    <3> QED BY <3>1, <3>2, <3>3
  <2> QED BY <1>1, <1>3, <2>1, <2>2 DEF NothingYet
<1>15. Tracks'
  <2>1. SUFFICES ASSUME Lag = 0, mailAt # "HELO" PROVE Tracks'
    BY <1>3, <1>9 DEF Tracks
  <2>2. mailAt \notin {"tls", "body"}
    <3>1. SUFFICES ASSUME mailAt \in {"tls", "body"} PROVE FALSE
      OBVIOUS
    <3>2. NumberedFrom(Due, replies, mailLines, asked, Gone) /\ Due = asked + 1 - 0
      BY <1>1, <2>1, <3>1, DueIs DEF Numbering, BeforeBody
    <3>3. Len(replies) \in Nat /\ Len(mailLines) \in Nat /\ asked \in Nat /\ 1 <= Len(mailLines)
      BY <1>1, <1>3, MailIs
    <3>4. Due + Len(replies) + Len(mailLines) = asked + 1
      BY <1>3, <3>2 DEF NumberedFrom
    <3> QED BY <3>2, <3>3, <3>4
  <2>3. CASE ~BeforeBody
    BY <1>3, <1>9, <2>2, <2>3 DEF Tracks
  <2>4. CASE BeforeBody
    <3>1. replies = <<>>
      <4>1. Len(replies) + Len(mailLines) = 1
        BY <1>3, <2>1, <2>4, OneIsNext
      <4>2. Len(replies) \in Nat /\ Len(mailLines) \in Nat /\ 1 <= Len(mailLines) /\ replies \in Seq(ReplySet)
        BY <1>1, <1>3, MailIs
      <4>3. Len(replies) = 0
        <5> DEFINE a == Len(replies)
                   b == Len(mailLines)
        <5>1. a + b = 1 /\ a \in Nat /\ b \in Nat /\ 1 <= b
          BY <4>1, <4>2
        <5> HIDE DEF a, b
        <5>2. a = 0
          BY <5>1
        <5> QED BY <5>2 DEF a
      <4> QED BY <4>2, <4>3, EmptySeq
    <3>2. mailAt # "greeting"
      BY <1>1, <1>3 DEF MailUnopened
    <3>3. session \in Unanswered /\ line.is = mailAt
      BY <1>1, <1>3, <2>1, <2>4, <3>1, <3>2 DEF Tracks
    <3>4. (r[1] = "ok" => r[2] = AfterOk) /\ (r[1] = "no" => r[2] \in AfterNo)
      BY <1>6, <3>3
    <3>5. AfterOk' = AfterOk /\ AfterNo' = AfterNo
      BY <1>3 DEF AfterOk, AfterNo, Unanswered
    <3>6. CASE r[1] = ""
      BY <1>3, <1>4, <1>8, <2>2, <3>1, <3>6 DEF Tracks
    <3>7. CASE r[1] # ""
      <4>1. replies' = <<[to |-> line.n, is |-> r[1]]>>
        <5>1. replies' = Append(<<>>, [to |-> line.n, is |-> r[1]])
          BY <1>4, <3>1, <3>7, Zenon
        <5> QED BY <5>1
      <4>2. replies' # <<>> /\ replies'[1].is = r[1] /\ ~Gone'
        BY <1>8, <3>7, <4>1
      <4> QED BY <1>3, <1>4, <2>2, <3>4, <3>5, <4>2 DEF Tracks
    <3> QED BY <3>6, <3>7
  <2> QED BY <2>3, <2>4
<1> QED BY <1>10, <1>11, <1>12, <1>13, <1>14, <1>15 DEF MailInv

-----------------------------------------------------------------------------
(* The lines of the body                                                   *)

Kinds == {"text", "dot", "dotted"}

LEMMA KeptIs == /\ \A k \in Kinds : Kept(k) \in KeptKinds /\ (k # "dotted" => Kept(k) = k)
BY DEF Kept, Kinds, KeptKinds

LEMMA TextIs ==
  ASSUME MailTypes
  PROVE  /\ Text \in Seq(Kinds) /\ Len(Text) \in Nat
         /\ NoDots => \A k \in 1..Len(Text) : Text[k] \notin {"dot", "dotted"}
<1> DEFINE first == IF mail.from = "text" THEN <<"text">> ELSE <<>>
<1>1. mail.message \in Seq(Kinds)
  BY Zenon DEF MailTypes, Kinds
<1>2. /\ first \in Seq(Kinds) /\ Len(first) \in Nat
      /\ \A k \in 1..Len(first) : first[k] = "text"
  <2>1. <<"text">> \in Seq(Kinds) /\ Len(<<"text">>) = 1 /\ <<"text">>[1] = "text"
    BY DEF Kinds
  <2>2. <<>> \in Seq(Kinds) /\ Len(<<>>) = 0
    BY EmptySeq
  <2>3. CASE mail.from = "text"
    BY <2>1, <2>3
  <2>4. CASE mail.from # "text"
    BY <2>2, <2>4
  <2> QED BY <2>3, <2>4
<1> HIDE DEF first
<1>3. /\ first \o mail.message \in Seq(Kinds)
      /\ Len(first \o mail.message) = Len(first) + Len(mail.message)
      /\ Len(mail.message) \in Nat
      /\ \A k \in 1..Len(first) : (first \o mail.message)[k] = first[k]
      /\ \A k \in 1..Len(mail.message) : (first \o mail.message)[Len(first) + k] = mail.message[k]
  BY <1>1, <1>2
<1>4. Text = first \o mail.message
  BY DEF Text, first
<1>5. ASSUME NoDots, NEW k \in 1..Len(Text) PROVE Text[k] \notin {"dot", "dotted"}
  <2>1. DOMAIN mail.message = 1..Len(mail.message)
    BY <1>1
  <2>2. \A j \in 1..Len(mail.message) : mail.message[j] \notin {"dot", "dotted"}
    BY <1>5, <2>1, Zenon DEF NoDots
  <2>3. CASE k \in 1..Len(first)
    BY <1>2, <1>3, <1>4, <2>3
  <2>4. CASE k \notin 1..Len(first)
    <3> DEFINE j == k - Len(first)
    <3>1. j \in 1..Len(mail.message) /\ k = Len(first) + j
      BY <1>2, <1>3, <1>4, <2>4
    <3> HIDE DEF j
    <3> QED BY <1>3, <1>4, <2>2, <3>1
  <2> QED BY <2>3, <2>4
<1> QED BY <1>2, <1>3, <1>4, <1>5

LEMMA TailOfBody ==
  ASSUME NEW ls \in Seq(LineSet), ls # <<>>, NEW tx \in Seq(Kinds)
  PROVE  /\ \A d \in Nat : BodyAt(ls, tx, d + 1, 0) => BodyAt(Tail(ls), tx, d, 0)
         /\ \A n \in Nat : n < Len(tx) /\ BodyAt(ls, tx, 0, n) => BodyAt(Tail(ls), tx, 0, n + 1)
         /\ NoData(ls) => NoData(Tail(ls))
         /\ DataLeads(ls, tx) => DataLeads(Tail(ls), tx)
         /\ DataLeads(ls, tx) /\ Head(ls).is = "DATA" => NoData(Tail(ls)) /\ BodyAt(Tail(ls), tx, 0, 0)
<1>1. /\ Tail(ls) \in Seq(LineSet) /\ Len(Tail(ls)) = Len(ls) - 1 /\ Head(ls) = ls[1]
      /\ \A k \in 1..Len(Tail(ls)) : Tail(ls)[k] = ls[k + 1]
  BY HeadTailProperties
<1>2. Len(ls) \in Nat /\ Len(tx) \in Nat /\ Len(ls) >= 1
  <2>1. Len(ls) \in Nat /\ Len(tx) \in Nat /\ Len(ls) # 0
    BY EmptySeq
  <2> QED BY <2>1
<1> DEFINE tl == Tail(ls)
           a == Len(ls)
           m == Len(tx)
<1>3. Len(tl) = a - 1 /\ (\A k \in 1..(a - 1) : tl[k] = ls[k + 1]) /\ a \in Nat /\ m \in Nat /\ a >= 1
  BY <1>1, <1>2
<1> HIDE DEF tl, a, m
<1>4. ASSUME NEW d \in Nat, BodyAt(ls, tx, d + 1, 0) PROVE BodyAt(tl, tx, d, 0)
  <2>1. /\ a >= d + 1 + m + 1 - 0
        /\ \A k \in 1..(m + 1 - 0) : ls[d + 1 + k].is = (IF 0 + k <= m THEN tx[0 + k] ELSE "dot")
    BY <1>4 DEF BodyAt, a, m
  <2>2. ASSUME NEW k \in 1..(m + 1 - 0)
        PROVE  tl[d + k].is = (IF 0 + k <= m THEN tx[0 + k] ELSE "dot")
    <3>1. d + k \in 1..(a - 1) /\ d + k + 1 = d + 1 + k
      BY <1>3, <2>1
    <3>2. tl[d + k] = ls[d + 1 + k]
      BY <1>3, <3>1
    <3> QED BY <2>1, <3>2
  <2>3. Len(tl) >= d + m + 1 - 0
    BY <1>3, <2>1
  <2> QED BY <2>2, <2>3 DEF BodyAt, m
<1>5. ASSUME NEW n \in Nat, n < m, BodyAt(ls, tx, 0, n) PROVE BodyAt(tl, tx, 0, n + 1)
  <2>1. /\ a >= 0 + m + 1 - n
        /\ \A k \in 1..(m + 1 - n) : ls[0 + k].is = (IF n + k <= m THEN tx[n + k] ELSE "dot")
    BY <1>5 DEF BodyAt, a, m
  <2>2. ASSUME NEW k \in 1..(m + 1 - (n + 1))
        PROVE  tl[0 + k].is = (IF n + 1 + k <= m THEN tx[n + 1 + k] ELSE "dot")
    <3>1. k + 1 \in 1..(m + 1 - n) /\ 0 + k \in 1..(a - 1) /\ 0 + k + 1 = 0 + (k + 1)
          /\ n + (k + 1) = n + 1 + k
      BY <1>3, <2>1
    <3>2. tl[0 + k] = ls[0 + (k + 1)]
      BY <1>3, <3>1
    <3>3. ls[0 + (k + 1)].is = (IF n + (k + 1) <= m THEN tx[n + (k + 1)] ELSE "dot")
      BY <2>1, <3>1
    <3> QED BY <3>1, <3>2, <3>3
  <2>3. Len(tl) >= 0 + m + 1 - (n + 1)
    BY <1>3, <2>1
  <2> QED BY <2>2, <2>3 DEF BodyAt, m
<1>6. ASSUME NoData(ls) PROVE NoData(tl)
  <2> SUFFICES ASSUME NEW k \in 1..Len(tl) PROVE tl[k].is # "DATA"
    BY DEF NoData
  <2>1. k + 1 \in 1..a /\ tl[k] = ls[k + 1]
    BY <1>3
  <2> QED BY <1>6, <2>1 DEF NoData, a
<1>7. ASSUME DataLeads(ls, tx) PROVE DataLeads(tl, tx)
  <2> SUFFICES ASSUME NEW d \in 1..Len(tl), tl[d].is = "DATA"
               PROVE  BodyAt(tl, tx, d, 0) /\ \A e \in 1..Len(tl) : tl[e].is = "DATA" => d = e
    BY DEF DataLeads
  <2>1. d + 1 \in 1..a /\ tl[d] = ls[d + 1] /\ d \in Nat
    BY <1>3
  <2>2. BodyAt(ls, tx, d + 1, 0) /\ \A e \in 1..a : ls[e].is = "DATA" => d + 1 = e
    BY <1>7, <2>1 DEF DataLeads, a
  <2>3. ASSUME NEW e \in 1..Len(tl), tl[e].is = "DATA" PROVE d = e
    <3>1. e + 1 \in 1..a /\ tl[e] = ls[e + 1]
      BY <1>3
    <3>2. d + 1 = e + 1
      BY <2>2, <2>3, <3>1
    <3> QED BY <1>3, <3>2
  <2> QED BY <1>4, <2>1, <2>2, <2>3
<1>8. ASSUME DataLeads(ls, tx), Head(ls).is = "DATA" PROVE NoData(tl) /\ BodyAt(tl, tx, 0, 0)
  <2>1. 1 \in 1..a
    BY <1>3
  <2>2. BodyAt(ls, tx, 1, 0) /\ \A e \in 1..a : ls[e].is = "DATA" => 1 = e
    BY <1>1, <1>8, <2>1 DEF DataLeads, a
  <2>3. BodyAt(tl, tx, 0, 0)
    <3>1. BodyAt(ls, tx, 0 + 1, 0)
      BY <2>2
    <3> QED BY <1>4, <3>1
  <2>4. ASSUME NEW e \in 1..Len(tl) PROVE tl[e].is # "DATA"
    <3>1. e + 1 \in 1..a /\ tl[e] = ls[e + 1] /\ e + 1 # 1
      BY <1>3
    <3> QED BY <2>2, <3>1
  <2> QED BY <2>3, <2>4 DEF NoData
<1> QED BY <1>4, <1>5, <1>6, <1>7, <1>8 DEF tl, m

LEMMA LinesJoin ==
  \A ls, new \in Seq(LineSet) :
    /\ Len(ls \o new) = Len(ls) + Len(new)
    /\ \A k \in 1..Len(ls) : (ls \o new)[k] = ls[k]
    /\ \A k \in 1..Len(new) : (ls \o new)[Len(ls) + k] = new[k]
  OBVIOUS

LEMMA LongerBody ==
  ASSUME NEW ls \in Seq(LineSet), NEW new \in Seq(LineSet), NEW tx \in Seq(Kinds), NoData(new)
  PROVE  /\ NoData(ls) => NoData(ls \o new)
         /\ \A d \in Nat, n \in Nat : BodyAt(ls, tx, d, n) => BodyAt(ls \o new, tx, d, n)
         /\ DataLeads(ls, tx) => DataLeads(ls \o new, tx)
<1> DEFINE all == ls \o new
           a == Len(ls)
           b == Len(new)
           m == Len(tx)
<1>1. /\ Len(all) = a + b /\ a \in Nat /\ b \in Nat /\ m \in Nat
      /\ \A k \in 1..a : all[k] = ls[k]
      /\ \A k \in 1..b : all[a + k] = new[k]
  OBVIOUS
<1> HIDE DEF all, a, b, m
<1>2. ASSUME NEW k \in 1..Len(all), k \notin 1..a PROVE all[k].is # "DATA"
  <2>1. k - a \in 1..b /\ k = a + (k - a)
    BY <1>1, <1>2
  <2>2. all[k] = new[k - a]
    BY <1>1, <2>1
  <2> QED BY <2>1, <2>2 DEF NoData, b
<1>3. NoData(ls) => NoData(all)
  BY <1>1, <1>2 DEF NoData, a
<1>4. ASSUME NEW d \in Nat, NEW n \in Nat, BodyAt(ls, tx, d, n) PROVE BodyAt(all, tx, d, n)
  <2>1. /\ a >= d + m + 1 - n
        /\ \A k \in 1..(m + 1 - n) : ls[d + k].is = (IF n + k <= m THEN tx[n + k] ELSE "dot")
    BY <1>4 DEF BodyAt, a, m
  <2>2. ASSUME NEW k \in 1..(m + 1 - n)
        PROVE  all[d + k].is = (IF n + k <= m THEN tx[n + k] ELSE "dot")
    <3>1. d + k \in 1..a
      BY <1>1, <2>1
    <3> QED BY <1>1, <2>1, <3>1
  <2>3. Len(all) >= d + m + 1 - n
    BY <1>1, <2>1
  <2> QED BY <2>2, <2>3 DEF BodyAt, m
<1>5. ASSUME DataLeads(ls, tx) PROVE DataLeads(all, tx)
  <2> SUFFICES ASSUME NEW d \in 1..Len(all), all[d].is = "DATA"
               PROVE  BodyAt(all, tx, d, 0) /\ \A e \in 1..Len(all) : all[e].is = "DATA" => d = e
    BY DEF DataLeads
  <2>1. d \in 1..a /\ all[d] = ls[d] /\ d \in Nat
    BY <1>1, <1>2
  <2>2. BodyAt(ls, tx, d, 0) /\ \A e \in 1..a : ls[e].is = "DATA" => d = e
    BY <1>5, <2>1 DEF DataLeads, a
  <2>3. ASSUME NEW e \in 1..Len(all), all[e].is = "DATA" PROVE d = e
    BY <1>1, <1>2, <2>2, <2>3
  <2> QED BY <1>4, <2>1, <2>2, <2>3
<1> QED BY <1>3, <1>4, <1>5 DEF all

\* The body that is written behind lines of which only the last one can be DATA.
LEMMA BodyBegins ==
  ASSUME NEW ls \in Seq(LineSet), NEW new \in Seq(LineSet), NEW tx \in Seq(Kinds),
         \A k \in 1..Len(ls) : ls[k].is = "DATA" => k = Len(ls),
         Len(new) = Len(tx) + 1,
         \A k \in 1..Len(new) : new[k].is = (IF k <= Len(tx) THEN tx[k] ELSE "dot")
  PROVE  /\ DataLeads(ls \o new, tx)
         /\ ls = <<>> => NoData(ls \o new) /\ BodyAt(ls \o new, tx, 0, 0)
<1> DEFINE all == ls \o new
           a == Len(ls)
           m == Len(tx)
<1>1. /\ Len(all) = a + (m + 1) /\ a \in Nat /\ m \in Nat
      /\ \A k \in 1..a : all[k] = ls[k]
      /\ \A k \in 1..(m + 1) : all[a + k] = new[k]
  <2>1. Len(ls) \in Nat /\ Len(tx) \in Nat
    OBVIOUS
  <2>2. Len(new) = Len(tx) + 1
    OBVIOUS
  <2>3. /\ Len(ls \o new) = Len(ls) + Len(new)
        /\ \A k \in 1..Len(ls) : (ls \o new)[k] = ls[k]
        /\ \A k \in 1..Len(new) : (ls \o new)[Len(ls) + k] = new[k]
    BY LinesJoin, Zenon
  <2> QED BY <2>1, <2>2, <2>3, Zenon
<1>2. /\ \A k \in 1..a : ls[k].is = "DATA" => k = a
      /\ \A k \in 1..(m + 1) : new[k].is = (IF k <= m THEN tx[k] ELSE "dot")
  OBVIOUS
<1>3. \A k \in 1..m : tx[k] \in Kinds
  OBVIOUS
<1> HIDE DEF all, a, m
<1>4. ASSUME NEW k \in 1..(m + 1) PROVE new[k].is # "DATA"
  <2>1. CASE k <= m
    <3>1. k \in 1..m
      BY <1>1, <2>1
    <3>2. new[k].is = tx[k] /\ tx[k] \in Kinds
      BY <1>2, <1>3, <2>1, <3>1
    <3> QED BY <3>2 DEF Kinds
  <2>2. CASE ~(k <= m)
    BY <1>2, <1>4, <2>2
  <2> QED BY <2>1, <2>2
<1>5. ASSUME NEW k \in 1..Len(all), all[k].is = "DATA" PROVE k = a /\ k >= 1
  <2>1. CASE k \in 1..a
    BY <1>1, <1>2, <1>5, <2>1
  <2>2. CASE k \notin 1..a
    <3>1. k - a \in 1..(m + 1) /\ k = a + (k - a)
      BY <1>1, <2>2
    <3>2. all[k] = new[k - a]
      BY <1>1, <3>1
    <3> QED BY <1>4, <1>5, <3>1, <3>2
  <2> QED BY <2>1, <2>2
<1>6. BodyAt(all, tx, a, 0)
  <2>1. ASSUME NEW k \in 1..(m + 1 - 0)
        PROVE  all[a + k].is = (IF 0 + k <= m THEN tx[0 + k] ELSE "dot")
    <3>1. k \in 1..(m + 1) /\ 0 + k = k
      BY <1>1
    <3> QED BY <1>1, <1>2, <3>1
  <2>2. Len(all) >= a + m + 1 - 0
    BY <1>1
  <2> QED BY <2>1, <2>2 DEF BodyAt, m
<1>7. DataLeads(all, tx)
  <2> SUFFICES ASSUME NEW d \in 1..Len(all), all[d].is = "DATA"
               PROVE  BodyAt(all, tx, d, 0) /\ \A e \in 1..Len(all) : all[e].is = "DATA" => d = e
    BY DEF DataLeads
  <2>1. d = a
    BY <1>5
  <2> QED BY <1>5, <1>6, <2>1
<1>8. ASSUME ls = <<>> PROVE NoData(all) /\ BodyAt(all, tx, 0, 0)
  <2>1. a = 0
    BY <1>8 DEF a
  <2>2. NoData(all)
    BY <1>5, <2>1 DEF NoData
  <2> QED BY <1>6, <2>1, <2>2
<1> QED BY <1>7, <1>8 DEF all

LEMMA BodySent == MailInv /\ SendsBody => MailInv'
<1> SUFFICES ASSUME MailInv, SendsBody PROVE MailInv'
  OBVIOUS
<1> DEFINE sendsAll == Text \o <<"dot">>
<1>1. /\ mailAt = "body" /\ Writes(sendsAll, "sent") /\ UNCHANGED <<replies, slips>>
      /\ UNCHANGED <<session, rcpts, box, delivered, mailServer, mail>>
      /\ UNCHANGED <<unasked, accepted, caps, told>>
  BY DEF SendsBody, Mine, Otherwise, Text
<1>2. MailTypes /\ NothingYet /\ RcptsCount /\ Early
  BY <1>1 DEF MailInv, MailTypes, Early
<1>3. Text \in Seq(Kinds) /\ Len(Text) \in Nat
  BY <1>2, TextIs
<1>4. /\ sendsAll \in Seq(Kinds) /\ Len(sendsAll) = Len(Text) + 1
      /\ \A k \in 1..Len(sendsAll) : sendsAll[k] = (IF k <= Len(Text) THEN Text[k] ELSE "dot")
  <2>1. "dot" \in Kinds
    BY DEF Kinds
  <2> QED BY <1>3, <2>1
<1> HIDE DEF sendsAll
<1>5. sendsAll \in Seq(Words) /\ Len(sendsAll) \in Nat
  <2>1. Kinds \subseteq Words
    BY DEF Kinds, Words
  <2> QED BY <1>4, <2>1
<1> DEFINE new == [k \in 1..Len(sendsAll) |-> [n |-> asked + k, is |-> sendsAll[k]]]
<1>6. /\ mailLines' \in Seq(LineSet) /\ asked' \in Nat /\ mailAt' = "sent"
      /\ ~Gone => mailLines' = mailLines \o new
  BY <1>1, <1>2, <1>5, WritesIs
<1>7. new \in Seq(LineSet) /\ Len(new) = Len(sendsAll) /\ \A k \in 1..Len(new) : new[k].is = sendsAll[k]
  <2>1. \A k \in 1..Len(sendsAll) : [n |-> asked + k, is |-> sendsAll[k]] \in LineSet
    <3>1. asked \in Nat
      BY <1>2, MailIs
    <3> QED BY <1>5, <3>1 DEF LineSet
  <2>2. new \in [1..Len(sendsAll) -> LineSet]
    BY <2>1
  <2>3. new \in Seq(LineSet) /\ Len(new) = Len(sendsAll)
    BY <1>5, <2>2, IsASeq, LenProperties
  <2> QED BY <2>3
<1> HIDE DEF new
<1>8. MailTypes'
  BY <1>1, <1>2, <1>6 DEF MailTypes, LineSet
<1>9. ~Early' /\ ~BeforeBody' /\ Gone' = Gone /\ Text' = Text
  BY <1>1, <1>6 DEF Early, BeforeBody, Gone, Text
<1>10. MailUnopened' /\ MailFresh' /\ RcptsCount' /\ Numbering' /\ Tracks' /\ NothingYet'
  BY <1>1, <1>2, <1>6, <1>9 DEF MailUnopened, MailFresh, RcptsCount, Numbering, Tracks, NothingYet
<1>11. TakesBody'
  <2>1. /\ delivered = <<>> /\ box = <<>>
        /\ \A k \in 1..Len(mailLines) : mailLines[k].is = "DATA" => k = Len(mailLines)
        /\ session = "data" => mailLines = <<>>
    BY <1>2 DEF NothingYet
  <2>2. Outcome(delivered', Text', NoDots')
    BY <1>1, <2>1 DEF Outcome
  <2>3. ASSUME ~Gone
        PROVE  /\ DataLeads(mailLines', Text)
               /\ session = "data" => NoData(mailLines') /\ BodyAt(mailLines', Text, 0, 0)
    <3>1. mailLines \in Seq(LineSet) /\ mailLines' = mailLines \o new
      BY <1>2, <1>6, <2>3, MailIs
    <3>2. Len(new) = Len(Text) + 1
      BY <1>4, <1>7
    <3>3. \A k \in 1..Len(new) : new[k].is = (IF k <= Len(Text) THEN Text[k] ELSE "dot")
      BY <1>4, <1>7
    <3>4. /\ DataLeads(mailLines \o new, Text)
          /\ mailLines = <<>> => NoData(mailLines \o new) /\ BodyAt(mailLines \o new, Text, 0, 0)
      BY <1>3, <1>7, <2>1, <3>1, <3>2, <3>3, BodyBegins
    <3> QED BY <2>1, <3>1, <3>4
  <2>4. ASSUME ~Gone, session = "data" PROVE InBody(mailLines', Text, box)
    <3>1. BodyAt(mailLines', Text, 0, 0)
      BY <2>3, <2>4
    <3>2. box \in Seq({"text", "dot"}) /\ Len(box) = 0
      BY <2>1, EmptySeq
    <3> QED BY <1>3, <3>1, <3>2 DEF InBody
  <2> QED BY <1>1, <1>9, <2>1, <2>2, <2>3, <2>4 DEF TakesBody
<1> QED BY <1>8, <1>10, <1>11 DEF MailInv

LEMMA QuitKeeps == MailInv /\ Quit => MailInv'
<1> SUFFICES ASSUME MailInv, Quit PROVE MailInv'
  OBVIOUS
<1>1. /\ mailAt \in {"sent", "QUIT"} /\ UNCHANGED <<unasked, accepted, caps>>
      /\ UNCHANGED <<session, rcpts, box, delivered, mailServer, mail>>
      /\ \E is \in {"ok", "no", "none"} : Read(is)
  BY DEF Quit, Mine
<1>2. MailTypes /\ RcptsCount /\ ~Early /\ TakesBody /\ told = FALSE
  BY <1>1 DEF MailInv, MailTypes, Early
<1>3. replies' \in Seq(ReplySet) /\ slips' \in Nat
  BY <1>1, <1>2, ReadIs
<1>4. Gone' = Gone /\ Text' = Text /\ NoDots' = NoDots
  BY <1>1 DEF Gone, Text, NoDots
<1>5. CASE mailAt = "sent" /\ Writes(<<"QUIT">>, "QUIT") /\ UNCHANGED told
  <2> DEFINE q == [k \in 1..1 |-> [n |-> asked + k, is |-> <<"QUIT">>[k]]]
  <2>1. <<"QUIT">> \in Seq(Words) /\ Len(<<"QUIT">>) = 1 /\ <<"QUIT">>[1] = "QUIT"
    <3>1. "QUIT" \in Words
      BY DEF Words
    <3>2. <<"QUIT">> \in Seq(Words)
      BY <3>1
    <3> QED BY <3>2
  <2>2. /\ mailLines' \in Seq(LineSet) /\ asked' \in Nat /\ mailAt' = "QUIT"
        /\ ~Gone => mailLines' = mailLines \o q
    BY <1>2, <1>5, <2>1, WritesIs
  <2>3. q \in Seq(LineSet) /\ NoData(q)
    <3>1. \A k \in 1..1 : [n |-> asked + k, is |-> <<"QUIT">>[k]] \in LineSet
      <4>1. asked \in Nat /\ "QUIT" \in Words
        BY <1>2, MailIs DEF Words
      <4>2. asked + 1 \in Int
        BY <4>1
      <4> QED BY <2>1, <4>1, <4>2 DEF LineSet
    <3>2. q \in [1..1 -> LineSet]
      BY <3>1
    <3>3. q \in Seq(LineSet) /\ Len(q) = 1
      BY <3>2, IsASeq, LenProperties
    <3>4. q[1].is = "QUIT"
      BY <2>1
    <3> HIDE DEF q
    <3> QED BY <3>3, <3>4 DEF NoData
  <2> HIDE DEF q
  <2>4. MailTypes'
    BY <1>1, <1>2, <1>3, <1>5, <2>2 DEF MailTypes, LineSet, ReplySet
  <2>5. ~Early' /\ ~BeforeBody'
    BY <2>2 DEF Early, BeforeBody
  <2>6. MailUnopened' /\ MailFresh' /\ RcptsCount' /\ Numbering' /\ Tracks' /\ NothingYet'
    BY <1>1, <1>2, <2>2, <2>5 DEF MailUnopened, MailFresh, RcptsCount, Numbering, Tracks, NothingYet
  <2>7. TakesBody'
    <3>1. Text \in Seq(Kinds) /\ mailLines \in Seq(LineSet)
      BY <1>2, TextIs, MailIs
    <3>2. /\ NoData(mailLines) => NoData(mailLines \o q)
          /\ \A d \in Nat, n \in Nat : BodyAt(mailLines, Text, d, n) => BodyAt(mailLines \o q, Text, d, n)
          /\ DataLeads(mailLines, Text) => DataLeads(mailLines \o q, Text)
      BY <2>3, <3>1, LongerBody
    <3>3. InBody(mailLines, Text, box) => InBody(mailLines \o q, Text, box)
      <4>1. box \in Seq({"text", "dot"}) => Len(box) \in Nat
        OBVIOUS
      <4> QED BY <3>2, <4>1 DEF InBody
    <3> QED BY <1>1, <1>2, <1>4, <2>2, <2>5, <3>2, <3>3 DEF TakesBody
  <2> QED BY <2>4, <2>6, <2>7 DEF MailInv
<1>6. CASE mailAt = "QUIT" /\ EndsMail(TRUE)
  <2>1. mailAt' = "end" /\ told' = TRUE /\ UNCHANGED <<mailLines, asked>>
    BY <1>6 DEF EndsMail
  <2>2. MailTypes'
    BY <1>1, <1>2, <1>3, <2>1 DEF MailTypes, ReplySet
  <2>3. ~Early' /\ ~BeforeBody'
    BY <2>1 DEF Early, BeforeBody
  <2>4. MailUnopened' /\ MailFresh' /\ RcptsCount' /\ Numbering' /\ Tracks' /\ NothingYet'
    BY <1>1, <1>2, <2>1, <2>3 DEF MailUnopened, MailFresh, RcptsCount, Numbering, Tracks, NothingYet
  <2>5. TakesBody'
    BY <1>1, <1>2, <1>4, <2>1, <2>3 DEF TakesBody
  <2> QED BY <2>2, <2>4, <2>5 DEF MailInv
<1> QED BY <1>5, <1>6 DEF Quit

-----------------------------------------------------------------------------
(* The server, when the body is sent                                       *)

LEMMA LateTakesKeep == MailInv /\ ~Early /\ ServerTakes => MailInv'
<1> SUFFICES ASSUME MailInv, ~Early, ServerTakes PROVE MailInv'
  OBVIOUS
<1>1. /\ MailTypes /\ RcptsCount /\ TakesBody /\ mailLines \in Seq(LineSet) /\ replies \in Seq(ReplySet)
      /\ Text \in Seq(Kinds)
  BY MailIs, TextIs DEF MailInv
<1>2. /\ mailLines # <<>> /\ ~Gone /\ mailLines' = Tail(mailLines)
      /\ UNCHANGED <<mailServer, mail, mailAt, unasked, accepted, caps, told, asked, slips>>
  BY DEF ServerTakes
<1> DEFINE line == Head(mailLines)
<1>3. PICK r \in Reactions(line.is) :
        /\ session' = r[2]
        /\ replies' = (IF r[1] = "" THEN replies ELSE Append(replies, [to |-> line.n, is |-> r[1]]))
        /\ rcpts' = (IF line.is = "RCPT" /\ r[2] = "rcpt" /\ r[1] = "ok" THEN rcpts + 1 ELSE rcpts)
        /\ box' = (IF session = "data" /\ line.is # "dot" THEN Append(box, Kept(line.is)) ELSE <<>>)
        /\ delivered' = (IF session = "data" /\ r = <<"ok", "hello">> THEN Append(delivered, box) ELSE delivered)
  BY DEF ServerTakes
<1>4. /\ Tail(mailLines) \in Seq(LineSet) /\ line = mailLines[1] /\ line \in LineSet
      /\ line.is \in Words /\ 1 \in 1..Len(mailLines)
  <2>1. Tail(mailLines) \in Seq(LineSet) /\ line = mailLines[1] /\ line \in LineSet
    BY <1>1, <1>2, HeadTailProperties
  <2>2. 1 \in 1..Len(mailLines)
    BY <1>1, <1>2
  <2> QED BY <2>1, <2>2 DEF LineSet
<1>5. /\ \A n \in Nat : n < Len(Text) /\ BodyAt(mailLines, Text, 0, n) => BodyAt(Tail(mailLines), Text, 0, n + 1)
      /\ NoData(mailLines) => NoData(Tail(mailLines))
      /\ DataLeads(mailLines, Text) => DataLeads(Tail(mailLines), Text)
      /\ DataLeads(mailLines, Text) /\ line.is = "DATA" =>
           NoData(Tail(mailLines)) /\ BodyAt(Tail(mailLines), Text, 0, 0)
  BY <1>1, <1>2, TailOfBody
<1>6. /\ Outcome(delivered, Text, NoDots) /\ DataLeads(mailLines, Text)
      /\ session = "data" \/ delivered # <<>> => NoData(mailLines)
      /\ session = "data" => delivered = <<>> /\ InBody(mailLines, Text, box)
  BY <1>1, <1>2 DEF TakesBody
<1>7. /\ session = "data" /\ line.is # "dot" => r = <<"", "data">>
      /\ session = "data" /\ line.is = "dot" => r \in {<<"ok", "hello">>, <<"no", "hello">>}
      /\ session # "data" => /\ r[1] \in {"", "ok", "no"}
                             /\ r[2] = "data" => line.is = "DATA" /\ session = "rcpt"
                             /\ r[2] = "rcpt" => session = "rcpt" \/ (line.is = "RCPT" /\ r[1] = "ok")
  <2> DEFINE is == line.is
  <2>1. is \in Words /\ r \in Reactions(is)
    BY <1>4
  <2> HIDE DEF is
  <2>2. session = "data" /\ is # "dot" => r = <<"", "data">>
    BY <2>1 DEF Reactions
  <2>3. session = "data" /\ is = "dot" => r \in {<<"ok", "hello">>, <<"no", "hello">>}
    BY <2>1 DEF Reactions
  <2>4. session # "data" => /\ r[1] \in {"", "ok", "no"}
                            /\ r[2] = "data" => is = "DATA" /\ session = "rcpt"
                            /\ r[2] = "rcpt" => session = "rcpt" \/ (is = "RCPT" /\ r[1] = "ok")
    BY <1>2, <2>1, Reacts DEF Gone
  <2> QED BY <2>2, <2>3, <2>4 DEF is
<1> HIDE DEF line
<1>8. r[1] \in {"", "ok", "no"} /\ (session = "data" => session' \in {"data", "hello"})
  <2> DEFINE is == line.is
  <2>1. session' = r[2]
    BY <1>3
  <2>2. CASE session = "data" /\ is # "dot"
    <3>1. r = <<"", "data">>
      BY <1>7, <2>2
    <3> QED BY <2>1, <3>1
  <2>3. CASE session = "data" /\ is = "dot"
    <3>1. r = <<"ok", "hello">> \/ r = <<"no", "hello">>
      BY <1>7, <2>3
    <3>2. r[1] \in {"", "ok", "no"} /\ r[2] = "hello"
      <4>1. CASE r = <<"ok", "hello">>
        BY <4>1
      <4>2. CASE r = <<"no", "hello">>
        BY <4>2
      <4> QED BY <3>1, <4>1, <4>2
    <3>3. session' = "hello"
      BY <2>1, <3>2, Zenon
    <3> QED BY <3>2, <3>3, Zenon
  <2>4. CASE session # "data"
    BY <1>7, <2>4
  <2> QED BY <2>2, <2>3, <2>4
<1>9. replies' \in Seq(ReplySet)
  <2>1. r[1] # "" => [to |-> line.n, is |-> r[1]] \in ReplySet
    BY <1>4, <1>8 DEF ReplySet, LineSet
  <2> QED BY <1>1, <1>3, <2>1, AppendProperties
<1>10. rcpts' \in Nat /\ RcptsCount'
  <2>1. rcpts \in Nat /\ (session \in {"rcpt", "data"} => rcpts > 0)
    BY <1>1, Zenon DEF RcptsCount, MailTypes
  <2>2. rcpts + 1 \in Nat /\ rcpts + 1 > 0
    BY <2>1
  <2>3. rcpts' = rcpts \/ rcpts' = rcpts + 1
    BY <1>3
  <2>4. session' \in {"rcpt", "data"} => session \in {"rcpt", "data"} \/ rcpts' = rcpts + 1
    BY <1>3, <1>7, <1>8
  <2> QED BY <2>1, <2>2, <2>3, <2>4, Zenon DEF RcptsCount
<1>11. MailTypes'
  <2>1. mailLines' \in Seq(LineSet)
    BY <1>2, <1>4
  <2> QED BY <1>1, <1>2, <1>9, <1>10, <2>1 DEF MailTypes, LineSet, ReplySet
<1>12. ~Early' /\ mailAt \in {"sent", "QUIT", "end"} /\ ~BeforeBody' /\ Text' = Text /\ NoDots' = NoDots
  <2>1. ~Early' /\ mailAt \in {"sent", "QUIT", "end"} /\ ~BeforeBody'
    BY <1>1, <1>2 DEF Early, MailTypes, BeforeBody
  <2>2. Text' = Text /\ NoDots' = NoDots
    BY <1>2 DEF Text, NoDots
  <2> QED BY <2>1, <2>2
<1>13. MailUnopened' /\ MailFresh' /\ Numbering' /\ Tracks' /\ NothingYet'
  <2>1. MailFresh
    BY DEF MailInv
  <2> QED BY <1>2, <1>12, <2>1 DEF MailUnopened, MailFresh, Numbering, Tracks, NothingYet
<1>14. DataLeads(mailLines', Text)
  BY <1>2, <1>5, <1>6
<1>15. CASE session = "data"
  <2>1. NoData(mailLines') /\ delivered = <<>>
    BY <1>2, <1>5, <1>6, <1>15
  <2> DEFINE n == Len(box)
             m == Len(Text)
  <2>2. /\ box \in Seq(KeptKinds) /\ n \in Nat /\ m \in Nat /\ n <= m
        /\ \A k \in 1..n : box[k] = Kept(Text[k])
        /\ BodyAt(mailLines, Text, 0, n)
    <3>1. InBody(mailLines, Text, box)
      BY <1>6, <1>15
    <3>2. box \in Seq(KeptKinds)
      BY <3>1 DEF InBody
    <3> QED BY <1>1, <3>1, <3>2 DEF InBody
  <2>3. line.is = (IF n + 1 <= m THEN Text[n + 1] ELSE "dot")
    <3>1. \A k \in 1..(m + 1 - n) : mailLines[0 + k].is = (IF n + k <= m THEN Text[n + k] ELSE "dot")
      BY <2>2 DEF BodyAt
    <3> HIDE DEF n, m
    <3>2. 1 \in 1..(m + 1 - n) /\ 0 + 1 = 1
      BY <2>2
    <3>3. mailLines[0 + 1].is = (IF n + 1 <= m THEN Text[n + 1] ELSE "dot")
      BY <3>1, <3>2
    <3> QED BY <1>4, <3>2, <3>3
  <2>4. CASE line.is # "dot"
    <3>1. session' = "data" /\ box' = Append(box, Kept(line.is)) /\ delivered' = <<>>
      <4>1. r = <<"", "data">>
        BY <1>7, <1>15, <2>4
      <4>2. r[2] = "data" /\ r # <<"ok", "hello">>
        BY <4>1
      <4> QED BY <1>3, <1>15, <2>1, <2>4, <4>2
    <3>2. n < m /\ line.is = Text[n + 1] /\ Text[n + 1] \in Kinds
      <4> HIDE DEF n
      <4>1. n + 1 <= m
        BY <2>3, <2>4
      <4> QED BY <1>1, <2>2, <2>3, <4>1
    <3>3. /\ box' \in Seq(KeptKinds) /\ Len(box') = n + 1 /\ box'[n + 1] = Kept(line.is)
          /\ \A k \in 1..n : box'[k] = box[k]
      <4>1. Kept(line.is) \in KeptKinds
        BY <3>2, KeptIs
      <4> QED BY <2>2, <3>1, <4>1, AppendProperties
    <3>4. BodyAt(mailLines', Text, 0, n + 1)
      BY <1>2, <1>5, <2>2, <3>2
    <3>5. \A k \in 1..(n + 1) : box'[k] = Kept(Text[k])
      <4> HIDE DEF n, m
      <4> TAKE k \in 1..(n + 1)
      <4>1. CASE k = n + 1
        BY <3>2, <3>3, <4>1
      <4>2. CASE k # n + 1
        <5>1. k \in 1..n
          BY <2>2, <4>2
        <5> QED BY <2>2, <3>3, <5>1
      <4> QED BY <4>1, <4>2
    <3>6. InBody(mailLines', Text, box')
      <4>1. n + 1 <= m
        <5> HIDE DEF n, m
        <5> QED BY <2>2, <3>2
      <4> QED BY <3>3, <3>4, <3>5, <4>1 DEF InBody
    <3>7. Outcome(delivered', Text', NoDots')
      BY <3>1 DEF Outcome
    <3>8. TakesBody'
      BY <1>12, <1>14, <2>1, <3>1, <3>6, <3>7 DEF TakesBody
    <3> QED BY <1>10, <1>11, <1>13, <3>8 DEF MailInv
  <2>5. CASE line.is = "dot"
    <3>1. session' = "hello" /\ delivered' \in {<<>>, <<box>>}
      <4>1. r \in {<<"ok", "hello">>, <<"no", "hello">>}
        BY <1>7, <1>15, <2>5
      <4>2. r[2] = "hello"
        BY <4>1
      <4>3. delivered' = <<>> \/ delivered' = Append(<<>>, box)
        BY <1>3, <2>1, Zenon
      <4>4. Append(<<>>, box) = <<box>>
        OBVIOUS
      <4>5. session' = "hello"
        BY <1>3, <4>2, Zenon
      <4> HIDE DEF line
      <4> QED BY <4>3, <4>4, <4>5, Zenon
    <3>2. NoDots => box = Text
      <4> SUFFICES ASSUME NoDots PROVE box = Text
        OBVIOUS
      <4>1. \A k \in 1..m : Text[k] \in Kinds /\ Text[k] \notin {"dot", "dotted"}
        BY <1>1, TextIs
      <4>2. n = m
        <5> HIDE DEF n, m
        <5>1. ~(n + 1 <= m)
          <6> SUFFICES ASSUME n + 1 <= m PROVE FALSE
            OBVIOUS
          <6>1. n + 1 \in 1..m
            BY <2>2
          <6> QED BY <2>3, <2>5, <4>1, <6>1
        <5> QED BY <2>2, <5>1
      <4>3. \A k \in 1..n : box[k] = Text[k]
        BY <2>2, <4>1, <4>2, KeptIs
      <4> QED BY <1>1, <2>2, <4>2, <4>3, SeqEqual
    <3>3. Outcome(delivered', Text', NoDots')
      <4>1. Len(<<box>>) = 1 /\ <<box>>[1] = box
        OBVIOUS
      <4> QED BY <1>12, <3>1, <3>2, <4>1 DEF Outcome
    <3>4. TakesBody'
      BY <1>12, <1>14, <2>1, <3>1, <3>3 DEF TakesBody
    <3> QED BY <1>10, <1>11, <1>13, <3>4 DEF MailInv
  <2> QED BY <2>4, <2>5
<1>16. CASE session # "data"
  <2>1. delivered' = delivered /\ box' = <<>>
    BY <1>3, <1>16
  <2>2. Outcome(delivered', Text', NoDots')
    BY <1>6, <1>12, <2>1
  <2>3. delivered # <<>> => NoData(mailLines')
    BY <1>2, <1>5, <1>6
  <2>4. ASSUME session' = "data"
        PROVE  delivered' = <<>> /\ NoData(mailLines') /\ InBody(mailLines', Text, box')
    <3>1. line.is = "DATA"
      BY <1>3, <1>7, <1>16, <2>4
    <3>2. NoData(mailLines') /\ BodyAt(mailLines', Text, 0, 0)
      BY <1>2, <1>5, <1>6, <3>1
    <3>3. delivered = <<>>
      BY <1>4, <1>6, <3>1 DEF NoData
    <3>4. box' \in Seq(KeptKinds) /\ Len(box') = 0
      BY <2>1, EmptySeq
    <3>5. Len(Text) \in Nat
      BY <1>1
    <3>6. InBody(mailLines', Text, box')
      BY <3>2, <3>4, <3>5 DEF InBody
    <3> QED BY <2>1, <3>2, <3>3, <3>6
  <2>5. TakesBody'
    BY <1>12, <1>14, <2>1, <2>2, <2>3, <2>4 DEF TakesBody
  <2> QED BY <1>10, <1>11, <1>13, <2>5 DEF MailInv
<1> QED BY <1>15, <1>16

LEMMA MailKeeps == MailInv /\ SmtpNext => MailInv'
<1>1. MailInv /\ (Greeted \/ SMTPHelo \/ StartTls \/ SMTPLogin \/ MailFrom \/ SmtpSendRecipients \/ Data)
        => MailInv'
  BY GreetingRead, HeloRead, TlsRead, LoginRead, MailFromRead, RecipientRead, DataRead, AnswersReadKeep
<1>2. MailInv /\ ServerTakes => MailInv'
  BY EarlyTakesKeep, LateTakesKeep
<1> QED
  BY <1>1, <1>2, ConnectsKeep, NegotiatesKeep, BodySent, QuitKeeps DEF SmtpNext, SMTPSendMail

LEMMA MailIsTrue == MailInv => MailTrue
<1> SUFFICES ASSUME MailInv PROVE MailTrue
  OBVIOUS
<1>1. MailTypes /\ RcptsCount /\ TakesBody /\ NothingYet /\ Tracks
  BY DEF MailInv
<1>2. InStep
  <2> SUFFICES ASSUME BeforeBody, mailAt # "HELO", replies # <<>>
               PROVE  Head(replies).to + Lag = asked
    BY DEF InStep
  <2>1. NumberedFrom(Due, replies, mailLines, asked, Gone)
    BY DEF MailInv, Numbering, BeforeBody
  <2>2. Due = asked - Lag /\ Lag \in Nat /\ asked \in Nat /\ 1 \in 1..Len(replies) /\ Head(replies) = replies[1]
    BY <1>1, DueIs, MailIs
  <2>3. replies[1].to = Due + 1 - 1
    BY <2>1, <2>2 DEF NumberedFrom
  <2> QED BY <2>2, <2>3
<1>3. Awaited
  BY <1>1 DEF Tracks, RcptsCount, Awaited
<1>4. DeliveredWhole
  <2>1. delivered = <<>> \/ (Len(delivered) = 1 /\ (NoDots => delivered[1] = Text))
    <3>1. CASE Early
      BY <1>1, <3>1 DEF NothingYet
    <3>2. CASE ~Early
      BY <1>1, <3>2 DEF TakesBody, Outcome
    <3> QED BY <3>1, <3>2
  <2>2. Len(delivered) <= 1
    <3>1. CASE delivered = <<>>
      <4>1. Len(delivered) = 0
        BY <3>1
      <4> QED BY <4>1
    <3>2. CASE Len(delivered) = 1
      BY <3>2
    <3> QED BY <2>1, <3>1, <3>2
  <2>3. mailAt = "end" /\ ~told => delivered = <<>>
    BY <1>1 DEF NothingYet, Early
  <2>4. NoDots => \A d \in {delivered[k] : k \in DOMAIN delivered} : d = Text
    BY <2>1
  <2> QED BY <2>2, <2>3, <2>4 DEF DeliveredWhole, NoDots, Text
<1> QED BY <1>2, <1>3, <1>4 DEF MailTrue

-----------------------------------------------------------------------------
(* All of them, one at a time                                              *)

\* What is known of the part that runs; the others stay where they began.
WebInv == ConnectInv /\ ServiceInv /\ TlsInv /\ CopyInv /\ MailInv

LEMMA WebStarts == Init => WebInv
<1> SUFFICES ASSUME Init PROVE WebInv
  OBVIOUS
<1>1. ConnectInit /\ ServiceInit /\ SmtpInit /\ TlsInit /\ SendInit
  BY DEF Init
<1> QED BY <1>1, ConnectStarts, ServiceStarts, TlsStarts, CopyStarts, MailStarts, SmtpAssumption DEF WebInv

\* No step of another part changes what is known of the mail.
LEMMA MailRests == MailInv /\ UNCHANGED smtpVars => MailInv'
<1> SUFFICES ASSUME MailInv, UNCHANGED smtpVars PROVE MailInv'
  OBVIOUS
<1>1. UNCHANGED <<mailServer, mail, mailAt, unasked, accepted, caps, told, mailLines, replies, session,
                  rcpts, box, delivered, asked, slips>>
  BY DEF smtpVars
<1>2. Lag' = Lag /\ BeforeBody' = BeforeBody /\ Gone' = Gone /\ Early' = Early /\ Text' = Text
      /\ NoDots' = NoDots
  BY <1>1 DEF Lag, BeforeBody, Gone, Early, Text, NoDots
<1>3. Due' = Due /\ Unanswered' = Unanswered /\ AfterOk' = AfterOk /\ AfterNo' = AfterNo
  BY <1>1, <1>2 DEF Due, Unanswered, AfterOk, AfterNo
<1>4. MailTypes' /\ MailUnopened' /\ MailFresh' /\ RcptsCount'
  BY <1>1, <1>2 DEF MailInv, MailTypes, MailUnopened, MailFresh, RcptsCount
<1>5. Numbering' /\ Tracks'
  BY <1>1, <1>2, <1>3 DEF MailInv, Numbering, Tracks
<1>6. NothingYet' /\ TakesBody'
  BY <1>1, <1>2 DEF MailInv, NothingYet, TakesBody
<1> QED BY <1>4, <1>5, <1>6 DEF MailInv

LEMMA WebKeeps == WebInv /\ [Next]_mcVars => WebInv'
<1> SUFFICES ASSUME WebInv, [Next]_mcVars PROVE WebInv'
  OBVIOUS
<1>1. [ConnectNext]_connectVars /\ [ServiceNext]_serviceVars
  BY DEF Next, Calls, Transact, Body, Sessions, mcVars, callVars
<1>2. [TlsNext]_tlsVars /\ [SendNext]_sendVars /\ [SmtpNext]_smtpVars
  BY DEF Next, Calls, Transact, Body, Sessions, mcVars, sessionVars
<1>3. ConnectInv'
  BY <1>1, ConnectKeeps DEF WebInv
<1>4. ServiceInv'
  BY <1>1, ServiceKeeps DEF WebInv
<1>5. TlsInv'
  BY <1>2, TlsKeeps DEF WebInv
<1>6. CopyInv'
  BY <1>2, CopyKeeps DEF WebInv
<1>7. MailInv'
  BY <1>2, MailKeeps, MailRests DEF WebInv
<1> QED BY <1>3, <1>4, <1>5, <1>6, <1>7 DEF WebInv

\* What is known of the chain of hops, the WebSocket, the users of the file with the tokens
\* and the reader of the body (SessionProofs); one of them runs.
SessionsInv == ChainInv /\ FrameInv /\ OAuthInv /\ BodyInv

LEMMA SessionsStart == Init => SessionsInv
<1> SUFFICES ASSUME Init PROVE SessionsInv
  OBVIOUS
<1>1. ChainInit /\ SocketInit /\ OAuthInit /\ ChunkedInit
  BY DEF Init
<1> QED BY <1>1, ChainStart, FramesStart, OAuthStart, BodyStarts DEF SessionsInv

LEMMA SessionsKeep == SessionsInv /\ [Next]_mcVars => SessionsInv'
<1> SUFFICES ASSUME SessionsInv, [Next]_mcVars PROVE SessionsInv'
  OBVIOUS
<1>1. [ChainNext]_chainVars /\ [SocketNext]_wsVars
  BY DEF Next, Calls, Transact, Body, Sessions, mcVars, callVars
<1>2. [OAuthNext]_oauthVars
  BY DEF Next, Calls, Transact, Body, Sessions, mcVars, sessionVars
<1>3. [ChunkedNext]_chunkVars
  BY DEF Next, Calls, Transact, Body, Sessions, mcVars
<1>4. ChainInv' /\ FrameInv'
  BY <1>1, ChainKeeps, FrameKeeps DEF SessionsInv
<1>5. OAuthInv' /\ BodyInv'
  BY <1>2, <1>3, OAuthKeeps, BodyKeeps DEF SessionsInv
<1> QED BY <1>4, <1>5 DEF SessionsInv

\* For any hops, frames, buffers, users and names: whatever hops are asked on the way, a
\* connection leads to its destination; messages are read whole and in their order; and the
\* tokens in the file are those the server honours, with one process at a time that writes it.
THEOREM SessionsAreTrue == Spec => []SessionsTrue
<1>1. SessionsInv => SessionsTrue
  <2> SUFFICES ASSUME SessionsInv PROVE SessionsTrue
    OBVIOUS
  <2>1. ChainLeads /\ MessagesWhole /\ TokensKept
    BY ChainIsLed, InStepIsWhole, OAuthIsKept DEF SessionsInv
  <2> QED BY <2>1 DEF SessionsTrue, Of
<1> QED BY <1>1, SessionsStart, SessionsKeep, PTL DEF Spec

\* For any body in any chunks, whatever pieces of the reply are read and wherever it is cut
\* short: what comes out is the body from its front, and all of it when the end is reported
\* and the server has sent all of the reply.
THEOREM BodyIsTrue == Spec => []BodyIsWhole
<1>1. SessionsInv => BodyIsWhole
  BY BodyIsIn DEF SessionsInv
<1> QED BY <1>1, SessionsStart, SessionsKeep, PTL DEF Spec

\* For any server, peer, certificates, clients, sizes and messages: who is connected is so
\* to whom it asked for, TLS is what it was set to be and looked for with every client, what
\* is copied is all of the body in its order, and a mail is only sent when the server waits
\* for it, and delivered once and whole.
THEOREM WebIsTrue == Spec => []ConnectionsTrue
<1>1. WebInv => ConnectionsTrue
  <2> SUFFICES ASSUME WebInv PROVE ConnectionsTrue
    OBVIOUS
  <2>1. ConnectedIsConnected
    BY DEF WebInv, ConnectInv
  <2>2. Detects /\ TlsTrue /\ CopyTrue /\ MailTrue
    BY ServiceDetects, TlsIsTrue, CopyIsTrue, MailIsTrue DEF WebInv
  <2> QED BY <2>1, <2>2 DEF ConnectionsTrue, Of
<1> QED BY <1>1, WebStarts, WebKeeps, PTL DEF Spec
=============================================================================
