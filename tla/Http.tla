------------------------------- MODULE Http -------------------------------
(***************************************************************************)
(* One HTTPTransact (libUseful/Http.c): the connection, the request, the   *)
(* answer, and the further requests that redirects and challenges lead to. *)
(* A page is a host and a document; each page is on a host of its own.     *)
(***************************************************************************)
EXTENDS Naturals

CONSTANTS
  Pages,      \* the pages there are
  Methods,    \* HEAD, GET: no body; POST: with its body; PUT: the caller writes it
  Logins      \* "url": HTTPInfoFromURL; "info": HTTPInfoCreate; "oauth"

ASSUME HttpAssumption ==
  /\ {"", "none"} \cap Pages = {}
  /\ Methods \subseteq {"HEAD", "GET", "POST", "PUT"} /\ Logins \subseteq {"url", "info", "oauth"}

VARIABLES
  site,       \* what each page does, the same all the time
  follow,     \* ~HTTP_NOREDIRECT
  login,      \* how AuthFlags were set
  page,       \* Info->Host, Info->Doc
  method,     \* Info->Method, with Info->PostData
  authFlags,  \* of Info->AuthFlags: "basic", "oauth", "sent", "return"
  authorization, proxyAuthorization, \* whether there are any
  previous,   \* Info->PreviousRedirect
  conn,       \* the page whose host S is connected to, or "none"
  state,      \* Info->State
  pc,         \* "connect", "wait", "paused": the caller is to write; "over"
  request,    \* the last request
  reply,      \* the server's answer to it, on its way
  live,       \* the server has not closed the connection
  stale,      \* bytes of an earlier reply's body are still in front
  result,     \* what HTTPTransact returned
  broke,      \* history: the connection was reset while the caller wrote
  challenges  \* history: the 401s that were read

httpVars == <<site, follow, login, page, method, authFlags, authorization,
  proxyAuthorization, previous, conn, state, pc, request, reply, live, stale, result, broke, challenges>>
setup == <<site, follow, login>>
target == <<page, method, previous>>
auth == <<authFlags, authorization, proxyAuthorization, challenges>>
ofCall == <<setup, broke>>

Redirects == [code : {"302", "303"}, to : Pages \cup {""}]
Behaviours ==
  Redirects \cup [code : {"200", "404", "login", "refuse", "proxy", "proxyrefuse"}, to : {""}]
NoRequest == [page |-> "none", login |-> FALSE, proxy |-> FALSE, whole |-> FALSE]
NoReply == [code |-> "none", to |-> ""]

HttpInit ==
  /\ site \in [Pages -> Behaviours] /\ follow \in BOOLEAN /\ login \in Logins
  /\ page \in Pages /\ method \in Methods /\ previous = "none"
  /\ authFlags = CASE login = "url" -> {"basic"} [] login = "oauth" -> {"oauth"} [] OTHER -> {}
  /\ authorization = FALSE /\ proxyAuthorization = FALSE /\ challenges = 0 /\ broke = FALSE
  /\ conn = "none" /\ state = {} /\ pc = "connect" /\ result = "none"
  /\ request = NoRequest /\ reply = NoReply /\ live = FALSE /\ stale = FALSE

-----------------------------------------------------------------------------
\* Variants of definitions below with a slip in them, used by nothing: the
\* properties are tried with them in the place of Marked, Cleared and Disconnected.
NotMarked == {}
NotCleared == {"headers", "data"}
KeepsConnection == conn

-----------------------------------------------------------------------------
(* HTTPConnect and HTTPSendHeaders                                         *)

Connect ==
  /\ pc = "connect" /\ conn = "none" /\ page \in Pages
  /\ conn' = page /\ live' = TRUE /\ stale' = FALSE
  /\ UNCHANGED <<ofCall, target, auth, state, pc, request, reply, result>>

\* Also what becomes of a redirect without a Location.
ConnectFails ==
  /\ pc = "connect" /\ conn = "none"
  /\ pc' = "over" /\ result' = "null"
  /\ UNCHANGED <<ofCall, target, auth, conn, state, request, reply, live, stale>>

\* Whether HTTPHeadersAppendAuth is given something, and its "even if we didn't
\* send the password, say we did so here".
SendsAuth == authorization \/ authFlags \cap {"basic", "oauth"} # {}
Marked == IF (SendsAuth \/ proxyAuthorization) /\ "oauth" \notin authFlags THEN {"sent"} ELSE {}

HasBody == method \in {"POST", "PUT"}

\* The headers go out unless they were sent already; HTTPTransact then writes
\* PostData, or leaves the body to its caller, who comes back when it is written.
\* The input buffer is emptied before, of what has come by then.
Request ==
  /\ pc = "connect" /\ conn # "none"
  /\ stale' \in {FALSE, stale}
  /\ IF "headers" \in state
       THEN UNCHANGED <<request, authFlags>>
       ELSE /\ request' = [page |-> page, login |-> SendsAuth, proxy |-> proxyAuthorization,
                           whole |-> method # "PUT"]
            /\ authFlags' = authFlags \cup Marked
  /\ pc' = IF "data" \notin state /\ method = "PUT" THEN "paused" ELSE "wait"
  /\ state' = IF pc' = "paused" THEN {"headers", "data"} ELSE state
  /\ result' = IF pc' = "paused" THEN "stream" ELSE result
  /\ reply' = NoReply
  /\ UNCHANGED <<ofCall, target, authorization, proxyAuthorization, challenges, conn, live>>

\* A connection that is reset by the time of HTTPTransact's own look: it leaves with
\* the stream, whose headers count as sent.
Lost ==
  /\ pc = "connect" /\ conn # "none"
  /\ authFlags' = authFlags \cup Marked /\ state' = {"headers"}
  /\ pc' = "over" /\ result' = "stream"
  /\ UNCHANGED <<ofCall, target, authorization, proxyAuthorization, challenges, conn, request, reply,
                 live, stale>>

\* The caller writes the body and calls HTTPTransact again (STREAMCommit).
CallerWrites ==
  /\ pc = "paused" /\ conn # "none"
  /\ request' = [request EXCEPT !.whole = TRUE]
  /\ pc' = "wait" /\ result' = "none"
  /\ UNCHANGED <<ofCall, target, auth, conn, state, reply, live, stale>>

\* After a reset HTTPConnect connects again, but the headers count as sent: nothing
\* is, and HTTPTransact waits for the answer.
ConnectsAgain ==
  /\ pc = "paused" /\ conn = "none"
  /\ \/ conn' = page /\ live' = TRUE /\ stale' = FALSE /\ pc' = "wait" /\ result' = "none"
     \/ pc' = "over" /\ result' = "null" /\ UNCHANGED <<conn, live, stale>>
  /\ request' = NoRequest
  /\ UNCHANGED <<ofCall, target, auth, state, reply>>

-----------------------------------------------------------------------------
(* The server                                                              *)

\* What it says to a request: it wants to see a login, or a login for a proxy, or
\* it refuses all of them, as it refuses one without a password.
Code(r) ==
  LET b == site[r.page]
  IN  CASE b.code = "login" -> IF r.login THEN "200" ELSE "401"
        [] b.code = "refuse" -> "401"
        [] b.code = "proxy" -> IF r.proxy THEN "200" ELSE "407"
        [] b.code = "proxyrefuse" -> "407"
        [] OTHER -> b.code

\* It answers a whole request and may close then, as it was asked to.
Answer ==
  /\ pc = "wait" /\ live /\ reply = NoReply /\ request.whole
  /\ reply' = [code |-> Code(request), to |-> site[request.page].to]
  /\ live' \in BOOLEAN
  /\ UNCHANGED <<ofCall, target, auth, conn, state, pc, request, stale, result>>

\* It closes, or the client has waited for as long as its Timeout says.
HangsUp ==
  /\ pc = "wait" /\ live /\ reply = NoReply
  /\ live' = FALSE
  /\ UNCHANGED <<ofCall, target, auth, conn, state, pc, request, reply, stale, result>>

\* The connection is reset while the caller writes: it has no peer any more, and
\* STREAMIsConnected is FALSE.
Reset ==
  /\ pc = "paused" /\ conn # "none"
  /\ conn' = "none" /\ live' = FALSE /\ broke' = TRUE
  /\ UNCHANGED <<setup, target, auth, state, pc, request, reply, stale, result>>

-----------------------------------------------------------------------------
(* HTTPReadHeaders, HTTPProcessResponse and the rest of HTTPTransact       *)

\* "Must clear this once the headers and clientdata sent".
Cleared == {}

\* STREAMShutdown.
Disconnected == "none"

\* "redirected back to the page we just asked for".
Circular(to) == previous = to

\* The status that is read: an old body, like the end of the connection, has none.
Status == IF stale \/ reply = NoReply THEN "" ELSE reply.code

HasAnswer == pc = "wait" /\ (stale \/ reply # NoReply \/ ~live)

Over(outcome) == pc' = "over" /\ result' = outcome /\ UNCHANGED <<conn, stale>>

\* HTTP_OKAY, HTTP_NOTFOUND: the stream is returned either way.
Finish ==
  /\ HasAnswer /\ state' = Cleared
  /\ Status \in {"200", "404", ""}
  /\ Over("stream")
  /\ UNCHANGED <<ofCall, target, auth, request, reply, live>>

CircularRedirect ==
  /\ HasAnswer /\ state' = Cleared
  /\ Status \in {"302", "303"} /\ Circular(reply.to)
  /\ Over("stream")
  /\ UNCHANGED <<ofCall, target, auth, request, reply, live>>

\* 303 makes it a GET without a body.
Redirect ==
  /\ HasAnswer /\ state' = Cleared
  /\ Status \in {"302", "303"} /\ ~Circular(reply.to)
  /\ previous' = reply.to /\ page' = reply.to
  /\ method' = IF Status = "303" THEN "GET" ELSE method
  /\ IF follow THEN pc' = "connect" /\ conn' = Disconnected /\ UNCHANGED <<stale, result>>
               ELSE Over("stream")
  /\ UNCHANGED <<ofCall, auth, request, reply, live>>

\* A request on the same connection, behind the rest of this reply, or on another one
\* to the same host if this one has been reset.
TryAgain ==
  /\ pc' = "connect" /\ stale' = (method # "HEAD") /\ conn' \in {conn, "none"}
  /\ UNCHANGED result

\* HTTPTransactHandleAuthRequest: OAuth gets new credentials once.
GivesUp ==
  IF "oauth" \in authFlags THEN "return" \in authFlags
  ELSE "sent" \in authFlags \/ ~authorization'

\* A WWW-Authenticate in the headers has set Authorization; digest is like basic.
Challenge ==
  /\ HasAnswer /\ state' = Cleared
  /\ Status = "401" /\ challenges' = challenges + 1
  /\ \E named \in BOOLEAN :
       /\ authorization' = (authorization \/ named \/ "oauth" \in authFlags)
       /\ authFlags' = authFlags \cup (IF named THEN {"basic"} ELSE {})
                                \cup (IF "oauth" \in authFlags THEN {"return"} ELSE {})
  /\ IF GivesUp THEN Over("stream") ELSE TryAgain
  /\ UNCHANGED <<ofCall, target, proxyAuthorization, request, reply, live>>

\* A Proxy-Authenticate has set ProxyAuthorization; once there is some it is tried.
ProxyChallenge ==
  /\ HasAnswer /\ state' = Cleared
  /\ Status = "407"
  /\ \E named \in BOOLEAN :
       /\ proxyAuthorization' = (proxyAuthorization \/ named)
       /\ authFlags' = authFlags \cup (IF named THEN {"basic"} ELSE {})
  /\ IF proxyAuthorization' THEN TryAgain ELSE Over("stream")
  /\ UNCHANGED <<ofCall, target, authorization, challenges, request, reply, live>>

Respond == Finish \/ CircularRedirect \/ Redirect \/ Challenge \/ ProxyChallenge

HttpNext ==
  \/ Connect \/ ConnectFails \/ Request \/ Lost \/ CallerWrites \/ ConnectsAgain
  \/ Answer \/ HangsUp \/ Reset
  \/ Respond

\* The client goes on, and a connection attempt ends; so does a wait, by the answer,
\* the end of the connection or the time.
HttpFairness ==
  /\ WF_httpVars(Connect \/ ConnectFails) /\ WF_httpVars(Request) /\ WF_httpVars(Respond)
  /\ WF_httpVars(Answer \/ HangsUp)

HttpSpec == HttpInit /\ [][HttpNext]_httpVars /\ HttpFairness

-----------------------------------------------------------------------------
(* Properties                                                              *)

HttpTypeOK ==
  /\ site \in [Pages -> Behaviours] /\ follow \in BOOLEAN /\ login \in Logins
  /\ page \in Pages \cup {""} /\ method \in Methods \cup {"GET"}
  /\ previous \in Pages \cup {"", "none"} /\ conn \in Pages \cup {"none"}
  /\ authFlags \subseteq {"basic", "oauth", "sent", "return"}
  /\ {authorization, proxyAuthorization, live, stale, broke} \subseteq BOOLEAN
  /\ state \in {{}, {"headers"}, {"headers", "data"}} /\ (pc = "connect" => state = {})
  /\ pc \in {"connect", "wait", "paused", "over"}
  /\ request \in [page : Pages \cup {"none"}, login : BOOLEAN, proxy : BOOLEAN, whole : BOOLEAN]
  /\ reply.code \in {"none", "200", "302", "303", "401", "404", "407"}
  /\ result \in {"none", "null", "stream"} /\ challenges \in Nat

\* Client and server never wait for each other: while the client waits for the
\* answer of a server that is there, a whole request for the page it wants has
\* gone to the host that has it, after however many redirects and challenges and
\* new connections; but for a caller whose connection was reset while it wrote.
NoMutualWait ==
  pc = "wait" /\ live /\ ~broke => request.whole /\ request.page = page /\ conn = page

\* The same login is not tried over and over: the second challenge is the last.
TwoChallengesAtMost == challenges <= 2

\* The rest of a reply is never taken for the answer to the next request, in a
\* call such as GetTimeFromHTTPHost makes: the login that is sent blindly with
\* the first request keeps it from asking twice on one connection.
NoStaleAnswer ==
  login = "url" /\ (\A p \in Pages : site[p].code \notin {"proxy", "proxyrefuse"}) => ~stale

\* A login is neither repeated nor answered by what is left of an earlier reply.
LoginsEnd == TwoChallengesAtMost /\ NoStaleAnswer

\* Pages that send the client round in a circle of more than one, or a proxy that
\* is never content.
Loops ==
  \/ \E p \in Pages : site[p].code = "proxyrefuse"
  \/ \E p \in Pages : site[p].to \in Pages \ {p} /\ site[site[p].to].to = p

\* HTTPTransact returns, or leaves the body to its caller, whatever the pages do
\* but for Loops and whenever a connection breaks.
Returns == ~Loops ~> pc \in {"paused", "over"}

\* Http.c: "we're not stuck in an eternal loop of sending passwords", and a
\* circular redirect "could put us in a loop, so we just give up".
AlwaysReturns == pc = "connect" ~> pc \in {"paused", "over"}
=============================================================================
