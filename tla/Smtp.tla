-------------------------------- MODULE Smtp --------------------------------
(***************************************************************************)
(* Sending mail (libUseful/Smtp.c): SMTPSendMail and SMTPSendMailFile, a   *)
(* conversation of lines with a server that answers each with one reply.   *)
(* The client takes the next reply that arrives for the one to its last    *)
(* line.  Replies are whole: "ok" begins with 2 or 3, "no" does not.       *)
(***************************************************************************)
EXTENDS Integers, Sequences

CONSTANTS
  MaxRecipients,  \* bound
  MaxSlips,       \* bound: replies that are late
  Messages        \* what is sent: sequences of "text", "dot", a line that is a full stop, and
                  \* "dotted", one that begins with it

ASSUME SmtpAssumption ==
  MaxRecipients \in Nat \ {0} /\ MaxSlips \in Nat /\ Messages \subseteq Seq({"text", "dot", "dotted"})

VARIABLES
  mailServer,  \* ehlo: knows EHLO; auth: the logins it names; tls: takes STARTTLS
  mail,        \* user: the URL has a login; nossl; recipients; from: "text", "file", "no file"; message
  mailAt,      \* the line whose reply is waited for, or "connect", "tls", "body", "end"
  unasked,     \* recipients that have not been asked
  accepted,    \* result of SmtpSendRecipients
  caps,        \* Caps
  told,        \* what the call returns
  mailLines,   \* lines on their way to the server
  replies,     \* replies that are on their way or arrived
  session,     \* what the server is waiting for
  rcpts,       \* recipients it took
  box,         \* the message it is being given
  delivered,   \* the messages it took
  asked,       \* history: number of the last line; 0 is the connection
  slips        \* history: replies that were not waited for

smtpVars == <<mailServer, mail, mailAt, unasked, accepted, caps, told, mailLines, replies, session,
              rcpts, box, delivered, asked, slips>>

AuthCaps == {"login", "plain"}
Gone == session = "gone"

-----------------------------------------------------------------------------
(* The server                                                              *)

Takes(line) ==
  CASE line = "EHLO" -> mailServer.ehlo
    [] line = "HELO" -> TRUE
    [] line = "STARTTLS" -> mailServer.tls /\ session = "hello"
    [] line = "AUTH LOGIN" -> "login" \in mailServer.auth
    [] line = "AUTH PLAIN" -> "plain" \in mailServer.auth
    [] line = "MAIL" -> session = "hello"
    [] line = "RCPT" -> session \in {"mail", "rcpt"}
    [] line = "DATA" -> session = "rcpt"
    [] OTHER -> FALSE

Becomes(line) ==
  CASE line \in {"EHLO", "HELO", "AUTH PLAIN"} -> "hello"
    [] line = "STARTTLS" -> "tls" [] line = "AUTH LOGIN" -> "user"
    [] line = "MAIL" -> "mail" [] line = "RCPT" -> "rcpt" [] line = "DATA" -> "data"

\* Of a line of a message that begins with a full stop it takes the rest.
Kept(line) == IF line = "dotted" THEN "rest" ELSE line

\* What it may say to a line and be waiting for then.
Reactions(line) ==
  CASE session = "data" /\ line # "dot" -> {<<"", "data">>}
    [] session = "data" /\ line = "dot" -> {<<"ok", "hello">>, <<"no", "hello">>}
    [] session = "tls" -> {<<"", "gone">>}
    [] session = "user" -> {<<"ok", "pass">>, <<"no", "hello">>}
    [] session = "pass" -> {<<"ok", "hello">>, <<"no", "hello">>}
    [] session \notin {"data", "tls", "user", "pass"} /\ line = "QUIT" -> {<<"ok", "gone">>}
    [] OTHER -> {<<"no", session>>, <<"", "gone">>}
                  \cup (IF Takes(line) THEN {<<"ok", Becomes(line)>>} ELSE {})

ServerTakes ==
  /\ mailLines # <<>> /\ ~Gone
  /\ LET line == Head(mailLines) IN
     \E r \in Reactions(line.is) :
       /\ session' = r[2]
       /\ replies' = (IF r[1] = "" THEN replies ELSE Append(replies, [to |-> line.n, is |-> r[1]]))
       /\ rcpts' = (IF line.is = "RCPT" /\ r[2] = "rcpt" /\ r[1] = "ok" THEN rcpts + 1 ELSE rcpts)
       /\ box' = (IF session = "data" /\ line.is # "dot" THEN Append(box, Kept(line.is)) ELSE <<>>)
       /\ delivered' = (IF session = "data" /\ r = <<"ok", "hello">> THEN Append(delivered, box) ELSE delivered)
  /\ mailLines' = Tail(mailLines)
  /\ UNCHANGED <<mailServer, mail, mailAt, unasked, accepted, caps, told, asked, slips>>

-----------------------------------------------------------------------------
(* The client                                                              *)

Numbered(ls) == [k \in 1..Len(ls) |-> [n |-> asked + k, is |-> ls[k]]]

\* STREAMWriteLine and the wait for a reply. Nobody reads what is sent to who is gone.
Writes(ls, awaits) ==
  /\ mailLines' = (IF Gone THEN mailLines ELSE mailLines \o Numbered(ls))
  /\ asked' = asked + Len(ls)
  /\ mailAt' = awaits

EndsMail(value) == mailAt' = "end" /\ told' = value /\ UNCHANGED <<mailLines, asked>>
Proceeds(to) == mailAt' = to /\ UNCHANGED <<mailLines, asked>>

\* SMTPRead: the next reply, or nothing if there is none in time.
Read(is) ==
  \/ /\ replies # <<>> /\ is = Head(replies).is
     /\ replies' = Tail(replies) /\ UNCHANGED slips
  \/ /\ replies = <<>> /\ is = "none" /\ (Gone \/ slips < MaxSlips)
     /\ slips' = (IF Gone THEN slips ELSE slips + 1) /\ UNCHANGED replies

Mine == UNCHANGED <<session, rcpts, box, delivered, mailServer, mail>>
Otherwise == UNCHANGED <<unasked, accepted, caps, told>>

\* STREAMOpen, and the server's greeting.
SMTPConnects ==
  /\ mailAt = "connect"
  /\ \/ EndsMail(FALSE) /\ UNCHANGED <<replies, session>>
     \/ /\ mail.from # "no file" /\ Proceeds("greeting") /\ UNCHANGED told
        /\ session' = "new"
        /\ \E is \in {"ok", "no"} : replies' = <<[to |-> 0, is |-> is]>>
  /\ UNCHANGED <<mailServer, mail, unasked, accepted, caps, rcpts, box, delivered, slips>>

Greeted ==
  /\ mailAt = "greeting"
  /\ \/ Read("ok") /\ Writes(<<"EHLO">>, "EHLO") /\ Otherwise
     \/ (Read("no") \/ Read("none")) /\ EndsMail(FALSE) /\ UNCHANGED <<unasked, accepted, caps>>
  /\ Mine

\* After STARTTLS, whatever came of it.
LoginOrMail(has) ==
  IF mail.user /\ "login" \in has THEN Writes(<<"AUTH LOGIN">>, "AUTH LOGIN")
  ELSE IF mail.user /\ "plain" \in has THEN Writes(<<"AUTH PLAIN">>, "AUTH PLAIN")
  ELSE Writes(<<"MAIL">>, "MAIL")

SecureOrNot(has) ==
  /\ caps' = has
  /\ IF mail.nossl THEN LoginOrMail(has) ELSE Writes(<<"STARTTLS">>, "STARTTLS")

\* SMTPHelo: a HELO is written, and written again by SMTPInteract.
HeloLines == <<"HELO", "HELO">>
SMTPHelo ==
  /\ \/ /\ mailAt = "EHLO"
        /\ \/ Read("ok") /\ SecureOrNot({"ehlo"} \cup mailServer.auth)
           \/ (Read("no") \/ Read("none")) /\ Writes(HeloLines, "HELO") /\ UNCHANGED caps
        /\ UNCHANGED told
     \/ /\ mailAt = "HELO"
        /\ \/ Read("ok") /\ SecureOrNot({"helo"}) /\ UNCHANGED told
           \/ (Read("no") \/ Read("none")) /\ EndsMail(FALSE) /\ UNCHANGED caps
  /\ Mine /\ UNCHANGED <<unasked, accepted>>

StartTls ==
  /\ mailAt = "STARTTLS"
  /\ \/ Read("ok") /\ Proceeds("tls")
     \/ (Read("no") \/ Read("none")) /\ LoginOrMail(caps)
  /\ Mine /\ Otherwise

\* DoSSLClientNegotiation, whose result is not looked at: after it there is TLS, or no
\* server that understands what is written, in the clear or not.
Negotiates ==
  /\ mailAt = "tls"
  /\ \/ session = "tls" /\ mailLines = <<>> /\ replies = <<>>
        /\ session' = "hello" /\ LoginOrMail(caps) /\ UNCHANGED replies
     \/ session' = "gone" /\ replies' = <<>> /\ mailLines' = <<>> /\ asked' = asked + 1
        /\ mailAt' = (IF mail.user /\ caps \cap AuthCaps # {} THEN
                        (IF "login" \in caps THEN "AUTH LOGIN" ELSE "AUTH PLAIN") ELSE "MAIL")
  /\ UNCHANGED <<mailServer, mail, rcpts, box, delivered, slips>> /\ Otherwise

\* SMTPLogin, whose result is not looked at either.
SMTPLogin ==
  /\ \/ mailAt = "AUTH LOGIN" /\ Read("ok") /\ Writes(<<"user">>, "user")
     \/ mailAt = "user" /\ Read("ok") /\ Writes(<<"pass">>, "pass")
     \/ /\ mailAt \in {"AUTH LOGIN", "user"} /\ (Read("no") \/ Read("none"))
        /\ Writes(<<"MAIL">>, "MAIL")
     \/ /\ mailAt \in {"AUTH PLAIN", "pass"} /\ \E is \in {"ok", "no", "none"} : Read(is)
        /\ Writes(<<"MAIL">>, "MAIL")
  /\ Mine /\ Otherwise

MailFrom ==
  /\ mailAt = "MAIL"
  /\ \/ Read("ok") /\ Writes(<<"RCPT">>, "RCPT") /\ unasked' = mail.recipients - 1 /\ UNCHANGED told
     \/ (Read("no") \/ Read("none")) /\ EndsMail(FALSE) /\ UNCHANGED unasked
  /\ Mine /\ UNCHANGED <<accepted, caps>>

\* Whether one of them was taken.
AnyRecipient(before, is) == before \/ is = "ok"

SmtpSendRecipients ==
  /\ mailAt = "RCPT"
  /\ \E is \in {"ok", "no", "none"} :
       /\ Read(is)
       /\ accepted' = AnyRecipient(accepted, is)
  /\ IF unasked > 0 THEN Writes(<<"RCPT">>, "RCPT") /\ unasked' = unasked - 1 /\ UNCHANGED told
     ELSE IF accepted' THEN Writes(<<"DATA">>, "DATA") /\ UNCHANGED <<unasked, told>>
     ELSE EndsMail(FALSE) /\ UNCHANGED unasked
  /\ Mine /\ UNCHANGED caps

Data ==
  /\ mailAt = "DATA"
  /\ \/ Read("ok") /\ Proceeds("body") /\ UNCHANGED told
     \/ (Read("no") \/ Read("none")) /\ EndsMail(FALSE)
  /\ Mine /\ UNCHANGED <<unasked, accepted, caps>>

\* The message and the full stop behind it, as they are: no full stop is put before one
\* that begins a line.
SendsBody ==
  /\ mailAt = "body"
  /\ Writes((IF mail.from = "text" THEN <<"text">> ELSE <<>>) \o mail.message \o <<"dot">>, "sent")
  /\ UNCHANGED <<replies, slips>> /\ Mine /\ Otherwise

Quit ==
  /\ \/ mailAt = "sent" /\ (\E is \in {"ok", "no", "none"} : Read(is)) /\ Writes(<<"QUIT">>, "QUIT") /\ UNCHANGED told
     \/ mailAt = "QUIT" /\ (\E is \in {"ok", "no", "none"} : Read(is)) /\ EndsMail(TRUE)
  /\ Mine /\ UNCHANGED <<unasked, accepted, caps>>

SMTPSendMail ==
  \/ SMTPConnects \/ Greeted \/ SMTPHelo \/ StartTls \/ Negotiates \/ SMTPLogin
  \/ MailFrom \/ SmtpSendRecipients \/ Data \/ SendsBody \/ Quit

SmtpInit ==
  /\ mailServer \in [ehlo : BOOLEAN, auth : SUBSET AuthCaps, tls : BOOLEAN]
  /\ mail \in [user : BOOLEAN, nossl : BOOLEAN, recipients : 1..MaxRecipients,
               from : {"text", "file", "no file"}, message : Messages]
  /\ mailAt = "connect" /\ unasked = 0 /\ accepted = FALSE /\ caps = {} /\ told = FALSE
  /\ mailLines = <<>> /\ replies = <<>> /\ session = "gone" /\ rcpts = 0 /\ box = <<>>
  /\ delivered = <<>> /\ asked = 0 /\ slips = 0

SmtpNext == SMTPSendMail \/ ServerTakes
SmtpSpec == SmtpInit /\ [][SmtpNext]_smtpVars

-----------------------------------------------------------------------------
(* Properties                                                              *)

SmtpTypeOK ==
  /\ mailAt \in {"connect", "greeting", "EHLO", "HELO", "STARTTLS", "tls", "AUTH LOGIN", "AUTH PLAIN",
                 "user", "pass", "MAIL", "RCPT", "DATA", "body", "sent", "QUIT", "end"}
  /\ session \in {"new", "hello", "tls", "user", "pass", "mail", "rcpt", "data", "gone"}
  /\ caps \subseteq AuthCaps \cup {"ehlo", "helo"} /\ accepted \in BOOLEAN /\ told \in BOOLEAN
  /\ unasked \in 0..MaxRecipients /\ rcpts \in 0..MaxRecipients /\ asked \in Nat /\ slips \in 0..MaxSlips

\* A reply that arrives in time is the one to the line that was written last, unless
\* replies were late before, by as many as there were, and HELO is one more.
BeforeBody == mailAt \notin {"connect", "tls", "body", "sent", "QUIT", "end"}
Lag == slips + (IF "helo" \in caps THEN 1 ELSE 0)
InStep == BeforeBody /\ mailAt # "HELO" /\ replies # <<>> => Head(replies).to + Lag = asked

\* With no reply out of step a message is only sent to a server that took the sender and
\* a recipient and waits for it.
Awaited == mailAt = "body" /\ Lag = 0 => session = "data" /\ rcpts > 0

\* A mail is delivered once and whole, and not at all if the caller is told that it is
\* not, unless a line of it is a full stop, which ends it, or begins with one, which is
\* lost.
DeliveredWhole ==
  /\ Len(delivered) <= 1
  /\ {"dot", "dotted"} \cap {mail.message[k] : k \in DOMAIN mail.message} = {} =>
       \A d \in {delivered[k] : k \in DOMAIN delivered} :
         d = (IF mail.from = "text" THEN <<"text">> ELSE <<>>) \o mail.message
  /\ mailAt = "end" /\ ~told => delivered = <<>>

MailTrue == InStep /\ Awaited /\ DeliveredWhole
=============================================================================
