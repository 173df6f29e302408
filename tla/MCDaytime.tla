----------------------------- MODULE MCDaytime -----------------------------
(* Daytime on small instances: the command lines of the runs.              *)
EXTENDS Daytime

\* daytime without an option: one look at the default servers.
Plain ==
  [demon |-> FALSE, sntpd |-> FALSE, bcastRecv |-> FALSE, bcastSend |-> FALSE,
   setsys |-> FALSE, setrtc |-> FALSE, sources |-> <<"tcp", "tcp", "sntp">>]

\* -sntpd -sntp-bcast <net> -daytime <server> -s -r
Server ==
  [Plain EXCEPT !.demon = TRUE, !.sntpd = TRUE, !.bcastSend = TRUE,
                !.setsys = TRUE, !.setrtc = TRUE, !.sources = <<"daytime">>]

\* -D -s -r -sntp bcast: the broadcasts and, the URL being there still, a server.
Listener ==
  [Plain EXCEPT !.demon = TRUE, !.bcastRecv = TRUE, !.setsys = TRUE,
                !.setrtc = TRUE, !.sources = <<"sntp">>]

\* -d -s and no server: the three defaults in turn.
Chain == [Plain EXCEPT !.demon = TRUE, !.setsys = TRUE]

\* -d alone, which only shows the time.
Watch == [Plain EXCEPT !.demon = TRUE]

\* -D -s -sntp bcast -sntp-bcast <net> -daytime <server>: the time is passed on.
Relay ==
  [Plain EXCEPT !.demon = TRUE, !.bcastRecv = TRUE, !.bcastSend = TRUE,
                !.setsys = TRUE, !.sources = <<"daytime">>]

ServerCommands == {Server, Plain, Chain, Watch}
ListenerCommands == {Listener}
RelayCommands == {Relay}
ChainCommands == {Chain}

\* Errors larger than what the program itself may cause, either way.
MCInitErrors == {-9, 0, 3, 9}
MCLargeErrors == {-13, 0, 13}
MCWildErrors == {-9, 12}
=============================================================================
