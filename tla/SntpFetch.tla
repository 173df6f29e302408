----------------------------- MODULE SntpFetch -----------------------------
(***************************************************************************)
(* What main() counts on when GoDayTime asks an SNTP server: after at most *)
(* Limit ticks there is no answer, or a time worked out from readings of   *)
(* the server's clock taken during the call.  Daytime!SntpAnswer, NoAnswer *)
(* and NoSocket are this, with what is then done with the time.            *)
(***************************************************************************)
EXTENDS SysClock, Sntp

CONSTANTS
  Limit,       \* ticks the call may take
  StartTimes,  \* true times at which it may begin
  InitErrors,  \* errors the system clock may have then
  InitSlews,   \* what adjtime() may have left to do then
  MaxAge       \* ticks since TimeNow was read

VARIABLES
  state,    \* "asking", "answered", "failed" or "fatal"
  now,      \* true time
  offset,   \* system clock minus true time
  slew,     \* what adjtime() has still to add to the system clock
  timeNow,  \* TimeNow, the last reading of the system clock
  since,    \* true time at which the call began
  time      \* the time it reports

vars == <<state, now, offset, slew, timeNow, since, time>>

Init ==
  /\ state = "asking"
  /\ now \in StartTimes
  /\ offset \in InitErrors
  /\ slew \in InitSlews
  /\ \E age \in 0 .. MaxAge : timeNow = now + offset - age
  /\ since = now
  /\ time = 0

Tick ==
  /\ state = "asking"
  /\ now - since < Limit
  /\ now' = now + 1
  /\ \E clock \in SlewedOff(offset, slew) :
       offset' = clock.offset /\ slew' = clock.slew
  /\ UNCHANGED <<state, timeNow, since, time>>

Answer ==
  /\ state = "asking"
  /\ state' = "answered"
  /\ timeNow' = now + offset
  /\ time' \in SntpTimes(timeNow, since, now, timeNow')
  /\ UNCHANGED <<now, offset, slew, since>>

Fail ==
  /\ state = "asking"
  /\ \/ state' = "failed"
     \/ now = since /\ state' = "fatal"
  /\ UNCHANGED <<now, offset, slew, timeNow, since, time>>

Next == Tick \/ Answer \/ Fail

Spec == Init /\ [][Next]_vars
=============================================================================
