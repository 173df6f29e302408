------------------------------ MODULE SysClock ------------------------------
(***************************************************************************)
(* UpdateSystemClock (sysclock.c): what the program does with the kernel   *)
(* clock when it is handed a time.  It compares the time with the global   *)
(* TimeNow, the last reading of the clock somebody took, and not with the  *)
(* clock itself.  The kernel clock is known by its error against the true  *)
(* time (offset) and by what adjtime() has still to add to it (slew).      *)
(***************************************************************************)
EXTENDS Integers

-----------------------------------------------------------------------------
(***************************************************************************)
(* A struct timeval as the program reads it.  An instant is a number of    *)
(* ticks; tv_sec is the whole number of seconds in it and tv_usec the rest.*)
(* TicksPerSec is 1000000 in the program and a small number in a TLC model.*)
(***************************************************************************)

CONSTANT TicksPerSec

ASSUME TicksAssumption == TicksPerSec \in Nat \ {0}

Sec(t) == t \div TicksPerSec

Usec(t) == t % TicksPerSec

Distance(a, b) == IF a > b THEN a - b ELSE b - a

\* One tick in the direction of d, the pace at which a slew is worked off.
Sign(d) == IF d > 0 THEN 1 ELSE IF d < 0 THEN -1 ELSE 0

-----------------------------------------------------------------------------
CONSTANT AdjLimit    \* 40000 usec: below it the clock is slewed, not stepped

\* 40000 usec is less than half a second.
ASSUME AdjAssumption == AdjLimit \in Nat /\ 2 * AdjLimit <= TicksPerSec

\* usec_diff: a time without microseconds is never compared below the second.
UsecDiff(timeNow, time) ==
  IF Usec(time) > 0 THEN Distance(Usec(timeNow), Usec(time)) ELSE 0

-----------------------------------------------------------------------------
(* Variants of InSync and Slews with a slip in them, used by nothing: the  *)
(* properties are tried with them in the place of the two.                 *)

InSyncIfUsec(timeNow, time) == UsecDiff(timeNow, time) = 0

SlewsInAnySecond(timeNow, time) ==
  UsecDiff(timeNow, time) # 0 /\ UsecDiff(timeNow, time) < AdjLimit

SlewsWithoutLimit(timeNow, time) ==
  Sec(timeNow) = Sec(time) /\ UsecDiff(timeNow, time) # 0

-----------------------------------------------------------------------------
\* "Clock already synchroized": nothing is done.
InSync(timeNow, time) ==
  /\ Sec(timeNow) = Sec(time)
  /\ UsecDiff(timeNow, time) = 0

\* adjtime(): the kernel works the difference off a little at a time.
Slews(timeNow, time) ==
  /\ Sec(timeNow) = Sec(time)
  /\ UsecDiff(timeNow, time) # 0
  /\ UsecDiff(timeNow, time) < AdjLimit

\* The delta handed to adjtime(): TimeNow - Time, as the source has it.
SlewDelta(timeNow, time) == Usec(timeNow) - Usec(time)

\* settimeofday(): the clock shows the time at once and no slew is left.
Steps(timeNow, time) == ~InSync(timeNow, time) /\ ~Slews(timeNow, time)

\* The kernel clock after UpdateSystemClock(time) at the true time now.
UpdateSystemClock(timeNow, time, now, offset, slew) ==
  [offset |-> IF Steps(timeNow, time) THEN time - now ELSE offset,
   slew   |-> IF Steps(timeNow, time) THEN 0
              ELSE IF Slews(timeNow, time) THEN SlewDelta(timeNow, time)
              ELSE slew]

-----------------------------------------------------------------------------
\* The kernel: one tick later a running slew may be a tick nearer its end.
SlewedOff(offset, slew) ==
  { [offset |-> offset, slew |-> slew],
    [offset |-> offset + Sign(slew), slew |-> slew - Sign(slew)] }
=============================================================================
