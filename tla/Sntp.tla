-------------------------------- MODULE Sntp --------------------------------
(***************************************************************************)
(* The arithmetic of an SNTP exchange as SNTPGetTime (sntp.c) does it.     *)
(* t1 is the reading of the clock put into the request (TimeNow, taken     *)
(* before the request was built), t2 and t3 the server's receive and       *)
(* transmit times and t4 the reading of the clock taken after the reply.   *)
(***************************************************************************)
EXTENDS SysClock

CONSTANT FloatStep   \* seconds between neighbouring floats at today's tv_sec

\* 128 seconds for a 24 bit significand and a tv_sec between 2^30 and 2^31.
ASSUME FloatAssumption == FloatStep \in Nat \ {0}

\* (float) tv_sec: to the nearest float, a tie to the even one.
FloatSec(s) ==
  LET below == s \div FloatStep
      rest  == s % FloatStep
  IN  IF 2 * rest < FloatStep \/ (2 * rest = FloatStep /\ below % 2 = 0)
        THEN below * FloatStep
        ELSE (below + 1) * FloatStep

\* timeval: the seconds go through a float, the microseconds survive it.
FloatReading(t) == FloatSec(Sec(t)) * TicksPerSec + Usec(t)

Roundtrip(t1, t2, t3, t4) == (FloatReading(t4) - t1) - (t3 - t2)

\* A variant of SntpTime with a slip in it, used by nothing: the properties
\* are tried with it in the place of SntpTime.
TimeAfterFullTrip(t1, t2, t3, t4) == t3 + Roundtrip(t1, t2, t3, t4)

\* The time SNTPGetTime reports: the server's plus half the round trip.
SntpTime(t1, t2, t3, t4) == t3 + Roundtrip(t1, t2, t3, t4) \div 2

\* The times it may report at now, asking since since: the server received
\* the request and answered it at some moments in between.
SntpTimes(t1, since, now, t4) ==
  UNION { { SntpTime(t1, t2, t3, t4) : t2 \in since .. t3 } : t3 \in since .. now }
=============================================================================
