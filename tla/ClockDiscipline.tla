-------------------------- MODULE ClockDiscipline --------------------------
(***************************************************************************)
(* The closed loop of UpdateSystemClock and the kernel clock when the      *)
(* server is perfect: every received time is the true time to the tick,    *)
(* as SNTP delivers it (microseconds included), and TimeNow was read at    *)
(* the same instant.  What error the loop itself leaves is the question.   *)
(***************************************************************************)
EXTENDS SysClock, TLAPS

CONSTANT MaxError      \* the largest error the clock may have before the first sync

ASSUME ErrorsAssumption == MaxError \in Nat

VARIABLES
  phase,     \* the true time within its second (tv_usec at the server)
  offset,    \* system clock minus true time
  slew,      \* what adjtime() has still to add to the clock
  synced     \* UpdateSystemClock has run at least once

vars == <<phase, offset, slew, synced>>

Init ==
  /\ phase \in 0 .. TicksPerSec - 1
  /\ offset \in -MaxError .. MaxError
  /\ slew = 0
  /\ synced = FALSE

\* Time passes; the kernel may work one tick of the slew off meanwhile.
Tick ==
  /\ phase' = (phase + 1) % TicksPerSec
  /\ \E clock \in SlewedOff(offset, slew) :
       offset' = clock.offset /\ slew' = clock.slew
  /\ UNCHANGED synced

\* One call of UpdateSystemClock with the true time.
Sync ==
  LET clock == UpdateSystemClock(phase + offset, phase, phase, offset, slew)
  IN  /\ offset' = clock.offset
      /\ slew' = clock.slew
      /\ synced' = TRUE
      /\ UNCHANGED phase

Next == Tick \/ Sync

Spec == Init /\ [][Next]_vars
-----------------------------------------------------------------------------
TypeOK ==
  /\ phase \in 0 .. TicksPerSec - 1
  /\ offset \in Int
  /\ slew \in -AdjLimit .. AdjLimit
  /\ synced \in BOOLEAN

\* Once the clock has been synchronised it stays within one second of the
\* server, slews in progress and their targets included (README.md:52, "only
\* accurate to seconds").  The slews go the wrong way, so this depends on
\* AdjLimit being less than half a second.
WithinASecond ==
  synced => /\ Distance(offset, 0) < TicksPerSec
            /\ Distance(offset + slew, 0) < TicksPerSec

\* "-s Set clock to time we got from server" (README.md:62): a correction
\* never leaves the clock further from the server than it was.
CorrectionReducesError ==
  [][synced' /\ slew' # slew /\ UNCHANGED offset
       => Distance(offset + slew', 0) <= Distance(offset, 0)]_vars

-----------------------------------------------------------------------------
(***************************************************************************)
(* The loop keeps the clock within a second of the server, for every tick  *)
(* length, every slew limit below half a second and every error the clock  *)
(* may start with.                                                         *)
(***************************************************************************)
\* The kernel has nothing to slew before the first correction.
SlewAfterSync == ~synced => slew = 0

IInv == TypeOK /\ WithinASecond /\ SlewAfterSync

\* Two instants of the same second are less than a second apart, and their
\* difference is the difference of their microseconds.
LEMMA SameSecond ==
  ASSUME NEW a \in Int, NEW b \in Int, Sec(a) = Sec(b)
  PROVE  /\ Usec(a) - Usec(b) = a - b
         /\ Distance(a - b, 0) < TicksPerSec
<1>1. /\ a = TicksPerSec * Sec(a) + Usec(a)
      /\ b = TicksPerSec * Sec(b) + Usec(b)
      /\ Usec(a) \in 0 .. TicksPerSec - 1
      /\ Usec(b) \in 0 .. TicksPerSec - 1
      /\ Sec(a) \in Int
  BY TicksAssumption DEF Sec, Usec
<1>2. TicksPerSec * Sec(a) \in Int
  BY <1>1, TicksAssumption
<1> QED BY <1>1, <1>2, TicksAssumption DEF Distance

\* A correction that is slewed aims at less than a second from the server,
\* although it doubles the error: this is where AdjLimit matters.
LEMMA SlewTarget ==
  ASSUME NEW p \in 0 .. TicksPerSec - 1, NEW o \in Int, Slews(p + o, p)
  PROVE  /\ SlewDelta(p + o, p) = o
         /\ Distance(o + SlewDelta(p + o, p), 0) < TicksPerSec
         /\ Distance(o, 0) < TicksPerSec
         /\ o \in -AdjLimit .. AdjLimit
<1>1. SlewDelta(p + o, p) = o
  BY SameSecond, TicksAssumption DEF Slews, SlewDelta
<1>2. Distance(Usec(p + o), Usec(p)) < AdjLimit
  BY DEF Slews, UsecDiff
<1>3. /\ Usec(p + o) \in Int
      /\ Usec(p) \in Int
  BY TicksAssumption DEF Usec
<1>4. Usec(p + o) - Usec(p) = o
  BY <1>1 DEF SlewDelta
<1> QED BY <1>1, <1>2, <1>3, <1>4, AdjAssumption, TicksAssumption DEF Distance

LEMMA InitInv == Init => IInv
<1> SUFFICES ASSUME Init PROVE IInv
  OBVIOUS
<1>1. offset \in Int
  BY ErrorsAssumption DEF Init
<1>2. TypeOK
  <2>1. slew \in -AdjLimit .. AdjLimit
    BY AdjAssumption DEF Init
  <2>2. synced \in BOOLEAN
    BY Zenon DEF Init
  <2> QED BY <1>1, <2>1, <2>2 DEF Init, TypeOK
<1>3. WithinASecond /\ SlewAfterSync
  BY Zenon DEF Init, WithinASecond, SlewAfterSync
<1> QED BY <1>2, <1>3 DEF IInv

\* Working a slew off keeps the clock between where it is and its target.
LEMMA TickInv == IInv /\ Tick => IInv'
<1> SUFFICES ASSUME IInv, Tick PROVE IInv'
  OBVIOUS
<1> USE TicksAssumption, AdjAssumption DEF IInv
<1>1. phase' \in 0 .. TicksPerSec - 1
  BY DEF Tick, TypeOK
<1>2. synced' = synced
  BY DEF Tick
<1>3. \/ offset' = offset /\ slew' = slew
      \/ offset' = offset + Sign(slew) /\ slew' = slew - Sign(slew)
  BY DEF Tick, SlewedOff
<1>4. CASE offset' = offset /\ slew' = slew
  BY <1>1, <1>2, <1>4 DEF TypeOK, WithinASecond, SlewAfterSync
<1>5. CASE offset' = offset + Sign(slew) /\ slew' = slew - Sign(slew)
  <2>1. TypeOK'
    BY <1>1, <1>2, <1>5 DEF TypeOK, Sign
  <2>2. SlewAfterSync'
    BY <1>2, <1>5 DEF SlewAfterSync, Sign
  <2>3. WithinASecond'
    BY <1>2, <1>5 DEF TypeOK, WithinASecond, Sign, Distance
  <2> QED BY <2>1, <2>2, <2>3
<1> QED BY <1>3, <1>4, <1>5

\* A call of UpdateSystemClock brings the clock within a second, whichever
\* of its three branches it takes.
LEMMA SyncInv == IInv /\ Sync => IInv'
<1> SUFFICES ASSUME IInv, Sync PROVE IInv'
  OBVIOUS
<1> USE TicksAssumption, AdjAssumption DEF IInv
<1> DEFINE timeNow == phase + offset
<1>1. /\ phase \in 0 .. TicksPerSec - 1
      /\ phase \in Int
      /\ offset \in Int
      /\ slew \in -AdjLimit .. AdjLimit
      /\ phase' = phase
      /\ synced' = TRUE
  BY DEF TypeOK, Sync
<1>2. offset' = IF Steps(timeNow, phase) THEN 0 ELSE offset
  BY <1>1 DEF Sync, UpdateSystemClock
<1>3. slew' = IF Steps(timeNow, phase) THEN 0
              ELSE IF Slews(timeNow, phase) THEN SlewDelta(timeNow, phase)
              ELSE slew
  BY DEF Sync, UpdateSystemClock
<1>4. CASE Steps(timeNow, phase)
  BY <1>1, <1>2, <1>3, <1>4
     DEF TypeOK, WithinASecond, SlewAfterSync, Distance
<1>5. CASE Slews(timeNow, phase)
  <2>1. /\ offset' = offset
        /\ slew' = offset
    BY <1>1, <1>2, <1>3, <1>5, SlewTarget DEF Steps
  <2>2. /\ Distance(offset, 0) < TicksPerSec
        /\ Distance(offset + offset, 0) < TicksPerSec
        /\ offset \in -AdjLimit .. AdjLimit
    BY <1>1, <1>5, SlewTarget
  <2> QED BY <1>1, <2>1, <2>2 DEF TypeOK, WithinASecond, SlewAfterSync
<1>6. CASE InSync(timeNow, phase)
  <2>1. offset' = offset /\ slew' = slew
    BY <1>2, <1>3, <1>6 DEF Steps, InSync, Slews
  <2>2. Distance(offset, 0) < TicksPerSec
    BY <1>1, <1>6, SameSecond DEF InSync
  <2>3. CASE synced
    BY <1>1, <2>1, <2>3 DEF TypeOK, WithinASecond, SlewAfterSync
  <2>4. CASE ~synced
    <3>1. offset + slew = offset
      BY <1>1, <2>4 DEF SlewAfterSync
    <3> QED BY <1>1, <2>1, <2>2, <3>1 DEF TypeOK, WithinASecond, SlewAfterSync
  <2> QED BY <2>3, <2>4 DEF TypeOK
<1> QED BY <1>4, <1>5, <1>6 DEF Steps

LEMMA IInvHolds == Spec => []IInv
<1>1. IInv /\ [Next]_vars => IInv'
  <2>1. CASE UNCHANGED vars
    BY <2>1 DEF vars, IInv, TypeOK, WithinASecond, SlewAfterSync
  <2> QED BY <2>1, TickInv, SyncInv DEF Next
<1> QED BY <1>1, InitInv, PTL DEF Spec

\* The variables keep their types, whatever the parameters: what is left to slew
\* stays within the limit below which adjtime is used (sysclock.c).
THEOREM TypeCorrect == Spec => []TypeOK
<1>1. IInv => TypeOK
  BY DEF IInv
<1> QED BY <1>1, IInvHolds, PTL

\* The clock stays within a second of the server once it was synchronised,
\* for all parameters (UpdateSystemClock, sysclock.c).
THEOREM StaysWithinASecond == Spec => []WithinASecond
<1>1. IInv => WithinASecond
  BY DEF IInv
<1> QED BY <1>1, IInvHolds, PTL
=============================================================================
