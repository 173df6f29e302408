------------------------------ MODULE SetTime ------------------------------
(***************************************************************************)
(* SetTimeFromCommandLine (main.c): what -S makes of a date and a time in  *)
(* one of the forms the manual lists.  A field is known by what it says    *)
(* and by what the code looks at: its separator, its order, its length.    *)
(***************************************************************************)
EXTENDS Integers, Sequences

CONSTANTS
  DateSeparators, \* the characters that are tried
  Summers         \* whether daylight saving may be in force at the time that is set

ASSUME SetTimeAssumption == Summers \subseteq BOOLEAN

VARIABLES
  typed,   \* what follows -S
  summer,  \* daylight saving is in force then
  time     \* what HandleReceivedTime is given

setTimeVars == <<typed, summer, time>>

\* "date", "time": one or two fields; "named": the output of date(1), whose zone
\* is missing, the one the machine is in, or another.
Times == [kind : {"time"}, sep : {":", "."}, seconds : BOOLEAN]
Dates == [kind : {"date"}, sep : DateSeparators, yearFirst : BOOLEAN, full : BOOLEAN]
Named == [kind : {"named"}, zone : {"none", "own", "other"}]
Forms ==
  {<<f>> : f \in Times \cup Dates \cup Named}
  \cup {<<d, t>> : d \in Dates, t \in Times} \cup {<<t, d>> : d \in Dates, t \in Times}

Unset == [date |-> "none", time |-> "none", hours |-> 0]

SetTimeInit == typed \in Forms /\ summer \in Summers /\ time = Unset

-----------------------------------------------------------------------------
-----------------------------------------------------------------------------
\* The characters GetToken splits a date at.
Splits == {"/", "-", "_", "."}

\* "if there's a ':' or a '.' in date, then presume date and time are reversed!"
Reversed == typed[1].sep \in {":", "."}

NoField == [kind |-> "none"]
Second == IF Len(typed) = 2 THEN typed[2] ELSE NoField
DateField == IF Reversed THEN Second ELSE typed[1]
TimeField == IF Reversed THEN typed[1] ELSE Second

\* A date of ten characters has its year first if a separator is four behind its
\* start, else last; of a shorter one the first field is taken three times.
DateOf(f) ==
  IF f.full /\ (f.yearFirst => f.sep \in Splits) THEN "typed" ELSE "garbled"

\* tm_isdst is not initialised: mktime takes an hour off, or adds one, or finds
\* out for itself.
MktimeError == {0, IF summer THEN 1 ELSE -1}

\* "2019/01/20 15:55:37"; today's date or the time of day where none is typed.
SetFromFields ==
  /\ typed[1].kind # "named"
  /\ \E hours \in MktimeError :
       time' = [date |-> IF DateField = NoField THEN "today" ELSE DateOf(DateField),
                time |-> IF TimeField = NoField THEN "now" ELSE "typed",
                hours |-> hours]

\* strptime passes over a zone, or does not and finds none of the formats fits.
SetFromNames ==
  /\ typed[1].kind = "named"
  /\ \E skips \in BOOLEAN, hours \in MktimeError :
       time' = [date |-> IF skips \/ typed[1].zone = "none" THEN "typed" ELSE "garbled",
                time |-> "typed", hours |-> hours]

SetTimeFromCommandLine ==
  /\ time = Unset
  /\ SetFromFields \/ SetFromNames
  /\ UNCHANGED <<typed, summer>>

-----------------------------------------------------------------------------
(* Properties                                                              *)

SetTimeTypeOK ==
  /\ typed \in Forms /\ summer \in BOOLEAN
  /\ time \in [date : {"none", "typed", "today", "garbled"}, time : {"none", "typed", "now"},
               hours : -1..1]
  /\ time.hours # 0 => (summer <=> time.hours = 1)

\* The forms of the manual that the code can take apart.
Has(kind) == \E k \in DOMAIN typed : typed[k].kind = kind
Understood ==
  \A k \in DOMAIN typed :
    /\ typed[k].kind = "date" => typed[k].full /\ typed[k].sep \in {"/", "-", "_"}
    /\ typed[k].kind = "named" => typed[k].zone = "none"

\* What is set is the date and the time that were typed, in either order and with
\* either half alone, and off by no more than the hour that tm_isdst may cost.
TypedIsSet ==
  Understood /\ time # Unset =>
    /\ time.date = IF Has("time") /\ ~Has("date") THEN "today" ELSE "typed"
    /\ time.time = IF Has("date") /\ ~Has("time") THEN "now" ELSE "typed"
=============================================================================
