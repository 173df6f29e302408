-------------------------------- MODULE File --------------------------------
(***************************************************************************)
(* What a STREAM on a file promises (libUseful/Stream.h): bytes, and one   *)
(* place among them at which they are read and written.                    *)
(***************************************************************************)
EXTENDS Integers, Sequences

VARIABLES
  append,  \* writes go to the end
  content, \* the bytes, what the program wrote last included
  place,   \* how many of them are before the place
  given,   \* what the last read returned
  told     \* the last place the program was told

fileVars == <<append, content, place, given, told>>

\* s with the bytes from place on; a gap reads as zeros.
Overwritten(s, from, bytes) ==
  LET end == from + Len(bytes)
  IN  [i \in 1..(IF end > Len(s) THEN end ELSE Len(s)) |->
         IF i \in (from + 1)..end THEN bytes[i - from] ELSE IF i <= Len(s) THEN s[i] ELSE 0]

Init == place \in {0, Len(content)} /\ given = <<>> /\ told = 0

Read ==
  /\ place' \in place..Len(content)
  /\ given' = SubSeq(content, place + 1, place')
  /\ UNCHANGED <<append, content, told>>

Write ==
  LET from == IF append THEN Len(content) ELSE place IN
  /\ place' >= from
  /\ content' = Overwritten(content, from, SubSeq(content', from + 1, place'))
  /\ UNCHANGED <<append, given, told>>

Tell == told' = place /\ UNCHANGED <<append, content, place, given>>

Seek ==
  /\ place' \in 0..Len(content)
  /\ told' = place'
  /\ UNCHANGED <<append, content, given>>

Truncate ==
  /\ content' = SubSeq(content, 1, Len(content'))
  /\ UNCHANGED <<append, place, given, told>>

Next == Read \/ Write \/ Tell \/ Seek \/ Truncate

Spec == Init /\ [][Next]_fileVars
=============================================================================
