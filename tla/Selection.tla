----------------------------- MODULE Selection -----------------------------
(***************************************************************************)
(* SelectSeq for a set, as a recursive function: in this form what it      *)
(* leaves of a line can be reasoned about.                                 *)
(***************************************************************************)
EXTENDS Naturals, Sequences

\* The words of a line that are among some others, in their order.
Only(line, words) ==
  LET chosen[i \in 0..Len(line)] ==
        IF i = 0 THEN <<>>
        ELSE IF line[i] \in words THEN Append(chosen[i - 1], line[i]) ELSE chosen[i - 1]
  IN  chosen[Len(line)]
=============================================================================
