----------------------------- MODULE StreamFind -----------------------------
(***************************************************************************)
(* Looking for a key in the lines of a file (STREAMFind of libUseful/      *)
(* Stream.c): one line after the other, or, in a file that is sorted, by   *)
(* halving, going back and going on.                                       *)
(***************************************************************************)
EXTENDS Integers, FiniteSets, SequencesExt

CONSTANTS
  Sortings,    \* the files: each a sequence of lines, [key, size], in their order
  Sought,      \* the keys that are looked for
  NearEnough,  \* the distance below which the halving ends: 100
  RewindBy,    \* how far it goes back at a time: 1024
  Parts        \* a position is a double: parts of a byte that are told apart

ASSUME FindAssumption ==
  /\ NearEnough \in Nat \ {0} /\ RewindBy \in Nat \ {0} /\ Parts \in Nat \ {0}
  /\ \A file \in Sortings : \A i, j \in DOMAIN file : i < j => file[i].key < file[j].key

VARIABLES
  lines, item, sorted,  \* the file, Item and SF_SORTED
  stage,   \* "halve", "rewind", "forward" or, when it has returned, "found", "missing"
  halfway, \* pos, in parts of a byte
  delta,   \* delta, in parts of a byte
  order,   \* result: the sign of Item against the line, "none" before the first
  tempstr  \* the line last read, 0 for NULL

findVars == <<lines, item, sorted, stage, halfway, delta, order, tempstr>>

-----------------------------------------------------------------------------
LineStart(k) == SumFunctionOnSet([i \in DOMAIN lines |-> lines[i].size], 1..(k - 1))
FileSize == LineStart(Len(lines) + 1)

FindInit ==
  /\ lines \in Sortings /\ item \in Sought /\ sorted \in BOOLEAN
  /\ stage = (IF sorted THEN "halve" ELSE "forward")
  /\ halfway = (FileSize * Parts) \div 2 /\ delta = halfway
  /\ order = (IF sorted THEN "none" ELSE "behind")
  /\ tempstr = (IF sorted \/ lines = <<>> THEN 0 ELSE 1)

\* The line that is read first from pos on: at the start the first, and else the one
\* behind the line that is there; 0 for none.
LineFrom(pos) ==
  LET next == {k \in DOMAIN lines : pos = 0 \/ LineStart(k) > pos \div Parts}
  IN  IF next = {} THEN 0 ELSE Min(next)

\* STREAMFindCompare
Against(k) ==
  IF item = lines[k].key THEN "same" ELSE IF item < lines[k].key THEN "before" ELSE "behind"

\* The key is before the line and there are lines before it.
GoesBack(way, pos) == way = "before" /\ pos > 0

Halve ==
  /\ stage = "halve" /\ delta > NearEnough * Parts
  /\ LineFrom(halfway) # 0
  /\ tempstr' = LineFrom(halfway)
  /\ order' = Against(tempstr')
  /\ IF order' = "same" THEN UNCHANGED <<halfway, delta>>
     ELSE /\ delta' = delta \div 2
          /\ halfway' = halfway + (IF order' = "behind" THEN delta' ELSE -delta')
  /\ stage' = (IF order' = "same" THEN "forward" ELSE "halve")
  /\ UNCHANGED <<lines, item, sorted>>

\* No line is behind the place: FALSE is returned, or NULL compared.
HalveAtEnd ==
  /\ stage = "halve" /\ delta > NearEnough * Parts
  /\ LineFrom(halfway) = 0
  /\ stage' = "missing"
  /\ UNCHANGED <<lines, item, sorted, halfway, delta, order, tempstr>>

\* A file that is too short to be halved leaves result unset: it may be anything.
Near ==
  /\ stage = "halve" /\ delta <= NearEnough * Parts
  /\ order' \in (IF order = "none" THEN {"before", "same", "behind"} ELSE {order})
  /\ stage' = (IF GoesBack(order', halfway) THEN "rewind" ELSE "forward")
  /\ UNCHANGED <<lines, item, sorted, halfway, delta, tempstr>>

Rewound(pos) == IF pos < 2 * RewindBy * Parts THEN 0 ELSE pos - (RewindBy * Parts)

Rewind ==
  /\ stage = "rewind"
  /\ halfway' = Rewound(halfway)
  /\ tempstr' = LineFrom(halfway')
  /\ order' = Against(tempstr')
  /\ stage' = (IF GoesBack(order', halfway') THEN "rewind" ELSE "forward")
  /\ UNCHANGED <<lines, item, sorted, delta>>

\* The lines from the one last read on; a file that is not sorted is read to its end.
Forward ==
  /\ stage = "forward"
  /\ stage' = (IF tempstr = 0 THEN "missing"
               ELSE IF Against(tempstr) = "same" THEN "found"
               ELSE IF Against(tempstr) = "before" /\ sorted THEN "missing" ELSE "forward")
  /\ tempstr' = (IF stage' # "forward" THEN tempstr
                 ELSE IF tempstr = Len(lines) THEN 0 ELSE tempstr + 1)
  /\ UNCHANGED <<lines, item, sorted, halfway, delta, order>>

FindNext == Halve \/ HalveAtEnd \/ Near \/ Rewind \/ Forward

FindSpec == FindInit /\ [][FindNext]_findVars /\ WF_findVars(FindNext)

-----------------------------------------------------------------------------
(* Properties                                                              *)

FindTypeOK ==
  /\ lines \in Sortings /\ item \in Sought /\ sorted \in BOOLEAN
  /\ stage \in {"halve", "rewind", "forward", "found", "missing"}
  /\ halfway \in 0..(FileSize * Parts) /\ delta \in 0..(FileSize * Parts)
  /\ order \in {"none", "before", "same", "behind"}
  /\ tempstr \in 0..Len(lines)

\* A file that is halved at least once, of lines that are shorter than the distance
\* at which that ends.
Searchable ==
  ~sorted \/ (FileSize > 2 * NearEnough /\ \A k \in DOMAIN lines : lines[k].size <= NearEnough)

\* The key is found in the line it is in, and it is missing only if it is in none,
\* wherever the halving leads to and however far it has to go back.
KeyIsFound ==
  /\ stage = "found" => tempstr # 0 /\ lines[tempstr].key = item
  /\ stage = "missing" /\ Searchable => \A k \in DOMAIN lines : lines[k].key # item

\* The search comes to its end.
SearchEnds == <>(stage \in {"found", "missing"})
=============================================================================
