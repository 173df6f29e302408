--------------------------- MODULE LibraryProofs ----------------------------
(***************************************************************************)
(* A STREAM on a file is one file with one place in it, whatever is read   *)
(* ahead of the program and whatever is still to be written: it implements *)
(* File, for every size of the buffer.  And the calls that open it, of any *)
(* number of processes, respect the locks and leave what is not theirs.    *)
(* Then the strings: the cache of their lengths says what is true of them. *)
(* Last the lists: their links, their order and what is found in them.     *)
(***************************************************************************)
EXTENDS FileStream, Strings, List, SequenceTheorems, FiniteSetTheorems, WellFoundedInduction,
        TLAPS

-----------------------------------------------------------------------------
(* Bytes that are written over others                                      *)

\* What is written is where it was written, and the rest is what it was.
LEMMA OverwrittenIs ==
  ASSUME NEW s \in Seq(Int), NEW b \in Seq(Int), NEW f \in 0..Len(s)
  PROVE  LET o == Seen!Overwritten(s, f, b) IN
         /\ o \in Seq(Int)
         /\ Len(o) = (IF f + Len(b) > Len(s) THEN f + Len(b) ELSE Len(s))
         /\ \A i \in 1..Len(o) : o[i] = IF i \in (f + 1)..(f + Len(b)) THEN b[i - f] ELSE s[i]
<1> DEFINE n == IF f + Len(b) > Len(s) THEN f + Len(b) ELSE Len(s)
           laid == [i \in 1..n |-> IF i \in (f + 1)..(f + Len(b)) THEN b[i - f]
                                 ELSE IF i <= Len(s) THEN s[i] ELSE 0]
<1>1. Len(s) \in Nat /\ Len(b) \in Nat
  BY LenProperties
<1>2. n \in Nat /\ n >= Len(s) /\ n >= f + Len(b) /\ (n > Len(s) => n = f + Len(b))
  BY <1>1
<1>3. Seen!Overwritten(s, f, b) = laid
  BY DEF Seen!Overwritten
<1> HIDE DEF n
<1>4. ASSUME NEW i \in 1..n
      PROVE  laid[i] \in Int /\ laid[i] = IF i \in (f + 1)..(f + Len(b)) THEN b[i - f] ELSE s[i]
  <2>1. CASE i \in (f + 1)..(f + Len(b))
    <3>1. i - f \in 1..Len(b)
      BY <1>1, <2>1
    <3>2. b[i - f] \in Int
      BY <3>1, ElementOfSeq
    <3> QED BY <2>1, <3>2
  <2>2. CASE i \notin (f + 1)..(f + Len(b))
    <3>1. i \in 1..Len(s)
      BY <1>1, <1>2, <2>2
    <3>2. s[i] \in Int
      BY <3>1, ElementOfSeq
    <3> QED BY <2>2, <3>1, <3>2
  <2> QED BY <2>1, <2>2
<1>5. laid \in Seq(Int) /\ Len(laid) = n
  BY <1>2, <1>4
<1> HIDE DEF laid
<1>6. n = IF f + Len(b) > Len(s) THEN f + Len(b) ELSE Len(s)
  BY DEF n
<1> QED BY <1>3, <1>4, <1>5, <1>6

\* Nothing that is written changes nothing.
LEMMA OverwrittenByNothing ==
  ASSUME NEW s \in Seq(Int), NEW f \in 0..Len(s)
  PROVE  Seen!Overwritten(s, f, <<>>) = s
<1> DEFINE none == <<>>
           o == Seen!Overwritten(s, f, none)
<1>1. Len(s) \in Nat /\ none \in Seq(Int) /\ Len(none) = 0
  BY LenProperties, EmptySeq
<1> HIDE DEF none
<1>2. /\ o \in Seq(Int)
      /\ Len(o) = (IF f + Len(none) > Len(s) THEN f + Len(none) ELSE Len(s))
      /\ \A i \in 1..Len(o) : o[i] = IF i \in (f + 1)..(f + Len(none)) THEN none[i - f] ELSE s[i]
  <2>1. f \in 0..Len(s) /\ s \in Seq(Int) /\ none \in Seq(Int)
    BY <1>1
  <2> HIDE DEF o
  <2> QED BY <2>1, OverwrittenIs DEF o
<1> HIDE DEF o
<1>3. Len(o) = Len(s)
  BY <1>1, <1>2
<1>4. ASSUME NEW i \in 1..Len(o) PROVE o[i] = s[i]
  <2>1. i \notin (f + 1)..(f + Len(none))
    BY <1>1
  <2> QED BY <1>2, <2>1
<1>5. o = s
  BY <1>2, <1>3, <1>4, SeqEqual
<1> QED BY <1>5 DEF o, none

\* A place in the first of two parts that lie behind f, in the second, or in neither.
LEMMA Sections ==
  ASSUME NEW f \in Nat, NEW la \in Nat, NEW lb \in Nat, NEW i \in Nat
  PROVE  /\ i \in (f + 1)..(f + la) =>
              /\ i \notin ((f + la) + 1)..((f + la) + lb)
              /\ i \in (f + 1)..(f + (la + lb)) /\ i - f \in 1..la + lb /\ i - f <= la
         /\ i \in ((f + la) + 1)..((f + la) + lb) =>
              i \in (f + 1)..(f + (la + lb)) /\ i - f \in 1..la + lb /\ ~(i - f <= la)
         /\ i \notin (f + 1)..((f + la) + lb) =>
              /\ i \notin ((f + la) + 1)..((f + la) + lb)
              /\ i \notin (f + 1)..(f + (la + lb)) /\ i \notin (f + 1)..(f + la)
OBVIOUS

\* Bytes that are written behind each other are written in one.
LEMMA OverwrittenTwice ==
  ASSUME NEW s \in Seq(Int), NEW a \in Seq(Int), NEW b \in Seq(Int), NEW f \in 0..Len(s)
  PROVE  Seen!Overwritten(Seen!Overwritten(s, f, a), f + Len(a), b) = Seen!Overwritten(s, f, a \o b)
<1> DEFINE ab == a \o b
           p == Seen!Overwritten(s, f, a)
           o == Seen!Overwritten(p, f + Len(a), b)
           q == Seen!Overwritten(s, f, ab)
           ls == Len(s)
           la == Len(a)
           lb == Len(b)
           lab == Len(ab)
           lp == Len(p)
           lo == Len(o)
           lq == Len(q)
<1>1. ls \in Nat /\ la \in Nat /\ lb \in Nat /\ f \in 0..ls
  BY LenProperties
<1>2. /\ ab \in Seq(Int) /\ lab = la + lb
      /\ \A i \in 1..la + lb : ab[i] = IF i <= la THEN a[i] ELSE b[i - la]
  BY ConcatProperties
<1> HIDE DEF ab
<1>3. /\ p \in Seq(Int) /\ lp = (IF f + la > ls THEN f + la ELSE ls)
      /\ \A i \in 1..lp : p[i] = IF i \in (f + 1)..(f + la) THEN a[i - f] ELSE s[i]
  BY OverwrittenIs
<1>4. /\ q \in Seq(Int) /\ lq = (IF f + lab > ls THEN f + lab ELSE ls)
      /\ \A i \in 1..lq : q[i] = IF i \in (f + 1)..(f + lab) THEN ab[i - f] ELSE s[i]
  BY <1>2, OverwrittenIs, SMTT(30)
<1> HIDE DEF p, q
<1>5. f + Len(a) \in 0..Len(p)
  <2> HIDE DEF ls, lp
  <2>1. f + la \in 0..lp
    BY <1>1, <1>3
  <2> QED BY <2>1 DEF lp
<1>6. /\ o \in Seq(Int) /\ lo = (IF (f + la) + lb > lp THEN (f + la) + lb ELSE lp)
      /\ \A i \in 1..lo : o[i] = IF i \in ((f + la) + 1)..((f + la) + lb) THEN b[i - (f + la)] ELSE p[i]
  BY <1>3, <1>5, OverwrittenIs
<1> HIDE DEF o
<1>7. /\ lo = (IF (f + la) + lb > lp THEN (f + la) + lb ELSE lp)
      /\ lp = (IF f + la > ls THEN f + la ELSE ls)
      /\ lq = (IF f + (la + lb) > ls THEN f + (la + lb) ELSE ls)
  <2> HIDE DEF ls, la, lb, lab, lp, lo, lq
  <2> QED BY <1>2, <1>3, <1>4, <1>6
<1>8. /\ f \in Nat /\ ls \in Nat /\ la \in Nat /\ lb \in Nat
      /\ lo \in Nat /\ lq \in Nat /\ lp \in Nat /\ lo = lq
  <2> HIDE DEF ls, la, lb, lab, lp, lo, lq
  <2>1. f \in Nat /\ ls \in Nat /\ la \in Nat /\ lb \in Nat
    BY <1>1
  <2> QED BY <1>7, <2>1
<1>9. ASSUME NEW i \in 1..Len(o) PROVE o[i] = q[i]
  <2>0. i \in 1..lo /\ i \in 1..lq
    BY <1>8
  <2> HIDE DEF ls, la, lb, lab, lp, lo, lq
  <2>1. lo \in Nat /\ lq \in Nat /\ lp \in Nat
    BY <1>8
  <2>a. i \in Nat /\ i > 0 /\ f \in Nat /\ la \in Nat /\ lb \in Nat /\ lab = la + lb /\ lp \in Nat /\ f + la <= lp
    BY <1>1, <1>2, <1>3, <2>0, <2>1
  <2>b. i <= (f + la) + lb \/ i <= lp
    BY <1>6, <2>0, <2>1
  <2>2. /\ o[i] = IF i \in ((f + la) + 1)..((f + la) + lb) THEN b[i - (f + la)] ELSE p[i]
        /\ q[i] = IF i \in (f + 1)..(f + lab) THEN ab[i - f] ELSE s[i]
    BY <1>4, <1>6, <2>0
  <2>3. i \in 1..lp => p[i] = IF i \in (f + 1)..(f + la) THEN a[i - f] ELSE s[i]
    BY <1>3
  <2>4. i - f \in 1..la + lb => ab[i - f] = IF i - f <= la THEN a[i - f] ELSE b[(i - f) - la]
    BY <1>2
  <2>5. (i - f) - la = i - (f + la)
    BY <1>1, <2>0, <2>1
  <2>6. CASE i \in (f + 1)..(f + la)
    <3>1. /\ i \notin ((f + la) + 1)..((f + la) + lb)
          /\ i \in (f + 1)..(f + lab) /\ i - f \in 1..la + lb /\ i - f <= la
      BY <2>a, <2>6, Sections
    <3>2. i \in 1..lp
      BY <2>a, <2>6
    <3> QED BY <2>2, <2>3, <2>4, <2>6, <3>1, <3>2
  <2>7. CASE i \in ((f + la) + 1)..((f + la) + lb)
    <3>1. i \in (f + 1)..(f + lab) /\ i - f \in 1..la + lb /\ ~(i - f <= la)
      BY <2>a, <2>7, Sections
    <3> QED BY <2>2, <2>4, <2>5, <2>7, <3>1
  <2>8. CASE i \notin (f + 1)..((f + la) + lb)
    <3>1. /\ i \notin ((f + la) + 1)..((f + la) + lb)
          /\ i \notin (f + 1)..(f + lab) /\ i \notin (f + 1)..(f + la)
      BY <2>a, <2>8, Sections
    <3>2. i \in 1..lp
      BY <2>a, <2>b, <2>8
    <3> QED BY <2>2, <2>3, <3>1, <3>2
  <2> QED BY <1>1, <2>0, <2>1, <2>6, <2>7, <2>8
<1>10. o = q
  BY <1>4, <1>6, <1>8, <1>9, SeqEqual
<1> QED BY <1>10 DEF o, q, p, ab

\* What was written is read back.
LEMMA OverwrittenReads ==
  ASSUME NEW s \in Seq(Int), NEW b \in Seq(Int), NEW f \in 0..Len(s)
  PROVE  SubSeq(Seen!Overwritten(s, f, b), f + 1, f + Len(b)) = b
<1> DEFINE o == Seen!Overwritten(s, f, b)
           r == SubSeq(o, f + 1, f + Len(b))
           ls == Len(s)
           lb == Len(b)
           lo == Len(o)
           lr == Len(r)
<1>1. ls \in Nat /\ lb \in Nat /\ f \in 0..ls
  BY LenProperties
<1>2. /\ o \in Seq(Int) /\ lo = (IF f + lb > ls THEN f + lb ELSE ls)
      /\ \A i \in 1..lo : o[i] = IF i \in (f + 1)..(f + lb) THEN b[i - f] ELSE s[i]
  BY OverwrittenIs
<1> HIDE DEF o
<1>3. ASSUME NEW i \in (f + 1)..(f + Len(b))
      PROVE  i \in 1..Len(o) /\ o[i] = b[i - f]
  <2>0. i \in (f + 1)..(f + lb)
    OBVIOUS
  <2> HIDE DEF ls, lb, lo
  <2>1. i \in 1..lo
    BY <1>1, <1>2, <2>0
  <2>2. o[i] = b[i - f]
    BY <1>2, <2>0, <2>1
  <2> QED BY <2>1, <2>2 DEF lo
<1>4. \A i \in (f + 1)..(f + Len(b)) : o[i] \in Int
  BY <1>2, <1>3, ElementOfSeq
<1>5. /\ r \in Seq(Int) /\ lr = (IF f + 1 <= f + lb THEN f + lb - (f + 1) + 1 ELSE 0)
      /\ \A i \in 1..(f + lb - (f + 1) + 1) : r[i] = o[f + 1 + i - 1]
  <2> HIDE DEF ls, lb, lo
  <2>1. f + 1 \in Nat /\ f + lb \in Nat
    BY <1>1
  <2>2. \A i \in (f + 1)..(f + lb) : o[i] \in Int
    BY <1>4 DEF lb
  <2>3. r = SubSeq(o, f + 1, f + lb)
    BY DEF lb
  <2> HIDE DEF r, lr
  <2> PICK m, k : m = f + 1 /\ k = f + lb
    OBVIOUS
  <2>4. m \in Int /\ k \in Int /\ r = SubSeq(o, m, k) /\ \A i \in m..k : o[i] \in Int
    BY <2>1, <2>2, <2>3
  <2>5. /\ r \in Seq(Int) /\ Len(r) = (IF m <= k THEN k - m + 1 ELSE 0)
        /\ \A i \in 1..(k - m + 1) : r[i] = o[m + i - 1]
    BY SMTT(60), <2>4, SubSeqProperties
  <2>6. /\ lr = Len(r)
        /\ k - m + 1 = f + lb - (f + 1) + 1
        /\ \A i \in 1..(k - m + 1) : m + i - 1 = f + 1 + i - 1
    BY <1>1 DEF lr
  <2> QED BY <2>5, <2>6
<1> HIDE DEF r
<1>6. Len(r) = Len(b)
  <2> HIDE DEF ls, lb, lr
  <2>1. lr = lb
    BY <1>1, <1>5
  <2> QED BY <2>1 DEF lr, lb
<1>7. ASSUME NEW i \in 1..Len(r) PROVE r[i] = b[i]
  <2>0. i \in 1..lb /\ \A j \in (f + 1)..(f + lb) : o[j] = b[j - f]
    BY <1>3, <1>6
  <2> HIDE DEF ls, lb, lr
  <2>1. /\ i \in 1..(f + lb - (f + 1) + 1) /\ f + 1 + i - 1 = f + i
        /\ f + i \in (f + 1)..(f + lb) /\ (f + i) - f = i
    BY <1>1, <2>0
  <2>2. r[i] = o[f + i] /\ o[f + i] = b[(f + i) - f]
    BY <1>5, <2>0, <2>1
  <2> QED BY <2>1, <2>2
<1>8. r = b
  BY <1>5, <1>6, <1>7, SeqEqual
<1> QED BY <1>8 DEF r, o

-----------------------------------------------------------------------------
(* The buffers of the stream and the place in the file                     *)

\* Where the next write(2) puts its first byte.
Begin == IF mode = "append" THEN Len(disk) ELSE offset

\* What was read ahead is what stands before the offset; and unless the program mixes
\* reads and writes, one of the buffers is empty.
BuffersInv ==
  /\ disk \in Seq(Int) /\ unread \in Seq(Int) /\ unsent \in Seq(Int)
  /\ offset \in 0..Len(disk) /\ fresh \in Nat
  /\ Len(unread) <= offset
  /\ \A j \in 1..Len(unread) : unread[j] = disk[(offset - Len(unread)) + j]
  /\ doing \in {"reads", "writes", "seek"}
  /\ unread # <<>> => doing = "reads" /\ mode # "mmap"
  /\ unsent # <<>> => doing = "writes" /\ mode # "mmap"

LEMMA BeginInFile == ASSUME BuffersInv PROVE Begin \in 0..Len(disk)
<1>1. Len(disk) \in Nat /\ offset \in 0..Len(disk)
  BY LenProperties DEF BuffersInv
<1> QED BY <1>1 DEF Begin

\* A write is what File says of it.
LEMMA WriteAtIs ==
  ASSUME NEW b
  PROVE  WriteAt(b).disk = Seen!Overwritten(disk, Begin, b) /\ WriteAt(b).offset = Begin + Len(b)
BY DEF WriteAt, Seen!Overwritten, Begin

\* The file with what is still to be sent.
LEMMA FlushedIs ==
  ASSUME BuffersInv
  PROVE  /\ FlushedFile.disk = Seen!Overwritten(disk, Begin, unsent)
         /\ FlushedFile.offset = IF unsent = <<>> THEN offset ELSE Begin + Len(unsent)
<1>1. CASE unsent = <<>>
  <2>1. disk \in Seq(Int) /\ Begin \in 0..Len(disk)
    BY BeginInFile DEF BuffersInv
  <2>2. Seen!Overwritten(disk, Begin, <<>>) = disk
    BY <2>1, OverwrittenByNothing
  <2> QED BY <1>1, <2>2 DEF FlushedFile
<1>2. CASE unsent # <<>>
  BY <1>2, WriteAtIs DEF FlushedFile
<1> QED BY <1>1, <1>2

\* With nothing to be sent the file is what the kernel has.
LEMMA FlushedNothing ==
  ASSUME unsent = <<>>
  PROVE  FlushedFile.disk = disk /\ FlushedFile.offset = offset
BY DEF FlushedFile

\* The flushed file and its offset.
LEMMA FlushedType ==
  ASSUME BuffersInv
  PROVE  /\ FlushedFile.disk \in Seq(Int)
         /\ FlushedFile.offset \in 0..Len(FlushedFile.disk)
         /\ Len(unread) <= FlushedFile.offset
         /\ \A j \in 1..Len(unread) :
              unread[j] = FlushedFile.disk[(FlushedFile.offset - Len(unread)) + j]
<1>1. CASE unsent = <<>>
  BY <1>1, FlushedNothing DEF BuffersInv
<1>2. CASE unsent # <<>>
  <2>1. unread = <<>>
    BY <1>2 DEF BuffersInv
  <2>2. Len(unread) = 0
    BY <2>1
  <2> DEFINE o == Seen!Overwritten(disk, Begin, unsent)
             lu == Len(unsent)
             ld == Len(disk)
             lo == Len(o)
  <2>3. disk \in Seq(Int) /\ unsent \in Seq(Int) /\ Begin \in 0..Len(disk)
    BY BeginInFile DEF BuffersInv
  <2>4. o \in Seq(Int) /\ lo = (IF Begin + lu > ld THEN Begin + lu ELSE ld)
    BY <2>3, OverwrittenIs
  <2>5. FlushedFile.disk = o /\ FlushedFile.offset = Begin + lu
    BY <1>2, FlushedIs
  <2>6. ld \in Nat /\ lu \in Nat /\ Begin \in 0..ld
    BY <2>3, LenProperties
  <2> HIDE DEF o, lu, ld
  <2>7. Begin + lu \in 0..lo
    BY <2>4, <2>6
  <2> QED BY <2>2, <2>4, <2>5, <2>6, <2>7
<1> QED BY <1>1, <1>2

-----------------------------------------------------------------------------
(* Reading                                                                 *)

\* What is before the program is what was read ahead and the rest of the file.
LEMMA AheadIs ==
  ASSUME BuffersInv
  PROVE  unread \o SubSeq(disk, offset + 1, Len(disk)) =
           SubSeq(disk, (offset - Len(unread)) + 1, Len(disk))
<1> DEFINE lu == Len(unread)
           ld == Len(disk)
           m == (offset - lu) + 1
<1>1. /\ disk \in Seq(Int) /\ unread \in Seq(Int) /\ lu \in Nat /\ ld \in Nat
      /\ offset \in 0..ld /\ lu <= offset
      /\ \A j \in 1..lu : unread[j] = disk[(offset - lu) + j]
  BY LenProperties DEF BuffersInv
<1>2. \A i \in 1..ld : disk[i] \in Int
  BY <1>1, ElementOfSeq
<1> HIDE DEF ld, lu
<1>3. m \in 1..(ld + 1) /\ offset \in (m - 1)..ld /\ ld \in offset..ld
  BY <1>1
<1>4. SubSeq(disk, m, offset) \o SubSeq(disk, offset + 1, ld) = SubSeq(disk, m, ld)
  BY <1>1, <1>3, ConcatAdjacentSubSeq DEF ld
<1>5. SubSeq(disk, m, offset) = unread
  <2> DEFINE r == SubSeq(disk, m, offset)
  <2>1. \A i \in m..offset : disk[i] \in Int
    BY <1>1, <1>2
  <2>2. m \in Int /\ offset \in Int
    BY <1>1
  <2>3. /\ r \in Seq(Int) /\ Len(r) = (IF m <= offset THEN offset - m + 1 ELSE 0)
        /\ \A i \in 1..(offset - m + 1) : r[i] = disk[m + i - 1]
    BY <2>1, <2>2, SubSeqProperties
  <2> HIDE DEF r
  <2>4. Len(r) = lu
    BY <1>1, <2>3
  <2>5. ASSUME NEW i \in 1..Len(r) PROVE r[i] = unread[i]
    <3>1. i \in 1..lu
      BY <2>4
    <3>2. i \in 1..(offset - m + 1) /\ m + i - 1 = (offset - lu) + i
      BY <1>1, <3>1
    <3> QED BY <1>1, <2>3, <3>1, <3>2
  <2>6. r = unread
    BY <1>1, <2>3, <2>4, <2>5, SeqEqual DEF lu
  <2> QED BY <2>6 DEF r
<1> QED BY <1>4, <1>5 DEF lu, ld, m

\* The blocks that are read reach behind what is given.
LEMMA BlocksReach ==
  ASSUME NEW n \in Nat, NEW l \in Nat, NEW b \in Nat \ {0}
  PROVE  LET blocks == IF n < l THEN 0 ELSE 1 + ((n - l) \div b) IN
         /\ blocks * b \in Nat
         /\ n - l < blocks * b \/ n < l
<1> DEFINE q == (n - l) \div b
           r == (n - l) % b
<1>1. CASE n < l
  BY <1>1
<1>2. CASE ~(n < l)
  <2>1. n - l \in Nat
    BY <1>2
  <2>2. q \in Nat /\ r \in 0..(b - 1) /\ n - l = b * q + r
    BY <2>1
  <2> HIDE DEF q, r
  <2>3. (1 + q) * b = b + b * q
    BY <2>2
  <2>4. b * q \in Nat
    BY <2>2
  <2>5. (1 + q) * b \in Nat /\ n - l < (1 + q) * b
    BY <2>1, <2>2, <2>3, <2>4
  <2> QED BY <1>2, <2>5 DEF q
<1> QED BY <1>1, <1>2

\* A part of the end of a file is a part of the file.
LEMMA PartOfEnd ==
  ASSUME NEW s \in Seq(Int), NEW a \in 1..(Len(s) + 1), NEW i \in Nat \ {0}, NEW j \in Nat,
         (a + j) - 1 <= Len(s)
  PROVE  SubSeq(SubSeq(s, a, Len(s)), i, j) = SubSeq(s, (a + i) - 1, (a + j) - 1)
<1> DEFINE ls == Len(s)
           e == SubSeq(s, a, ls)
           p == SubSeq(e, i, j)
           q == SubSeq(s, (a + i) - 1, (a + j) - 1)
<1>1. ls \in Nat /\ a \in 1..(ls + 1) /\ (a + j) - 1 <= ls
  BY LenProperties
<1>2. \A k \in 1..ls : s[k] \in Int
  BY ElementOfSeq
<1> HIDE DEF ls
<1>3. \A k \in a..ls : s[k] \in Int
  BY <1>1, <1>2
<1>4. /\ e \in Seq(Int) /\ Len(e) = (IF a <= ls THEN ls - a + 1 ELSE 0)
      /\ \A k \in 1..(ls - a + 1) : e[k] = s[a + k - 1]
  BY <1>1, <1>3, SubSeqProperties
<1> HIDE DEF e
<1>5. ASSUME NEW k \in i..j PROVE e[k] \in Int
  <2>1. k \in 1..(ls - a + 1) /\ a + k - 1 \in a..ls
    BY <1>1
  <2> QED BY <1>3, <1>4, <2>1
<1>6. /\ p \in Seq(Int) /\ Len(p) = (IF i <= j THEN j - i + 1 ELSE 0)
      /\ \A k \in 1..(j - i + 1) : p[k] = e[i + k - 1]
  BY <1>5, SubSeqProperties
<1>7. ASSUME NEW k \in ((a + i) - 1)..((a + j) - 1) PROVE s[k] \in Int
  <2>1. k \in a..ls
    BY <1>1
  <2> QED BY <1>3, <2>1
<1>8. (a + i) - 1 \in Int /\ (a + j) - 1 \in Int
  BY <1>1
<1>9. /\ q \in Seq(Int)
      /\ Len(q) = (IF (a + i) - 1 <= (a + j) - 1 THEN ((a + j) - 1) - ((a + i) - 1) + 1 ELSE 0)
      /\ \A k \in 1..(((a + j) - 1) - ((a + i) - 1) + 1) : q[k] = s[((a + i) - 1) + k - 1]
  BY <1>7, <1>8, SubSeqProperties
<1> HIDE DEF p, q
<1>10. Len(p) = Len(q)
  BY <1>1, <1>6, <1>9
<1>11. ASSUME NEW k \in 1..Len(p) PROVE p[k] = q[k]
  <2>1. k \in 1..(j - i + 1)
    BY <1>6
  <2>2. /\ i + k - 1 \in 1..(ls - a + 1) /\ a + (i + k - 1) - 1 = ((a + i) - 1) + k - 1
        /\ k \in 1..(((a + j) - 1) - ((a + i) - 1) + 1)
    BY <1>1, <2>1
  <2>3. p[k] = e[i + k - 1] /\ e[i + k - 1] = s[a + (i + k - 1) - 1]
    BY <1>4, <1>6, <2>1, <2>2
  <2> QED BY <1>9, <2>2, <2>3
<1>12. p = q
  BY <1>6, <1>9, <1>10, <1>11, SeqEqual
<1> QED BY <1>12 DEF p, q, e, ls

\* How long a part of a file is, and what is at its places.
LEMMA PartIs ==
  ASSUME NEW s \in Seq(Int), NEW a \in Nat \ {0}, NEW b \in 0..Len(s)
  PROVE  /\ SubSeq(s, a, b) \in Seq(Int)
         /\ Len(SubSeq(s, a, b)) = (IF a <= b THEN (b - a) + 1 ELSE 0)
         /\ \A k \in 1..((b - a) + 1) : SubSeq(s, a, b)[k] = s[(a + k) - 1]
<1> DEFINE ls == Len(s)
           q == SubSeq(s, a, b)
<1>1. ls \in Nat /\ b \in 0..ls
  BY LenProperties
<1>2. \A k \in 1..ls : s[k] \in Int
  BY ElementOfSeq
<1> HIDE DEF ls
<1>3. \A k \in a..b : s[k] \in Int
  BY <1>1, <1>2
<1>4. b \in Int
  BY <1>1
<1>5. /\ q \in Seq(Int) /\ Len(q) = (IF a <= b THEN b - a + 1 ELSE 0)
      /\ \A k \in 1..(b - a + 1) : q[k] = s[a + k - 1]
  BY <1>3, <1>4, SubSeqProperties
<1> HIDE DEF q
<1>6. \A k \in 1..((b - a) + 1) : (a + k) - 1 = a + k - 1 /\ k \in 1..(b - a + 1)
  BY <1>4
<1>7. Len(q) = (IF a <= b THEN (b - a) + 1 ELSE 0)
  BY <1>4, <1>5
<1> QED BY <1>5, <1>6, <1>7 DEF q

-----------------------------------------------------------------------------
(* One lemma for each operation                                            *)

\* A read gives what is at the place, and the place moves behind it.
LEMMA ReadIsRead ==
  ASSUME BuffersInv, ~Mixes, NEW n \in 1..MaxFile, ReadFileBytes(n)
  PROVE  BuffersInv' /\ Seen!Read
<1> DEFINE lu == Len(unread)
           ld == Len(disk)
           p == offset - lu
           ahead == unread \o SubSeq(disk, offset + 1, Len(disk))
           la == Len(ahead)
           blocks == IF n < Len(unread) THEN 0 ELSE 1 + ((n - Len(unread)) \div FileBuff)
           last == IF offset > Len(disk) THEN offset ELSE Less(offset + (blocks * FileBuff), Len(disk))
<1>1. unsent = <<>>
  BY DEF BuffersInv, ReadFileBytes
<1>2. unsent' = <<>> /\ disk' = disk /\ toldPos' = toldPos /\ mode' = mode /\ fresh' = fresh
      /\ doing' = "reads"
  BY <1>1 DEF ReadFileBytes
<1>3. /\ disk \in Seq(Int) /\ lu \in Nat /\ ld \in Nat /\ offset \in 0..ld /\ lu <= offset
      /\ n \in Nat \ {0} /\ unread \in Seq(Int)
  BY FileAssumption, LenProperties DEF BuffersInv
<1>4. FlushedFile.disk = disk /\ FlushedFile.offset = offset
  BY <1>1, FlushedNothing
<1>5. FlushedFile'.disk = disk /\ FlushedFile'.offset = offset'
  BY <1>2 DEF FlushedFile
<1>6. FilePlace = p /\ FilePlace' = offset' - Len(unread')
  BY <1>4, <1>5 DEF FilePlace
<1>7. ahead = SubSeq(disk, p + 1, ld)
  BY AheadIs
<1>8. blocks * FileBuff \in Nat /\ (n - lu < blocks * FileBuff \/ n < lu)
  <2>1. FileBuff \in Nat \ {0} /\ n \in Nat /\ lu \in Nat
    BY <1>3, FileAssumption
  <2> QED BY <2>1, BlocksReach
<1>9. last = Less(offset + (blocks * FileBuff), ld)
  <2>1. ~(offset > ld)
    BY <1>3
  <2> QED BY <2>1
<1>10. /\ doing # "writes" \/ Mixes
       /\ given' = SubSeq(ahead, 1, Less(n, la))
       /\ IF mode = "mmap"
            THEN offset' = Less(offset + n, ld) /\ UNCHANGED unread
            ELSE /\ offset' = last
                 /\ unread' = SubSeq(ahead, n + 1, lu + (last - offset))
  BY DEF ReadFileBytes
<1> HIDE DEF lu, ld, ahead, la
<1>11. la = ld - p
  <2>1. p + 1 \in Nat \ {0} /\ ld \in 0..ld
    BY <1>3
  <2>2. la = IF p + 1 <= ld THEN (ld - (p + 1)) + 1 ELSE 0
    BY <1>3, <1>7, <2>1, PartIs DEF la, ld
  <2> QED BY <1>3, <2>2
<1> DEFINE bf == blocks * FileBuff
<1>12. bf \in Nat /\ (n - lu < bf \/ n < lu) /\ last = Less(offset + bf, ld)
  BY <1>8, <1>9 DEF lu
<1> HIDE DEF bf, last
<1>13. given' = SubSeq(disk, p + 1, p + Less(n, la))
  <2> DEFINE l == Less(n, la)
  <2>1. l \in Nat /\ ((p + 1) + l) - 1 <= ld /\ p + 1 \in 1..(ld + 1)
    BY <1>3, <1>11 DEF Less
  <2> HIDE DEF l
  <2>2. SubSeq(ahead, 1, l) = SubSeq(disk, ((p + 1) + 1) - 1, ((p + 1) + l) - 1)
    <3> HIDE DEF p
    <3>1. 1 \in Nat \ {0}
      OBVIOUS
    <3> QED BY <1>3, <1>7, <2>1, <3>1, PartOfEnd DEF ld
  <2>3. ((p + 1) + 1) - 1 = p + 1 /\ ((p + 1) + l) - 1 = p + l
    BY <1>3, <2>1
  <2> QED BY <1>10, <2>2, <2>3 DEF l
<1> DEFINE to == p + Less(n, la)
<1>14. to \in p..ld
  BY <1>3, <1>11 DEF Less
<1>15. FilePlace' = to => Seen!Read
  <2> HIDE DEF to, p
  <2>1. given' = SubSeq(disk, p + 1, to)
    BY <1>13 DEF to
  <2> QED BY <1>2, <1>4, <1>5, <1>6, <1>14, <2>1 DEF Seen!Read, ld
<1>16. CASE mode = "mmap"
  <2>1. unread' = unread /\ offset' = Less(offset + n, ld)
    BY <1>10, <1>16
  <2>2. unread = <<>>
    BY <1>16 DEF BuffersInv
  <2>3. lu = 0 /\ Len(unread') = 0
    BY <2>1, <2>2 DEF lu
  <2>4. FilePlace' = p + Less(n, la) /\ offset' \in 0..ld
    BY <1>3, <1>6, <1>11, <2>1, <2>3 DEF Less
  <2>5. BuffersInv'
    BY <1>2, <1>3, <2>1, <2>2, <2>3, <2>4 DEF BuffersInv, ld
  <2> QED BY <1>15, <2>4, <2>5
<1>17. CASE mode # "mmap"
  <2> DEFINE lv == Len(unread')
  <2>1. offset' = last /\ unread' = SubSeq(ahead, n + 1, lu + (last - offset))
    BY <1>10, <1>17
  <2>2. last \in offset..ld /\ (last = ld \/ last = offset + bf)
    BY <1>3, <1>12 DEF Less
  <2>3. unread' = SubSeq(disk, p + n + 1, last)
    <3> DEFINE j == lu + (last - offset)
    <3>1. j \in Nat /\ ((p + 1) + j) - 1 = last /\ p + 1 \in 1..(ld + 1)
          /\ n + 1 \in Nat \ {0} /\ ((p + 1) + (n + 1)) - 1 = p + n + 1 /\ last <= ld
      BY <1>3, <2>2
    <3> HIDE DEF j, p
    <3>2. SubSeq(ahead, n + 1, j) = SubSeq(disk, ((p + 1) + (n + 1)) - 1, ((p + 1) + j) - 1)
      BY ZenonT(60), <1>3, <1>7, <3>1, PartOfEnd DEF ld
    <3> QED BY <2>1, <3>1, <3>2 DEF j
  <2>4. /\ unread' \in Seq(Int)
        /\ lv = (IF p + n + 1 <= last THEN (last - (p + n + 1)) + 1 ELSE 0)
        /\ \A k \in 1..((last - (p + n + 1)) + 1) : unread'[k] = disk[((p + n + 1) + k) - 1]
    <3>1. p + n + 1 \in Nat \ {0} /\ last \in 0..ld
      BY <1>3, <2>2
    <3> HIDE DEF p
    <3> QED BY ZenonT(60), <1>3, <2>3, <3>1, PartIs DEF ld
  <2> HIDE DEF lv
  <2>5. last - lv = p + Less(n, la) /\ lv <= last
    <3>1. last = ld \/ p + n <= last
      BY <1>3, <1>12, <2>2
    <3>2. lv = (IF p + n + 1 <= last THEN (last - (p + n + 1)) + 1 ELSE 0)
      BY <2>4
    <3>3. p \in Nat /\ p <= ld /\ n \in Nat \ {0} /\ last \in Nat /\ last <= ld /\ ld \in Nat
      BY <1>3, <2>2
    <3>4. Less(n, la) = IF n < ld - p THEN n ELSE ld - p
      BY <1>11 DEF Less
    <3> HIDE DEF p
    <3> QED BY <3>1, <3>2, <3>3, <3>4
  <2>6. FilePlace' = p + Less(n, la)
    BY <1>6, <2>1, <2>5 DEF lv
  <2>7. ASSUME NEW k \in 1..Len(unread')
        PROVE  unread'[k] = disk[(offset' - Len(unread')) + k]
    <3>1. k \in 1..lv
      BY DEF lv
    <3>2. k \in 1..((last - (p + n + 1)) + 1) /\ ((p + n + 1) + k) - 1 = (last - lv) + k
      <4>0. p + n + 1 \in Int /\ last \in Int
        BY <1>3, <2>2
      <4>1. lv # 0 /\ lv \in Nat
        <5> DEFINE q == p + n + 1
        <5>1. lv = (IF q <= last THEN (last - q) + 1 ELSE 0) /\ q \in Int /\ last \in Int
          BY <2>4, <4>0
        <5> HIDE DEF q
        <5>2. lv \in Nat
          BY <5>1
        <5> QED BY <3>1, <5>2
      <4>2. lv = (last - (p + n + 1)) + 1
        BY <2>4, <4>1
      <4>3. p \in Int /\ n \in Int /\ last \in Int /\ k \in 1..lv
        BY <1>3, <2>2, <3>1
      <4> HIDE DEF p
      <4> QED BY <4>1, <4>2, <4>3
    <3> QED BY <2>1, <2>4, <3>2 DEF lv
  <2>8. offset' \in 0..Len(disk) /\ Len(unread') <= offset'
    BY <1>3, <2>1, <2>2, <2>5 DEF lv, ld
  <2>9. BuffersInv'
    BY <1>2, <1>17, <2>4, <2>7, <2>8 DEF BuffersInv
  <2> QED BY <1>15, <2>6, <2>9
<1> QED BY <1>16, <1>17

\* A write puts its bytes behind those that are to be sent, whatever part of them goes
\* to the kernel at once.
LEMMA WriteIsWrite ==
  ASSUME BuffersInv, ~Mixes, NEW n \in 1..MaxFile, WriteFileBytes(n)
  PROVE  BuffersInv' /\ Seen!Write
<1> DEFINE new == [i \in 1..n |-> -(fresh + i)]
           all == unsent \o new
           full == FileBuff * (Len(all) \div FileBuff)
           gone == SubSeq(all, 1, full)
           rest == SubSeq(all, full + 1, Len(all))
           ld == Len(disk)
           lu == Len(unsent)
           la == Len(all)
<1>1. unread = <<>> /\ Len(unread) = 0
  BY DEF BuffersInv, WriteFileBytes
<1>2. /\ disk \in Seq(Int) /\ unsent \in Seq(Int) /\ fresh \in Nat
      /\ ld \in Nat /\ lu \in Nat /\ offset \in 0..ld /\ n \in Nat \ {0} /\ FileBuff \in Nat \ {0}
  BY FileAssumption, LenProperties DEF BuffersInv
<1>3. new \in Seq(Int) /\ Len(new) = n
  <2>1. \A i \in 1..n : -(fresh + i) \in Int
    BY <1>2
  <2>2. n \in Nat
    BY <1>2
  <2> QED BY <2>1, <2>2
<1>4. /\ mode # "mmap" /\ doing' = "writes" /\ fresh' = fresh + n
      /\ unsent' = rest
      /\ IF full = 0 THEN UNCHANGED <<disk, offset>>
         ELSE disk' = WriteAt(gone).disk /\ offset' = WriteAt(gone).offset
      /\ UNCHANGED <<mode, unread, given, toldPos>>
  BY DEF WriteFileBytes
<1> HIDE DEF new
<1>5. all \in Seq(Int) /\ la = lu + n
  BY <1>2, <1>3, ConcatProperties
<1> HIDE DEF all
<1>6. full \in 0..la /\ la - full < FileBuff
  <2> DEFINE q == la \div FileBuff
             r == la % FileBuff
  <2>1. la \in Nat
    BY <1>2, <1>5
  <2> HIDE DEF la
  <2>2. q \in Nat /\ r \in 0..(FileBuff - 1) /\ la = FileBuff * q + r
    <3>1. FileBuff \in Nat \ {0}
      BY <1>2
    <3> QED BY <2>1, <3>1
  <2> HIDE DEF q, r
  <2>3. FileBuff * q \in Nat
    BY <1>2, <2>2
  <2>4. FileBuff * q \in 0..la /\ la - FileBuff * q < FileBuff
    BY <1>2, <2>1, <2>2, <2>3
  <2> QED BY <2>4 DEF q, la
<1> HIDE DEF full
<1>7. gone \in Seq(Int) /\ Len(gone) = full /\ rest \in Seq(Int) /\ Len(rest) = la - full
  <2>1. gone \in Seq(Int) /\ Len(gone) = (IF 1 <= full THEN (full - 1) + 1 ELSE 0)
    BY <1>5, <1>6, PartIs
  <2>2. full + 1 \in Nat \ {0} /\ la \in 0..la /\ la \in Nat
    BY <1>2, <1>5, <1>6
  <2>3. /\ rest \in Seq(Int)
        /\ Len(rest) = (IF full + 1 <= la THEN (la - (full + 1)) + 1 ELSE 0)
    BY <1>5, <2>2, PartIs
  <2> HIDE DEF gone, rest, la
  <2> QED BY <1>6, <2>1, <2>2, <2>3
<1>8. gone \o rest = all
  <2>1. la \in Nat
    BY <1>2, <1>5
  <2>2. 1 \in 1..(la + 1) /\ full \in (1 - 1)..la /\ la \in full..la
    BY <1>6, <2>1
  <2>3. gone \o rest = SubSeq(all, 1, la)
    BY <1>5, <2>2, ConcatAdjacentSubSeq
  <2> QED BY <1>5, <2>3, SubSeqFull
<1> HIDE DEF gone, rest
\* What the kernel has then.
<1> DEFINE p == Seen!Overwritten(disk, Begin, gone)
<1>9. Begin \in 0..ld
  BY BeginInFile
<1>10. p \in Seq(Int) /\ Len(p) = IF Begin + full > ld THEN Begin + full ELSE ld
  BY <1>2, <1>7, <1>9, OverwrittenIs
<1>11. disk' = p
  <2>1. CASE full = 0
    <3>1. gone = <<>>
      BY <1>7, <2>1, EmptySeq
    <3> QED BY <1>2, <1>4, <1>9, <2>1, <3>1, OverwrittenByNothing
  <2>2. CASE full # 0
    BY <1>4, <2>2, WriteAtIs
  <2> QED BY <2>1, <2>2
<1>12. Begin' = Begin + full /\ (full # 0 => offset' = Begin + full) /\ (full = 0 => offset' = offset)
  <2>1. CASE full = 0
    BY <1>2, <1>4, <1>9, <2>1 DEF Begin
  <2>2. CASE full # 0
    <3>1. offset' = Begin + full
      BY <1>4, <1>7, <2>2, WriteAtIs
    <3>2. mode = "append" => Len(disk') = Begin + full
      <4>1. ASSUME mode = "append" PROVE Begin = ld
        BY <4>1 DEF Begin
      <4> QED BY <1>2, <1>6, <1>10, <1>11, <4>1
    <3> QED BY <1>4, <2>2, <3>1, <3>2 DEF Begin
  <2> QED BY <2>1, <2>2
<1> HIDE DEF p
<1>13. offset' \in 0..Len(disk')
  <2> DEFINE lp == Len(p)
  <2>1. lp = (IF Begin + full > ld THEN Begin + full ELSE ld) /\ la \in Nat
    BY <1>2, <1>5, <1>10
  <2> HIDE DEF lp, la, ld
  <2>2. offset' \in 0..lp
    BY <1>2, <1>6, <1>9, <1>12, <2>1
  <2> QED BY <1>11, <2>2 DEF lp
<1>14. BuffersInv'
  <2>1. fresh' \in Nat
    BY <1>2, <1>4
  <2>2. unread' = <<>> /\ Len(unread') = 0
    BY <1>1, <1>4
  <2> QED BY <1>4, <1>7, <1>10, <1>11, <1>13, <2>1, <2>2 DEF BuffersInv
\* What the program sees.
<1> DEFINE c == Seen!Overwritten(disk, Begin, unsent)
           from == Begin + lu
<1>15. FlushedFile.disk = c /\ c \in Seq(Int) /\ from \in 0..Len(c)
       /\ FilePlace = (IF unsent = <<>> THEN offset ELSE from)
       /\ (mode = "append" => Len(c) = from)
  <2> DEFINE lc == Len(c)
  <2>1. c \in Seq(Int) /\ lc = (IF Begin + lu > ld THEN Begin + lu ELSE ld)
    BY <1>2, <1>9, OverwrittenIs
  <2>2. mode = "append" => Begin = ld
    BY DEF Begin
  <2>3. FlushedFile.disk = c /\ FlushedFile.offset = IF unsent = <<>> THEN offset ELSE Begin + lu
    BY FlushedIs
  <2> HIDE DEF c, lc, lu, ld
  <2>4. from \in 0..lc /\ (mode = "append" => lc = from)
    BY <1>2, <1>9, <2>1, <2>2
  <2>5. FilePlace = (IF unsent = <<>> THEN offset ELSE Begin + lu)
    BY <1>1, <1>2, <1>9, <2>3 DEF FilePlace
  <2> QED BY <2>1, <2>3, <2>4, <2>5 DEF lc
<1>16. from = IF mode = "append" THEN Len(FlushedFile.disk) ELSE FilePlace
  <2>1. CASE unsent = <<>>
    <3>1. lu = 0
      BY <2>1
    <3> HIDE DEF lu
    <3> QED BY <1>2, <1>9, <1>15, <2>1, <3>1 DEF Begin
  <2>2. CASE unsent # <<>>
    BY <1>15, <2>2
  <2> QED BY <2>1, <2>2
<1>17. FlushedFile'.disk = Seen!Overwritten(c, from, new)
  <2>1. FlushedFile'.disk = Seen!Overwritten(disk', Begin', unsent')
    <3>1. CASE unsent' = <<>>
      <4>1. disk' \in Seq(Int) /\ Begin' \in 0..Len(disk')
        <5>1. Len(disk') \in Nat
          BY <1>14, LenProperties DEF BuffersInv
        <5> QED BY <1>14, <5>1 DEF BuffersInv, Begin
      <4>2. Seen!Overwritten(disk', Begin', <<>>) = disk'
        BY <4>1, OverwrittenByNothing
      <4> QED BY <3>1, <4>2 DEF FlushedFile
    <3>2. CASE unsent' # <<>>
      BY <3>2 DEF FlushedFile, WriteAt, Seen!Overwritten, Begin
    <3> QED BY <3>1, <3>2
  <2>2. Seen!Overwritten(disk', Begin', unsent') = Seen!Overwritten(disk, Begin, all)
    <3>1. Seen!Overwritten(Seen!Overwritten(disk, Begin, gone), Begin + Len(gone), rest) =
            Seen!Overwritten(disk, Begin, gone \o rest)
      BY <1>2, <1>7, <1>9, OverwrittenTwice, ZenonT(30)
    <3> QED BY <1>4, <1>7, <1>8, <1>11, <1>12, <3>1 DEF p
  <2>3. Seen!Overwritten(c, from, new) = Seen!Overwritten(disk, Begin, unsent \o new)
    BY <1>2, <1>3, <1>9, OverwrittenTwice
  <2> QED BY <2>1, <2>2, <2>3 DEF all
<1>18. FilePlace' = from + n
  <2>1. FilePlace' = FlushedFile'.offset - Len(unread')
    BY DEF FilePlace
  <2>2. FlushedFile'.offset = Begin + la
    <3>1. CASE unsent' = <<>>
      <4>1. Len(rest) = 0
        BY <1>4, <3>1
      <4>2. FlushedFile'.offset = offset'
        BY <3>1 DEF FlushedFile
      <4>3. full = la /\ full # 0
        BY <1>2, <1>5, <1>6, <1>7, <4>1
      <4> QED BY <1>12, <4>2, <4>3
    <3>2. CASE unsent' # <<>>
      <4>1. FlushedFile'.offset = Begin' + Len(unsent')
        BY <3>2 DEF FlushedFile, WriteAt, Begin
      <4>2. Len(unsent') = la - full /\ la \in Nat
        BY <1>2, <1>4, <1>5, <1>7
      <4>3. full \in 0..la /\ Begin \in Nat
        BY <1>6, <1>9
      <4> HIDE DEF la
      <4>4. (Begin + full) + (la - full) = Begin + la
        BY <4>2, <4>3
      <4> QED BY <1>12, <4>1, <4>2, <4>4
    <3> QED BY <3>1, <3>2
  <2>3. Len(unread') = 0
    BY <1>1, <1>4
  <2> HIDE DEF la, lu
  <2> QED BY <1>2, <1>5, <1>9, <2>1, <2>2, <2>3
<1>19. SubSeq(FlushedFile'.disk, from + 1, from + n) = new
  BY <1>3, <1>15, <1>17, OverwrittenReads
<1>20. Seen!Write
  <2>1. from + n >= from
    BY <1>2, <1>9
  <2>2. UNCHANGED <<mode = "append", given, toldPos>>
    BY <1>4
  <2> HIDE DEF from, c
  <2> QED BY <1>15, <1>16, <1>17, <1>18, <1>19, <2>1, <2>2 DEF Seen!Write
<1> QED BY <1>14, <1>20

\* What to send goes to the kernel, and the file the program sees is as before.
LEMMA TellIsTell ==
  ASSUME BuffersInv, STREAMTell
  PROVE  BuffersInv' /\ Seen!Tell
<1>1. /\ toldPos' = FilePlace /\ unsent' = <<>>
      /\ disk' = FlushedFile.disk /\ offset' = FlushedFile.offset
      /\ UNCHANGED <<mode, unread, fresh, doing, given>>
  BY DEF STREAMTell
<1>2. FlushedFile'.disk = disk' /\ FlushedFile'.offset = offset'
  BY <1>1 DEF FlushedFile
<1>3. FilePlace' = FilePlace
  BY <1>1, <1>2 DEF FilePlace
<1>4. BuffersInv'
  <2>1. unsent' \in Seq(Int)
    BY <1>1, EmptySeq
  <2>2. /\ disk' \in Seq(Int) /\ offset' \in 0..Len(disk') /\ Len(unread') <= offset'
        /\ \A j \in 1..Len(unread') : unread'[j] = disk'[(offset' - Len(unread')) + j]
    BY <1>1, FlushedType
  <2> QED BY <1>1, <2>1, <2>2 DEF BuffersInv
<1> QED BY <1>1, <1>2, <1>3, <1>4 DEF Seen!Tell

LEMMA SeekIsSeek ==
  ASSUME BuffersInv, NEW whence, NEW d, STREAMSeek(whence, d)
  PROVE  BuffersInv' /\ Seen!Seek
<1> DEFINE to == Target(whence, d)
<1>1. /\ to \in 0..Len(FlushedFile.disk) /\ toldPos' = to
      /\ offset' = to /\ disk' = FlushedFile.disk
      /\ unread' = <<>> /\ unsent' = <<>> /\ doing' = "seek"
      /\ UNCHANGED <<mode, fresh, given>>
  BY DEF STREAMSeek, AfterSeek
<1> HIDE DEF to
<1>2. FlushedFile'.disk = disk' /\ FlushedFile'.offset = offset'
  BY <1>1 DEF FlushedFile
<1>3. FlushedFile.disk \in Seq(Int) /\ Len(FlushedFile.disk) \in Nat
  BY FlushedType, LenProperties
<1>4. Len(unread') = 0 /\ unread' \in Seq(Int) /\ unsent' \in Seq(Int)
  BY <1>1, EmptySeq
<1>5. FilePlace' = to
  BY <1>1, <1>2, <1>3, <1>4 DEF FilePlace
<1>6. BuffersInv'
  BY <1>1, <1>3, <1>4 DEF BuffersInv
<1> QED BY <1>1, <1>2, <1>5, <1>6 DEF Seen!Seek

LEMMA TruncateIsTruncate ==
  ASSUME BuffersInv, NEW n \in 0..(2 * MaxFile), STREAMTruncate(n)
  PROVE  BuffersInv' /\ Seen!Truncate
<1>1. /\ doing = "seek" /\ n \in offset..Len(disk) /\ disk' = SubSeq(disk, 1, n)
      /\ UNCHANGED <<mode, offset, unread, unsent, fresh, doing, given, toldPos>>
  BY DEF STREAMTruncate
<1>2. unread = <<>> /\ unsent = <<>> /\ Len(unread) = 0
  BY <1>1 DEF BuffersInv
<1>3. disk \in Seq(Int) /\ Len(disk) \in Nat /\ offset \in 0..Len(disk) /\ n \in 0..Len(disk)
  BY <1>1, LenProperties DEF BuffersInv
<1>4. disk' \in Seq(Int) /\ Len(disk') = n
  <2>1. disk' \in Seq(Int) /\ Len(disk') = (IF 1 <= n THEN (n - 1) + 1 ELSE 0)
    BY <1>1, <1>3, PartIs
  <2> QED BY <1>3, <2>1
<1>5. /\ FlushedFile.disk = disk /\ FlushedFile.offset = offset
      /\ FlushedFile'.disk = disk' /\ FlushedFile'.offset = offset'
  BY <1>1, <1>2 DEF FlushedFile
<1>6. FilePlace' = FilePlace
  BY <1>1, <1>5 DEF FilePlace
<1>7. BuffersInv'
  BY <1>1, <1>2, <1>3, <1>4 DEF BuffersInv
<1>8. disk' = SubSeq(disk, 1, Len(disk'))
  BY <1>1, <1>4
<1> QED BY <1>1, <1>5, <1>6, <1>7, <1>8 DEF Seen!Truncate

LEMMA OpensAsFile ==
  ASSUME FileInit
  PROVE  BuffersInv /\ Seen!Init
<1>1. PICK n \in 0..MaxFile : disk = Content(n)
  BY DEF FileInit
<1>2. n \in Nat /\ \A i \in 1..n : i \in Int
  BY <1>1, FileAssumption
<1>3. Content(n) \in Seq(Int) /\ Len(Content(n)) = n
  BY <1>2 DEF Content
<1>4. /\ disk \in Seq(Int) /\ Len(disk) \in Nat /\ unread = <<>> /\ unsent = <<>> /\ Len(unread) = 0
      /\ offset \in {0, Len(disk)} /\ fresh = 0 /\ doing = "seek" /\ given = <<>> /\ toldPos = 0
  BY <1>1, <1>2, <1>3 DEF FileInit
<1>5. BuffersInv
  BY <1>4, EmptySeq DEF BuffersInv
<1>6. FlushedFile.disk = disk /\ FilePlace = offset
  BY <1>4 DEF FlushedFile, FilePlace
<1> QED BY <1>4, <1>5, <1>6 DEF Seen!Init

\* Every step of the stream is one of the file, or changes nothing of it.
LEMMA FileStepIsStep ==
  ASSUME BuffersInv, ~Mixes, [FileNext]_fileStreamVars
  PROVE  BuffersInv' /\ [Seen!Next]_Seen!fileVars
<1>1. ASSUME NEW n \in 1..MaxFile, ReadFileBytes(n)
      PROVE  BuffersInv' /\ [Seen!Next]_Seen!fileVars
  BY <1>1, ReadIsRead DEF Seen!Next
<1>2. ASSUME NEW n \in 1..MaxFile, WriteFileBytes(n)
      PROVE  BuffersInv' /\ [Seen!Next]_Seen!fileVars
  BY <1>2, WriteIsWrite DEF Seen!Next
<1>3. CASE STREAMTell
  BY <1>3, TellIsTell DEF Seen!Next
<1>4. ASSUME NEW whence \in {"SEEK_SET", "SEEK_CUR", "SEEK_END"},
             NEW d \in (-MaxFile)..(2 * MaxFile), STREAMSeek(whence, d)
      PROVE  BuffersInv' /\ [Seen!Next]_Seen!fileVars
  BY <1>4, SeekIsSeek DEF Seen!Next
<1>5. ASSUME NEW n \in 0..(2 * MaxFile), STREAMTruncate(n)
      PROVE  BuffersInv' /\ [Seen!Next]_Seen!fileVars
  BY <1>5, TruncateIsTruncate DEF Seen!Next
<1>6. CASE UNCHANGED fileStreamVars
  <2>1. BuffersInv'
    BY <1>6 DEF BuffersInv, fileStreamVars
  <2>2. UNCHANGED Seen!fileVars
    BY <1>6 DEF Seen!fileVars, fileStreamVars, FlushedFile, FilePlace, WriteAt
  <2> QED BY <2>1, <2>2
<1> QED BY <1>1, <1>2, <1>3, <1>4, <1>5, <1>6 DEF FileNext

\* The two buffers and the offset are one file with one place (STREAMReadBytes,
\* STREAMWriteBytes, STREAMFlush, STREAMTell, STREAMSeek and STREAMTruncate of Stream.c),
\* if the program seeks between its reads and its writes.
THEOREM StreamIsFile ==
  ASSUME ~Mixes
  PROVE  FileStreamSpec => FileIsFile
<1>1. FileInit => BuffersInv /\ Seen!Init
  BY OpensAsFile
<1>2. BuffersInv /\ [FileNext]_fileStreamVars => BuffersInv' /\ [Seen!Next]_Seen!fileVars
  BY FileStepIsStep
<1> QED BY <1>1, <1>2, PTL DEF FileStreamSpec, FileIsFile, Seen!Spec

-----------------------------------------------------------------------------
(* Opening a file                                                          *)

\* The calls that may be left.
CallsLeft ==
  {<<"open", "lock", "check", "prepare">>, <<"lock", "check", "prepare">>,
   <<"check", "prepare">>, <<"prepare">>, <<>>}

Asks(p) == Set(p, "SF_WRLOCK") \/ Set(p, "SF_RDLOCK")
AsksAlone(p) == Set(p, "SF_WRLOCK") /\ ~Set(p, "SF_RDLOCK")

MayFollow(p) == ~(linked /\ LooksForLink(p))

\* What STREAMFileOpen has seen to when it comes to each call.
StepsInv ==
  /\ step \in [Openers -> CallsLeft]
  /\ stream \in [Openers -> {"none", "open", "NULL", "closed"}]
  /\ queued \in [Openers -> BOOLEAN]
  /\ \A p \in Openers :
       /\ step[p] # <<>> => stream[p] = "none"
       /\ queued[p] => MayWrite(p) /\ step[p] = <<>> /\ stream[p] = "open"
       /\ step[p] \in {<<"prepare">>, <<>>} => stream[p] = "NULL" \/ MayFollow(p)

\* Two processes have locks that go together, and one that locks has its lock until it
\* has prepared the file.
LocksInv ==
  /\ locks \subseteq Openers \X {"SH", "EX"}
  /\ \A l, m \in locks : l[1] # m[1] => l[2] = "SH" /\ m[2] = "SH"
  /\ \A l \in locks : stream[l[1]] \in {"none", "open"}
  /\ \A p \in Openers :
       step[p] \in {<<"check", "prepare">>, <<"prepare">>}
         => /\ Asks(p) => \E l \in locks : l[1] = p
            /\ AsksAlone(p) => <<p, "EX">> \in locks

\* Who has emptied the file was to.
MayEmpty(p) == Set(p, "SF_TRUNC") /\ MayWrite(p) /\ MayFollow(p)

EmptiedInv ==
  /\ emptied \subseteq Openers
  /\ \A p \in emptied : MayEmpty(p) /\ step[p] = <<>> /\ stream[p] # "NULL"

OpenInv == StepsInv /\ LocksInv /\ EmptiedInv

-----------------------------------------------------------------------------
\* Where a process is among its calls.
LEMMA AtCall ==
  ASSUME NEW s \in CallsLeft, s # <<>>
  PROVE  /\ Tail(s) \in CallsLeft /\ Tail(s) # s
         /\ Head(s) = "open" => Tail(s) = <<"lock", "check", "prepare">>
         /\ Head(s) = "lock" => Tail(s) = <<"check", "prepare">>
         /\ Head(s) = "check" => Tail(s) = <<"prepare">>
         /\ Head(s) = "prepare" => Tail(s) = <<>> /\ s = <<"prepare">>
         /\ Head(s) \in {"open", "lock", "check", "prepare"}
<1>1. CASE s = <<"open", "lock", "check", "prepare">>
  <2>1. Head(s) = "open" /\ Tail(s) = <<"lock", "check", "prepare">>
    BY <1>1
  <2>2. Tail(s) # s
    BY <1>1, <2>1
  <2> QED BY <2>1, <2>2 DEF CallsLeft
<1>2. CASE s = <<"lock", "check", "prepare">>
  <2>1. Head(s) = "lock" /\ Tail(s) = <<"check", "prepare">>
    BY <1>2
  <2>2. Tail(s) # s
    BY <1>2, <2>1
  <2> QED BY <2>1, <2>2 DEF CallsLeft
<1>3. CASE s = <<"check", "prepare">>
  <2>1. Head(s) = "check" /\ Tail(s) = <<"prepare">>
    BY <1>3
  <2>2. Tail(s) # s
    BY <1>3, <2>1
  <2> QED BY <2>1, <2>2 DEF CallsLeft
<1>4. CASE s = <<"prepare">>
  <2>1. Head(s) = "prepare" /\ Tail(s) = <<>>
    BY <1>4
  <2>2. Tail(s) # s
    BY <1>4, <2>1
  <2> QED BY <1>4, <2>1, <2>2 DEF CallsLeft
<1> QED BY <1>1, <1>2, <1>3, <1>4 DEF CallsLeft

LEMMA CallsDiffer ==
  /\ <<"open", "lock", "check", "prepare">> \notin {<<"check", "prepare">>, <<"prepare">>, <<>>}
  /\ <<"lock", "check", "prepare">> \notin {<<"check", "prepare">>, <<"prepare">>, <<>>}
  /\ <<"check", "prepare">> \notin {<<"prepare">>, <<>>}
  /\ <<"prepare">> # <<>>
OBVIOUS

\* What the letters set is set for good.
LEMMA ConfigKept ==
  ASSUME config' = config, linked' = linked, NEW p \in Openers
  PROVE  /\ Asks(p)' <=> Asks(p)
         /\ MayWrite(p)' <=> MayWrite(p)
         /\ MayFollow(p)' <=> MayFollow(p)
         /\ AsksAlone(p)' <=> AsksAlone(p)
         /\ MayEmpty(p)' <=> MayEmpty(p)
BY DEF Set, Asks, AsksAlone, MayEmpty, MayWrite, MayFollow, LooksForLink, FlagsOf

-----------------------------------------------------------------------------
(* One lemma for what the steps come to                                    *)

\* What p may make of itself in a step.
Moved(p) ==
  /\ step' \in [Openers -> CallsLeft]
  /\ stream' \in [Openers -> {"none", "open", "NULL", "closed"}]
  /\ queued' \in [Openers -> BOOLEAN]
  /\ \A q \in Openers : q # p => step'[q] = step[q] /\ stream'[q] = stream[q] /\ queued'[q] = queued[q]
  /\ step'[p] # <<>> => stream'[p] = "none"
  /\ queued'[p] => MayWrite(p) /\ step'[p] = <<>> /\ stream'[p] = "open"
  /\ step'[p] \in {<<"prepare">>, <<>>} => stream'[p] = "NULL" \/ MayFollow(p)

\* The lock it has after the step.
Locked(p) ==
  step'[p] \in {<<"check", "prepare">>, <<"prepare">>}
    => /\ Asks(p) => \E l \in locks' : l[1] = p
       /\ AsksAlone(p) => <<p, "EX">> \in locks'

\* And what it may make of its lock.
Relocked(p) ==
  /\ locks' \subseteq Openers \X {"SH", "EX"}
  /\ Without(p) \subseteq locks' /\ \A l \in locks' : l[1] # p => l \in locks
  /\ \A l \in locks' : l[1] = p =>
       stream'[p] \in {"none", "open"} /\ \A m \in Without(p) : l[2] = "SH" /\ m[2] = "SH"
  /\ Locked(p)

\* Who empties the file was to.
Touches(p) ==
  /\ step[p] = <<>> /\ stream[p] # "NULL" => step'[p] = <<>> /\ stream'[p] # "NULL"
  /\ \/ emptied' = emptied
     \/ emptied' = emptied \cup {p} /\ MayEmpty(p) /\ step'[p] = <<>> /\ stream'[p] # "NULL"

LEMMA OneProcessMoves ==
  ASSUME OpenInv, NEW p \in Openers, UNCHANGED <<config, linked>>,
         Moved(p), Relocked(p), Touches(p)
  PROVE  OpenInv'
<1>1. /\ \A q \in Openers : MayWrite(q)' <=> MayWrite(q)
      /\ \A q \in Openers : MayFollow(q)' <=> MayFollow(q)
      /\ \A q \in Openers : Asks(q)' <=> Asks(q)
      /\ \A q \in Openers : AsksAlone(q)' <=> AsksAlone(q)
      /\ \A q \in Openers : MayEmpty(q)' <=> MayEmpty(q)
  BY ConfigKept
<1>2. \A q \in Openers : q # p => step'[q] = step[q] /\ stream'[q] = stream[q] /\ queued'[q] = queued[q]
  BY DEF Moved
<1>3. StepsInv'
  BY <1>1, <1>2 DEF OpenInv, StepsInv, Moved
<1>4. LocksInv'
  <2>1. \A l \in locks : l[1] \in Openers
    BY DEF OpenInv, LocksInv
  <2>2. ASSUME NEW l \in locks', NEW m \in locks', l[1] # m[1]
        PROVE  l[2] = "SH" /\ m[2] = "SH"
    <3>1. CASE l[1] = p
      <4>1. m \in Without(p)
        BY <2>2, <3>1 DEF Relocked, Without
      <4> QED BY <3>1, <4>1 DEF Relocked
    <3>2. CASE m[1] = p
      <4>1. l \in Without(p)
        BY <2>2, <3>2 DEF Relocked, Without
      <4> QED BY <3>2, <4>1 DEF Relocked
    <3>3. CASE l[1] # p /\ m[1] # p
      BY <2>2, <3>3 DEF Relocked, OpenInv, LocksInv
    <3> QED BY <3>1, <3>2, <3>3
  <2>3. ASSUME NEW l \in locks' PROVE stream'[l[1]] \in {"none", "open"}
    <3>1. CASE l[1] = p
      BY <3>1 DEF Relocked
    <3>2. CASE l[1] # p
      BY <1>2, <2>1, <3>2 DEF Relocked, OpenInv, LocksInv
    <3> QED BY <3>1, <3>2
  <2>4. ASSUME NEW q \in Openers, step'[q] \in {<<"check", "prepare">>, <<"prepare">>}, Asks(q)'
        PROVE  \E l \in locks' : l[1] = q
    <3>1. CASE q = p
      BY <1>1, <2>4, <3>1 DEF Relocked, Locked
    <3>2. CASE q # p
      <4>1. step[q] \in {<<"check", "prepare">>, <<"prepare">>} /\ Asks(q)
        BY <1>1, <1>2, <2>4, <3>2
      <4>2. PICK l \in locks : l[1] = q
        BY <4>1 DEF OpenInv, LocksInv
      <4>3. l \in locks'
        BY <3>2, <4>2 DEF Relocked, Without
      <4> QED BY <4>2, <4>3
    <3> QED BY <3>1, <3>2
  <2>5. ASSUME NEW q \in Openers, step'[q] \in {<<"check", "prepare">>, <<"prepare">>}, AsksAlone(q)'
        PROVE  <<q, "EX">> \in locks'
    <3>1. CASE q = p
      BY <1>1, <2>5, <3>1 DEF Relocked, Locked
    <3>2. CASE q # p
      <4>1. step[q] \in {<<"check", "prepare">>, <<"prepare">>} /\ AsksAlone(q)
        BY <1>1, <1>2, <2>5, <3>2
      <4>2. <<q, "EX">> \in locks /\ <<q, "EX">>[1] = q
        BY <4>1 DEF OpenInv, LocksInv
      <4> QED BY <3>2, <4>2 DEF Relocked, Without
    <3> QED BY <3>1, <3>2
  <2> QED BY <2>2, <2>3, <2>4, <2>5 DEF Relocked, LocksInv
<1>5. EmptiedInv'
  <2>1. emptied' \subseteq Openers
    BY DEF Touches, OpenInv, EmptiedInv
  <2>2. ASSUME NEW q \in emptied' PROVE MayEmpty(q)' /\ step'[q] = <<>> /\ stream'[q] # "NULL"
    <3>1. CASE q \in emptied
      <4>1. MayEmpty(q) /\ step[q] = <<>> /\ stream[q] # "NULL"
        BY <3>1 DEF OpenInv, EmptiedInv
      <4>2. step'[q] = <<>> /\ stream'[q] # "NULL"
        BY <1>2, <2>1, <4>1 DEF Touches
      <4> QED BY <1>1, <2>1, <4>1, <4>2
    <3>2. CASE q \notin emptied
      <4>1. q = p /\ MayEmpty(p) /\ step'[p] = <<>> /\ stream'[p] # "NULL"
        BY <2>2, <3>2 DEF Touches
      <4> QED BY <1>1, <4>1
    <3> QED BY <3>1, <3>2
  <2> QED BY <2>1, <2>2 DEF EmptiedInv
<1> QED BY <1>3, <1>4, <1>5 DEF OpenInv

\* The other locks are as they were.
LEMMA LocksStay ==
  ASSUME OpenInv, NEW p \in Openers, locks' = locks \/ locks' = Without(p),
         locks' = Without(p) \/ stream'[p] \in {"none", "open"},
         Locked(p)
  PROVE  Relocked(p)
<1>1. /\ locks \subseteq Openers \X {"SH", "EX"}
      /\ \A l, m \in locks : l[1] # m[1] => l[2] = "SH" /\ m[2] = "SH"
  BY DEF OpenInv, LocksInv
<1>2. Without(p) \subseteq locks /\ \A l \in Without(p) : l[1] # p
  BY DEF Without
<1> QED BY <1>1, <1>2 DEF Relocked

-----------------------------------------------------------------------------
(* One lemma for each step                                                 *)

LEMMA FailsKeeps ==
  ASSUME OpenInv, NEW p \in Openers, step[p] # <<>>, Fails(p), UNCHANGED <<config, linked, queued, emptied>>
  PROVE  OpenInv'
<1>1. /\ step' = [step EXCEPT ![p] = <<>>] /\ stream' = [stream EXCEPT ![p] = "NULL"]
      /\ locks' = Without(p) /\ UNCHANGED <<config, linked, queued, emptied, exists, file>>
  BY DEF Fails
<1>2. stream[p] = "none" /\ ~queued[p]
  BY DEF OpenInv, StepsInv
<1>3. step'[p] = <<>> /\ stream'[p] = "NULL"
  BY <1>1 DEF OpenInv, StepsInv
<1>4. Moved(p)
  BY <1>1, <1>2, <1>3 DEF OpenInv, StepsInv, Moved, CallsLeft
<1>5. Relocked(p)
  BY <1>1, <1>3, CallsDiffer, LocksStay DEF Locked
<1>6. Touches(p)
  BY <1>1, <1>2 DEF Touches
<1> QED BY <1>1, <1>4, <1>5, <1>6, OneProcessMoves

\* A process goes on to its next call.
LEMMA ProceedsMoves ==
  ASSUME OpenInv, NEW p \in Openers, step[p] # <<>>, Proceeds(p), queued' = queued,
         step'[p] \in {<<"prepare">>, <<>>} => MayFollow(p)
  PROVE  /\ Moved(p) /\ step'[p] = Tail(step[p])
         /\ stream[p] = "none" /\ stream'[p] = "none"
<1>1. step' = [step EXCEPT ![p] = Tail(@)] /\ stream' = stream
  BY DEF Proceeds
<1>2. step[p] \in CallsLeft /\ stream[p] = "none" /\ ~queued[p]
  BY DEF OpenInv, StepsInv
<1>3. step'[p] = Tail(step[p]) /\ Tail(step[p]) \in CallsLeft
  BY <1>1, <1>2, AtCall DEF OpenInv, StepsInv
<1> QED BY <1>1, <1>2, <1>3 DEF OpenInv, StepsInv, Moved

LEMMA OpenKeeps ==
  ASSUME OpenInv, NEW p \in Openers, Open(p)
  PROVE  OpenInv'
<1>1. step[p] # <<>> /\ Head(step[p]) = "open" /\ UNCHANGED <<config, linked, queued, emptied>>
  BY DEF Open, At
<1>2. CASE Fails(p)
  BY <1>1, <1>2, FailsKeeps
<1>3. CASE Proceeds(p) /\ UNCHANGED <<file, locks>>
  <2>1. step[p] \in CallsLeft
    BY DEF OpenInv, StepsInv
  <2>2. Tail(step[p]) = <<"lock", "check", "prepare">>
    BY <1>1, <2>1, AtCall
  <2>3. step'[p] = Tail(step[p])
    BY <1>3 DEF Proceeds, OpenInv, StepsInv
  <2>4. step'[p] \notin {<<"check", "prepare">>, <<"prepare">>, <<>>}
    BY <2>2, <2>3, CallsDiffer
  <2>5. Moved(p) /\ stream[p] = "none" /\ stream'[p] = "none"
    BY <1>1, <1>3, <2>4, ProceedsMoves
  <2>6. Relocked(p)
    BY <1>3, <2>4, <2>5, LocksStay DEF Locked
  <2>7. Touches(p)
    BY <1>1, <1>3 DEF Touches
  <2> QED BY <1>1, <2>5, <2>6, <2>7, OneProcessMoves
<1> QED BY <1>2, <1>3 DEF Open

\* A lock is only taken beside those that it goes with.
LEMMA LockKeeps ==
  ASSUME OpenInv, NEW p \in Openers, Lock(p)
  PROVE  OpenInv'
<1>1. step[p] # <<>> /\ Head(step[p]) = "lock" /\ UNCHANGED <<config, linked, queued, emptied>>
  BY DEF Lock, At
<1>2. CASE Fails(p)
  BY <1>1, <1>2, FailsKeeps
<1>3. CASE ~Fails(p)
  <2> DEFINE mine == IF Set(p, "SF_RDLOCK") THEN {<<p, "SH">>}
                     ELSE IF Set(p, "SF_WRLOCK") THEN {<<p, "EX">>} ELSE {}
  <2>1. /\ ~(Set(p, "SF_WRLOCK") /\ Excludes(p, "EX")) /\ ~(Set(p, "SF_RDLOCK") /\ Excludes(p, "SH"))
        /\ locks' = Without(p) \cup mine
        /\ Proceeds(p) /\ UNCHANGED <<exists, file>>
    BY <1>3 DEF Lock
  <2>2. step[p] \in CallsLeft
    BY DEF OpenInv, StepsInv
  <2>3. Tail(step[p]) = <<"check", "prepare">>
    BY <1>1, <2>2, AtCall
  <2>4. step'[p] = Tail(step[p])
    BY <2>1 DEF Proceeds, OpenInv, StepsInv
  <2>5. step'[p] \notin {<<"prepare">>, <<>>}
    BY <2>3, <2>4, CallsDiffer
  <2>6. Moved(p) /\ stream[p] = "none" /\ stream'[p] = "none"
    BY <1>1, <2>1, <2>5, ProceedsMoves
  <2>7. Relocked(p)
    <3>1. /\ locks \subseteq Openers \X {"SH", "EX"}
          /\ Without(p) \subseteq locks /\ \A l \in Without(p) : l[1] # p
      BY DEF OpenInv, LocksInv, Without
    <3>2. \A l \in mine : l \in Openers \X {"SH", "EX"} /\ l[1] = p
      OBVIOUS
    <3>3. ASSUME NEW l \in mine, NEW m \in Without(p) PROVE l[2] = "SH" /\ m[2] = "SH"
      <4>1. m[1] # p /\ m \in locks /\ m[2] \in {"SH", "EX"}
        BY <3>1
      <4>2. CASE Set(p, "SF_RDLOCK")
        <5>1. l[2] = "SH" /\ ~Excludes(p, "SH")
          BY <2>1, <4>2
        <5>2. m[2] # "EX"
          BY <4>1, <5>1 DEF Excludes
        <5> QED BY <4>1, <5>1, <5>2
      <4>3. CASE ~Set(p, "SF_RDLOCK")
        <5>1. Set(p, "SF_WRLOCK")
          BY <4>3
        <5>2. ~Excludes(p, "EX")
          BY <2>1, <5>1
        <5> QED BY <4>1, <5>2 DEF Excludes
      <4> QED BY <4>2, <4>3
    <3>4. ASSUME Asks(p) PROVE \E l \in mine : l[1] = p
      BY <3>4 DEF Asks
    <3>5. ASSUME AsksAlone(p) PROVE <<p, "EX">> \in mine
      BY <3>5 DEF AsksAlone
    <3>6. mine \subseteq locks'
      BY <2>1
    <3> HIDE DEF mine
    <3> QED BY <2>1, <2>6, <3>1, <3>2, <3>3, <3>4, <3>5, <3>6 DEF Relocked, Locked
  <2>8. Touches(p)
    BY <1>1, <2>1 DEF Touches
  <2> QED BY <1>1, <2>6, <2>7, <2>8, OneProcessMoves
<1> QED BY <1>2, <1>3

LEMMA CheckKeeps ==
  ASSUME OpenInv, NEW p \in Openers, Check(p)
  PROVE  OpenInv'
<1>1. step[p] # <<>> /\ Head(step[p]) = "check" /\ UNCHANGED <<config, linked, queued, emptied>>
  BY DEF Check, At
<1>2. CASE Fails(p)
  BY <1>1, <1>2, FailsKeeps
<1>3. CASE ~Fails(p)
  <2>1. MayFollow(p) /\ Proceeds(p) /\ UNCHANGED <<exists, file, locks>>
    BY <1>3 DEF Check, MayFollow
  <2>2. step[p] \in CallsLeft
    BY DEF OpenInv, StepsInv
  <2>3. step[p] = <<"check", "prepare">> /\ Tail(step[p]) = <<"prepare">>
    <3>1. step[p] # <<"open", "lock", "check", "prepare">> /\ step[p] # <<"lock", "check", "prepare">>
          /\ step[p] # <<"prepare">>
      BY <1>1
    <3>2. step[p] = <<"check", "prepare">>
      BY <1>1, <2>2, <3>1 DEF CallsLeft
    <3> QED BY <3>2
  <2>4. Moved(p) /\ stream[p] = "none" /\ stream'[p] = "none"
    BY <1>1, <2>1, ProceedsMoves
  <2>5. Locked(p)
    BY <2>1, <2>3 DEF OpenInv, LocksInv, Locked
  <2>6. Relocked(p)
    BY <2>1, <2>4, <2>5, LocksStay
  <2>7. Touches(p)
    BY <1>1, <2>1 DEF Touches
  <2> QED BY <1>1, <2>4, <2>6, <2>7, OneProcessMoves
<1> QED BY <1>2, <1>3

LEMMA PrepareKeeps ==
  ASSUME OpenInv, NEW p \in Openers, Prepare(p)
  PROVE  OpenInv' /\ step[p] = <<"prepare">>
<1>1. /\ step[p] # <<>> /\ Head(step[p]) = "prepare" /\ Proceeds(p)
      /\ file' = (IF Truncates(p) THEN <<>> ELSE file)
      /\ emptied' = (IF file' = file THEN emptied ELSE emptied \cup {p})
      /\ UNCHANGED <<config, linked, exists, locks, queued>>
  BY DEF Prepare, At
<1>2. step[p] \in CallsLeft
  BY DEF OpenInv, StepsInv
<1>3. step[p] = <<"prepare">> /\ Tail(step[p]) = <<>>
  BY <1>1, <1>2, AtCall
<1>4. stream[p] = "none" /\ MayFollow(p)
  BY <1>3, CallsDiffer DEF OpenInv, StepsInv
<1>5. Moved(p) /\ step'[p] = <<>> /\ stream'[p] = "none"
  BY <1>1, <1>3, <1>4, ProceedsMoves
<1>6. Relocked(p)
  BY <1>1, <1>5, CallsDiffer, LocksStay DEF Locked
<1>7. Touches(p)
  <2>1. CASE file' = file
    BY <1>1, <1>4, <1>5, <2>1 DEF Touches
  <2>2. CASE file' # file
    <3>1. Truncates(p)
      BY <1>1, <2>2
    <3>2. MayEmpty(p)
      BY <1>4, <3>1 DEF Truncates, MayEmpty
    <3> QED BY <1>1, <1>4, <1>5, <2>2, <3>2 DEF Touches
  <2> QED BY <2>1, <2>2
<1> QED BY <1>1, <1>3, <1>5, <1>6, <1>7, OneProcessMoves

LEMMA ReturnedKeeps ==
  ASSUME OpenInv, NEW p \in Openers, Returned(p)
  PROVE  OpenInv'
<1>1. /\ step[p] = <<>> /\ stream[p] = "none" /\ stream' = [stream EXCEPT ![p] = "open"]
      /\ UNCHANGED <<config, linked, exists, file, locks, step, queued, emptied>>
  BY DEF Returned
<1>2. stream'[p] = "open" /\ step'[p] = <<>>
  BY <1>1 DEF OpenInv, StepsInv
<1>3. Moved(p)
  BY <1>1, <1>2 DEF OpenInv, StepsInv, Moved
<1>4. Relocked(p)
  BY <1>1, <1>2, CallsDiffer, LocksStay DEF Locked
<1>5. Touches(p)
  BY <1>1, <1>2 DEF Touches
<1> QED BY <1>1, <1>3, <1>4, <1>5, OneProcessMoves

\* A stream that is open has been through all the calls.
LEMMA OpenedIs ==
  ASSUME OpenInv, NEW p \in Openers, stream[p] = "open"
  PROVE  step[p] = <<>> /\ MayFollow(p)
BY DEF OpenInv, StepsInv

LEMMA QueueKeeps ==
  ASSUME OpenInv, NEW p \in Openers, QueueRecord(p)
  PROVE  OpenInv'
<1>1. /\ stream[p] = "open" /\ MayWrite(p) /\ queued' = [queued EXCEPT ![p] = TRUE]
      /\ UNCHANGED <<config, linked, exists, file, locks, step, stream, emptied>>
  BY DEF QueueRecord
<1>2. step[p] = <<>> /\ MayFollow(p)
  BY <1>1, OpenedIs
<1>3. Moved(p)
  BY <1>1, <1>2 DEF OpenInv, StepsInv, Moved
<1>4. Relocked(p)
  BY <1>1, <1>2, CallsDiffer, LocksStay DEF Locked
<1>5. Touches(p)
  BY <1>1 DEF Touches
<1> QED BY <1>1, <1>3, <1>4, <1>5, OneProcessMoves

LEMMA PushKeeps ==
  ASSUME OpenInv, NEW p \in Openers, PushRecord(p)
  PROVE  OpenInv'
<1>1. /\ stream[p] = "open" /\ queued[p] /\ queued' = [queued EXCEPT ![p] = FALSE]
      /\ locks' = (IF Set(p, "SF_WRLOCK") THEN Without(p) ELSE locks)
      /\ UNCHANGED <<config, linked, exists, step, stream, emptied>>
  BY DEF PushRecord
<1>2. step[p] = <<>> /\ MayFollow(p) /\ MayWrite(p)
  BY <1>1, OpenedIs DEF OpenInv, StepsInv
<1>3. Moved(p)
  BY <1>1, <1>2 DEF OpenInv, StepsInv, Moved
<1>4. Relocked(p)
  BY <1>1, <1>2, CallsDiffer, LocksStay DEF Locked
<1>5. Touches(p)
  BY <1>1, <1>2 DEF Touches
<1> QED BY <1>1, <1>3, <1>4, <1>5, OneProcessMoves

LEMMA ReadLockedKeeps ==
  ASSUME OpenInv, NEW p \in Openers, ReadLocked(p)
  PROVE  OpenInv'
<1>1. /\ stream[p] = "open" /\ locks' = Without(p)
      /\ UNCHANGED <<config, linked, exists, file, step, stream, queued, emptied>>
  BY DEF ReadLocked
<1>2. step[p] = <<>> /\ MayFollow(p)
  BY <1>1, OpenedIs
<1>3. Moved(p)
  BY <1>1, <1>2 DEF OpenInv, StepsInv, Moved
<1>4. Relocked(p)
  BY <1>1, <1>2, CallsDiffer, LocksStay DEF Locked
<1>5. Touches(p)
  BY <1>1 DEF Touches
<1> QED BY <1>1, <1>3, <1>4, <1>5, OneProcessMoves

LEMMA CloseKeeps ==
  ASSUME OpenInv, NEW p \in Openers, Close(p)
  PROVE  OpenInv'
<1>1. /\ stream[p] = "open" /\ ~queued[p] /\ stream' = [stream EXCEPT ![p] = "closed"]
      /\ locks' = Without(p)
      /\ UNCHANGED <<config, linked, exists, file, step, queued, emptied>>
  BY DEF Close
<1>2. step[p] = <<>> /\ MayFollow(p)
  BY <1>1, OpenedIs
<1>3. stream'[p] = "closed"
  BY <1>1 DEF OpenInv, StepsInv
<1>4. Moved(p)
  BY <1>1, <1>2, <1>3 DEF OpenInv, StepsInv, Moved
<1>5. Relocked(p)
  BY <1>1, <1>2, CallsDiffer, LocksStay DEF Locked
<1>6. Touches(p)
  BY <1>1, <1>2, <1>3 DEF Touches
<1> QED BY <1>1, <1>4, <1>5, <1>6, OneProcessMoves

LEMMA OpenInvStep ==
  ASSUME OpenInv, [OpenNext]_openVars
  PROVE  OpenInv'
<1>1. ASSUME NEW p \in Openers, FileUse(p) PROVE OpenInv'
  BY <1>1, OpenKeeps, LockKeeps, CheckKeeps, PrepareKeeps, ReturnedKeeps, QueueKeeps, PushKeeps,
     ReadLockedKeeps, CloseKeeps DEF FileUse
<1>2. CASE UNCHANGED openVars
  <2>1. /\ UNCHANGED <<config, linked, file, locks, step, stream, queued, emptied>>
        /\ \A q \in Openers : (MayWrite(q)' <=> MayWrite(q)) /\ (MayFollow(q)' <=> MayFollow(q))
                              /\ (Asks(q)' <=> Asks(q)) /\ (AsksAlone(q)' <=> AsksAlone(q))
                              /\ (MayEmpty(q)' <=> MayEmpty(q))
    BY <1>2, ConfigKept DEF openVars
  <2>2. StepsInv'
    BY <2>1 DEF OpenInv, StepsInv
  <2>3. LocksInv'
    BY <2>1 DEF OpenInv, LocksInv
  <2>4. EmptiedInv'
    BY <2>1 DEF OpenInv, EmptiedInv
  <2> QED BY <2>2, <2>3, <2>4 DEF OpenInv
<1> QED BY <1>1, <1>2 DEF OpenNext

LEMMA OpenInvInit == OpenInit => OpenInv
<1> SUFFICES ASSUME OpenInit PROVE OpenInv
  OBVIOUS
<1>1. /\ locks = {} /\ step = [p \in Openers |-> <<"open", "lock", "check", "prepare">>]
      /\ stream = [p \in Openers |-> "none"] /\ queued = [p \in Openers |-> FALSE]
      /\ emptied = {}
  BY DEF OpenInit, Calls
<1>2. StepsInv
  BY <1>1, CallsDiffer DEF StepsInv, CallsLeft
<1>3. LocksInv
  BY <1>1, CallsDiffer DEF LocksInv
<1> QED BY <1>1, <1>2, <1>3 DEF OpenInv, EmptiedInv

LEMMA OpenInvHolds == OpenSpec => []OpenInv
BY OpenInvInit, OpenInvStep, PTL DEF OpenSpec

\* However the calls of several processes that open a file interleave (STREAMFileOpen
\* opens, locks, checks and truncates it one after the other): locks that exclude each
\* other are never both held, none is left behind by an open that failed or a stream that
\* was closed, and only an open that was to empty the file, may write it and goes through
\* takes bytes from it, through a link only if it was to follow it.
THEOREM OpensKeepFile == OpenSpec => []OpenKeepsFile
<1>1. ASSUME OpenInv PROVE OpenKeepsFile
  <2>1. ASSUME NEW p \in emptied
        PROVE  /\ Set(p, "SF_TRUNC") /\ MayWrite(p) /\ WentThrough(p)
               /\ linked => Set(p, "SF_FOLLOW")
    <3>1. MayEmpty(p) /\ step[p] = <<>> /\ stream[p] # "NULL"
      BY <1>1 DEF OpenInv, EmptiedInv
    <3> QED BY <3>1 DEF MayEmpty, MayFollow, LooksForLink, WentThrough
  <2> QED BY <1>1, <2>1 DEF OpenKeepsFile, OpenInv, LocksInv
<1> QED BY <1>1, OpenInvHolds, PTL

\* The lock that is asked for is taken before the file is truncated, and held: no process
\* that asks for one empties a file under the exclusive lock of another, and one that asks
\* for the exclusive lock only does not under any lock of another.
THEOREM LockedNotEmptied == OpenSpec => NeverEmptiesLocked
<1> DEFINE Respected ==
      \A p, q \in Openers :
        /\ file # <<>> /\ file' = <<>>
        /\ At(p, "prepare") /\ step[p] # step'[p] /\ p # q
        => /\ FlagsOf(p) \cap {"SF_WRLOCK", "SF_RDLOCK"} # {} => <<q, "EX">> \notin locks
           /\ Set(p, "SF_WRLOCK") /\ ~Set(p, "SF_RDLOCK") => \A l \in locks : l[1] # q
<1>1. ASSUME OpenInv PROVE Respected
  <2> SUFFICES ASSUME NEW p \in Openers, NEW q \in Openers, At(p, "prepare"), p # q
               PROVE  /\ FlagsOf(p) \cap {"SF_WRLOCK", "SF_RDLOCK"} # {} => <<q, "EX">> \notin locks
                      /\ Set(p, "SF_WRLOCK") /\ ~Set(p, "SF_RDLOCK") => \A l \in locks : l[1] # q
    OBVIOUS
  <2>1. step[p] = <<"prepare">>
    BY <1>1, AtCall DEF At, OpenInv, StepsInv
  <2>2. \A l, m \in locks : l[1] # m[1] => l[2] = "SH" /\ m[2] = "SH"
    BY <1>1 DEF OpenInv, LocksInv
  <2>3. ASSUME FlagsOf(p) \cap {"SF_WRLOCK", "SF_RDLOCK"} # {}, <<q, "EX">> \in locks
        PROVE  FALSE
    <3>1. Asks(p)
      BY <2>3 DEF Asks, Set
    <3>2. PICK l \in locks : l[1] = p
      BY <1>1, <2>1, <3>1 DEF OpenInv, LocksInv
    <3>3. <<q, "EX">>[1] = q /\ <<q, "EX">>[2] = "EX"
      OBVIOUS
    <3>4. <<q, "EX">>[2] = "SH"
      BY <2>2, <2>3, <3>2, <3>3
    <3> QED BY <3>3, <3>4
  <2>4. ASSUME Set(p, "SF_WRLOCK"), ~Set(p, "SF_RDLOCK"), NEW l \in locks, l[1] = q
        PROVE  FALSE
    <3>1. <<p, "EX">> \in locks
      BY <1>1, <2>1, <2>4 DEF AsksAlone, OpenInv, LocksInv
    <3>2. <<p, "EX">>[1] = p /\ <<p, "EX">>[2] = "EX"
      OBVIOUS
    <3>3. <<p, "EX">>[2] = "SH"
      BY <2>2, <2>4, <3>1, <3>2
    <3> QED BY <3>2, <3>3
  <2> QED BY <2>3, <2>4
<1>2. OpenInv /\ [OpenNext]_openVars => [Respected]_openVars
  BY <1>1
<1> QED BY <1>2, OpenInvHolds, PTL DEF OpenSpec, NeverEmptiesLocked

-----------------------------------------------------------------------------
(* Strings and the cache of their lengths                                  *)

\* A set of numbers has a smallest one.
LEMMA HasSmallest ==
  ASSUME NEW T \in SUBSET Nat, T # {}
  PROVE  \E i \in T : \A j \in T : i <= j
<1> DEFINE R == OpToRel(<, Nat)
<1>1. \A i, j \in Nat : j < i => <<j, i>> \in R
  BY DEF OpToRel
<1>2. IsWellFoundedOn(R, Nat)
  BY NatLessThanWellFounded
<1> HIDE DEF R
<1>3. PICK i \in T : \A j \in T : <<j, i>> \notin R
  BY <1>2, WFMin
<1>4. ASSUME NEW j \in T PROVE i <= j
  <2>1. i \in Nat /\ j \in Nat
    OBVIOUS
  <2>2. ~(j < i)
    BY <1>1, <1>3, <2>1
  <2> QED BY <2>1, <2>2
<1> QED BY <1>4

\* A table of lengths: of so many addresses.
Table(table) ==
  /\ table \in [DOMAIN table -> Nat] /\ DOMAIN table \subseteq Addresses
  /\ IsFiniteSet(DOMAIN table) /\ Cardinality(DOMAIN table) <= CacheSize

\* StrLenCacheDel: the address is no longer in the table, the others are as they were.
LEMMA DelIs ==
  ASSUME NEW table, Table(table), NEW a
  PROVE  /\ Table(StrLenCacheDel(table, a))
         /\ DOMAIN StrLenCacheDel(table, a) = DOMAIN table \ {a}
         /\ \A b \in DOMAIN table \ {a} : StrLenCacheDel(table, a)[b] = table[b]
         /\ a \in DOMAIN table => Cardinality(DOMAIN StrLenCacheDel(table, a)) + 1 <= CacheSize
<1>1. PICK d : d = StrLenCacheDel(table, a)
  OBVIOUS
<1>2. d = [b \in DOMAIN table \ {a} |-> table[b]]
  BY <1>1 DEF StrLenCacheDel
<1>3. DOMAIN d = DOMAIN table \ {a} /\ \A b \in DOMAIN table \ {a} : d[b] = table[b]
  BY <1>2
<1>4. PICK S : S = DOMAIN table
  OBVIOUS
<1>5. IsFiniteSet(S) /\ Cardinality(S) <= CacheSize /\ CacheSize \in Nat /\ Cardinality(S) \in Nat
  BY <1>4, FS_CardinalityType, StringsAssumption DEF Table
<1>6. /\ IsFiniteSet(S \ {a}) /\ Cardinality(S \ {a}) \in Nat
      /\ Cardinality(S \ {a}) = IF a \in S THEN Cardinality(S) - 1 ELSE Cardinality(S)
  BY <1>5, FS_RemoveElement, FS_CardinalityType
<1>7. Cardinality(S \ {a}) <= CacheSize /\ (a \in S => Cardinality(S \ {a}) + 1 <= CacheSize)
  BY <1>5, <1>6
<1>8. d \in [DOMAIN d -> Nat] /\ DOMAIN d \subseteq Addresses
  BY <1>2, <1>3 DEF Table
<1>9. DOMAIN d = S \ {a}
  BY <1>3, <1>4
<1>10. Table(d)
  BY <1>6, <1>7, <1>8, <1>9 DEF Table
<1> QED BY <1>1, <1>3, <1>4, <1>7, <1>9, <1>10

\* One address more has its length.
Noted(new, table, a, n) ==
  /\ Table(new) /\ DOMAIN new = DOMAIN table \cup {a}
  /\ \A b \in DOMAIN table \cup {a} : new[b] = IF b = a THEN n ELSE table[b]

\* A table that has room is given the length of one address more.
LEMMA WithIs ==
  ASSUME NEW table, Table(table), NEW a \in Addresses, NEW n \in Nat,
         a \in DOMAIN table \/ Cardinality(DOMAIN table) + 1 <= CacheSize
  PROVE  Noted(With(table, a, n), table, a, n)
<1>1. PICK d : d = With(table, a, n)
  OBVIOUS
<1>2. d = [b \in DOMAIN table \cup {a} |-> IF b = a THEN n ELSE table[b]]
  BY <1>1 DEF With
<1>3. /\ DOMAIN d = DOMAIN table \cup {a}
      /\ \A b \in DOMAIN table \cup {a} : d[b] = IF b = a THEN n ELSE table[b]
  BY <1>2
<1>4. PICK S : S = DOMAIN table
  OBVIOUS
<1>5. IsFiniteSet(S) /\ Cardinality(S) <= CacheSize /\ CacheSize \in Nat /\ Cardinality(S) \in Nat
  BY <1>4, FS_CardinalityType, StringsAssumption DEF Table
<1>6. /\ IsFiniteSet(S \cup {a})
      /\ Cardinality(S \cup {a}) = IF a \in S THEN Cardinality(S) ELSE Cardinality(S) + 1
  BY <1>5, FS_AddElement
<1>7. Cardinality(S \cup {a}) <= CacheSize
  BY <1>4, <1>5, <1>6
<1>8. \A b \in DOMAIN table : table[b] \in Nat /\ b \in Addresses
  BY DEF Table
<1>9. d \in [DOMAIN d -> Nat] /\ DOMAIN d \subseteq Addresses
  BY <1>2, <1>3, <1>8
<1>10. Table(d)
  BY <1>3, <1>4, <1>6, <1>7, <1>9 DEF Table
<1> QED BY <1>1, <1>3, <1>10 DEF Noted

\* What may become of the cache has the new length of a string and the old ones of others.
Knows(new, table, a, n) ==
  /\ Table(new) /\ DOMAIN new \subseteq DOMAIN table \cup {a}
  /\ \A b \in DOMAIN new : new[b] = IF b = a THEN n ELSE table[b]

\* A table of the old lengths and the new one is a cache that knows them.
LEMMA KnowsIs ==
  ASSUME NEW new, Table(new), NEW D, DOMAIN new = D, NEW table, NEW a, NEW n, D \subseteq DOMAIN table \cup {a},
         \A b \in D : new[b] = IF b = a THEN n ELSE table[b]
  PROVE  Knows(new, table, a, n)
BY DEF Knows

\* StrLenCacheAdd: whatever it throws out and whatever it keeps, what is in the cache is the
\* new length of that address or the old one of another.
LEMMA AddIs ==
  ASSUME NEW table, Table(table), NEW a \in Addresses, NEW n \in Nat,
         NEW new \in StrLenCacheAdd(table, a, n)
  PROVE  /\ Knows(new, table, a, n)
         /\ n < MinLen \/ (n <= MinLen /\ a \notin DOMAIN table) => a \notin DOMAIN new
<1>0. MinLen \in Nat /\ CacheSize \in Nat
  BY StringsAssumption
<1>1. CASE a \in DOMAIN table
  <2>1. CASE n < MinLen
    <3>1. new = StrLenCacheDel(table, a)
      BY <1>1, <2>1 DEF StrLenCacheAdd
    <3>2. /\ Table(new) /\ DOMAIN new = DOMAIN table \ {a}
          /\ \A b \in DOMAIN table \ {a} : new[b] = table[b]
      BY <3>1, DelIs
    <3>3. Knows(new, table, a, n)
      BY <3>2, KnowsIs
    <3> QED BY <3>2, <3>3
  <2>2. CASE ~(n < MinLen)
    <3>1. new = With(table, a, n)
      BY <1>1, <2>2 DEF StrLenCacheAdd
    <3>2. /\ Table(new) /\ DOMAIN new = DOMAIN table \cup {a}
          /\ \A b \in DOMAIN table \cup {a} : new[b] = IF b = a THEN n ELSE table[b]
      <4>0. a \in DOMAIN table \/ Cardinality(DOMAIN table) + 1 <= CacheSize
        BY <1>1
      <4>1. Noted(With(table, a, n), table, a, n)
        BY <4>0, WithIs
      <4> QED BY <3>1, <4>1 DEF Noted
    <3>3. Knows(new, table, a, n)
      BY <3>2, KnowsIs
    <3> QED BY <1>1, <2>2, <3>3
  <2> QED BY <2>1, <2>2
<1>2. CASE a \notin DOMAIN table /\ n <= MinLen
  <2>1. new = table
    BY <1>2 DEF StrLenCacheAdd
  <2> QED BY <1>2, <2>1 DEF Knows
<1>3. CASE a \notin DOMAIN table /\ ~(n <= MinLen)
  <2>0. ~(n < MinLen)
    BY <1>0, <1>3
  <2>1. CASE Cardinality(DOMAIN table) < CacheSize
    <3>1. new = With(table, a, n)
      BY <1>3, <2>1 DEF StrLenCacheAdd
    <3>2. Cardinality(DOMAIN table) + 1 <= CacheSize
      BY <1>0, <2>1, FS_CardinalityType DEF Table
    <3>3. /\ Table(new) /\ DOMAIN new = DOMAIN table \cup {a}
          /\ \A b \in DOMAIN table \cup {a} : new[b] = IF b = a THEN n ELSE table[b]
      <4>1. Noted(With(table, a, n), table, a, n)
        BY <3>2, WithIs
      <4> QED BY <3>1, <4>1 DEF Noted
    <3>4. Knows(new, table, a, n)
      BY <3>3, KnowsIs
    <3> QED BY <1>3, <2>0, <3>4
  <2>2. CASE ~(Cardinality(DOMAIN table) < CacheSize)
    <3>1. PICK c \in DOMAIN table : new = With(StrLenCacheDel(table, c), a, n)
      BY <1>3, <2>2 DEF StrLenCacheAdd
    <3>2. PICK d : d = StrLenCacheDel(table, c)
      OBVIOUS
    <3>3. /\ Table(d) /\ DOMAIN d = DOMAIN table \ {c} /\ \A b \in DOMAIN table \ {c} : d[b] = table[b]
          /\ Cardinality(DOMAIN d) + 1 <= CacheSize
      BY <3>2, DelIs
    <3>4. new = With(d, a, n) /\ Table(d) /\ Cardinality(DOMAIN d) + 1 <= CacheSize
      BY <3>1, <3>2, <3>3
    <3>5. /\ Table(new) /\ DOMAIN new = DOMAIN d \cup {a}
          /\ \A b \in DOMAIN d \cup {a} : new[b] = IF b = a THEN n ELSE d[b]
      <4>1. Noted(With(d, a, n), d, a, n)
        BY <3>4, WithIs
      <4> QED BY <3>4, <4>1 DEF Noted
    <3>6. /\ DOMAIN d \cup {a} \subseteq DOMAIN table \cup {a}
          /\ \A b \in DOMAIN d \cup {a} : new[b] = IF b = a THEN n ELSE table[b]
      BY <3>3, <3>5
    <3>7. Knows(new, table, a, n)
      BY <3>5, <3>6, KnowsIs
    <3> QED BY <1>3, <2>0, <3>7
  <2> QED BY <2>1, <2>2
<1> QED BY <1>1, <1>2, <1>3

-----------------------------------------------------------------------------
\* Each string has its own address, one without an address is empty, and the lengths that
\* are cached are those of the strings.
StringsInv ==
  /\ at \in [Handles -> Addresses \cup {"null"}]
  /\ \A g, h \in Handles : g # h /\ at[g] # "null" => at[g] # at[h]
  /\ text \in [Handles -> Seq(Chars)] /\ meant = text
  /\ \A h \in Handles : at[h] = "null" => text[h] = <<>>
  /\ Table(cache)
  /\ \A a \in DOMAIN cache : \E h \in Handles : at[h] = a /\ cache[a] = Len(text[h])

\* The length that StrLenEx answers is that of the string, and no other string has its address.
LEMMA KnownIs ==
  ASSUME StringsInv, NEW h \in Handles
  PROVE  /\ Known(h, text[h]) = Len(text[h]) /\ Len(text[h]) \in Nat
         /\ \A a \in DOMAIN cache : a # at[h] => \E g \in Handles \ {h} : at[g] = a /\ cache[a] = Len(text[g])
<1>1. text[h] \in Seq(Chars) /\ Len(text[h]) \in Nat
  BY LenProperties DEF StringsInv
<1>2. at[h] \in DOMAIN cache => cache[at[h]] = Len(text[h])
  <2> SUFFICES ASSUME at[h] \in DOMAIN cache PROVE cache[at[h]] = Len(text[h])
    OBVIOUS
  <2>1. PICK g \in Handles : at[g] = at[h] /\ cache[at[h]] = Len(text[g])
    BY DEF StringsInv
  <2>2. at[h] # "null"
    BY StringsAssumption DEF StringsInv, Table
  <2>3. g = h
    BY <2>1, <2>2 DEF StringsInv
  <2> QED BY <2>1, <2>3
<1>3. text[h] = <<>> => Len(text[h]) = 0
  BY EmptySeq
<1>4. Known(h, text[h]) = Len(text[h])
  BY <1>2, <1>3 DEF Known
<1>5. \A a \in DOMAIN cache : a # at[h] => \E g \in Handles \ {h} : at[g] = a /\ cache[a] = Len(text[g])
  BY DEF StringsInv
<1> QED BY <1>1, <1>4, <1>5

\* A string is given a text, at an address that is free or at its own.
LEMMA Given ==
  ASSUME StringsInv, NEW h \in Handles, NEW a \in Free \cup ({at[h]} \ {"null"}), NEW s \in Seq(Chars),
         NEW table, Table(table), DOMAIN table \subseteq (DOMAIN cache \ {at[h]}) \cup {a},
         \A b \in DOMAIN table : table[b] = IF b = a THEN Len(s) ELSE cache[b],
         at' = [at EXCEPT ![h] = a], text' = [text EXCEPT ![h] = s], meant' = [meant EXCEPT ![h] = s],
         cache' = table
  PROVE  StringsInv'
<1>1. a \in Addresses /\ a # "null" /\ \A g \in Handles : g # h => at[g] # a
  BY StringsAssumption DEF StringsInv, Free
<1>2. /\ at'[h] = a /\ text'[h] = s /\ \A g \in Handles : g # h => at'[g] = at[g] /\ text'[g] = text[g]
      /\ at' \in [Handles -> Addresses \cup {"null"}] /\ text' \in [Handles -> Seq(Chars)]
  BY <1>1 DEF StringsInv
<1>3. meant' = text'
  BY DEF StringsInv
<1>4. \A f, g \in Handles : f # g /\ at'[f] # "null" => at'[f] # at'[g]
  BY <1>1, <1>2 DEF StringsInv
<1>5. \A g \in Handles : at'[g] = "null" => text'[g] = <<>>
  BY <1>1, <1>2 DEF StringsInv
<1>6. \A b \in DOMAIN table : \E g \in Handles : at'[g] = b /\ table[b] = Len(text'[g])
  <2> SUFFICES ASSUME NEW b \in DOMAIN table PROVE \E g \in Handles : at'[g] = b /\ table[b] = Len(text'[g])
    OBVIOUS
  <2>1. CASE b = a
    BY <1>2, <2>1
  <2>2. CASE b # a
    <3>1. b \in DOMAIN cache /\ b # at[h] /\ table[b] = cache[b]
      BY <2>2
    <3>2. PICK g \in Handles \ {h} : at[g] = b /\ cache[b] = Len(text[g])
      BY <3>1, KnownIs
    <3> QED BY <1>2, <3>1, <3>2
  <2> QED BY <2>1, <2>2
<1> QED BY <1>2, <1>3, <1>4, <1>5, <1>6 DEF StringsInv

\* A string is changed where it is.
LEMMA InPlace ==
  ASSUME StringsInv, NEW h \in Handles, at[h] # "null", NEW s \in Seq(Chars), Changed(h, s, s),
         Table(cache'), DOMAIN cache' \subseteq DOMAIN cache \cup {at[h]},
         \A b \in DOMAIN cache' : cache'[b] = IF b = at[h] THEN Len(s) ELSE cache[b]
  PROVE  StringsInv'
<1>1. at' = [at EXCEPT ![h] = at[h]] /\ at[h] \in Free \cup ({at[h]} \ {"null"})
  BY DEF Changed, StringsInv
<1>2. text' = [text EXCEPT ![h] = s] /\ meant' = [meant EXCEPT ![h] = s]
  BY DEF Changed
<1>3. DOMAIN cache' \subseteq (DOMAIN cache \ {at[h]}) \cup {at[h]}
  OBVIOUS
<1> QED BY <1>1, <1>2, <1>3, Given

-----------------------------------------------------------------------------
\* A front of a string, and what is left of it without white space.
LEMMA FrontIs ==
  ASSUME NEW s \in Seq(Chars), NEW n \in 0..Len(s)
  PROVE  SubSeq(s, 1, n) \in Seq(Chars) /\ Len(SubSeq(s, 1, n)) = n
<1>1. \A i \in 1..n : s[i] \in Chars
  BY ElementOfSeq, LenProperties
<1>2. n \in Nat /\ Len(s) \in Nat
  BY LenProperties
<1> QED BY <1>1, <1>2, SubSeqProperties

\* StripTrailingWhitespace leaves a front of the string.
LEMMA StrippedIs ==
  ASSUME NEW s \in Seq(Chars)
  PROVE  Stripped(s) \in Seq(Chars)
<1> DEFINE N == Len(s)
           Ends(n) == (\A i \in (n + 1)..N : s[i] = "s") /\ (n > 0 => s[n] # "s")
           All(n) == \A i \in (n + 1)..N : s[i] = "s"
           T == {n \in 0..N : All(n)}
<1>0. N \in Nat
  BY LenProperties
<1>1. N \in T /\ T \in SUBSET Nat
  BY <1>0
<1>2. PICK n \in T : \A m \in T : n <= m
  BY <1>1, HasSmallest
<1>3. n > 0 => s[n] # "s"
  <2> SUFFICES ASSUME n > 0, s[n] = "s" PROVE FALSE
    OBVIOUS
  <2>1. n \in 0..N /\ n - 1 \in 0..N
    BY <1>0
  <2>2. \A i \in ((n - 1) + 1)..N : i = n \/ i \in (n + 1)..N
    BY <1>0, <2>1
  <2>3. All(n - 1)
    BY <2>2
  <2>4. n <= n - 1
    BY <1>2, <2>1, <2>3
  <2> QED BY <2>1, <2>4
<1>4. \E k \in 0..N : Ends(k)
  BY <1>2, <1>3
<1>5. PICK k : k = CHOOSE m \in 0..N : Ends(m)
  OBVIOUS
<1>6. k \in 0..N
  <2> HIDE DEF Ends
  <2> QED BY <1>4, <1>5
<1>7. Stripped(s) = SubSeq(s, 1, k)
  BY <1>5 DEF Stripped
<1> QED BY <1>6, <1>7, FrontIs

\* StripLeadingWhitespace leaves characters of the string.
LEMMA UnindentedIs ==
  ASSUME NEW s \in Seq(Chars)
  PROVE  Unindented(s) \in Seq(Chars)
<1>1. ASSUME NEW t \in Seq(Chars) PROVE Reverse(t) \in Seq(Chars)
  <2>1. Len(t) \in Nat
    BY LenProperties
  <2>2. \A i \in 1..Len(t) : (Len(t) - i) + 1 \in 1..Len(t)
    BY <2>1
  <2>3. \A i \in 1..Len(t) : t[(Len(t) - i) + 1] \in Chars
    BY <2>2, ElementOfSeq
  <2>4. [i \in 1..Len(t) |-> t[(Len(t) - i) + 1]] \in Seq(Chars)
    BY <2>1, <2>3
  <2> QED BY <2>4 DEF Reverse
<1>2. Stripped(Reverse(s)) \in Seq(Chars)
  BY <1>1, StrippedIs
<1> QED BY <1>1, <1>2 DEF Unindented

-----------------------------------------------------------------------------
\* The texts that the program passes are sequences of characters.
LEMMA TextsAre == ASSUME NEW s \in Texts PROVE s \in Seq(Chars) /\ Len(s) \in Nat
<1>1. MaxLen \in Nat
  BY StringsAssumption
<1> QED BY <1>1, LenProperties DEF Texts

\* Every call on a string keeps that.
LEMMA StringsKeep ==
  ASSUME ~AnyQuotes, StringsInv, [StringsNext]_strVars
  PROVE  StringsInv'
<1>1. CASE UNCHANGED strVars
  BY <1>1 DEF strVars, StringsInv, Table
<1>2. CASE StringsNext
  <2> PICK h \in Handles :
        \/ \E src \in Texts : CopyStr(h, src) \/ CatStr(h, src) \/ FormatStr(h, src)
        \/ \E len \in 0..MaxLen : StrTrunc(h, len)
        \/ StripTrailingWhitespace(h) \/ StripLeadingWhitespace(h) \/ StripQuotes(h)
        \/ Destroy(h)
    BY <1>2 DEF StringsNext
  <2>0. /\ text[h] \in Seq(Chars) /\ Known(h, text[h]) = Len(text[h]) /\ Len(text[h]) \in Nat
        /\ meant = text /\ Table(cache) /\ at[h] \in Addresses \cup {"null"}
        /\ at[h] = "null" => text[h] = <<>>
        /\ MaxLen \in Nat /\ MinLen \in Nat
    BY KnownIs, StringsAssumption DEF StringsInv
  <2>1. PICK less : less = StrLenCacheDel(cache, at[h])
    OBVIOUS
  <2>2. /\ Table(less) /\ DOMAIN less = DOMAIN cache \ {at[h]}
        /\ \A b \in DOMAIN less : less[b] = cache[b]
    <3>1. /\ Table(less) /\ DOMAIN less = DOMAIN cache \ {at[h]}
          /\ \A b \in DOMAIN cache \ {at[h]} : less[b] = cache[b]
      BY <2>0, <2>1, DelIs, ZenonT(30)
    <3> QED BY <3>1
  <2>3. \A a \in Free \cup ({at[h]} \ {"null"}) : a \in Addresses
    BY <2>0 DEF Free
  <2>4. ASSUME NEW s \in Seq(Chars), SetStrLen(h, Len(s)),
               text' = [text EXCEPT ![h] = s], meant' = [meant EXCEPT ![h] = s]
        PROVE  StringsInv'
    <3>1. PICK a \in Free \cup ({at[h]} \ {"null"}) :
            at' = [at EXCEPT ![h] = a] /\ cache' \in StrLenCacheAdd(less, a, Len(s))
      BY <2>1, <2>4 DEF SetStrLen
    <3>2. a \in Addresses /\ Len(s) \in Nat
      BY <2>3, LenProperties
    <3>3. Knows(cache', less, a, Len(s))
      BY <2>2, <3>1, <3>2, AddIs
    <3>4. /\ Table(cache') /\ DOMAIN cache' \subseteq (DOMAIN cache \ {at[h]}) \cup {a}
          /\ \A b \in DOMAIN cache' : cache'[b] = IF b = a THEN Len(s) ELSE cache[b]
      BY <2>2, <3>3 DEF Knows
    <3> QED BY <2>4, <3>1, <3>4, Given
  <2>5. ASSUME NEW src \in Texts, CopyStr(h, src) PROVE StringsInv'
    BY <2>4, <2>5, TextsAre DEF CopyStr
  <2>6. ASSUME NEW src \in Texts, CatStr(h, src) PROVE StringsInv'
    <3>1. src \in Seq(Chars) /\ Len(src) \in Nat
      BY TextsAre
    <3>2. PICK s : s = text[h] \o src
      OBVIOUS
    <3>3. s \in Seq(Chars) /\ Len(s) = Len(text[h]) + Len(src)
      BY <2>0, <3>1, <3>2, ConcatProperties
    <3>4. /\ SetStrLen(h, Len(s)) /\ text' = [text EXCEPT ![h] = Put(text[h], Len(text[h]), src)]
          /\ meant' = [meant EXCEPT ![h] = text[h] \o src]
      BY <2>0, <2>6, <3>3 DEF CatStr
    <3>5. SubSeq(text[h], 1, Len(text[h])) = text[h]
      BY <2>0
    <3>6. Put(text[h], Len(text[h]), src) = s
      <4>1. ~(Len(text[h]) > Len(text[h]))
        BY <2>0
      <4>2. Put(text[h], Len(text[h]), src) = SubSeq(text[h], 1, Len(text[h])) \o src
        BY <4>1 DEF Put
      <4> QED BY <3>2, <3>5, <4>2
    <3> QED BY <2>4, <3>2, <3>3, <3>4, <3>6
  <2>7. ASSUME NEW src \in Texts, FormatStr(h, src) PROVE StringsInv'
    <3>1. src \in Seq(Chars) /\ Len(src) \in Nat
      BY TextsAre
    <3>2. PICK guess \in Len(src)..MaxLen, a \in Free \cup ({at[h]} \ {"null"}) :
            /\ at' = [at EXCEPT ![h] = a]
            /\ \E table \in StrLenCacheAdd(less, a, guess) : cache' \in StrLenCacheAdd(table, a, Len(src))
      BY <2>1, <2>7 DEF FormatStr
    <3>3. PICK table \in StrLenCacheAdd(less, a, guess) : cache' \in StrLenCacheAdd(table, a, Len(src))
      BY <3>2
    <3>4. a \in Addresses /\ guess \in Nat
      BY <2>3, <3>1
    <3>5. Knows(table, less, a, guess)
      BY <2>2, <3>4, AddIs
    <3>6. Knows(cache', table, a, Len(src))
      BY <3>1, <3>3, <3>4, <3>5, AddIs DEF Knows
    <3>7. /\ Table(cache') /\ DOMAIN cache' \subseteq (DOMAIN cache \ {at[h]}) \cup {a}
          /\ \A b \in DOMAIN cache' : cache'[b] = IF b = a THEN Len(src) ELSE cache[b]
      BY <2>2, <3>5, <3>6 DEF Knows
    <3>8. text' = [text EXCEPT ![h] = src] /\ meant' = [meant EXCEPT ![h] = src] /\ at' = [at EXCEPT ![h] = a]
      BY <2>7, <3>2 DEF FormatStr
    <3> QED BY <3>1, <3>7, <3>8, Given
  <2>8. ASSUME NEW len \in 0..MaxLen, StrTrunc(h, len) PROVE StringsInv'
    <3>1. /\ len < Len(text[h]) /\ Changed(h, SubSeq(text[h], 1, len), SubSeq(text[h], 1, len))
          /\ cache' \in StrLenCacheAdd(cache, at[h], len)
      BY <2>0, <2>8 DEF StrTrunc
    <3>2. len \in Nat /\ len \in 0..Len(text[h])
      BY <2>0, <3>1
    <3>3. at[h] # "null" /\ at[h] \in Addresses
      BY <2>0, <3>1, EmptySeq
    <3>4. PICK s : s = SubSeq(text[h], 1, len)
      OBVIOUS
    <3>5. s \in Seq(Chars) /\ Len(s) = len
      BY <2>0, <3>2, <3>4, FrontIs
    <3>6. Knows(cache', cache, at[h], Len(s))
      BY <2>0, <3>1, <3>2, <3>3, <3>5, AddIs
    <3>7. Changed(h, s, s)
      BY <3>1, <3>4
    <3> QED BY <3>3, <3>5, <3>6, <3>7, InPlace DEF Knows
  <2>9. CASE StripTrailingWhitespace(h)
    <3>1. /\ Len(text[h]) > 0 /\ Changed(h, Stripped(text[h]), Stripped(text[h])) /\ cache' = less
      BY <2>0, <2>1, <2>9 DEF StripTrailingWhitespace, Forgotten
    <3>2. Stripped(text[h]) \in Seq(Chars) /\ at[h] # "null"
      BY <2>0, <3>1, StrippedIs, EmptySeq
    <3>3. /\ Table(cache') /\ DOMAIN cache' \subseteq DOMAIN cache \cup {at[h]}
          /\ \A b \in DOMAIN cache' : cache'[b] = IF b = at[h] THEN Len(Stripped(text[h])) ELSE cache[b]
      BY <2>2, <3>1
    <3> QED BY <3>1, <3>2, <3>3, InPlace
  <2>10. CASE StripLeadingWhitespace(h)
    <3>1. PICK s : s = Unindented(text[h])
      OBVIOUS
    <3>2. at[h] # "null" /\ Changed(h, s, s) /\ cache' \in StrLenCacheAdd(cache, at[h], Len(s))
      BY <2>0, <2>10, <3>1 DEF StripLeadingWhitespace
    <3>3. s \in Seq(Chars) /\ Len(s) \in Nat /\ at[h] \in Addresses
      BY <2>0, <3>1, <3>2, UnindentedIs, LenProperties
    <3>4. Knows(cache', cache, at[h], Len(s))
      BY <2>0, <3>2, <3>3, AddIs
    <3> QED BY <3>2, <3>3, <3>4, InPlace DEF Knows
  <2>11. CASE StripQuotes(h)
    <3>1. PICK s : s = Unindented(text[h])
      OBVIOUS
    <3>2. /\ IsQuoted(s) /\ Len(s) <= MinLen /\ Changed(h, Inside(s), Inside(s))
          /\ cache' \in StrLenCacheAdd(cache, at[h], Len(s) - 1)
      BY <2>0, <2>11, <3>1 DEF StripQuotes
    <3>3. s \in Seq(Chars) /\ Len(s) \in Nat /\ Len(s) > 1
      BY <2>0, <3>1, <3>2, UnindentedIs, LenProperties DEF IsQuoted
    <3>4. Inside(s) \in Seq(Chars)
      <4>1. \A i \in 2..(Len(s) - 1) : s[i] \in Chars
        BY <3>3, ElementOfSeq
      <4>2. SubSeq(s, 2, Len(s) - 1) \in Seq(Chars)
        BY <3>3, <4>1, SubSeqProperties
      <4> QED BY <4>2 DEF Inside
    <3>5. at[h] # "null" /\ at[h] \in Addresses
      <4>1. ASSUME text[h] = <<>> PROVE FALSE
        <5>1. Reverse(text[h]) = <<>>
          BY <4>1 DEF Reverse
        <5>2. Stripped(<<>>) = <<>>
          BY DEF Stripped
        <5>3. Reverse(<<>>) = <<>>
          BY DEF Reverse
        <5>4. s = <<>>
          BY <3>1, <5>1, <5>2, <5>3 DEF Unindented
        <5> QED BY <3>3, <5>4, EmptySeq
      <4> QED BY <2>0, <4>1
    <3>6. Len(s) - 1 \in Nat /\ Len(s) - 1 < MinLen
      BY <2>0, <3>2, <3>3
    <3>7. Knows(cache', cache, at[h], Len(s) - 1) /\ at[h] \notin DOMAIN cache'
      BY <2>0, <3>2, <3>5, <3>6, AddIs
    <3>8. /\ Table(cache') /\ DOMAIN cache' \subseteq DOMAIN cache \cup {at[h]}
          /\ \A b \in DOMAIN cache' : cache'[b] = IF b = at[h] THEN Len(Inside(s)) ELSE cache[b]
      BY <3>7 DEF Knows
    <3> QED BY <3>2, <3>4, <3>5, <3>8, InPlace
  <2>12. CASE Destroy(h)
    <3>1. /\ at[h] # "null" /\ at' = [at EXCEPT ![h] = "null"] /\ text' = [text EXCEPT ![h] = <<>>]
          /\ meant' = [meant EXCEPT ![h] = <<>>] /\ cache' = less
      BY <2>1, <2>12 DEF Destroy, Forgotten
    <3>2. /\ at'[h] = "null" /\ text'[h] = <<>> /\ \A g \in Handles : g # h => at'[g] = at[g] /\ text'[g] = text[g]
          /\ at' \in [Handles -> Addresses \cup {"null"}] /\ text' \in [Handles -> Seq(Chars)]
      BY <3>1, EmptySeq DEF StringsInv
    <3>3. meant' = text'
      BY <2>0, <3>1
    <3>4. /\ \A f, g \in Handles : f # g /\ at'[f] # "null" => at'[f] # at'[g]
          /\ \A g \in Handles : at'[g] = "null" => text'[g] = <<>>
      <4>1. \A f, g \in Handles : f # g /\ at[f] # "null" => at[f] # at[g]
        BY DEF StringsInv
      <4>2. \A g \in Handles : at[g] = "null" => text[g] = <<>>
        BY DEF StringsInv
      <4>3. \A f, g \in Handles : f # g /\ at'[f] # "null" => at'[f] # at'[g]
        BY <3>2, <4>1
      <4> QED BY <3>2, <4>2, <4>3
    <3>5. \A b \in DOMAIN cache' : \E g \in Handles : at'[g] = b /\ cache'[b] = Len(text'[g])
      <4> SUFFICES ASSUME NEW b \in DOMAIN less PROVE \E g \in Handles : at'[g] = b /\ less[b] = Len(text'[g])
        BY <3>1
      <4>1. PICK g \in Handles \ {h} : at[g] = b /\ cache[b] = Len(text[g])
        BY <2>2, KnownIs
      <4> QED BY <2>2, <3>2, <4>1
    <3> QED BY <2>2, <3>1, <3>2, <3>3, <3>4, <3>5 DEF StringsInv
  <2> QED BY <2>5, <2>6, <2>7, <2>8, <2>9, <2>10, <2>11, <2>12
<1> QED BY <1>1, <1>2

\* However many strings a program has and however few lengths are cached: what the cache says
\* is the length of the string that is at that address now, never of one that was there, and
\* the text of a string is what the calls were to make of it, as long as quotes are stripped
\* only of strings that are too short for the cache (StripQuotes takes off two quotes and
\* caches a length that is one less).
THEOREM StringsStayTrue ==
  ASSUME ~AnyQuotes
  PROVE  StringsSpec => [](StringsTypeOK /\ StringsTrue)
<1>1. StringsInit => StringsInv
  <2> SUFFICES ASSUME StringsInit PROVE StringsInv
    OBVIOUS
  <2>1. /\ at = [h \in Handles |-> "null"] /\ text = [h \in Handles |-> <<>>] /\ meant = text /\ cache = <<>>
    BY DEF StringsInit
  <2>2. DOMAIN cache = {} /\ cache \in [{} -> Nat]
    BY <2>1
  <2>3. Table(cache)
    BY <2>2, FS_EmptySet, StringsAssumption DEF Table
  <2>4. text \in [Handles -> Seq(Chars)]
    BY <2>1, EmptySeq
  <2> QED BY <2>1, <2>2, <2>3, <2>4 DEF StringsInv
<1>2. StringsInv => StringsTypeOK /\ StringsTrue
  BY DEF StringsInv, Table, StringsTypeOK, StringsTrue, LengthsTrue, TextAsMeant
<1>3. StringsInv /\ [StringsNext]_strVars => StringsInv'
  BY StringsKeep
<1> QED BY <1>1, <1>2, <1>3, PTL DEF StringsSpec

-----------------------------------------------------------------------------
(* The links of a list                                                     *)

\* What a list is that is walked along: w[0] is the head, w[1] to w[m] are the items,
\* each once, and there is nothing behind them; the way back is the same, and no other
\* item has one.
Strung(nx, pv, w, m) ==
  /\ nx \in [Nodes \cup {Root} -> Nodes \cup {NULL}]
  /\ pv \in [Nodes \cup {Root} -> Nodes \cup {NULL, Root}]
  /\ m \in Nat /\ w[0] = Root /\ w[m + 1] = NULL
  /\ \A i \in 1..m : w[i] \in Nodes
  /\ \A i, j \in 1..m : w[i] = w[j] => i = j
  /\ \A i \in 0..m : nx[w[i]] = w[i + 1]
  /\ \A i \in 1..m : pv[w[i]] = w[i - 1]
  /\ \A n \in Nodes : pv[n] # NULL => \E i \in 1..m : w[i] = n

\* The head is no item, nor is nothing.
LEMMA NoItems == Root \notin Nodes /\ NULL \notin Nodes /\ Root # NULL
BY ListAssumption DEF Root, NULL

\* No two places are the same, nor is one of them nothing.
LEMMA Places ==
  ASSUME NEW nx, NEW pv, NEW w, NEW m, Strung(nx, pv, w, m)
  PROVE  /\ \A i \in 0..m : w[i] \in Nodes \cup {Root} /\ w[i] # NULL
         /\ \A i, j \in 0..m : w[i] = w[j] => i = j
         /\ \A i \in 1..m : pv[w[i]] # NULL /\ w[i] # Root
         /\ \A i \in 0..m : w[i + 1] = NULL <=> i = m
<1>1. m \in Nat /\ w[0] = Root /\ \A i \in 1..m : w[i] \in Nodes
  BY DEF Strung
<1>2. \A i \in 0..m : w[i] \in Nodes \cup {Root} /\ w[i] # NULL
  BY <1>1, NoItems
<1>3. \A i, j \in 0..m : w[i] = w[j] => i = j
  <2> SUFFICES ASSUME NEW i \in 0..m, NEW j \in 0..m, w[i] = w[j] PROVE i = j
    OBVIOUS
  <2>1. CASE i \in 1..m /\ j \in 1..m
    BY <2>1 DEF Strung
  <2>2. CASE i = 0 \/ j = 0
    BY <1>1, <2>2, NoItems
  <2> QED BY <1>1, <2>1, <2>2
<1>4. \A i \in 1..m : pv[w[i]] # NULL /\ w[i] # Root
  <2> SUFFICES ASSUME NEW i \in 1..m PROVE pv[w[i]] # NULL /\ w[i] # Root
    OBVIOUS
  <2>1. pv[w[i]] = w[i - 1] /\ w[i] \in Nodes
    BY DEF Strung
  <2>2. i - 1 \in 0..m
    BY <1>1
  <2> QED BY <1>2, <2>1, <2>2, NoItems
<1>5. \A i \in 0..m : w[i + 1] = NULL <=> i = m
  <2> SUFFICES ASSUME NEW i \in 0..m PROVE w[i + 1] = NULL <=> i = m
    OBVIOUS
  <2>1. i = m \/ i + 1 \in 1..m
    BY <1>1
  <2>2. w[m + 1] = NULL
    BY DEF Strung
  <2>3. i + 1 \in 1..m => i # m
    BY <1>1
  <2> QED BY <1>1, <2>1, <2>2, <2>3, NoItems
<1> QED BY <1>2, <1>3, <1>4, <1>5

\* An item put behind the place j is the one at j + 1.
PutIn(w, m, j, n) == [i \in 0..(m + 2) |-> IF i <= j THEN w[i] ELSE IF i = j + 1 THEN n ELSE w[i - 1]]

\* What the links become.
PutsBehind(nx, pv, p, n, nx2, pv2) ==
  /\ nx2 = [nx EXCEPT ![n] = nx[p], ![p] = n]
  /\ pv2 = [pv EXCEPT ![n] = p, ![IF nx[p] = NULL THEN Root ELSE nx[p]] = n]

\* They are still those of a list, with the item put in.
LEMMA PutBehind ==
  ASSUME NEW nx, NEW pv, NEW w, NEW m, Strung(nx, pv, w, m),
         NEW j \in 0..m, NEW n \in Nodes, pv[n] = NULL,
         NEW nx2, NEW pv2, PutsBehind(nx, pv, w[j], n, nx2, pv2)
  PROVE  /\ Strung(nx2, pv2, PutIn(w, m, j, n), m + 1)
         /\ pv2[Root] = IF j = m THEN n ELSE pv[Root]
<1>1. PICK v : v = PutIn(w, m, j, n)
  OBVIOUS
<1>2. m \in Nat /\ j \in Nat /\ j <= m
  BY DEF Strung
<1>3. /\ nx \in [Nodes \cup {Root} -> Nodes \cup {NULL}] /\ pv \in [Nodes \cup {Root} -> Nodes \cup {NULL, Root}]
      /\ w[0] = Root /\ w[m + 1] = NULL /\ \A i \in 1..m : w[i] \in Nodes
  BY DEF Strung
<1>4. /\ \A i \in 0..m : w[i] \in Nodes \cup {Root} /\ w[i] # NULL
      /\ \A i, k \in 0..m : w[i] = w[k] => i = k
      /\ \A i \in 1..m : pv[w[i]] # NULL /\ w[i] # Root
      /\ \A i \in 0..m : w[i + 1] = NULL <=> i = m
  BY Places
<1>5. \A i \in 0..m : w[i] # n
  <2> SUFFICES ASSUME NEW i \in 0..m PROVE w[i] # n
    OBVIOUS
  <2>1. i = 0 \/ i \in 1..m
    BY <1>2
  <2> QED BY <1>3, <1>4, <2>1, NoItems
<1>6. nx[w[j]] = w[j + 1] /\ n # NULL /\ n # Root
  BY NoItems DEF Strung
<1>7. \A i \in 0..(m + 2) : v[i] = IF i <= j THEN w[i] ELSE IF i = j + 1 THEN n ELSE w[i - 1]
  BY <1>1 DEF PutIn
<1>8. /\ nx2 \in [Nodes \cup {Root} -> Nodes \cup {NULL}]
      /\ \A x \in Nodes \cup {Root} : nx2[x] = IF x = w[j] THEN n ELSE IF x = n THEN w[j + 1] ELSE nx[x]
  <2>1. w[j + 1] \in Nodes \cup {NULL}
    BY <1>3, <1>4, <1>6
  <2>2. nx2 = [nx EXCEPT ![n] = nx[w[j]], ![w[j]] = n]
    BY DEF PutsBehind
  <2> QED BY <1>3, <1>4, <1>5, <1>6, <2>1, <2>2
<1>9. PICK b : b = IF j = m THEN Root ELSE w[j + 1]
  OBVIOUS
<1>10. b \in Nodes \cup {Root} /\ b # n /\ b = (IF nx[w[j]] = NULL THEN Root ELSE nx[w[j]])
  <2>1. CASE j = m
    BY <1>3, <1>6, <1>9, <2>1
  <2>2. CASE j # m
    <3>1. j + 1 \in 1..m /\ j + 1 \in 0..m
      BY <1>2, <2>2
    <3> QED BY <1>4, <1>5, <1>6, <1>9, <2>2, <3>1
  <2> QED BY <2>1, <2>2
<1>11. /\ pv2 \in [Nodes \cup {Root} -> Nodes \cup {NULL, Root}]
       /\ \A x \in Nodes \cup {Root} : pv2[x] = IF x = b THEN n ELSE IF x = n THEN w[j] ELSE pv[x]
  <2>1. pv2 = [pv EXCEPT ![n] = w[j], ![b] = n]
    BY <1>10 DEF PutsBehind
  <2> QED BY <1>3, <1>4, <1>10, <2>1
<1>12. pv2[Root] = IF j = m THEN n ELSE pv[Root]
  <2>1. j # m => j + 1 \in 1..m
    BY <1>2
  <2> QED BY <1>4, <1>6, <1>9, <1>11, <2>1
<1>13. v[0] = Root /\ v[(m + 1) + 1] = NULL
  <2>1. (m + 1) + 1 \in 0..(m + 2) /\ 0 \in 0..(m + 2) /\ 0 <= j /\ ~((m + 1) + 1 <= j) /\ (m + 1) + 1 # j + 1
        /\ ((m + 1) + 1) - 1 = m + 1
    BY <1>2
  <2> QED BY <1>3, <1>7, <2>1
<1>14. ASSUME NEW i \in 1..(m + 1) PROVE v[i] \in Nodes /\ (i <= j => i \in 1..m /\ v[i] = w[i])
                                   /\ (i = j + 1 => v[i] = n) /\ (i > j + 1 => i - 1 \in 1..m /\ v[i] = w[i - 1])
  <2>1. i \in 0..(m + 2) /\ i \in Nat
    BY <1>2
  <2>2. CASE i <= j
    <3>1. i \in 1..m /\ i # j + 1 /\ ~(i > j + 1)
      BY <1>2, <2>2
    <3> QED BY <1>3, <1>7, <2>1, <2>2, <3>1
  <2>3. CASE i = j + 1
    <3>1. ~(i <= j) /\ ~(i > j + 1)
      BY <1>2, <2>3
    <3> QED BY <1>7, <2>1, <2>3, <3>1
  <2>4. CASE i > j + 1
    <3>1. ~(i <= j) /\ i # j + 1 /\ i - 1 \in 1..m
      BY <1>2, <2>4
    <3> QED BY <1>3, <1>7, <2>1, <3>1
  <2> QED BY <1>2, <2>1, <2>2, <2>3, <2>4
<1>15. ASSUME NEW i \in 1..(m + 1), NEW k \in 1..(m + 1), v[i] = v[k] PROVE i = k
  <2>1. i \in Int /\ k \in Int /\ 1..m \subseteq 0..m
    OBVIOUS
  <2>2. /\ (i <= j => i \in 1..m /\ v[i] = w[i]) /\ (i = j + 1 => v[i] = n)
        /\ (i > j + 1 => i - 1 \in 1..m /\ v[i] = w[i - 1])
    BY <1>14
  <2>3. /\ (k <= j => k \in 1..m /\ v[k] = w[k]) /\ (k = j + 1 => v[k] = n)
        /\ (k > j + 1 => k - 1 \in 1..m /\ v[k] = w[k - 1])
    BY <1>14
  <2>4. CASE i = j + 1 \/ k = j + 1
    BY <1>2, <1>5, <1>15, <2>1, <2>2, <2>3, <2>4
  <2>5. CASE i # j + 1 /\ k # j + 1
    <3>1. PICK a \in 1..m : w[a] = v[i] /\ a = IF i <= j THEN i ELSE i - 1
      BY <1>2, <2>1, <2>2, <2>5
    <3>2. PICK c \in 1..m : w[c] = v[k] /\ c = IF k <= j THEN k ELSE k - 1
      BY <1>2, <2>1, <2>3, <2>5
    <3>3. a = c
      BY <1>4, <1>15, <2>1, <3>1, <3>2
    <3> QED BY <1>2, <2>1, <2>5, <3>1, <3>2, <3>3
  <2> QED BY <2>4, <2>5
<1>16. ASSUME NEW i \in 0..(m + 1) PROVE nx2[v[i]] = v[i + 1]
  <2>1. i \in Nat /\ i \in 0..(m + 2) /\ i + 1 \in 0..(m + 2) /\ (i + 1) - 1 = i
    BY <1>2
  <2>2. CASE i < j
    <3>1. i <= j /\ i + 1 <= j /\ i \in 0..m /\ i # j
      BY <1>2, <2>1, <2>2
    <3>2. v[i] = w[i] /\ v[i + 1] = w[i + 1]
      BY <1>7, <2>1, <3>1
    <3>3. nx[w[i]] = w[i + 1]
      BY <3>1 DEF Strung
    <3>4. w[i] \in Nodes \cup {Root} /\ w[i] # n /\ w[i] # w[j]
      BY <1>4, <1>5, <3>1
    <3> QED BY <1>8, <3>2, <3>3, <3>4
  <2>3. CASE i = j
    <3>1. i <= j /\ ~(i + 1 <= j) /\ i + 1 = j + 1 /\ i \in 0..m
      BY <1>2, <2>3
    <3>2. v[i] = w[i] /\ v[i + 1] = n
      BY <1>7, <2>1, <3>1
    <3> QED BY <1>4, <1>8, <2>3, <3>1, <3>2
  <2>4. CASE i = j + 1
    <3>1. ~(i <= j) /\ ~(i + 1 <= j) /\ i + 1 # j + 1
      BY <1>2, <2>4
    <3>2. v[i] = n /\ v[i + 1] = w[i]
      BY <1>7, <2>1, <2>4, <3>1
    <3>3. n # w[j]
      BY <1>5
    <3> QED BY <1>8, <2>4, <3>2, <3>3
  <2>5. CASE i > j + 1
    <3>1. ~(i <= j) /\ ~(i + 1 <= j) /\ i + 1 # j + 1 /\ i # j + 1 /\ i - 1 \in 0..m /\ i - 1 # j /\ (i - 1) + 1 = i
      BY <1>2, <2>1, <2>5
    <3>2. v[i] = w[i - 1] /\ v[i + 1] = w[i]
      BY <1>7, <2>1, <3>1
    <3>3. nx[w[i - 1]] = w[(i - 1) + 1]
      BY <3>1 DEF Strung
    <3>4. w[i - 1] \in Nodes \cup {Root} /\ w[i - 1] # n /\ w[i - 1] # w[j]
      BY <1>4, <1>5, <3>1
    <3> QED BY <1>8, <3>1, <3>2, <3>3, <3>4
  <2> QED BY <1>2, <2>1, <2>2, <2>3, <2>4, <2>5
<1>17. ASSUME NEW i \in 1..(m + 1) PROVE pv2[v[i]] = v[i - 1]
  <2>1. i \in Nat /\ i \in 0..(m + 2) /\ i - 1 \in 0..(m + 2)
    BY <1>2
  <2>2. CASE i <= j
    <3>1. i - 1 <= j /\ i \in 1..m /\ i \in 0..m /\ i # j + 1
      BY <1>2, <2>1, <2>2
    <3>2. v[i] = w[i] /\ v[i - 1] = w[i - 1]
      BY <1>7, <2>1, <2>2, <3>1
    <3>3. pv[w[i]] = w[i - 1]
      BY <3>1 DEF Strung
    <3>4. w[i] \in Nodes \cup {Root} /\ w[i] # n
      BY <1>4, <1>5, <3>1
    <3>5. w[i] # b
      <4>1. j # m => j + 1 \in 0..m
        BY <1>2
      <4> QED BY <1>4, <1>9, <3>1, <4>1
    <3> QED BY <1>11, <3>2, <3>3, <3>4, <3>5
  <2>3. CASE i = j + 1
    <3>1. ~(i <= j) /\ i - 1 <= j /\ i - 1 = j
      BY <1>2, <2>3
    <3>2. v[i] = n /\ v[i - 1] = w[j]
      BY <1>7, <2>1, <2>3, <3>1
    <3> QED BY <1>10, <1>11, <3>2
  <2>4. CASE i = j + 2
    <3>1. ~(i <= j) /\ i # j + 1 /\ i - 1 = j + 1 /\ ~(i - 1 <= j) /\ j # m /\ j + 1 \in 1..m
      BY <1>2, <2>4
    <3>2. v[i] = w[j + 1] /\ v[i - 1] = n
      BY <1>7, <2>1, <3>1
    <3> QED BY <1>9, <1>10, <1>11, <3>1, <3>2
  <2>5. CASE i > j + 2
    <3>1. /\ ~(i <= j) /\ i # j + 1 /\ i - 1 # j + 1 /\ ~(i - 1 <= j) /\ i - 1 \in 1..m /\ i - 1 \in 0..m
          /\ j # m /\ j + 1 \in 0..m /\ (i - 1) - 1 = i - 2
      BY <1>2, <2>1, <2>5
    <3>2. v[i] = w[i - 1] /\ v[i - 1] = w[i - 2]
      BY <1>7, <2>1, <3>1
    <3>3. pv[w[i - 1]] = w[i - 2]
      BY <3>1 DEF Strung
    <3>4. w[i - 1] \in Nodes \cup {Root} /\ w[i - 1] # n /\ w[i - 1] # b
      BY <1>4, <1>5, <1>9, <3>1
    <3> QED BY <1>11, <3>2, <3>3, <3>4
  <2> QED BY <1>2, <2>1, <2>2, <2>3, <2>4, <2>5
<1>18. ASSUME NEW x \in Nodes, pv2[x] # NULL PROVE \E i \in 1..(m + 1) : v[i] = x
  <2>1. CASE x = n
    <3>1. j + 1 \in 1..(m + 1) /\ j + 1 \in 0..(m + 2) /\ ~(j + 1 <= j)
      BY <1>2
    <3> QED BY <1>7, <2>1, <3>1
  <2>2. CASE x # n
    <3>1. x = b => \E k \in 1..m : w[k] = x
      <4>1. j # m => j + 1 \in 1..m
        BY <1>2
      <4> QED BY <1>9, <4>1, NoItems
    <3>2. x # b => \E k \in 1..m : w[k] = x
      <4>1. x # b => pv[x] # NULL
        BY <1>11, <1>18, <2>2
      <4> QED BY <4>1 DEF Strung
    <3>3. PICK k \in 1..m : w[k] = x
      BY <3>1, <3>2
    <3>4. CASE k <= j
      <4>1. k \in 1..(m + 1) /\ k \in 0..(m + 2)
        BY <1>2
      <4> QED BY <1>7, <3>3, <3>4, <4>1
    <3>5. CASE ~(k <= j)
      <4>1. k + 1 \in 1..(m + 1) /\ k + 1 \in 0..(m + 2) /\ ~(k + 1 <= j) /\ k + 1 # j + 1 /\ (k + 1) - 1 = k
        BY <1>2, <3>5
      <4> QED BY <1>7, <3>3, <4>1
    <3> QED BY <3>4, <3>5
  <2> QED BY <2>1, <2>2
<1>19. m + 1 \in Nat
  BY <1>2
<1>20. Strung(nx2, pv2, v, m + 1)
  BY <1>8, <1>11, <1>13, <1>14, <1>15, <1>16, <1>17, <1>18, <1>19 DEF Strung
<1> QED BY <1>1, <1>12, <1>20

\* LeftOut the item at j, those behind it come one place forward.
LeftOut(w, m, j) == [i \in 0..m |-> IF i < j THEN w[i] ELSE w[i + 1]]

\* What the links become.
TakesOut(nx, pv, n, r, nx2, pv2) ==
  /\ nx2 = [nx EXCEPT ![pv[n]] = nx[n], ![n] = NULL]
  /\ pv2 = [p \in DOMAIN pv |->
               CASE p = n -> NULL [] p = Root -> r [] p = nx[n] -> pv[n] [] OTHER -> pv[p]]

\* They are still those of a list, without the item.
LEMMA TakeOut ==
  ASSUME NEW nx, NEW pv, NEW w, NEW m, Strung(nx, pv, w, m),
         NEW j \in 1..m, NEW r \in Nodes \cup {NULL, Root},
         NEW nx2, NEW pv2, TakesOut(nx, pv, w[j], r, nx2, pv2)
  PROVE  Strung(nx2, pv2, LeftOut(w, m, j), m - 1)
<1>1. PICK v : v = LeftOut(w, m, j)
  OBVIOUS
<1>2. m \in Nat /\ j \in Nat /\ j <= m /\ 1 <= j /\ j \in 0..m /\ j - 1 \in 0..m
  BY DEF Strung
<1>3. /\ nx \in [Nodes \cup {Root} -> Nodes \cup {NULL}] /\ pv \in [Nodes \cup {Root} -> Nodes \cup {NULL, Root}]
      /\ w[0] = Root /\ w[m + 1] = NULL /\ \A i \in 1..m : w[i] \in Nodes
  BY DEF Strung
<1>4. /\ \A i \in 0..m : w[i] \in Nodes \cup {Root} /\ w[i] # NULL
      /\ \A i, k \in 0..m : w[i] = w[k] => i = k
      /\ \A i \in 1..m : pv[w[i]] # NULL /\ w[i] # Root
      /\ \A i \in 0..m : w[i + 1] = NULL <=> i = m
  BY Places
<1>5. pv[w[j]] = w[j - 1] /\ nx[w[j]] = w[j + 1] /\ w[j - 1] # w[j]
  <2>1. pv[w[j]] = w[j - 1] /\ nx[w[j]] = w[j + 1]
    BY <1>2 DEF Strung
  <2>2. j - 1 # j
    BY <1>2
  <2> QED BY <1>2, <1>4, <2>1, <2>2
<1>6. w[j + 1] \in Nodes \cup {NULL} /\ w[j - 1] \in Nodes \cup {Root}
  <2>1. j = m \/ j + 1 \in 1..m
    BY <1>2
  <2> QED BY <1>2, <1>3, <1>4, <2>1
<1>7. \A i \in 0..m : v[i] = IF i < j THEN w[i] ELSE w[i + 1]
  BY <1>1 DEF LeftOut
<1>8. /\ nx2 \in [Nodes \cup {Root} -> Nodes \cup {NULL}]
      /\ \A x \in Nodes \cup {Root} : nx2[x] = IF x = w[j] THEN NULL ELSE IF x = w[j - 1] THEN w[j + 1] ELSE nx[x]
  <2>1. nx2 = [nx EXCEPT ![w[j - 1]] = w[j + 1], ![w[j]] = NULL]
    BY <1>5 DEF TakesOut
  <2> QED BY <1>2, <1>3, <1>4, <1>5, <1>6, <2>1
<1>9. \A x \in Nodes \cup {Root} :
        pv2[x] = IF x = w[j] THEN NULL ELSE IF x = Root THEN r ELSE IF x = w[j + 1] THEN w[j - 1] ELSE pv[x]
  <2> SUFFICES ASSUME NEW x \in Nodes \cup {Root}
               PROVE  pv2[x] = IF x = w[j] THEN NULL ELSE IF x = Root THEN r
                               ELSE IF x = w[j + 1] THEN w[j - 1] ELSE pv[x]
    OBVIOUS
  <2>1. pv2[x] = CASE x = w[j] -> NULL [] x = Root -> r [] x = w[j + 1] -> w[j - 1] [] OTHER -> pv[x]
    BY <1>3, <1>5 DEF TakesOut
  <2>2. w[j] # Root /\ w[j + 1] # w[j] /\ w[j + 1] # Root
    <3>1. w[j + 1] # Root
      BY <1>6, NoItems
    <3>2. w[j + 1] # w[j]
      <4>1. j = m \/ (j + 1 \in 0..m /\ j + 1 # j)
        BY <1>2
      <4> QED BY <1>2, <1>3, <1>4, <4>1
    <3> QED BY <1>4, <3>1, <3>2
  <2> QED BY <2>1, <2>2
<1>10. pv2 \in [Nodes \cup {Root} -> Nodes \cup {NULL, Root}]
  <2>1. pv2 = [p \in Nodes \cup {Root} |-> pv2[p]]
    BY <1>3 DEF TakesOut
  <2>2. \A x \in Nodes \cup {Root} : pv2[x] \in Nodes \cup {NULL, Root}
    BY <1>3, <1>6, <1>9
  <2> QED BY <2>1, <2>2
<1>11. v[0] = Root /\ v[(m - 1) + 1] = NULL
  <2>1. 0 \in 0..m /\ 0 < j /\ (m - 1) + 1 = m /\ m \in 0..m /\ ~(m < j)
    BY <1>2
  <2> QED BY <1>3, <1>7, <2>1
<1>12. ASSUME NEW i \in 1..(m - 1) PROVE /\ v[i] \in Nodes
                                         /\ \E k \in 1..m : v[i] = w[k] /\ k = IF i < j THEN i ELSE i + 1
  <2>1. i \in 1..m /\ i + 1 \in 1..m /\ i \in 0..m
    BY <1>2
  <2> QED BY <1>3, <1>7, <2>1
<1>13. ASSUME NEW i \in 1..(m - 1), NEW k \in 1..(m - 1), v[i] = v[k] PROVE i = k
  <2>1. PICK a \in 1..m : v[i] = w[a] /\ a = IF i < j THEN i ELSE i + 1
    BY <1>12
  <2>2. PICK c \in 1..m : v[k] = w[c] /\ c = IF k < j THEN k ELSE k + 1
    BY <1>12
  <2>3. a \in 0..m /\ c \in 0..m
    OBVIOUS
  <2>4. a = c
    BY <1>4, <1>13, <2>1, <2>2, <2>3
  <2> QED BY <1>2, <2>1, <2>2, <2>4
<1>14. ASSUME NEW i \in 0..(m - 1) PROVE nx2[v[i]] = v[i + 1]
  <2>1. i \in Nat /\ i \in 0..m /\ i + 1 \in 0..m
    BY <1>2
  <2>2. CASE i < j - 1
    <3>1. i < j /\ i + 1 < j /\ i # j /\ i # j - 1
      BY <1>2, <2>1, <2>2
    <3>2. v[i] = w[i] /\ v[i + 1] = w[i + 1] /\ nx[w[i]] = w[i + 1]
      BY <1>7, <2>1, <3>1 DEF Strung
    <3>3. w[i] \in Nodes \cup {Root} /\ w[i] # w[j] /\ w[i] # w[j - 1]
      BY <1>2, <1>4, <2>1, <3>1
    <3> QED BY <1>8, <3>2, <3>3
  <2>3. CASE i = j - 1
    <3>1. i < j /\ ~(i + 1 < j) /\ (i + 1) + 1 = j + 1
      BY <1>2, <2>3
    <3>2. v[i] = w[j - 1] /\ v[i + 1] = w[j + 1]
      BY <1>7, <2>1, <2>3, <3>1
    <3> QED BY <1>5, <1>6, <1>8, <3>2
  <2>4. CASE i > j - 1
    <3>1. ~(i < j) /\ ~(i + 1 < j) /\ i + 1 # j /\ i + 1 # j - 1 /\ (i + 1) + 1 = i + 2
      BY <1>2, <2>1, <2>4
    <3>2. v[i] = w[i + 1] /\ v[i + 1] = w[(i + 1) + 1] /\ nx[w[i + 1]] = w[(i + 1) + 1]
      BY <1>7, <2>1, <3>1 DEF Strung
    <3>3. w[i + 1] \in Nodes \cup {Root} /\ w[i + 1] # w[j] /\ w[i + 1] # w[j - 1]
      BY <1>2, <1>4, <2>1, <3>1
    <3> QED BY <1>8, <3>2, <3>3
  <2> QED BY <1>2, <2>1, <2>2, <2>3, <2>4
<1>15. ASSUME NEW i \in 1..(m - 1) PROVE pv2[v[i]] = v[i - 1]
  <2>1. i \in Nat /\ i \in 0..m /\ i \in 1..m /\ i - 1 \in 0..m /\ i + 1 \in 0..m /\ i + 1 \in 1..m
    BY <1>2
  <2>2. CASE i < j
    <3>1. i - 1 < j /\ i # j
      BY <1>2, <2>1, <2>2
    <3>2. v[i] = w[i] /\ v[i - 1] = w[i - 1] /\ pv[w[i]] = w[i - 1]
      BY <1>7, <2>1, <2>2, <3>1 DEF Strung
    <3>3. w[i] \in Nodes /\ w[i] # Root /\ w[i] # w[j]
      BY <1>2, <1>3, <1>4, <2>1, <3>1
    <3>4. w[i] # w[j + 1]
      <4>1. j = m \/ (j + 1 \in 0..m /\ i # j + 1)
        BY <1>2, <2>2
      <4> QED BY <1>4, <1>3, <2>1, <4>1
    <3> QED BY <1>9, <3>2, <3>3, <3>4
  <2>3. CASE i = j
    <3>1. ~(i < j) /\ i - 1 < j
      BY <1>2, <2>3
    <3>2. v[i] = w[j + 1] /\ v[i - 1] = w[j - 1]
      BY <1>7, <2>1, <2>3, <3>1
    <3>3. w[j + 1] \in Nodes /\ w[j + 1] # Root /\ w[j + 1] # w[j]
      <4>1. j + 1 \in 1..m /\ j + 1 \in 0..m /\ j + 1 # j
        BY <2>1, <2>3
      <4> QED BY <1>2, <1>3, <1>4, <4>1
    <3> QED BY <1>9, <3>2, <3>3
  <2>4. CASE i > j
    <3>1. ~(i < j) /\ ~(i - 1 < j) /\ (i - 1) + 1 = i /\ i + 1 # j /\ i + 1 # j + 1 /\ (i + 1) - 1 = i
      BY <1>2, <2>1, <2>4
    <3>2. v[i] = w[i + 1] /\ v[i - 1] = w[i]
      BY <1>7, <2>1, <3>1
    <3>3. pv[w[i + 1]] = w[(i + 1) - 1]
      BY <2>1 DEF Strung
    <3>4. w[i + 1] \in Nodes /\ w[i + 1] # Root /\ w[i + 1] # w[j]
      BY <1>2, <1>3, <1>4, <2>1, <3>1
    <3>5. w[i + 1] # w[j + 1]
      <4>1. j + 1 \in 0..m
        BY <1>2, <2>1, <2>4
      <4> QED BY <1>4, <2>1, <3>1, <4>1
    <3> QED BY <1>9, <3>1, <3>2, <3>3, <3>4, <3>5
  <2> QED BY <1>2, <2>1, <2>2, <2>3, <2>4
<1>16. ASSUME NEW x \in Nodes, pv2[x] # NULL PROVE \E i \in 1..(m - 1) : v[i] = x
  <2>1. x # w[j] /\ x # Root
    BY <1>9, <1>16, NoItems
  <2>2. PICK k \in 1..m : w[k] = x
    <3>1. x = w[j + 1] => \E k \in 1..m : w[k] = x
      <4>1. j = m \/ j + 1 \in 1..m
        BY <1>2
      <4> QED BY <1>3, <4>1, NoItems
    <3>2. x # w[j + 1] => pv[x] # NULL
      BY <1>9, <1>16, <2>1
    <3> QED BY <3>1, <3>2 DEF Strung
  <2>3. CASE k < j
    <3>1. k \in 1..(m - 1) /\ k \in 0..m
      BY <1>2, <2>3
    <3> QED BY <1>7, <2>2, <2>3, <3>1
  <2>4. CASE k > j
    <3>1. k - 1 \in 1..(m - 1) /\ k - 1 \in 0..m /\ ~(k - 1 < j) /\ (k - 1) + 1 = k
      BY <1>2, <2>4
    <3> QED BY <1>7, <2>2, <3>1
  <2>5. k # j
    BY <2>1, <2>2
  <2> QED BY <1>2, <2>3, <2>4, <2>5
<1>17. m - 1 \in Nat
  BY <1>2
<1>18. Strung(nx2, pv2, v, m - 1)
  BY <1>8, <1>10, <1>11, <1>12, <1>13, <1>14, <1>15, <1>16, <1>17 DEF Strung
<1> QED BY <1>1, <1>18

\* The item at j and the one before it change places.
Exchanged(w, m, j) == [i \in 0..(m + 1) |-> IF i = j - 1 THEN w[j] ELSE IF i = j THEN w[j - 1] ELSE w[i]]

\* What the links become.
Swaps(nx, pv, a, b, nx2, pv2) ==
  /\ nx2 = [nx EXCEPT ![pv[a]] = b, ![b] = a, ![a] = nx[b]]
  /\ pv2 = [p \in DOMAIN pv |->
               CASE p = a -> b [] p = b -> pv[a] [] p = nx[b] -> a
                 [] p = Root /\ pv[Root] = a -> b [] OTHER -> pv[p]]

\* They are still those of a list, with the two exchanged.
LEMMA SwapKeeps ==
  ASSUME NEW nx, NEW pv, NEW w, NEW m, Strung(nx, pv, w, m), NEW j \in 2..m,
         NEW nx2, NEW pv2, Swaps(nx, pv, w[j - 1], w[j], nx2, pv2)
  PROVE  Strung(nx2, pv2, Exchanged(w, m, j), m)
<1>1. PICK v : v = Exchanged(w, m, j)
  OBVIOUS
<1>2. /\ m \in Nat /\ j \in Nat /\ j <= m /\ 2 <= j
      /\ j \in 1..m /\ j - 1 \in 1..m /\ j \in 0..m /\ j - 1 \in 0..m /\ j - 2 \in 0..m
      /\ (j - 1) - 1 = j - 2 /\ (j - 2) + 1 = j - 1 /\ (j - 1) + 1 = j
  BY DEF Strung
<1>3. /\ nx \in [Nodes \cup {Root} -> Nodes \cup {NULL}] /\ pv \in [Nodes \cup {Root} -> Nodes \cup {NULL, Root}]
      /\ w[0] = Root /\ w[m + 1] = NULL /\ \A i \in 1..m : w[i] \in Nodes
  BY DEF Strung
<1>4. /\ \A i \in 0..m : w[i] \in Nodes \cup {Root} /\ w[i] # NULL
      /\ \A i, k \in 0..m : w[i] = w[k] => i = k
      /\ \A i \in 1..m : pv[w[i]] # NULL /\ w[i] # Root
      /\ \A i \in 0..m : w[i + 1] = NULL <=> i = m
  BY Places
<1>5. pv[w[j - 1]] = w[j - 2] /\ nx[w[j]] = w[j + 1]
  BY <1>2 DEF Strung
<1>6. w[j - 2] # w[j - 1] /\ w[j - 2] # w[j] /\ w[j - 1] # w[j]
  <2>1. j - 2 # j - 1 /\ j - 2 # j /\ j - 1 # j
    BY <1>2
  <2> QED BY <1>2, <1>4, <2>1
<1>7. w[j + 1] \in Nodes \cup {NULL} /\ w[j + 1] # w[j] /\ w[j + 1] # w[j - 1] /\ w[j + 1] # Root
  <2>1. j = m \/ (j + 1 \in 1..m /\ j + 1 \in 0..m /\ j + 1 # j /\ j + 1 # j - 1)
    BY <1>2
  <2>2. CASE j = m
    BY <1>2, <1>3, <1>4, <2>2, NoItems
  <2>3. CASE j + 1 \in 1..m /\ j + 1 \in 0..m /\ j + 1 # j /\ j + 1 # j - 1
    BY <1>2, <1>3, <1>4, <2>3
  <2> QED BY <2>1, <2>2, <2>3
<1>8. \A i \in 0..(m + 1) : v[i] = IF i = j - 1 THEN w[j] ELSE IF i = j THEN w[j - 1] ELSE w[i]
  BY <1>1 DEF Exchanged
<1>9. /\ nx2 \in [Nodes \cup {Root} -> Nodes \cup {NULL}]
      /\ \A x \in Nodes \cup {Root} :
           nx2[x] = IF x = w[j - 1] THEN w[j + 1] ELSE IF x = w[j] THEN w[j - 1]
                    ELSE IF x = w[j - 2] THEN w[j] ELSE nx[x]
  <2>1. nx2 = [nx EXCEPT ![w[j - 2]] = w[j], ![w[j]] = w[j - 1], ![w[j - 1]] = w[j + 1]]
    BY <1>5 DEF Swaps
  <2>2. w[j - 2] \in Nodes \cup {Root} /\ w[j] \in Nodes /\ w[j - 1] \in Nodes
    BY <1>2, <1>3, <1>4
  <2> QED BY <1>3, <1>6, <1>7, <2>1, <2>2
<1>10. \A x \in Nodes \cup {Root} :
         pv2[x] = IF x = w[j - 1] THEN w[j] ELSE IF x = w[j] THEN w[j - 2] ELSE IF x = w[j + 1] THEN w[j - 1]
                  ELSE IF x = Root /\ pv[Root] = w[j - 1] THEN w[j] ELSE pv[x]
  <2> SUFFICES ASSUME NEW x \in Nodes \cup {Root}
               PROVE  pv2[x] = IF x = w[j - 1] THEN w[j] ELSE IF x = w[j] THEN w[j - 2]
                               ELSE IF x = w[j + 1] THEN w[j - 1]
                               ELSE IF x = Root /\ pv[Root] = w[j - 1] THEN w[j] ELSE pv[x]
    OBVIOUS
  <2>1. pv2[x] = CASE x = w[j - 1] -> w[j] [] x = w[j] -> w[j - 2] [] x = w[j + 1] -> w[j - 1]
                   [] x = Root /\ pv[Root] = w[j - 1] -> w[j] [] OTHER -> pv[x]
    BY <1>3, <1>5 DEF Swaps
  <2>2. w[j - 1] # Root /\ w[j] # Root
    BY <1>2, <1>4
  <2> QED BY <1>6, <1>7, <2>1, <2>2
<1>11. pv2 \in [Nodes \cup {Root} -> Nodes \cup {NULL, Root}]
  <2>1. pv2 = [p \in Nodes \cup {Root} |-> pv2[p]]
    BY <1>3 DEF Swaps
  <2>2. w[j - 2] \in Nodes \cup {Root} /\ w[j] \in Nodes /\ w[j - 1] \in Nodes
    BY <1>2, <1>3, <1>4
  <2>3. \A x \in Nodes \cup {Root} : pv2[x] \in Nodes \cup {NULL, Root}
    BY <1>3, <1>10, <2>2
  <2> QED BY <2>1, <2>3
<1>12. v[0] = Root /\ v[m + 1] = NULL
  <2>1. 0 \in 0..(m + 1) /\ m + 1 \in 0..(m + 1) /\ 0 # j - 1 /\ 0 # j /\ m + 1 # j - 1 /\ m + 1 # j
    BY <1>2
  <2> QED BY <1>3, <1>8, <2>1
<1>13. ASSUME NEW i \in 1..m
       PROVE  v[i] \in Nodes /\ \E k \in 1..m : v[i] = w[k] /\ k = IF i = j - 1 THEN j ELSE IF i = j THEN j - 1 ELSE i
  <2>1. i \in 0..(m + 1)
    BY <1>2
  <2> QED BY <1>2, <1>3, <1>8, <2>1
<1>14. ASSUME NEW i \in 1..m, NEW k \in 1..m, v[i] = v[k] PROVE i = k
  <2>1. PICK a \in 1..m : v[i] = w[a] /\ a = IF i = j - 1 THEN j ELSE IF i = j THEN j - 1 ELSE i
    BY <1>13
  <2>2. PICK c \in 1..m : v[k] = w[c] /\ c = IF k = j - 1 THEN j ELSE IF k = j THEN j - 1 ELSE k
    BY <1>13
  <2>3. a \in 0..m /\ c \in 0..m
    OBVIOUS
  <2>4. a = c
    BY <1>4, <1>14, <2>1, <2>2, <2>3
  <2> QED BY <1>2, <2>1, <2>2, <2>4
<1>15. ASSUME NEW i \in 0..m PROVE nx2[v[i]] = v[i + 1]
  <2>1. i \in Nat /\ i \in 0..(m + 1) /\ i + 1 \in 0..(m + 1)
    BY <1>2
  <2>2. CASE i = j - 2
    <3>1. i # j - 1 /\ i # j /\ i + 1 = j - 1
      BY <1>2, <2>2
    <3>2. v[i] = w[j - 2] /\ v[i + 1] = w[j]
      BY <1>8, <2>1, <2>2, <3>1
    <3> QED BY <1>2, <1>4, <1>6, <1>9, <3>2
  <2>3. CASE i = j - 1
    <3>1. i + 1 = j /\ i + 1 # j - 1
      BY <1>2, <2>3
    <3>2. v[i] = w[j] /\ v[i + 1] = w[j - 1]
      BY <1>8, <2>1, <2>3, <3>1
    <3> QED BY <1>2, <1>4, <1>6, <1>9, <3>2
  <2>4. CASE i = j
    <3>1. i + 1 # j /\ i + 1 # j - 1 /\ i # j - 1
      BY <1>2, <2>4
    <3>2. v[i] = w[j - 1] /\ v[i + 1] = w[j + 1]
      BY <1>8, <2>1, <2>4, <3>1
    <3> QED BY <1>2, <1>4, <1>6, <1>9, <3>2
  <2>5. CASE i # j - 2 /\ i # j - 1 /\ i # j
    <3>1. i + 1 # j - 1 /\ i + 1 # j
      BY <1>2, <2>1, <2>5
    <3>2. v[i] = w[i] /\ v[i + 1] = w[i + 1] /\ nx[w[i]] = w[i + 1]
      BY <1>8, <2>1, <2>5, <3>1 DEF Strung
    <3>3. w[i] \in Nodes \cup {Root} /\ w[i] # w[j - 1] /\ w[i] # w[j] /\ w[i] # w[j - 2]
      BY <1>2, <1>4, <2>5
    <3> QED BY <1>9, <3>2, <3>3
  <2> QED BY <2>2, <2>3, <2>4, <2>5
<1>16. ASSUME NEW i \in 1..m PROVE pv2[v[i]] = v[i - 1]
  <2>1. i \in Nat /\ i \in 0..m /\ i \in 0..(m + 1) /\ i - 1 \in 0..(m + 1)
    BY <1>2
  <2>2. CASE i = j - 1
    <3>1. i - 1 = j - 2 /\ i - 1 # j - 1 /\ i - 1 # j
      BY <1>2, <2>2
    <3>2. v[i] = w[j] /\ v[i - 1] = w[j - 2]
      BY <1>8, <2>1, <2>2, <3>1
    <3> QED BY <1>2, <1>4, <1>6, <1>10, <3>2
  <2>3. CASE i = j
    <3>1. i - 1 = j - 1 /\ i # j - 1
      BY <1>2, <2>3
    <3>2. v[i] = w[j - 1] /\ v[i - 1] = w[j]
      BY <1>8, <2>1, <2>3, <3>1
    <3> QED BY <1>2, <1>4, <1>10, <3>2
  <2>4. CASE i = j + 1
    <3>1. i - 1 = j /\ i # j - 1 /\ i # j /\ i - 1 # j - 1
      BY <1>2, <2>4
    <3>2. v[i] = w[j + 1] /\ v[i - 1] = w[j - 1]
      BY <1>8, <2>1, <2>4, <3>1
    <3>3. w[j + 1] \in Nodes
      BY <1>3, <2>4
    <3> QED BY <1>7, <1>10, <3>2, <3>3
  <2>5. CASE i # j - 1 /\ i # j /\ i # j + 1
    <3>1. i - 1 # j - 1 /\ i - 1 # j
      BY <1>2, <2>1, <2>5
    <3>2. v[i] = w[i] /\ v[i - 1] = w[i - 1] /\ pv[w[i]] = w[i - 1]
      BY <1>8, <2>1, <2>5, <3>1 DEF Strung
    <3>3. w[i] \in Nodes /\ w[i] # Root /\ w[i] # w[j - 1] /\ w[i] # w[j]
      BY <1>2, <1>3, <1>4, <2>1, <2>5
    <3>4. w[i] # w[j + 1]
      <4>1. j = m \/ j + 1 \in 0..m
        BY <1>2
      <4> QED BY <1>3, <1>4, <2>1, <2>5, <4>1
    <3> QED BY <1>10, <3>2, <3>3, <3>4
  <2> QED BY <2>2, <2>3, <2>4, <2>5
<1>17. ASSUME NEW x \in Nodes, pv2[x] # NULL PROVE \E i \in 1..m : v[i] = x
  <2>1. PICK k \in 1..m : w[k] = x
    <3>1. x = w[j - 1] \/ x = w[j] => \E k \in 1..m : w[k] = x
      BY <1>2
    <3>2. x = w[j + 1] => \E k \in 1..m : w[k] = x
      <4>1. j = m \/ j + 1 \in 1..m
        BY <1>2
      <4> QED BY <1>3, <4>1, NoItems
    <3>3. x # w[j - 1] /\ x # w[j] /\ x # w[j + 1] => pv[x] # NULL
      BY <1>10, <1>17, NoItems
    <3> QED BY <3>1, <3>2, <3>3 DEF Strung
  <2>2. PICK i \in 1..m : i = IF k = j - 1 THEN j ELSE IF k = j THEN j - 1 ELSE k
    BY <1>2
  <2>3. i \in 0..(m + 1) /\ v[i] = w[k]
    <3>1. i \in 0..(m + 1) /\ j # j - 1
      BY <1>2
    <3> QED BY <1>8, <2>2, <3>1
  <2> QED BY <2>1, <2>3
<1>18. Strung(nx2, pv2, v, m)
  BY <1>2, <1>9, <1>11, <1>12, <1>13, <1>14, <1>15, <1>16, <1>17 DEF Strung
<1> QED BY <1>1, <1>18

-----------------------------------------------------------------------------
(* What is read along the links                                            *)

\* It has no more items than there is memory for.
LEMMA AtMost ==
  ASSUME NEW nx, NEW pv, NEW w, NEW m, Strung(nx, pv, w, m)
  PROVE  m \in Nat /\ Cardinality(Nodes) \in Nat /\ m <= Cardinality(Nodes)
<1>1. IsFiniteSet(Nodes) /\ Cardinality(Nodes) \in Nat /\ m \in Nat
  BY ListAssumption, FS_CardinalityType DEF Strung
<1>2. PICK f : f = [i \in 1..m |-> w[i]]
  OBVIOUS
<1>3. f \in Injection(1..m, Nodes)
  BY ZenonT(60), <1>2 DEF Strung, Injection, IsInjective
<1>4. Cardinality(1..m) <= Cardinality(Nodes)
  BY <1>1, <1>3, FS_Injection
<1>5. Cardinality(1..m) = m
  <2>1. 1 \in Int /\ m \in Int /\ (1 > m => m = 0) /\ (m - 1) + 1 = m
    BY <1>1
  <2> QED BY <2>1, FS_Interval
<1> QED BY <1>1, <1>4, <1>5

\* From any place the rest of the list is read, and nothing else.
LEMMA FromIs ==
  ASSUME NEW w, NEW m, Strung(next, prev, w, m), NEW i \in 0..m
  PROVE  From(w[i]) = [k \in 1..(m - i) |-> w[i + k]]
<1> DEFINE to[k \in Nat] == IF k = 0 THEN w[i] ELSE IF to[k - 1] = NULL THEN NULL ELSE next[to[k - 1]]
           n == Cardinality(Nodes)
<1>1. m \in Nat /\ n \in Nat /\ m <= n /\ i \in Nat /\ i <= m
  BY AtMost
<1>2. From(w[i]) = [k \in 1..Cardinality({k \in 1..n : to[k] # NULL}) |-> to[k]]
  BY DEF From
<1>3. w[m + 1] = NULL /\ \A j \in 0..m : w[j] # NULL /\ next[w[j]] = w[j + 1]
  <2>1. \A j \in 0..m : w[j] # NULL
    BY Places
  <2> QED BY <2>1 DEF Strung
<1>4. \A k \in Nat : to[k] = IF k = 0 THEN w[i] ELSE IF to[k - 1] = NULL THEN NULL ELSE next[to[k - 1]]
  <2>1. to = [k \in Nat |-> IF k = 0 THEN w[i] ELSE IF to[k - 1] = NULL THEN NULL ELSE next[to[k - 1]]]
    <3> SUFFICES \E g : g = [k \in Nat |-> IF k = 0 THEN w[i] ELSE IF g[k - 1] = NULL THEN NULL
                                         ELSE next[g[k - 1]]]
      BY Zenon
    <3> HIDE DEF to
    <3>1. PICK g : g = [k \in Nat |-> IF k <= (m + 1) - i THEN w[i + k] ELSE NULL]
      OBVIOUS
    <3>2. \A k \in Nat : g[k] = IF k = 0 THEN w[i] ELSE IF g[k - 1] = NULL THEN NULL ELSE next[g[k - 1]]
      <4> SUFFICES ASSUME NEW k \in Nat
                   PROVE  g[k] = IF k = 0 THEN w[i] ELSE IF g[k - 1] = NULL THEN NULL ELSE next[g[k - 1]]
        OBVIOUS
      <4>1. CASE k = 0
        <5>1. 0 \in Nat /\ 0 <= (m + 1) - i /\ i + 0 = i
          BY <1>1
        <5> QED BY <3>1, <4>1, <5>1
      <4>2. CASE k # 0 /\ k <= (m + 1) - i
        <5>1. k - 1 \in Nat /\ k - 1 <= (m + 1) - i /\ i + (k - 1) \in 0..m /\ (i + (k - 1)) + 1 = i + k
          BY <1>1, <4>2
        <5>2. g[k - 1] = w[i + (k - 1)] /\ g[k] = w[i + k]
          BY <3>1, <4>2, <5>1
        <5> QED BY <1>3, <4>2, <5>1, <5>2
      <4>3. CASE ~(k <= (m + 1) - i)
        <5>1. k # 0 /\ k - 1 \in Nat /\ (k - 1 <= (m + 1) - i => i + (k - 1) = m + 1)
          BY <1>1, <4>3
        <5>2. g[k - 1] = NULL /\ g[k] = NULL
          BY <1>3, <3>1, <4>3, <5>1
        <5> QED BY <5>1, <5>2
      <4> QED BY <4>1, <4>2, <4>3
    <3>3. DOMAIN g = Nat /\ g = [k \in DOMAIN g |-> g[k]]
      BY <3>1
    <3> QED BY <3>2, <3>3
  <2> HIDE DEF to
  <2> QED BY <2>1
<1> HIDE DEF to, n
<1>5. \A k \in Nat : to[k] = IF k <= (m + 1) - i THEN w[i + k] ELSE NULL
  <2> DEFINE Other == {k \in Nat : to[k] # IF k <= (m + 1) - i THEN w[i + k] ELSE NULL}
  <2>1. CASE Other # {}
    <3>1. PICK k \in Other : \A j \in Other : k <= j
      BY <2>1, HasSmallest
    <3>2. k \in Nat /\ to[k] # IF k <= (m + 1) - i THEN w[i + k] ELSE NULL
      OBVIOUS
    <3>3. k # 0
      <4>1. 0 <= (m + 1) - i /\ i + 0 = i
        BY <1>1
      <4> QED BY <1>4, <3>2, <4>1
    <3>4. k - 1 \in Nat /\ k - 1 \notin Other
      BY <3>1, <3>2, <3>3
    <3>5. to[k - 1] = IF k - 1 <= (m + 1) - i THEN w[i + (k - 1)] ELSE NULL
      BY <3>4
    <3>6. to[k] = IF to[k - 1] = NULL THEN NULL ELSE next[to[k - 1]]
      BY <1>4, <3>2, <3>3
    <3>7. CASE k <= (m + 1) - i
      <4>1. k - 1 <= (m + 1) - i /\ i + (k - 1) \in 0..m /\ (i + (k - 1)) + 1 = i + k
        BY <1>1, <3>2, <3>4, <3>7
      <4>2. to[k - 1] = w[i + (k - 1)] /\ to[k - 1] # NULL /\ next[to[k - 1]] = w[i + k]
        BY <1>3, <3>5, <4>1
      <4> QED BY <3>2, <3>6, <3>7, <4>2
    <3>8. CASE ~(k <= (m + 1) - i)
      <4>1. k - 1 <= (m + 1) - i => i + (k - 1) = m + 1
        BY <1>1, <3>2, <3>8
      <4>2. to[k - 1] = NULL
        BY <1>3, <3>5, <4>1
      <4> QED BY <3>2, <3>6, <3>8, <4>2
    <3> QED BY <3>7, <3>8
  <2> QED BY <2>1
<1>6. {k \in 1..n : to[k] # NULL} = 1..(m - i)
  <2>1. ASSUME NEW k \in 1..n, to[k] # NULL PROVE k \in 1..(m - i)
    <3>1. k \in Nat /\ k >= 1
      OBVIOUS
    <3>2. k <= (m + 1) - i /\ w[i + k] # NULL
      BY <1>5, <2>1, <3>1
    <3>3. i + k # m + 1
      BY <1>3, <3>2
    <3> QED BY <1>1, <3>1, <3>2, <3>3
  <2>2. ASSUME NEW k \in 1..(m - i) PROVE k \in 1..n /\ to[k] # NULL
    <3>1. k \in Nat /\ k \in 1..n /\ k <= (m + 1) - i /\ i + k \in 0..m
      BY <1>1
    <3> QED BY <1>3, <1>5, <3>1
  <2> QED BY <2>1, <2>2
<1>7. Cardinality(1..(m - i)) = m - i
  <2>1. 1 \in Int /\ m - i \in Int /\ (1 > m - i => m - i = 0) /\ ((m - i) - 1) + 1 = m - i
    BY <1>1
  <2> QED BY <2>1, FS_Interval
<1>8. From(w[i]) = [k \in 1..(m - i) |-> to[k]]
  BY <1>2, <1>6, <1>7 DEF n
<1>9. \A k \in 1..(m - i) : to[k] = w[i + k]
  <2> SUFFICES ASSUME NEW k \in 1..(m - i) PROVE to[k] = w[i + k]
    OBVIOUS
  <2>1. k \in Nat /\ k <= (m + 1) - i
    BY <1>1
  <2> QED BY <1>5, <2>1
<1> QED BY <1>8, <1>9

\* What the calls keep of the links, the order and the head's pointer to the last item.
Walks(w, m) ==
  /\ Strung(next, prev, w, m) /\ hits = m
  /\ ~Is("SELFORG") => IF m = 0 THEN prev[Root] \in {NULL, Root} ELSE prev[Root] = w[m]
  /\ Is("ORDERED") => \A i, k \in 1..m : i <= k => tag[w[i]] <= tag[w[k]]
  /\ prev[Root] \in Nodes => prev[prev[Root]] # NULL

\* The other fields.
FieldsOK ==
  /\ flags \in FlagSets /\ tag \in [Nodes -> Tags]
  /\ side \in Nodes \cup {NULL} /\ found \in Nodes \cup {NULL} /\ sought \in Tags \cup {0}

\* All of it.
ListInv ==
  /\ FieldsOK /\ CachedIsIn /\ FindsWhatIsThere
  /\ \E m \in Nat : \E w : Walks(w, m)

\* An item that is in the list is at some place of it.
LEMMA AtAPlace ==
  ASSUME NEW w, NEW m, Walks(w, m)
  PROVE  /\ m \in Nat /\ Threaded = {w[i] : i \in 1..m}
         /\ prev[Root] \notin {NULL, Root} => \E i \in 1..m : w[i] = prev[Root]
<1>1. Strung(next, prev, w, m) /\ (prev[Root] \in Nodes => prev[prev[Root]] # NULL)
  BY DEF Walks
<1>2. m \in Nat /\ prev[Root] \in Nodes \cup {NULL, Root}
  BY <1>1 DEF Strung
<1>3. \A n \in Nodes : prev[n] # NULL <=> \E i \in 1..m : w[i] = n
  <2>1. \A i \in 1..m : prev[w[i]] # NULL
    BY <1>1, Places
  <2> QED BY <1>1, <2>1 DEF Strung
<1>4. \A i \in 1..m : w[i] \in Nodes
  BY <1>1 DEF Strung
<1> QED BY <1>1, <1>2, <1>3, <1>4 DEF Threaded

\* The search goes along the list from an item before which there are only smaller ones, if
\* the list is ordered, or none.
LEMMA PathIs ==
  ASSUME NEW w, NEW m, Walks(w, m), m # 0, FieldsOK, CachedIsIn, NEW name \in Tags
  PROVE  \E s \in 1..m :
           /\ Path(name) = [k \in 1..((m - s) + 1) |-> w[(s + k) - 1]]
           /\ s = 1 \/ (Is("ORDERED") /\ tag[w[s]] < name)
<1>1. Strung(next, prev, w, m) /\ m \in Nat /\ Threaded = {w[i] : i \in 1..m}
  BY AtAPlace DEF Walks
<1>2. next[Root] = w[1]
  <2>1. 0 \in 0..m /\ 0 + 1 = 1
    BY <1>1
  <2> QED BY <1>1, <2>1 DEF Strung
<1>3. PICK s \in 1..m : SearchStart(name) = w[s] /\ (s = 1 \/ (Is("ORDERED") /\ tag[w[s]] < name))
  <2>1. CASE Is("CACHE") /\ Is("ORDERED") /\ side # NULL /\ tag[side] < name
    <3>1. PICK i \in 1..m : side = w[i]
      BY <1>1, <2>1 DEF CachedIsIn
    <3> QED BY <2>1, <3>1 DEF SearchStart
  <2>2. CASE ~(Is("CACHE") /\ Is("ORDERED") /\ side # NULL /\ tag[side] < name)
    <3>1. 1 \in 1..m
      BY <1>1
    <3> QED BY <1>2, <2>2, <3>1 DEF SearchStart
  <2> QED BY <2>1, <2>2
<1>4. w[s] # NULL /\ s \in 0..m
  <2>1. s \in 0..m
    BY <1>1
  <2> QED BY <1>1, <2>1, Places
<1>5. From(w[s]) = [k \in 1..(m - s) |-> w[s + k]]
  <2>1. Strung(next, prev, w, m)
    BY <1>1
  <2>2. s \in 0..m
    BY <1>4
  <2> QED BY <2>1, <2>2, FromIs
<1>6. PICK f : f = [k \in 1..(m - s) |-> w[s + k]]
  OBVIOUS
<1>7. m - s \in Nat /\ (m - s) + 1 \in Nat
  BY <1>1
<1>8. \A k \in 1..(m - s) : w[s + k] \in Nodes
  <2> SUFFICES ASSUME NEW k \in 1..(m - s) PROVE w[s + k] \in Nodes
    OBVIOUS
  <2>1. s + k \in 1..m
    BY <1>1
  <2> QED BY <1>1, <2>1 DEF Strung
<1>9. f \in Seq(Nodes) /\ Len(f) = m - s
  BY <1>6, <1>7, <1>8
<1>10. w[s] \in Nodes
  BY <1>1 DEF Strung
<1>11. PICK o : o = <<w[s]>>
  OBVIOUS
<1>12. o \in Seq(Nodes) /\ Len(o) = 1 /\ o[1] = w[s]
  BY <1>10, <1>11
<1>13. PICK p : p = o \o f
  OBVIOUS
<1>14. /\ p \in Seq(Nodes) /\ Len(p) = 1 + (m - s)
       /\ \A k \in 1..Len(p) : p[k] = IF k <= 1 THEN o[k] ELSE f[k - 1]
  <2>1. f \in Seq(Nodes) /\ o \in Seq(Nodes)
    BY <1>9, <1>12
  <2>2. /\ o \o f \in Seq(Nodes) /\ Len(o \o f) = Len(o) + Len(f)
        /\ \A k \in 1..Len(o \o f) : (o \o f)[k] = IF k <= Len(o) THEN o[k] ELSE f[k - Len(o)]
    BY <2>1, ConcatProperties
  <2> QED BY <1>9, <1>12, <1>13, <2>2
<1>15. \A k \in 1..((m - s) + 1) : p[k] = w[(s + k) - 1]
  <2> SUFFICES ASSUME NEW k \in 1..((m - s) + 1) PROVE p[k] = w[(s + k) - 1]
    OBVIOUS
  <2>1. k \in 1..Len(p)
    BY <1>7, <1>14
  <2>2. CASE k = 1
    <3>1. k <= 1 /\ (s + k) - 1 = s
      BY <2>2
    <3> QED BY <1>12, <1>14, <2>1, <2>2, <3>1
  <2>3. CASE k # 1
    <3>1. ~(k <= 1) /\ k - 1 \in 1..(m - s) /\ s + (k - 1) = (s + k) - 1
      BY <1>7, <2>3
    <3> QED BY <1>6, <1>14, <2>1, <3>1
  <2> QED BY <2>2, <2>3
<1>16. p = [k \in 1..((m - s) + 1) |-> w[(s + k) - 1]]
  <2>1. p = [k \in 1..Len(p) |-> p[k]]
    BY <1>14
  <2>2. 1 + (m - s) = (m - s) + 1
    BY <1>7
  <2> QED BY <1>14, <1>15, <2>1, <2>2
<1>17. Path(name) = p
  BY <1>3, <1>4, <1>5, <1>6, <1>11, <1>13 DEF Path
<1> QED BY <1>3, <1>16, <1>17

\* Where a name belongs: at an item that has it, if there is one, and between the smaller
\* and the greater ones in an ordered list.
Belongs(w, m, j, name) ==
  /\ Is("ORDERED") =>
       \A i \in 1..m : (i <= j => tag[w[i]] <= name) /\ (i > j => tag[w[i]] >= name)
  /\ (\E i \in 1..m : tag[w[i]] = name) => j \in 1..m /\ tag[w[j]] = name

\* Where the search along the list ends is where the name belongs.
LEMMA StopIs ==
  ASSUME NEW w, NEW m, Walks(w, m), m # 0, FieldsOK, CachedIsIn, NEW name \in Tags
  PROVE  \E j \in 0..m :
           /\ Belongs(w, m, j, name)
           /\ w[j] = LET path == Path(name)
                         k == Least(Stops(name))
                     IN  IF Stops(name) = {} THEN path[Len(path)]
                         ELSE IF tag[path[k]] = name THEN path[k]
                         ELSE IF k = 1 THEN Root ELSE path[k - 1]
<1>1. PICK s \in 1..m : /\ Path(name) = [k \in 1..((m - s) + 1) |-> w[(s + k) - 1]]
                        /\ s = 1 \/ (Is("ORDERED") /\ tag[w[s]] < name)
  BY PathIs
<1>2. m \in Nat /\ s \in Nat /\ s <= m /\ 1 <= s /\ (m - s) + 1 \in Nat
  BY DEF Walks, Strung
<1>3. PICK p : p = Path(name)
  OBVIOUS
<1>4. DOMAIN p = 1..((m - s) + 1) /\ Len(p) = (m - s) + 1 /\ \A k \in 1..((m - s) + 1) : p[k] = w[(s + k) - 1]
  <2>1. p = [k \in 1..((m - s) + 1) |-> w[(s + k) - 1]]
    BY <1>1, <1>3
  <2> QED BY <1>2, <2>1
<1>5. /\ name \in Int /\ \A i \in 1..m : tag[w[i]] \in Int
      /\ Is("ORDERED") => \A i, k \in 1..m : i <= k => tag[w[i]] <= tag[w[k]]
  <2>1. \A i \in 1..m : w[i] \in Nodes
    BY DEF Walks, Strung
  <2> QED BY <2>1, ListAssumption DEF FieldsOK, Walks
<1>6. PICK T : T = Stops(name)
  OBVIOUS
<1>7. T = {k \in 1..((m - s) + 1) : tag[p[k]] = name \/ (Is("ORDERED") /\ tag[p[k]] > name)}
  BY <1>3, <1>4, <1>6 DEF Stops
<1>8. \A i \in 1..m : i < s => tag[w[i]] < name
  <2> SUFFICES ASSUME NEW i \in 1..m, i < s PROVE tag[w[i]] < name
    OBVIOUS
  <2>1. Is("ORDERED") /\ tag[w[s]] < name /\ i <= s
    BY <1>1, <1>2
  <2>2. tag[w[i]] <= tag[w[s]]
    BY <1>5, <2>1
  <2>3. tag[w[i]] \in Int /\ tag[w[s]] \in Int /\ name \in Int
    BY <1>5
  <2> QED BY <2>1, <2>2, <2>3
<1>9. CASE T = {}
  <2>1. \A i \in 1..m : tag[w[i]] # name /\ (Is("ORDERED") => tag[w[i]] < name)
    <3> SUFFICES ASSUME NEW i \in 1..m PROVE tag[w[i]] # name /\ (Is("ORDERED") => tag[w[i]] < name)
      OBVIOUS
    <3>1. tag[w[i]] \in Int /\ name \in Int
      BY <1>5
    <3>2. CASE i < s
      <4>1. tag[w[i]] < name
        BY <1>8, <3>2
      <4> QED BY <3>1, <4>1
    <3>3. CASE ~(i < s)
      <4>1. PICK k \in 1..((m - s) + 1) : (s + k) - 1 = i
        <5>1. (i - s) + 1 \in 1..((m - s) + 1) /\ (s + ((i - s) + 1)) - 1 = i
          BY <1>2, <3>3
        <5> QED BY <5>1
      <4>2. p[k] = w[i] /\ k \notin T
        BY <1>4, <1>9, <4>1
      <4>3. tag[w[i]] # name /\ ~(Is("ORDERED") /\ tag[w[i]] > name)
        BY <1>7, <4>2
      <4> QED BY <3>1, <4>3
    <3> QED BY <3>2, <3>3
  <2>2. p[Len(p)] = w[m]
    <3>1. (m - s) + 1 \in 1..((m - s) + 1) /\ (s + ((m - s) + 1)) - 1 = m
      BY <1>2
    <3> QED BY <1>4, <3>1
  <2>3. m \in 0..m /\ \A i \in 1..m : i <= m /\ ~(i > m)
    BY <1>2
  <2>4. \A i \in 1..m : Is("ORDERED") => tag[w[i]] <= name
    <3> SUFFICES ASSUME NEW i \in 1..m, Is("ORDERED") PROVE tag[w[i]] <= name
      OBVIOUS
    <3>1. tag[w[i]] \in Int /\ name \in Int /\ tag[w[i]] < name
      BY <1>5, <2>1
    <3> QED BY <3>1
  <2>5. Belongs(w, m, m, name)
    BY <2>1, <2>3, <2>4 DEF Belongs
  <2> QED BY <1>3, <1>6, <1>9, <2>2, <2>3, <2>5
<1>10. CASE T # {}
  <2>1. PICK k : k = Least(T)
    OBVIOUS
  <2>2. k \in T /\ \A l \in T : k <= l
    <3>1. T \in SUBSET Nat
      BY <1>7
    <3>2. \E l \in T : \A q \in T : l <= q
      BY <1>10, <3>1, HasSmallest
    <3> QED BY <2>1, <3>2 DEF Least
  <2>3. /\ k \in 1..((m - s) + 1) /\ (tag[p[k]] = name \/ (Is("ORDERED") /\ tag[p[k]] > name))
        /\ k \in Nat /\ k >= 1
    BY <1>7, <2>2
  <2>4. PICK q : q = (s + k) - 1
    OBVIOUS
  <2>5. q \in 1..m /\ p[k] = w[q] /\ q \in Nat /\ q \in 0..m /\ q - 1 \in 0..m
    <3>1. q \in 1..m /\ q \in Nat /\ q \in 0..m /\ q - 1 \in 0..m
      BY <1>2, <2>3, <2>4
    <3> QED BY <1>4, <2>3, <2>4, <3>1
  <2>6. \A i \in 1..m : i < q => tag[w[i]] # name /\ (Is("ORDERED") => tag[w[i]] < name)
    <3> SUFFICES ASSUME NEW i \in 1..m, i < q PROVE tag[w[i]] # name /\ (Is("ORDERED") => tag[w[i]] < name)
      OBVIOUS
    <3>1. tag[w[i]] \in Int /\ name \in Int
      BY <1>5
    <3>2. CASE i < s
      <4>1. tag[w[i]] < name
        BY <1>8, <3>2
      <4> QED BY <3>1, <4>1
    <3>3. CASE ~(i < s)
      <4>1. PICK l \in 1..((m - s) + 1) : (s + l) - 1 = i /\ l < k
        <5>1. (i - s) + 1 \in 1..((m - s) + 1) /\ (s + ((i - s) + 1)) - 1 = i /\ (i - s) + 1 < k
          BY <1>2, <2>3, <2>4, <3>3
        <5> QED BY <5>1
      <4>2. ~(k <= l)
        BY <2>3, <4>1
      <4>3. p[l] = w[i] /\ l \notin T
        BY <1>4, <2>2, <4>1, <4>2
      <4>4. tag[w[i]] # name /\ ~(Is("ORDERED") /\ tag[w[i]] > name)
        BY <1>7, <4>3
      <4> QED BY <3>1, <4>4
    <3> QED BY <3>2, <3>3
  <2>7. CASE tag[w[q]] = name
    <3>1. Is("ORDERED") => \A i \in 1..m : (i <= q => tag[w[i]] <= name) /\ (i > q => tag[w[i]] >= name)
      <4> SUFFICES ASSUME Is("ORDERED"), NEW i \in 1..m
                   PROVE  (i <= q => tag[w[i]] <= name) /\ (i > q => tag[w[i]] >= name)
        OBVIOUS
      <4>1. tag[w[i]] \in Int /\ name \in Int
        BY <1>5
      <4>2. i <= q => tag[w[i]] <= tag[w[q]]
        BY <1>5, <2>5
      <4>3. i > q => tag[w[q]] <= tag[w[i]]
        <5>1. i > q => q <= i
          BY <2>5
        <5> QED BY <1>5, <2>5, <5>1
      <4> QED BY <2>7, <4>1, <4>2, <4>3
    <3>2. Belongs(w, m, q, name)
      BY <2>5, <2>7, <3>1 DEF Belongs
    <3> QED BY <1>3, <1>6, <1>10, <2>1, <2>5, <2>7, <3>2
  <2>8. CASE tag[w[q]] # name
    <3>1. Is("ORDERED") /\ tag[w[q]] > name
      BY <2>3, <2>5, <2>8
    <3>2. \A i \in 1..m : /\ (i <= q - 1 => tag[w[i]] < name) /\ (i > q - 1 => tag[w[i]] > name)
      <4> SUFFICES ASSUME NEW i \in 1..m
                   PROVE  (i <= q - 1 => tag[w[i]] < name) /\ (i > q - 1 => tag[w[i]] > name)
        OBVIOUS
      <4>1. tag[w[i]] \in Int /\ name \in Int /\ tag[w[q]] \in Int
        BY <1>5, <2>5
      <4>2. i <= q - 1 => tag[w[i]] < name
        <5>1. i <= q - 1 => i < q
          BY <2>5
        <5> QED BY <2>6, <3>1, <5>1
      <4>3. i > q - 1 => tag[w[q]] <= tag[w[i]]
        <5>1. i > q - 1 => q <= i
          BY <2>5
        <5> QED BY <1>5, <2>5, <3>1, <5>1
      <4> QED BY <3>1, <4>1, <4>2, <4>3
    <3>3. Belongs(w, m, q - 1, name)
      <4>1. \A i \in 1..m : /\ i <= q - 1 \/ i > q - 1
                            /\ tag[w[i]] < name => tag[w[i]] <= name /\ tag[w[i]] # name
                            /\ tag[w[i]] > name => tag[w[i]] >= name /\ tag[w[i]] # name
        <5> SUFFICES ASSUME NEW i \in 1..m
                     PROVE  /\ i <= q - 1 \/ i > q - 1
                            /\ tag[w[i]] < name => tag[w[i]] <= name /\ tag[w[i]] # name
                            /\ tag[w[i]] > name => tag[w[i]] >= name /\ tag[w[i]] # name
          OBVIOUS
        <5>1. tag[w[i]] \in Int /\ name \in Int
          BY <1>5
        <5> QED BY <2>5, <5>1
      <4> QED BY <3>2, <4>1 DEF Belongs
    <3>4. w[q - 1] = IF k = 1 THEN Root ELSE p[k - 1]
      <4>1. CASE k = 1
        <5>1. q = s
          BY <1>2, <2>4, <4>1
        <5>2. s = 1
          <6>1. ~(tag[w[s]] < name)
            <7>1. tag[w[s]] \in Int /\ name \in Int
              BY <1>5
            <7> QED BY <3>1, <5>1, <7>1
          <6> QED BY <1>1, <6>1
        <5>3. q - 1 = 0
          BY <5>1, <5>2
        <5> QED BY <4>1, <5>3 DEF Walks, Strung
      <4>2. CASE k # 1
        <5>1. k - 1 \in 1..((m - s) + 1) /\ (s + (k - 1)) - 1 = q - 1
          BY <1>2, <2>3, <2>4, <4>2
        <5> QED BY <1>4, <4>2, <5>1
      <4> QED BY <4>1, <4>2
    <3> QED BY <1>3, <1>6, <1>10, <2>1, <2>5, <2>8, <3>3, <3>4
  <2> QED BY <2>7, <2>8
<1> QED BY <1>9, <1>10

\* By each of its short cuts, the search comes to where the name belongs.
LEMMA PointIs ==
  ASSUME NEW w, NEW m, Walks(w, m), FieldsOK, CachedIsIn, NEW name \in Tags,
         ~(Is("ORDERED") /\ Is("SELFORG"))
  PROVE  \E j \in 0..m : InsertPoint(name) = w[j] /\ Belongs(w, m, j, name)
<1>1. /\ Strung(next, prev, w, m) /\ m \in Nat /\ Threaded = {w[i] : i \in 1..m} /\ w[0] = Root
      /\ prev[Root] \notin {NULL, Root} => \E i \in 1..m : w[i] = prev[Root]
  BY AtAPlace DEF Walks, Strung
<1>2. next[Root] = NULL <=> m = 0
  <2>1. 0 \in 0..m /\ 0 + 1 = 1
    BY <1>1
  <2>2. \A i \in 0..m : next[w[i]] = w[i + 1]
    BY <1>1 DEF Strung
  <2>3. \A i \in 0..m : w[i + 1] = NULL <=> i = m
    BY <1>1, Places
  <2> QED BY <1>1, <2>1, <2>2, <2>3
<1>3. /\ name \in Int /\ \A i \in 1..m : tag[w[i]] \in Int
      /\ Is("ORDERED") => \A i, k \in 1..m : i <= k => tag[w[i]] <= tag[w[k]]
  <2>1. \A i \in 1..m : w[i] \in Nodes
    BY DEF Walks, Strung
  <2> QED BY <2>1, ListAssumption DEF FieldsOK, Walks
<1>4. ASSUME NEW j \in 1..m, tag[w[j]] = name PROVE Belongs(w, m, j, name)
  <2>1. Is("ORDERED") => \A i \in 1..m : (i <= j => tag[w[i]] <= name) /\ (i > j => tag[w[i]] >= name)
    <3> SUFFICES ASSUME Is("ORDERED"), NEW i \in 1..m
                 PROVE  (i <= j => tag[w[i]] <= name) /\ (i > j => tag[w[i]] >= name)
      OBVIOUS
    <3>1. tag[w[i]] \in Int /\ name \in Int
      BY <1>3
    <3>2. (i <= j => tag[w[i]] <= tag[w[j]]) /\ (j <= i => tag[w[j]] <= tag[w[i]])
      BY <1>3
    <3>3. i > j => j <= i
      OBVIOUS
    <3> QED BY <1>4, <3>1, <3>2, <3>3
  <2> QED BY <1>4, <2>1 DEF Belongs
<1>5. \A j \in 1..m : j \in 0..m
  BY <1>1
<1>6. CASE m = 0
  <2>1. InsertPoint(name) = Root
    BY <1>2, <1>6 DEF InsertPoint
  <2>2. 0 \in 0..m /\ 1..m = {}
    BY <1>6
  <2>3. Belongs(w, m, 0, name)
    BY <2>2 DEF Belongs
  <2> QED BY <1>1, <2>1, <2>2, <2>3
<1>7. CASE m # 0 /\ Cached(name)
  <2>1. side # NULL /\ tag[side] = name
    BY <1>7 DEF Cached
  <2>2. PICK j \in 1..m : side = w[j]
    BY <1>1, <2>1 DEF CachedIsIn
  <2>3. InsertPoint(name) = side
    BY <1>2, <1>7 DEF InsertPoint
  <2> QED BY <1>4, <1>5, <2>1, <2>2, <2>3
<1>8. CASE m # 0 /\ ~Cached(name) /\ AtLast(name)
  <2>1. InsertPoint(name) = prev[Root]
    BY <1>2, <1>8 DEF InsertPoint
  <2>2. PICK j \in 1..m : w[j] = prev[Root]
    BY <1>1, <1>8 DEF AtLast, InList
  <2>3. CASE tag[prev[Root]] = name
    BY <1>4, <1>5, <2>1, <2>2, <2>3
  <2>4. CASE tag[prev[Root]] # name
    <3>1. Is("ORDERED") /\ tag[prev[Root]] < name
      BY <1>8, <2>4 DEF AtLast
    <3>2. prev[Root] = w[m]
      BY <1>8, <3>1 DEF Walks
    <3>3. m \in 1..m /\ m \in 0..m /\ \A i \in 1..m : i <= m /\ ~(i > m)
      BY <1>1, <1>8
    <3>4. \A i \in 1..m : tag[w[i]] <= name /\ tag[w[i]] # name
      <4> SUFFICES ASSUME NEW i \in 1..m PROVE tag[w[i]] <= name /\ tag[w[i]] # name
        OBVIOUS
      <4>1. tag[w[i]] <= tag[w[m]] /\ tag[w[m]] < name
        BY <1>3, <3>1, <3>2, <3>3
      <4>2. tag[w[i]] \in Int /\ tag[w[m]] \in Int /\ name \in Int
        BY <1>3, <3>3
      <4> QED BY <4>1, <4>2
    <3>5. Belongs(w, m, m, name)
      BY <3>3, <3>4 DEF Belongs
    <3> QED BY <2>1, <3>2, <3>3, <3>5
  <2> QED BY <2>3, <2>4
<1>9. CASE m # 0 /\ ~Cached(name) /\ ~AtLast(name)
  <2>1. InsertPoint(name) =
          LET path == Path(name)
              k == Least(Stops(name))
          IN  IF Stops(name) = {} THEN path[Len(path)]
              ELSE IF tag[path[k]] = name THEN path[k]
              ELSE IF k = 1 THEN Root ELSE path[k - 1]
    BY <1>2, <1>9 DEF InsertPoint
  <2>2. PICK j \in 0..m :
          /\ Belongs(w, m, j, name)
          /\ w[j] = LET path == Path(name)
                        k == Least(Stops(name))
                    IN  IF Stops(name) = {} THEN path[Len(path)]
                        ELSE IF tag[path[k]] = name THEN path[k]
                        ELSE IF k = 1 THEN Root ELSE path[k - 1]
    BY <1>9, StopIs
  <2> QED BY <2>1, <2>2
<1> QED BY <1>6, <1>7, <1>8, <1>9

\* The items that have a way back are those of the list.
LEMMA ThreadedIs ==
  ASSUME NEW nx, NEW pv, NEW w, NEW m, Strung(nx, pv, w, m)
  PROVE  {n \in Nodes : pv[n] # NULL} = {w[i] : i \in 1..m}
<1>1. \A n \in Nodes : pv[n] # NULL <=> \E i \in 1..m : w[i] = n
  <2>1. \A i \in 1..m : pv[w[i]] # NULL
    BY Places
  <2> QED BY <2>1 DEF Strung
<1>2. \A i \in 1..m : w[i] \in Nodes
  BY DEF Strung
<1> QED BY <1>1, <1>2

\* An item is put where it belongs.
InsertsAt(w, m, j, n) ==
  /\ Is("ORDERED") =>
       \A i \in 1..m : (i <= j => tag[w[i]] <= tag[n]) /\ (i > j => tag[w[i]] >= tag[n])
  /\ PutsBehind(next, prev, w[j], n, next', prev')
  /\ hits' = hits + 1 /\ Forget
  /\ UNCHANGED <<flags, side, tag>>

\* The list is sound with it.
LEMMA InsertKeeps ==
  ASSUME ListInv, NEW m, NEW w, Walks(w, m), NEW j \in 0..m, NEW n \in Nodes, n \notin Threaded,
         InsertsAt(w, m, j, n)
  PROVE  ListInv'
<1>1. Strung(next, prev, w, m) /\ hits = m /\ m \in Nat /\ j \in Nat /\ j <= m
  BY DEF Walks, Strung
<1>2. n \in Nodes /\ prev[n] = NULL
  BY DEF Threaded
<1>3. PICK v : v = PutIn(w, m, j, n)
  OBVIOUS
<1>4. prev' = [prev EXCEPT ![n] = w[j], ![IF next[w[j]] = NULL THEN Root ELSE next[w[j]]] = n]
  BY DEF InsertsAt, PutsBehind
<1>5. Strung(next', prev', v, m + 1) /\ prev'[Root] = IF j = m THEN n ELSE prev[Root]
  <2>1. Strung(next, prev, w, m) /\ PutsBehind(next, prev, w[j], n, next', prev')
    BY <1>1 DEF InsertsAt
  <2>2. Strung(next', prev', PutIn(w, m, j, n), m + 1) /\ prev'[Root] = IF j = m THEN n ELSE prev[Root]
    BY <1>2, <2>1, PutBehind
  <2> QED BY <1>3, <2>2
<1>6. hits' = m + 1
  BY <1>1 DEF InsertsAt
<1>7. \A i \in 0..(m + 2) : v[i] = IF i <= j THEN w[i] ELSE IF i = j + 1 THEN n ELSE w[i - 1]
  BY <1>3 DEF PutIn
<1>8. ~Is("SELFORG")' => IF m + 1 = 0 THEN prev'[Root] \in {NULL, Root} ELSE prev'[Root] = v[m + 1]
  <2> SUFFICES ASSUME ~Is("SELFORG")' PROVE prev'[Root] = v[m + 1]
    BY <1>1
  <2>1. ~Is("SELFORG")
    BY DEF Is, InsertsAt
  <2>2. m + 1 \in 0..(m + 2) /\ ~(m + 1 <= j) /\ (m + 1) - 1 = m /\ (m + 1 = j + 1 <=> j = m)
    BY <1>1
  <2>3. j # m => m # 0 /\ prev[Root] = w[m]
    BY <1>1, <2>1 DEF Walks
  <2> QED BY <1>5, <1>7, <2>2, <2>3
<1>9. Is("ORDERED")' => \A i, k \in 1..(m + 1) : i <= k => tag'[v[i]] <= tag'[v[k]]
  <2> SUFFICES ASSUME Is("ORDERED"), NEW i \in 1..(m + 1), NEW k \in 1..(m + 1), i <= k
               PROVE  tag[v[i]] <= tag[v[k]]
    BY DEF Is, InsertsAt
  <2>1. i \in Nat /\ k \in Nat /\ i \in 0..(m + 2) /\ k \in 0..(m + 2)
    BY <1>1
  <2>2. \A l, q \in 1..m : l <= q => tag[w[l]] <= tag[w[q]]
    BY DEF Walks
  <2>3. \A l \in 1..m : (l <= j => tag[w[l]] <= tag[n]) /\ (l > j => tag[w[l]] >= tag[n])
    BY DEF InsertsAt
  <2>4. tag[n] \in Int /\ \A l \in 1..m : tag[w[l]] \in Int
    <3>1. tag \in [Nodes -> Tags] /\ \A l \in 1..m : w[l] \in Nodes
      BY <1>1 DEF ListInv, FieldsOK, Strung
    <3> QED BY <1>2, <3>1, ListAssumption
  <2>5. CASE i <= j /\ k <= j
    <3>1. i \in 1..m /\ k \in 1..m
      BY <1>1, <2>5
    <3> QED BY <1>7, <2>1, <2>2, <2>5, <3>1
  <2>6. CASE i <= j /\ k = j + 1
    <3>1. i \in 1..m /\ ~(k <= j)
      BY <1>1, <2>6
    <3>2. v[i] = w[i] /\ v[k] = n
      BY <1>7, <2>1, <2>6, <3>1
    <3> QED BY <2>3, <2>6, <3>1, <3>2
  <2>7. CASE i <= j /\ k > j + 1
    <3>1. i \in 1..m /\ k - 1 \in 1..m /\ i <= k - 1 /\ ~(k <= j) /\ k # j + 1
      BY <1>1, <2>1, <2>7
    <3>2. v[i] = w[i] /\ v[k] = w[k - 1]
      BY <1>7, <2>1, <2>7, <3>1
    <3> QED BY <2>2, <3>1, <3>2
  <2>8. CASE i = j + 1 /\ k = j + 1
    <3>1. ~(i <= j)
      BY <1>1, <2>8
    <3>2. v[i] = n /\ v[k] = n
      BY <1>7, <2>1, <2>8, <3>1
    <3> QED BY <2>4, <3>2
  <2>9. CASE i = j + 1 /\ k > j + 1
    <3>1. ~(i <= j) /\ k - 1 \in 1..m /\ k - 1 > j /\ ~(k <= j) /\ k # j + 1
      BY <1>1, <2>1, <2>9
    <3>2. v[i] = n /\ v[k] = w[k - 1]
      BY <1>7, <2>1, <2>9, <3>1
    <3>3. tag[w[k - 1]] >= tag[n] /\ tag[w[k - 1]] \in Int
      BY <2>3, <2>4, <3>1
    <3> QED BY <2>4, <3>2, <3>3
  <2>10. CASE i > j + 1
    <3>1. /\ i - 1 \in 1..m /\ k - 1 \in 1..m /\ i - 1 <= k - 1 /\ ~(i <= j) /\ i # j + 1
          /\ ~(k <= j) /\ k # j + 1
      BY <1>1, <2>1, <2>10
    <3>2. v[i] = w[i - 1] /\ v[k] = w[k - 1]
      BY <1>7, <2>1, <3>1
    <3> QED BY <2>2, <3>1, <3>2
  <2> QED BY <1>1, <2>1, <2>5, <2>6, <2>7, <2>8, <2>9, <2>10
<1>10. \A x \in Nodes : prev[x] # NULL => prev'[x] # NULL
  <2>1. \A x \in Nodes : prev'[x] \in {n, w[j], prev[x]}
    BY <1>1, <1>4 DEF Strung
  <2>2. n # NULL /\ w[j] # NULL
    BY <1>1, <1>2, NoItems, Places
  <2> QED BY <2>1, <2>2
<1>11. prev'[n] # NULL
  <2>1. j + 1 \in 1..(m + 1) /\ j + 1 \in 0..(m + 2) /\ ~(j + 1 <= j)
    BY <1>1
  <2>2. v[j + 1] = n
    BY <1>7, <2>1
  <2> QED BY <1>5, <2>1, <2>2, Places
<1>12. prev'[Root] \in Nodes => prev'[prev'[Root]] # NULL
  BY <1>5, <1>10, <1>11 DEF Walks
<1>13. Walks(v, m + 1)'
  BY <1>5, <1>6, <1>8, <1>9, <1>12 DEF Walks
<1>14. CachedIsIn'
  BY <1>10 DEF ListInv, CachedIsIn, Threaded, InsertsAt
<1>15. FieldsOK' /\ FindsWhatIsThere'
  BY DEF ListInv, FieldsOK, FindsWhatIsThere, Forget, InsertsAt
<1>16. m + 1 \in Nat
  BY <1>1
<1> QED BY <1>13, <1>14, <1>15, <1>16 DEF ListInv

\* ListAddNamedItem puts it behind the item that the head has for the last one.
LEMMA AddKeeps ==
  ASSUME ListInv, Add
  PROVE  ListInv'
<1>1. PICK m \in Nat : \E w : Walks(w, m)
  BY DEF ListInv
<1>2. PICK w : Walks(w, m)
  BY <1>1
<1>3. PICK n \in Nodes \ Threaded :
        /\ next' = [next EXCEPT ![n] = next[LastItem], ![LastItem] = n]
        /\ prev' = Behind(LastItem, n) /\ hits' = hits + 1
  BY DEF Add, InsertBehind
<1>4. \E j \in 0..m : LastItem = w[j]
  <2>1. w[0] = Root /\ 0 \in 0..m /\ \A i \in 1..m : i \in 0..m
    BY <1>1, <1>2 DEF Walks, Strung
  <2>2. prev[Root] \notin {NULL, Root} => \E i \in 1..m : w[i] = prev[Root]
    BY <1>2, AtAPlace
  <2> QED BY <2>1, <2>2 DEF LastItem
<1>5. PICK j \in 0..m : LastItem = w[j]
  BY <1>4
<1>6. ~Is("ORDERED") /\ Forget /\ UNCHANGED <<flags, side, tag>>
  BY DEF Add
<1>7. PutsBehind(next, prev, w[j], n, next', prev')
  BY <1>3, <1>5 DEF PutsBehind, Behind
<1>8. InsertsAt(w, m, j, n)
  BY <1>3, <1>6, <1>7 DEF InsertsAt
<1> QED BY <1>2, <1>8, InsertKeeps

\* OrderedListAddNamedItem puts it where its name belongs.
LEMMA OrderedAddKeeps ==
  ASSUME ListInv, OrderedAdd, ~(Is("ORDERED") /\ Is("SELFORG"))
  PROVE  ListInv'
<1>1. PICK m \in Nat : \E w : Walks(w, m)
  BY DEF ListInv
<1>2. PICK w : Walks(w, m)
  BY <1>1
<1>3. PICK n \in Nodes \ Threaded :
        /\ next' = [next EXCEPT ![n] = next[InsertPoint(tag[n])], ![InsertPoint(tag[n])] = n]
        /\ prev' = Behind(InsertPoint(tag[n]), n) /\ hits' = hits + 1
  BY DEF OrderedAdd
<1>4. FieldsOK /\ CachedIsIn /\ tag[n] \in Tags
  BY DEF ListInv, FieldsOK
<1>5. PICK j \in 0..m : InsertPoint(tag[n]) = w[j] /\ Belongs(w, m, j, tag[n])
  BY <1>2, <1>4, PointIs
<1>6. Forget /\ UNCHANGED <<flags, side, tag>>
  BY DEF OrderedAdd
<1>7. PutsBehind(next, prev, w[j], n, next', prev')
  BY <1>3, <1>5 DEF PutsBehind, Behind
<1>8. Is("ORDERED") =>
        \A i \in 1..m : (i <= j => tag[w[i]] <= tag[n]) /\ (i > j => tag[w[i]] >= tag[n])
  BY <1>5 DEF Belongs
<1>9. InsertsAt(w, m, j, n)
  BY <1>3, <1>6, <1>7, <1>8 DEF InsertsAt
<1> QED BY <1>2, <1>9, InsertKeeps

\* A search that comes to where the name belongs tells whether it is there.
LEMMA FindKeeps ==
  ASSUME ListInv, Find, ~(Is("ORDERED") /\ Is("SELFORG"))
  PROVE  ListInv'
<1>1. PICK m \in Nat : \E w : Walks(w, m)
  BY DEF ListInv
<1>2. PICK w : Walks(w, m)
  BY <1>1
<1>3. PICK name \in Tags :
        LET n == InsertPoint(name)
            hit == InList(n) /\ tag[n] = name
        IN  /\ sought' = name /\ found' = (IF hit THEN n ELSE NULL)
            /\ side' = (IF hit /\ Is("CACHE") THEN n ELSE side)
            /\ IF Moves(name) THEN Swap(prev[n], n) ELSE UNCHANGED links
            /\ UNCHANGED <<flags, hits, tag>>
  BY DEF Find
<1>4. FieldsOK /\ CachedIsIn
  BY DEF ListInv
<1>5. PICK j \in 0..m : InsertPoint(name) = w[j] /\ Belongs(w, m, j, name)
  BY <1>2, <1>4, PointIs
<1>6. /\ Strung(next, prev, w, m) /\ hits = m /\ w[0] = Root
      /\ Threaded = {w[i] : i \in 1..m} /\ \A i \in 1..m : w[i] \in Nodes
  BY <1>2, AtAPlace DEF Walks, Strung
<1>7. PICK hit \in BOOLEAN : hit = (InList(w[j]) /\ tag[w[j]] = name)
  OBVIOUS
<1>8. /\ sought' = name /\ found' = (IF hit THEN w[j] ELSE NULL)
      /\ side' = (IF hit /\ Is("CACHE") THEN w[j] ELSE side)
      /\ IF Moves(name) THEN Swap(prev[w[j]], w[j]) ELSE UNCHANGED links
      /\ UNCHANGED <<flags, hits, tag>>
  BY <1>3, <1>5, <1>7
<1>9. hit => j \in 1..m
  <2>1. j # 0 => j \in 1..m
    BY <1>1
  <2> QED BY <1>6, <1>7, <2>1 DEF InList
<1>10. hit => tag[w[j]] = name /\ w[j] \in Nodes /\ w[j] \in Threaded
  BY <1>6, <1>7, <1>9
<1>11. ~hit => \A x \in Threaded : tag[x] # name
  <2> SUFFICES ASSUME ~hit, NEW x \in Threaded, tag[x] = name PROVE FALSE
    OBVIOUS
  <2>1. PICK i \in 1..m : w[i] = x
    BY <1>6
  <2>2. j \in 1..m /\ tag[w[j]] = name
    BY <1>5, <2>1 DEF Belongs
  <2>3. InList(w[j])
    BY <1>6, <2>2, Places, NoItems DEF InList
  <2> QED BY <1>7, <2>2, <2>3
<1>12. \E v : Walks(v, m)' /\ Threaded' = Threaded
  <2>1. CASE UNCHANGED links
    <3>1. UNCHANGED <<next, prev, hits, flags, tag>>
      BY <1>8, <2>1 DEF links
    <3>2. Walks(w, m)'
      BY <1>2, <3>1 DEF Walks, Is
    <3>3. Threaded' = Threaded
      BY <3>1 DEF Threaded
    <3> QED BY <3>2, <3>3
  <2>2. CASE Moves(name) /\ ~UNCHANGED links
    <3>1. Swap(prev[w[j]], w[j]) /\ Is("SELFORG")
      BY <1>8, <2>2 DEF Moves
    <3>2. ~Is("ORDERED")
      BY <3>1
    <3>3. j \in 1..m
      <4>1. next[Root] # NULL /\ Stops(name) # {} /\ ~Cached(name) /\ ~AtLast(name)
        BY <2>2 DEF Moves
      <4>2. m # 0
        <5>1. 0 \in 0..m /\ 0 + 1 = 1
          BY <1>1
        <5>2. next[w[0]] = w[1]
          BY <1>6, <5>1 DEF Strung
        <5>3. m = 0 => w[1] = NULL
          BY <1>6 DEF Strung
        <5> QED BY <1>6, <4>1, <5>2, <5>3
      <4>3. PICK s \in 1..m : /\ Path(name) = [k \in 1..((m - s) + 1) |-> w[(s + k) - 1]]
                              /\ s = 1 \/ (Is("ORDERED") /\ tag[w[s]] < name)
        BY <1>2, <1>4, <4>2, PathIs
      <4>4. s = 1
        BY <3>2, <4>3
      <4>5. PICK k \in DOMAIN Path(name) : tag[Path(name)[k]] = name
        BY <3>2, <4>1 DEF Stops
      <4>6. k \in 1..m /\ (s + k) - 1 = k
        <5>1. DOMAIN Path(name) = 1..((m - s) + 1)
          BY <4>3
        <5>2. k \in 1..((m - s) + 1)
          BY <4>5, <5>1
        <5> QED BY <1>1, <4>4, <5>2
      <4>7. Path(name)[k] = w[k]
        BY <4>3, <4>5, <4>6
      <4> QED BY <1>5, <4>5, <4>6, <4>7 DEF Belongs
    <3>4. prev[w[j]] = w[j - 1]
      BY <1>6, <3>3 DEF Strung
    <3>5. j \in 2..m
      <4>1. w[j - 1] # Root
        BY <2>2, <3>1, <3>4 DEF Swap, MayMove
      <4>2. j # 1
        BY <1>6, <4>1
      <4> QED BY <1>1, <3>3, <4>2
    <3>6. /\ next' = [next EXCEPT ![prev[w[j - 1]]] = w[j], ![w[j]] = w[j - 1], ![w[j - 1]] = next[w[j]]]
          /\ prev' = [p \in DOMAIN prev |->
                        CASE p = w[j - 1] -> w[j] [] p = w[j] -> prev[w[j - 1]] [] p = next[w[j]] -> w[j - 1]
                          [] p = Root /\ prev[Root] = w[j - 1] -> w[j] [] OTHER -> prev[p]]
      BY <2>2, <3>1, <3>4 DEF Swap, Swapped
    <3>7. PICK v : v = Exchanged(w, m, j)
      OBVIOUS
    <3>8. Strung(next', prev', v, m)
      <4>1. Swaps(next, prev, w[j - 1], w[j], next', prev')
        BY <3>6 DEF Swaps
      <4> QED BY <1>6, <3>5, <3>7, <4>1, SwapKeeps
    <3>9. /\ j - 1 \in 1..m /\ j - 1 \in 0..(m + 1) /\ j \in 0..(m + 1) /\ j # j - 1
          /\ \A i \in 1..m : i \in 0..(m + 1)
      BY <1>1, <3>5
    <3>10. /\ v[j - 1] = w[j] /\ v[j] = w[j - 1]
           /\ \A i \in 1..m : i # j /\ i # j - 1 => v[i] = w[i]
      BY <3>7, <3>9 DEF Exchanged
    <3>11. {v[i] : i \in 1..m} = {w[i] : i \in 1..m}
      BY <3>3, <3>9, <3>10
    <3>12. Threaded' = Threaded
      <4>1. {n \in Nodes : prev'[n] # NULL} = {v[i] : i \in 1..m}
        BY <3>8, ThreadedIs
      <4> QED BY <1>6, <3>11, <4>1 DEF Threaded
    <3>13. prev'[Root] \in Nodes => prev'[prev'[Root]] # NULL
      <4>1. next[w[j]] # Root /\ w[j] # Root /\ w[j - 1] # Root /\ Root \in DOMAIN prev
        <5>1. next[w[j]] \in Nodes \cup {NULL} /\ Root \in DOMAIN prev
          BY <1>6, <3>3 DEF Strung
        <5> QED BY <1>6, <3>3, <3>9, <5>1, NoItems
      <4>2. prev'[Root] = IF prev[Root] = w[j - 1] THEN w[j] ELSE prev[Root]
        BY <3>6, <4>1
      <4>3. w[j] \in Threaded /\ (prev[Root] \in Nodes => prev[Root] \in Threaded)
        BY <1>2, <1>6, <3>3 DEF Walks, Threaded
      <4>4. prev'[Root] \in Nodes => prev'[Root] \in Threaded'
        BY <3>12, <4>2, <4>3
      <4> QED BY <4>4 DEF Threaded
    <3>14. hits' = m /\ Is("SELFORG")' /\ ~Is("ORDERED")'
      BY <1>6, <1>8, <3>1, <3>2 DEF Is
    <3>15. Walks(v, m)'
      BY <3>8, <3>13, <3>14 DEF Walks
    <3> QED BY <3>12, <3>15
  <2> QED BY <1>8, <2>1, <2>2
<1>13. PICK v : Walks(v, m)' /\ Threaded' = Threaded
  BY <1>12
<1>14. CachedIsIn'
  BY <1>4, <1>8, <1>10, <1>13 DEF CachedIsIn
<1>15. FindsWhatIsThere'
  <2>1. CASE hit
    <3>1. w[j] # NULL
      BY <1>10, <2>1, NoItems
    <3> QED BY <1>8, <1>10, <1>13, <2>1, <3>1 DEF FindsWhatIsThere
  <2>2. CASE ~hit
    BY <1>8, <1>11, <1>13, <2>2 DEF FindsWhatIsThere
  <2> QED BY <2>1, <2>2
<1>16. FieldsOK'
  <2>1. found' \in Nodes \cup {NULL} /\ side' \in Nodes \cup {NULL}
    BY <1>4, <1>8, <1>10 DEF FieldsOK
  <2> QED BY <1>4, <1>8, <2>1 DEF FieldsOK
<1> QED BY <1>1, <1>13, <1>14, <1>15, <1>16 DEF ListInv

\* What is deleted leaves the list, and neither the cache nor the head points to it.
LEMMA DeleteKeeps ==
  ASSUME ListInv, Delete
  PROVE  ListInv'
<1>1. PICK m \in Nat : \E w : Walks(w, m)
  BY DEF ListInv
<1>2. PICK w : Walks(w, m)
  BY <1>1
<1>3. PICK n \in Threaded :
        /\ next' = [next EXCEPT ![prev[n]] = next[n], ![n] = NULL]
        /\ prev' = [p \in DOMAIN prev |->
             CASE p = n -> NULL [] p = Root -> LastWithout(n)
               [] p = next[n] -> prev[n] [] OTHER -> prev[p]]
        /\ side' = SideWithout(n) /\ hits' = hits - 1
        /\ \E t \in Tags : tag' = [tag EXCEPT ![n] = t]
        /\ Forget
        /\ UNCHANGED flags
  BY DEF Delete
<1>4. /\ Strung(next, prev, w, m) /\ hits = m /\ w[0] = Root
      /\ Threaded = {w[i] : i \in 1..m} /\ \A i \in 1..m : w[i] \in Nodes
  BY <1>2, AtAPlace DEF Walks, Strung
<1>5. PICK j \in 1..m : w[j] = n
  BY <1>3, <1>4
<1>6. PICK r : r = LastWithout(n)
  OBVIOUS
<1>7. prev[n] = w[j - 1] /\ n \in Nodes /\ prev[Root] \in Nodes \cup {NULL, Root} /\ prev[n] \in Nodes \cup {NULL, Root}
  BY <1>4, <1>5 DEF Strung
<1>8. r = (IF prev[Root] # n THEN prev[Root] ELSE IF w[j - 1] = Root THEN NULL ELSE w[j - 1])
  BY <1>6, <1>7 DEF LastWithout
<1>9. r \in Nodes \cup {NULL, Root}
  BY <1>7, <1>8
<1>10. /\ next' = [next EXCEPT ![prev[w[j]]] = next[w[j]], ![w[j]] = NULL]
       /\ prev' = [p \in DOMAIN prev |->
             CASE p = w[j] -> NULL [] p = Root -> r
               [] p = next[w[j]] -> prev[w[j]] [] OTHER -> prev[p]]
  BY <1>3, <1>5, <1>6
<1>11. PICK v : v = LeftOut(w, m, j)
  OBVIOUS
<1>12. Strung(next', prev', v, m - 1)
  <2>1. TakesOut(next, prev, w[j], r, next', prev')
    BY <1>10 DEF TakesOut
  <2> QED BY <1>4, <1>9, <1>11, <2>1, TakeOut
<1>13. hits' = m - 1 /\ m - 1 \in Nat
  BY <1>1, <1>3, <1>4
<1>14. \A i \in 0..m : v[i] = IF i < j THEN w[i] ELSE w[i + 1]
  BY <1>11 DEF LeftOut
<1>15. prev'[Root] = r
  <2>1. Root \in DOMAIN prev /\ Root # w[j]
    BY <1>4, <1>5, <1>7, NoItems DEF Strung
  <2>2. prev' = [p \in DOMAIN prev |->
                   CASE p = w[j] -> NULL [] p = Root -> r
                     [] p = next[w[j]] -> prev[w[j]] [] OTHER -> prev[p]]
    BY <1>10
  <2>3. next[w[j]] # Root
    <3>1. next[w[j]] \in Nodes \cup {NULL}
      BY <1>4, <1>5, <1>7 DEF Strung
    <3> QED BY <3>1, NoItems
  <2> QED BY <2>1, <2>2, <2>3
<1>16. j \in Nat /\ 1 <= j /\ j <= m /\ m \in Nat
  BY <1>1
<1>17. ~Is("SELFORG")' => IF m - 1 = 0 THEN prev'[Root] \in {NULL, Root} ELSE prev'[Root] = v[m - 1]
  <2> SUFFICES ASSUME ~Is("SELFORG")'
               PROVE  IF m - 1 = 0 THEN prev'[Root] \in {NULL, Root} ELSE prev'[Root] = v[m - 1]
    OBVIOUS
  <2>1. ~Is("SELFORG")
    BY <1>3 DEF Is
  <2>2. prev[Root] = w[m]
    BY <1>2, <1>16, <2>1 DEF Walks
  <2>3. CASE j = m
    <3>1. r = IF w[m - 1] = Root THEN NULL ELSE w[m - 1]
      BY <1>5, <1>8, <2>2, <2>3
    <3>2. m - 1 # 0 => m - 1 \in 0..m /\ m - 1 < j /\ m - 1 \in 1..m
      BY <1>16, <2>3
    <3>3. m - 1 # 0 => v[m - 1] = w[m - 1] /\ w[m - 1] # Root
      BY <1>4, <1>14, <3>2, NoItems
    <3>4. m - 1 = 0 => w[m - 1] = Root
      BY <1>4
    <3> QED BY <1>15, <3>1, <3>3, <3>4
  <2>4. CASE j # m
    <3>1. m \in 0..m /\ j \in 0..m /\ m - 1 \in 0..m /\ ~(m - 1 < j) /\ (m - 1) + 1 = m /\ m - 1 # 0
      BY <1>16, <2>4
    <3>2. w[m] # w[j]
      BY <1>4, <2>4, <3>1, Places
    <3>3. r = w[m]
      BY <1>5, <1>8, <2>2, <3>2
    <3> QED BY <1>14, <1>15, <3>1, <3>3
  <2> QED BY <2>3, <2>4
<1>18. \A x \in Nodes : prev[x] # NULL /\ x # n => prev'[x] # NULL
  <2> SUFFICES ASSUME NEW x \in Nodes, prev[x] # NULL, x # n PROVE prev'[x] # NULL
    OBVIOUS
  <2>1. x \in DOMAIN prev /\ x # Root /\ x # w[j]
    BY <1>4, <1>5, NoItems DEF Strung
  <2>2. prev'[x] = IF x = next[w[j]] THEN prev[w[j]] ELSE prev[x]
    BY <1>10, <2>1
  <2>3. prev[w[j]] # NULL
    BY <1>4, Places
  <2> QED BY <2>2, <2>3
<1>19. prev'[Root] \in Nodes => prev'[prev'[Root]] # NULL
  <2> SUFFICES ASSUME r \in Nodes PROVE prev'[r] # NULL
    BY <1>15
  <2>1. CASE prev[Root] # n
    BY <1>2, <1>8, <1>18, <2>1 DEF Walks
  <2>2. CASE prev[Root] = n
    <3>1. r = w[j - 1]
      BY <1>8, <2>2, NoItems
    <3>2. j - 1 \in 1..m /\ j - 1 \in 0..m /\ j \in 0..m /\ j - 1 # j
      <4>1. j - 1 # 0
        BY <1>4, <3>1, NoItems
      <4> QED BY <1>16, <4>1
    <3>3. prev[r] # NULL /\ r # n
      BY <1>4, <1>5, <3>1, <3>2, Places
    <3> QED BY <1>18, <3>3
  <2> QED BY <2>1, <2>2
<1>20. \A i \in 1..(m - 1) : /\ \E k \in 1..m : v[i] = w[k] /\ k = IF i < j THEN i ELSE i + 1
                             /\ v[i] # n
  <2> SUFFICES ASSUME NEW i \in 1..(m - 1)
               PROVE  /\ \E k \in 1..m : v[i] = w[k] /\ k = IF i < j THEN i ELSE i + 1
                      /\ v[i] # n
    OBVIOUS
  <2>1. PICK k \in 1..m : k = IF i < j THEN i ELSE i + 1
    BY <1>16
  <2>2. v[i] = w[k]
    <3>1. i \in 0..m
      BY <1>16
    <3> QED BY <1>14, <2>1, <3>1
  <2>3. k # j /\ k \in 0..m /\ j \in 0..m
    BY <1>16, <2>1
  <2>4. w[k] # w[j]
    BY <1>4, <2>3, Places
  <2> QED BY <1>5, <2>1, <2>2, <2>4
<1>21. Is("ORDERED")' => \A i, k \in 1..(m - 1) : i <= k => tag'[v[i]] <= tag'[v[k]]
  <2> SUFFICES ASSUME Is("ORDERED")', NEW i \in 1..(m - 1), NEW k \in 1..(m - 1), i <= k
               PROVE  tag'[v[i]] <= tag'[v[k]]
    OBVIOUS
  <2>1. PICK a \in 1..m : v[i] = w[a] /\ a = IF i < j THEN i ELSE i + 1
    BY <1>20
  <2>2. PICK c \in 1..m : v[k] = w[c] /\ c = IF k < j THEN k ELSE k + 1
    BY <1>20
  <2>3. a <= c
    BY <1>16, <2>1, <2>2
  <2>4. tag[w[a]] <= tag[w[c]]
    BY <1>2, <1>3, <2>3 DEF Walks, Is
  <2>5. tag \in [Nodes -> Tags] /\ v[i] \in Nodes /\ v[k] \in Nodes /\ v[i] # n /\ v[k] # n
    BY <1>4, <1>20, <2>1, <2>2 DEF ListInv, FieldsOK
  <2>6. tag'[v[i]] = tag[v[i]] /\ tag'[v[k]] = tag[v[k]]
    BY <1>3, <2>5
  <2> QED BY <2>1, <2>2, <2>4, <2>6
<1>22. Walks(v, m - 1)'
  BY <1>12, <1>13, <1>17, <1>19, <1>21 DEF Walks
<1>23. CachedIsIn'
  <2> SUFFICES ASSUME side' # NULL PROVE side' \in Threaded'
    BY DEF CachedIsIn
  <2>1. side' = side /\ side # n
    BY <1>3 DEF SideWithout
  <2>2. side \in Nodes /\ prev[side] # NULL
    BY <2>1 DEF ListInv, CachedIsIn, Threaded
  <2> QED BY <1>18, <2>1, <2>2 DEF Threaded
<1>24. FieldsOK' /\ FindsWhatIsThere'
  <2>1. side' \in Nodes \cup {NULL}
    BY <1>3 DEF SideWithout, ListInv, FieldsOK
  <2>2. tag' \in [Nodes -> Tags]
    BY <1>3 DEF ListInv, FieldsOK
  <2> QED BY <1>3, <2>1, <2>2 DEF ListInv, FieldsOK, FindsWhatIsThere, Forget
<1> QED BY <1>13, <1>22, <1>23, <1>24 DEF ListInv

\* An empty list.
LEMMA EmptyIs ==
  ASSUME NEW nx, nx = [n \in Nodes \cup {Root} |-> NULL],
         NEW pv, pv = [n \in Nodes \cup {Root} |-> IF n = Root THEN Root ELSE NULL]
  PROVE  \E w : Strung(nx, pv, w, 0)
<1> DEFINE w == [i \in 0..1 |-> IF i = 0 THEN Root ELSE NULL]
<1>1. w[0] = Root /\ w[0 + 1] = NULL
  OBVIOUS
<1>2. \A n \in Nodes : pv[n] = NULL
  BY NoItems
<1>3. nx[Root] = NULL /\ 1..0 = {} /\ 0..0 = {0}
  OBVIOUS
<1> HIDE DEF w
<1>4. Strung(nx, pv, w, 0)
  BY <1>1, <1>2, <1>3 DEF Strung
<1> QED BY <1>4

\* ListClear leaves it empty.
LEMMA ClearKeeps ==
  ASSUME ListInv, Clear
  PROVE  ListInv'
<1>1. PICK m \in Nat : \E w : Walks(w, m)
  BY DEF ListInv
<1>2. DOMAIN next = Nodes \cup {Root} /\ DOMAIN prev = Nodes \cup {Root}
  BY <1>1 DEF Walks, Strung
<1>3. /\ next' = [n \in Nodes \cup {Root} |-> NULL]
      /\ prev' = [n \in Nodes \cup {Root} |-> IF n = Root THEN Root ELSE NULL]
      /\ side' = NULL /\ hits' = 0 /\ Forget /\ UNCHANGED <<flags, tag>>
  BY <1>2 DEF Clear
<1>4. PICK w : Strung(next', prev', w, 0)
  BY <1>3, EmptyIs
<1>5. prev'[Root] = Root /\ Root \notin Nodes
  BY <1>3, NoItems
<1>6. Walks(w, 0)'
  BY <1>3, <1>4, <1>5 DEF Walks
<1>7. FieldsOK' /\ CachedIsIn' /\ FindsWhatIsThere'
  BY <1>3 DEF ListInv, FieldsOK, CachedIsIn, FindsWhatIsThere, Forget
<1> QED BY <1>6, <1>7 DEF ListInv

\* What the properties say of a list follows.
LEMMA ListInvSays ==
  ASSUME ListInv
  PROVE  ListTypeOK /\ ListSound
<1>1. PICK m \in Nat : \E w : Walks(w, m)
  BY DEF ListInv
<1>2. PICK w : Walks(w, m)
  BY <1>1
<1>3. /\ Strung(next, prev, w, m) /\ hits = m /\ w[0] = Root /\ Threaded = {w[i] : i \in 1..m}
      /\ \A i \in 1..m : w[i] \in Nodes /\ prev[w[i]] = w[i - 1]
  BY <1>2, AtAPlace DEF Walks, Strung
<1>4. Items = [k \in 1..m |-> w[k]]
  <2>1. 0 \in 0..m /\ m - 0 = m /\ \A k \in 1..m : 0 + k = k
    BY <1>1
  <2>2. From(w[0]) = [k \in 1..(m - 0) |-> w[0 + k]]
    <3>1. PICK z \in 0..m : z = 0
      BY <2>1
    <3>2. Strung(next, prev, w, m)
      BY <1>3
    <3>3. From(w[z]) = [k \in 1..(m - z) |-> w[z + k]]
      BY <3>2, FromIs
    <3> QED BY <3>1, <3>3
  <2>3. [k \in 1..(m - 0) |-> w[0 + k]] = [k \in 1..m |-> w[k]]
    BY <2>1
  <2> QED BY <1>3, <2>2, <2>3 DEF Items
<1>5. Items \in Seq(Nodes) /\ Len(Items) = m /\ DOMAIN Items = 1..m /\ \A k \in 1..m : Items[k] = w[k]
  BY <1>1, <1>3, <1>4
<1>6. (Items = <<>>) <=> (m = 0)
  BY <1>1, <1>5, EmptySeq
<1>7. LinksAgree
  <2>1. {Items[k] : k \in DOMAIN Items} = Threaded
    BY <1>3, <1>5
  <2>2. \A k \in DOMAIN Items : prev[Items[k]] = IF k = 1 THEN Root ELSE Items[k - 1]
    <3> SUFFICES ASSUME NEW k \in 1..m PROVE prev[Items[k]] = IF k = 1 THEN Root ELSE Items[k - 1]
      BY <1>5
    <3>1. prev[Items[k]] = w[k - 1]
      BY <1>3, <1>5
    <3>2. k = 1 => w[k - 1] = Root
      BY <1>3
    <3>3. k # 1 => k - 1 \in 1..m
      BY <1>1
    <3> QED BY <1>5, <3>1, <3>2, <3>3
  <2> QED BY <1>3, <1>5, <2>1, <2>2 DEF LinksAgree
<1>8. LastIsLast
  <2>1. ~Is("SELFORG") => IF m = 0 THEN prev[Root] \in {NULL, Root} ELSE prev[Root] = w[m]
    BY <1>2 DEF Walks
  <2>2. m # 0 => m \in 1..m
    BY <1>1
  <2>3. ~Is("SELFORG") =>
          IF Items = <<>> THEN prev[Root] \in {NULL, Root} ELSE prev[Root] = Items[Len(Items)]
    BY <1>5, <1>6, <2>1, <2>2
  <2> QED BY <2>3 DEF LastIsLast
<1>9. StaysOrdered
  <2>1. Is("ORDERED") => \A k \in 2..Len(Items) : tag[Items[k - 1]] <= tag[Items[k]]
    <3> SUFFICES ASSUME Is("ORDERED"), NEW k \in 2..m PROVE tag[Items[k - 1]] <= tag[Items[k]]
      BY <1>5
    <3>1. k - 1 \in 1..m /\ k \in 1..m /\ k - 1 <= k
      BY <1>1
    <3>2. tag[w[k - 1]] <= tag[w[k]]
      BY <1>2, <3>1 DEF Walks
    <3> QED BY <1>5, <3>1, <3>2
  <2> QED BY <2>1 DEF StaysOrdered
<1>10. ListTypeOK
  BY <1>1, <1>3 DEF ListInv, FieldsOK, ListTypeOK, Strung
<1> QED BY <1>7, <1>8, <1>9, <1>10 DEF ListInv, ListSound

\* However many items a list has, and however they come, are sought, found in the cache,
\* moved up and deleted: it has each once, the way back is the way there, the head knows
\* their number and the last one, the order holds, and what is in is found.  No list is both
\* ordered and reorganising itself (an item that is moved up would be out of order).
THEOREM ListsStaySound ==
  ASSUME \A set \in FlagSets : ~({"ORDERED", "SELFORG"} \subseteq set)
  PROVE  ListSpec => [](ListTypeOK /\ ListSound /\ FindsWhatIsThere)
<1>1. ListInit => ListInv
  <2> SUFFICES ASSUME ListInit PROVE ListInv
    OBVIOUS
  <2>1. PICK w : Strung(next, prev, w, 0)
    BY EmptyIs DEF ListInit
  <2>2. prev[Root] = Root /\ Root \notin Nodes /\ hits = 0
    BY NoItems DEF ListInit
  <2>3. Walks(w, 0)
    BY <2>1, <2>2 DEF Walks
  <2>4. FieldsOK /\ CachedIsIn /\ FindsWhatIsThere
    BY DEF ListInit, FieldsOK, CachedIsIn, FindsWhatIsThere
  <2> QED BY <2>3, <2>4 DEF ListInv
<1>2. ListInv /\ [ListNext]_listVars => ListInv'
  <2> SUFFICES ASSUME ListInv, [ListNext]_listVars PROVE ListInv'
    OBVIOUS
  <2>1. ~(Is("ORDERED") /\ Is("SELFORG"))
    BY DEF ListInv, FieldsOK, Is
  <2>2. CASE Add
    BY <2>2, AddKeeps
  <2>3. CASE OrderedAdd
    BY <2>1, <2>3, OrderedAddKeeps
  <2>4. CASE Find
    BY <2>1, <2>4, FindKeeps
  <2>5. CASE Delete
    BY <2>5, DeleteKeeps
  <2>6. CASE Clear
    BY <2>6, ClearKeeps
  <2>7. CASE UNCHANGED listVars
    BY <2>7 DEF listVars, ListInv, Walks, FieldsOK, CachedIsIn, FindsWhatIsThere, Threaded, Is
  <2> QED BY <2>2, <2>3, <2>4, <2>5, <2>6, <2>7 DEF ListNext
<1>3. ListInv => ListTypeOK /\ ListSound /\ FindsWhatIsThere
  BY ListInvSays DEF ListInv
<1> QED BY <1>1, <1>2, <1>3, PTL DEF ListSpec
=============================================================================
