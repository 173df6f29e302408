--------------------------- MODULE TerminalDialog ---------------------------
(***************************************************************************)
(* Asking at a terminal: a line that is typed (TerminalReadText of         *)
(* Terminal.c), one in a bar (TerminalBarReadText), a menu                 *)
(* (TerminalMenu.c) and a choice (TerminalChoice.c, TerminalBarMenu).  A   *)
(* step is one key, as TerminalReadChar returns it.  The text that is      *)
(* shown comes at the end.                                                 *)
(***************************************************************************)
EXTENDS Integers, SequencesExt, FiniteSetsExt

CONSTANTS
  TextFlags,  \* the ways to echo: "plain", "hide", "stars", "textstars"
  MaxLine,    \* bound: characters typed
  Columns,    \* of the terminal
  PromptLen,  \* columns of a bar's prompt
  MaxItems,   \* bound: items of a menu
  MaxHigh     \* bound: rows of a menu

ASSUME DialogAssumption ==
  /\ TextFlags \subseteq {"plain", "hide", "stars", "textstars"}
  /\ {MaxLine, Columns, PromptLen, MaxItems, MaxHigh} \subseteq Nat
  /\ PromptLen < Columns /\ MaxHigh > 0

VARIABLES
  widget,  \* what asks: "text", "bar", "menu" or "choice"
  echo,    \* Flags
  buf,     \* RetStr or TB->Text, up to its NUL
  len,     \* len or TB->TextLen
  edited,  \* history: the line as whoever types it means it
  screen,  \* the row of the line: its cells, and how many are before the cursor
  items,   \* the items of the menu
  high,    \* Menu->high
  cursor,  \* Options->Side, 0 for NULL
  marked,  \* the items with TERMMENU_SELECTED
  drawn,   \* the items that were drawn last
  answer   \* "none" as long as it asks, "given", or "NULL"

dialogVars ==
  <<widget, echo, buf, len, edited, screen, items, high, cursor, marked, drawn, answer>>
lineVars == <<buf, len, edited, screen>>
menuVars == <<items, high, cursor, marked, drawn>>

-----------------------------------------------------------------------------
(* TerminalReadText                                                        *)

PutCell(s, c) ==
  [cells |-> IF s.col < Len(s.cells) THEN [s.cells EXCEPT ![s.col + 1] = c] ELSE Append(s.cells, c),
   col |-> s.col + 1]
Back(s) == [s EXCEPT !.col = @ - 1]

\* The character before the cursor becomes a star.
Starred(s) == PutCell(Back(s), "*")

\* A key that is no character, such as an arrow, is taken for the low byte of its code.
Character ==
  \E c \in {"a", "b"} :
    /\ Len(edited) < MaxLine
    /\ buf' = SubSeq(buf, 1, len) \o <<c>> /\ len' = len + 1 /\ edited' = Append(edited, c)
    /\ screen' = CASE echo = "plain" -> PutCell(screen, c)
                   [] echo = "hide" -> screen
                   [] echo = "stars" -> PutCell(screen, "*")
                   [] echo = "textstars" -> PutCell(IF len > 0 THEN Starred(screen) ELSE screen, c)
    /\ UNCHANGED answer

\* The character stays in the buffer.
Erase ==
  /\ IF len = 0 THEN UNCHANGED lineVars
     ELSE /\ len' = len - 1 /\ edited' = Front(edited)
          /\ screen' = (LET blank == PutCell(Back(screen), " ") IN IF echo = "hide" THEN blank ELSE Back(blank))
          /\ UNCHANGED buf
  /\ UNCHANGED answer

Enter ==
  /\ answer' = "given"
  /\ screen' = (IF echo = "textstars" THEN Starred(screen) ELSE screen)
  /\ UNCHANGED <<buf, len, edited>>

Escape == answer' = "NULL" /\ UNCHANGED lineVars
HangUp == answer' = "given" /\ UNCHANGED lineVars

TerminalReadText ==
  /\ widget = "text"
  /\ Character \/ Erase \/ Enter \/ Escape \/ HangUp
  /\ UNCHANGED menuVars

-----------------------------------------------------------------------------
(* TerminalBarReadText                                                     *)

\* What of the buffer the bar shows: all, or the end of it.
TailFrom(length) == IF length + PromptLen > Columns - 1 THEN length - (Columns - 1 - PromptLen) ELSE 0
Shows(bytes, length) == [cells |-> SubSeq(bytes, TailFrom(length) + 1, Len(bytes)), col |-> Columns]

BarCharacter ==
  \E c \in {"a", "b"} :
    /\ Len(edited) < MaxLine
    /\ buf' = SubSeq(buf, 1, len) \o <<c>> /\ len' = len + 1 /\ edited' = Append(edited, c)
    /\ screen' = Shows(buf', len')
    /\ UNCHANGED answer

\* The NUL is put behind the character that goes, if there is a buffer at all.
BarErase ==
  /\ edited # <<>> \/ len > 0 \/ buf # <<>>
  /\ buf' = SubSeq(buf, 1, len)
  /\ len' = (IF len > 0 THEN len - 1 ELSE 0)
  /\ edited' = (IF edited = <<>> THEN <<>> ELSE Front(edited))
  /\ screen' = Shows(buf', len')
  /\ UNCHANGED answer

\* The text that was entered, the empty string for a timeout, or NULL at the end.
BarAnswer == answer' \in {"given", "NULL"} /\ UNCHANGED lineVars

TerminalBarReadText ==
  /\ widget = "bar"
  /\ BarCharacter \/ BarErase \/ BarAnswer
  /\ UNCHANGED menuVars

-----------------------------------------------------------------------------
(* TerminalMenu                                                            *)

\* MenuGetTop: as many items before the cursor as leave it on the menu.
MenuGetTop(side) == IF side = 0 THEN 1 ELSE Max({1, side - (high - 1)})
DrawnLines(side) == {i \in 1..items : i \in MenuGetTop(side)..(MenuGetTop(side) + high - 1)}

Move(side) == cursor' = side /\ drawn' = DrawnLines(side) /\ UNCHANGED <<marked, answer>>

First == Move(IF items = 0 THEN 0 ELSE 1)
Up(n) == Move(IF cursor = 0 THEN (IF items = 0 THEN 0 ELSE 1) ELSE Max({1, cursor - n}))
Down(n) == Move(IF cursor = 0 THEN (IF items = 0 THEN 0 ELSE 1) ELSE Min({items, cursor + n}))

Toggle ==
  /\ marked' = (IF cursor \in marked THEN marked \ {cursor}
                ELSE IF cursor # 0 THEN marked \cup {cursor} ELSE marked)
  /\ drawn' = DrawnLines(cursor)
  /\ UNCHANGED <<cursor, answer>>

\* Enter goes on in a menu without items; the end of the input is a key like others.
Pick ==
  /\ answer' = (IF cursor # 0 THEN "given" ELSE "none")
  /\ UNCHANGED <<cursor, marked>>
  /\ drawn' = (IF cursor # 0 THEN drawn ELSE DrawnLines(0))
Leave == answer' = "NULL" /\ UNCHANGED <<cursor, marked, drawn>>

TerminalMenuOnKey ==
  /\ widget = "menu"
  /\ First \/ Up(1) \/ Down(1) \/ Up(high) \/ Down(high) \/ Toggle \/ Pick \/ Leave
  /\ UNCHANGED <<items, high, lineVars>>

\* TerminalChoiceOnKey, TerminalBarMenu: all items in a row, and no escape.
TerminalChoiceOnKey ==
  /\ widget = "choice"
  /\ \/ cursor' = Max({1, cursor - 1}) /\ UNCHANGED answer
     \/ cursor' = Min({items, cursor + 1}) /\ UNCHANGED answer
     \/ answer' \in {"given", "NULL"} /\ UNCHANGED cursor
  /\ drawn' = 1..items
  /\ UNCHANGED <<items, high, marked, lineVars>>

-----------------------------------------------------------------------------
\* A text to be edited is shown as it is; TerminalMenu puts the cursor on the first
\* item, and a choice has items.
DialogInit ==
  /\ widget \in {"text", "bar", "menu", "choice"}
  /\ echo \in (IF widget = "text" THEN TextFlags ELSE {"plain"})
  /\ edited \in (IF widget = "text" THEN {<<>>, <<"a">>} ELSE {<<>>})
  /\ buf = edited /\ len = Len(edited)
  /\ screen = (IF widget = "bar" THEN Shows(<<>>, 0)
               ELSE [cells |-> <<"p">> \o edited, col |-> 1 + Len(edited)])
  /\ high \in (IF widget = "menu" THEN 1..MaxHigh ELSE {1})
  /\ items \in (CASE widget = "menu" -> 0..MaxItems [] widget = "choice" -> 1..MaxItems [] OTHER -> {0})
  /\ cursor = (IF items = 0 THEN 0 ELSE 1)
  /\ marked = {}
  /\ drawn = (CASE widget = "menu" -> DrawnLines(cursor) [] OTHER -> 1..items)
  /\ answer = "none"

DialogNext ==
  /\ answer = "none"
  /\ TerminalReadText \/ TerminalBarReadText \/ TerminalMenuOnKey \/ TerminalChoiceOnKey
  /\ UNCHANGED <<widget, echo>>

DialogSpec == DialogInit /\ [][DialogNext]_dialogVars

-----------------------------------------------------------------------------
(* Properties                                                              *)

DialogTypeOK ==
  /\ buf \in Seq({"a", "b"}) /\ len \in 0..Len(buf)
  /\ screen.col \in Nat /\ cursor \in 0..items /\ marked \subseteq 1..items
  /\ answer \in {"none", "given", "NULL"}

Cell(i) == IF i + 1 <= Len(screen.cells) THEN screen.cells[i + 1] ELSE " "

\* The row shows the line that is typed and nothing else behind the prompt: all of
\* it, none of it, stars, or stars and at most the character typed last; and what has
\* been erased is not to be seen.
LineShown ==
  widget = "text" /\ answer = "none" =>
    /\ SubSeq(buf, 1, len) = edited
    /\ echo # "hide" => screen.cells[1] = "p" /\ screen.col = 1 + len
    /\ \A i \in 1..(Len(screen.cells) - 1) : i > len => Cell(i) = " "
    /\ echo = "plain" => \A i \in 1..len : Cell(i) = edited[i]
    /\ echo \in {"stars", "textstars"} => Cardinality({i \in 1..len : Cell(i) # "*"}) <= 1

\* A bar's text fits into its row, whatever has been erased.
BarFits == widget = "bar" => PromptLen + Len(screen.cells) <= Columns /\ SubSeq(buf, 1, len) = edited

\* The item that Enter would return is on the menu that was drawn, and the menu is as
\* full as it can be above it.
CursorShown ==
  /\ widget \in {"menu", "choice"} /\ cursor # 0 => cursor \in drawn
  /\ widget = "menu" => drawn = {} \/ Cardinality(drawn) = Min({high, items - Min(drawn) + 1})

DialogsTrue == LineShown /\ BarFits /\ CursorShown

-----------------------------------------------------------------------------
(***************************************************************************)
(* Text with commands for a terminal (libUseful/Terminal.c, Unicode.c):    *)
(* "~r" and the like for colours, "\n" and the like for characters, and    *)
(* UTF-8.  The text is formatted by one function (TerminalFormatSubStr)   *)
(* and measured and cut by others, which have to agree with it.            *)
(***************************************************************************)

CONSTANTS
  TermTexts,       \* sequences of characters: "bs" is a backslash, "110" and "1110" the
               \* first bytes of UTF-8 characters and "10" one of the others
  CodePoints,  \* the code points that are encoded
  Wide,        \* columns of the terminal
  Levels       \* what the terminal can show: 0 no UTF-8, 1 two bytes, 2 three, 3 four

ASSUME TextAssumption ==
  /\ CodePoints \subseteq Nat /\ Wide \in Nat /\ Levels \subseteq 0..3

VARIABLES
  termText,    \* Str
  scan,    \* ptr, from 1
  out      \* RetStr: characters of one column, "line" for a new one, and "command"

formatVars == <<termText, scan, out>>

-----------------------------------------------------------------------------
(* Unicode.c                                                               *)

Bits(code, from, n) == (code \div (2 ^ from)) % (2 ^ n)

\* The bytes of a character at GlobalUnicodeLevel, and one "?" for one that cannot be shown or is 0.
UnicodeEncodeChar(atLevel, code) ==
  CASE code = 0 \/ atLevel = 0 -> <<63>>
    [] code \in 1..(2048 - 1) -> <<192 + Bits(code, 6, 5), 128 + Bits(code, 0, 6)>>
    [] code \in 2048..(65536 - 1) /\ atLevel > 1 ->
         <<224 + Bits(code, 12, 4), 128 + Bits(code, 6, 6), 128 + Bits(code, 0, 6)>>
    [] code \in 65536..(1114112 - 1) /\ atLevel > 2 ->
         <<240 + Bits(code, 18, 3), 128 + Bits(code, 12, 6), 128 + Bits(code, 6, 6), 128 + Bits(code, 0, 6)>>
    [] OTHER -> <<63>>

\* Five bits are taken of the byte in the middle.
Middle(byte) == byte % 32

\* The character, and 0 for one that is no start of a sequence or ends within it.
UnicodeDecode(bytes) ==
  LET after(k) == IF k <= Len(bytes) THEN bytes[k] % 128 ELSE 0 IN
  CASE Bits(bytes[1], 5, 3) = 6 ->
         IF Len(bytes) < 2 THEN 0 ELSE ((bytes[1] % 32) * 64) + after(2)
    [] Bits(bytes[1], 5, 3) = 7 ->
         IF Len(bytes) < 3 THEN 0
         ELSE ((bytes[1] % 32) * 4096) + (Middle(bytes[2]) * 64) + after(3)
    [] OTHER -> 0

-----------------------------------------------------------------------------
TextEnd == Len(termText) + 1
Here(i) == IF i < TextEnd THEN termText[i] ELSE "end"
Onward(i, n) == Min({i + n, TextEnd})

Colours == {"r"}
Commands == {"e", "0"}

\* TerminalConsumeCharacter and the step to the next: is it a column?
Consume(i) ==
  LET c == Here(i)
      d == Here(i + 1)
  IN  CASE c = "~" -> [real |-> d = "~",
                       next |-> 1 + (IF d \in {"+", "="} THEN Onward(i, 2) ELSE Onward(i, 1))]
        [] c = "bs" -> [real |-> d # "end",
                        next |-> 1 + (CASE d = "0" -> Onward(i, 5) [] d = "x" -> Onward(i, 4)
                                        [] OTHER -> Onward(i, 1))]
        [] c = "110" -> [real |-> TRUE, next |-> 1 + Onward(i, 1)]
        [] c = "1110" -> [real |-> TRUE, next |-> 1 + Onward(i, 2)]
        [] OTHER -> [real |-> TRUE, next |-> i + 1]

\* TerminalStrLen from i on.
StrLenFrom(i) ==
  LET from[j \in 1..(TextEnd + 1)] ==
        IF j >= TextEnd THEN 0
        ELSE (IF Consume(j).real THEN 1 ELSE 0) + from[Consume(j).next]
  IN  from[i]

\* TerminalStrTrunc: how much is left of the text. It is cut at the last byte of the
\* character that is one too many.
TruncatedTo(n) ==
  LET cut[j \in 1..(TextEnd + 1), k \in 0..TextEnd] ==
        IF j >= TextEnd THEN Len(termText)
        ELSE IF Consume(j).real /\ k = n THEN Consume(j).next - 2
        ELSE cut[Consume(j).next, IF Consume(j).real THEN k + 1 ELSE k]
  IN  cut[1, 0]

-----------------------------------------------------------------------------
(* TerminalFormatSubStr, a turn of its loop at a time                      *)

Adds(cells, next) == out' = out \o cells /\ scan' = next

\* The columns behind the last new line.
ColumnNow ==
  LET from == Max({0} \cup {k \in DOMAIN out : out[k] = "line"})
  IN  Cardinality({k \in (from + 1)..Len(out) : out[k] # "command"})

Escaped ==
  /\ Here(scan) = "bs"
  /\ LET d == Here(scan + 1) IN
     CASE d = "n" -> Adds(<<"line">>, scan + 2)
       [] d = "x" -> Adds(<<"a">>, Min({scan + 4, TextEnd}))
       [] d = "0" -> Adds(<<"a">>, Min({scan + 5, TextEnd}))
       [] OTHER -> Adds(<<d>>, scan + 2)

\* TerminalParseColor takes a bright colour's letter with its "+".
Tilde ==
  /\ Here(scan) = "~"
  /\ LET d == Here(scan + 1) IN
     CASE d = "end" -> Adds(<<>>, TextEnd)
       [] d = "~" -> Adds(<<"~">>, scan + 2)
       [] d = "+" -> Adds(IF Here(scan + 2) \in Colours THEN <<"command">> ELSE <<>>, scan + 3)
       [] d \in Colours \cup Commands -> Adds(<<"command">>, scan + 2)
       [] d = "=" -> Adds([k \in 1..(IF Wide > ColumnNow THEN Wide - ColumnNow ELSE 0) |-> Here(scan + 2)],
                          scan + 3)
       [] OTHER -> Adds(<<>>, scan + 2)

\* A character that the terminal cannot show becomes one "?".
Multibyte ==
  /\ Here(scan) \in {"110", "1110"}
  /\ LET n == IF Here(scan) = "110" THEN 2 ELSE 3
     IN  Adds(IF scan + n <= TextEnd THEN <<"u">> ELSE <<>>, Min({scan + n, TextEnd}))

Plain ==
  /\ Here(scan) \notin {"bs", "~", "110", "1110"}
  /\ Adds(<<Here(scan)>>, scan + 1)

TerminalFormatSubStr ==
  /\ scan < TextEnd
  /\ Escaped \/ Tilde \/ Multibyte \/ Plain
  /\ UNCHANGED termText

TextInit == termText \in TermTexts /\ scan = 1 /\ out = <<>>

TextSpec == TextInit /\ [][TerminalFormatSubStr]_formatVars

-----------------------------------------------------------------------------
(* Properties                                                              *)

TerminalTextTypeOK == scan \in 1..(TextEnd + 1)

Cells == Cardinality({k \in DOMAIN out : out[k] # "command"})

\* No command, escape or character is cut off by the end of the text, and it has none
\* of "\x", "\0" and "~=", which are measured otherwise than they are formatted.
WellFormed ==
  /\ \A i \in 1..Len(termText) : Here(i) = "bs" => Here(i + 1) \notin {"end", "x", "0"}
  /\ \A i \in 1..Len(termText) : Here(i) = "~" => Here(i + 1) \notin {"end", "="}
  /\ \A i \in 1..Len(termText) : Here(i) = "+" => Here(i + 1) # "end"
  /\ \A i \in 1..Len(termText) : Here(i) = "110" => Here(i + 1) = "10"
  /\ \A i \in 1..Len(termText) : Here(i) = "1110" => Here(i + 1) = "10" /\ Here(i + 2) = "10"

\* At each place what has been measured is what has been written so far, and a text
\* that is cut to n columns has no more than n, with the whole of what was before.
MeasuresAsFormatted ==
  WellFormed =>
    /\ scan <= TextEnd
    /\ Cells + StrLenFrom(scan) = StrLenFrom(1)
    /\ \A n \in 0..Len(termText) : scan - 1 <= TruncatedTo(n) => Cells <= n
    /\ \A n \in 0..Len(termText) : scan <= TextEnd /\ Cells < n => scan - 1 <= TruncatedTo(n)

\* A character is read back from its bytes, unless the bit that Middle drops is set
\* or it has four bytes.
ReadsBack ==
  \A code \in CodePoints, level \in Levels :
    LET bytes == UnicodeEncodeChar(level, code) IN
    Len(bytes) \in 2..3 /\ (code < 2048 \/ Bits(code, 11, 1) = 0) => UnicodeDecode(bytes) = code

TextTrue == MeasuresAsFormatted /\ ReadsBack
=============================================================================
