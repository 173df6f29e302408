---------------------------- MODULE TerminalKeys ----------------------------
(***************************************************************************)
(* The keys of a terminal (libUseful/TerminalKeys.c, TerminalReadChar of   *)
(* Terminal.c): the control sequences that a key sends and the key that is *)
(* read from them, and the names of keys and the key that a name stands    *)
(* for.  A key is a modifier and a word, as its code is a base and a code. *)
(***************************************************************************)
EXTENDS Integers, SequencesExt, FiniteSetsExt, TLC

CONSTANTS
  Letters,   \* keys that send the character they are called
  MaxTyped   \* bound: keys typed

ASSUME KeysAssumption == Letters \subseteq {"a", "h", "x", "~", "5"} /\ MaxTyped \in Nat

VARIABLES
  typed,  \* history: the keys pressed, with what each sent
  chars,  \* what of it is still to be read
  got     \* the keys read

keyVars == <<typed, chars, got>>

-----------------------------------------------------------------------------
(* The tables                                                              *)

FunctionWords == <<"F1", "F2", "F3", "F4", "F5", "F6", "F7", "F8", "F9", "F10", "F11", "F12", "F13", "F14">>
CursorWords == "A" :> "UP" @@ "B" :> "DOWN" @@ "C" :> "RIGHT" @@ "D" :> "LEFT"
CursorOrEnd == CursorWords @@ "F" :> "END" @@ "H" :> "HOME"
FirstFunctions == "P" :> "F1" @@ "Q" :> "F2" @@ "R" :> "F3" @@ "S" :> "F4"

\* The numbers of ESC [ n ~.
Functions(from, to, word) == [n \in from..to |-> FunctionWords[n - from + word]]
EditWords == <<"HOME", "INSERT", "DELETE", "END", "PGUP", "PGDN">>
NumberedFunctions ==
  Functions(11, 15, 1) @@ 16 :> "F6" @@ Functions(17, 21, 6) @@ Functions(23, 26, 11)
NumberWords == EditWords @@ NumberedFunctions @@ 28 :> "WIN" @@ 29 :> "MENU"

\* Those of ESC [ n ; m ~, and of ESC [ n ; ~.
PageWords == 5 :> "PGUP" @@ 6 :> "PGDN"
ModifiedNumbers == PageWords @@ 15 :> "F5" @@ Functions(17, 21, 6) @@ Functions(23, 24, 11)
BareNumbers == PageWords @@ 15 :> "F5" @@ Functions(17, 18, 6) @@ Functions(19, 22, 9)

Modifiers == "2" :> "SHIFT" @@ "3" :> "ALT" @@ "5" :> "CTRL"
Digits == "0" :> 0 @@ "1" :> 1 @@ "2" :> 2 @@ "3" :> 3 @@ "4" :> 4 @@ "5" :> 5 @@ "6" :> 6
            @@ "7" :> 7 @@ "8" :> 8 @@ "9" :> 9

\* By the character that is 32 more than the button.
MouseButtons ==
  " " :> "MOUSE1" @@ "!" :> "MOUSE2" @@ "quote" :> "MOUSE3" @@ "#" :> "MOUSE0" @@ "grave" :> "MOUSE4" @@ "a" :> "MOUSE5"

-----------------------------------------------------------------------------
(* Reading: a key and where the rest begins                                *)

KeyChar(i) == IF i <= Len(chars) THEN chars[i] ELSE "none"
Read(mod, word, next) == [key |-> <<mod, word>>, next |-> next]
NoKey(next) == Read("", "NUL", next)
InTable(table, at, mod, next) ==
  IF at \in DOMAIN table THEN Read(mod, table[at], next) ELSE NoKey(next)

\* ESC [ 1 ; m and ESC [ 2 ; m, with m at i; an unknown m leaves the letter unread.
TerminalReadCSISeqSemicolon1(i) ==
  IF KeyChar(i) \in DOMAIN Modifiers
    THEN InTable(CursorOrEnd @@ FirstFunctions, KeyChar(i + 1), Modifiers[KeyChar(i)], i + 2)
    ELSE NoKey(i + 1)

TerminalReadCSISeqSemicolon2(i) ==
  IF KeyChar(i) \in DOMAIN Modifiers
    THEN InTable(IF KeyChar(i) = "5" THEN CursorOrEnd @@ FirstFunctions ELSE CursorOrEnd,
                 KeyChar(i + 1), Modifiers[KeyChar(i)], i + 2)
    ELSE NoKey(i + 1)

\* ESC [ n ; m ~ and ESC [ n ; ~.
ReadModified(i, n) ==
  IF KeyChar(i + 1) = "~" THEN InTable(ModifiedNumbers, n, Modifiers[KeyChar(i)], i + 2) ELSE NoKey(i + 2)
ReadBare(i, n) == InTable(BareNumbers, n, "CTRL", i + 1)

TerminalReadCSISeqSemicolon(i, n) ==
  IF KeyChar(i) \in DOMAIN Modifiers THEN ReadModified(i, n)
  ELSE IF KeyChar(i) = "~" THEN ReadBare(i, n) ELSE NoKey(i + 1)

\* A variant of Number below with a slip in it, used by nothing: the property is
\* tried with it in the place of Number.
OneDigit(i) == [value |-> Digits[KeyChar(i)], next |-> i + 1]

\* One digit or two.
Number(i) ==
  IF KeyChar(i + 1) \in DOMAIN Digits
    THEN [value |-> (10 * Digits[KeyChar(i)]) + Digits[KeyChar(i + 1)], next |-> i + 2]
    ELSE [value |-> Digits[KeyChar(i)], next |-> i + 1]

\* What is behind the number: a key, with shift, with ctrl, or more of it.
ReadPlain(n, next) == InTable(NumberWords, n, "", next)
ReadShifted(n, next) == InTable(NumberWords, n, "SHIFT", next)
ReadControlled(n, next) == InTable(NumberWords, n, "CTRL", next)

TerminalReadCSISeqNum(i) ==
  LET n == Number(i)
      final == KeyChar(n.next)
  IN  CASE final = "~" -> ReadPlain(n.value, n.next + 1)
        [] final = "$" -> ReadShifted(n.value, n.next + 1)
        [] final = "^" -> ReadControlled(n.value, n.next + 1)
        [] final = ";" /\ n.value = 1 -> TerminalReadCSISeqSemicolon1(n.next + 1)
        [] final = ";" /\ n.value = 2 -> TerminalReadCSISeqSemicolon2(n.next + 1)
        [] final = ";" /\ n.value \notin {1, 2} -> TerminalReadCSISeqSemicolon(n.next + 1, n.value)
        [] OTHER -> NoKey(n.next + 1)

\* The button, x and y, a character each.
TerminalReadCSIMouse(i) == InTable(MouseButtons, KeyChar(i), "", i + 3)

ShiftedCursor == "a" :> "UP" @@ "b" :> "DOWN" @@ "c" :> "RIGHT" @@ "d" :> "LEFT"
CSILetters ==
  CursorOrEnd @@ "P" :> "PAUSE" @@ "Z" :> "END" @@ "I" :> "FOCUS_IN" @@ "O" :> "FOCUS_OUT"

TerminalReadCSISeq(i) ==
  LET c == KeyChar(i) IN
  CASE c \in DOMAIN ShiftedCursor -> Read("SHIFT", ShiftedCursor[c], i + 1)
    [] c \in DOMAIN CSILetters -> Read("", CSILetters[c], i + 1)
    [] c = "M" -> TerminalReadCSIMouse(i + 1)
    [] c \in DOMAIN Digits -> TerminalReadCSISeqNum(i)
    [] OTHER -> Read("", c, i + 1)

\* ESC ] 52 ; c or p ; text BEL: the answer of a terminal that is asked for its
\* clipboard.
Selections == "c" :> "CLIPBOARD" @@ "p" :> "SELECTION"
TerminalReadOSCSeq(i) ==
  LET bells == {k \in i..Len(chars) : chars[k] = "BEL"} IN
  IF KeyChar(i) # "5" THEN NoKey(i + 1)
  ELSE IF KeyChar(i + 1) # "2" THEN NoKey(i + 2)
  ELSE IF KeyChar(i + 2) # ";" \/ bells = {} THEN NoKey(i + 3)
  ELSE InTable(Selections, KeyChar(i + 3), "", Min(bells) + 1)

\* ESC O
ControlledCursor == "A" :> "UP" @@ "B" :> "DOWN" @@ "c" :> "LEFT" @@ "d" :> "RIGHT"
SSCFunctions ==
  FirstFunctions @@ "t" :> "F5" @@ "u" :> "F6" @@ "v" :> "F7" @@ "l" :> "F8" @@ "w" :> "F9" @@ "x" :> "F10"

TerminalReadSSCSeq(i) ==
  LET c == KeyChar(i) IN
  CASE c \in DOMAIN ControlledCursor -> Read("CTRL", ControlledCursor[c], i + 1)
    [] c \in DOMAIN SSCFunctions -> Read("", SSCFunctions[c], i + 1)
    [] OTHER -> Read("", c, i + 1)

\* A character behind an ESC that begins no sequence is read as it is.
ReadEscape(i) ==
  CASE KeyChar(i) = "[" -> TerminalReadCSISeq(i + 1)
    [] KeyChar(i) = "]" -> TerminalReadOSCSeq(i + 1)
    [] KeyChar(i) = "O" -> TerminalReadSSCSeq(i + 1)
    [] OTHER -> Read("", KeyChar(i), i + 1)

-----------------------------------------------------------------------------
(* What keys send, by the terminal                                         *)

Sends(mod, word, seq) == [key |-> <<mod, word>>, seq |-> seq]
InverseOf(table, word) == CHOOSE at \in DOMAIN table : table[at] = word
DigitsOf(n) ==
  IF n < 10 THEN <<InverseOf(Digits, n)>> ELSE <<InverseOf(Digits, n \div 10), InverseOf(Digits, n % 10)>>
ModifierDigits == DOMAIN Modifiers

Keyboard ==
  {Sends("", c, <<c>>) : c \in Letters} \cup {Sends("", "ESC", <<"ESC", "ESC">>)} \cup
  {Sends("", CursorOrEnd[c], <<"ESC", "[", c>>) : c \in DOMAIN CursorOrEnd} \cup
  {Sends("SHIFT", ShiftedCursor[c], <<"ESC", "[", c>>) : c \in DOMAIN ShiftedCursor} \cup
  {Sends("", FirstFunctions[c], <<"ESC", "O", c>>) : c \in DOMAIN FirstFunctions} \cup
  {Sends(Modifiers[m], (CursorOrEnd @@ FirstFunctions)[c], <<"ESC", "[", "1", ";", m, c>>) :
     m \in ModifierDigits, c \in DOMAIN (CursorOrEnd @@ FirstFunctions)} \cup
  {Sends("", NumberWords[n], <<"ESC", "[">> \o DigitsOf(n) \o <<"~">>) : n \in DOMAIN NumberWords} \cup
  {Sends("SHIFT", NumberWords[n], <<"ESC", "[">> \o DigitsOf(n) \o <<"$">>) : n \in DOMAIN NumberWords} \cup
  {Sends("CTRL", NumberWords[n], <<"ESC", "[">> \o DigitsOf(n) \o <<"^">>) : n \in DOMAIN NumberWords} \cup
  {Sends(Modifiers[m], ModifiedNumbers[n], <<"ESC", "[">> \o DigitsOf(n) \o <<";", m, "~">>) :
     m \in ModifierDigits, n \in DOMAIN ModifiedNumbers} \cup
  {Sends("", MouseButtons[b], <<"ESC", "[", "M", b, "1", "~">>) : b \in DOMAIN MouseButtons} \cup
  {Sends("", Selections[c], <<"ESC", "]", "5", "2", ";", c, ";", "a", "BEL">>) : c \in DOMAIN Selections}

KeysInit == typed = <<>> /\ chars = <<>> /\ got = <<>>

Press(k) ==
  /\ Len(typed) < MaxTyped
  /\ typed' = Append(typed, k) /\ chars' = chars \o k.seq
  /\ UNCHANGED got

TerminalReadChar ==
  LET k == IF Head(chars) = "ESC" THEN ReadEscape(2) ELSE Read("", Head(chars), 2) IN
  /\ chars # <<>>
  /\ got' = Append(got, k.key)
  /\ chars' = SubSeq(chars, k.next, Len(chars))
  /\ UNCHANGED typed

KeysNext == TerminalReadChar \/ \E k \in Keyboard : Press(k)

KeysSpec == KeysInit /\ [][KeysNext]_keyVars

-----------------------------------------------------------------------------
(* Names                                                                   *)

ControlLetters == {"A", "B", "C", "D", "E", "F", "G", "K", "L", "N", "O", "P", "Q", "R", "S", "T", "U",
                   "V", "W", "X", "Y", "Z"}
EditingKeys == {"UP", "DOWN", "LEFT", "RIGHT", "HOME", "END", "PAUSE", "INSERT", "DELETE", "PGUP", "PGDN",
                "WIN", "MENU"}
OnlyPlain == {"SCROLL_LOCK", "FOCUS_IN", "FOCUS_OUT", "PRINT", "WWW", "HOMEPAGE", "FAVES", "SEARCH", "BACK",
              "FORWARD", "MAIL", "MESSENGER", "MEDIA", "MUTE", "MYCOMPUTER", "CALCULATOR", "ESC"}

\* The keys that TerminalTranslateKeyCode has a name for that is more than "?", which
\* is the modifier, if there is one, and the word.
PlainNames == {<<"", w>> : w \in ToSet(FunctionWords) \cup EditingKeys \cup OnlyPlain \cup Letters}
ShiftNames == {<<"SHIFT", w>> : w \in ToSet(FunctionWords) \cup EditingKeys}
CtrlNames == {<<"CTRL", w>> : w \in ToSet(FunctionWords) \cup EditingKeys \cup ControlLetters}
AltNames == {<<"ALT", w>> : w \in (ToSet(FunctionWords) \ {"F13", "F14"}) \cup EditingKeys}
Named == PlainNames \cup ShiftNames \cup CtrlNames \cup AltNames

\* TerminalTranslateKeyStrWithMod: words it does not know are their first character.
FirstLetter == "SCROLL_LOCK" :> "S" @@ "FOCUS_IN" :> "F" @@ "FOCUS_OUT" :> "F"
WordOf(word) == IF word \in DOMAIN FirstLetter THEN FirstLetter[word] ELSE word

\* TerminalTranslateKeyStr, which tests the first character of the name, and not of
\* the word, for a letter: a name that begins with CTRL is that of ctrl-c.
TerminalTranslateKeyStr(name) ==
  IF name[1] = "CTRL" THEN <<"CTRL", "C">> ELSE <<name[1], WordOf(name[2])>>

-----------------------------------------------------------------------------
(* Properties                                                              *)

KeysTypeOK == Len(got) <= Len(typed) /\ typed \in Seq(Keyboard)

\* What is read is what was typed, key by key, although sequences share their
\* beginnings and follow each other without a gap; and the name of a key that is read
\* is read back as the key, but for those of the CTRL keys and of FirstLetter.
KeysAsTyped ==
  /\ \A i \in DOMAIN got : got[i] = typed[i].key
  /\ chars = FlattenSeq([i \in 1..(Len(typed) - Len(got)) |-> typed[Len(got) + i].seq])
  /\ \A i \in DOMAIN got :
       got[i] \in Named /\ got[i][1] # "CTRL" /\ got[i][2] \notin DOMAIN FirstLetter
       => TerminalTranslateKeyStr(got[i]) = got[i]
=============================================================================
