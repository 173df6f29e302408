----------------------------- MODULE MCLibrary -----------------------------
(* The parts of libUseful that need no network but a peer, in one run: the   *)
(* two sides of a stream, files, strings, lists and hashes.  They share no   *)
(* state: a behaviour is one of one part, and the others rest.               *)
EXTENDS StreamInput, StreamOutput, Strings, List, HashBlocks, Tokenizer,
  FileStream, StreamFind, TerminalKeys, TerminalDialog

VARIABLE part

MCTerms == {2, 3, 9}
MCStartPoints == {0, 2}
MCFlagSets ==
  {{}, {"CACHE"}, {"ORDERED"}, {"CACHE", "ORDERED"}, {"SELFORG"}, {"CACHE", "SELFORG"}}

\* A backslash that a pattern stops at within a partial match makes the search take
\* what it quotes for what it is: lines have none before a quote or a backslash.
MCLines ==
  {s \in UNION {[1..n -> {"a", ":", "_", "q", "b"}] : n \in 0..3} \cup
        [1..4 -> {"a", ":", "b"}] \cup [1..4 -> {":", "_", "q"}] :
     \A i \in 1..(Len(s) - 1) : s[i] = "b" => s[i + 1] \notin {"q", "b"}}
MCSeparators ==
  {<<<<":">>>>, <<<<":", ":">>>>, <<<<"S">>>>, <<<<":", ":">>, <<":">>>>, <<<<":">>, <<"S">>>>}
MCTokenFlags ==
  {{}, {"honor"}, {"honor", "include"}, {"honor", "append"}, {"include"},
   {"honor", "quotes"}, {"space"}, {"backslash", "append"}}

MCSubjects == UNION {[1..n -> {"a", "b"}] : n \in 0..3}
MCAlternatives ==
  {alt \in UNION {[1..n -> {"a", "?", "*", "+", "$", "[a]", "[!a]"}] : n \in 0..3} :
     \A k \in DOMAIN alt : alt[k] = "+" => k > 1 /\ alt[k - 1] \in {"a", "[a]"}}
MCPatterns ==
  {<<alt>> : alt \in MCAlternatives} \cup
  {<<<<"a">>, <<"a", "b">>>>, <<<<"b", "?">>, <<"?">>>>, <<<<"*", "b">>, <<"a", "b">>>>}

MCSortings ==
  UNION {{[k \in 1..n |-> [key |-> 2 * k, size |-> s[k]]] : s \in [1..n -> 2..3]} : n \in 0..5}
  \cup {<<[key |-> 2, size |-> 2], [key |-> 4, size |-> 8]>>}
MCConfigs ==
  {<<"r">>, <<"r", "c">>, <<"w">>, <<"r", "w">>, <<"w", "r", "L">>, <<"a">>, <<"w", "L">>,
   <<"r", "l">>, <<"w", "c", "x">>, <<"a", "l", "L">>, <<"w", "F">>, <<"r", "m">>, <<"a", "L">>,
   <<"w", "l">>, <<"w", "l", "L">>}

MCTermTexts ==
  UNION {[1..n -> {"a", "~", "+", "r", "bs", "110", "10"}] : n \in 0..4} \cup
  [1..3 -> {"~", "=", "bs", "n", "x", "0", "e", "1110", "10"}]

\* The inputs of the parts that are not at work are fixed.
Resting(name) == part # name
MCInputs ==
  /\ IF Resting("out") THEN flush = "full" /\ nonblock = FALSE /\ startPoint = 0 ELSE TRUE
  /\ IF Resting("hash") THEN kind = "md5" ELSE TRUE
  /\ IF Resting("lists") THEN flags = {} /\ tag = [n \in Nodes |-> 1] ELSE TRUE
  /\ IF Resting("tokens") THEN line = <<>> /\ seps = <<<<":">>>> /\ flag = {} ELSE TRUE
  /\ IF Resting("patterns")
       THEN subject = <<>> /\ pattern = <<<<"a">>>> /\ substr = TRUE /\ overlap = TRUE ELSE TRUE
  /\ IF Resting("file") THEN mode = "rw" /\ disk = <<>> ELSE TRUE
  /\ IF Resting("find") THEN lines = <<>> /\ item = 1 /\ sorted = FALSE ELSE TRUE
  /\ IF Resting("open")
       THEN config = [p \in Openers |-> <<"r">>] /\ linked = FALSE /\ exists = FALSE ELSE TRUE
  /\ IF Resting("dialog")
       THEN widget = "text" /\ echo = "plain" /\ edited = <<>> ELSE TRUE
  /\ IF Resting("format") THEN termText = <<>> ELSE TRUE

Init ==
  /\ part \in {"in", "out", "strings", "lists", "hash", "tokens", "patterns", "file", "find", "open",
               "keys", "dialog", "format"}
  /\ MCInputs
  /\ InputInit /\ OutputInit /\ StringsInit /\ ListInit /\ HashInit
  /\ TokenizerInit /\ PatternInit /\ FileInit /\ FindInit /\ OpenInit
  /\ KeysInit /\ DialogInit /\ TextInit

streamVars == <<inVars, outVars>>
textVars == <<strVars, tokenVars, matchVars>>
dataVars == <<listVars, hashVars>>
diskVars == <<fileStreamVars, findVars, openVars>>
terminalVars == <<keyVars, dialogVars, formatVars>>
libraryVars == <<streamVars, textVars, dataVars, diskVars, terminalVars, part>>

In == part = "in" /\ InputNext /\ UNCHANGED <<outVars, textVars, dataVars, diskVars, terminalVars, part>>
Out == part = "out" /\ OutputNext /\ UNCHANGED <<inVars, textVars, dataVars, diskVars, terminalVars, part>>
Texted ==
  /\ \/ part = "strings" /\ StringsNext /\ UNCHANGED <<tokenVars, matchVars>>
     \/ part = "tokens" /\ GetToken /\ UNCHANGED <<strVars, matchVars>>
     \/ part = "patterns" /\ Pmatch /\ UNCHANGED <<strVars, tokenVars>>
  /\ UNCHANGED <<streamVars, dataVars, diskVars, terminalVars, part>>
Held ==
  /\ \/ part = "lists" /\ ListNext /\ UNCHANGED hashVars
     \/ part = "hash" /\ HashNext /\ UNCHANGED listVars
  /\ UNCHANGED <<streamVars, textVars, diskVars, terminalVars, part>>
Filed ==
  /\ \/ part = "file" /\ FileNext /\ UNCHANGED <<findVars, openVars>>
     \/ part = "find" /\ FindNext /\ UNCHANGED <<fileStreamVars, openVars>>
     \/ part = "open" /\ OpenNext /\ UNCHANGED <<fileStreamVars, findVars>>
  /\ UNCHANGED <<streamVars, textVars, dataVars, terminalVars, part>>
AtTerminal ==
  /\ \/ part = "keys" /\ KeysNext /\ UNCHANGED <<dialogVars, formatVars>>
     \/ part = "dialog" /\ DialogNext /\ UNCHANGED <<keyVars, formatVars>>
     \/ part = "format" /\ TerminalFormatSubStr /\ UNCHANGED <<keyVars, dialogVars>>
  /\ UNCHANGED <<streamVars, textVars, dataVars, diskVars, part>>

Spec ==
  /\ Init /\ [][In \/ Out \/ Texted \/ Held \/ Filed \/ AtTerminal]_libraryVars
  /\ WF_inVars(part = "in" /\ Reader) /\ WF_outVars(part = "out" /\ Writer)

-----------------------------------------------------------------------------
\* A part that rests is not asked: it is as it was at first.
Of(name, holds) == part = name => holds

\* Types of all parts.
LibraryTypeOK ==
  /\ Of("in", InputTypeOK) /\ Of("out", OutputTypeOK) /\ Of("strings", StringsTypeOK)
  /\ Of("lists", ListTypeOK) /\ Of("hash", HashTypeOK) /\ Of("tokens", TokenizerTypeOK)
  /\ Of("patterns", PatternTypeOK) /\ Of("file", FileTypeOK) /\ Of("find", FindTypeOK)
  /\ Of("open", OpenTypeOK) /\ Of("keys", KeysTypeOK) /\ Of("dialog", DialogTypeOK)
  /\ Of("format", TerminalTextTypeOK)

\* The cached lengths of strings are theirs; lists are sound, and a search of one finds
\* what is there; and a hash is that of the message, however it came in pieces.
DataTrue ==
  /\ Of("strings", StringsTrue) /\ Of("lists", ListSound /\ FindsWhatIsThere)
  /\ Of("hash", HashesMessage)

\* A token ends where its separator stands, a match is what the pattern describes, and
\* a key that is in a sorted file is found.
ScansExactly ==
  /\ Of("tokens", TokensExact) /\ Of("patterns", MatchesExact) /\ Of("find", KeyIsFound)

\* Keys are read as they are typed, a dialog shows what it returns, and text is measured
\* as it is formatted.
TerminalTrue == Of("keys", KeysAsTyped) /\ Of("dialog", DialogsTrue) /\ Of("format", TextTrue)

\* A call to read and a call to write come to their ends.
CallsEnd == CallReturns /\ WriteEnds
=============================================================================
