----------------------------- MODULE Tokenizer -----------------------------
(***************************************************************************)
(* Cutting a string into tokens, one GetToken after the other              *)
(* (libUseful/Tokenizer.c): separators of one or more characters, several  *)
(* separators, quotes, backslashes and what is done to a token.  Matching  *)
(* a string against a pattern comes at the end.                            *)
(***************************************************************************)
EXTENDS Integers, SequencesExt

CONSTANTS
  Lines,      \* the strings: ":" and "," may be separators, "_" is white space
  Separators, \* what to cut at: each a sequence of patterns to be tried in turn
  TokenFlags  \* the flags of a call

\* "q" is a quote, "b" a backslash; "S" in a pattern is any white space.
ASSUME TokenizerAssumption ==
  /\ \A s \in Lines : s \in Seq({"a", ":", ",", "_", "q", "b"})
  /\ \A seps \in Separators : seps # <<>> /\
       \A p \in ToSet(seps) : p # <<>> /\ p \in Seq({":", ",", "S"})
  /\ TokenFlags \subseteq SUBSET {"honor", "include", "append", "backslash", "quotes", "space"}

VARIABLES
  line,   \* the string
  seps,   \* Separator
  flag,   \* Flags
  ptr,     \* SearchStr as an index into line, 0 for NULL
  tokens, \* history: the tokens
  cuts    \* history: where each search began, and where its separator began and ended

tokenVars == <<line, seps, flag, ptr, tokens, cuts>>

TokenizerInit ==
  /\ line \in Lines /\ seps \in Separators /\ flag \in TokenFlags
  /\ ptr = 1 /\ tokens = <<>> /\ cuts = <<>>

-----------------------------------------------------------------------------
LineEnd == Len(line) + 1
CharAt(i) == IF i < LineEnd THEN line[i] ELSE "end"

\* ptr_incr.
Past(i, n) == Min({i + n, LineEnd})

Escapes(i) == CharAt(i) = "b" /\ "backslash" \notin flag
Quotes(i) == CharAt(i) = "q" /\ "honor" \in flag

\* traverse_until: the closing quote, or the end.
Closing(i) ==
  LET close[j \in 1..(LineEnd + 2)] ==
        IF j >= LineEnd \/ CharAt(j) = "q" THEN Past(j, 0)
        ELSE IF CharAt(j) = "b" /\ j + 1 < LineEnd THEN close[j + 2] ELSE close[j + 1]
  IN  close[i]

GetTokenStepThru(i) ==
  IF Escapes(i) THEN Past(i, 2)
  ELSE IF Quotes(i) THEN Past(Closing(i + 1), 1) ELSE Past(i, 1)

\* A variant of Matches below with a slip in it, used by nothing: the property is
\* tried with it in the place of Matches.
MatchesQuoted(i, p) == i < LineEnd /\ CharAt(i) = Head(p)

\* Behind the white space at i.
Blank(i) == Min({j \in i..LineEnd : CharAt(j) # "_"})

\* Where the part of the pattern before k would end if it matched at i: 0 if it
\* does not.
MatchEnd(i, p) ==
  LET fits(k, j) == IF p[k] = "S" THEN CharAt(j) = "_" ELSE CharAt(j) = p[k]
      end[k \in 0..Len(p)] ==
        IF k = 0 THEN i
        ELSE IF end[k - 1] = 0 \/ Escapes(end[k - 1]) \/ Quotes(end[k - 1]) THEN 0
        ELSE IF ~fits(k, end[k - 1]) THEN 0
        ELSE IF p[k] = "S" THEN Blank(end[k - 1]) ELSE end[k - 1] + 1
  IN  end

\* GetTokenSepMatch.
Matches(i, p) == i < LineEnd /\ MatchEnd(i, p)[Len(p)] # 0

\* Where the search goes on when p does not match at i: at the end if the string
\* ended within p, behind a backslash within it, and else at i.
Stopped(i, p) ==
  LET good == {k \in 0..Len(p) : MatchEnd(i, p)[k] # 0}
      stop == MatchEnd(i, p)[Max(good)]
  IN  IF stop >= LineEnd THEN LineEnd ELSE IF Escapes(stop) THEN Past(stop, 1) ELSE i

Separator(i, p) == [start |-> i, end |-> MatchEnd(i, p)[Len(p)]]

\* GetTokenFindSeparator: none is one at the end.
FindSeparator(from, p) ==
  LET find[i \in 1..LineEnd] ==
        IF i = LineEnd THEN [start |-> LineEnd, end |-> LineEnd]
        ELSE IF Escapes(i) THEN find[Past(i, 2)]
        ELSE IF Matches(i, p) THEN Separator(i, p)
        ELSE find[GetTokenStepThru(Stopped(i, p))]
  IN  find[from]

\* GetTokenMultiSepMatch: none is NULL, which becomes the end.
MultiSepMatch(from) ==
  LET find[i \in 1..LineEnd] ==
        IF i = LineEnd THEN [start |-> LineEnd, end |-> LineEnd]
        ELSE IF \E k \in DOMAIN seps : Matches(i, seps[k])
          THEN Separator(i, seps[Min({k \in DOMAIN seps : Matches(i, seps[k])})])
          ELSE find[GetTokenStepThru(i)]
  IN  find[from]

\* One character that is no more is looked for with strchr().
Simple == "honor" \notin flag /\ Len(seps) = 1 /\ Len(seps[1]) = 1 /\ seps[1][1] # "S"

NextChar(from, c) ==
  LET i == Min({j \in from..LineEnd : CharAt(j) \in {c, "end"}})
  IN  [start |-> i, end |-> Past(i, 1)]

SeparatorFrom(from) ==
  IF Simple THEN NextChar(from, seps[1][1])
  ELSE IF Len(seps) > 1 THEN MultiSepMatch(from) ELSE FindSeparator(from, seps[1])

-----------------------------------------------------------------------------
(* GetTokenPostProcess                                                     *)

\* A separator that is a token of its own.
SepIsToken(from, sep) == "include" \in flag /\ sep.start = from

TokenEnd(from, sep) ==
  IF SepIsToken(from, sep) \/ ("append" \in flag /\ "include" \notin flag) THEN sep.end ELSE sep.start

\* Where the next search begins.
NextFrom(from, sep) ==
  IF "include" \in flag /\ sep.start # from THEN sep.start ELSE sep.end

\* Quotes around the token go, both or none; a quote that is all there is of it is
\* taken for both, and what is behind it in the line for the token.
Unquoted(from, t) ==
  IF t = <<"q">> THEN SubSeq(line, from + 1, Len(line))
  ELSE IF t # <<>> /\ t[1] = "q" /\ t[Len(t)] = "q" THEN SubSeq(t, 2, Len(t) - 1) ELSE t

Trimmed(t) ==
  LET ink == {i \in DOMAIN t : t[i] # "_"}
  IN  IF ink = {} THEN <<>> ELSE SubSeq(t, Min(ink), Max(ink))

\* strchr() and several separators that find nothing leave the rest as it is.
Untouched(sep) == sep.start = LineEnd /\ (Simple \/ Len(seps) > 1)

PostProcess(from, sep) ==
  LET t == SubSeq(line, from, TokenEnd(from, sep) - 1)
      u == IF "quotes" \in flag THEN Unquoted(from, t) ELSE t
  IN  IF Untouched(sep) THEN t ELSE IF "space" \in flag THEN Trimmed(u) ELSE u

\* One call; the last one finds the end and returns NULL.
GetToken ==
  /\ ptr # 0
  /\ IF ptr = LineEnd
       THEN ptr' = 0 /\ UNCHANGED <<tokens, cuts>>
       ELSE LET sep == SeparatorFrom(ptr) IN
            /\ tokens' = Append(tokens, PostProcess(ptr, sep))
            /\ cuts' = Append(cuts, [from |-> ptr, start |-> sep.start, end |-> sep.end])
            /\ ptr' = NextFrom(ptr, sep)
  /\ UNCHANGED <<line, seps, flag>>

TokenizerSpec == TokenizerInit /\ [][GetToken]_tokenVars

-----------------------------------------------------------------------------
(* Properties                                                              *)

TokenizerTypeOK ==
  /\ line \in Lines /\ seps \in Separators /\ flag \in TokenFlags
  /\ ptr \in 0..LineEnd
  /\ \A t \in ToSet(tokens) : t \in Seq({"a", ":", ",", "_", "q", "b"})
  /\ \A c \in ToSet(cuts) : 1 <= c.from /\ c.from <= c.start /\ c.start <= c.end /\ c.end <= LineEnd

\* The whole line read once from its start: what each character is under.
Under ==
  LET mode[i \in 1..LineEnd] ==
        IF i = 1 THEN "plain"
        ELSE LET before == mode[i - 1] c == line[i - 1] IN
             CASE before = "plain" /\ Escapes(i - 1) -> "escaped"
               [] before = "plain" /\ Quotes(i - 1) -> "quoted"
               [] before = "quoted" /\ c = "q" -> "plain"
               [] before = "quoted" /\ c = "b" -> "quoted escape"
               [] before = "quoted escape" -> "quoted"
               [] before = "escaped" -> "plain"
               [] OTHER -> before
  IN  mode

\* A separator is where a pattern is and nothing of it is quoted.
Stands(i, j, p) ==
  /\ \A k \in i..(j - 1) : (Under[k] = "plain" /\ ~Escapes(k) /\ ~Quotes(k)) \/ Simple
  /\ IF p[1] = "S" THEN (\A k \in i..(j - 1) : line[k] = "_") /\ CharAt(j) # "_" /\ i < j
                   ELSE SubSeq(line, i, j - 1) = p

\* Each separator that was found is one and there is none before it, although each
\* call looks only at what the call before it left and jumps over quotes; the calls
\* advance, so that the usual loop ends; and, where separators are kept, the tokens
\* are the line.
TokensExact ==
  /\ \A k \in DOMAIN cuts :
       /\ cuts[k].start < LineEnd =>
            \E n \in DOMAIN seps : Stands(cuts[k].start, cuts[k].end, seps[n])
       /\ \A i \in cuts[k].from..(cuts[k].start - 1), j \in 1..LineEnd, n \in DOMAIN seps :
            ~Stands(i, j, seps[n])
       /\ k > 1 => cuts[k].from > cuts[k - 1].from
       /\ k > 1 => cuts[k].from \in {cuts[k - 1].start, cuts[k - 1].end}
  /\ flag \cap {"include", "append"} # {} /\ flag \cap {"quotes", "space"} = {} =>
       FlattenSeq(tokens) = SubSeq(line, 1, (IF ptr = 0 THEN LineEnd ELSE ptr) - 1)

-----------------------------------------------------------------------------
(***************************************************************************)
(* pmatch() (libUseful/PatternMatch.c): patterns with wildcards, lists of  *)
(* characters and repeats, looked for in a string.  '^', switches and the  *)
(* classes behind a backslash are left out.                                *)
(***************************************************************************)

CONSTANTS
  Subjects,   \* the strings
  Patterns    \* what to look for: sequences of alternatives

\* "[a]" stands for a list that holds a, "[!a]" for one that holds all but a.
Elements == {"a", "b", "?", "*", "+", "$", "[a]", "[!a]"}
ASSUME PatternAssumption ==
  /\ \A s \in Subjects : s \in Seq({"a", "b"})
  /\ \A p \in Patterns : \A alt \in ToSet(p) :
       /\ alt \in Seq(Elements)
       /\ \A k \in DOMAIN alt : alt[k] = "+" => k > 1 /\ alt[k - 1] \in {"a", "b", "[a]"}

VARIABLES
  subject,  \* String
  pattern,  \* the compiled alternatives
  substr,   \* PMATCH_SUBSTR
  overlap,  \* ~PMATCH_NO_OVERLAP
  spot,     \* s_ptr of pmatch(), 0 when it has returned
  matches   \* what was found: alternative, Start, End

matchVars == <<subject, pattern, substr, overlap, spot, matches>>

PatternInit ==
  /\ subject \in Subjects /\ pattern \in Patterns
  /\ substr \in BOOLEAN /\ overlap \in BOOLEAN
  /\ spot = 1 /\ matches = {}

-----------------------------------------------------------------------------
SEnd == Len(subject) + 1
Symbol(s) == IF s < SEnd THEN subject[s] ELSE "nul"
Element(alt, p) == IF p <= Len(alt) THEN alt[p] ELSE "nul"

\* Where a MatchStart or a MatchEnd is NULL, or points into the pattern.
Null == 0
InPattern == -1

\* pmatch_char, pmatch_charlist: what comes of the element and where the pattern
\* goes on.
PmatchChar(alt, p, s) ==
  LET e == Element(alt, p) IN
  CASE e = "nul" -> <<"found", p>>
    [] e = "$" -> <<IF Symbol(s) = "nul" THEN "found" ELSE "fail", p>>
    [] e = "*" -> <<"many", p>>
    [] e = "+" -> <<"repeat", p>>
    [] e = "?" -> <<"one", p + 1>>
    [] e = "[a]" -> IF Symbol(s) = "a" THEN <<"one", p + 1>> ELSE <<"fail", p>>
    [] e = "[!a]" -> IF Symbol(s) # "a" THEN <<"one", p + 1>> ELSE <<"fail", p>>
    [] OTHER -> IF e = Symbol(s) THEN <<"one", p + 1>> ELSE <<"fail", p>>

\* A place in the pattern and in the string, and the match so far.
Place(p, s, start, end) == [p |-> p, s |-> s, start |-> start, end |-> end]
Fail(m) == [ok |-> FALSE, at |-> m]
Ok(m) == [ok |-> TRUE, at |-> m]

\* The character at m.s is part of the match.
After(m) == IF m.s < SEnd THEN m.s + 1 ELSE m.s
Taken(m, first) ==
  [m EXCEPT !.s = After(m),
            !.start = IF @ = Null /\ m.s >= first THEN m.s ELSE @,
            !.end = IF m.s + 1 < SEnd THEN m.s + 1 ELSE @]

\* pmatch_repeat: all that the element before matches.
Repeated(alt, p, s) ==
  LET same == {t \in s..SEnd : \A u \in s..(t - 1) : PmatchChar(alt, p, u)[1] = "one"}
  IN  Max(same) - 1

RECURSIVE Search(_, _), Many(_, _), Turn(_, _, _, _, _)

\* pmatch_many, with m at the '*': the search is tried from where the last one
\* stopped.
Many(alt, m) ==
  LET begun == [m EXCEPT !.start = IF @ = Null THEN m.s ELSE @]
      tries[n \in Nat] ==
        IF n = 0 THEN Search(alt, [begun EXCEPT !.p = m.p + 1])
        ELSE LET try == tries[n - 1] IN
             IF try.ok \/ try.at.s >= SEnd THEN try
             ELSE Search(alt, [try.at EXCEPT !.p = m.p, !.s = @ + 1])
  IN  IF Element(alt, m.p + 1) = "nul"
        THEN Ok([begun EXCEPT !.p = m.p + 1, !.s = SEnd, !.end = InPattern])
        ELSE tries[SEnd]

\* The end of the string: the pattern must be at its end, but for any '*'.
AtEnd(alt, m) ==
  LET rest == {k \in m.p..Len(alt) : alt[k] # "*"}
  IN  IF rest = {} THEN Ok([m EXCEPT !.start = IF @ = Null THEN m.s ELSE @, !.end = SEnd]) ELSE Fail(m)

\* One turn of the loop of pmatch_search: got is what pmatch_char said.
Turn(alt, m, got, prev, first) ==
  LET again(n, before) ==
        LET c == PmatchChar(alt, n.p, n.s)
        IN  Turn(alt, [n EXCEPT !.p = c[2]], c[1], <<before, n.p>>, first)
      many == Many(alt, m)
  IN  IF m.s >= SEnd THEN AtEnd(alt, m)
      ELSE CASE got = "fail" -> Fail(m)
             [] got = "found" -> Ok(m)
             [] got = "one" -> again(Taken(m, first), prev[2])
             [] got = "repeat" ->
                  again(Taken([m EXCEPT !.s = Repeated(alt, prev[1], @), !.p = @ + 1], first), prev[2])
             [] got = "many" ->
                  IF ~many.ok \/ Element(alt, many.at.p) = "nul" THEN many
                  ELSE again(Taken(many.at, first), prev[2])

\* pmatch_search from m.
Search(alt, m) ==
  LET c == PmatchChar(alt, m.p, m.s)
  IN  Turn(alt, [m EXCEPT !.p = c[2]], c[1], <<m.p, m.p>>, m.s)

-----------------------------------------------------------------------------
\* pmatch_one_internal at a place of the string: a match, or none.
PmatchOne(alt, s) ==
  LET r == Search(alt, Place(1, s, Null, Null)) IN
  IF r.ok /\ (substr \/ r.at.s = SEnd) /\ r.at.start # Null /\ r.at.end # Null /\ r.at.s > s
    THEN {[alt |-> alt, from |-> s, start |-> r.at.start, end |-> r.at.end]} ELSE {}

\* pmatch_process: all alternatives, or the first that matches.
Found(s) ==
  LET hits == {k \in DOMAIN pattern : PmatchOne(pattern[k], s) # {}}
      kept == IF overlap \/ hits = {} THEN hits ELSE {Min(hits)}
  IN  UNION {PmatchOne(pattern[k], s) : k \in kept}

\* One turn of the loop of pmatch(), which leaps over a match that may not
\* overlap with the next; an End that points into the pattern ends it anywhere.
Pmatch ==
  /\ spot # 0
  /\ IF spot >= SEnd /\ substr
       THEN spot' = 0 /\ UNCHANGED matches
       ELSE LET found == Found(spot) IN
            /\ matches' = matches \cup found
            /\ spot' = IF ~substr THEN 0
                       ELSE IF found # {} /\ ~overlap
                         THEN Max({m.end : m \in found} \cup {0}) ELSE spot + 1
  /\ UNCHANGED <<subject, pattern, substr, overlap>>

PatternSpec == PatternInit /\ [][Pmatch]_matchVars

-----------------------------------------------------------------------------
(* Properties                                                              *)

PatternTypeOK ==
  /\ subject \in Subjects /\ pattern \in Patterns
  /\ substr \in BOOLEAN /\ overlap \in BOOLEAN
  /\ spot \in 0..SEnd
  /\ matches \subseteq [alt : ToSet(pattern), from : 1..SEnd, start : 1..SEnd, end : (1..SEnd) \cup {InPattern}]

\* What the elements mean: the piece from i to before j is one that alt describes.
Describes(alt, i, j) ==
  LET one(e, s) == PmatchChar(<<e>>, 1, s)[1] = "one"
      reach[k \in 0..Len(alt)] ==
        IF k = 0 THEN {i}
        ELSE CASE alt[k] = "*" -> {t \in i..j : \E s \in reach[k - 1] : s <= t}
               [] alt[k] = "+" -> reach[k - 1] \cup
                    {t \in i..j : \E s \in reach[k - 1] : s <= t /\ \A u \in s..(t - 1) : one(alt[k - 1], u)}
               [] alt[k] = "$" -> {s \in reach[k - 1] : s = SEnd}
               [] OTHER -> {s + 1 : s \in {s \in reach[k - 1] : s < j /\ one(alt[k], s)}}
  IN  j \in reach[Len(alt)]

\* What is read of the pattern at the end of the string counts as matched there.
LastElement(alt) ==
  LET solid == {k \in DOMAIN alt : alt[k] # "*"} IN IF solid = {} THEN "" ELSE alt[Max(solid)]
Lenient(alt) == LastElement(alt) \in {"?", "[!a]"}

\* Whatever is reported as a match is one, from where it is said to start to where
\* it is said to end, and without a '*', whose search does not go back, every place
\* that matches is found, although one function moves the pointers of another.
MatchesExact ==
  /\ \A m \in matches : m.end # InPattern /\ ~Lenient(m.alt) =>
       Describes(m.alt, m.from, m.end) /\ (~substr => m.end = SEnd)
  /\ \A k \in DOMAIN pattern : ToSet(pattern[k]) \cap {"*", "$", "+"} = {} /\ overlap =>
       \A i \in 1..(IF spot = 0 THEN Len(subject) ELSE spot - 1) :
         \A j \in (i + 1)..SEnd :
           Describes(pattern[k], i, j) /\ (substr \/ (i = 1 /\ j = SEnd)) =>
             [alt |-> pattern[k], from |-> i, start |-> i, end |-> j] \in matches
=============================================================================
