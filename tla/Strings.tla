------------------------------ MODULE Strings ------------------------------
(***************************************************************************)
(* The resizeable strings of libUseful/String.c and the cache of their     *)
(* lengths (StrLenCache.c), which goes by the address of a string while    *)
(* its text is changed in place, moved and freed.                          *)
(***************************************************************************)
EXTENDS Naturals, SequencesExt

CONSTANTS
  Handles,    \* the variables of a program that hold strings
  Addresses,  \* where strings may lie
  Chars,      \* "s" for white space, "q" for a quote
  MaxLen,     \* bound: characters of a string
  MinLen,     \* StrLenCacheMinLen
  CacheSize,  \* StrLenCacheSize
  AnyQuotes   \* the program strips quotes of strings that are long, too

ASSUME StringsAssumption ==
  /\ Cardinality(Addresses) > Cardinality(Handles)
  /\ MaxLen \in Nat /\ MinLen \in Nat /\ CacheSize \in Nat \ {0}
  /\ AnyQuotes \in BOOLEAN
  /\ "null" \notin Addresses

VARIABLES
  at,     \* the address of the string of each handle, or "null"
  text,   \* its characters up to the null character
  meant,  \* history: what the calls were to make of it
  cache   \* the lengths that are cached, by address

strVars == <<at, text, meant, cache>>

Texts == UNION {[1..n -> Chars] : n \in 0..MaxLen}
Free == Addresses \ {at[h] : h \in Handles}

StringsInit ==
  /\ at = [h \in Handles |-> "null"]
  /\ text = [h \in Handles |-> <<>>] /\ meant = text
  /\ cache = <<>>

-----------------------------------------------------------------------------
(* StrLenCache.c                                                           *)

StrLenCacheDel(table, address) ==
  [a \in DOMAIN table \ {address} |-> table[a]]

With(table, address, len) ==
  [a \in DOMAIN table \cup {address} |-> IF a = address THEN len ELSE table[a]]

\* A variant of Forgotten below with a slip in it, used by nothing: the property is
\* tried with it in the place of Forgotten.
StaysCached(table, h) == table

\* What may become of the cache: a string that is in it is updated, or taken
\* out when it is short; a long one comes in, in the place of any if it is full.
StrLenCacheAdd(table, address, len) ==
  IF address \in DOMAIN table
    THEN {IF len < MinLen THEN StrLenCacheDel(table, address) ELSE With(table, address, len)}
  ELSE IF len <= MinLen THEN {table}
  ELSE IF Cardinality(DOMAIN table) < CacheSize THEN {With(table, address, len)}
  ELSE {With(StrLenCacheDel(table, a), address, len) : a \in DOMAIN table}

\* StrLenFromCache of a string with the text s.
Known(h, s) ==
  IF s = <<>> THEN 0 ELSE IF at[h] \in DOMAIN cache THEN cache[at[h]] ELSE Len(s)

-----------------------------------------------------------------------------
(* String.c                                                                *)

\* The caller forgets the cached length before the text changes in place.
Forgotten(table, h) == StrLenCacheDel(table, at[h])

\* SetStrLen to len: the string may move; the new length is cached although
\* the text is not there yet.
SetStrLen(h, len) ==
  \E address \in Free \cup ({at[h]} \ {"null"}) :
    /\ at' = [at EXCEPT ![h] = address]
    /\ cache' \in StrLenCacheAdd(StrLenCacheDel(cache, at[h]), address, len)

\* What src makes of the text s when it is put where the string is thought to
\* end: behind the null character it is lost.
Put(s, len, src) == IF len > Len(s) THEN s ELSE SubSeq(s, 1, len) \o src

\* CatStr, and MCatStr of one string.
CatStr(h, src) ==
  /\ Len(meant[h] \o src) <= MaxLen
  /\ LET len == Known(h, text[h]) IN
     /\ SetStrLen(h, len + Len(src))
     /\ text' = [text EXCEPT ![h] = Put(@, len, src)]
  /\ meant' = [meant EXCEPT ![h] = @ \o src]

\* CopyStr, and CopyStrLen of as many bytes as there are.
CopyStr(h, src) ==
  /\ SetStrLen(h, Len(src))
  /\ text' = [text EXCEPT ![h] = src] /\ meant' = [meant EXCEPT ![h] = src]

\* FormatStr guesses a length, QuoteCharsInStr grows the string: both tell the
\* cache the length of the result.
FormatStr(h, src) ==
  /\ \E guess \in Len(src)..MaxLen, address \in Free \cup ({at[h]} \ {"null"}) :
       /\ at' = [at EXCEPT ![h] = address]
       /\ \E table \in StrLenCacheAdd(StrLenCacheDel(cache, at[h]), address, guess) :
            cache' \in StrLenCacheAdd(table, address, Len(src))
  /\ text' = [text EXCEPT ![h] = src] /\ meant' = [meant EXCEPT ![h] = src]

\* In place.
Changed(h, s, expected) ==
  /\ text' = [text EXCEPT ![h] = s] /\ meant' = [meant EXCEPT ![h] = expected]
  /\ UNCHANGED at

\* StrTrunc, StrTruncChar.
StrTrunc(h, len) ==
  /\ len < Len(text[h])
  /\ Changed(h, SubSeq(text[h], 1, len), SubSeq(meant[h], 1, len))
  /\ cache' \in StrLenCacheAdd(cache, at[h], len)

Stripped(s) == SubSeq(s, 1, CHOOSE n \in 0..Len(s) :
  (\A i \in (n + 1)..Len(s) : s[i] = "s") /\ (n > 0 => s[n] # "s"))

\* StripTrailingWhitespace, StripCRLF: they begin at the cached end.
StripTrailingWhitespace(h) ==
  /\ Known(h, text[h]) > 0
  /\ Changed(h, IF Known(h, text[h]) = Len(text[h]) THEN Stripped(text[h]) ELSE text[h],
             Stripped(meant[h]))
  /\ cache' = Forgotten(cache, h)

Unindented(s) == Reverse(Stripped(Reverse(s)))

StripLeadingWhitespace(h) ==
  /\ at[h] # "null"
  /\ Changed(h, Unindented(text[h]), Unindented(meant[h]))
  /\ cache' \in StrLenCacheAdd(cache, at[h], Len(Unindented(text[h])))

IsQuoted(s) == Len(s) > 1 /\ Head(s) = "q" /\ Last(s) = "q"
Inside(s) == SubSeq(s, 2, Len(s) - 1)

\* StripQuotes: the quotes and the space before them go, and one is taken off
\* the length.
StripQuotes(h) ==
  LET s == Unindented(text[h]) IN
  /\ IsQuoted(s) /\ Known(h, text[h]) = Len(text[h])
  /\ AnyQuotes \/ Len(s) <= MinLen
  /\ Changed(h, Inside(s), IF IsQuoted(Unindented(meant[h])) THEN Inside(Unindented(meant[h])) ELSE meant[h])
  /\ cache' \in StrLenCacheAdd(cache, at[h], Len(s) - 1)

Destroy(h) ==
  /\ at[h] # "null"
  /\ at' = [at EXCEPT ![h] = "null"]
  /\ text' = [text EXCEPT ![h] = <<>>] /\ meant' = [meant EXCEPT ![h] = <<>>]
  /\ cache' = Forgotten(cache, h)

StringsNext ==
  \E h \in Handles :
    \/ \E src \in Texts : CopyStr(h, src) \/ CatStr(h, src) \/ FormatStr(h, src)
    \/ \E len \in 0..MaxLen : StrTrunc(h, len)
    \/ StripTrailingWhitespace(h) \/ StripLeadingWhitespace(h) \/ StripQuotes(h)
    \/ Destroy(h)

StringsSpec == StringsInit /\ [][StringsNext]_strVars

-----------------------------------------------------------------------------
(* Properties                                                              *)

StringsTypeOK ==
  /\ at \in [Handles -> Addresses \cup {"null"}]
  /\ \A g, h \in Handles : g # h /\ at[g] # "null" => at[g] # at[h]
  /\ text \in [Handles -> Seq(Chars)] /\ meant \in [Handles -> Seq(Chars)]
  /\ DOMAIN cache \subseteq Addresses /\ \A a \in DOMAIN cache : cache[a] \in Nat
  /\ Cardinality(DOMAIN cache) <= CacheSize

\* A cached length is that of the text at this address now, although strings
\* grow, shrink in place, move, and are freed where another is put later.
LengthsTrue ==
  \A a \in DOMAIN cache : \E h \in Handles : at[h] = a /\ cache[a] = Len(text[h])

\* String.h:96: "concatanate Len bytes from Src to Dest": no character is lost
\* behind a wrong end, however the string came about.
TextAsMeant == text = meant

\* Texts and their cached lengths are what the calls were to make of them.
StringsTrue == LengthsTrue /\ TextAsMeant
=============================================================================
