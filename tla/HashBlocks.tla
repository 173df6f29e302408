----------------------------- MODULE HashBlocks -----------------------------
(***************************************************************************)
(* The hashes of libUseful (Hash.c and behind it md5c.c, sha1.c, sha2.c,   *)
(* whirlpool.c, jh_ref.c): a message comes in updates of any length and is *)
(* compressed in blocks.  Compression itself is opaque: the hash value is  *)
(* the sequence of the blocks that went into it.  Byte i of the message is *)
(* i.                                                                      *)
(***************************************************************************)
EXTENDS Integers, SequencesExt

CONSTANTS
  Block,      \* bytes of a block: 64, of sha512 128
  Field,      \* those the length takes: 8, of sha512 16
  WideField,  \* of whirlpool: 32
  Word,       \* the values of a word of the length
  Kinds,      \* which hashes
  MaxMessage, \* bound: bytes of a message
  MaxUpdate   \* bound: bytes of an update

ASSUME HashAssumption ==
  /\ {Block, Field, WideField, Word, MaxMessage, MaxUpdate} \subseteq Nat
  /\ 2 <= Field /\ Field <= WideField /\ WideField < Block
  /\ Word > 8 * Block /\ Word % (8 * Block) = 0
  /\ Kinds \subseteq {"md5", "sha1", "sha256", "sha512", "whirl", "jh"}

VARIABLES
  kind,  \* Hash->Type
  ctx,   \* Hash->Ctx
  fed,   \* history: bytes of the message so far
  over   \* HashFinish was called

hashVars == <<kind, ctx, fed, over>>

\* Bytes that are none of the message's.
Zero == 0
One == -1
Mixed == -2
Digit(n) == -3 - n

HashInit ==
  /\ kind \in Kinds /\ fed = 0 /\ over = FALSE
  /\ ctx = [lo |-> 0, hi |-> 0, buff |-> [i \in 1..(2 * Block) |-> Zero], used |-> 0, blocks |-> <<>>]

-----------------------------------------------------------------------------
(* Buffers                                                                 *)

\* memcpy, memset
CopyTo(buff, at, bytes) ==
  [i \in DOMAIN buff |-> IF i - at \in DOMAIN bytes THEN bytes[i - at] ELSE buff[i]]
Zeroed(buff, from, to) == [i \in DOMAIN buff |-> IF i \in (from + 1)..to THEN Zero ELSE buff[i]]
Or(x, y) == IF x = Zero THEN y ELSE Mixed

\* The blocks in some bytes, and what is left.
WholeBlocks(bytes) ==
  [k \in 1..(Len(bytes) \div Block) |-> SubSeq(bytes, (k - 1) * Block + 1, k * Block)]
Remainder(bytes) == SubSeq(bytes, Len(bytes) - (Len(bytes) % Block) + 1, Len(bytes))

Transform(c) == [c EXCEPT !.blocks = Append(@, SubSeq(c.buff, 1, Block))]

-----------------------------------------------------------------------------
-----------------------------------------------------------------------------
(* MD5                                                                     *)

\* The bits are counted in two words: "Carry from low to high".
MD5Count(c, n) ==
  LET lo == (c.lo + ((8 * n) % Word)) % Word
  IN  [c EXCEPT !.lo = lo, !.hi = @ + ((8 * n) \div Word) + (IF lo < c.lo THEN 1 ELSE 0)]

\* The bytes already in the buffer.
Used(c) == (c.lo \div 8) % Block

FitsIn(used, n) == n < Block - used

\* Any leading odd-sized chunk, whole blocks, the remaining bytes.
MD5Update(c, bytes) ==
  LET used == Used(c)
      free == IF used = 0 THEN 0 ELSE Block - used
      rest == SubSeq(bytes, free + 1, Len(bytes))
      filled == [c EXCEPT !.buff = CopyTo(@, used, SubSeq(bytes, 1, free))]
      first == IF used = 0 THEN c ELSE Transform(filled)
      blocks == WholeBlocks(rest)
      last == IF blocks = <<>> THEN first.buff ELSE CopyTo(first.buff, 0, blocks[Len(blocks)])
  IN  IF used > 0 /\ FitsIn(used, Len(bytes))
        THEN MD5Count([c EXCEPT !.buff = CopyTo(@, used, bytes)], Len(bytes))
        ELSE MD5Count([first EXCEPT !.blocks = @ \o blocks,
                                    !.buff = CopyTo(last, 0, Remainder(rest))], Len(bytes))

\* Whether the length fits behind the first byte of the padding.
Short(used) == used < Block - Field

MD5Final(c) ==
  LET used == Used(c)
      begun == [c EXCEPT !.buff = CopyTo(@, used, <<One>>)]
      full == Transform([begun EXCEPT !.buff = Zeroed(@, used + 1, Block)])
      padded == IF Short(used)
                  THEN [begun EXCEPT !.buff = Zeroed(@, used + 1, Block - Field)]
                  ELSE [full EXCEPT !.buff = Zeroed(@, 0, Block - Field)]
  IN  Transform([padded EXCEPT !.buff = CopyTo(Zeroed(@, Block - Field, Block), Block - 2,
                                            <<Digit(c.lo), Digit(c.hi)>>)])

-----------------------------------------------------------------------------
(* SHA1                                                                    *)

\* sha1_process_block of what is in the buffer: one block of it, or two.
SHA1Process(c) ==
  IF c.used <= Block THEN c
  ELSE LET n == c.used \div Block
       IN  [c EXCEPT !.blocks = @ \o WholeBlocks(SubSeq(c.buff, 1, n * Block)),
                     !.used = @ % Block, !.lo = @ + n * Block,
                     !.buff = CopyTo(@, 0, SubSeq(@, n * Block + 1, c.used))]

\* Of bytes that start at an odd address a whole block may stay behind.
SHA1Update(c, bytes, aligned) ==
  LET n == Len(bytes)
      add == IF c.used = 0 THEN 0 ELSE IF 2 * Block - c.used > n THEN n ELSE 2 * Block - c.used
      joined == IF c.used = 0 THEN c
                ELSE SHA1Process([c EXCEPT !.buff = CopyTo(@, c.used, SubSeq(bytes, 1, add)),
                                           !.used = @ + add])
      rest == SubSeq(bytes, add + 1, n)
      taken == IF aligned \/ rest = <<>> THEN Len(rest) \div Block
               ELSE (Len(rest) - 1) \div Block
      left == SubSeq(rest, taken * Block + 1, Len(rest))
      whole == [joined EXCEPT !.blocks = @ \o WholeBlocks(SubSeq(rest, 1, taken * Block)),
                              !.lo = @ + taken * Block,
                              !.buff = CopyTo(@, joined.used, left), !.used = @ + Len(left)]
  IN  IF left # <<>> /\ whole.used >= Block
        THEN [Transform(whole) EXCEPT !.used = @ - Block, !.lo = @ + Block,
                !.buff = CopyTo(@, 0, SubSeq(whole.buff, Block + 1, whole.used))]
        ELSE whole

SHA1Final(c) ==
  LET size == IF Short(c.used) THEN Block ELSE 2 * Block
      bits == 8 * (c.lo + c.used)
      padded == CopyTo(Zeroed(c.buff, c.used, size), c.used, <<One>>)
      ended == CopyTo(padded, size - 2, <<Digit(bits \div Word), Digit(bits % Word)>>)
  IN  [c EXCEPT !.blocks = @ \o WholeBlocks(SubSeq(ended, 1, size))]

-----------------------------------------------------------------------------
(* SHA256 and SHA512                                                       *)

\* "bitcount" of 64 bits; ADDINC128 for SHA512.
SHA256Count(c, n) ==
  LET bits == (c.hi * Word + c.lo + 8 * n) % (Word * Word)
  IN  [c EXCEPT !.lo = bits % Word, !.hi = bits \div Word]

SHA512Count(c, n) ==
  LET lo == (c.lo + 8 * n) % Word
  IN  [c EXCEPT !.lo = lo, !.hi = @ + (IF lo < 8 * n THEN 1 ELSE 0)]

Counted(c, n) == IF kind = "sha256" THEN SHA256Count(c, n) ELSE SHA512Count(c, n)

\* Blocks that are whole are taken from where they are; each part is counted.
SHA2Update(c, bytes) ==
  LET used == Used(c)
      free == IF used = 0 THEN 0 ELSE Block - used
      rest == SubSeq(bytes, free + 1, Len(bytes))
      filled == [c EXCEPT !.buff = CopyTo(@, used, SubSeq(bytes, 1, free))]
      first == IF used = 0 THEN c ELSE Counted(Transform(filled), free)
      blocks == WholeBlocks(rest)
      whole == FoldLeft(LAMBDA d, block : Counted([d EXCEPT !.blocks = Append(@, block)], Block),
                        first, blocks)
      last == Remainder(rest)
  IN  IF used > 0 /\ FitsIn(used, Len(bytes))
        THEN Counted([c EXCEPT !.buff = CopyTo(@, used, bytes)], Len(bytes))
        ELSE Counted([whole EXCEPT !.buff = CopyTo(@, 0, last)], Len(last))

SHA2Final(c) ==
  LET used == Used(c)
      begun == [c EXCEPT !.buff = CopyTo(@, used, <<One>>)]
      full == Transform([begun EXCEPT !.buff = Zeroed(@, used + 1, Block)])
      padded ==
        CASE used = 0 -> [c EXCEPT !.buff = CopyTo(Zeroed(@, 0, Block - Field), 0, <<One>>)]
          [] used > 0 /\ Short(used) -> [begun EXCEPT !.buff = Zeroed(@, used + 1, Block - Field)]
          [] OTHER -> [full EXCEPT !.buff = Zeroed(@, 0, Block - Field)]
  IN  Transform([padded EXCEPT !.buff = CopyTo(Zeroed(@, Block - Field, Block), Block - 2,
                                            <<Digit(c.hi), Digit(c.lo)>>)])

-----------------------------------------------------------------------------
(* Whirlpool                                                               *)

\* A byte is or'ed into the buffer, and the place of the next one is cleared.
AddByte(c, byte) ==
  LET full == c.used + 1 = Block
      put == [c EXCEPT !.buff = CopyTo(@, c.used, <<Or(@[c.used + 1], byte)>>), !.used = @ + 1]
      next == IF full THEN [Transform(put) EXCEPT !.used = 0] ELSE put
  IN  [next EXCEPT !.buff = CopyTo(@, next.used, <<Zero>>)]

WhirlpoolAdd(c, bytes) == SHA256Count(FoldLeft(AddByte, c, bytes), Len(bytes))

WhirlpoolFinalize(c) ==
  LET begun == [c EXCEPT !.buff = CopyTo(@, c.used, <<Or(@[c.used + 1], One)>>), !.used = @ + 1]
      full == [Transform([begun EXCEPT !.buff = Zeroed(@, begun.used, Block)]) EXCEPT !.used = 0]
      padded == IF begun.used > Block - WideField THEN full ELSE begun
  IN  Transform([padded EXCEPT !.buff = CopyTo(Zeroed(@, padded.used, Block), Block - 2,
                                            <<Digit(c.hi), Digit(c.lo)>>)])

-----------------------------------------------------------------------------
(* JH: lengths are in bits                                                 *)

JHBytes(bits) == (bits + 7) \div 8

\* The buffer is filled up also from behind the end of what was given.
Upto(bytes, n) == [i \in 1..n |-> IF i \in DOMAIN bytes THEN bytes[i] ELSE Mixed]

\* ctx.used and ctx.lo count bits.
JHUpdate(c, bytes, bits) ==
  LET at == c.used \div 8
      joins == c.used > 0 /\ c.used + bits >= 8 * Block
      free == IF joins THEN Block - at ELSE 0
      filled == Transform([c EXCEPT !.buff = CopyTo(@, at, Upto(bytes, Block - at))])
      first == IF joins THEN filled ELSE c
      left == IF joins THEN bits - (8 * Block - c.used) ELSE bits
      n == (left \div (8 * Block)) * Block
      rest == left % (8 * Block)
  IN  IF c.used > 0 /\ ~joins
        THEN [c EXCEPT !.buff = CopyTo(@, at, Upto(bytes, Block - at)), !.used = @ + bits, !.lo = @ + bits]
        ELSE [first EXCEPT
                !.blocks = @ \o WholeBlocks(SubSeq(bytes, free + 1, free + n)),
                !.buff = CopyTo(@, 0, SubSeq(bytes, free + n + 1, free + n + JHBytes(rest))),
                !.used = rest, !.lo = @ + bits]

LengthBlock(bits) ==
  [i \in 1..Block |-> IF i = Block - 1 THEN Digit(bits \div Word)
                      ELSE IF i = Block THEN Digit(bits % Word) ELSE Zero]

JHFinal(c) ==
  LET bits == c.lo % (8 * Block)
      at == bits \div 8
      cleared == Zeroed(c.buff, JHBytes(bits), Block)
      last == CopyTo(cleared, at, <<Or(cleared[at + 1], One)>>)
  IN  [c EXCEPT !.blocks = @ \o
         IF bits = 0 THEN <<[LengthBlock(c.lo) EXCEPT ![1] = One]>>
                     ELSE <<SubSeq(last, 1, Block), LengthBlock(c.lo)>>]

-----------------------------------------------------------------------------
(* Hash->Update, Hash->Finish                                              *)

\* HashUpdateJH hands JHUpdate the number of bytes for the number of bits.
Updated(c, bytes, aligned) ==
  CASE kind = "md5" -> MD5Update(c, bytes)
    [] kind = "sha1" -> SHA1Update(c, bytes, aligned)
    [] kind \in {"sha256", "sha512"} -> IF bytes = <<>> THEN c ELSE SHA2Update(c, bytes)
    [] kind = "whirl" -> WhirlpoolAdd(c, bytes)
    [] kind = "jh" -> JHUpdate(c, bytes, Len(bytes))

Final(c) ==
  CASE kind = "md5" -> MD5Final(c)
    [] kind = "sha1" -> SHA1Final(c)
    [] kind \in {"sha256", "sha512"} -> SHA2Final(c)
    [] kind = "whirl" -> WhirlpoolFinalize(c)
    [] kind = "jh" -> JHFinal(c)

Update ==
  /\ ~over
  /\ \E n \in 0..MaxUpdate, aligned \in BOOLEAN :
       /\ fed + n <= MaxMessage
       /\ fed' = fed + n
       /\ ctx' = Updated(ctx, [i \in 1..n |-> fed + i], aligned)
  /\ UNCHANGED <<kind, over>>

Finish ==
  /\ ~over
  /\ over' = TRUE /\ ctx' = Final(ctx)
  /\ UNCHANGED <<kind, fed>>

HashNext == Update \/ Finish

HashSpec == HashInit /\ [][HashNext]_hashVars

-----------------------------------------------------------------------------
(* Properties                                                              *)

HashTypeOK ==
  /\ kind \in Kinds /\ fed \in 0..MaxMessage /\ over \in BOOLEAN
  /\ ctx.buff \in [1..(2 * Block) -> Int] /\ ctx.used \in 0..(IF kind = "jh" THEN 8 * Block - 1 ELSE Block)
  /\ ctx.lo \in Nat /\ ctx.hi \in Nat
  /\ \A k \in DOMAIN ctx.blocks : Len(ctx.blocks[k]) = Block

\* What the standards define: the message, a one bit, zeros and the length in
\* bits at the end of the last block.
Padded ==
  LET field == IF kind = "whirl" THEN WideField ELSE Field
      size == ((fed + field) \div Block + 1) * Block
      low == (8 * fed) % Word
      high == (8 * fed) \div Word
      ends == IF kind = "md5" THEN <<Digit(low), Digit(high)>> ELSE <<Digit(high), Digit(low)>>
  IN  [i \in 1..size |->
        CASE i <= fed -> i [] i = fed + 1 -> One [] i > size - 2 -> ends[i - size + 2]
          [] OTHER -> Zero]

\* The hash is that of the message, however it was cut into updates: what is
\* compressed is each of its bytes once and the padding of its length, whatever
\* the buffer held before.
HashesMessage == over /\ kind # "jh" => FlattenSeq(ctx.blocks) = Padded
=============================================================================
