---------------------------- MODULE SessionProofs ----------------------------
(***************************************************************************)
(* What runs on a connection, for any number of hops, frames, users and    *)
(* bytes: the chain of proxies leads to its destination, the messages of a *)
(* WebSocket arrive as they were sent, users that share a file keep their  *)
(* tokens, and a chunked body is read as it was sent.                      *)
(***************************************************************************)
EXTENDS ConnectionChain, WebSocket, OAuth, ChunkedTransfer, SequenceTheorems,
  WellFoundedInduction, TLAPS

\* Any natural numbers have a smallest.
LEMMA HasSmallest ==
  ASSUME NEW T \in SUBSET Nat, T # {}
  PROVE  \E i \in T : \A j \in T : i <= j
<1> DEFINE R == OpToRel(<, Nat)
<1>1. \A i, j \in Nat : j < i => <<j, i>> \in R
  BY DEF OpToRel
<1>2. IsWellFoundedOn(R, Nat)
  BY NatLessThanWellFounded
<1> HIDE DEF R
<1>3. PICK i \in T : \A j \in T : <<j, i>> \notin R
  BY <1>2, WFMin
<1>4. ASSUME NEW j \in T PROVE i <= j
  <2>1. i \in Nat /\ j \in Nat
    OBVIOUS
  <2>2. ~(j < i)
    BY <1>1, <1>3, <2>1
  <2> QED BY <2>1, <2>2
<1> QED BY <1>4

\* f has the first n of some sequences, one behind the other.
Flattened(f, seqs, n) ==
  /\ DOMAIN f = 1..n
  /\ \A i \in 1..n : f[i] = IF i = 1 THEN seqs[i] ELSE f[i - 1] \o seqs[i]

\* FlattenSeq is defined by recursion; that such a function exists and is the only one is
\* proved here from the recursion, so that what it yields can be said.
LEMMA FlattenedExist ==
  ASSUME NEW S, NEW seqs \in Seq(Seq(S)), NEW n \in 0..Len(seqs)
  PROVE  \E f \in [1..n -> Seq(S)] : Flattened(f, seqs, n)
<1> DEFINE Has(m) == \E f \in [1..m -> Seq(S)] : Flattened(f, seqs, m)
           T == {m \in 0..Len(seqs) : ~Has(m)}
<1>1. Has(0)
  <2>1. [i \in 1..0 |-> <<>>] \in [1..0 -> Seq(S)]
    OBVIOUS
  <2>2. Flattened([i \in 1..0 |-> <<>>], seqs, 0)
    BY DEF Flattened
  <2> QED BY <2>1, <2>2
<1>2. ASSUME NEW m \in 0..Len(seqs), m + 1 <= Len(seqs), Has(m) PROVE Has(m + 1)
  <2>1. PICK f \in [1..m -> Seq(S)] : Flattened(f, seqs, m)
    BY <1>2
  <2>2. m + 1 \in 1..Len(seqs) /\ seqs[m + 1] \in Seq(S)
    BY <1>2, ElementOfSeq
  <2> DEFINE new == IF m = 0 THEN seqs[m + 1] ELSE f[m] \o seqs[m + 1]
             g == [i \in 1..(m + 1) |-> IF i = m + 1 THEN new ELSE f[i]]
  <2>3. new \in Seq(S)
    <3>1. CASE m = 0
      BY <2>2, <3>1
    <3>2. CASE m # 0
      <4>1. f[m] \in Seq(S)
        BY <3>2
      <4> QED BY <2>2, <3>2, <4>1, ConcatProperties
    <3> QED BY <3>1, <3>2
  <2> HIDE DEF new
  <2>4. g \in [1..(m + 1) -> Seq(S)]
    BY <2>3
  <2>5. ASSUME NEW i \in 1..(m + 1)
        PROVE  g[i] = IF i = 1 THEN seqs[i] ELSE g[i - 1] \o seqs[i]
    <3>1. CASE i = m + 1
      <4>1. g[i] = new
        BY <3>1
      <4>2. i # 1 => g[i - 1] = f[m] /\ m # 0
        BY <3>1
      <4> QED BY <3>1, <4>1, <4>2 DEF new
    <3>2. CASE i # m + 1
      <4>1. i \in 1..m /\ g[i] = f[i] /\ (i # 1 => g[i - 1] = f[i - 1])
        BY <3>2
      <4> HIDE DEF g
      <4> QED BY <2>1, <4>1 DEF Flattened
    <3> QED BY <3>1, <3>2
  <2>6. Flattened(g, seqs, m + 1)
    <3> HIDE DEF g
    <3> QED BY <2>4, <2>5 DEF Flattened
  <2> HIDE DEF g
  <2> QED BY <2>4, <2>6
<1>3. T = {}
  <2> HIDE DEF Has
  <2> SUFFICES ASSUME T # {} PROVE FALSE
    OBVIOUS
  <2>1. T \in SUBSET Nat
    OBVIOUS
  <2>2. PICK m \in T : \A k \in T : m <= k
    BY <2>1, HasSmallest
  <2>3. m \in 0..Len(seqs) /\ ~Has(m) /\ m # 0 /\ Len(seqs) \in Nat
    BY <1>1
  <2>4. m - 1 \in 0..Len(seqs) /\ (m - 1) + 1 <= Len(seqs) /\ (m - 1) + 1 = m
    BY <2>3
  <2>5. Has(m - 1)
    BY <2>2, <2>4
  <2> QED BY <1>2, <2>3, <2>4, <2>5
<1> QED BY <1>3

\* Two functions with the recursion of FlattenSeq are the same.
LEMMA FlattenedUnique ==
  ASSUME NEW seqs, NEW m \in Nat, NEW n \in Nat, m <= n, NEW f, NEW g, Flattened(f, seqs, m), Flattened(g, seqs, n)
  PROVE  \A i \in 1..m : f[i] = g[i]
<1> DEFINE T == {i \in 1..m : f[i] # g[i]}
<1> SUFFICES ASSUME T # {} PROVE FALSE
  OBVIOUS
<1>1. T \in SUBSET Nat
  OBVIOUS
<1>2. PICK i \in T : \A k \in T : i <= k
  BY <1>1, HasSmallest
<1>3. i \in 1..m /\ i \in 1..n /\ f[i] # g[i]
  OBVIOUS
<1>4. i # 1 => f[i - 1] = g[i - 1]
  <2> SUFFICES ASSUME i # 1, f[i - 1] # g[i - 1] PROVE FALSE
    OBVIOUS
  <2>1. i - 1 \in T
    BY <1>3
  <2> QED BY <1>2, <1>3, <2>1
<1> QED BY <1>3, <1>4 DEF Flattened

\* FlattenSeq adds the last sequence to what those before it are.
LEMMA FlattenIs ==
  ASSUME NEW S, NEW seqs \in Seq(Seq(S)), NEW f, Flattened(f, seqs, Len(seqs))
  PROVE  FlattenSeq(seqs) = IF Len(seqs) = 0 THEN <<>> ELSE f[Len(seqs)]
<1> DEFINE flatten[i \in 1..Len(seqs)] == IF i = 1 THEN seqs[i] ELSE flatten[i-1] \o seqs[i]
<1>1. flatten = [i \in 1..Len(seqs) |-> IF i = 1 THEN seqs[i] ELSE flatten[i-1] \o seqs[i]]
  <2> SUFFICES \E g : g = [i \in 1..Len(seqs) |-> IF i = 1 THEN seqs[i] ELSE g[i-1] \o seqs[i]]
    BY Zenon
  <2>1. PICK g \in [1..Len(seqs) -> Seq(S)] : Flattened(g, seqs, Len(seqs))
    BY FlattenedExist, Len(seqs) \in 0..Len(seqs)
  <2>2. g = [i \in 1..Len(seqs) |-> IF i = 1 THEN seqs[i] ELSE g[i-1] \o seqs[i]]
    BY <2>1 DEF Flattened
  <2> QED BY <2>2, Zenon
<1>2. Len(seqs) # 0 => FlattenSeq(seqs) = flatten[Len(seqs)]
  BY Zenon DEF FlattenSeq
<1>3. Len(seqs) = 0 => FlattenSeq(seqs) = <<>>
  BY DEF FlattenSeq
<1> HIDE DEF flatten
<1>4. Flattened(flatten, seqs, Len(seqs))
  BY <1>1 DEF Flattened
<1>5. Len(seqs) \in Nat
  OBVIOUS
<1>6. \A i \in 1..Len(seqs) : flatten[i] = f[i]
  BY <1>4, <1>5, FlattenedUnique
<1>7. Len(seqs) # 0 => flatten[Len(seqs)] = f[Len(seqs)]
  BY <1>5, <1>6
<1> QED BY <1>2, <1>3, <1>7

\* One sequence more comes behind the others.
LEMMA FlattenAppend ==
  ASSUME NEW S, NEW seqs \in Seq(Seq(S)), NEW s \in Seq(S)
  PROVE  /\ FlattenSeq(seqs) \in Seq(S)
         /\ FlattenSeq(Append(seqs, s)) = FlattenSeq(seqs) \o s
<1> DEFINE n == Len(seqs)
           more == Append(seqs, s)
<1>1. n \in Nat /\ more \in Seq(Seq(S)) /\ Len(more) = n + 1 /\ more[n + 1] = s
      /\ \A i \in 1..n : more[i] = seqs[i]
  BY AppendProperties
<1> HIDE DEF more
<1>2. PICK g \in [1..(n + 1) -> Seq(S)] : Flattened(g, more, n + 1)
  <2>1. n + 1 \in 0..Len(more)
    BY <1>1
  <2> QED BY <1>1, <2>1, FlattenedExist
<1> DEFINE h == [i \in 1..n |-> g[i]]
<1>3. Flattened(h, seqs, n)
  <2>1. ASSUME NEW i \in 1..n PROVE h[i] = IF i = 1 THEN seqs[i] ELSE h[i - 1] \o seqs[i]
    <3>1. i \in 1..(n + 1) /\ more[i] = seqs[i] /\ h[i] = g[i] /\ (i # 1 => h[i - 1] = g[i - 1])
      BY <1>1
    <3> HIDE DEF h
    <3> QED BY <1>2, <3>1 DEF Flattened
  <2> QED BY <2>1 DEF Flattened
<1>4. FlattenSeq(seqs) = IF n = 0 THEN <<>> ELSE g[n]
  <2>1. FlattenSeq(seqs) = IF n = 0 THEN <<>> ELSE h[n]
    BY <1>3, FlattenIs
  <2> QED BY <1>1, <2>1
<1>5. FlattenSeq(more) = g[n + 1]
  <2>1. Flattened(g, more, Len(more)) /\ Len(more) # 0
    BY <1>1, <1>2
  <2>2. FlattenSeq(more) = g[Len(more)]
    BY <1>1, <2>1, FlattenIs
  <2> QED BY <1>1, <2>2
<1>6. FlattenSeq(seqs) \in Seq(S)
  BY <1>1, <1>4
<1>7. g[n + 1] = IF n = 0 THEN more[n + 1] ELSE g[n] \o more[n + 1]
  <2>1. n + 1 \in 1..(n + 1) /\ (n + 1 = 1 <=> n = 0) /\ (n + 1) - 1 = n
    BY <1>1
  <2> QED BY <1>2, <2>1 DEF Flattened
<1>8. n = 0 => FlattenSeq(seqs) \o s = s
  BY <1>4, ConcatEmptySeq
<1>9. FlattenSeq(more) = FlattenSeq(seqs) \o s
  BY <1>1, <1>4, <1>5, <1>7, <1>8
<1> QED BY <1>6, <1>9 DEF more

\* No sequences are nothing.
LEMMA FlattenEmpty == FlattenSeq(<<>>) = <<>>
  BY DEF FlattenSeq

-----------------------------------------------------------------------------
(* The frames of a WebSocket                                               *)

Frames == [op : {"text", "ping", "pong", "close"}, len : 0..MaxFrameLen, masked : BOOLEAN]
WireBytes == [op : {"text", "ping", "pong", "close", "length", "more", "mask", "data"}, len : Nat \cup (Nat \X Nat)]
Marks == (Nat \X Nat) \cup {"line feed"}

FrameCode(i) == WebSocketHeader(frames[i]) \o Payload(frames[i], i)
HeaderSize(f) == 2 + (IF f.len > BasicLen THEN 2 ELSE 0) + (IF f.masked THEN 4 ELSE 0)
CodeSize(f) == HeaderSize(f) + f.len
FrameMarks(f, i) == [k \in 1..f.len |-> <<i, k>>] \o <<"line feed">>
LeavesMask(i) == frames[i].op # "text" /\ frames[i].masked

\* What frames are sent, and what the variables may be.
FramesInv ==
  /\ masks \in BOOLEAN /\ misread \in BOOLEAN /\ msgRead \in BOOLEAN /\ msgLen \in 0..MaxFrameLen
  /\ frames \in Seq(Frames)
  /\ \A i \in 1..Len(frames) :
       IF frames[i].op = "text" THEN frames[i].masked = masks ELSE frames[i].len = 0
  /\ onWire \in Seq(WireBytes) /\ inQueue \in Seq(WireBytes)
  /\ ~masks => plain
  /\ plain \in BOOLEAN

\* flow is all that was sent, and frame i begins in it behind starts[i].
Laid(flow, starts) ==
  /\ flow \in Seq(WireBytes) /\ starts \in [1..(Len(frames) + 1) -> Nat]
  /\ starts[1] = 0 /\ starts[Len(frames) + 1] = Len(flow)
  /\ \A i \in 1..Len(frames) :
       /\ starts[i + 1] = starts[i] + CodeSize(frames[i]) /\ starts[i + 1] <= Len(flow)
       /\ \A k \in 1..CodeSize(frames[i]) : flow[starts[i] + k] = FrameCode(i)[k]

\* And what is to be read of frame i is in Meant behind offs[i].
ToldAt(offs) ==
  /\ Meant \in Seq(Marks) /\ offs \in [1..(Len(frames) + 1) -> Nat]
  /\ offs[1] = 0 /\ offs[Len(frames) + 1] = Len(Meant)
  /\ \A i \in 1..Len(frames) :
       /\ offs[i + 1] = offs[i] + frames[i].len + 1 /\ offs[i + 1] <= Len(Meant)
       /\ \A k \in 1..frames[i].len : Meant[offs[i] + k] = <<i, k>>
       /\ Meant[offs[i + 1]] = "line feed"

\* The first i messages are read, and nothing of the next.
Between(starts, offs, p, n, i) ==
  /\ ~msgRead /\ msgLen = 0 /\ n = offs[i + 1]
  /\ \/ p = starts[i + 1]
     \/ i > 0 /\ LeavesMask(i) /\ p = starts[i + 1] - 4

\* Message i is being read, and msgLen bytes of it are to come.
Within(starts, offs, p, n, i) ==
  /\ i > 0 /\ msgRead /\ msgLen <= frames[i].len
  /\ n = offs[i] + (frames[i].len - msgLen)
  /\ \/ p = starts[i + 1] - msgLen
     \/ LeavesMask(i) /\ p = starts[i + 1] - 4

\* p bytes of what was sent are read, and n of what is to be read.
ReadUpTo(flow, starts, offs, p, n) ==
  /\ inQueue \o onWire = SubSeq(flow, p + 1, Len(flow))
  /\ readOut = SubSeq(Meant, 1, n)
  /\ \E i \in 0..Len(frames) : Between(starts, offs, p, n, i) \/ Within(starts, offs, p, n, i)

FramesInStep ==
  \E flow, starts, offs : Laid(flow, starts) /\ ToldAt(offs) /\
    \E p \in 0..Len(flow), n \in 0..Len(Meant) : ReadUpTo(flow, starts, offs, p, n)

FrameInv == FramesInv /\ (~misread => FramesInStep)

-----------------------------------------------------------------------------
\* u is s and t, one behind the other.
IsJoin(u, s, t) ==
  /\ Len(u) \in Nat /\ Len(s) \in Nat /\ Len(t) \in Nat /\ Len(u) = Len(s) + Len(t)
  /\ \A k \in 1..Len(s) : u[k] = s[k]
  /\ \A k \in 1..Len(t) : u[Len(s) + k] = t[k]

\* Two sequences, one behind the other.
LEMMA Behind ==
  ASSUME NEW S, NEW s \in Seq(S), NEW t \in Seq(S)
  PROVE  s \o t \in Seq(S) /\ IsJoin(s \o t, s, t)
<1> DEFINE u == s \o t
<1>1. /\ u \in Seq(S) /\ Len(u) = Len(s) + Len(t)
      /\ \A k \in 1..(Len(s) + Len(t)) : u[k] = IF k <= Len(s) THEN s[k] ELSE t[k - Len(s)]
  BY ConcatProperties
<1>2. Len(s) \in Nat /\ Len(t) \in Nat /\ Len(u) \in Nat
  BY <1>1, LenProperties
<1>3. \A k \in 1..Len(s) : k \in 1..(Len(s) + Len(t)) /\ k <= Len(s)
  BY <1>2
<1>4. \A k \in 1..Len(t) : Len(s) + k \in 1..(Len(s) + Len(t)) /\ ~(Len(s) + k <= Len(s)) /\ (Len(s) + k) - Len(s) = k
  BY <1>2
<1> HIDE DEF u
<1>5. IsJoin(u, s, t)
  BY <1>1, <1>2, <1>3, <1>4 DEF IsJoin
<1> QED BY <1>1, <1>5 DEF u

\* q and o are what is behind the first p of a sequence, and will be when some of q has gone.
Remains(q, o, flow, p, S) ==
  /\ p + Len(q) <= Len(flow) /\ Len(q) \in Nat /\ (p = Len(flow) <=> q = <<>> /\ o = <<>>)
  /\ \A k \in 1..Len(q) : q[k] = flow[p + k]
  /\ \A m \in 0..Len(q) :
       /\ SubSeq(q, m + 1, Len(q)) \in Seq(S) /\ Len(SubSeq(q, m + 1, Len(q))) = Len(q) - m
       /\ SubSeq(q, m + 1, Len(q)) \o o = SubSeq(flow, (p + m) + 1, Len(flow))

\* What is left of a sequence when more of it has gone.
LEMMA GoneOn ==
  ASSUME NEW S, NEW q \in Seq(S), NEW o \in Seq(S), NEW flow \in Seq(S), NEW p \in 0..Len(flow),
         q \o o = SubSeq(flow, p + 1, Len(flow))
  PROVE  Remains(q, o, flow, p, S)
<1> DEFINE w == SubSeq(flow, p + 1, Len(flow))
           N == Len(flow)
<1>1. N \in Nat /\ Len(q) \in Nat /\ Len(o) \in Nat /\ p \in Nat /\ p <= N
  BY LenProperties
<1>2. w \in Seq(S) /\ Len(w) = N - p /\ \A k \in 1..(N - p) : w[k] = flow[p + k]
  BY <1>1
<1>3. w = q \o o
  OBVIOUS
<1> HIDE DEF w
<1>4. /\ Len(w) = Len(q) + Len(o)
      /\ \A k \in 1..Len(q) : w[k] = q[k]
      /\ \A k \in 1..Len(o) : w[Len(q) + k] = o[k]
  <2>1. IsJoin(w, q, o)
    BY <1>3, Behind
  <2> QED BY <2>1 DEF IsJoin
<1>5. p + Len(q) <= N /\ (p = N <=> Len(q) = 0 /\ Len(o) = 0)
  BY <1>1, <1>2, <1>4
<1>6. \A k \in 1..Len(q) : q[k] = flow[p + k]
  <2>1. \A k \in 1..Len(q) : k \in 1..(N - p)
    BY <1>1, <1>2, <1>4
  <2> QED BY <1>2, <1>4, <2>1
<1>7. ASSUME NEW m \in 0..Len(q)
      PROVE  /\ SubSeq(q, m + 1, Len(q)) \in Seq(S) /\ Len(SubSeq(q, m + 1, Len(q))) = Len(q) - m
             /\ SubSeq(q, m + 1, Len(q)) \o o = SubSeq(flow, (p + m) + 1, N)
  <2> DEFINE r == SubSeq(q, m + 1, Len(q))
             a == r \o o
             b == SubSeq(flow, (p + m) + 1, N)
  <2>0. m \in Nat /\ m <= Len(q) /\ N \in Nat
    BY <1>1
  <2>1. r \in Seq(S) /\ Len(r) = Len(q) - m /\ \A k \in 1..(Len(q) - m) : r[k] = q[m + k]
    BY <1>1
  <2>2. b \in Seq(S) /\ Len(b) = N - (p + m) /\ \A k \in 1..(N - (p + m)) : b[k] = flow[(p + m) + k]
    BY <1>1, <1>5
  <2> HIDE DEF r, b
  <2>3. /\ a \in Seq(S) /\ Len(a) = Len(r) + Len(o)
        /\ \A k \in 1..Len(r) : a[k] = r[k]
        /\ \A k \in 1..Len(o) : a[Len(r) + k] = o[k]
    <3>1. a \in Seq(S) /\ IsJoin(a, r, o)
      BY <2>1, Behind
    <3> HIDE DEF a
    <3> QED BY <3>1 DEF IsJoin
  <2> HIDE DEF a
  <2>4. Len(a) = Len(b)
    <3>1. N - p = Len(q) + Len(o) /\ Len(a) = (Len(q) - m) + Len(o)
      BY <1>2, <1>4, <2>1, <2>3
    <3>2. Len(b) = N - (p + m)
      BY <2>2
    <3> QED BY <1>1, <2>0, <3>1, <3>2
  <2>5. ASSUME NEW k \in 1..Len(a) PROVE a[k] = b[k]
    <3>1. k \in Nat /\ k \in 1..(N - (p + m)) /\ b[k] = flow[(p + m) + k] /\ (p + m) + k = p + (m + k)
      BY <1>1, <2>2, <2>4
    <3>2. m + k \in 1..(N - p) /\ w[m + k] = flow[p + (m + k)]
      BY <1>1, <1>2, <3>1
    <3>3. CASE k <= Len(q) - m
      <4>1. k \in 1..Len(r) /\ k \in 1..(Len(q) - m) /\ m + k \in 1..Len(q)
        BY <1>1, <2>1, <3>1, <3>3
      <4> QED BY <1>4, <2>1, <2>3, <3>1, <3>2, <4>1
    <3>4. CASE ~(k <= Len(q) - m)
      <4>1. k - Len(r) \in 1..Len(o) /\ k = Len(r) + (k - Len(r)) /\ m + k = Len(q) + (k - Len(r))
        BY <1>1, <2>0, <2>1, <2>3, <3>1, <3>4
      <4>2. a[k] = o[k - Len(r)] /\ w[m + k] = o[k - Len(r)]
        BY <1>4, <2>3, <4>1
      <4> QED BY <3>1, <3>2, <4>2
    <3> QED BY <3>3, <3>4
  <2>6. a = b
    BY <2>2, <2>3, <2>4, <2>5, SeqEqual
  <2> QED BY <2>1, <2>6 DEF a, b, r
<1>8. (Len(q) = 0 <=> q = <<>>) /\ (Len(o) = 0 <=> o = <<>>)
  BY EmptySeq
<1>9. p = Len(flow) <=> q = <<>> /\ o = <<>>
  BY <1>5, <1>8
<1> QED BY <1>1, <1>5, <1>6, <1>7, <1>9 DEF Remains

\* What is left of a sequence to which more is added.
LEMMA TailAndMore ==
  ASSUME NEW S, NEW s \in Seq(S), NEW c \in Seq(S), NEW p \in 0..Len(s)
  PROVE  SubSeq(s, p + 1, Len(s)) \o c = SubSeq(s \o c, p + 1, Len(s \o c))
<1> DEFINE u == s \o c
           a == SubSeq(s, p + 1, Len(s))
           l == a \o c
           b == SubSeq(u, p + 1, Len(u))
<1>1. u \in Seq(S) /\ IsJoin(u, s, c)
  BY Behind
<1> HIDE DEF u
<1>2. Len(s) \in Nat /\ Len(c) \in Nat /\ Len(u) = Len(s) + Len(c) /\ p \in Nat /\ p <= Len(s)
  BY <1>1 DEF IsJoin
<1>3. a \in Seq(S) /\ Len(a) = Len(s) - p /\ \A k \in 1..(Len(s) - p) : a[k] = s[p + k]
  BY <1>2
<1>4. b \in Seq(S) /\ Len(b) = Len(u) - p /\ \A k \in 1..(Len(u) - p) : b[k] = u[p + k]
  BY <1>1, <1>2
<1> HIDE DEF a, b
<1>5. l \in Seq(S) /\ IsJoin(l, a, c)
  BY <1>3, Behind
<1> HIDE DEF l
<1>6. Len(l) = Len(b)
  <2>1. Len(l) = (Len(s) - p) + Len(c)
    BY <1>3, <1>5 DEF IsJoin
  <2> QED BY <1>2, <1>4, <2>1
<1>7. ASSUME NEW k \in 1..Len(l) PROVE l[k] = b[k]
  <2>1. k \in Nat /\ k \in 1..(Len(u) - p) /\ b[k] = u[p + k]
    BY <1>4, <1>5, <1>6 DEF IsJoin
  <2>2. CASE k <= Len(s) - p
    <3>1. k \in 1..Len(a) /\ p + k \in 1..Len(s) /\ k \in 1..(Len(s) - p)
      BY <1>2, <1>3, <2>1, <2>2
    <3> QED BY <1>1, <1>3, <1>5, <2>1, <3>1 DEF IsJoin
  <2>3. CASE ~(k <= Len(s) - p)
    <3>1. k - Len(a) \in 1..Len(c) /\ k = Len(a) + (k - Len(a)) /\ p + k = Len(s) + (k - Len(a))
      BY <1>2, <1>3, <2>1, <2>3
    <3> QED BY <1>1, <1>5, <2>1, <3>1 DEF IsJoin
  <2> QED BY <2>2, <2>3
<1>8. l = b
  BY <1>4, <1>5, <1>6, <1>7, SeqEqual
<1> QED BY <1>8 DEF l, a, b, u

\* The first of a sequence, to which more is added.
LEMMA HeadAndMore ==
  ASSUME NEW S, NEW s \in Seq(S), NEW d \in Seq(S), NEW n \in 0..Len(s), NEW u, u = s \o d
  PROVE  SubSeq(u, 1, n) = SubSeq(s, 1, n)
<1>1. u \in Seq(S) /\ IsJoin(u, s, d)
  BY Behind
<1>2. Len(s) \in Nat /\ n \in Nat /\ n <= Len(s) /\ n <= Len(u) /\ Len(u) \in Nat
  BY <1>1 DEF IsJoin
<1>3. \A k \in 1..n : u[k] = s[k]
  BY <1>1, <1>2 DEF IsJoin
<1> DEFINE a == SubSeq(u, 1, n)
           b == SubSeq(s, 1, n)
<1>4. a \in Seq(S) /\ Len(a) = n /\ \A k \in 1..n : a[k] = u[k]
  BY <1>1, <1>2
<1>5. b \in Seq(S) /\ Len(b) = n /\ \A k \in 1..n : b[k] = s[k]
  BY <1>2
<1> HIDE DEF a, b
<1>6. a = b
  BY <1>3, <1>4, <1>5, SeqEqual
<1> QED BY <1>6 DEF a, b

\* A part of a sequence, from its beginning, with what follows in it.
LEMMA GivenOn ==
  ASSUME NEW S, NEW all \in Seq(S), NEW n \in 0..Len(all), NEW d \in Seq(S), n + Len(d) <= Len(all),
         \A k \in 1..Len(d) : d[k] = all[n + k]
  PROVE  SubSeq(all, 1, n) \o d = SubSeq(all, 1, n + Len(d))
<1> DEFINE m == Len(d)
           s == SubSeq(all, 1, n)
           a == s \o d
           b == SubSeq(all, 1, n + m)
<1>1. Len(all) \in Nat /\ n \in Nat /\ m \in Nat /\ n + m <= Len(all)
  BY LenProperties
<1>2. s \in Seq(S) /\ Len(s) = n /\ \A k \in 1..n : s[k] = all[k]
  BY <1>1
<1>3. b \in Seq(S) /\ Len(b) = n + m /\ \A k \in 1..(n + m) : b[k] = all[k]
  BY <1>1
<1>4. d \in Seq(S) /\ Len(d) = m /\ \A k \in 1..m : d[k] = all[n + k]
  OBVIOUS
<1> HIDE DEF m, s, b
<1>5. /\ a \in Seq(S) /\ Len(a) = Len(s) + Len(d)
      /\ \A k \in 1..Len(s) : a[k] = s[k]
      /\ \A k \in 1..Len(d) : a[Len(s) + k] = d[k]
  <2>1. a \in Seq(S) /\ IsJoin(a, s, d)
    BY <1>2, <1>4, Behind
  <2> HIDE DEF a
  <2> QED BY <2>1 DEF IsJoin
<1> HIDE DEF a
<1>6. ASSUME NEW k \in 1..Len(a) PROVE a[k] = b[k]
  <2>1. k \in 1..(n + m) /\ b[k] = all[k]
    BY <1>2, <1>3, <1>4, <1>5
  <2>2. CASE k <= n
    <3>1. k \in 1..n
      BY <1>1, <2>1, <2>2
    <3> QED BY <1>2, <1>5, <2>1, <3>1
  <2>3. CASE ~(k <= n)
    <3>1. k - n \in 1..m /\ k = n + (k - n)
      BY <1>1, <2>1, <2>3
    <3>2. a[k] = d[k - n] /\ d[k - n] = all[k]
      BY <1>2, <1>4, <1>5, <3>1
    <3> QED BY <2>1, <3>2
  <2> QED BY <2>2, <2>3
<1>7. a = b
  BY <1>2, <1>3, <1>4, <1>5, <1>6, SeqEqual
<1> QED BY <1>7 DEF a, b, s, m

\* One more of a sequence.
LEMMA OneMore ==
  ASSUME NEW S, NEW all \in Seq(S), NEW n \in 0..Len(all), n + 1 <= Len(all)
  PROVE  Append(SubSeq(all, 1, n), all[n + 1]) = SubSeq(all, 1, n + 1)
<1> DEFINE s == SubSeq(all, 1, n)
           b == SubSeq(all, 1, n + 1)
<1>1. Len(all) \in Nat /\ n \in Nat /\ n + 1 \in 1..Len(all)
  BY LenProperties
<1>2. s \in Seq(S) /\ Len(s) = n /\ \A k \in 1..n : s[k] = all[k]
  BY <1>1
<1>3. b \in Seq(S) /\ Len(b) = n + 1 /\ \A k \in 1..(n + 1) : b[k] = all[k]
  BY <1>1
<1>4. all[n + 1] \in S
  BY <1>1, ElementOfSeq
<1> HIDE DEF s, b
<1> DEFINE a == Append(s, all[n + 1])
<1>5. a \in Seq(S) /\ Len(a) = n + 1 /\ (\A k \in 1..n : a[k] = s[k]) /\ a[n + 1] = all[n + 1]
  BY <1>2, <1>4, AppendProperties
<1> HIDE DEF a
<1>6. \A k \in 1..(n + 1) : k = n + 1 \/ k \in 1..n
  BY <1>1
<1>7. \A k \in 1..Len(a) : a[k] = b[k]
  BY <1>2, <1>3, <1>5, <1>6
<1>8. a = b
  BY <1>3, <1>5, <1>7, SeqEqual
<1> QED BY <1>8 DEF a, b, s

\* A sequence is its first and its last part.
LEMMA TwoParts ==
  ASSUME NEW S, NEW s \in Seq(S), NEW n \in 0..Len(s)
  PROVE  SubSeq(s, 1, n) \o SubSeq(s, n + 1, Len(s)) = SubSeq(s, 1, Len(s))
<1>1. n \in Nat /\ n <= Len(s) /\ Len(s) \in Nat
  BY LenProperties
<1> DEFINE m == Len(s) - n
           d == SubSeq(s, n + 1, Len(s))
<1>2. m \in Nat /\ n + m = Len(s)
  BY <1>1
<1>3. d \in Seq(S) /\ Len(d) = m /\ \A k \in 1..Len(d) : d[k] = s[n + k]
  <2>1. d \in Seq(S) /\ Len(d) = Len(s) - n /\ \A k \in 1..(Len(s) - n) : d[k] = s[n + k]
    BY <1>1
  <2>2. Len(d) = m
    BY <2>1
  <2> HIDE DEF d
  <2>3. \A k \in 1..Len(d) : d[k] = s[n + k]
    BY <2>1
  <2> QED BY <2>1, <2>2, <2>3
<1> HIDE DEF m, d
<1>4. SubSeq(s, 1, n) \o d = SubSeq(s, 1, n + Len(d))
  <2>1. n + Len(d) <= Len(s)
    BY <1>1, <1>2, <1>3
  <2> QED BY <1>3, <2>1, GivenOn
<1> QED BY <1>2, <1>3, <1>4 DEF d

\* c are the bytes of frame i, which is f.
IsCode(c, f, i) ==
  /\ c \in Seq(WireBytes) /\ Len(c) = CodeSize(f)
  /\ f.len \in Nat /\ HeaderSize(f) \in Nat /\ CodeSize(f) \in Nat
  /\ CodeSize(f) = HeaderSize(f) + f.len /\ HeaderSize(f) >= 2
  /\ c[1] = [op |-> f.op, len |-> f.len] /\ c[2] = [op |-> "length", len |-> f.len]
  /\ f.masked =>
       /\ HeaderSize(f) >= 6
       /\ \A k \in 1..HeaderSize(f) : k > HeaderSize(f) - 4 => c[k].op = "mask"
  /\ \A k \in 1..f.len : c[HeaderSize(f) + k] = [op |-> "data", len |-> <<i, k>>]

\* The bytes of a frame.
LEMMA CodeIs ==
  ASSUME NEW f \in Frames, NEW i \in Nat
  PROVE  IsCode(WebSocketHeader(f) \o Payload(f, i), f, i)
<1> DEFINE c == WebSocketHeader(f) \o Payload(f, i)
           a == <<[op |-> f.op, len |-> f.len]>> \o <<[op |-> "length", len |-> f.len]>>
           b == IF f.len > BasicLen THEN <<[op |-> "more", len |-> 0], [op |-> "more", len |-> 0]>> ELSE <<>>
           m == IF f.masked THEN [k \in 1..4 |-> [op |-> "mask", len |-> 0]] ELSE <<>>
           d == Payload(f, i)
<1>0. c = ((a \o b) \o m) \o d
  BY DEF WebSocketHeader
<1>1. f.len \in Nat /\ f.masked \in BOOLEAN /\ f.op \in {"text", "ping", "pong", "close"} /\ BasicLen \in Nat
  BY WebSocketAssumption DEF Frames
<1>2. a \in Seq(WireBytes) /\ Len(a) = 2 /\ a[1] = [op |-> f.op, len |-> f.len]
      /\ a[2] = [op |-> "length", len |-> f.len]
  <2>1. [op |-> f.op, len |-> f.len] \in WireBytes /\ [op |-> "length", len |-> f.len] \in WireBytes
    BY <1>1 DEF WireBytes
  <2> QED BY <2>1
<1>3. b \in Seq(WireBytes) /\ Len(b) = IF f.len > BasicLen THEN 2 ELSE 0
  <2>1. [op |-> "more", len |-> 0] \in WireBytes
    BY DEF WireBytes
  <2> QED BY <2>1
<1>4. m \in Seq(WireBytes) /\ Len(m) = (IF f.masked THEN 4 ELSE 0)
      /\ \A k \in 1..Len(m) : m[k] = [op |-> "mask", len |-> 0]
  <2>1. [op |-> "mask", len |-> 0] \in WireBytes
    BY DEF WireBytes
  <2>2. CASE f.masked
    <3>1. m = [k \in 1..4 |-> [op |-> "mask", len |-> 0]]
      BY <2>2
    <3>2. m \in [1..4 -> WireBytes]
      BY <2>1, <3>1
    <3>3. m \in Seq(WireBytes) /\ Len(m) = 4
      BY <3>1, <3>2
    <3> QED BY <2>2, <3>1, <3>3
  <2>3. CASE ~f.masked
    BY <2>3
  <2> QED BY <2>2, <2>3
<1>5. d \in Seq(WireBytes) /\ Len(d) = f.len
      /\ \A k \in 1..f.len : d[k] = [op |-> "data", len |-> <<i, k>>]
  <2>1. \A k \in 1..f.len : [op |-> "data", len |-> <<i, k>>] \in WireBytes
    BY <1>1 DEF WireBytes
  <2> QED BY <1>1, <2>1 DEF Payload
<1> HIDE DEF a, b, m, d, c
<1>6. (a \o b) \in Seq(WireBytes) /\ Len(a \o b) = 2 + Len(b) /\ (a \o b)[1] = a[1] /\ (a \o b)[2] = a[2]
  <2>1. 1 \in 1..Len(a) /\ 2 \in 1..Len(a)
    BY <1>2
  <2>2. (a \o b) \in Seq(WireBytes) /\ IsJoin(a \o b, a, b)
    BY <1>2, <1>3, Behind
  <2> QED BY <1>2, <2>1, <2>2 DEF IsJoin
<1> DEFINE ab == a \o b
           h == ab \o m
<1> HIDE DEF ab
<1>7. ab \in Seq(WireBytes) /\ Len(ab) = 2 + Len(b) /\ ab[1] = a[1] /\ ab[2] = a[2] /\ m \in Seq(WireBytes)
  BY <1>4, <1>6 DEF ab
<1>8. /\ h \in Seq(WireBytes) /\ Len(ab) \in Nat /\ Len(m) \in Nat /\ Len(h) = Len(ab) + Len(m)
      /\ \A k \in 1..Len(ab) : h[k] = ab[k]
      /\ \A k \in 1..Len(m) : h[Len(ab) + k] = m[k]
  <2>1. h \in Seq(WireBytes) /\ IsJoin(h, ab, m)
    BY <1>7, Behind
  <2> HIDE DEF h
  <2> QED BY <2>1 DEF IsJoin
<1>9. Len(ab) = HeaderSize(f) - (IF f.masked THEN 4 ELSE 0) /\ HeaderSize(f) \in Nat /\ HeaderSize(f) >= 2
      /\ (f.masked => HeaderSize(f) >= 6) /\ Len(h) = HeaderSize(f) /\ Len(ab) >= 2
  BY <1>1, <1>3, <1>4, <1>7, <1>8 DEF HeaderSize
<1> HIDE DEF h
<1>10. h[1] = a[1] /\ h[2] = a[2] /\ \A k \in 1..HeaderSize(f) : k > Len(ab) => h[k].op = "mask"
  <2>1. 1 \in 1..Len(ab) /\ 2 \in 1..Len(ab)
    BY <1>8, <1>9
  <2>2. ASSUME NEW k \in 1..HeaderSize(f), k > Len(ab) PROVE h[k].op = "mask"
    <3>1. k - Len(ab) \in 1..Len(m) /\ k = Len(ab) + (k - Len(ab))
      BY <1>8, <1>9, <2>2
    <3>2. h[k] = m[k - Len(ab)]
      BY <1>8, <3>1
    <3>3. m[k - Len(ab)] = [op |-> "mask", len |-> 0]
      BY <1>4, <3>1
    <3> QED BY <3>2, <3>3
  <2> QED BY <1>7, <1>8, <2>1, <2>2
<1>11. /\ c \in Seq(WireBytes) /\ Len(c) = HeaderSize(f) + f.len
       /\ \A k \in 1..HeaderSize(f) : c[k] = h[k]
       /\ \A k \in 1..f.len : c[HeaderSize(f) + k] = d[k]
  <2>1. c = h \o d /\ d \in Seq(WireBytes) /\ Len(d) = f.len
    BY <1>0, <1>5 DEF ab, h
  <2>2. c \in Seq(WireBytes) /\ IsJoin(c, h, d)
    BY <1>8, <2>1, Behind
  <2> QED BY <1>9, <2>1, <2>2 DEF IsJoin
<1>14. CodeSize(f) = HeaderSize(f) + f.len /\ CodeSize(f) \in Nat
  BY <1>1, <1>9 DEF CodeSize
<1>15. c[1] = [op |-> f.op, len |-> f.len] /\ c[2] = [op |-> "length", len |-> f.len]
  <2>1. 1 \in 1..HeaderSize(f) /\ 2 \in 1..HeaderSize(f)
    BY <1>9
  <2> QED BY <1>2, <1>10, <1>11, <2>1
<1>16. f.masked => \A k \in 1..HeaderSize(f) : k > HeaderSize(f) - 4 => c[k].op = "mask"
  BY <1>9, <1>10, <1>11
<1>17. IsCode(c, f, i)
  <2>1. \A k \in 1..f.len : c[HeaderSize(f) + k] = [op |-> "data", len |-> <<i, k>>]
    BY <1>5, <1>11
  <2> QED BY <1>1, <1>9, <1>11, <1>14, <1>15, <1>16, <2>1 DEF IsCode
<1> QED BY <1>17 DEF c

\* And its two parts.
LEMMA PartsOfFrame ==
  ASSUME NEW f \in Frames, NEW i \in Nat
  PROVE  WebSocketHeader(f) \in Seq(WireBytes) /\ Payload(f, i) \in Seq(WireBytes)
<1>1. f.len \in Nat /\ f.masked \in BOOLEAN /\ f.op \in {"text", "ping", "pong", "close"}
  BY WebSocketAssumption DEF Frames
<1>2. /\ [op |-> f.op, len |-> f.len] \in WireBytes /\ [op |-> "length", len |-> f.len] \in WireBytes
      /\ [op |-> "more", len |-> 0] \in WireBytes /\ [op |-> "mask", len |-> 0] \in WireBytes
      /\ \A k \in 1..f.len : [op |-> "data", len |-> <<i, k>>] \in WireBytes
  BY <1>1 DEF WireBytes
<1>3. WebSocketHeader(f) \in Seq(WireBytes)
  <2> DEFINE a == <<[op |-> f.op, len |-> f.len]>> \o <<[op |-> "length", len |-> f.len]>>
             b == IF f.len > BasicLen THEN <<[op |-> "more", len |-> 0], [op |-> "more", len |-> 0]>> ELSE <<>>
             m == IF f.masked THEN [k \in 1..4 |-> [op |-> "mask", len |-> 0]] ELSE <<>>
  <2>1. a \in Seq(WireBytes)
    BY <1>2
  <2>2. b \in Seq(WireBytes)
    BY <1>2
  <2>3. m \in Seq(WireBytes)
    BY <1>2
  <2>4. WebSocketHeader(f) = (a \o b) \o m
    BY DEF WebSocketHeader
  <2> HIDE DEF a, b, m
  <2>5. a \o b \in Seq(WireBytes)
    BY <2>1, <2>2, ConcatProperties
  <2> QED BY <2>3, <2>4, <2>5, ConcatProperties
<1>4. Payload(f, i) \in Seq(WireBytes)
  BY <1>1, <1>2 DEF Payload
<1> QED BY <1>3, <1>4

\* What is to be read of a frame.
LEMMA MarkedIs ==
  ASSUME NEW f \in Frames, NEW i \in Nat
  PROVE  /\ FrameMarks(f, i) \in Seq(Marks) /\ Len(FrameMarks(f, i)) = f.len + 1 /\ f.len \in Nat
         /\ \A k \in 1..f.len : FrameMarks(f, i)[k] = <<i, k>>
         /\ FrameMarks(f, i)[f.len + 1] = "line feed"
<1> DEFINE d == [k \in 1..f.len |-> <<i, k>>]
           e == <<"line feed">>
<1>1. f.len \in Nat
  BY WebSocketAssumption DEF Frames
<1>2. d \in Seq(Marks) /\ Len(d) = f.len /\ \A k \in 1..f.len : d[k] = <<i, k>>
  <2>1. \A k \in 1..f.len : <<i, k>> \in Marks
    <3>1. \A k \in 1..f.len : k \in Nat
      BY <1>1
    <3> QED BY <3>1 DEF Marks
  <2> HIDE DEF Marks
  <2> QED BY <1>1, <2>1
<1>3. e \in Seq(Marks) /\ Len(e) = 1 /\ e[1] = "line feed"
  BY DEF Marks
<1> HIDE DEF d, e
<1>4. d \o e \in Seq(Marks) /\ IsJoin(d \o e, d, e)
  BY <1>2, <1>3, Behind
<1>5. FrameMarks(f, i) = d \o e
  BY DEF FrameMarks, d, e
<1>6. 1 \in 1..Len(e)
  <2>1. Len(e) = 1
    BY <1>3
  <2> QED BY <2>1
<1> QED BY <1>1, <1>2, <1>3, <1>4, <1>5, <1>6 DEF IsJoin

\* A frame that is sent adds its bytes to what is meant to be read.
LEMMA MeantGrows ==
  ASSUME FramesInv, NEW f \in Frames, frames' = Append(frames, f)
  PROVE  Meant \in Seq(Marks) /\ Meant' = Meant \o FrameMarks(f, Len(frames) + 1)
<1> DEFINE parts == [i \in DOMAIN frames |-> FrameMarks(frames[i], i)]
           more == [i \in DOMAIN frames' |-> FrameMarks(frames'[i], i)]
           n == Len(frames)
<1>1. n \in Nat /\ frames' \in Seq(Frames) /\ DOMAIN frames = 1..n /\ DOMAIN frames' = 1..(n + 1)
      /\ frames'[n + 1] = f /\ \A i \in 1..n : frames'[i] = frames[i]
  BY DEF FramesInv
<1>2. ASSUME NEW g \in Frames, NEW i \in Nat PROVE FrameMarks(g, i) \in Seq(Marks)
  BY MarkedIs
<1>3. parts \in Seq(Seq(Marks)) /\ FrameMarks(f, n + 1) \in Seq(Marks)
  <2>1. \A i \in 1..n : frames[i] \in Frames
    BY <1>1 DEF FramesInv
  <2>2. \A i \in 1..n : FrameMarks(frames[i], i) \in Seq(Marks)
    BY <1>1, <1>2, <2>1
  <2> QED BY <1>1, <1>2, <2>2
<1>4. more = Append(parts, FrameMarks(f, n + 1))
  <2>1. more = [i \in 1..(n + 1) |-> IF i = n + 1 THEN FrameMarks(f, n + 1) ELSE FrameMarks(frames[i], i)]
    BY <1>1
  <2>2. Append(parts, FrameMarks(f, n + 1)) = [i \in 1..(n + 1) |-> IF i = n + 1 THEN FrameMarks(f, n + 1) ELSE parts[i]]
    <3>1. Len(parts) = n
      BY <1>1
    <3> QED BY <1>1, <1>3, <3>1
  <2> QED BY <1>1, <2>1, <2>2
<1>5. Meant = FlattenSeq(parts) /\ Meant' = FlattenSeq(more)
  BY DEF Meant, FrameMarks
<1> HIDE DEF parts, more
<1> QED BY <1>3, <1>4, <1>5, FlattenAppend

-----------------------------------------------------------------------------
(* The reader keeps in step with the sender                                *)

\* What is on the wire may be put together in any order.
LEMMA WireRegroup == \A s, t, u \in Seq(WireBytes) : (s \o t) \o u = s \o (t \o u)
BY ConcatAssociative

\* Nothing has been sent or read at first.
LEMMA FramesStart == SocketInit => FrameInv
<1> SUFFICES ASSUME SocketInit PROVE FrameInv
  OBVIOUS
<1> USE WebSocketAssumption DEF SocketInit
<1>1. FramesInv
  <2>1. frames \in Seq(Frames) /\ onWire \in Seq(WireBytes) /\ inQueue \in Seq(WireBytes) /\ Len(frames) = 0
    OBVIOUS
  <2>2. msgLen \in 0..MaxFrameLen
    OBVIOUS
  <2>3. \A i \in 1..Len(frames) : FALSE
    BY <2>1
  <2>4. masks \in BOOLEAN /\ misread \in BOOLEAN /\ msgRead \in BOOLEAN /\ plain \in BOOLEAN /\ plain
    BY Zenon
  <2> QED BY <2>1, <2>2, <2>3, <2>4, Zenon DEF FramesInv
<1>2. Meant = <<>>
  <2>1. [i \in DOMAIN frames |-> [k \in 1..frames[i].len |-> <<i, k>>] \o <<"line feed">>] = <<>>
    OBVIOUS
  <2> QED BY <2>1, FlattenEmpty DEF Meant
<1>3. Laid(<<>>, [i \in 1..1 |-> 0])
  BY DEF Laid
<1>4. ToldAt([i \in 1..1 |-> 0])
  BY <1>2 DEF ToldAt
<1>5. ReadUpTo(<<>>, [i \in 1..1 |-> 0], [i \in 1..1 |-> 0], 0, 0)
  <2>1. Between([i \in 1..1 |-> 0], [i \in 1..1 |-> 0], 0, 0, 0)
    BY DEF Between
  <2>2. <<>> \o <<>> = SubSeq(<<>>, 1, 0)
    BY ConcatEmptySeq
  <2> QED BY <1>2, <2>1, <2>2 DEF ReadUpTo
<1>6. FramesInStep
  BY <1>3, <1>4, <1>5 DEF FramesInStep
<1> QED BY <1>1, <1>6 DEF FrameInv

\* A frame is sent: it is the last of what was sent, and of what is to be read.
LEMMA SendsKeeps ==
  ASSUME FrameInv, NEW f \in Frames, Sends(f),
         IF f.op = "text" THEN f.masked = masks ELSE f.len = 0
  PROVE  FrameInv'
<1>1. PICK n : n = Len(frames)
  OBVIOUS
<1>2. PICK c : c = WebSocketHeader(f) \o Payload(f, n + 1)
  OBVIOUS
<1>3. FramesInv /\ n \in Nat /\ frames' \in Seq(Frames) /\ Len(frames') = n + 1
      /\ frames'[n + 1] = f /\ \A i \in 1..n : frames'[i] = frames[i] /\ frames[i] \in Frames
  BY <1>1 DEF FrameInv, FramesInv, Sends, Queues
<1>4. IsCode(c, f, n + 1)
  BY <1>2, <1>3, CodeIs
<1>5. onWire' = onWire \o c /\ onWire' \in Seq(WireBytes) /\ onWire \in Seq(WireBytes)
  <2> DEFINE a == WebSocketHeader(f)
             d == Payload(f, n + 1)
  <2>1. a \in Seq(WireBytes) /\ d \in Seq(WireBytes)
    BY <1>3, PartsOfFrame
  <2>2. onWire' = (onWire \o a) \o d
    BY <1>1 DEF Sends, Queues
  <2>3. onWire \in Seq(WireBytes)
    BY <1>3 DEF FramesInv
  <2>4. c = a \o d
    BY <1>2
  <2> HIDE DEF a, d
  <2>5. onWire' = onWire \o c
    <3>1. (onWire \o a) \o d = onWire \o (a \o d)
      BY <2>1, <2>3, WireRegroup
    <3> QED BY <2>2, <2>4, <3>1
  <2>6. c \in Seq(WireBytes)
    BY <2>1, <2>4, ConcatProperties
  <2> QED BY <2>3, <2>5, <2>6, ConcatProperties
<1>6. FramesInv'
  <2>1. ASSUME NEW i \in 1..Len(frames')
        PROVE IF frames'[i].op = "text" THEN frames'[i].masked = masks ELSE frames'[i].len = 0
    <3>1. i = n + 1 \/ i \in 1..n
      BY <1>3
    <3> QED BY <1>1, <1>3, <3>1 DEF FramesInv
  <2> QED BY <1>3, <1>5, <2>1 DEF FramesInv, Sends, Queues
<1>7. CASE misread
  BY <1>6, <1>7 DEF FrameInv, Sends, Queues
<1>8. CASE ~misread
  <2>1. PICK flow, starts, offs : Laid(flow, starts) /\ ToldAt(offs) /\
               \E p \in 0..Len(flow), k \in 0..Len(Meant) : ReadUpTo(flow, starts, offs, p, k)
    BY <1>8 DEF FrameInv, FramesInStep
  <2>2. PICK p \in 0..Len(flow), r \in 0..Len(Meant) : ReadUpTo(flow, starts, offs, p, r)
    BY <2>1
  <2>3. PICK old : old = Meant
    OBVIOUS
  <2>4. PICK flow2 : flow2 = flow \o c
    OBVIOUS
  <2>5. PICK starts2 : starts2 = [i \in 1..(n + 2) |-> IF i = n + 2 THEN Len(flow) + CodeSize(f) ELSE starts[i]]
    OBVIOUS
  <2>6. PICK offs2 : offs2 = [i \in 1..(n + 2) |-> IF i = n + 2 THEN Len(old) + f.len + 1 ELSE offs[i]]
    OBVIOUS
  <2>7. flow2 \in Seq(WireBytes) /\ IsJoin(flow2, flow, c) /\ flow \in Seq(WireBytes) /\ c \in Seq(WireBytes)
    BY <1>4, <2>1, <2>4, Behind DEF Laid, IsCode
  <2>8. PICK d : d = FrameMarks(f, n + 1)
    OBVIOUS
  <2>9. /\ d \in Seq(Marks) /\ Len(d) = f.len + 1 /\ f.len \in Nat
        /\ \A k \in 1..f.len : d[k] = <<n + 1, k>>
        /\ d[f.len + 1] = "line feed"
    <3>1. n + 1 \in Nat
      BY <1>3
    <3> QED BY <2>8, <3>1, MarkedIs
  <2>10. old \in Seq(Marks) /\ Meant' = old \o d
    <3>1. frames' = Append(frames, f)
      BY DEF Sends, Queues
    <3> QED BY <1>1, <1>3, <2>3, <2>8, <3>1, MeantGrows
  <2>11. Meant' \in Seq(Marks) /\ IsJoin(Meant', old, d)
    BY <2>9, <2>10, Behind
  <2>12. /\ starts2 \in [1..(n + 2) -> Nat] /\ starts2[1] = 0 /\ starts2[n + 2] = Len(flow2)
         /\ \A i \in 1..(n + 1) : starts2[i] = starts[i]
         /\ starts[n + 1] = Len(flow)
    <3>1. Len(flow) \in Nat /\ Len(flow2) = Len(flow) + CodeSize(f) /\ CodeSize(f) \in Nat
      BY <1>4, <2>7 DEF IsJoin, IsCode
    <3>2. starts \in [1..(n + 1) -> Nat] /\ starts[1] = 0 /\ starts[n + 1] = Len(flow)
      BY <1>1, <2>1 DEF Laid
    <3>3. starts2 \in [1..(n + 2) -> Nat]
      BY <1>3, <2>5, <3>1, <3>2, SMTT(30)
    <3> QED BY <1>3, <2>5, <3>1, <3>2, <3>3
  <2>13. /\ offs2 \in [1..(n + 2) -> Nat] /\ offs2[1] = 0 /\ offs2[n + 2] = Len(Meant')
         /\ \A i \in 1..(n + 1) : offs2[i] = offs[i]
         /\ offs[n + 1] = Len(old)
    <3>1. Len(old) \in Nat /\ Len(Meant') = Len(old) + (f.len + 1)
      BY <2>9, <2>11 DEF IsJoin
    <3>2. offs \in [1..(n + 1) -> Nat] /\ offs[1] = 0 /\ offs[n + 1] = Len(old)
      BY <1>1, <2>1, <2>3 DEF ToldAt
    <3>3. PICK e : e = Len(old) + f.len + 1
      OBVIOUS
    <3> DEFINE L == f.len
    <3>6. L \in Nat
      BY <2>9
    <3>7. Len(Meant') = Len(old) + (L + 1) /\ e = Len(old) + L + 1
      BY <3>1, <3>3 DEF L
    <3> HIDE DEF L
    <3>8. e \in Nat /\ e = Len(Meant')
      BY <3>1, <3>6, <3>7
    <3>4. e \in Nat /\ e = Len(Meant') /\ offs2 = [i \in 1..(n + 2) |-> IF i = n + 2 THEN e ELSE offs[i]]
      BY <2>6, <3>3, <3>8
    <3>5. offs2 \in [1..(n + 2) -> Nat]
      BY <1>3, <3>2, <3>4
    <3> QED BY <1>3, <3>2, <3>4, <3>5
  <2>14. ASSUME NEW i \in 1..n PROVE FrameCode(i)' = FrameCode(i)
    BY <1>3 DEF FrameCode
  <2>15. FrameCode(n + 1)' = c
    BY <1>2, <1>3 DEF FrameCode
  <2>16. Laid(flow2, starts2)'
    <3>1. ASSUME NEW i \in 1..(n + 1)
          PROVE  /\ starts2[i + 1] = starts2[i] + CodeSize(frames'[i]) /\ starts2[i + 1] <= Len(flow2)
                 /\ \A k \in 1..CodeSize(frames'[i]) : flow2[starts2[i] + k] = FrameCode(i)'[k]
      <4>1. CASE i = n + 1
        <5>1. frames'[i] = f /\ i + 1 = n + 2 /\ FrameCode(i)' = c /\ starts2[i] = Len(flow)
          BY <1>3, <2>12, <2>15, <4>1
        <5>2. Len(flow2) = Len(flow) + CodeSize(f) /\ \A k \in 1..CodeSize(f) : flow2[Len(flow) + k] = c[k]
          BY <1>4, <2>7 DEF IsJoin, IsCode
        <5>3. Len(flow2) \in Nat
          BY <2>7 DEF IsJoin
        <5>4. starts2[i + 1] = Len(flow2) /\ Len(flow2) <= Len(flow2)
          BY <2>12, <5>1, <5>3
        <5>5. starts2[i + 1] = starts2[i] + CodeSize(frames'[i])
          BY <5>1, <5>2, <5>4
        <5> QED BY <5>1, <5>2, <5>4, <5>5
      <4>2. CASE i # n + 1
        <5>1. i \in 1..n /\ frames'[i] = frames[i] /\ i + 1 \in 1..(n + 1) /\ FrameCode(i)' = FrameCode(i)
          BY <1>3, <2>14, <4>2
        <5>2. /\ starts[i + 1] = starts[i] + CodeSize(frames[i]) /\ starts[i + 1] <= Len(flow)
              /\ \A k \in 1..CodeSize(frames[i]) : flow[starts[i] + k] = FrameCode(i)[k]
          BY <1>1, <2>1, <5>1 DEF Laid
        <5>3. starts[i] \in Nat /\ CodeSize(frames[i]) \in Nat
          BY <1>1, <1>3, <2>1, <5>1, CodeIs DEF Laid, IsCode
        <5>4. Len(flow) \in Nat /\ Len(flow2) \in Nat /\ Len(flow) <= Len(flow2)
              /\ \A k \in 1..Len(flow) : flow2[k] = flow[k]
          BY <2>7 DEF IsJoin
        <5>5. \A k \in 1..CodeSize(frames[i]) : starts[i] + k \in 1..Len(flow)
          BY <5>2, <5>3, <5>4
        <5>6. starts2[i] = starts[i] /\ starts2[i + 1] = starts[i + 1] /\ starts[i + 1] \in Nat
          BY <2>12, <5>1, <5>2, <5>3
        <5> QED BY <5>1, <5>2, <5>4, <5>5, <5>6
      <4> QED BY <4>1, <4>2
    <3> QED BY <1>3, <2>7, <2>12, <3>1 DEF Laid
  <2>17. ToldAt(offs2)'
    <3>1. ASSUME NEW i \in 1..(n + 1)
          PROVE  /\ offs2[i + 1] = offs2[i] + frames'[i].len + 1 /\ offs2[i + 1] <= Len(Meant')
                 /\ \A k \in 1..frames'[i].len : Meant'[offs2[i] + k] = <<i, k>>
                 /\ Meant'[offs2[i + 1]] = "line feed"
      <4>1. CASE i = n + 1
        <5>1. frames'[i] = f /\ i + 1 = n + 2 /\ offs2[i] = Len(old) /\ offs2[i + 1] = Len(Meant')
          BY <1>3, <2>13, <4>1
        <5>2. /\ Len(old) \in Nat /\ Len(Meant') \in Nat /\ Len(Meant') = Len(old) + (f.len + 1)
              /\ \A k \in 1..(f.len + 1) : Meant'[Len(old) + k] = d[k]
          BY <2>9, <2>11 DEF IsJoin
        <5> DEFINE L == f.len
        <5>7. L \in Nat
          BY <2>9
        <5> HIDE DEF L
        <5>8. (\A k \in 1..L : k \in 1..(L + 1)) /\ L + 1 \in 1..(L + 1)
          BY <5>7
        <5>3. \A k \in 1..f.len : k \in 1..(f.len + 1)
          BY <5>8 DEF L
        <5>4. \A k \in 1..f.len : Meant'[Len(old) + k] = <<i, k>>
          BY <2>9, <4>1, <5>2, <5>3
        <5>5. f.len + 1 \in 1..(f.len + 1)
          BY <5>8 DEF L
        <5>6. Meant'[Len(old) + (f.len + 1)] = "line feed"
          BY <2>9, <5>2, <5>5
        <5>9. offs2[i + 1] = offs2[i] + f.len + 1 /\ offs2[i + 1] <= Len(Meant')
              /\ offs2[i + 1] = Len(old) + (f.len + 1)
          <6>1. Len(old) \in Nat /\ L \in Nat /\ Len(Meant') = Len(old) + (L + 1)
            BY <5>2, <5>7 DEF L
          <6>2. Len(Meant') = Len(old) + L + 1 /\ Len(Meant') <= Len(Meant')
            BY <6>1
          <6> QED BY <5>1, <5>2, <6>2 DEF L
        <5> QED BY <5>1, <5>4, <5>6, <5>9
      <4>2. CASE i # n + 1
        <5>1. i \in 1..n /\ frames'[i] = frames[i] /\ i + 1 \in 1..(n + 1)
          BY <1>3, <4>2
        <5>2. /\ offs[i + 1] = offs[i] + frames[i].len + 1 /\ offs[i + 1] <= Len(old)
              /\ \A k \in 1..frames[i].len : old[offs[i] + k] = <<i, k>>
              /\ old[offs[i + 1]] = "line feed"
          BY <1>1, <2>1, <2>3, <5>1 DEF ToldAt
        <5>3. offs[i] \in Nat /\ frames[i].len \in Nat
          BY <1>1, <1>3, <2>1, <5>1, MarkedIs DEF ToldAt
        <5>4. Len(old) \in Nat /\ Len(Meant') \in Nat /\ Len(old) <= Len(Meant')
              /\ \A k \in 1..Len(old) : Meant'[k] = old[k]
          BY <2>11 DEF IsJoin
        <5> DEFINE L == frames[i].len
        <5>7. L \in Nat /\ offs[i] \in Nat /\ offs[i + 1] = offs[i] + L + 1 /\ offs[i + 1] <= Len(old)
          BY <5>2, <5>3
        <5>8. offs[i + 1] \in 1..Len(old) /\ \A k \in 1..L : offs[i] + k \in 1..Len(old)
          <6> DEFINE a == offs[i]
                     b == offs[i + 1]
                     o == Len(old)
          <6>1. L \in Nat /\ a \in Nat /\ b = a + L + 1 /\ b <= o /\ o \in Nat
            BY <5>4, <5>7
          <6> HIDE DEF L, a, b, o
          <6>2. b \in 1..o /\ \A k \in 1..L : a + k \in 1..o
            BY <6>1
          <6> QED BY <6>2 DEF a, b, o
        <5> HIDE DEF L
        <5>5. offs[i + 1] \in 1..Len(old) /\ \A k \in 1..frames[i].len : offs[i] + k \in 1..Len(old)
          BY <5>8 DEF L
        <5>9. offs[i + 1] <= Len(Meant')
          <6>1. Len(old) \in Nat /\ Len(Meant') \in Nat /\ Len(old) <= Len(Meant')
            BY <5>4
          <6>2. offs[i + 1] \in Nat /\ offs[i + 1] <= Len(old)
            BY <5>8, <6>1
          <6> QED BY <6>1, <6>2
        <5>6. offs2[i] = offs[i] /\ offs2[i + 1] = offs[i + 1]
          BY <2>13, <5>1
        <5> QED BY <5>1, <5>2, <5>4, <5>5, <5>6, <5>9
      <4> QED BY <4>1, <4>2
    <3>2. Len(frames') + 1 = n + 2 /\ Len(frames') = n + 1
      BY <1>3
    <3> QED BY <2>11, <2>13, <3>1, <3>2 DEF ToldAt
  <2>18. ReadUpTo(flow2, starts2, offs2, p, r)'
    <3>1. PICK i \in 0..n : Between(starts, offs, p, r, i) \/ Within(starts, offs, p, r, i)
      BY <1>1, <2>2 DEF ReadUpTo
    <3>2. (Between(starts2, offs2, p, r, i) \/ Within(starts2, offs2, p, r, i))'
      <4>1. i \in 0..(n + 1) /\ i + 1 \in 1..(n + 1) /\ (i > 0 => i \in 1..n)
        BY <1>3
      <4>2. starts2[i + 1] = starts[i + 1] /\ offs2[i + 1] = offs[i + 1] /\ (i > 0 => offs2[i] = offs[i])
        <5>1. i > 0 => i \in 1..(n + 1)
          BY <4>1
        <5> QED BY <2>12, <2>13, <4>1, <5>1
      <4>3. i > 0 => frames'[i] = frames[i] /\ LeavesMask(i)' = LeavesMask(i)
        BY <1>3, <4>1 DEF LeavesMask
      <4>4. msgRead' = msgRead /\ msgLen' = msgLen
        BY DEF Sends, Queues
      <4> QED BY <3>1, <4>1, <4>2, <4>3, <4>4 DEF Between, Within
    <3>3. inQueue' \o onWire' = SubSeq(flow2, p + 1, Len(flow2))
      <4>1. inQueue \in Seq(WireBytes) /\ inQueue' = inQueue
        BY <1>3 DEF FramesInv, Sends, Queues
      <4>2. inQueue' \o onWire' = (inQueue \o onWire) \o c
        <5>1. inQueue \o (onWire \o c) = (inQueue \o onWire) \o c
          BY <1>5, <2>7, <4>1, WireRegroup
        <5> QED BY <1>5, <4>1, <5>1
      <4>3. inQueue \o onWire = SubSeq(flow, p + 1, Len(flow))
        BY <2>2 DEF ReadUpTo
      <4>4. SubSeq(flow, p + 1, Len(flow)) \o c = SubSeq(flow2, p + 1, Len(flow2))
        <5>1. SubSeq(flow, p + 1, Len(flow)) \o c = SubSeq(flow \o c, p + 1, Len(flow \o c))
          BY <2>7, TailAndMore
        <5> QED BY <2>4, <5>1
      <4> QED BY <4>2, <4>3, <4>4
    <3>4. readOut' = SubSeq(Meant', 1, r)
      <4>1. readOut' = SubSeq(old, 1, r) /\ r \in 0..Len(old)
        BY <2>2, <2>3 DEF ReadUpTo, Sends, Queues
      <4> QED BY <2>9, <2>10, <4>1, HeadAndMore
    <3>5. Len(frames') = n + 1 /\ i \in 0..(n + 1)
      BY <1>3
    <3> QED BY <3>2, <3>3, <3>4, <3>5 DEF ReadUpTo
  <2>19. p \in 0..Len(flow2) /\ r \in 0..Len(Meant')
    BY <2>3, <2>7, <2>11 DEF IsJoin
  <2>20. FramesInStep'
    BY <2>16, <2>17, <2>18, <2>19 DEF FramesInStep
  <2> QED BY <1>6, <2>20 DEF FrameInv
<1> QED BY <1>7, <1>8

\* And a step of no variable of theirs changes nothing.
LEMMA FrameRests == FrameInv /\ wsVars' = wsVars => FrameInv'
<1> SUFFICES ASSUME FrameInv, wsVars' = wsVars PROVE FrameInv'
  OBVIOUS
<1> USE DEF wsVars
<1>1. FramesInv'
  BY DEF FrameInv, FramesInv
<1>2. FramesInStep => FramesInStep'
  <2> SUFFICES ASSUME FramesInStep PROVE FramesInStep'
    OBVIOUS
  <2>1. PICK flow, starts, offs : Laid(flow, starts) /\ ToldAt(offs) /\
               \E p \in 0..Len(flow), k \in 0..Len(Meant) : ReadUpTo(flow, starts, offs, p, k)
    BY DEF FramesInStep
  <2>2. PICK p \in 0..Len(flow), r \in 0..Len(Meant) : ReadUpTo(flow, starts, offs, p, r)
    BY <2>1
  <2>3. Laid(flow, starts)' /\ ToldAt(offs)' /\ Meant' = Meant
    BY <2>1, ZenonT(30) DEF Laid, ToldAt, Meant, FrameCode
  <2>4. ReadUpTo(flow, starts, offs, p, r)'
    BY <2>2, <2>3, SMTT(30) DEF ReadUpTo, Between, Within, LeavesMask
  <2> QED BY <2>2, <2>3, <2>4 DEF FramesInStep
<1> QED BY <1>1, <1>2 DEF FrameInv

\* What has arrived is all of what is not read yet, or a part from its beginning.
LEMMA ArrivesKeeps == FrameInv /\ ArrivesSome => FrameInv'
<1> SUFFICES ASSUME FrameInv, ArrivesSome PROVE FrameInv'
  OBVIOUS
<1>1. PICK n \in 1..Len(onWire) :
        inQueue' = inQueue \o SubSeq(onWire, 1, n) /\ onWire' = SubSeq(onWire, n + 1, Len(onWire))
  BY DEF ArrivesSome
<1>2. inQueue \in Seq(WireBytes) /\ onWire \in Seq(WireBytes) /\ FramesInv
  BY DEF FrameInv, FramesInv
<1> DEFINE a == SubSeq(onWire, 1, n)
           b == SubSeq(onWire, n + 1, Len(onWire))
<1>3. a \in Seq(WireBytes) /\ b \in Seq(WireBytes) /\ onWire = a \o b
  <2>1. Len(onWire) \in Nat /\ n \in Nat /\ n <= Len(onWire)
    BY <1>2
  <2>2. a \in Seq(WireBytes) /\ b \in Seq(WireBytes)
    BY <1>2, <2>1
  <2>3. a \o b = SubSeq(onWire, 1, Len(onWire))
    BY <1>2, <2>1, TwoParts
  <2>4. SubSeq(onWire, 1, Len(onWire)) = onWire
    BY <1>2, SubSeqFull
  <2> QED BY <2>2, <2>3, <2>4
<1> HIDE DEF a, b
<1>4. inQueue' = inQueue \o a /\ onWire' = b
  BY <1>1 DEF a, b
<1>5. inQueue' \in Seq(WireBytes) /\ onWire' \in Seq(WireBytes)
  BY <1>2, <1>3, <1>4, ConcatProperties
<1>6. inQueue' \o onWire' = inQueue \o onWire
  <2>1. (inQueue \o a) \o b = inQueue \o (a \o b)
    BY <1>2, <1>3, WireRegroup
  <2> QED BY <1>3, <1>4, <2>1
<1>7. FramesInv'
  BY <1>2, <1>5 DEF FramesInv, ArrivesSome
<1>8. /\ misread' = misread /\ frames' = frames /\ readOut' = readOut /\ msgRead' = msgRead /\ msgLen' = msgLen
  BY DEF ArrivesSome
<1>9. FramesInStep => FramesInStep'
  <2> SUFFICES ASSUME FramesInStep PROVE FramesInStep'
    OBVIOUS
  <2>1. PICK flow, starts, offs : Laid(flow, starts) /\ ToldAt(offs) /\
               \E p \in 0..Len(flow), k \in 0..Len(Meant) : ReadUpTo(flow, starts, offs, p, k)
    BY DEF FramesInStep
  <2>2. PICK p \in 0..Len(flow), r \in 0..Len(Meant) : ReadUpTo(flow, starts, offs, p, r)
    BY <2>1
  <2>3. Laid(flow, starts)' /\ ToldAt(offs)' /\ Meant' = Meant
    BY <1>8, <2>1 DEF Laid, ToldAt, Meant, FrameCode
  <2>4. ReadUpTo(flow, starts, offs, p, r)'
    BY <1>6, <1>8, <2>2, <2>3 DEF ReadUpTo, Between, Within, LeavesMask
  <2> QED BY <2>2, <2>3, <2>4 DEF FramesInStep
<1> QED BY <1>7, <1>8, <1>9 DEF FrameInv

\* A frame that is sent in part is noted.
LEMMA PartKeeps ==
  ASSUME FrameInv, NEW f \in Frames, SendsPart(f),
         IF f.op = "text" THEN f.masked = masks ELSE f.len = 0
  PROVE  FrameInv'
<1>1. FramesInv /\ Queues(f) /\ misread' = TRUE
  BY DEF FrameInv, SendsPart
<1>2. Len(frames) \in Nat /\ frames' \in Seq(Frames) /\ Len(frames') = Len(frames) + 1
      /\ frames'[Len(frames) + 1] = f /\ \A i \in 1..Len(frames) : frames'[i] = frames[i]
  BY <1>1 DEF FramesInv, Queues
<1>3. onWire' \in Seq(WireBytes)
  <2>1. PICK all : all = WebSocketHeader(f) \o Payload(f, Len(frames) + 1)
    OBVIOUS
  <2>2. all \in Seq(WireBytes)
    BY <1>2, <2>1, PartsOfFrame, ConcatProperties
  <2>3. PICK n \in 0..(Len(all) - 1) : onWire' = onWire \o SubSeq(all, 1, n)
    BY <2>1 DEF SendsPart
  <2>4. SubSeq(all, 1, n) \in Seq(WireBytes)
    <3>1. Len(all) \in Nat /\ n \in Nat /\ n <= Len(all)
      BY <2>2, <2>3, LenProperties
    <3> QED BY <2>2, <3>1, SubSeqProperties
  <2>5. onWire \in Seq(WireBytes)
    BY <1>1 DEF FramesInv
  <2> QED BY <2>3, <2>4, <2>5, ConcatProperties
<1>4. ASSUME NEW i \in 1..Len(frames')
      PROVE IF frames'[i].op = "text" THEN frames'[i].masked = masks ELSE frames'[i].len = 0
  <2>1. i = Len(frames) + 1 \/ i \in 1..Len(frames)
    BY <1>2
  <2> QED BY <1>1, <1>2, <2>1 DEF FramesInv
<1>5. FramesInv'
  <2>1. /\ masks' = masks /\ msgRead' = msgRead /\ msgLen' = msgLen /\ inQueue' = inQueue /\ plain' = plain
    BY <1>1 DEF Queues
  <2>2. misread' \in BOOLEAN
    BY <1>1
  <2> QED BY <1>1, <1>2, <1>3, <1>4, <2>1, <2>2 DEF FramesInv
<1> QED BY <1>1, <1>5 DEF FrameInv

\* What another WebSocket reads is noted, or changes nothing.
LEMMA OtherKeeps == FrameInv /\ OtherRead => FrameInv'
<1> SUFFICES ASSUME FrameInv, OtherRead PROVE FrameInv'
  OBVIOUS
<1>1. FramesInv'
  BY DEF FrameInv, FramesInv, OtherRead
<1>2. CASE misread'
  BY <1>1, <1>2 DEF FrameInv
<1>3. CASE ~misread'
  <2>1. wsVars' = wsVars
    <3>1. ~misread /\ msgLen' = msgLen
      BY <1>3 DEF OtherRead, FrameInv, FramesInv
    <3> QED BY <1>3, <3>1 DEF OtherRead, wsVars, FrameInv, FramesInv
  <2> QED BY <2>1, FrameRests
<1> QED BY <1>2, <1>3

\* What is behind the first i frames.
NextIs(flow, starts, i) ==
  /\ i + 1 \in 1..Len(frames) /\ frames[i + 1] \in Frames
  /\ starts[i + 1] \in Nat /\ starts[i + 2] \in Nat
  /\ starts[i + 2] = starts[i + 1] + CodeSize(frames[i + 1]) /\ starts[i + 2] <= Len(flow)
  /\ \E c : IsCode(c, frames[i + 1], i + 1)
         /\ \A k \in 1..CodeSize(frames[i + 1]) : flow[starts[i + 1] + k] = c[k]

\* Where the frame behind a frame begins.
LEMMA NextFrame ==
  ASSUME FramesInv, NEW flow, NEW starts, Laid(flow, starts),
         NEW i \in 0..Len(frames), starts[i + 1] < Len(flow)
  PROVE  NextIs(flow, starts, i)
<1>1. Len(frames) \in Nat /\ frames \in Seq(Frames)
  BY DEF FramesInv
<1>2. starts \in [1..(Len(frames) + 1) -> Nat] /\ starts[Len(frames) + 1] = Len(flow)
  BY DEF Laid
<1>3. i # Len(frames) /\ i \in Nat /\ i + 1 \in 1..Len(frames)
  <2>1. i # Len(frames)
    <3> SUFFICES ASSUME i = Len(frames) PROVE FALSE
      OBVIOUS
    <3>1. starts[i + 1] = Len(flow)
      BY <1>2
    <3>2. Len(flow) \in Nat
      BY DEF Laid
    <3> QED BY <3>1, <3>2
  <2> QED BY <1>1, <2>1
<1>4. frames[i + 1] \in Frames
  BY <1>1, <1>3, ElementOfSeq
<1>5. /\ starts[(i + 1) + 1] = starts[i + 1] + CodeSize(frames[i + 1]) /\ starts[(i + 1) + 1] <= Len(flow)
      /\ \A k \in 1..CodeSize(frames[i + 1]) : flow[starts[i + 1] + k] = FrameCode(i + 1)[k]
  BY <1>3 DEF Laid
<1>6. IsCode(FrameCode(i + 1), frames[i + 1], i + 1)
  BY <1>3, <1>4, CodeIs DEF FrameCode
<1>7. (i + 1) + 1 = i + 2 /\ i + 1 \in 1..(Len(frames) + 1) /\ i + 2 \in 1..(Len(frames) + 1)
  BY <1>1, <1>3
<1>8. starts[i + 1] \in Nat /\ starts[i + 2] \in Nat
  BY <1>2, <1>7
<1> QED BY <1>3, <1>4, <1>5, <1>6, <1>7, <1>8 DEF NextIs

\* What is known of frame i.
LEMMA FrameAt ==
  ASSUME FramesInv, NEW i \in 1..Len(frames)
  PROVE  /\ frames[i] \in Frames /\ frames[i].len \in Nat /\ frames[i].len <= MaxFrameLen
         /\ frames[i].masked \in BOOLEAN
         /\ frames[i].op = "text" => frames[i].masked = masks
         /\ frames[i].op # "text" => frames[i].len = 0
<1>1. frames[i] \in Frames
  BY ElementOfSeq DEF FramesInv
<1>2. frames[i].len \in 0..MaxFrameLen /\ frames[i].masked \in BOOLEAN
  BY <1>1 DEF Frames
<1> QED BY <1>1, <1>2, WebSocketAssumption DEF FramesInv

\* And of where it is.
WhereIs(flow, starts, offs, i) ==
  /\ starts[i + 1] \in Nat /\ offs[i + 1] \in Nat /\ offs[i + 1] <= Len(Meant) /\ Len(Meant) \in Nat
  /\ Meant \in Seq(Marks) /\ Len(flow) \in Nat /\ starts[i + 1] <= Len(flow)
  /\ i > 0 => /\ i \in 1..Len(frames) /\ starts[i] \in Nat /\ offs[i] \in Nat
              /\ offs[i + 1] = offs[i] + frames[i].len + 1
              /\ Meant[offs[i + 1]] = "line feed"

\* The places of a frame, in what was sent and in what is meant.
LEMMA WhereAt ==
  ASSUME FramesInv, NEW flow, NEW starts, NEW offs, Laid(flow, starts), ToldAt(offs), NEW i \in 0..Len(frames)
  PROVE  WhereIs(flow, starts, offs, i)
<1>1. Len(frames) \in Nat /\ i + 1 \in 1..(Len(frames) + 1) /\ i \in Nat
      /\ (i > 0 => i \in 1..Len(frames) /\ i \in 1..(Len(frames) + 1))
  BY LenProperties DEF FramesInv
<1>2. starts \in [1..(Len(frames) + 1) -> Nat] /\ offs \in [1..(Len(frames) + 1) -> Nat]
      /\ starts[1] = 0 /\ offs[1] = 0
      /\ Meant \in Seq(Marks) /\ flow \in Seq(WireBytes)
  BY DEF Laid, ToldAt
<1>3. Len(Meant) \in Nat /\ Len(flow) \in Nat
  BY <1>2, LenProperties
<1>4. starts[i + 1] \in Nat /\ offs[i + 1] \in Nat /\ (i > 0 => starts[i] \in Nat /\ offs[i] \in Nat)
  BY <1>1, <1>2
<1>5. i > 0 => /\ starts[i + 1] <= Len(flow) /\ offs[i + 1] <= Len(Meant)
               /\ offs[i + 1] = offs[i] + frames[i].len + 1 /\ Meant[offs[i + 1]] = "line feed"
  BY <1>1 DEF Laid, ToldAt
<1>6. i = 0 => starts[i + 1] <= Len(flow) /\ offs[i + 1] <= Len(Meant)
  BY <1>2, <1>3
<1>7. i = 0 \/ i > 0
  BY <1>1
<1> QED BY <1>1, <1>2, <1>3, <1>4, <1>5, <1>6, <1>7 DEF WhereIs

\* Some bytes of message i are given out: as much as is gone of what was sent is more of
\* what is to be read.
LEMMA GivesOn ==
  ASSUME FramesInv, NEW flow, NEW starts, NEW offs, Laid(flow, starts), ToldAt(offs),
         NEW i \in 1..Len(frames), NEW q, NEW len \in 0..frames[i].len, NEW room \in 1..MaxRoom, NEW unmasks,
         q \in Seq(WireBytes), q \o onWire = SubSeq(flow, (starts[i + 1] - len) + 1, Len(flow)),
         readOut = SubSeq(Meant, 1, offs[i] + (frames[i].len - len)),
         Gives(q, len, room, unmasks), msgRead' = TRUE, UNCHANGED <<masks, frames, onWire>>
  PROVE  /\ inQueue' \in Seq(WireBytes) /\ msgLen' \in 0..frames[i].len
         /\ \E p \in 0..Len(flow), r \in 0..Len(Meant) : ReadUpTo(flow, starts, offs, p, r)'
<1>1. frames[i] \in Frames /\ i \in Nat /\ Len(frames) \in Nat /\ i \in 1..(Len(frames) + 1)
      /\ i + 1 \in 1..(Len(frames) + 1)
  BY ElementOfSeq DEF FramesInv
<1>2. PICK L : L = frames[i].len
  OBVIOUS
<1>3. L \in Nat /\ len \in Nat /\ len <= L /\ room \in Nat
  <2>1. L \in Nat
    BY <1>1, <1>2, MarkedIs
  <2> QED BY <1>2, <2>1
<1>4. PICK n : n = Pulled(q, IF len > room THEN room ELSE len)
  OBVIOUS
<1>5. Len(q) \in Nat /\ n \in Nat /\ n <= len /\ n <= Len(q)
  <2> DEFINE m == IF len > room THEN room ELSE len
  <2>1. m \in Nat /\ m <= len
    BY <1>3
  <2>2. Len(q) \in Nat
    BY LenProperties
  <2>3. n = IF Len(q) < m THEN Len(q) ELSE m
    BY <1>4 DEF Pulled
  <2> HIDE DEF m
  <2> QED BY <1>3, <2>1, <2>2, <2>3
<1>6. PICK d : d = [k \in 1..n |-> q[k].len]
  OBVIOUS
<1>7. readOut' = readOut \o d /\ inQueue' = Without(q, n) /\ msgLen' = len - n
  BY <1>4, <1>6 DEF Gives
<1>8. PICK W : W = Len(flow)
  OBVIOUS
<1>9. PICK s, e : s = starts[i] /\ e = starts[i + 1]
  OBVIOUS
<1>10. PICK h : h = HeaderSize(frames[i])
  OBVIOUS
<1>11. PICK c : c = FrameCode(i)
  OBVIOUS
<1>12. CodeSize(frames[i]) = h + L /\ h \in Nat
       /\ \A k \in 1..L : c[h + k] = [op |-> "data", len |-> <<i, k>>]
  <2>1. IsCode(FrameCode(i), frames[i], i)
    BY <1>1, CodeIs DEF FrameCode
  <2> QED BY <1>2, <1>10, <1>11, <2>1 DEF IsCode
<1>13. /\ flow \in Seq(WireBytes) /\ W \in Nat /\ e \in Nat /\ e <= W /\ s \in Nat
       /\ e = s + (h + L)
       /\ \A k \in 1..(h + L) : flow[s + k] = c[k]
  <2>1. e = s + CodeSize(frames[i]) /\ e <= Len(flow)
        /\ \A k \in 1..CodeSize(frames[i]) : flow[s + k] = FrameCode(i)[k]
    BY <1>9 DEF Laid
  <2>2. starts \in [1..(Len(frames) + 1) -> Nat] /\ flow \in Seq(WireBytes)
    BY DEF Laid
  <2>3. s \in Nat /\ e \in Nat
    BY <1>1, <1>9, <2>2
  <2>4. Len(flow) \in Nat
    BY <2>2, LenProperties
  <2> QED BY <1>8, <1>11, <1>12, <2>1, <2>2, <2>3, <2>4
<1>14. \A k \in 1..L : flow[(e - L) + k] = [op |-> "data", len |-> <<i, k>>]
  <2>1. \A k \in 1..L : h + k \in 1..(h + L) /\ (e - L) + k = s + (h + k)
    <3>1. h \in Nat /\ e \in Nat /\ s \in Nat /\ e = s + (h + L)
      BY <1>12, <1>13
    <3> QED BY <1>3, <3>1
  <2> QED BY <1>12, <1>13, <2>1
<1>15. e - len \in 0..W /\ e >= L
  <2>1. h \in Nat /\ W \in Nat /\ e \in Nat /\ e <= W /\ s \in Nat /\ e = s + (h + L)
    BY <1>12, <1>13
  <2>2. e >= L
    BY <1>3, <2>1
  <2> QED BY <1>3, <2>1, <2>2
<1>16. /\ \A k \in 1..Len(q) : q[k] = flow[(e - len) + k]
       /\ Without(q, n) \in Seq(WireBytes)
       /\ Without(q, n) \o onWire = SubSeq(flow, ((e - len) + n) + 1, W)
  <2>1. onWire \in Seq(WireBytes)
    BY DEF FramesInv
  <2>2. q \o onWire = SubSeq(flow, (e - len) + 1, Len(flow))
    BY <1>9
  <2>3. n \in 0..Len(q)
    BY <1>5
  <2>4. e - len \in 0..Len(flow)
    BY <1>8, <1>15
  <2>5. PICK p : p = e - len
    OBVIOUS
  <2>6. /\ \A k \in 1..Len(q) : q[k] = flow[p + k]
        /\ \A m \in 0..Len(q) :
              /\ SubSeq(q, m + 1, Len(q)) \in Seq(WireBytes)
              /\ SubSeq(q, m + 1, Len(q)) \o onWire = SubSeq(flow, (p + m) + 1, Len(flow))
    <3>1. p \in 0..Len(flow) /\ q \o onWire = SubSeq(flow, p + 1, Len(flow))
      BY <2>2, <2>4, <2>5
    <3>2. Remains(q, onWire, flow, p, WireBytes)
      BY <1>13, <2>1, <3>1, GoneOn
    <3> QED BY <3>2 DEF Remains
  <2> QED BY <1>8, <2>3, <2>5, <2>6 DEF Without
<1>17. \A k \in 1..n : q[k].len = <<i, (L - len) + k>>
  <2>1. \A k \in 1..n : k \in 1..Len(q) /\ (L - len) + k \in 1..L /\ (e - len) + k = (e - L) + ((L - len) + k)
    BY <1>3, <1>5, <1>13, SMTT(30)
  <2>2. \A k \in 1..n : q[k] = [op |-> "data", len |-> <<i, (L - len) + k>>]
    BY <1>14, <1>16, <2>1
  <2>3. ASSUME NEW k \in 1..n PROVE q[k].len = <<i, (L - len) + k>>
    <3>1. PICK x : x = <<i, (L - len) + k>>
      OBVIOUS
    <3>2. q[k] = [op |-> "data", len |-> x]
      BY <2>2, <3>1
    <3> QED BY <3>1, <3>2
  <2> QED BY <2>3
<1>18. PICK o, all : o = offs[i] /\ all = Meant
  OBVIOUS
<1>19. /\ all \in Seq(Marks) /\ o \in Nat /\ Len(all) \in Nat /\ o + L <= Len(all)
       /\ \A k \in 1..L : all[o + k] = <<i, k>>
  <2>1. offs \in [1..(Len(frames) + 1) -> Nat] /\ all \in Seq(Marks)
    BY <1>18 DEF ToldAt
  <2>2. /\ offs[i + 1] = o + L + 1 /\ offs[i + 1] <= Len(all)
        /\ \A k \in 1..L : all[o + k] = <<i, k>>
    BY <1>2, <1>18 DEF ToldAt
  <2>3. o \in Nat /\ Len(all) \in Nat
    BY <1>1, <1>18, <2>1, LenProperties
  <2>4. o + L + 1 <= Len(all)
    BY <2>2
  <2>5. o + L <= Len(all)
    BY <1>3, <2>3, <2>4
  <2> QED BY <2>1, <2>2, <2>3, <2>5
<1>20. PICK r : r = o + (L - len)
  OBVIOUS
<1>21. r \in 0..Len(all) /\ r + n <= Len(all) /\ r + n \in 0..Len(all) /\ r + n = o + (L - (len - n)) /\ len - n <= L
       /\ \A k \in 1..n : (L - len) + k \in 1..L /\ r + k = o + ((L - len) + k) /\ (L - len) + k \in Nat
  <2>1. o \in Nat /\ Len(all) \in Nat /\ o + L <= Len(all)
    BY <1>19
  <2> QED BY <1>3, <1>5, <1>20, <2>1
<1>22. d \in Seq(Marks) /\ Len(d) = n /\ \A k \in 1..n : d[k] = all[r + k]
  <2>1. \A k \in 1..n : q[k].len = all[r + k]
    BY <1>17, <1>19, <1>21
  <2>2. \A k \in 1..n : <<i, (L - len) + k>> \in Marks
    BY <1>1, <1>21 DEF Marks
  <2>3. \A k \in 1..n : q[k].len \in Marks
    BY <1>17, <2>2
  <2> QED BY <1>5, <1>6, <2>1, <2>3
<1>23. readOut' = SubSeq(all, 1, r + n)
  <2>1. readOut = SubSeq(all, 1, r)
    BY <1>2, <1>18, <1>20
  <2>2. SubSeq(all, 1, r) \o d = SubSeq(all, 1, r + Len(d))
    <3>1. d \in Seq(Marks) /\ all \in Seq(Marks) /\ r + Len(d) <= Len(all) /\ \A k \in 1..Len(d) : d[k] = all[r + k]
      BY <1>19, <1>21, <1>22
    <3> QED BY <1>21, <3>1, GivenOn
  <2> QED BY <1>7, <1>22, <2>1, <2>2
<1>24. PICK p : p = e - (len - n)
  OBVIOUS
<1>25. inQueue' \o onWire' = SubSeq(flow, p + 1, W) /\ p \in 0..W /\ p = (e - len) + n
  <2>1. p = (e - len) + n /\ p \in 0..W
    <3>1. W \in Nat /\ e \in Nat /\ e <= W
      BY <1>13
    <3> QED BY <1>3, <1>5, <1>15, <1>24, <3>1
  <2> QED BY <1>7, <1>16, <2>1
<1>26. Meant' = all
  BY <1>18 DEF Meant
<1>27. Within(starts, offs, p, r + n, i)'
  <2>1. i > 0
    OBVIOUS
  <2> QED BY <1>2, <1>7, <1>9, <1>18, <1>21, <1>24, <2>1 DEF Within
<1>28. ReadUpTo(flow, starts, offs, p, r + n)'
  <2>1. i \in 0..Len(frames')
    OBVIOUS
  <2> QED BY <1>8, <1>23, <1>25, <1>26, <1>27, <2>1 DEF ReadUpTo
<1>29. inQueue' \in Seq(WireBytes) /\ msgLen' \in 0..frames[i].len
  <2>1. len - n \in 0..L
    BY <1>3, <1>5
  <2> QED BY <1>2, <1>7, <1>16, <2>1
<1>30. p \in 0..Len(flow) /\ r + n \in 0..Len(Meant)
  BY <1>8, <1>18, <1>21, <1>25
<1>31. \E x \in 0..Len(flow), y \in 0..Len(Meant) : ReadUpTo(flow, starts, offs, x, y)'
  BY <1>28, <1>30
<1> QED BY <1>29, <1>31

\* WebSocketReadBytes.
LEMMA SocketReadsKeep ==
  ASSUME FrameInv, NEW room \in 1..MaxRoom, WebSocketReadBytes(room)
  PROVE  FrameInv'
<1>1. ~misread /\ FramesInv /\ FramesInStep /\ UNCHANGED <<masks, frames, onWire>>
  BY DEF FrameInv, WebSocketReadBytes
<1>2. PICK flow, starts, offs : Laid(flow, starts) /\ ToldAt(offs) /\
             \E p \in 0..Len(flow), k \in 0..Len(Meant) : ReadUpTo(flow, starts, offs, p, k)
  BY <1>1 DEF FramesInStep
<1>3. PICK p \in 0..Len(flow), r \in 0..Len(Meant) : ReadUpTo(flow, starts, offs, p, r)
  BY <1>2
<1>4. PICK i \in 0..Len(frames) : Between(starts, offs, p, r, i) \/ Within(starts, offs, p, r, i)
  BY <1>3 DEF ReadUpTo
<1>5. Laid(flow, starts)' /\ ToldAt(offs)' /\ Meant' = Meant
  BY <1>1, <1>2 DEF Laid, ToldAt, Meant, FrameCode
<1>6. SUFFICES /\ inQueue' \in Seq(WireBytes) /\ msgLen' \in 0..MaxFrameLen
               /\ msgRead' \in BOOLEAN /\ plain' \in BOOLEAN /\ misread' \in BOOLEAN /\ (~masks => plain')
               /\ misread' \/ \E x \in 0..Len(flow), y \in 0..Len(Meant') : ReadUpTo(flow, starts, offs, x, y)'
  <2>1. ASSUME /\ inQueue' \in Seq(WireBytes) /\ msgLen' \in 0..MaxFrameLen
               /\ msgRead' \in BOOLEAN /\ plain' \in BOOLEAN /\ misread' \in BOOLEAN /\ (~masks => plain')
               /\ misread' \/ \E x \in 0..Len(flow), y \in 0..Len(Meant') : ReadUpTo(flow, starts, offs, x, y)'
        PROVE  FrameInv'
    <3>1. FramesInv'
      BY <1>1, <2>1 DEF FramesInv
    <3>2. misread' \/ FramesInStep'
      BY <1>5, <2>1 DEF FramesInStep
    <3> QED BY <3>1, <3>2 DEF FrameInv
  <2> QED BY <2>1
<1>7. inQueue \in Seq(WireBytes) /\ onWire \in Seq(WireBytes) /\ Len(frames) \in Nat /\ frames \in Seq(Frames)
      /\ misread \in BOOLEAN /\ msgRead \in BOOLEAN
  BY <1>1 DEF FramesInv
<1>8. inQueue \o onWire = SubSeq(flow, p + 1, Len(flow)) /\ readOut = SubSeq(Meant, 1, r)
  BY <1>3 DEF ReadUpTo
<1>9. Remains(inQueue, onWire, flow, p, WireBytes) /\ flow \in Seq(WireBytes)
  BY <1>2, <1>7, <1>8, GoneOn DEF Laid
<1>10. CASE msgLen = 0 /\ msgRead
  <2>1. EndOfMessage
    BY <1>10 DEF WebSocketReadBytes
  <2>2. Within(starts, offs, p, r, i) /\ i > 0 /\ i \in 1..Len(frames)
    BY <1>4, <1>10 DEF Between, Within
  <2>3. PICK L : L = frames[i].len
    OBVIOUS
  <2>4. L \in Nat
    BY <1>1, <2>2, <2>3, FrameAt
  <2>5. /\ starts[i + 1] \in Nat /\ offs[i] \in Nat /\ offs[i + 1] \in Nat /\ Len(Meant) \in Nat
        /\ offs[i + 1] = offs[i] + L + 1 /\ offs[i + 1] <= Len(Meant) /\ Meant[offs[i + 1]] = "line feed"
        /\ Meant \in Seq(Marks)
    <3>1. WhereIs(flow, starts, offs, i)
      BY <1>1, <1>2, WhereAt
    <3> QED BY <2>2, <2>3, <3>1 DEF WhereIs
  <2>6. r = offs[i] + L /\ (p = starts[i + 1] \/ (LeavesMask(i) /\ p = starts[i + 1] - 4))
    <3>1. r = offs[i] + (L - 0) /\ (p = starts[i + 1] - 0 \/ (LeavesMask(i) /\ p = starts[i + 1] - 4))
      BY <1>10, <2>2, <2>3 DEF Within
    <3>2. offs[i] \in Nat /\ starts[i + 1] \in Nat
      BY <2>5
    <3> QED BY <2>4, <3>1, <3>2
  <2>7. r + 1 = offs[i + 1] /\ r + 1 \in 0..Len(Meant) /\ r + 1 <= Len(Meant)
    <3>1. PICK a, b, m : a = offs[i] /\ b = offs[i + 1] /\ m = Len(Meant)
      OBVIOUS
    <3>2. a \in Nat /\ b \in Nat /\ m \in Nat /\ b = a + L + 1 /\ b <= m
      BY <2>5, <3>1
    <3>3. r = a + L
      BY <2>6, <3>1
    <3>4. r + 1 = b /\ r + 1 \in 0..m /\ r + 1 <= m
      BY <2>4, <3>2, <3>3
    <3> QED BY <3>1, <3>4
  <2>8. readOut' = SubSeq(Meant', 1, r + 1)
    <3>1. readOut' = Append(SubSeq(Meant, 1, r), "line feed")
      BY <1>8, <2>1 DEF EndOfMessage
    <3>2. Append(SubSeq(Meant, 1, r), Meant[r + 1]) = SubSeq(Meant, 1, r + 1)
      BY <2>5, <2>7, OneMore
    <3> QED BY <1>5, <2>5, <2>7, <3>1, <3>2
  <2>9. Between(starts, offs, p, r + 1, i)'
    BY <1>1, <1>10, <2>1, <2>2, <2>6, <2>7 DEF Between, EndOfMessage, LeavesMask
  <2>10. ReadUpTo(flow, starts, offs, p, r + 1)'
    BY <1>1, <1>8, <2>1, <2>8, <2>9 DEF ReadUpTo, EndOfMessage
  <2> QED BY <1>1, <1>5, <1>7, <2>1, <2>7, <2>10 DEF EndOfMessage, FramesInv
<1>11. CASE msgLen = 0 /\ ~msgRead
  <2>1. WebSocketReadFrameHeader(room) /\ inQueue # <<>>
    BY <1>11 DEF WebSocketReadBytes
  <2>2. CASE inQueue[1].op = "mask" \/ Len(inQueue) < 2 \/ Len(inQueue) < HeaderLen(inQueue)
    <3>1. misread' = TRUE /\ UNCHANGED <<inQueue, msgLen, msgRead, plain, readOut>>
      BY <2>1, <2>2 DEF WebSocketReadFrameHeader
    <3> QED BY <1>1, <3>1 DEF FramesInv
  <2>3. CASE ~(inQueue[1].op = "mask" \/ Len(inQueue) < 2 \/ Len(inQueue) < HeaderLen(inQueue))
    <3>1. PICK q, f, h : q = inQueue /\ f = frames[i + 1] /\ h = HeaderLen(inQueue)
      OBVIOUS
    <3>2. /\ msgRead' = TRUE /\ misread' = misread
          /\ IF q[1].op = "text" /\ q[2].len > 0
               THEN Gives(Without(q, h), q[2].len, room, TRUE)
               ELSE inQueue' = Without(q, h) /\ UNCHANGED <<msgLen, plain, readOut>>
      BY <2>1, <2>3, <3>1 DEF WebSocketReadFrameHeader
    <3>3. PICK Q, W, s, e, off : Q = Len(q) /\ W = Len(flow) /\ s = starts[i + 1] /\ e = starts[i + 2] /\ off = offs[i + 1]
      OBVIOUS
    <3>4. /\ p + Q <= W /\ Q \in Nat /\ p # W
          /\ \A k \in 1..Q : q[k] = flow[p + k]
          /\ \A m \in 0..Q : Without(q, m) \in Seq(WireBytes)
                /\ Without(q, m) \o onWire = SubSeq(flow, (p + m) + 1, W)
      BY <1>9, <2>1, <3>1, <3>3 DEF Remains, Without
    <3>5. Q >= 2 /\ q[1].op # "mask" /\ ~(Q < h)
      <4>1. ~(Q < 2)
        BY <2>3, <3>1, <3>3
      <4>2. Q \in Nat
        BY <3>4
      <4> QED BY <2>3, <3>1, <3>3, <4>1, <4>2
    <3>6. s \in Nat /\ off \in Nat /\ W \in Nat /\ s <= W /\ (i > 0 => i \in 1..Len(frames)) /\ p \in 0..W
      <4>1. WhereIs(flow, starts, offs, i)
        BY <1>1, <1>2, WhereAt
      <4> QED BY <3>3, <4>1 DEF WhereIs
    <3>7. r = off /\ (p = s \/ (i > 0 /\ LeavesMask(i) /\ p = s - 4))
      BY <1>4, <1>11, <3>3 DEF Between, Within
    <3>8. p = s /\ s < W
      <4>1. CASE p = s
        BY <3>4, <3>6, <4>1
      <4>2. CASE p # s
        <5>1. i \in 1..Len(frames) /\ frames[i].masked /\ p = s - 4
          BY <3>6, <3>7, <4>2 DEF LeavesMask
        <5>2. PICK g, c : g = frames[i] /\ c = FrameCode(i)
          OBVIOUS
        <5>3. IsCode(c, g, i)
          <6>1. frames[i] \in Frames /\ i \in Nat
            BY <1>1, <5>1, FrameAt
          <6> QED BY <5>2, <6>1, CodeIs DEF FrameCode
        <5>4. g.len = 0
          <6>1. frames[i].op # "text" => frames[i].len = 0
            BY <1>1, <5>1, FrameAt
          <6> QED BY <3>7, <4>2, <5>2, <6>1 DEF LeavesMask
        <5>5. PICK H, b : H = HeaderSize(g) /\ b = starts[i]
          OBVIOUS
        <5>6. H \in Nat /\ H >= 6 /\ CodeSize(g) = H /\ \A k \in 1..H : k > H - 4 => c[k].op = "mask"
          <6>1. g.masked
            BY <5>1, <5>2
          <6>2. /\ H \in Nat /\ H >= 6 /\ CodeSize(g) = H + g.len
                /\ \A k \in 1..H : k > H - 4 => c[k].op = "mask"
            BY <5>3, <5>5, <6>1 DEF IsCode
          <6> QED BY <5>4, <6>2
        <5>7. s = b + H /\ b \in Nat /\ \A k \in 1..H : flow[b + k] = c[k]
          <6>1. starts[i + 1] = starts[i] + CodeSize(frames[i])
                /\ \A k \in 1..CodeSize(frames[i]) : flow[starts[i] + k] = FrameCode(i)[k]
            BY <1>2, <5>1 DEF Laid
          <6>2. WhereIs(flow, starts, offs, i) /\ i > 0
            BY <1>1, <1>2, <3>7, <4>2, WhereAt
          <6>3. b \in Nat
            BY <5>5, <6>2 DEF WhereIs
          <6> QED BY <3>3, <5>2, <5>5, <5>6, <6>1, <6>3
        <5>8. p + 1 = b + (H - 3) /\ H - 3 \in 1..H /\ H - 3 > H - 4
          <6>1. H \in Nat /\ H >= 6 /\ s = b + H /\ b \in Nat
            BY <5>6, <5>7
          <6> QED BY <5>1, <6>1
        <5>9. q[1] = c[H - 3] /\ c[H - 3].op = "mask"
          <6>1. 1 \in 1..Q
            BY <3>4, <3>5
          <6>2. q[1] = flow[p + 1]
            BY <3>4, <6>1
          <6> QED BY <5>6, <5>7, <5>8, <6>2
        <5> QED BY <3>5, <5>9
      <4> QED BY <4>1, <4>2
    <3>9. NextIs(flow, starts, i)
      <4>1. starts[i + 1] < Len(flow)
        BY <3>3, <3>8
      <4> QED BY <1>1, <1>2, <4>1, NextFrame
    <3>10. /\ i + 1 \in 1..Len(frames) /\ f \in Frames
           /\ e = p + CodeSize(f) /\ e <= W /\ e \in Nat
      BY <3>1, <3>3, <3>8, <3>9 DEF NextIs
    <3>11. PICK c : IsCode(c, f, i + 1) /\ \A k \in 1..CodeSize(f) : flow[p + k] = c[k]
      BY <3>1, <3>3, <3>8, <3>9 DEF NextIs
    <3>12. PICK L, H : L = f.len /\ H = HeaderSize(f)
      OBVIOUS
    <3>13. /\ L \in Nat /\ L <= MaxFrameLen /\ f.masked \in BOOLEAN
           /\ f.op = "text" => f.masked = masks
           /\ f.op # "text" => L = 0
      BY <1>1, <3>1, <3>10, <3>12, FrameAt
    <3>14. H \in Nat /\ H >= 2 /\ CodeSize(f) = H + L
           /\ c[1] = [op |-> f.op, len |-> L] /\ c[2] = [op |-> "length", len |-> L]
      BY <3>11, <3>12 DEF IsCode
    <3>15. q[1] = c[1] /\ q[2] = c[2]
      <4>1. 1 \in 1..Q /\ 2 \in 1..Q
        BY <3>4, <3>5
      <4>2. 1 \in 1..CodeSize(f) /\ 2 \in 1..CodeSize(f)
        BY <3>13, <3>14
      <4>3. q[1] = flow[p + 1] /\ q[2] = flow[p + 2]
        BY <3>4, <4>1
      <4>4. flow[p + 1] = c[1] /\ flow[p + 2] = c[2]
        BY <3>11, <4>2
      <4> QED BY <4>3, <4>4
    <3>16. q[1].op = f.op /\ q[2].len = L
      BY <3>14, <3>15
    <3>17. h = (IF f.op = "text" THEN H ELSE 2) /\ h \in 0..Q /\ (f.op # "text" => H = IF f.masked THEN 6 ELSE 2)
      <4>1. BasicLen \in Nat
        BY WebSocketAssumption
      <4>2. h = IF f.op # "text" THEN 2 ELSE (IF L > BasicLen THEN 4 ELSE 2) + (IF masks THEN 4 ELSE 0)
        BY <3>1, <3>16 DEF HeaderLen
      <4>3. H = 2 + (IF L > BasicLen THEN 2 ELSE 0) + (IF f.masked THEN 4 ELSE 0)
        BY <3>12 DEF HeaderSize
      <4>4. h = IF f.op = "text" THEN H ELSE 2
        BY <3>13, <4>1, <4>2, <4>3
      <4>5. f.op # "text" => H = IF f.masked THEN 6 ELSE 2
        BY <3>13, <4>1, <4>3
      <4>6. Q \in Nat /\ h \in Nat
        BY <3>4, <3>14, <4>4
      <4> QED BY <3>5, <4>4, <4>5, <4>6
    <3>18. (i + 1) + 1 = i + 2 /\ i + 1 \in Nat /\ i + 1 > 0
      BY <1>7
    <3>19. PICK w : w = Without(q, h)
      OBVIOUS
    <3>20. w \in Seq(WireBytes) /\ w \o onWire = SubSeq(flow, (p + h) + 1, W)
      BY <3>4, <3>17, <3>19
    <3>21. CASE f.op = "text" /\ L > 0
      <4>1. Gives(w, L, room, TRUE)
        BY <3>2, <3>16, <3>19, <3>21
      <4>2. p + h = starts[(i + 1) + 1] - L
        <5>1. e = p + (H + L) /\ e \in Nat /\ p \in Nat
          BY <3>6, <3>8, <3>10, <3>14
        <5>2. p + h = e - L
          BY <3>13, <3>14, <3>17, <3>21, <5>1
        <5> QED BY <3>3, <3>18, <5>2
      <4>3. w \o onWire = SubSeq(flow, (starts[(i + 1) + 1] - L) + 1, Len(flow))
        BY <3>3, <3>20, <4>2
      <4>4. readOut = SubSeq(Meant, 1, offs[i + 1] + (L - L))
        <5>1. off + (L - L) = off
          BY <3>6, <3>13
        <5> QED BY <1>8, <3>3, <3>7, <5>1
      <4>5. L \in 0..L /\ L = frames[i + 1].len
        BY <3>1, <3>12, <3>13
      <4>6. /\ inQueue' \in Seq(WireBytes) /\ msgLen' \in 0..L
            /\ \E x \in 0..Len(flow), y \in 0..Len(Meant) : ReadUpTo(flow, starts, offs, x, y)'
        BY <1>1, <1>2, <3>2, <3>10, <3>20, <4>1, <4>3, <4>4, <4>5, GivesOn
      <4>7. plain' = (plain /\ (TRUE \/ ~masks))
        BY <4>1 DEF Gives
      <4>8. plain' \in BOOLEAN /\ (~masks => plain')
        BY <1>1, <4>7 DEF FramesInv
      <4>9. msgLen' \in 0..MaxFrameLen
        <5>1. MaxFrameLen \in Nat
          BY WebSocketAssumption
        <5> QED BY <3>13, <4>6, <5>1
      <4>10. \E x \in 0..Len(flow), y \in 0..Len(Meant') : ReadUpTo(flow, starts, offs, x, y)'
        BY <1>5, <4>6
      <4> QED BY <1>7, <3>2, <4>6, <4>8, <4>9, <4>10
    <3>22. CASE ~(f.op = "text" /\ L > 0)
      <4>1. inQueue' = w /\ UNCHANGED <<msgLen, plain, readOut>>
        BY <3>2, <3>16, <3>19, <3>22
      <4>2. PICK x : x = p + h
        OBVIOUS
      <4>3. L = 0
        BY <3>13, <3>22
      <4>4. e = p + H /\ x \in 0..W /\ p \in Nat /\ e \in Nat
        <5>1. e = p + (H + L) /\ e \in Nat /\ p \in Nat /\ p + Q <= W /\ Q \in Nat /\ W \in Nat
          BY <3>4, <3>6, <3>8, <3>10, <3>14
        <5> QED BY <3>14, <3>17, <4>2, <4>3, <5>1
      <4>5. x = e \/ (LeavesMask(i + 1) /\ x = e - 4)
        <5>1. CASE f.op = "text"
          BY <3>17, <4>2, <4>4, <5>1
        <5>2. CASE f.op # "text" /\ f.masked
          BY <3>1, <3>17, <4>2, <4>4, <5>2 DEF LeavesMask
        <5>3. CASE f.op # "text" /\ ~f.masked
          BY <3>17, <4>2, <4>4, <5>3
        <5> QED BY <5>1, <5>2, <5>3
      <4>6. Within(starts, offs, x, r, i + 1)'
        <5>1. msgRead' /\ msgLen' = 0 /\ frames[i + 1].len = 0 /\ frames' = frames
          BY <1>1, <1>11, <3>1, <3>2, <3>12, <4>1, <4>3
        <5>2. r = offs[i + 1] + (0 - 0) /\ (x = starts[(i + 1) + 1] - 0 \/ (LeavesMask(i + 1) /\ x = starts[(i + 1) + 1] - 4))
          <6>1. off + (0 - 0) = off /\ e - 0 = e
            BY <3>6, <4>4
          <6> QED BY <3>3, <3>7, <3>18, <4>5, <6>1
        <5> QED BY <3>18, <5>1, <5>2 DEF Within, LeavesMask
      <4>7. ReadUpTo(flow, starts, offs, x, r)'
        <5>1. inQueue' \o onWire' = SubSeq(flow, x + 1, Len(flow)) /\ readOut' = SubSeq(Meant', 1, r)
          BY <1>1, <1>5, <1>8, <3>3, <3>20, <4>1, <4>2
        <5>2. i + 1 \in 0..Len(frames')
          BY <1>1, <1>7, <3>10
        <5> QED BY <4>6, <5>1, <5>2 DEF ReadUpTo
      <4>8. \E y \in 0..Len(flow), z \in 0..Len(Meant') : ReadUpTo(flow, starts, offs, y, z)'
        BY <1>5, <3>3, <4>4, <4>7
      <4> QED BY <1>1, <3>2, <3>20, <4>1, <4>8 DEF FramesInv
    <3> QED BY <3>21, <3>22
  <2> QED BY <2>2, <2>3
<1>12. CASE msgLen # 0
  <2>1. Gives(inQueue, msgLen, room, FALSE) /\ msgRead' = msgRead /\ misread' = misread
    BY <1>12 DEF WebSocketReadBytes
  <2>2. Within(starts, offs, p, r, i) /\ i \in 1..Len(frames)
    BY <1>4, <1>7, <1>12 DEF Between, Within
  <2>3. frames[i] \in Frames /\ frames[i].len \in Nat /\ frames[i].len <= MaxFrameLen
    BY <1>1, <2>2, FrameAt
  <2>4. msgLen \in Nat /\ msgLen <= frames[i].len /\ msgLen \in 0..frames[i].len
    BY <1>1, <2>2, <2>3, WebSocketAssumption DEF Within, FramesInv
  <2>5. ~LeavesMask(i)
    <3> SUFFICES ASSUME frames[i].op # "text" PROVE FALSE
      BY DEF LeavesMask
    <3>1. frames[i].len = 0
      BY <1>1, <2>2 DEF FramesInv
    <3> QED BY <1>12, <2>4, <3>1
  <2>6. p = starts[i + 1] - msgLen /\ r = offs[i] + (frames[i].len - msgLen) /\ msgRead
    BY <2>2, <2>5 DEF Within
  <2>7. /\ inQueue' \in Seq(WireBytes) /\ msgLen' \in 0..frames[i].len
        /\ \E x \in 0..Len(flow), y \in 0..Len(Meant) : ReadUpTo(flow, starts, offs, x, y)'
    BY <1>1, <1>2, <1>7, <1>8, <2>1, <2>2, <2>4, <2>6, GivesOn
  <2>8. plain' = (plain /\ (FALSE \/ ~masks))
    BY <2>1 DEF Gives
  <2>9. plain' \in BOOLEAN /\ (~masks => plain')
    BY <1>1, <2>8 DEF FramesInv
  <2>10. msgLen' \in 0..MaxFrameLen
    <3>1. PICK l \in 0..MaxFrameLen : l = frames[i].len
      BY <2>3
    <3>2. msgLen' \in 0..l
      BY <2>7, <3>1, Zenon
    <3>3. MaxFrameLen \in Nat
      BY WebSocketAssumption
    <3> QED BY <3>2, <3>3
  <2>11. \E x \in 0..Len(flow), y \in 0..Len(Meant') : ReadUpTo(flow, starts, offs, x, y)'
    BY <1>5, <2>7
  <2> QED BY <1>7, <2>1, <2>7, <2>9, <2>10, <2>11
<1> QED BY <1>10, <1>11, <1>12

\* Every step of a WebSocket keeps what is known of it.
LEMMA FrameKeeps == FrameInv /\ [SocketNext]_wsVars => FrameInv'
<1> SUFFICES ASSUME FrameInv, [SocketNext]_wsVars PROVE FrameInv'
  OBVIOUS
<1>1. ASSUME NEW len \in 0..MaxFrameLen, WritesFrame([op |-> "text", len |-> len, masked |-> masks]) PROVE FrameInv'
  <2>1. masks \in BOOLEAN
    BY DEF FrameInv, FramesInv
  <2>2. [op |-> "text", len |-> len, masked |-> masks] \in Frames
    BY <2>1 DEF Frames
  <2> QED BY <1>1, <2>2, SendsKeeps, PartKeeps DEF WritesFrame
<1>2. ASSUME NEW op \in {"ping", "pong", "close"}, NEW masked \in {TRUE, masks},
             WritesFrame([op |-> op, len |-> 0, masked |-> masked])
      PROVE  FrameInv'
  <2>1. masked \in BOOLEAN
    BY DEF FrameInv, FramesInv
  <2>2. [op |-> op, len |-> 0, masked |-> masked] \in Frames
    BY <2>1, WebSocketAssumption DEF Frames
  <2> QED BY <1>2, <2>2, SendsKeeps, PartKeeps DEF WritesFrame
<1>3. CASE WebSocketSendFrame
  BY <1>1, <1>3 DEF WebSocketSendFrame
<1>4. CASE WebSocketSendControl
  BY <1>2, <1>4 DEF WebSocketSendControl
<1>5. CASE ArrivesSome
  BY <1>5, ArrivesKeeps
<1>6. CASE OtherRead
  BY <1>6, OtherKeeps
<1>7. CASE \E room \in 1..MaxRoom : WebSocketReadBytes(room)
  BY <1>7, SocketReadsKeep
<1>8. CASE UNCHANGED wsVars
  BY <1>8, FrameRests
<1> QED BY <1>3, <1>4, <1>5, <1>6, <1>7, <1>8 DEF SocketNext

\* Who keeps in step reads the messages whole: what is read is the beginning of what is to
\* be read, and all of it when nothing is on the way and no message is open.
LEMMA InStepIsWhole == FrameInv => MessagesWhole
<1> SUFFICES ASSUME FrameInv, ~misread PROVE MessagesWhole
  BY DEF MessagesWhole
<1>1. FramesInv /\ FramesInStep
  BY DEF FrameInv
<1>2. PICK flow, starts, offs : Laid(flow, starts) /\ ToldAt(offs) /\
             \E p \in 0..Len(flow), k \in 0..Len(Meant) : ReadUpTo(flow, starts, offs, p, k)
  BY <1>1 DEF FramesInStep
<1>3. PICK p \in 0..Len(flow), r \in 0..Len(Meant) : ReadUpTo(flow, starts, offs, p, r)
  BY <1>2
<1>4. PICK i \in 0..Len(frames) : Between(starts, offs, p, r, i) \/ Within(starts, offs, p, r, i)
  BY <1>3 DEF ReadUpTo
<1>5. readOut = SubSeq(Meant, 1, r)
  BY <1>3 DEF ReadUpTo
<1>6. ~masks => plain
  BY <1>1 DEF FramesInv
<1>7. ASSUME onWire = <<>>, inQueue = <<>>, ~msgRead PROVE readOut = Meant
  <2>1. inQueue \in Seq(WireBytes) /\ onWire \in Seq(WireBytes) /\ flow \in Seq(WireBytes)
        /\ inQueue \o onWire = SubSeq(flow, p + 1, Len(flow))
    BY <1>1, <1>2, <1>3 DEF FramesInv, ReadUpTo, Laid
  <2>2. p = Len(flow)
    <3>1. Remains(inQueue, onWire, flow, p, WireBytes)
      BY <2>1, GoneOn
    <3> QED BY <1>7, <3>1 DEF Remains
  <2>3. r = offs[i + 1] /\ (p = starts[i + 1] \/ p = starts[i + 1] - 4)
    BY <1>4, <1>7 DEF Between, Within
  <2>4. starts[i + 1] \in Nat /\ starts[i + 1] <= Len(flow) /\ Len(flow) \in Nat /\ Meant \in Seq(Marks)
    <3>1. WhereIs(flow, starts, offs, i)
      BY <1>1, <1>2, WhereAt
    <3> QED BY <3>1 DEF WhereIs
  <2>5. starts[i + 1] = Len(flow)
    BY <2>2, <2>3, <2>4
  <2>6. i = Len(frames)
    <3> SUFFICES ASSUME i # Len(frames) PROVE FALSE
      OBVIOUS
    <3>1. Len(frames) \in Nat /\ i \in Nat /\ i + 1 \in 1..Len(frames) /\ frames[i + 1] \in Frames
      <4>1. Len(frames) \in Nat
        BY <1>1 DEF FramesInv
      <4>2. i + 1 \in 1..Len(frames)
        BY <4>1
      <4> QED BY <1>1, <4>1, <4>2, FrameAt
    <3>2. starts[(i + 1) + 1] = starts[i + 1] + CodeSize(frames[i + 1]) /\ starts[(i + 1) + 1] <= Len(flow)
      BY <1>2, <3>1 DEF Laid
    <3>3. CodeSize(frames[i + 1]) \in Nat /\ CodeSize(frames[i + 1]) >= 2
      <4>1. IsCode(FrameCode(i + 1), frames[i + 1], i + 1)
        BY <3>1, CodeIs DEF FrameCode
      <4>2. PICK a, b, c : a = CodeSize(frames[i + 1]) /\ b = HeaderSize(frames[i + 1]) /\ c = frames[i + 1].len
        OBVIOUS
      <4>3. a \in Nat /\ b \in Nat /\ c \in Nat /\ a = b + c /\ b >= 2
        BY <4>1, <4>2 DEF IsCode
      <4> QED BY <4>2, <4>3
    <3> QED BY <2>4, <2>5, <3>2, <3>3
  <2>7. r = Len(Meant)
    BY <1>2, <2>3, <2>6 DEF ToldAt
  <2> QED BY <1>5, <2>4, <2>7, SubSeqFull
<1>8. \E n \in 0..Len(Meant) : readOut = SubSeq(Meant, 1, n)
  BY <1>5
<1> QED BY <1>6, <1>7, <1>8 DEF MessagesWhole

\* For any frames of any size, sent in any pieces and read into any buffer, with masks or
\* without: what a reader gets from WebSocketReadBytes is the data of the messages that were
\* sent, whole, in their order and unmasked, each with the line feed that ends it, unless a
\* header was read in part.
THEOREM MessagesAreWhole == SocketSpec => []MessagesWhole
<1>1. SocketInit => FrameInv
  BY FramesStart
<1>2. FrameInv /\ [SocketNext]_wsVars => FrameInv'
  BY FrameKeeps
<1>3. FrameInv => MessagesWhole
  BY InStepIsWhole
<1> QED BY <1>1, <1>2, <1>3, PTL DEF SocketSpec

-----------------------------------------------------------------------------
(* The hops of a connection                                                *)

HopNames == {"tcp", "https", "ssh", "sshtunnel", "sshproxy", "socks4", "socks5", "socks5 login", "none"}
RestWords == {"ip", "name", "2", "x"}
Pieces == [by : Nat, is : Lines \cup RestWords \cup {"0", "Z", "[", "5", "1", "255"}]
LoginSteps == {"login", "method", "say password", "password"}
AnswerSteps == {"ask", "reply", "headers", "rest", "type", "length", "address", "name", "port"}

\* What hosts have sent and is not read yet.
Stream == arrived \o coming

ChainTypes ==
  /\ hops \in Seq(HopNames) /\ Len(hops) > 0 /\ hop \in 1..(Len(hops) + 1)
  /\ step \in {"start", "end"} \cup LoginSteps \cup AnswerSteps
  /\ (step = "end" <=> hop = Len(hops) + 1)
  /\ step \in LoginSteps => hop = 1 /\ Speaks(1) = "socks5"
  /\ step \in AnswerSteps => /\ hops[hop] \notin {"tcp", "ssh", "sshtunnel", "none"}
                            /\ (hop > 1 => hops[hop] # "sshproxy")
  /\ numeric \in BOOLEAN /\ through \in BOOLEAN /\ hungUp \in BOOLEAN /\ stray \in BOOLEAN
  /\ stray => numeric
  /\ route \in Seq(1..Dest) /\ arrived \in Seq(Pieces) /\ coming \in Seq(Pieces)
  /\ upset \in SUBSET {"late", "short", "blind", "failed"}

\* Where who reaches host k is put through to.
Stop(k) == Min({h \in k..Dest : h = Dest \/ hops[h] # "tcp"})
Upto(n) == [k \in 1..n |-> k]

\* Notes that leave every hop able to tell how it went, and every answer read whole.
Clear(notes) ==
  /\ notes \cap {"late", "short", "blind"} = {}
  /\ \A k \in DOMAIN hops : hops[k] # "none"
  /\ "failed" \in notes =>
       \A k \in DOMAIN hops : k > 1 => hops[k] \notin {"tcp", "socks5", "socks5 login"}

\* The connection is through to host k.
FarIs(k) == Far = Stop(k) /\ ("failed" \notin upset => route = Upto(Stop(k)))

\* n pieces are to be read, and what the destination sends once host k is reached.
Left(s, n, k) ==
  /\ Len(s) = n + (IF Stop(k) = Dest THEN 1 ELSE 0)
  /\ Stop(k) = Dest => s[n + 1] = [by |-> Dest, is |-> "data"]

\* The rest of an answer of which no later hop believes anything.
Stale(s) == \A i \in DOMAIN s : s[i].is \in RestWords
Spoilt == "failed" \in upset /\ Stale(Stream) /\ (Stream # <<>> => Speaks(Far) = "socks5")

\* Header lines, n with the empty one that is the last, behind the first p pieces.
HeadersTo(s, p, n) == \A i \in 1..n : s[p + i].is = (IF i = n THEN "empty" ELSE "header")

\* An answer that host hop + 1 is reached.
OkReply(s) ==
  \/ /\ Language = "https"
     /\ \E n \in 1..2 : Left(s, n + 1, hop + 1) /\ s[1].is = "200" /\ HeadersTo(s, 1, n)
  \/ Language = "socks4" /\ Left(s, 8, hop + 1) /\ s[1].is = "0" /\ s[2].is = "Z"
  \/ /\ Language = "socks5" /\ hop = 1 /\ s[1].is = "5" /\ s[2].is = "0"
     /\ \/ Left(s, 10, hop + 1) /\ s[4].is = "ip"
        \/ Left(s, 9, hop + 1) /\ s[4].is # "ip"

\* An answer that it is not.
NoReplyYet(s) ==
  \/ s = <<>>
  \/ hop > 1 /\ Spoilt
  \/ /\ Language = "https"
     /\ \E n \in 1..2 : Len(s) = n + 1 /\ s[1].is = "502" /\ HeadersTo(s, 1, n)
  \/ Language = "socks4" /\ Len(s) = 8 /\ s[2].is = "["
  \/ /\ Language = "socks5" /\ hop = 1 /\ Speaks(Far) = "socks5"
     /\ Len(s) > 2 /\ s[2].is = "1" /\ \A i \in 4..Len(s) : s[i].is \in RestWords
  \/ Language = "socks5" /\ hop > 1 /\ Len(s) = 2

AtStart ==
  IF hop = 1 THEN route = <<>> /\ Stream = <<>>
  ELSE \/ through /\ FarIs(hop) /\ Left(Stream, 0, hop)
       \/ ~through /\ Spoilt
AtLogin == hop = 1 /\ route = <<1>> /\ Len(Stream) \in (IF step \in {"method", "password"} THEN {0, 2} ELSE {0})
AtAsk ==
  \/ Stream = <<>> /\ ("failed" \notin upset => route = Upto(hop))
  \/ hop > 1 /\ Spoilt
AtReply == (FarIs(hop + 1) /\ OkReply(Stream)) \/ NoReplyYet(Stream)
AtHeaders == FarIs(hop + 1) /\ \E n \in 1..2 : Left(Stream, n, hop + 1) /\ HeadersTo(Stream, 0, n)
AtRest == \E n \in 1..2 : Len(Stream) = n /\ HeadersTo(Stream, 0, n)
AtAddress ==
  /\ FarIs(hop + 1)
  /\ \/ step = "type" /\ Left(Stream, 7, hop + 1) /\ Stream[1].is = "ip"
     \/ step = "type" /\ Left(Stream, 6, hop + 1) /\ Stream[1].is # "ip"
     \/ step = "address" /\ Left(Stream, 6, hop + 1)
     \/ step = "length" /\ Left(Stream, 5, hop + 1)
     \/ step = "name" /\ Left(Stream, 4, hop + 1)
     \/ step = "port" /\ Left(Stream, 2, hop + 1)

\* What is to be read at each step of a hop.
Placed ==
  /\ step \in {"start", "end"} => AtStart
  /\ step \in LoginSteps => AtLogin
  /\ step = "ask" => AtAsk
  /\ step = "reply" => AtReply
  /\ step = "headers" => AtHeaders
  /\ step = "rest" => AtRest
  /\ step \in {"type", "length", "address", "name", "port"} => AtAddress

ChainInv == ChainTypes /\ (Clear(upset) => Placed)

-----------------------------------------------------------------------------
\* The least of some numbers.
LEMMA MinIs ==
  ASSUME NEW T \in SUBSET Nat, T # {}
  PROVE  Min(T) \in T /\ \A j \in T : Min(T) <= j
<1>1. \E i \in T : \A j \in T : i <= j
  BY HasSmallest
<1> QED BY <1>1 DEF Min

\* The smaller of two.
LEMMA MinOfTwo ==
  ASSUME NEW a \in Nat, NEW b \in Nat
  PROVE  Min({a, b}) = IF a <= b THEN a ELSE b
<1>1. Min({a, b}) \in {a, b} /\ \A j \in {a, b} : Min({a, b}) <= j
  BY MinIs, {a, b} \in SUBSET Nat, {a, b} # {}
<1> QED BY <1>1

\* Who reaches a host ends at the next that is not one of a "tcp" hop.
LEMMA StopIs ==
  ASSUME ChainTypes, NEW k \in 1..Dest
  PROVE  /\ Stop(k) \in k..Dest /\ Dest \in Nat /\ Dest = Len(hops) + 1
         /\ k = Dest => Stop(k) = Dest
         /\ k # Dest /\ hops[k] # "tcp" => Stop(k) = k
         /\ k # Dest /\ hops[k] = "tcp" => Stop(k) = Stop(k + 1)
         /\ Landing(k) = [j \in 1..(Stop(k) - k + 1) |-> k + j - 1]
<1> DEFINE T == {h \in k..Dest : h = Dest \/ hops[h] # "tcp"}
<1>1. Dest \in Nat /\ Dest = Len(hops) + 1
  BY DEF ChainTypes, Dest
<1>2. T \in SUBSET Nat /\ Dest \in T
  BY <1>1
<1>3. Stop(k) \in T /\ \A j \in T : Stop(k) <= j
  BY <1>2, MinIs DEF Stop
<1>4. k \in Nat /\ k <= Dest
  BY <1>1
<1>5. k # Dest /\ hops[k] = "tcp" => Stop(k) = Stop(k + 1)
  <2> SUFFICES ASSUME k # Dest, hops[k] = "tcp" PROVE Stop(k) = Stop(k + 1)
    OBVIOUS
  <2>1. T = {h \in (k + 1)..Dest : h = Dest \/ hops[h] # "tcp"}
    BY <1>1, <1>4
  <2> QED BY <2>1 DEF Stop
<1>6. k # Dest /\ hops[k] # "tcp" => Stop(k) = k
  <2> SUFFICES ASSUME k # Dest, hops[k] # "tcp" PROVE Stop(k) = k
    OBVIOUS
  <2>1. k \in T
    BY <1>1, <1>4
  <2> QED BY <1>1, <1>3, <1>4, <2>1
<1>7. k = Dest => Stop(k) = Dest
  BY <1>1, <1>3, <1>4
<1>8. Landing(k) = [j \in 1..(Stop(k) - k + 1) |-> k + j - 1]
  BY DEF Landing, Stop
<1> QED BY <1>1, <1>3, <1>5, <1>6, <1>7, <1>8

\* And the hosts on the way are all in the order of their hops.
LEMMA LandingIs ==
  ASSUME ChainTypes, NEW k \in 1..Dest
  PROVE  /\ Landing(k) \in Seq(1..Dest) /\ Landing(k) # <<>> /\ Last(Landing(k)) = Stop(k)
         /\ Upto(k - 1) \o Landing(k) = Upto(Stop(k))
         /\ \A s \in Seq(1..Dest) : s \o Landing(k) \in Seq(1..Dest) /\ s \o Landing(k) # <<>>
                                    /\ Last(s \o Landing(k)) = Stop(k)
<1>1. PICK l, e, d : l = Landing(k) /\ e = Stop(k) /\ d = Dest
  OBVIOUS
<1>2. e \in Nat /\ k \in Nat /\ d \in Nat /\ 1 <= k /\ k <= e /\ e <= d
  BY <1>1, StopIs
<1>3. l = [j \in 1..(e - k + 1) |-> k + j - 1]
  BY <1>1, StopIs
<1>4. l \in Seq(1..d) /\ Len(l) = (e - k) + 1 /\ \A j \in 1..Len(l) : l[j] = k + j - 1
  <2>1. \A j \in 1..(e - k + 1) : k + j - 1 \in 1..d
    BY <1>2
  <2> QED BY <1>2, <1>3, <2>1
<1>5. l # <<>> /\ Last(l) = e
  <2>1. Len(l) \in 1..Len(l) /\ k + Len(l) - 1 = e
    BY <1>2, <1>4
  <2> QED BY <1>4, <2>1 DEF Last
<1>6. ASSUME NEW s \in Seq(1..d) PROVE s \o l \in Seq(1..d) /\ s \o l # <<>> /\ Last(s \o l) = e
  <2>1. PICK u : u = s \o l
    OBVIOUS
  <2>2. u \in Seq(1..d) /\ IsJoin(u, s, l)
    BY <1>4, <2>1, Behind
  <2>3. Len(s) \in Nat /\ Len(l) \in 1..Len(l) /\ Len(u) = Len(s) + Len(l) /\ Len(l) > 0
    BY <1>2, <1>4, <2>2 DEF IsJoin
  <2>4. u[Len(u)] = l[Len(l)] /\ u # <<>>
    BY <2>2, <2>3 DEF IsJoin
  <2> QED BY <1>5, <2>1, <2>2, <2>4 DEF Last
<1>7. Upto(k - 1) \o l = Upto(e)
  <2>1. PICK s, u, t : s = Upto(k - 1) /\ u = s \o l /\ t = Upto(e)
    OBVIOUS
  <2>2. s \in Seq(1..d) /\ Len(s) = k - 1 /\ \A j \in 1..(k - 1) : s[j] = j
    BY <1>2, <2>1 DEF Upto
  <2>3. t \in Seq(1..d) /\ Len(t) = e /\ \A j \in 1..e : t[j] = j
    BY <1>2, <2>1 DEF Upto
  <2>4. u \in Seq(1..d) /\ IsJoin(u, s, l)
    BY <1>4, <2>1, <2>2, Behind
  <2>5. Len(u) = e
    BY <1>2, <1>4, <2>2, <2>4 DEF IsJoin
  <2>6. ASSUME NEW j \in 1..Len(u) PROVE u[j] = t[j]
    <3>1. CASE j <= k - 1
      <4>1. j \in 1..(k - 1) /\ j \in 1..Len(s) /\ j \in 1..e
        BY <1>2, <2>2, <2>5, <3>1
      <4> QED BY <2>2, <2>3, <2>4, <4>1 DEF IsJoin
    <3>2. CASE ~(j <= k - 1)
      <4>1. j - (k - 1) \in 1..Len(l) /\ j = Len(s) + (j - (k - 1)) /\ k + (j - (k - 1)) - 1 = j /\ j \in 1..e
        BY <1>2, <1>4, <2>2, <2>5, <3>2
      <4>2. u[j] = l[j - (k - 1)] /\ l[j - (k - 1)] = j
        BY <1>4, <2>4, <4>1 DEF IsJoin
      <4> QED BY <2>3, <4>1, <4>2
    <3> QED BY <3>1, <3>2
  <2>7. u = t
    BY <2>3, <2>4, <2>5, <2>6, SeqEqual
  <2> QED BY <2>1, <2>7
<1> QED BY <1>1, <1>4, <1>5, <1>6, <1>7

-----------------------------------------------------------------------------
(* Reading and sending                                                     *)

\* t is s without its first n.
Dropped(s, t, n) ==
  /\ t \in Seq(Pieces) /\ Len(s) \in Nat /\ Len(t) \in Nat /\ Len(s) = n + Len(t)
  /\ \A i \in 1..Len(t) : t[i] = s[n + i]

\* Of what is to be read, and has arrived in part, the first n are read.
IsRead(n) ==
  /\ arrived' \in Seq(Pieces) /\ coming' = coming /\ hungUp' = hungUp
  /\ Dropped(Stream, Stream', n)

\* What has arrived is the first of what is to be read.
ArrivedFirst ==
  /\ Stream \in Seq(Pieces) /\ Len(arrived) \in Nat /\ Len(Stream) \in Nat /\ Len(arrived) <= Len(Stream)
  /\ \A i \in 1..Len(arrived) : arrived[i] = Stream[i]
  /\ (coming = <<>> => Len(arrived) = Len(Stream))
  /\ (Stream = <<>> <=> Len(Stream) = 0)
  /\ (arrived = <<>> <=> Len(arrived) = 0)

\* What has arrived comes before what is still to come.
LEMMA ArrivedIs ==
  ASSUME arrived \in Seq(Pieces), coming \in Seq(Pieces)
  PROVE  ArrivedFirst
<1>1. PICK u : u = Stream
  OBVIOUS
<1>2. u \in Seq(Pieces) /\ IsJoin(u, arrived, coming)
  BY <1>1, Behind DEF Stream
<1>3. /\ Len(arrived) \in Nat /\ Len(u) \in Nat /\ Len(coming) \in Nat /\ Len(arrived) <= Len(u)
      /\ (coming = <<>> => Len(arrived) = Len(u))
      /\ (\A i \in 1..Len(arrived) : arrived[i] = u[i])
  BY <1>2 DEF IsJoin
<1>4. (u = <<>> <=> Len(u) = 0) /\ (arrived = <<>> <=> Len(arrived) = 0)
  BY <1>2, EmptySeq
<1> QED BY <1>1, <1>2, <1>3, <1>4 DEF ArrivedFirst

\* A read takes the first of what is to be read.
LEMMA TakeMoves ==
  ASSUME arrived \in Seq(Pieces), coming \in Seq(Pieces), NEW n \in 0..Len(arrived), Take(n)
  PROVE  IsRead(n)
<1>1. PICK u, v, a, c : u = Stream /\ v = Stream' /\ a = arrived /\ c = coming
  OBVIOUS
<1>2. u = a \o c /\ a \in Seq(Pieces) /\ c \in Seq(Pieces)
  BY <1>1 DEF Stream
<1>3. arrived' = SubSeq(a, n + 1, Len(a)) /\ coming' = c /\ hungUp' = hungUp
  BY <1>1 DEF Take
<1>4. v = SubSeq(a, n + 1, Len(a)) \o c
  BY <1>1, <1>3 DEF Stream
<1>5. v = SubSeq(u, n + 1, Len(u))
  <2>1. n \in 0..Len(a)
    BY <1>1
  <2>2. SubSeq(a, n + 1, Len(a)) \o c = SubSeq(a \o c, n + 1, Len(a \o c))
    BY <1>2, <2>1, TailAndMore
  <2> QED BY <1>2, <1>4, <2>2
<1>6. u \in Seq(Pieces) /\ IsJoin(u, a, c)
  BY <1>2, Behind
<1>7. Len(u) \in Nat /\ n \in Nat /\ n <= Len(u) /\ Len(a) \in Nat /\ n <= Len(a)
  BY <1>1, <1>6 DEF IsJoin
<1>8. v \in Seq(Pieces) /\ Len(v) = Len(u) - n /\ \A i \in 1..(Len(u) - n) : v[i] = u[n + i]
  BY <1>5, <1>6, <1>7
<1>9. SubSeq(a, n + 1, Len(a)) \in Seq(Pieces)
  BY <1>2, <1>7
<1>10. Len(v) \in Nat /\ Len(u) = n + Len(v)
  BY <1>7, <1>8
<1>11. Dropped(u, v, n)
  BY <1>7, <1>8, <1>10 DEF Dropped
<1> QED BY <1>1, <1>3, <1>9, <1>11 DEF IsRead

\* STREAMReadBytes is given the whole if it says so.
LEMMA BytesMoves ==
  ASSUME arrived \in Seq(Pieces), coming \in Seq(Pieces), NEW n \in Nat \ {0}, Bytes(n)
  PROVE  \E m \in 1..n : /\ IsRead(m) /\ (Whole(n) => m = n) /\ (~Whole(n) => m = Len(arrived))
                         /\ m <= Len(arrived) /\ Len(arrived) \in Nat
<1>1. Len(arrived) \in Nat /\ Len(arrived) > 0 /\ n \in Nat
  BY EmptySeq, LenProperties DEF Bytes
<1>2. PICK m : m = Min({n, Len(arrived)})
  OBVIOUS
<1>3. m = IF n <= Len(arrived) THEN n ELSE Len(arrived)
  BY <1>1, <1>2, MinOfTwo
<1>4. m \in 0..Len(arrived) /\ m \in 1..n /\ m <= Len(arrived)
  BY <1>1, <1>3
<1>5. IsRead(m)
  BY <1>2, <1>4, TakeMoves DEF Bytes
<1>6. (Whole(n) => m = n) /\ (~Whole(n) => m = Len(arrived))
  BY <1>1, <1>3 DEF Whole
<1> QED BY <1>1, <1>4, <1>5, <1>6

\* And a line ends at the first piece that is one.
LEMMA LineMoves ==
  ASSUME arrived \in Seq(Pieces), coming \in Seq(Pieces), Line
  PROVE  \E m \in 1..Len(Stream) :
           /\ IsRead(m) /\ LineIs = Stream[m].is /\ LineIs \in Lines
           /\ (Stream[1].is \in Lines => m = 1)
<1>1. PICK m : m = Min(LineEnds)
  OBVIOUS
<1>2. LineEnds \in SUBSET Nat /\ LineEnds # {} /\ LineEnds = {i \in 1..Len(arrived) : arrived[i].is \in Lines}
  BY DEF LineEnds, Line
<1>3. m \in LineEnds /\ \A j \in LineEnds : m <= j
  BY <1>1, <1>2, MinIs
<1>4. ArrivedFirst
  BY ArrivedIs
<1>5. m \in 1..Len(arrived) /\ arrived[m].is \in Lines /\ m \in 0..Len(arrived) /\ m \in 1..Len(Stream)
      /\ 1 \in 1..Len(arrived)
  BY <1>2, <1>3, <1>4 DEF ArrivedFirst
<1>6. IsRead(m)
  BY <1>1, <1>5, TakeMoves DEF Line
<1>7. LineIs = Stream[m].is
  BY <1>1, <1>4, <1>5 DEF LineIs, ArrivedFirst
<1>8. Stream[1].is \in Lines => m = 1
  <2> SUFFICES ASSUME Stream[1].is \in Lines PROVE m = 1
    OBVIOUS
  <2>1. arrived[1].is \in Lines
    BY <1>4, <1>5 DEF ArrivedFirst
  <2>2. 1 \in LineEnds
    BY <1>2, <1>5, <2>1
  <2>3. m <= 1
    BY <1>3, <2>2
  <2> QED BY <1>5, <2>3
<1>9. LineIs \in Lines
  BY <1>4, <1>5, <1>7 DEF ArrivedFirst
<1> QED BY <1>5, <1>6, <1>7, <1>8, <1>9

\* What a note that nothing came says, unless it was late.
LEMMA NotLate ==
  ASSUME NEW notes, Late \subseteq notes, Clear(notes)
  PROVE  coming = <<>>
  BY DEF Late, Closed, Clear

\* Nothing is there, and nothing came late.
LEMMA NoBytesIs ==
  ASSUME arrived \in Seq(Pieces), coming \in Seq(Pieces), NoBytes, NEW notes, Late \subseteq notes, Clear(notes)
  PROVE  Stream = <<>> /\ Stream' = Stream
<1>1. coming = <<>>
  BY NotLate
<1>2. arrived = <<>>
  BY DEF NoBytes
<1>3. <<>> \o <<>> = <<>>
  BY ConcatEmptySeq
<1> QED BY <1>1, <1>2, <1>3 DEF NoBytes, Stream

\* No line is there, and none came late.
LEMMA NoLineIs ==
  ASSUME arrived \in Seq(Pieces), coming \in Seq(Pieces), NoLine, NEW notes, Late \subseteq notes, Clear(notes)
  PROVE  Stream' = <<>> /\ (Stream = <<>> \/ Stream[1].is \notin Lines)
<1>1. coming = <<>> /\ coming' = <<>> /\ arrived' = <<>>
  BY NotLate DEF NoLine
<1>2. <<>> \o <<>> = <<>>
  BY ConcatEmptySeq
<1>3. Stream' = <<>>
  BY <1>1, <1>2 DEF Stream
<1>4. ArrivedFirst
  BY ArrivedIs
<1>5. ASSUME Stream # <<>> PROVE Stream[1].is \notin Lines
  <2>1. 1 \in 1..Len(arrived) /\ arrived[1] = Stream[1]
    BY <1>1, <1>4, <1>5 DEF ArrivedFirst
  <2>2. LineEnds = {}
    BY DEF NoLine
  <2> QED BY <2>1, <2>2 DEF LineEnds
<1> QED BY <1>3, <1>5

-----------------------------------------------------------------------------
(* What hosts send                                                         *)

PieceWords == Lines \cup RestWords \cup {"0", "Z", "[", "5", "1", "255"}

\* s are some words, sent.
IsSent(s, words) ==
  /\ s \in Seq(Pieces) /\ Len(s) \in Nat /\ Len(s) = Len(words)
  /\ \A i \in 1..Len(s) : s[i].is = words[i]

\* What a hop sends is from that hop, word for word.
LEMMA SentIs ==
  ASSUME NEW by \in Nat, NEW words \in Seq(PieceWords)
  PROVE  IsSent(Sent(by, words), words)
<1>1. PICK s : s = Sent(by, words)
  OBVIOUS
<1>2. s = [k \in 1..Len(words) |-> [by |-> by, is |-> words[k]]] /\ Len(words) \in Nat
  BY <1>1 DEF Sent
<1>3. \A k \in 1..Len(words) : [by |-> by, is |-> words[k]] \in Pieces
  BY DEF PieceWords, Pieces
<1>4. s \in Seq(Pieces) /\ Len(s) = Len(words)
  BY <1>2, <1>3
<1>5. \A i \in 1..Len(s) : s[i].is = words[i]
  BY <1>2, <1>4
<1> QED BY <1>1, <1>2, <1>4, <1>5 DEF IsSent

\* The destination greets who reaches it.
LEMMA GreetingIs ==
  ASSUME ChainTypes, NEW path \in Seq(1..Dest), path # <<>>
  PROVE  /\ Greeting(path) \in Seq(Pieces)
         /\ Len(Greeting(path)) = (IF Last(path) = Dest THEN 1 ELSE 0)
         /\ Last(path) = Dest => Greeting(path)[1] = [by |-> Dest, is |-> "data"]
<1>1. Dest \in Nat
  BY DEF ChainTypes, Dest
<1>2. <<"data">> \in Seq(PieceWords) /\ Len(<<"data">>) = 1
  BY DEF PieceWords, Lines
<1>3. CASE Last(path) = Dest
  <2>1. Greeting(path) = Sent(Dest, <<"data">>)
    BY <1>3 DEF Greeting
  <2>2. IsSent(Sent(Dest, <<"data">>), <<"data">>)
    BY <1>1, <1>2, SentIs
  <2>3. Sent(Dest, <<"data">>)[1] = [by |-> Dest, is |-> "data"]
    BY DEF Sent
  <2> QED BY <1>2, <1>3, <2>1, <2>2, <2>3 DEF IsSent
<1>4. CASE Last(path) # Dest
  <2>1. Greeting(path) = <<>>
    BY <1>4 DEF Greeting
  <2>2. <<>> \in Seq(Pieces) /\ Len(<<>>) = 0
    OBVIOUS
  <2> QED BY <1>4, <2>1, <2>2
<1> QED BY <1>3, <1>4

\* The words of an answer.
IsReply(language, ok, r) ==
  /\ r \in Seq(PieceWords)
  /\ language = "https" =>
       \E n \in 1..2 : /\ Len(r) = n + 1 /\ r[1] = (IF ok THEN "200" ELSE "502")
                       /\ \A i \in 1..n : r[1 + i] = (IF i = n THEN "empty" ELSE "header")
  /\ language = "socks4" => Len(r) = 8 /\ r[1] = "0" /\ r[2] = (IF ok THEN "Z" ELSE "[")
  /\ language = "socks5" /\ hop > 1 => Len(r) = 2
  /\ language = "socks5" /\ ~(hop > 1) =>
       /\ r[1] = "5" /\ r[2] = (IF ok THEN "0" ELSE "1")
       /\ (Len(r) = 10 /\ r[4] = "ip") \/ (Len(r) = 9 /\ r[4] = "name")
       /\ \A i \in 4..Len(r) : r[i] \in RestWords

\* The words of each answer, by the language it is in.
LEMMA RepliesAre ==
  ASSUME NEW language \in {"https", "socks4", "socks5"}, NEW ok \in BOOLEAN, NEW r \in Replies(language, ok)
  PROVE  IsReply(language, ok, r)
<1>1. CASE language = "https"
  <2>1. PICK headers \in {<<>>, <<"header">>} : r = <<IF ok THEN "200" ELSE "502">> \o headers \o <<"empty">>
    BY <1>1 DEF Replies
  <2>2. PICK w : w = IF ok THEN "200" ELSE "502"
    OBVIOUS
  <2>3. w \in PieceWords /\ "empty" \in PieceWords /\ "header" \in PieceWords
    BY <2>2 DEF PieceWords, Lines
  <2>4. PICK a, b, s : a = <<w>> /\ b = <<"empty">> /\ s = a \o headers
    OBVIOUS
  <2>5. /\ a \in Seq(PieceWords) /\ Len(a) = 1 /\ a[1] = w
        /\ b \in Seq(PieceWords) /\ Len(b) = 1 /\ b[1] = "empty"
        /\ headers \in Seq(PieceWords) /\ Len(headers) \in 0..1 /\ \A i \in 1..Len(headers) : headers[i] = "header"
    <3>1. CASE headers = <<>>
      BY <2>3, <2>4, <3>1
    <3>2. CASE headers = <<"header">>
      BY <2>3, <2>4, <3>2
    <3> QED BY <2>1, <3>1, <3>2
  <2>6. s \in Seq(PieceWords) /\ IsJoin(s, a, headers)
    BY <2>4, <2>5, Behind
  <2>7. r \in Seq(PieceWords) /\ IsJoin(r, s, b)
    <3>1. r = s \o b
      BY <2>1, <2>2, <2>4
    <3> QED BY <2>5, <2>6, <3>1, Behind
  <2>8. PICK n : n = Len(headers) + 1
    OBVIOUS
  <2>9. n \in 1..2 /\ Len(headers) = n - 1 /\ Len(s) = n /\ Len(r) = n + 1
    BY <2>5, <2>6, <2>7, <2>8 DEF IsJoin
  <2>10. r[1] = w
    <3>1. s[1] = w
      BY <2>5, <2>6 DEF IsJoin
    <3> QED BY <2>7, <2>9, <3>1 DEF IsJoin
  <2>11. r[1 + n] = "empty"
    BY <2>5, <2>7, <2>9 DEF IsJoin
  <2>12. ASSUME NEW i \in 1..n, i # n PROVE r[1 + i] = "header"
    <3>1. i \in 1..Len(headers) /\ 1 + i \in 1..Len(s)
      BY <2>9, <2>12
    <3>2. s[1 + i] = "header"
      BY <2>5, <2>6, <3>1 DEF IsJoin
    <3> QED BY <2>7, <3>1, <3>2 DEF IsJoin
  <2>13. \A i \in 1..n : r[1 + i] = (IF i = n THEN "empty" ELSE "header")
    BY <2>11, <2>12
  <2> QED BY <1>1, <2>2, <2>7, <2>9, <2>10, <2>13 DEF IsReply
<1>2. CASE language = "socks4"
  <2>1. r = <<"0", IF ok THEN "Z" ELSE "[", "x", "x", "x", "x", "x", "x">>
    BY <1>2 DEF Replies
  <2>2. "0" \in PieceWords /\ "Z" \in PieceWords /\ "[" \in PieceWords /\ "x" \in PieceWords
    BY DEF PieceWords, RestWords
  <2>3. r \in Seq(PieceWords) /\ Len(r) = 8 /\ r[1] = "0" /\ r[2] = IF ok THEN "Z" ELSE "["
    BY <2>1, <2>2
  <2> QED BY <1>2, <2>3 DEF IsReply
<1>3. CASE language = "socks5"
  <2>1. CASE hop > 1
    <3>1. r = <<"5", "0">>
      BY <1>3, <2>1 DEF Replies
    <3>2. "5" \in PieceWords /\ "0" \in PieceWords
      BY DEF PieceWords
    <3> QED BY <1>3, <2>1, <3>1, <3>2 DEF IsReply
  <2>2. CASE ~(hop > 1)
    <3>1. PICK w : w = IF ok THEN "0" ELSE "1"
      OBVIOUS
    <3>2. PICK to \in {<<"ip", "x", "x", "x", "x", "x", "x">>, <<"name", "2", "x", "x", "x", "x">>} :
            r = <<"5", w, "x">> \o to
      BY <1>3, <2>2, <3>1 DEF Replies
    <3>3. w \in PieceWords /\ "5" \in PieceWords /\ "x" \in PieceWords /\ RestWords \subseteq PieceWords
      BY <3>1 DEF PieceWords, RestWords
    <3>4. /\ to \in Seq(RestWords)
          /\ (Len(to) = 7 /\ to[1] = "ip") \/ (Len(to) = 6 /\ to[1] = "name")
      <4>1. "ip" \in RestWords /\ "name" \in RestWords /\ "2" \in RestWords /\ "x" \in RestWords
        BY DEF RestWords
      <4>2. CASE to = <<"ip", "x", "x", "x", "x", "x", "x">>
        BY <4>1, <4>2
      <4>3. CASE to = <<"name", "2", "x", "x", "x", "x">>
        BY <4>1, <4>3
      <4> QED BY <3>2, <4>2, <4>3
    <3>5. PICK t : t = <<"5", w, "x">>
      OBVIOUS
    <3>6. t \in Seq(PieceWords) /\ Len(t) = 3 /\ t[1] = "5" /\ t[2] = w /\ to \in Seq(PieceWords)
      BY <3>3, <3>4, <3>5
    <3>7. r \in Seq(PieceWords) /\ IsJoin(r, t, to)
      BY <3>2, <3>5, <3>6, Behind
    <3>8. r[1] = "5" /\ r[2] = w /\ Len(r) = 3 + Len(to) /\ \A k \in 1..Len(to) : r[3 + k] = to[k]
      BY <3>6, <3>7 DEF IsJoin
    <3>9. (Len(r) = 10 /\ r[4] = "ip") \/ (Len(r) = 9 /\ r[4] = "name")
      <4>1. 1 \in 1..Len(to) /\ 3 + 1 = 4
        BY <3>4
      <4>2. r[4] = to[1]
        BY <3>8, <4>1
      <4>3. Len(r) = 3 + Len(to)
        BY <3>8
      <4>4. CASE Len(to) = 7 /\ to[1] = "ip"
        BY <4>2, <4>3, <4>4
      <4>5. CASE Len(to) = 6 /\ to[1] = "name"
        BY <4>2, <4>3, <4>5
      <4> QED BY <3>4, <4>4, <4>5
    <3>10. ASSUME NEW i \in 4..Len(r) PROVE r[i] \in RestWords
      <4>1. i - 3 \in 1..Len(to) /\ 3 + (i - 3) = i
        BY <3>4, <3>8
      <4>2. r[i] = to[i - 3]
        BY <3>8, <4>1
      <4> QED BY <3>4, <4>1, <4>2
    <3> QED BY <1>3, <2>2, <3>1, <3>7, <3>8, <3>9, <3>10 DEF IsReply
  <2> QED BY <2>1, <2>2
<1> QED BY <1>1, <1>2, <1>3

-----------------------------------------------------------------------------
(* What each step leaves                                                   *)

Upsets == SUBSET {"late", "short", "blind", "failed"}

WireTypes ==
  /\ route \in Seq(1..Dest) /\ arrived \in Seq(Pieces) /\ coming \in Seq(Pieces)
  /\ hungUp \in BOOLEAN /\ stray \in BOOLEAN /\ (stray => numeric)

HopTypesOK ==
  /\ hop \in 1..(Len(hops) + 1) /\ step \in {"start", "end"} \cup LoginSteps \cup AnswerSteps
  /\ (step = "end" <=> hop = Len(hops) + 1)
  /\ step \in LoginSteps => hop = 1 /\ Speaks(1) = "socks5"
  /\ step \in AnswerSteps => /\ hops[hop] \notin {"tcp", "ssh", "sshtunnel", "none"}
                            /\ (hop > 1 => hops[hop] # "sshproxy")
  /\ through \in BOOLEAN /\ upset \in Upsets

\* The types of the wire and those of the walk along the hops.
LEMMA TypesAre ==
  ChainTypes <=> /\ hops \in Seq(HopNames) /\ Len(hops) > 0 /\ numeric \in BOOLEAN
                 /\ WireTypes /\ HopTypesOK
  BY DEF ChainTypes, WireTypes, HopTypesOK, Upsets

\* Where the walk is when it has not ended.
LEMMA HopIs ==
  ASSUME ChainTypes, step # "end"
  PROVE  /\ hop \in 1..Len(hops) /\ hop \in DOMAIN hops /\ hop + 1 \in 1..Dest /\ hop \in 1..Dest /\ hop # Dest
         /\ hops[hop] \in HopNames /\ Dest = Len(hops) + 1 /\ Dest \in Nat
         /\ step \in AnswerSteps => Language \in {"https", "socks4", "socks5"}
<1>1. Len(hops) \in Nat /\ DOMAIN hops = 1..Len(hops) /\ Dest = Len(hops) + 1 /\ Dest \in Nat
  BY DEF ChainTypes, Dest
<1>2. hop \in 1..Len(hops) /\ hop + 1 \in 1..Dest /\ hop \in 1..Dest /\ hop # Dest
  BY <1>1 DEF ChainTypes
<1>3. hops[hop] \in HopNames
  BY <1>2 DEF ChainTypes
<1>4. step \in AnswerSteps => Language \in {"https", "socks4", "socks5"}
  BY <1>1, <1>2, <1>3 DEF ChainTypes, Language, Speaks, HopNames
<1> QED BY <1>1, <1>2, <1>3, <1>4

\* The end that is reached is known by its number.
LEMMA FarNat == ChainTypes => Far \in Nat
<1> SUFFICES ASSUME ChainTypes PROVE Far \in Nat
  OBVIOUS
<1>1. Dest \in Nat /\ route \in Seq(1..Dest)
  BY DEF ChainTypes, Dest
<1>2. CASE route = <<>>
  BY <1>2 DEF Far
<1>3. CASE route # <<>>
  <2>1. Len(route) \in 1..Len(route)
    BY <1>1, <1>3, EmptySeq, LenProperties
  <2>2. route[Len(route)] \in 1..Dest
    BY <1>1, <2>1
  <2> QED BY <1>1, <1>3, <2>2 DEF Far, Last
<1> QED BY <1>2, <1>3

\* The other end is not asked, or answers.
NotAsked == UNCHANGED <<route, coming, stray>> /\ hungUp' \in BOOLEAN
Answered(ok, r) ==
  /\ Speaks(Far) = Language /\ IsReply(Language, ok, r)
  /\ (ok => ~(Language = "socks5" /\ hop > 1))
  /\ route' = (IF ok THEN route \o Landing(hop + 1) ELSE route)
  /\ coming' = (coming \o Sent(Far, r)) \o (IF ok THEN Greeting(Landing(hop + 1)) ELSE <<>>)
  /\ hungUp' \in BOOLEAN /\ stray' \in BOOLEAN /\ (stray' => numeric)

\* A hop that is asked answers, unless there is none or it does not speak the language.
LEMMA AskMoves ==
  ASSUME ChainTypes, step = "ask", Ask(Language)
  PROVE  NotAsked \/ \E ok \in BOOLEAN, r \in Seq(PieceWords) : Answered(ok, r)
<1>1. Language \in {"https", "socks4", "socks5"}
  BY HopIs DEF AnswerSteps
<1>2. CASE hungUp \/ stray \/ Speaks(Far) # Language
  BY <1>2 DEF Ask, NotAsked
<1>3. CASE ~(hungUp \/ stray \/ Speaks(Far) # Language)
  <2>1. PICK ok \in (IF Language = "socks5" /\ hop > 1 THEN {FALSE} ELSE BOOLEAN) :
           /\ \E reply \in Replies(Language, ok) :
                coming' = coming \o Sent(Far, reply) \o (IF ok THEN Greeting(Landing(hop + 1)) ELSE <<>>)
           /\ route' = (IF ok THEN route \o Landing(hop + 1) ELSE route)
           /\ hungUp' \in (IF ok THEN {FALSE} ELSE BOOLEAN)
           /\ stray' = (ok /\ (Language = "socks4" /\ numeric))
    BY <1>3, Zenon DEF Ask
  <2>2. PICK reply \in Replies(Language, ok) :
           coming' = coming \o Sent(Far, reply) \o (IF ok THEN Greeting(Landing(hop + 1)) ELSE <<>>)
    BY <2>1
  <2>3. ok \in BOOLEAN /\ (ok => ~(Language = "socks5" /\ hop > 1))
    BY <2>1
  <2>4. IsReply(Language, ok, reply)
    BY <1>1, <2>2, <2>3, RepliesAre
  <2>5. hungUp' \in BOOLEAN /\ stray' \in BOOLEAN /\ (stray' => numeric)
    BY <2>1
  <2>6. Answered(ok, reply)
    BY <1>3, <2>1, <2>2, <2>3, <2>4, <2>5 DEF Answered
  <2> QED BY <2>3, <2>4, <2>6 DEF IsReply
<1> QED BY <1>2, <1>3

\* An answer leaves hops on the route and pieces on the wire.
LEMMA AnsweredTypes ==
  ASSUME ChainTypes, step = "ask", NEW ok \in BOOLEAN, NEW r \in Seq(PieceWords), Answered(ok, r)
  PROVE  route' \in Seq(1..Dest) /\ coming' \in Seq(Pieces)
<1>1. PICK s, g, l : s = Sent(Far, r) /\ l = Landing(hop + 1) /\ g = IF ok THEN Greeting(l) ELSE <<>>
  OBVIOUS
<1>2. s \in Seq(Pieces)
  BY <1>1, FarNat, SentIs DEF IsSent
<1>3. hop + 1 \in 1..Dest
  BY HopIs
<1>4. l \in Seq(1..Dest) /\ l # <<>> /\ route \o l \in Seq(1..Dest)
  BY <1>1, <1>3, LandingIs DEF ChainTypes
<1>5. g \in Seq(Pieces)
  <2>1. Greeting(l) \in Seq(Pieces)
    BY <1>4, GreetingIs
  <2> QED BY <1>1, <2>1
<1>6. coming \o s \in Seq(Pieces)
  BY <1>2, Behind DEF ChainTypes
<1>7. (coming \o s) \o g \in Seq(Pieces)
  BY <1>5, <1>6, Behind
<1> QED BY <1>1, <1>4, <1>7 DEF Answered, ChainTypes

\* The first host is reached, and does it put through?
LEMMA DialTypes ==
  ASSUME ChainTypes, step = "start", IsFirst, NEW puts \in BOOLEAN, Dial(1, puts)
  PROVE  /\ route' \in Seq(1..Dest) /\ coming' \in Seq(Pieces) /\ hungUp' = FALSE
         /\ upset' \in Upsets /\ upset \subseteq upset'
         /\ upset' \cap {"blind"} = {} =>
              /\ upset' = upset
              /\ \E path \in Seq(1..Dest) :
                    /\ path # <<>> /\ route' = path /\ coming' = coming \o Greeting(path)
                    /\ Last(path) = (IF puts THEN Stop(2) ELSE Stop(1))
                    /\ path = Upto(IF puts THEN Stop(2) ELSE Stop(1))
<1>1. 1 \in 1..Dest /\ 2 \in 1..Dest /\ Dest \in Nat
  BY HopIs DEF IsFirst
<1>2. PICK forwards \in BOOLEAN :
       LET path == IF ~forwards THEN <<1>>
                   ELSE (IF puts THEN <<1>> \o Landing(1 + 1) ELSE Landing(1))
       IN  /\ route' = path /\ coming' = coming \o Greeting(path)
           /\ upset' = (IF forwards THEN upset ELSE upset \cup {"blind"})
  BY DEF Dial
<1>3. PICK path : path = IF ~forwards THEN <<1>> ELSE (IF puts THEN <<1>> \o Landing(2) ELSE Landing(1))
  OBVIOUS
<1>4. /\ route' = path /\ coming' = coming \o Greeting(path)
      /\ upset' = (IF forwards THEN upset ELSE upset \cup {"blind"})
  BY <1>2, <1>3
<1>5. <<1>> \in Seq(1..Dest) /\ <<1>> # <<>>
  BY <1>1
<1>6. Upto(1) = <<1>>
  <2>1. Upto(1) \in Seq(Nat) /\ <<1>> \in Seq(Nat) /\ Len(Upto(1)) = 1 /\ Len(<<1>>) = 1 /\ Upto(1)[1] = 1 /\ <<1>>[1] = 1
    BY DEF Upto
  <2> QED BY <2>1, SeqEqual
<1>7. CASE ~forwards
  <2>1. path \in Seq(1..Dest) /\ path # <<>>
    BY <1>3, <1>5, <1>7
  <2>2. coming \o Greeting(path) \in Seq(Pieces)
    BY <2>1, GreetingIs, Behind DEF ChainTypes
  <2>3. upset' \in Upsets /\ upset \subseteq upset' /\ "blind" \in upset'
    BY <1>4, <1>7 DEF ChainTypes, Upsets
  <2> QED BY <1>4, <2>1, <2>2, <2>3 DEF Dial
<1>8. CASE forwards
  <2>1. /\ path \in Seq(1..Dest) /\ path # <<>>
        /\ Last(path) = (IF puts THEN Stop(2) ELSE Stop(1))
        /\ path = Upto(IF puts THEN Stop(2) ELSE Stop(1))
    <3>1. CASE puts
      <4>1. path = <<1>> \o Landing(2)
        BY <1>3, <1>8, <3>1
      <4>2. Upto(1) \o Landing(2) = Upto(Stop(2))
        <5>1. Upto(2 - 1) \o Landing(2) = Upto(Stop(2))
          BY <1>1, LandingIs, Zenon
        <5>2. 2 - 1 = 1
          OBVIOUS
        <5> QED BY <5>1, <5>2, Zenon
      <4>3. <<1>> \o Landing(2) \in Seq(1..Dest) /\ <<1>> \o Landing(2) # <<>> /\ Last(<<1>> \o Landing(2)) = Stop(2)
        BY <1>1, <1>5, LandingIs
      <4> QED BY <1>6, <3>1, <4>1, <4>2, <4>3
    <3>2. CASE ~puts
      <4>1. path = Landing(1)
        BY <1>3, <1>8, <3>2
      <4>2. Landing(1) \in Seq(1..Dest) /\ Landing(1) # <<>> /\ Last(Landing(1)) = Stop(1)
        BY <1>1, LandingIs
      <4>3. Landing(1) = Upto(Stop(1))
        <5>1. Landing(1) = [j \in 1..(Stop(1) - 1 + 1) |-> 1 + j - 1] /\ Stop(1) \in Nat
          <6>1. Landing(1) = [j \in 1..(Stop(1) - 1 + 1) |-> 1 + j - 1]
            BY <1>1, StopIs, Zenon
          <6>2. Stop(1) \in Nat
            BY <1>1, StopIs
          <6> QED BY <6>1, <6>2
        <5>2. 1..(Stop(1) - 1 + 1) = 1..Stop(1) /\ \A j \in 1..Stop(1) : 1 + j - 1 = j
          BY <5>1
        <5> QED BY <5>1, <5>2 DEF Upto
      <4> QED BY <3>2, <4>1, <4>2, <4>3
    <3> QED BY <3>1, <3>2
  <2>2. coming \o Greeting(path) \in Seq(Pieces)
    BY <2>1, GreetingIs, Behind DEF ChainTypes
  <2>3. upset' = upset /\ upset' \in Upsets
    BY <1>4, <1>8 DEF ChainTypes, Upsets
  <2> QED BY <1>4, <2>1, <2>2, <2>3 DEF Dial
<1> QED BY <1>7, <1>8

\* A read changes no more than what has arrived.
LEMMA ReadTypes ==
  ASSUME ChainTypes, (\E n \in Nat \ {0} : Bytes(n)) \/ NoBytes \/ Line \/ NoLine
  PROVE  arrived' \in Seq(Pieces) /\ coming' = coming /\ hungUp' = hungUp
<1>1. arrived \in Seq(Pieces) /\ coming \in Seq(Pieces)
  BY DEF ChainTypes
<1>2. ASSUME NEW n \in Nat \ {0}, Bytes(n) PROVE arrived' \in Seq(Pieces) /\ coming' = coming /\ hungUp' = hungUp
  <2>1. PICK m \in 1..n : IsRead(m)
    BY <1>1, <1>2, BytesMoves
  <2> QED BY <2>1 DEF IsRead
<1>3. CASE NoBytes
  BY <1>1, <1>3 DEF NoBytes
<1>4. CASE Line
  <2>1. PICK m \in 1..Len(Stream) : IsRead(m)
    BY <1>1, <1>4, LineMoves
  <2> QED BY <2>1 DEF IsRead
<1>5. CASE NoLine
  BY <1>1, <1>5 DEF NoLine
<1> QED BY <1>2, <1>3, <1>4, <1>5

\* A hop that is done with leads to the next, or to the end.
LEMMA ReturnedTypes ==
  ASSUME ChainTypes, step # "end", hops' = hops, NEW ok \in BOOLEAN, NEW notes \in Upsets, Returned(ok, notes)
  PROVE  HopTypesOK'
<1>1. hop \in 1..Len(hops) /\ Len(hops) \in Nat
  BY HopIs DEF ChainTypes
<1>2. hop' = hop + 1 /\ hop' \in 1..(Len(hops') + 1) /\ (hop = Len(hops) <=> hop' = Len(hops') + 1)
  BY <1>1 DEF Returned
<1>3. step' \in {"start", "end"} /\ (step' = "end" <=> hop = Len(hops))
  BY DEF Returned
<1>4. step' \notin LoginSteps /\ step' \notin AnswerSteps
  BY <1>3 DEF LoginSteps, AnswerSteps
<1>5. through' \in BOOLEAN /\ upset' \in Upsets
  BY DEF Returned, Upsets
<1> QED BY <1>2, <1>3, <1>4, <1>5 DEF HopTypesOK

\* A hop that waits goes on waiting for its own answer.
LEMMA WaitsTypes ==
  ASSUME ChainTypes, step # "end", hops' = hops, NEW next, NEW notes \in Upsets, Waits(next, notes),
         \/ next \in LoginSteps /\ hop = 1 /\ Speaks(1) = "socks5"
         \/ next \in AnswerSteps /\ hops[hop] \notin {"tcp", "ssh", "sshtunnel", "none"} /\ (hop > 1 => hops[hop] # "sshproxy")
  PROVE  HopTypesOK'
<1>1. hop \in 1..Len(hops) /\ Len(hops) \in Nat
  BY HopIs DEF ChainTypes
<1>2. step' = next /\ upset' = notes /\ hop' = hop /\ through' = through
  BY DEF Waits
<1>3. next \in LoginSteps \cup AnswerSteps /\ "end" \notin LoginSteps \cup AnswerSteps /\ hop # Len(hops) + 1
  <2>1. "end" \notin LoginSteps \cup AnswerSteps
    BY DEF LoginSteps, AnswerSteps
  <2> QED BY <1>1, <2>1
<1>4. next \in LoginSteps => next \notin AnswerSteps
  BY DEF LoginSteps, AnswerSteps
<1>5. next # "end"
  BY <1>3
<1>6. Speaks(1)' = Speaks(1)
  BY DEF Speaks
<1>7. /\ hop' \in 1..(Len(hops') + 1) /\ step' \in {"start", "end"} \cup LoginSteps \cup AnswerSteps
      /\ step' # "end" /\ hop' # Len(hops') + 1 /\ through' \in BOOLEAN /\ upset' \in Upsets
  BY <1>1, <1>2, <1>3, <1>5 DEF ChainTypes
<1>8. CASE next \in LoginSteps /\ hop = 1 /\ Speaks(1) = "socks5"
  BY <1>2, <1>4, <1>6, <1>7, <1>8 DEF HopTypesOK
<1>9. CASE next \in AnswerSteps /\ hops[hop] \notin {"tcp", "ssh", "sshtunnel", "none"} /\ (hop > 1 => hops[hop] # "sshproxy")
  BY <1>2, <1>4, <1>7, <1>9 DEF HopTypesOK
<1> QED BY <1>8, <1>9

\* What is noted.
LEMMA NotesAre ==
  ASSUME ChainTypes
  PROVE  upset \in Upsets /\ Late \in Upsets /\ \A n : Short(n) \in Upsets
  BY DEF ChainTypes, Upsets, Late, Short

\* A hop that begins keeps the types.
LEMMA StartTypes ==
  ASSUME ChainTypes, StartHop, hops' = hops, numeric' = numeric
  PROVE  WireTypes' /\ HopTypesOK'
<1>1. step = "start" /\ step # "end" /\ Dest' = Dest /\ upset \in Upsets
  BY NotesAre DEF StartHop, Dest
<1>2. /\ hop \in 1..Len(hops) /\ Len(hops) \in Nat /\ (hop = Len(hops) => hop + 1 = Len(hops) + 1)
      /\ route \in Seq(1..Dest) /\ arrived \in Seq(Pieces) /\ coming \in Seq(Pieces)
      /\ stray \in BOOLEAN /\ (stray => numeric)
  BY <1>1, HopIs DEF ChainTypes
<1>3. ASSUME Fresh PROVE WireTypes'
  BY <1>1, <1>3 DEF Fresh, WireTypes, ChainTypes
<1>4. ASSUME NEW ok \in BOOLEAN, Returned(ok, upset) PROVE HopTypesOK'
  BY <1>1, <1>4, ReturnedTypes
<1>5. ASSUME IsFirst, NEW puts \in BOOLEAN, Dial(1, puts), UNCHANGED <<arrived, stray>>
      PROVE  WireTypes' /\ upset' \in Upsets
  <2>1. route' \in Seq(1..Dest) /\ coming' \in Seq(Pieces) /\ hungUp' = FALSE /\ upset' \in Upsets
    BY <1>1, <1>5, DialTypes
  <2> QED BY <1>1, <1>2, <1>5, <2>1 DEF WireTypes
<1>6. ASSUME IsFirst, through' = TRUE, hop' = 2, step' = (IF Len(hops) = 1 THEN "end" ELSE "start"), upset' \in Upsets
      PROVE  HopTypesOK'
  <2>1. hop' \in 1..(Len(hops') + 1) /\ (Len(hops) = 1 <=> hop' = Len(hops') + 1)
    <3>1. 2 \in 1..(Len(hops) + 1) /\ (Len(hops) = 1 <=> 2 = Len(hops) + 1)
      <4>1. hop \in 1..Len(hops) /\ Len(hops) \in Nat
        BY <1>2
      <4>2. Len(hops) >= 1
        BY <4>1
      <4>3. 2 \in 1..(Len(hops) + 1)
        BY <4>1, <4>2
      <4>5. \A n \in Nat : n = 1 <=> n + 1 = 2
        OBVIOUS
      <4>4. Len(hops) = 1 <=> 2 = Len(hops) + 1
        BY <4>1, <4>5
      <4> QED BY <4>3, <4>4
    <3>2. hop' = 2 /\ hops' = hops
      BY <1>6
    <3> QED BY <3>1, <3>2
  <2>2. step' \in {"start", "end"} /\ (step' = "end" <=> Len(hops) = 1)
    BY <1>6
  <2>3. step' \notin LoginSteps /\ step' \notin AnswerSteps
    BY <2>2 DEF LoginSteps, AnswerSteps
  <2> QED BY <1>6, <2>1, <2>2, <2>3 DEF HopTypesOK
<1>7. CASE HopTcp
  <2>1. CASE ~IsFirst /\ Returned(TRUE, upset) /\ Fresh
    BY <1>3, <1>4, <2>1
  <2>2. CASE CannotConnect
    BY <1>3, <1>4, <2>2 DEF CannotConnect
  <2>3. CASE /\ IsFirst /\ Dial(1, FALSE) /\ UNCHANGED <<arrived, stray>>
             /\ through' = TRUE /\ hop' = 2 /\ step' = (IF Len(hops) = 1 THEN "end" ELSE "start")
    BY <1>5, <1>6, <2>3
  <2> QED BY <1>7, <2>1, <2>2, <2>3 DEF HopTcp
<1>8. CASE HopSsh
  <2>1. CASE ~IsFirst /\ Returned(FALSE, upset) /\ Fresh
    BY <1>3, <1>4, <2>1
  <2>2. CASE CannotConnect
    BY <1>3, <1>4, <2>2 DEF CannotConnect
  <2>3. CASE /\ IsFirst /\ Dial(1, TRUE) /\ UNCHANGED <<arrived, stray>>
             /\ through' = TRUE /\ hop' = 2 /\ step' = (IF Len(hops) = 1 THEN "end" ELSE "start")
    BY <1>5, <1>6, <2>3
  <2> QED BY <1>8, <2>1, <2>2, <2>3 DEF HopSsh
<1>9. CASE Connects
  <2>1. CASE CannotConnect
    BY <1>3, <1>4, <2>1 DEF CannotConnect
  <2>2. CASE ~CannotConnect
    <3>1. /\ IsFirst /\ Dial(1, FALSE) /\ UNCHANGED <<hop, through, arrived, stray>>
          /\ step' = (IF Speaks(1) = "socks5" THEN "login" ELSE "ask")
          /\ hops[hop] \in {"https", "socks4", "socks5", "socks5 login", "sshproxy"}
      BY <1>9, <2>2 DEF Connects
    <3>2. WireTypes' /\ upset' \in Upsets
      BY <1>5, <3>1
    <3>3. Waits(step', upset')
      BY <3>1 DEF Waits
    <3>4. \/ step' \in LoginSteps /\ hop = 1 /\ Speaks(1) = "socks5"
          \/ step' \in AnswerSteps /\ hops[hop] \notin {"tcp", "ssh", "sshtunnel", "none"} /\ (hop > 1 => hops[hop] # "sshproxy")
      <4>1. hop = 1 /\ ~(hop > 1) /\ "login" \in LoginSteps /\ "ask" \in AnswerSteps
        <5>1. hop = 1
          BY <3>1 DEF IsFirst
        <5>2. "login" \in LoginSteps /\ "ask" \in AnswerSteps
          BY DEF LoginSteps, AnswerSteps
        <5> QED BY <5>1, <5>2
      <4>2. hops[hop] \notin {"tcp", "ssh", "sshtunnel", "none"}
        BY <3>1
      <4> QED BY <3>1, <4>1, <4>2
    <3>5. HopTypesOK'
      BY <1>1, <3>2, <3>3, <3>4, WaitsTypes
    <3> QED BY <3>2, <3>5
  <2> QED BY <2>1, <2>2
<1>10. CASE SshProxyBehind
  BY <1>3, <1>4, <1>10 DEF SshProxyBehind
<1>11. CASE Unknown
  <2>1. through \in BOOLEAN
    BY DEF ChainTypes
  <2> QED BY <1>3, <1>4, <1>11, <2>1 DEF Unknown
<1>12. CASE /\ ~IsFirst /\ hops[hop] \in {"https", "socks4", "socks5", "socks5 login"}
            /\ Waits("ask", upset) /\ Fresh
  <2>1. "ask" \in AnswerSteps /\ hops[hop] \notin {"tcp", "ssh", "sshtunnel", "none"} /\ hops[hop] # "sshproxy"
    BY <1>12 DEF AnswerSteps
  <2>2. HopTypesOK'
    BY <1>1, <1>12, <2>1, WaitsTypes
  <2> QED BY <1>3, <1>12, <2>2
<1> QED BY <1>7, <1>8, <1>9, <1>10, <1>11, <1>12 DEF StartHop

\* So do the login, the request and what is read of the answer.
LEMMA LoginTypes ==
  ASSUME ChainTypes, Login, hops' = hops, numeric' = numeric
  PROVE  WireTypes' /\ HopTypesOK'
<1>1. step \in LoginSteps /\ step # "end" /\ hop = 1 /\ Speaks(1) = "socks5" /\ 1 \in DOMAIN hops /\ Dest' = Dest
  <2>1. step \in LoginSteps /\ step # "end"
    BY DEF Login, LoginSteps
  <2> QED BY <2>1, HopIs DEF ChainTypes, Dest
<1>2. upset \in Upsets /\ Late \in Upsets /\ \A n : Short(n) \in Upsets
  BY NotesAre
<1>3. ASSUME NEW method \in BOOLEAN, AskLogin(method), UNCHANGED arrived PROVE WireTypes'
  <2>1. route' = route /\ stray' = stray
    BY <1>3 DEF AskLogin
  <2>2. hungUp' \in BOOLEAN /\ coming' \in Seq(Pieces)
    <3>1. CASE hungUp \/ Speaks(Far) # "socks5"
      BY <1>3, <3>1 DEF AskLogin, ChainTypes
    <3>2. CASE ~(hungUp \/ Speaks(Far) # "socks5")
      <4>1. PICK ok \in BOOLEAN :
              /\ coming' = coming \o Sent(Far, <<IF method THEN "5" ELSE "1",
                                   IF ~ok THEN "255" ELSE IF method /\ hops[hop] = "socks5 login" THEN "2" ELSE "0">>)
              /\ hungUp' = ~ok
        BY <1>3, <3>2 DEF AskLogin
      <4>2. PICK a, b : a = (IF method THEN "5" ELSE "1") /\ b = (IF ~ok THEN "255" ELSE IF method /\ hops[hop] = "socks5 login" THEN "2" ELSE "0")
        OBVIOUS
      <4>5. a \in PieceWords /\ b \in PieceWords
        BY <4>2 DEF PieceWords, RestWords
      <4>6. PICK w : w = <<IF method THEN "5" ELSE "1",
                           IF ~ok THEN "255" ELSE IF method /\ hops[hop] = "socks5 login" THEN "2" ELSE "0">>
        OBVIOUS
      <4>7. w = <<a, b>>
        BY <4>2, <4>6, Zenon
      <4>3. w \in Seq(PieceWords)
        BY <4>5, <4>7
      <4>4. Sent(Far, w) \in Seq(Pieces)
        BY <4>3, FarNat, SentIs DEF IsSent
      <4> QED BY <4>1, <4>6, <4>4, Behind DEF ChainTypes
    <3> QED BY <3>1, <3>2
  <2> QED BY <1>1, <1>3, <2>1, <2>2 DEF WireTypes, ChainTypes
<1>4. ASSUME (\E n \in Nat \ {0} : Bytes(n)) \/ NoBytes, UNCHANGED <<route, stray>> PROVE WireTypes'
  <2>1. arrived' \in Seq(Pieces) /\ coming' = coming /\ hungUp' = hungUp
    BY <1>4, ReadTypes
  <2> QED BY <1>1, <1>4, <2>1 DEF WireTypes, ChainTypes
<1>5. WireTypes'
  <2>1. CASE step \in {"login", "say password"}
    BY <1>3, <2>1 DEF Login
  <2>2. CASE step \in {"method", "password"}
    <3>1. (Bytes(10) \/ NoBytes) /\ UNCHANGED <<route, stray>>
      BY <2>2 DEF Login
    <3>2. Bytes(10) => \E n \in Nat \ {0} : Bytes(n)
      OBVIOUS
    <3> QED BY <1>4, <3>1, <3>2
  <2> QED BY <1>1, <2>1, <2>2 DEF LoginSteps
<1>6. \/ \E next \in LoginSteps : Waits(next, upset)
      \/ step \in {"method", "password"} /\ Waits("ask", upset)
      \/ \E notes \in {Late, Short(2)} : Returned(FALSE, notes)
  BY DEF Login, LoginSteps
<1>7. HopTypesOK'
  <2>1. ASSUME NEW next \in LoginSteps, Waits(next, upset) PROVE HopTypesOK'
    BY <1>1, <1>2, <2>1, WaitsTypes
  <2>2. ASSUME Waits("ask", upset) PROVE HopTypesOK'
    <3>1. "ask" \in AnswerSteps /\ ~(hop > 1)
      BY <1>1 DEF AnswerSteps
    <3>2. hops[hop] \notin {"tcp", "ssh", "sshtunnel", "none"}
      BY <1>1 DEF Speaks
    <3> QED BY <1>1, <1>2, <2>2, <3>1, <3>2, WaitsTypes
  <2>3. ASSUME NEW notes \in {Late, Short(2)}, Returned(FALSE, notes) PROVE HopTypesOK'
    BY <1>1, <1>2, <2>3, ReturnedTypes
  <2> QED BY <1>6, <2>1, <2>2, <2>3
<1> QED BY <1>5, <1>7

\* A request keeps the types.
LEMMA RequestTypes ==
  ASSUME ChainTypes, SendRequest, hops' = hops, numeric' = numeric
  PROVE  WireTypes' /\ HopTypesOK'
<1>1. step = "ask" /\ step # "end" /\ Ask(Language) /\ Waits("reply", upset) /\ arrived' = arrived /\ Dest' = Dest
  BY DEF SendRequest, Dest
<1>2. WireTypes'
  <2>1. CASE NotAsked
    BY <1>1, <2>1 DEF NotAsked, WireTypes, ChainTypes
  <2>2. ASSUME NEW ok \in BOOLEAN, NEW r \in Seq(PieceWords), Answered(ok, r) PROVE WireTypes'
    <3>1. route' \in Seq(1..Dest) /\ coming' \in Seq(Pieces)
      BY <1>1, <2>2, AnsweredTypes
    <3>2. hungUp' \in BOOLEAN /\ stray' \in BOOLEAN /\ (stray' => numeric)
      BY <2>2 DEF Answered
    <3> QED BY <1>1, <3>1, <3>2 DEF WireTypes, ChainTypes
  <2> QED BY <1>1, <2>1, <2>2, AskMoves
<1>3. upset \in Upsets
  BY NotesAre
<1>4. "reply" \in AnswerSteps /\ step \in AnswerSteps
  BY <1>1 DEF AnswerSteps
<1>5. hops[hop] \notin {"tcp", "ssh", "sshtunnel", "none"} /\ (hop > 1 => hops[hop] # "sshproxy")
  BY <1>4 DEF ChainTypes
<1>6. HopTypesOK'
  BY <1>1, <1>3, <1>4, <1>5, WaitsTypes
<1> QED BY <1>2, <1>6

\* So does an answer that is read.
LEMMA ReplyTypes ==
  ASSUME ChainTypes, Reply, hops' = hops, numeric' = numeric
  PROVE  WireTypes' /\ HopTypesOK'
<1>1. step \in AnswerSteps /\ step # "end" /\ Dest' = Dest /\ UNCHANGED <<route, stray>>
  BY DEF Reply, HttpsReply, HttpsHeaders, Socks4Reply, Socks5Reply, Socks5Address, AnswerSteps, Dest
<1>2. hops[hop] \notin {"tcp", "ssh", "sshtunnel", "none"} /\ (hop > 1 => hops[hop] # "sshproxy")
  BY <1>1 DEF ChainTypes
<1>3. upset \in Upsets /\ Late \in Upsets /\ \A n : Short(n) \in Upsets
  BY NotesAre
<1>4. (\E n \in Nat \ {0} : Bytes(n)) \/ NoBytes \/ Line \/ NoLine
  <2>1. \A n \in {1, 2, 3, 4, 8} : n \in Nat \ {0}
    OBVIOUS
  <2>2. (\E n \in {1, 2, 3, 4, 8} : Bytes(n)) \/ NoBytes \/ Line \/ NoLine
    BY DEF Reply, HttpsReply, HttpsHeaders, Socks4Reply, Socks5Reply, Socks5Address, PortBytes
  <2> QED BY <2>1, <2>2
<1>5. WireTypes'
  <2>1. arrived' \in Seq(Pieces) /\ coming' = coming /\ hungUp' = hungUp
    BY <1>4, ReadTypes
  <2> QED BY <1>1, <2>1 DEF WireTypes, ChainTypes
<1>6. \/ \E next \in AnswerSteps, notes \in Upsets : Waits(next, notes)
      \/ \E ok \in BOOLEAN, notes \in Upsets : Returned(ok, notes)
  <2>1. {"headers", "rest", "type", "address", "length", "name", "port"} \subseteq AnswerSteps
    BY DEF AnswerSteps
  <2>2. CASE HttpsReply
    <3>1. (IF LineIs = "200" THEN "headers" ELSE "rest") \in AnswerSteps
      BY <2>1
    <3> QED BY <1>3, <2>2, <3>1 DEF HttpsReply
  <2>3. CASE HttpsHeaders
    <3>1. (step = "headers") \in BOOLEAN
      OBVIOUS
    <3> QED BY <1>1, <1>3, <2>3, <3>1 DEF HttpsHeaders
  <2>4. CASE Socks4Reply
    <3>1. (Whole(8) /\ IsByte(1, "0") /\ IsByte(2, "Z")) \in BOOLEAN
      OBVIOUS
    <3> QED BY <1>3, <2>4, <3>1 DEF Socks4Reply
  <2>5. CASE Socks5Reply
    BY <1>3, <2>1, <2>5 DEF Socks5Reply
  <2>6. CASE Socks5Address
    <3>1. (IF IsByte(1, "ip") THEN "address" ELSE "length") \in AnswerSteps
      BY <2>1
    <3> QED BY <1>3, <2>1, <2>6, <3>1 DEF Socks5Address
  <2> QED BY <2>2, <2>3, <2>4, <2>5, <2>6 DEF Reply
<1>7. HopTypesOK'
  <2>1. ASSUME NEW next \in AnswerSteps, NEW notes \in Upsets, Waits(next, notes) PROVE HopTypesOK'
    BY <1>1, <1>2, <2>1, WaitsTypes
  <2>2. ASSUME NEW ok \in BOOLEAN, NEW notes \in Upsets, Returned(ok, notes) PROVE HopTypesOK'
    BY <1>1, <2>2, ReturnedTypes
  <2> QED BY <1>6, <2>1, <2>2
<1> QED BY <1>5, <1>7

\* Pieces may be put together in any order.
LEMMA PieceRegroup == \A s, t, u \in Seq(Pieces) : (s \o t) \o u = s \o (t \o u)
  BY ConcatAssociative

\* What arrives moves from what is on its way, and all that is to be read stays.
LEMMA ArriveMoves ==
  ASSUME ChainTypes, Arrive
  PROVE  arrived' \in Seq(Pieces) /\ coming' \in Seq(Pieces) /\ Stream' = Stream
<1>1. coming \in Seq(Pieces) /\ arrived \in Seq(Pieces) /\ coming # <<>>
  BY DEF ChainTypes, Arrive
<1>2. Len(coming) \in Nat /\ Len(coming) > 0
  BY <1>1, EmptySeq, LenProperties
<1>3. PICK n \in {1, Len(coming)} :
        arrived' = arrived \o SubSeq(coming, 1, n) /\ coming' = SubSeq(coming, n + 1, Len(coming))
  BY DEF Arrive
<1>4. n \in 0..Len(coming) /\ n \in Nat
  BY <1>2
<1>5. PICK a, c, s, t : a = arrived /\ c = coming /\ s = SubSeq(coming, 1, n) /\ t = SubSeq(coming, n + 1, Len(coming))
  OBVIOUS
<1>6. s \in Seq(Pieces) /\ t \in Seq(Pieces)
  BY <1>1, <1>2, <1>4, <1>5
<1>7. s \o t = c
  <2>1. SubSeq(coming, 1, n) \o SubSeq(coming, n + 1, Len(coming)) = SubSeq(coming, 1, Len(coming))
    BY <1>1, <1>4, TwoParts
  <2>2. SubSeq(coming, 1, Len(coming)) = coming
    BY <1>1
  <2> QED BY <1>5, <2>1, <2>2
<1>8. a \o s \in Seq(Pieces)
  BY <1>1, <1>5, <1>6, Behind
<1>9. (a \o s) \o t = a \o (s \o t)
  BY <1>1, <1>5, <1>6, PieceRegroup
<1>10. arrived' = a \o s /\ coming' = t
  BY <1>3, <1>5
<1>11. Stream' = Stream
  BY <1>5, <1>7, <1>9, <1>10 DEF Stream
<1> QED BY <1>6, <1>8, <1>10, <1>11

\* Every step keeps the types.
LEMMA TypesKept == ChainTypes /\ ChainNext => ChainTypes'
<1> SUFFICES ASSUME ChainTypes, ChainNext PROVE ChainTypes'
  OBVIOUS
<1>1. ASSUME hops' = hops, numeric' = numeric, WireTypes', HopTypesOK' PROVE ChainTypes'
  BY <1>1 DEF ChainTypes, WireTypes, HopTypesOK, Upsets
<1>2. CASE STREAMProcessConnectHops
  <2>1. hops' = hops /\ numeric' = numeric
    BY <1>2 DEF STREAMProcessConnectHops
  <2>2. WireTypes' /\ HopTypesOK'
    BY <1>2, <2>1, StartTypes, LoginTypes, RequestTypes, ReplyTypes DEF STREAMProcessConnectHops
  <2> QED BY <1>1, <2>1, <2>2
<1>3. CASE Arrive
  <2>1. arrived' \in Seq(Pieces) /\ coming' \in Seq(Pieces)
    BY <1>3, ArriveMoves
  <2>2. UNCHANGED <<hops, numeric, hop, step, through, route, hungUp, stray, upset>>
    BY <1>3 DEF Arrive
  <2>3. WireTypes' /\ HopTypesOK'
    BY <2>1, <2>2 DEF ChainTypes, WireTypes, HopTypesOK, Dest, Upsets, Speaks
  <2> QED BY <1>1, <2>2, <2>3
<1> QED BY <1>2, <1>3 DEF ChainNext

-----------------------------------------------------------------------------
(* What is left to be read at each step                                    *)

\* The hops stay what they were.
LEMMA Steady ==
  ASSUME hops' = hops
  PROVE  /\ Dest' = Dest /\ Language' = Speaks(hop')
         /\ \A k : Stop(k)' = Stop(k) /\ Upto(k)' = Upto(k) /\ Speaks(k)' = Speaks(k)
<1>1. Dest' = Dest
  BY DEF Dest
<1>2. \A k : Stop(k)' = Stop(k)
  BY <1>1 DEF Stop
<1>3. \A k : Upto(k)' = Upto(k)
  BY DEF Upto
<1>4. \A k : Speaks(k)' = Speaks(k)
  BY DEF Speaks
<1>5. Language' = Speaks(hop')
  BY DEF Language, Speaks
<1> QED BY <1>1, <1>2, <1>3, <1>4, <1>5

\* The place of a step is all that its state must be.
LEMMA PlacedIs ==
  /\ step' \in {"start", "end"} /\ AtStart' => Placed'
  /\ step' \in LoginSteps /\ AtLogin' => Placed'
  /\ step' = "ask" /\ AtAsk' => Placed'
  /\ step' = "reply" /\ AtReply' => Placed'
  /\ step' = "headers" /\ AtHeaders' => Placed'
  /\ step' = "rest" /\ AtRest' => Placed'
  /\ step' \in {"type", "length", "address", "name", "port"} /\ AtAddress' => Placed'
  BY DEF Placed, LoginSteps

\* What is clear was clear.
LEMMA ClearBefore ==
  ASSUME hops' = hops, upset \subseteq upset', Clear(upset)'
  PROVE  Clear(upset)
<1>1. upset' \cap {"late", "short", "blind"} = {} /\ (\A k \in DOMAIN hops : hops[k] # "none")
  BY DEF Clear
<1>2. ASSUME "failed" \in upset
      PROVE  \A k \in DOMAIN hops : k > 1 => hops[k] \notin {"tcp", "socks5", "socks5 login"}
  <2>1. "failed" \in upset'
    BY <1>2
  <2> QED BY <2>1 DEF Clear
<1>3. upset \cap {"late", "short", "blind"} = {}
  BY <1>1
<1> QED BY <1>1, <1>2, <1>3 DEF Clear

\* What is left of an answer, when some of it is read.
LEMMA LeftAfter ==
  ASSUME NEW s, NEW t, NEW m \in Nat, NEW n \in Nat, NEW k, Dropped(s, t, m), Left(s, m + n, k), Dest \in Nat
  PROVE  Left(t, n, k)
<1>1. Len(s) \in Nat /\ Len(t) \in Nat /\ Len(s) = m + Len(t)
  BY DEF Dropped
<1>2. CASE Stop(k) = Dest
  <2>1. Len(s) = (m + n) + 1 /\ s[(m + n) + 1] = [by |-> Dest, is |-> "data"]
    BY <1>2 DEF Left
  <2>2. Len(t) = n + 1 /\ n + 1 \in 1..Len(t) /\ m + (n + 1) = (m + n) + 1
    BY <1>1, <2>1
  <2>3. t[n + 1] = s[m + (n + 1)]
    BY <2>2 DEF Dropped
  <2> QED BY <1>2, <2>1, <2>2, <2>3 DEF Left
<1>3. CASE Stop(k) # Dest
  <2>1. Len(s) = (m + n) + 0
    BY <1>3 DEF Left
  <2>2. Len(t) = n + 0
    BY <1>1, <2>1
  <2> QED BY <1>3, <2>2 DEF Left
<1> QED BY <1>2, <1>3

\* The rest of an answer stays one when some of it is read.
LEMMA StaleAfter ==
  ASSUME NEW s \in Seq(Pieces), NEW t, NEW m \in Nat, Dropped(s, t, m), Stale(s)
  PROVE  Stale(t) /\ (s = <<>> => t = <<>>)
<1>1. Len(s) \in Nat /\ Len(t) \in Nat /\ Len(s) = m + Len(t) /\ t \in Seq(Pieces) /\ DOMAIN s = 1..Len(s) /\ DOMAIN t = 1..Len(t)
  BY DEF Dropped
<1>2. ASSUME NEW i \in 1..Len(t) PROVE t[i].is \in RestWords
  <2>1. t[i] = s[m + i]
    BY DEF Dropped
  <2>2. m + i \in 1..Len(s)
    BY <1>1
  <2>3. s[m + i].is \in RestWords
    BY <1>1, <2>2 DEF Stale
  <2> QED BY <2>1, <2>3
<1>3. s = <<>> => t = <<>>
  <2>1. s = <<>> => Len(s) = 0
    OBVIOUS
  <2>3. Len(t) \in Nat /\ Len(s) = m + Len(t)
    BY <1>1
  <2>2. Len(s) = 0 => Len(t) = 0
    BY <2>3
  <2> QED BY <1>1, <2>1, <2>2, EmptySeq
<1> QED BY <1>1, <1>2, <1>3 DEF Stale

\* How a hop may end: the next host is reached, or what is left will be believed by no later hop.
EndsBadly == Stale(Stream') /\ (Stream' # <<>> => Speaks(Far') = "socks5")

\* When a hop is done with, the next one begins where the route ends.
LEMMA ReturnsPlaced ==
  ASSUME ChainTypes, step # "end", hops' = hops, NEW ok \in BOOLEAN, NEW notes, Returned(ok, notes),
         IF ok THEN Far' = Stop(hop + 1) /\ ("failed" \notin upset' => route' = Upto(Stop(hop + 1))) /\ Left(Stream', 0, hop + 1)
         ELSE EndsBadly
  PROVE  Placed'
<1>1. /\ hop' = hop + 1 /\ hop' # 1 /\ step' \in {"start", "end"} /\ through' = ok
      /\ (~ok => "failed" \in upset')
  BY HopIs DEF Returned
<1>2. Dest' = Dest /\ \A k : Stop(k)' = Stop(k) /\ Upto(k)' = Upto(k) /\ Speaks(k)' = Speaks(k)
  BY Steady
<1>3. CASE ok
  <2>1. FarIs(hop)'
    BY <1>1, <1>2, <1>3 DEF FarIs
  <2>2. Left(Stream, 0, hop)'
    BY <1>1, <1>2, <1>3 DEF Left
  <2> QED BY <1>1, <1>3, <2>1, <2>2, PlacedIs DEF AtStart
<1>4. CASE ~ok
  <2>1. Spoilt'
    BY <1>1, <1>2, <1>4 DEF Spoilt, EndsBadly, Stale
  <2> QED BY <1>1, <1>4, <2>1, PlacedIs DEF AtStart
<1> QED BY <1>3, <1>4

\* What has been dialled is reached.
LEMMA DialPlaced ==
  ASSUME ChainTypes, step = "start", IsFirst, NEW puts \in BOOLEAN, Dial(1, puts), arrived' = arrived,
         Stream = <<>>, Clear(upset)', NEW far, far = (IF puts THEN Stop(2) ELSE Stop(1))
  PROVE  /\ upset' = upset /\ route' = Upto(far) /\ Far' = far
         /\ Len(Stream') = (IF far = Dest THEN 1 ELSE 0)
         /\ far = Dest => Stream'[1] = [by |-> Dest, is |-> "data"]
         /\ Stream' \in Seq(Pieces)
<1>1. upset' \cap {"blind"} = {}
  BY DEF Clear
<1>2. upset' = upset
  BY <1>1, DialTypes
<1>3. PICK path \in Seq(1..Dest) :
        /\ path # <<>> /\ route' = path /\ coming' = coming \o Greeting(path)
        /\ Last(path) = far /\ path = Upto(far)
  BY <1>1, DialTypes
<1>4. arrived = <<>> /\ coming = <<>>
  <2>1. arrived \in Seq(Pieces) /\ coming \in Seq(Pieces)
    BY DEF ChainTypes
  <2>2. IsJoin(Stream, arrived, coming)
    BY <2>1, Behind DEF Stream
  <2>3. Len(Stream) = 0 /\ Len(arrived) \in Nat /\ Len(coming) \in Nat /\ Len(Stream) = Len(arrived) + Len(coming)
    BY <2>2 DEF IsJoin
  <2>4. Len(arrived) = 0 /\ Len(coming) = 0
    BY <2>3
  <2> QED BY <2>1, <2>4, EmptySeq
<1>5. PICK g : g = Greeting(path)
  OBVIOUS
<1>6. /\ g \in Seq(Pieces) /\ Len(g) = (IF far = Dest THEN 1 ELSE 0)
      /\ far = Dest => g[1] = [by |-> Dest, is |-> "data"]
  BY <1>3, <1>5, GreetingIs
<1>7. Stream' = g
  <2>1. <<>> \o g = g
    BY <1>6, ConcatEmptySeq
  <2>2. arrived' = <<>> /\ coming' = <<>> \o g
    BY <1>3, <1>4, <1>5
  <2> QED BY <2>1, <2>2 DEF Stream
<1>8. Far' = far
  BY <1>3 DEF Far
<1> QED BY <1>2, <1>3, <1>6, <1>7, <1>8

\* A hop that is begun reaches the next, or is asked for it.
LEMMA StartPlaced ==
  ASSUME ChainTypes, Placed, Clear(upset)', StartHop, hops' = hops, upset \subseteq upset'
  PROVE  Placed'
<1>1. step = "start" /\ step # "end" /\ AtStart
  BY DEF StartHop, Placed
<1>2. /\ hop \in 1..Len(hops) /\ hop \in DOMAIN hops /\ hop + 1 \in 1..Dest /\ hop \in 1..Dest /\ hop # Dest
      /\ Dest = Len(hops) + 1 /\ Dest \in Nat
  BY <1>1, HopIs
<1>3. Dest' = Dest /\ \A k : Stop(k)' = Stop(k) /\ Upto(k)' = Upto(k) /\ Speaks(k)' = Speaks(k)
  BY Steady
<1>4. Clear(upset)
  BY ClearBefore
<1>5. ASSUME Fresh PROVE Stream' = Stream /\ Far' = Far /\ route' = route
  BY <1>5 DEF Fresh, Stream, Far
<1>6. hops[hop] # "tcp" => Stop(hop) = hop
  BY <1>2, StopIs
<1>7. hops[hop] = "tcp" => Stop(hop) = Stop(hop + 1)
  BY <1>2, StopIs
<1>8. Stream \in Seq(Pieces)
  BY Behind DEF ChainTypes, Stream
<1>9. CASE hop = 1
  <2>1. route = <<>> /\ Stream = <<>> /\ Far = 0
    BY <1>1, <1>9 DEF AtStart, Far
  <2>2. CASE CannotConnect
    <3>1. Returned(FALSE, upset) /\ Fresh
      BY <2>2 DEF CannotConnect
    <3>2. EndsBadly
      BY <1>5, <2>1, <3>1 DEF EndsBadly, Stale
    <3> QED BY <1>1, <3>1, <3>2, ReturnsPlaced
  <2>3. ASSUME NEW puts \in BOOLEAN, Dial(1, puts), UNCHANGED <<arrived, stray>>,
               through' = TRUE, hop' = 2, step' = (IF Len(hops) = 1 THEN "end" ELSE "start"),
               (IF puts THEN Stop(2) ELSE Stop(1)) = Stop(2)
        PROVE  Placed'
    <3>1. PICK far : far = IF puts THEN Stop(2) ELSE Stop(1)
      OBVIOUS
    <3>2. /\ upset' = upset /\ route' = Upto(far) /\ Far' = far
          /\ Len(Stream') = (IF far = Dest THEN 1 ELSE 0)
          /\ far = Dest => Stream'[1] = [by |-> Dest, is |-> "data"]
      BY <1>1, <1>9, <2>1, <2>3, <3>1, DialPlaced DEF IsFirst
    <3>3. far = Stop(2)
      BY <2>3, <3>1
    <3>4. FarIs(hop)'
      BY <1>3, <2>3, <3>2, <3>3 DEF FarIs
    <3>5. Left(Stream, 0, hop)'
      <4>1. Stop(hop)' = far
        BY <1>3, <2>3, <3>3
      <4> QED BY <1>3, <3>2, <4>1 DEF Left
    <3>6. hop' # 1 /\ through' /\ step' \in {"start", "end"}
      BY <2>3
    <3> QED BY <3>4, <3>5, <3>6, PlacedIs DEF AtStart
  <2>4. CASE HopTcp
    <3>1. CASE IsFirst /\ Dial(1, FALSE)
      BY <1>7, <1>9, <2>3, <2>4, <3>1, <2>2, 1 + 1 = 2 DEF HopTcp
    <3>2. CASE ~(IsFirst /\ Dial(1, FALSE))
      BY <1>9, <2>2, <2>4, <3>2 DEF HopTcp, IsFirst
    <3> QED BY <3>1, <3>2
  <2>5. CASE HopSsh
    <3>1. CASE IsFirst /\ Dial(1, TRUE)
      BY <1>9, <2>3, <2>5, <3>1, <2>2 DEF HopSsh
    <3>2. CASE ~(IsFirst /\ Dial(1, TRUE))
      BY <1>9, <2>2, <2>5, <3>2 DEF HopSsh, IsFirst
    <3> QED BY <3>1, <3>2
  <2>6. CASE Connects /\ ~CannotConnect
    <3>1. /\ IsFirst /\ Dial(1, FALSE) /\ UNCHANGED <<hop, through, arrived, stray>>
          /\ step' = (IF Speaks(1) = "socks5" THEN "login" ELSE "ask") /\ hops[hop] # "tcp"
      BY <2>6 DEF Connects
    <3>2. Stop(1) = 1 /\ 1 # Dest
      BY <1>2, <1>6, <1>9, <3>1
    <3>3. upset' = upset /\ route' = Upto(1) /\ Len(Stream') = 0 /\ Stream' \in Seq(Pieces)
      <4>1. PICK far : far = IF FALSE THEN Stop(2) ELSE Stop(1)
        OBVIOUS
      <4>2. far = 1
        BY <3>2, <4>1
      <4>3. upset' = upset /\ route' = Upto(far) /\ Len(Stream') = (IF far = Dest THEN 1 ELSE 0) /\ Stream' \in Seq(Pieces)
        BY <1>1, <2>1, <3>1, <4>1, DialPlaced
      <4> QED BY <3>2, <4>2, <4>3
    <3>4. Stream' = <<>>
      BY <3>3, EmptySeq
    <3>5. Upto(1) = <<1>>
      <4>1. Upto(1) \in Seq(Nat) /\ <<1>> \in Seq(Nat) /\ Len(Upto(1)) = 1 /\ Len(<<1>>) = 1 /\ Upto(1)[1] = 1 /\ <<1>>[1] = 1
        BY DEF Upto
      <4> QED BY <4>1, SeqEqual
    <3>6. CASE Speaks(1) = "socks5"
      <4>1. step' = "login" /\ hop' = 1 /\ route' = <<1>> /\ Len(Stream') \in {0}
        BY <1>9, <3>1, <3>3, <3>5, <3>6
      <4>2. AtLogin'
        BY <4>1 DEF AtLogin
      <4> QED BY <4>1, <4>2, PlacedIs DEF LoginSteps
    <3>7. CASE Speaks(1) # "socks5"
      <4>1. step' = "ask" /\ hop' = 1
        BY <1>9, <3>1, <3>7
      <4>2. AtAsk'
        BY <1>3, <3>3, <3>4, <4>1 DEF AtAsk
      <4> QED BY <4>1, <4>2, PlacedIs
    <3> QED BY <3>6, <3>7
  <2>7. CASE Unknown
    BY <1>2, <1>4, <2>7 DEF Unknown, Clear
  <2> QED BY <1>9, <2>2, <2>4, <2>5, <2>6, <2>7 DEF StartHop, SshProxyBehind, IsFirst
<1>10. CASE hop # 1
  <2>1. (through /\ FarIs(hop) /\ Left(Stream, 0, hop)) \/ (~through /\ Spoilt)
    BY <1>1, <1>10 DEF AtStart
  <2>2. hops[hop] # "tcp" /\ through => Stream = <<>> /\ Far = hop /\ ("failed" \notin upset => route = Upto(hop))
    <3> SUFFICES ASSUME hops[hop] # "tcp", through
                 PROVE  Stream = <<>> /\ Far = hop /\ ("failed" \notin upset => route = Upto(hop))
      OBVIOUS
    <3>1. Stop(hop) = hop /\ Len(Stream) = 0
      BY <1>2, <1>6, <2>1 DEF Left
    <3> QED BY <1>8, <2>1, <3>1, EmptySeq DEF FarIs
  <2>3. ASSUME Returned(FALSE, upset), Fresh, hops[hop] # "tcp" PROVE Placed'
    <3>1. EndsBadly
      <4>1. CASE through
        BY <1>5, <2>2, <2>3, <4>1 DEF EndsBadly, Stale
      <4>2. CASE ~through
        BY <1>5, <2>1, <2>3, <4>2 DEF EndsBadly, Spoilt
      <4> QED BY <4>1, <4>2
    <3> QED BY <1>1, <2>3, <3>1, ReturnsPlaced
  <2>4. CASE HopTcp
    <3>1. Returned(TRUE, upset) /\ Fresh /\ hops[hop] = "tcp"
      BY <1>10, <2>4 DEF HopTcp, IsFirst, CannotConnect
    <3>2. through
      <4> SUFFICES ASSUME ~through PROVE FALSE
        OBVIOUS
      <4>1. "failed" \in upset /\ hop > 1
        BY <1>2, <1>10, <2>1 DEF Spoilt
      <4> QED BY <1>2, <1>4, <3>1, <4>1 DEF Clear
    <3>3. upset' = upset
      BY <3>1 DEF Returned
    <3>4. Far' = Stop(hop + 1) /\ ("failed" \notin upset' => route' = Upto(Stop(hop + 1))) /\ Left(Stream', 0, hop + 1)
      BY <1>5, <1>7, <2>1, <3>1, <3>2, <3>3 DEF FarIs, Left
    <3> QED BY <1>1, <3>1, <3>4, ReturnsPlaced
  <2>5. CASE HopSsh
    BY <1>10, <2>3, <2>5 DEF HopSsh, IsFirst, CannotConnect
  <2>6. CASE SshProxyBehind
    BY <2>3, <2>6 DEF SshProxyBehind
  <2>7. CASE Unknown
    BY <1>2, <1>4, <2>7 DEF Unknown, Clear
  <2>8. CASE /\ ~IsFirst /\ hops[hop] \in {"https", "socks4", "socks5", "socks5 login"}
             /\ Waits("ask", upset) /\ Fresh
    <3>1. step' = "ask" /\ upset' = upset /\ hop' = hop /\ hops[hop] # "tcp" /\ Stream' = Stream /\ Far' = Far /\ route' = route
      BY <1>5, <2>8 DEF Waits
    <3>2. hop' > 1
      BY <1>2, <1>10, <3>1
    <3>3. AtAsk'
      <4>1. CASE through
        BY <1>3, <2>2, <3>1, <4>1 DEF AtAsk
      <4>2. CASE ~through
        <5>1. Spoilt'
          BY <1>3, <2>1, <3>1, <4>2 DEF Spoilt, Stale
        <5> QED BY <3>2, <5>1 DEF AtAsk
      <4> QED BY <4>1, <4>2
    <3> QED BY <3>1, <3>3, PlacedIs
  <2>9. ~Connects
    BY <1>10 DEF Connects, IsFirst
  <2> QED BY <2>4, <2>5, <2>6, <2>7, <2>8, <2>9 DEF StartHop
<1> QED BY <1>9, <1>10

\* What did not go wrong afterwards did not before.
LEMMA ClearAfter ==
  ASSUME hops' = hops, Clear(upset)'
  PROVE  Clear(upset')
  BY DEF Clear

\* All that was sent and not read is pieces, those that arrived first.
LEMMA StreamIs ==
  ASSUME ChainTypes
  PROVE  /\ Stream \in Seq(Pieces) /\ Len(Stream) \in Nat /\ (Stream = <<>> <=> Len(Stream) = 0)
         /\ ArrivedFirst /\ arrived \in Seq(Pieces) /\ coming \in Seq(Pieces)
         /\ Stream = <<>> => arrived = <<>> /\ coming = <<>>
<1>1. arrived \in Seq(Pieces) /\ coming \in Seq(Pieces)
  BY DEF ChainTypes
<1>2. ArrivedFirst
  BY <1>1, ArrivedIs
<1>3. Stream = <<>> => arrived = <<>> /\ coming = <<>>
  <2>1. IsJoin(Stream, arrived, coming)
    BY <1>1, Behind DEF Stream
  <2>2. Len(arrived) \in Nat /\ Len(coming) \in Nat /\ Len(Stream) = Len(arrived) + Len(coming)
    BY <2>1 DEF IsJoin
  <2>4. \A a, b \in Nat : a + b = 0 => a = 0 /\ b = 0
    OBVIOUS
  <2>3. Len(Stream) = 0 => Len(arrived) = 0 /\ Len(coming) = 0
    BY <2>2, <2>4
  <2> QED BY <1>1, <1>2, <2>3, EmptySeq DEF ArrivedFirst
<1> QED BY <1>1, <1>2, <1>3 DEF ArrivedFirst

\* The route to the first hop is that hop.
LEMMA UptoOne == Upto(1) = <<1>>
<1>1. Upto(1) \in Seq(Nat) /\ <<1>> \in Seq(Nat) /\ Len(Upto(1)) = 1 /\ Len(<<1>>) = 1 /\ Upto(1)[1] = 1 /\ <<1>>[1] = 1
  BY DEF Upto
<1> QED BY <1>1, SeqEqual

\* A login to a SOCKS5 server leaves the walk at the first hop.
LEMMA LoginPlaced ==
  ASSUME ChainTypes, Placed, Clear(upset)', Login, hops' = hops
  PROVE  Placed'
<1>1. step \in LoginSteps /\ step # "end" /\ hop = 1 /\ route = <<1>>
      /\ Len(Stream) \in (IF step \in {"method", "password"} THEN {0, 2} ELSE {0})
  <2>1. step \in LoginSteps /\ step # "end"
    BY DEF Login, LoginSteps
  <2> QED BY <2>1 DEF Placed, AtLogin
<1>2. /\ Stream \in Seq(Pieces) /\ (Stream = <<>> <=> Len(Stream) = 0)
      /\ ArrivedFirst /\ arrived \in Seq(Pieces) /\ coming \in Seq(Pieces)
      /\ Stream = <<>> => arrived = <<>> /\ coming = <<>>
  BY StreamIs
<1>3. Dest' = Dest /\ \A k : Stop(k)' = Stop(k) /\ Upto(k)' = Upto(k) /\ Speaks(k)' = Speaks(k)
  BY Steady
<1>4. Clear(upset')
  BY ClearAfter
<1>5. ASSUME NEW method \in BOOLEAN, AskLogin(method), UNCHANGED arrived, Len(Stream) = 0
      PROVE  route' = route /\ Len(Stream') \in {0, 2}
  <2>1. route' = route
    BY <1>5 DEF AskLogin
  <2>2. CASE hungUp \/ Speaks(Far) # "socks5"
    <3>1. Stream' = Stream
      BY <1>5, <2>2 DEF AskLogin, Stream
    <3> QED BY <1>5, <2>1, <3>1
  <2>3. CASE ~(hungUp \/ Speaks(Far) # "socks5")
    <3>1. PICK ok \in BOOLEAN :
            /\ coming' = coming \o Sent(Far, <<IF method THEN "5" ELSE "1",
                                 IF ~ok THEN "255" ELSE IF method /\ hops[hop] = "socks5 login" THEN "2" ELSE "0">>)
            /\ hungUp' = ~ok
      BY <1>5, <2>3 DEF AskLogin
    <3>2. PICK a, b : a = (IF method THEN "5" ELSE "1") /\ b = (IF ~ok THEN "255" ELSE IF method /\ hops[hop] = "socks5 login" THEN "2" ELSE "0")
      OBVIOUS
    <3>3. a \in PieceWords /\ b \in PieceWords
      BY <3>2 DEF PieceWords, RestWords
    <3>4. PICK w : w = <<a, b>>
      OBVIOUS
    <3>5. w \in Seq(PieceWords) /\ Len(w) = 2
      BY <3>3, <3>4
    <3>6. PICK s : s = Sent(Far, w)
      OBVIOUS
    <3>7. s \in Seq(Pieces) /\ Len(s) = 2
      BY <3>5, <3>6, FarNat, SentIs DEF IsSent
    <3>8. w = <<IF method THEN "5" ELSE "1",
                IF ~ok THEN "255" ELSE IF method /\ hops[hop] = "socks5 login" THEN "2" ELSE "0">>
      BY <3>2, <3>4, Zenon
    <3>9. coming' = coming \o s
      BY <3>1, <3>6, <3>8
    <3>10. arrived' = <<>> /\ coming' = <<>> \o s
      BY <1>2, <1>5, <3>9
    <3>11. <<>> \o s = s
      BY <3>7, ConcatEmptySeq
    <3>12. Stream' = s
      BY <3>10, <3>11 DEF Stream
    <3> QED BY <2>1, <3>7, <3>12
  <2> QED BY <2>2, <2>3
<1>6. CASE step \in {"login", "say password"}
  <2>1. PICK method \in BOOLEAN, next \in {"method", "password"} : AskLogin(method) /\ Waits(next, upset) /\ UNCHANGED arrived
    BY <1>6 DEF Login
  <2>2. Len(Stream) = 0
    BY <1>1, <1>6
  <2>3. route' = route /\ Len(Stream') \in {0, 2}
    BY <1>5, <2>1, <2>2
  <2>4. step' \in {"method", "password"} /\ hop' = hop
    BY <2>1 DEF Waits
  <2>5. AtLogin'
    BY <1>1, <2>3, <2>4 DEF AtLogin
  <2>6. step' \in LoginSteps
    BY <2>4 DEF LoginSteps
  <2> QED BY <2>5, <2>6, PlacedIs
<1>7. CASE step \in {"method", "password"}
  <2>1. Len(Stream) \in {0, 2} /\ UNCHANGED <<route, stray>>
    BY <1>1, <1>7 DEF Login
  <2>2. Far' = Far
    BY <2>1 DEF Far
  <2>3. ASSUME Bytes(10), Len(arrived) >= 2 PROVE Stream' = <<>>
    <3>1. PICK m \in 1..10 : /\ IsRead(m) /\ (Whole(10) => m = 10) /\ (~Whole(10) => m = Len(arrived))
                             /\ m <= Len(arrived) /\ Len(arrived) \in Nat
      <4>1. 10 \in Nat \ {0}
        OBVIOUS
      <4> QED BY <1>2, <2>3, <4>1, BytesMoves
    <3>2. Len(arrived) <= Len(Stream) /\ Len(arrived) \in Nat
      BY <1>2 DEF ArrivedFirst
    <3>3. Len(arrived) = 2 /\ Len(Stream) = 2
      <4>1. \A a \in Nat, b \in {0, 2} : a <= b /\ a >= 2 => a = 2 /\ b = 2
        OBVIOUS
      <4> QED BY <2>1, <2>3, <3>2, <4>1
    <3>4. ~Whole(10)
      BY <3>3 DEF Whole
    <3>5. m = 2
      BY <3>1, <3>3, <3>4
    <3>6. Stream' \in Seq(Pieces) /\ Len(Stream') \in Nat /\ Len(Stream) = m + Len(Stream')
      BY <3>1 DEF IsRead, Dropped
    <3>7. Len(Stream') = 0
      <4>1. \A a \in Nat : 2 = 2 + a => a = 0
        OBVIOUS
      <4>2. 2 = 2 + Len(Stream') /\ Len(Stream') \in Nat
        BY <3>3, <3>5, <3>6
      <4> QED BY <4>1, <4>2
    <3> QED BY <3>6, <3>7, EmptySeq
  <2>4. ASSUME Bytes(10), Len(arrived) >= 2, Waits("ask", upset) PROVE Placed'
    <3>1. step' = "ask" /\ hop' = 1 /\ upset' = upset
      BY <1>1, <2>4 DEF Waits
    <3>2. AtAsk'
      BY <1>1, <1>3, <2>1, <2>3, <2>4, <3>1, UptoOne DEF AtAsk
    <3> QED BY <3>1, <3>2, PlacedIs
  <2>5. ASSUME Bytes(10), Returned(FALSE, Short(2)) PROVE Placed'
    <3>1. Short(2) \subseteq upset'
      BY <2>5 DEF Returned
    <3>2. Whole(2)
      BY <1>4, <3>1 DEF Short, Clear
    <3>3. Stream' = <<>>
      BY <2>3, <2>5, <3>2 DEF Whole
    <3>4. EndsBadly
      BY <3>3 DEF EndsBadly, Stale
    <3> QED BY <1>1, <2>5, <3>4, ReturnsPlaced
  <2>6. ASSUME NoBytes, Returned(FALSE, Late) PROVE Placed'
    <3>1. Late \subseteq upset'
      BY <2>6 DEF Returned
    <3>2. Stream' = <<>>
      BY <1>2, <1>4, <2>6, <3>1, NoBytesIs
    <3>3. EndsBadly
      BY <3>2 DEF EndsBadly, Stale
    <3> QED BY <1>1, <2>6, <3>3, ReturnsPlaced
  <2>7. CASE step = "method" /\ Waits("say password", upset)
    <3>1. Bytes(10) /\ Whole(2)
      BY <2>7 DEF Login, Waits, Returned
    <3>2. Stream' = <<>>
      BY <2>3, <3>1 DEF Whole
    <3>3. step' = "say password" /\ hop' = 1
      BY <1>1, <2>7 DEF Waits
    <3>4. AtLogin'
      BY <1>1, <2>1, <3>2, <3>3 DEF AtLogin
    <3> QED BY <3>3, <3>4, PlacedIs DEF LoginSteps
  <2>8. ASSUME IsByte(2, "0") PROVE Len(arrived) >= 2
    BY <1>2, <2>8 DEF IsByte, ArrivedFirst
  <2>9. CASE step = "method" /\ ~Waits("say password", upset)
    <3>1. \/ Bytes(10) /\ Whole(2) /\ Waits("ask", upset)
          \/ Bytes(10) /\ Returned(FALSE, Short(2))
          \/ NoBytes /\ Returned(FALSE, Late)
      BY <2>9 DEF Login
    <3> QED BY <2>4, <2>5, <2>6, <3>1 DEF Whole
  <2>10. CASE step = "password"
    <3>1. \/ Bytes(10) /\ IsByte(2, "0") /\ Waits("ask", upset)
          \/ Bytes(10) /\ Returned(FALSE, Short(2))
          \/ NoBytes /\ Returned(FALSE, Late)
      BY <2>10 DEF Login
    <3> QED BY <2>4, <2>5, <2>6, <2>8, <3>1
  <2> QED BY <1>7, <2>7, <2>9, <2>10
<1> QED BY <1>1, <1>6, <1>7 DEF LoginSteps

\* What is to be read of an answer.
LEMMA AnswerIs ==
  ASSUME ChainTypes, step = "ask", Stream = <<>>, arrived' = arrived,
         NEW ok \in BOOLEAN, NEW r \in Seq(PieceWords), Answered(ok, r)
  PROVE  /\ Stream' \in Seq(Pieces) /\ \A i \in 1..Len(r) : Stream'[i].is = r[i]
         /\ ok => Left(Stream', Len(r), hop + 1)
         /\ ~ok => Len(Stream') = Len(r)
         /\ Far' = (IF ok THEN Stop(hop + 1) ELSE Far)
<1>1. PICK s, l, g, n : s = Sent(Far, r) /\ l = Landing(hop + 1) /\ g = (IF ok THEN Greeting(l) ELSE <<>>) /\ n = Len(r)
  OBVIOUS
<1>2. hop + 1 \in 1..Dest
  BY HopIs
<1>3. s \in Seq(Pieces) /\ Len(s) \in Nat /\ Len(s) = n /\ \A i \in 1..n : s[i].is = r[i]
  <2>1. IsSent(s, r)
    BY <1>1, FarNat, SentIs
  <2> QED BY <1>1, <2>1 DEF IsSent
<1>4. l \in Seq(1..Dest) /\ l # <<>> /\ Last(l) = Stop(hop + 1)
  BY <1>1, <1>2, LandingIs
<1>5. /\ g \in Seq(Pieces) /\ Len(g) = (IF ok /\ Stop(hop + 1) = Dest THEN 1 ELSE 0)
      /\ ok /\ Stop(hop + 1) = Dest => g[1] = [by |-> Dest, is |-> "data"]
  <2>1. /\ Greeting(l) \in Seq(Pieces) /\ Len(Greeting(l)) = (IF Last(l) = Dest THEN 1 ELSE 0)
        /\ Last(l) = Dest => Greeting(l)[1] = [by |-> Dest, is |-> "data"]
    BY <1>4, GreetingIs
  <2>2. CASE ok
    BY <1>1, <1>4, <2>1, <2>2
  <2>3. CASE ~ok
    BY <1>1, <2>3
  <2> QED BY <2>2, <2>3
<1>6. PICK u : u = Stream'
  OBVIOUS
<1>7. u = s \o g
  <2>1. arrived' = <<>> /\ coming = <<>>
    BY StreamIs
  <2>2. <<>> \o s = s
    BY <1>3, ConcatEmptySeq
  <2>3. coming' = s \o g
    BY <1>1, <2>1, <2>2 DEF Answered
  <2>4. s \o g \in Seq(Pieces)
    BY <1>3, <1>5, Behind
  <2>5. <<>> \o (s \o g) = s \o g
    BY <2>4, ConcatEmptySeq
  <2> QED BY <1>6, <2>1, <2>3, <2>5 DEF Stream
<1>8. u \in Seq(Pieces) /\ IsJoin(u, s, g)
  BY <1>3, <1>5, <1>7, Behind
<1>9. \A i \in 1..n : u[i].is = r[i]
  BY <1>3, <1>8 DEF IsJoin
<1>10. Len(u) = n + Len(g) /\ n \in Nat /\ \A k \in 1..Len(g) : u[n + k] = g[k]
  BY <1>3, <1>8 DEF IsJoin
<1>11. ok => Left(u, n, hop + 1)
  <2> SUFFICES ASSUME ok PROVE Left(u, n, hop + 1)
    OBVIOUS
  <2>1. Stop(hop + 1) = Dest => u[n + 1] = [by |-> Dest, is |-> "data"]
    BY <1>5, <1>10
  <2>2. Len(u) = n + (IF Stop(hop + 1) = Dest THEN 1 ELSE 0)
    BY <1>5, <1>10
  <2> QED BY <2>1, <2>2 DEF Left
<1>12. ~ok => Len(u) = n
  BY <1>5, <1>10
<1>13. Far' = (IF ok THEN Stop(hop + 1) ELSE Far)
  <2>1. CASE ok
    <3>1. route' = route \o l
      BY <1>1, <2>1 DEF Answered
    <3>2. route \o l # <<>> /\ Last(route \o l) = Stop(hop + 1)
      BY <1>1, <1>2, LandingIs DEF ChainTypes
    <3> QED BY <2>1, <3>1, <3>2 DEF Far
  <2>2. CASE ~ok
    BY <2>2 DEF Answered, Far
  <2> QED BY <2>1, <2>2
<1> QED BY <1>1, <1>6, <1>8, <1>9, <1>11, <1>12, <1>13

\* A hop that is asked has the route behind it, or sends a refusal.
LEMMA RequestPlaced ==
  ASSUME ChainTypes, Placed, Clear(upset)', SendRequest, hops' = hops
  PROVE  Placed'
<1>1. /\ step = "ask" /\ step # "end" /\ step' = "reply" /\ hop' = hop /\ upset' = upset /\ Ask(Language)
      /\ arrived' = arrived /\ AtAsk
  BY DEF SendRequest, Waits, Placed
<1>2. Dest' = Dest /\ Language' = Speaks(hop') /\ \A k : Stop(k)' = Stop(k) /\ Upto(k)' = Upto(k) /\ Speaks(k)' = Speaks(k)
  BY Steady
<1>3. Language' = Language
  BY <1>1, <1>2 DEF Language
<1>4. /\ hop \in 1..Len(hops) /\ hop \in DOMAIN hops /\ hop + 1 \in 1..Dest /\ hop \in Nat
      /\ Language \in {"https", "socks4", "socks5"} /\ Language = Speaks(hop)
  BY <1>1, HopIs DEF AnswerSteps, Language
<1>5. SUFFICES AtReply'
  BY <1>1, PlacedIs
<1>6. CASE NotAsked
  <2>1. Stream' = Stream /\ Far' = Far
    BY <1>1, <1>6 DEF NotAsked, Stream, Far
  <2>2. CASE Stream = <<>>
    BY <2>1, <2>2 DEF AtReply, NoReplyYet
  <2>3. CASE Stream # <<>>
    <3>1. hop > 1 /\ Spoilt
      BY <1>1, <2>3 DEF AtAsk
    <3>2. hop' > 1 /\ Spoilt'
      BY <1>1, <1>2, <2>1, <3>1 DEF Spoilt, Stale
    <3> QED BY <3>2 DEF AtReply, NoReplyYet
  <2> QED BY <2>2, <2>3
<1>7. ASSUME NEW ok \in BOOLEAN, NEW r \in Seq(PieceWords), Answered(ok, r) PROVE AtReply'
  <2>1. Speaks(Far) = Language /\ IsReply(Language, ok, r) /\ (ok => ~(Language = "socks5" /\ hop > 1))
    BY <1>7 DEF Answered
  <2>2. Stream = <<>>
    <3> SUFFICES ASSUME Stream # <<>> PROVE FALSE
      OBVIOUS
    <3>1. hop > 1 /\ Spoilt /\ "failed" \in upset
      BY <1>1 DEF AtAsk, Spoilt
    <3>2. hops[hop] \notin {"tcp", "socks5", "socks5 login"}
      <4>1. "failed" \in upset' /\ DOMAIN hops' = DOMAIN hops
        BY <1>1, <3>1
      <4> QED BY <1>4, <3>1, <4>1 DEF Clear
    <3>3. Speaks(hop) = "socks5"
      BY <1>4, <2>1, <3>1 DEF Spoilt
    <3>4. hops[hop] # "sshproxy"
      BY <1>1, <3>1 DEF ChainTypes, AnswerSteps
    <3> QED BY <1>4, <3>2, <3>3, <3>4 DEF Speaks
  <2>3. /\ Stream' \in Seq(Pieces) /\ \A i \in 1..Len(r) : Stream'[i].is = r[i]
        /\ ok => Left(Stream', Len(r), hop + 1)
        /\ ~ok => Len(Stream') = Len(r)
        /\ Far' = (IF ok THEN Stop(hop + 1) ELSE Far)
    BY <1>1, <1>7, <2>2, AnswerIs
  <2>4. CASE ok
    <3>1. "failed" \notin upset' => route' = Upto(Stop(hop + 1))
      <4> SUFFICES ASSUME "failed" \notin upset' PROVE route' = Upto(Stop(hop + 1))
        OBVIOUS
      <4>1. route = Upto(hop)
        BY <1>1 DEF AtAsk, Spoilt
      <4>2. route' = route \o Landing(hop + 1)
        BY <1>7, <2>4 DEF Answered
      <4>3. Upto((hop + 1) - 1) \o Landing(hop + 1) = Upto(Stop(hop + 1))
        BY <1>4, LandingIs, Zenon
      <4>4. (hop + 1) - 1 = hop
        BY <1>4
      <4> QED BY <4>1, <4>2, <4>3, <4>4
    <3>2. FarIs(hop + 1)'
      BY <1>1, <1>2, <2>3, <2>4, <3>1 DEF FarIs
    <3>3. \A n : Left(Stream, n, hop + 1)' <=> Left(Stream', n, hop + 1)
      BY <1>1, <1>2 DEF Left
    <3>4. CASE Language = "https"
      <4>1. PICK n \in 1..2 : /\ Len(r) = n + 1 /\ r[1] = "200"
                              /\ \A i \in 1..n : r[1 + i] = (IF i = n THEN "empty" ELSE "header")
        BY <2>1, <2>4, <3>4 DEF IsReply
      <4>2. 1 \in 1..Len(r) /\ \A i \in 1..n : 1 + i \in 1..Len(r)
        BY <4>1
      <4>3. Stream'[1].is = "200" /\ HeadersTo(Stream', 1, n)
        BY <2>3, <4>1, <4>2 DEF HeadersTo
      <4>4. Left(Stream', n + 1, hop + 1)
        BY <2>3, <2>4, <4>1
      <4>5. OkReply(Stream)'
        BY <1>3, <3>3, <3>4, <4>3, <4>4 DEF OkReply, HeadersTo
      <4> QED BY <3>2, <4>5 DEF AtReply
    <3>5. CASE Language = "socks4"
      <4>1. Len(r) = 8 /\ r[1] = "0" /\ r[2] = "Z" /\ 1 \in 1..8 /\ 2 \in 1..8
        BY <2>1, <2>4, <3>5 DEF IsReply
      <4>2. Stream'[1].is = "0" /\ Stream'[2].is = "Z" /\ Left(Stream', 8, hop + 1)
        BY <2>3, <2>4, <4>1
      <4>3. OkReply(Stream)'
        BY <1>3, <3>3, <3>5, <4>2 DEF OkReply
      <4> QED BY <3>2, <4>3 DEF AtReply
    <3>6. CASE Language = "socks5"
      <4>1. ~(hop > 1) /\ hop = 1 /\ hop' = 1
        BY <1>1, <1>4, <2>1, <2>4, <3>6
      <4>2. r[1] = "5" /\ r[2] = "0" /\ ((Len(r) = 10 /\ r[4] = "ip") \/ (Len(r) = 9 /\ r[4] = "name"))
        BY <2>1, <2>4, <3>6, <4>1 DEF IsReply
      <4>3. 1 \in 1..Len(r) /\ 2 \in 1..Len(r) /\ 4 \in 1..Len(r)
        <5>1. Len(r) \in {9, 10}
          BY <4>2
        <5>2. \A n \in {9, 10} : 1 \in 1..n /\ 2 \in 1..n /\ 4 \in 1..n
          OBVIOUS
        <5> QED BY <5>1, <5>2
      <4>4. Stream'[1].is = "5" /\ Stream'[2].is = "0" /\ Stream'[4].is = r[4]
        BY <2>3, <4>2, <4>3
      <4>5. (Left(Stream', 10, hop + 1) /\ Stream'[4].is = "ip") \/ (Left(Stream', 9, hop + 1) /\ Stream'[4].is # "ip")
        <5>1. CASE Len(r) = 10 /\ r[4] = "ip"
          BY <2>3, <2>4, <4>4, <5>1
        <5>2. CASE Len(r) = 9 /\ r[4] = "name"
          BY <2>3, <2>4, <4>4, <5>2
        <5> QED BY <4>2, <5>1, <5>2
      <4>6. OkReply(Stream)'
        BY <1>3, <3>3, <3>6, <4>1, <4>4, <4>5 DEF OkReply
      <4> QED BY <3>2, <4>6 DEF AtReply
    <3> QED BY <1>4, <3>4, <3>5, <3>6
  <2>5. CASE ~ok
    <3>1. Len(Stream') = Len(r) /\ Far' = Far
      BY <2>3, <2>5
    <3>2. CASE Language = "https"
      <4>1. PICK n \in 1..2 : /\ Len(r) = n + 1 /\ r[1] = "502"
                              /\ \A i \in 1..n : r[1 + i] = (IF i = n THEN "empty" ELSE "header")
        BY <2>1, <2>5, <3>2 DEF IsReply
      <4>2. 1 \in 1..Len(r) /\ \A i \in 1..n : 1 + i \in 1..Len(r)
        BY <4>1
      <4>3. Stream'[1].is = "502" /\ HeadersTo(Stream', 1, n) /\ Len(Stream') = n + 1
        BY <2>3, <3>1, <4>1, <4>2 DEF HeadersTo
      <4>4. NoReplyYet(Stream)'
        BY <1>3, <3>2, <4>3 DEF NoReplyYet, HeadersTo
      <4> QED BY <4>4 DEF AtReply
    <3>3. CASE Language = "socks4"
      <4>1. Len(r) = 8 /\ r[2] = "[" /\ 2 \in 1..8
        BY <2>1, <2>5, <3>3 DEF IsReply
      <4>2. Len(Stream') = 8 /\ Stream'[2].is = "["
        BY <2>3, <3>1, <4>1
      <4>3. NoReplyYet(Stream)'
        BY <1>3, <3>3, <4>2 DEF NoReplyYet
      <4> QED BY <4>3 DEF AtReply
    <3>4. CASE Language = "socks5" /\ hop > 1
      <4>1. Len(Stream') = 2 /\ hop' > 1
        BY <1>1, <2>1, <3>1, <3>4 DEF IsReply
      <4>2. NoReplyYet(Stream)'
        BY <1>3, <3>4, <4>1 DEF NoReplyYet
      <4> QED BY <4>2 DEF AtReply
    <3>5. CASE Language = "socks5" /\ ~(hop > 1)
      <4>1. /\ r[2] = "1" /\ (Len(r) = 10 \/ Len(r) = 9)
            /\ \A i \in 4..Len(r) : r[i] \in RestWords
        BY <2>1, <2>5, <3>5 DEF IsReply
      <4>2. Len(r) \in {9, 10}
        BY <4>1
      <4>3. 2 \in 1..Len(r) /\ Len(r) > 2 /\ \A i \in 4..Len(r) : i \in 1..Len(r)
        <5>1. \A n \in {9, 10} : 2 \in 1..n /\ n > 2 /\ \A i \in 4..n : i \in 1..n
          OBVIOUS
        <5> QED BY <4>2, <5>1
      <4>4. Stream'[2].is = "1" /\ Len(Stream') > 2 /\ \A i \in 4..Len(Stream') : Stream'[i].is \in RestWords
        BY <2>3, <3>1, <4>1, <4>3
      <4>5. hop' = 1 /\ Speaks(Far)' = "socks5"
        <5>1. Speaks(Far)' = Speaks(Far)
          BY <3>1 DEF Speaks
        <5>2. hop = 1
          BY <1>4, <3>5
        <5> QED BY <1>1, <2>1, <3>5, <5>1, <5>2
      <4>6. NoReplyYet(Stream)'
        BY <1>3, <3>5, <4>4, <4>5 DEF NoReplyYet
      <4> QED BY <4>6 DEF AtReply
    <3> QED BY <1>4, <3>2, <3>3, <3>4, <3>5
  <2> QED BY <2>4, <2>5
<1> QED BY <1>1, <1>6, <1>7, AskMoves

\* What is read whole.
LEMMA WholeRead ==
  ASSUME ChainTypes, NEW n \in Nat \ {0}, Bytes(n), Whole(n)
  PROVE  /\ Dropped(Stream, Stream', n) /\ Len(Stream) \in Nat /\ Len(Stream) >= n
         /\ Stream \in Seq(Pieces) /\ Stream' \in Seq(Pieces)
         /\ \A i \in 1..n : \A b : IsByte(i, b) <=> Stream[i].is = b
<1>1. arrived \in Seq(Pieces) /\ coming \in Seq(Pieces) /\ ArrivedFirst /\ Stream \in Seq(Pieces)
  BY StreamIs
<1>2. PICK m \in 1..n : IsRead(m) /\ m = n
  <2>1. PICK m \in 1..n : IsRead(m) /\ (Whole(n) => m = n)
    BY <1>1, BytesMoves
  <2> QED BY <2>1
<1>3. Dropped(Stream, Stream', n) /\ Stream' \in Seq(Pieces)
  BY <1>2 DEF IsRead, Dropped
<1>4. Len(arrived) \in Nat /\ Len(arrived) >= n /\ Len(Stream) \in Nat /\ Len(Stream) >= n
  BY <1>1 DEF ArrivedFirst, Whole
<1>5. \A i \in 1..n : \A b : IsByte(i, b) <=> Stream[i].is = b
  <2>1. \A i \in 1..n : i \in 1..Len(arrived) /\ i <= Len(arrived)
    BY <1>4
  <2> QED BY <1>1, <2>1 DEF IsByte, ArrivedFirst
<1> QED BY <1>1, <1>3, <1>4, <1>5

\* A read that is given less is noted.
LEMMA NotShort ==
  ASSUME hops' = hops, Clear(upset)', NEW n, Short(n) \subseteq upset'
  PROVE  Whole(n)
  BY ClearAfter DEF Short, Clear

\* The host that was reached stays.
LEMMA FarKeeps ==
  ASSUME hops' = hops, hop' = hop, route' = route, upset' = upset, NEW k
  PROVE  /\ FarIs(k) => FarIs(k)'
         /\ \A s, n : Left(s, n, k)' <=> Left(s', n, k')
<1> QED BY Steady DEF FarIs, Far, Left

\* Nothing on the wire is a bad end.
LEMMA EmptyEnds ==
  ASSUME Stream' = <<>>
  PROVE  EndsBadly
  BY DEF EndsBadly, Stale

\* An answer of which no line has come.
LEMMA NoLinePlaced ==
  ASSUME ChainTypes, step # "end", hops' = hops, Clear(upset)', NoLine, NEW ok \in BOOLEAN, Returned(ok, Late),
         ok => Stream # <<>> /\ Stream[1].is \in Lines
  PROVE  Placed'
<1>1. arrived \in Seq(Pieces) /\ coming \in Seq(Pieces) /\ Late \subseteq upset' /\ Clear(upset')
  BY StreamIs, ClearAfter DEF Returned
<1>2. Stream' = <<>> /\ (Stream = <<>> \/ Stream[1].is \notin Lines)
  BY <1>1, NoLineIs
<1>3. ~ok
  BY <1>2
<1> QED BY <1>2, <1>3, EmptyEnds, ReturnsPlaced

\* Lines of an answer that are taken one by one.
LEMMA HeadersAfter ==
  ASSUME NEW s, NEW t, NEW p \in Nat, NEW n \in Nat, Dropped(s, t, 1), HeadersTo(s, p + 1, n), p + n <= Len(t)
  PROVE  HeadersTo(t, p, n)
<1> SUFFICES ASSUME NEW i \in 1..n PROVE t[p + i].is = (IF i = n THEN "empty" ELSE "header")
  BY DEF HeadersTo
<1>1. Len(t) \in Nat
  BY DEF Dropped
<1>2. p + i \in 1..Len(t) /\ 1 + (p + i) = (p + 1) + i
  BY <1>1
<1>3. t[p + i] = s[(p + 1) + i]
  BY <1>2 DEF Dropped
<1> QED BY <1>3 DEF HeadersTo

\* The first line of an answer of an HTTP proxy tells whether it led on.
LEMMA HttpsReplyPlaced ==
  ASSUME ChainTypes, Placed, Clear(upset)', HttpsReply, hops' = hops, UNCHANGED <<route, stray>>
  PROVE  Placed'
<1>1. step = "reply" /\ step # "end" /\ AtReply /\ Language = "https"
  BY DEF HttpsReply, Placed
<1>2. /\ Stream \in Seq(Pieces) /\ Len(Stream) \in Nat /\ (Stream = <<>> <=> Len(Stream) = 0)
      /\ arrived \in Seq(Pieces) /\ coming \in Seq(Pieces) /\ Dest \in Nat
  BY StreamIs, HopIs, <1>1
<1>3. Dest' = Dest /\ \A k : Stop(k)' = Stop(k) /\ Upto(k)' = Upto(k) /\ Speaks(k)' = Speaks(k)
  BY Steady
<1>4. CASE NoLine /\ Returned(FALSE, Late)
  BY <1>1, <1>4, NoLinePlaced
<1>5. CASE Line /\ Waits(IF LineIs = "200" THEN "headers" ELSE "rest", upset)
  <2>1. hop' = hop /\ upset' = upset /\ step' = (IF LineIs = "200" THEN "headers" ELSE "rest") /\ Far' = Far
    BY <1>5 DEF Waits, Far
  <2>2. PICK m \in 1..Len(Stream) :
           /\ IsRead(m) /\ LineIs = Stream[m].is /\ LineIs \in Lines
           /\ (Stream[1].is \in Lines => m = 1)
    BY <1>2, <1>5, LineMoves
  <2>3. Dropped(Stream, Stream', m) /\ m \in DOMAIN Stream
    BY <1>2, <2>2 DEF IsRead
  <2>4. \A n : Left(Stream, n, hop + 1)' <=> Left(Stream', n, hop + 1)
    BY <1>3, <2>1 DEF Left
  <2>5. CASE FarIs(hop + 1) /\ OkReply(Stream)
    <3>1. PICK n \in 1..2 : Left(Stream, n + 1, hop + 1) /\ Stream[1].is = "200" /\ HeadersTo(Stream, 1, n)
      BY <1>1, <2>5 DEF OkReply
    <3>2. m = 1 /\ LineIs = "200" /\ n \in Nat /\ n + 1 = 1 + n
      BY <2>2, <3>1 DEF Lines
    <3>3. Left(Stream', n, hop + 1)
      BY <1>2, <2>3, <3>1, <3>2, LeftAfter
    <3>4. HeadersTo(Stream', 0, n)
      <4>1. 0 + 1 = 1 /\ 0 + n <= Len(Stream')
        BY <3>2, <3>3 DEF Left
      <4> QED BY <2>3, <3>1, <3>2, <4>1, HeadersAfter
    <3>5. FarIs(hop + 1)'
      BY <1>3, <2>1, <2>5 DEF FarIs
    <3>6. AtHeaders'
      BY <2>4, <3>3, <3>4, <3>5 DEF AtHeaders, HeadersTo
    <3> QED BY <2>1, <3>2, <3>6, PlacedIs
  <2>6. CASE NoReplyYet(Stream)
    <3>1. CASE Stream = <<>>
      BY <1>2, <2>2, <3>1
    <3>2. CASE hop > 1 /\ Spoilt
      <4>1. Stream[m].is \in RestWords
        BY <2>3, <3>2 DEF Spoilt, Stale
      <4> QED BY <2>2, <4>1 DEF RestWords, Lines
    <3>3. CASE \E n \in 1..2 : Len(Stream) = n + 1 /\ Stream[1].is = "502" /\ HeadersTo(Stream, 1, n)
      <4>1. PICK n \in 1..2 : Len(Stream) = n + 1 /\ Stream[1].is = "502" /\ HeadersTo(Stream, 1, n)
        BY <3>3
      <4>2. m = 1 /\ LineIs = "502" /\ n \in Nat
        BY <2>2, <4>1 DEF Lines
      <4>3. Len(Stream') = n
        <5>1. Len(Stream) = 1 + Len(Stream') /\ Len(Stream') \in Nat
          BY <2>3, <4>2 DEF Dropped
        <5> QED BY <4>1, <4>2, <5>1
      <4>4. HeadersTo(Stream', 0, n)
        <5>1. 0 + 1 = 1 /\ 0 + n <= Len(Stream')
          BY <4>2, <4>3
        <5> QED BY <2>3, <4>1, <4>2, <5>1, HeadersAfter
      <4>5. AtRest'
        BY <4>3, <4>4 DEF AtRest, HeadersTo
      <4>6. step' = "rest"
        BY <2>1, <4>2
      <4> QED BY <4>5, <4>6, PlacedIs
    <3> QED BY <1>1, <2>6, <3>1, <3>2, <3>3 DEF NoReplyYet
  <2> QED BY <1>1, <2>5, <2>6 DEF AtReply
<1> QED BY <1>4, <1>5 DEF HttpsReply

\* Its headers are read until the empty line, whatever the first line was.
LEMMA HttpsHeadersPlaced ==
  ASSUME ChainTypes, Placed, Clear(upset)', HttpsHeaders, hops' = hops, UNCHANGED <<route, stray>>
  PROVE  Placed'
<1>1. step \in {"headers", "rest"} /\ step # "end" /\ (step = "headers" => AtHeaders) /\ (step = "rest" => AtRest)
  BY DEF HttpsHeaders, Placed
<1>2. /\ Stream \in Seq(Pieces) /\ Len(Stream) \in Nat /\ (Stream = <<>> <=> Len(Stream) = 0)
      /\ arrived \in Seq(Pieces) /\ coming \in Seq(Pieces) /\ Dest \in Nat
  BY StreamIs, HopIs, <1>1
<1>3. Dest' = Dest /\ \A k : Stop(k)' = Stop(k) /\ Upto(k)' = Upto(k) /\ Speaks(k)' = Speaks(k)
  BY Steady
<1>4. PICK n \in 1..2 : /\ HeadersTo(Stream, 0, n) /\ Len(Stream) >= n
                        /\ (step = "headers" => FarIs(hop + 1) /\ Left(Stream, n, hop + 1))
                        /\ (step = "rest" => Len(Stream) = n)
  <2>1. CASE step = "headers"
    <3>1. PICK n \in 1..2 : FarIs(hop + 1) /\ Left(Stream, n, hop + 1) /\ HeadersTo(Stream, 0, n)
      BY <1>1, <2>1 DEF AtHeaders
    <3>2. Len(Stream) >= n
      BY <3>1 DEF Left
    <3> QED BY <2>1, <3>1, <3>2
  <2>2. CASE step = "rest"
    <3>1. PICK n \in 1..2 : Len(Stream) = n /\ HeadersTo(Stream, 0, n)
      BY <1>1, <2>2 DEF AtRest
    <3> QED BY <2>2, <3>1
  <2> QED BY <1>1, <2>1, <2>2
<1>5. n \in Nat /\ n \in {1, 2} /\ 1 \in 1..n /\ 0 + 1 = 1
  BY <1>4
<1>6. Stream[1].is = (IF 1 = n THEN "empty" ELSE "header") /\ Stream[1].is \in Lines
  BY <1>4, <1>5 DEF HeadersTo, Lines
<1>7. Stream # <<>>
  BY <1>2, <1>4
<1>8. CASE NoLine /\ Returned(step = "headers", Late)
  BY <1>1, <1>6, <1>7, <1>8, NoLinePlaced
<1>9. CASE Line
  <2>1. LineIs = Stream[1].is /\ Dropped(Stream, Stream', 1)
    <3>1. PICK m \in 1..Len(Stream) :
             /\ IsRead(m) /\ LineIs = Stream[m].is /\ LineIs \in Lines
             /\ (Stream[1].is \in Lines => m = 1)
      BY <1>2, <1>9, LineMoves
    <3> QED BY <1>6, <3>1 DEF IsRead
  <2>2. Len(Stream') \in Nat /\ Len(Stream) = 1 + Len(Stream') /\ Stream' \in Seq(Pieces)
    BY <2>1 DEF Dropped
  <2>3. CASE Waits(step, upset) /\ LineIs # "empty"
    <3>1. n = 2 /\ 1 + 1 = 2
      BY <1>5, <1>6, <2>1, <2>3
    <3>2. hop' = hop /\ upset' = upset /\ step' = step /\ Far' = Far
      BY <2>3 DEF Waits, Far
    <3>3. HeadersTo(Stream', 0, 1)
      <4>1. Stream[2].is = "empty"
        BY <1>4, <3>1 DEF HeadersTo
      <4>2. 1 \in 1..Len(Stream')
        BY <1>4, <2>2, <3>1
      <4>3. Stream'[1] = Stream[1 + 1]
        BY <2>1, <4>2 DEF Dropped
      <4> QED BY <3>1, <4>1, <4>3 DEF HeadersTo
    <3>4. CASE step = "headers"
      <4>1. Left(Stream', 1, hop + 1)
        BY <1>2, <1>4, <2>1, <3>1, <3>4, LeftAfter
      <4>2. Left(Stream, 1, hop + 1)'
        BY <1>3, <3>2, <4>1 DEF Left
      <4>3. FarIs(hop + 1)'
        BY <1>3, <1>4, <3>2, <3>4 DEF FarIs
      <4>4. AtHeaders'
        BY <3>3, <4>2, <4>3 DEF AtHeaders, HeadersTo
      <4> QED BY <3>2, <3>4, <4>4, PlacedIs
    <3>5. CASE step = "rest"
      <4>1. Len(Stream') = 1
        <5>1. \A a \in Nat : 2 = 1 + a => a = 1
          OBVIOUS
        <5>2. Len(Stream) = 2
          BY <1>4, <3>1, <3>5
        <5> QED BY <2>2, <5>1, <5>2
      <4>2. AtRest'
        BY <3>3, <4>1 DEF AtRest, HeadersTo
      <4> QED BY <3>2, <3>5, <4>2, PlacedIs
    <3> QED BY <1>1, <3>4, <3>5
  <2>4. CASE Returned(step = "headers", upset) /\ LineIs = "empty"
    <3>1. n = 1 /\ n = 1 + 0
      BY <1>5, <1>6, <2>1, <2>4
    <3>2. CASE step = "headers"
      <4>1. Left(Stream', 0, hop + 1)
        BY <1>2, <1>4, <2>1, <3>1, <3>2, LeftAfter
      <4>2. Far' = Stop(hop + 1) /\ upset' = upset /\ ("failed" \notin upset' => route' = Upto(Stop(hop + 1)))
        BY <1>4, <2>4, <3>2 DEF Returned, FarIs, Far
      <4> QED BY <1>1, <2>4, <3>2, <4>1, <4>2, ReturnsPlaced
    <3>3. CASE step = "rest"
      <4>1. Len(Stream') = 0
        BY <1>4, <2>2, <3>1, <3>3
      <4>2. EndsBadly
        BY <2>2, <4>1, EmptyEnds, EmptySeq
      <4> QED BY <1>1, <2>4, <3>3, <4>2, ReturnsPlaced
    <3> QED BY <1>1, <3>2, <3>3
  <2> QED BY <1>9, <2>3, <2>4 DEF HttpsHeaders, NoLine, Line
<1> QED BY <1>8, <1>9 DEF HttpsHeaders

\* Nothing has come of an answer.
LEMMA NoBytesPlaced ==
  ASSUME ChainTypes, step # "end", hops' = hops, Clear(upset)', NoBytes, Returned(FALSE, Late)
  PROVE  Placed'
<1>1. arrived \in Seq(Pieces) /\ coming \in Seq(Pieces) /\ Late \subseteq upset' /\ Clear(upset')
  BY StreamIs, ClearAfter DEF Returned
<1>2. Stream' = <<>>
  BY <1>1, NoBytesIs
<1> QED BY <1>2, EmptyEnds, ReturnsPlaced

\* What is left of an answer that nobody believes is believed by nobody.
LEMMA SpoiltEnds ==
  ASSUME ChainTypes, Spoilt, NEW n \in Nat, Dropped(Stream, Stream', n), hops' = hops, route' = route
  PROVE  EndsBadly
<1>1. Stream \in Seq(Pieces) /\ Far' = Far
  BY StreamIs DEF Far
<1>2. Stale(Stream') /\ (Stream = <<>> => Stream' = <<>>)
  BY <1>1, StaleAfter DEF Spoilt
<1> QED BY <1>1, <1>2 DEF EndsBadly, Spoilt

\* The answer of a SOCKS4 server is read whole and tells whether it led on.
LEMMA Socks4Placed ==
  ASSUME ChainTypes, Placed, Clear(upset)', Socks4Reply, hops' = hops, UNCHANGED <<route, stray>>
  PROVE  Placed'
<1>1. step = "reply" /\ step # "end" /\ AtReply /\ Language = "socks4"
  BY DEF Socks4Reply, Placed
<1>2. CASE NoBytes /\ Returned(FALSE, Late)
  BY <1>1, <1>2, NoBytesPlaced
<1>3. CASE Bytes(8) /\ Returned(Whole(8) /\ IsByte(1, "0") /\ IsByte(2, "Z"), Short(8))
  <2>1. Short(8) \subseteq upset'
    BY <1>3 DEF Returned
  <2>2. Whole(8)
    BY <2>1, NotShort
  <2>3. 8 \in Nat \ {0} /\ 1 \in 1..8 /\ 2 \in 1..8
    OBVIOUS
  <2>4. /\ Dropped(Stream, Stream', 8) /\ Len(Stream) \in Nat /\ Len(Stream) >= 8
        /\ Stream \in Seq(Pieces) /\ Stream' \in Seq(Pieces)
        /\ \A i \in 1..8 : \A b : IsByte(i, b) <=> Stream[i].is = b
    BY <1>3, <2>2, <2>3, WholeRead
  <2>5. PICK ok \in BOOLEAN : ok <=> Stream[1].is = "0" /\ Stream[2].is = "Z"
    OBVIOUS
  <2>6. Returned(ok, Short(8))
    <3>1. (Whole(8) /\ IsByte(1, "0") /\ IsByte(2, "Z")) = ok
      BY <2>2, <2>3, <2>4, <2>5
    <3> QED BY <1>3, <3>1
  <2>7. upset \subseteq upset'
    BY <2>6 DEF Returned, Short
  <2>8. CASE FarIs(hop + 1) /\ OkReply(Stream)
    <3>1. Left(Stream, 8, hop + 1) /\ ok /\ 8 = 8 + 0 /\ Dest \in Nat
      BY <1>1, <2>5, <2>8, HopIs DEF OkReply
    <3>2. Left(Stream', 0, hop + 1)
      BY <2>4, <3>1, LeftAfter
    <3>3. Far' = Stop(hop + 1) /\ ("failed" \notin upset' => route' = Upto(Stop(hop + 1)))
      BY <2>7, <2>8 DEF FarIs, Far
    <3> QED BY <1>1, <2>6, <3>1, <3>2, <3>3, ReturnsPlaced
  <2>9. CASE NoReplyYet(Stream)
    <3>1. Stream # <<>>
      BY <2>4
    <3>2. CASE hop > 1 /\ Spoilt
      <4>1. Stream[1].is \in RestWords
        <5>1. 1 \in DOMAIN Stream
          BY <2>4
        <5> QED BY <3>2, <5>1 DEF Spoilt, Stale
      <4>2. ~ok
        BY <2>5, <4>1 DEF RestWords
      <4>3. EndsBadly
        BY <2>3, <2>4, <3>2, SpoiltEnds
      <4> QED BY <1>1, <2>6, <4>2, <4>3, ReturnsPlaced
    <3>3. CASE Len(Stream) = 8 /\ Stream[2].is = "["
      <4>1. ~ok
        BY <2>5, <3>3
      <4>2. Len(Stream') = 0
        <5>1. \A a \in Nat : 8 = 8 + a => a = 0
          OBVIOUS
        <5> QED BY <2>4, <3>3, <5>1 DEF Dropped
      <4>3. EndsBadly
        BY <2>4, <4>2, EmptyEnds, EmptySeq
      <4> QED BY <1>1, <2>6, <4>1, <4>3, ReturnsPlaced
    <3> QED BY <1>1, <2>9, <3>1, <3>2, <3>3 DEF NoReplyYet
  <2> QED BY <1>1, <2>8, <2>9 DEF AtReply
<1> QED BY <1>2, <1>3 DEF Socks4Reply

\* The first bytes of the answer of a SOCKS5 server tell whether it led on.
LEMMA Socks5Placed ==
  ASSUME ChainTypes, Placed, Clear(upset)', Socks5Reply, hops' = hops, UNCHANGED <<route, stray>>
  PROVE  Placed'
<1>1. step = "reply" /\ step # "end" /\ AtReply /\ Language = "socks5"
  BY DEF Socks5Reply, Placed
<1>2. Dest' = Dest /\ \A k : Stop(k)' = Stop(k) /\ Upto(k)' = Upto(k) /\ Speaks(k)' = Speaks(k)
  BY Steady
<1>3. CASE NoBytes /\ Returned(FALSE, Late)
  BY <1>1, <1>3, NoBytesPlaced
<1>4. CASE Bytes(3) /\ ~NoBytes
  <2>1. Whole(3) /\ upset \subseteq upset'
    <3>1. CASE Returned(FALSE, Short(3))
      <4>1. Short(3) \subseteq upset' /\ upset \subseteq upset'
        BY <3>1 DEF Returned, Short
      <4> QED BY <4>1, NotShort
    <3>2. CASE ~Returned(FALSE, Short(3))
      <4>1. Whole(3) /\ Waits("type", upset)
        BY <1>4, <3>2 DEF Socks5Reply
      <4> QED BY <4>1 DEF Waits
    <3> QED BY <3>1, <3>2
  <2>2. 3 \in Nat \ {0} /\ 1 \in 1..3 /\ 2 \in 1..3
    OBVIOUS
  <2>3. /\ Dropped(Stream, Stream', 3) /\ Len(Stream) \in Nat /\ Len(Stream) >= 3
        /\ Stream \in Seq(Pieces) /\ Stream' \in Seq(Pieces)
        /\ \A i \in 1..3 : \A b : IsByte(i, b) <=> Stream[i].is = b
    BY <1>4, <2>1, <2>2, WholeRead
  <2>4. \/ Stream[1].is = "5" /\ Stream[2].is = "0" /\ Waits("type", upset)
        \/ ~(Stream[1].is = "5" /\ Stream[2].is = "0") /\ Returned(FALSE, Short(3))
    BY <1>4, <2>1, <2>2, <2>3 DEF Socks5Reply
  <2>5. CASE FarIs(hop + 1) /\ OkReply(Stream)
    <3>1. /\ hop = 1 /\ Stream[1].is = "5" /\ Stream[2].is = "0"
          /\ \/ Left(Stream, 10, hop + 1) /\ Stream[4].is = "ip"
             \/ Left(Stream, 9, hop + 1) /\ Stream[4].is # "ip"
      BY <1>1, <2>5 DEF OkReply
    <3>2. Waits("type", upset)
      BY <2>4, <3>1
    <3>3. hop' = hop /\ upset' = upset /\ step' = "type" /\ Far' = Far
      BY <3>2 DEF Waits, Far
    <3>4. Dest \in Nat /\ 10 = 3 + 7 /\ 9 = 3 + 6 /\ 7 \in Nat /\ 6 \in Nat
      BY <1>1, HopIs
    <3>5. Stream'[1] = Stream[4]
      <4>1. Len(Stream) >= 9
        <5>1. 10 + 1 = 11 /\ 10 + 0 = 10 /\ 9 + 1 = 10 /\ 9 + 0 = 9 /\ \A n \in {9, 10, 11} : n >= 9
          OBVIOUS
        <5>2. Len(Stream) \in {9, 10, 11}
          BY <3>1, <5>1 DEF Left
        <5> QED BY <5>1, <5>2
      <4>2. Len(Stream') \in Nat /\ Len(Stream) = 3 + Len(Stream')
        BY <2>3 DEF Dropped
      <4>3. 1 \in 1..Len(Stream') /\ 3 + 1 = 4
        BY <4>1, <4>2
      <4>4. Stream'[1] = Stream[3 + 1]
        BY <2>3, <4>3 DEF Dropped
      <4> QED BY <4>3, <4>4
    <3>6. FarIs(hop + 1)'
      BY <1>2, <2>5, <3>3 DEF FarIs
    <3>7. \A n : Left(Stream, n, hop + 1)' <=> Left(Stream', n, hop + 1)
      BY <1>2, <3>3 DEF Left
    <3>8. CASE Left(Stream, 10, hop + 1) /\ Stream[4].is = "ip"
      <4>1. Left(Stream', 7, hop + 1)
        BY <2>2, <2>3, <3>4, <3>8, LeftAfter
      <4>2. AtAddress'
        BY <3>3, <3>5, <3>6, <3>7, <3>8, <4>1 DEF AtAddress
      <4> QED BY <3>3, <4>2, PlacedIs
    <3>9. CASE Left(Stream, 9, hop + 1) /\ Stream[4].is # "ip"
      <4>1. Left(Stream', 6, hop + 1)
        BY <2>2, <2>3, <3>4, <3>9, LeftAfter
      <4>2. AtAddress'
        BY <3>3, <3>5, <3>6, <3>7, <3>9, <4>1 DEF AtAddress
      <4> QED BY <3>3, <4>2, PlacedIs
    <3> QED BY <3>1, <3>8, <3>9
  <2>6. CASE NoReplyYet(Stream)
    <3>1. Stream # <<>>
      BY <2>3
    <3>2. CASE hop > 1 /\ Spoilt
      <4>1. Stream[1].is \in RestWords
        <5>1. 1 \in DOMAIN Stream
          BY <2>3
        <5> QED BY <3>2, <5>1 DEF Spoilt, Stale
      <4>2. Returned(FALSE, Short(3))
        BY <2>4, <4>1 DEF RestWords
      <4>3. EndsBadly
        BY <2>2, <2>3, <3>2, SpoiltEnds
      <4> QED BY <1>1, <4>2, <4>3, ReturnsPlaced
    <3>3. CASE /\ hop = 1 /\ Speaks(Far) = "socks5"
               /\ Len(Stream) > 2 /\ Stream[2].is = "1" /\ \A i \in 4..Len(Stream) : Stream[i].is \in RestWords
      <4>1. Returned(FALSE, Short(3))
        BY <2>4, <3>3
      <4>2. Stale(Stream')
        <5>1. Len(Stream') \in Nat /\ Len(Stream) = 3 + Len(Stream') /\ DOMAIN Stream' = 1..Len(Stream')
          BY <2>3 DEF Dropped
        <5>2. ASSUME NEW i \in 1..Len(Stream') PROVE Stream'[i].is \in RestWords
          <6>1. 3 + i \in 4..Len(Stream)
            BY <5>1
          <6> QED BY <2>3, <3>3, <6>1 DEF Dropped
        <5> QED BY <5>1, <5>2 DEF Stale
      <4>3. Far' = Far
        BY DEF Far
      <4>4. EndsBadly
        BY <3>3, <4>2, <4>3 DEF EndsBadly
      <4> QED BY <1>1, <4>1, <4>4, ReturnsPlaced
    <3>4. CASE hop > 1 /\ Len(Stream) = 2
      BY <2>3, <3>4
    <3> QED BY <1>1, <2>6, <3>1, <3>2, <3>3, <3>4 DEF NoReplyYet
  <2> QED BY <1>1, <2>5, <2>6 DEF AtReply
<1>5. ~(Bytes(3) /\ NoBytes)
  BY DEF Bytes, NoBytes
<1> QED BY <1>3, <1>4, <1>5 DEF Socks5Reply

\* The address in that answer is read before the next hop is begun.
LEMMA AddressPlaced ==
  ASSUME ChainTypes, Placed, Clear(upset)', Socks5Address, hops' = hops, UNCHANGED <<route, stray>>
  PROVE  Placed'
<1>1. step \in {"type", "length", "address", "name", "port"} /\ step # "end" /\ AtAddress /\ FarIs(hop + 1)
  <2>1. step \in {"type", "length", "address", "name", "port"}
    BY DEF Socks5Address
  <2> QED BY <2>1 DEF Placed, AtAddress
<1>2. Dest' = Dest /\ \A k : Stop(k)' = Stop(k) /\ Upto(k)' = Upto(k) /\ Speaks(k)' = Speaks(k)
  BY Steady
<1>3. Dest \in Nat /\ Stream \in Seq(Pieces) /\ Len(Stream) \in Nat /\ arrived \in Seq(Pieces) /\ coming \in Seq(Pieces)
  BY <1>1, HopIs, StreamIs
<1>4. ASSUME NEW next \in {"length", "address", "name", "port"}, NEW notes, upset \subseteq notes, Waits(next, notes),
             Left(Stream', IF next = "address" THEN 6 ELSE IF next = "length" THEN 5 ELSE IF next = "name" THEN 4 ELSE 2, hop + 1)
      PROVE  Placed'
  <2>1. step' = next /\ hop' = hop /\ Far' = Far /\ upset \subseteq upset'
    BY <1>4 DEF Waits, Far
  <2>2. FarIs(hop + 1)'
    BY <1>1, <1>2, <2>1 DEF FarIs
  <2>3. \A n : Left(Stream, n, hop + 1)' <=> Left(Stream', n, hop + 1)
    BY <1>2, <2>1 DEF Left
  <2>4. AtAddress'
    BY <1>4, <2>1, <2>2, <2>3 DEF AtAddress
  <2> QED BY <2>1, <2>4, PlacedIs
<1>5. ASSUME NEW n \in {1, 2, 4}, NEW k \in Nat, Bytes(n), Whole(n), Left(Stream, n + k, hop + 1)
      PROVE  Left(Stream', k, hop + 1) /\ \A b : IsByte(1, b) <=> Stream[1].is = b
  <2>1. n \in Nat \ {0} /\ 1 \in 1..n /\ n \in Nat
    BY <1>5
  <2>2. Dropped(Stream, Stream', n) /\ \A i \in 1..n : \A b : IsByte(i, b) <=> Stream[i].is = b
    BY <1>5, <2>1, WholeRead
  <2>3. Left(Stream', k, hop + 1)
    BY <1>3, <1>5, <2>1, <2>2, LeftAfter
  <2> QED BY <2>1, <2>2, <2>3
<1>6. ASSUME Bytes(1) PROVE Whole(1)
  BY <1>3, <1>6, EmptySeq, LenProperties DEF Bytes, Whole
<1>7. ASSUME NEW notes, Late \subseteq notes, upset' = notes PROVE ~NoBytes
  <2> SUFFICES ASSUME NoBytes PROVE FALSE
    OBVIOUS
  <2>1. Clear(notes)
    BY <1>7, ClearAfter
  <2>2. Stream = <<>>
    BY <1>3, <1>7, <2>1, NoBytesIs
  <2>3. Len(Stream) = 0
    BY <2>2
  <2>4. \E n \in {2, 4, 5, 6, 7} : Left(Stream, n, hop + 1)
    BY <1>1 DEF AtAddress
  <2>5. PICK n \in {2, 4, 5, 6, 7} : Left(Stream, n, hop + 1)
    BY <2>4
  <2>6. n + 0 # 0 /\ n + 1 # 0
    OBVIOUS
  <2> QED BY <2>3, <2>5, <2>6 DEF Left
<1>8. ASSUME NoBytes, Waits("port", Late) \/ Returned(TRUE, Late) PROVE FALSE
  BY <1>7, <1>8 DEF Waits, Returned
<1>9. ASSUME NEW n \in {2, 4}, Short(n) \subseteq upset' PROVE Whole(n)
  BY <1>9, NotShort
<1>10. upset \subseteq Short(2) /\ upset \subseteq Short(4)
  BY DEF Short
<1>11. CASE step = "type" /\ Bytes(1) /\ Waits(IF IsByte(1, "ip") THEN "address" ELSE "length", upset)
  <2>1. Whole(1) /\ 1 + 6 = 7 /\ 1 + 5 = 6 /\ 5 \in Nat /\ 6 \in Nat
    BY <1>6, <1>11
  <2>2. CASE Left(Stream, 7, hop + 1) /\ Stream[1].is = "ip"
    <3>1. Left(Stream', 6, hop + 1) /\ IsByte(1, "ip")
      BY <1>5, <1>11, <2>1, <2>2
    <3> QED BY <1>4, <1>11, <3>1
  <2>3. CASE Left(Stream, 6, hop + 1) /\ Stream[1].is # "ip"
    <3>1. Left(Stream', 5, hop + 1) /\ ~IsByte(1, "ip")
      BY <1>5, <1>11, <2>1, <2>3
    <3> QED BY <1>4, <1>11, <3>1
  <2> QED BY <1>1, <1>11, <2>2, <2>3 DEF AtAddress
<1>12. CASE step = "length" /\ Bytes(1) /\ Waits("name", upset)
  <2>1. Whole(1) /\ 1 + 4 = 5 /\ 4 \in Nat
    BY <1>6, <1>12
  <2>2. Left(Stream, 5, hop + 1)
    BY <1>1, <1>12 DEF AtAddress
  <2>3. Left(Stream', 4, hop + 1)
    BY <1>5, <1>12, <2>1, <2>2
  <2> QED BY <1>4, <1>12, <2>3
<1>13. CASE step = "address" /\ Bytes(4) /\ Waits("port", Short(4))
  <2>1. Whole(4) /\ 4 + 2 = 6 /\ 2 \in Nat
    BY <1>9, <1>13 DEF Waits
  <2>2. Left(Stream, 6, hop + 1)
    BY <1>1, <1>13 DEF AtAddress
  <2>3. Left(Stream', 2, hop + 1)
    BY <1>5, <1>13, <2>1, <2>2
  <2> QED BY <1>4, <1>10, <1>13, <2>3
<1>14. CASE step = "name" /\ Bytes(2) /\ Waits("port", Short(2))
  <2>1. Whole(2) /\ 2 + 2 = 4 /\ 2 \in Nat
    BY <1>9, <1>14 DEF Waits
  <2>2. Left(Stream, 4, hop + 1)
    BY <1>1, <1>14 DEF AtAddress
  <2>3. Left(Stream', 2, hop + 1)
    BY <1>5, <1>14, <2>1, <2>2
  <2> QED BY <1>4, <1>10, <1>14, <2>3
<1>15. CASE step = "port" /\ Bytes(2) /\ Returned(TRUE, Short(2))
  <2>1. Whole(2) /\ 2 + 0 = 2 /\ 0 \in Nat /\ upset \subseteq upset'
    BY <1>9, <1>10, <1>15 DEF Returned
  <2>2. Left(Stream, 2, hop + 1)
    BY <1>1, <1>15 DEF AtAddress
  <2>3. Left(Stream', 0, hop + 1)
    BY <1>5, <1>15, <2>1, <2>2
  <2>4. Far' = Stop(hop + 1) /\ ("failed" \notin upset' => route' = Upto(Stop(hop + 1)))
    BY <1>1, <2>1 DEF FarIs, Far
  <2> QED BY <1>1, <1>15, <2>3, <2>4, ReturnsPlaced
<1> QED BY <1>8, <1>11, <1>12, <1>13, <1>14, <1>15 DEF Socks5Address, PortBytes

\* Nothing that went wrong is forgotten.
LEMMA UpsetGrows ==
  ASSUME STREAMProcessConnectHops
  PROVE  upset \subseteq upset'
<1>1. ASSUME NEW ok, NEW notes, upset \subseteq notes, Returned(ok, notes) PROVE upset \subseteq upset'
  BY <1>1 DEF Returned
<1>2. ASSUME NEW next, NEW notes, upset \subseteq notes, Waits(next, notes) PROVE upset \subseteq upset'
  BY <1>2 DEF Waits
<1>3. upset \subseteq Late /\ \A n : upset \subseteq Short(n)
  BY DEF Late, Short
<1>4. ASSUME NEW puts, Dial(1, puts) PROVE upset \subseteq upset'
  <2>1. upset' = upset \/ upset' = upset \cup {"blind"}
    BY <1>4 DEF Dial
  <2> QED BY <2>1
<1>5. CASE StartHop
  BY <1>1, <1>2, <1>4, <1>5 DEF StartHop, HopTcp, HopSsh, Connects, SshProxyBehind, Unknown, CannotConnect
<1>6. CASE Login
  BY <1>1, <1>2, <1>3, <1>6 DEF Login
<1>7. CASE SendRequest
  BY <1>2, <1>7 DEF SendRequest
<1>8. CASE Reply
  <2>1. CASE HttpsReply
    BY <1>1, <1>2, <1>3, <2>1 DEF HttpsReply
  <2>2. CASE HttpsHeaders
    BY <1>1, <1>2, <1>3, <2>2 DEF HttpsHeaders
  <2>3. CASE Socks4Reply
    BY <1>1, <1>2, <1>3, <2>3 DEF Socks4Reply
  <2>4. CASE Socks5Reply
    BY <1>1, <1>2, <1>3, <2>4 DEF Socks5Reply
  <2>5. CASE Socks5Address
    BY <1>1, <1>2, <1>3, <2>5 DEF Socks5Address
  <2> QED BY <1>8, <2>1, <2>2, <2>3, <2>4, <2>5 DEF Reply
<1> QED BY <1>5, <1>6, <1>7, <1>8 DEF STREAMProcessConnectHops

\* The walk begins before the first hop, with nothing on the wire.
LEMMA ChainStart == ChainInit => ChainInv
<1> SUFFICES ASSUME ChainInit PROVE ChainInv
  OBVIOUS
<1>1. PICK n \in 1..MaxHops : hops \in [1..n -> HopTypes]
  BY DEF ChainInit
<1>2. n \in Nat /\ n > 0 /\ HopTypes \subseteq HopNames
  <2>1. HopTypes \subseteq HopNames
    BY ChainAssumption DEF HopNames
  <2>2. MaxHops \in Nat
    BY ChainAssumption
  <2>3. n \in Nat /\ n > 0
    BY <1>1, <2>2
  <2> QED BY <2>1, <2>3
<1>3. hops \in Seq(HopNames) /\ Len(hops) = n
  BY <1>1, <1>2
<1>4. hop \in 1..(Len(hops) + 1) /\ hop # Len(hops) + 1
  BY <1>2, <1>3 DEF ChainInit
<1>5. <<>> \in Seq(1..Dest) /\ <<>> \in Seq(Pieces) /\ {} \in Upsets
  BY DEF Upsets
<1>6. ChainTypes
  BY <1>2, <1>3, <1>4, <1>5 DEF ChainInit, ChainTypes, LoginSteps, AnswerSteps, Upsets
<1>7. Stream = <<>>
  <2>1. <<>> \o <<>> = <<>>
    BY ConcatEmptySeq
  <2> QED BY <2>1 DEF ChainInit, Stream
<1>8. Placed
  BY <1>7 DEF ChainInit, Placed, AtStart, LoginSteps
<1> QED BY <1>6, <1>8 DEF ChainInv

\* Nothing is lost when the chain rests.
LEMMA ChainRests == ChainInv /\ chainVars' = chainVars => ChainInv'
<1> SUFFICES ASSUME ChainInv, chainVars' = chainVars PROVE ChainInv'
  OBVIOUS
<1> USE DEF chainVars
<1>1. ChainTypes'
  <2>1. Dest' = Dest /\ Speaks(1)' = Speaks(1)
    BY DEF Dest, Speaks
  <2>2. /\ hops' = hops /\ numeric' = numeric /\ hop' = hop /\ step' = step /\ through' = through
        /\ route' = route /\ coming' = coming /\ arrived' = arrived /\ hungUp' = hungUp
        /\ stray' = stray /\ upset' = upset
    OBVIOUS
  <2> HIDE DEF chainVars
  <2>3. ChainTypes
    BY DEF ChainInv
  <2> QED BY <2>1, <2>2, <2>3 DEF ChainTypes
<1>2. Clear(upset)' => Clear(upset)
  BY DEF Clear
<1>3. Dest' = Dest /\ Stream' = Stream /\ Far' = Far /\ Language' = Language
  BY DEF Dest, Stream, Far, Language, Speaks
<1>4. \A k : Stop(k)' = Stop(k) /\ Upto(k)' = Upto(k) /\ Speaks(k)' = Speaks(k)
  BY Steady
<1>5. (\A k : FarIs(k)' <=> FarIs(k)) /\ (\A s, n, k : Left(s, n, k)' <=> Left(s, n, k)) /\ (Spoilt' <=> Spoilt)
  BY <1>3, <1>4 DEF FarIs, Left, Spoilt, Stale
<1>6. OkReply(Stream)' <=> OkReply(Stream)
  BY <1>3, <1>4, <1>5 DEF OkReply, HeadersTo, Left
<1>7. NoReplyYet(Stream)' <=> NoReplyYet(Stream)
  BY <1>3, <1>4, <1>5 DEF NoReplyYet, HeadersTo
<1>8. FarIs(hop)' <=> FarIs(hop)
  BY <1>3, <1>4 DEF FarIs
<1>9. FarIs(hop + 1)' <=> FarIs(hop + 1)
  BY <1>3, <1>4 DEF FarIs
<1>10. \A n : (Left(Stream, n, hop)' <=> Left(Stream, n, hop)) /\ (Left(Stream, n, hop + 1)' <=> Left(Stream, n, hop + 1))
  BY <1>3, <1>4 DEF Left
<1>11. (AtStart' <=> AtStart) /\ (AtLogin' <=> AtLogin) /\ (AtAsk' <=> AtAsk) /\ (AtReply' <=> AtReply)
  BY <1>3, <1>4, <1>5, <1>6, <1>7, <1>8, <1>9, <1>10 DEF AtStart, AtLogin, AtAsk, AtReply
<1>12. (AtHeaders' <=> AtHeaders) /\ (AtRest' <=> AtRest) /\ (AtAddress' <=> AtAddress)
  BY <1>3, <1>9, <1>10 DEF AtHeaders, AtRest, AtAddress, HeadersTo
<1>13. Placed => Placed'
  BY <1>11, <1>12 DEF Placed
<1> QED BY <1>1, <1>2, <1>13 DEF ChainInv

\* What arrives does so in its order.
LEMMA ArrivePlaced ==
  ASSUME ChainInv, Arrive
  PROVE  Clear(upset)' => Placed'
<1>1. ChainTypes /\ (Clear(upset) => Placed)
  BY DEF ChainInv
<1>2. /\ hops' = hops /\ numeric' = numeric /\ hop' = hop /\ step' = step /\ through' = through
      /\ route' = route /\ upset' = upset
  BY DEF Arrive
<1>3. Stream' = Stream
  BY <1>1, ArriveMoves
<1>4. Clear(upset)' => Clear(upset)
  BY <1>2 DEF Clear
<1>5. Dest' = Dest /\ Far' = Far /\ Language' = Language
  BY <1>2 DEF Dest, Far, Language, Speaks
<1>6. \A k : Stop(k)' = Stop(k) /\ Upto(k)' = Upto(k) /\ Speaks(k)' = Speaks(k)
  BY <1>2, Steady
<1>7. FarIs(hop)' <=> FarIs(hop)
  BY <1>2, <1>5, <1>6 DEF FarIs
<1>8. FarIs(hop + 1)' <=> FarIs(hop + 1)
  BY <1>2, <1>5, <1>6 DEF FarIs
<1>9. \A n : (Left(Stream, n, hop)' <=> Left(Stream, n, hop)) /\ (Left(Stream, n, hop + 1)' <=> Left(Stream, n, hop + 1))
  BY <1>2, <1>3, <1>5, <1>6 DEF Left
<1>10. Spoilt' <=> Spoilt
  BY <1>2, <1>3, <1>5, <1>6 DEF Spoilt, Stale
<1>11. OkReply(Stream)' <=> OkReply(Stream)
  BY <1>2, <1>3, <1>5, <1>9 DEF OkReply, HeadersTo
<1>12. NoReplyYet(Stream)' <=> NoReplyYet(Stream)
  BY <1>2, <1>3, <1>5, <1>6, <1>10 DEF NoReplyYet, HeadersTo
<1>13. (AtStart' <=> AtStart) /\ (AtLogin' <=> AtLogin) /\ (AtAsk' <=> AtAsk) /\ (AtReply' <=> AtReply)
  BY <1>2, <1>3, <1>6, <1>7, <1>8, <1>9, <1>10, <1>11, <1>12 DEF AtStart, AtLogin, AtAsk, AtReply
<1>14. (AtHeaders' <=> AtHeaders) /\ (AtRest' <=> AtRest) /\ (AtAddress' <=> AtAddress)
  BY <1>2, <1>3, <1>8, <1>9 DEF AtHeaders, AtRest, AtAddress, HeadersTo
<1>15. Placed => Placed'
  BY <1>2, <1>13, <1>14 DEF Placed
<1> QED BY <1>1, <1>4, <1>15

\* Every step of the chain keeps where the walk is.
LEMMA ChainKeeps == ChainInv /\ [ChainNext]_chainVars => ChainInv'
<1> SUFFICES ASSUME ChainInv, ChainNext PROVE ChainInv'
  BY ChainRests
<1>1. ChainTypes /\ ChainTypes'
  BY TypesKept DEF ChainInv
<1>2. CASE Arrive
  BY <1>1, <1>2, ArrivePlaced DEF ChainInv
<1>3. CASE STREAMProcessConnectHops
  <2> SUFFICES ASSUME Clear(upset)' PROVE Placed'
    BY <1>1 DEF ChainInv
  <2>1. hops' = hops /\ upset \subseteq upset'
    BY <1>3, UpsetGrows DEF STREAMProcessConnectHops
  <2>2. Clear(upset)
    BY <2>1, ClearBefore
  <2>3. Placed
    BY <2>2 DEF ChainInv
  <2>4. CASE StartHop
    BY <1>1, <2>1, <2>3, <2>4, StartPlaced
  <2>5. CASE Login
    BY <1>1, <2>1, <2>3, <2>5, LoginPlaced
  <2>6. CASE SendRequest
    BY <1>1, <2>1, <2>3, <2>6, RequestPlaced
  <2>7. CASE Reply
    <3>1. UNCHANGED <<route, stray>>
      BY <2>7 DEF Reply
    <3> QED BY <1>1, <2>1, <2>3, <2>7, <3>1, HttpsReplyPlaced, HttpsHeadersPlaced, Socks4Placed, Socks5Placed, AddressPlaced DEF Reply
  <2> QED BY <1>3, <2>4, <2>5, <2>6, <2>7 DEF STREAMProcessConnectHops
<1> QED BY <1>2, <1>3 DEF ChainNext

\* What is known of the walk is enough for what is promised.
LEMMA ChainIsLed == ChainInv => ChainLeads
<1> SUFFICES ASSUME ChainInv PROVE ChainLeads
  OBVIOUS
<1>1. ChainTypes /\ (Clear(upset) => Placed)
  BY DEF ChainInv
<1>2. Dest = Len(hops) + 1 /\ Dest \in Nat /\ Dest > 1 /\ Dest \in 1..Dest
  <2>1. Len(hops) \in Nat /\ Len(hops) > 0 /\ Dest = Len(hops) + 1
    BY <1>1 DEF ChainTypes, Dest
  <2> QED BY <2>1
<1>3. Stop(Dest) = Dest
  BY <1>1, <1>2, StopIs
<1>4. ASSUME step = "end", Clear(upset)
      PROVE  (through /\ Far = Dest /\ ("failed" \notin upset => route = Upto(Dest)) /\ Left(Stream, 0, Dest))
             \/ (~through /\ "failed" \in upset)
  <2>1. hop = Dest /\ hop # 1
    BY <1>1, <1>2, <1>4 DEF ChainTypes
  <2>2. AtStart
    BY <1>1, <1>4 DEF Placed
  <2> QED BY <1>3, <2>1, <2>2 DEF AtStart, FarIs, Spoilt
<1>5. LeadsToDest
  <2> SUFFICES ASSUME step = "end", upset = {}, \A k \in DOMAIN hops : hops[k] # "none"
               PROVE  /\ through /\ route = [k \in 1..Dest |-> k]
                      /\ \A i \in DOMAIN arrived : arrived[i].by = Dest
                      /\ \A i \in DOMAIN coming : coming[i].by = Dest
    BY DEF LeadsToDest
  <2>1. Clear(upset)
    BY DEF Clear
  <2>2. through /\ route = Upto(Dest) /\ Left(Stream, 0, Dest)
    BY <1>4, <2>1
  <2>3. Len(Stream) = 1 /\ Stream[1] = [by |-> Dest, is |-> "data"]
    BY <1>3, <2>2 DEF Left
  <2>4. /\ arrived \in Seq(Pieces) /\ coming \in Seq(Pieces) /\ IsJoin(Stream, arrived, coming)
    BY <1>1, Behind DEF ChainTypes, Stream
  <2>5. \A i \in 1..Len(Stream) : Stream[i].by = Dest
    BY <2>3
  <2>6. Len(arrived) \in Nat /\ Len(coming) \in Nat /\ Len(Stream) = Len(arrived) + Len(coming)
    BY <2>4 DEF IsJoin
  <2>7. ASSUME NEW i \in DOMAIN arrived PROVE arrived[i].by = Dest
    <3>1. i \in 1..Len(arrived) /\ i \in 1..Len(Stream)
      BY <2>4, <2>6
    <3> QED BY <2>4, <2>5, <3>1 DEF IsJoin
  <2>8. ASSUME NEW i \in DOMAIN coming PROVE coming[i].by = Dest
    <3>1. i \in 1..Len(coming) /\ Len(arrived) + i \in 1..Len(Stream)
      BY <2>4, <2>6
    <3> QED BY <2>4, <2>5, <3>1 DEF IsJoin
  <2> QED BY <2>2, <2>7, <2>8 DEF Upto
<1>6. NeverElsewhere
  <2> SUFFICES ASSUME step = "end", through, upset \cap {"late", "short", "blind"} = {}
               PROVE  /\ (\A k \in DOMAIN hops : hops[k] # "none" /\ (k > 1 => hops[k] \notin {"tcp", "socks5", "socks5 login"}))
                            => Far = Dest
                      /\ stray => numeric
    BY DEF NeverElsewhere
  <2>1. ASSUME \A k \in DOMAIN hops : hops[k] # "none" /\ (k > 1 => hops[k] \notin {"tcp", "socks5", "socks5 login"})
        PROVE  Far = Dest
    <3>1. Clear(upset)
      BY <2>1 DEF Clear
    <3> QED BY <1>4, <3>1
  <2>2. stray => numeric
    BY <1>1 DEF ChainTypes
  <2> QED BY <2>1, <2>2
<1> QED BY <1>5, <1>6 DEF ChainLeads

\* For any chain of hops, however long, and any answers: a connection that was made leads
\* through all the hops to the destination, nothing of an answer is left in front of its data,
\* and a hop that refuses is noticed, as long as all can be told from what they answer.
THEOREM ChainLeadsTo == ChainSpec => []ChainLeads
<1>1. ChainInit => ChainInv
  BY ChainStart
<1>2. ChainInv /\ [ChainNext]_chainVars => ChainInv'
  BY ChainKeeps
<1>3. ChainInv => ChainLeads
  BY ChainIsLed
<1> QED BY <1>1, <1>2, <1>3, PTL DEF ChainSpec

-----------------------------------------------------------------------------
(* The file of credentials                                                 *)

CredLines == [name : Names, token : Nat, code : Nat]

\* Line k is the last of its name.
IsLast(file, name, k) ==
  /\ k \in 1..Len(file) /\ file[k].name = name
  /\ \A j \in 1..Len(file) : file[j].name = name => j <= k

\* A finite set of line numbers has a largest.
LEMMA MaxOfLines ==
  ASSUME NEW n \in Nat, NEW T \in SUBSET (1..n), T # {}
  PROVE  Max(T) \in T /\ \A j \in T : j <= Max(T)
<1> DEFINE D == {n - x : x \in T}
<1>1. D \in SUBSET Nat /\ D # {}
  <2>1. \A x \in T : n - x \in Nat
    OBVIOUS
  <2> QED BY <2>1
<1>2. PICK d \in D : \A j \in D : d <= j
  BY <1>1, HasSmallest
<1>3. PICK k \in T : d = n - k
  BY <1>2
<1>4. ASSUME NEW j \in T PROVE k >= j
  <2>1. n - j \in D
    OBVIOUS
  <2>2. n - k <= n - j
    BY <1>2, <1>3, <2>1
  <2>3. j \in Nat /\ k \in Nat
    OBVIOUS
  <2> QED BY <2>2, <2>3
<1>5. \E m \in T : \A j \in T : m >= j
  BY <1>4
<1>6. Max(T) \in T /\ \A j \in T : Max(T) >= j
  BY <1>5 DEF Max
<1> QED BY <1>6

\* The last line of a name, if it has one, is the one that counts.
LEMMA TokenOfIs ==
  ASSUME NEW S, NEW file \in Seq(S), NEW name
  PROVE  /\ \A k : IsLast(file, name, k) => TokenOf(file, name) = file[k].token
         /\ (\A j \in 1..Len(file) : file[j].name # name) => TokenOf(file, name) = 0
         /\ (\E j \in 1..Len(file) : file[j].name = name) => \E k : IsLast(file, name, k)
<1>1. Len(file) \in Nat /\ DOMAIN file = 1..Len(file)
  BY LenProperties
<1>2. LinesOf(file, name) \in SUBSET (1..Len(file))
  BY <1>1 DEF LinesOf
<1>3. LinesOf(file, name) # {} => IsLast(file, name, Max(LinesOf(file, name)))
  <2> SUFFICES ASSUME LinesOf(file, name) # {} PROVE IsLast(file, name, Max(LinesOf(file, name)))
    OBVIOUS
  <2>1. PICK m : m = Max(LinesOf(file, name))
    OBVIOUS
  <2>2. m \in LinesOf(file, name) /\ \A j \in LinesOf(file, name) : j <= m
    BY <1>1, <1>2, <2>1, MaxOfLines
  <2>3. IsLast(file, name, m)
    BY <1>1, <2>2 DEF LinesOf, IsLast
  <2> QED BY <2>1, <2>3
<1>4. ASSUME NEW k, IsLast(file, name, k) PROVE TokenOf(file, name) = file[k].token
  <2>1. k \in LinesOf(file, name)
    BY <1>1, <1>4 DEF LinesOf, IsLast
  <2>2. PICK m : m = Max(LinesOf(file, name))
    OBVIOUS
  <2>3. IsLast(file, name, m)
    BY <1>3, <2>1, <2>2
  <2>4. m = k
    <3>1. m \in 1..Len(file) /\ k \in 1..Len(file) /\ m <= k /\ k <= m
      BY <1>4, <2>3 DEF IsLast
    <3> QED BY <1>1, <3>1
  <2> QED BY <2>1, <2>2, <2>4 DEF TokenOf
<1>5. ASSUME \A j \in 1..Len(file) : file[j].name # name PROVE TokenOf(file, name) = 0
  <2>1. LinesOf(file, name) = {}
    BY <1>1, <1>5 DEF LinesOf
  <2> QED BY <2>1 DEF TokenOf
<1>6. ASSUME NEW j \in 1..Len(file), file[j].name = name PROVE \E k : IsLast(file, name, k)
  <2>1. j \in LinesOf(file, name)
    BY <1>1, <1>6 DEF LinesOf
  <2> QED BY <1>3, <2>1
<1> QED BY <1>4, <1>5, <1>6

\* A line that is appended counts for its name, and for no other.
LEMMA TokenOfAppend ==
  ASSUME NEW S, NEW file \in Seq(S), NEW l \in S, NEW name
  PROVE  TokenOf(Append(file, l), name) = IF l.name = name THEN l.token ELSE TokenOf(file, name)
<1>1. PICK more : more = Append(file, l)
  OBVIOUS
<1>2. /\ Len(file) \in Nat /\ more \in Seq(S) /\ Len(more) = Len(file) + 1 /\ more[Len(file) + 1] = l
      /\ \A i \in 1..Len(file) : more[i] = file[i]
  BY <1>1, AppendProperties
<1>3. CASE l.name = name
  <2>1. IsLast(more, name, Len(file) + 1)
    BY <1>2, <1>3 DEF IsLast
  <2>2. TokenOf(more, name) = more[Len(file) + 1].token
    BY <1>2, <2>1, TokenOfIs
  <2> QED BY <1>1, <1>2, <1>3, <2>2
<1>4. CASE l.name # name
  <2>1. CASE \E j \in 1..Len(file) : file[j].name = name
    <3>1. PICK k : IsLast(file, name, k)
      BY <2>1, TokenOfIs
    <3>2. IsLast(more, name, k)
      BY <1>2, <1>4, <3>1 DEF IsLast
    <3>3. k \in 1..Len(file)
      BY <3>1 DEF IsLast
    <3>4. TokenOf(more, name) = more[k].token /\ TokenOf(file, name) = file[k].token
      BY <1>2, <3>1, <3>2, TokenOfIs
    <3> QED BY <1>1, <1>2, <1>4, <3>3, <3>4
  <2>2. CASE ~\E j \in 1..Len(file) : file[j].name = name
    <3>1. \A j \in 1..Len(more) : more[j].name # name
      BY <1>2, <1>4, <2>2
    <3>2. TokenOf(more, name) = 0
      BY <1>2, <3>1, TokenOfIs
    <3>3. TokenOf(file, name) = 0
      BY <2>2, TokenOfIs
    <3> QED BY <1>1, <1>4, <3>2, <3>3
  <2> QED BY <2>1, <2>2
<1> QED BY <1>3, <1>4

\* The list has the names of the file, each of its lines with the token that counts.
Reflects(list, file) ==
  /\ \A i \in 1..Len(list) : /\ list[i].token = TokenOf(file, list[i].name)
                             /\ \E j \in 1..Len(file) : file[j].name = list[i].name
  /\ \A j \in 1..Len(file) : \E i \in 1..Len(list) : list[i].name = file[j].name

\* Such a list says of every name what the file says.
LEMMA ReflectsTokens ==
  ASSUME NEW S, NEW list \in Seq(S), NEW file \in Seq(S), Reflects(list, file), NEW name
  PROVE  TokenOf(list, name) = TokenOf(file, name)
<1>1. CASE \E j \in 1..Len(list) : list[j].name = name
  <2>1. PICK k : IsLast(list, name, k)
    BY <1>1, TokenOfIs
  <2>2. TokenOf(list, name) = list[k].token
    BY <2>1, TokenOfIs
  <2>3. k \in 1..Len(list) /\ list[k].name = name
    BY <2>1 DEF IsLast
  <2> QED BY <2>2, <2>3 DEF Reflects
<1>2. CASE ~\E j \in 1..Len(list) : list[j].name = name
  <2>1. TokenOf(list, name) = 0
    BY <1>2, TokenOfIs
  <2>2. \A j \in 1..Len(file) : file[j].name # name
    BY <1>2 DEF Reflects
  <2>3. TokenOf(file, name) = 0
    BY <2>2, TokenOfIs
  <2> QED BY <2>1, <2>3
<1> QED BY <1>1, <1>2

\* A line of the file that OAuthCleanupCredsFile reads replaces those of its name, or is added.
LEMMA WithLineReflects ==
  ASSUME NEW S, NEW list \in Seq(S), NEW file \in Seq(S), NEW l \in S, Reflects(list, file)
  PROVE  WithLine(list, l) \in Seq(S) /\ Reflects(WithLine(list, l), Append(file, l))
<1>1. PICK more : more = Append(file, l)
  OBVIOUS
<1>2. /\ Len(file) \in Nat /\ more \in Seq(S) /\ Len(more) = Len(file) + 1 /\ more[Len(file) + 1] = l
      /\ \A i \in 1..Len(file) : more[i] = file[i]
  BY <1>1, AppendProperties
<1>3. \A name : TokenOf(more, name) = IF l.name = name THEN l.token ELSE TokenOf(file, name)
  BY <1>1, TokenOfAppend
<1>4. Len(list) \in Nat /\ DOMAIN list = 1..Len(list)
  BY LenProperties
<1>5. CASE LinesOf(list, l.name) # {}
  <2>1. PICK new : new = [k \in DOMAIN list |-> IF list[k].name = l.name THEN l ELSE list[k]]
    OBVIOUS
  <2>2. WithLine(list, l) = new
    BY <1>5, <2>1 DEF WithLine
  <2>3. /\ new \in Seq(S) /\ Len(new) = Len(list)
        /\ \A k \in 1..Len(list) : new[k] = IF list[k].name = l.name THEN l ELSE list[k]
    <3>1. \A k \in 1..Len(list) : list[k] \in S
      BY ElementOfSeq
    <3>2. new \in [1..Len(list) -> S]
      BY <1>4, <2>1, <3>1
    <3>3. \A k \in 1..Len(list) : new[k] = IF list[k].name = l.name THEN l ELSE list[k]
      BY <1>4, <2>1
    <3> QED BY <1>4, <3>2, <3>3
  <2>4. PICK g \in 1..Len(list) : list[g].name = l.name
    BY <1>4, <1>5 DEF LinesOf
  <2>5. ASSUME NEW i \in 1..Len(new)
        PROVE  new[i].token = TokenOf(more, new[i].name) /\ \E j \in 1..Len(more) : more[j].name = new[i].name
    <3>1. i \in 1..Len(list)
      BY <2>3
    <3>2. CASE list[i].name = l.name
      <4>1. new[i] = l
        BY <2>3, <3>1, <3>2
      <4>2. Len(file) + 1 \in 1..Len(more)
        BY <1>2
      <4> QED BY <1>2, <1>3, <4>1, <4>2
    <3>3. CASE list[i].name # l.name
      <4>1. new[i] = list[i]
        BY <2>3, <3>1, <3>3
      <4>2. list[i].token = TokenOf(file, list[i].name)
        BY <3>1 DEF Reflects
      <4>3. PICK j \in 1..Len(file) : file[j].name = list[i].name
        BY <3>1 DEF Reflects
      <4>4. j \in 1..Len(more) /\ more[j] = file[j]
        BY <1>2
      <4> QED BY <1>3, <3>3, <4>1, <4>2, <4>3, <4>4
    <3> QED BY <3>2, <3>3
  <2>6. ASSUME NEW j \in 1..Len(more) PROVE \E i \in 1..Len(new) : new[i].name = more[j].name
    <3>1. \A i \in 1..Len(list) : new[i].name = list[i].name
      BY <2>3
    <3>2. CASE j = Len(file) + 1
      BY <1>2, <2>3, <2>4, <3>1, <3>2
    <3>3. CASE j # Len(file) + 1
      <4>1. j \in 1..Len(file) /\ more[j] = file[j]
        BY <1>2, <3>3
      <4>2. PICK i \in 1..Len(list) : list[i].name = file[j].name
        BY <4>1 DEF Reflects
      <4> QED BY <2>3, <3>1, <4>1, <4>2
    <3> QED BY <3>2, <3>3
  <2>7. Reflects(new, more)
    BY <2>5, <2>6 DEF Reflects
  <2> QED BY <1>1, <2>2, <2>3, <2>7
<1>6. CASE LinesOf(list, l.name) = {}
  <2>1. PICK new : new = Append(list, l)
    OBVIOUS
  <2>2. WithLine(list, l) = new
    BY <1>6, <2>1 DEF WithLine
  <2>3. /\ new \in Seq(S) /\ Len(new) = Len(list) + 1 /\ new[Len(list) + 1] = l
        /\ \A k \in 1..Len(list) : new[k] = list[k]
    BY <2>1, AppendProperties
  <2>4. \A k \in 1..Len(list) : list[k].name # l.name
    BY <1>4, <1>6 DEF LinesOf
  <2>5. ASSUME NEW i \in 1..Len(new)
        PROVE  new[i].token = TokenOf(more, new[i].name) /\ \E j \in 1..Len(more) : more[j].name = new[i].name
    <3>1. CASE i = Len(list) + 1
      <4>1. new[i] = l
        BY <2>3, <3>1
      <4>2. Len(file) + 1 \in 1..Len(more)
        BY <1>2
      <4> QED BY <1>2, <1>3, <4>1, <4>2
    <3>2. CASE i # Len(list) + 1
      <4>1. i \in 1..Len(list) /\ new[i] = list[i]
        BY <1>4, <2>3, <3>2
      <4>2. list[i].token = TokenOf(file, list[i].name)
        BY <4>1 DEF Reflects
      <4>3. PICK j \in 1..Len(file) : file[j].name = list[i].name
        BY <4>1 DEF Reflects
      <4>4. j \in 1..Len(more) /\ more[j] = file[j]
        BY <1>2
      <4> QED BY <1>3, <2>4, <4>1, <4>2, <4>3, <4>4
    <3> QED BY <3>1, <3>2
  <2>6. ASSUME NEW j \in 1..Len(more) PROVE \E i \in 1..Len(new) : new[i].name = more[j].name
    <3>1. CASE j = Len(file) + 1
      <4>1. Len(list) + 1 \in 1..Len(new)
        BY <1>4, <2>3
      <4> QED BY <1>2, <2>3, <3>1, <4>1
    <3>2. CASE j # Len(file) + 1
      <4>1. j \in 1..Len(file) /\ more[j] = file[j]
        BY <1>2, <3>2
      <4>2. PICK i \in 1..Len(list) : list[i].name = file[j].name
        BY <4>1 DEF Reflects
      <4>3. i \in 1..Len(new) /\ new[i] = list[i]
        BY <1>4, <2>3
      <4> QED BY <4>1, <4>2, <4>3
    <3> QED BY <3>1, <3>2
  <2>7. Reflects(new, more)
    BY <2>5, <2>6 DEF Reflects
  <2> QED BY <1>1, <2>2, <2>3, <2>7
<1> QED BY <1>5, <1>6

\* clean has what is kept of each part that begins a file.
Cleans(clean, file, n) ==
  /\ DOMAIN clean = 0..n
  /\ \A k \in 0..n : clean[k] = IF k = 0 THEN <<>> ELSE WithLine(clean[k - 1], file[k])

\* Cleaned is defined by recursion; that its function exists is proved here.
LEMMA CleansExist ==
  ASSUME NEW S, NEW file \in Seq(S), NEW n \in 0..Len(file)
  PROVE  \E c \in [0..n -> Seq(S)] : Cleans(c, file, n) /\ Reflects(c[n], SubSeq(file, 1, n))
<1> DEFINE Has(m) == \E c \in [0..m -> Seq(S)] : Cleans(c, file, m) /\ Reflects(c[m], SubSeq(file, 1, m))
           T == {m \in 0..Len(file) : ~Has(m)}
<1>1. Has(0)
  <2>1. PICK c : c = [k \in 0..0 |-> <<>>]
    OBVIOUS
  <2>2. <<>> \in Seq(S) /\ SubSeq(file, 1, 0) = <<>>
    BY Len(file) \in Nat
  <2>3. c \in [0..0 -> Seq(S)] /\ c[0] = <<>>
    BY <2>1, <2>2
  <2>4. Cleans(c, file, 0)
    BY <2>1, <2>3 DEF Cleans
  <2>5. Reflects(<<>>, <<>>)
    BY DEF Reflects
  <2> QED BY <2>2, <2>3, <2>4, <2>5
<1>2. ASSUME NEW m \in 0..Len(file), m + 1 <= Len(file), Has(m) PROVE Has(m + 1)
  <2>1. PICK c \in [0..m -> Seq(S)] : Cleans(c, file, m) /\ Reflects(c[m], SubSeq(file, 1, m))
    BY <1>2
  <2>2. m + 1 \in 1..Len(file) /\ file[m + 1] \in S /\ m \in 0..m
    BY <1>2, ElementOfSeq
  <2>3. PICK new : new = WithLine(c[m], file[m + 1])
    OBVIOUS
  <2>4. c[m] \in Seq(S) /\ SubSeq(file, 1, m) \in Seq(S)
    BY <2>1, <2>2
  <2>5. new \in Seq(S) /\ Reflects(new, Append(SubSeq(file, 1, m), file[m + 1]))
    BY <2>1, <2>2, <2>3, <2>4, WithLineReflects
  <2>6. Append(SubSeq(file, 1, m), file[m + 1]) = SubSeq(file, 1, m + 1)
    BY <1>2, OneMore
  <2>7. PICK g : g = [k \in 0..(m + 1) |-> IF k = m + 1 THEN new ELSE c[k]]
    OBVIOUS
  <2>8. g \in [0..(m + 1) -> Seq(S)] /\ g[m + 1] = new /\ DOMAIN g = 0..(m + 1) /\ \A k \in 0..m : g[k] = c[k]
    BY <2>2, <2>5, <2>7
  <2>9. ASSUME NEW k \in 0..(m + 1)
        PROVE  g[k] = IF k = 0 THEN <<>> ELSE WithLine(g[k - 1], file[k])
    <3>1. CASE k = m + 1
      <4>1. k # 0 /\ k - 1 = m /\ m \in 0..m
        BY <3>1
      <4>2. g[k] = new /\ g[k - 1] = c[m]
        BY <2>8, <3>1, <4>1
      <4> QED BY <2>3, <3>1, <4>1, <4>2
    <3>2. CASE k # m + 1
      <4>1. k \in 0..m /\ g[k] = c[k] /\ (k # 0 => g[k - 1] = c[k - 1])
        BY <2>8, <3>2
      <4> QED BY <2>1, <4>1 DEF Cleans
    <3> QED BY <3>1, <3>2
  <2>10. Cleans(g, file, m + 1)
    BY <2>8, <2>9 DEF Cleans
  <2> QED BY <2>5, <2>6, <2>8, <2>10
<1>3. T = {}
  <2> HIDE DEF Has
  <2> SUFFICES ASSUME T # {} PROVE FALSE
    OBVIOUS
  <2>1. T \in SUBSET Nat
    OBVIOUS
  <2>2. PICK m \in T : \A k \in T : m <= k
    BY <2>1, HasSmallest
  <2>3. m \in 0..Len(file) /\ ~Has(m) /\ m # 0 /\ Len(file) \in Nat
    BY <1>1
  <2>4. m - 1 \in 0..Len(file) /\ (m - 1) + 1 <= Len(file) /\ (m - 1) + 1 = m
    BY <2>3
  <2>5. Has(m - 1)
    BY <2>2, <2>4
  <2> QED BY <1>2, <2>3, <2>4, <2>5
<1> QED BY <1>3

\* And it is the only one.
LEMMA CleansUnique ==
  ASSUME NEW file, NEW n \in Nat, NEW f, NEW g, Cleans(f, file, n), Cleans(g, file, n)
  PROVE  \A k \in 0..n : f[k] = g[k]
<1> DEFINE T == {k \in 0..n : f[k] # g[k]}
<1> SUFFICES ASSUME T # {} PROVE FALSE
  OBVIOUS
<1>1. T \in SUBSET Nat
  OBVIOUS
<1>2. PICK i \in T : \A k \in T : i <= k
  BY <1>1, HasSmallest
<1>3. i \in 0..n /\ f[i] # g[i]
  OBVIOUS
<1>4. i # 0 => f[i - 1] = g[i - 1]
  <2> SUFFICES ASSUME i # 0, f[i - 1] # g[i - 1] PROVE FALSE
    OBVIOUS
  <2>1. i - 1 \in T
    BY <1>3
  <2> QED BY <1>2, <1>3, <2>1
<1> QED BY <1>3, <1>4 DEF Cleans

\* The file that OAuthCleanupCredsFile writes says of every name what the old one said.
LEMMA CleanedKeeps ==
  ASSUME NEW S, NEW file \in Seq(S)
  PROVE  /\ Cleaned(file) \in Seq(S)
         /\ \A name : TokenOf(Cleaned(file), name) = TokenOf(file, name)
<1> DEFINE clean[k \in 0..Len(file)] == IF k = 0 THEN <<>> ELSE WithLine(clean[k - 1], file[k])
<1>1. Len(file) \in Nat /\ Len(file) \in 0..Len(file)
  BY LenProperties
<1>2. PICK g \in [0..Len(file) -> Seq(S)] :
        Cleans(g, file, Len(file)) /\ Reflects(g[Len(file)], SubSeq(file, 1, Len(file)))
  BY <1>1, CleansExist
<1>3. clean = [k \in 0..Len(file) |-> IF k = 0 THEN <<>> ELSE WithLine(clean[k - 1], file[k])]
  <2> SUFFICES \E h : h = [k \in 0..Len(file) |-> IF k = 0 THEN <<>> ELSE WithLine(h[k - 1], file[k])]
    BY Zenon
  <2>1. g = [k \in 0..Len(file) |-> IF k = 0 THEN <<>> ELSE WithLine(g[k - 1], file[k])]
    BY <1>2 DEF Cleans
  <2> QED BY <2>1, Zenon
<1>4. Cleaned(file) = clean[Len(file)]
  BY Zenon DEF Cleaned
<1> HIDE DEF clean
<1>5. Cleans(clean, file, Len(file))
  BY <1>3 DEF Cleans
<1>6. clean[Len(file)] = g[Len(file)]
  BY <1>1, <1>2, <1>5, CleansUnique
<1>7. SubSeq(file, 1, Len(file)) = file
  OBVIOUS
<1>8. Cleaned(file) \in Seq(S) /\ Reflects(Cleaned(file), file)
  BY <1>1, <1>2, <1>4, <1>6, <1>7
<1> QED BY <1>8, ReflectsTokens

-----------------------------------------------------------------------------
(* The processes that use it                                               *)

OAuthPlaces == {"idle", "load", "clean", "gather", "truncate", "rewrite", "save", "write",
           "await", "finalize", "granted"}

\* What the processes keep, for any number of them and whatever the bounds are.
OAuthTypes ==
  /\ creds \in Seq(CredLines) /\ items \in [Users -> Seq(CredLines)]
  /\ flocks \subseteq Users \X {"SH", "EX"} /\ oauthAt \in [Users -> OAuthPlaces]
  /\ access \in [Users -> Nat] /\ tokens \in [Users -> Nat]
  /\ code \in [Users -> Nat] /\ awaited \in [Users -> Nat]
  /\ current \in [Names -> Nat] /\ logins \in Nat /\ crossed \subseteq Names

\* The lock that a process has where it is.
LockAt(place) == IF place = "load" THEN {"SH"}
                 ELSE IF place \in {"gather", "truncate", "rewrite", "write"} THEN {"EX"} ELSE {}
LocksRight ==
  /\ OneWriter
  /\ \A u \in Users : \A kind \in {"SH", "EX"} : <<u, kind>> \in flocks <=> kind \in LockAt(oauthAt[u])

\* What was read of the file is what the file still says, until it is truncated.
ReadRight ==
  \A u \in Users : At(u, "truncate") => \A n \in Names : TokenOf(items[u], n) = TokenOf(creds, n)

\* A process that is between a grant and the end of the save that follows has the tokens that
\* the server honours, or none, and is the only one of its name, unless the name is crossed.
TokensRight(v) ==
  /\ access[v] # 0 => access[v] = tokens[v]
  /\ oauthAt[v] \in {"save", "write"} => access[v] # 0
  /\ NameOf[v] \notin crossed /\ oauthAt[v] \in Busy =>
       /\ access[v] # 0 => tokens[v] = current[NameOf[v]]
       /\ \A u \in Users \ {v} : NameOf[u] = NameOf[v] => oauthAt[u] \notin Busy

\* No process has tokens of the name that it is to save.
Settled(n) == \A v \in Users : NameOf[v] = n /\ oauthAt[v] \in Busy => access[v] = 0
SavedIn(file) == \A n \in Names \ crossed : Settled(n) => TokenOf(file, n) = current[n]

\* The file has what is to be kept, with the lines that who writes it anew has yet to write.
SavedRight ==
  /\ ~Writing => SavedIn(creds)
  /\ \A u \in Users : At(u, "rewrite") => SavedIn(creds \o items[u])

OAuthInv ==
  /\ OAuthTypes /\ LocksRight /\ ReadRight
  /\ \A v \in Users : TokensRight(v)
  /\ SavedRight

\* What the file has for a name is a token or 0.
LEMMA TokenOfNat ==
  ASSUME NEW file \in Seq(CredLines), NEW name
  PROVE  TokenOf(file, name) \in Nat
<1>1. CASE \E j \in 1..Len(file) : file[j].name = name
  <2>1. PICK k : IsLast(file, name, k)
    BY <1>1, TokenOfIs
  <2>2. file[k] \in CredLines
    BY <2>1, ElementOfSeq DEF IsLast
  <2>3. TokenOf(file, name) = file[k].token
    BY <2>1, TokenOfIs
  <2> QED BY <2>2, <2>3 DEF CredLines
<1>2. CASE ~\E j \in 1..Len(file) : file[j].name = name
  <2>1. TokenOf(file, name) = 0
    BY <1>2, TokenOfIs
  <2> QED BY <2>1
<1> QED BY <1>1, <1>2

\* Who has the file to itself is alone with it.
LEMMA AloneWithFile ==
  ASSUME OAuthTypes, LocksRight, NEW u \in Users, NEW v \in Users, u # v, LockAt(oauthAt[u]) = {"EX"}
  PROVE  LockAt(oauthAt[v]) = {}
<1>1. <<u, "EX">> \in flocks
  BY DEF LocksRight
<1>2. \A kind \in {"SH", "EX"} : <<v, kind>> \notin flocks
  <2> SUFFICES ASSUME NEW kind \in {"SH", "EX"}, <<v, kind>> \in flocks PROVE FALSE
    OBVIOUS
  <2>1. {<<u, "EX">>[2], <<v, kind>>[2]} = {"SH"}
    <3>1. <<u, "EX">> # <<v, kind>>
      OBVIOUS
    <3> QED BY <1>1, <3>1 DEF LocksRight, OneWriter
  <2> QED BY <2>1
<1>3. \A kind \in {"SH", "EX"} : kind \notin LockAt(oauthAt[v])
  BY <1>2 DEF LocksRight
<1> QED BY <1>3 DEF LockAt

\* A process goes on to where it needs the lock that it has.
LEMMA LocksStay ==
  ASSUME OAuthTypes, LocksRight, NEW u \in Users, NEW place, Enters(u, place), flocks' = flocks,
         LockAt(place) = LockAt(oauthAt[u])
  PROVE  LocksRight'
<1>1. \A v \in Users : oauthAt'[v] = IF v = u THEN place ELSE oauthAt[v]
  BY DEF Enters, OAuthTypes
<1>2. \A v \in Users : LockAt(oauthAt'[v]) = LockAt(oauthAt[v])
  BY <1>1
<1> QED BY <1>2 DEF LocksRight, OneWriter, LockAt

\* One that has none takes one.
LEMMA LocksTaken ==
  ASSUME OAuthTypes, LocksRight, NEW u \in Users, NEW place, Enters(u, place),
         NEW kind \in {"SH", "EX"}, FileLock(u, kind), LockAt(oauthAt[u]) = {}, LockAt(place) = {kind}
  PROVE  LocksRight'
<1>1. \A v \in Users : oauthAt'[v] = IF v = u THEN place ELSE oauthAt[v]
  BY DEF Enters, OAuthTypes
<1>2. flocks' = flocks \cup {<<u, kind>>} /\ \A l \in flocks : l[1] # u => "EX" \notin {kind, l[2]}
  BY DEF FileLock
<1>3. \A l \in flocks : \E v \in Users, k \in {"SH", "EX"} : l = <<v, k>>
  BY DEF OAuthTypes
<1>4. \A l \in flocks : l[1] # u /\ l[2] \in {"SH", "EX"}
  <2> SUFFICES ASSUME NEW l \in flocks PROVE l[1] # u /\ l[2] \in {"SH", "EX"}
    OBVIOUS
  <2>1. PICK v \in Users, k \in {"SH", "EX"} : l = <<v, k>>
    BY <1>3
  <2>2. k \in LockAt(oauthAt[v])
    BY <2>1 DEF LocksRight
  <2> QED BY <2>1, <2>2
<1>5. \A l \in flocks : l[2] = "SH" /\ kind = "SH"
  BY <1>2, <1>4
<1>6. OneWriter'
  <2> SUFFICES ASSUME NEW l \in flocks', NEW m \in flocks', l # m PROVE {l[2], m[2]} = {"SH"}
    BY DEF OneWriter
  <2>1. CASE l \in flocks /\ m \in flocks
    BY <1>5, <2>1
  <2>2. CASE l \in flocks /\ m = <<u, kind>>
    BY <1>5, <2>2
  <2>3. CASE m \in flocks /\ l = <<u, kind>>
    BY <1>5, <2>3
  <2> QED BY <1>2, <2>1, <2>2, <2>3
<1>7. ASSUME NEW v \in Users, NEW k \in {"SH", "EX"}
      PROVE  <<v, k>> \in flocks' <=> k \in LockAt(oauthAt'[v])
  <2>1. CASE v = u
    <3>1. LockAt(oauthAt'[v]) = {kind}
      BY <1>1, <2>1
    <3>2. <<u, k>> \notin flocks
      BY <1>4
    <3>3. <<v, k>> \in flocks' <=> k = kind
      BY <1>2, <2>1, <3>2
    <3> QED BY <3>1, <3>3
  <2>2. CASE v # u
    <3>1. LockAt(oauthAt'[v]) = LockAt(oauthAt[v])
      BY <1>1, <2>2
    <3>2. <<v, k>> \in flocks' <=> <<v, k>> \in flocks
      BY <1>2, <2>2
    <3> QED BY <3>1, <3>2 DEF LocksRight
  <2> QED BY <2>1, <2>2
<1> QED BY <1>6, <1>7 DEF LocksRight, LockAt

\* One lets go of what it has.
LEMMA LocksFreed ==
  ASSUME OAuthTypes, LocksRight, NEW u \in Users, NEW place, Enters(u, place), Unlocked(u), LockAt(place) = {}
  PROVE  LocksRight'
<1>1. \A v \in Users : oauthAt'[v] = IF v = u THEN place ELSE oauthAt[v]
  BY DEF Enters, OAuthTypes
<1>2. flocks' = {l \in flocks : l[1] # u}
  BY DEF Unlocked
<1>3. OneWriter'
  BY <1>2 DEF LocksRight, OneWriter
<1>4. ASSUME NEW v \in Users, NEW k \in {"SH", "EX"}
      PROVE  <<v, k>> \in flocks' <=> k \in LockAt(oauthAt'[v])
  <2>1. CASE v = u
    BY <1>1, <1>2, <2>1
  <2>2. CASE v # u
    <3>1. LockAt(oauthAt'[v]) = LockAt(oauthAt[v])
      BY <1>1, <2>2
    <3>2. <<v, k>> \in flocks' <=> <<v, k>> \in flocks
      BY <1>2, <2>2
    <3> QED BY <3>1, <3>2 DEF LocksRight
  <2> QED BY <2>1, <2>2
<1> QED BY <1>3, <1>4 DEF LocksRight, LockAt

\* Every step takes and drops locks as the place in the code says.
LEMMA LocksKept ==
  ASSUME OAuthTypes, LocksRight, OAuthNext
  PROVE  LocksRight'
<1> PICK u \in Users : \/ LoadLock(u) \/ OAuthLoad(u)
                       \/ CleanupLock(u) \/ CleanupRead(u) \/ CleanupTruncate(u) \/ CleanupWrite(u)
                       \/ SaveLock(u) \/ OAuthSave(u)
                       \/ OAuthStage1(u) \/ OAuthAwaitRedirect(u)
                       \/ OAuthRefresh(u) \/ OAuthFinalize(u) \/ Granted(u)
                       \/ Killed(u)
  BY DEF OAuthNext
<1>1. CASE LoadLock(u)
  BY <1>1, LocksTaken DEF LoadLock, At, LockAt
<1>2. CASE OAuthLoad(u)
  <2>1. PICK place \in {"clean", "idle"} : Enters(u, place)
    BY <1>2 DEF OAuthLoad
  <2> QED BY <1>2, <2>1, LocksFreed DEF OAuthLoad, LockAt
<1>3. CASE CleanupLock(u)
  BY <1>3, LocksTaken DEF CleanupLock, At, LockAt
<1>4. CASE CleanupRead(u)
  BY <1>4, LocksStay DEF CleanupRead, At, LockAt
<1>5. CASE CleanupTruncate(u)
  BY <1>5, LocksStay DEF CleanupTruncate, At, LockAt
<1>6. CASE CleanupWrite(u)
  <2>1. CASE items[u] # <<>>
    BY <1>6, <2>1 DEF CleanupWrite, LocksRight, OneWriter, LockAt
  <2>2. CASE items[u] = <<>>
    <3>1. Unlocked(u) /\ Enters(u, "idle")
      BY <1>6, <2>2 DEF CleanupWrite
    <3> QED BY <3>1, LocksFreed DEF LockAt
  <2> QED BY <2>1, <2>2
<1>7. CASE SaveLock(u)
  BY <1>7, LocksTaken DEF SaveLock, At, LockAt
<1>8. CASE OAuthSave(u)
  <2>1. Unlocked(u) /\ Enters(u, "idle")
    BY <1>8 DEF OAuthSave
  <2> QED BY <2>1, LocksFreed DEF LockAt
<1>9. CASE OAuthStage1(u)
  BY <1>9, LocksStay DEF OAuthStage1, SameFile, At, LockAt
<1>10. CASE OAuthAwaitRedirect(u)
  BY <1>10, LocksStay DEF OAuthAwaitRedirect, SameFile, At, LockAt
<1>11. CASE OAuthRefresh(u) \/ OAuthFinalize(u)
  BY <1>11, LocksStay DEF OAuthRefresh, OAuthFinalize, OAuthGrant, SameFile, At, LockAt
<1>12. CASE Granted(u)
  <2>1. PICK place \in {"save", "idle"} : Enters(u, place)
    BY <1>12 DEF Granted
  <2> QED BY <1>12, <2>1, LocksStay DEF Granted, SameFile, At, LockAt
<1>13. CASE Killed(u)
  <2>1. Unlocked(u) /\ Enters(u, "idle")
    BY <1>13 DEF Killed
  <2> QED BY <2>1, LocksFreed DEF LockAt
<1> QED BY <1>1, <1>2, <1>3, <1>4, <1>5, <1>6, <1>7, <1>8, <1>9, <1>10, <1>11, <1>12, <1>13

\* Every step keeps the types of what users hold and the file has.
LEMMA OAuthTypesKept ==
  ASSUME OAuthTypes, OAuthNext
  PROVE  OAuthTypes'
<1> PICK u \in Users : \/ LoadLock(u) \/ OAuthLoad(u)
                       \/ CleanupLock(u) \/ CleanupRead(u) \/ CleanupTruncate(u) \/ CleanupWrite(u)
                       \/ SaveLock(u) \/ OAuthSave(u)
                       \/ OAuthStage1(u) \/ OAuthAwaitRedirect(u)
                       \/ OAuthRefresh(u) \/ OAuthFinalize(u) \/ Granted(u)
                       \/ Killed(u)
  BY DEF OAuthNext
<1>a. NameOf[u] \in Names
  BY DEF Names
<1>1. CASE LoadLock(u) \/ CleanupLock(u) \/ SaveLock(u)
  <2>1. PICK place \in OAuthPlaces, kind \in {"SH", "EX"} : Enters(u, place) /\ FileLock(u, kind)
    BY <1>1 DEF LoadLock, CleanupLock, SaveLock, OAuthPlaces
  <2>2. oauthAt' \in [Users -> OAuthPlaces] /\ flocks' \subseteq Users \X {"SH", "EX"}
    BY <2>1 DEF OAuthTypes, Enters, FileLock
  <2>3. UNCHANGED <<creds, items>> /\ Still
    BY <1>1 DEF LoadLock, CleanupLock, SaveLock
  <2> QED BY <2>2, <2>3 DEF OAuthTypes, Still
<1>2. CASE OAuthLoad(u)
  <2>1. TokenOf(creds, NameOf[u]) \in Nat
    BY TokenOfNat DEF OAuthTypes
  <2>2. PICK mine : mine = LinesOf(creds, NameOf[u])
    OBVIOUS
  <2>3. PICK coded : coded = {k \in mine : creds[k].code # NoCode}
    OBVIOUS
  <2>4. coded # {} => creds[Max(coded)].code \in Nat
    <3>1. coded \in SUBSET (1..Len(creds)) /\ Len(creds) \in Nat
      BY <2>2, <2>3, LenProperties DEF LinesOf, OAuthTypes
    <3>2. coded # {} => Max(coded) \in 1..Len(creds)
      BY <3>1, MaxOfLines
    <3>3. coded # {} => creds[Max(coded)] \in CredLines
      BY <3>2, ElementOfSeq DEF OAuthTypes
    <3> QED BY <3>3 DEF CredLines
  <2>5. access' \in [Users -> Nat]
    BY <1>2, <2>1 DEF OAuthLoad, OAuthTypes, Put
  <2>6. tokens' \in [Users -> Nat]
    BY <1>2, <2>1 DEF OAuthLoad, OAuthTypes, Put
  <2>7. code' \in [Users -> Nat]
    <3>1. code' = (IF coded = {} THEN code ELSE Put(code, u, creds[Max(coded)].code))
      BY <1>2, <2>2, <2>3 DEF OAuthLoad
    <3> QED BY <2>4, <3>1 DEF OAuthTypes, Put
  <2>8. oauthAt' \in [Users -> OAuthPlaces] /\ flocks' \subseteq Users \X {"SH", "EX"}
    BY <1>2 DEF OAuthLoad, OAuthTypes, Enters, Unlocked, OAuthPlaces
  <2> QED BY <1>2, <2>5, <2>6, <2>7, <2>8 DEF OAuthLoad, OAuthTypes
<1>3. CASE CleanupRead(u)
  <2>1. Cleaned(creds) \in Seq(CredLines)
    BY CleanedKeeps DEF OAuthTypes
  <2> QED BY <1>3, <2>1 DEF OAuthTypes, CleanupRead, Enters, Still, Put, OAuthPlaces
<1>4. CASE CleanupTruncate(u)
  BY <1>4 DEF OAuthTypes, CleanupTruncate, Enters, Still, OAuthPlaces
<1>5. CASE CleanupWrite(u)
  <2>1. CASE items[u] # <<>>
    <3>1. items[u] \in Seq(CredLines)
      BY DEF OAuthTypes
    <3>2. Head(items[u]) \in CredLines /\ Tail(items[u]) \in Seq(CredLines)
      BY <2>1, <3>1
    <3>3. Append(creds, Head(items[u])) \in Seq(CredLines)
      BY <3>2, AppendProperties DEF OAuthTypes
    <3>4. items' \in [Users -> Seq(CredLines)]
      BY <1>5, <2>1, <3>2 DEF OAuthTypes, CleanupWrite, Put
    <3> QED BY <1>5, <2>1, <3>3, <3>4 DEF OAuthTypes, CleanupWrite, Still
  <2>2. CASE items[u] = <<>>
    BY <1>5, <2>2 DEF OAuthTypes, CleanupWrite, Enters, Unlocked, Still, OAuthPlaces
  <2> QED BY <2>1, <2>2
<1>6. CASE OAuthSave(u)
  <2>1. CredsLine(NameOf[u], tokens[u], code[u]) \in CredLines
    BY <1>a DEF CredLines, CredsLine, OAuthTypes
  <2>2. Append(creds, CredsLine(NameOf[u], tokens[u], code[u])) \in Seq(CredLines)
    BY <2>1, AppendProperties DEF OAuthTypes
  <2> QED BY <1>6, <2>2 DEF OAuthTypes, OAuthSave, Enters, Unlocked, Still, OAuthPlaces
<1>7. CASE OAuthStage1(u)
  BY <1>7 DEF OAuthTypes, OAuthStage1, Enters, SameFile, Put, OAuthPlaces
<1>8. CASE OAuthAwaitRedirect(u)
  <2>1. code' \in [Users -> Nat]
    <3>1. awaited[u] \in Nat
      BY DEF OAuthTypes
    <3> QED BY <1>8, <3>1 DEF OAuthTypes, OAuthAwaitRedirect, Put
  <2> QED BY <1>8, <2>1 DEF OAuthTypes, OAuthAwaitRedirect, Enters, SameFile, OAuthPlaces
<1>9. CASE OAuthRefresh(u) \/ OAuthFinalize(u)
  <2>1. PICK may : OAuthGrant(u, may)
    BY <1>9 DEF OAuthRefresh, OAuthFinalize
  <2>2. current' \in [Names -> Nat] /\ access' \in [Users -> Nat] /\ tokens' \in [Users -> Nat]
    <3>1. CASE UNCHANGED <<current, access, tokens>>
      BY <3>1 DEF OAuthTypes
    <3>2. CASE ~UNCHANGED <<current, access, tokens>>
      <4>1. current' = Put(current, Name(u), current[Name(u)] + 1)
            /\ access' = Put(access, u, current'[Name(u)]) /\ tokens' = Put(tokens, u, current'[Name(u)])
        BY <2>1, <3>2 DEF OAuthGrant, GrantReply
      <4>2. current' \in [Names -> Nat]
        BY <1>a, <4>1 DEF OAuthTypes, Put, Name
      <4>3. current'[Name(u)] \in Nat
        BY <1>a, <4>2 DEF Name
      <4> QED BY <4>1, <4>2, <4>3 DEF OAuthTypes, Put
    <3> QED BY <3>1, <3>2
  <2> QED BY <1>a, <2>1, <2>2 DEF OAuthTypes, OAuthGrant, Enters, SameFile, OAuthPlaces, Name
<1>10. CASE Granted(u)
  BY <1>10 DEF OAuthTypes, Granted, Enters, SameFile, OAuthPlaces
<1>11. CASE Killed(u)
  BY <1>a, <1>11 DEF OAuthTypes, Killed, Enters, Unlocked, Put, OAuthPlaces, NoCode, Name
<1> QED BY <1>1, <1>2, <1>3, <1>4, <1>5, <1>6, <1>7, <1>8, <1>9, <1>10, <1>11

\* Nobody writes while somebody has read and did not truncate yet.
LEMMA ReadKept ==
  ASSUME OAuthTypes, LocksRight, ReadRight, OAuthNext
  PROVE  ReadRight'
<1> PICK u \in Users : \/ LoadLock(u) \/ OAuthLoad(u)
                       \/ CleanupLock(u) \/ CleanupRead(u) \/ CleanupTruncate(u) \/ CleanupWrite(u)
                       \/ SaveLock(u) \/ OAuthSave(u)
                       \/ OAuthStage1(u) \/ OAuthAwaitRedirect(u)
                       \/ OAuthRefresh(u) \/ OAuthFinalize(u) \/ Granted(u)
                       \/ Killed(u)
  BY DEF OAuthNext
<1> SUFFICES ASSUME NEW v \in Users, oauthAt'[v] = "truncate"
             PROVE  \A n \in Names : TokenOf(items'[v], n) = TokenOf(creds', n)
  BY DEF ReadRight, At
<1>1. CASE CleanupRead(u) /\ v = u
  <2>1. items'[u] = Cleaned(creds) /\ creds' = creds
    BY <1>1 DEF CleanupRead, Put, OAuthTypes
  <2> QED BY <1>1, <2>1, CleanedKeeps DEF OAuthTypes
<1>2. CASE ~(CleanupRead(u) /\ v = u)
  <2>1. oauthAt[v] = "truncate"
    <3>1. oauthAt \in [Users -> OAuthPlaces]
      BY DEF OAuthTypes
    <3>2. \A place : Enters(u, place) => oauthAt'[v] = IF v = u THEN place ELSE oauthAt[v]
      BY <3>1 DEF Enters
    <3>3. \/ UNCHANGED oauthAt
          \/ CleanupRead(u)
          \/ \E place \in OAuthPlaces \ {"truncate"} : Enters(u, place)
      BY DEF LoadLock, OAuthLoad, CleanupLock, CleanupTruncate, CleanupWrite, SaveLock, OAuthSave,
             OAuthStage1, OAuthAwaitRedirect, OAuthRefresh, OAuthFinalize, OAuthGrant, Granted, Killed, OAuthPlaces
    <3>4. CASE CleanupRead(u)
      <4>1. Enters(u, "truncate") /\ v # u
        BY <1>2, <3>4 DEF CleanupRead
      <4> QED BY <3>2, <4>1
    <3>5. CASE \E place \in OAuthPlaces \ {"truncate"} : Enters(u, place)
      BY <3>2, <3>5
    <3> QED BY <3>3, <3>4, <3>5
  <2>2. \A n \in Names : TokenOf(items[v], n) = TokenOf(creds, n)
    BY <2>1 DEF ReadRight, At
  <2>3. u # v => LockAt(oauthAt[u]) = {}
    BY <2>1, AloneWithFile DEF LockAt
  <2>4. creds' = creds
    <3>1. ~CleanupTruncate(u) /\ ~CleanupWrite(u) /\ ~OAuthSave(u)
      <4>1. CASE u = v
        <5>1. oauthAt[u] = "truncate" /\ oauthAt'[u] = "truncate"
          BY <2>1, <4>1
        <5>2. ~Enters(u, "rewrite")
          BY <5>1 DEF Enters, OAuthTypes
        <5> QED BY <5>1, <5>2 DEF CleanupTruncate, CleanupWrite, OAuthSave, At
      <4>2. CASE u # v
        BY <2>3, <4>2 DEF CleanupTruncate, CleanupWrite, OAuthSave, At, LockAt
      <4> QED BY <4>1, <4>2
    <3> QED BY <3>1 DEF LoadLock, OAuthLoad, CleanupLock, CleanupRead, SaveLock, OAuthStage1,
               OAuthAwaitRedirect, OAuthRefresh, OAuthFinalize, OAuthGrant, Granted, Killed, SameFile
  <2>5. items'[v] = items[v]
    <3>1. CASE u = v
      <4>1. oauthAt[u] = "truncate" /\ oauthAt'[u] = "truncate"
        BY <2>1, <3>1
      <4>2. ~Enters(u, "idle") /\ ~CleanupWrite(u) /\ ~CleanupRead(u)
        BY <4>1 DEF Enters, OAuthTypes, CleanupWrite, CleanupRead, At
      <4> QED BY <4>2 DEF LoadLock, OAuthLoad, CleanupLock, CleanupTruncate, SaveLock, OAuthSave, OAuthStage1,
                 OAuthAwaitRedirect, OAuthRefresh, OAuthFinalize, OAuthGrant, Granted, Killed, SameFile
    <3>2. CASE u # v
      <4>1. \A x : Put(items, u, x)[v] = items[v]
        BY <3>2 DEF Put, OAuthTypes
      <4>2. \/ UNCHANGED items
            \/ \E x : items' = Put(items, u, x)
        BY DEF LoadLock, OAuthLoad, CleanupLock, CleanupRead, CleanupTruncate, CleanupWrite, SaveLock, OAuthSave,
               OAuthStage1, OAuthAwaitRedirect, OAuthRefresh, OAuthFinalize, OAuthGrant, Granted, Killed, SameFile
      <4> QED BY <4>1, <4>2
    <3> QED BY <3>1, <3>2
  <2> QED BY <2>2, <2>4, <2>5
<1> QED BY <1>1, <1>2

\* A process goes on with the tokens it has.
LEMMA TokensStay ==
  ASSUME OAuthTypes, \A v \in Users : TokensRight(v), NEW u \in Users, NEW place, Enters(u, place),
         UNCHANGED <<access, tokens, current, crossed>>,
         place \in Busy => oauthAt[u] \in Busy,
         place \in {"save", "write"} => access[u] # 0
  PROVE  \A v \in Users : TokensRight(v)'
<1>1. \A v \in Users : oauthAt'[v] = IF v = u THEN place ELSE oauthAt[v]
  BY DEF Enters, OAuthTypes
<1>2. \A v \in Users : oauthAt'[v] \in Busy => oauthAt[v] \in Busy
  BY <1>1
<1> SUFFICES ASSUME NEW v \in Users PROVE TokensRight(v)'
  OBVIOUS
<1>3. access'[v] # 0 => access'[v] = tokens'[v]
  BY DEF TokensRight
<1>4. oauthAt'[v] \in {"save", "write"} => access'[v] # 0
  BY <1>1 DEF TokensRight
<1>5. ASSUME NameOf[v] \notin crossed', oauthAt'[v] \in Busy
      PROVE  /\ access'[v] # 0 => tokens'[v] = current'[NameOf[v]]
             /\ \A w \in Users \ {v} : NameOf[w] = NameOf[v] => oauthAt'[w] \notin Busy
  BY <1>2, <1>5 DEF TokensRight
<1> QED BY <1>3, <1>4, <1>5 DEF TokensRight, Busy

\* OAuthGrant: a process that comes to be busy is alone, or the name is crossed.
LEMMA GrantedRight ==
  ASSUME OAuthTypes, \A v \in Users : TokensRight(v), NEW u \in Users, NEW may, OAuthGrant(u, may)
  PROVE  \A v \in Users : TokensRight(v)'
<1>1. \A v \in Users : oauthAt'[v] = IF v = u THEN "granted" ELSE oauthAt[v]
  BY DEF OAuthGrant, Enters, OAuthTypes
<1>2. \A v \in Users : NameOf[v] \in Names
  BY DEF Names
<1>3. crossed' = (IF Crosses(u) THEN crossed \cup {NameOf[u]} ELSE crossed)
  BY DEF OAuthGrant, Name
<1>4. \A v \in Users \ {u} : access'[v] = access[v] /\ tokens'[v] = tokens[v]
  BY DEF OAuthGrant, GrantReply, Put, OAuthTypes
<1>5. \A n \in Names \ {NameOf[u]} : current'[n] = current[n]
  BY DEF OAuthGrant, GrantReply, Put, OAuthTypes, Name
<1>6. \/ access'[u] = current'[NameOf[u]] /\ tokens'[u] = current'[NameOf[u]]
      \/ UNCHANGED <<current, access, tokens>>
  <2>1. CASE UNCHANGED <<current, access, tokens>>
    BY <2>1
  <2>2. CASE ~UNCHANGED <<current, access, tokens>>
    <3>1. access' = Put(access, u, current'[Name(u)]) /\ tokens' = Put(tokens, u, current'[Name(u)])
      BY <2>2 DEF OAuthGrant, GrantReply
    <3> QED BY <3>1 DEF Put, Name, OAuthTypes
  <2> QED BY <2>1, <2>2
<1> SUFFICES ASSUME NEW v \in Users PROVE TokensRight(v)'
  OBVIOUS
<1>7. access'[v] # 0 => access'[v] = tokens'[v]
  BY <1>4, <1>6 DEF TokensRight
<1>8. oauthAt'[v] \in {"save", "write"} => access'[v] # 0
  <2>1. CASE v = u
    BY <1>1, <2>1
  <2>2. CASE v # u
    BY <1>1, <1>4, <2>2 DEF TokensRight
  <2> QED BY <2>1, <2>2
<1>9. ASSUME NameOf[v] \notin crossed', oauthAt'[v] \in Busy
      PROVE  /\ access'[v] # 0 => tokens'[v] = current'[NameOf[v]]
             /\ \A w \in Users \ {v} : NameOf[w] = NameOf[v] => oauthAt'[w] \notin Busy
  <2>1. NameOf[v] \notin crossed
    BY <1>3, <1>9
  <2>2. CASE v = u
    <3>1. ~Crosses(u)
      BY <1>3, <1>9, <2>2
    <3>2. tokens[u] \in {0, current[NameOf[u]]} /\ \A w \in Users \ {u} : NameOf[w] = NameOf[u] => oauthAt[w] \notin Busy
      BY <3>1 DEF Crosses, Name
    <3>3. access'[u] # 0 => tokens'[u] = current'[NameOf[u]]
      BY <1>6, <3>2 DEF TokensRight
    <3> QED BY <1>1, <2>2, <3>2, <3>3
  <2>3. CASE v # u
    <3>1. oauthAt[v] \in Busy
      BY <1>1, <1>9, <2>3
    <3>2. NameOf[u] # NameOf[v]
      <4> SUFFICES ASSUME NameOf[u] = NameOf[v] PROVE FALSE
        OBVIOUS
      <4>1. Crosses(u)
        BY <2>3, <3>1 DEF Crosses, Name
      <4> QED BY <1>3, <1>9, <4>1
    <3>3. /\ access[v] # 0 => tokens[v] = current[NameOf[v]]
          /\ \A w \in Users \ {v} : NameOf[w] = NameOf[v] => oauthAt[w] \notin Busy
      BY <2>1, <3>1 DEF TokensRight
    <3>4. access'[v] = access[v] /\ tokens'[v] = tokens[v] /\ current'[NameOf[v]] = current[NameOf[v]]
      BY <1>2, <1>4, <1>5, <2>3, <3>2
    <3> QED BY <1>1, <3>2, <3>3, <3>4
  <2> QED BY <2>2, <2>3
<1> QED BY <1>7, <1>8, <1>9 DEF TokensRight, Busy

\* A step of one user leaves what another knows of its tokens right.
LEMMA TokensKeep ==
  ASSUME OAuthTypes, \A v \in Users : TokensRight(v), OAuthNext
  PROVE  \A v \in Users : TokensRight(v)'
<1> PICK u \in Users : \/ LoadLock(u) \/ OAuthLoad(u)
                       \/ CleanupLock(u) \/ CleanupRead(u) \/ CleanupTruncate(u) \/ CleanupWrite(u)
                       \/ SaveLock(u) \/ OAuthSave(u)
                       \/ OAuthStage1(u) \/ OAuthAwaitRedirect(u)
                       \/ OAuthRefresh(u) \/ OAuthFinalize(u) \/ Granted(u)
                       \/ Killed(u)
  BY DEF OAuthNext
<1>1. CASE LoadLock(u) \/ CleanupLock(u) \/ CleanupRead(u) \/ CleanupTruncate(u) \/ OAuthSave(u)
           \/ OAuthStage1(u) \/ OAuthAwaitRedirect(u) \/ (CleanupWrite(u) /\ items[u] = <<>>)
  <2>1. PICK place \in OAuthPlaces \ Busy : Enters(u, place)
    BY <1>1 DEF LoadLock, CleanupLock, CleanupRead, CleanupTruncate, OAuthSave, OAuthStage1,
                OAuthAwaitRedirect, CleanupWrite, Busy, OAuthPlaces
  <2>2. UNCHANGED <<access, tokens, current, crossed>>
    BY <1>1 DEF LoadLock, CleanupLock, CleanupRead, CleanupTruncate, OAuthSave, OAuthStage1,
                OAuthAwaitRedirect, CleanupWrite, Still
  <2>3. place \notin Busy /\ place \notin {"save", "write"}
    BY <2>1 DEF Busy
  <2> QED BY <2>1, <2>2, <2>3, TokensStay
<1>2. CASE CleanupWrite(u) /\ items[u] # <<>>
  BY <1>2 DEF CleanupWrite, Still, TokensRight
<1>3. CASE SaveLock(u)
  <2>1. Enters(u, "write") /\ oauthAt[u] = "save" /\ UNCHANGED <<access, tokens, current, crossed>>
    BY <1>3 DEF SaveLock, Still, At
  <2>2. oauthAt[u] \in Busy /\ access[u] # 0
    BY <2>1 DEF Busy, TokensRight
  <2> QED BY <2>1, <2>2, TokensStay
<1>4. CASE Granted(u)
  <2>1. /\ Enters(u, IF access[u] # 0 THEN "save" ELSE "idle") /\ oauthAt[u] = "granted"
        /\ UNCHANGED <<access, tokens, current, crossed>>
    BY <1>4 DEF Granted, At
  <2>2. oauthAt[u] \in Busy
    BY <2>1 DEF Busy
  <2>3. CASE access[u] # 0
    <3>1. Enters(u, "save")
      BY <2>1, <2>3
    <3> QED BY <2>1, <2>2, <2>3, <3>1, TokensStay
  <2>4. CASE access[u] = 0
    <3>1. Enters(u, "idle") /\ "idle" \notin Busy
      BY <2>1, <2>4 DEF Busy
    <3> QED BY <2>1, <2>2, <3>1, TokensStay
  <2> QED BY <2>3, <2>4
<1>5. CASE OAuthRefresh(u) \/ OAuthFinalize(u)
  <2>1. PICK may : OAuthGrant(u, may)
    BY <1>5 DEF OAuthRefresh, OAuthFinalize
  <2> QED BY <2>1, GrantedRight
<1>6. CASE OAuthLoad(u) \/ Killed(u)
  <2>1. PICK place \in OAuthPlaces \ Busy : Enters(u, place)
    BY <1>6 DEF OAuthLoad, Killed, Busy, OAuthPlaces
  <2>2. /\ \A v \in Users : oauthAt'[v] = IF v = u THEN place ELSE oauthAt[v]
        /\ place \notin Busy /\ place \notin {"save", "write"}
    BY <2>1 DEF Enters, OAuthTypes, Busy
  <2>3. current' = current /\ crossed \subseteq crossed'
    BY <1>6 DEF OAuthLoad, Killed
  <2>4. \A v \in Users \ {u} : access'[v] = access[v] /\ tokens'[v] = tokens[v]
    BY <1>6 DEF OAuthLoad, Killed, Put, OAuthTypes
  <2>5. access'[u] # 0 => access'[u] = tokens'[u]
    <3>1. CASE OAuthLoad(u)
      <4>1. access'[u] = TokenOf(creds, NameOf[u])
        BY <3>1 DEF OAuthLoad, Put, OAuthTypes
      <4>2. LinesOf(creds, NameOf[u]) # {} => tokens'[u] = TokenOf(creds, NameOf[u])
        BY <3>1 DEF OAuthLoad, Put, OAuthTypes
      <4>3. LinesOf(creds, NameOf[u]) = {} => TokenOf(creds, NameOf[u]) = 0
        BY DEF TokenOf
      <4> QED BY <4>1, <4>2, <4>3
    <3>2. CASE Killed(u)
      BY <3>2 DEF Killed, Put, OAuthTypes
    <3> QED BY <1>6, <3>1, <3>2
  <2> SUFFICES ASSUME NEW v \in Users PROVE TokensRight(v)'
    OBVIOUS
  <2>6. CASE v = u
    BY <2>2, <2>5, <2>6 DEF TokensRight, Busy
  <2>7. CASE v # u
    <3>1. oauthAt'[v] = oauthAt[v] /\ access'[v] = access[v] /\ tokens'[v] = tokens[v]
      BY <2>2, <2>4, <2>7
    <3>2. \A w \in Users : oauthAt[w] \notin Busy => oauthAt'[w] \notin Busy
      BY <2>2
    <3>3. access'[v] # 0 => access'[v] = tokens'[v]
      BY <3>1 DEF TokensRight
    <3>4. oauthAt'[v] \in {"save", "write"} => access'[v] # 0
      BY <3>1 DEF TokensRight
    <3>5. ASSUME NameOf[v] \notin crossed', oauthAt'[v] \in Busy
          PROVE  /\ access'[v] # 0 => tokens'[v] = current'[NameOf[v]]
                 /\ \A w \in Users \ {v} : NameOf[w] = NameOf[v] => oauthAt'[w] \notin Busy
      BY <2>3, <3>1, <3>2, <3>5 DEF TokensRight
    <3> QED BY <3>3, <3>4, <3>5 DEF TokensRight, Busy
  <2> QED BY <2>6, <2>7
<1> QED BY <1>1, <1>2, <1>3, <1>4, <1>5, <1>6

-----------------------------------------------------------------------------
\* The lines stay, who is about to write the rest of them goes on to do so, and no name that
\* was settled before is less so.
LEMMA SavedStays ==
  ASSUME OAuthTypes, SavedRight, UNCHANGED <<creds, current>>, crossed \subseteq crossed',
         \A n \in Names \ crossed' : Settled(n)' => Settled(n),
         \A v \in Users : oauthAt'[v] = "rewrite" <=> oauthAt[v] = "rewrite",
         \A v \in Users : oauthAt[v] = "rewrite" => items'[v] = items[v]
  PROVE  SavedRight'
<1>1. Writing' <=> Writing
  BY DEF Writing
<1>2. \A file : SavedIn(file) => \A n \in Names \ crossed' : Settled(n)' => TokenOf(file, n) = current'[n]
  BY DEF SavedIn
<1>3. ASSUME ~Writing' PROVE SavedIn(creds)'
  BY <1>1, <1>2, <1>3 DEF SavedRight, SavedIn
<1>4. ASSUME NEW v \in Users, At(v, "rewrite")' PROVE SavedIn(creds \o items[v])'
  <2>1. oauthAt[v] = "rewrite" /\ items'[v] = items[v] /\ creds' = creds
    BY <1>4 DEF At
  <2>2. SavedIn(creds \o items[v])
    BY <2>1 DEF SavedRight, At
  <2>3. \A n \in Names \ crossed' : Settled(n)' => TokenOf(creds \o items[v], n) = current'[n]
    BY <1>2, <2>2
  <2> QED BY <2>1, <2>3 DEF SavedIn
<1> QED BY <1>3, <1>4 DEF SavedRight

\* A line that goes from what is to be written to what is written.
LEMMA HeadMoves ==
  ASSUME NEW S, NEW s \in Seq(S), NEW t \in Seq(S), t # <<>>
  PROVE  Append(s, Head(t)) \o Tail(t) = s \o t
<1>1. Len(s) \in Nat /\ Len(t) \in Nat /\ Len(t) > 0
  BY EmptySeq, LenProperties
<1>2. Head(t) = t[1] /\ Head(t) \in S /\ Tail(t) \in Seq(S) /\ Len(Tail(t)) = Len(t) - 1
      /\ \A i \in 1..(Len(t) - 1) : Tail(t)[i] = t[i + 1]
  BY HeadTailProperties
<1>3. PICK h : h = Head(t)
  OBVIOUS
<1>4. PICK r : r = Tail(t)
  OBVIOUS
<1>5. PICK a : a = Append(s, h)
  OBVIOUS
<1>6. a \in Seq(S) /\ Len(a) = Len(s) + 1 /\ a[Len(s) + 1] = t[1] /\ \A i \in 1..Len(s) : a[i] = s[i]
  BY <1>2, <1>3, <1>5, AppendProperties
<1>7. r \in Seq(S) /\ Len(r) = Len(t) - 1 /\ \A i \in 1..(Len(t) - 1) : r[i] = t[i + 1]
  BY <1>2, <1>4
<1>8. PICK x : x = a \o r
  OBVIOUS
<1>9. PICK y : y = s \o t
  OBVIOUS
<1>10. /\ x \in Seq(S) /\ Len(x) = Len(a) + Len(r)
       /\ \A i \in 1..(Len(a) + Len(r)) : x[i] = IF i <= Len(a) THEN a[i] ELSE r[i - Len(a)]
  BY <1>6, <1>7, <1>8, ConcatProperties
<1>11. /\ y \in Seq(S) /\ Len(y) = Len(s) + Len(t)
       /\ \A i \in 1..(Len(s) + Len(t)) : y[i] = IF i <= Len(s) THEN s[i] ELSE t[i - Len(s)]
  BY <1>9, ConcatProperties
<1>12. Len(x) = Len(y) /\ Len(a) + Len(r) = Len(s) + Len(t)
  BY <1>1, <1>6, <1>7, <1>10, <1>11
<1>13. ASSUME NEW i \in 1..Len(x) PROVE x[i] = y[i]
  <2>1. i \in 1..(Len(s) + Len(t)) /\ i \in Nat
    BY <1>10, <1>12, <1>13
  <2>2. CASE i <= Len(s)
    <3>1. x[i] = a[i] /\ y[i] = s[i]
      BY <1>1, <1>6, <1>10, <1>11, <1>12, <2>1, <2>2
    <3>2. i \in 1..Len(s)
      BY <1>1, <2>1, <2>2
    <3> QED BY <1>6, <3>1, <3>2
  <2>3. CASE i = Len(s) + 1
    <3>1. x[i] = a[i] /\ y[i] = t[i - Len(s)] /\ i - Len(s) = 1
      BY <1>1, <1>6, <1>10, <1>11, <1>12, <2>1, <2>3
    <3> QED BY <1>6, <2>3, <3>1
  <2>4. CASE i > Len(s) + 1
    <3>1. x[i] = r[i - Len(a)] /\ y[i] = t[i - Len(s)]
      BY <1>1, <1>6, <1>10, <1>11, <1>12, <2>1, <2>4
    <3>2. i - Len(a) \in 1..(Len(t) - 1) /\ (i - Len(a)) + 1 = i - Len(s)
      BY <1>1, <1>6, <2>1, <2>4
    <3> QED BY <1>7, <3>1, <3>2
  <2> QED BY <1>1, <2>1, <2>2, <2>3, <2>4
<1>14. x = y
  BY <1>10, <1>11, <1>12, <1>13, SeqEqual
<1> QED BY <1>3, <1>4, <1>5, <1>8, <1>9, <1>14

\* Who is at the file keeps the others from writing it anew.
LEMMA NoOtherWrites ==
  ASSUME OAuthTypes, LocksRight, NEW u \in Users, LockAt(oauthAt[u]) = {"EX"}
  PROVE  \A v \in Users \ {u} : oauthAt[v] # "rewrite"
<1> SUFFICES ASSUME NEW v \in Users \ {u}, oauthAt[v] = "rewrite" PROVE FALSE
  OBVIOUS
<1>1. LockAt(oauthAt[v]) = {}
  BY AloneWithFile
<1> QED BY <1>1 DEF LockAt

\* OAuthCleanupCredsFile: what was read is all that is left, and is to be written.
LEMMA TruncateSaved ==
  ASSUME OAuthTypes, LocksRight, ReadRight, SavedRight, NEW u \in Users, CleanupTruncate(u)
  PROVE  SavedRight'
<1>1. /\ oauthAt[u] = "truncate" /\ creds' = <<>> /\ items' = items
      /\ UNCHANGED <<access, current, crossed>>
  BY DEF CleanupTruncate, At, Still
<1>2. \A v \in Users : oauthAt'[v] = IF v = u THEN "rewrite" ELSE oauthAt[v]
  BY DEF CleanupTruncate, Enters, OAuthTypes
<1>3. ~Writing /\ \A v \in Users \ {u} : oauthAt[v] # "rewrite"
  BY <1>1, NoOtherWrites DEF LockAt, Writing
<1>4. \A n : Settled(n)' <=> Settled(n)
  <2>1. \A v \in Users : oauthAt'[v] \in Busy <=> oauthAt[v] \in Busy
    BY <1>1, <1>2 DEF Busy
  <2> QED BY <1>1, <2>1 DEF Settled, Busy
<1>5. \A n \in Names \ crossed : Settled(n) => TokenOf(items[u], n) = current[n]
  BY <1>1, <1>3 DEF SavedRight, SavedIn, ReadRight, At
<1>6. <<>> \o items[u] = items[u]
  BY ConcatEmptySeq DEF OAuthTypes
<1>7. \A n \in Names \ crossed' : Settled(n)' => TokenOf(creds' \o items'[u], n) = current'[n]
  BY <1>1, <1>4, <1>5, <1>6
<1>8. Writing' /\ \A v \in Users : oauthAt'[v] = "rewrite" => v = u
  BY <1>2, <1>3 DEF Writing
<1>9. ASSUME NEW v \in Users, At(v, "rewrite")' PROVE SavedIn(creds \o items[v])'
  <2>1. v = u
    BY <1>8, <1>9 DEF At
  <2> QED BY <1>7, <2>1 DEF SavedIn
<1> QED BY <1>8, <1>9 DEF SavedRight

\* A line goes from what is to be written to the file, or there is none left.
LEMMA WriteSaved ==
  ASSUME OAuthTypes, LocksRight, SavedRight, NEW u \in Users, CleanupWrite(u)
  PROVE  SavedRight'
<1>1. oauthAt[u] = "rewrite" /\ UNCHANGED <<access, current, crossed>> /\ items[u] \in Seq(CredLines)
  BY DEF CleanupWrite, At, Still, OAuthTypes
<1>2. \A v \in Users \ {u} : oauthAt[v] # "rewrite"
  BY <1>1, NoOtherWrites DEF LockAt
<1>3. \A n \in Names \ crossed : Settled(n) => TokenOf(creds \o items[u], n) = current[n]
  BY <1>1 DEF SavedRight, SavedIn, At
<1>4. CASE items[u] # <<>>
  <2>1. creds' = Append(creds, Head(items[u])) /\ items'[u] = Tail(items[u]) /\ oauthAt' = oauthAt
    BY <1>4 DEF CleanupWrite, Put, OAuthTypes
  <2>2. creds' \o items'[u] = creds \o items[u]
    BY <1>1, <1>4, <2>1, HeadMoves DEF OAuthTypes
  <2>3. \A n : Settled(n)' <=> Settled(n)
    BY <1>1, <2>1 DEF Settled, Busy
  <2>4. \A n \in Names \ crossed' : Settled(n)' => TokenOf(creds' \o items'[u], n) = current'[n]
    BY <1>1, <1>3, <2>2, <2>3
  <2>5. Writing' /\ \A v \in Users : oauthAt'[v] = "rewrite" => v = u
    BY <1>1, <1>2, <2>1 DEF Writing
  <2>6. ASSUME NEW v \in Users, At(v, "rewrite")' PROVE SavedIn(creds \o items[v])'
    <3>1. v = u
      BY <2>5, <2>6 DEF At
    <3> QED BY <2>4, <3>1 DEF SavedIn
  <2> QED BY <2>5, <2>6 DEF SavedRight
<1>5. CASE items[u] = <<>>
  <2>1. creds' = creds /\ Enters(u, "idle")
    BY <1>5 DEF CleanupWrite
  <2>2. \A v \in Users : oauthAt'[v] = IF v = u THEN "idle" ELSE oauthAt[v]
    BY <2>1 DEF Enters, OAuthTypes
  <2>3. \A n : Settled(n)' <=> Settled(n)
    <3>1. \A v \in Users : oauthAt'[v] \in Busy <=> oauthAt[v] \in Busy
      BY <1>1, <2>2 DEF Busy
    <3> QED BY <1>1, <3>1 DEF Settled, Busy
  <2>4. creds \o items[u] = creds
    BY <1>5, ConcatEmptySeq DEF OAuthTypes
  <2>5. \A n \in Names \ crossed' : Settled(n)' => TokenOf(creds', n) = current'[n]
    BY <1>1, <1>3, <2>1, <2>3, <2>4
  <2>6. \A v \in Users : oauthAt'[v] # "rewrite"
    BY <1>2, <2>2
  <2> QED BY <2>5, <2>6 DEF SavedRight, SavedIn, At
<1> QED BY <1>4, <1>5

\* OAuthSave: what is appended is what the server honours.
LEMMA SaveSaved ==
  ASSUME OAuthTypes, LocksRight, \A v \in Users : TokensRight(v), SavedRight, NEW u \in Users, OAuthSave(u)
  PROVE  SavedRight'
<1>1. /\ oauthAt[u] = "write" /\ creds' = Append(creds, CredsLine(NameOf[u], tokens[u], code[u]))
      /\ UNCHANGED <<access, current, crossed>>
  BY DEF OAuthSave, At, Still
<1>2. \A v \in Users : oauthAt'[v] = IF v = u THEN "idle" ELSE oauthAt[v]
  BY DEF OAuthSave, Enters, OAuthTypes
<1>3. ~Writing /\ \A v \in Users : oauthAt'[v] # "rewrite"
  BY <1>1, <1>2, NoOtherWrites DEF LockAt, Writing
<1>4. PICK l \in CredLines : l = CredsLine(NameOf[u], tokens[u], code[u])
  BY DEF CredsLine, CredLines, OAuthTypes, Names
<1>5. \A name : TokenOf(creds', name) = IF l.name = name THEN l.token ELSE TokenOf(creds, name)
  BY <1>1, <1>4, TokenOfAppend DEF OAuthTypes
<1>6. l.name = NameOf[u] /\ l.token = tokens[u]
  BY <1>4 DEF CredsLine
<1>7. ASSUME NEW n \in Names \ crossed', Settled(n)' PROVE TokenOf(creds', n) = current'[n]
  <2>1. CASE n = NameOf[u]
    <3>1. oauthAt[u] \in Busy /\ access[u] # 0
      BY <1>1 DEF Busy, TokensRight
    <3>2. tokens[u] = current[n]
      BY <1>1, <1>7, <2>1, <3>1 DEF TokensRight
    <3> QED BY <1>1, <1>5, <1>6, <2>1, <3>2
  <2>2. CASE n # NameOf[u]
    <3>1. Settled(n)
      BY <1>1, <1>2, <1>7, <2>2 DEF Settled, Busy
    <3>2. TokenOf(creds, n) = current[n]
      BY <1>1, <1>3, <1>7, <3>1 DEF SavedRight, SavedIn
    <3> QED BY <1>1, <1>5, <1>6, <2>2, <3>2
  <2> QED BY <2>1, <2>2
<1> QED BY <1>3, <1>7 DEF SavedRight, SavedIn, At

\* OAuthGrant: with new tokens the name is not settled, and without them all is as it was.
LEMMA GrantSaved ==
  ASSUME OAuthTypes, SavedRight, NEW u \in Users, NEW may, OAuthGrant(u, may), oauthAt[u] # "rewrite"
  PROVE  SavedRight'
<1>1. \A v \in Users : oauthAt'[v] = IF v = u THEN "granted" ELSE oauthAt[v]
  BY DEF OAuthGrant, Enters, OAuthTypes
<1>2. UNCHANGED <<creds, items>>
  BY DEF OAuthGrant, SameFile
<1>3. crossed' = (IF Crosses(u) THEN crossed \cup {NameOf[u]} ELSE crossed)
  BY DEF OAuthGrant, Name
<1>4. \A v \in Users \ {u} : access'[v] = access[v]
  BY DEF OAuthGrant, GrantReply, Put, OAuthTypes
<1>5. \A n \in Names \ {NameOf[u]} : current'[n] = current[n]
  BY DEF OAuthGrant, GrantReply, Put, OAuthTypes, Name
<1>6. NameOf[u] \in Names
  BY DEF Names
<1>7. \/ access'[u] # 0
      \/ UNCHANGED <<current, access, tokens>>
  <2> SUFFICES ASSUME ~UNCHANGED <<current, access, tokens>> PROVE access'[u] # 0
    OBVIOUS
  <2>1. current' = Put(current, Name(u), current[Name(u)] + 1) /\ access' = Put(access, u, current'[Name(u)])
    BY DEF OAuthGrant, GrantReply
  <2>2. current'[NameOf[u]] = current[NameOf[u]] + 1 /\ current[NameOf[u]] \in Nat
    BY <1>6, <2>1 DEF Put, Name, OAuthTypes
  <2>3. access'[u] = current'[NameOf[u]]
    BY <2>1 DEF Put, Name, OAuthTypes
  <2> QED BY <2>2, <2>3
<1>8. ASSUME NEW n \in Names \ crossed', Settled(n)' PROVE Settled(n) /\ current'[n] = current[n]
  <2>1. CASE n = NameOf[u]
    <3>1. \A w \in Users \ {u} : NameOf[w] = NameOf[u] => oauthAt[w] \notin Busy
      BY <1>3, <1>8, <2>1 DEF Crosses, Name
    <3>2. access'[u] = 0
      BY <1>1, <1>8, <2>1 DEF Settled, Busy
    <3>3. UNCHANGED <<current, access, tokens>>
      BY <1>7, <3>2
    <3> QED BY <2>1, <3>1, <3>2, <3>3 DEF Settled
  <2>2. CASE n # NameOf[u]
    <3>1. Settled(n)
      BY <1>1, <1>4, <1>8, <2>2 DEF Settled, Busy
    <3> QED BY <1>5, <2>2, <3>1
  <2> QED BY <2>1, <2>2
<1>9. ASSUME NEW file, SavedIn(file)
      PROVE  \A n \in Names \ crossed' : Settled(n)' => TokenOf(file, n) = current'[n]
  BY <1>3, <1>8, <1>9 DEF SavedIn
<1>10. \A v \in Users : oauthAt'[v] = "rewrite" <=> oauthAt[v] = "rewrite"
  BY <1>1
<1>11. ASSUME ~Writing' PROVE SavedIn(creds)'
  <2>1. SavedIn(creds)
    BY <1>10, <1>11 DEF Writing, SavedRight
  <2> QED BY <1>2, <1>9, <2>1 DEF SavedIn
<1>12. ASSUME NEW v \in Users, At(v, "rewrite")' PROVE SavedIn(creds \o items[v])'
  <2>1. SavedIn(creds \o items[v]) /\ items'[v] = items[v]
    BY <1>2, <1>10, <1>12 DEF SavedRight, At
  <2>2. \A n \in Names \ crossed' : Settled(n)' => TokenOf(creds \o items[v], n) = current'[n]
    BY <1>9, <2>1
  <2> QED BY <1>2, <2>1, <2>2 DEF SavedIn
<1> QED BY <1>11, <1>12 DEF SavedRight

\* What has been saved stays in the file.
LEMMA SavedKept ==
  ASSUME OAuthTypes, LocksRight, ReadRight, \A v \in Users : TokensRight(v), SavedRight, OAuthNext
  PROVE  SavedRight'
<1> PICK u \in Users : \/ LoadLock(u) \/ OAuthLoad(u)
                       \/ CleanupLock(u) \/ CleanupRead(u) \/ CleanupTruncate(u) \/ CleanupWrite(u)
                       \/ SaveLock(u) \/ OAuthSave(u)
                       \/ OAuthStage1(u) \/ OAuthAwaitRedirect(u)
                       \/ OAuthRefresh(u) \/ OAuthFinalize(u) \/ Granted(u)
                       \/ Killed(u)
  BY DEF OAuthNext
<1>1. CASE CleanupTruncate(u)
  BY <1>1, TruncateSaved
<1>2. CASE CleanupWrite(u)
  BY <1>2, WriteSaved
<1>3. CASE OAuthSave(u)
  BY <1>3, SaveSaved
<1>4. CASE OAuthRefresh(u) \/ OAuthFinalize(u)
  <2>1. PICK may : OAuthGrant(u, may)
    BY <1>4 DEF OAuthRefresh, OAuthFinalize
  <2>2. oauthAt[u] # "rewrite"
    BY <1>4 DEF OAuthRefresh, OAuthFinalize, At
  <2> QED BY <2>1, <2>2, GrantSaved
<1>5. CASE Killed(u) /\ oauthAt[u] = "rewrite"
  <2>1. Names \ crossed' = {}
    BY <1>5 DEF Killed, At
  <2> QED BY <2>1 DEF SavedRight, SavedIn
<1>6. CASE \/ LoadLock(u) \/ OAuthLoad(u) \/ CleanupLock(u) \/ CleanupRead(u) \/ SaveLock(u)
           \/ OAuthStage1(u) \/ OAuthAwaitRedirect(u) \/ Granted(u)
           \/ Killed(u) /\ oauthAt[u] # "rewrite"
  <2>1. UNCHANGED <<creds, current>> /\ crossed \subseteq crossed'
    BY <1>6 DEF LoadLock, OAuthLoad, CleanupLock, CleanupRead, SaveLock, OAuthStage1, OAuthAwaitRedirect,
                Granted, Killed, Still, SameFile
  <2>2. oauthAt[u] # "rewrite"
    BY <1>6 DEF LoadLock, OAuthLoad, CleanupLock, CleanupRead, SaveLock, OAuthStage1, OAuthAwaitRedirect,
                Granted, At
  <2>3. PICK place \in OAuthPlaces \ {"rewrite"} : Enters(u, place)
    BY <1>6 DEF LoadLock, OAuthLoad, CleanupLock, CleanupRead, SaveLock, OAuthStage1, OAuthAwaitRedirect,
                Granted, Killed, OAuthPlaces
  <2>4. \A v \in Users : oauthAt'[v] = IF v = u THEN place ELSE oauthAt[v]
    BY <2>3 DEF Enters, OAuthTypes
  <2>5. \A v \in Users \ {u} : items'[v] = items[v] /\ access'[v] = access[v]
    BY <1>6 DEF LoadLock, OAuthLoad, CleanupLock, CleanupRead, SaveLock, OAuthStage1, OAuthAwaitRedirect,
                Granted, Killed, Still, SameFile, Put, OAuthTypes
  <2>6. \/ oauthAt[u] \notin Busy
        \/ access[u] = 0
        \/ NameOf[u] \in crossed'
        \/ oauthAt'[u] \in Busy /\ access'[u] = access[u]
    <3>1. CASE SaveLock(u)
      BY <3>1 DEF SaveLock, Still, Enters, OAuthTypes, Busy
    <3>2. CASE Granted(u)
      BY <3>2 DEF Granted, Enters, OAuthTypes, Busy
    <3>3. CASE Killed(u) /\ oauthAt[u] # "rewrite"
      BY <3>3 DEF Killed, At, Name
    <3>4. CASE \/ LoadLock(u) \/ OAuthLoad(u) \/ CleanupLock(u) \/ CleanupRead(u)
               \/ OAuthStage1(u) \/ OAuthAwaitRedirect(u)
      BY <3>4 DEF LoadLock, OAuthLoad, CleanupLock, CleanupRead, OAuthStage1, OAuthAwaitRedirect, At, Busy
    <3> QED BY <1>6, <3>1, <3>2, <3>3, <3>4
  <2>7. ASSUME NEW n \in Names \ crossed', Settled(n)' PROVE Settled(n)
    <3> SUFFICES ASSUME NEW v \in Users, NameOf[v] = n, oauthAt[v] \in Busy PROVE access[v] = 0
      BY DEF Settled
    <3>1. oauthAt'[v] \in Busy => access'[v] = 0
      BY <2>7 DEF Settled, Busy
    <3>2. CASE v = u
      BY <2>6, <2>7, <3>1, <3>2
    <3>3. CASE v # u
      BY <2>4, <2>5, <3>1, <3>3
    <3> QED BY <3>2, <3>3
  <2>8. \A v \in Users : oauthAt'[v] = "rewrite" <=> oauthAt[v] = "rewrite"
    BY <2>2, <2>3, <2>4
  <2>9. \A v \in Users : oauthAt[v] = "rewrite" => items'[v] = items[v]
    BY <2>2, <2>5
  <2> QED BY <2>1, <2>7, <2>8, <2>9, SavedStays
<1> QED BY <1>1, <1>2, <1>3, <1>4, <1>5, <1>6

-----------------------------------------------------------------------------
\* No user has read or written anything at first.
LEMMA OAuthStart == OAuthInit => OAuthInv
<1> SUFFICES ASSUME OAuthInit PROVE OAuthInv
  OBVIOUS
<1>1. OAuthTypes
  <2>1. CredsLine("other", 1, NoCode) \in CredLines
    BY DEF CredsLine, CredLines, Names, NoCode
  <2>2. creds \in Seq(CredLines)
    BY <2>1 DEF OAuthInit
  <2>3. items \in [Users -> Seq(CredLines)]
    BY DEF OAuthInit
  <2> QED BY <2>2, <2>3 DEF OAuthTypes, OAuthInit, OAuthPlaces
<1>2. LocksRight
  BY DEF OAuthInit, LocksRight, OneWriter, LockAt
<1>3. ReadRight
  BY DEF OAuthInit, ReadRight, At
<1>4. \A v \in Users : TokensRight(v)
  BY DEF OAuthInit, TokensRight, Busy
<1>5. \A n \in Names : TokenOf(creds, n) = current[n]
  <2>1. creds \in Seq(CredLines) /\ Len(creds) = 1 /\ creds[1].name = "other" /\ creds[1].token = 1
    BY <1>1 DEF OAuthInit, CredsLine, OAuthTypes
  <2>2. TokenOf(creds, "other") = 1
    <3>1. IsLast(creds, "other", 1)
      BY <2>1 DEF IsLast
    <3> QED BY <2>1, <3>1, TokenOfIs
  <2>3. ASSUME NEW n \in Names, n # "other" PROVE TokenOf(creds, n) = 0
    <3>1. \A j \in 1..Len(creds) : creds[j].name # n
      BY <2>1, <2>3
    <3> QED BY <2>1, <3>1, TokenOfIs
  <2> QED BY <2>2, <2>3 DEF OAuthInit
<1>6. SavedRight
  BY <1>5 DEF OAuthInit, SavedRight, SavedIn, At
<1> QED BY <1>1, <1>2, <1>3, <1>4, <1>6 DEF OAuthInv

\* Every step of any user keeps what is known of all of them.
LEMMA OAuthKeeps == OAuthInv /\ [OAuthNext]_oauthVars => OAuthInv'
<1> SUFFICES ASSUME OAuthInv, [OAuthNext]_oauthVars PROVE OAuthInv'
  OBVIOUS
<1>1. CASE OAuthNext
  BY <1>1, OAuthTypesKept, LocksKept, ReadKept, TokensKeep, SavedKept DEF OAuthInv
<1>2. CASE UNCHANGED oauthVars
  <2>1. UNCHANGED <<creds, flocks, oauthAt, access, tokens, code, awaited, items, current, codes, logins, crossed>>
    BY <1>2 DEF oauthVars
  <2>2. OAuthTypes' /\ LocksRight' /\ ReadRight'
    BY <2>1 DEF OAuthInv, OAuthTypes, LocksRight, OneWriter, ReadRight, At
  <2>3. \A v \in Users : TokensRight(v)'
    BY <2>1 DEF OAuthInv, TokensRight
  <2>4. SavedRight'
    BY <2>1 DEF OAuthInv, SavedRight, SavedIn, Settled, Writing, At
  <2> QED BY <2>2, <2>3, <2>4 DEF OAuthInv
<1> QED BY <1>1, <1>2

\* What is known of the users is enough for what is promised.
LEMMA OAuthIsKept == OAuthInv => TokensKept
<1> SUFFICES ASSUME OAuthInv PROVE TokensKept
  OBVIOUS
<1>1. CredsKept
  <2> SUFFICES ASSUME ~Writing, NEW n \in Names \ crossed, ~Unsaved(n) PROVE TokenOf(creds, n) = current[n]
    BY DEF CredsKept
  <2>1. Settled(n)
    BY DEF Settled, Unsaved
  <2> QED BY <2>1 DEF OAuthInv, SavedRight, SavedIn
<1>2. OneWriter
  BY DEF OAuthInv, LocksRight
<1> QED BY <1>1, <1>2 DEF TokensKept

\* For any users and names, however their loads, cleanups and saves of the one file
\* interleave: no token is lost that was saved, and who loads gets its own.
THEOREM OAuthKeepsTokens == OAuthSpec => []TokensKept
<1>1. OAuthInit => OAuthInv
  BY OAuthStart
<1>2. OAuthInv /\ [OAuthNext]_oauthVars => OAuthInv'
  BY OAuthKeeps
<1>3. OAuthInv => TokensKept
  BY OAuthIsKept
<1> QED BY <1>1, <1>2, <1>3, PTL DEF OAuthSpec

-----------------------------------------------------------------------------
(* The body of a reply                                                     *)

Chunks == Seq(Nat) \ {<<>>}

\* One sequence is that sequence.
LEMMA FlattenOne ==
  ASSUME NEW S, NEW s \in Seq(S)
  PROVE  FlattenSeq(<<s>>) = s
<1>1. <<>> \in Seq(Seq(S)) /\ Append(<<>>, s) = <<s>>
  OBVIOUS
<1>2. FlattenSeq(Append(<<>>, s)) = FlattenSeq(<<>>) \o s
  BY <1>1, FlattenAppend
<1>3. <<>> \o s = s
  BY ConcatEmptySeq
<1> QED BY <1>1, <1>2, <1>3, FlattenEmpty

\* Sequences may be put together in any order.
LEMMA Regrouped == \A S : \A s, t, u \in Seq(S) : (s \o t) \o u = s \o (t \o u)
  BY ConcatAssociative

\* A sequence that comes first is in front of what the others are.
LEMMA FlattenFirst ==
  ASSUME NEW S, NEW s \in Seq(S), NEW seqs \in Seq(Seq(S))
  PROVE  FlattenSeq(<<s>> \o seqs) = s \o FlattenSeq(seqs)
<1> DEFINE Holds(n) == \A q \in Seq(Seq(S)) : Len(q) = n => FlattenSeq(<<s>> \o q) = s \o FlattenSeq(q)
           T == {n \in Nat : ~Holds(n)}
<1>0. <<s>> \in Seq(Seq(S))
  OBVIOUS
<1>1. Holds(0)
  <2> SUFFICES ASSUME NEW q \in Seq(Seq(S)), Len(q) = 0 PROVE FlattenSeq(<<s>> \o q) = s \o FlattenSeq(q)
    OBVIOUS
  <2>1. q = <<>>
    BY EmptySeq
  <2>2. <<s>> \o q = <<s>>
    BY <1>0, <2>1, ConcatEmptySeq
  <2>3. s \o <<>> = s
    BY ConcatEmptySeq
  <2> QED BY <2>1, <2>2, <2>3, FlattenOne, FlattenEmpty
<1>2. ASSUME NEW m \in Nat, Holds(m) PROVE Holds(m + 1)
  <2> SUFFICES ASSUME NEW q \in Seq(Seq(S)), Len(q) = m + 1 PROVE FlattenSeq(<<s>> \o q) = s \o FlattenSeq(q)
    OBVIOUS
  <2>1. m \in 0..Len(q) /\ m + 1 <= Len(q) /\ m + 1 \in 1..Len(q)
    OBVIOUS
  <2>2. PICK p : p = SubSeq(q, 1, m)
    OBVIOUS
  <2>3. PICK x : x = q[m + 1]
    OBVIOUS
  <2>4. p \in Seq(Seq(S)) /\ Len(p) = m /\ x \in Seq(S)
    BY <2>1, <2>2, <2>3, ElementOfSeq
  <2>5. Append(p, x) = q
    <3>1. Append(SubSeq(q, 1, m), q[m + 1]) = SubSeq(q, 1, m + 1)
      BY <2>1, OneMore
    <3>2. SubSeq(q, 1, Len(q)) = q
      OBVIOUS
    <3> QED BY <2>2, <2>3, <3>1, <3>2
  <2>6. FlattenSeq(<<s>> \o p) = s \o FlattenSeq(p)
    BY <1>2, <2>4
  <2>7. <<s>> \o p \in Seq(Seq(S))
    BY <1>0, <2>4, ConcatProperties
  <2>8. Append(<<s>> \o p, x) = <<s>> \o q
    <3>1. <<x>> \in Seq(Seq(S))
      BY <2>4
    <3>2. Append(<<s>> \o p, x) = (<<s>> \o p) \o <<x>>
      BY <2>4, <2>7, AppendIsConcat
    <3>3. Append(p, x) = p \o <<x>>
      BY <2>4, AppendIsConcat
    <3>4. (<<s>> \o p) \o <<x>> = <<s>> \o (p \o <<x>>)
      BY <1>0, <2>4, <3>1, ConcatAssociative
    <3> QED BY <2>5, <3>2, <3>3, <3>4
  <2>9. FlattenSeq(<<s>> \o q) = FlattenSeq(<<s>> \o p) \o x
    BY <2>4, <2>7, <2>8, FlattenAppend
  <2>10. FlattenSeq(q) = FlattenSeq(p) \o x /\ FlattenSeq(p) \in Seq(S)
    BY <2>4, <2>5, FlattenAppend
  <2>11. PICK f \in Seq(S) : f = FlattenSeq(p)
    BY <2>10
  <2>12. (s \o f) \o x = s \o (f \o x)
    <3>1. s \in Seq(S) /\ f \in Seq(S) /\ x \in Seq(S)
      BY <2>4
    <3> QED BY <3>1, Regrouped, SMTT(30)
  <2> QED BY <2>6, <2>9, <2>10, <2>11, <2>12
<1>3. T = {}
  <2> HIDE DEF Holds
  <2> SUFFICES ASSUME T # {} PROVE FALSE
    OBVIOUS
  <2>1. T \in SUBSET Nat
    OBVIOUS
  <2>2. PICK m \in T : \A k \in T : m <= k
    BY <2>1, HasSmallest
  <2>3. m \in Nat /\ ~Holds(m) /\ m # 0
    BY <1>1
  <2>4. m - 1 \in Nat /\ (m - 1) + 1 = m
    BY <2>3
  <2>5. Holds(m - 1)
    BY <2>2, <2>4
  <2> QED BY <1>2, <2>3, <2>4, <2>5
<1>4. Len(seqs) \in Nat
  OBVIOUS
<1>5. Holds(Len(seqs))
  BY <1>3, <1>4
<1> QED BY <1>5

\* What is left of a sequence.
RestOf(s, n, r) == Len(r) = Len(s) - n /\ \A i \in 1..(Len(s) - n) : r[i] = s[n + i]

\* What Rest leaves has what was behind, in its order.
LEMMA RestIs ==
  ASSUME NEW S, NEW s \in Seq(S), NEW n \in Nat, n <= Len(s)
  PROVE  Rest(s, n) \in Seq(S) /\ RestOf(s, n, Rest(s, n))
<1>1. PICK r : r = Rest(s, n)
  OBVIOUS
<1>2. Len(s) \in Nat
  OBVIOUS
<1>3. r \in Seq(S) /\ Len(r) = Len(s) - n /\ \A i \in 1..(Len(s) - n) : r[i] = s[n + i]
  BY <1>1, <1>2 DEF Rest
<1> QED BY <1>1, <1>3 DEF RestOf

\* n bytes less, of what is there and of what it is.
Fewer(b, a, x, y, n) ==
  /\ Rest(b, n) \o a = Rest(x, n) \o y
  /\ SubSeq(b, 1, n) = SubSeq(x, 1, n)
  /\ Rest(b, n) \in Seq(Int) /\ Len(Rest(b, n)) = Len(b) - n

\* What has been read of two sequences that are the same is the same, and so is the rest.
LEMMA DropFront ==
  ASSUME NEW b \in Seq(Int), NEW a \in Seq(Int), NEW x \in Seq(Int), NEW y \in Seq(Int), b \o a = x \o y,
         NEW n \in Nat, n <= Len(b), n <= Len(x)
  PROVE  Fewer(b, a, x, y, n)
<1>1. PICK u : u = b \o a
  OBVIOUS
<1>2. u \in Seq(Int) /\ IsJoin(u, b, a) /\ IsJoin(u, x, y)
  BY <1>1, Behind
<1>3. PICK r : r = Rest(b, n)
  OBVIOUS
<1>4. PICK q : q = Rest(x, n)
  OBVIOUS
<1>5. Len(b) \in Nat /\ Len(x) \in Nat /\ Len(a) \in Nat /\ Len(y) \in Nat
  BY LenProperties
<1>6. r \in Seq(Int) /\ Len(r) = Len(b) - n /\ \A i \in 1..(Len(b) - n) : r[i] = b[n + i]
  BY <1>3, RestIs DEF RestOf
<1>7. q \in Seq(Int) /\ Len(q) = Len(x) - n /\ \A i \in 1..(Len(x) - n) : q[i] = x[n + i]
  BY <1>4, RestIs DEF RestOf
<1>8. PICK v : v = r \o a
  OBVIOUS
<1>9. PICK w : w = q \o y
  OBVIOUS
<1>10. v \in Seq(Int) /\ IsJoin(v, r, a)
  BY <1>6, <1>8, Behind
<1>11. w \in Seq(Int) /\ IsJoin(w, q, y)
  BY <1>7, <1>9, Behind
<1>12. Len(u) = Len(b) + Len(a) /\ Len(u) = Len(x) + Len(y) /\ Len(v) = Len(u) - n /\ Len(w) = Len(u) - n
  BY <1>2, <1>5, <1>6, <1>7, <1>10, <1>11, SMTT(30) DEF IsJoin
<1>13. ASSUME NEW i \in 1..(Len(u) - n) PROVE v[i] = u[n + i]
  <2>1. CASE i <= Len(b) - n
    <3>1. i \in 1..(Len(b) - n) /\ n + i \in 1..Len(b)
      BY <1>5, <1>12, <2>1
    <3> QED BY <1>2, <1>6, <1>10, <3>1 DEF IsJoin
  <2>2. CASE ~(i <= Len(b) - n)
    <3>1. i - (Len(b) - n) \in 1..Len(a)
      BY <1>5, <1>12, <2>2
    <3>2. (Len(b) - n) + (i - (Len(b) - n)) = i /\ Len(b) + (i - (Len(b) - n)) = n + i
      BY <1>5
    <3>3. v[i] = a[i - (Len(b) - n)]
      BY <1>6, <1>10, <3>1, <3>2 DEF IsJoin
    <3>4. u[n + i] = a[i - (Len(b) - n)]
      BY <1>2, <3>1, <3>2 DEF IsJoin
    <3> QED BY <3>3, <3>4
  <2> QED BY <2>1, <2>2
<1>14. ASSUME NEW i \in 1..(Len(u) - n) PROVE w[i] = u[n + i]
  <2>1. CASE i <= Len(x) - n
    <3>1. i \in 1..(Len(x) - n) /\ n + i \in 1..Len(x)
      BY <1>5, <1>12, <2>1
    <3> QED BY <1>2, <1>7, <1>11, <3>1 DEF IsJoin
  <2>2. CASE ~(i <= Len(x) - n)
    <3>1. i - (Len(x) - n) \in 1..Len(y)
      BY <1>5, <1>12, <2>2
    <3>2. (Len(x) - n) + (i - (Len(x) - n)) = i /\ Len(x) + (i - (Len(x) - n)) = n + i
      BY <1>5
    <3>3. w[i] = y[i - (Len(x) - n)]
      BY <1>7, <1>11, <3>1, <3>2 DEF IsJoin
    <3>4. u[n + i] = y[i - (Len(x) - n)]
      BY <1>2, <3>1, <3>2 DEF IsJoin
    <3> QED BY <3>3, <3>4
  <2> QED BY <2>1, <2>2
<1>15. v = w
  <2>1. \A i \in 1..Len(v) : v[i] = w[i]
    BY <1>12, <1>13, <1>14
  <2> QED BY <1>10, <1>11, <1>12, <2>1, SeqEqual
<1>16. SubSeq(b, 1, n) = SubSeq(x, 1, n)
  <2>1. PICK f : f = SubSeq(b, 1, n)
    OBVIOUS
  <2>2. PICK g : g = SubSeq(x, 1, n)
    OBVIOUS
  <2>3. f \in Seq(Int) /\ Len(f) = n /\ \A i \in 1..n : f[i] = b[i]
    BY <1>5, <2>1
  <2>4. g \in Seq(Int) /\ Len(g) = n /\ \A i \in 1..n : g[i] = x[i]
    BY <1>5, <2>2
  <2>5. \A i \in 1..n : i \in 1..Len(b) /\ i \in 1..Len(x)
    BY <1>5
  <2>6. \A i \in 1..n : b[i] = x[i]
    BY <1>2, <2>5 DEF IsJoin
  <2>7. f = g
    BY <2>3, <2>4, <2>6, SeqEqual
  <2> QED BY <2>1, <2>2, <2>7
<1> QED BY <1>3, <1>4, <1>6, <1>8, <1>9, <1>15, <1>16 DEF Fewer

SizeMarks(n) == <<Size(n), CR, LF>>

\* The marks of a chunk are numbers of their own, that no byte is.
LEMMA MarksAre ==
  /\ CR \in Int /\ LF \in Int /\ NUL \in Int /\ <<CR, LF>> \in Seq(Int) /\ Len(<<CR, LF>>) = 2
  /\ \A n \in Nat : /\ Size(n) \in Int /\ SizeMarks(n) \in Seq(Int) /\ Len(SizeMarks(n)) = 3
                    /\ SizeMarks(n)[1] = Size(n) /\ SizeMarks(n)[2] = CR /\ SizeMarks(n)[3] = LF
  BY DEF CR, LF, NUL, Size, SizeMarks

\* Bytes and marks put together are bytes and marks, in whatever order it is done.
LEMMA IntRegroup == \A s, t, u \in Seq(Int) : (s \o t) \o u = s \o (t \o u) /\ s \o t \in Seq(Int)
  BY ConcatAssociative, ConcatProperties, SMTT(30)

\* The same, the equation alone.
LEMMA RegroupInts == \A s, t, u \in Seq(Int) : (s \o t) \o u = s \o (t \o u)
<1> SUFFICES ASSUME NEW s \in Seq(Int), NEW t \in Seq(Int), NEW u \in Seq(Int) PROVE (s \o t) \o u = s \o (t \o u)
  OBVIOUS
<1> QED BY ConcatAssociative, SMTT(30)

\* The parts of a framed chunk and what follows it, however they are put together.
FourParts(m, c, q, w) == ((m \o c) \o q) \o w = m \o (c \o (q \o w))

\* Four of them, one behind the other.
LEMMA FourRegroup ==
  \A m, c, q, w \in Seq(Int) : ((m \o c) \o q) \o w = m \o (c \o (q \o w))
<1> SUFFICES ASSUME NEW m \in Seq(Int), NEW c \in Seq(Int), NEW q \in Seq(Int), NEW w \in Seq(Int)
             PROVE  ((m \o c) \o q) \o w = m \o (c \o (q \o w))
  OBVIOUS
<1>1. m \o c \in Seq(Int)
  BY IntRegroup
<1>2. q \o w \in Seq(Int)
  BY IntRegroup
<1>3. ((m \o c) \o q) \o w = (m \o c) \o (q \o w)
  BY <1>1, RegroupInts, Zenon
<1>4. (m \o c) \o (q \o w) = m \o (c \o (q \o w))
  BY <1>2, RegroupInts, SMTT(30)
<1> QED BY <1>3, <1>4, Zenon

\* And with a name, for where many sequences are about.
LEMMA FourJoined == \A m, c, q, w \in Seq(Int) : FourParts(m, c, q, w)
  BY FourRegroup DEF FourParts

\* Bytes are numbers.
LEMMA BytesAreInt == \A c \in Seq(Nat) : c \in Seq(Int)
  OBVIOUS

\* The bytes of a reply whose body is empty.
LEMMA EncodedNone == Encoded(<<>>) = SizeMarks(0) \o <<CR, LF>>
<1>1. [i \in 1..Len(<<>>) |-> <<Size(Len(<<>>[i])), CR, LF>> \o <<>>[i] \o <<CR, LF>>] = <<>>
  OBVIOUS
<1>2. Encoded(<<>>) = <<>> \o <<Size(0), CR, LF, CR, LF>>
  BY <1>1, FlattenEmpty DEF Encoded
<1>3. <<Size(0), CR, LF, CR, LF>> \in Seq(Int)
  BY MarksAre
<1>4. Encoded(<<>>) = <<Size(0), CR, LF, CR, LF>>
  BY <1>2, <1>3, ConcatEmptySeq
<1>5. <<Size(0), CR, LF, CR, LF>> = <<Size(0), CR, LF>> \o <<CR, LF>>
  OBVIOUS
<1> QED BY <1>4, <1>5 DEF SizeMarks

\* A chunk behind its size.
Framed(c) == SizeMarks(Len(c)) \o c \o <<CR, LF>>

\* A chunk with its size is bytes and marks.
LEMMA FramedIs ==
  ASSUME NEW c \in Seq(Nat)
  PROVE  Framed(c) \in Seq(Int)
<1>1. c \in Seq(Int) /\ Len(c) \in Nat
  OBVIOUS
<1>2. SizeMarks(Len(c)) \in Seq(Int) /\ <<CR, LF>> \in Seq(Int)
  BY <1>1, MarksAre
<1> QED BY <1>1, <1>2, IntRegroup DEF Framed

\* The reply is its chunks, each framed, and the end.
LEMMA EncodedIs ==
  ASSUME NEW t \in Seq(Chunks)
  PROVE  /\ [i \in 1..Len(t) |-> Framed(t[i])] \in Seq(Seq(Int))
         /\ Encoded(t) = FlattenSeq([i \in 1..Len(t) |-> Framed(t[i])]) \o (SizeMarks(0) \o <<CR, LF>>)
         /\ Encoded(t) \in Seq(Int)
<1>1. \A i \in 1..Len(t) : t[i] \in Seq(Nat)
  BY ElementOfSeq DEF Chunks
<1>2. Len(t) \in Nat
  OBVIOUS
<1>3. PICK e : e = [i \in 1..Len(t) |-> Framed(t[i])]
  OBVIOUS
<1>4. e \in Seq(Seq(Int))
  <2>1. \A i \in 1..Len(t) : Framed(t[i]) \in Seq(Int)
    BY <1>1, FramedIs
  <2> QED BY <1>2, <1>3, <2>1
<1>5. FlattenSeq(e) \in Seq(Int)
  BY <1>4, FlattenAppend, <<>> \in Seq(Int)
<1>6. <<Size(0), CR, LF, CR, LF>> = SizeMarks(0) \o <<CR, LF>>
  BY DEF SizeMarks
<1>7. SizeMarks(0) \o <<CR, LF>> \in Seq(Int)
  BY MarksAre, IntRegroup, 0 \in Nat
<1>8. Encoded(t) = FlattenSeq(e) \o (SizeMarks(0) \o <<CR, LF>>)
  <2>1. e = [i \in 1..Len(t) |-> <<Size(Len(t[i])), CR, LF>> \o t[i] \o <<CR, LF>>]
    BY <1>3 DEF Framed, SizeMarks
  <2> QED BY <1>6, <2>1 DEF Encoded
<1>9. Encoded(t) \in Seq(Int)
  BY <1>5, <1>7, <1>8, IntRegroup
<1> QED BY <1>3, <1>4, <1>8, <1>9

\* The bytes of a reply, chunk after chunk.
LEMMA EncodedFirst ==
  ASSUME NEW c \in Chunks, NEW r \in Seq(Chunks)
  PROVE  /\ <<c>> \o r \in Seq(Chunks)
         /\ Encoded(<<c>> \o r) = SizeMarks(Len(c)) \o (c \o (<<CR, LF>> \o Encoded(r)))
         /\ FlattenSeq(<<c>> \o r) = c \o FlattenSeq(r)
         /\ FlattenSeq(r) \in Seq(Nat)
<1>1. PICK t : t = <<c>> \o r
  OBVIOUS
<1>2. <<c>> \in Seq(Chunks) /\ t \in Seq(Chunks) /\ Len(t) = Len(r) + 1 /\ t[1] = c /\ Len(r) \in Nat
      /\ \A i \in 1..Len(r) : t[i + 1] = r[i]
  <2>1. <<c>> \in Seq(Chunks) /\ Len(<<c>>) = 1 /\ <<c>>[1] = c
    OBVIOUS
  <2>2. t \in Seq(Chunks) /\ IsJoin(t, <<c>>, r)
    BY <1>1, <2>1, Behind
  <2>3. Len(r) \in Nat
    OBVIOUS
  <2>4. \A i \in 1..Len(r) : 1 + i = i + 1
    OBVIOUS
  <2> QED BY <2>1, <2>2, <2>3, <2>4 DEF IsJoin
<1>3. PICK e : e = [i \in 1..Len(t) |-> Framed(t[i])]
  OBVIOUS
<1>4. PICK f : f = [i \in 1..Len(r) |-> Framed(r[i])]
  OBVIOUS
<1>5. PICK z : z = SizeMarks(0) \o <<CR, LF>>
  OBVIOUS
<1>6. e \in Seq(Seq(Int)) /\ Encoded(t) = FlattenSeq(e) \o z
  BY <1>2, <1>3, <1>5, EncodedIs
<1>7. f \in Seq(Seq(Int)) /\ Encoded(r) = FlattenSeq(f) \o z /\ Encoded(r) \in Seq(Int) /\ z \in Seq(Int)
  BY <1>4, <1>5, EncodedIs, MarksAre, IntRegroup, 0 \in Nat
<1>8. PICK g : g = Framed(c)
  OBVIOUS
<1>9. c \in Seq(Nat) /\ c \in Seq(Int) /\ g \in Seq(Int)
  BY <1>8, FramedIs, BytesAreInt DEF Chunks
<1>10. e = <<g>> \o f
  <2>1. PICK h : h = <<g>> \o f
    OBVIOUS
  <2>2. <<g>> \in Seq(Seq(Int)) /\ Len(<<g>>) = 1 /\ <<g>>[1] = g
    BY <1>9
  <2>3. h \in Seq(Seq(Int)) /\ IsJoin(h, <<g>>, f)
    BY <1>7, <2>1, <2>2, Behind
  <2>4. Len(f) = Len(r) /\ Len(e) = Len(r) + 1
    BY <1>2, <1>3, <1>4
  <2>5. h[1] = g /\ Len(h) = Len(r) + 1 /\ \A i \in 1..Len(r) : h[1 + i] = f[i]
    BY <1>2, <2>2, <2>3, <2>4 DEF IsJoin
  <2>6. e[1] = g
    BY <1>2, <1>3, <1>8
  <2>7. ASSUME NEW i \in 1..Len(r) PROVE e[1 + i] = f[i]
    <3>1. 1 + i \in 1..Len(t) /\ 1 + i = i + 1
      BY <1>2
    <3>2. e[1 + i] = Framed(t[1 + i]) /\ f[i] = Framed(r[i])
      BY <1>3, <1>4, <3>1
    <3> QED BY <1>2, <3>1, <3>2
  <2>8. ASSUME NEW k \in 1..Len(e) PROVE e[k] = h[k]
    <3>1. CASE k = 1
      BY <2>5, <2>6, <3>1
    <3>2. CASE k # 1
      <4>1. k - 1 \in 1..Len(r) /\ 1 + (k - 1) = k
        BY <1>2, <2>4, <3>2
      <4> QED BY <2>5, <2>7, <4>1
    <3> QED BY <3>1, <3>2
  <2>9. e = h
    BY <1>6, <2>3, <2>4, <2>5, <2>8, SeqEqual
  <2> QED BY <2>1, <2>9
<1>11. FlattenSeq(e) = g \o FlattenSeq(f)
  BY <1>7, <1>9, <1>10, FlattenFirst
<1>12. PICK y : y = FlattenSeq(f)
  OBVIOUS
<1>13. y \in Seq(Int)
  BY <1>7, <1>12, FlattenAppend, <<>> \in Seq(Int)
<1>14. PICK m : m = SizeMarks(Len(c))
  OBVIOUS
<1>15. PICK q : q = <<CR, LF>>
  OBVIOUS
<1>16. m \in Seq(Int) /\ q \in Seq(Int)
  BY <1>9, <1>14, <1>15, MarksAre, LenProperties
<1>17. g = (m \o c) \o q
  BY <1>8, <1>14, <1>15 DEF Framed
<1>18. (g \o y) \o z = m \o (c \o (q \o (y \o z)))
  <2>1. PICK w : w = y \o z
    OBVIOUS
  <2>2. m \in Seq(Int) /\ c \in Seq(Int) /\ q \in Seq(Int) /\ w \in Seq(Int)
    BY <1>7, <1>9, <1>13, <1>16, <2>1, IntRegroup
  <2>4. ((m \o c) \o q) \o w = m \o (c \o (q \o w))
    <3>1. FourParts(m, c, q, w)
      BY <2>2, FourJoined, Zenon
    <3> QED BY <3>1 DEF FourParts
  <2>3. (g \o y) \o z = g \o (y \o z)
    BY <1>7, <1>9, <1>13, RegroupInts
  <2> QED BY <1>17, <2>1, <2>3, <2>4
<1>19. Encoded(t) = m \o (c \o (q \o Encoded(r)))
  BY <1>6, <1>7, <1>11, <1>12, <1>17, <1>18
<1>20. r \in Seq(Seq(Nat))
  BY SeqMonotonic DEF Chunks
<1>21. FlattenSeq(t) = c \o FlattenSeq(r)
  BY <1>1, <1>9, <1>20, FlattenFirst
<1>22. FlattenSeq(r) \in Seq(Nat)
  BY <1>20, FlattenAppend, <<>> \in Seq(Nat)
<1> QED BY <1>1, <1>2, <1>14, <1>15, <1>19, <1>21, <1>22

-----------------------------------------------------------------------------
(* The line with a size                                                    *)

\* What is there of the end of the chunk before, which has n bytes, and of the line with size k.
Fronts(bytes, n, k) ==
  \A i \in 1..Len(bytes) :
    /\ n = 2 /\ i = 1 => bytes[i] = CR
    /\ n = 2 /\ i = 2 => bytes[i] = LF
    /\ i = n + 1 => bytes[i] = Size(k)
    /\ i = n + 2 => bytes[i] = CR
    /\ i = n + 3 => bytes[i] = LF

\* What is skipped in front of a size is the end of the chunk before it, as far as it is there.
LEMMA SkippedIs ==
  ASSUME NEW bytes \in Seq(Int), NEW n \in {0, 2}, NEW k \in Nat, Fronts(bytes, n, k)
  PROVE  Skipped(bytes) = IF Len(bytes) >= n THEN n ELSE Len(bytes)
<1>1. Len(bytes) \in Nat /\ (bytes # <<>> => Head(bytes) = bytes[1] /\ Len(bytes) >= 1)
  BY EmptySeq
<1>2. CASE bytes = <<>>
  <2>1. Len(bytes) = 0
    BY <1>2
  <2> QED BY <1>2, <2>1 DEF Skipped
<1>3. CASE bytes # <<>> /\ n = 0
  <2>1. bytes[1] = Size(k) /\ 1 \in 1..Len(bytes)
    BY <1>1, <1>3 DEF Fronts
  <2>2. bytes[1] # CR /\ bytes[1] # LF
    BY <2>1 DEF Size, CR, LF
  <2> QED BY <1>1, <1>3, <2>2 DEF Skipped
<1>4. CASE bytes # <<>> /\ n = 2
  <2>1. bytes[1] = CR /\ 1 \in 1..Len(bytes)
    BY <1>1, <1>4 DEF Fronts
  <2>2. Len(bytes) > 1 => bytes[2] = LF
    <3>1. Len(bytes) > 1 => 2 \in 1..Len(bytes)
      BY <1>1
    <3> QED BY <1>4, <3>1 DEF Fronts
  <2> QED BY <1>1, <1>4, <2>1, <2>2 DEF Skipped
<1> QED BY <1>2, <1>3, <1>4

\* First finds the first place of a symbol, or none.
LEMMA FirstIs ==
  ASSUME NEW bytes \in Seq(Int), NEW from \in Nat, NEW symbol
  PROVE  /\ \A p \in from..Len(bytes) :
               bytes[p] = symbol /\ (\A i \in from..Len(bytes) : bytes[i] = symbol => p <= i)
                 => First(symbol, bytes, from) = p
         /\ (\A i \in from..Len(bytes) : bytes[i] # symbol) => First(symbol, bytes, from) = 0
         /\ \/ First(symbol, bytes, from) = 0
            \/ First(symbol, bytes, from) \in from..Len(bytes) /\ bytes[First(symbol, bytes, from)] = symbol
<1>1. PICK places : places = {i \in from..Len(bytes) : bytes[i] = symbol}
  OBVIOUS
<1>2. First(symbol, bytes, from) = IF places = {} THEN 0 ELSE CHOOSE i \in places : \A j \in places : i <= j
  BY <1>1 DEF First
<1>3. places \in SUBSET Nat
  BY <1>1
<1>4. places # {} => \E i \in places : \A j \in places : i <= j
  BY <1>3, HasSmallest
<1>5. places # {} => /\ First(symbol, bytes, from) \in places
                     /\ \A j \in places : First(symbol, bytes, from) <= j
  BY <1>2, <1>4
<1>6. ASSUME NEW p \in from..Len(bytes), bytes[p] = symbol,
             \A i \in from..Len(bytes) : bytes[i] = symbol => p <= i
      PROVE  First(symbol, bytes, from) = p
  <2>1. p \in places
    BY <1>1, <1>6
  <2>2. PICK q \in places : q = First(symbol, bytes, from)
    BY <1>5, <2>1
  <2>3. q <= p /\ p <= q /\ q \in Nat /\ p \in Nat
    BY <1>1, <1>3, <1>5, <1>6, <2>1, <2>2
  <2> QED BY <2>2, <2>3
<1> QED BY <1>1, <1>2, <1>5, <1>6

\* Where the line with the size ends, and what it says.
LEMMA SizeLineIs ==
  ASSUME NEW bytes \in Seq(Int), NEW n \in {0, 2}, NEW k \in Nat, Fronts(bytes, n, k), NEW last \in BOOLEAN,
         Len(bytes) >= n + 3
  PROVE  LineEnd(bytes, last) = n + 3 /\ SizeOf(bytes, n + 3) = k
<1>1. PICK m \in Nat : m = Len(bytes)
  OBVIOUS
<1>2. PICK s \in Nat : s = Skipped(bytes) /\ s = IF m >= n THEN n ELSE m
  BY <1>1, SkippedIs
<1>3. PICK lf : lf = First(LF, bytes, s + 1)
  OBVIOUS
<1>4. PICK cr : cr = First(CR, bytes, s + 1)
  OBVIOUS
<1>5. LineEnd(bytes, last) = IF lf > 0 \/ ~last THEN lf ELSE IF cr > 0 THEN cr ELSE m + 1
  BY <1>1, <1>2, <1>3, <1>4 DEF LineEnd, AsLine
<1>6. s + 1 \in Nat
  OBVIOUS
<1>7. \A i \in (s + 1)..m : i \in 1..Len(bytes)
  BY <1>1
<1>8. \A i \in (s + 1)..m : /\ i = n + 1 => bytes[i] = Size(k)
                            /\ i = n + 2 => bytes[i] = CR
                            /\ i = n + 3 => bytes[i] = LF
  BY <1>7 DEF Fronts
<1>9. Size(k) # CR /\ Size(k) # LF /\ CR # LF
  BY DEF Size, CR, LF
<1>15. m >= n + 3
  BY <1>1
<1>21. s = n
  BY <1>2, <1>15
<1>22. n + 3 \in (s + 1)..m /\ n + 1 \in (s + 1)..m /\ n + 2 \in (s + 1)..m
  BY <1>15, <1>21
<1>23. bytes[n + 3] = LF /\ bytes[n + 1] = Size(k) /\ bytes[n + 2] = CR
  BY <1>8, <1>22
<1>24. \A i \in (s + 1)..m : bytes[i] = LF => n + 3 <= i
  <2>1. \A i \in (s + 1)..m : i = n + 1 \/ i = n + 2 \/ n + 3 <= i
    BY <1>21
  <2> QED BY <1>9, <1>23, <2>1
<1>25. lf = n + 3
  BY <1>1, <1>3, <1>6, <1>22, <1>23, <1>24, FirstIs
<1>26. LineEnd(bytes, last) = n + 3
  <2>1. n + 3 > 0
    OBVIOUS
  <2>2. lf > 0
    BY <1>25, <2>1
  <2> QED BY <1>5, <1>25, <2>2
<1>27. SizeOf(bytes, n + 3) = k
  BY <1>2, <1>21, <1>23, SMTT(30) DEF SizeOf, Size
<1> QED BY <1>26, <1>27

\* And as far as it is there.
LEMMA PartOfLine ==
  ASSUME NEW bytes \in Seq(Int), NEW n \in {0, 2}, NEW k \in Nat, Fronts(bytes, n, k), NEW last \in BOOLEAN,
         Len(bytes) < n + 3
  PROVE  /\ ~last => LineEnd(bytes, last) = 0
         /\ Len(bytes) = n + 2 /\ last => LineEnd(bytes, last) = n + 2 /\ SizeOf(bytes, n + 2) = k
         /\ Len(bytes) < n + 2 /\ last => LineEnd(bytes, last) = Len(bytes) + 1
         /\ Len(bytes) < n + 1 => SizeOf(bytes, Len(bytes) + 1) = 0
<1>1. PICK m \in Nat : m = Len(bytes)
  OBVIOUS
<1>2. PICK s \in Nat : s = Skipped(bytes) /\ s = IF m >= n THEN n ELSE m
  BY <1>1, SkippedIs
<1>3. PICK lf : lf = First(LF, bytes, s + 1)
  OBVIOUS
<1>4. PICK cr : cr = First(CR, bytes, s + 1)
  OBVIOUS
<1>5. LineEnd(bytes, last) = IF lf > 0 \/ ~last THEN lf ELSE IF cr > 0 THEN cr ELSE m + 1
  BY <1>1, <1>2, <1>3, <1>4 DEF LineEnd, AsLine
<1>6. s + 1 \in Nat
  OBVIOUS
<1>7. \A i \in (s + 1)..m : i \in 1..Len(bytes)
  BY <1>1
<1>8. \A i \in (s + 1)..m : /\ i = n + 1 => bytes[i] = Size(k)
                            /\ i = n + 2 => bytes[i] = CR
                            /\ i = n + 3 => bytes[i] = LF
  BY <1>7 DEF Fronts
<1>9. Size(k) # CR /\ Size(k) # LF /\ CR # LF
  BY DEF Size, CR, LF
<1>15. m < n + 3
  BY <1>1
<1>21. \A i \in (s + 1)..m : i = n + 1 \/ i = n + 2
  BY <1>2, <1>15
<1>22. \A i \in (s + 1)..m : bytes[i] # LF
  BY <1>8, <1>9, <1>21
<1>23. lf = 0
  BY <1>1, <1>3, <1>6, <1>22, FirstIs
<1>24. ~last => LineEnd(bytes, last) = 0
  BY <1>5, <1>23
<1>25. ASSUME m = n + 2, last PROVE LineEnd(bytes, last) = n + 2 /\ SizeOf(bytes, n + 2) = k
  <2>1. s = n /\ n + 1 \in (s + 1)..m /\ n + 2 \in (s + 1)..m
    BY <1>2, <1>25
  <2>2. bytes[n + 1] = Size(k) /\ bytes[n + 2] = CR
    BY <1>8, <2>1
  <2>3. ASSUME NEW i \in (s + 1)..m, bytes[i] = CR PROVE n + 2 <= i
    <3>1. i # n + 1
      BY <1>9, <2>2, <2>3
    <3>2. i = n + 2
      BY <1>21, <3>1
    <3>3. n + 2 \in Nat
      OBVIOUS
    <3> QED BY <3>2, <3>3
  <2>4. cr = n + 2
    BY <1>1, <1>4, <1>6, <2>1, <2>2, <2>3, FirstIs
  <2>5. LineEnd(bytes, last) = n + 2
    BY <1>5, <1>23, <1>25, <2>4
  <2>6. SizeOf(bytes, n + 2) = k
    BY <1>2, <2>1, <2>2 DEF SizeOf, Size
  <2> QED BY <2>5, <2>6
<1>26. ASSUME m < n + 2, last PROVE LineEnd(bytes, last) = m + 1
  <2>1. \A i \in (s + 1)..m : i = n + 1
    BY <1>21, <1>26
  <2>2. \A i \in (s + 1)..m : bytes[i] # CR
    BY <1>8, <1>9, <2>1
  <2>3. cr = 0
    BY <1>1, <1>4, <1>6, <2>2, FirstIs
  <2> QED BY <1>5, <1>23, <1>26, <2>3
<1>27. m < n + 1 => SizeOf(bytes, m + 1) = 0
  BY <1>2 DEF SizeOf
<1> QED BY <1>1, <1>15, <1>24, <1>25, <1>26, <1>27

-----------------------------------------------------------------------------
(* Where the reader of a body is                                           *)

\* What of the reply has not been read.
Coming == SubSeq(wire, pulled + 1, Len(wire))

Breaks == {<<>>, <<CR, LF>>}

\* The reader is at the end of a chunk, and rest are the chunks still to come.
AtChunk(bytes, after, out, all, lead, rest) ==
  bytes \o after = lead \o Encoded(rest) /\ all = out \o FlattenSeq(rest)

AtSize(bytes, after, out, all) ==
  \E lead \in Breaks, rest \in Seq(Chunks) : AtChunk(bytes, after, out, all, lead, rest)

\* It is in a chunk, of which c is left.
InsideOf(bytes, after, out, all, c, rest) ==
  bytes \o after = c \o (<<CR, LF>> \o Encoded(rest)) /\ all = out \o (c \o FlattenSeq(rest))

InChunk(bytes, after, size, out, all) ==
  size > 0 /\ \E c \in Seq(Nat), rest \in Seq(Chunks) : size = Len(c) /\ InsideOf(bytes, after, out, all, c, rest)

\* It has read that no chunk follows.
NoneLeft(bytes, n) ==
  /\ Len(bytes) >= n + 2 /\ bytes[n + 1] = Size(0) /\ bytes[n + 2] = CR
  /\ n = 2 => bytes[1] = CR /\ bytes[2] = LF

AtEnd(bytes, out, all) == out = all /\ \E n \in {0, 2} : NoneLeft(bytes, n)

IsStartOf(out, all) == \E x \in Seq(Nat) : all = out \o x

-----------------------------------------------------------------------------
\* The sizes and chunks still to come, one by one.
LEMMA TransferIs ==
  ASSUME NEW rest \in Seq(Chunks)
  PROVE  /\ Encoded(rest) \in Seq(Int) /\ FlattenSeq(rest) \in Seq(Nat)
         /\ rest = <<>> => Encoded(rest) = SizeMarks(0) \o <<CR, LF>> /\ FlattenSeq(rest) = <<>>
         /\ rest # <<>> => \E c \in Chunks, r \in Seq(Chunks) :
              /\ Encoded(rest) = SizeMarks(Len(c)) \o (c \o (<<CR, LF>> \o Encoded(r)))
              /\ FlattenSeq(rest) = c \o FlattenSeq(r)
<1>1. Encoded(rest) \in Seq(Int)
  BY EncodedIs
<1>2. rest \in Seq(Seq(Nat))
  BY SeqMonotonic DEF Chunks
<1>3. FlattenSeq(rest) \in Seq(Nat)
  BY <1>2, FlattenAppend, <<>> \in Seq(Nat)
<1>4. ASSUME rest = <<>> PROVE Encoded(rest) = SizeMarks(0) \o <<CR, LF>> /\ FlattenSeq(rest) = <<>>
  BY <1>4, EncodedNone, FlattenEmpty
<1>5. ASSUME rest # <<>>
      PROVE  \E c \in Chunks, r \in Seq(Chunks) :
               /\ Encoded(rest) = SizeMarks(Len(c)) \o (c \o (<<CR, LF>> \o Encoded(r)))
               /\ FlattenSeq(rest) = c \o FlattenSeq(r)
  <2>1. rest = <<Head(rest)>> \o Tail(rest) /\ Head(rest) \in Chunks /\ Tail(rest) \in Seq(Chunks)
    BY <1>5
  <2>2. PICK c \in Chunks, r \in Seq(Chunks) : rest = <<c>> \o r
    BY <2>1
  <2> QED BY <2>2, EncodedFirst
<1> QED BY <1>1, <1>3, <1>4, <1>5

\* What stands at the front of what is left of the reply.
Facing(bytes, after, n, k, y) ==
  /\ Fronts(bytes, n, k)
  /\ Len(bytes) >= n + 3 => Rest(bytes, n + 3) \o after = y /\ Rest(bytes, n + 3) \in Seq(Int)
  /\ Len(bytes) < n + 3 => after # <<>>

\* The front of what is left of the reply, when a size is to be read.
LEMMA FrontIs ==
  ASSUME NEW bytes \in Seq(Int), NEW after \in Seq(Int), NEW lead \in Breaks, NEW k \in Nat, NEW y \in Seq(Int),
         bytes \o after = lead \o (SizeMarks(k) \o y)
  PROVE  \E n \in {0, 2} : Facing(bytes, after, n, k, y)
<1>1. PICK x : x = lead \o SizeMarks(k)
  OBVIOUS
<1>2. PICK n : n = Len(lead)
  OBVIOUS
<1>3. lead \in Seq(Int) /\ n \in {0, 2} /\ (n = 2 => lead[1] = CR /\ lead[2] = LF)
  <2>1. lead = <<>> \/ lead = <<CR, LF>>
    BY DEF Breaks
  <2>2. CASE lead = <<>>
    <3>1. n = 0
      BY <1>2, <2>2
    <3>2. lead \in Seq(Int)
      BY <2>2
    <3> QED BY <3>1, <3>2
  <2>3. CASE lead = <<CR, LF>>
    <3>1. n = 2 /\ lead[1] = CR /\ lead[2] = LF
      BY <1>2, <2>3
    <3> QED BY <2>3, <3>1, MarksAre
  <2> QED BY <2>1, <2>2, <2>3
<1>4. SizeMarks(k) \in Seq(Int) /\ Len(SizeMarks(k)) = 3
      /\ SizeMarks(k)[1] = Size(k) /\ SizeMarks(k)[2] = CR /\ SizeMarks(k)[3] = LF
  BY MarksAre
<1>5. x \in Seq(Int) /\ IsJoin(x, lead, SizeMarks(k))
  BY <1>1, <1>3, <1>4, Behind
<1>6. lead \o (SizeMarks(k) \o y) = x \o y
  BY <1>1, <1>3, <1>4, RegroupInts
<1>7. PICK u : u = bytes \o after
  OBVIOUS
<1>8. IsJoin(u, bytes, after) /\ IsJoin(u, x, y)
  BY <1>5, <1>6, <1>7, Behind
<1>9. Len(x) = n + 3 /\ n + 3 \in Nat /\ Len(bytes) \in Nat
  BY <1>2, <1>3, <1>4, <1>5 DEF IsJoin
<1>10. \A i \in 1..n : x[i] = lead[i]
  BY <1>2, <1>5 DEF IsJoin
<1>11. x[n + 1] = Size(k) /\ x[n + 2] = CR /\ x[n + 3] = LF
  BY <1>2, <1>4, <1>5 DEF IsJoin
<1>12. ASSUME NEW i \in 1..Len(bytes)
       PROVE  /\ n = 2 /\ i = 1 => bytes[i] = CR
              /\ n = 2 /\ i = 2 => bytes[i] = LF
              /\ i = n + 1 => bytes[i] = Size(k)
              /\ i = n + 2 => bytes[i] = CR
              /\ i = n + 3 => bytes[i] = LF
  <2>1. u[i] = bytes[i]
    BY <1>8 DEF IsJoin
  <2>2. i <= n + 3 => u[i] = x[i]
    <3>1. i <= n + 3 => i \in 1..Len(x)
      BY <1>9
    <3> QED BY <1>8, <3>1 DEF IsJoin
  <2>3. i <= n => x[i] = lead[i]
    <3>1. i <= n => i \in 1..n
      BY <1>3
    <3> QED BY <1>10, <3>1
  <2>4. i <= n + 3 => bytes[i] = x[i]
    BY <2>1, <2>2
  <2>5. n = 2 /\ i = 1 => bytes[i] = CR
    BY <1>3, <2>3, <2>4
  <2>6. n = 2 /\ i = 2 => bytes[i] = LF
    BY <1>3, <2>3, <2>4
  <2>7. i = n + 1 \/ i = n + 2 \/ i = n + 3 => i <= n + 3
    BY <1>3
  <2> QED BY <1>11, <2>4, <2>5, <2>6, <2>7
<1>13. ASSUME Len(bytes) >= n + 3
       PROVE  Rest(bytes, n + 3) \o after = y /\ Rest(bytes, n + 3) \in Seq(Int)
  <2>1. PICK e : e = Rest(x, n + 3)
    OBVIOUS
  <2>2. Rest(bytes, n + 3) \o after = e \o y /\ Rest(bytes, n + 3) \in Seq(Int)
    <3>1. bytes \o after = x \o y /\ n + 3 \in Nat /\ n + 3 <= Len(bytes) /\ n + 3 <= Len(x) /\ x \in Seq(Int)
      BY <1>5, <1>6, <1>9, <1>13
    <3>2. Fewer(bytes, after, x, y, n + 3)
      BY <3>1, DropFront
    <3> QED BY <2>1, <3>2 DEF Fewer
  <2>3. e = <<>>
    BY <1>5, <1>9, <2>1 DEF Rest
  <2> QED BY <2>2, <2>3, ConcatEmptySeq
<1>14. ASSUME Len(bytes) < n + 3 PROVE after # <<>>
  <2>1. Len(u) = Len(bytes) + Len(after) /\ Len(u) = (n + 3) + Len(y) /\ Len(y) \in Nat
    BY <1>8, <1>9 DEF IsJoin
  <2>2. Len(after) # 0
    BY <1>3, <1>9, <1>14, <2>1
  <2> QED BY <2>2
<1>15. Fronts(bytes, n, k)
  BY <1>12 DEF Fronts
<1>16. Facing(bytes, after, n, k, y)
  BY <1>13, <1>14, <1>15 DEF Facing
<1> QED BY <1>3, <1>16

\* The bytes of a chunk in two parts.
LEMMA PartsOf ==
  ASSUME NEW c \in Seq(Nat), NEW n \in Nat, n <= Len(c)
  PROVE  /\ SubSeq(c, 1, n) \in Seq(Nat) /\ Rest(c, n) \in Seq(Nat) /\ Len(Rest(c, n)) = Len(c) - n
         /\ c = SubSeq(c, 1, n) \o Rest(c, n)
<1>1. Len(c) \in Nat /\ n \in 0..Len(c)
  OBVIOUS
<1>2. SubSeq(c, 1, Len(c)) = c
  OBVIOUS
<1>3. SubSeq(c, 1, n) \o Rest(c, n) = SubSeq(c, 1, Len(c))
  BY <1>1, TwoParts DEF Rest
<1>4. SubSeq(c, 1, n) \in Seq(Nat)
  BY <1>1
<1>5. Rest(c, n) \in Seq(Nat) /\ Len(Rest(c, n)) = Len(c) - n
  BY RestIs DEF RestOf
<1> QED BY <1>2, <1>3, <1>4, <1>5

\* Bytes put together are bytes, in whatever order it is done.
LEMMA NatRegroup == \A s, t, u \in Seq(Nat) : (s \o t) \o u = s \o (t \o u) /\ s \o t \in Seq(Nat)
  BY ConcatAssociative, ConcatProperties

\* The same, the equation alone.
LEMMA NatsRegroup == \A s, t, u \in Seq(Nat) : (s \o t) \o u = s \o (t \o u)
  BY NatRegroup

\* What came out, a part of the chunk, the rest of it and what follows, however they are put together.
OutParts(out, p, r, f) == out \o ((p \o r) \o f) = (out \o p) \o (r \o f) /\ out \o p \in Seq(Nat) /\ r \o f \in Seq(Nat)

\* And so with what came out.
LEMMA OutJoined == \A out, p, r, f \in Seq(Nat) : OutParts(out, p, r, f)
<1> SUFFICES ASSUME NEW out \in Seq(Nat), NEW p \in Seq(Nat), NEW r \in Seq(Nat), NEW f \in Seq(Nat)
             PROVE  OutParts(out, p, r, f)
  OBVIOUS
<1>1. (p \o r) \o f = p \o (r \o f) /\ r \o f \in Seq(Nat) /\ out \o p \in Seq(Nat)
  BY NatRegroup, SMTT(30)
<1>2. PICK w \in Seq(Nat) : w = r \o f
  BY <1>1
<1>3. (out \o p) \o w = out \o (p \o w)
  BY NatsRegroup, Zenon
<1> QED BY <1>1, <1>2, <1>3 DEF OutParts

\* What PutOut leaves.
Went(bytes, after, size, out, all) ==
  /\ out \in Seq(Nat) /\ bytes \in Seq(Int) /\ size \in Nat /\ IsStartOf(out, all)
  /\ \/ size = 0 /\ AtSize(bytes, after, out, all)
     \/ InChunk(bytes, after, size, out, all)

\* A part of a chunk that is put out leaves the rest of it, or none.
LEMMA PartOut ==
  ASSUME NEW bytes \in Seq(Int), NEW after \in Seq(Int), NEW size \in Nat, NEW out \in Seq(Nat), NEW all,
         InChunk(bytes, after, size, out, all), NEW n \in Nat, n <= size, n <= Len(bytes)
  PROVE  Went(Rest(bytes, n), after, size - n, out \o SubSeq(bytes, 1, n), all)
<1>1. PICK c \in Seq(Nat), rest \in Seq(Chunks) : size = Len(c) /\ InsideOf(bytes, after, out, all, c, rest)
  BY DEF InChunk
<1>2. PICK e : e = Encoded(rest)
  OBVIOUS
<1>3. PICK f : f = FlattenSeq(rest)
  OBVIOUS
<1>4. e \in Seq(Int) /\ f \in Seq(Nat)
  BY <1>2, <1>3, TransferIs
<1>5. PICK q : q = <<CR, LF>> \o e
  OBVIOUS
<1>6. q \in Seq(Int) /\ c \in Seq(Int)
  BY <1>4, <1>5, MarksAre, IntRegroup, BytesAreInt
<1>7. bytes \o after = c \o q /\ all = out \o (c \o f)
  BY <1>1, <1>2, <1>3, <1>5 DEF InsideOf
<1>8. Fewer(bytes, after, c, q, n)
  BY <1>1, <1>6, <1>7, DropFront
<1>9. PICK p : p = SubSeq(c, 1, n)
  OBVIOUS
<1>10. PICK r : r = Rest(c, n)
  OBVIOUS
<1>11. p \in Seq(Nat) /\ r \in Seq(Nat) /\ Len(r) = size - n /\ c = p \o r
  BY <1>1, <1>9, <1>10, PartsOf
<1>12. OutParts(out, p, r, f)
  BY <1>4, <1>11, OutJoined
<1>13. PICK b : b = Rest(bytes, n)
  OBVIOUS
<1>14. b \in Seq(Int) /\ b \o after = r \o q /\ SubSeq(bytes, 1, n) = p
  BY <1>8, <1>9, <1>10, <1>13 DEF Fewer
<1>15. PICK o : o = out \o p
  OBVIOUS
<1>16. o \in Seq(Nat) /\ all = o \o (r \o f) /\ r \o f \in Seq(Nat)
  BY <1>7, <1>11, <1>12, <1>15 DEF OutParts
<1>17. IsStartOf(o, all)
  BY <1>16 DEF IsStartOf
<1>18. CASE n = size
  <2>1. r = <<>> /\ size - n = 0
    BY <1>11, <1>18, EmptySeq
  <2>2. r \o q = q /\ r \o f = f
    BY <1>4, <1>6, <2>1, ConcatEmptySeq
  <2>3. AtChunk(b, after, o, all, <<CR, LF>>, rest)
    BY <1>2, <1>3, <1>5, <1>14, <1>16, <2>2 DEF AtChunk
  <2>4. AtSize(b, after, o, all)
    BY <2>3 DEF AtSize, Breaks
  <2>5. PICK left : left = size - n
    OBVIOUS
  <2>6. left = 0 /\ left \in Nat
    BY <2>1, <2>5
  <2>7. Went(b, after, left, o, all)
    BY <1>14, <1>16, <1>17, <2>4, <2>6 DEF Went
  <2> QED BY <1>13, <1>14, <1>15, <2>5, <2>7
<1>19. CASE n # size
  <2>1. size - n > 0 /\ size - n \in Nat
    BY <1>19
  <2>2. InsideOf(b, after, o, all, r, rest)
    BY <1>2, <1>3, <1>5, <1>14, <1>16 DEF InsideOf
  <2>3. InChunk(b, after, size - n, o, all)
    BY <1>11, <2>1, <2>2 DEF InChunk
  <2> QED BY <1>13, <1>14, <1>15, <1>16, <1>17, <2>1, <2>3 DEF Went
<1> QED BY <1>18, <1>19

\* And so does what PutOut takes.
LEMMA PutOutKeeps ==
  ASSUME NEW bytes \in Seq(Int), NEW after \in Seq(Int), NEW size \in Nat, body \in Seq(Nat), NEW room \in Nat,
         InChunk(bytes, after, size, body, whole), PutOut(bytes, size, room)
  PROVE  Went(buffer', after, chunkSize', body', whole) /\ reader' = reader
<1>1. PICK n : n = IF Len(bytes) >= size THEN Min({size, room}) ELSE 0
  OBVIOUS
<1>2. Len(bytes) \in Nat
  OBVIOUS
<1>3. n \in Nat /\ n <= size /\ n <= Len(bytes)
  <2>1. Min({size, room}) = IF size <= room THEN size ELSE room
    BY MinOfTwo
  <2> QED BY <1>1, <1>2, <2>1
<1>4. body' = body \o SubSeq(bytes, 1, n) /\ buffer' = Rest(bytes, n) /\ chunkSize' = size - n /\ reader' = reader
  BY <1>1 DEF PutOut
<1>5. Went(Rest(bytes, n), after, size - n, body \o SubSeq(bytes, 1, n), whole)
  BY <1>3, PartOut
<1> QED BY <1>4, <1>5

\* What comes next at the end of a chunk: a size, and when it is not 0 the chunk with it.
AfterChunk(bytes, after, out, all, n, k) ==
  /\ Fronts(bytes, n, k)
  /\ Len(bytes) < n + 3 => after # <<>>
  /\ k = 0 => out = all
  /\ k > 0 /\ Len(bytes) >= n + 3 =>
       Rest(bytes, n + 3) \in Seq(Int) /\ InChunk(Rest(bytes, n + 3), after, k, out, all)

\* At the end of a chunk a size follows: of the chunk behind it, or 0 when the body is out.
LEMMA SizeIs ==
  ASSUME NEW bytes \in Seq(Int), NEW after \in Seq(Int), NEW out \in Seq(Nat), NEW all, AtSize(bytes, after, out, all)
  PROVE  IsStartOf(out, all) /\ \E n \in {0, 2}, k \in Nat : AfterChunk(bytes, after, out, all, n, k)
<1>1. PICK lead \in Breaks, rest \in Seq(Chunks) : AtChunk(bytes, after, out, all, lead, rest)
  BY DEF AtSize
<1>2. PICK f : f = FlattenSeq(rest)
  OBVIOUS
<1>3. f \in Seq(Nat) /\ all = out \o f
  BY <1>1, <1>2, TransferIs DEF AtChunk
<1>4. IsStartOf(out, all)
  BY <1>3 DEF IsStartOf
<1>5. bytes \o after = lead \o Encoded(rest)
  BY <1>1 DEF AtChunk
<1>6. CASE rest = <<>>
  <2>1. Encoded(rest) = SizeMarks(0) \o <<CR, LF>> /\ f = <<>>
    BY <1>2, <1>6, TransferIs
  <2>2. out = all
    BY <1>3, <2>1, ConcatEmptySeq
  <2>3. PICK n \in {0, 2} : Facing(bytes, after, n, 0, <<CR, LF>>)
    <3>1. PICK y : y = <<CR, LF>>
      OBVIOUS
    <3>2. PICK k \in Nat : k = 0
      OBVIOUS
    <3>3. y \in Seq(Int) /\ bytes \o after = lead \o (SizeMarks(k) \o y)
      BY <1>5, <2>1, <3>1, <3>2, MarksAre
    <3>4. \E n \in {0, 2} : Facing(bytes, after, n, k, y)
      BY <3>3, FrontIs
    <3> QED BY <3>1, <3>2, <3>4
  <2>4. AfterChunk(bytes, after, out, all, n, 0)
    BY <2>2, <2>3 DEF Facing, AfterChunk
  <2> QED BY <1>4, <2>4, 0 \in Nat
<1>7. CASE rest # <<>>
  <2>1. PICK c \in Chunks, r \in Seq(Chunks) :
          /\ Encoded(rest) = SizeMarks(Len(c)) \o (c \o (<<CR, LF>> \o Encoded(r)))
          /\ FlattenSeq(rest) = c \o FlattenSeq(r)
    BY <1>7, TransferIs
  <2>2. PICK y : y = c \o (<<CR, LF>> \o Encoded(r))
    OBVIOUS
  <2>3. c \in Seq(Nat) /\ c \in Seq(Int) /\ Len(c) \in Nat /\ Len(c) > 0
    <3>1. c \in Seq(Nat) /\ c # <<>>
      BY DEF Chunks
    <3> QED BY <3>1, EmptySeq, BytesAreInt
  <2>4. y \in Seq(Int)
    <3>1. Encoded(r) \in Seq(Int)
      BY TransferIs
    <3>2. <<CR, LF>> \o Encoded(r) \in Seq(Int)
      BY <3>1, MarksAre, IntRegroup
    <3> QED BY <2>2, <2>3, <3>2, IntRegroup
  <2>5. PICK k \in Nat : k = Len(c) /\ k > 0
    BY <2>3
  <2>6. bytes \o after = lead \o (SizeMarks(k) \o y)
    BY <1>5, <2>1, <2>2, <2>5
  <2>7. PICK n \in {0, 2} : Facing(bytes, after, n, k, y)
    BY <2>4, <2>6, FrontIs
  <2>8. ASSUME Len(bytes) >= n + 3
        PROVE  Rest(bytes, n + 3) \in Seq(Int) /\ InChunk(Rest(bytes, n + 3), after, k, out, all)
    <3>1. Rest(bytes, n + 3) \in Seq(Int) /\ Rest(bytes, n + 3) \o after = y
      BY <2>7, <2>8 DEF Facing
    <3>2. all = out \o (c \o FlattenSeq(r))
      BY <1>2, <1>3, <2>1
    <3>3. InsideOf(Rest(bytes, n + 3), after, out, all, c, r)
      BY <2>2, <3>1, <3>2 DEF InsideOf
    <3> QED BY <2>3, <2>5, <3>1, <3>3 DEF InChunk
  <2>9. AfterChunk(bytes, after, out, all, n, k)
    BY <2>5, <2>7, <2>8 DEF Facing, AfterChunk
  <2> QED BY <1>4, <2>9
<1> QED BY <1>6, <1>7

-----------------------------------------------------------------------------
(* Reading a size                                                          *)

\* The cases of ReadSize, one by one.
Took(bytes, last, room, end, size) ==
  /\ bytes = <<>> => EndOfBody(bytes, last)
  /\ bytes # <<>> /\ end = 0 => buffer' = bytes /\ UNCHANGED <<chunkSize, body, reader>>
  /\ bytes # <<>> /\ end > 0 /\ size = 0 =>
       EndOfBody(IF Wraps(bytes, end) THEN bytes ELSE [bytes EXCEPT ![end] = NUL], last)
  /\ bytes # <<>> /\ end > 0 /\ size > 0 /\ Wraps(bytes, end) =>
       reader' = "crashed" /\ UNCHANGED <<buffer, chunkSize, body>>
  /\ bytes # <<>> /\ end > 0 /\ size > 0 /\ ~Wraps(bytes, end) => PutOut(Rest(bytes, end), size, room)

\* ReadSize takes one of its ways.
LEMMA TookIs ==
  ASSUME NEW bytes \in Seq(Int), NEW last \in BOOLEAN, NEW room, ReadSize(bytes, last, room),
         NEW end \in Nat, NEW size \in Nat, end = LineEnd(bytes, last), size = SizeOf(bytes, end)
  PROVE  Took(bytes, last, room, end, size)
<1>1. CASE bytes = <<>>
  <2>1. EndOfBody(bytes, last)
    BY <1>1 DEF ReadSize
  <2> QED BY <1>1, <2>1 DEF Took
<1>2. CASE bytes # <<>> /\ end = 0
  <2>1. buffer' = bytes /\ UNCHANGED <<chunkSize, body, reader>>
    BY <1>2 DEF ReadSize
  <2> QED BY <1>2, <2>1 DEF Took
<1>3. CASE bytes # <<>> /\ end > 0 /\ size = 0
  <2>1. EndOfBody(IF Wraps(bytes, end) THEN bytes ELSE [bytes EXCEPT ![end] = NUL], last)
    BY <1>3 DEF ReadSize
  <2> QED BY <1>3, <2>1 DEF Took
<1>4. CASE bytes # <<>> /\ end > 0 /\ size > 0 /\ Wraps(bytes, end)
  <2>1. reader' = "crashed" /\ UNCHANGED <<buffer, chunkSize, body>>
    BY <1>4 DEF ReadSize
  <2> QED BY <1>4, <2>1 DEF Took
<1>5. CASE bytes # <<>> /\ end > 0 /\ size > 0 /\ ~Wraps(bytes, end)
  <2>1. PutOut(Rest(bytes, end), size, room)
    BY <1>5 DEF ReadSize
  <2> QED BY <1>5, <2>1 DEF Took
<1>6. end = 0 \/ end > 0
  OBVIOUS
<1>7. size = 0 \/ size > 0
  OBVIOUS
<1> QED BY <1>1, <1>2, <1>3, <1>4, <1>5, <1>6, <1>7

\* A size is never below 0.
LEMMA SizeIsNat ==
  ASSUME NEW bytes \in Seq(Int), NEW end \in Nat, end <= Len(bytes) + 1, Skipped(bytes) \in Nat
  PROVE  SizeOf(bytes, end) \in Nat
<1>1. PICK place : place = Skipped(bytes) + 1
  OBVIOUS
<1>2. place \in Nat /\ place > 0 /\ Len(bytes) \in Nat
  BY <1>1
<1>3. SizeOf(bytes, end) = IF place < end /\ bytes[place] <= Size(0) THEN Size(0) - bytes[place] ELSE 0
  BY <1>1 DEF SizeOf
<1>4. ASSUME place < end PROVE bytes[place] \in Int
  <2>1. place \in 1..Len(bytes)
    BY <1>2, <1>4
  <2> QED BY <2>1
<1>5. Size(0) \in Int
  BY MarksAre
<1> QED BY <1>3, <1>4, <1>5

\* What is known when it has read on, all that was there with after still to come.
Reads(after, last) ==
  /\ body' \in Seq(Nat) /\ buffer' \in Seq(Int) /\ chunkSize' \in Nat /\ IsStartOf(body', whole)
  /\ reader' \in {"reads", "closed", "crashed"}
  /\ \/ reader' = "reads" /\ chunkSize' = 0 /\ AtSize(buffer', after, body', whole)
     \/ reader' = "reads" /\ InChunk(buffer', after, chunkSize', body', whole)
     \/ reader' = "reads" /\ chunkSize' = 0 /\ AtEnd(buffer', body', whole)
     \/ reader' = "closed" /\ body' = whole
     \/ last /\ after # <<>> /\ (reader' # "reads" \/ (buffer' = <<>> /\ chunkSize' > 0))

\* A call that puts out a part of a chunk stays within the body.
LEMMA PutOutReads ==
  ASSUME NEW bytes \in Seq(Int), NEW after \in Seq(Int), NEW size \in Nat, body \in Seq(Nat), NEW room \in Nat,
         InChunk(bytes, after, size, body, whole), PutOut(bytes, size, room), reader = "reads", NEW last
  PROVE  Reads(after, last)
  BY PutOutKeeps DEF Went, Reads

\* A terminator in the place of a line end leaves bytes and marks.
LEMMA PatchedIs ==
  ASSUME NEW bytes \in Seq(Int), NEW end \in 1..Len(bytes)
  PROVE  [bytes EXCEPT ![end] = NUL] \in Seq(Int)
<1>1. NUL \in Int
  BY MarksAre
<1> QED BY <1>1

\* The end of the body stays where it was.
LEMMA MarkedIsLast ==
  ASSUME NEW bytes \in Seq(Int), NEW n \in {0, 2}, NoneLeft(bytes, n), NEW end \in (n + 3)..Len(bytes)
  PROVE  [bytes EXCEPT ![end] = NUL] \in Seq(Int) /\ NoneLeft([bytes EXCEPT ![end] = NUL], n)
<1>1. PICK b : b = [bytes EXCEPT ![end] = NUL]
  OBVIOUS
<1>2. NUL \in Int /\ Len(bytes) \in Nat /\ end \in 1..Len(bytes)
  <2>1. Len(bytes) \in Nat
    OBVIOUS
  <2>2. end \in 1..Len(bytes)
    BY <2>1
  <2> QED BY <2>1, <2>2, MarksAre
<1>3. b \in Seq(Int) /\ Len(b) = Len(bytes) /\ \A i \in 1..Len(bytes) : i # end => b[i] = bytes[i]
  BY <1>1, <1>2
<1>4. \A i \in 1..(n + 2) : b[i] = bytes[i]
  BY <1>2, <1>3
<1>5. NoneLeft(b, n)
  <2>1. n + 1 \in 1..(n + 2) /\ n + 2 \in 1..(n + 2) /\ (n = 2 => 1 \in 1..(n + 2) /\ 2 \in 1..(n + 2))
    OBVIOUS
  <2>2. b[n + 1] = bytes[n + 1] /\ b[n + 2] = bytes[n + 2] /\ (n = 2 => b[1] = bytes[1] /\ b[2] = bytes[2])
    BY <1>4, <2>1
  <2> QED BY <1>3, <2>2 DEF NoneLeft
<1> QED BY <1>1, <1>3, <1>5

\* Reading at the end of a chunk, when the line with the size is there.
LEMMA WholeLine ==
  ASSUME NEW bytes \in Seq(Int), NEW after \in Seq(Int), body \in Seq(Nat), NEW last \in BOOLEAN, NEW room \in Nat,
         chunkSize = 0, reader = "reads", IsStartOf(body, whole), ReadSize(bytes, last, room),
         NEW n \in {0, 2}, NEW k \in Nat, AfterChunk(bytes, after, body, whole, n, k), Len(bytes) >= n + 3
  PROVE  Reads(after, last)
<1>1. PICK end \in Nat : end = n + 3
  OBVIOUS
<1>2. Fronts(bytes, n, k)
  BY DEF AfterChunk
<1>3. end = LineEnd(bytes, last) /\ k = SizeOf(bytes, end)
  BY <1>1, <1>2, SizeLineIs
<1>4. Took(bytes, last, room, end, k)
  BY <1>3, TookIs
<1>5. bytes # <<>> /\ end > 0 /\ ~Wraps(bytes, end) /\ Len(bytes) \in Nat /\ end <= Len(bytes)
  <2>1. Len(bytes) \in Nat /\ Len(bytes) > 0
    OBVIOUS
  <2>2. bytes # <<>>
    BY <2>1, EmptySeq
  <2> QED BY <1>1, <2>1, <2>2 DEF Wraps
<1>6. CASE k = 0
  <2>1. EndOfBody([bytes EXCEPT ![end] = NUL], last)
    BY <1>4, <1>5, <1>6 DEF Took
  <2>2. body = whole
    BY <1>6 DEF AfterChunk
  <2>3. NoneLeft(bytes, n)
    <3>1. n + 1 \in 1..Len(bytes) /\ n + 2 \in 1..Len(bytes) /\ (n = 2 => 1 \in 1..Len(bytes) /\ 2 \in 1..Len(bytes))
      BY <1>1, <1>5
    <3>2. bytes[n + 1] = Size(0) /\ bytes[n + 2] = CR
      BY <1>2, <1>6, <3>1 DEF Fronts
    <3>3. n = 2 => bytes[1] = CR /\ bytes[2] = LF
      BY <1>2, <3>1 DEF Fronts
    <3>4. Len(bytes) >= n + 2
      BY <1>5
    <3> QED BY <3>2, <3>3, <3>4 DEF NoneLeft
  <2>4. end \in (n + 3)..Len(bytes)
    BY <1>1, <1>5
  <2>5. PICK b : b = [bytes EXCEPT ![end] = NUL]
    OBVIOUS
  <2>6. b \in Seq(Int) /\ NoneLeft(b, n)
    BY <2>3, <2>4, <2>5, MarkedIsLast
  <2>7. AtEnd(b, body, whole)
    BY <2>2, <2>6 DEF AtEnd
  <2>8. buffer' = b /\ chunkSize' = 0 /\ body' = body /\ reader' = IF last THEN "closed" ELSE "reads"
    BY <2>1, <2>5 DEF EndOfBody
  <2> QED BY <2>2, <2>6, <2>7, <2>8 DEF Reads
<1>7. CASE k > 0
  <2>1. PutOut(Rest(bytes, end), k, room)
    BY <1>4, <1>5, <1>7 DEF Took
  <2>2. Rest(bytes, end) \in Seq(Int) /\ InChunk(Rest(bytes, end), after, k, body, whole)
    BY <1>1, <1>7 DEF AfterChunk
  <2> QED BY <2>1, <2>2, PutOutReads
<1> QED BY <1>6, <1>7

\* Reading at the end of a chunk, when the line with the size is not there as a whole.
LEMMA HalfALine ==
  ASSUME NEW bytes \in Seq(Int), NEW after \in Seq(Int), body \in Seq(Nat), NEW last \in BOOLEAN, NEW room \in Nat,
         buffer \in Seq(Int), chunkSize = 0, reader = "reads", IsStartOf(body, whole), ReadSize(bytes, last, room),
         AtSize(bytes, after, body, whole),
         NEW n \in {0, 2}, NEW k \in Nat, AfterChunk(bytes, after, body, whole, n, k), Len(bytes) < n + 3
  PROVE  Reads(after, last)
<1>1. PICK m \in Nat : m = Len(bytes)
  OBVIOUS
<1>2. Fronts(bytes, n, k) /\ after # <<>>
  BY DEF AfterChunk
<1>3. Skipped(bytes) \in Nat
  <2>1. Skipped(bytes) = IF m >= n THEN n ELSE m
    BY <1>1, <1>2, SkippedIs
  <2> QED BY <2>1
<1>4. CASE bytes = <<>>
  <2>1. EndOfBody(bytes, last)
    BY <1>4 DEF ReadSize
  <2>2. buffer' = bytes /\ chunkSize' = 0 /\ body' = body /\ reader' = IF last THEN "closed" ELSE "reads"
    BY <2>1 DEF EndOfBody
  <2> QED BY <1>2, <2>2 DEF Reads
<1>5. CASE bytes # <<>> /\ ~last
  <2>1. LineEnd(bytes, last) = 0
    BY <1>2, <1>5, PartOfLine
  <2>2. PICK end \in Nat, size \in Nat : end = 0 /\ end = LineEnd(bytes, last) /\ size = SizeOf(bytes, end)
    <3>1. 0 \in Nat /\ 0 <= Len(bytes) + 1
      BY <1>1
    <3>2. SizeOf(bytes, 0) \in Nat
      BY <1>3, <3>1, SizeIsNat
    <3> QED BY <2>1, <3>1, <3>2
  <2>3. Took(bytes, last, room, end, size)
    BY <2>2, TookIs
  <2>4. buffer' = bytes /\ chunkSize' = 0 /\ body' = body /\ reader' = "reads"
    BY <1>5, <2>2, <2>3 DEF Took
  <2> QED BY <2>4 DEF Reads
<1>6. CASE bytes # <<>> /\ last /\ m < n + 2
  <2>1. LineEnd(bytes, last) = m + 1
    BY <1>1, <1>2, <1>6, PartOfLine
  <2>2. PICK end \in Nat, size \in Nat : end = m + 1 /\ end = LineEnd(bytes, last) /\ size = SizeOf(bytes, end)
    <3>1. PICK end \in Nat : end = m + 1
      OBVIOUS
    <3>2. SizeOf(bytes, end) \in Nat
      BY <1>1, <1>3, <3>1, SizeIsNat
    <3> QED BY <2>1, <3>1, <3>2
  <2>3. Took(bytes, last, room, end, size)
    BY <2>2, TookIs
  <2>4. end > 0 /\ Wraps(bytes, end)
    BY <1>1, <2>2 DEF Wraps
  <2>5. CASE size = 0
    <3>1. EndOfBody(bytes, last)
      BY <1>6, <2>3, <2>4, <2>5 DEF Took
    <3>2. buffer' = bytes /\ chunkSize' = 0 /\ body' = body /\ reader' = "closed"
      BY <1>6, <3>1 DEF EndOfBody
    <3> QED BY <1>2, <1>6, <3>2 DEF Reads
  <2>6. CASE size > 0
    <3>1. reader' = "crashed" /\ UNCHANGED <<buffer, chunkSize, body>>
      BY <1>6, <2>3, <2>4, <2>6 DEF Took
    <3> QED BY <1>2, <1>6, <3>1 DEF Reads
  <2> QED BY <2>5, <2>6
<1>7. CASE bytes # <<>> /\ last /\ m = n + 2
  <2>1. PICK end \in Nat : end = n + 2
    OBVIOUS
  <2>2. end = LineEnd(bytes, last) /\ k = SizeOf(bytes, end)
    BY <1>1, <1>2, <1>7, <2>1, PartOfLine
  <2>3. Took(bytes, last, room, end, k)
    BY <2>2, TookIs
  <2>4. end > 0 /\ ~Wraps(bytes, end) /\ end = m
    BY <1>1, <1>7, <2>1 DEF Wraps
  <2>5. CASE k = 0
    <3>1. EndOfBody([bytes EXCEPT ![end] = NUL], last)
      BY <1>7, <2>3, <2>4, <2>5 DEF Took
    <3>2. buffer' = [bytes EXCEPT ![end] = NUL] /\ chunkSize' = 0 /\ body' = body /\ reader' = "closed"
      BY <1>7, <3>1 DEF EndOfBody
    <3>3. [bytes EXCEPT ![end] = NUL] \in Seq(Int)
      <4>1. end \in 1..Len(bytes)
        BY <1>1, <2>4
      <4> QED BY <4>1, PatchedIs
    <3>4. body' = whole
      BY <2>5, <3>2 DEF AfterChunk
    <3> QED BY <3>2, <3>3, <3>4 DEF Reads
  <2>6. CASE k > 0
    <3>1. PutOut(Rest(bytes, end), k, room)
      BY <1>7, <2>3, <2>4, <2>6 DEF Took
    <3>2. Rest(bytes, end) = <<>>
      BY <1>1, <2>4 DEF Rest
    <3>3. Len(<<>>) = 0 /\ ~(0 >= k)
      BY <2>6
    <3>4. body' = body \o SubSeq(<<>>, 1, 0) /\ buffer' = Rest(<<>>, 0) /\ chunkSize' = k - 0 /\ reader' = reader
      BY <3>1, <3>2, <3>3 DEF PutOut
    <3>5. SubSeq(<<>>, 1, 0) = <<>> /\ Rest(<<>>, 0) = <<>> /\ body \o <<>> = body
      BY ConcatEmptySeq DEF Rest
    <3>6. body' = body /\ buffer' = <<>> /\ chunkSize' = k /\ reader' = "reads"
      BY <3>4, <3>5
    <3>7. buffer' \in Seq(Int)
      BY <3>6
    <3> QED BY <1>2, <1>7, <2>6, <3>6, <3>7 DEF Reads
  <2> QED BY <2>5, <2>6
<1> QED BY <1>1, <1>4, <1>5, <1>6, <1>7

\* What has been read of the end of the body, and all that comes.
LEMMA LastStays ==
  ASSUME NEW bytes \in Seq(Int), NEW n \in {0, 2}, NoneLeft(bytes, n), body \in Seq(Nat), NEW last \in BOOLEAN,
         NEW room \in Nat, NEW after, chunkSize = 0, reader = "reads", body = whole, ReadSize(bytes, last, room)
  PROVE  Reads(after, last)
<1>1. PICK m \in Nat : m = Len(bytes) /\ m >= n + 2 /\ bytes # <<>>
  <2>1. Len(bytes) \in Nat /\ Len(bytes) >= n + 2
    BY DEF NoneLeft
  <2>2. bytes # <<>>
    BY <2>1, EmptySeq
  <2> QED BY <2>1, <2>2
<1>2. Size(0) # CR /\ Size(0) # LF /\ CR # LF /\ Size(0) = -4
  BY DEF Size, CR, LF
<1>3. Skipped(bytes) = n
  <2>1. Head(bytes) = bytes[1]
    BY <1>1
  <2>2. CASE n = 0
    <3>1. bytes[1] = Size(0) /\ Len(bytes) > 0
      BY <1>1, <2>2 DEF NoneLeft
    <3> QED BY <1>2, <2>1, <2>2, <3>1 DEF Skipped
  <2>3. CASE n = 2
    <3>1. bytes[1] = CR /\ bytes[2] = LF /\ Len(bytes) > 1
      BY <1>1, <2>3 DEF NoneLeft
    <3> QED BY <1>1, <2>1, <2>3, <3>1 DEF Skipped
  <2> QED BY <2>2, <2>3
<1>4. \A end \in Nat : SizeOf(bytes, end) = 0
  <2>1. bytes[n + 1] = Size(0)
    BY DEF NoneLeft
  <2> QED BY <1>2, <1>3, <2>1 DEF SizeOf
<1>5. IsStartOf(body, whole)
  <2>1. <<>> \in Seq(Nat) /\ whole = body \o <<>>
    BY ConcatEmptySeq
  <2> QED BY <2>1 DEF IsStartOf
<1>6. PICK lf : lf = First(LF, bytes, n + 1)
  OBVIOUS
<1>7. PICK cr : cr = First(CR, bytes, n + 1)
  OBVIOUS
<1>8. LineEnd(bytes, last) = IF lf > 0 \/ ~last THEN lf ELSE IF cr > 0 THEN cr ELSE m + 1
  BY <1>1, <1>3, <1>6, <1>7 DEF LineEnd, AsLine
<1>9. lf = 0 \/ (lf \in (n + 1)..m /\ bytes[lf] = LF)
  BY <1>1, <1>6, FirstIs
<1>10. lf = 0 \/ lf \in (n + 3)..m
  <2>1. bytes[n + 1] = Size(0) /\ bytes[n + 2] = CR
    BY DEF NoneLeft
  <2>2. lf # 0 => lf # n + 1 /\ lf # n + 2
    BY <1>2, <1>9, <2>1
  <2>3. \A i \in (n + 1)..m : i = n + 1 \/ i = n + 2 \/ i \in (n + 3)..m
    OBVIOUS
  <2> QED BY <1>9, <2>2, <2>3
<1>11. cr = 0 \/ cr \in (n + 1)..m
  BY <1>1, <1>7, FirstIs
<1>12. PICK end \in Nat : end = LineEnd(bytes, last)
  BY <1>8, <1>10, <1>11
<1>13. PICK size \in Nat : size = SizeOf(bytes, end) /\ size = 0
  BY <1>4
<1>14. Took(bytes, last, room, end, size)
  BY <1>12, <1>13, TookIs
<1>15. CASE end = 0
  <2>1. buffer' = bytes /\ chunkSize' = 0 /\ body' = body /\ reader' = "reads"
    BY <1>1, <1>14, <1>15 DEF Took
  <2>2. AtEnd(bytes, body, whole)
    BY DEF AtEnd
  <2> QED BY <1>5, <2>1, <2>2 DEF Reads
<1>16. CASE end > 0
  <2>1. EndOfBody(IF Wraps(bytes, end) THEN bytes ELSE [bytes EXCEPT ![end] = NUL], last)
    BY <1>1, <1>13, <1>14, <1>16 DEF Took
  <2>2. PICK b : b = IF Wraps(bytes, end) THEN bytes ELSE [bytes EXCEPT ![end] = NUL]
    OBVIOUS
  <2>3. b \in Seq(Int)
    <3>1. ~Wraps(bytes, end) => end \in 1..Len(bytes)
      BY <1>1, <1>16 DEF Wraps
    <3>2. ~Wraps(bytes, end) => [bytes EXCEPT ![end] = NUL] \in Seq(Int)
      BY <3>1, PatchedIs
    <3> QED BY <2>2, <3>2
  <2>4. buffer' = b /\ chunkSize' = 0 /\ body' = body /\ reader' = IF last THEN "closed" ELSE "reads"
    BY <2>1, <2>2 DEF EndOfBody
  <2>5. ~last => AtEnd(b, body, whole)
    <3> SUFFICES ASSUME ~last PROVE AtEnd(b, body, whole)
      OBVIOUS
    <3>1. end \in (n + 3)..m /\ ~Wraps(bytes, end)
      BY <1>1, <1>8, <1>10, <1>12, <1>16 DEF Wraps
    <3>2. NoneLeft(b, n)
      BY <1>1, <2>2, <3>1, MarkedIsLast
    <3> QED BY <3>2 DEF AtEnd
  <2> QED BY <1>5, <2>3, <2>4, <2>5 DEF Reads
<1> QED BY <1>15, <1>16

-----------------------------------------------------------------------------
(* The body that comes out                                                 *)

\* The server closed before it had sent all of the reply.
CutShort == ended /\ sent < Len(wire)

\* No more comes of a chunk whose size was the last that came.
CutBehindSize == CutShort /\ pulled = sent /\ buffer = <<>> /\ chunkSize > 0

BodyTypes ==
  /\ wire \in Seq(Int) /\ sent \in Nat /\ pulled \in Nat /\ pulled <= sent /\ sent <= Len(wire) /\ ended \in BOOLEAN
  /\ body \in Seq(Nat) /\ buffer \in Seq(Int) /\ chunkSize \in Nat /\ IsStartOf(body, whole)
  /\ reader \in {"reads", "closed", "crashed"}

\* Where a reader is that has not been told of the end.
Reader ==
  \/ chunkSize = 0 /\ AtSize(buffer, Coming, body, whole)
  \/ InChunk(buffer, Coming, chunkSize, body, whole)
  \/ chunkSize = 0 /\ AtEnd(buffer, body, whole)
  \/ CutBehindSize

BodyInv ==
  /\ BodyTypes
  /\ reader = "reads" => Reader
  /\ reader = "closed" => body = whole \/ CutShort

-----------------------------------------------------------------------------
\* What comes behind the end of the body does not hide it.
LEMMA LastGrows ==
  ASSUME NEW s \in Seq(Int), NEW new \in Seq(Int), NEW n \in {0, 2}, NoneLeft(s, n)
  PROVE  s \o new \in Seq(Int) /\ NoneLeft(s \o new, n)
<1>1. PICK b : b = s \o new
  OBVIOUS
<1>2. b \in Seq(Int) /\ IsJoin(b, s, new)
  BY <1>1, Behind
<1>3. Len(s) \in Nat /\ Len(s) >= n + 2 /\ Len(b) >= n + 2
  BY <1>2 DEF NoneLeft, IsJoin
<1>4. \A i \in 1..(n + 2) : b[i] = s[i]
  <2>1. \A i \in 1..(n + 2) : i \in 1..Len(s)
    BY <1>3
  <2> QED BY <1>2, <2>1 DEF IsJoin
<1>5. n + 1 \in 1..(n + 2) /\ n + 2 \in 1..(n + 2) /\ (n = 2 => 1 \in 1..(n + 2) /\ 2 \in 1..(n + 2))
  OBVIOUS
<1>6. b[n + 1] = s[n + 1] /\ b[n + 2] = s[n + 2] /\ (n = 2 => b[1] = s[1] /\ b[2] = s[2])
  BY <1>4, <1>5
<1>7. NoneLeft(b, n)
  BY <1>3, <1>6 DEF NoneLeft
<1> QED BY <1>1, <1>2, <1>7

\* What is known after one call, whatever of the reply it was given.
LEMMA ChunkedReads ==
  ASSUME BodyInv, reader = "reads", NEW new \in Seq(Int), NEW after \in Seq(Int), new \o after = Coming,
         NEW last \in BOOLEAN, HTTPChunkedRead(new, last), ~CutBehindSize
  PROVE  Reads(after, last)
<1>1. BodyTypes
  BY DEF BodyInv
<1>2. PICK bytes : bytes = buffer \o new
  OBVIOUS
<1>3. bytes \in Seq(Int) /\ bytes \o after = buffer \o Coming
  <2>1. buffer \in Seq(Int)
    BY <1>1 DEF BodyTypes
  <2>2. (buffer \o new) \o after = buffer \o (new \o after)
    BY <2>1, RegroupInts
  <2> QED BY <1>2, <2>1, <2>2, IntRegroup
<1>4. PICK room \in Nat : room = IF Len(new) < OutSize THEN OutSize ELSE Len(new) * 8
  BY TransfersAssumption
<1>5. IF chunkSize = 0 THEN ReadSize(bytes, last, room) ELSE PutOut(bytes, chunkSize, room)
  BY <1>2, <1>4 DEF HTTPChunkedRead
<1>6. body \in Seq(Nat) /\ buffer \in Seq(Int) /\ chunkSize \in Nat /\ IsStartOf(body, whole)
  BY <1>1 DEF BodyTypes
<1>7. CASE chunkSize = 0 /\ AtSize(buffer, Coming, body, whole)
  <2>1. AtSize(bytes, after, body, whole)
    BY <1>3, <1>7 DEF AtSize, AtChunk
  <2>2. ReadSize(bytes, last, room)
    BY <1>5, <1>7
  <2>3. PICK n \in {0, 2}, k \in Nat : AfterChunk(bytes, after, body, whole, n, k)
    BY <1>3, <1>6, <2>1, SizeIs
  <2>4. Len(bytes) \in Nat
    BY <1>3
  <2>5. CASE Len(bytes) >= n + 3
    BY <1>3, <1>6, <1>7, <2>2, <2>3, <2>5, WholeLine
  <2>6. CASE Len(bytes) < n + 3
    BY <1>3, <1>6, <1>7, <2>1, <2>2, <2>3, <2>6, HalfALine
  <2> QED BY <2>4, <2>5, <2>6
<1>8. CASE InChunk(buffer, Coming, chunkSize, body, whole)
  <2>1. InChunk(bytes, after, chunkSize, body, whole)
    BY <1>3, <1>8 DEF InChunk, InsideOf
  <2>2. PutOut(bytes, chunkSize, room)
    BY <1>5, <1>6, <1>8 DEF InChunk
  <2> QED BY <1>3, <1>6, <2>1, <2>2, PutOutReads
<1>9. CASE chunkSize = 0 /\ AtEnd(buffer, body, whole)
  <2>1. PICK n \in {0, 2} : NoneLeft(buffer, n)
    BY <1>9 DEF AtEnd
  <2>2. NoneLeft(bytes, n)
    BY <1>2, <1>6, <2>1, LastGrows
  <2>3. ReadSize(bytes, last, room) /\ body = whole
    BY <1>5, <1>9 DEF AtEnd
  <2> QED BY <1>3, <1>6, <1>9, <2>2, <2>3, LastStays
<1>10. Reader
  BY DEF BodyInv
<1> QED BY <1>7, <1>8, <1>9, <1>10 DEF Reader

\* What is read and what is left of the reply afterwards.
LEMMA ComingIs ==
  ASSUME BodyTypes, NEW n \in Nat, pulled + n <= Len(wire)
  PROVE  /\ SubSeq(wire, pulled + 1, pulled + n) \in Seq(Int)
         /\ SubSeq(wire, (pulled + n) + 1, Len(wire)) \in Seq(Int)
         /\ SubSeq(wire, pulled + 1, pulled + n) \o SubSeq(wire, (pulled + n) + 1, Len(wire)) = Coming
         /\ Coming \in Seq(Int) /\ (Coming # <<>> => pulled < Len(wire))
<1>1. wire \in Seq(Int) /\ pulled \in Nat /\ Len(wire) \in Nat
  BY DEF BodyTypes
<1>2. PICK c : c = Coming
  OBVIOUS
<1>3. c \in Seq(Int) /\ Len(c) = (IF pulled <= Len(wire) THEN Len(wire) - pulled ELSE 0)
      /\ \A i \in 1..(Len(wire) - pulled) : c[i] = wire[pulled + i]
  BY <1>1, <1>2 DEF Coming
<1>4. PICK a : a = SubSeq(wire, pulled + 1, pulled + n)
  OBVIOUS
<1>5. a \in Seq(Int) /\ Len(a) = n /\ \A i \in 1..n : a[i] = wire[pulled + i]
  BY <1>1, <1>4
<1>6. PICK m \in Nat : m = pulled + n /\ m <= Len(wire)
  BY <1>1
<1>7. PICK b : b = SubSeq(wire, m + 1, Len(wire))
  OBVIOUS
<1>8. b \in Seq(Int) /\ Len(b) = Len(wire) - m /\ \A i \in 1..(Len(wire) - m) : b[i] = wire[m + i]
  <2>1. b = Rest(wire, m)
    BY <1>7 DEF Rest
  <2>2. Rest(wire, m) \in Seq(Int) /\ RestOf(wire, m, Rest(wire, m))
    BY <1>1, <1>6, RestIs
  <2> QED BY <2>1, <2>2 DEF RestOf
<1>9. PICK d : d = a \o b
  OBVIOUS
<1>10. d \in Seq(Int) /\ IsJoin(d, a, b)
  BY <1>5, <1>8, <1>9, Behind
<1>11. Len(d) = Len(c) /\ Len(c) = Len(wire) - pulled
  BY <1>1, <1>3, <1>5, <1>6, <1>8, <1>10 DEF IsJoin
<1>12. ASSUME NEW i \in 1..Len(c) PROVE d[i] = c[i]
  <2>1. c[i] = wire[pulled + i]
    BY <1>3, <1>11
  <2>2. CASE i <= n
    BY <1>5, <1>10, <2>1, <2>2 DEF IsJoin
  <2>3. CASE ~(i <= n)
    <3>1. i - n \in 1..(Len(wire) - m) /\ n + (i - n) = i /\ m + (i - n) = pulled + i
      BY <1>1, <1>6, <1>11, <2>3
    <3>2. d[i] = b[i - n]
      BY <1>5, <1>8, <1>10, <3>1 DEF IsJoin
    <3>3. b[i - n] = wire[pulled + i]
      BY <1>8, <3>1
    <3> QED BY <2>1, <3>2, <3>3
  <2> QED BY <2>2, <2>3
<1>13. d = c
  BY <1>3, <1>10, <1>11, <1>12, SeqEqual
<1>14. c # <<>> => pulled < Len(wire)
  <2>1. ~(pulled < Len(wire)) => Len(c) = 0
    BY <1>1, <1>3
  <2> QED BY <1>3, <2>1, EmptySeq
<1> QED BY <1>2, <1>3, <1>4, <1>5, <1>6, <1>7, <1>8, <1>9, <1>13, <1>14

\* At first all chunks are still to come.
LEMMA BodyStarts == ChunkedInit => BodyInv
<1> SUFFICES ASSUME ChunkedInit PROVE BodyInv
  OBVIOUS
<1>1. PICK t \in Transfers : whole = FlattenSeq(t) /\ wire = Encoded(t)
  BY DEF ChunkedInit
<1>2. t \in Seq(Chunks)
  BY TransfersAssumption DEF Chunks
<1>3. wire \in Seq(Int) /\ whole \in Seq(Nat) /\ Len(wire) \in Nat
  BY <1>1, <1>2, TransferIs, LenProperties
<1>4. /\ sent = 0 /\ ended = FALSE /\ pulled = 0
      /\ buffer = <<>> /\ chunkSize = 0 /\ body = <<>> /\ reader = "reads"
  BY DEF ChunkedInit
<1>5. <<>> \in Seq(Int) /\ <<>> \in Seq(Nat)
  OBVIOUS
<1>6. whole = <<>> \o whole
  BY <1>3, ConcatEmptySeq
<1>7. IsStartOf(body, whole)
  BY <1>3, <1>4, <1>6 DEF IsStartOf
<1>8. BodyTypes
  <2>1. sent \in Nat /\ pulled \in Nat /\ chunkSize \in Nat /\ pulled <= sent /\ sent <= Len(wire)
    BY <1>3, <1>4
  <2>2. ended \in BOOLEAN /\ reader \in {"reads", "closed", "crashed"}
    BY <1>4
  <2>3. body \in Seq(Nat) /\ buffer \in Seq(Int)
    BY <1>4, <1>5
  <2> QED BY <1>3, <1>7, <2>1, <2>2, <2>3 DEF BodyTypes
<1>9. Coming = wire
  <2>1. SubSeq(wire, 1, Len(wire)) = wire
    BY <1>3
  <2> QED BY <1>4, <2>1 DEF Coming
<1>10. PICK e : e = Encoded(t)
  OBVIOUS
<1>11. <<>> \o e = e /\ wire = e
  BY <1>1, <1>3, <1>10, ConcatEmptySeq
<1>12. AtChunk(buffer, Coming, body, whole, <<>>, t)
  BY <1>1, <1>4, <1>6, <1>9, <1>10, <1>11 DEF AtChunk
<1>13. AtSize(buffer, Coming, body, whole)
  BY <1>2, <1>12 DEF AtSize, Breaks
<1> QED BY <1>4, <1>8, <1>13 DEF BodyInv, Reader

\* What is known after a call becomes what is known of the reader.
LEMMA ReadsBody ==
  ASSUME BodyInv, NEW after, NEW last \in BOOLEAN, Reads(after, last), Coming' = after, UNCHANGED <<wire, whole, sent, ended>>,
         pulled' \in Nat, pulled' <= sent, last => ended /\ pulled' = sent,
         after # <<>> => pulled' < Len(wire)
  PROVE  BodyInv'
<1>1. BodyTypes'
  BY DEF BodyInv, BodyTypes, Reads
<1>2. sent \in Nat /\ Len(wire) \in Nat
  BY DEF BodyInv, BodyTypes
<1>3. last /\ after # <<>> => CutShort' /\ pulled' = sent'
  BY <1>2 DEF CutShort
<1>4. ASSUME reader' = "reads" PROVE Reader'
  BY <1>3, <1>4 DEF Reads, Reader, CutBehindSize
<1>5. ASSUME reader' = "closed" PROVE body' = whole' \/ CutShort'
  BY <1>3, <1>5 DEF Reads
<1> QED BY <1>1, <1>4, <1>5 DEF BodyInv

\* Bytes that are read keep where the reader is.
LEMMA PullKeeps == BodyInv /\ Pull => BodyInv'
<1> SUFFICES ASSUME BodyInv, Pull PROVE BodyInv'
  OBVIOUS
<1>1. BodyTypes
  BY DEF BodyInv
<1>2. wire \in Seq(Int) /\ Len(wire) \in Nat /\ sent \in Nat /\ pulled \in Nat /\ pulled <= sent /\ sent <= Len(wire)
  BY <1>1 DEF BodyTypes
<1>3. PICK n \in 1..Min({sent - pulled, MaxRead}) :
        pulled' = pulled + n /\ HTTPChunkedRead(SubSeq(wire, pulled + 1, pulled + n), FALSE)
  BY DEF Pull
<1>4. n \in Nat /\ n > 0 /\ n <= sent - pulled
  <2>1. sent - pulled \in Nat /\ MaxRead \in Nat
    BY <1>2, TransfersAssumption
  <2>2. Min({sent - pulled, MaxRead}) = IF sent - pulled <= MaxRead THEN sent - pulled ELSE MaxRead
    BY <2>1, MinOfTwo
  <2> QED BY <2>1, <2>2
<1>5. UNCHANGED <<wire, whole, sent, ended>> /\ reader = "reads"
  BY DEF Pull
<1>6. pulled + n <= Len(wire) /\ pulled' = pulled + n /\ pulled' \in Nat /\ pulled' <= sent /\ pulled # sent
  BY <1>2, <1>3, <1>4
<1>7. PICK new : new = SubSeq(wire, pulled + 1, pulled + n)
  OBVIOUS
<1>8. PICK after : after = SubSeq(wire, (pulled + n) + 1, Len(wire))
  OBVIOUS
<1>9. new \in Seq(Int) /\ after \in Seq(Int) /\ new \o after = Coming
  BY <1>1, <1>4, <1>6, <1>7, <1>8, ComingIs
<1>10. Coming' = after
  BY <1>5, <1>6, <1>8 DEF Coming
<1>11. after # <<>> => pulled' < Len(wire)
  <2>1. ~(pulled' < Len(wire)) => after = <<>>
    BY <1>2, <1>6, <1>8
  <2> QED BY <1>2, <1>6, <2>1
<1>12. ~CutBehindSize
  BY <1>6 DEF CutBehindSize
<1>13. Reads(after, FALSE)
  BY <1>3, <1>5, <1>7, <1>9, <1>12, ChunkedReads
<1> QED BY <1>5, <1>6, <1>10, <1>11, <1>13, ReadsBody

\* And so does the last call, with none.
LEMMA FlushKeeps == BodyInv /\ Flush => BodyInv'
<1> SUFFICES ASSUME BodyInv, Flush PROVE BodyInv'
  OBVIOUS
<1>1. BodyTypes
  BY DEF BodyInv
<1>2. wire \in Seq(Int) /\ Len(wire) \in Nat /\ sent \in Nat /\ pulled \in Nat /\ pulled <= sent /\ sent <= Len(wire)
  BY <1>1 DEF BodyTypes
<1>3. /\ reader = "reads" /\ ended /\ pulled = sent /\ HTTPChunkedRead(<<>>, TRUE)
      /\ UNCHANGED <<wire, whole, sent, ended, pulled>>
  BY DEF Flush
<1>4. PICK after : after = Coming
  OBVIOUS
<1>5. after \in Seq(Int) /\ (after # <<>> => pulled < Len(wire))
  <2>1. 0 \in Nat /\ pulled + 0 <= Len(wire)
    BY <1>2
  <2> QED BY <1>1, <1>4, <2>1, ComingIs
<1>6. <<>> \in Seq(Int) /\ <<>> \o after = Coming /\ Coming' = after
  <2>1. <<>> \o after = after
    BY <1>5, ConcatEmptySeq
  <2>2. Coming' = Coming
    BY <1>3 DEF Coming
  <2> QED BY <1>4, <2>1, <2>2
<1>7. CASE ~CutBehindSize
  <2>1. Reads(after, TRUE)
    BY <1>3, <1>5, <1>6, <1>7, ChunkedReads
  <2> QED BY <1>2, <1>3, <1>5, <1>6, <2>1, ReadsBody
<1>8. CASE CutBehindSize
  <2>1. buffer = <<>> /\ chunkSize > 0 /\ chunkSize \in Nat /\ buffer \o <<>> = <<>>
    BY <1>1, <1>8, ConcatEmptySeq DEF CutBehindSize, BodyTypes
  <2>2. PICK room : room = IF Len(<<>>) < OutSize THEN OutSize ELSE Len(<<>>) * 8
    OBVIOUS
  <2>3. PutOut(<<>>, chunkSize, room)
    <3>1. IF chunkSize = 0 THEN ReadSize(buffer \o <<>>, TRUE, room) ELSE PutOut(buffer \o <<>>, chunkSize, room)
      BY <1>3, <2>2 DEF HTTPChunkedRead
    <3>2. PutOut(buffer \o <<>>, chunkSize, room)
      <4>1. ~(chunkSize = 0)
        BY <2>1
      <4> QED BY <3>1, <4>1, Zenon
    <3> QED BY <2>1, <3>2
  <2>4. ~(Len(<<>>) >= chunkSize)
    BY <2>1
  <2>5. body' = body \o SubSeq(<<>>, 1, 0) /\ buffer' = Rest(<<>>, 0) /\ chunkSize' = chunkSize - 0 /\ reader' = reader
    BY <2>3, <2>4 DEF PutOut
  <2>6. SubSeq(<<>>, 1, 0) = <<>> /\ Rest(<<>>, 0) = <<>> /\ body \o <<>> = body
    BY <1>1, ConcatEmptySeq DEF Rest, BodyTypes
  <2>7. body' = body /\ buffer' = buffer /\ chunkSize' = chunkSize /\ reader' = reader
    <3>1. chunkSize - 0 = chunkSize
      BY <2>1
    <3> QED BY <2>1, <2>5, <2>6, <3>1
  <2>8. BodyTypes' /\ CutBehindSize'
    BY <1>1, <1>3, <1>8, <2>7 DEF BodyTypes, CutBehindSize, CutShort
  <2> QED BY <1>3, <2>7, <2>8 DEF BodyInv, Reader
<1> QED BY <1>7, <1>8

\* What the server does leaves what has been read alone.
LEMMA ServerKeepsBody == BodyInv /\ (SendSome \/ CloseConnection) => BodyInv'
<1> SUFFICES ASSUME BodyInv, SendSome \/ CloseConnection PROVE BodyInv'
  OBVIOUS
<1>1. BodyTypes
  BY DEF BodyInv
<1>2. UNCHANGED <<wire, whole, pulled, buffer, chunkSize, body, reader>>
  BY DEF SendSome, CloseConnection
<1>3. Coming' = Coming
  BY <1>2 DEF Coming
<1>4. ~ended /\ ended' \in BOOLEAN /\ sent' \in Nat /\ sent <= sent' /\ sent' <= Len(wire)
  <2>1. CASE SendSome
    <3>1. sent \in Nat /\ Len(wire) \in Nat /\ sent <= Len(wire) /\ MaxRead \in Nat
      BY <1>1, TransfersAssumption DEF BodyTypes
    <3>2. Len(wire) - sent \in Nat
      BY <3>1
    <3>3. Min({Len(wire) - sent, MaxRead}) = IF Len(wire) - sent <= MaxRead THEN Len(wire) - sent ELSE MaxRead
      BY <3>1, <3>2, MinOfTwo
    <3>4. PICK n \in 1..Min({Len(wire) - sent, MaxRead}) : sent' = sent + n
      BY <2>1 DEF SendSome
    <3>5. n \in Nat /\ n <= Len(wire) - sent
      BY <3>1, <3>2, <3>3
    <3>6. ~ended /\ ended' = ended
      BY <2>1 DEF SendSome
    <3> QED BY <1>1, <3>1, <3>4, <3>5, <3>6 DEF BodyTypes
  <2>2. CASE CloseConnection
    BY <1>1, <2>2 DEF CloseConnection, BodyTypes
  <2> QED BY <2>1, <2>2
<1>5. BodyTypes'
  BY <1>1, <1>2, <1>4 DEF BodyTypes
<1>6. ASSUME reader = "reads" PROVE Reader'
  <2>1. Reader /\ ~CutBehindSize
    BY <1>4, <1>6 DEF BodyInv, CutBehindSize, CutShort
  <2> QED BY <1>2, <1>3, <2>1 DEF Reader
<1>7. ASSUME reader = "closed" PROVE body = whole
  BY <1>4, <1>7 DEF BodyInv, CutShort
<1> QED BY <1>2, <1>5, <1>6, <1>7 DEF BodyInv

\* Nothing is lost when the body rests.
LEMMA BodyRests == BodyInv /\ chunkVars' = chunkVars => BodyInv'
<1> SUFFICES ASSUME BodyInv, UNCHANGED <<wire, whole, sent, ended, pulled, buffer, chunkSize, body, reader>>
             PROVE  BodyInv'
  BY DEF chunkVars
<1>1. BodyTypes'
  BY DEF BodyInv, BodyTypes
<1>2. Coming' = Coming
  BY DEF Coming
<1>3. Reader' <=> Reader
  BY <1>2 DEF Reader, CutBehindSize, CutShort
<1> QED BY <1>1, <1>3 DEF BodyInv, CutShort

\* Every step keeps where the reader is.
LEMMA BodyKeeps == BodyInv /\ [ChunkedNext]_chunkVars => BodyInv'
  BY PullKeeps, FlushKeeps, ServerKeepsBody, BodyRests DEF ChunkedNext

\* Where the reader is is enough for what is promised.
LEMMA BodyIsIn == BodyInv => BodyIsWhole
<1> SUFFICES ASSUME BodyInv PROVE BodyIsWhole
  OBVIOUS
<1>1. PICK x \in Seq(Nat) : whole = body \o x /\ body \in Seq(Nat)
  BY DEF BodyInv, BodyTypes, IsStartOf
<1>2. IsPrefix(body, whole)
  BY <1>1 DEF IsPrefix
<1>3. reader = "closed" /\ sent = Len(wire) => body = whole
  BY DEF BodyInv, CutShort, BodyTypes
<1> QED BY <1>2, <1>3 DEF BodyIsWhole, BodyInOrder

\* For any chunks, cut into any pieces, read in any order with what the server sends, and
\* whenever it closes: what comes out is the front of the body, and it is all of it when the
\* end is told and all of the reply was sent.
THEOREM BodyIsRead == ChunkedSpec => []BodyIsWhole
BY BodyStarts, BodyKeeps, BodyIsIn, PTL DEF ChunkedSpec
==============================================================================
