---------------------------- MODULE StreamProofs ----------------------------
(***************************************************************************)
(* Theorems about Stream for every size of record and buffer, every        *)
(* alphabet and every set of files, for streams in one direction.          *)
(***************************************************************************)
EXTENDS Stream, SequenceTheorems, WellFoundedInduction, TLAPS

(***************************************************************************)
(* The inductive invariant.                                                *)
(***************************************************************************)
\* Whatever may be in a file or a buffer.
Data == Chars \cup {"CR", "ETX", Junk} \cup UNION {{file[i] : i \in DOMAIN file} : file \in InitFiles}

Buffer  == [1..BUFSIZ -> Data]
Streams == [ptr : 0..BUFSIZ, cnt : 0..BUFSIZ, base : BOOLEAN, flag : SUBSET Flags,
            buf : Buffer, rwp : Nat, file : Seq(Data), wild : {FALSE}]

\* What was read ahead is what the file holds before the descriptor's position.
Reading(t) ==
    /\ ~Flag(t, "DIRN") /\ ~Flag(t, "WRT")
    /\ t.cnt <= t.rwp /\ t.ptr + t.cnt <= BUFSIZ
    /\ t.base \/ t.cnt = 0
    /\ \A i \in 1..t.cnt : t.buf[t.ptr + i] = t.file[t.rwp - t.cnt + i]

\* What waits and the room behind it fill the buffer.
Writing(t) ==
    /\ Flag(t, "DIRN") /\ ~Flag(t, "READ")
    /\ IF t.base THEN t.ptr + t.cnt = BUFSIZ ELSE t.cnt = 0

Sound(t) ==
    /\ t \in Streams /\ ~Flag(t, "NBF") /\ t.rwp <= Len(t.file)
    /\ Flag(t, "READ") => Reading(t)
    /\ Flag(t, "WRT") => Writing(t)

\* File f has the bytes b from p on.
Holds(f, p, b) == p + Len(b) <= Len(f) /\ \A i \in 1..Len(b) : f[p + i] = b[i]

\* What was put is where it was put, and the stream stands behind it.
Keeps(t, p) ==
    p.at >= 0 /\ ~Flag(t, "ERR") =>
        /\ Holds(Image(t), p.at, p.bytes)
        /\ Flag(t, "WRT") => p.at + Len(p.bytes) = Ftell(t)

\* As fopen() leaves it: nothing is in the buffer.
Untouched(t) == t.base /\ t.cnt = IF Flag(t, "WRT") THEN BUFSIZ ELSE 0

\* The last character read, c, is in front of the next.
ReadLast(t, c) ==
    /\ Flag(t, "READ") /\ t.cnt < t.rwp /\ t.file[t.rwp - t.cnt] = c
    /\ t.base => t.ptr > 0 /\ t.buf[t.ptr] = c

\* What may be, and what was put, as the ghosts tell.
Permits == [fresh : BOOLEAN, back : Data \cup {None}, dir : {None, "read", "write"}]
Marks   == [at : Int, bytes : Seq(Data)]

Good(t, m, p) ==
    /\ Sound(t)
    /\ m \in Permits
    /\ p \in Marks /\ Keeps(t, p)
    /\ IsOpen(t) /\ m.fresh => Untouched(t)
    /\ m.back # None => ~m.fresh /\ ReadLast(t, m.back)

Inv == Good(s, may, put)

-----------------------------------------------------------------------------
(***************************************************************************)
(* Bytes laid over a sequence.                                             *)
(***************************************************************************)
\* A sequence is determined by its length and its elements.
LEMMA SameSeq ==
    ASSUME NEW S, NEW a \in Seq(S), NEW b \in Seq(S), Len(a) = Len(b),
           \A i \in 1..Len(a) : a[i] = b[i]
    PROVE  a = b
  BY SeqEqual

LEMMA OverlayFacts ==
    ASSUME NEW S, NEW f \in Seq(S), NEW p \in 0..Len(f), NEW d \in Seq(S)
    PROVE  /\ Overlay(f, p, d) \in Seq(S)
           /\ Len(Overlay(f, p, d)) = IF p + Len(d) < Len(f) THEN Len(f) ELSE p + Len(d)
           /\ \A i \in 1..Len(Overlay(f, p, d)) :
                 Overlay(f, p, d)[i] = IF i > p /\ i <= p + Len(d) THEN d[i - p] ELSE f[i]
<1> DEFINE n == IF Len(d) = 0 \/ p + Len(d) < Len(f) THEN Len(f) ELSE p + Len(d)
           e(i) == IF i > p /\ i <= p + Len(d) THEN d[i - p]
                   ELSE IF i <= Len(f) THEN f[i] ELSE "ETX"
<1>1. Len(f) \in Nat /\ Len(d) \in Nat /\ n \in Nat
  OBVIOUS
<1>2. n = IF p + Len(d) < Len(f) THEN Len(f) ELSE p + Len(d)
  BY <1>1
<1>3. ASSUME NEW i \in 1..n
      PROVE  e(i) \in S /\ e(i) = IF i > p /\ i <= p + Len(d) THEN d[i - p] ELSE f[i]
  <2>1. CASE i > p /\ i <= p + Len(d)
    <3>1. i - p \in 1..Len(d)
      BY <1>1, <2>1
    <3>2. d[i - p] \in S
      BY <3>1, ElementOfSeq
    <3>3. QED
      BY <2>1, <3>2
  <2>2. CASE ~(i > p /\ i <= p + Len(d))
    <3>1. i \in 1..Len(f)
      BY <1>1, <2>2
    <3>2. f[i] \in S
      BY <3>1, ElementOfSeq
    <3>3. QED
      BY <2>2, <3>1, <3>2
  <2>3. QED
    BY <2>1, <2>2
<1>4. Overlay(f, p, d) = [i \in 1..n |-> e(i)]
  BY DEF Overlay
<1> HIDE DEF n, e
<1>5. Overlay(f, p, d) \in [1..n -> S]
  BY <1>3, <1>4
<1>6. Overlay(f, p, d) \in Seq(S) /\ Len(Overlay(f, p, d)) = n
  BY <1>1, <1>5
<1>7. QED
  BY <1>2, <1>3, <1>4, <1>6

LEMMA OverlayNothing ==
    ASSUME NEW S, NEW f \in Seq(S), NEW p \in 0..Len(f)
    PROVE  Overlay(f, p, <<>>) = f
<1>1. <<>> \in Seq(S) /\ Len(<<>>) = 0
  OBVIOUS
<1>0. PICK d \in Seq(S) : d = <<>>
  BY <1>1
<1>2. PICK g : g = Overlay(f, p, d)
  OBVIOUS
<1>3. /\ g \in Seq(S)
      /\ Len(g) = IF p + Len(d) < Len(f) THEN Len(f) ELSE p + Len(d)
      /\ \A i \in 1..Len(g) : g[i] = IF i > p /\ i <= p + Len(d) THEN d[i - p] ELSE f[i]
  BY <1>2, OverlayFacts
<1>4. Len(f) \in Nat /\ Len(d) = 0
  BY <1>0, <1>1
<1>5. Len(g) = Len(f)
  BY <1>3, <1>4
<1>6. \A i \in 1..Len(g) : g[i] = f[i]
  BY <1>3, <1>4
<1>7. g = f
  BY <1>3, <1>5, <1>6, SameSeq
<1>8. QED
  BY <1>0, <1>2, <1>7

\* What is laid over twice, side by side, is laid over at once.
LEMMA OverlayTwice ==
    ASSUME NEW S, NEW f \in Seq(S), NEW p \in 0..Len(f), NEW d \in Seq(S), NEW e \in Seq(S)
    PROVE  Overlay(Overlay(f, p, d), p + Len(d), e) = Overlay(f, p, d \o e)
<1> DEFINE g == Overlay(f, p, d)
           a == Overlay(g, p + Len(d), e)
           b == Overlay(f, p, d \o e)
<1>1. Len(f) \in Nat /\ Len(d) \in Nat /\ Len(e) \in Nat
  OBVIOUS
<1>2. /\ g \in Seq(S) /\ Len(g) = IF p + Len(d) < Len(f) THEN Len(f) ELSE p + Len(d)
      /\ \A i \in 1..Len(g) : g[i] = IF i > p /\ i <= p + Len(d) THEN d[i - p] ELSE f[i]
  BY OverlayFacts
<1> HIDE DEF g
<1>3. p + Len(d) \in 0..Len(g)
  BY <1>1, <1>2
<1>4. /\ a \in Seq(S)
      /\ Len(a) = IF p + Len(d) + Len(e) < Len(g) THEN Len(g) ELSE p + Len(d) + Len(e)
      /\ \A i \in 1..Len(a) : a[i] = IF i > p + Len(d) /\ i <= p + Len(d) + Len(e)
                                     THEN e[i - (p + Len(d))] ELSE g[i]
  BY <1>2, <1>3, OverlayFacts
<1>5. /\ d \o e \in Seq(S) /\ Len(d \o e) = Len(d) + Len(e)
      /\ \A i \in 1..Len(d) + Len(e) : (d \o e)[i] = IF i <= Len(d) THEN d[i] ELSE e[i - Len(d)]
  BY ConcatProperties
<1>0. \A c \in Seq(S) :
         /\ Overlay(f, p, c) \in Seq(S)
         /\ Len(Overlay(f, p, c)) = IF p + Len(c) < Len(f) THEN Len(f) ELSE p + Len(c)
         /\ \A i \in 1..Len(Overlay(f, p, c)) :
               Overlay(f, p, c)[i] = IF i > p /\ i <= p + Len(c) THEN c[i - p] ELSE f[i]
  BY OverlayFacts
<1>6. /\ b \in Seq(S)
      /\ Len(b) = IF p + Len(d \o e) < Len(f) THEN Len(f) ELSE p + Len(d \o e)
      /\ \A i \in 1..Len(b) : b[i] = IF i > p /\ i <= p + Len(d \o e) THEN (d \o e)[i - p] ELSE f[i]
  BY <1>0, <1>5
<1> HIDE DEF a, b
<1>7. Len(a) = Len(b) /\ Len(a) \in Nat
  BY <1>1, <1>2, <1>4, <1>5, <1>6
<1>8. ASSUME NEW i \in 1..Len(a) PROVE a[i] = b[i]
  <2>1. CASE i > p + Len(d) /\ i <= p + Len(d) + Len(e)
    <3>1. a[i] = e[i - (p + Len(d))]
      BY <1>4, <2>1
    <3>2. i - p \in 1..Len(d) + Len(e) /\ ~(i - p <= Len(d)) /\ (i - p) - Len(d) = i - (p + Len(d))
      BY <1>1, <1>7, <2>1
    <3>3. (d \o e)[i - p] = e[i - (p + Len(d))]
      BY <1>5, <3>2
    <3>4. b[i] = (d \o e)[i - p]
      BY <1>1, <1>5, <1>6, <1>7, <2>1
    <3>5. QED
      BY <3>1, <3>3, <3>4
  <2>2. CASE i > p /\ i <= p + Len(d)
    <3>1. i \in 1..Len(g) /\ ~(i > p + Len(d))
      BY <1>1, <1>2, <1>7, <2>2
    <3>2. a[i] = g[i] /\ g[i] = d[i - p]
      BY <1>2, <1>4, <2>2, <3>1
    <3>3. i - p \in 1..Len(d) + Len(e) /\ i - p <= Len(d)
      BY <1>1, <1>7, <2>2
    <3>4. b[i] = (d \o e)[i - p]
      BY <1>1, <1>5, <1>6, <1>7, <2>2
    <3>5. QED
      BY <1>5, <3>2, <3>3, <3>4
  <2>3. CASE i <= p \/ i > p + Len(d) + Len(e)
    <3>1. i \in 1..Len(g) /\ ~(i > p /\ i <= p + Len(d))
      BY <1>1, <1>2, <1>4, <1>7, <2>3
    <3>2. a[i] = g[i] /\ g[i] = f[i]
      BY <1>1, <1>2, <1>4, <2>3, <3>1
    <3>3. b[i] = f[i]
      BY <1>1, <1>5, <1>6, <1>7, <2>3
    <3>4. QED
      BY <3>2, <3>3
  <2>4. QED
    BY <1>1, <1>7, <2>1, <2>2, <2>3
<1>9. a = b
  BY <1>4, <1>6, <1>7, <1>8, SameSeq
<1>10. QED
  BY <1>9 DEF a, b, g

-----------------------------------------------------------------------------
(***************************************************************************)
(* Writing.                                                                *)
(***************************************************************************)
LEMMA Sizes == BUFSIZ \in Nat \ {0} /\ SECSIZE \in Nat \ {0}
  BY StreamAssumption

LEMMA BufferIsSeq ==
    ASSUME NEW b \in Buffer
    PROVE  b \in Seq(Data) /\ Len(b) = BUFSIZ
  BY Sizes DEF Buffer

LEMMA FirstBytes ==
    ASSUME NEW S, NEW q \in Seq(S), NEW k \in 0..Len(q)
    PROVE  /\ SubSeq(q, 1, k) \in Seq(S) /\ Len(SubSeq(q, 1, k)) = k
           /\ \A i \in 1..k : SubSeq(q, 1, k)[i] = q[i]
           /\ k = Len(q) => SubSeq(q, 1, k) = q
           /\ k = 0 => SubSeq(q, 1, k) = <<>>
<1>1. Len(q) \in Nat /\ k \in Nat
  OBVIOUS
<1>2. /\ SubSeq(q, 1, k) \in Seq(S) /\ Len(SubSeq(q, 1, k)) = k
      /\ \A i \in 1..k : SubSeq(q, 1, k)[i] = q[i]
  <2>1. \A i \in 1..k : q[1 + i - 1] = q[i]
    BY <1>1
  <2>2. QED
    BY <1>1, <2>1, SubSeqProperties
<1>3. k = Len(q) => SubSeq(q, 1, k) = q
  BY <1>1, <1>2, SameSeq
<1>4. k = 0 => SubSeq(q, 1, k) = <<>>
  BY <1>2, EmptySeq
<1>5. QED
  BY <1>2, <1>3, <1>4

LEMMA UnwrittenFacts ==
    ASSUME NEW t \in Streams
    PROVE  /\ Unwritten(t) \in Seq(Data) /\ Len(Unwritten(t)) = BUFSIZ - t.cnt
           /\ BUFSIZ - t.cnt \in 0..BUFSIZ
           /\ \A i \in 1..(BUFSIZ - t.cnt) : Unwritten(t)[i] = t.buf[i]
           /\ t.cnt = 0 => Unwritten(t) = t.buf
           /\ t.cnt = BUFSIZ => Unwritten(t) = <<>>
<1>1. t.buf \in Seq(Data) /\ Len(t.buf) = BUFSIZ
  BY BufferIsSeq DEF Streams
<1>2. BUFSIZ - t.cnt \in 0..BUFSIZ /\ t.cnt \in 0..BUFSIZ
  BY Sizes DEF Streams
<1>3. t.cnt = 0 => BUFSIZ - t.cnt = BUFSIZ
  BY Sizes
<1>4. t.cnt = BUFSIZ => BUFSIZ - t.cnt = 0
  BY Sizes
<1>5. QED
  BY <1>1, <1>2, <1>3, <1>4, FirstBytes DEF Unwritten

LEMMA WriteFacts ==
    ASSUME NEW t \in Streams, t.rwp <= Len(t.file), NEW d \in Seq(Data), NEW k \in 0..Len(d)
    PROVE  /\ Write(t, d, k) \in Streams
           /\ Write(t, d, k).rwp = t.rwp + k
           /\ Write(t, d, k).file = Overlay(t.file, t.rwp, SubSeq(d, 1, k))
           /\ t.rwp + k <= Len(Write(t, d, k).file)
           /\ Write(t, d, k).ptr = t.ptr /\ Write(t, d, k).cnt = t.cnt /\ Write(t, d, k).base = t.base
           /\ Write(t, d, k).flag = t.flag /\ Write(t, d, k).buf = t.buf /\ Write(t, d, k).wild = t.wild
           /\ k = 0 => Write(t, d, k) = t
<1> DEFINE o == Overlay(t.file, t.rwp, SubSeq(d, 1, k))
<1>1. t.file \in Seq(Data) /\ t.rwp \in 0..Len(t.file) /\ k \in Nat
  BY DEF Streams
<1>2. SubSeq(d, 1, k) \in Seq(Data) /\ Len(SubSeq(d, 1, k)) = k /\ (k = 0 => SubSeq(d, 1, k) = <<>>)
  BY FirstBytes
<1>3. o \in Seq(Data) /\ Len(o) = IF t.rwp + k < Len(t.file) THEN Len(t.file) ELSE t.rwp + k
  <2>1. \A f \in Seq(Data) : \A p \in 0..Len(f), c \in Seq(Data) :
           /\ Overlay(f, p, c) \in Seq(Data)
           /\ Len(Overlay(f, p, c)) = IF p + Len(c) < Len(f) THEN Len(f) ELSE p + Len(c)
    BY OverlayFacts
  <2>2. PICK c \in Seq(Data), f \in Seq(Data) : c = SubSeq(d, 1, k) /\ f = t.file
    BY <1>1, <1>2
  <2> PICK p \in 0..Len(f) : p = t.rwp
    BY <1>1, <2>2
  <2>3. /\ Overlay(f, p, c) \in Seq(Data)
        /\ Len(Overlay(f, p, c)) = IF p + Len(c) < Len(f) THEN Len(f) ELSE p + Len(c)
    BY <2>1
  <2>4. Len(c) = k
    BY <1>2, <2>2
  <2>5. o = Overlay(f, p, c)
    BY <2>2
  <2>6. QED
    BY <2>2, <2>3, <2>4, <2>5
<1>4. k = 0 => o = t.file
  BY <1>1, <1>2, OverlayNothing
<1> HIDE DEF o
<1>5. Write(t, d, k) = [t EXCEPT !.file = o, !.rwp = t.rwp + k]
  BY DEF Write, o
<1>6. t.rwp + k \in Nat /\ t.rwp + k <= Len(o)
  BY <1>1, <1>3
<1>7. Write(t, d, k) \in Streams
  BY <1>3, <1>5, <1>6 DEF Streams
<1>8. k = 0 => Write(t, d, k) = t
  <2>1. k = 0 => Write(t, d, k) = [t EXCEPT !.file = t.file, !.rwp = t.rwp]
    <3>1. k = 0 => t.rwp + k = t.rwp
      BY <1>1
    <3>2. QED
      BY <1>4, <1>5, <3>1
  <2>2. QED
    BY <2>1 DEF Streams
<1>9. QED
  BY <1>5, <1>6, <1>7, <1>8 DEF Streams, o


LEMMA WrittenFacts ==
    ASSUME NEW t, NEW n \in Nat, NEW k \in Written(t, n)
    PROVE  k \in 0..n
  BY DEF Written, Stops

LEMMA FlushesWhen ==
    ASSUME NEW t, Sound(t)
    PROVE  Flushes(t) <=> Flag(t, "WRT") /\ t.base /\ t.cnt # BUFSIZ
  BY DEF Sound, Flushes, Writing

LEMMA Fields ==
    ASSUME NEW t, Sound(t)
    PROVE  /\ t \in Streams /\ t.ptr \in 0..BUFSIZ /\ t.cnt \in 0..BUFSIZ /\ t.base \in BOOLEAN
           /\ t.flag \subseteq Flags /\ t.buf \in Buffer /\ t.rwp \in Nat /\ t.file \in Seq(Data)
           /\ t.wild = FALSE /\ t.rwp <= Len(t.file) /\ t.rwp \in 0..Len(t.file) /\ ~Flag(t, "NBF")
           /\ Len(t.file) \in Nat
<1>1. t \in Streams /\ ~Flag(t, "NBF") /\ t.rwp <= Len(t.file)
  BY DEF Sound
<1>2. /\ t.ptr \in 0..BUFSIZ /\ t.cnt \in 0..BUFSIZ /\ t.base \in BOOLEAN
      /\ t.flag \subseteq Flags /\ t.buf \in Buffer /\ t.rwp \in Nat /\ t.file \in Seq(Data)
      /\ t.wild = FALSE
  BY <1>1 DEF Streams
<1>3. Len(t.file) \in Nat
  BY <1>2
<1>4. QED
  BY <1>1, <1>2, <1>3

\* The file with what waits, whether anything waits or not.
LEMMA ImageFacts ==
    ASSUME NEW t, Sound(t)
    PROVE  /\ Image(t) \in Seq(Data)
           /\ Flag(t, "WRT") /\ t.base =>
                 /\ Image(t) = Overlay(t.file, t.rwp, Unwritten(t))
                 /\ Ftell(t) = t.rwp + (BUFSIZ - t.cnt)
           /\ ~(Flag(t, "WRT") /\ t.base) => Image(t) = t.file /\ Ftell(t) = t.rwp - t.cnt
           /\ Flag(t, "WRT") /\ ~t.base => Ftell(t) = t.rwp
           /\ Flag(t, "WRT") \/ Flag(t, "READ") => Ftell(t) \in 0..Len(Image(t))
           /\ t.cnt \in 0..BUFSIZ /\ t.rwp \in Nat /\ t.file \in Seq(Data) /\ t.rwp \in 0..Len(t.file)
<1>1. /\ t \in Streams /\ t.rwp \in 0..Len(t.file) /\ t.file \in Seq(Data) /\ t.base \in BOOLEAN
      /\ t.cnt \in 0..BUFSIZ /\ t.rwp \in Nat
  BY Fields
<1>2. /\ Unwritten(t) \in Seq(Data) /\ Len(Unwritten(t)) = BUFSIZ - t.cnt /\ BUFSIZ - t.cnt \in 0..BUFSIZ
      /\ t.cnt = BUFSIZ => Unwritten(t) = <<>>
  BY <1>1, UnwrittenFacts
<1>3. CASE Flag(t, "WRT") /\ t.base
  <2>1. Image(t) = Overlay(t.file, t.rwp, Unwritten(t))
    <3>1. CASE t.cnt = BUFSIZ
      <4>1. Image(t) = t.file
        BY <3>1, FlushesWhen DEF Image
      <4>2. Overlay(t.file, t.rwp, <<>>) = t.file
        BY <1>1, OverlayNothing
      <4>3. QED
        BY <1>2, <3>1, <4>1, <4>2
    <3>2. CASE t.cnt # BUFSIZ
      BY <1>3, <3>2, FlushesWhen DEF Image
    <3>3. QED
      BY <3>1, <3>2
  <2>2. Ftell(t) = t.rwp + (BUFSIZ - t.cnt)
    BY <1>1, <1>3, Sizes DEF Ftell
  <2>3. /\ Overlay(t.file, t.rwp, Unwritten(t)) \in Seq(Data)
        /\ Len(Overlay(t.file, t.rwp, Unwritten(t))) >= t.rwp + (BUFSIZ - t.cnt)
    <3>1. \A f \in Seq(Data) : \A p \in 0..Len(f), c \in Seq(Data) :
             Overlay(f, p, c) \in Seq(Data) /\ Len(Overlay(f, p, c)) >= p + Len(c)
      <4> TAKE f \in Seq(Data)
      <4> TAKE p \in 0..Len(f), c \in Seq(Data)
      <4>1. /\ Overlay(f, p, c) \in Seq(Data)
            /\ Len(Overlay(f, p, c)) = IF p + Len(c) < Len(f) THEN Len(f) ELSE p + Len(c)
        BY OverlayFacts
      <4>2. Len(f) \in Nat /\ Len(c) \in Nat
        OBVIOUS
      <4>3. QED
        BY <4>1, <4>2
    <3>2. QED
      BY <1>1, <1>2, <3>1
  <2>4. Ftell(t) \in 0..Len(Image(t))
    BY <1>1, <1>2, <2>1, <2>2, <2>3
  <2>5. QED
    BY <1>1, <1>3, <2>1, <2>2, <2>3, <2>4
<1>4. CASE ~(Flag(t, "WRT") /\ t.base)
  <2>1. Image(t) = t.file
    BY <1>4, FlushesWhen DEF Image
  <2>2. Ftell(t) = t.rwp - t.cnt
    <3>1. Ftell(t) = t.rwp + 0 - t.cnt
      BY <1>4 DEF Ftell
    <3>2. QED
      BY <1>1, <3>1
  <2>3. Flag(t, "WRT") /\ ~t.base => t.cnt = 0
    BY DEF Sound, Writing
  <2>4. Flag(t, "READ") => t.cnt <= t.rwp
    BY DEF Sound, Reading
  <2>5. Flag(t, "WRT") \/ Flag(t, "READ") => Ftell(t) \in 0..Len(Image(t))
    BY <1>1, <1>4, <2>1, <2>2, <2>3, <2>4
  <2>6. QED
    BY <1>1, <1>4, <2>1, <2>2, <2>3, <2>5
<1>5. QED
  BY <1>3, <1>4

\* u is t but for what is in its buffer: the program sees the same.
Alike(t, u) ==
    /\ \A b \in Flags \ {"ERR", "WROTE"} : Flag(u, b) <=> Flag(t, b)
    /\ u.base = t.base
    /\ ~Flag(u, "ERR") => ~Flag(t, "ERR") /\ Image(u) = Image(t) /\ Ftell(u) = Ftell(t)

LEMMA FflushFacts ==
    ASSUME NEW t, Sound(t), NEW k \in Flushed(t)
    PROVE  /\ Sound(Fflush(t, k)) /\ Alike(t, Fflush(t, k)) /\ ~Flushes(Fflush(t, k))
           /\ ~Flushes(t) => Fflush(t, k) = t
<1>1. CASE ~Flushes(t)
  <2>1. Fflush(t, k) = t
    BY <1>1 DEF Fflush
  <2>2. Alike(t, t)
    BY DEF Alike
  <2>3. QED
    BY <1>1, <2>1, <2>2
<1>2. CASE Flushes(t)
  <2> DEFINE n == BUFSIZ - t.cnt
             w == Write(t, Unwritten(t), k)
             v == [Clear(w, {"WROTE"}) EXCEPT !.cnt = BUFSIZ, !.ptr = 0]
             u == Short(v, k, n)
  <2>1. Fflush(t, k) = u
    BY <1>2 DEF Fflush
  <2>2. /\ t \in Streams /\ t.rwp <= Len(t.file) /\ t.file \in Seq(Data) /\ t.rwp \in Nat
        /\ Flag(t, "WRT") /\ Flag(t, "DIRN") /\ ~Flag(t, "READ") /\ ~Flag(t, "NBF") /\ t.base
    BY <1>2, Fields DEF Sound, Flushes, Writing
  <2>3. /\ Unwritten(t) \in Seq(Data) /\ Len(Unwritten(t)) = n /\ n \in 0..BUFSIZ
    BY <2>2, UnwrittenFacts
  <2>4. k \in 0..n
    BY <1>2, <2>3, WrittenFacts DEF Flushed
  <2>5. /\ w \in Streams /\ w.rwp = t.rwp + k /\ w.rwp <= Len(w.file)
        /\ w.file = Overlay(t.file, t.rwp, SubSeq(Unwritten(t), 1, k))
        /\ w.flag = t.flag /\ w.base = t.base /\ w.wild = t.wild
    <3>1. PICK d \in Seq(Data) : d = Unwritten(t)
      BY <2>3
    <3>2. k \in 0..Len(d)
      BY <2>3, <2>4, <3>1
    <3>3. QED
      BY <2>2, <3>1, <3>2, WriteFacts
  <2> HIDE DEF w
  <2>6. /\ v \in Streams /\ v.rwp = w.rwp /\ v.file = w.file /\ v.base = w.base /\ v.cnt = BUFSIZ
        /\ v.ptr = 0 /\ v.flag = w.flag \ {"WROTE"} /\ v.wild = w.wild
    <3>1. /\ Clear(w, {"WROTE"}) \in Streams /\ Clear(w, {"WROTE"}).rwp = w.rwp
          /\ Clear(w, {"WROTE"}).file = w.file /\ Clear(w, {"WROTE"}).base = w.base
          /\ Clear(w, {"WROTE"}).flag = w.flag \ {"WROTE"} /\ Clear(w, {"WROTE"}).wild = w.wild
      BY <2>5 DEF Clear, Streams
    <3>2. BUFSIZ \in 0..BUFSIZ /\ 0 \in 0..BUFSIZ
      BY Sizes
    <3>3. QED
      BY <3>1, <3>2 DEF Streams
  <2> HIDE DEF v
  <2>7. /\ u \in Streams /\ u.rwp = v.rwp /\ u.file = v.file /\ u.base = v.base /\ u.cnt = BUFSIZ
        /\ u.ptr = 0 /\ u.wild = v.wild
        /\ u.flag = IF k = n THEN v.flag ELSE v.flag \cup {"ERR"}
    BY <2>6 DEF Short, Set, Streams, Flags
  <2> HIDE DEF u
  <2>8. \A b \in Flags \ {"ERR", "WROTE"} : Flag(u, b) <=> Flag(t, b)
    BY <2>5, <2>6, <2>7 DEF Flag
  <2>9. Flag(u, "WRT") /\ Flag(u, "DIRN") /\ ~Flag(u, "READ") /\ ~Flag(u, "NBF") /\ u.base
    BY <2>2, <2>5, <2>6, <2>7, <2>8 DEF Flags
  <2>10. Sound(u)
    <3>1. Writing(u)
      BY <2>7, <2>9, Sizes DEF Writing
    <3>2. u.rwp <= Len(u.file)
      BY <2>5, <2>6, <2>7
    <3>3. QED
      BY <2>7, <2>9, <3>1, <3>2 DEF Sound
  <2>11. ~Flushes(u)
    BY <2>7 DEF Flushes
  <2>12. ASSUME ~Flag(u, "ERR")
         PROVE  ~Flag(t, "ERR") /\ Image(u) = Image(t) /\ Ftell(u) = Ftell(t)
    <3>1. k = n /\ u.flag = v.flag
      BY <2>7, <2>12 DEF Flag
    <3>2. ~Flag(t, "ERR")
      BY <2>5, <2>6, <2>12, <3>1 DEF Flag
    <3>3. SubSeq(Unwritten(t), 1, k) = Unwritten(t)
      BY <2>3, <2>4, <3>1, FirstBytes
    <3>4. Image(u) = u.file
      BY <2>11 DEF Image
    <3>5. Image(t) = Overlay(t.file, t.rwp, Unwritten(t))
      BY <1>2 DEF Image
    <3>6. Ftell(u) = u.rwp + (BUFSIZ - u.cnt) /\ Ftell(t) = t.rwp + n
      BY <2>2, <2>9, <2>10, ImageFacts
    <3>7. u.rwp = t.rwp + n /\ u.cnt = BUFSIZ
      BY <2>5, <2>6, <2>7, <3>1
    <3>8. Ftell(u) = Ftell(t)
      BY <2>2, <2>3, <3>6, <3>7, Sizes
    <3>9. QED
      BY <2>5, <2>6, <2>7, <3>2, <3>3, <3>4, <3>5, <3>8
  <2>13. Alike(t, u)
    BY <2>5, <2>6, <2>7, <2>8, <2>12 DEF Alike
  <2>14. QED
    BY <1>2, <2>1, <2>10, <2>11, <2>13
<1>3. QED
  BY <1>1, <1>2


\* c was put into t, which is u now, where it stood.
PutInto(t, u, c) ==
    /\ Sound(u) /\ u.base = t.base
    /\ \A b \in Flags \ {"ERR"} : Flag(u, b) <=> Flag(t, b)
    /\ ~Flag(u, "ERR") => /\ ~Flag(t, "ERR") /\ Ftell(u) = Ftell(t) + 1
                          /\ Image(u) = Overlay(Image(t), Ftell(t), <<c>>)

LEMMA OneByte ==
    ASSUME NEW c \in Data
    PROVE  <<c>> \in Seq(Data) /\ Len(<<c>>) = 1
  OBVIOUS

LEMMA PutUnbuffered ==
    ASSUME NEW t, Sound(t), Flag(t, "WRT"), ~t.base, NEW c \in Data, NEW k \in {0, 1}
    PROVE  /\ PutInto(t, Flsbuf(t, c, k), c)
           /\ ~Flag(Flsbuf(t, c, k), "ERR") => k = 1
<1> DEFINE w == Write(t, <<c>>, k)
           v == [w EXCEPT !.cnt = 0]
           u == Short(v, k, 1)
<1>1. /\ t \in Streams /\ t.rwp <= Len(t.file) /\ t.file \in Seq(Data) /\ t.rwp \in Nat /\ t.cnt \in 0..BUFSIZ
      /\ Flag(t, "DIRN") /\ ~Flag(t, "READ") /\ ~Flag(t, "NBF") /\ t.cnt = 0
  BY Fields DEF Sound, Writing
<1>2. /\ w \in Streams /\ w.rwp = t.rwp + k /\ w.rwp <= Len(w.file)
      /\ w.file = Overlay(t.file, t.rwp, SubSeq(<<c>>, 1, k))
      /\ w.flag = t.flag /\ w.base = t.base /\ w.wild = t.wild
  <2>1. k \in 0..Len(<<c>>) /\ <<c>> \in Seq(Data)
    BY OneByte
  <2>2. PICK d \in Seq(Data) : d = <<c>>
    BY <2>1
  <2>3. k \in 0..Len(d)
    BY <2>1, <2>2
  <2>4. QED
    BY <1>1, <2>2, <2>3, WriteFacts
<1> HIDE DEF w
<1>3. /\ v \in Streams /\ v.rwp = w.rwp /\ v.file = w.file /\ v.base = w.base /\ v.cnt = 0
      /\ v.flag = w.flag /\ v.wild = w.wild
  <2>1. 0 \in 0..BUFSIZ
    BY Sizes
  <2>2. QED
    BY <1>2, <2>1 DEF Streams
<1> HIDE DEF v
<1>4. /\ u \in Streams /\ u.rwp = v.rwp /\ u.file = v.file /\ u.base = v.base /\ u.cnt = 0
      /\ u.wild = v.wild /\ u.flag = IF k = 1 THEN v.flag ELSE v.flag \cup {"ERR"}
  BY <1>3 DEF Short, Set, Streams, Flags
<1> HIDE DEF u
<1>5. \A b \in Flags \ {"ERR"} : Flag(u, b) <=> Flag(t, b)
  BY <1>2, <1>3, <1>4 DEF Flag
<1>6. Flag(u, "WRT") /\ Flag(u, "DIRN") /\ ~Flag(u, "READ") /\ ~Flag(u, "NBF") /\ ~u.base /\ u.base = t.base
  BY <1>1, <1>2, <1>3, <1>4, <1>5 DEF Flags
<1>7. Sound(u)
  BY <1>2, <1>3, <1>4, <1>6 DEF Sound, Writing
<1>8. ASSUME ~Flag(u, "ERR")
      PROVE  /\ k = 1 /\ ~Flag(t, "ERR") /\ Ftell(u) = Ftell(t) + 1
             /\ Image(u) = Overlay(Image(t), Ftell(t), <<c>>)
  <2>1. k = 1 /\ u.flag = t.flag
    BY <1>2, <1>3, <1>4, <1>8 DEF Flag
  <2>2. ~Flag(t, "ERR")
    BY <1>8, <2>1 DEF Flag
  <2>3. Image(u) = u.file /\ Ftell(u) = u.rwp
    BY <1>6, <1>7, ImageFacts
  <2>4. Image(t) = t.file /\ Ftell(t) = t.rwp
    BY ImageFacts
  <2>5. SubSeq(<<c>>, 1, k) = <<c>>
    <3>1. PICK d \in Seq(Data) : d = <<c>> /\ Len(d) = 1
      BY OneByte
    <3>2. k \in 0..Len(d) /\ k = Len(d)
      BY <2>1, <3>1
    <3>3. SubSeq(d, 1, k) = d
      BY <3>2, FirstBytes
    <3>4. QED
      BY <3>1, <3>3
  <2>6. QED
    BY <1>2, <1>3, <1>4, <2>1, <2>2, <2>3, <2>4, <2>5
<1>9. u = Flsbuf(t, c, k)
  BY DEF Flsbuf, u, v, w
<1>10. PutInto(t, u, c)
  BY <1>5, <1>6, <1>7, <1>8 DEF PutInto
<1>11. QED
  BY <1>8, <1>9, <1>10

LEMMA PutFull ==
    ASSUME NEW t, Sound(t), Flag(t, "WRT"), t.base, t.cnt = 0, NEW c \in Data, NEW k \in 0..BUFSIZ
    PROVE  PutInto(t, Flsbuf(t, c, k), c)
<1> DEFINE w == Write(t, t.buf, k)
           v == [w EXCEPT !.cnt = BUFSIZ - 1, !.ptr = 1, !.buf = [@ EXCEPT ![1] = c]]
           u == Short(v, k, BUFSIZ)
<1>1. /\ t \in Streams /\ t.rwp <= Len(t.file) /\ t.file \in Seq(Data) /\ t.rwp \in Nat /\ t.buf \in Buffer
      /\ Flag(t, "DIRN") /\ ~Flag(t, "READ") /\ ~Flag(t, "NBF")
  BY Fields DEF Sound, Writing
<1>2. t.buf \in Seq(Data) /\ Len(t.buf) = BUFSIZ
  BY <1>1, BufferIsSeq
<1>3. /\ w \in Streams /\ w.rwp = t.rwp + k /\ w.rwp <= Len(w.file)
      /\ w.file = Overlay(t.file, t.rwp, SubSeq(t.buf, 1, k))
      /\ w.flag = t.flag /\ w.base = t.base /\ w.wild = t.wild /\ w.buf = t.buf
  <2>1. PICK d \in Seq(Data) : d = t.buf
    BY <1>2
  <2>2. k \in 0..Len(d)
    BY <1>2, <2>1
  <2>3. QED
    BY <1>1, <2>1, <2>2, WriteFacts
<1> HIDE DEF w
<1>4. /\ v \in Streams /\ v.rwp = w.rwp /\ v.file = w.file /\ v.base = w.base /\ v.cnt = BUFSIZ - 1
      /\ v.ptr = 1 /\ v.buf = [w.buf EXCEPT ![1] = c] /\ v.flag = w.flag /\ v.wild = w.wild
  <2>1. BUFSIZ - 1 \in 0..BUFSIZ /\ 1 \in 0..BUFSIZ /\ 1 \in 1..BUFSIZ
    BY Sizes
  <2>2. [w.buf EXCEPT ![1] = c] \in Buffer
    BY <1>1, <1>3 DEF Buffer
  <2> DEFINE b == [w.buf EXCEPT ![1] = c]
  <2> HIDE DEF b
  <2>3. v = [w EXCEPT !.cnt = BUFSIZ - 1, !.ptr = 1, !.buf = b]
    BY DEF b
  <2>4. b \in Buffer
    BY <2>2 DEF b
  <2>5. [w EXCEPT !.cnt = BUFSIZ - 1, !.ptr = 1, !.buf = b] \in Streams
    BY <1>3, <2>1, <2>4 DEF Streams
  <2>6. /\ v.rwp = w.rwp /\ v.file = w.file /\ v.base = w.base /\ v.cnt = BUFSIZ - 1
        /\ v.ptr = 1 /\ v.buf = b /\ v.flag = w.flag /\ v.wild = w.wild
    BY <1>3, <2>3 DEF Streams
  <2>7. QED
    BY <2>3, <2>5, <2>6 DEF b
<1> HIDE DEF v
<1>5. /\ u \in Streams /\ u.rwp = v.rwp /\ u.file = v.file /\ u.base = v.base /\ u.cnt = BUFSIZ - 1
      /\ u.ptr = 1 /\ u.buf = v.buf /\ u.wild = v.wild
      /\ u.flag = IF k = BUFSIZ THEN v.flag ELSE v.flag \cup {"ERR"}
  BY <1>4 DEF Short, Set, Streams, Flags
<1> HIDE DEF u
<1>6. \A b \in Flags \ {"ERR"} : Flag(u, b) <=> Flag(t, b)
  BY <1>3, <1>4, <1>5 DEF Flag
<1>7. Flag(u, "WRT") /\ Flag(u, "DIRN") /\ ~Flag(u, "READ") /\ ~Flag(u, "NBF") /\ u.base /\ u.base = t.base
  BY <1>1, <1>3, <1>4, <1>5, <1>6 DEF Flags
<1>8. Sound(u)
  <2>1. u.ptr + u.cnt = BUFSIZ
    BY <1>5, Sizes
  <2>2. u.rwp <= Len(u.file)
    BY <1>3, <1>4, <1>5
  <2>3. QED
    BY <1>5, <1>7, <2>1, <2>2 DEF Sound, Writing
<1>9. ASSUME ~Flag(u, "ERR")
      PROVE  /\ ~Flag(t, "ERR") /\ Ftell(u) = Ftell(t) + 1
             /\ Image(u) = Overlay(Image(t), Ftell(t), <<c>>)
  <2>1. k = BUFSIZ /\ u.flag = t.flag
    BY <1>3, <1>4, <1>5, <1>9 DEF Flag
  <2>2. ~Flag(t, "ERR")
    BY <1>9, <2>1 DEF Flag
  <2>3. Image(u) = Overlay(u.file, u.rwp, Unwritten(u)) /\ Ftell(u) = u.rwp + (BUFSIZ - u.cnt)
    BY <1>7, <1>8, ImageFacts
  <2>4. /\ Image(t) = Overlay(t.file, t.rwp, Unwritten(t)) /\ Ftell(t) = t.rwp + (BUFSIZ - t.cnt)
    BY ImageFacts
  <2>5. Unwritten(t) = t.buf
    BY <1>1, UnwrittenFacts
  <2>6. SubSeq(t.buf, 1, k) = t.buf
    BY <1>2, <2>1, FirstBytes, Sizes
  <2>7. Unwritten(u) = <<c>>
    <3>1. BUFSIZ - u.cnt = 1
      BY <1>5, Sizes
    <3>2. /\ Unwritten(u) \in Seq(Data) /\ Len(Unwritten(u)) = 1 /\ Unwritten(u)[1] = u.buf[1]
      <4>1. /\ Unwritten(u) \in Seq(Data) /\ Len(Unwritten(u)) = BUFSIZ - u.cnt
            /\ \A i \in 1..(BUFSIZ - u.cnt) : Unwritten(u)[i] = u.buf[i]
        BY <1>5, UnwrittenFacts
      <4>2. 1 \in 1..(BUFSIZ - u.cnt)
        BY <3>1
      <4>3. QED
        BY <3>1, <4>1, <4>2
    <3>3. u.buf[1] = c
      <4>1. 1 \in 1..BUFSIZ
        BY Sizes
      <4>2. u.buf = [t.buf EXCEPT ![1] = c]
        BY <1>3, <1>4, <1>5
      <4>3. QED
        BY <1>1, <4>1, <4>2 DEF Buffer
    <3>4. Len(<<c>>) = 1 /\ <<c>>[1] = c /\ <<c>> \in Seq(Data)
      OBVIOUS
    <3>5. QED
      BY <3>2, <3>3, <3>4, SameSeq
  <2>8. u.rwp = t.rwp + BUFSIZ /\ u.file = Image(t) /\ u.cnt = BUFSIZ - 1
    <3>1. u.rwp = t.rwp + k /\ u.cnt = BUFSIZ - 1
      BY <1>3, <1>4, <1>5
    <3>2. u.file = Overlay(t.file, t.rwp, SubSeq(t.buf, 1, k))
      BY <1>3, <1>4, <1>5
    <3>3. QED
      BY <2>1, <2>4, <2>5, <2>6, <3>1, <3>2
  <2>9. Ftell(t) = t.rwp + BUFSIZ
    BY <2>4, Sizes
  <2>10. Ftell(u) = Ftell(t) + 1
    BY <1>1, <2>3, <2>8, <2>9, Sizes
  <2>11. QED
    BY <2>2, <2>3, <2>7, <2>8, <2>9, <2>10
<1>10. u = Flsbuf(t, c, k)
  BY DEF Flsbuf, u, v, w
<1>11. PutInto(t, u, c)
  BY <1>6, <1>7, <1>8, <1>9 DEF PutInto
<1>12. QED
  BY <1>10, <1>11


LEMMA PutRoom ==
    ASSUME NEW t, Sound(t), Flag(t, "WRT"), t.base, t.cnt # 0, NEW c \in Data
    PROVE  PutInto(t, Store([t EXCEPT !.cnt = @ - 1], c), c)
<1> DEFINE n == BUFSIZ - t.cnt
           b == [t.buf EXCEPT ![t.ptr + 1] = c]
           u == [t EXCEPT !.cnt = t.cnt - 1, !.buf = b, !.ptr = t.ptr + 1]
<1>1. /\ t \in Streams /\ t.rwp <= Len(t.file) /\ t.file \in Seq(Data) /\ t.rwp \in Nat /\ t.buf \in Buffer
      /\ t.cnt \in 0..BUFSIZ /\ t.ptr \in 0..BUFSIZ /\ t.rwp \in 0..Len(t.file)
      /\ Flag(t, "DIRN") /\ ~Flag(t, "READ") /\ ~Flag(t, "NBF") /\ t.ptr + t.cnt = BUFSIZ
  BY Fields DEF Sound, Writing
<1>2. /\ t.ptr = n /\ n \in 0..(BUFSIZ - 1) /\ t.cnt - 1 \in 0..BUFSIZ /\ t.ptr + 1 \in 1..BUFSIZ
      /\ t.ptr < BUFSIZ /\ t.ptr + 1 \in 0..BUFSIZ /\ BUFSIZ - (t.cnt - 1) = n + 1
  BY <1>1, Sizes
<1>3. b \in Buffer
  BY <1>1, <1>2 DEF Buffer
<1>4. Store([t EXCEPT !.cnt = @ - 1], c) = u
  <2> DEFINE v == [t EXCEPT !.cnt = t.cnt - 1]
  <2>1. v.base = t.base /\ v.ptr = t.ptr /\ v.buf = t.buf
    BY <1>1 DEF Streams
  <2>2. Store(v, c) = [v EXCEPT !.buf[v.ptr + 1] = c, !.ptr = @ + 1]
    BY <1>2, <2>1 DEF Store
  <2>3. [v EXCEPT !.buf[v.ptr + 1] = c, !.ptr = @ + 1] = [v EXCEPT !.buf = b, !.ptr = t.ptr + 1]
    BY <1>1, <2>1 DEF Streams
  <2>4. [v EXCEPT !.buf = b, !.ptr = t.ptr + 1] = u
    BY <1>1 DEF Streams
  <2>5. QED
    BY <2>2, <2>3, <2>4
<1>5. /\ u.rwp = t.rwp /\ u.file = t.file /\ u.base = t.base /\ u.cnt = t.cnt - 1
      /\ u.ptr = t.ptr + 1 /\ u.buf = b /\ u.flag = t.flag /\ u.wild = t.wild
  BY <1>1 DEF Streams
<1> HIDE DEF b
<1>6. u \in Streams
  BY <1>1, <1>2, <1>3 DEF Streams
<1> HIDE DEF u
<1>7. \A f \in Flags : Flag(u, f) <=> Flag(t, f)
  BY <1>5 DEF Flag
<1>8. Sound(u)
  <2>1. u.ptr + u.cnt = BUFSIZ
    BY <1>1, <1>5
  <2>2. QED
    BY <1>1, <1>5, <1>6, <1>7, <2>1 DEF Sound, Writing, Flags
<1>9. Flag(u, "WRT") /\ u.base /\ (Flag(u, "ERR") <=> Flag(t, "ERR"))
  BY <1>5, <1>7 DEF Flags
<1>10. Image(u) = Overlay(u.file, u.rwp, Unwritten(u)) /\ Ftell(u) = u.rwp + (BUFSIZ - u.cnt)
  BY <1>8, <1>9, ImageFacts
<1>11. Image(t) = Overlay(t.file, t.rwp, Unwritten(t)) /\ Ftell(t) = t.rwp + n
  BY ImageFacts
<1>12. /\ Unwritten(t) \in Seq(Data) /\ Len(Unwritten(t)) = n
       /\ \A i \in 1..n : Unwritten(t)[i] = t.buf[i]
  BY <1>1, UnwrittenFacts
<1>13. Unwritten(u) = Unwritten(t) \o <<c>>
  <2>1. /\ Unwritten(u) \in Seq(Data) /\ Len(Unwritten(u)) = BUFSIZ - u.cnt
        /\ \A i \in 1..(BUFSIZ - u.cnt) : Unwritten(u)[i] = u.buf[i]
    BY <1>6, UnwrittenFacts
  <2>2. BUFSIZ - u.cnt = n + 1
    BY <1>2, <1>5
  <2>3. /\ Unwritten(t) \o <<c>> \in Seq(Data) /\ Len(Unwritten(t) \o <<c>>) = n + 1
        /\ \A i \in 1..(n + 1) : (Unwritten(t) \o <<c>>)[i] = IF i <= n THEN Unwritten(t)[i] ELSE c
    <3>1. PICK q \in Seq(Data) : q = Unwritten(t) /\ Len(q) = n
      BY <1>12
    <3>2. PICK e \in Seq(Data) : e = <<c>> /\ Len(e) = 1 /\ e[1] = c
      BY OneByte
    <3>3. /\ q \o e \in Seq(Data) /\ Len(q \o e) = Len(q) + Len(e)
          /\ \A i \in 1..Len(q) + Len(e) : (q \o e)[i] = IF i <= Len(q) THEN q[i] ELSE e[i - Len(q)]
      BY ConcatProperties
    <3>4. \A i \in 1..(n + 1) : i <= n \/ i - n = 1
      BY <1>2
    <3>5. QED
      BY <3>1, <3>2, <3>3, <3>4
  <2>4. ASSUME NEW i \in 1..(n + 1)
        PROVE  Unwritten(u)[i] = (Unwritten(t) \o <<c>>)[i]
    <3>1. Unwritten(u)[i] = b[i]
      BY <1>5, <2>1, <2>2
    <3>2. CASE i <= n
      <4>1. i \in 1..n /\ i # t.ptr + 1 /\ i \in 1..BUFSIZ
        BY <1>1, <1>2, <3>2, Sizes
      <4>2. b[i] = t.buf[i]
        BY <1>1, <4>1 DEF b, Buffer
      <4>3. QED
        BY <1>12, <2>3, <3>1, <3>2, <4>1, <4>2
    <3>3. CASE ~(i <= n)
      <4>1. i = t.ptr + 1
        BY <1>2, <3>3
      <4>2. b[i] = c
        BY <1>1, <1>2, <4>1 DEF b, Buffer
      <4>3. QED
        BY <2>3, <3>1, <3>3, <4>2
    <3>4. QED
      BY <3>2, <3>3
  <2>5. QED
    BY <2>1, <2>2, <2>3, <2>4, SameSeq
<1>14. Image(u) = Overlay(Image(t), Ftell(t), <<c>>)
  <2>1. PICK f \in Seq(Data), q \in Seq(Data), e \in Seq(Data) :
           f = t.file /\ q = Unwritten(t) /\ e = <<c>>
    BY <1>1, <1>12, OneByte
  <2>2. PICK p \in 0..Len(f) : p = t.rwp
    BY <1>1, <2>1
  <2>3. Overlay(Overlay(f, p, q), p + Len(q), e) = Overlay(f, p, q \o e)
    BY OverlayTwice
  <2>4. Image(u) = Overlay(t.file, t.rwp, Unwritten(t) \o <<c>>)
    BY <1>5, <1>10, <1>13
  <2>5. Ftell(t) = p + Len(q)
    BY <1>11, <1>12, <2>1, <2>2
  <2>6. QED
    BY <1>11, <2>1, <2>2, <2>3, <2>4, <2>5
<1>15. Ftell(u) = Ftell(t) + 1
  BY <1>1, <1>2, <1>5, <1>10, <1>11
<1>16. PutInto(t, u, c)
  BY <1>5, <1>7, <1>8, <1>9, <1>14, <1>15 DEF PutInto
<1>17. QED
  BY <1>4, <1>16

LEMMA PutByteFacts ==
    ASSUME NEW t, Sound(t), Flag(t, "WRT"), NEW c \in Data, NEW k \in Spilled(t)
    PROVE  /\ PutInto(t, PutByte(t, c, k), c)
           /\ Spills(t) /\ ~Flag(PutByte(t, c, k), "ERR") => Answer(t, PutByte(t, c, k), c, k) = c
<1>1. Spills(t) <=> t.cnt = 0
  BY Fields DEF Spills
<1>2. CASE t.cnt # 0
  <2>1. t.base
    BY <1>2 DEF Sound, Writing
  <2>2. QED
    BY <1>1, <1>2, <2>1, PutRoom DEF PutByte
<1>3. CASE t.cnt = 0 /\ t.base
  <2>1. PutByte(t, c, k) = Flsbuf(t, c, k)
    BY <1>1, <1>3 DEF PutByte
  <2>2. k \in 0..BUFSIZ
    BY <1>1, <1>3, Sizes, WrittenFacts DEF Spilled
  <2>3. PutInto(t, Flsbuf(t, c, k), c)
    BY <1>3, <2>2, PutFull
  <2>4. QED
    BY <1>3, <2>1, <2>3 DEF Answer, Result
<1>4. CASE t.cnt = 0 /\ ~t.base
  <2>1. PutByte(t, c, k) = Flsbuf(t, c, k)
    BY <1>1, <1>4 DEF PutByte
  <2>2. k \in {0, 1}
    BY <1>1, <1>4, WrittenFacts DEF Spilled
  <2>3. PutInto(t, Flsbuf(t, c, k), c) /\ (~Flag(Flsbuf(t, c, k), "ERR") => k = 1)
    BY <1>4, <2>2, PutUnbuffered
  <2>4. QED
    BY <1>4, <2>1, <2>3 DEF Answer
<1>5. QED
  BY <1>2, <1>3, <1>4


\* The same file, position and buffer: the flags do not matter.
LEMMA SameBuffer ==
    ASSUME NEW t, Sound(t), NEW u, Sound(u), Flag(u, "WRT") <=> Flag(t, "WRT"),
           u.cnt = t.cnt, u.base = t.base, u.buf = t.buf, u.rwp = t.rwp, u.file = t.file
    PROVE  Image(u) = Image(t) /\ Ftell(u) = Ftell(t)
<1>1. Unwritten(u) = Unwritten(t)
  BY DEF Unwritten
<1>2. Ftell(u) = Ftell(t)
  BY DEF Ftell
<1>3. CASE Flag(t, "WRT") /\ t.base
  <2>1. Image(t) = Overlay(t.file, t.rwp, Unwritten(t)) /\ Image(u) = Overlay(u.file, u.rwp, Unwritten(u))
    BY <1>3, ImageFacts
  <2>2. QED
    BY <1>1, <1>2, <2>1
<1>4. CASE ~(Flag(t, "WRT") /\ t.base)
  <2>1. Image(t) = t.file /\ Image(u) = u.file
    BY <1>4, ImageFacts
  <2>2. QED
    BY <1>2, <2>1
<1>5. QED
  BY <1>3, <1>4

\* The bytes of e were put into t, which is u now.
Puts(t, u, e) ==
    /\ Sound(u) /\ u.base = t.base
    /\ \A b \in Flags \ {"ERR", "WROTE"} : Flag(u, b) <=> Flag(t, b)
    /\ ~Flag(u, "ERR") => /\ ~Flag(t, "ERR") /\ Ftell(u) = Ftell(t) + Len(e)
                          /\ Image(u) = Overlay(Image(t), Ftell(t), e)

LEMMA PutsOne ==
    ASSUME NEW t, NEW u, NEW c \in Data, PutInto(t, u, c)
    PROVE  Puts(t, u, <<c>>)
<1>1. Len(<<c>>) = 1
  OBVIOUS
<1>2. QED
  BY <1>1 DEF PutInto, Puts

LEMMA PutsTwice ==
    ASSUME NEW t, Sound(t), Flag(t, "WRT"), NEW u, NEW v, NEW d \in Seq(Data), NEW e \in Seq(Data),
           Puts(t, u, d), Puts(u, v, e)
    PROVE  Puts(t, v, d \o e)
<1>1. Sound(v) /\ v.base = t.base /\ \A b \in Flags \ {"ERR", "WROTE"} : Flag(v, b) <=> Flag(t, b)
  BY DEF Puts
<1>2. ASSUME ~Flag(v, "ERR")
      PROVE  /\ ~Flag(t, "ERR") /\ Ftell(v) = Ftell(t) + Len(d \o e)
             /\ Image(v) = Overlay(Image(t), Ftell(t), d \o e)
  <2>1. /\ ~Flag(u, "ERR") /\ Ftell(v) = Ftell(u) + Len(e)
        /\ Image(v) = Overlay(Image(u), Ftell(u), e)
    BY <1>2 DEF Puts
  <2>2. /\ ~Flag(t, "ERR") /\ Ftell(u) = Ftell(t) + Len(d)
        /\ Image(u) = Overlay(Image(t), Ftell(t), d)
    BY <2>1 DEF Puts
  <2>3. Image(t) \in Seq(Data) /\ Ftell(t) \in 0..Len(Image(t))
    BY ImageFacts
  <2>4. PICK f \in Seq(Data) : f = Image(t)
    BY <2>3
  <2>5. PICK p \in 0..Len(f) : p = Ftell(t)
    BY <2>3, <2>4
  <2>6. Overlay(Overlay(f, p, d), p + Len(d), e) = Overlay(f, p, d \o e)
    BY OverlayTwice
  <2>7. p \in Nat /\ Len(d) \in Nat /\ Len(e) \in Nat /\ Len(d \o e) = Len(d) + Len(e)
    OBVIOUS
  <2>8. Ftell(v) = Ftell(t) + Len(d \o e)
    BY <2>1, <2>2, <2>5, <2>7
  <2>9. QED
    BY <2>1, <2>2, <2>4, <2>5, <2>6, <2>8
<1>3. QED
  BY <1>1, <1>2 DEF Puts

LEMMA Turned ==
    ASSUME NEW t, Sound(t), Flag(t, "WRT")
    PROVE  Puts(t, TurnedToOutput(t), <<>>) /\ Flag(TurnedToOutput(t), "WRT")
<1> DEFINE u == [t EXCEPT !.flag = t.flag \cup {"DIRN", "WROTE"}]
<1>1. /\ t \in Streams /\ t.flag \subseteq Flags /\ t.rwp <= Len(t.file) /\ ~Flag(t, "NBF")
      /\ Flag(t, "DIRN") /\ ~Flag(t, "READ")
  BY Fields DEF Sound, Writing
<1>2. TurnedToOutput(t) = u
  BY <1>1 DEF TurnedToOutput, Set
<1>3. /\ u.rwp = t.rwp /\ u.file = t.file /\ u.base = t.base /\ u.cnt = t.cnt
      /\ u.ptr = t.ptr /\ u.buf = t.buf /\ u.flag = t.flag \cup {"DIRN", "WROTE"} /\ u.wild = t.wild
  BY <1>1 DEF Streams
<1>4. u \in Streams
  BY <1>1 DEF Streams, Flags
<1> HIDE DEF u
<1>5. \A b \in Flags \ {"WROTE"} : Flag(u, b) <=> Flag(t, b)
  BY <1>1, <1>3 DEF Flag
<1>6. Flag(u, "WRT") /\ Flag(u, "DIRN") /\ ~Flag(u, "READ") /\ ~Flag(u, "NBF")
      /\ (Flag(u, "ERR") <=> Flag(t, "ERR"))
  BY <1>1, <1>5 DEF Flags
<1>7. Sound(u)
  BY <1>1, <1>3, <1>4, <1>6 DEF Sound, Writing
<1>8. Image(u) = Image(t) /\ Ftell(u) = Ftell(t)
  BY <1>3, <1>6, <1>7, SameBuffer
<1>9. Image(t) \in Seq(Data) /\ Ftell(t) \in 0..Len(Image(t))
  BY ImageFacts
<1>10. Overlay(Image(t), Ftell(t), <<>>) = Image(t)
  BY <1>9, OverlayNothing
<1>11. Ftell(t) + Len(<<>>) = Ftell(t)
  BY <1>9
<1>12. Puts(t, u, <<>>)
  BY <1>3, <1>5, <1>6, <1>7, <1>8, <1>10, <1>11 DEF Puts
<1>13. QED
  BY <1>2, <1>6, <1>12

\* What fputc() of c puts into a text or a binary.
Line(t, c) == IF c = "LF" /\ ~Flag(t, "BINARY") THEN <<"CR", c>> ELSE <<c>>

LEMMA PutcFacts ==
    ASSUME NEW t, Sound(t), Flag(t, "WRT"), NEW c \in Data,
           NEW k \in (IF c = "LF" /\ ~Flag(t, "BINARY") THEN Spilled(TurnedToOutput(t)) ELSE {0}),
           NEW u, u = (IF c = "LF" /\ ~Flag(t, "BINARY") THEN PutByte(TurnedToOutput(t), "CR", k)
                       ELSE TurnedToOutput(t)),
           NEW l \in Spilled(u)
    PROVE  /\ Puts(t, PutByte(u, c, l), Line(t, c)) /\ Line(t, c) \in Seq(Data)
           /\ Spills(u) /\ ~Flag(PutByte(u, c, l), "ERR") => Answer(u, PutByte(u, c, l), c, l) = c
<1> DEFINE v == TurnedToOutput(t)
           w == PutByte(u, c, l)
<1>1. Puts(t, v, <<>>) /\ Flag(v, "WRT") /\ Sound(v)
  BY Turned DEF Puts
<1>2. "CR" \in Data /\ <<>> \in Seq(Data) /\ <<c>> \in Seq(Data)
  BY DEF Data
<1>3. CASE c = "LF" /\ ~Flag(t, "BINARY")
  <2>1. PutInto(v, u, "CR")
    <3>1. k \in Spilled(v) /\ u = PutByte(v, "CR", k)
      BY <1>3
    <3>2. QED
      BY <1>1, <1>2, <3>1, PutByteFacts
  <2>2. Puts(v, u, <<"CR">>) /\ Sound(u) /\ Flag(u, "WRT")
    <3>1. Puts(v, u, <<"CR">>)
      BY <1>2, <2>1, PutsOne
    <3>2. QED
      BY <1>1, <3>1 DEF Puts, Flags
  <2>3. PutInto(u, w, c) /\ (Spills(u) /\ ~Flag(w, "ERR") => Answer(u, w, c, l) = c)
    BY <2>2, PutByteFacts
  <2>4. Puts(u, w, <<c>>)
    BY <2>3, PutsOne
  <2>5. <<"CR">> \in Seq(Data)
    BY <1>2
  <2>6. Puts(t, u, <<>> \o <<"CR">>)
    BY <1>1, <1>2, <2>2, <2>5, PutsTwice
  <2>7. <<>> \o <<"CR">> = <<"CR">>
    BY <2>5, ConcatEmptySeq
  <2>8. Puts(t, w, <<"CR">> \o <<c>>)
    BY <1>2, <2>4, <2>5, <2>6, <2>7, PutsTwice
  <2>9. <<"CR", c>> \in Seq(Data)
    BY <1>2
  <2>10. <<"CR">> \o <<c>> = <<"CR", c>>
    <3>1. PICK a \in Seq(Data), b \in Seq(Data) :
             a = <<"CR">> /\ Len(a) = 1 /\ a[1] = "CR" /\ b = <<c>> /\ Len(b) = 1 /\ b[1] = c
      BY <1>2, <2>5
    <3>2. /\ a \o b \in Seq(Data) /\ Len(a \o b) = Len(a) + Len(b)
          /\ \A i \in 1..Len(a) + Len(b) : (a \o b)[i] = IF i <= Len(a) THEN a[i] ELSE b[i - Len(a)]
      BY ConcatProperties
    <3>3. Len(a \o b) = 2 /\ (a \o b)[1] = "CR" /\ (a \o b)[2] = c
      BY <3>1, <3>2
    <3>4. Len(<<"CR", c>>) = 2 /\ <<"CR", c>>[1] = "CR" /\ <<"CR", c>>[2] = c
      OBVIOUS
    <3>5. \A i \in 1..2 : i = 1 \/ i = 2
      OBVIOUS
    <3>6. a \o b = <<"CR", c>>
      BY <2>9, <3>2, <3>3, <3>4, <3>5, SameSeq
    <3>7. QED
      BY <3>1, <3>6
  <2>11. QED
    BY <1>3, <2>3, <2>8, <2>9, <2>10 DEF Line
<1>4. CASE ~(c = "LF" /\ ~Flag(t, "BINARY"))
  <2>1. u = v
    BY <1>4
  <2>2. PutInto(u, w, c) /\ (Spills(u) /\ ~Flag(w, "ERR") => Answer(u, w, c, l) = c)
    BY <1>1, <2>1, PutByteFacts
  <2>3. Puts(v, w, <<c>>)
    BY <2>1, <2>2, PutsOne
  <2>4. Puts(t, w, <<>> \o <<c>>)
    BY <1>1, <1>2, <2>3, PutsTwice
  <2>5. <<>> \o <<c>> = <<c>>
    BY <1>2, ConcatEmptySeq
  <2>6. QED
    BY <1>2, <1>4, <2>2, <2>4, <2>5 DEF Line
<1>5. QED
  BY <1>3, <1>4


-----------------------------------------------------------------------------
(***************************************************************************)
(* What was put is kept.                                                   *)
(***************************************************************************)

\* Bytes laid over a file behind b, which it has, leave b and follow it.
LEMMA OverlayKeeps ==
    ASSUME NEW f \in Seq(Data), NEW at \in Nat, NEW b \in Seq(Data), NEW e \in Seq(Data),
           Holds(f, at, b)
    PROVE  Holds(Overlay(f, at + Len(b), e), at, b \o e)
<1> DEFINE g == Overlay(f, at + Len(b), e)
<1>1. Len(f) \in Nat /\ Len(b) \in Nat /\ Len(e) \in Nat
  OBVIOUS
<1>0. at + Len(b) <= Len(f) /\ \A i \in 1..Len(b) : f[at + i] = b[i]
  BY DEF Holds
<1>2. PICK p \in 0..Len(f) : p = at + Len(b)
  BY <1>0, <1>1
<1>3. /\ g \in Seq(Data) /\ Len(g) = IF p + Len(e) < Len(f) THEN Len(f) ELSE p + Len(e)
      /\ \A i \in 1..Len(g) : g[i] = IF i > p /\ i <= p + Len(e) THEN e[i - p] ELSE f[i]
  BY <1>2, OverlayFacts
<1> HIDE DEF g
<1>4. /\ b \o e \in Seq(Data) /\ Len(b \o e) = Len(b) + Len(e)
      /\ \A i \in 1..Len(b) + Len(e) : (b \o e)[i] = IF i <= Len(b) THEN b[i] ELSE e[i - Len(b)]
  BY ConcatProperties
<1>5. at + Len(b \o e) <= Len(g)
  BY <1>1, <1>2, <1>3, <1>4
<1>6. ASSUME NEW i \in 1..Len(b \o e)
      PROVE  g[at + i] = (b \o e)[i]
  <2>1. at + i \in 1..Len(g) /\ i \in 1..Len(b) + Len(e)
    BY <1>1, <1>3, <1>4, <1>5
  <2>2. CASE i <= Len(b)
    <3>1. ~(at + i > p) /\ i \in 1..Len(b)
      BY <1>1, <1>2, <1>4, <2>2
    <3>2. g[at + i] = f[at + i] /\ f[at + i] = b[i]
      BY <1>0, <1>3, <2>1, <3>1
    <3>3. QED
      BY <1>4, <2>1, <2>2, <3>2
  <2>3. CASE ~(i <= Len(b))
    <3>1. at + i > p /\ at + i <= p + Len(e) /\ (at + i) - p = i - Len(b)
      BY <1>1, <1>2, <2>1, <2>3
    <3>2. g[at + i] = e[i - Len(b)]
      BY <1>3, <2>1, <3>1
    <3>3. QED
      BY <1>4, <2>1, <2>3, <3>2
  <2>4. QED
    BY <2>2, <2>3
<1>7. QED
  BY <1>5, <1>6 DEF g, Holds

LEMMA KeepsPuts ==
    ASSUME NEW t, Sound(t), Flag(t, "WRT"), NEW p \in Marks, Keeps(t, p), p.at >= 0,
           NEW u, NEW e \in Seq(Data), Puts(t, u, e)
    PROVE  /\ [p EXCEPT !.bytes = @ \o e] \in Marks
           /\ Keeps(u, [p EXCEPT !.bytes = @ \o e])
<1> DEFINE q == [p EXCEPT !.bytes = p.bytes \o e]
<1>1. p.at \in Nat /\ p.bytes \in Seq(Data)
  BY DEF Marks
<1>2. p.bytes \o e \in Seq(Data)
  BY <1>1
<1>3. q \in Marks /\ q.at = p.at /\ q.bytes = p.bytes \o e
  BY <1>1, <1>2 DEF Marks
<1> HIDE DEF q
<1>4. ASSUME ~Flag(u, "ERR")
      PROVE  Holds(Image(u), p.at, p.bytes \o e) /\ p.at + Len(p.bytes \o e) = Ftell(u)
  <2>1. /\ ~Flag(t, "ERR") /\ Ftell(u) = Ftell(t) + Len(e)
        /\ Image(u) = Overlay(Image(t), Ftell(t), e)
    BY <1>4 DEF Puts
  <2>2. Holds(Image(t), p.at, p.bytes) /\ p.at + Len(p.bytes) = Ftell(t)
    BY <2>1 DEF Keeps
  <2>3. Image(t) \in Seq(Data)
    BY ImageFacts
  <2>4. PICK f \in Seq(Data), at \in Nat, b \in Seq(Data) : f = Image(t) /\ at = p.at /\ b = p.bytes
    BY <1>1, <2>3
  <2>5. Holds(Overlay(f, at + Len(b), e), at, b \o e)
    BY <2>2, <2>4, OverlayKeeps
  <2>6. Image(u) = Overlay(f, at + Len(b), e)
    BY <2>1, <2>2, <2>4
  <2>7. Len(b) \in Nat /\ Len(e) \in Nat /\ Len(b \o e) = Len(b) + Len(e)
    BY ConcatProperties
  <2>8. Ftell(u) = (at + Len(b)) + Len(e)
    BY <2>1, <2>2, <2>4
  <2>9. QED
    BY <2>4, <2>5, <2>6, <2>7, <2>8
<1>5. Keeps(u, q)
  BY <1>3, <1>4 DEF Keeps
<1>6. QED
  BY <1>3, <1>5 DEF q

LEMMA KeepsAlike ==
    ASSUME NEW t, NEW u, Alike(t, u), NEW p, Keeps(t, p)
    PROVE  Keeps(u, p)
  BY DEF Keeps, Alike, Flags

LEMMA NothingKept ==
    ASSUME NEW t
    PROVE  Lost \in Marks /\ Keeps(t, Lost)
<1>1. Lost.at = -1 /\ ~(-1 >= 0)
  BY DEF Lost
<1>2. Lost \in Marks
  BY DEF Lost, Marks
<1>3. QED
  BY <1>1, <1>2 DEF Keeps


-----------------------------------------------------------------------------
(***************************************************************************)
(* Reading.                                                                *)
(***************************************************************************)
\* u is t further on: the file and all flags but EOF are as they were.
Onward(t, u) ==
    /\ Sound(u) /\ u.file = t.file /\ u.base = t.base
    /\ \A b \in Flags \ {"EOF"} : Flag(u, b) <=> Flag(t, b)

\* The next byte of the file was read from t.
Reads(t, r) ==
    /\ Onward(t, r.s)
    /\ Ftell(t) < Len(t.file) =>
          /\ r.c = t.file[Ftell(t) + 1] /\ Ftell(r.s) = Ftell(t) + 1
          /\ r.s.flag = t.flag /\ ReadLast(r.s, r.c)
    /\ ~(Ftell(t) < Len(t.file)) => r.c = EOF /\ Ftell(r.s) = Ftell(t)

LEMMA ReadingFacts ==
    ASSUME NEW t, Sound(t), Flag(t, "READ")
    PROVE  /\ Reading(t) /\ ~Flag(t, "WRT") /\ ~Flag(t, "DIRN") /\ ~Flag(t, "NBF")
           /\ Ftell(t) = t.rwp - t.cnt /\ Ftell(t) \in 0..Len(t.file) /\ t.cnt <= t.rwp
           /\ t.ptr + t.cnt <= BUFSIZ /\ (t.base \/ t.cnt = 0)
           /\ \A i \in 1..t.cnt : t.buf[t.ptr + i] = t.file[t.rwp - t.cnt + i]
           /\ Image(t) = t.file
  BY ImageFacts DEF Sound, Reading

\* The byte is in the buffer.
LEMMA ReadAhead ==
    ASSUME NEW t, Sound(t), Flag(t, "READ"), t.cnt > 0
    PROVE  Reads(t, NextByte(t))
<1> DEFINE u == [t EXCEPT !.cnt = t.cnt - 1, !.ptr = t.ptr + 1]
           c == t.buf[t.ptr + 1]
<1>1. /\ t \in Streams /\ t.ptr \in 0..BUFSIZ /\ t.cnt \in 0..BUFSIZ /\ t.rwp \in Nat
      /\ t.rwp \in 0..Len(t.file) /\ t.file \in Seq(Data) /\ t.buf \in Buffer /\ Len(t.file) \in Nat
  BY Fields
<1>2. /\ ~Flag(t, "WRT") /\ ~Flag(t, "DIRN") /\ ~Flag(t, "NBF")
      /\ Ftell(t) = t.rwp - t.cnt /\ t.cnt <= t.rwp /\ t.base
      /\ t.ptr + t.cnt <= BUFSIZ
      /\ \A i \in 1..t.cnt : t.buf[t.ptr + i] = t.file[t.rwp - t.cnt + i]
  BY <1>1, ReadingFacts
<1>3. NextByte(t).s = u /\ NextByte(t).c = c
  BY DEF NextByte
<1>4. /\ t.cnt - 1 \in 0..BUFSIZ /\ t.ptr + 1 \in 0..BUFSIZ /\ t.ptr + 1 > 0 /\ 1 \in 1..t.cnt
      /\ t.cnt - 1 < t.rwp /\ t.rwp - (t.cnt - 1) = (t.rwp - t.cnt) + 1
      /\ (t.ptr + 1) + (t.cnt - 1) <= BUFSIZ /\ t.rwp - t.cnt < Len(t.file)
  BY <1>1, <1>2, Sizes
<1>5. u \in Streams
  BY <1>1, <1>4 DEF Streams
<1>6. /\ u.rwp = t.rwp /\ u.file = t.file /\ u.base = t.base /\ u.cnt = t.cnt - 1
      /\ u.ptr = t.ptr + 1 /\ u.buf = t.buf /\ u.flag = t.flag
  BY <1>1 DEF Streams
<1> HIDE DEF u
<1>7. \A b \in Flags : Flag(u, b) <=> Flag(t, b)
  BY <1>6 DEF Flag
<1>8. ASSUME NEW i \in 1..u.cnt
      PROVE  u.buf[u.ptr + i] = u.file[u.rwp - u.cnt + i]
  <2>1. i + 1 \in 1..t.cnt /\ u.ptr + i = t.ptr + (i + 1)
        /\ u.rwp - u.cnt + i = t.rwp - t.cnt + (i + 1)
    <3>1. PICK p \in Nat, k \in Nat, r \in Nat : p = t.ptr /\ k = t.cnt /\ r = t.rwp
      BY <1>1
    <3>2. i \in 1..(k - 1) /\ u.ptr = p + 1 /\ u.cnt = k - 1 /\ u.rwp = r
      BY <1>6, <3>1
    <3>3. i + 1 \in 1..k /\ (p + 1) + i = p + (i + 1) /\ r - (k - 1) + i = r - k + (i + 1)
      BY <3>1, <3>2
    <3>4. QED
      BY <3>1, <3>2, <3>3
  <2>2. t.buf[t.ptr + (i + 1)] = t.file[t.rwp - t.cnt + (i + 1)]
    BY <1>2, <2>1
  <2>3. QED
    BY <1>6, <2>1, <2>2
<1>9. Sound(u)
  <2>1. u.cnt <= u.rwp /\ u.ptr + u.cnt <= BUFSIZ
    BY <1>1, <1>4, <1>6
  <2>2. Reading(u)
    BY <1>2, <1>6, <1>7, <1>8, <2>1 DEF Reading, Flags
  <2>3. QED
    BY <1>1, <1>2, <1>5, <1>6, <1>7, <2>2 DEF Sound, Flags
<1>10. Flag(u, "READ")
  BY <1>7 DEF Flags
<1>11. Ftell(u) = Ftell(t) + 1
  BY <1>2, <1>4, <1>6, <1>9, <1>10, ReadingFacts
<1>12. c = t.file[Ftell(t) + 1]
  BY <1>2, <1>4
<1>13. ReadLast(u, c)
  BY <1>2, <1>4, <1>6, <1>10, <1>12 DEF ReadLast
<1>14. Onward(t, u)
  BY <1>6, <1>7, <1>9 DEF Onward
<1>15. QED
  BY <1>2, <1>3, <1>4, <1>6, <1>11, <1>12, <1>13, <1>14 DEF Reads

\* The buffer, or the one byte, is read from the file.
LEMMA FilledBuffer ==
    ASSUME NEW t, Sound(t), Flag(t, "READ"), t.cnt = 0, t.base, t.rwp < Len(t.file)
    PROVE  Reads(t, Filbuf(t))
<1> DEFINE n == Lesser(BUFSIZ, Len(t.file) - t.rwp)
           got == SubSeq(t.file, t.rwp + 1, t.rwp + n)
           b == Overlay(t.buf, 0, got)
           u == [t EXCEPT !.buf = b, !.rwp = t.rwp + n, !.cnt = n - 1, !.ptr = 1]
           c == got[1]
<1>1. /\ t \in Streams /\ t.ptr \in 0..BUFSIZ /\ t.rwp \in Nat
      /\ t.rwp \in 0..Len(t.file) /\ t.file \in Seq(Data) /\ t.buf \in Buffer /\ Len(t.file) \in Nat
  BY Fields
<1>2. /\ ~Flag(t, "WRT") /\ ~Flag(t, "DIRN") /\ ~Flag(t, "NBF") /\ Ftell(t) = t.rwp - t.cnt
  BY ReadingFacts
<1>3. n \in 1..BUFSIZ /\ t.rwp + n <= Len(t.file)
  BY <1>1, Sizes DEF Lesser
<1> HIDE DEF n
<1>4. /\ got \in Seq(Data) /\ Len(got) = n /\ \A i \in 1..n : got[i] = t.file[t.rwp + i]
  <2>1. PICK m \in Nat, r \in Nat, f \in Seq(Data) : m = n /\ r = t.rwp /\ f = t.file
    BY <1>1, <1>3
  <2>2. r + 1 \in 1..(Len(f) + 1) /\ r + m \in (r + 1)..Len(f)
    BY <1>3, <2>1
  <2>3. /\ SubSeq(f, r + 1, r + m) \in Seq(Data) /\ Len(SubSeq(f, r + 1, r + m)) = m
        /\ \A i \in 1..m : SubSeq(f, r + 1, r + m)[i] = f[r + i]
    <3>1. /\ SubSeq(f, r + 1, r + m) \in Seq(Data)
          /\ Len(SubSeq(f, r + 1, r + m)) = IF r + 1 <= r + m THEN (r + m) - (r + 1) + 1 ELSE 0
          /\ \A i \in 1..(r + m) - (r + 1) + 1 :
                SubSeq(f, r + 1, r + m)[i] = f[(r + 1) + i - 1]
      BY <2>2, SubSeqProperties
    <3>2. (r + m) - (r + 1) + 1 = m /\ r + 1 <= r + m /\ \A i \in 1..m : (r + 1) + i - 1 = r + i
      BY <1>3, <2>1
    <3>3. QED
      BY <3>1, <3>2
  <2>4. QED
    BY <2>1, <2>3
<1> HIDE DEF got
<1>5. b \in Buffer /\ \A i \in 1..n : b[i] = t.file[t.rwp + i]
  <2>1. PICK f \in Seq(Data), d \in Seq(Data) : f = t.buf /\ d = got /\ Len(f) = BUFSIZ /\ Len(d) = n
    BY <1>1, <1>4, BufferIsSeq
  <2>2. 0 \in 0..Len(f)
    BY <2>1, Sizes
  <2>3. /\ Overlay(f, 0, d) \in Seq(Data)
        /\ Len(Overlay(f, 0, d)) = IF 0 + Len(d) < Len(f) THEN Len(f) ELSE 0 + Len(d)
        /\ \A i \in 1..Len(Overlay(f, 0, d)) :
              Overlay(f, 0, d)[i] = IF i > 0 /\ i <= 0 + Len(d) THEN d[i - 0] ELSE f[i]
    BY <2>2, OverlayFacts
  <2>4. Len(Overlay(f, 0, d)) = BUFSIZ
    BY <1>3, <2>1, <2>3, Sizes
  <2>5. \A i \in 1..n : i \in 1..BUFSIZ /\ i > 0 /\ i <= 0 + n /\ i - 0 = i
    BY <1>3, Sizes
  <2>6. \A i \in 1..n : Overlay(f, 0, d)[i] = d[i]
    BY <2>1, <2>3, <2>4, <2>5
  <2>7. Overlay(f, 0, d) \in Buffer
    BY <2>3, <2>4 DEF Buffer
  <2>8. QED
    BY <1>4, <2>1, <2>6, <2>7
<1> HIDE DEF b
<1>6. Filbuf(t) = [s |-> u, c |-> c]
  BY <1>1, <1>3 DEF Filbuf, n, got, b
<1>7. n - 1 \in 0..BUFSIZ /\ 1 \in 0..BUFSIZ /\ t.rwp + n \in Nat
  BY <1>1, <1>3, Sizes
<1>8. u \in Streams
  BY <1>1, <1>5, <1>7 DEF Streams
<1>9. /\ u.rwp = t.rwp + n /\ u.file = t.file /\ u.base = t.base /\ u.cnt = n - 1
      /\ u.ptr = 1 /\ u.buf = b /\ u.flag = t.flag
  BY <1>1 DEF Streams
<1> HIDE DEF u
<1>10. \A f \in Flags : Flag(u, f) <=> Flag(t, f)
  BY <1>9 DEF Flag
<1>11. ASSUME NEW i \in 1..u.cnt
       PROVE  u.buf[u.ptr + i] = u.file[u.rwp - u.cnt + i]
  <2>1. /\ i + 1 \in 1..n /\ u.ptr + i = i + 1
        /\ u.rwp - u.cnt + i = t.rwp + (i + 1)
    BY <1>1, <1>3, <1>9
  <2>2. QED
    BY <1>5, <1>9, <2>1
<1>12. Sound(u)
  <2>1. u.cnt <= u.rwp /\ u.ptr + u.cnt <= BUFSIZ /\ u.rwp <= Len(u.file)
    BY <1>1, <1>3, <1>9, Sizes
  <2>2. Reading(u)
    BY <1>1, <1>2, <1>9, <1>10, <1>11, <2>1 DEF Reading, Flags
  <2>3. QED
    BY <1>2, <1>8, <1>10, <2>1, <2>2 DEF Sound, Flags
<1>13. Flag(u, "READ")
  BY <1>10 DEF Flags
<1>14. Ftell(t) = t.rwp /\ Ftell(u) = t.rwp + 1
  <2>1. Ftell(u) = (t.rwp + n) - (n - 1)
    BY <1>9, <1>12, <1>13, ReadingFacts
  <2>2. QED
    BY <1>1, <1>2, <1>3, <2>1
<1>15. c = t.file[t.rwp + 1] /\ u.buf[1] = c
  BY <1>3, <1>4, <1>5, <1>9
<1>16. ReadLast(u, c)
  <2>1. u.cnt < u.rwp /\ u.rwp - u.cnt = t.rwp + 1
    BY <1>1, <1>3, <1>9
  <2>2. QED
    BY <1>9, <1>13, <1>15, <2>1 DEF ReadLast
<1>17. Onward(t, u)
  BY <1>9, <1>10, <1>12 DEF Onward
<1>18. QED
  BY <1>6, <1>9, <1>14, <1>15, <1>16, <1>17 DEF Reads


\* Nothing but flags that do not matter here is changed.
LEMMA FlagsChange ==
    ASSUME NEW t, Sound(t), NEW F \in SUBSET Flags,
           \A b \in {"READ", "WRT", "DIRN", "NBF"} : b \in F <=> b \in t.flag,
           NEW u, u = [t EXCEPT !.flag = F]
    PROVE  /\ Sound(u) /\ u.flag = F /\ u.file = t.file /\ u.base = t.base /\ u.cnt = t.cnt
           /\ u.ptr = t.ptr /\ u.buf = t.buf /\ u.rwp = t.rwp
           /\ Image(u) = Image(t) /\ Ftell(u) = Ftell(t)
<1>1. t \in Streams
  BY Fields
<1>2. /\ u \in Streams /\ u.flag = F /\ u.file = t.file /\ u.base = t.base /\ u.cnt = t.cnt
      /\ u.ptr = t.ptr /\ u.buf = t.buf /\ u.rwp = t.rwp
  BY <1>1 DEF Streams
<1>3. \A b \in {"READ", "WRT", "DIRN", "NBF"} : Flag(u, b) <=> Flag(t, b)
  BY <1>2 DEF Flag
<1>4. Sound(u)
  BY <1>2, <1>3 DEF Sound, Reading, Writing
<1>5. Image(u) = Image(t) /\ Ftell(u) = Ftell(t)
  <2>1. Flag(u, "WRT") <=> Flag(t, "WRT")
    BY <1>3
  <2>2. QED
    BY <1>2, <1>4, <2>1, SameBuffer
<1>6. QED
  BY <1>2, <1>4, <1>5

LEMMA SetEof ==
    ASSUME NEW t, Sound(t), NEW u, u = Set(t, {"EOF"})
    PROVE  Onward(t, u) /\ Ftell(u) = Ftell(t) /\ Image(u) = Image(t) /\ Flag(u, "EOF")
<1>1. t.flag \subseteq Flags
  BY Fields
<1>2. PICK F \in SUBSET Flags : F = t.flag \cup {"EOF"}
  BY <1>1 DEF Flags
<1>3. \A b \in {"READ", "WRT", "DIRN", "NBF"} : b \in F <=> b \in t.flag
  BY <1>2
<1>4. u = [t EXCEPT !.flag = F]
  BY <1>2 DEF Set
<1>5. /\ Sound(u) /\ u.flag = F /\ u.file = t.file /\ u.base = t.base
      /\ Image(u) = Image(t) /\ Ftell(u) = Ftell(t)
  BY <1>3, <1>4, FlagsChange
<1>6. Flag(u, "EOF") /\ \A b \in Flags \ {"EOF"} : Flag(u, b) <=> Flag(t, b)
  BY <1>2, <1>5 DEF Flag
<1>7. QED
  BY <1>5, <1>6 DEF Onward

LEMMA NothingToRead ==
    ASSUME NEW t, Sound(t), Flag(t, "READ"), t.cnt = 0, ~(t.rwp < Len(t.file))
    PROVE  Reads(t, Filbuf(t)) /\ Flag(Filbuf(t).s, "EOF")
<1> DEFINE n == Lesser(IF t.base THEN BUFSIZ ELSE 1, Len(t.file) - t.rwp)
           u == [t EXCEPT !.cnt = 0]
<1>1. t \in Streams /\ t.rwp \in 0..Len(t.file) /\ Len(t.file) \in Nat
  BY Fields
<1>2. u = t
  BY <1>1 DEF Streams
<1>3. n <= 0
  BY <1>1, Sizes DEF Lesser
<1> HIDE DEF n, u
<1>4. Filbuf(t) = [s |-> Set(u, {"EOF"}), c |-> EOF]
  BY <1>3 DEF Filbuf, n, u
<1>5. Filbuf(t).s = Set(t, {"EOF"}) /\ Filbuf(t).c = EOF
  BY <1>2, <1>4
<1>6. Ftell(t) = t.rwp - t.cnt
  BY ReadingFacts
<1>7. ~(Ftell(t) < Len(t.file))
  BY <1>1, <1>6
<1>8. /\ Onward(t, Filbuf(t).s) /\ Ftell(Filbuf(t).s) = Ftell(t) /\ Flag(Filbuf(t).s, "EOF")
  BY <1>5, SetEof
<1>9. QED
  BY <1>5, <1>7, <1>8 DEF Reads

LEMMA UnbufferedByte ==
    ASSUME NEW t, Sound(t), Flag(t, "READ"), ~t.base, t.rwp < Len(t.file)
    PROVE  Reads(t, Filbuf(t))
<1> DEFINE n == Lesser(IF t.base THEN BUFSIZ ELSE 1, Len(t.file) - t.rwp)
           c == SubSeq(t.file, t.rwp + 1, t.rwp + n)[1]
           u == [t EXCEPT !.cnt = 0]
           v == [u EXCEPT !.rwp = @ + 1]
<1>1. /\ t \in Streams /\ t.rwp \in Nat /\ t.rwp \in 0..Len(t.file) /\ t.file \in Seq(Data)
      /\ Len(t.file) \in Nat
  BY Fields
<1>2. /\ ~Flag(t, "WRT") /\ ~Flag(t, "DIRN") /\ ~Flag(t, "NBF") /\ Ftell(t) = t.rwp - t.cnt
      /\ t.cnt = 0
  BY ReadingFacts
<1>3. n = 1
  BY <1>1 DEF Lesser
<1>4. c = t.file[t.rwp + 1]
  <2>1. PICK r \in Nat, f \in Seq(Data) : r = t.rwp /\ f = t.file
    BY <1>1
  <2>2. r + 1 \in 1..Len(f)
    BY <2>1
  <2>3. SubSeq(f, r + 1, r + 1)[1] = f[(r + 1) + 1 - 1]
    <3>1. r + 1 \in Int /\ \A i \in (r + 1)..(r + 1) : f[i] \in Data
      BY <2>2, ElementOfSeq
    <3>2. \A i \in 1..(r + 1) - (r + 1) + 1 :
             SubSeq(f, r + 1, r + 1)[i] = f[(r + 1) + i - 1]
      BY <3>1, SubSeqProperties
    <3>3. QED
      BY <3>2
  <2>4. (r + 1) + 1 - 1 = r + 1
    OBVIOUS
  <2>5. QED
    BY <1>3, <2>1, <2>3, <2>4
<1>5. u = t
  BY <1>1, <1>2 DEF Streams
<1>6. v = [t EXCEPT !.rwp = t.rwp + 1]
  BY <1>5
<1> HIDE DEF c, u, v, n
<1>7. Filbuf(t) = [s |-> v, c |-> c]
  <2>1. ~(n <= 0)
    BY <1>3
  <2>2. QED
    BY <2>1 DEF Filbuf, c, u, v, n
<1>0. t.rwp + 1 \in Nat
  BY <1>1
<1>8. /\ v.rwp = t.rwp + 1 /\ v.file = t.file /\ v.base = t.base /\ v.cnt = 0
      /\ v.ptr = t.ptr /\ v.flag = t.flag /\ v \in Streams
  BY <1>0, <1>1, <1>2, <1>6 DEF Streams
<1>9. \A f \in Flags : Flag(v, f) <=> Flag(t, f)
  BY <1>8 DEF Flag
<1>10. Sound(v) /\ Flag(v, "READ")
  <2>1. v.cnt <= v.rwp /\ v.rwp <= Len(v.file) /\ v.ptr + v.cnt <= BUFSIZ
    <3>1. v.ptr \in 0..BUFSIZ
      BY <1>8 DEF Streams
    <3>2. QED
      BY <1>1, <1>8, <3>1, Sizes
  <2>2. Reading(v)
    BY <1>2, <1>8, <1>9, <2>1 DEF Reading, Flags
  <2>3. QED
    BY <1>2, <1>8, <1>9, <2>1, <2>2 DEF Sound, Flags
<1>11. Ftell(t) = t.rwp /\ Ftell(v) = t.rwp + 1
  <2>1. Ftell(v) = v.rwp - v.cnt
    BY <1>10, ReadingFacts
  <2>2. QED
    BY <1>1, <1>2, <1>8, <2>1
<1>12. ReadLast(v, c)
  <2>1. v.cnt < v.rwp /\ v.rwp - v.cnt = t.rwp + 1
    BY <1>1, <1>8
  <2>2. QED
    BY <1>4, <1>8, <1>10, <2>1 DEF ReadLast
<1>13. Onward(t, v)
  BY <1>8, <1>9, <1>10 DEF Onward
<1>14. QED
  BY <1>4, <1>7, <1>8, <1>11, <1>12, <1>13 DEF Reads

LEMMA NextByteFacts ==
    ASSUME NEW t, Sound(t), Flag(t, "READ")
    PROVE  Reads(t, NextByte(t))
<1>1. t.cnt \in 0..BUFSIZ
  BY Fields
<1>2. CASE t.cnt > 0
  BY <1>2, ReadAhead
<1>3. CASE ~(t.cnt > 0)
  <2>1. t.cnt = 0
    BY <1>1, <1>3
  <2>2. NextByte(t) = Filbuf(t)
    BY <1>3 DEF NextByte
  <2>3. Reads(t, Filbuf(t))
    BY <2>1, FilledBuffer, NothingToRead, UnbufferedByte
  <2>4. QED
    BY <2>2, <2>3
<1>4. QED
  BY <1>2, <1>3


-----------------------------------------------------------------------------
(***************************************************************************)
(* Loops.                                                                  *)
(***************************************************************************)
LEMMA LeastNatural ==
    ASSUME NEW T, T \subseteq Nat, T # {}
    PROVE  \E m \in T : \A k \in T : m <= k
<1> DEFINE R == {ss \in Nat \X Nat : ss[1] < ss[2]}
<1>1. IsWellFoundedOn(R, Nat)
  BY NatLessThanWellFounded DEF OpToRel
<1>2. PICK m \in T : \A k \in T : ~(<<k, m>> \in R)
  BY <1>1, WFMin
<1>3. ASSUME NEW k \in T, k < m PROVE FALSE
  <2>1. <<k, m>> \in Nat \X Nat /\ <<k, m>>[1] < <<k, m>>[2]
    BY <1>3
  <2>2. QED
    BY <1>2, <2>1
<1>4. QED
  BY <1>3

\* A loop that starts with a and makes b[r] of r.
Loop(g, n, a, b) == g = [i \in 0..n |-> IF i = 0 THEN a ELSE b[g[i - 1]]]

\* In S[i] after i rounds: such a loop exists, and stays there.
Stays(S, n, b) == \A i \in 1..n : \A r \in S[i - 1] : b[r] \in S[i]

LEMMA LoopStays ==
    ASSUME NEW n \in Nat, NEW S, NEW a \in S[0], NEW b, Stays(S, n, b), NEW h, h[0] = a,
           \A i \in 1..n : h[i - 1] \in S[i - 1] => h[i] = b[h[i - 1]]
    PROVE  \A i \in 0..n : h[i] \in S[i]
<1> DEFINE T == {i \in 0..n : h[i] \notin S[i]}
<1>1. SUFFICES ASSUME T # {} PROVE FALSE
  OBVIOUS
<1>2. T \subseteq Nat
  OBVIOUS
<1>3. PICK m \in T : \A k \in T : m <= k
  BY <1>1, <1>2, LeastNatural
<1>4. m # 0 /\ m \in 0..n /\ h[m] \notin S[m]
  OBVIOUS
<1>5. m \in 1..n /\ m - 1 \in 0..n /\ ~(m <= m - 1)
  BY <1>4
<1>6. h[m - 1] \in S[m - 1]
  BY <1>3, <1>5
<1>7. h[m] \in S[m]
  BY <1>5, <1>6 DEF Stays
<1>8. QED
  BY <1>4, <1>7

LEMMA LoopExists ==
    ASSUME NEW n \in Nat, NEW S, NEW a \in S[0], NEW b, Stays(S, n, b)
    PROVE  \E g : Loop(g, n, a, b) /\ \A i \in 0..n : g[i] \in S[i]
<1> DEFINE Runs(g, k) == /\ Loop(g, k, a, b)
                         /\ \A i \in 0..k : g[i] \in S[i]
           T == {k \in 0..n : ~\E g : Runs(g, k)}
<1>1. SUFFICES ASSUME T # {} PROVE FALSE
  <2>1. n \in 0..n
    OBVIOUS
  <2>2. QED
    BY <1>1, <2>1
<1>2. T \subseteq Nat
  OBVIOUS
<1>3. PICK m \in T : \A k \in T : m <= k
  <2> HIDE DEF T
  <2>1. QED
    BY <1>1, <1>2, LeastNatural
<1>4. CASE m = 0
  <2> DEFINE g == [i \in 0..0 |-> a]
  <2>1. 0..0 = {0}
    OBVIOUS
  <2>2. \A i \in 0..0 : g[i] = a /\ i = 0
    BY <2>1
  <2>3. g = [i \in 0..0 |-> IF i = 0 THEN a ELSE b[g[i - 1]]]
    <3> HIDE DEF g
    <3>1. g = [i \in 0..0 |-> a]
      BY DEF g
    <3>2. \A i \in 0..0 : a = IF i = 0 THEN a ELSE b[g[i - 1]]
      BY <2>1
    <3>3. QED
      BY <3>1, <3>2
  <2>4. Runs(g, 0)
    <3> HIDE DEF g
    <3>1. QED
      BY <2>2, <2>3 DEF Loop
  <2>5. QED
    BY <1>4, <2>4
<1>5. CASE m # 0
  <2>1. m \in 1..n /\ m - 1 \in 0..n /\ ~(m <= m - 1)
    BY <1>5
  <2>2. PICK g : Runs(g, m - 1)
    BY <1>3, <2>1
  <2> DEFINE h == [i \in 0..m |-> IF i = m THEN b[g[m - 1]] ELSE g[i]]
  <2>3. \A i \in 0..(m - 1) : h[i] = g[i]
    BY <2>1
  <2>4. h[m] = b[g[m - 1]]
    BY <2>1
  <2>5. \A i \in 0..(m - 1) : g[i] = IF i = 0 THEN a ELSE b[g[i - 1]]
    BY <2>2 DEF Loop
  <2>6. ASSUME NEW i \in 0..m
        PROVE  /\ (IF i = m THEN b[g[m - 1]] ELSE g[i]) = (IF i = 0 THEN a ELSE b[h[i - 1]])
               /\ h[i] \in S[i]
    <3> HIDE DEF h
    <3>1. CASE i = m
      <4>1. m - 1 \in 0..(m - 1) /\ m # 0
        BY <2>1
      <4>2. h[m - 1] = g[m - 1] /\ g[m - 1] \in S[m - 1]
        BY <2>2, <2>3, <4>1
      <4>3. b[g[m - 1]] \in S[m]
        BY <2>1, <4>2 DEF Stays
      <4>4. QED
        BY <2>4, <3>1, <4>1, <4>2, <4>3
    <3>2. CASE i # m
      <4>1. i \in 0..(m - 1)
        BY <2>1, <3>2
      <4>2. i # 0 => i - 1 \in 0..(m - 1)
        BY <4>1
      <4>3. i # 0 => h[i - 1] = g[i - 1]
        BY <2>3, <4>2
      <4>4. h[i] = g[i] /\ g[i] \in S[i] /\ g[i] = IF i = 0 THEN a ELSE b[g[i - 1]]
        BY <2>2, <2>3, <2>5, <4>1
      <4>5. QED
        BY <3>2, <4>3, <4>4
    <3>3. QED
      BY <3>1, <3>2
  <2>7. Runs(h, m)
    <3>1. h = [i \in 0..m |-> IF i = m THEN b[g[m - 1]] ELSE g[i]]
      OBVIOUS
    <3> HIDE DEF h
    <3>2. h = [i \in 0..m |-> IF i = 0 THEN a ELSE b[h[i - 1]]]
      BY <2>6, <3>1
    <3>3. QED
      BY <2>6, <3>2 DEF Loop
  <2>8. QED
    BY <2>7
<1>6. QED
  BY <1>4, <1>5


-----------------------------------------------------------------------------
(***************************************************************************)
(* Characters of texts.                                                    *)
(***************************************************************************)
LEMMA EofIsNoData == EOF \notin Data
<1>1. \A file \in InitFiles : \A i \in DOMAIN file : file[i] # EOF
  <2>1. ASSUME NEW file \in InitFiles
        PROVE  DOMAIN file = 1..Len(file)
    BY StreamAssumption
  <2>2. QED
    BY <2>1, StreamAssumption
<1>2. EOF \notin Chars /\ EOF \notin {"CR", "ETX", Junk}
  BY StreamAssumption DEF EOF, Junk
<1>3. QED
  BY <1>1, <1>2 DEF Data

Results == [s : Streams, c : Data \cup {EOF}]

LEMMA ResultOf ==
    ASSUME NEW t
    PROVE  NextByte(t) = [s |-> NextByte(t).s, c |-> NextByte(t).c]
<1>1. Filbuf(t) = [s |-> Filbuf(t).s, c |-> Filbuf(t).c]
  BY DEF Filbuf
<1>2. QED
  BY <1>1 DEF NextByte

\* The byte n of the file was read; the end of the file was reached; between t
\* and n there are carriage returns only.
Found(t, r, n) == /\ n \in (Ftell(t) + 1)..Len(t.file)
                  /\ r.c = t.file[n] /\ Ftell(r.s) = n /\ r.s.flag = t.flag /\ ReadLast(r.s, r.c)
Ended(t, r)    == r.c = EOF /\ Ftell(r.s) = Len(t.file)
Passed(t, n)   == \A i \in (Ftell(t) + 1)..n : t.file[i] = "CR"

LEMMA NextByteFound ==
    ASSUME NEW t, Sound(t), Flag(t, "READ"), NEW r, r = NextByte(t)
    PROVE  /\ Onward(t, r.s) /\ r \in Results
           /\ Ftell(t) < Len(t.file) => Found(t, r, Ftell(t) + 1)
           /\ ~(Ftell(t) < Len(t.file)) => Ended(t, r)
           /\ Passed(t, Ftell(t))
<1>1. Reads(t, r)
  BY NextByteFacts
<1>2. Ftell(t) \in 0..Len(t.file) /\ Len(t.file) \in Nat /\ t.file \in Seq(Data)
  BY Fields, ReadingFacts
<1>3. Onward(t, r.s) /\ r.s \in Streams
  BY <1>1, Fields DEF Reads, Onward
<1>4. ASSUME Ftell(t) < Len(t.file)
      PROVE  Found(t, r, Ftell(t) + 1) /\ r.c \in Data
  <2>1. Ftell(t) + 1 \in (Ftell(t) + 1)..Len(t.file) /\ Ftell(t) + 1 \in 1..Len(t.file)
    BY <1>2, <1>4
  <2>2. Found(t, r, Ftell(t) + 1)
    BY <1>1, <1>4, <2>1 DEF Found, Reads
  <2>3. t.file[Ftell(t) + 1] \in Data
    BY <1>2, <2>1, ElementOfSeq
  <2>4. r.c \in Data
    BY <2>2, <2>3 DEF Found
  <2>5. QED
    BY <2>2, <2>4
<1>5. ASSUME ~(Ftell(t) < Len(t.file))
      PROVE  Ended(t, r)
  <2>1. Ftell(t) = Len(t.file)
    BY <1>2, <1>5
  <2>2. QED
    BY <1>1, <1>5, <2>1 DEF Ended, Reads
<1>6. r.c \in Data \cup {EOF}
  BY <1>4, <1>5 DEF Ended
<1>7. r \in Results
  <2>1. r = [s |-> r.s, c |-> r.c]
    BY ResultOf
  <2>2. QED
    BY <1>3, <1>6, <2>1 DEF Results
<1>8. Passed(t, Ftell(t))
  BY <1>2 DEF Passed
<1>9. QED
  BY <1>3, <1>4, <1>5, <1>7, <1>8

\* After i carriage returns.
Skipped(t, r, i) ==
    /\ Onward(t, r.s)
    /\ \/ \E n \in (Ftell(t) + 1)..Len(t.file) :
             Found(t, r, n) /\ Passed(t, n - 1) /\ (r.c = "CR" => n > Ftell(t) + i)
       \/ Ended(t, r) /\ Passed(t, Len(t.file))

LEMMA OnwardTwice ==
    ASSUME NEW t, NEW u, NEW v, Onward(t, u), Onward(u, v)
    PROVE  Onward(t, v)
  BY DEF Onward

LEMMA SkipOne ==
    ASSUME NEW t, Sound(t), Flag(t, "READ"), NEW i \in Nat, NEW r \in Results, Skipped(t, r, i)
    PROVE  Skip(r) \in Results /\ Skipped(t, Skip(r), i + 1)
<1>1. Ftell(t) \in 0..Len(t.file) /\ Len(t.file) \in Nat
  BY Fields, ReadingFacts
<1>2. CASE r.c # "CR"
  <2>1. Skip(r) = r
    BY <1>2 DEF Skip
  <2>2. Skipped(t, r, i + 1)
    BY <1>2 DEF Skipped
  <2>3. QED
    BY <2>1, <2>2
<1>3. CASE r.c = "CR"
  <2>1. Skip(r) = NextByte(r.s)
    BY <1>3 DEF Skip
  <2>2. Sound(r.s) /\ Flag(r.s, "READ") /\ Onward(t, r.s) /\ r.s.file = t.file
    BY DEF Skipped, Onward, Flags
  <2>3. ~Ended(t, r)
    BY <1>3 DEF Ended, EOF
  <2>4. PICK n \in (Ftell(t) + 1)..Len(t.file) :
           Found(t, r, n) /\ Passed(t, n - 1) /\ n > Ftell(t) + i
    BY <1>3, <2>3 DEF Skipped
  <2>5. Ftell(r.s) = n /\ t.file[n] = "CR" /\ n \in 1..Len(t.file) /\ r.s.flag = t.flag
    BY <1>1, <1>3, <2>4 DEF Found
  <2>6. Passed(t, n)
    <3>1. \A j \in (Ftell(t) + 1)..n : j = n \/ j \in (Ftell(t) + 1)..(n - 1)
      BY <1>1, <2>5
    <3>2. QED
      BY <2>4, <2>5, <3>1 DEF Passed
  <2>7. PICK q : q = NextByte(r.s)
    OBVIOUS
  <2>8. /\ Onward(r.s, q.s) /\ q \in Results
        /\ Ftell(r.s) < Len(r.s.file) => Found(r.s, q, Ftell(r.s) + 1)
        /\ ~(Ftell(r.s) < Len(r.s.file)) => Ended(r.s, q)
    BY <2>2, <2>7, NextByteFound
  <2>9. Onward(t, q.s)
    BY <2>2, <2>8, OnwardTwice
  <2>10. CASE n < Len(t.file)
    <3>1. Found(r.s, q, n + 1)
      BY <2>2, <2>5, <2>8, <2>10
    <3>2. n + 1 \in (Ftell(t) + 1)..Len(t.file) /\ n + 1 > Ftell(t) + (i + 1) /\ (n + 1) - 1 = n
      BY <1>1, <2>4, <2>10
    <3>3. Found(t, q, n + 1)
      BY <2>2, <2>5, <3>1, <3>2 DEF Found
    <3>4. QED
      BY <2>1, <2>6, <2>7, <2>8, <2>9, <3>2, <3>3 DEF Skipped
  <2>11. CASE ~(n < Len(t.file))
    <3>1. n = Len(t.file) /\ Ended(r.s, q)
      BY <1>1, <2>2, <2>5, <2>8, <2>11
    <3>2. Ended(t, q)
      BY <2>2, <3>1 DEF Ended
    <3>3. QED
      BY <2>1, <2>6, <2>7, <2>8, <2>9, <3>1, <3>2 DEF Skipped
  <2>12. QED
    BY <2>10, <2>11
<1>4. QED
  BY <1>2, <1>3

\* fgetc()'s loop passes all carriage returns and comes to an end.
LEMMA TextByteFacts ==
    ASSUME NEW t, Sound(t), Flag(t, "READ")
    PROVE  /\ TextByte(t) \in Results /\ Onward(t, TextByte(t).s)
           /\ \/ \E n \in (Ftell(t) + 1)..Len(t.file) :
                    Found(t, TextByte(t), n) /\ Passed(t, n - 1) /\ t.file[n] # "CR"
              \/ Ended(t, TextByte(t)) /\ Passed(t, Len(t.file))
<1> DEFINE N == Len(t.file)
           S == [i \in 0..N |-> {r \in Results : Skipped(t, r, i)}]
           b == [r \in Results |-> Skip(r)]
           IsPass(f) == f = [n \in 0..N |-> IF n = 0 THEN NextByte(t) ELSE Skip(f[n - 1])]
           pass == CHOOSE f : IsPass(f)
<1>1. Ftell(t) \in 0..N /\ N \in Nat
  BY Fields, ReadingFacts
<1>2. TextByte(t) = pass[N]
  BY DEF TextByte
<1>3. NextByte(t) \in S[0]
  <2>1. PICK r : r = NextByte(t)
    OBVIOUS
  <2>2. /\ Onward(t, r.s) /\ r \in Results
        /\ Ftell(t) < Len(t.file) => Found(t, r, Ftell(t) + 1)
        /\ ~(Ftell(t) < Len(t.file)) => Ended(t, r)
        /\ Passed(t, Ftell(t))
    BY <2>1, NextByteFound
  <2>3. CASE Ftell(t) < N
    <3>1. Ftell(t) + 1 \in (Ftell(t) + 1)..N /\ (Ftell(t) + 1) - 1 = Ftell(t) /\ Ftell(t) + 1 > Ftell(t) + 0
      BY <1>1, <2>3
    <3>2. Skipped(t, r, 0)
      BY <2>2, <2>3, <3>1 DEF Skipped
    <3>3. QED
      BY <1>1, <2>1, <2>2, <3>2
  <2>4. CASE ~(Ftell(t) < N)
    <3>1. Ftell(t) = N
      BY <1>1, <2>4
    <3>2. Skipped(t, r, 0)
      BY <2>2, <2>4, <3>1 DEF Skipped
    <3>3. QED
      BY <1>1, <2>1, <2>2, <3>2
  <2>5. QED
    BY <2>3, <2>4
<1>4. \A i \in 0..N : \A r \in S[i] : r \in Results /\ Skipped(t, r, i) /\ b[r] = Skip(r)
  OBVIOUS
<1>5. Stays(S, N, b)
  <2> SUFFICES ASSUME NEW i \in 1..N, NEW r \in S[i - 1]
               PROVE  b[r] \in S[i]
    BY DEF Stays
  <2>1. i - 1 \in 0..N /\ i - 1 \in Nat /\ (i - 1) + 1 = i /\ i \in 0..N
    BY <1>1
  <2>2. r \in Results /\ Skipped(t, r, i - 1) /\ b[r] = Skip(r)
    BY <1>4, <2>1
  <2>3. Skip(r) \in Results /\ Skipped(t, Skip(r), (i - 1) + 1)
    BY <2>1, <2>2, SkipOne
  <2>4. QED
    BY <2>1, <2>2, <2>3
<1> HIDE DEF S, b
<1>6. PICK g : Loop(g, N, NextByte(t), b) /\ \A i \in 0..N : g[i] \in S[i]
  BY <1>1, <1>3, <1>5, LoopExists
<1>7. IsPass(g)
  <2>1. g = [i \in 0..N |-> IF i = 0 THEN NextByte(t) ELSE b[g[i - 1]]]
    BY <1>6 DEF Loop
  <2>2. ASSUME NEW i \in 0..N
        PROVE  (IF i = 0 THEN NextByte(t) ELSE b[g[i - 1]]) = (IF i = 0 THEN NextByte(t) ELSE Skip(g[i - 1]))
    <3>1. CASE i # 0
      <4>1. i - 1 \in 0..N
        BY <1>1, <3>1
      <4>2. b[g[i - 1]] = Skip(g[i - 1])
        BY <1>4, <1>6, <4>1
      <4>3. QED
        BY <4>2
    <3>2. QED
      BY <3>1
  <2>3. QED
    BY <2>1, <2>2
<1>8. IsPass(pass)
  <2> HIDE DEF IsPass
  <2>1. QED
    BY <1>7
<1> HIDE DEF pass
<1>9. \A i \in 0..N : pass[i] \in S[i]
  <2>1. pass[0] = NextByte(t)
    BY <1>1, <1>8
  <2>2. ASSUME NEW i \in 1..N, pass[i - 1] \in S[i - 1]
        PROVE  pass[i] = b[pass[i - 1]]
    <3>1. i \in 0..N /\ i - 1 \in 0..N /\ i # 0
      BY <1>1
    <3>2. pass[i] = Skip(pass[i - 1])
      BY <1>8, <3>1
    <3>3. QED
      BY <1>4, <2>2, <3>1, <3>2
  <2> HIDE DEF IsPass
  <2>3. QED
    BY <1>1, <1>3, <1>5, <2>1, <2>2, LoopStays
<1>10. TextByte(t) \in Results /\ Skipped(t, TextByte(t), N)
  <2>1. N \in 0..N
    BY <1>1
  <2>2. QED
    BY <1>2, <1>4, <1>9, <2>1
<1>11. ASSUME NEW n \in (Ftell(t) + 1)..N, Found(t, TextByte(t), n),
              TextByte(t).c = "CR" => n > Ftell(t) + N
       PROVE  t.file[n] # "CR"
  BY <1>1, <1>11 DEF Found
<1>12. QED
  BY <1>10, <1>11 DEF Skipped


\* The character read last is put back into the buffer.
LEMMA StepBack ==
    ASSUME NEW t, Sound(t), t.base, NEW c, ReadLast(t, c),
           NEW u, u = [t EXCEPT !.cnt = t.cnt + 1, !.ptr = t.ptr - 1]
    PROVE  Onward(t, u) /\ u.flag = t.flag /\ Ftell(u) = Ftell(t) - 1
<1>1. /\ t \in Streams /\ t.ptr \in 0..BUFSIZ /\ t.cnt \in 0..BUFSIZ /\ t.rwp \in Nat
      /\ t.rwp \in 0..Len(t.file) /\ t.file \in Seq(Data) /\ t.buf \in Buffer
  BY Fields
<1>2. Flag(t, "READ") /\ t.cnt < t.rwp /\ t.file[t.rwp - t.cnt] = c /\ t.ptr > 0 /\ t.buf[t.ptr] = c
  BY DEF ReadLast
<1>3. /\ ~Flag(t, "WRT") /\ ~Flag(t, "DIRN") /\ ~Flag(t, "NBF") /\ Ftell(t) = t.rwp - t.cnt
      /\ t.ptr + t.cnt <= BUFSIZ
      /\ \A i \in 1..t.cnt : t.buf[t.ptr + i] = t.file[t.rwp - t.cnt + i]
  BY <1>2, ReadingFacts
<1>4. t.cnt + 1 \in 0..BUFSIZ /\ t.ptr - 1 \in 0..BUFSIZ
  BY <1>1, <1>2, <1>3, Sizes
<1>5. /\ u \in Streams /\ u.rwp = t.rwp /\ u.file = t.file /\ u.base = t.base /\ u.cnt = t.cnt + 1
      /\ u.ptr = t.ptr - 1 /\ u.buf = t.buf /\ u.flag = t.flag
  BY <1>1, <1>4 DEF Streams
<1>6. \A b \in Flags : Flag(u, b) <=> Flag(t, b)
  BY <1>5 DEF Flag
<1>7. PICK p \in Nat, k \in Nat, r \in Nat : p = t.ptr /\ k = t.cnt /\ r = t.rwp
  BY <1>1
<1>8. ASSUME NEW i \in 1..u.cnt
      PROVE  u.buf[u.ptr + i] = u.file[u.rwp - u.cnt + i]
  <2>1. i \in 1..(k + 1) /\ u.ptr = p - 1 /\ u.cnt = k + 1 /\ u.rwp = r
    BY <1>5, <1>7
  <2>2. CASE i = 1
    <3>1. (p - 1) + i = p /\ r - (k + 1) + i = r - k
      BY <1>7, <2>2
    <3>2. QED
      BY <1>2, <1>5, <1>7, <2>1, <3>1
  <2>3. CASE i # 1
    <3>1. i - 1 \in 1..k /\ (p - 1) + i = p + (i - 1) /\ r - (k + 1) + i = r - k + (i - 1)
      BY <1>7, <2>1, <2>3
    <3>2. t.buf[p + (i - 1)] = t.file[r - k + (i - 1)]
      BY <1>3, <1>7, <3>1
    <3>3. QED
      BY <1>5, <2>1, <3>1, <3>2
  <2>4. QED
    BY <2>2, <2>3
<1>9. Sound(u) /\ Flag(u, "READ")
  <2>1. u.cnt <= u.rwp /\ u.ptr + u.cnt <= BUFSIZ /\ u.rwp <= Len(u.file)
    <3>1. k < r /\ p + k <= BUFSIZ /\ p > 0
      BY <1>2, <1>3, <1>7
    <3>2. k + 1 <= r /\ (p - 1) + (k + 1) <= BUFSIZ
      BY <1>7, <3>1, Sizes
    <3>3. QED
      BY <1>1, <1>5, <1>7, <3>2
  <2>2. Reading(u)
    BY <1>3, <1>5, <1>6, <1>8, <2>1 DEF Reading, Flags
  <2>3. QED
    BY <1>2, <1>3, <1>5, <1>6, <2>1, <2>2 DEF Sound, Flags
<1>10. Ftell(u) = Ftell(t) - 1
  <2>1. Ftell(u) = u.rwp - u.cnt
    BY <1>9, ReadingFacts
  <2>2. r - (k + 1) = (r - k) - 1
    BY <1>7
  <2>3. QED
    BY <1>3, <1>5, <1>7, <2>1, <2>2
<1>11. QED
  BY <1>5, <1>6, <1>9, <1>10 DEF Onward

\* What fgetc() may find on a stream that is read.
Character(t, r) == \E n \in (Ftell(t) + 1)..Len(t.file) :
    /\ Found(t, r, n)
    /\ IF Flag(t, "BINARY") THEN n = Ftell(t) + 1
       ELSE Passed(t, n - 1) /\ t.file[n] \notin {"CR", "ETX"}
TextEnds(t, r) == \E n \in (Ftell(t) + 1)..Len(t.file) :
    /\ ~Flag(t, "BINARY") /\ Passed(t, n - 1) /\ t.file[n] = "ETX"
    /\ r.c = EOF /\ Flag(r.s, "EOF") /\ Ftell(r.s) = IF t.base THEN n - 1 ELSE n
FileEnds(t, r) ==
    /\ Ended(t, r) /\ Flag(r.s, "EOF")
    /\ IF Flag(t, "BINARY") THEN Ftell(t) = Len(t.file) ELSE Passed(t, Len(t.file))

LEMMA FgetcText ==
    ASSUME NEW t, Sound(t), Flag(t, "READ"), ~Flag(t, "EOF"), ~Flag(t, "BINARY")
    PROVE  /\ Fgetc(t) \in Results /\ Onward(t, Fgetc(t).s)
           /\ Character(t, Fgetc(t)) \/ TextEnds(t, Fgetc(t)) \/ FileEnds(t, Fgetc(t))
<1>1. PICK r : r = TextByte(t)
  OBVIOUS
<1>2. /\ r \in Results /\ Onward(t, r.s)
      /\ \/ \E n \in (Ftell(t) + 1)..Len(t.file) :
               Found(t, r, n) /\ Passed(t, n - 1) /\ t.file[n] # "CR"
         \/ Ended(t, r) /\ Passed(t, Len(t.file))
  BY <1>1, TextByteFacts
<1>3. ~Flag(t, "DIRN") /\ Ftell(t) \in 0..Len(t.file) /\ t.file \in Seq(Data) /\ Len(t.file) \in Nat
  BY ReadingFacts, Fields
<1>4. r = [s |-> r.s, c |-> r.c] /\ r.s \in Streams
  BY <1>2 DEF Results
<1>5. Sound(r.s) /\ r.s.base = t.base
  BY <1>2 DEF Onward
<1>6. CASE \E n \in (Ftell(t) + 1)..Len(t.file) :
              Found(t, r, n) /\ Passed(t, n - 1) /\ t.file[n] # "CR"
  <2>1. PICK n \in (Ftell(t) + 1)..Len(t.file) :
               Found(t, r, n) /\ Passed(t, n - 1) /\ t.file[n] # "CR"
    BY <1>6
  <2>2. r.c = t.file[n] /\ r.c \in Data /\ ReadLast(r.s, r.c) /\ Ftell(r.s) = n /\ r.c # EOF
    <3>1. n \in 1..Len(t.file)
      BY <1>3
    <3>2. t.file[n] \in Data
      BY <1>3, <3>1, ElementOfSeq
    <3>3. QED
      BY <2>1, <3>2, EofIsNoData DEF Found
  <2>3. CASE r.c # "ETX"
    <3>1. Fgetc(t) = r
      BY <1>1, <1>3, <2>2, <2>3 DEF Fgetc
    <3>2. Character(t, r)
      BY <2>1, <2>2, <2>3 DEF Character
    <3>3. QED
      BY <1>2, <3>1, <3>2
  <2>4. CASE r.c = "ETX"
    <3> DEFINE v == IF t.base THEN [r.s EXCEPT !.cnt = @ + 1, !.ptr = @ - 1] ELSE r.s
               u == Set(v, {"EOF"})
    <3>1. Fgetc(t) = [s |-> u, c |-> EOF]
      BY <1>1, <1>3, <2>2, <2>4 DEF Fgetc, EOF
    <3>2. Onward(t, v) /\ Ftell(v) = IF t.base THEN n - 1 ELSE n
      <4>1. CASE t.base
        <5>1. v = [r.s EXCEPT !.cnt = r.s.cnt + 1, !.ptr = r.s.ptr - 1]
          BY <4>1
        <5> HIDE DEF v
        <5>2. Onward(r.s, v) /\ Ftell(v) = Ftell(r.s) - 1
          BY <1>5, <2>2, <4>1, <5>1, StepBack
        <5>3. QED
          BY <1>2, <2>2, <4>1, <5>2, OnwardTwice
      <4>2. CASE ~t.base
        BY <1>2, <2>2, <4>2
      <4>3. QED
        BY <4>1, <4>2
    <3> HIDE DEF v
    <3>3. Onward(v, u) /\ Ftell(u) = Ftell(v) /\ Flag(u, "EOF")
      <4>1. Sound(v)
        BY <3>2 DEF Onward
      <4>2. QED
        BY <4>1, SetEof
    <3> HIDE DEF u
    <3>4. Onward(t, u) /\ u \in Streams
      <4>1. Onward(t, u)
        BY <3>2, <3>3, OnwardTwice
      <4>2. QED
        BY <4>1, Fields DEF Onward
    <3>5. TextEnds(t, [s |-> u, c |-> EOF])
      BY <2>1, <2>2, <2>4, <3>2, <3>3 DEF TextEnds
    <3>6. QED
      BY <3>1, <3>4, <3>5 DEF Results
  <2>5. QED
    BY <2>3, <2>4
<1>7. CASE Ended(t, r) /\ Passed(t, Len(t.file))
  <2> DEFINE u == Set(r.s, {"EOF"})
  <2>1. r.c = EOF /\ Ftell(r.s) = Len(t.file)
    BY <1>7 DEF Ended
  <2>2. Fgetc(t) = [s |-> u, c |-> EOF]
    <3>1. Fgetc(t) = [r EXCEPT !.s = Set(@, {"EOF"})]
      BY <1>1, <1>3, <2>1 DEF Fgetc
    <3>2. QED
      BY <1>4, <2>1, <3>1
  <2>3. Onward(r.s, u) /\ Ftell(u) = Ftell(r.s) /\ Flag(u, "EOF")
    BY <1>5, SetEof
  <2> HIDE DEF u
  <2>4. Onward(t, u) /\ u \in Streams
    <3>1. Onward(t, u)
      BY <1>2, <2>3, OnwardTwice
    <3>2. QED
      BY <3>1, Fields DEF Onward
  <2>5. FileEnds(t, [s |-> u, c |-> EOF])
    BY <1>7, <2>1, <2>3 DEF FileEnds, Ended
  <2>6. QED
    BY <2>2, <2>4, <2>5 DEF Results
<1>8. QED
  BY <1>2, <1>6, <1>7

LEMMA FgetcBinary ==
    ASSUME NEW t, Sound(t), Flag(t, "READ"), ~Flag(t, "EOF"), Flag(t, "BINARY")
    PROVE  /\ Fgetc(t) \in Results /\ Onward(t, Fgetc(t).s)
           /\ Character(t, Fgetc(t)) \/ FileEnds(t, Fgetc(t))
<1>1. PICK r : r = NextByte(t)
  OBVIOUS
<1>2. /\ Onward(t, r.s) /\ r \in Results
      /\ Ftell(t) < Len(t.file) => Found(t, r, Ftell(t) + 1)
      /\ ~(Ftell(t) < Len(t.file)) => Ended(t, r)
  BY <1>1, NextByteFound
<1>3. ~Flag(t, "DIRN") /\ Ftell(t) \in 0..Len(t.file) /\ t.file \in Seq(Data) /\ Len(t.file) \in Nat
  BY ReadingFacts, Fields
<1>4. r = [s |-> r.s, c |-> r.c] /\ Sound(r.s)
  BY <1>2 DEF Results, Onward
<1>5. CASE Ftell(t) < Len(t.file)
  <2>1. Found(t, r, Ftell(t) + 1) /\ Ftell(t) + 1 \in 1..Len(t.file)
        /\ Ftell(t) + 1 \in (Ftell(t) + 1)..Len(t.file)
    BY <1>2, <1>3, <1>5
  <2>2. r.c \in Data
    BY <1>3, <2>1, ElementOfSeq DEF Found
  <2>3. Fgetc(t) = r
    BY <1>1, <1>3, <2>2, EofIsNoData DEF Fgetc
  <2>4. Character(t, r)
    BY <2>1 DEF Character
  <2>5. QED
    BY <1>2, <2>3, <2>4
<1>6. CASE ~(Ftell(t) < Len(t.file))
  <2> DEFINE u == Set(r.s, {"EOF"})
  <2>1. Ended(t, r) /\ r.c = EOF /\ Ftell(r.s) = Len(t.file) /\ Ftell(t) = Len(t.file)
    BY <1>2, <1>3, <1>6 DEF Ended
  <2>2. Fgetc(t) = [s |-> u, c |-> EOF]
    <3>1. Fgetc(t) = [r EXCEPT !.s = Set(@, {"EOF"})]
      BY <1>1, <1>3, <2>1 DEF Fgetc
    <3>2. QED
      BY <1>4, <2>1, <3>1
  <2>3. Onward(r.s, u) /\ Ftell(u) = Ftell(r.s) /\ Flag(u, "EOF")
    BY <1>4, SetEof
  <2> HIDE DEF u
  <2>4. Onward(t, u) /\ u \in Streams
    <3>1. Onward(t, u)
      BY <1>2, <2>3, OnwardTwice
    <3>2. QED
      BY <3>1, Fields DEF Onward
  <2>5. FileEnds(t, [s |-> u, c |-> EOF])
    BY <2>1, <2>3 DEF FileEnds, Ended
  <2>6. QED
    BY <2>2, <2>4, <2>5 DEF Results
<1>7. QED
  BY <1>5, <1>6

LEMMA FgetcNothing ==
    ASSUME NEW t, Sound(t), ~Flag(t, "READ") \/ Flag(t, "EOF")
    PROVE  /\ Fgetc(t) \in Results /\ Onward(t, Fgetc(t).s)
           /\ Fgetc(t).c = EOF /\ Flag(Fgetc(t).s, "EOF")
           /\ Ftell(Fgetc(t).s) = Ftell(t) /\ Image(Fgetc(t).s) = Image(t)
<1>1. Fgetc(t) = [s |-> Set(t, {"EOF"}), c |-> EOF]
  BY DEF Fgetc
<1>2. PICK u : u = Set(t, {"EOF"})
  OBVIOUS
<1>3. Onward(t, u) /\ Ftell(u) = Ftell(t) /\ Image(u) = Image(t) /\ Flag(u, "EOF")
  BY <1>2, SetEof
<1>4. u \in Streams
  BY <1>3, Fields DEF Onward
<1>5. QED
  BY <1>1, <1>2, <1>3, <1>4 DEF Results

\* Whatever the stream is, fgetc() leaves it so that the next call is sound.
LEMMA FgetcFacts ==
    ASSUME NEW t, Sound(t)
    PROVE  /\ Fgetc(t) \in Results /\ Onward(t, Fgetc(t).s)
           /\ Fgetc(t).c # EOF => Fgetc(t).c \in Data /\ ReadLast(Fgetc(t).s, Fgetc(t).c)
<1>1. CASE ~Flag(t, "READ") \/ Flag(t, "EOF")
  BY <1>1, FgetcNothing
<1>2. CASE Flag(t, "READ") /\ ~Flag(t, "EOF")
  <2>1. PICK r : r = Fgetc(t)
    OBVIOUS
  <2>2. r \in Results /\ Onward(t, r.s) /\ (Character(t, r) \/ TextEnds(t, r) \/ FileEnds(t, r))
    BY <1>2, <2>1, FgetcText, FgetcBinary
  <2>3. r.c # EOF => r.c \in Data /\ ReadLast(r.s, r.c)
    BY <2>2 DEF Character, TextEnds, FileEnds, Ended, Found, Results
  <2>4. QED
    BY <2>1, <2>2, <2>3
<1>3. QED
  BY <1>1, <1>2


\* No ^Z between t and n; u is where the text ends, seen from t.
NoEtx(t, n) == \A i \in (Ftell(t) + 1)..n : t.file[i] # "ETX"
AtTextEnd(t, u) ==
    \/ \E n \in (Ftell(t) + 1)..Len(t.file) :
          NoEtx(t, n - 1) /\ t.file[n] = "ETX" /\ Ftell(u) = IF t.base THEN n - 1 ELSE n
    \/ NoEtx(t, Len(t.file)) /\ Ftell(u) = Len(t.file)

\* i characters of the text were read, or all there are.
Item(t, r, i) ==
    /\ Onward(t, r.s)
    /\ \/ r.c # EOF /\ r.s.flag = t.flag /\ Ftell(r.s) >= Ftell(t) + i /\ NoEtx(t, Ftell(r.s))
       \/ r.c = EOF /\ AtTextEnd(t, r.s)

LEMMA ItemOn ==
    ASSUME NEW t, Sound(t), Flag(t, "READ"), ~Flag(t, "EOF"), ~Flag(t, "BINARY"),
           NEW i \in Nat, NEW r \in Results, Item(t, r, i)
    PROVE  ReadOn(r) \in Results /\ Item(t, ReadOn(r), i + 1)
<1>1. Sound(r.s) /\ r.s.wild = FALSE /\ r.s.base = t.base /\ r.s.file = t.file /\ Onward(t, r.s)
  <2>1. Onward(t, r.s)
    BY DEF Item
  <2>2. Sound(r.s) /\ r.s.base = t.base /\ r.s.file = t.file
    BY <2>1 DEF Onward
  <2>3. r.s.wild = FALSE
    BY <2>2, Fields
  <2>4. QED
    BY <2>1, <2>2, <2>3
<1>2. CASE r.c = EOF
  <2>1. ReadOn(r) = r
    BY <1>2 DEF ReadOn
  <2>2. Item(t, r, i + 1)
    BY <1>2 DEF Item
  <2>3. QED
    BY <2>1, <2>2
<1>3. CASE r.c # EOF
  <2>1. r.s.flag = t.flag /\ Ftell(r.s) >= Ftell(t) + i /\ NoEtx(t, Ftell(r.s))
    BY <1>3 DEF Item
  <2>2. PICK q : q = Fgetc(r.s)
    OBVIOUS
  <2>3. ReadOn(r) = q
    BY <1>1, <1>3, <2>2 DEF ReadOn
  <2>4. Flag(r.s, "READ") /\ ~Flag(r.s, "EOF") /\ ~Flag(r.s, "BINARY")
    BY <2>1 DEF Flag
  <2>5. q \in Results /\ Onward(r.s, q.s) /\ (Character(r.s, q) \/ TextEnds(r.s, q) \/ FileEnds(r.s, q))
    BY <1>1, <2>2, <2>4, FgetcText
  <2>6. Onward(t, q.s)
    BY <1>1, <2>5, OnwardTwice
  <2>7. Ftell(t) \in 0..Len(t.file) /\ Ftell(r.s) \in 0..Len(t.file) /\ Len(t.file) \in Nat
        /\ t.file \in Seq(Data)
    <3>1. Ftell(r.s) \in 0..Len(r.s.file)
      BY <1>1, <2>4, ReadingFacts
    <3>2. QED
      BY <1>1, <3>1, ReadingFacts, Fields
  <2>8. ASSUME NEW n \in (Ftell(r.s) + 1)..Len(t.file), Passed(r.s, n - 1)
        PROVE  NoEtx(t, n - 1) /\ n \in (Ftell(t) + 1)..Len(t.file) /\ n >= Ftell(t) + (i + 1)
    <3>1. \A j \in (Ftell(t) + 1)..(n - 1) :
             j \in (Ftell(t) + 1)..Ftell(r.s) \/ j \in (Ftell(r.s) + 1)..(n - 1)
      BY <2>7
    <3>2. \A j \in (Ftell(r.s) + 1)..(n - 1) : t.file[j] # "ETX"
      BY <1>1, <2>8 DEF Passed
    <3>3. NoEtx(t, n - 1)
      BY <2>1, <3>1, <3>2 DEF NoEtx
    <3>4. QED
      BY <2>1, <2>7, <3>3
  <2>9. CASE Character(r.s, q)
    <3>1. PICK n \in (Ftell(r.s) + 1)..Len(t.file) :
             Found(r.s, q, n) /\ Passed(r.s, n - 1) /\ t.file[n] \notin {"CR", "ETX"}
      BY <1>1, <2>4, <2>9 DEF Character
    <3>2. NoEtx(t, n - 1) /\ n \in (Ftell(t) + 1)..Len(t.file) /\ n >= Ftell(t) + (i + 1)
      BY <2>8, <3>1
    <3>3. q.c = t.file[n] /\ Ftell(q.s) = n /\ q.s.flag = t.flag
      BY <1>1, <2>1, <3>1 DEF Found
    <3>4. q.c # EOF
      <4>1. n \in 1..Len(t.file)
        BY <2>7
      <4>2. t.file[n] \in Data
        BY <2>7, <4>1, ElementOfSeq
      <4>3. QED
        BY <3>3, <4>2, EofIsNoData
    <3>5. NoEtx(t, n)
      <4>1. \A j \in (Ftell(t) + 1)..n : j = n \/ j \in (Ftell(t) + 1)..(n - 1)
        BY <2>7
      <4>2. QED
        BY <3>1, <3>2, <4>1 DEF NoEtx
    <3>6. QED
      BY <2>3, <2>5, <2>6, <3>2, <3>3, <3>4, <3>5 DEF Item
  <2>10. CASE TextEnds(r.s, q)
    <3>1. PICK n \in (Ftell(r.s) + 1)..Len(t.file) :
             /\ Passed(r.s, n - 1) /\ t.file[n] = "ETX" /\ q.c = EOF
             /\ Ftell(q.s) = IF t.base THEN n - 1 ELSE n
      BY <1>1, <2>10 DEF TextEnds
    <3>2. NoEtx(t, n - 1) /\ n \in (Ftell(t) + 1)..Len(t.file)
      BY <2>8, <3>1
    <3>3. AtTextEnd(t, q.s)
      BY <3>1, <3>2 DEF AtTextEnd
    <3>4. QED
      BY <2>3, <2>5, <2>6, <3>1, <3>3 DEF Item
  <2>11. CASE FileEnds(r.s, q)
    <3>1. Passed(r.s, Len(t.file)) /\ q.c = EOF /\ Ftell(q.s) = Len(t.file)
      BY <1>1, <2>4, <2>11 DEF FileEnds, Ended
    <3>2. NoEtx(t, Len(t.file))
      <4>1. \A j \in (Ftell(t) + 1)..Len(t.file) :
               j \in (Ftell(t) + 1)..Ftell(r.s) \/ j \in (Ftell(r.s) + 1)..Len(t.file)
        BY <2>7
      <4>2. \A j \in (Ftell(r.s) + 1)..Len(t.file) : t.file[j] # "ETX"
        BY <1>1, <3>1 DEF Passed
      <4>3. QED
        BY <2>1, <4>1, <4>2 DEF NoEtx
    <3>3. AtTextEnd(t, q.s)
      BY <3>1, <3>2 DEF AtTextEnd
    <3>4. QED
      BY <2>3, <2>5, <2>6, <3>1, <3>3 DEF Item
  <2>12. QED
    BY <2>5, <2>9, <2>10, <2>11
<1>4. QED
  BY <1>2, <1>3

LEMMA FreadFacts ==
    ASSUME NEW t, Sound(t), Flag(t, "READ"), ~Flag(t, "EOF"), ~Flag(t, "BINARY"),
           NEW n \in Nat
    PROVE  /\ Onward(t, Fread(t, n))
           /\ \/ Ftell(Fread(t, n)) >= Ftell(t) + n /\ NoEtx(t, Ftell(Fread(t, n)))
              \/ AtTextEnd(t, Fread(t, n))
<1> DEFINE a == [s |-> t, c |-> Junk]
           S == [i \in 0..n |-> {r \in Results : Item(t, r, i)}]
           b == [r \in Results |-> ReadOn(r)]
           IsItem(f) == f = [i \in 0..n |-> IF i = 0 THEN [s |-> t, c |-> Junk] ELSE ReadOn(f[i - 1])]
           item == CHOOSE f : IsItem(f)
<1>1. Ftell(t) \in 0..Len(t.file) /\ Len(t.file) \in Nat
  BY Fields, ReadingFacts
<1>2. Fread(t, n) = item[n].s
  BY DEF Fread
<1>3. a \in S[0]
  <2>1. Onward(t, t) /\ t \in Streams
    BY Fields DEF Onward
  <2>2. Junk \in Data /\ Junk # EOF
    BY DEF Data, Junk, EOF
  <2>3. NoEtx(t, Ftell(t))
    BY <1>1 DEF NoEtx
  <2>4. Item(t, a, 0)
    BY <1>1, <2>1, <2>2, <2>3 DEF Item
  <2>5. a \in Results
    BY <2>1, <2>2 DEF Results
  <2>6. QED
    BY <2>4, <2>5
<1>4. \A i \in 0..n : \A r \in S[i] : r \in Results /\ Item(t, r, i) /\ b[r] = ReadOn(r)
  OBVIOUS
<1>5. Stays(S, n, b)
  <2> SUFFICES ASSUME NEW i \in 1..n, NEW r \in S[i - 1]
               PROVE  b[r] \in S[i]
    BY DEF Stays
  <2>1. i - 1 \in 0..n /\ i - 1 \in Nat /\ (i - 1) + 1 = i /\ i \in 0..n
    OBVIOUS
  <2>2. r \in Results /\ Item(t, r, i - 1) /\ b[r] = ReadOn(r)
    BY <1>4, <2>1
  <2>3. ReadOn(r) \in Results /\ Item(t, ReadOn(r), (i - 1) + 1)
    BY <2>1, <2>2, ItemOn
  <2>4. QED
    BY <2>1, <2>2, <2>3
<1> HIDE DEF S, b
<1>6. PICK g : Loop(g, n, a, b) /\ \A i \in 0..n : g[i] \in S[i]
  <2> HIDE DEF a
  <2>1. QED
    BY <1>3, <1>5, LoopExists
<1>7. IsItem(g)
  <2>1. g = [i \in 0..n |-> IF i = 0 THEN a ELSE b[g[i - 1]]]
    BY <1>6 DEF Loop
  <2>2. ASSUME NEW i \in 0..n
        PROVE  (IF i = 0 THEN a ELSE b[g[i - 1]]) = (IF i = 0 THEN a ELSE ReadOn(g[i - 1]))
    <3> HIDE DEF a
    <3>1. CASE i # 0
      <4>1. i - 1 \in 0..n
        BY <3>1
      <4>2. b[g[i - 1]] = ReadOn(g[i - 1])
        BY <1>4, <1>6, <4>1
      <4>3. QED
        BY <4>2
    <3>2. QED
      BY <3>1
  <2>3. QED
    BY <2>1, <2>2
<1>8. IsItem(item)
  <2> HIDE DEF IsItem
  <2>1. QED
    BY <1>7
<1> HIDE DEF item
<1>9. \A i \in 0..n : item[i] \in S[i]
  <2>1. item[0] = a
    BY <1>8
  <2>2. ASSUME NEW i \in 1..n, item[i - 1] \in S[i - 1]
        PROVE  item[i] = b[item[i - 1]]
    <3>1. i \in 0..n /\ i - 1 \in 0..n /\ i # 0
      OBVIOUS
    <3>2. item[i] = ReadOn(item[i - 1])
      BY <1>8, <3>1
    <3>3. QED
      BY <1>4, <2>2, <3>1, <3>2
  <2> HIDE DEF IsItem, a
  <2>3. QED
    BY <1>3, <1>5, <2>1, <2>2, LoopStays
<1>10. item[n] \in Results /\ Item(t, item[n], n)
  BY <1>4, <1>9
<1>11. QED
  BY <1>2, <1>10 DEF Item


-----------------------------------------------------------------------------
(***************************************************************************)
(* Positions.                                                              *)
(***************************************************************************)
\* u is t at another position; nothing waits in it.
Moved(t, u, pos) ==
    /\ Sound(u) /\ ~Flushes(u) /\ Ftell(u) = pos
    /\ u.file = t.file /\ u.base = t.base
    /\ \A b \in Flags \ HighFlags : Flag(u, b) <=> Flag(t, b)

\* lseek() on a stream without a byte in its buffer.
LEMMA MoveDescriptor ==
    ASSUME NEW t, Sound(t), IsOpen(t), NEW pos \in 0..Len(t.file),
           NEW n, n = (IF Flag(t, "WRT") /\ t.base THEN BUFSIZ ELSE 0),
           NEW u, u = [t EXCEPT !.cnt = n, !.rwp = pos], Flag(t, "WRT") => n = t.cnt
    PROVE  Moved(t, u, pos) /\ u.flag = t.flag
<1>1. /\ t \in Streams /\ t.ptr \in 0..BUFSIZ /\ t.file \in Seq(Data) /\ Len(t.file) \in Nat
      /\ t.base \in BOOLEAN
  BY Fields
<1>2. n \in 0..BUFSIZ /\ pos \in Nat
  BY <1>1, Sizes
<1>3. /\ u \in Streams /\ u.rwp = pos /\ u.file = t.file /\ u.base = t.base /\ u.cnt = n
      /\ u.ptr = t.ptr /\ u.flag = t.flag
  BY <1>1, <1>2 DEF Streams
<1>4. \A b \in Flags : Flag(u, b) <=> Flag(t, b)
  BY <1>3 DEF Flag
<1>5. ~Flag(u, "NBF") /\ pos <= Len(u.file)
  BY <1>1, <1>3, <1>4 DEF Sound, Flags
<1>6. CASE Flag(t, "WRT")
  <2>1. Writing(u) /\ Flag(u, "WRT") /\ ~Flag(u, "READ")
    BY <1>3, <1>4, <1>6 DEF Sound, Writing, Flags
  <2>2. Sound(u)
    BY <1>3, <1>5, <2>1 DEF Sound
  <2>3. ~Flushes(u)
    BY <1>3, <1>6, <1>4 DEF Flushes, Flags
  <2>4. Ftell(u) = pos
    <3>1. CASE t.base
      <4>1. Ftell(u) = pos + (BUFSIZ - BUFSIZ)
        BY <1>3, <1>6, <2>1, <2>2, <3>1, ImageFacts
      <4>2. QED
        BY <1>2, <4>1, Sizes
    <3>2. CASE ~t.base
      BY <1>3, <2>1, <2>2, <3>2, ImageFacts
    <3>3. QED
      BY <3>1, <3>2
  <2>5. QED
    BY <1>3, <1>4, <2>2, <2>3, <2>4 DEF Moved
<1>7. CASE ~Flag(t, "WRT")
  <2>1. Flag(t, "READ") /\ n = 0
    BY <1>7 DEF IsOpen, Flag
  <2>2. Flag(u, "READ") /\ ~Flag(u, "WRT") /\ ~Flag(u, "DIRN")
    BY <1>4, <1>7, <2>1, ReadingFacts DEF Flags
  <2>3. u.cnt <= u.rwp /\ u.ptr + u.cnt <= BUFSIZ /\ u.cnt = 0
    BY <1>1, <1>2, <1>3, <2>1, Sizes
  <2>4. Sound(u)
    BY <1>3, <1>5, <2>2, <2>3 DEF Sound, Reading
  <2>5. ~Flushes(u)
    BY <2>2 DEF Flushes
  <2>6. Ftell(u) = pos
    <3>1. Ftell(u) = pos - 0
      BY <1>3, <2>2, <2>3, <2>4, ReadingFacts
    <3>2. QED
      BY <1>2, <3>1
  <2>7. QED
    BY <1>3, <1>4, <2>4, <2>5, <2>6 DEF Moved
<1>8. QED
  BY <1>6, <1>7

\* fseek() within what was read ahead.
LEMMA MoveInBuffer ==
    ASSUME NEW t, Sound(t), Flag(t, "READ"), t.base, NEW r \in 0..t.cnt,
           NEW u, u = [t EXCEPT !.cnt = t.cnt - r, !.ptr = t.ptr + r]
    PROVE  Moved(t, u, Ftell(t) + r) /\ u.flag = t.flag
<1>1. /\ t \in Streams /\ t.ptr \in 0..BUFSIZ /\ t.cnt \in 0..BUFSIZ /\ t.rwp \in Nat
      /\ t.rwp \in 0..Len(t.file)
  BY Fields
<1>2. /\ ~Flag(t, "WRT") /\ ~Flag(t, "DIRN") /\ ~Flag(t, "NBF") /\ Ftell(t) = t.rwp - t.cnt
      /\ t.cnt <= t.rwp /\ t.ptr + t.cnt <= BUFSIZ
      /\ \A i \in 1..t.cnt : t.buf[t.ptr + i] = t.file[t.rwp - t.cnt + i]
  BY ReadingFacts
<1>3. PICK p \in Nat, k \in Nat, w \in Nat : p = t.ptr /\ k = t.cnt /\ w = t.rwp
  BY <1>1
<1>4. /\ k - r \in 0..BUFSIZ /\ p + r \in 0..BUFSIZ /\ k - r <= w /\ (p + r) + (k - r) <= BUFSIZ
      /\ w - (k - r) = (w - k) + r
  BY <1>1, <1>2, <1>3, Sizes
<1>5. /\ u \in Streams /\ u.rwp = w /\ u.file = t.file /\ u.base = t.base /\ u.cnt = k - r
      /\ u.ptr = p + r /\ u.buf = t.buf /\ u.flag = t.flag
  BY <1>1, <1>3, <1>4 DEF Streams
<1>6. \A b \in Flags : Flag(u, b) <=> Flag(t, b)
  BY <1>5 DEF Flag
<1>7. ASSUME NEW i \in 1..u.cnt
      PROVE  u.buf[u.ptr + i] = u.file[u.rwp - u.cnt + i]
  <2>1. i \in 1..(k - r)
    BY <1>5
  <2>2. r + i \in 1..k /\ (p + r) + i = p + (r + i) /\ w - (k - r) + i = w - k + (r + i)
    BY <1>3, <2>1
  <2>3. t.buf[p + (r + i)] = t.file[w - k + (r + i)]
    BY <1>2, <1>3, <2>2
  <2>4. QED
    BY <1>5, <2>2, <2>3
<1>8. Sound(u) /\ Flag(u, "READ") /\ ~Flag(u, "WRT")
  <2>1. Reading(u)
    BY <1>2, <1>4, <1>5, <1>6, <1>7 DEF Reading, Flags
  <2>2. u.rwp <= Len(u.file)
    BY <1>1, <1>3, <1>5
  <2>3. QED
    BY <1>2, <1>5, <1>6, <2>1, <2>2 DEF Sound, Flags
<1>9. Ftell(u) = Ftell(t) + r
  <2>1. Ftell(u) = u.rwp - u.cnt
    BY <1>8, ReadingFacts
  <2>2. QED
    BY <1>2, <1>3, <1>4, <1>5, <2>1
<1>10. ~Flushes(u)
  BY <1>8 DEF Flushes
<1>11. QED
  BY <1>5, <1>6, <1>8, <1>9, <1>10 DEF Moved

\* The flags B say nothing of the direction.
Aside(t, B) == \A b \in {"READ", "WRT", "DIRN", "NBF"} : b \in B => ~Flag(t, b)

LEMMA ClearFlags ==
    ASSUME NEW t, Sound(t), NEW B, Aside(t, B),
           NEW u, u = Clear(t, B)
    PROVE  /\ Sound(u) /\ u.flag = t.flag \ B /\ u.file = t.file /\ u.base = t.base /\ u.cnt = t.cnt
           /\ u.ptr = t.ptr /\ u.rwp = t.rwp /\ Image(u) = Image(t) /\ Ftell(u) = Ftell(t)
<1>1. t.flag \subseteq Flags
  BY Fields
<1>2. PICK F \in SUBSET Flags : F = t.flag \ B
  BY <1>1
<1>3. \A b \in {"READ", "WRT", "DIRN", "NBF"} : b \in F <=> b \in t.flag
  BY <1>2 DEF Aside, Flag
<1>4. u = [t EXCEPT !.flag = F]
  BY <1>2 DEF Clear
<1>5. QED
  BY <1>2, <1>3, <1>4, FlagsChange

LEMMA MoveToFacts ==
    ASSUME NEW t, Sound(t), IsOpen(t), t.base, ~Flushes(t), NEW pos \in 0..Len(t.file)
    PROVE  Moved(t, MoveTo(t, pos), pos)
<1> DEFINE roffs == pos - Ftell(t)
           u == Clear(t, {"DIRN", "WROTE"})
<1>1. /\ t \in Streams /\ t.cnt \in 0..BUFSIZ /\ t.rwp \in Nat /\ t.file \in Seq(Data)
      /\ Len(t.file) \in Nat
  BY Fields
<1>0. pos >= 0
  BY <1>1
<1>2. Ftell(t) \in Int
  BY <1>1, ImageFacts DEF IsOpen, Flag
<1>3. CASE roffs = 0
  <2>1. Ftell(t) = pos
    BY <1>2, <1>3
  <2>2. MoveTo(t, pos) = t
    BY <1>3 DEF MoveTo
  <2>3. QED
    BY <2>1, <2>2 DEF Moved
<1>4. CASE roffs # 0 /\ ~Flag(t, "READ")
  <2>1. Flag(t, "WRT") /\ t.cnt = BUFSIZ
    BY <1>4, FlushesWhen DEF IsOpen, Flag
  <2>2. MoveTo(t, pos) = [t EXCEPT !.rwp = pos]
    BY <1>0, <1>4 DEF MoveTo, LseekTo
  <2>3. [t EXCEPT !.rwp = pos] = [t EXCEPT !.cnt = BUFSIZ, !.rwp = pos]
    BY <1>1, <2>1 DEF Streams
  <2>4. PICK n : n = BUFSIZ
    OBVIOUS
  <2>5. PICK v : v = MoveTo(t, pos)
    OBVIOUS
  <2>6. v = [t EXCEPT !.cnt = n, !.rwp = pos]
    BY <2>2, <2>3, <2>4, <2>5
  <2>7. Moved(t, v, pos)
    BY <2>1, <2>4, <2>6, MoveDescriptor
  <2>8. QED
    BY <2>5, <2>7
<1>5. CASE roffs # 0 /\ Flag(t, "READ")
  <2>1. ~Flag(t, "WRT") /\ ~Flag(t, "DIRN")
    BY <1>5, ReadingFacts
  <2>2. PICK B : B = {"DIRN", "WROTE"}
    OBVIOUS
  <2>3. /\ Sound(u) /\ u.flag = t.flag \ B /\ u.file = t.file /\ u.base = t.base /\ u.cnt = t.cnt
        /\ u.ptr = t.ptr /\ u.rwp = t.rwp /\ Ftell(u) = Ftell(t)
    <3>1. Aside(t, B)
      BY <2>1, <2>2 DEF Aside
    <3>2. u = Clear(t, B)
      BY <2>2
    <3> HIDE DEF u
    <3>3. Sound(u) /\ u.flag = t.flag \ B
      BY <3>1, <3>2, ClearFlags
    <3>4. u.file = t.file /\ u.cnt = t.cnt /\ u.ptr = t.ptr /\ u.rwp = t.rwp
      BY <3>1, <3>2, ClearFlags
    <3>5. Ftell(u) = Ftell(t)
      BY <3>1, <3>2, ClearFlags
    <3>6. u.base = t.base
      BY <1>1, <3>2 DEF Clear, Streams
    <3>7. QED
      BY <3>3, <3>4, <3>5, <3>6
  <2> HIDE DEF u
  <2>4. \A b \in Flags \ HighFlags : Flag(u, b) <=> Flag(t, b)
    BY <2>2, <2>3 DEF Flag, HighFlags
  <2>5. Flag(u, "READ") /\ ~Flag(u, "WRT") /\ u.base
    BY <1>5, <2>1, <2>3, <2>4 DEF Flags, HighFlags
  <2>6. ASSUME NEW v, Moved(u, v, pos)
        PROVE  Moved(t, v, pos)
    BY <2>3, <2>4, <2>6 DEF Moved
  <2>7. CASE roffs >= 0 /\ roffs <= t.cnt
    <3>1. MoveTo(t, pos) = [u EXCEPT !.cnt = @ - roffs, !.ptr = @ + roffs]
      BY <1>5, <2>1, <2>7 DEF MoveTo, u
    <3>2. PICK r \in 0..t.cnt : r = roffs
      BY <1>1, <1>2, <2>7
    <3>3. PICK v : v = MoveTo(t, pos)
      OBVIOUS
    <3>4. v = [u EXCEPT !.cnt = u.cnt - r, !.ptr = u.ptr + r] /\ r \in 0..u.cnt
      BY <2>3, <3>1, <3>2, <3>3
    <3>5. Moved(u, v, Ftell(u) + r)
      BY <2>3, <2>5, <3>4, MoveInBuffer
    <3>6. Ftell(u) + r = pos
      BY <1>2, <2>3, <3>2
    <3>7. QED
      BY <2>6, <3>3, <3>5, <3>6
  <2>8. CASE ~(roffs >= 0 /\ roffs <= t.cnt)
    <3>1. MoveTo(t, pos) = LseekTo([u EXCEPT !.cnt = 0], pos)
      BY <1>5, <2>8 DEF MoveTo, u
    <3>2. LseekTo([u EXCEPT !.cnt = 0], pos) = [u EXCEPT !.cnt = 0, !.rwp = pos]
      BY <1>0 DEF LseekTo
    <3>3. PICK v, n : v = MoveTo(t, pos) /\ n = 0
      OBVIOUS
    <3>4. v = [u EXCEPT !.cnt = n, !.rwp = pos] /\ pos \in 0..Len(u.file) /\ IsOpen(u)
      BY <2>3, <2>5, <3>1, <3>2, <3>3 DEF IsOpen, Flag
    <3>5. Moved(u, v, pos)
      BY <2>3, <2>5, <3>3, <3>4, MoveDescriptor
    <3>6. QED
      BY <2>6, <3>3, <3>5
  <2>9. QED
    BY <2>7, <2>8
<1>6. QED
  BY <1>3, <1>4, <1>5


\* Where a text ends that has ^Z in its last record only: e is the place.
LastRecordEnds(file, e) ==
    LET start == Len(file) - SECSIZE
    IN  \/ \E n \in (start + 1)..Len(file) :
              /\ file[n] = "ETX" /\ e = n - 1
              /\ \A i \in (start + 1)..(n - 1) : file[i] # "ETX"
        \/ (\A i \in (start + 1)..Len(file) : file[i] # "ETX") /\ e = Len(file)

LEMMA SsizeText ==
    ASSUME NEW t, Sound(t), Flag(t, "READ"), t.base, ~Flag(t, "EOF"), ~Flag(t, "BINARY")
    PROVE  /\ Sound(Ssize(t).s) /\ Ssize(t).s.file = t.file /\ Ssize(t).s.base = t.base
           /\ \A b \in Flags \ HighFlags : Flag(Ssize(t).s, b) <=> Flag(t, b)
           /\ Ssize(t).c \in 0..Len(t.file)
           /\ Len(t.file) >= SECSIZE => LastRecordEnds(t.file, Ssize(t).c)
<1> DEFINE start == Len(t.file) - SECSIZE
           pos == IF start >= 0 THEN start ELSE t.rwp
           u == [LseekTo(Clear(Set(t, {"READ"}), {"WRT"}), start) EXCEPT !.cnt = 0]
           v == Fread(u, SECSIZE)
           w == [v EXCEPT !.flag = t.flag \ HighFlags]
<1>1. /\ t \in Streams /\ t.file \in Seq(Data) /\ Len(t.file) \in Nat /\ t.rwp \in 0..Len(t.file)
      /\ t.flag \subseteq Flags /\ SECSIZE \in Nat \ {0}
  BY Fields, Sizes
<1>2. ~Flag(t, "WRT") /\ ~Flag(t, "DIRN") /\ ~Flag(t, "NBF")
  BY ReadingFacts
<1>3. Clear(Set(t, {"READ"}), {"WRT"}) = t
  <2>1. (t.flag \cup {"READ"}) \ {"WRT"} = t.flag
    BY <1>2 DEF Flag
  <2>2. Set(t, {"READ"}).flag = t.flag \cup {"READ"}
    BY <1>1 DEF Set, Streams
  <2>3. Clear(Set(t, {"READ"}), {"WRT"}) = [t EXCEPT !.flag = (t.flag \cup {"READ"}) \ {"WRT"}]
    BY <1>1, <2>2 DEF Set, Clear, Streams
  <2>4. QED
    BY <1>1, <2>1, <2>3 DEF Streams
<1>4. pos \in 0..Len(t.file)
  BY <1>1
<1>5. u = [t EXCEPT !.cnt = 0, !.rwp = pos]
  <2>1. t = [t EXCEPT !.rwp = t.rwp]
    BY <1>1 DEF Streams
  <2>2. LseekTo(t, start) = [t EXCEPT !.rwp = pos]
    BY <2>1 DEF LseekTo
  <2>3. QED
    BY <1>1, <1>3, <2>2 DEF Streams
<1>6. Ssize(t).c = Ftell(v) /\ Ssize(t).s = IF Flag(w, "WRT") THEN [w EXCEPT !.cnt = BUFSIZ, !.ptr = 0] ELSE w
  BY DEF Ssize
<1> HIDE DEF u
<1>7. Moved(t, u, pos) /\ u.flag = t.flag
  <2>1. PICK n, p \in 0..Len(t.file) : n = 0 /\ p = pos
    BY <1>4
  <2>2. n = (IF Flag(t, "WRT") /\ t.base THEN BUFSIZ ELSE 0) /\ u = [t EXCEPT !.cnt = n, !.rwp = p]
    BY <1>2, <1>5, <2>1
  <2>3. IsOpen(t)
    BY DEF IsOpen, Flag
  <2> HIDE DEF pos
  <2>4. Moved(t, u, p)
    BY <1>2, <2>2, <2>3, MoveDescriptor
  <2>5. u.flag = t.flag
    BY <1>1, <1>5 DEF Streams
  <2>6. QED
    BY <2>1, <2>4, <2>5
<1> HIDE DEF pos
<1>8. /\ Sound(u) /\ Ftell(u) = pos /\ u.file = t.file /\ u.base = t.base
      /\ Flag(u, "READ") /\ ~Flag(u, "EOF") /\ ~Flag(u, "BINARY")
  BY <1>7 DEF Moved, Flag
<1>9. /\ Onward(u, v)
      /\ \/ Ftell(v) >= pos + SECSIZE /\ NoEtx(u, Ftell(v))
         \/ AtTextEnd(u, v)
  <2>1. SECSIZE \in Nat
    BY <1>1
  <2>2. QED
    BY <1>8, <2>1, FreadFacts
<1> HIDE DEF v
<1>10. Sound(v) /\ v.file = t.file /\ \A b \in Flags \ {"EOF"} : Flag(v, b) <=> Flag(t, b)
  BY <1>7, <1>8, <1>9 DEF Onward, Flag
<1>11. v.base = t.base
  BY <1>8, <1>9, Zenon DEF Onward
<1>12. Flag(v, "READ")
  BY <1>10 DEF Flags
<1>13. Ftell(v) \in 0..Len(t.file)
  <2>1. Ftell(v) \in 0..Len(v.file)
    BY <1>10, <1>12, ReadingFacts
  <2>2. QED
    BY <1>10, <2>1
<1>14. /\ Sound(w) /\ w.flag = t.flag \ HighFlags /\ w.file = v.file /\ w.base = v.base
  <2>1. PICK F \in SUBSET Flags : F = t.flag \ HighFlags
    BY <1>1
  <2>2. \A b \in {"READ", "WRT", "DIRN", "NBF"} : b \in F <=> b \in v.flag
    BY <1>2, <1>10, <2>1 DEF Flag, HighFlags, Flags
  <2>3. w = [v EXCEPT !.flag = F]
    BY <2>1
  <2> HIDE DEF w
  <2>4. Sound(w) /\ w.flag = F /\ w.file = v.file /\ w.base = v.base
    BY <1>10, <2>2, <2>3, FlagsChange
  <2>5. QED
    BY <2>1, <2>4
<1> HIDE DEF w
<1>15. Ssize(t).s = w
  <2>1. ~Flag(w, "WRT")
    BY <1>2, <1>14 DEF Flag
  <2>2. QED
    BY <1>6, <2>1
<1>16. \A b \in Flags \ HighFlags : Flag(w, b) <=> Flag(t, b)
  BY <1>14 DEF Flag
<1>17. ASSUME Len(t.file) >= SECSIZE
       PROVE  LastRecordEnds(t.file, Ftell(v))
  <2>1. pos = start /\ start \in Nat /\ start + SECSIZE = Len(t.file)
    BY <1>1, <1>17 DEF pos
  <2>2. AtTextEnd(u, v)
    <3>1. CASE Ftell(v) >= pos + SECSIZE /\ NoEtx(u, Ftell(v))
      <4>1. Ftell(v) = Len(t.file)
        BY <1>1, <1>13, <2>1, <3>1
      <4>2. QED
        BY <1>8, <3>1, <4>1 DEF AtTextEnd
    <3>2. QED
      BY <1>9, <3>1
  <2>3. QED
    BY <1>8, <2>1, <2>2 DEF AtTextEnd, NoEtx, LastRecordEnds
<1>18. w.file = t.file /\ w.base = t.base
  BY <1>10, <1>11, <1>14
<1>19. QED
  BY <1>6, <1>13, <1>14, <1>15, <1>16, <1>17, <1>18

LEMMA FlushedSame ==
    ASSUME NEW t, Sound(t), NEW u, u = Clear(t, {"EOF"})
    PROVE  /\ Sound(u) /\ Flushed(u) = Flushed(t) /\ u.base = t.base /\ u.file = t.file
           /\ ~Flag(u, "EOF") /\ \A b \in Flags \ {"EOF"} : Flag(u, b) <=> Flag(t, b)
           /\ Image(u) = Image(t) /\ Ftell(u) = Ftell(t)
<1>1. PICK B : B = {"EOF"}
  OBVIOUS
<1>2. Aside(t, B) /\ u = Clear(t, B)
  BY <1>1 DEF Aside
<1>3. /\ Sound(u) /\ u.flag = t.flag \ B /\ u.file = t.file /\ u.base = t.base /\ u.cnt = t.cnt
      /\ u.ptr = t.ptr /\ u.rwp = t.rwp /\ Image(u) = Image(t) /\ Ftell(u) = Ftell(t)
  BY <1>2, ClearFlags
<1>4. ~Flag(u, "EOF") /\ \A b \in Flags \ {"EOF"} : Flag(u, b) <=> Flag(t, b)
  BY <1>1, <1>3 DEF Flag
<1>5. Flushes(u) <=> Flushes(t)
  <2>1. /\ Flag(u, "WRT") <=> Flag(t, "WRT")
        /\ Flag(u, "DIRN") <=> Flag(t, "DIRN")
        /\ Flag(u, "WROTE") <=> Flag(t, "WROTE")
    BY <1>4 DEF Flags
  <2>2. QED
    BY <1>3, <2>1 DEF Flushes
<1>6. Flushed(u) = Flushed(t)
  <2>1. Written(u, BUFSIZ - u.cnt) = Written(t, BUFSIZ - t.cnt)
    BY <1>3 DEF Written, Stops
  <2>2. QED
    BY <1>5, <2>1 DEF Flushed
<1>7. QED
  BY <1>3, <1>4, <1>6


LEMMA FseekFacts ==
    ASSUME NEW t, Sound(t), IsOpen(t), NEW k \in Flushed(t), NEW wh, NEW offs,
           wh = 2 => Flag(t, "BINARY") \/ ~Flag(t, "WRT") \/ ~t.base,
           NEW u, u = Clear(t, {"EOF"}), NEW f, f = Fflush(u, k),
           NEW pos \in 0..Len(f.file), pos = Target(f, offs, wh)
    PROVE  /\ Sound(f) /\ Alike(u, f) /\ ~Flushes(f)
           /\ Moved(f, Fseek(t, offs, wh, k), pos)
<1>1. /\ Sound(u) /\ Flushed(u) = Flushed(t) /\ u.base = t.base
      /\ ~Flag(u, "EOF") /\ \A b \in Flags \ {"EOF"} : Flag(u, b) <=> Flag(t, b)
  BY FlushedSame
<1>2. Sound(f) /\ Alike(u, f) /\ ~Flushes(f) /\ (~Flushes(u) => f = u)
  BY <1>1, FflushFacts
<1>3. /\ Flag(f, "READ") <=> Flag(t, "READ")
      /\ Flag(f, "WRT") <=> Flag(t, "WRT")
      /\ Flag(f, "BINARY") <=> Flag(t, "BINARY")
      /\ ~Flag(f, "EOF")
  BY <1>1, <1>2 DEF Alike, Flags
<1>4. IsOpen(f)
  BY <1>3 DEF IsOpen, Flag
<1>5. f.base = u.base /\ u.base = t.base /\ t.base \in BOOLEAN /\ f.base \in BOOLEAN
  BY <1>1, <1>2, Fields DEF Alike
<1>6. pos >= 0 /\ Len(f.file) \in Nat
  <2>1. Len(f.file) \in Nat
    BY <1>2, Fields
  <2>2. QED
    BY <2>1
<1>7. CASE ~t.base
  <2>1. ~Flushes(u)
    BY <1>5, <1>7 DEF Flushes
  <2>2. f = u
    BY <1>2, <2>1
  <2>3. Fseek(t, offs, wh, k) = LseekTo(u, Target(u, offs, wh))
    BY <1>7 DEF Fseek
  <2>4. f.cnt = 0 /\ f \in Streams
    <3>1. ~f.base
      BY <1>5, <1>7
    <3>2. Flag(f, "READ") => f.cnt = 0
      BY <1>2, <3>1 DEF Sound, Reading
    <3>3. Flag(f, "WRT") => f.cnt = 0
      BY <1>2, <3>1 DEF Sound, Writing
    <3>4. QED
      BY <1>2, <1>4, <3>2, <3>3, Fields DEF IsOpen, Flag
  <2>5. Fseek(t, offs, wh, k) = [f EXCEPT !.rwp = pos]
    BY <1>6, <2>2, <2>3 DEF LseekTo
  <2>6. [f EXCEPT !.rwp = pos] = [f EXCEPT !.cnt = 0, !.rwp = pos]
    BY <2>4 DEF Streams
  <2>7. PICK v, n : v = Fseek(t, offs, wh, k) /\ n = 0
    OBVIOUS
  <2>8. v = [f EXCEPT !.cnt = n, !.rwp = pos] /\ n = (IF Flag(f, "WRT") /\ f.base THEN BUFSIZ ELSE 0)
        /\ (Flag(f, "WRT") => n = f.cnt)
    BY <1>5, <1>7, <2>4, <2>5, <2>6, <2>7
  <2>9. Moved(f, v, pos)
    BY <1>2, <1>4, <2>8, MoveDescriptor
  <2>10. QED
    BY <1>2, <2>7, <2>9
<1>8. CASE t.base
  <2> DEFINE g == IF wh = 2 THEN Ssize(f).s ELSE f
  <2>1. Fseek(t, offs, wh, k) = MoveTo(g, pos)
    BY <1>8 DEF Fseek
  <2>2. /\ Sound(g) /\ g.file = f.file /\ g.base
        /\ \A b \in Flags \ HighFlags : Flag(g, b) <=> Flag(f, b)
        /\ ~Flushes(g)
    <3>1. CASE wh = 2 /\ ~Flag(f, "BINARY")
      <4>1. ~Flag(f, "WRT") /\ Flag(f, "READ") /\ f.base
        BY <1>3, <1>4, <1>5, <1>8, <3>1 DEF IsOpen, Flag
      <4>2. PICK w : w = Ssize(f).s
        OBVIOUS
      <4>3. /\ Sound(w) /\ w.file = f.file /\ (w.base <=> f.base)
            /\ \A b \in Flags \ HighFlags : Flag(w, b) <=> Flag(f, b)
        BY <1>2, <1>3, <3>1, <4>1, <4>2, SsizeText
      <4>4. ~Flag(w, "WRT")
        BY <4>1, <4>3 DEF Flags, HighFlags
      <4>5. ~Flushes(w)
        BY <4>4 DEF Flushes
      <4>6. g = w
        BY <3>1, <4>2
      <4>7. QED
        BY <4>1, <4>3, <4>5, <4>6
    <3>2. CASE ~(wh = 2 /\ ~Flag(f, "BINARY"))
      <4>1. g = f
        BY <3>2 DEF Ssize
      <4>2. f.base
        BY <1>5, <1>8
      <4>3. QED
        BY <1>2, <4>1, <4>2
    <3>3. QED
      BY <3>1, <3>2
  <2> HIDE DEF g
  <2>3. IsOpen(g)
    <3>1. (Flag(g, "READ") <=> Flag(f, "READ")) /\ (Flag(g, "WRT") <=> Flag(f, "WRT"))
      BY <2>2 DEF Flags, HighFlags
    <3>2. QED
      BY <1>4, <3>1 DEF IsOpen, Flag
  <2>4. pos \in 0..Len(g.file)
    BY <2>2
  <2>5. PICK v : v = MoveTo(g, pos)
    OBVIOUS
  <2>6. Moved(g, v, pos)
    BY <2>2, <2>3, <2>4, <2>5, MoveToFacts
  <2>7. v.base = f.base
    <3>1. v.base <=> f.base
      <4>1. v.base = g.base
        BY <2>6 DEF Moved
      <4>2. QED
        BY <1>5, <1>8, <2>2, <4>1, Zenon
    <3>2. v.base \in BOOLEAN
      BY <2>6, Fields DEF Moved
    <3>3. QED
      BY <1>5, <3>1, <3>2
  <2>8. Moved(f, v, pos)
    BY <2>2, <2>6, <2>7 DEF Moved
  <2>9. QED
    BY <1>2, <2>1, <2>5, <2>8
<1>9. QED
  BY <1>7, <1>8


-----------------------------------------------------------------------------
(***************************************************************************)
(* Opening and closing.                                                    *)
(***************************************************************************)
Pad(n) == [i \in 1..n |-> "ETX"]

LEMMA PadFacts ==
    ASSUME NEW f \in Seq(Data), NEW n \in Nat
    PROVE  /\ f \o Pad(n) \in Seq(Data) /\ Len(f \o Pad(n)) = Len(f) + n
           /\ \A i \in 1..Len(f) : (f \o Pad(n))[i] = f[i]
           /\ \A i \in 1..Len(f) + n : i > Len(f) => (f \o Pad(n))[i] = "ETX"
           /\ n = 0 => f \o Pad(n) = f
<1>1. "ETX" \in Data
  BY DEF Data
<1>2. Pad(n) \in Seq(Data) /\ Len(Pad(n)) = n /\ \A i \in 1..n : Pad(n)[i] = "ETX"
  BY <1>1 DEF Pad
<1>3. PICK p \in Seq(Data) : p = Pad(n) /\ Len(p) = n /\ \A i \in 1..n : p[i] = "ETX"
  BY <1>2
<1>4. Len(f) \in Nat
  OBVIOUS
<1>5. /\ f \o p \in Seq(Data) /\ Len(f \o p) = Len(f) + Len(p)
      /\ \A i \in 1..Len(f) + Len(p) : (f \o p)[i] = IF i <= Len(f) THEN f[i] ELSE p[i - Len(f)]
  BY ConcatProperties
<1>6. \A i \in 1..Len(f) : i \in 1..Len(f) + Len(p) /\ i <= Len(f)
  BY <1>3, <1>4
<1>7. \A i \in 1..Len(f) : (f \o p)[i] = f[i]
  BY <1>5, <1>6
<1>8. \A i \in 1..Len(f) + n : i > Len(f) => (f \o p)[i] = "ETX"
  <2> TAKE i \in 1..Len(f) + n
  <2> HAVE i > Len(f)
  <2>1. i - Len(f) \in 1..n /\ ~(i <= Len(f))
    BY <1>4
  <2>2. QED
    BY <1>3, <1>5, <2>1
<1>9. n = 0 => f \o p = f
  BY <1>3, <1>4, <1>5, <1>7, SameSeq
<1>10. QED
  BY <1>3, <1>5, <1>7, <1>8, <1>9

LEMMA NextMultiple ==
    ASSUME NEW l \in Nat, NEW d \in Nat \ {0}
    PROVE  (l + (d - (l % d))) % d = 0
  BY Z3

\* What is missing from l to a multiple of d.
LEMMA RoundUp ==
    ASSUME NEW l \in Nat, NEW d \in Nat \ {0}, NEW n, n = (d - (l % d)) % d
    PROVE  n \in 0..(d - 1) /\ (l + n) % d = 0 /\ (l % d = 0 => n = 0)
<1>1. l % d \in 0..(d - 1) /\ d % d = 0
  BY Z3
<1>2. CASE l % d = 0
  <2>1. n = 0
    BY <1>1, <1>2
  <2>2. QED
    BY <1>2, <2>1
<1>3. CASE l % d # 0
  <2>1. PICK r \in 0..(d - 1) : r = d - (l % d)
    BY <1>1, <1>3
  <2>2. r % d = r
    BY Z3
  <2>3. (l + (d - (l % d))) % d = 0
    BY NextMultiple
  <2>4. QED
    BY <1>3, <2>1, <2>2, <2>3
<1>4. QED
  BY <1>2, <1>3

LEMMA RecordedFacts ==
    ASSUME NEW f \in Seq(Data)
    PROVE  \E n \in 0..(SECSIZE - 1) :
              /\ Recorded(f) = f \o Pad(n)
              /\ ~Exact => (Len(f) + n) % SECSIZE = 0
              /\ Len(f) % SECSIZE = 0 => n = 0
<1> DEFINE n == (SECSIZE - (Len(f) % SECSIZE)) % SECSIZE
<1>1. Len(f) \in Nat /\ SECSIZE \in Nat \ {0}
  BY Sizes
<1>2. PICK l \in Nat : l = Len(f)
  BY <1>1
<1>3. n \in 0..(SECSIZE - 1) /\ (Len(f) + n) % SECSIZE = 0 /\ (Len(f) % SECSIZE = 0 => n = 0)
  <2>1. n = (SECSIZE - (l % SECSIZE)) % SECSIZE
    BY <1>2
  <2> HIDE DEF n
  <2>2. QED
    BY <1>1, <1>2, <2>1, RoundUp
<1>4. CASE Exact
  <2>1. Recorded(f) = f
    BY <1>4 DEF Recorded
  <2>2. f \o Pad(0) = f
    BY PadFacts
  <2>3. 0 \in 0..(SECSIZE - 1)
    BY <1>1
  <2>4. QED
    BY <1>4, <2>1, <2>2, <2>3
<1>5. CASE ~Exact
  <2>1. Recorded(f) = f \o Pad(n)
    BY <1>5 DEF Recorded, Pad
  <2> HIDE DEF n
  <2>2. QED
    BY <1>3, <2>1
<1>6. QED
  BY <1>4, <1>5

LEMMA RecordedGrows ==
    ASSUME NEW f \in Seq(Data)
    PROVE  /\ Recorded(f) \in Seq(Data) /\ Len(f) <= Len(Recorded(f))
           /\ \A i \in 1..Len(f) : Recorded(f)[i] = f[i]
<1>1. PICK n \in 0..(SECSIZE - 1) : Recorded(f) = f \o Pad(n)
  BY RecordedFacts
<1>2. n \in Nat /\ Len(f) \in Nat
  BY Sizes
<1>3. QED
  BY <1>1, <1>2, PadFacts

LEMMA FcloseFacts ==
    ASSUME NEW t, Sound(t), IsOpen(t), NEW k \in Flushed(t), NEW f, f = Fflush(t, k),
           NEW v, v = Fclose(t, k)
    PROVE  /\ Sound(f) /\ Alike(t, f) /\ ~Flushes(f) /\ Image(f) = f.file
           /\ Sound(v) /\ ~IsOpen(v) /\ v.file = Recorded(f.file) /\ Image(v) = v.file
           /\ v.flag = f.flag \ {"READ", "WRT", "NBF"}
<1> DEFINE u == Clear(f, {"READ", "WRT", "NBF"})
           base == u.base /\ Flag(u, "MYBUF")
           buf == IF Flag(u, "MYBUF") THEN u.buf ELSE Fresh
           file == Recorded(u.file)
<1>1. Sound(f) /\ Alike(t, f) /\ ~Flushes(f)
  BY FflushFacts
<1>2. /\ f \in Streams /\ f.flag \subseteq Flags /\ f.file \in Seq(Data) /\ f.rwp <= Len(f.file)
      /\ f.rwp \in Nat /\ Len(f.file) \in Nat /\ f.buf \in Buffer /\ f.base \in BOOLEAN
  BY <1>1, Fields
<1>3. /\ u.flag = f.flag \ {"READ", "WRT", "NBF"} /\ u.file = f.file /\ u.base = f.base
      /\ u.rwp = f.rwp /\ u.buf = f.buf /\ u \in Streams
  BY <1>2 DEF Clear, Streams
<1> HIDE DEF u
<1>4. v = [u EXCEPT !.base = base, !.file = file, !.buf = buf]
  BY <1>1 DEF Fclose, u
<1>5. base \in BOOLEAN /\ buf \in Buffer
  <2>1. Fresh \in Buffer
    BY DEF Fresh, Buffer, Data
  <2>2. u.buf \in Buffer
    BY <1>2, <1>3
  <2>3. QED
    BY <2>1, <2>2
<1>6. file \in Seq(Data) /\ Len(f.file) <= Len(file) /\ file = Recorded(f.file)
  BY <1>2, <1>3, RecordedGrows
<1> HIDE DEF base, buf, file
<1>7. /\ v \in Streams /\ v.flag = u.flag /\ v.file = file /\ v.rwp = u.rwp
  BY <1>3, <1>4, <1>5, <1>6 DEF Streams
<1>8. ~Flag(v, "READ") /\ ~Flag(v, "WRT") /\ ~Flag(v, "NBF")
  BY <1>3, <1>7 DEF Flag
<1>9. Sound(v)
  <2>1. Len(file) \in Nat
    BY <1>6
  <2>2. v.rwp <= Len(v.file)
    BY <1>2, <1>3, <1>6, <1>7, <2>1
  <2>3. QED
    BY <1>7, <1>8, <2>2 DEF Sound
<1>10. ~IsOpen(v) /\ Image(v) = v.file /\ Image(f) = f.file
  BY <1>1, <1>8 DEF IsOpen, Image, Flushes, Flag
<1>11. QED
  BY <1>1, <1>3, <1>6, <1>7, <1>9, <1>10

LEMMA SetBufferFacts ==
    ASSUME NEW t, Sound(t), IsOpen(t), Untouched(t), NEW c, NEW u, u = SetBuffer(t, c)
    PROVE  /\ Sound(u) /\ u.file = t.file /\ Ftell(u) = Ftell(t) /\ Image(u) = Image(t)
           /\ Image(u) = t.file /\ u.base = (c = "own")
           /\ \A b \in Flags \ {"MYBUF"} : Flag(u, b) <=> Flag(t, b)
<1> DEFINE own == c = "own"
           F == IF own THEN t.flag \cup {"MYBUF"} ELSE t.flag \ {"MYBUF"}
           n == IF own /\ Flag(t, "WRT") THEN BUFSIZ ELSE 0
<1>1. /\ t \in Streams /\ t.flag \subseteq Flags /\ t.file \in Seq(Data) /\ t.rwp <= Len(t.file)
      /\ t.rwp \in Nat /\ Len(t.file) \in Nat
  BY Fields
<1>2. F \in SUBSET Flags /\ n \in 0..BUFSIZ /\ 0 \in 0..BUFSIZ /\ own \in BOOLEAN
  BY <1>1, Sizes DEF Flags
<1>3. u = [t EXCEPT !.base = own, !.ptr = 0, !.flag = F, !.cnt = n]
  BY DEF SetBuffer
<1>4. \A b \in Flags \ {"MYBUF"} : b \in F <=> b \in t.flag
  OBVIOUS
<1>5. (own /\ Flag(t, "WRT") => n = BUFSIZ) /\ (~(own /\ Flag(t, "WRT")) => n = 0)
  OBVIOUS
<1> HIDE DEF own, F, n
<1>6. /\ u.base = own /\ u.ptr = 0 /\ u.flag = F /\ u.cnt = n /\ u.file = t.file
      /\ u.rwp = t.rwp /\ u.buf = t.buf
  BY <1>1, <1>3 DEF Streams
<1>7. u \in Streams
  <2>1. [t EXCEPT !.base = own, !.ptr = 0] \in Streams
    BY <1>1, <1>2 DEF Streams
  <2>2. u = [[t EXCEPT !.base = own, !.ptr = 0] EXCEPT !.flag = F, !.cnt = n]
    BY <1>3
  <2>3. QED
    BY <1>2, <2>1, <2>2 DEF Streams
<1>8. \A b \in Flags \ {"MYBUF"} : Flag(u, b) <=> Flag(t, b)
  BY <1>4, <1>6 DEF Flag
<1>9. /\ Flag(u, "READ") <=> Flag(t, "READ")
      /\ Flag(u, "WRT") <=> Flag(t, "WRT")
      /\ Flag(u, "DIRN") <=> Flag(t, "DIRN")
      /\ Flag(u, "NBF") <=> Flag(t, "NBF")
  BY <1>8 DEF Flags
<1>10. Flag(u, "READ") => Reading(u)
  <2>1. Flag(u, "READ") => ~Flag(u, "DIRN") /\ ~Flag(u, "WRT")
    BY <1>9 DEF Sound, Reading
  <2>2. Flag(u, "READ") => u.cnt = 0
    BY <1>5, <1>6, <1>9, <2>1
  <2>3. u.cnt = 0 => u.cnt <= u.rwp /\ u.ptr + u.cnt <= BUFSIZ
    BY <1>1, <1>6, Sizes
  <2>4. QED
    BY <2>1, <2>2, <2>3 DEF Reading
<1>11. Flag(u, "WRT") => Writing(u)
  <2>1. Flag(u, "WRT") => Flag(u, "DIRN") /\ ~Flag(u, "READ")
    BY <1>9 DEF Sound, Writing
  <2>2. Flag(u, "WRT") => IF u.base THEN u.ptr + u.cnt = BUFSIZ ELSE u.cnt = 0
    BY <1>5, <1>6, <1>9, Sizes
  <2>3. QED
    BY <2>1, <2>2 DEF Writing
<1>12. Sound(u)
  BY <1>1, <1>6, <1>7, <1>9, <1>10, <1>11 DEF Sound
<1>13. Ftell(t) = t.rwp
  <2>1. CASE Flag(t, "WRT")
    <3>1. t.base /\ t.cnt = BUFSIZ
      BY <2>1 DEF Untouched
    <3>2. Ftell(t) = t.rwp + (BUFSIZ - t.cnt)
      BY <2>1, <3>1, ImageFacts
    <3>3. QED
      BY <1>1, <3>1, <3>2, Sizes
  <2>2. CASE ~Flag(t, "WRT")
    <3>1. t.cnt = 0
      BY <2>2 DEF Untouched
    <3>2. Ftell(t) = t.rwp - t.cnt
      BY <2>2, ImageFacts
    <3>3. QED
      BY <1>1, <3>1, <3>2
  <2>3. QED
    BY <2>1, <2>2
<1>14. Ftell(u) = t.rwp
  <2>1. CASE Flag(u, "WRT") /\ u.base
    <3>1. Ftell(u) = u.rwp + (BUFSIZ - u.cnt) /\ u.cnt = BUFSIZ
      BY <1>5, <1>6, <1>9, <1>12, <2>1, ImageFacts
    <3>2. QED
      BY <1>1, <1>6, <3>1, Sizes
  <2>2. CASE ~(Flag(u, "WRT") /\ u.base)
    <3>1. Ftell(u) = u.rwp - u.cnt /\ u.cnt = 0
      BY <1>5, <1>6, <1>9, <1>12, <2>2, ImageFacts
    <3>2. QED
      BY <1>1, <1>6, <3>1
  <2>3. QED
    BY <2>1, <2>2
<1>15. Image(t) = t.file /\ Image(u) = u.file
  <2>1. ~Flushes(t)
    BY DEF Flushes, Untouched
  <2>2. ~Flushes(u)
    BY <1>5, <1>6, <1>9 DEF Flushes
  <2>3. QED
    BY <2>1, <2>2 DEF Image
<1>16. QED
  BY <1>6, <1>8, <1>12, <1>13, <1>14, <1>15 DEF own


LEMMA UngotFacts ==
    ASSUME NEW t, Sound(t), CanUnget(t), NEW c, ReadLast(t, c)
    PROVE  Onward(t, Ungot(t, c)) /\ Ungot(t, c).flag = t.flag /\ Ftell(Ungot(t, c)) = Ftell(t) - 1
<1>1. t \in Streams /\ t.ptr \in 0..BUFSIZ /\ t.buf \in Buffer /\ t.base
  BY Fields DEF CanUnget
<1>2. t.ptr > 0 /\ t.buf[t.ptr] = c
  BY <1>1 DEF ReadLast
<1>3. [t.buf EXCEPT ![t.ptr] = c] = t.buf
  <2>1. t.ptr \in 1..BUFSIZ
    BY <1>1, <1>2, Sizes
  <2>2. QED
    BY <1>1, <1>2, <2>1 DEF Buffer
<1>4. Ungot(t, c) = [t EXCEPT !.cnt = @ + 1, !.ptr = @ - 1, !.buf[t.ptr] = c]
  <2>1. t.ptr # 0
    BY <1>1, <1>2
  <2>2. QED
    BY <2>1 DEF Ungot
<1>5. [t EXCEPT !.cnt = @ + 1, !.ptr = @ - 1, !.buf[t.ptr] = c]
         = [t EXCEPT !.cnt = t.cnt + 1, !.ptr = t.ptr - 1, !.buf = [t.buf EXCEPT ![t.ptr] = c]]
  BY <1>1 DEF Streams
<1>6. [t EXCEPT !.cnt = t.cnt + 1, !.ptr = t.ptr - 1, !.buf = t.buf]
         = [t EXCEPT !.cnt = t.cnt + 1, !.ptr = t.ptr - 1]
  BY <1>1 DEF Streams
<1>7. PICK u : u = Ungot(t, c)
  OBVIOUS
<1>8. u = [t EXCEPT !.cnt = t.cnt + 1, !.ptr = t.ptr - 1]
  BY <1>3, <1>4, <1>5, <1>6, <1>7
<1>9. Onward(t, u) /\ Ftell(u) = Ftell(t) - 1
  BY <1>1, <1>8, StepBack
<1>10. u.flag = t.flag
  BY <1>1, <1>8 DEF Streams
<1>11. QED
  BY <1>7, <1>9, <1>10

\* The file that freopen() finds.
FileLeft(t) == IF IsOpen(t) THEN Recorded(t.file) ELSE t.file

\* What fopen() of file in mode m returns.
Opened(v, m, file) ==
    /\ Sound(v) /\ IsOpen(v) /\ Untouched(v) /\ v.file = file /\ Image(v) = file
    /\ Ftell(v) = IF m.op = "a" THEN Len(file) ELSE 0
    /\ Flag(v, "READ") <=> m.op = "r"
    /\ Flag(v, "WRT") <=> m.op # "r"
    /\ Flag(v, "BINARY") <=> m.bin
    /\ ~Flag(v, "EOF") /\ ~Flag(v, "ERR")

\* The stream before freopen() moves to the end, and what is known of it.
NewOne(file, m) ==
    [NoStream(file) EXCEPT !.base = TRUE, !.flag = ModeFlags(m),
                           !.cnt = IF m.op = "r" THEN 0 ELSE BUFSIZ]

Begun(u, m, file) ==
    /\ Sound(u) /\ IsOpen(u) /\ Untouched(u) /\ u.file = file /\ u.base = TRUE /\ u.rwp = 0
    /\ Image(u) = file /\ Ftell(u) = 0
    /\ Flag(u, "READ") <=> m.op = "r"
    /\ Flag(u, "WRT") <=> m.op # "r"
    /\ Flag(u, "BINARY") <=> m.bin
    /\ ~Flag(u, "EOF") /\ ~Flag(u, "ERR")

LEMMA NewStream ==
    ASSUME OneDirection, NEW m \in Modes, NEW file \in Seq(Data),
           NEW u, u = NewOne(file, m)
    PROVE  Begun(u, m, file)
<1> DEFINE n == IF m.op = "r" THEN 0 ELSE BUFSIZ
           F == ModeFlags(m)
<1>1. m.op \in {"r", "w", "a"} /\ m.bin \in BOOLEAN /\ ~m.plus
  BY StreamAssumption DEF OneDirection
<1>2. /\ F \in SUBSET Flags
      /\ "READ" \in F <=> m.op = "r"
      /\ "WRT" \in F <=> m.op # "r"
      /\ "DIRN" \in F <=> m.op # "r"
      /\ "BINARY" \in F <=> m.bin
      /\ "NBF" \notin F /\ "EOF" \notin F /\ "ERR" \notin F
  BY <1>1 DEF ModeFlags, Flags
<1>3. n \in 0..BUFSIZ /\ 0 \in 0..BUFSIZ /\ (m.op = "r" => n = 0) /\ (m.op # "r" => n = BUFSIZ)
  BY Sizes
<1>4. Fresh \in Buffer
  BY DEF Fresh, Buffer, Data
<1> HIDE DEF n, F
<1>5. u = [NoStream(file) EXCEPT !.base = TRUE, !.flag = F, !.cnt = n]
  BY DEF n, F, NewOne
<1>6. NoStream(file) \in Streams
  BY <1>3, <1>4 DEF NoStream, Streams
<1>7. /\ u.ptr = 0 /\ u.base = TRUE /\ u.flag = F /\ u.cnt = n /\ u.rwp = 0 /\ u.file = file
  BY <1>5, <1>6 DEF NoStream
<1>8. u \in Streams
  BY <1>2, <1>3, <1>5, <1>6 DEF Streams
<1>9. /\ Flag(u, "READ") <=> m.op = "r"
      /\ Flag(u, "WRT") <=> m.op # "r"
      /\ Flag(u, "DIRN") <=> m.op # "r"
      /\ Flag(u, "BINARY") <=> m.bin
      /\ ~Flag(u, "NBF") /\ ~Flag(u, "EOF") /\ ~Flag(u, "ERR")
  BY <1>2, <1>7 DEF Flag
<1>10. Flag(u, "READ") => Reading(u)
  <2>1. Flag(u, "READ") => u.cnt = 0
    BY <1>3, <1>7, <1>9
  <2>2. u.cnt = 0 => u.cnt <= u.rwp /\ u.ptr + u.cnt <= BUFSIZ
    BY <1>7, Sizes
  <2>3. QED
    BY <1>7, <1>9, <2>1, <2>2 DEF Reading
<1>11. Flag(u, "WRT") => Writing(u)
  BY <1>3, <1>7, <1>9, Sizes DEF Writing
<1>12. Sound(u)
  <2>1. u.rwp <= Len(u.file)
    BY <1>7
  <2>2. QED
    BY <1>8, <1>9, <1>10, <1>11, <2>1 DEF Sound
<1>13. Untouched(u) /\ IsOpen(u)
  <2>1. Untouched(u)
    BY <1>3, <1>7, <1>9 DEF Untouched
  <2>2. IsOpen(u)
    BY <1>9 DEF IsOpen, Flag
  <2>3. QED
    BY <2>1, <2>2
<1>14. Image(u) = file
  <2>1. ~Flushes(u)
    BY <1>13 DEF Flushes, Untouched
  <2>2. QED
    BY <1>7, <2>1 DEF Image
<1>15. Ftell(u) = 0
  <2>1. CASE m.op = "r"
    <3>1. Ftell(u) = u.rwp - u.cnt
      BY <1>9, <1>12, <2>1, ImageFacts
    <3>2. u.cnt = n /\ u.rwp = 0
      BY <1>7, Zenon
    <3>3. u.cnt = 0
      BY <1>3, <2>1, <3>2
    <3>4. QED
      BY <3>1, <3>2, <3>3
  <2>2. CASE m.op # "r"
    <3>1. Flag(u, "WRT") /\ u.base
      BY <1>7, <1>9, <2>2
    <3>2. Ftell(u) = u.rwp + (BUFSIZ - u.cnt)
      BY <1>12, <3>1, ImageFacts
    <3>3. QED
      BY <1>3, <1>7, <2>2, <3>2, Sizes
  <2>3. QED
    BY <2>1, <2>2
<1>16. u.base = TRUE
  BY <1>7, Zenon
<1>17. u.file = file /\ u.rwp = 0
  BY <1>7
<1>18. QED
  BY <1>9, <1>12, <1>13, <1>14, <1>15, <1>16, <1>17, ZenonT(30) DEF Begun

LEMMA FreopenFacts ==
    ASSUME OneDirection, NEW t, Sound(t), ~Flushes(t), NEW m \in Modes
    PROVE  Opened(Freopen(t, m, 0), m, IF m.op = "w" THEN <<>> ELSE FileLeft(t))
<1> DEFINE file == IF m.op = "w" THEN <<>> ELSE Fclose(t, 0).file
           u == NewOne(file, m)
           v == Freopen(t, m, 0)
<1>1. t.file \in Seq(Data)
  BY Fields
<1>2. Fclose(t, 0).file = FileLeft(t)
  <2>1. CASE ~IsOpen(t)
    BY <2>1 DEF Fclose, FileLeft
  <2>2. CASE IsOpen(t)
    <3>1. 0 \in Flushed(t)
      BY DEF Flushed
    <3> PICK k \in Flushed(t) : k = 0
      BY <3>1
    <3>2. PICK f, w : k = 0 /\ f = Fflush(t, k) /\ w = Fclose(t, k)
      OBVIOUS
    <3>3. w.file = Recorded(f.file)
      BY <2>2, <3>2, FcloseFacts
    <3>4. f = t
      BY <3>2 DEF Fflush
    <3>5. QED
      BY <2>2, <3>2, <3>3, <3>4 DEF FileLeft
  <2>3. QED
    BY <2>1, <2>2
<1>3. FileLeft(t) \in Seq(Data) /\ file \in Seq(Data) /\ file = IF m.op = "w" THEN <<>> ELSE FileLeft(t)
  BY <1>1, <1>2, RecordedGrows DEF FileLeft
<1>4. v = IF m.op = "a" THEN Fseek(u, 0, 2, 0) ELSE u
  BY DEF Freopen, NewOne
<1> HIDE DEF file, v
<1>9. Begun(u, m, file)
  BY <1>3, NewStream
<1> HIDE DEF u
<1>5. /\ Sound(u) /\ IsOpen(u) /\ Untouched(u) /\ u.file = file /\ u.base /\ u.rwp = 0
      /\ Image(u) = file /\ Ftell(u) = 0
      /\ Flag(u, "READ") <=> m.op = "r"
      /\ Flag(u, "WRT") <=> m.op # "r"
      /\ Flag(u, "BINARY") <=> m.bin
      /\ ~Flag(u, "EOF") /\ ~Flag(u, "ERR")
  BY <1>9 DEF Begun
<1>6. ASSUME m.op # "a"
      PROVE  Opened(v, m, file)
  BY <1>4, <1>5, <1>6 DEF Opened
<1>7. ASSUME m.op = "a"
      PROVE  Opened(v, m, file)
  <2>1. m.bin
    BY <1>7 DEF OneDirection
  <2>2. ~Flushes(u)
    BY <1>5 DEF Flushes, Untouched
  <2>3. PICK k, offs, wh, w, f : /\ k = 0 /\ offs = 0 /\ wh = 2
                                 /\ w = Clear(u, {"EOF"}) /\ f = Fflush(w, k)
    OBVIOUS
  <2>4. /\ Sound(w) /\ Flushed(w) = Flushed(u) /\ w.base = u.base /\ w.file = u.file
        /\ \A b \in Flags \ {"EOF"} : Flag(w, b) <=> Flag(u, b)
        /\ Image(w) = Image(u) /\ Ftell(w) = Ftell(u)
    BY <1>5, <2>3, FlushedSame
  <2>5. k \in Flushed(u)
    BY <2>2, <2>3 DEF Flushed
  <2>6. f = w
    <3>1. Image(w) = file /\ Ftell(w) = 0 /\ Flag(w, "WRT") /\ w.base
      BY <1>5, <1>7, <2>4 DEF Flags
    <3>2. Ftell(w) = w.rwp + (BUFSIZ - w.cnt)
      BY <2>4, <3>1, ImageFacts
    <3>3. w.cnt \in 0..BUFSIZ /\ w.rwp \in Nat
      BY <2>4, Fields
    <3>4. w.cnt = BUFSIZ
      <4>1. PICK r \in Nat, n \in 0..BUFSIZ : r = w.rwp /\ n = w.cnt
        BY <3>3
      <4>2. 0 = r + (BUFSIZ - n)
        BY <3>1, <3>2, <4>1
      <4>3. n = BUFSIZ
        BY <4>2, Sizes
      <4>4. QED
        BY <4>1, <4>3
    <3>5. QED
      BY <2>3, <3>4 DEF Fflush, Flushes
  <2>7. /\ Flag(f, "BINARY") /\ Flag(f, "WRT") /\ ~Flag(f, "READ") /\ ~Flag(f, "ERR")
        /\ f.file = file /\ f.base
    BY <1>5, <1>7, <2>1, <2>4, <2>6 DEF Flags
  <2>8. PICK pos \in 0..Len(f.file) : pos = Len(file)
    <3>1. Len(file) \in Nat
      BY <1>3
    <3>2. QED
      BY <2>7, <3>1
  <2>9. pos = Target(f, offs, wh)
    <3>1. Target(f, offs, wh) = 0 + Len(file)
      BY <2>3, <2>7 DEF Target, Ssize
    <3>2. QED
      BY <1>3, <2>8, <3>1
  <2>10. Moved(f, Fseek(u, offs, wh, k), pos)
    <3>1. Flag(u, "BINARY")
      BY <1>5, <2>1
    <3>2. QED
      BY <1>5, <2>3, <2>5, <2>9, <3>1, FseekFacts
  <2>11. v = Fseek(u, offs, wh, k)
    BY <1>4, <1>7, <2>3
  <2>12. Sound(v) /\ ~Flushes(v) /\ Ftell(v) = Len(file) /\ v.file = file
    BY <2>7, <2>8, <2>10, <2>11 DEF Moved
  <2>13. v.base
    BY <2>7, <2>10, <2>11 DEF Moved
  <2>14. Flag(v, "BINARY") /\ Flag(v, "WRT") /\ ~Flag(v, "READ") /\ ~Flag(v, "ERR") /\ ~Flag(v, "EOF")
    <3>1. ~Flag(f, "EOF")
      BY <1>5, <2>3, <2>6, FlushedSame
    <3>2. \A b \in Flags \ HighFlags : Flag(v, b) <=> Flag(f, b)
      BY <2>10, <2>11 DEF Moved
    <3>3. QED
      BY <2>7, <3>1, <3>2 DEF Flags, HighFlags
  <2>15. v.cnt = BUFSIZ
    BY <2>12, <2>13, <2>14, FlushesWhen
  <2>16. Untouched(v) /\ IsOpen(v) /\ Image(v) = file
    <3>1. Untouched(v)
      BY <2>13, <2>14, <2>15 DEF Untouched
    <3>2. IsOpen(v)
      BY <2>14 DEF IsOpen, Flag
    <3>3. Image(v) = file
      BY <2>12 DEF Image
    <3>4. QED
      BY <3>1, <3>2, <3>3
  <2>17. QED
    BY <1>7, <2>1, <2>12, <2>14, <2>16 DEF Opened
<1>8. QED
  BY <1>3, <1>6, <1>7 DEF v


-----------------------------------------------------------------------------
(***************************************************************************)
(* Every call keeps the invariant.                                         *)
(***************************************************************************)
LEMMA CalmIsGood ==
    ASSUME NEW t, Sound(t), NEW p \in Marks, Keeps(t, p)
    PROVE  /\ Good(t, Calm, p)
           /\ \A d \in {None, "read", "write"} : Good(t, [Calm EXCEPT !.dir = d], p)
<1>1. Calm \in Permits /\ Calm.fresh = FALSE /\ Calm.back = None
  BY DEF Calm, Permits
<1>2. ASSUME NEW d \in {None, "read", "write"}
      PROVE  /\ [Calm EXCEPT !.dir = d] \in Permits
             /\ [Calm EXCEPT !.dir = d].fresh = FALSE /\ [Calm EXCEPT !.dir = d].back = None
  BY DEF Calm, Permits
<1>3. QED
  BY <1>1, <1>2 DEF Good

LEMMA NewMark ==
    ASSUME NEW n \in Int, NEW p, p = [at |-> n, bytes |-> <<>>]
    PROVE  p \in Marks /\ p.at = n /\ p.bytes = <<>>
<1>0. <<>> \in Seq(Data)
  OBVIOUS
<1>1. PICK b \in Seq(Data) : b = <<>>
  BY <1>0
<1>2. p = [at |-> n, bytes |-> b]
  BY <1>1
<1>3. p \in Marks
  BY <1>2 DEF Marks
<1>4. p.at = n /\ p.bytes = b
  BY <1>2
<1>5. QED
  BY <1>1, <1>3, <1>4

LEMMA OpenedIsGood ==
    ASSUME NEW t, NEW m \in Modes, NEW file, Opened(t, m, file), m.op \in {"r", "w", "a"},
           NEW p, p = (IF m.op = "r" THEN Lost
                       ELSE [at |-> IF m.op = "w" THEN 0 ELSE Len(file), bytes |-> <<>>]),
           m.op = "w" => file = <<>>
    PROVE  Good(t, [Calm EXCEPT !.fresh = TRUE], p)
<1>1. Sound(t) /\ Untouched(t)
  BY DEF Opened
<1>2. p \in Marks /\ Keeps(t, p)
  <2>1. CASE m.op = "r"
    BY <2>1, NothingKept
  <2>2. CASE m.op # "r"
    <3>1. file \in Seq(Data) /\ Len(file) \in Nat /\ Image(t) = file
      BY Fields DEF Opened
    <3>2. PICK n \in Nat : n = IF m.op = "w" THEN 0 ELSE Len(file)
      BY <3>1
    <3>3. p = [at |-> n, bytes |-> <<>>] /\ n <= Len(file) /\ Ftell(t) = n
      <4>1. p = [at |-> n, bytes |-> <<>>]
        BY <2>2, <3>2
      <4>2. n <= Len(file)
        BY <3>1, <3>2
      <4>3. Ftell(t) = n
        BY <2>2, <3>2 DEF Opened
      <4>4. QED
        BY <4>1, <4>2, <4>3
    <3>4. p \in Marks /\ p.at = n /\ p.bytes = <<>>
      <4>1. n \in Int
        OBVIOUS
      <4>2. QED
        BY <3>3, <4>1, NewMark
    <3>5. Holds(file, n, <<>>)
      <4>1. Len(<<>>) = 0
        OBVIOUS
      <4>2. QED
        BY <3>3, <4>1 DEF Holds
    <3>6. n + Len(<<>>) = Ftell(t)
      BY <3>3
    <3>7. QED
      BY <3>1, <3>4, <3>5, <3>6 DEF Keeps
  <2>3. QED
    BY <2>1, <2>2
<1>3. /\ [Calm EXCEPT !.fresh = TRUE] \in Permits
      /\ [Calm EXCEPT !.fresh = TRUE].back = None
  BY DEF Calm, Permits
<1>4. QED
  BY <1>1, <1>2, <1>3 DEF Good

LEMMA ReopenKeeps == ASSUME OneDirection, Inv, Reopen PROVE Inv'
<1>1. Sound(s) /\ ~Flushes(s)
  BY DEF Inv, Good, Reopen
<1>2. PICK m \in Modes :
         /\ s' = Freopen(s, m, 0)
         /\ put' = IF m.op = "r" THEN Lost
                   ELSE [at |-> IF m.op = "w" THEN 0 ELSE Len(s'.file), bytes |-> <<>>]
  BY DEF Reopen
<1>3. PICK file : file = IF m.op = "w" THEN <<>> ELSE FileLeft(s)
  OBVIOUS
<1>4. Opened(s', m, file)
  BY <1>1, <1>2, <1>3, FreopenFacts
<1>5. m.op \in {"r", "w", "a"}
  BY StreamAssumption
<1>6. s'.file = file
  BY <1>4 DEF Opened
<1>7. may' = [Calm EXCEPT !.fresh = TRUE]
  BY DEF Reopen
<1>8. PICK p : p = put'
  OBVIOUS
<1>9. p = IF m.op = "r" THEN Lost
          ELSE [at |-> IF m.op = "w" THEN 0 ELSE Len(file), bytes |-> <<>>]
  BY <1>2, <1>6, <1>8
<1>10. Good(s', [Calm EXCEPT !.fresh = TRUE], p)
  BY <1>3, <1>4, <1>5, <1>9, OpenedIsGood
<1>11. QED
  BY <1>7, <1>8, <1>10 DEF Inv

LEMMA SetbufKeeps == ASSUME Inv, Setbuf PROVE Inv'
<1>1. Sound(s) /\ Untouched(s) /\ IsOpen(s) /\ Keeps(s, put) /\ put \in Marks
  BY DEF Inv, Good, Setbuf
<1>2. PICK c : s' = SetBuffer(s, c)
  BY DEF Setbuf
<1>3. /\ Sound(s') /\ Ftell(s') = Ftell(s) /\ Image(s') = Image(s)
      /\ \A b \in Flags \ {"MYBUF"} : Flag(s', b) <=> Flag(s, b)
  BY <1>1, <1>2, SetBufferFacts
<1>4. Keeps(s', put)
  BY <1>1, <1>3 DEF Keeps, Flags
<1>5. may' = Calm /\ put' = put
  BY DEF Setbuf
<1>6. Good(s', Calm, put)
  BY <1>1, <1>3, <1>4, CalmIsGood
<1>7. QED
  BY <1>5, <1>6 DEF Inv

LEMMA GetcKeeps == ASSUME Inv, Getc PROVE Inv'
<1>1. Sound(s)
  BY DEF Inv, Good
<1>2. PICK r : r = Fgetc(s)
  OBVIOUS
<1>3. Sound(r.s) /\ (r.c # EOF => r.c \in Data /\ ReadLast(r.s, r.c))
  BY <1>1, <1>2, FgetcFacts DEF Onward
<1>4. PICK b \in Data \cup {None} : /\ b = (IF r.c = EOF THEN None ELSE r.c)
                                    /\ b # None => ReadLast(r.s, b)
  BY <1>3
<1>5. s' = r.s /\ may' = [Calm EXCEPT !.dir = "read", !.back = b] /\ put' = Lost
  BY <1>2, <1>4 DEF Getc
<1>6. PICK m : m = [Calm EXCEPT !.dir = "read", !.back = b]
  OBVIOUS
<1>7. m \in Permits /\ m.fresh = FALSE /\ m.back = b
  BY <1>6 DEF Calm, Permits
<1>8. Good(r.s, m, Lost)
  BY <1>3, <1>4, <1>7, NothingKept DEF Good
<1>9. QED
  BY <1>5, <1>6, <1>8 DEF Inv

LEMMA UngetcKeeps == ASSUME Inv, Ungetc PROVE Inv'
<1>1. Sound(s) /\ ReadLast(s, may.back) /\ ~may.fresh /\ may \in Permits /\ put \in Marks /\ Keeps(s, put)
  BY DEF Inv, Good, Ungetc
<1>2. Flag(s, "READ")
  BY <1>1 DEF ReadLast
<1>3. PICK u : u = IF CanUnget(s) THEN Ungot(s, may.back) ELSE s
  OBVIOUS
<1>4. Sound(u) /\ Keeps(u, put)
  <2>1. CASE CanUnget(s)
    <3>1. Onward(s, u)
      BY <1>1, <1>3, <2>1, UngotFacts
    <3>2. Sound(u) /\ u.file = s.file /\ Flag(u, "READ") /\ (Flag(u, "ERR") <=> Flag(s, "ERR"))
      BY <1>2, <3>1 DEF Onward, Flags
    <3>3. Image(u) = Image(s) /\ ~Flag(u, "WRT")
      <4>1. Image(s) = s.file
        BY <1>1, <1>2, ReadingFacts
      <4>2. Image(u) = u.file /\ ~Flag(u, "WRT")
        BY <3>2, ReadingFacts
      <4>3. QED
        BY <3>2, <4>1, <4>2
    <3>4. QED
      BY <1>1, <3>2, <3>3 DEF Keeps
  <2>2. CASE ~CanUnget(s)
    BY <1>1, <1>3, <2>2
  <2>3. QED
    BY <2>1, <2>2
<1>5. PICK m : m = [may EXCEPT !.back = None]
  OBVIOUS
<1>6. m \in Permits /\ m.fresh = may.fresh /\ m.back = None
  BY <1>1, <1>5 DEF Permits
<1>7. s' = u /\ may' = m /\ put' = put
  BY <1>3, <1>5 DEF Ungetc
<1>8. Good(u, m, put)
  BY <1>1, <1>4, <1>6 DEF Good
<1>9. QED
  BY <1>7, <1>8 DEF Inv


LEMMA PutcKeeps == ASSUME Inv, Putc PROVE Inv'
<1>1. Sound(s) /\ Keeps(s, put) /\ put \in Marks /\ Flag(s, "WRT")
  BY DEF Inv, Good, Putc
<1>2. PICK c \in Chars :
        /\ \E k \in IF c = "LF" /\ ~Flag(s, "BINARY") THEN Spilled(TurnedToOutput(s)) ELSE {0} :
             LET u == IF c = "LF" /\ ~Flag(s, "BINARY") THEN PutByte(TurnedToOutput(s), "CR", k)
                      ELSE TurnedToOutput(s)
             IN  \E l \in Spilled(u) : s' = PutByte(u, c, l)
        /\ put' = IF put.at < 0 \/ Flag(s', "ERR") THEN Lost
                  ELSE [put EXCEPT !.bytes = @ \o IF c = "LF" /\ ~Flag(s, "BINARY") THEN <<"CR", c>> ELSE <<c>>]
  BY DEF Putc
<1>3. c \in Data
  BY DEF Data
<1>4. Puts(s, s', Line(s, c)) /\ Line(s, c) \in Seq(Data)
  <2>1. PICK k \in IF c = "LF" /\ ~Flag(s, "BINARY") THEN Spilled(TurnedToOutput(s)) ELSE {0} :
          LET u == IF c = "LF" /\ ~Flag(s, "BINARY") THEN PutByte(TurnedToOutput(s), "CR", k)
                   ELSE TurnedToOutput(s)
          IN  \E l \in Spilled(u) : s' = PutByte(u, c, l)
    BY <1>2
  <2>2. PICK u : u = IF c = "LF" /\ ~Flag(s, "BINARY") THEN PutByte(TurnedToOutput(s), "CR", k)
                     ELSE TurnedToOutput(s)
    OBVIOUS
  <2>3. PICK l \in Spilled(u) : s' = PutByte(u, c, l)
    BY <2>1, <2>2
  <2>4. Puts(s, PutByte(u, c, l), Line(s, c)) /\ Line(s, c) \in Seq(Data)
    BY <1>1, <1>3, <2>2, PutcFacts
  <2>5. QED
    BY <2>3, <2>4
<1>5. put' = IF put.at < 0 \/ Flag(s', "ERR") THEN Lost ELSE [put EXCEPT !.bytes = @ \o Line(s, c)]
  BY <1>2 DEF Line
<1>6. Sound(s')
  BY <1>4 DEF Puts
<1>7. PICK q : q = put'
  OBVIOUS
<1>8. q \in Marks /\ Keeps(s', q)
  <2>1. CASE put.at < 0 \/ Flag(s', "ERR")
    BY <1>5, <1>7, <2>1, NothingKept
  <2>2. CASE ~(put.at < 0 \/ Flag(s', "ERR"))
    <3>1. put.at \in Int
      BY <1>1 DEF Marks
    <3>2. put.at >= 0
      BY <2>2, <3>1
    <3>3. QED
      BY <1>1, <1>4, <1>5, <1>7, <2>2, <3>2, KeepsPuts
  <2>3. QED
    BY <2>1, <2>2
<1>9. Good(s', [Calm EXCEPT !.dir = "write"], q)
  BY <1>6, <1>8, CalmIsGood
<1>10. may' = [Calm EXCEPT !.dir = "write"]
  BY DEF Putc
<1>11. QED
  BY <1>7, <1>9, <1>10 DEF Inv

LEMMA FlushCallKeeps == ASSUME Inv, FlushCall PROVE Inv'
<1>1. Sound(s) /\ Keeps(s, put) /\ put \in Marks
  BY DEF Inv, Good
<1>2. PICK k \in Flushed(s) : s' = Fflush(s, k)
  BY DEF FlushCall
<1>3. Sound(s') /\ Alike(s, s')
  BY <1>1, <1>2, FflushFacts
<1>4. Keeps(s', put)
  BY <1>1, <1>3, KeepsAlike
<1>5. Good(s', Calm, put)
  BY <1>1, <1>3, <1>4, CalmIsGood
<1>6. may' = Calm /\ put' = put
  BY DEF FlushCall
<1>7. QED
  BY <1>5, <1>6 DEF Inv

LEMMA SeekCallKeeps == ASSUME Inv, SeekCall PROVE Inv'
<1>1. Sound(s) /\ IsOpen(s)
  BY DEF Inv, Good, SeekCall
<1>2. PICK wh \in 0..2, offs \in (-MaxLen)..MaxLen, k \in Flushed(s) :
         /\ wh = 2 => Flag(s, "BINARY") \/ ~Flag(s, "WRT") \/ ~s.base
         /\ LET t == Fflush(Clear(s, {"EOF"}), k)
            IN  Target(t, offs, wh) \in 0..Len(t.file)
         /\ s' = Fseek(s, offs, wh, k)
         /\ put' = IF wh = 0 THEN [at |-> offs, bytes |-> <<>>] ELSE Lost
  BY DEF SeekCall
<1>3. PICK u, f : u = Clear(s, {"EOF"}) /\ f = Fflush(u, k)
  OBVIOUS
<1>4. PICK pos \in 0..Len(f.file) : pos = Target(f, offs, wh)
  BY <1>2, <1>3
<1>5. Sound(f) /\ Moved(f, s', pos)
  <2>1. Sound(f) /\ Moved(f, Fseek(s, offs, wh, k), pos)
    BY <1>1, <1>2, <1>3, <1>4, FseekFacts
  <2>2. QED
    BY <1>2, <2>1
<1>6. Sound(s') /\ ~Flushes(s') /\ Ftell(s') = pos /\ s'.file = f.file
  BY <1>5 DEF Moved
<1>7. PICK q : q = put'
  OBVIOUS
<1>8. q \in Marks /\ Keeps(s', q)
  <2>1. CASE wh # 0
    BY <1>2, <1>7, <2>1, NothingKept
  <2>2. CASE wh = 0
    <3>1. offs \in Int
      BY StreamAssumption
    <3>2. q = [at |-> offs, bytes |-> <<>>]
      BY <1>2, <1>7, <2>2
    <3>3. q \in Marks /\ q.at = offs /\ q.bytes = <<>>
      BY <3>1, <3>2, NewMark
    <3>4. pos = offs
      <4>1. Target(f, offs, wh) = offs + 0
        BY <2>2 DEF Target
      <4>2. QED
        BY <1>4, <3>1, <4>1
    <3>5. Image(s') = f.file
      BY <1>6 DEF Image
    <3>6. Len(<<>>) = 0
      OBVIOUS
    <3>7. Len(f.file) \in Nat
      BY <1>5, Fields
    <3>8. offs + Len(<<>>) <= Len(f.file) /\ offs + Len(<<>>) = pos
      BY <3>1, <3>4, <3>6, <3>7
    <3>9. Holds(f.file, offs, <<>>)
      BY <3>6, <3>8 DEF Holds
    <3>10. QED
      BY <1>6, <3>3, <3>5, <3>8, <3>9 DEF Keeps
  <2>3. QED
    BY <2>1, <2>2
<1>9. Good(s', Calm, q)
  BY <1>6, <1>8, CalmIsGood
<1>10. may' = Calm
  BY DEF SeekCall
<1>11. QED
  BY <1>7, <1>9, <1>10 DEF Inv

LEMMA ClosedIsGood ==
    ASSUME NEW t, Sound(t), NEW p \in Marks, Keeps(t, p), NEW k \in Flushed(t)
    PROVE  Good(Fclose(t, k), Calm, p)
<1>1. PICK f, v : f = Fflush(t, k) /\ v = Fclose(t, k)
  OBVIOUS
<1>2. CASE ~IsOpen(t)
  <2>1. v = t
    BY <1>1, <1>2 DEF Fclose
  <2>2. QED
    BY <1>1, <2>1, CalmIsGood
<1>3. CASE IsOpen(t)
  <2>1. /\ Sound(f) /\ Alike(t, f) /\ Image(f) = f.file
        /\ Sound(v) /\ ~IsOpen(v) /\ v.file = Recorded(f.file) /\ Image(v) = v.file
        /\ v.flag = f.flag \ {"READ", "WRT", "NBF"}
    BY <1>1, <1>3, FcloseFacts
  <2>2. Keeps(f, p)
    BY <2>1, KeepsAlike
  <2>3. ~Flag(v, "WRT") /\ (Flag(v, "ERR") <=> Flag(f, "ERR"))
    BY <2>1 DEF Flag
  <2>4. ASSUME p.at >= 0, ~Flag(v, "ERR")
        PROVE  Holds(v.file, p.at, p.bytes)
    <3>1. Holds(f.file, p.at, p.bytes)
      BY <2>1, <2>2, <2>3, <2>4 DEF Keeps
    <3>2. f.file \in Seq(Data)
      BY <2>1, Fields
    <3>3. PICK g \in Seq(Data), b \in Seq(Data) : g = f.file /\ b = p.bytes
      BY <3>2 DEF Marks
    <3> PICK h : h = v.file
      OBVIOUS
    <3>4. PICK a \in Nat : a = p.at
      BY <2>4 DEF Marks
    <3>5. h \in Seq(Data) /\ Len(g) <= Len(h) /\ \A i \in 1..Len(g) : h[i] = g[i]
      BY <2>1, <3>3, RecordedGrows
    <3>6. a + Len(b) <= Len(g) /\ \A i \in 1..Len(b) : g[a + i] = b[i]
      BY <3>1, <3>3, <3>4 DEF Holds
    <3>7. Len(b) \in Nat /\ Len(g) \in Nat /\ Len(h) \in Nat
      BY <3>5
    <3>8. a + Len(b) <= Len(h) /\ \A i \in 1..Len(b) : a + i \in 1..Len(g)
      BY <3>5, <3>6, <3>7
    <3>9. Holds(h, a, b)
      BY <3>5, <3>6, <3>8 DEF Holds
    <3>10. QED
      BY <3>3, <3>4, <3>9
  <2>5. Keeps(v, p)
    BY <2>1, <2>3, <2>4 DEF Keeps
  <2>6. QED
    BY <1>1, <2>1, <2>5, CalmIsGood
<1>4. QED
  BY <1>2, <1>3

LEMMA CloseKeeps == ASSUME Inv, CloseCall \/ Exit PROVE Inv'
<1>1. Sound(s) /\ Keeps(s, put) /\ put \in Marks
  BY DEF Inv, Good
<1>2. PICK k \in Flushed(s) : s' = Fclose(s, k)
  BY DEF CloseCall, Exit
<1>3. Good(s', Calm, put)
  BY <1>1, <1>2, ClosedIsGood
<1>4. may' = Calm /\ put' = put
  BY DEF CloseCall, Exit
<1>5. QED
  BY <1>3, <1>4 DEF Inv

LEMMA NothingWritten ==
    ASSUME NEW t, Sound(t), NEW k, k = 0
    PROVE  Write(t, Unwritten(t), k) = t
<1>1. t \in Streams /\ t.rwp <= Len(t.file)
  BY Fields
<1>2. PICK d \in Seq(Data) : d = Unwritten(t)
  BY <1>1, UnwrittenFacts
<1>3. k \in 0..Len(d)
  BY <1>2
<1>4. QED
  BY <1>1, <1>2, <1>3, WriteFacts

\* A ^C that finds nothing written yet leaves the stream to be closed as ever.
LEMMA InterruptKeeps == ASSUME OneDirection, Inv, Interrupt PROVE Inv'
<1>1. Sound(s) /\ Keeps(s, put) /\ put \in Marks
  BY DEF Inv, Good
<1>2. PICK k : /\ k = 0
               /\ \/ \E l \in Flushed(Write(s, Unwritten(s), k)) : s' = Fclose(Write(s, Unwritten(s), k), l)
                  \/ s' = Write(s, Unwritten(s), k)
  BY DEF OneDirection, Interrupt
<1>3. Write(s, Unwritten(s), k) = s
  BY <1>1, <1>2, NothingWritten
<1>4. Good(s', Calm, put)
  <2>1. CASE s' = s
    BY <1>1, <2>1, CalmIsGood
  <2>2. CASE \E l \in Flushed(s) : s' = Fclose(s, l)
    BY <1>1, <2>2, ClosedIsGood
  <2>3. QED
    BY <1>2, <1>3, <2>1, <2>2
<1>5. may' = Calm /\ put' = put
  BY DEF Interrupt
<1>6. QED
  BY <1>4, <1>5 DEF Inv


-----------------------------------------------------------------------------
(***************************************************************************)
(* The theorems.                                                           *)
(***************************************************************************)
LEMMA InitGood == ASSUME Init PROVE Inv
<1>1. PICK file \in InitFiles : s = NoStream(file)
  BY DEF Init
<1>2. file \in Seq(Data)
  <2>1. file \in Seq({file[i] : i \in DOMAIN file})
    BY StreamAssumption
  <2>2. {file[i] : i \in DOMAIN file} \subseteq Data
    BY DEF Data
  <2>3. \A i \in 1..Len(file) : file[i] \in Data
    BY <2>1, <2>2
  <2>4. file \in [1..Len(file) -> Data] /\ Len(file) \in Nat
    BY <2>1, <2>3
  <2>5. QED
    BY <2>4
<1>3. s \in Streams /\ s.flag = {} /\ s.rwp = 0 /\ s.file = file
  <2>1. Fresh \in Buffer /\ 0 \in 0..BUFSIZ
    BY Sizes DEF Fresh, Buffer, Data
  <2>2. QED
    BY <1>1, <1>2, <2>1 DEF NoStream, Streams
<1>4. Sound(s)
  <2>1. s.rwp <= Len(s.file)
    BY <1>2, <1>3
  <2>2. QED
    BY <1>3, <2>1 DEF Sound, Flag
<1>5. Good(s, Calm, Lost)
  BY <1>4, NothingKept, CalmIsGood
<1>6. QED
  BY <1>5 DEF Init, Inv

LEMMA NextGood == ASSUME OneDirection, Inv, [Next]_vars PROVE Inv'
<1>1. CASE UNCHANGED vars
  BY <1>1 DEF Inv, vars
<1>2. CASE PutNothing \/ TellCall
  <2>1. UNCHANGED <<s, may, put>>
    BY <1>2 DEF PutNothing, TellCall
  <2>2. QED
    BY <2>1 DEF Inv
<1>3. CASE Reopen
  BY <1>3, ReopenKeeps
<1>4. CASE Setbuf
  BY <1>4, SetbufKeeps
<1>5. CASE Getc
  BY <1>5, GetcKeeps
<1>6. CASE Ungetc
  BY <1>6, UngetcKeeps
<1>7. CASE Putc
  BY <1>7, PutcKeeps
<1>8. CASE FlushCall
  BY <1>8, FlushCallKeeps
<1>9. CASE SeekCall
  BY <1>9, SeekCallKeeps
<1>10. CASE CloseCall \/ Exit
  BY <1>10, CloseKeeps
<1>11. CASE Interrupt
  BY <1>11, InterruptKeeps
<1>12. QED
  BY <1>1, <1>2, <1>3, <1>4, <1>5, <1>6, <1>7, <1>8, <1>9, <1>10, <1>11 DEF Next

\* In one direction the invariant holds throughout.
THEOREM AlwaysGood == ASSUME OneDirection PROVE Spec => []Inv
<1>1. Init => Inv
  BY InitGood
<1>2. Inv /\ [Next]_vars => Inv'
  BY NextGood
<1>3. QED
  BY <1>1, <1>2, PTL DEF Spec

LEMMA InvTypeOK == ASSUME Inv PROVE TypeOK
<1>1. Sound(s)
  BY DEF Inv, Good
<1>2. /\ s.ptr \in 0..BUFSIZ /\ s.cnt \in 0..BUFSIZ /\ s.base \in BOOLEAN
      /\ s.flag \subseteq Flags /\ s.buf \in Buffer /\ s.rwp \in Nat /\ s.wild = FALSE
  BY <1>1, Fields
<1>3. Len(s.buf) = BUFSIZ
  BY <1>2, BufferIsSeq
<1>4. s.wild \in BOOLEAN
  BY <1>2, Zenon
<1>5. QED
  BY <1>2, <1>3, <1>4, Zenon DEF TypeOK

LEMMA InvBufferAgrees == ASSUME Inv PROVE BufferAgrees
<1> SUFFICES ASSUME IsOpen(s), s.base
             PROVE  IF Flag(s, "WRT") THEN s.ptr + s.cnt = BUFSIZ
                    ELSE /\ s.cnt <= s.rwp
                         /\ \A i \in 1..s.cnt : s.buf[s.ptr + i] = s.file[s.rwp - s.cnt + i]
  BY DEF BufferAgrees
<1>1. Sound(s)
  BY DEF Inv, Good
<1>2. ASSUME Flag(s, "WRT")
      PROVE  s.ptr + s.cnt = BUFSIZ
  BY <1>1, <1>2 DEF Sound, Writing
<1>3. ASSUME ~Flag(s, "WRT")
      PROVE  /\ s.cnt <= s.rwp
             /\ \A i \in 1..s.cnt : s.buf[s.ptr + i] = s.file[s.rwp - s.cnt + i]
  <2>1. Flag(s, "READ")
    BY <1>3 DEF IsOpen, Flag
  <2>2. QED
    BY <1>1, <2>1, ReadingFacts
<1>4. QED
  BY <1>2, <1>3

LEMMA InvWroteWhatWasPut == ASSUME Inv PROVE WroteWhatWasPut
<1> SUFFICES ASSUME put.at >= 0, ~Flushes(s), ~Flag(s, "ERR")
             PROVE  Holds(s.file, put.at, put.bytes)
  BY DEF WroteWhatWasPut, Holds
<1>1. Keeps(s, put)
  BY DEF Inv, Good
<1>2. Image(s) = s.file
  BY DEF Image
<1>3. QED
  BY <1>1, <1>2 DEF Keeps

LEMMA InvReturnsToCaller == ASSUME Inv PROVE ReturnsToCaller
  BY Fields DEF Inv, Good, ReturnsToCaller

\* The count, the pointer and the flags of a stream stay what they are for.
THEOREM Typing == ASSUME OneDirection PROVE Spec => []TypeOK
  BY AlwaysGood, InvTypeOK, PTL

\* fgetc(), ungetc() and fseek() leave in the buffer what the file holds before
\* the descriptor's position; fputc() and fflush() keep its room and what waits
\* in it together: whatever the sizes, the files and the order of the calls.
THEOREM BufferTrue == ASSUME OneDirection PROVE Spec => []BufferAgrees
  BY AlwaysGood, InvBufferAgrees, PTL

\* What fputc() took is in the file, once and in order, when the buffer has been
\* flushed and no error is reported, also after setbuf(), fclose() and a ^C.
THEOREM NothingLost == ASSUME OneDirection PROVE Spec => []WroteWhatWasPut
  BY AlwaysGood, InvWroteWhatWasPut, PTL

\* Every call returns to its caller and stores in its own buffer only.
THEOREM ControlKept == ASSUME OneDirection PROVE Spec => []ReturnsToCaller
  BY AlwaysGood, InvReturnsToCaller, PTL
=============================================================================
