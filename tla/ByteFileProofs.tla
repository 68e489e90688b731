--------------------------- MODULE ByteFileProofs ---------------------------
(***************************************************************************)
(* Stream implements ByteFile: every call, of any program that uses a      *)
(* stream in one direction and over files of whole records, does to the    *)
(* file and the position what the abstract file of bytes promises.         *)
(***************************************************************************)
EXTENDS StreamProofs

-----------------------------------------------------------------------------
(***************************************************************************)
(* The files: what is closed or read is whole records, and a text that is  *)
(* read has its ^Z in the last of them.                                    *)
(***************************************************************************)
Whole(file) == Len(file) % SECSIZE = 0

Files(t) ==
    /\ ~Flag(t, "WRT") => Whole(t.file)
    /\ Flag(t, "READ") /\ ~Flag(t, "BINARY") => IsText(t.file)

\* What the abstract file shows of a stream.
Where(t) == IF IsOpen(t) THEN Ftell(t) ELSE 0
Way(t)   == IF ~IsOpen(t) THEN "closed" ELSE IF Flag(t, "READ") THEN "read" ELSE "write"

LEMMA Ways ==
    ASSUME NEW t, Sound(t)
    PROVE  /\ Flag(t, "READ") => Way(t) = "read" /\ Where(t) = Ftell(t) /\ IsOpen(t) /\ ~Flag(t, "WRT")
           /\ Flag(t, "WRT") => Way(t) = "write" /\ Where(t) = Ftell(t) /\ IsOpen(t) /\ ~Flag(t, "READ")
           /\ ~IsOpen(t) => Way(t) = "closed" /\ Where(t) = 0 /\ ~Flag(t, "READ") /\ ~Flag(t, "WRT")
<1>1. ~(Flag(t, "READ") /\ Flag(t, "WRT"))
  BY ReadingFacts
<1>2. IsOpen(t) <=> Flag(t, "READ") \/ Flag(t, "WRT")
  BY DEF IsOpen, Flag
<1>3. QED
  BY <1>1, <1>2 DEF Way, Where

LEMMA SameFlag ==
    ASSUME NEW t, NEW u, NEW b, Flag(u, b) <=> Flag(t, b)
    PROVE  Flag(u, b) = Flag(t, b)
  BY DEF Flag

\* Two streams that show the same.
SameView(t, u) ==
    /\ Image(u) = Image(t) /\ Where(u) = Where(t) /\ Way(u) = Way(t)
    /\ Flag(u, "BINARY") = Flag(t, "BINARY")

LEMMA Views ==
    ASSUME NEW t, Sound(t), NEW u, Sound(u), Image(u) = Image(t), Ftell(u) = Ftell(t),
           \A b \in {"READ", "WRT", "BINARY"} : Flag(u, b) <=> Flag(t, b)
    PROVE  SameView(t, u)
<1>1. IsOpen(t) <=> Flag(t, "READ") \/ Flag(t, "WRT")
  BY DEF IsOpen, Flag
<1>2. IsOpen(u) <=> Flag(u, "READ") \/ Flag(u, "WRT")
  BY DEF IsOpen, Flag
<1>3. Where(u) = Where(t) /\ Way(u) = Way(t)
  BY <1>1, <1>2 DEF Where, Way
<1>4. Flag(u, "BINARY") = Flag(t, "BINARY")
  BY SameFlag
<1>5. QED
  BY <1>3, <1>4 DEF SameView

\* A stream that keeps its file, or that is written, keeps Files.
LEMMA FilesStay ==
    ASSUME NEW t, Sound(t), Files(t), NEW u, Sound(u),
           \A b \in {"READ", "WRT", "BINARY"} : Flag(u, b) <=> Flag(t, b),
           u.file = t.file \/ Flag(t, "WRT")
    PROVE  Files(u)
<1>1. CASE Flag(t, "WRT")
  <2>1. Flag(u, "WRT") /\ ~Flag(u, "READ")
    BY <1>1, Ways
  <2>2. QED
    BY <2>1 DEF Files
<1>2. CASE ~Flag(t, "WRT")
  BY <1>2 DEF Files
<1>3. QED
  BY <1>1, <1>2

LEMMA RecordedWhole ==
    ASSUME WholeFiles, NEW f \in Seq(Data)
    PROVE  /\ Whole(Recorded(f)) /\ (Whole(f) => Recorded(f) = f)
           /\ \E p \in Bytes!Padding : Recorded(f) = f \o p
<1>1. ~Exact
  BY DEF WholeFiles
<1>2. PICK n \in 0..(SECSIZE - 1) : /\ Recorded(f) = f \o Pad(n)
                                    /\ (Len(f) + n) % SECSIZE = 0
                                    /\ Len(f) % SECSIZE = 0 => n = 0
  BY <1>1, RecordedFacts
<1>3. n \in Nat
  BY Sizes
<1>4. Len(f \o Pad(n)) = Len(f) + n /\ (n = 0 => f \o Pad(n) = f)
  BY <1>3, PadFacts
<1>5. Pad(n) \in Bytes!Padding
  BY DEF Pad, Bytes!Padding
<1>6. QED
  BY <1>2, <1>4, <1>5 DEF Whole

-----------------------------------------------------------------------------
(***************************************************************************)
(* The steps of the abstract file.                                         *)
(***************************************************************************)
LEMMA Failing ==
    ASSUME Flag(s', "ERR"), ~(call'.op = "fclose" /\ call'.ret = "OK")
    PROVE  Bytes!Next
  BY DEF Bytes!Next, Bytes!Fail

LEMMA Succeeding ==
    ASSUME ~Flag(s', "ERR"),
           \/ Bytes!Open \/ Bytes!Get \/ Bytes!GetNothing \/ Bytes!Unget \/ Bytes!Put
           \/ Bytes!PutNothing \/ Bytes!Quiet \/ Bytes!Seek \/ Bytes!Close
    PROVE  Bytes!Next
  BY DEF Bytes!Next

LEMMA IsQuiet ==
    ASSUME SameView(s, s'), Flag(s', "EOF") <=> Flag(s, "EOF"),
           \/ call'.op = "setbuf"
           \/ call'.op = "longjmp" /\ s'.base = s.base
           \/ call'.op = "fflush" /\ call'.ret = "OK" /\ s'.base = s.base
           \/ call'.op = "ftell" /\ call'.ret = Where(s) /\ s'.base = s.base
    PROVE  Bytes!Quiet
<1>1. Flag(s', "EOF") = Flag(s, "EOF")
  BY SameFlag
<1>2. QED
  BY <1>1 DEF Bytes!Quiet, SameView, Where, Way

LEMMA IsClose ==
    ASSUME call'.op \in {"fclose", "exit"}, Way(s') = "closed",
           \E p \in Bytes!Padding : Image(s') = Image(s) \o p,
           call'.op = "fclose" => call'.ret = IF Way(s) = "closed" THEN EOF ELSE "OK"
    PROVE  Bytes!Close
  BY DEF Bytes!Close, Bytes!EOF, EOF, Way

LEMMA IsPutNothing ==
    ASSUME call'.op = "fputc", call'.ret = EOF, Way(s) # "write", s' = s
    PROVE  Bytes!PutNothing
  BY DEF Bytes!PutNothing, Bytes!EOF, EOF, Way

LEMMA IsOpening ==
    ASSUME call'.op \in {"fopen", "freopen"}, Flag(s', "EOF") = FALSE, s'.base,
           \/ /\ call'.mode = "r" /\ Way(s') = "read" /\ Where(s') = 0
              /\ \E p \in Bytes!Padding : Image(s') = Image(s) \o p
           \/ /\ call'.mode = "w" /\ Way(s') = "write" /\ Where(s') = 0 /\ Image(s') = <<>>
           \/ /\ call'.mode = "a" /\ Way(s') = "write" /\ Where(s') = Len(Image(s'))
              /\ \E p \in Bytes!Padding : Image(s') = Image(s) \o p
    PROVE  Bytes!Open
  BY DEF Bytes!Open, Way, Where

LEMMA IsGetNothing ==
    ASSUME call'.op = "fgetc", call'.ret = EOF, SameView(s, s'), s'.base = s.base,
           Flag(s', "EOF"), Flag(s, "EOF") \/ Way(s) # "read"
    PROVE  Bytes!GetNothing
  BY DEF Bytes!GetNothing, Bytes!EOF, EOF, SameView, Way, Where

LEMMA IsUnget ==
    ASSUME call'.op = "ungetc", Image(s') = Image(s), Way(s') = Way(s),
           Flag(s', "BINARY") = Flag(s, "BINARY"), Flag(s', "EOF") = Flag(s, "EOF"), s'.base = s.base,
           \/ call'.ret = call'.char /\ Where(s') = Where(s) - 1 /\ Image(s)[Where(s)] = call'.char
           \/ ~s.base /\ call'.ret = EOF /\ Where(s') = Where(s)
    PROVE  Bytes!Unget
  BY DEF Bytes!Unget, Bytes!EOF, EOF, Way, Where


\* next is the place of the next character, of the ^Z, or the end.
LEMMA IsGet ==
    ASSUME Sound(s), call'.op = "fgetc", Way(s) = "read", ~Flag(s, "EOF"),
           Image(s') = Image(s), Way(s') = Way(s), Flag(s', "BINARY") = Flag(s, "BINARY"),
           s'.base = s.base,
           NEW next \in (Where(s) + 1)..(Len(Image(s)) + 1),
           Flag(s, "BINARY") => next = Where(s) + 1,
           ~Flag(s, "BINARY") => \A j \in (Where(s) + 1)..(next - 1) : Image(s)[j] = "CR",
           next <= Len(Image(s)) /\ ~Flag(s, "BINARY") => Image(s)[next] # "CR",
           IF next > Len(Image(s)) \/ (~Flag(s, "BINARY") /\ Image(s)[next] = "ETX")
           THEN /\ call'.ret = EOF /\ Flag(s', "EOF")
                /\ Where(s') = IF s.base \/ next > Len(Image(s)) THEN next - 1 ELSE next
           ELSE call'.ret = Image(s)[next] /\ Where(s') = next /\ ~Flag(s', "EOF")
    PROVE  Bytes!Get
<1>1. Where(s) \in Nat /\ Len(Image(s)) \in Nat
  <2>1. Flag(s, "READ")
    BY DEF Way
  <2>2. Where(s) = Ftell(s) /\ Ftell(s) \in 0..Len(Image(s)) /\ Image(s) \in Seq(Data)
    BY <2>1, Ways, ImageFacts
  <2>3. QED
    BY <2>2
<1>2. next > Where(s) + 1 => Bytes!Skipped(next - 1)
  <2>1. next > Where(s) + 1 => ~Flag(s, "BINARY") /\ \A j \in (Where(s) + 1)..(next - 1) : Image(s)[j] = "CR"
    BY <1>1
  <2>2. QED
    BY <2>1 DEF Bytes!Skipped, Where
<1>3. next <= Len(Image(s)) => ~Bytes!Skipped(next)
  <2>1. next \in (Where(s) + 1)..next
    BY <1>1
  <2>2. next <= Len(Image(s)) => ~(~Flag(s, "BINARY") /\ \A j \in (Where(s) + 1)..next : Image(s)[j] = "CR")
    BY <2>1
  <2>3. QED
    BY <2>2 DEF Bytes!Skipped, Where
<1>4. IF next > Len(Image(s)) \/ (~Flag(s, "BINARY") /\ Image(s)[next] = "ETX")
      THEN /\ call'.ret = Bytes!EOF /\ Flag(s', "EOF")
           /\ Where(s') = IF s.base \/ next > Len(Image(s)) THEN next - 1 ELSE next
      ELSE call'.ret = Image(s)[next] /\ Where(s') = next /\ ~Flag(s', "EOF")
  BY DEF Bytes!EOF, EOF
<1> HIDE DEF Bytes!Skipped
<1>5. /\ call'.op = "fgetc" /\ (IF ~IsOpen(s) THEN "closed" ELSE IF Flag(s, "READ") THEN "read" ELSE "write") = "read"
      /\ ~Flag(s, "EOF")
  BY DEF Way
<1>6. QED
  BY <1>2, <1>3, <1>4, <1>5 DEF Bytes!Get, Where, Way

-----------------------------------------------------------------------------
(***************************************************************************)
(* Laying bytes over a file is replacing a part of it.                     *)
(***************************************************************************)
\* g is a, n bytes long, with b behind it.
Joins(g, a, n, b) ==
    /\ g \in Seq(Data) /\ Len(g) = n + Len(b)
    /\ \A i \in 1..(n + Len(b)) : g[i] = IF i <= n THEN a[i] ELSE b[i - n]

LEMMA Joined ==
    ASSUME NEW a \in Seq(Data), NEW b \in Seq(Data), NEW n \in Nat, n = Len(a), NEW g, g = a \o b
    PROVE  Joins(g, a, n, b)
  BY ConcatProperties DEF Joins

LEMMA Spliced ==
    ASSUME NEW f \in Seq(Data), NEW p \in 0..Len(f), NEW d \in Seq(Data)
    PROVE  Overlay(f, p, d) = SubSeq(f, 1, p) \o d \o SubSeq(f, p + Len(d) + 1, Len(f))
<1>1. PICK n \in Nat, l \in Nat : n = Len(f) /\ l = Len(d)
  OBVIOUS
<1>2. p \in Nat /\ p <= n
  BY <1>1
<1>3. PICK a \in Seq(Data) : a = SubSeq(f, 1, p) /\ Len(a) = p /\ \A i \in 1..p : a[i] = f[i]
  BY FirstBytes
<1>4. PICK e \in Seq(Data) : /\ e = SubSeq(f, p + l + 1, n)
                             /\ Len(e) = IF p + l + 1 <= n THEN n - (p + l) ELSE 0
                             /\ \A i \in 1..Len(e) : e[i] = f[p + l + i]
  <2>1. CASE p + l + 1 <= n
    <3>1. p + l + 1 \in 1..(n + 1)
      BY <1>1, <1>2, <2>1
    <3>2. /\ SubSeq(f, p + l + 1, n) \in Seq(Data)
          /\ Len(SubSeq(f, p + l + 1, n)) = n - (p + l)
          /\ \A i \in 1..(n - (p + l)) : SubSeq(f, p + l + 1, n)[i] = f[p + l + i]
      <4>1. PICK m \in 1..(n + 1) : m = p + l + 1
        BY <3>1
      <4>2. PICK e : e = SubSeq(f, m, n)
        OBVIOUS
      <4>3. /\ e \in Seq(Data) /\ Len(e) = IF m <= n THEN n - m + 1 ELSE 0
            /\ \A i \in 1..(n - m + 1) : e[i] = f[m + i - 1]
        BY <1>1, <4>1, <4>2, SubSeqProperties
      <4>4. n - m + 1 = n - (p + l) /\ m <= n /\ \A i \in 1..(n - m + 1) : m + i - 1 = p + l + i
        BY <1>1, <1>2, <2>1, <4>1
      <4>5. QED
        BY <4>1, <4>2, <4>3, <4>4
    <3>3. QED
      BY <1>2, <2>1, <3>2
  <2>2. CASE ~(p + l + 1 <= n)
    <3>1. SubSeq(f, p + l + 1, n) = <<>>
      BY <1>1, <1>2, <2>2
    <3>2. <<>> \in Seq(Data) /\ Len(<<>>) = 0
      OBVIOUS
    <3>3. PICK e \in Seq(Data) : e = <<>>
      BY <3>2
    <3>4. /\ e = SubSeq(f, p + l + 1, n)
          /\ Len(e) = IF p + l + 1 <= n THEN n - (p + l) ELSE 0
      BY <2>2, <3>1, <3>2, <3>3
    <3>5. \A i \in 1..Len(e) : e[i] = f[p + l + i]
      BY <3>2, <3>3
    <3>6. QED
      BY <3>4, <3>5
  <2>3. QED
    BY <2>1, <2>2
<1>5. PICK b : b = a \o d
  OBVIOUS
<1>6. /\ b \in Seq(Data) /\ Len(b) = p + l
      /\ \A i \in 1..(p + l) : b[i] = IF i <= p THEN a[i] ELSE d[i - p]
  <2>1. Joins(b, a, p, d)
    BY <1>2, <1>3, <1>5, Joined
  <2>2. QED
    BY <1>1, <2>1 DEF Joins
<1>7. PICK g : g = b \o e
  OBVIOUS
<1>8. /\ g \in Seq(Data) /\ Len(g) = p + l + Len(e)
      /\ \A i \in 1..(p + l + Len(e)) : g[i] = IF i <= p + l THEN b[i] ELSE e[i - (p + l)]
  <2>1. PICK m \in Nat : m = p + l
    BY <1>1, <1>2
  <2>2. Joins(g, b, m, e)
    BY <1>6, <1>7, <2>1, Joined
  <2>3. QED
    BY <2>1, <2>2 DEF Joins
<1>9. PICK o : o = Overlay(f, p, d)
  OBVIOUS
<1>10. /\ o \in Seq(Data) /\ Len(o) = IF p + l < n THEN n ELSE p + l
       /\ \A i \in 1..Len(o) : o[i] = IF i > p /\ i <= p + l THEN d[i - p] ELSE f[i]
  BY <1>1, <1>9, OverlayFacts
<1>11. Len(o) = Len(g)
  BY <1>2, <1>4, <1>8, <1>10
<1>12. ASSUME NEW i \in 1..Len(o)
       PROVE  o[i] = g[i]
  <2>1. CASE i <= p
    <3>1. i \in 1..p /\ i <= p + l /\ i \in 1..(p + l) /\ i \in 1..(p + l + Len(e))
      BY <1>2, <1>4, <2>1
    <3>2. g[i] = f[i]
      BY <1>3, <1>6, <1>8, <3>1
    <3>3. o[i] = f[i]
      BY <1>10, <2>1, <3>1
    <3>4. QED
      BY <3>2, <3>3
  <2>2. CASE i > p /\ i <= p + l
    <3>1. i \in 1..(p + l) /\ i \in 1..(p + l + Len(e)) /\ ~(i <= p)
      BY <1>2, <1>4, <2>2
    <3>2. g[i] = d[i - p]
      BY <1>6, <1>8, <2>2, <3>1
    <3>3. o[i] = d[i - p]
      BY <1>10, <2>2
    <3>4. QED
      BY <3>2, <3>3
  <2>3. CASE i > p + l
    <3>1. i \in 1..(p + l + Len(e)) /\ ~(i <= p + l) /\ i - (p + l) \in 1..Len(e) /\ p + l + (i - (p + l)) = i
      BY <1>2, <1>4, <1>8, <1>11, <2>3
    <3>2. g[i] = f[i]
      BY <1>4, <1>8, <3>1
    <3>3. o[i] = f[i]
      BY <1>10, <2>3, <1>2
    <3>4. QED
      BY <3>2, <3>3
  <2>4. QED
    BY <1>2, <2>1, <2>2, <2>3
<1>13. o = g
  BY <1>8, <1>10, <1>11, <1>12, SameSeq
<1>14. QED
  BY <1>1, <1>3, <1>4, <1>5, <1>7, <1>9, <1>13

LEMMA IsPut ==
    ASSUME Sound(s), call'.op = "fputc", Way(s) = "write", Way(s') = Way(s),
           Flag(s', "BINARY") = Flag(s, "BINARY"), Flag(s', "EOF") = Flag(s, "EOF"), s'.base = s.base,
           NEW c \in Data, call'.char = c, call'.ret = c,
           Image(s') = Overlay(Image(s), Where(s), Line(s, c)),
           Where(s') = Where(s) + Len(Line(s, c))
    PROVE  Bytes!Put
<1>1. Flag(s, "WRT")
  BY DEF Way, IsOpen, Flag
<1>2. Image(s) \in Seq(Data) /\ Where(s) \in 0..Len(Image(s))
  BY <1>1, ImageFacts, Ways
<1>3. PICK f \in Seq(Data), p \in 0..Len(Image(s)) : f = Image(s) /\ p = Where(s)
  BY <1>2
<1>4. PICK d : d = Line(s, c)
  OBVIOUS
<1>5. d = (IF ~Flag(s, "BINARY") /\ c = "LF" THEN <<"CR", "LF">> ELSE <<c>>)
  BY <1>4 DEF Line
<1>6. d \in Seq(Data)
  <2>1. "CR" \in Data
    BY DEF Data
  <2>2. <<"CR", c>> \in Seq(Data) /\ <<c>> \in Seq(Data)
    BY <2>1
  <2>3. QED
    BY <1>5, <2>2
<1>7. Overlay(f, p, d) = SubSeq(f, 1, p) \o d \o SubSeq(f, p + Len(d) + 1, Len(f))
  BY <1>3, <1>6, Spliced
<1>8. /\ Image(s') = SubSeq(Image(s), 1, Where(s)) \o d \o SubSeq(Image(s), Where(s) + Len(d) + 1, Len(Image(s)))
      /\ Where(s') = Where(s) + Len(d)
  BY <1>3, <1>4, <1>7
<1>9. QED
  BY <1>5, <1>8 DEF Bytes!Put, Where, Way


EndsText(file, e) == /\ \A i \in 1..e : file[i] # "ETX"
                     /\ e = Len(file) \/ file[e + 1] = "ETX"

LEMMA IsSeek ==
    ASSUME call'.op = "fseek", call'.ret = "OK", Image(s') = Image(s), Way(s') = Way(s),
           Flag(s', "BINARY") = Flag(s, "BINARY"), s'.base = s.base, ~Flag(s', "EOF"),
           NEW from \in 0..Len(Image(s)), Where(s') = call'.offs + from,
           \/ call'.wh = 0 /\ from = 0
           \/ call'.wh = 1 /\ from = Where(s)
           \/ call'.wh = 2 /\ ~Flag(s, "BINARY") /\ s.base /\ EndsText(Image(s), from)
           \/ call'.wh = 2 /\ (Flag(s, "BINARY") \/ ~s.base) /\ from = Len(Image(s))
    PROVE  Bytes!Seek
<1>1. CASE call'.wh = 0 /\ from = 0
  BY <1>1 DEF Bytes!Seek, Where, Way
<1>2. CASE call'.wh = 1 /\ from = Where(s)
  BY <1>2 DEF Bytes!Seek, Where, Way
<1>3. CASE call'.wh = 2 /\ ~Flag(s, "BINARY") /\ s.base /\ EndsText(Image(s), from)
  <2>1. Bytes!TextEndsAt(from)
    BY <1>3 DEF Bytes!TextEndsAt, EndsText
  <2>2. QED
    BY <1>3, <2>1 DEF Bytes!Seek, Where, Way
<1>4. CASE call'.wh = 2 /\ (Flag(s, "BINARY") \/ ~s.base) /\ from = Len(Image(s))
  BY <1>4 DEF Bytes!Seek, Where, Way
<1>5. QED
  BY <1>1, <1>2, <1>3, <1>4

-----------------------------------------------------------------------------
(***************************************************************************)
(* Every call is a step of the abstract file.                              *)
(***************************************************************************)
LEMMA FileLeftWhole ==
    ASSUME WholeFiles, NEW t, Sound(t), Files(t)
    PROVE  FileLeft(t) = Recorded(t.file)
<1>1. CASE IsOpen(t)
  BY <1>1 DEF FileLeft
<1>2. CASE ~IsOpen(t)
  <2>1. Whole(t.file)
    BY <1>2, Ways DEF Files
  <2>2. t.file \in Seq(Data)
    BY Fields
  <2>3. QED
    BY <1>2, <2>1, <2>2, RecordedWhole DEF FileLeft
<1>3. QED
  BY <1>1, <1>2

LEMMA ReopenStep ==
    ASSUME OneDirection, WholeFiles, Inv, Files(s), Reopen
    PROVE  Files(s') /\ Bytes!Next
<1>1. Sound(s) /\ ~Flushes(s)
  BY DEF Inv, Good, Reopen
<1>2. PICK m \in Modes :
         /\ m.bin \/ IsText(Recorded(s.file))
         /\ s' = Freopen(s, m, 0)
         /\ call' = [op |-> IF IsOpen(s) THEN "freopen" ELSE "fopen", mode |-> m.op]
  BY DEF Reopen
<1>3. m.op \in {"r", "w", "a"}
  BY StreamAssumption
<1>4. PICK file : file = IF m.op = "w" THEN <<>> ELSE FileLeft(s)
  OBVIOUS
<1>5. Opened(s', m, file)
  BY <1>1, <1>2, <1>4, FreopenFacts
<1>6. /\ Sound(s') /\ s'.base /\ s'.file = file /\ Image(s') = file
      /\ Ftell(s') = IF m.op = "a" THEN Len(file) ELSE 0
      /\ Flag(s', "READ") <=> m.op = "r"
      /\ Flag(s', "WRT") <=> m.op # "r"
      /\ Flag(s', "BINARY") <=> m.bin
      /\ ~Flag(s', "EOF") /\ ~Flag(s', "ERR")
  BY <1>5 DEF Opened, Untouched
<1>7. s.file \in Seq(Data) /\ FileLeft(s) = Recorded(s.file) /\ Image(s) = s.file
  BY <1>1, Fields, FileLeftWhole DEF Image
<1>8. Whole(Recorded(s.file)) /\ \E p \in Bytes!Padding : Recorded(s.file) = s.file \o p
  BY <1>7, RecordedWhole
<1>9. Files(s')
  BY <1>2, <1>4, <1>6, <1>7, <1>8 DEF Files
<1>10. Where(s') = IF m.op = "a" THEN Len(file) ELSE 0
  <2>1. Where(s') = Ftell(s')
    BY <1>6, Ways
  <2>2. QED
    BY <1>6, <2>1
<1>11. Way(s') = IF m.op = "r" THEN "read" ELSE "write"
  BY <1>6, Ways
<1>12. call'.op \in {"fopen", "freopen"} /\ call'.mode = m.op
  BY <1>2
<1>13. Flag(s', "EOF") = FALSE
  BY <1>6 DEF Flag
<1>14. \/ /\ call'.mode = "r" /\ Way(s') = "read" /\ Where(s') = 0
          /\ \E p \in Bytes!Padding : Image(s') = Image(s) \o p
       \/ /\ call'.mode = "w" /\ Way(s') = "write" /\ Where(s') = 0 /\ Image(s') = <<>>
       \/ /\ call'.mode = "a" /\ Way(s') = "write" /\ Where(s') = Len(Image(s'))
          /\ \E p \in Bytes!Padding : Image(s') = Image(s) \o p
  <2>1. CASE m.op = "w"
    <3>1. Image(s') = <<>>
      BY <1>4, <1>6, <2>1
    <3>2. QED
      BY <1>10, <1>11, <1>12, <2>1, <3>1
  <2>2. CASE m.op # "w"
    <3>1. \E p \in Bytes!Padding : Image(s') = Image(s) \o p
      BY <1>4, <1>6, <1>7, <1>8, <2>2
    <3>2. Image(s') = file
      BY <1>6
    <3>3. QED
      BY <1>3, <1>10, <1>11, <1>12, <2>2, <3>1, <3>2
  <2>3. QED
    BY <2>1, <2>2
<1>15. Bytes!Open
  BY <1>6, <1>12, <1>13, <1>14, IsOpening
<1>16. QED
  BY <1>6, <1>9, <1>15, Succeeding

LEMMA SetbufStep ==
    ASSUME Inv, Files(s), Setbuf
    PROVE  Files(s') /\ Bytes!Next
<1>1. Sound(s) /\ Untouched(s) /\ IsOpen(s)
  BY DEF Inv, Good, Setbuf
<1>2. PICK c : s' = SetBuffer(s, c)
  BY DEF Setbuf
<1>3. /\ Sound(s') /\ Ftell(s') = Ftell(s) /\ Image(s') = Image(s) /\ s'.file = s.file
      /\ \A b \in Flags \ {"MYBUF"} : Flag(s', b) <=> Flag(s, b)
  BY <1>1, <1>2, SetBufferFacts
<1>4. \A b \in {"READ", "WRT", "BINARY", "EOF"} : Flag(s', b) <=> Flag(s, b)
  BY <1>3 DEF Flags
<1>5. Files(s')
  BY <1>1, <1>3, <1>4, FilesStay
<1>6. SameView(s, s')
  BY <1>1, <1>3, <1>4, Views
<1>7. call'.op = "setbuf"
  BY DEF Setbuf
<1>8. Bytes!Quiet
  BY <1>4, <1>6, <1>7, IsQuiet
<1>9. ~(call'.op = "fclose" /\ call'.ret = "OK")
  BY <1>7
<1>10. QED
  BY <1>5, <1>8, <1>9, Failing, Succeeding

\* What fgetc() returned is what the abstract file says.
LEMMA GetIsGet ==
    ASSUME Sound(s), Flag(s, "READ"), ~Flag(s, "EOF"), NEW r, r = Fgetc(s), s' = r.s,
           call' = [op |-> "fgetc", ret |-> r.c],
           Image(s') = Image(s), Way(s') = Way(s), Flag(s', "BINARY") = Flag(s, "BINARY"),
           s'.base = s.base, Where(s') = Ftell(r.s),
           Character(s, r) \/ TextEnds(s, r) \/ FileEnds(s, r)
    PROVE  Bytes!Get
<1>1. Image(s) = s.file /\ Where(s) = Ftell(s) /\ Way(s) = "read" /\ Ftell(s) \in 0..Len(s.file)
  BY ReadingFacts, Ways
<1>2. PICK p \in Nat, l \in Nat : p = Ftell(s) /\ l = Len(s.file) /\ p <= l
  <2>1. Len(s.file) \in Nat
    BY Fields
  <2>2. QED
    BY <1>1, <2>1
<1>3. call'.op = "fgetc" /\ call'.ret = r.c
  OBVIOUS
<1>4. CASE Character(s, r)
  <2>1. PICK n \in (p + 1)..l :
           /\ Found(s, r, n)
           /\ IF Flag(s, "BINARY") THEN n = p + 1
              ELSE Passed(s, n - 1) /\ s.file[n] \notin {"CR", "ETX"}
    BY <1>2, <1>4 DEF Character
  <2>2. r.c = s.file[n] /\ Ftell(r.s) = n /\ r.s.flag = s.flag
    BY <2>1 DEF Found
  <2>3. ~Flag(s', "EOF")
    BY <2>2 DEF Flag
  <2>4. PICK next \in (Where(s) + 1)..(Len(Image(s)) + 1) : next = n
    BY <1>1, <1>2, <2>1
  <2>5. ~(next > Len(Image(s))) /\ (~Flag(s, "BINARY") => Image(s)[next] # "ETX" /\ Image(s)[next] # "CR")
    BY <1>1, <1>2, <2>1, <2>4
  <2>6. ~Flag(s, "BINARY") => \A j \in (Where(s) + 1)..(next - 1) : Image(s)[j] = "CR"
    BY <1>1, <1>2, <2>1, <2>4 DEF Passed
  <2>7. Flag(s, "BINARY") => next = Where(s) + 1
    BY <1>1, <1>2, <2>1, <2>4
  <2>8. call'.ret = Image(s)[next] /\ Where(s') = next
    BY <1>1, <1>3, <2>2, <2>4
  <2>9. QED
    BY <1>1, <1>3, <2>3, <2>5, <2>6, <2>7, <2>8, IsGet
<1>5. CASE TextEnds(s, r)
  <2>1. PICK n \in (p + 1)..l :
           /\ ~Flag(s, "BINARY") /\ Passed(s, n - 1) /\ s.file[n] = "ETX"
           /\ r.c = EOF /\ Flag(r.s, "EOF") /\ Ftell(r.s) = IF s.base THEN n - 1 ELSE n
    BY <1>2, <1>5 DEF TextEnds
  <2>2. PICK next \in (Where(s) + 1)..(Len(Image(s)) + 1) : next = n
    BY <1>1, <1>2, <2>1
  <2>3. ~(next > Len(Image(s))) /\ Image(s)[next] = "ETX" /\ Image(s)[next] # "CR"
    BY <1>1, <1>2, <2>1, <2>2
  <2>4. \A j \in (Where(s) + 1)..(next - 1) : Image(s)[j] = "CR"
    BY <1>1, <1>2, <2>1, <2>2 DEF Passed
  <2>5. call'.ret = EOF /\ Flag(s', "EOF")
    BY <1>3, <2>1
  <2>6. Where(s') = IF s.base \/ next > Len(Image(s)) THEN next - 1 ELSE next
    BY <2>1, <2>2, <2>3
  <2>7. QED
    BY <1>1, <1>3, <2>1, <2>3, <2>4, <2>5, <2>6, IsGet
<1>6. CASE FileEnds(s, r)
  <2>1. r.c = EOF /\ Ftell(r.s) = l /\ Flag(r.s, "EOF")
    BY <1>2, <1>6 DEF FileEnds, Ended
  <2>2. PICK next \in (Where(s) + 1)..(Len(Image(s)) + 1) : next = l + 1
    BY <1>1, <1>2
  <2>3. next > Len(Image(s)) /\ next - 1 = l
    BY <1>1, <1>2, <2>2
  <2>4. ~Flag(s, "BINARY") => \A j \in (Where(s) + 1)..(next - 1) : Image(s)[j] = "CR"
    BY <1>1, <1>2, <1>6, <2>2, <2>3 DEF FileEnds, Passed
  <2>5. Flag(s, "BINARY") => next = Where(s) + 1
    BY <1>1, <1>2, <1>6, <2>2 DEF FileEnds
  <2>6. call'.ret = EOF /\ Flag(s', "EOF")
    BY <1>3, <2>1
  <2>7. Where(s') = next - 1
    BY <2>1, <2>3
  <2>8. ~(next <= Len(Image(s)))
    BY <1>1, <1>2, <2>3
  <2>9. QED
    BY <1>1, <1>3, <2>3, <2>4, <2>5, <2>6, <2>7, <2>8, IsGet
<1>7. QED
  BY <1>4, <1>5, <1>6


LEMMA GetcStep ==
    ASSUME Inv, Files(s), Getc
    PROVE  Files(s') /\ Bytes!Next
<1>1. Sound(s)
  BY DEF Inv, Good
<1>2. PICK r : r = Fgetc(s)
  OBVIOUS
<1>3. s' = r.s /\ call' = [op |-> "fgetc", ret |-> r.c]
  BY <1>2 DEF Getc
<1>4. Onward(s, r.s)
  BY <1>1, <1>2, FgetcFacts
<1>5. /\ Sound(s') /\ s'.file = s.file /\ s'.base = s.base
      /\ \A b \in Flags \ {"EOF"} : Flag(s', b) <=> Flag(s, b)
  BY <1>3, <1>4 DEF Onward
<1>6. \A b \in {"READ", "WRT", "BINARY"} : Flag(s', b) <=> Flag(s, b)
  BY <1>5 DEF Flags
<1>7. Files(s')
  BY <1>1, <1>5, <1>6, FilesStay
<1>8. call'.op = "fgetc" /\ call'.ret = r.c /\ ~(call'.op = "fclose" /\ call'.ret = "OK")
  BY <1>3
<1>9. CASE Flag(s, "READ") /\ ~Flag(s, "EOF")
  <2>1. Character(s, r) \/ TextEnds(s, r) \/ FileEnds(s, r)
    <3>1. CASE Flag(s, "BINARY")
      BY <1>1, <1>2, <1>9, <3>1, FgetcBinary
    <3>2. CASE ~Flag(s, "BINARY")
      BY <1>1, <1>2, <1>9, <3>2, FgetcText
    <3>3. QED
      BY <3>1, <3>2
  <2>2. Flag(s', "READ")
    BY <1>6, <1>9
  <2>3. /\ Image(s) = s.file /\ Way(s) = "read"
        /\ Image(s') = s'.file /\ Way(s') = "read" /\ Where(s') = Ftell(s')
    BY <1>1, <1>5, <1>9, <2>2, ReadingFacts, Ways
  <2>4. Image(s') = Image(s) /\ Way(s') = Way(s) /\ Where(s') = Ftell(r.s)
    BY <1>3, <1>5, <2>3
  <2>5. Flag(s', "BINARY") = Flag(s, "BINARY")
    BY <1>6, SameFlag
  <2>6. s'.base = s.base
    BY <1>5
  <2>7. Bytes!Get
    BY <1>1, <1>2, <1>3, <1>9, <2>1, <2>4, <2>5, <2>6, GetIsGet
  <2>8. QED
    BY <1>7, <1>8, <2>7, Failing, Succeeding
<1>10. CASE ~Flag(s, "READ") \/ Flag(s, "EOF")
  <2>1. /\ r.c = EOF /\ Flag(r.s, "EOF") /\ Ftell(r.s) = Ftell(s) /\ Image(r.s) = Image(s)
    BY <1>1, <1>2, <1>10, FgetcNothing
  <2>2. Ftell(s') = Ftell(s) /\ Image(s') = Image(s) /\ Flag(s', "EOF") /\ call'.ret = EOF
    BY <1>3, <1>8, <2>1
  <2>3. SameView(s, s')
    BY <1>1, <1>5, <1>6, <2>2, Views
  <2>4. Flag(s, "EOF") \/ Way(s) # "read"
    BY <1>10 DEF Way
  <2>5. s'.base = s.base
    BY <1>5
  <2>6. Bytes!GetNothing
    BY <1>8, <2>2, <2>3, <2>4, <2>5, IsGetNothing
  <2>7. QED
    BY <1>7, <1>8, <2>6, Failing, Succeeding
<1>11. QED
  BY <1>9, <1>10

LEMMA UngetcStep ==
    ASSUME Inv, Files(s), Ungetc
    PROVE  Files(s') /\ Bytes!Next
<1>1. Sound(s) /\ ReadLast(s, may.back)
  BY DEF Inv, Good, Ungetc
<1>2. /\ Flag(s, "READ") /\ s.cnt < s.rwp /\ s.file[s.rwp - s.cnt] = may.back
      /\ s.base => s.ptr > 0
  BY <1>1 DEF ReadLast
<1>3. /\ s' = IF CanUnget(s) THEN Ungot(s, may.back) ELSE s
      /\ call'.op = "ungetc" /\ call'.char = may.back
      /\ call'.ret = IF CanUnget(s) THEN may.back ELSE EOF
      /\ ~(call'.op = "fclose" /\ call'.ret = "OK")
  BY DEF Ungetc
<1>4. Image(s) = s.file /\ Where(s) = Ftell(s) /\ Ftell(s) = s.rwp - s.cnt
  BY <1>1, <1>2, ReadingFacts, Ways
<1>5. CASE CanUnget(s)
  <2>1. /\ Onward(s, Ungot(s, may.back)) /\ Ungot(s, may.back).flag = s.flag
        /\ Ftell(Ungot(s, may.back)) = Ftell(s) - 1
    BY <1>1, <1>5, UngotFacts
  <2>2. s' = Ungot(s, may.back)
    BY <1>3, <1>5
  <2>3. Sound(s') /\ s'.file = s.file /\ s'.base = s.base /\ s'.flag = s.flag /\ Ftell(s') = Ftell(s) - 1
    BY <2>1, <2>2 DEF Onward
  <2>4. \A b : Flag(s', b) = Flag(s, b)
    BY <2>3 DEF Flag
  <2>5. Files(s')
    BY <2>3, <2>4 DEF Files
  <2>6. /\ Image(s') = Image(s) /\ Way(s') = Way(s) /\ Where(s') = Where(s) - 1
    <3>1. Flag(s', "READ")
      BY <1>2, <2>4
    <3>2. Image(s') = s'.file /\ Where(s') = Ftell(s') /\ Way(s') = "read" /\ Way(s) = "read"
      BY <1>1, <1>2, <2>3, <3>1, ReadingFacts, Ways
    <3>3. QED
      BY <1>4, <2>3, <3>2
  <2>7. Image(s)[Where(s)] = call'.char
    BY <1>2, <1>3, <1>4
  <2>8. call'.ret = call'.char
    BY <1>3, <1>5
  <2>9. Flag(s', "BINARY") = Flag(s, "BINARY") /\ Flag(s', "EOF") = Flag(s, "EOF")
    BY <2>4
  <2>10. s'.base = s.base
    BY <2>3
  <2>11. Bytes!Unget
    BY <1>3, <2>6, <2>7, <2>8, <2>9, <2>10, IsUnget
  <2>12. QED
    BY <1>3, <2>5, <2>11, Failing, Succeeding
<1>6. CASE ~CanUnget(s)
  <2>1. s' = s /\ call'.ret = EOF
    BY <1>3, <1>6
  <2>2. ~s.base
    <3>1. SUFFICES ASSUME s.base
                   PROVE  CanUnget(s)
      BY <1>6
    <3>2. ~Flag(s, "DIRN") /\ s.ptr + s.cnt <= BUFSIZ
      BY <1>1, <1>2, ReadingFacts
    <3>3. s.cnt # BUFSIZ
      <4>1. s.ptr \in 0..BUFSIZ /\ s.cnt \in 0..BUFSIZ /\ s.ptr > 0
        BY <1>1, <1>2, <3>1, Fields
      <4>2. PICK p \in 0..BUFSIZ, n \in 0..BUFSIZ : p = s.ptr /\ n = s.cnt
        BY <4>1
      <4>3. p > 0 /\ p + n <= BUFSIZ
        BY <3>2, <4>1, <4>2
      <4>4. n # BUFSIZ
        BY <4>3, Sizes
      <4>5. QED
        BY <4>2, <4>4
    <3>4. QED
      BY <1>2, <3>1, <3>2, <3>3 DEF CanUnget
  <2>3. Files(s')
    BY <2>1
  <2>4. Image(s') = Image(s) /\ Way(s') = Way(s) /\ Where(s') = Where(s)
    BY <2>1
  <2>5. Flag(s', "BINARY") = Flag(s, "BINARY") /\ Flag(s', "EOF") = Flag(s, "EOF")
    BY <2>1
  <2>6. s'.base = s.base
    BY <2>1
  <2>7. Bytes!Unget
    BY <1>3, <2>1, <2>2, <2>4, <2>5, <2>6, IsUnget
  <2>8. QED
    BY <1>3, <2>3, <2>7, Failing, Succeeding
<1>7. QED
  BY <1>5, <1>6

LEMMA PutNothingStep ==
    ASSUME Inv, Files(s), PutNothing
    PROVE  Files(s') /\ Bytes!Next
<1>1. s' = s /\ ~Flag(s, "WRT") /\ call'.op = "fputc" /\ call'.ret = EOF
  BY DEF PutNothing
<1>2. Way(s) # "write"
  BY <1>1 DEF Way, IsOpen, Flag
<1>3. Bytes!PutNothing
  BY <1>1, <1>2, IsPutNothing
<1>4. ~(call'.op = "fclose" /\ call'.ret = "OK")
  BY <1>1
<1>5. QED
  BY <1>1, <1>3, <1>4, Failing, Succeeding

LEMMA TellStep ==
    ASSUME Inv, Files(s), TellCall
    PROVE  Files(s') /\ Bytes!Next
<1>1. s' = s /\ IsOpen(s) /\ call'.op = "ftell" /\ call'.ret = Ftell(s)
  BY DEF TellCall
<1>2. call'.ret = Where(s) /\ s'.base = s.base
  BY <1>1 DEF Where
<1>3. SameView(s, s') /\ (Flag(s', "EOF") <=> Flag(s, "EOF"))
  BY <1>1 DEF SameView
<1>4. Bytes!Quiet
  BY <1>1, <1>2, <1>3, IsQuiet
<1>5. ~(call'.op = "fclose" /\ call'.ret = "OK")
  BY <1>1
<1>6. QED
  BY <1>1, <1>4, <1>5, Failing, Succeeding

LEMMA PutcStep ==
    ASSUME Inv, Files(s), Putc
    PROVE  Files(s') /\ Bytes!Next
<1>1. Sound(s) /\ Flag(s, "WRT")
  BY DEF Inv, Good, Putc
<1>2. PICK c \in Chars :
        \E k \in IF c = "LF" /\ ~Flag(s, "BINARY") THEN Spilled(TurnedToOutput(s)) ELSE {0} :
           LET u == IF c = "LF" /\ ~Flag(s, "BINARY") THEN PutByte(TurnedToOutput(s), "CR", k)
                    ELSE TurnedToOutput(s)
           IN  \E l \in Spilled(u) :
                  /\ s' = PutByte(u, c, l)
                  /\ call' = [op |-> "fputc", char |-> c,
                              ret |-> IF Spills(u) THEN Answer(u, s', c, l) ELSE c]
  BY DEF Putc
<1>3. c \in Data
  BY DEF Data
<1>4. PICK k \in IF c = "LF" /\ ~Flag(s, "BINARY") THEN Spilled(TurnedToOutput(s)) ELSE {0} :
        LET u == IF c = "LF" /\ ~Flag(s, "BINARY") THEN PutByte(TurnedToOutput(s), "CR", k)
                 ELSE TurnedToOutput(s)
        IN  \E l \in Spilled(u) :
               /\ s' = PutByte(u, c, l)
               /\ call' = [op |-> "fputc", char |-> c,
                           ret |-> IF Spills(u) THEN Answer(u, s', c, l) ELSE c]
  BY <1>2
<1>5. PICK u : u = IF c = "LF" /\ ~Flag(s, "BINARY") THEN PutByte(TurnedToOutput(s), "CR", k)
                   ELSE TurnedToOutput(s)
  OBVIOUS
<1>6. PICK l \in Spilled(u) :
         /\ s' = PutByte(u, c, l)
         /\ call' = [op |-> "fputc", char |-> c,
                     ret |-> IF Spills(u) THEN Answer(u, s', c, l) ELSE c]
  BY <1>4, <1>5
<1>7. /\ Puts(s, PutByte(u, c, l), Line(s, c))
      /\ Spills(u) /\ ~Flag(PutByte(u, c, l), "ERR") => Answer(u, PutByte(u, c, l), c, l) = c
  BY <1>1, <1>3, <1>5, PutcFacts
<1>8. /\ Sound(s') /\ s'.base = s.base
      /\ \A b \in Flags \ {"ERR", "WROTE"} : Flag(s', b) <=> Flag(s, b)
      /\ ~Flag(s', "ERR") => /\ Ftell(s') = Ftell(s) + Len(Line(s, c))
                             /\ Image(s') = Overlay(Image(s), Ftell(s), Line(s, c))
  BY <1>6, <1>7 DEF Puts
<1>9. \A b \in {"READ", "WRT", "BINARY", "EOF"} : Flag(s', b) <=> Flag(s, b)
  BY <1>8 DEF Flags
<1>10. Files(s')
  BY <1>1, <1>8, <1>9, FilesStay
<1>11. call'.op = "fputc" /\ call'.char = c /\ (~Flag(s', "ERR") => call'.ret = c)
  BY <1>6, <1>7
<1>12. CASE Flag(s', "ERR")
  BY <1>10, <1>11, <1>12, Failing
<1>13. CASE ~Flag(s', "ERR")
  <2>1. Flag(s', "WRT")
    BY <1>1, <1>9
  <2>2. Way(s) = "write" /\ Where(s) = Ftell(s) /\ Way(s') = "write" /\ Where(s') = Ftell(s')
    BY <1>1, <1>8, <2>1, Ways
  <2>3. Flag(s', "BINARY") = Flag(s, "BINARY") /\ Flag(s', "EOF") = Flag(s, "EOF")
    BY <1>9, SameFlag
  <2>4. /\ Image(s') = Overlay(Image(s), Where(s), Line(s, c))
        /\ Where(s') = Where(s) + Len(Line(s, c)) /\ Way(s') = Way(s)
    BY <1>8, <1>13, <2>2
  <2>5. call'.ret = c
    BY <1>8, <1>11, <1>13
  <2>6. s'.base = s.base
    BY <1>8
  <2>7. Bytes!Put
    BY <1>1, <1>3, <1>11, <2>2, <2>3, <2>4, <2>5, <2>6, IsPut
  <2>8. QED
    BY <1>10, <1>13, <2>7, Succeeding
<1>14. QED
  BY <1>12, <1>13


LEMMA FlushStep ==
    ASSUME Inv, Files(s), FlushCall
    PROVE  Files(s') /\ Bytes!Next
<1>1. Sound(s)
  BY DEF Inv, Good
<1>2. PICK k \in Flushed(s) :
         /\ s' = Fflush(s, k)
         /\ call' = [op |-> "fflush", ret |-> IF Flushes(s) THEN Result(s', OK) ELSE OK]
  BY DEF FlushCall
<1>3. Sound(s') /\ Alike(s, s') /\ (~Flushes(s) => s' = s)
  BY <1>1, <1>2, FflushFacts
<1>4. \A b \in {"READ", "WRT", "BINARY", "EOF"} : Flag(s', b) <=> Flag(s, b)
  BY <1>3 DEF Alike, Flags
<1>5. Files(s')
  <2>1. s'.file = s.file \/ Flag(s, "WRT")
    BY <1>3 DEF Flushes
  <2>2. QED
    BY <1>1, <1>3, <1>4, <2>1, FilesStay
<1>6. call'.op = "fflush" /\ (~Flag(s', "ERR") => call'.ret = "OK") /\ ~(call'.op = "fclose" /\ call'.ret = "OK")
  BY <1>2 DEF Result, OK
<1>7. CASE Flag(s', "ERR")
  BY <1>5, <1>6, <1>7, Failing
<1>8. CASE ~Flag(s', "ERR")
  <2>1. Image(s') = Image(s) /\ Ftell(s') = Ftell(s)
    BY <1>3, <1>8 DEF Alike
  <2>2. SameView(s, s')
    BY <1>1, <1>3, <1>4, <2>1, Views
  <2>3. s'.base = s.base
    BY <1>3 DEF Alike
  <2>4. Bytes!Quiet
    BY <1>4, <1>6, <1>8, <2>2, <2>3, IsQuiet
  <2>5. QED
    BY <1>5, <1>8, <2>4, Succeeding
<1>9. QED
  BY <1>7, <1>8

\* In a text of whole records the first ^Z is that of the last record.
LEMMA LastRecordIsEnd ==
    ASSUME NEW file \in Seq(Data), Whole(file), IsText(file), NEW e \in 0..Len(file),
           Len(file) >= SECSIZE => LastRecordEnds(file, e)
    PROVE  EndsText(file, e)
<1>1. PICK l \in Nat : l = Len(file)
  OBVIOUS
<1>2. CASE l = 0
  <2>1. e = 0 /\ e = Len(file)
    BY <1>1, <1>2
  <2>2. \A i \in 1..e : FALSE
    BY <2>1
  <2>3. QED
    BY <2>1, <2>2 DEF EndsText
<1>3. CASE l # 0
  <2>1. l >= SECSIZE
    <3>1. l % SECSIZE = 0
      BY <1>1 DEF Whole
    <3>2. QED
      BY <1>3, <3>1, Sizes, Z3
  <2>2. PICK d \in Nat : d = l - SECSIZE
    BY <2>1, Sizes
  <2>3. \A i \in 1..l : file[i] = "ETX" => i > d
    BY <1>1, <2>2 DEF IsText
  <2>4. LastRecordEnds(file, e)
    BY <1>1, <2>1
  <2>5. CASE \E n \in (d + 1)..l : /\ file[n] = "ETX" /\ e = n - 1
                                   /\ \A i \in (d + 1)..(n - 1) : file[i] # "ETX"
    <3>1. PICK n \in (d + 1)..l : /\ file[n] = "ETX" /\ e = n - 1
                                  /\ \A i \in (d + 1)..(n - 1) : file[i] # "ETX"
      BY <2>5
    <3>2. ASSUME NEW i \in 1..e
          PROVE  file[i] # "ETX"
      <4>1. i \in 1..l /\ i <= n - 1 /\ (i > d => i \in (d + 1)..(n - 1))
        BY <3>1
      <4>2. QED
        BY <2>3, <3>1, <4>1
    <3>3. e + 1 = n
      BY <3>1
    <3>4. QED
      BY <3>1, <3>2, <3>3 DEF EndsText
  <2>6. CASE (\A i \in (d + 1)..l : file[i] # "ETX") /\ e = l
    <3>1. ASSUME NEW i \in 1..e
          PROVE  file[i] # "ETX"
      <4>1. i \in 1..l /\ (i > d => i \in (d + 1)..l)
        BY <2>6
      <4>2. QED
        BY <2>3, <2>6, <4>1
    <3>2. QED
      BY <1>1, <2>6, <3>1 DEF EndsText
  <2>7. QED
    BY <1>1, <2>2, <2>4, <2>5, <2>6 DEF LastRecordEnds
<1>4. QED
  BY <1>2, <1>3

\* The place that fseek() counts from.
LEMMA From ==
    ASSUME NEW t, Sound(t), IsOpen(t), ~Flushes(t), ~Flag(t, "EOF"), Files(t),
           NEW wh \in 0..2, wh = 2 => Flag(t, "BINARY") \/ ~Flag(t, "WRT") \/ ~t.base,
           NEW offs \in Int
    PROVE  \E from \in 0..Len(t.file) :
              /\ Target(t, offs, wh) = offs + from
              /\ \/ wh = 0 /\ from = 0
                 \/ wh = 1 /\ from = Ftell(t)
                 \/ wh = 2 /\ ~Flag(t, "BINARY") /\ t.base /\ EndsText(t.file, from)
                 \/ wh = 2 /\ (Flag(t, "BINARY") \/ ~t.base) /\ from = Len(t.file)
<1>1. t.file \in Seq(Data) /\ Len(t.file) \in Nat
  BY Fields
<1>2. Flag(t, "READ") \/ Flag(t, "WRT")
  BY DEF IsOpen, Flag
<1>3. Image(t) = t.file
  BY DEF Image
<1>4. CASE wh = 0
  <2>1. Target(t, offs, wh) = offs + 0 /\ 0 \in 0..Len(t.file)
    BY <1>1, <1>4 DEF Target
  <2>2. QED
    BY <1>4, <2>1
<1>5. CASE wh = 1
  <2>1. Ftell(t) \in 0..Len(t.file)
    BY <1>2, <1>3, ImageFacts
  <2>2. ~t.base => Ftell(t) = t.rwp
    <3>1. ~t.base /\ Flag(t, "READ") => Ftell(t) = t.rwp - t.cnt /\ t.cnt = 0 /\ t.rwp \in Nat
      BY ReadingFacts, Fields
    <3>2. ~t.base /\ Flag(t, "WRT") => Ftell(t) = t.rwp
      BY ImageFacts
    <3>3. QED
      BY <1>2, <3>1, <3>2
  <2>3. Target(t, offs, wh) = offs + Ftell(t)
    BY <1>5, <2>2 DEF Target
  <2>4. QED
    BY <1>5, <2>1, <2>3
<1>6. CASE wh = 2 /\ (Flag(t, "BINARY") \/ ~t.base)
  <2>1. Target(t, offs, wh) = offs + Len(t.file)
    BY <1>6 DEF Target, Ssize
  <2>2. QED
    BY <1>1, <1>6, <2>1
<1>7. CASE wh = 2 /\ ~Flag(t, "BINARY") /\ t.base
  <2>1. Flag(t, "READ") /\ ~Flag(t, "WRT")
    BY <1>2, <1>7
  <2>2. Ssize(t).c \in 0..Len(t.file) /\ (Len(t.file) >= SECSIZE => LastRecordEnds(t.file, Ssize(t).c))
    BY <1>7, <2>1, SsizeText
  <2>3. Whole(t.file) /\ IsText(t.file)
    BY <1>7, <2>1 DEF Files
  <2>4. PICK file, e : file = t.file /\ e = Ssize(t).c
    OBVIOUS
  <2>5. EndsText(file, e)
    BY <1>1, <2>2, <2>3, <2>4, LastRecordIsEnd
  <2>6. Target(t, offs, wh) = offs + Ssize(t).c
    BY <1>7 DEF Target
  <2>7. QED
    BY <1>7, <2>2, <2>4, <2>5, <2>6
<1>8. QED
  BY <1>4, <1>5, <1>6, <1>7

LEMMA SeekStep ==
    ASSUME Inv, Files(s), SeekCall
    PROVE  Files(s') /\ Bytes!Next
<1>1. Sound(s) /\ IsOpen(s)
  BY DEF Inv, Good, SeekCall
<1>2. PICK wh \in 0..2, offs \in (-MaxLen)..MaxLen, k \in Flushed(s) :
         /\ wh = 2 => Flag(s, "BINARY") \/ ~Flag(s, "WRT") \/ ~s.base
         /\ LET t == Fflush(Clear(s, {"EOF"}), k)
            IN  Target(t, offs, wh) \in 0..Len(t.file)
         /\ s' = Fseek(s, offs, wh, k)
         /\ call' = [op |-> "fseek", offs |-> offs, wh |-> wh, ret |-> OK]
  BY DEF SeekCall
<1>3. PICK u, f : u = Clear(s, {"EOF"}) /\ f = Fflush(u, k)
  OBVIOUS
<1>4. PICK pos \in 0..Len(f.file) : pos = Target(f, offs, wh)
  BY <1>2, <1>3
<1>5. Sound(f) /\ Alike(u, f) /\ ~Flushes(f) /\ Moved(f, s', pos)
  <2>1. Sound(f) /\ Alike(u, f) /\ ~Flushes(f) /\ Moved(f, Fseek(s, offs, wh, k), pos)
    BY <1>1, <1>2, <1>3, <1>4, FseekFacts
  <2>2. QED
    BY <1>2, <2>1
<1>6. /\ Sound(u) /\ Flushed(u) = Flushed(s) /\ u.base = s.base /\ u.file = s.file
      /\ ~Flag(u, "EOF") /\ \A b \in Flags \ {"EOF"} : Flag(u, b) <=> Flag(s, b)
      /\ Image(u) = Image(s) /\ Ftell(u) = Ftell(s)
  BY <1>1, <1>3, FlushedSame
<1>7. \A b \in {"READ", "WRT", "BINARY"} : Flag(f, b) <=> Flag(s, b)
  BY <1>5, <1>6 DEF Alike, Flags
<1>8. ~Flag(f, "EOF") /\ f.base = s.base
  <2>1. ~Flag(f, "EOF")
    BY <1>5, <1>6 DEF Alike, Flags
  <2>2. f.base = u.base
    BY <1>5 DEF Alike
  <2>3. QED
    BY <1>6, <2>1, <2>2
<1>9. Files(f)
  <2>1. f.file = s.file \/ Flag(s, "WRT")
    <3>1. ~Flag(s, "WRT") => ~Flushes(u)
      BY <1>6 DEF Flushes, Flags
    <3>2. k \in Flushed(u)
      BY <1>6
    <3>3. ~Flushes(u) => f = u
      BY <1>3, <1>6, <3>2, FflushFacts
    <3>4. QED
      BY <1>6, <3>1, <3>3
  <2>2. Sound(f)
    BY <1>5
  <2>3. QED
    BY <1>1, <1>7, <2>1, <2>2, FilesStay
<1>10. /\ Sound(s') /\ ~Flushes(s') /\ Ftell(s') = pos /\ s'.file = f.file
       /\ \A b \in {"READ", "WRT", "BINARY", "EOF", "ERR"} : Flag(s', b) <=> Flag(f, b)
  BY <1>5 DEF Moved, Flags, HighFlags
<1>11. Files(s')
  <2>1. Sound(f) /\ Sound(s') /\ s'.file = f.file /\ \A b \in {"READ", "WRT", "BINARY"} : Flag(s', b) <=> Flag(f, b)
    BY <1>5, <1>10
  <2>2. QED
    BY <1>9, <2>1, FilesStay
<1>12. /\ call'.op = "fseek" /\ call'.ret = "OK" /\ call'.wh = wh /\ call'.offs = offs
       /\ ~(call'.op = "fclose" /\ call'.ret = "OK")
  BY <1>2 DEF OK
<1>13. CASE Flag(s', "ERR")
  BY <1>11, <1>12, <1>13, Failing
<1>14. CASE ~Flag(s', "ERR")
  <2>1. ~Flag(f, "ERR")
    BY <1>10, <1>14
  <2>2. Image(f) = Image(s) /\ Ftell(f) = Ftell(s)
    BY <1>5, <1>6, <2>1 DEF Alike
  <2>3. Image(f) = f.file /\ Image(s') = s'.file
    BY <1>5, <1>10 DEF Image
  <2>4. f.file = Image(s) /\ Image(s') = Image(s)
    BY <1>10, <2>2, <2>3
  <2>5. IsOpen(f)
    BY <1>1, <1>7 DEF IsOpen, Flag
  <2>6. offs \in Int
    BY StreamAssumption
  <2>7. wh = 2 => Flag(f, "BINARY") \/ ~Flag(f, "WRT") \/ ~f.base
    BY <1>2, <1>7, <1>8
  <2>8. PICK from \in 0..Len(f.file) :
              /\ Target(f, offs, wh) = offs + from
              /\ \/ wh = 0 /\ from = 0
                 \/ wh = 1 /\ from = Ftell(f)
                 \/ wh = 2 /\ ~Flag(f, "BINARY") /\ f.base /\ EndsText(f.file, from)
                 \/ wh = 2 /\ (Flag(f, "BINARY") \/ ~f.base) /\ from = Len(f.file)
    BY <1>5, <1>8, <1>9, <2>5, <2>6, <2>7, From
  <2>9. PICK g \in 0..Len(Image(s)) : g = from
    BY <2>4
  <2>10. Where(s) = Ftell(s) /\ Where(s') = Ftell(s') /\ Way(s') = Way(s)
    <3>1. IsOpen(s')
      BY <1>10, <2>5 DEF IsOpen, Flag
    <3>2. Flag(s', "READ") <=> Flag(s, "READ")
      BY <1>7, <1>10
    <3>3. QED
      BY <1>1, <3>1, <3>2 DEF Where, Way
  <2>11. Where(s') = call'.offs + g
    BY <1>4, <1>10, <1>12, <2>8, <2>9, <2>10
  <2>12. \/ call'.wh = 0 /\ g = 0
         \/ call'.wh = 1 /\ g = Where(s)
         \/ call'.wh = 2 /\ ~Flag(s, "BINARY") /\ s.base /\ EndsText(Image(s), g)
         \/ call'.wh = 2 /\ (Flag(s, "BINARY") \/ ~s.base) /\ g = Len(Image(s))
    BY <1>7, <1>8, <1>12, <2>2, <2>4, <2>8, <2>9, <2>10
  <2>13. Flag(s', "BINARY") <=> Flag(s, "BINARY")
    BY <1>7, <1>10
  <2>14. Flag(s', "BINARY") = Flag(s, "BINARY")
    BY <2>13, SameFlag
  <2>15. ~Flag(s', "EOF")
    BY <1>8, <1>10
  <2>16. s'.base = s.base
    <3>1. s'.base = f.base
      BY <1>5 DEF Moved
    <3>2. QED
      BY <1>8, <3>1
  <2>17. Bytes!Seek
    BY <1>12, <2>4, <2>10, <2>11, <2>12, <2>14, <2>15, <2>16, IsSeek
  <2>18. QED
    BY <1>11, <1>14, <2>17, Succeeding
<1>15. QED
  BY <1>13, <1>14


LEMMA Closing ==
    ASSUME WholeFiles, Sound(s), Files(s), NEW k \in Flushed(s), s' = Fclose(s, k),
           call'.op \in {"fclose", "exit"},
           call'.op = "fclose" => call'.ret = IF IsOpen(s) THEN Result(s', OK) ELSE EOF
    PROVE  Files(s') /\ Bytes!Next
<1>1. CASE ~IsOpen(s)
  <2>1. s' = s
    BY <1>1 DEF Fclose
  <2>2. Image(s) = s.file /\ s.file \in Seq(Data) /\ Way(s) = "closed" /\ ~Flag(s, "WRT")
    BY <1>1, Ways, Fields DEF Image, Flushes
  <2>3. Recorded(s.file) = s.file
    BY <2>2, RecordedWhole DEF Files
  <2>4. \E p \in Bytes!Padding : Image(s') = Image(s) \o p
    BY <2>1, <2>2, <2>3, RecordedWhole
  <2>5. Way(s') = "closed" /\ (call'.op = "fclose" => call'.ret = IF Way(s) = "closed" THEN EOF ELSE "OK")
    BY <1>1, <2>1, <2>2
  <2>6. Bytes!Close
    BY <2>4, <2>5, IsClose
  <2>7. ~(call'.op = "fclose" /\ call'.ret = "OK")
    BY <1>1 DEF EOF
  <2>8. QED
    BY <2>1, <2>6, <2>7, Failing, Succeeding
<1>2. CASE IsOpen(s)
  <2>1. PICK f : f = Fflush(s, k)
    OBVIOUS
  <2>2. /\ Sound(f) /\ Alike(s, f) /\ Image(f) = f.file
        /\ Sound(s') /\ ~IsOpen(s') /\ s'.file = Recorded(f.file) /\ Image(s') = s'.file
        /\ s'.flag = f.flag \ {"READ", "WRT", "NBF"}
    BY <1>2, <2>1, FcloseFacts
  <2>3. f.file \in Seq(Data)
    BY <2>2, Fields
  <2>4. Whole(s'.file) /\ \E p \in Bytes!Padding : s'.file = f.file \o p
    BY <2>2, <2>3, RecordedWhole
  <2>5. Way(s') = "closed" /\ ~Flag(s', "READ") /\ ~Flag(s', "WRT")
    BY <2>2, Ways
  <2>6. Files(s')
    BY <2>4, <2>5 DEF Files
  <2>7. Way(s) # "closed"
    BY <1>2 DEF Way
  <2>8. CASE Flag(s', "ERR")
    <3>1. ~(call'.op = "fclose" /\ call'.ret = "OK")
      BY <1>2, <2>8 DEF Result, EOF
    <3>2. QED
      BY <2>6, <2>8, <3>1, Failing
  <2>9. CASE ~Flag(s', "ERR")
    <3>1. ~Flag(f, "ERR")
      BY <2>2, <2>9 DEF Flag
    <3>2. f.file = Image(s)
      BY <2>2, <3>1 DEF Alike
    <3>3. \E p \in Bytes!Padding : Image(s') = Image(s) \o p
      BY <2>2, <2>4, <3>2
    <3>4. call'.op = "fclose" => call'.ret = IF Way(s) = "closed" THEN EOF ELSE "OK"
      BY <1>2, <2>7, <2>9 DEF Result, OK
    <3>5. Bytes!Close
      BY <2>5, <3>3, <3>4, IsClose
    <3>6. QED
      BY <2>6, <2>9, <3>5, Succeeding
  <2>10. QED
    BY <2>8, <2>9
<1>3. QED
  BY <1>1, <1>2

LEMMA CloseStep ==
    ASSUME WholeFiles, Inv, Files(s), CloseCall \/ Exit
    PROVE  Files(s') /\ Bytes!Next
<1>1. Sound(s)
  BY DEF Inv, Good
<1>2. PICK k \in Flushed(s) : s' = Fclose(s, k)
  BY DEF CloseCall, Exit
<1>3. /\ call'.op \in {"fclose", "exit"}
      /\ call'.op = "fclose" => call'.ret = IF IsOpen(s) THEN Result(s', OK) ELSE EOF
  BY DEF CloseCall, Exit
<1>4. QED
  BY <1>1, <1>2, <1>3, Closing

LEMMA InterruptStep ==
    ASSUME OneDirection, WholeFiles, Inv, Files(s), Interrupt
    PROVE  Files(s') /\ Bytes!Next
<1>1. Sound(s)
  BY DEF Inv, Good
<1>2. PICK k : /\ k = 0
               /\ \/ /\ call'.op = "exit"
                     /\ \E l \in Flushed(Write(s, Unwritten(s), k)) :
                           s' = Fclose(Write(s, Unwritten(s), k), l)
                  \/ call'.op = "longjmp" /\ s' = Write(s, Unwritten(s), k)
  BY DEF OneDirection, Interrupt
<1>3. Write(s, Unwritten(s), k) = s
  BY <1>1, <1>2, NothingWritten
<1>4. CASE call'.op = "exit" /\ \E l \in Flushed(s) : s' = Fclose(s, l)
  <2>1. PICK l \in Flushed(s) : s' = Fclose(s, l)
    BY <1>4
  <2>2. QED
    BY <1>1, <1>4, <2>1, Closing
<1>5. CASE call'.op = "longjmp" /\ s' = s
  <2>1. SameView(s, s') /\ (Flag(s', "EOF") <=> Flag(s, "EOF"))
    BY <1>5 DEF SameView
  <2>2. s'.base = s.base /\ call'.op = "longjmp"
    BY <1>5
  <2>3. Bytes!Quiet
    BY <2>1, <2>2, IsQuiet
  <2>4. ~(call'.op = "fclose" /\ call'.ret = "OK")
    BY <1>5
  <2>5. QED
    BY <1>5, <2>3, <2>4, Failing, Succeeding
<1>6. QED
  BY <1>2, <1>3, <1>4, <1>5

-----------------------------------------------------------------------------
(***************************************************************************)
(* The theorem.                                                            *)
(***************************************************************************)
LEMMA Starts ==
    ASSUME WholeFiles, Init
    PROVE  Inv /\ Files(s) /\ Bytes!Init
<1>1. PICK file \in InitFiles : s = NoStream(file)
  BY DEF Init
<1>2. s.flag = {} /\ s.file = file
  BY <1>1 DEF NoStream
<1>3. \A b : ~Flag(s, b)
  BY <1>2 DEF Flag
<1>4. Files(s)
  BY <1>2, <1>3 DEF Files, Whole, WholeFiles
<1>5. ~IsOpen(s)
  BY <1>2 DEF IsOpen
<1>6. Bytes!Init
  BY <1>3, <1>5 DEF Bytes!Init
<1>7. QED
  BY <1>4, <1>6, InitGood

LEMMA Steps ==
    ASSUME OneDirection, WholeFiles, Inv, Files(s), [Next]_vars
    PROVE  Files(s') /\ [Bytes!Next]_(Bytes!vars)
<1>1. CASE UNCHANGED vars
  <2>1. s' = s /\ call' = call
    BY <1>1 DEF vars
  <2>2. UNCHANGED Bytes!vars
    BY <2>1 DEF Bytes!vars
  <2>3. QED
    BY <2>1, <2>2
<1>2. CASE Reopen
  BY <1>2, ReopenStep
<1>3. CASE Setbuf
  BY <1>3, SetbufStep
<1>4. CASE Getc
  BY <1>4, GetcStep
<1>5. CASE Ungetc
  BY <1>5, UngetcStep
<1>6. CASE PutNothing
  BY <1>6, PutNothingStep
<1>7. CASE Putc
  BY <1>7, PutcStep
<1>8. CASE FlushCall
  BY <1>8, FlushStep
<1>9. CASE TellCall
  BY <1>9, TellStep
<1>10. CASE SeekCall
  BY <1>10, SeekStep
<1>11. CASE CloseCall \/ Exit
  BY <1>11, CloseStep
<1>12. CASE Interrupt
  BY <1>12, InterruptStep
<1>13. QED
  BY <1>1, <1>2, <1>3, <1>4, <1>5, <1>6, <1>7, <1>8, <1>9, <1>10, <1>11, <1>12 DEF Next

\* fopen() to fclose() of the library do what they promise: each call of any
\* program that uses a stream in one direction does to the file and the
\* position what the file of bytes says, or a write has failed, which fclose()
\* does not conceal.
THEOREM StreamIsByteFile == ASSUME OneDirection, WholeFiles PROVE Spec => Implements
<1>1. Init => Inv /\ Files(s) /\ Bytes!Init
  BY Starts
<1>2. Inv /\ Files(s) /\ [Next]_vars => Inv' /\ Files(s)' /\ [Bytes!Next]_(Bytes!vars)
  <2>1. Inv /\ Files(s) /\ [Next]_vars => Inv'
    BY NextGood
  <2>2. Inv /\ Files(s) /\ [Next]_vars => Files(s') /\ [Bytes!Next]_(Bytes!vars)
    BY Steps
  <2>3. QED
    BY <2>1, <2>2
<1>3. QED
  BY <1>1, <1>2, PTL DEF Spec, Implements, Bytes!Spec
=============================================================================
