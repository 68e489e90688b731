--------------------------- MODULE PipemgrProofs ---------------------------
(***************************************************************************)
(* Theorems about Pipemgr for every size of record and buffer, every       *)
(* alphabet, and every usual pipeline and disk.                            *)
(***************************************************************************)
EXTENDS Pipemgr, SequenceTheorems, WellFoundedInduction, TLAPS

(***************************************************************************)
(* The inductive invariant.                                                *)
(***************************************************************************)
Block == [1 .. RECSIZE -> Nat]
File  == [recs : Seq(Nat), unused : 0 .. RECSIZE - 1]
FileOK(f) == f \in File /\ Len(f.recs) % RECSIZE = 0

Temps == {PIPEIN, PIPEOUT}

\* The provers do not know that a name written out is a string.
Names == STRING \cup Temps \cup {""}

Regs == [awake : BOOLEAN, PipedI : BOOLEAN, PipedO : BOOLEAN, inflg : BOOLEAN, outflg : BOOLEAN,
         errflg : BOOLEAN, oapp : BOOLEAN, pclosed : BOOLEAN, hooked : BOOLEAN,
         infcb : Names, inrec : Nat, inptr : 0..RECSIZE, inbuf : Block, inlen : Nat,
         ineof : BOOLEAN, lastin : Nat,
         outfcb : Names, outrec : Nat, outptr : 0..RECSIZE, outbuf : Block]

Typed ==
    /\ pc \in {"start", "run", "lost", "ended"} /\ room \in Nat /\ eof \in BOOLEAN
    /\ rsx \in Regs
    /\ sent \in Seq(Bytes) /\ prev \in Seq(Bytes) /\ got \in Seq(Bytes) /\ taken \in Nat
    /\ \A f \in DOMAIN disk : FileOK(disk[f])

\* The rest of the line, of which the first command runs.
Rest ==
    /\ line \in Seq(Command) /\ line # <<>>
    /\ \A i \in 1..Len(line) : UsualCommand(line[i], i = 1 /\ ~rsx.PipedI, i = Len(line))
    /\ UsualDisk(old) /\ AppendsTo(line, old)

\* The files but those of T are as before.
Untouched(T) ==
    /\ DOMAIN disk \ T = DOMAIN old \ T
    /\ \A f \in DOMAIN old \ T : disk[f] = old[f]

Start ==
    /\ room = 0 /\ sent = <<>> /\ taken = 0 /\ got = <<>> /\ ~eof
    /\ rsx.inptr = RECSIZE /\ ~rsx.PipedO /\ ~rsx.oapp /\ ~rsx.awake
    /\ Untouched(Temps) /\ PIPEOUT \notin DOMAIN disk
    /\ IF rsx.PipedI
       THEN /\ rsx.infcb = PIPEIN /\ rsx.inflg /\ rsx.pclosed
            /\ rsx.outflg /\ rsx.outfcb = PIPEOUT
            /\ PIPEIN \in DOMAIN disk /\ Exact(disk[PIPEIN]) = prev
       ELSE /\ PIPEIN \notin DOMAIN disk
            /\ ~rsx.inflg /\ ~rsx.outflg /\ ~rsx.errflg /\ ~rsx.pclosed /\ rsx.inlen = 0
            /\ prev = Given(line, old)

\* Of the file r reads, whose bytes are p, n have been read.
At(r, d, p, n) ==
    /\ r.infcb \in DOMAIN d \ Devices /\ ~r.pclosed
    /\ Exact(d[r.infcb]) = p
    /\ n \in Nat /\ r.inlen + n = Len(p)
    /\ n + RECSIZE = (r.inrec * RECSIZE) + r.inptr
    /\ \A i \in (r.inptr + 1)..RECSIZE :
          r.inbuf[i] = d[r.infcb].recs[n - r.inptr + i]
    /\ r.inlen > 0 => ~r.ineof

\* Nothing has been read, and the pipe is not open.
Waits(r, d, p) ==
    /\ r.pclosed /\ r.PipedI /\ ~r.awake /\ r.inptr = RECSIZE
    /\ r.infcb = PIPEIN /\ PIPEIN \in DOMAIN d /\ Exact(d[PIPEIN]) = p

\* The input is not the output.
Crossed == Has(Cmd.ops, Outputs) /\ rsx.infcb = OutFile(Cmd.ops)

\* Nothing but lines is read of the console: qbytin remembers what was read last.
OnlyLines == Cmd.reads \cap {1, 6} = {}
Recent(r, p, n) == r.lastin = CR => ~r.awake /\ n > 0 /\ p[n] = CR

Reads ==
    /\ taken <= Len(prev)
    /\ \/ prev = <<>> /\ rsx.inlen = 0 /\ ~rsx.PipedI
       \/ Waits(rsx, disk, prev) /\ taken = 0
       \/ /\ At(rsx, disk, prev, taken) /\ ~Crossed
          /\ OnlyLines => Recent(rsx, prev, taken)
    /\ room > 0 => rsx.PipedI /\ ~rsx.awake /\ 10 \in Cmd.reads

\* What the file of the output held, where it is appended to.
Before ==
    IF Has(Cmd.ops, Appends) /\ OutFile(Cmd.ops) \in DOMAIN old THEN Text(old[OutFile(Cmd.ops)])
    ELSE <<>>
Total == Before \o sent

\* The file r writes and its buffer hold all that was written, which is t.
Holds(r, d, t) ==
    LET f == d[r.outfcb]
        n == r.outrec * RECSIZE
    IN  /\ r.outfcb \in DOMAIN d
        /\ Len(t) = n + r.outptr
        /\ Len(f.recs) \in {n, n + RECSIZE} /\ (r.outptr = 0 => Len(f.recs) = n)
        /\ \A i \in 1..n : f.recs[i] = t[i]
        /\ \A i \in 1..r.outptr : r.outbuf[i] = t[n + i]
        /\ r.outfcb \notin DOMAIN old =>
              /\ f.unused = 0
              /\ \A i \in (r.outptr + 1)..RECSIZE : r.outbuf[i] = MARK

Writes ==
    IF Has(Cmd.ops, Outputs)
    THEN /\ rsx.outflg /\ rsx.outfcb = OutFile(Cmd.ops)
         /\ rsx.PipedO <=> Has(Cmd.ops, Pipes)
         /\ rsx.outfcb \notin Devices => Holds(rsx, disk, Total)
    ELSE /\ ~rsx.PipedO
         /\ rsx.awake => ~rsx.outflg /\ ~rsx.errflg
         /\ rsx.outflg => rsx.outfcb = PIPEOUT

Run ==
    /\ Reads /\ Writes
    /\ Untouched(Temps \cup Targets)
    /\ PIPEIN \in DOMAIN disk <=> rsx.PipedI
    /\ PIPEOUT \in DOMAIN disk <=> Has(Cmd.ops, Pipes)
    /\ rsx.PipedI => rsx.inflg /\ rsx.infcb = PIPEIN
    /\ rsx.oapp => Has(Cmd.ops, Appends)
    /\ rsx.awake \/ Has(Cmd.ops, Outputs) => Cmd.pm

Ended == OutputArrives /\ NothingElse

Inv ==
    /\ Typed /\ Rest
    /\ \A f \in DOMAIN disk \ DOMAIN old : Padded(disk[f])
    /\ rsx.PipedO => rsx.outfcb = PIPEOUT
    /\ rsx.PipedI => rsx.infcb = PIPEIN
    /\ pc = "start" => Start
    /\ pc = "run" => Run
    /\ pc = "ended" => Ended

-----------------------------------------------------------------------------
(***************************************************************************)
(* Numbers.                                                                *)
(***************************************************************************)
LEMMA LeastNatural ==
    ASSUME NEW T, T \subseteq Nat, T # {}
    PROVE  \E m \in T : \A k \in T : m <= k
<1> DEFINE R == {ss \in Nat \X Nat : ss[1] < ss[2]}
<1>1. IsWellFoundedOn(R, Nat)
  BY NatLessThanWellFounded DEF OpToRel
<1>2. PICK m \in T : \A k \in T : ~(<<k, m>> \in R)
  BY <1>1, WFMin
<1>3. ASSUME NEW k \in T, k < m PROVE FALSE
  <2>1. <<k, m>> \in Nat \X Nat /\ <<k, m>>[1] < <<k, m>>[2]
    BY <1>3
  <2>2. QED
    BY <1>2, <2>1
<1>4. QED
  BY <1>3

LEMMA GreatestOfInterval ==
    ASSUME NEW n \in Nat, NEW T, T \subseteq 1 .. n, T # {}
    PROVE  \E m \in T : \A k \in T : k <= m
<1> DEFINE U == {n - k : k \in T}
<1>1. U \subseteq Nat /\ U # {}
  <2>1. \A k \in T : k \in 1 .. n /\ n - k \in Nat
    OBVIOUS
  <2>2. QED
    BY <2>1
<1>2. PICK u \in U : \A v \in U : u <= v
  BY <1>1, LeastNatural
<1>3. PICK m \in T : u = n - m
  BY <1>2
<1>4. ASSUME NEW k \in T PROVE k <= m
  <2>1. n - k \in U
    OBVIOUS
  <2>2. n - m <= n - k
    BY <1>2, <1>3, <2>1
  <2>3. QED
    BY <2>2
<1>5. QED
  BY <1>4

LEMMA WholeRecords ==
    ASSUME NEW n \in Nat, NEW d \in Nat \ {0}, n % d = 0
    PROVE  n \div d \in Nat /\ (n \div d) * d = n
  BY Z3

LEMMA MultiplesAreWhole ==
    ASSUME NEW n \in Nat, NEW d \in Nat \ {0}
    PROVE  n * d \in Nat /\ (n * d) % d = 0
  BY Z3

LEMMA FewerTimes ==
    ASSUME NEW a \in Int, NEW b \in Int, NEW d \in Nat \ {0}, a * d < b * d
    PROVE  a < b
  OBVIOUS

LEMMA OneMore ==
    ASSUME NEW a \in Int, NEW d \in Int
    PROVE  (a + 1) * d = (a * d) + d /\ (a - 1) * d = (a * d) - d
  OBVIOUS

LEMMA SmallRemainder ==
    ASSUME NEW n \in Nat, NEW d \in Nat \ {0}
    PROVE  /\ n < d => n % d = n
           /\ d % d = 0
           /\ n % d \in 0 .. d - 1
  BY Z3

-----------------------------------------------------------------------------
(***************************************************************************)
(* Files.                                                                  *)
(***************************************************************************)
LEMMA Sizes ==
    /\ RECSIZE \in Nat \ {0} /\ BUFLEN \in Nat \ {0} /\ MAXOUT \in Nat
    /\ MARK \in Nat /\ CR \in Nat /\ LF \in Nat /\ Bytes \subseteq Nat
  BY PipemgrAssumption

LEMMA FileFacts ==
    ASSUME NEW f, FileOK(f)
    PROVE  /\ f.recs \in Seq(Nat) /\ Len(f.recs) \in Nat /\ Len(f.recs) % RECSIZE = 0
           /\ f.unused \in Nat /\ f.unused <= RECSIZE - 1
<1>1. f.recs \in Seq(Nat) /\ f.unused \in 0 .. RECSIZE - 1 /\ Len(f.recs) % RECSIZE = 0
  BY DEF FileOK, File
<1>2. PICK u \in 0 .. RECSIZE - 1 : u = f.unused
  BY <1>1
<1>3. u \in Nat /\ u <= RECSIZE - 1
  BY Sizes
<1>4. Len(f.recs) \in Nat
  BY <1>1, LenProperties
<1>5. QED
  BY <1>1, <1>2, <1>3, <1>4

\* The first n elements, and k elements behind the first n.
LEMMA Prefix ==
    ASSUME NEW S, NEW s \in Seq(S), NEW n \in Nat, n <= Len(s)
    PROVE  /\ SubSeq(s, 1, n) \in Seq(S) /\ Len(SubSeq(s, 1, n)) = n
           /\ \A i \in 1 .. n : SubSeq(s, 1, n)[i] = s[i]
<1>1. \A i \in 1 .. n : s[i] \in S
  BY LenProperties, ElementOfSeq
<1>2. /\ SubSeq(s, 1, n) \in Seq(S)
      /\ Len(SubSeq(s, 1, n)) = IF 1 <= n THEN n - 1 + 1 ELSE 0
      /\ \A i \in 1 .. n - 1 + 1 : SubSeq(s, 1, n)[i] = s[1 + i - 1]
  BY <1>1, SubSeqProperties
<1>3. QED
  BY <1>2

LEMMA Middle ==
    ASSUME NEW S, NEW s \in Seq(S), NEW n \in Nat, NEW k \in Nat \ {0}, n + k <= Len(s)
    PROVE  /\ SubSeq(s, n + 1, n + k) \in Seq(S) /\ Len(SubSeq(s, n + 1, n + k)) = k
           /\ \A i \in 1 .. k : SubSeq(s, n + 1, n + k)[i] = s[n + i]
<1>1. \A i \in n + 1 .. n + k : s[i] \in S
  BY LenProperties, ElementOfSeq
<1> DEFINE b == n + 1
           e == n + k
<1>2. b \in Int /\ e \in Int /\ \A i \in b .. e : s[i] \in S
  BY <1>1
<1> HIDE DEF b, e
<1>3. /\ SubSeq(s, b, e) \in Seq(S)
      /\ Len(SubSeq(s, b, e)) = IF b <= e THEN e - b + 1 ELSE 0
      /\ \A i \in 1 .. e - b + 1 : SubSeq(s, b, e)[i] = s[b + i - 1]
  BY <1>2, SubSeqProperties
<1>4. b <= e /\ e - b + 1 = k
  BY DEF b, e
<1>5. \A i \in 1 .. k : SubSeq(s, b, e)[i] = s[b + i - 1]
  BY <1>3, <1>4
<1>6. \A i \in 1 .. k : b + i - 1 = n + i
  BY DEF b
<1>7. QED
  BY <1>3, <1>4, <1>5, <1>6 DEF b, e

LEMMA ExactFacts ==
    ASSUME NEW S, NEW f, f.recs \in Seq(S), f.unused \in Nat
    PROVE  /\ Exact(f) \in Seq(S)
           /\ Len(Exact(f)) = IF f.unused <= Len(f.recs) THEN Len(f.recs) - f.unused ELSE 0
           /\ \A i \in 1 .. Len(Exact(f)) : Exact(f)[i] = f.recs[i]
<1> DEFINE n == Len(f.recs) - f.unused
<1>1. n \in Int /\ Len(f.recs) \in Nat
  BY LenProperties
<1>2. \A i \in 1 .. n : f.recs[i] \in S
  BY <1>1, ElementOfSeq
<1>3. /\ Exact(f) \in Seq(S)
      /\ Len(Exact(f)) = IF 1 <= n THEN n - 1 + 1 ELSE 0
      /\ \A i \in 1 .. n - 1 + 1 : Exact(f)[i] = f.recs[1 + i - 1]
  BY <1>1, <1>2, SubSeqProperties DEF Exact
<1>4. QED
  BY <1>1, <1>3

LEMMA RecordFacts ==
    ASSUME NEW f, f.recs \in Seq(Nat), NEW n \in Nat, NEW b \in Nat, b = n * RECSIZE,
           b + RECSIZE <= Len(f.recs)
    PROVE  /\ Record(f, n) \in Block
           /\ \A i \in 1 .. RECSIZE : Record(f, n)[i] = f.recs[b + i]
<1>1. (n + 1) * RECSIZE = b + RECSIZE
  BY OneMore, Sizes
<1>2. Record(f, n) = SubSeq(f.recs, b + 1, b + RECSIZE)
  BY <1>1 DEF Record
<1>3. PICK s \in Seq(Nat) : s = f.recs
  OBVIOUS
<1>4. b + RECSIZE <= Len(s)
  BY <1>3
<1>5. /\ SubSeq(s, b + 1, b + RECSIZE) \in Seq(Nat)
      /\ Len(SubSeq(s, b + 1, b + RECSIZE)) = RECSIZE
      /\ \A i \in 1 .. RECSIZE : SubSeq(s, b + 1, b + RECSIZE)[i] = s[b + i]
  BY <1>4, Middle, Sizes
<1>6. /\ Record(f, n) \in Seq(Nat)
      /\ Len(Record(f, n)) = RECSIZE
      /\ \A i \in 1 .. RECSIZE : Record(f, n)[i] = f.recs[b + i]
  BY <1>2, <1>3, <1>5
<1>7. QED
  BY <1>6, LenProperties DEF Block

\* A sequence with a block laid over it behind its first n elements.
LEMMA Spliced ==
    ASSUME NEW s \in Seq(Nat), NEW b \in Block, NEW n \in Nat,
           Len(s) \in {n, n + RECSIZE}
    PROVE  LET t == SubSeq(s, 1, n) \o b \o SubSeq(s, n + RECSIZE + 1, Len(s)) IN
           /\ t \in Seq(Nat) /\ Len(t) = n + RECSIZE
           /\ \A i \in 1 .. n : t[i] = s[i]
           /\ \A i \in 1 .. RECSIZE : t[n + i] = b[i]
<1> DEFINE u == SubSeq(s, 1, n)
           e == SubSeq(s, n + RECSIZE + 1, Len(s))
<1>1. RECSIZE \in Nat \ {0} /\ n <= Len(s)
  BY Sizes
<1>2. u \in Seq(Nat) /\ Len(u) = n /\ \A i \in 1 .. n : u[i] = s[i]
  BY <1>1, Prefix
<1>3. e = <<>>
  BY <1>1, SubSeqEmpty
<1>4. b \in Seq(Nat) /\ Len(b) = RECSIZE
  BY <1>1 DEF Block
<1> HIDE DEF u, e
<1>5. /\ u \o b \in Seq(Nat) /\ Len(u \o b) = n + RECSIZE
      /\ \A i \in 1 .. n + RECSIZE : (u \o b)[i] = IF i <= n THEN u[i] ELSE b[i - n]
  BY <1>2, <1>4, ConcatProperties
<1>6. (u \o b) \o e = u \o b
  BY <1>3, <1>5, ConcatEmptySeq
<1>7. \A i \in 1 .. n : (u \o b)[i] = s[i]
  BY <1>1, <1>2, <1>5
<1>8. ASSUME NEW i \in 1 .. RECSIZE PROVE (u \o b)[n + i] = b[i]
  <2>1. PICK k \in 1 .. n + RECSIZE : k = n + i
    BY <1>1
  <2>2. ~(k <= n) /\ k - n = i
    BY <1>1, <2>1
  <2>3. (u \o b)[k] = b[i]
    BY <1>5, <2>2
  <2>4. QED
    BY <2>1, <2>3
<1>9. QED
  BY <1>5, <1>6, <1>7, <1>8 DEF u, e

-----------------------------------------------------------------------------
(***************************************************************************)
(* Operators on a command line.                                            *)
(***************************************************************************)
LEMMA FinalFacts ==
    ASSUME NEW T, NEW ops \in Seq(T), NEW kinds, Has(ops, kinds)
    PROVE  \E i \in 1 .. Len(ops) : /\ Final(ops, kinds) = ops[i]
                                    /\ ops[i].op \in kinds
                                    /\ \A j \in Places(ops, kinds) : j <= i
<1> DEFINE P == Places(ops, kinds)
<1>1. P \subseteq 1 .. Len(ops) /\ P # {} /\ Len(ops) \in Nat
  BY LenProperties DEF Has, Places
<1>2. \E i \in P : \A j \in P : j <= i
  BY <1>1, GreatestOfInterval
<1> DEFINE m == CHOOSE i \in P : \A j \in P : j <= i
<1>3. m \in P /\ \A j \in P : j <= m
  BY <1>2
<1>4. Final(ops, kinds) = ops[m]
  BY DEF Final
<1>5. ops[m].op \in kinds
  BY <1>3 DEF Places
<1>6. QED
  BY <1>1, <1>3, <1>4, <1>5

\* What a usual command's operators are.
LEMMA OutFileFacts ==
    ASSUME Rest
    PROVE  /\ Cmd = line[1] /\ Cmd \in Command /\ UsualCommand(Cmd, ~rsx.PipedI, 1 = Len(line))
           /\ Has(Cmd.ops, Outputs) => OutFile(Cmd.ops) # PIPEIN /\ OutFile(Cmd.ops) \in Names
           /\ Has(Cmd.ops, Outputs) => (OutFile(Cmd.ops) = PIPEOUT <=> Has(Cmd.ops, Pipes))
           /\ Has(Cmd.ops, Inputs) => InFile(Cmd.ops) \notin Temps /\ InFile(Cmd.ops) \in Names
<1>1. line \in Seq(Command) /\ line # <<>> /\ Len(line) \in Nat /\ 1 \in 1 .. Len(line)
  <2>1. line \in Seq(Command) /\ line # <<>>
    BY DEF Rest
  <2>2. Len(line) \in Nat \ {0}
    BY <2>1, EmptySeq
  <2>3. QED
    BY <2>1, <2>2
<1>2. Cmd = line[1] /\ Cmd \in Command
  <2>1. Head(line) \in Command
    BY <1>1, HeadTailProperties
  <2>2. Head(line) = line[1]
    BY <1>1
  <2>3. QED
    BY <2>1, <2>2 DEF Cmd
<1>3. UsualCommand(Cmd, ~rsx.PipedI, 1 = Len(line))
  <2>1. UsualCommand(line[1], 1 = 1 /\ ~rsx.PipedI, 1 = Len(line))
    BY <1>1 DEF Rest
  <2>2. (1 = 1 /\ ~rsx.PipedI) = ~rsx.PipedI
    OBVIOUS
  <2>3. QED
    BY <1>2, <2>1, <2>2, Zenon
<1>4. PICK ops \in Seq(Operator) : ops = Cmd.ops
  BY <1>2 DEF Command
<1>5. /\ DOMAIN ops = 1 .. Len(ops) /\ Len(ops) \in Nat
      /\ \A j \in 1 .. Len(ops) : ops[j] \in Operator /\ ops[j].file \notin {PIPEIN, PIPEOUT}
                                  /\ (ops[j].op \in Pipes => j = Len(ops))
  <2>1. DOMAIN ops = 1 .. Len(ops) /\ Len(ops) \in Nat
    BY LenProperties
  <2>2. \A j \in 1 .. Len(ops) : ops[j] \in Operator
    BY ElementOfSeq
  <2>3. \A j \in DOMAIN ops : ops[j].file \notin {PIPEIN, PIPEOUT} /\ (ops[j].op \in Pipes => j = Len(ops))
    <3>1. \A j \in DOMAIN Cmd.ops : /\ Cmd.ops[j].file \notin {PIPEIN, PIPEOUT}
                                    /\ Cmd.ops[j].op \in Pipes => j = Len(Cmd.ops)
      BY <1>3, Zenon DEF UsualCommand
    <3>2. QED
      BY <1>4, <3>1
  <2>4. QED
    BY <2>1, <2>2, <2>3
<1>6. ASSUME Has(ops, Outputs)
      PROVE  /\ OutFile(ops) # PIPEIN /\ OutFile(ops) \in Names
             /\ OutFile(ops) = PIPEOUT <=> Has(ops, Pipes)
  <2>1. PICK i \in 1 .. Len(ops) : /\ Final(ops, Outputs) = ops[i] /\ ops[i].op \in Outputs
                                   /\ \A j \in Places(ops, Outputs) : j <= i
    BY <1>6, FinalFacts
  <2>2. ops[i].file \in Names /\ ops[i].file \notin {PIPEIN, PIPEOUT}
    BY <1>5 DEF Operator, Names
  <2>3. OutFile(ops) # PIPEIN /\ OutFile(ops) \in Names /\ (OutFile(ops) = PIPEOUT <=> ops[i].op \in Pipes)
    <3>1. OutFile(ops) = IF ops[i].op \in Pipes THEN PIPEOUT ELSE ops[i].file
      BY <2>1 DEF OutFile
    <3>2. PIPEOUT \in Names /\ PIPEOUT # PIPEIN
      BY DEF PIPEIN, PIPEOUT, Names, Temps
    <3>3. QED
      BY <2>2, <3>1, <3>2
  <2>4. ops[i].op \in Pipes => Has(ops, Pipes)
    BY <1>5 DEF Has, Places
  <2>5. Has(ops, Pipes) => ops[i].op \in Pipes
    <3>1. SUFFICES ASSUME Has(ops, Pipes) PROVE ops[i].op \in Pipes
      OBVIOUS
    <3>2. PICK j \in 1 .. Len(ops) : ops[j].op \in Pipes
      BY <1>5, <3>1 DEF Has, Places
    <3>3. j \in Places(ops, Outputs)
      BY <1>5, <3>2 DEF Places, Outputs
    <3>4. j <= i /\ j = Len(ops)
      BY <1>5, <2>1, <3>2, <3>3
    <3>5. j = i
      <4>1. Len(ops) \in Nat
        BY <1>5
      <4>2. QED
        BY <3>4, <4>1
    <3>6. QED
      BY <3>2, <3>5
  <2>6. QED
    BY <2>3, <2>4, <2>5
<1>7. ASSUME Has(ops, Inputs)
      PROVE  InFile(ops) \notin Temps /\ InFile(ops) \in Names
  <2>1. PICK i \in 1 .. Len(ops) : Final(ops, Inputs) = ops[i]
    BY <1>7, FinalFacts
  <2>2. QED
    BY <1>5, <2>1 DEF Operator, InFile, Temps, Names
<1>8. QED
  BY <1>2, <1>3, <1>4, <1>6, <1>7

(***************************************************************************)
(* Where appending begins.                                                 *)
(***************************************************************************)
LEMMA TextFacts ==
    ASSUME NEW f, FileOK(f), Appendable(f)
    PROVE  /\ Records(f) - 1 \in Nat
           /\ (Records(f) - 1) * RECSIZE \in Nat
           /\ Len(f.recs) = (Records(f) - 1) * RECSIZE + RECSIZE
           /\ Used(f) \in 1 .. RECSIZE - 1
           /\ Text(f) \in Seq(Nat) /\ Len(Text(f)) = (Records(f) - 1) * RECSIZE + Used(f)
           /\ \A i \in 1 .. Len(Text(f)) : Text(f)[i] = f.recs[i]
<1> DEFINE last == Record(f, Records(f) - 1)
<1>1. /\ RECSIZE \in Nat \ {0} /\ f.recs \in Seq(Nat) /\ f.unused \in 0 .. RECSIZE - 1
      /\ Len(f.recs) \in Nat /\ f.recs # <<>> /\ Len(f.recs) % RECSIZE = 0
  BY LenProperties, Sizes DEF FileOK, File, Appendable
<1>2. Records(f) \in Nat /\ Records(f) * RECSIZE = Len(f.recs) /\ Len(f.recs) > 0
  <2>1. PICK n \in Nat : n = Len(f.recs)
    BY <1>1
  <2>2. n \div RECSIZE \in Nat /\ (n \div RECSIZE) * RECSIZE = n
    BY <1>1, <2>1, WholeRecords
  <2>3. n > 0
    BY <1>1, <2>1, EmptySeq
  <2>4. QED
    BY <2>1, <2>2, <2>3 DEF Records
<1>3. Records(f) - 1 \in Nat
  <2>1. 0 * RECSIZE < Records(f) * RECSIZE
    BY <1>1, <1>2
  <2>2. QED
    BY <1>1, <1>2, <2>1, FewerTimes
<1>4. PICK b \in Nat : b = (Records(f) - 1) * RECSIZE
  BY <1>1, <1>3
<1>5. Len(f.recs) = b + RECSIZE
  <2>1. b = Records(f) * RECSIZE - RECSIZE
    BY <1>1, <1>2, <1>4, OneMore
  <2>2. QED
    BY <1>1, <1>2, <2>1
<1>6. last \in Block /\ \A i \in 1 .. RECSIZE : last[i] = f.recs[b + i]
  <2>1. PICK n \in Nat : n = Records(f) - 1
    BY <1>3
  <2>2. b = n * RECSIZE /\ b + RECSIZE <= Len(f.recs)
    BY <1>1, <1>4, <1>5, <2>1
  <2>3. Record(f, n) \in Block /\ \A i \in 1 .. RECSIZE : Record(f, n)[i] = f.recs[b + i]
    BY <1>1, <2>2, RecordFacts
  <2>4. QED
    BY <2>1, <2>3
<1> HIDE DEF last
<1>7. CASE f.unused # 0
  <2>1. Used(f) = RECSIZE - f.unused
    BY <1>7 DEF Used
  <2>2. Text(f) = Exact(f)
    BY <1>7 DEF Text
  <2>3. f.unused \in Nat /\ f.unused <= Len(f.recs) /\ Len(f.recs) - f.unused = b + Used(f)
    <3>1. PICK u \in 0 .. RECSIZE - 1 : u = f.unused
      BY <1>1
    <3>2. u \in Nat /\ u <= b + RECSIZE /\ (b + RECSIZE) - u = b + (RECSIZE - u)
      BY <1>1
    <3>3. QED
      BY <1>5, <2>1, <3>1, <3>2
  <2>4. /\ Exact(f) \in Seq(Nat)
        /\ Len(Exact(f)) = IF f.unused <= Len(f.recs) THEN Len(f.recs) - f.unused ELSE 0
        /\ \A i \in 1 .. Len(Exact(f)) : Exact(f)[i] = f.recs[i]
    BY <1>1, <2>3, ExactFacts
  <2>5. Len(Text(f)) = b + Used(f)
    BY <2>2, <2>3, <2>4
  <2>6. Used(f) \in 1 .. RECSIZE - 1
    BY <1>1, <1>7, <2>1
  <2>7. QED
    BY <1>3, <1>4, <1>5, <2>2, <2>4, <2>5, <2>6
<1>8. CASE f.unused = 0
  <2> DEFINE marks == {k \in 1 .. RECSIZE : last[k] = MARK}
             ends  == {k \in Len(f.recs) - RECSIZE + 1 .. Len(f.recs) : f.recs[k] = MARK}
             least == CHOOSE k \in marks : \A j \in marks : k <= j
             first == CHOOSE k \in ends : \A j \in ends : k <= j
  <2>1. marks # {} /\ 1 \notin marks /\ marks \subseteq Nat
    BY <1>1, <1>8 DEF Appendable, last
  <2>2. \E k \in marks : \A j \in marks : k <= j
    BY <2>1, LeastNatural
  <2>3. least \in marks /\ \A j \in marks : least <= j
    BY <2>2
  <2>4. PICK m \in 2 .. RECSIZE : m = least /\ last[m] = MARK /\ \A j \in marks : m <= j
    <3>1. \A k \in marks : k # 1 => k \in 2 .. RECSIZE /\ last[k] = MARK
      BY <1>1
    <3>2. least \in 2 .. RECSIZE /\ last[least] = MARK
      BY <2>1, <2>3, <3>1
    <3>3. QED
      BY <2>3, <3>2
  <2> HIDE DEF least
  <2>5. b + m \in ends
    <3>1. PICK k \in 1 .. RECSIZE : k = m
      BY <1>1, <2>4
    <3>2. f.recs[b + k] = MARK
      BY <1>6, <2>4, <3>1
    <3>3. b + k \in Len(f.recs) - RECSIZE + 1 .. Len(f.recs)
      BY <1>1, <1>5, <3>1
    <3>4. QED
      BY <3>1, <3>2, <3>3
  <2>6. \A j \in ends : b + m <= j
    <3> SUFFICES ASSUME NEW j \in ends PROVE b + m <= j
      OBVIOUS
    <3>1. PICK k \in 1 .. RECSIZE : j = b + k
      <4>1. j - b \in 1 .. RECSIZE /\ j = b + (j - b)
        BY <1>1, <1>5
      <4>2. QED
        BY <4>1
    <3>2. last[k] = MARK
      BY <1>6, <3>1
    <3>3. m <= k
      BY <2>4, <3>2
    <3>4. QED
      BY <1>1, <1>5, <2>4, <3>1, <3>3
  <2>7. first \in ends /\ \A j \in ends : first <= j
    BY <2>5, <2>6
  <2>8. first = b + m
    <3> HIDE DEF first
    <3>0. \A k \in ends : k \in Int
      BY <1>1
    <3>1. PICK e \in Int : e = first
      <4>1. first \in ends
        BY <2>7
      <4> HIDE DEF ends
      <4>2. QED
        BY <3>0, <4>1
    <3>2. PICK k \in Int : k = b + m
      BY <1>1
    <3>3. e <= k /\ k <= e
      BY <2>5, <2>6, <2>7, <3>1, <3>2
    <3>4. QED
      BY <3>1, <3>2, <3>3
  <2>9. Used(f) = m - 1
    BY <1>8, <2>1, <2>4 DEF Used, last, least
  <2>10. Text(f) = SubSeq(f.recs, 1, first - 1)
    BY <1>1, <1>8, <2>5 DEF Text
  <2> HIDE DEF first
  <2>11. PICK n \in Nat : n = first - 1 /\ n <= Len(f.recs) /\ n = b + Used(f)
    BY <1>1, <1>5, <2>4, <2>8, <2>9
  <2>12. /\ Text(f) \in Seq(Nat) /\ Len(Text(f)) = n
         /\ \A i \in 1 .. n : Text(f)[i] = f.recs[i]
    BY <1>1, <2>10, <2>11, Prefix
  <2>13. Used(f) \in 1 .. RECSIZE - 1
    BY <1>1, <2>4, <2>9
  <2>14. QED
    BY <1>3, <1>4, <1>5, <2>11, <2>12, <2>13
<1>9. QED
  BY <1>7, <1>8

-----------------------------------------------------------------------------
(***************************************************************************)
(* Reading.                                                                *)
(***************************************************************************)
\* The fields that reading is about, and those it leaves alone.
SameIn(r, s) ==
    /\ s.infcb = r.infcb /\ s.pclosed = r.pclosed /\ s.inlen = r.inlen /\ s.inrec = r.inrec
    /\ s.inptr = r.inptr /\ s.inbuf = r.inbuf /\ s.ineof = r.ineof

SameOut(r, s) ==
    /\ s.PipedI = r.PipedI /\ s.PipedO = r.PipedO /\ s.outflg = r.outflg /\ s.errflg = r.errflg
    /\ s.oapp = r.oapp /\ s.infcb = r.infcb
    /\ s.outfcb = r.outfcb /\ s.outrec = r.outrec /\ s.outptr = r.outptr /\ s.outbuf = r.outbuf

Kept(r, s) == /\ SameOut(r, s) /\ s \in Regs
              /\ s.awake => r.awake
              /\ r.inflg => s.inflg

\* A reader that had taken n bytes has taken the next k,
Yields(r, n, a, k) ==
    /\ Kept(r, a.r) /\ At(a.r, disk, prev, n + k)
    /\ k \in Nat /\ n + k <= Len(prev)
    /\ a.n = k /\ a.raw \in Seq(Bytes)
    /\ a.eof \in BOOLEAN
    /\ a.eof => n + k = Len(prev)
    /\ k = 0 => a.eof

\* and has returned the one it took, if there was one.
Returns(r, n, a, k) ==
    /\ Yields(r, n, a, k)
    /\ a.raw = SubSeq(prev, n + 1, n + k)
    /\ k = 1 => ~a.eof /\ a.raw = <<prev[n + 1]>>

LEMMA AtStays ==
    ASSUME NEW r, NEW s, NEW d, NEW p, NEW n, At(r, d, p, n), SameIn(r, s)
    PROVE  At(s, d, p, n)
  BY DEF At, SameIn

LEMMA KeptTwice ==
    ASSUME NEW r, NEW s, NEW t, Kept(r, s), Kept(s, t)
    PROVE  Kept(r, t)
  BY DEF Kept, SameOut

LEMMA OpenFacts ==
    ASSUME NEW r \in Regs, NEW d, r.infcb \in DOMAIN d \ Devices, FileOK(d[r.infcb]),
           r.inptr = RECSIZE, NEW s, s = openin([r |-> r, d |-> d])
    PROVE  /\ s \in Regs /\ SameOut(r, s) /\ At(s, d, Exact(d[r.infcb]), 0)
           /\ s.inflg /\ s.awake /\ s.inptr = RECSIZE /\ s.lastin = 0
<1> DEFINE f == d[r.infcb]
<1>1. PICK n \in Nat : n = Len(Exact(f))
  <2>1. f.recs \in Seq(Nat) /\ f.unused \in Nat
    BY FileFacts
  <2>2. Exact(f) \in Seq(Nat)
    BY <2>1, ExactFacts
  <2>3. QED
    BY <2>2, LenProperties
<1>2. s = [r EXCEPT !.inlen = n, !.inrec = 0, !.hooked = TRUE, !.pclosed = FALSE,
                    !.ineof = FALSE, !.lastin = 0, !.inflg = TRUE, !.awake = TRUE]
  BY <1>1 DEF openin, BytesIn
<1>3. s \in Regs
  <2>1. PICK u : u = [r EXCEPT !.inlen = n, !.inrec = 0, !.hooked = TRUE, !.pclosed = FALSE]
    OBVIOUS
  <2>2. u \in Regs
    BY <2>1 DEF Regs
  <2>3. PICK v : v = [u EXCEPT !.ineof = FALSE, !.lastin = 0]
    OBVIOUS
  <2>4. v \in Regs
    BY <2>2, <2>3 DEF Regs
  <2>5. s = [v EXCEPT !.inflg = TRUE, !.awake = TRUE]
    BY <1>2, <2>1, <2>3
  <2>6. QED
    BY <2>4, <2>5 DEF Regs
<1>4. SameOut(r, s)
  BY <1>2 DEF Regs, SameOut
<1>5. /\ s.inlen = n /\ s.inrec = 0 /\ s.pclosed = FALSE /\ s.ineof = FALSE /\ s.inptr = RECSIZE
      /\ s.infcb = r.infcb /\ s.inflg /\ s.awake /\ s.lastin = 0
  BY <1>2 DEF Regs
<1>6. At(s, d, Exact(f), 0)
  <2>1. 0 + RECSIZE = (s.inrec * RECSIZE) + s.inptr
    BY <1>5, Sizes
  <2>2. \A i \in (s.inptr + 1) .. RECSIZE : s.inbuf[i] = d[s.infcb].recs[0 - s.inptr + i]
    BY <1>5, Sizes
  <2>3. s.infcb \in DOMAIN d \ Devices /\ ~s.pclosed /\ Exact(d[s.infcb]) = Exact(f)
    BY <1>5
  <2>4. 0 \in Nat /\ s.inlen + 0 = Len(Exact(f)) /\ (s.inlen > 0 => ~s.ineof)
    BY <1>1, <1>5
  <2>5. QED
    BY <2>1, <2>2, <2>3, <2>4 DEF At
<1>7. QED
  BY <1>3, <1>4, <1>5, <1>6

\* The next record, when the last one has been read.
LEMMA RdibufFacts ==
    ASSUME NEW r \in Regs, NEW n, At(r, disk, prev, n), FileOK(disk[r.infcb]), n < Len(prev),
           r.inptr = RECSIZE, NEW s, s = rdibuf(r)
    PROVE  /\ Kept(r, s) /\ At(s, disk, prev, n) /\ s.inptr = 0 /\ s.inlen = r.inlen /\ s.ineof = r.ineof
           /\ s.lastin = r.lastin
<1> DEFINE f == disk[r.infcb]
           b == r.inrec * RECSIZE
<1>1. /\ RECSIZE \in Nat \ {0} /\ f.recs \in Seq(Nat) /\ f.unused \in Nat /\ Len(f.recs) \in Nat
      /\ Len(f.recs) % RECSIZE = 0 /\ r.inrec \in Nat /\ n \in Nat
      /\ r.infcb \in DOMAIN disk \ Devices /\ Exact(f) = prev
  <2>1. r.inrec \in Nat
    BY DEF Regs
  <2>2. n \in Nat /\ r.infcb \in DOMAIN disk \ Devices /\ Exact(f) = prev
    BY DEF At
  <2>3. f.recs \in Seq(Nat) /\ f.unused \in Nat /\ Len(f.recs) % RECSIZE = 0
    BY FileFacts
  <2>4. QED
    BY <2>1, <2>2, <2>3, Sizes, LenProperties
<1>2. Len(prev) \in Nat /\ Len(prev) <= Len(f.recs)
  <2>1. Len(Exact(f)) = IF f.unused <= Len(f.recs) THEN Len(f.recs) - f.unused ELSE 0
    BY <1>1, ExactFacts
  <2>2. QED
    BY <1>1, <2>1
<1>3. b \in Nat /\ n = b
  <2>1. b \in Nat
    BY <1>1
  <2>2. n + RECSIZE = b + RECSIZE
    BY DEF At
  <2> HIDE DEF b
  <2>3. QED
    BY <1>1, <2>1, <2>2
<1>4. Records(f) \in Nat /\ Records(f) * RECSIZE = Len(f.recs)
  <2>1. PICK l \in Nat : l = Len(f.recs)
    BY <1>1
  <2>2. l \div RECSIZE \in Nat /\ (l \div RECSIZE) * RECSIZE = l
    BY <1>1, <2>1, WholeRecords
  <2>3. QED
    BY <2>1, <2>2 DEF Records
<1>5. r.inrec < Records(f)
  <2>1. b < Records(f) * RECSIZE
    <3> HIDE DEF b
    <3>1. QED
      BY <1>1, <1>2, <1>3, <1>4
  <2>2. QED
    BY <1>1, <1>4, <2>1, FewerTimes
<1>6. b + RECSIZE <= Len(f.recs)
  <2>1. PICK k \in Nat : Records(f) = (r.inrec + 1) + k
    <3>1. Records(f) - (r.inrec + 1) \in Nat
      BY <1>1, <1>4, <1>5
    <3>2. QED
      BY <1>1, <1>4, <3>1
  <2>2. PICK j \in Nat : j = r.inrec
    BY <1>1
  <2>3. k * RECSIZE \in Nat /\ (j + 1) * RECSIZE = (j * RECSIZE) + RECSIZE
    BY <1>1, OneMore
  <2>4. ((j + 1) + k) * RECSIZE = ((j + 1) * RECSIZE) + (k * RECSIZE)
    BY <1>1
  <2>5. PICK e \in Nat : e = k * RECSIZE
    BY <2>3
  <2>6. Len(f.recs) = (b + RECSIZE) + e
    BY <1>4, <2>1, <2>2, <2>3, <2>4, <2>5
  <2> HIDE DEF b
  <2>7. QED
    BY <1>1, <1>3, <2>6
<1>7. PICK x \in Block : /\ x = Record(f, r.inrec)
                         /\ \A i \in 1 .. RECSIZE : x[i] = f.recs[n + i]
  <2>1. PICK k \in Nat : k = r.inrec
    BY <1>1
  <2>2. n = k * RECSIZE /\ n + RECSIZE <= Len(f.recs)
    BY <1>3, <1>6, <2>1
  <2>3. PICK g : g = f
    OBVIOUS
  <2>4. g.recs \in Seq(Nat) /\ n + RECSIZE <= Len(g.recs) /\ n \in Nat
    BY <1>1, <2>2, <2>3
  <2>5. Record(g, k) \in Block /\ \A i \in 1 .. RECSIZE : Record(g, k)[i] = g.recs[n + i]
    BY <2>2, <2>4, RecordFacts
  <2>6. QED
    BY <2>1, <2>3, <2>5
<1>8. s = [r EXCEPT !.inbuf = x, !.inrec = @ + 1, !.inptr = 0]
  BY <1>1, <1>5, <1>7 DEF rdibuf
<1>9. s \in Regs /\ SameOut(r, s) /\ (s.awake => r.awake) /\ (r.inflg => s.inflg)
  <2>1. 0 \in 0 .. RECSIZE /\ r.inrec + 1 \in Nat
    BY <1>1
  <2>2. PICK i \in Nat : i = r.inrec + 1
    BY <2>1
  <2>3. s = [r EXCEPT !.inbuf = x, !.inrec = i, !.inptr = 0]
    BY <1>8, <2>2
  <2>4. s \in Regs
    BY <2>1, <2>3 DEF Regs
  <2>5. SameOut(r, s)
    BY <2>3 DEF Regs, SameOut
  <2>6. s.awake = r.awake /\ s.inflg = r.inflg
    BY <2>3 DEF Regs
  <2>7. QED
    BY <2>4, <2>5, <2>6
<1>10. /\ s.inlen = r.inlen /\ s.inrec = r.inrec + 1 /\ s.pclosed = r.pclosed /\ s.ineof = r.ineof
       /\ s.inptr = 0 /\ s.infcb = r.infcb /\ s.inbuf = x /\ s.lastin = r.lastin
  BY <1>8 DEF Regs
<1>11. n + RECSIZE = (s.inrec * RECSIZE) + s.inptr
  <2>1. (r.inrec + 1) * RECSIZE = b + RECSIZE
    BY <1>1, OneMore
  <2> HIDE DEF b
  <2>2. QED
    BY <1>1, <1>3, <1>10, <2>1
<1>12. \A i \in (s.inptr + 1) .. RECSIZE : s.inbuf[i] = disk[s.infcb].recs[n - s.inptr + i]
  <2> SUFFICES ASSUME NEW i \in (s.inptr + 1) .. RECSIZE
               PROVE  s.inbuf[i] = disk[s.infcb].recs[n - s.inptr + i]
    OBVIOUS
  <2>1. i \in 1 .. RECSIZE /\ n - s.inptr + i = n + i
    BY <1>1, <1>10
  <2>2. QED
    BY <1>7, <1>10, <2>1
<1>13. At(s, disk, prev, n)
  BY <1>10, <1>11, <1>12 DEF At
<1>14. QED
  BY <1>9, <1>10, <1>13 DEF Kept

LEMMA BytinFacts ==
    ASSUME NEW r \in Regs, NEW n, At(r, disk, prev, n), FileOK(disk[r.infcb]), prev \in Seq(Bytes),
           NEW a, a = bytin(r)
    PROVE  \E k \in {0, 1} : Returns(r, n, a, k) /\ a.r.lastin = r.lastin
<1> DEFINE f == disk[r.infcb]
<1>1. /\ RECSIZE \in Nat \ {0} /\ f.recs \in Seq(Nat) /\ f.unused \in Nat
      /\ n \in Nat /\ Len(prev) \in Nat /\ r.inlen \in Nat /\ r.inlen + n = Len(prev)
      /\ r.inptr \in 0 .. RECSIZE /\ r.infcb \notin Devices /\ Exact(f) = prev
  BY Sizes, LenProperties DEF FileOK, File, At, Regs
<1>2. CASE r.inlen = 0
  <2>1. a = Answer(r, 0, <<>>, TRUE)
    BY <1>2 DEF bytin
  <2>2. a.r = r /\ a.n = 0 /\ a.raw = <<>> /\ a.eof = TRUE
    BY <2>1 DEF Answer
  <2>3. n + 0 = n /\ n = Len(prev) /\ n < n + 1
    BY <1>1, <1>2
  <2>4. SubSeq(prev, n + 1, n + 0) = <<>>
    BY <1>1, <2>3, SubSeqEmpty
  <2>5. Kept(r, a.r)
    BY <2>2 DEF Kept, SameOut
  <2>6. Yields(r, n, a, 0)
    <3>1. At(a.r, disk, prev, n + 0)
      BY <2>2, <2>3
    <3>2. n + 0 = Len(prev) /\ n + 0 <= Len(prev) /\ 0 \in Nat
      BY <1>1, <2>3
    <3>3. a.n = 0 /\ a.raw \in Seq(Bytes) /\ a.eof \in BOOLEAN /\ a.eof
      <4>1. <<>> \in Seq(Bytes)
        OBVIOUS
      <4>2. QED
        BY <2>2, <4>1, Zenon
    <3>4. QED
      BY <2>5, <3>1, <3>2, <3>3, Zenon DEF Yields
  <2>7. ~(0 = 1)
    OBVIOUS
  <2>8. Returns(r, n, a, 0)
    BY <2>2, <2>4, <2>6, <2>7 DEF Returns
  <2>9. QED
    BY <2>2, <2>8
<1>3. CASE r.inlen # 0
  <2>1. PICK s : s = IF r.inptr >= RECSIZE THEN rdibuf(r) ELSE r
    OBVIOUS
  <2>2. r.inlen > 0 /\ ~r.ineof /\ n < Len(prev)
    BY <1>1, <1>3 DEF At
  <2>3. /\ Kept(r, s) /\ At(s, disk, prev, n) /\ s.inptr \in 0 .. RECSIZE - 1
        /\ s.inlen = r.inlen /\ s.ineof = r.ineof /\ s.infcb = r.infcb /\ s.lastin = r.lastin
    <3>1. CASE r.inptr >= RECSIZE
      <4>1. r.inptr = RECSIZE /\ s = rdibuf(r)
        BY <1>1, <2>1, <3>1
      <4>2. /\ Kept(r, s) /\ At(s, disk, prev, n) /\ s.inptr = 0 /\ s.inlen = r.inlen
             /\ s.ineof = r.ineof /\ s.lastin = r.lastin
        BY <2>2, <4>1, RdibufFacts
      <4>3. QED
        BY <1>1, <4>2 DEF Kept, SameOut
    <3>2. CASE ~(r.inptr >= RECSIZE)
      <4>1. s = r /\ r.inptr \in 0 .. RECSIZE - 1
        BY <1>1, <2>1, <3>2
      <4>2. QED
        BY <4>1 DEF Kept, SameOut
    <3>3. QED
      BY <3>1, <3>2
  <2>4. /\ s \in Regs /\ s.inrec \in Nat /\ s.inptr + 1 \in 1 .. RECSIZE /\ s.inlen - 1 \in Nat
        /\ s.inptr \in Nat
    <3>1. s \in Regs
      BY <2>3 DEF Kept
    <3>2. s.inrec \in Nat
      BY <3>1 DEF Regs
    <3>3. s.inptr \in 0 .. RECSIZE - 1 /\ s.inlen = r.inlen
      BY <2>3
    <3>4. s.inptr + 1 \in 1 .. RECSIZE /\ s.inlen - 1 \in Nat /\ s.inptr \in Nat
      BY <1>1, <2>2, <3>3
    <3>5. QED
      BY <3>1, <3>2, <3>4
  <2>5. PICK x : x = s.inbuf[s.inptr + 1]
    OBVIOUS
  <2>6. a = Answer([s EXCEPT !.inlen = @ - 1, !.inptr = @ + 1], 1, <<x>>, FALSE)
    BY <1>1, <1>3, <2>1, <2>2, <2>5 DEF bytin
  <2>7. PICK t : t = [s EXCEPT !.inlen = @ - 1, !.inptr = @ + 1]
    OBVIOUS
  <2>8. a.r = t /\ a.n = 1 /\ a.raw = <<x>> /\ a.eof = FALSE
    BY <2>6, <2>7 DEF Answer
  <2>9. t \in Regs /\ SameOut(s, t) /\ (t.awake => s.awake) /\ (s.inflg => t.inflg)
    <3>1. s.inptr + 1 \in 0 .. RECSIZE
      BY <1>1, <2>4
    <3>2. t \in Regs
      BY <2>4, <2>7, <3>1 DEF Regs
    <3>3. SameOut(s, t)
      BY <2>4, <2>7 DEF Regs, SameOut
    <3>4. t.awake = s.awake /\ s.inflg = t.inflg
      BY <2>4, <2>7 DEF Regs
    <3>5. QED
      BY <3>2, <3>3, <3>4
  <2>10. /\ t.inlen = s.inlen - 1 /\ t.inrec = s.inrec /\ t.pclosed = s.pclosed /\ t.ineof = s.ineof
         /\ t.inptr = s.inptr + 1 /\ t.infcb = s.infcb /\ t.inbuf = s.inbuf
         /\ t.lastin = s.lastin
    BY <2>4, <2>7 DEF Regs
  <2>11. PICK b \in Nat : b = s.inrec * RECSIZE /\ n + RECSIZE = b + s.inptr
    BY <1>1, <2>3, <2>4 DEF At
  <2>12. At(t, disk, prev, n + 1)
    <3>1. t.infcb \in DOMAIN disk \ Devices /\ ~t.pclosed /\ Exact(disk[t.infcb]) = prev
      BY <2>3, <2>10 DEF At
    <3>2. n + 1 \in Nat /\ t.inlen + (n + 1) = Len(prev)
      BY <1>1, <2>3, <2>4, <2>10
    <3>3. (n + 1) + RECSIZE = (t.inrec * RECSIZE) + t.inptr
      <4>1. (n + 1) + RECSIZE = b + (s.inptr + 1)
        <5>1. PICK j \in Nat : j = s.inptr
          BY <2>4
        <5>2. n + RECSIZE = b + j
          BY <2>11, <5>1
        <5>3. (n + 1) + RECSIZE = b + (j + 1)
          BY <1>1, <5>2
        <5>4. QED
          BY <5>1, <5>3
      <4>2. QED
        BY <2>10, <2>11, <4>1
    <3>4. ASSUME NEW i \in (t.inptr + 1) .. RECSIZE
          PROVE  t.inbuf[i] = disk[t.infcb].recs[(n + 1) - t.inptr + i]
      <4>0. PICK j \in Nat : j = s.inptr
        BY <2>4
      <4>1. i \in (s.inptr + 1) .. RECSIZE /\ (n + 1) - t.inptr + i = n - s.inptr + i
        <5>1. i \in (j + 1) + 1 .. RECSIZE /\ t.inptr = j + 1
          BY <2>10, <4>0
        <5>2. i \in j + 1 .. RECSIZE /\ (n + 1) - (j + 1) + i = n - j + i
          BY <1>1, <5>1
        <5>3. QED
          BY <4>0, <5>1, <5>2
      <4>2. s.inbuf[i] = disk[s.infcb].recs[n - s.inptr + i]
        BY <2>3, <4>1 DEF At
      <4>3. QED
        BY <2>10, <4>1, <4>2
    <3>5. t.inlen > 0 => ~t.ineof
      BY <2>2, <2>3, <2>10
    <3>6. QED
      BY <3>1, <3>2, <3>3, <3>4, <3>5 DEF At
  <2>13. x = prev[n + 1]
    <3>1. PICK i \in (s.inptr + 1) .. RECSIZE : i = s.inptr + 1
      BY <1>1, <2>4
    <3>2. s.inbuf[i] = disk[s.infcb].recs[n - s.inptr + i]
      BY <2>3 DEF At
    <3>3. n - s.inptr + i = n + 1
      BY <1>1, <2>4, <3>1
    <3>4. \A j \in 1 .. Len(Exact(f)) : Exact(f)[j] = f.recs[j]
      BY <1>1, ExactFacts
    <3>5. n + 1 \in 1 .. Len(prev)
      BY <1>1, <2>2
    <3>6. QED
      BY <1>1, <2>3, <2>5, <3>1, <3>2, <3>3, <3>4, <3>5
  <2>14. SubSeq(prev, n + 1, n + 1) = <<prev[n + 1]>> /\ <<prev[n + 1]>> \in Seq(Bytes)
    <3>1. PICK m \in 1 .. Len(prev) : m = n + 1
      BY <1>1, <2>2
    <3>2. m \in m .. Len(prev)
      BY <1>1
    <3>3. SubSeq(prev, m, m) = SubSeq(prev, m, m - 1) \o <<prev[m]>>
      BY <3>2, SubSeqRecursiveSecond
    <3>4. SubSeq(prev, m, m - 1) = <<>>
      BY <1>1, SubSeqEmpty
    <3>5. prev[m] \in Bytes
      BY ElementOfSeq
    <3>6. <<prev[m]>> \in Seq(Bytes)
      BY <3>5
    <3>7. QED
      BY <3>1, <3>3, <3>4, <3>6, ConcatEmptySeq
  <2>15. Kept(r, t)
    <3>1. Kept(s, t)
      BY <2>9 DEF Kept
    <3>2. QED
      BY <2>3, <3>1, KeptTwice
  <2>16. n + 1 <= Len(prev) /\ 1 \in Nat
    BY <1>1, <2>2
  <2>17. Returns(r, n, a, 1)
    <3>1. Kept(r, a.r) /\ At(a.r, disk, prev, n + 1)
      BY <2>8, <2>12, <2>15
    <3>2. a.raw = SubSeq(prev, n + 1, n + 1) /\ a.raw = <<prev[n + 1]>> /\ a.raw \in Seq(Bytes)
      BY <2>8, <2>13, <2>14
    <3>3. a.eof \in BOOLEAN /\ ~a.eof /\ ~(1 = 0)
      <4>1. ~(1 = 0)
        OBVIOUS
      <4>2. a.eof \in BOOLEAN /\ ~a.eof
        BY <2>8, Zenon
      <4>3. QED
        BY <4>1, <4>2
    <3>4. Yields(r, n, a, 1)
      BY <2>8, <2>16, <3>1, <3>2, <3>3, Zenon DEF Yields
    <3>5. QED
      BY <3>2, <3>3, <3>4, Zenon DEF Returns
  <2>18. a.r.lastin = r.lastin
    BY <2>3, <2>8, <2>10
  <2>19. QED
    BY <2>17, <2>18
<1>4. QED
  BY <1>2, <1>3


\* The first read of a plain command opens the pipe.
LEMMA PbytinFacts ==
    ASSUME NEW r \in Regs, NEW n \in Nat,
           At(r, disk, prev, n) \/ (Waits(r, disk, prev) /\ n = 0),
           FileOK(disk[r.infcb]), prev \in Seq(Bytes), NEW a, a = pbytin(r)
    PROVE  \E k \in {0, 1} : /\ Returns(r, n, a, k)
                             /\ a.r.lastin = IF Waits(r, disk, prev) THEN 0 ELSE r.lastin
<1>1. CASE At(r, disk, prev, n)
  <2>1. ~r.pclosed
    BY <1>1 DEF At
  <2>2. a = bytin(r)
    BY <2>1 DEF pbytin
  <2>3. ~Waits(r, disk, prev)
    BY <2>1 DEF Waits
  <2>4. QED
    BY <1>1, <2>2, <2>3, BytinFacts
<1>2. CASE Waits(r, disk, prev) /\ n = 0
  <2>1. /\ r.pclosed /\ r.inptr = RECSIZE /\ r.infcb \in DOMAIN disk \ Devices
        /\ Exact(disk[r.infcb]) = prev
    BY <1>2 DEF Waits, Devices, PIPEIN
  <2>2. PICK s : s = openin([r |-> r, d |-> disk])
    OBVIOUS
  <2>3. /\ s \in Regs /\ SameOut(r, s) /\ At(s, disk, prev, 0)
        /\ s.inflg /\ s.awake /\ s.inptr = RECSIZE /\ s.lastin = 0
    BY <2>1, <2>2, OpenFacts
  <2>4. PICK t : t = [s EXCEPT !.pclosed = FALSE, !.awake = FALSE]
    OBVIOUS
  <2>5. a = bytin(t)
    BY <2>1, <2>2, <2>4 DEF pbytin
  <2>6. t \in Regs
    <3>1. s \in Regs
      BY <2>3
    <3>2. QED
      BY <2>4, <3>1 DEF Regs
  <2>7. SameOut(s, t) /\ t.inflg = s.inflg
    BY <2>3, <2>4 DEF Regs, SameOut
  <2>8. ~t.awake /\ t.lastin = 0
    BY <2>3, <2>4 DEF Regs
  <2>9. At(t, disk, prev, 0)
    <3>1. /\ t.infcb = s.infcb /\ t.inlen = s.inlen /\ t.inrec = s.inrec
          /\ t.inptr = s.inptr /\ t.inbuf = s.inbuf /\ t.ineof = s.ineof
      BY <2>3, <2>4 DEF Regs
    <3>2. t.pclosed = FALSE /\ ~s.pclosed
      BY <2>3, <2>4 DEF Regs, At
    <3>3. s.pclosed = FALSE
      BY <2>3, <3>2 DEF Regs
    <3>4. SameIn(s, t)
      BY <3>1, <3>2, <3>3 DEF SameIn
    <3>5. QED
      BY <2>3, <3>4, AtStays
  <2>10. Kept(r, t)
    <3>1. SameOut(r, t)
      BY <2>3, <2>7 DEF SameOut
    <3>2. QED
      BY <2>3, <2>6, <2>7, <2>8, <3>1 DEF Kept
  <2>11. FileOK(disk[t.infcb])
    BY <2>10 DEF Kept, SameOut
  <2>12. PICK k \in {0, 1} : Returns(t, 0, a, k) /\ a.r.lastin = 0
    BY <2>5, <2>6, <2>8, <2>9, <2>11, BytinFacts
  <2>13. Returns(r, 0, a, k)
    <3>1. Kept(r, a.r)
      BY <2>10, <2>12, KeptTwice DEF Returns, Yields
    <3>2. QED
      BY <2>12, <3>1 DEF Returns, Yields
  <2>14. QED
    BY <1>2, <2>12, <2>13
<1>3. QED
  BY <1>1, <1>2

LEMMA LineEnds == CR # 0 /\ CR # LF /\ CR # MARK
  BY PipemgrAssumption DEF PipemgrAssumption

\* Two reads, of which the first is thrown away.
LEMMA YieldsTwice ==
    ASSUME NEW r, NEW n \in Nat, NEW a, NEW k, Yields(r, n, a, k), NEW s, Kept(a.r, s),
           NEW z, NEW l, Yields(s, n + k, z, l), prev \in Seq(Bytes)
    PROVE  Yields(r, n, Answer(z.r, a.n + z.n, z.raw, z.eof), k + l)
<1>1. k \in Nat /\ l \in Nat /\ Len(prev) \in Nat /\ n + k <= Len(prev) /\ (n + k) + l <= Len(prev)
  BY LenProperties DEF Yields
<1>2. (n + k) + l = n + (k + l) /\ k + l \in Nat
  BY <1>1
<1>3. a.n + z.n = k + l /\ z.raw \in Seq(Bytes)
  BY DEF Yields
<1>4. Kept(r, z.r)
  BY KeptTwice DEF Yields
<1>5. At(z.r, disk, prev, n + (k + l)) /\ n + (k + l) <= Len(prev)
  BY <1>1, <1>2 DEF Yields
<1>6. z.eof \in BOOLEAN /\ (z.eof => n + (k + l) = Len(prev))
  BY <1>2 DEF Yields
<1>7. k + l = 0 => z.eof
  <2>1. k + l = 0 => l = 0
    BY <1>1
  <2>2. QED
    BY <2>1 DEF Yields
<1> DEFINE b == Answer(z.r, a.n + z.n, z.raw, z.eof)
<1>8. b.r = z.r /\ b.n = k + l /\ b.raw = z.raw /\ b.eof = z.eof
  BY <1>3 DEF Answer
<1> HIDE DEF b
<1>9. Yields(r, n, b, k + l)
  BY <1>2, <1>3, <1>4, <1>5, <1>6, <1>7, <1>8 DEF Yields
<1>10. QED
  BY <1>9 DEF b

\* What is returned is a byte of what was sent, unless the end was told.
LEMMA ReturnFacts ==
    ASSUME NEW r, NEW n \in Nat, NEW a, NEW k \in {0, 1}, Returns(r, n, a, k), ~a.eof,
           prev \in Seq(Bytes)
    PROVE  k = 1 /\ a.raw = <<prev[n + 1]>> /\ a.raw[1] = prev[n + 1] /\ a.raw[1] \in Nat
<1>1. k = 1 /\ a.raw = <<prev[n + 1]>>
  BY DEF Returns, Yields
<1>2. n + 1 \in 1 .. Len(prev)
  <2>1. n + 1 <= Len(prev)
    BY <1>1 DEF Returns, Yields
  <2>2. QED
    BY <2>1, LenProperties
<1>3. PICK x \in Nat : x = prev[n + 1]
  <2>1. prev[n + 1] \in Bytes
    BY <1>2, ElementOfSeq
  <2>2. QED
    BY <2>1, Sizes
<1>4. a.raw = <<x>>
  BY <1>1, <1>3
<1>5. a.raw[1] = x
  BY <1>4
<1>6. QED
  BY <1>1, <1>3, <1>5

\* A reader of lines returns what it took, or leaves out a line feed behind a
\* carriage return.
Leaves(r, n, a, k) ==
    /\ n > 0 /\ n < Len(prev) /\ prev[n] = CR /\ prev[n + 1] = LF
    /\ k > 0 /\ a.raw = SubSeq(prev, n + 2, n + k)
    /\ k = 1 => a.eof

LEMMA QbytinFacts ==
    ASSUME NEW r \in Regs, NEW n \in Nat, ~r.awake,
           At(r, disk, prev, n) \/ (Waits(r, disk, prev) /\ n = 0),
           FileOK(disk[r.infcb]), prev \in Seq(Bytes), NEW q, q = qbytin(r)
    PROVE  \E k \in Nat :
              /\ Yields(r, n, q, k)
              /\ Recent(q.r, prev, n + k)
              /\ \/ q.raw = SubSeq(prev, n + 1, n + k)
                 \/ (Waits(r, disk, prev) \/ Recent(r, prev, n)) => Leaves(r, n, q, k)
<1>1. PICK a : a = pbytin(r)
  OBVIOUS
<1>2. PICK k \in {0, 1} : /\ Returns(r, n, a, k)
                          /\ a.r.lastin = IF Waits(r, disk, prev) THEN 0 ELSE r.lastin
  BY <1>1, PbytinFacts
<1>3. /\ k \in Nat /\ a.eof \in BOOLEAN /\ Kept(r, a.r) /\ At(a.r, disk, prev, n + k) /\ a.r \in Regs
      /\ Yields(r, n, a, k)
  BY <1>2 DEF Returns, Yields, Kept
<1>4. PICK x \in Nat : x = IF a.eof THEN MARK ELSE a.raw[1]
  BY <1>2, <1>3, ReturnFacts, Sizes
<1>5. PICK s : s = [a.r EXCEPT !.lastin = x]
  OBVIOUS
<1>6. s \in Regs /\ s.lastin = x
  BY <1>3, <1>5 DEF Regs
<1>7. SameOut(a.r, s) /\ s.awake = a.r.awake /\ s.inflg = a.r.inflg
  BY <1>3, <1>5 DEF Regs, SameOut
<1>8. SameIn(a.r, s)
  BY <1>3, <1>5 DEF Regs, SameIn
<1>9. At(s, disk, prev, n + k) /\ Kept(a.r, s)
  <2>1. Kept(a.r, s)
    BY <1>6, <1>7 DEF Kept
  <2>2. QED
    BY <1>3, <1>8, <2>1, AtStays
<1>10. PICK z : z = pbytin(s)
  OBVIOUS
<1>11. q = IF a.raw = <<LF>> /\ a.r.lastin = CR THEN Answer(z.r, a.n + z.n, z.raw, z.eof)
           ELSE Answer(s, a.n, a.raw, a.eof)
  <2>1. s = [a.r EXCEPT !.lastin = IF a.eof THEN MARK ELSE a.raw[1]]
    BY <1>4, <1>5
  <2>2. QED
    BY <1>1, <1>10, <2>1, Zenon DEF qbytin
<1>12. CASE a.raw = <<LF>> /\ a.r.lastin = CR
  <2>1. FileOK(disk[s.infcb])
    BY <1>3, <1>9 DEF Kept, SameOut
  <2>2. n + k \in Nat
    BY <1>3
  <2>3. PICK l \in {0, 1} : /\ Returns(s, n + k, z, l)
                            /\ z.r.lastin = IF Waits(s, disk, prev) THEN 0 ELSE s.lastin
    BY <1>6, <1>9, <1>10, <2>1, <2>2, PbytinFacts
  <2>4. Yields(s, n + k, z, l) /\ l \in Nat
    BY <2>3 DEF Returns
  <2>5. q = Answer(z.r, a.n + z.n, z.raw, z.eof)
    BY <1>11, <1>12
  <2>6. Yields(r, n, q, k + l)
    BY <1>3, <1>9, <2>4, <2>5, YieldsTwice
  <2>7. k = 1 /\ ~a.eof /\ a.raw = <<prev[n + 1]>>
    <3>1. k # 0
      <4>1. k = 0 => a.raw = <<>>
        <5>1. ASSUME k = 0 PROVE a.raw = SubSeq(prev, n + 1, n)
          BY <1>2, <5>1 DEF Returns
        <5>2. SubSeq(prev, n + 1, n) = <<>>
          BY SubSeqEmpty
        <5>3. QED
          BY <5>1, <5>2
      <4>2. QED
        BY <1>12, <4>1
    <3>2. QED
      BY <1>2, <3>1 DEF Returns
  <2>8. prev[n + 1] = LF /\ x = LF
    BY <1>4, <1>12, <2>7
  <2>9. Recent(q.r, prev, n + (k + l))
    <3>1. q.r = z.r
      BY <2>5 DEF Answer
    <3>2. ~Waits(s, disk, prev)
      BY <1>9 DEF Waits, At
    <3>3. q.r.lastin = LF
      BY <1>6, <2>3, <2>8, <3>1, <3>2
    <3>4. QED
      BY <3>3, LineEnds DEF Recent
  <2>10. q.raw = SubSeq(prev, n + 2, n + (k + l))
    <3>1. q.raw = z.raw
      BY <2>5 DEF Answer
    <3>2. z.raw = SubSeq(prev, (n + k) + 1, (n + k) + l)
      BY <2>3 DEF Returns
    <3>3. (n + k) + 1 = n + 2 /\ (n + k) + l = n + (k + l)
      BY <2>4, <2>7
    <3>4. QED
      BY <3>1, <3>2, <3>3
  <2>11. (Waits(r, disk, prev) \/ Recent(r, prev, n)) => Leaves(r, n, q, k + l)
    <3> SUFFICES ASSUME Waits(r, disk, prev) \/ Recent(r, prev, n) PROVE Leaves(r, n, q, k + l)
      OBVIOUS
    <3>1. ~Waits(r, disk, prev) /\ r.lastin = CR
      BY <1>2, <1>12, LineEnds
    <3>2. n > 0 /\ prev[n] = CR
      BY <3>1 DEF Recent
    <3>3. n < Len(prev)
      <4>1. n + 1 <= Len(prev)
        BY <1>3, <2>7 DEF Yields
      <4>2. QED
        BY <4>1, LenProperties
    <3>4. k + l > 0 /\ (k + l = 1 => l = 0)
      BY <2>4, <2>7
    <3>5. q.eof = z.eof /\ (l = 0 => z.eof)
      BY <2>4, <2>5 DEF Answer, Yields
    <3>6. QED
      BY <2>8, <2>10, <3>2, <3>3, <3>4, <3>5 DEF Leaves
  <2>12. k + l \in Nat
    BY <1>3, <2>4
  <2>13. QED
    BY <2>6, <2>9, <2>11, <2>12
<1>13. CASE ~(a.raw = <<LF>> /\ a.r.lastin = CR)
  <2>1. q.r = s /\ q.n = a.n /\ q.raw = a.raw /\ q.eof = a.eof
    BY <1>11, <1>13 DEF Answer
  <2>2. Kept(r, s)
    BY <1>3, <1>9, KeptTwice
  <2>3. Yields(r, n, q, k)
    BY <1>3, <1>9, <2>1, <2>2 DEF Yields
  <2>4. Recent(q.r, prev, n + k)
    <3>1. CASE a.eof
      <4>1. q.r.lastin = MARK
        BY <1>4, <1>6, <2>1, <3>1
      <4>2. QED
        BY <4>1, LineEnds DEF Recent
    <3>2. CASE ~a.eof
      <4>1. k = 1 /\ a.raw[1] = prev[n + 1]
        BY <1>2, <3>2, ReturnFacts
      <4>2. q.r.lastin = prev[n + 1]
        BY <1>4, <1>6, <2>1, <3>2, <4>1
      <4>3. ~q.r.awake
        BY <2>1, <2>2 DEF Kept
      <4>4. n + k = n + 1 /\ n + k > 0
        BY <4>1
      <4>5. QED
        BY <4>2, <4>3, <4>4 DEF Recent
    <3>3. QED
      BY <3>1, <3>2
  <2>5. q.raw = SubSeq(prev, n + 1, n + k)
    BY <1>2, <2>1 DEF Returns
  <2>6. QED
    BY <1>3, <2>3, <2>4, <2>5
<1>14. QED
  BY <1>12, <1>13


-----------------------------------------------------------------------------
(***************************************************************************)
(* What the steps of a command leave as it is.                             *)
(***************************************************************************)
LEMMA FirstStays ==
    ASSUME NEW c, NEW first \in BOOLEAN, NEW last, UsualCommand(c, first, last)
    PROVE  UsualCommand(c, TRUE, last)
  BY DEF UsualCommand

LEMMA RestStays ==
    ASSUME Rest, line' = line, old' = old, rsx'.PipedI = rsx.PipedI \/ ~rsx'.PipedI
    PROVE  Rest'
<1>1. CASE rsx'.PipedI = rsx.PipedI
  <2>1. \A i \in 1 .. Len(line) : UsualCommand(line[i], i = 1 /\ ~rsx'.PipedI, i = Len(line))
    <3>1. \A i \in 1 .. Len(line) : UsualCommand(line[i], i = 1 /\ ~rsx.PipedI, i = Len(line))
      BY DEF Rest
    <3>2. QED
      BY <1>1, <3>1, Zenon
  <2>2. QED
    BY <2>1 DEF Rest
<1>2. CASE ~rsx'.PipedI
  <2>1. ASSUME NEW i \in 1 .. Len(line)
        PROVE  UsualCommand(line[i], i = 1 /\ ~rsx'.PipedI, i = Len(line))
    <3>1. UsualCommand(line[i], i = 1 /\ ~rsx.PipedI, i = Len(line))
      BY DEF Rest
    <3>2. CASE i = 1
      <4>1. (i = 1 /\ ~rsx.PipedI) \in BOOLEAN
        OBVIOUS
      <4>2. UsualCommand(line[i], TRUE, i = Len(line))
        BY <3>1, <4>1, FirstStays
      <4>3. (i = 1 /\ ~rsx'.PipedI) = TRUE
        BY <1>2, <3>2
      <4>4. QED
        BY <4>2, <4>3, Zenon
    <3>3. CASE i # 1
      <4>1. (i = 1 /\ ~rsx.PipedI) = (i = 1 /\ ~rsx'.PipedI)
        BY <3>3
      <4>2. QED
        BY <3>1, <4>1, Zenon
    <3>4. QED
      BY <3>2, <3>3
  <2>2. QED
    BY <2>1 DEF Rest
<1>3. QED
  BY <1>1, <1>2

LEMMA HoldsStays ==
    ASSUME NEW r, NEW s, NEW d, NEW t, Holds(r, d, t), SameOut(r, s)
    PROVE  Holds(s, d, t)
  BY DEF Holds, SameOut

\* A step of a reader.
LEMMA ReadKeeps ==
    ASSUME Inv, pc = "run", NEW a, Received(a),
           room' \in Nat, room' > 0 => rsx.PipedI /\ ~rsx.awake /\ 10 \in Cmd.reads,
           \/ \E k \in Nat : /\ Yields(rsx, taken, a, k)
                             /\ (At(rsx, disk, prev, taken) /\ ~Crossed) \/ Waits(rsx, disk, prev)
                             /\ OnlyLines => Recent(a.r, prev, taken + k)
           \/ prev = <<>> /\ rsx.inlen = 0 /\ ~rsx.PipedI /\ a = Answer(rsx, 0, <<>>, TRUE)
    PROVE  Inv'
<1>1. /\ rsx' = a.r /\ taken' = taken + a.n /\ got' = got \o a.raw /\ eof' = (eof \/ a.eof)
      /\ pc' = pc /\ line' = line /\ disk' = disk /\ old' = old /\ sent' = sent /\ prev' = prev
  BY DEF Received
<1>2. /\ Typed /\ Rest /\ Run
      /\ \A f \in DOMAIN disk \ DOMAIN old : Padded(disk[f])
      /\ rsx.PipedO => rsx.outfcb = PIPEOUT
      /\ rsx.PipedI => rsx.infcb = PIPEIN
  BY DEF Inv
<1>3. /\ rsx \in Regs /\ prev \in Seq(Bytes) /\ got \in Seq(Bytes) /\ sent \in Seq(Bytes)
      /\ taken \in Nat /\ Len(prev) \in Nat /\ eof \in BOOLEAN
  BY <1>2, LenProperties DEF Typed
<1>4. Kept(rsx, a.r) /\ a.eof \in BOOLEAN /\ a.raw \in Seq(Bytes)
  <2>1. CASE \E k \in Nat : Yields(rsx, taken, a, k)
    BY <2>1 DEF Yields
  <2>2. CASE a = Answer(rsx, 0, <<>>, TRUE)
    <3>1. a.r = rsx /\ a.raw = <<>> /\ a.eof = TRUE
      BY <2>2 DEF Answer
    <3>2. <<>> \in Seq(Bytes)
      OBVIOUS
    <3>3. QED
      BY <1>3, <3>1, <3>2 DEF Kept, SameOut
  <2>3. QED
    BY <2>1, <2>2
<1>5. /\ SameOut(rsx, rsx') /\ rsx' \in Regs
      /\ rsx'.awake => rsx.awake
      /\ rsx.inflg => rsx'.inflg
  BY <1>1, <1>4 DEF Kept
<1> DEFINE Nothing == prev = <<>> /\ rsx.inlen = 0 /\ ~rsx.PipedI /\ a = Answer(rsx, 0, <<>>, TRUE)
<1> DEFINE Fine == Reads' /\ got' \in Seq(Bytes) /\ taken' \in Nat /\ eof' \in BOOLEAN
<1>6. ASSUME Nothing PROVE Fine
  <2>1. a.r = rsx /\ a.n = 0 /\ a.raw = <<>> /\ a.eof = TRUE
    BY <1>6 DEF Answer
  <2>2. taken' = taken
    BY <1>1, <1>3, <2>1
  <2>3. got' \in Seq(Bytes) /\ eof' \in BOOLEAN
    BY <1>1, <1>3, <1>4, <2>1, ConcatProperties
  <2>4. Reads'
    <3>1. room' > 0 => FALSE
      BY <1>6
    <3>2. taken' <= Len(prev')
      BY <1>1, <1>2, <2>2 DEF Run, Reads
    <3>3. prev' = <<>> /\ rsx'.inlen = 0 /\ ~rsx'.PipedI
      BY <1>1, <1>6, <2>1
    <3>4. QED
      BY <3>1, <3>2, <3>3 DEF Reads
  <2>5. QED
    BY <1>3, <2>2, <2>3, <2>4
<1>7. ASSUME ~Nothing PROVE Fine
  <2>1. PICK k \in Nat : /\ Yields(rsx, taken, a, k)
                         /\ (At(rsx, disk, prev, taken) /\ ~Crossed) \/ Waits(rsx, disk, prev)
                         /\ OnlyLines => Recent(a.r, prev, taken + k)
    BY <1>7
  <2>2. a.n = k /\ taken + k <= Len(prev) /\ At(a.r, disk, prev, taken + k)
    BY <2>1 DEF Yields
  <2>3. PICK m \in Nat : m = taken + k
    BY <1>3
  <2>4. taken' = m /\ m <= Len(prev)
    BY <1>1, <2>2, <2>3
  <2>5. got' \in Seq(Bytes) /\ eof' \in BOOLEAN
    BY <1>1, <1>3, <1>4, ConcatProperties
  <2>6. ~Crossed
    <3>1. CASE Waits(rsx, disk, prev)
      <4>1. rsx.infcb = PIPEIN
        BY <3>1 DEF Waits
      <4>2. Has(Cmd.ops, Outputs) => OutFile(Cmd.ops) # PIPEIN
        BY <1>2, OutFileFacts
      <4>3. QED
        BY <4>1, <4>2 DEF Crossed
    <3>2. QED
      BY <2>1, <3>1
  <2>7. Reads'
    <3>1. taken' <= Len(prev')
      BY <1>1, <2>4
    <3>2. At(rsx', disk', prev', taken')
      BY <1>1, <2>2, <2>3, <2>4
    <3>3. OnlyLines' => Recent(rsx', prev', taken')
      BY <1>1, <2>1, <2>3, <2>4 DEF OnlyLines, Cmd
    <3>4. ~Crossed'
      BY <1>1, <1>5, <2>6 DEF Crossed, Cmd, SameOut
    <3>5. room' > 0 => rsx'.PipedI /\ ~rsx'.awake /\ 10 \in Cmd'.reads
      BY <1>1, <1>5 DEF SameOut, Cmd
    <3>6. At(rsx, disk, prev, taken)' /\ (OnlyLines' => Recent(rsx, prev, taken)')
      BY <3>2, <3>3
    <3>7. QED
      BY <3>1, <3>4, <3>5, <3>6 DEF Reads
  <2>8. QED
    BY <2>4, <2>5, <2>7
<1>8. Fine
  BY <1>6, <1>7
<1>9. Typed'
  BY <1>1, <1>2, <1>5, <1>8 DEF Typed
<1>10. Rest'
  BY <1>1, <1>2, <1>5, RestStays DEF SameOut
<1>11. Writes'
  <2>1. Total' = Total /\ Cmd' = Cmd
    BY <1>1 DEF Total, Before, Cmd
  <2>2. Holds(rsx, disk, Total) => Holds(rsx, disk, Total)'
    <3>1. ASSUME Holds(rsx, disk, Total) PROVE Holds(rsx', disk, Total)
      BY <1>5, <3>1, HoldsStays
    <3>2. Holds(rsx', disk, Total) => Holds(rsx, disk, Total)'
      BY <1>1, <2>1 DEF Holds
    <3>3. QED
      BY <3>1, <3>2
  <2>3. CASE Has(Cmd.ops, Outputs)
    <3>1. rsx.outflg /\ rsx.outfcb = OutFile(Cmd.ops) /\ (rsx.PipedO <=> Has(Cmd.ops, Pipes))
          /\ (rsx.outfcb \notin Devices => Holds(rsx, disk, Total))
      BY <1>2, <2>3 DEF Run, Writes
    <3>2. rsx'.outflg /\ rsx'.outfcb = OutFile(Cmd'.ops) /\ (rsx'.PipedO <=> Has(Cmd'.ops, Pipes))
      BY <1>5, <2>1, <3>1 DEF SameOut
    <3>3. rsx'.outfcb \notin Devices => Holds(rsx, disk, Total)'
      BY <1>5, <2>2, <3>1 DEF SameOut
    <3>4. QED
      BY <2>1, <2>3, <3>2, <3>3 DEF Writes
  <2>4. CASE ~Has(Cmd.ops, Outputs)
    <3>1. /\ ~rsx.PipedO /\ (rsx.awake => ~rsx.outflg /\ ~rsx.errflg)
          /\ (rsx.outflg => rsx.outfcb = PIPEOUT)
      BY <1>2, <2>4 DEF Run, Writes
    <3>2. /\ ~rsx'.PipedO /\ (rsx'.awake => ~rsx'.outflg /\ ~rsx'.errflg)
          /\ (rsx'.outflg => rsx'.outfcb = PIPEOUT)
      BY <1>5, <3>1 DEF SameOut
    <3>3. QED
      BY <2>1, <2>4, <3>2 DEF Writes
  <2>5. QED
    BY <2>3, <2>4
<1>12. Run'
  <2>1. Untouched(Temps \cup Targets)'
    BY <1>1, <1>2 DEF Run, Untouched, Targets, Cmd
  <2>2. /\ PIPEIN \in DOMAIN disk <=> rsx.PipedI
        /\ PIPEOUT \in DOMAIN disk <=> Has(Cmd.ops, Pipes)
        /\ rsx.PipedI => rsx.inflg /\ rsx.infcb = PIPEIN
        /\ rsx.oapp => Has(Cmd.ops, Appends)
        /\ rsx.awake \/ Has(Cmd.ops, Outputs) => Cmd.pm
    BY <1>2 DEF Run
  <2>3. Cmd' = Cmd
    BY <1>1 DEF Cmd
  <2>4. /\ rsx'.PipedI = rsx.PipedI /\ rsx'.infcb = rsx.infcb /\ rsx'.oapp = rsx.oapp
    BY <1>5 DEF SameOut
  <2>5. /\ PIPEIN \in DOMAIN disk' <=> rsx'.PipedI
        /\ PIPEOUT \in DOMAIN disk' <=> Has(Cmd'.ops, Pipes)
        /\ rsx'.PipedI => rsx'.inflg /\ rsx'.infcb = PIPEIN
        /\ rsx'.oapp => Has(Cmd'.ops, Appends)
        /\ rsx'.awake \/ Has(Cmd'.ops, Outputs) => Cmd'.pm
    BY <1>1, <1>5, <2>2, <2>3, <2>4
  <2>6. QED
    BY <1>8, <1>11, <2>1, <2>5 DEF Run
<1>13. /\ \A f \in DOMAIN disk' \ DOMAIN old' : Padded(disk'[f])
       /\ rsx'.PipedO => rsx'.outfcb = PIPEOUT
       /\ rsx'.PipedI => rsx'.infcb = PIPEIN
  BY <1>1, <1>2, <1>5 DEF SameOut
<1>14. pc' = "run"
  BY <1>1
<1>15. QED
  BY <1>9, <1>10, <1>12, <1>13, <1>14 DEF Inv


\* What was taken was received, as it is in the pipe.
LEMMA Gets ==
    ASSUME NEW a, Received(a), prev \in Seq(Bytes), got \in Seq(Bytes), taken \in Nat,
           eof \in BOOLEAN, NEW k \in Nat, Yields(rsx, taken, a, k),
           a.raw = SubSeq(prev, taken + 1, taken + k)
    PROVE  Abstract!Get
<1>1. PICK n \in Nat : n = taken + k
  OBVIOUS
<1>2. /\ n <= Len(prev) /\ a.n = k /\ a.eof \in BOOLEAN
      /\ a.eof => n = Len(prev)
      /\ k = 0 => a.eof
  BY <1>1 DEF Yields
<1>3. n \in taken .. Len(prev) /\ (n > taken \/ a.eof)
  BY <1>1, <1>2, LenProperties
<1>4. taken' = n /\ got' = got \o SubSeq(prev, taken + 1, n) /\ eof' = (eof \/ a.eof)
  BY <1>1, <1>2 DEF Received
<1>5. eof' \in {eof, n = Len(prev)} /\ (n > taken \/ eof')
  BY <1>2, <1>3, <1>4
<1>6. UNCHANGED <<sent, prev>>
  BY DEF Received
<1>7. QED
  BY <1>3, <1>4, <1>5, <1>6 DEF Abstract!Get, Abstract!Receive

\* What was taken was received, but for the line feed of a line end.
LEMMA Skips ==
    ASSUME NEW a, Received(a), prev \in Seq(Bytes), got \in Seq(Bytes), taken \in Nat,
           eof \in BOOLEAN, 10 \in Cmd.reads, NEW k \in Nat, Yields(rsx, taken, a, k),
           Leaves(rsx, taken, a, k)
    PROVE  Abstract!Skip
<1>1. PICK n \in Nat : n = taken + k
  OBVIOUS
<1>2. /\ n <= Len(prev) /\ a.n = k /\ a.eof \in BOOLEAN
      /\ a.eof => n = Len(prev)
  BY <1>1 DEF Yields
<1>3. /\ taken > 0 /\ taken < Len(prev) /\ prev[taken] = CR /\ prev[taken + 1] = LF
      /\ k > 0 /\ a.raw = SubSeq(prev, taken + 2, n) /\ (k = 1 => a.eof)
  BY <1>1 DEF Leaves
<1>4. n \in taken + 1 .. Len(prev) /\ (n > taken + 1 \/ a.eof)
  BY <1>1, <1>2, <1>3, LenProperties
<1>5. (taken + 1) + 1 = taken + 2
  OBVIOUS
<1>6. taken' = n /\ got' = got \o SubSeq(prev, (taken + 1) + 1, n) /\ eof' = (eof \/ a.eof)
  BY <1>1, <1>2, <1>3, <1>5 DEF Received
<1>7. eof' \in {eof, n = Len(prev)} /\ (n > taken + 1 \/ eof')
  BY <1>2, <1>4, <1>6
<1>8. UNCHANGED <<sent, prev>>
  BY DEF Received
<1>9. Abstract!Receive(taken + 1)
  BY <1>4, <1>6, <1>7, <1>8 DEF Abstract!Receive
<1>10. QED
  BY <1>3, <1>9 DEF Abstract!Skip

LEMMA PipeInKeeps ==
    ASSUME Inv, PipeIn
    PROVE  Inv' /\ Abstract!Get
<1>1. pc = "run" /\ room = 0 /\ room' = room /\ rsx.awake
  BY DEF PipeIn, Running
<1>2. PICK a : a = bytin(rsx) /\ Received(a)
  BY DEF PipeIn
<1>3. /\ rsx \in Regs /\ prev \in Seq(Bytes) /\ Reads /\ \A f \in DOMAIN disk : FileOK(disk[f])
      /\ got \in Seq(Bytes) /\ taken \in Nat /\ eof \in BOOLEAN
  BY <1>1 DEF Inv, Typed, Run
<1>4. room' \in Nat /\ ~(room' > 0)
  BY <1>1
<1>5. CASE prev = <<>> /\ rsx.inlen = 0 /\ ~rsx.PipedI
  <2>1. a = Answer(rsx, 0, <<>>, TRUE)
    BY <1>2, <1>5 DEF bytin
  <2>2. Inv'
    BY <1>1, <1>2, <1>4, <1>5, <2>1, ReadKeeps
  <2>3. a.n = 0 /\ a.raw = <<>> /\ a.eof = TRUE
    BY <2>1 DEF Answer
  <2>4. taken <= Len(prev) /\ Len(prev) = 0
    BY <1>3, <1>5 DEF Reads
  <2>5. taken' = 0 /\ got' = got \o <<>> /\ eof' = TRUE /\ UNCHANGED <<sent, prev>>
    <3>1. /\ taken' = taken + a.n /\ got' = got \o a.raw /\ eof' = (eof \/ a.eof)
          /\ sent' = sent /\ prev' = prev
      BY <1>2 DEF Received
    <3>2. taken = 0
      BY <1>3, <2>4
    <3>3. taken' = 0 /\ got' = got \o <<>> /\ UNCHANGED <<sent, prev>>
      BY <2>3, <3>1, <3>2
    <3>4. eof' = TRUE
      BY <2>3, <3>1, Zenon
    <3>5. QED
      BY <3>3, <3>4
  <2>6. SubSeq(prev, taken + 1, 0) = <<>>
    BY <1>3, SubSeqEmpty
  <2>7. 0 \in taken .. Len(prev) /\ taken = 0
    BY <1>3, <2>4
  <2>8. got' = got \o SubSeq(prev, taken + 1, 0)
    BY <2>5, <2>6
  <2>9. eof' \in {eof, 0 = Len(prev)} /\ eof'
    BY <2>4, <2>5
  <2>10. Abstract!Get
    BY <2>5, <2>7, <2>8, <2>9 DEF Abstract!Get, Abstract!Receive
  <2>11. QED
    BY <2>2, <2>10
<1>6. CASE At(rsx, disk, prev, taken) /\ ~Crossed /\ (OnlyLines => Recent(rsx, prev, taken))
  <2>1. FileOK(disk[rsx.infcb])
    BY <1>3, <1>6 DEF At
  <2>2. PICK k \in {0, 1} : Returns(rsx, taken, a, k) /\ a.r.lastin = rsx.lastin
    BY <1>2, <1>3, <1>6, <2>1, BytinFacts
  <2>3. k \in Nat /\ Yields(rsx, taken, a, k) /\ a.raw = SubSeq(prev, taken + 1, taken + k)
    BY <2>2 DEF Returns
  <2>4. OnlyLines => Recent(a.r, prev, taken + k)
    BY <1>1, <1>6, <2>2 DEF Recent
  <2>5. Inv'
    BY <1>1, <1>2, <1>4, <1>6, <2>3, <2>4, ReadKeeps
  <2>6. Abstract!Get
    BY <1>2, <1>3, <2>3, Gets
  <2>7. QED
    BY <2>5, <2>6
<1>7. ~Waits(rsx, disk, prev)
  BY <1>1 DEF Waits
<1>8. QED
  BY <1>3, <1>5, <1>6, <1>7 DEF Reads

\* A command that reads through the console has a pipe to read.
Open(n) == /\ At(rsx, disk, prev, n) /\ ~Crossed
           /\ OnlyLines => Recent(rsx, prev, n)

LEMMA PipedReads ==
    ASSUME Inv, pc = "run", rsx.PipedI
    PROVE  /\ rsx \in Regs /\ prev \in Seq(Bytes) /\ taken \in Nat /\ got \in Seq(Bytes)
           /\ eof \in BOOLEAN /\ FileOK(disk[rsx.infcb])
           /\ Open(taken) \/ (Waits(rsx, disk, prev) /\ taken = 0)
<1>1. /\ rsx \in Regs /\ prev \in Seq(Bytes) /\ got \in Seq(Bytes) /\ Reads
      /\ taken \in Nat /\ eof \in BOOLEAN
      /\ \A f \in DOMAIN disk : FileOK(disk[f])
  BY DEF Inv, Typed, Run
<1>2. Open(taken) \/ (Waits(rsx, disk, prev) /\ taken = 0)
  BY <1>1 DEF Reads, Open
<1>3. rsx.infcb \in DOMAIN disk
  BY <1>2 DEF At, Waits, Open
<1>4. QED
  BY <1>1, <1>2, <1>3

\* Once for BDOS 1, twice for BDOS 6.
LEMMA Con6Facts ==
    ASSUME NEW r \in Regs, NEW n \in Nat,
           At(r, disk, prev, n) \/ (Waits(r, disk, prev) /\ n = 0),
           FileOK(disk[r.infcb]), prev \in Seq(Bytes), NEW q, q = con6(r)
    PROVE  \E k \in Nat : Yields(r, n, q, k)
<1>1. PICK a : a = pbytin(r)
  OBVIOUS
<1>2. PICK k \in {0, 1} : Returns(r, n, a, k)
  BY <1>1, PbytinFacts
<1>3. /\ k \in Nat /\ Kept(r, a.r) /\ At(a.r, disk, prev, n + k) /\ a.r \in Regs
      /\ Yields(r, n, a, k) /\ n + k \in Nat
  BY <1>2 DEF Returns, Yields, Kept
<1>4. Kept(a.r, a.r) /\ FileOK(disk[a.r.infcb])
  BY <1>3 DEF Kept, SameOut
<1>5. PICK z : z = pbytin(a.r)
  OBVIOUS
<1>6. PICK l \in {0, 1} : Returns(a.r, n + k, z, l)
  BY <1>3, <1>4, <1>5, PbytinFacts
<1>7. Yields(a.r, n + k, z, l) /\ k + l \in Nat
  <2>1. Yields(a.r, n + k, z, l)
    BY <1>6 DEF Returns
  <2>2. QED
    BY <1>3, <2>1
<1>8. q = Answer(z.r, a.n + z.n, z.raw, z.eof)
  BY <1>1, <1>5 DEF con6
<1>9. Yields(r, n, q, k + l)
  BY <1>3, <1>4, <1>7, <1>8, YieldsTwice
<1>10. QED
  BY <1>7, <1>9

LEMMA ConsoleInKeeps ==
    ASSUME Inv, ConsoleIn
    PROVE  Inv' /\ (6 \notin Cmd.reads => Abstract!Get)
<1>1. pc = "run" /\ room = 0 /\ room' = room /\ rsx.PipedI
  BY DEF ConsoleIn, Piped, Running
<1>2. PICK c \in Cmd.reads \cap {1, 6} : Received(IF c = 1 THEN pbytin(rsx) ELSE con6(rsx))
  BY DEF ConsoleIn
<1>3. /\ rsx \in Regs /\ prev \in Seq(Bytes) /\ taken \in Nat /\ got \in Seq(Bytes)
      /\ eof \in BOOLEAN /\ FileOK(disk[rsx.infcb])
      /\ Open(taken) \/ (Waits(rsx, disk, prev) /\ taken = 0)
  BY <1>1, PipedReads
<1>4. /\ At(rsx, disk, prev, taken) \/ (Waits(rsx, disk, prev) /\ taken = 0)
      /\ (At(rsx, disk, prev, taken) /\ ~Crossed) \/ Waits(rsx, disk, prev)
  BY <1>3 DEF Open
<1>5. ~OnlyLines
  BY DEF ConsoleIn, OnlyLines
<1>6. room' \in Nat /\ ~(room' > 0)
  BY <1>1
<1>7. CASE c = 1
  <2>1. PICK a : a = pbytin(rsx) /\ Received(a)
    BY <1>2, <1>7
  <2>2. PICK k \in {0, 1} : Returns(rsx, taken, a, k)
    BY <1>3, <1>4, <2>1, PbytinFacts
  <2>3. k \in Nat /\ Yields(rsx, taken, a, k) /\ a.raw = SubSeq(prev, taken + 1, taken + k)
    BY <2>2 DEF Returns
  <2>4. Inv'
    BY <1>1, <1>4, <1>5, <1>6, <2>1, <2>3, ReadKeeps
  <2>5. Abstract!Get
    BY <1>3, <2>1, <2>3, Gets
  <2>6. QED
    BY <2>4, <2>5
<1>8. CASE c # 1
  <2>1. PICK a : a = con6(rsx) /\ Received(a)
    BY <1>2, <1>8
  <2>2. PICK k \in Nat : Yields(rsx, taken, a, k)
    BY <1>3, <1>4, <2>1, Con6Facts
  <2>3. Inv'
    BY <1>1, <1>4, <1>5, <1>6, <2>1, <2>2, ReadKeeps
  <2>4. 6 \in Cmd.reads
    BY <1>2, <1>8
  <2>5. QED
    BY <2>3, <2>4
<1>9. QED
  BY <1>7, <1>8

LEMMA con10bKeeps ==
    ASSUME Inv, con10b
    PROVE  Inv' /\ (OnlyLines => Abstract!Get \/ Abstract!Skip)
<1>1. pc = "run" /\ room > 0 /\ room \in Nat
  BY DEF con10b, Inv, Typed
<1>2. rsx.PipedI /\ ~rsx.awake /\ 10 \in Cmd.reads
  BY <1>1 DEF Inv, Run, Reads
<1>3. PICK a : /\ a = qbytin(rsx) /\ Received(a)
               /\ room' = IF a.eof \/ Last(a.raw) \in {CR, LF} THEN 0 ELSE room - 1
  BY DEF con10b
<1>4. /\ rsx \in Regs /\ prev \in Seq(Bytes) /\ taken \in Nat /\ got \in Seq(Bytes)
      /\ eof \in BOOLEAN /\ FileOK(disk[rsx.infcb])
      /\ Open(taken) \/ (Waits(rsx, disk, prev) /\ taken = 0)
  BY <1>1, <1>2, PipedReads
<1>5. /\ At(rsx, disk, prev, taken) \/ (Waits(rsx, disk, prev) /\ taken = 0)
      /\ (At(rsx, disk, prev, taken) /\ ~Crossed) \/ Waits(rsx, disk, prev)
      /\ OnlyLines => Waits(rsx, disk, prev) \/ Recent(rsx, prev, taken)
  BY <1>4 DEF Open
<1>6. PICK k \in Nat :
          /\ Yields(rsx, taken, a, k)
          /\ Recent(a.r, prev, taken + k)
          /\ \/ a.raw = SubSeq(prev, taken + 1, taken + k)
             \/ (Waits(rsx, disk, prev) \/ Recent(rsx, prev, taken)) => Leaves(rsx, taken, a, k)
  BY <1>2, <1>3, <1>4, <1>5, QbytinFacts
<1>7. room' \in Nat
  BY <1>1, <1>3
<1>8. Inv'
  BY <1>1, <1>2, <1>3, <1>5, <1>6, <1>7, ReadKeeps
<1>9. ASSUME OnlyLines PROVE Abstract!Get \/ Abstract!Skip
  <2>1. CASE a.raw = SubSeq(prev, taken + 1, taken + k)
    BY <1>3, <1>4, <1>6, <2>1, Gets
  <2>2. CASE Leaves(rsx, taken, a, k)
    BY <1>2, <1>3, <1>4, <1>6, <2>2, Skips
  <2>3. QED
    BY <1>5, <1>6, <1>9, <2>1, <2>2
<1>10. QED
  BY <1>8, <1>9

\* Steps that change the control, or the room in the line, and nothing else.
LEMMA QuietKeeps ==
    ASSUME Inv, UNCHANGED <<line, rsx, disk, old, sent, prev, taken, got, eof>>, room' \in Nat,
           \/ pc' = "lost"
           \/ pc' = pc /\ room' = room
           \/ pc' = pc /\ pc = "run" /\ rsx.PipedI /\ ~rsx.awake /\ 10 \in Cmd.reads
    PROVE  Inv'
<1>1. /\ line' = line /\ rsx' = rsx /\ disk' = disk /\ old' = old /\ sent' = sent
      /\ prev' = prev /\ taken' = taken /\ got' = got /\ eof' = eof
  OBVIOUS
<1>2. Typed' /\ Rest'
  <2>1. Typed'
    BY <1>1 DEF Inv, Typed
  <2>2. Rest'
    BY <1>1, RestStays DEF Inv
  <2>3. QED
    BY <2>1, <2>2
<1>3. /\ \A f \in DOMAIN disk' \ DOMAIN old' : Padded(disk'[f])
      /\ rsx'.PipedO => rsx'.outfcb = PIPEOUT
      /\ rsx'.PipedI => rsx'.infcb = PIPEIN
  BY <1>1 DEF Inv
<1>4. pc' = "start" => Start'
  <2>1. pc' = "start" => Start /\ room' = room
    BY DEF Inv
  <2>2. QED
    BY <1>1, <2>1 DEF Start, Untouched
<1>5. pc' = "run" => Run'
  <2>1. pc' = "run" => Run /\ (room' > 0 => rsx.PipedI /\ ~rsx.awake /\ 10 \in Cmd.reads)
    BY DEF Inv, Run, Reads
  <2>2. Reads => /\ taken' <= Len(prev')
                 /\ \/ prev' = <<>> /\ rsx'.inlen = 0 /\ ~rsx'.PipedI
                    \/ Waits(rsx', disk', prev') /\ taken' = 0
                    \/ /\ At(rsx', disk', prev', taken') /\ ~Crossed'
                       /\ OnlyLines' => Recent(rsx', prev', taken')
    BY <1>1 DEF Reads, Crossed, Cmd, OnlyLines
  <2>3. Writes => Writes'
    BY <1>1 DEF Writes, Holds, Total, Before, Cmd
  <2>4. Run => Untouched(Temps \cup Targets)'
    BY <1>1 DEF Run, Untouched, Targets, Cmd
  <2>5. Run => /\ PIPEIN \in DOMAIN disk' <=> rsx'.PipedI
               /\ PIPEOUT \in DOMAIN disk' <=> Has(Cmd'.ops, Pipes)
               /\ rsx'.PipedI => rsx'.inflg /\ rsx'.infcb = PIPEIN
               /\ rsx'.oapp => Has(Cmd'.ops, Appends)
               /\ rsx'.awake \/ Has(Cmd'.ops, Outputs) => Cmd'.pm
    BY <1>1 DEF Run, Cmd
  <2>6. Run /\ (room' > 0 => rsx.PipedI /\ ~rsx.awake /\ 10 \in Cmd.reads) => Run'
    <3>1. Run /\ (room' > 0 => rsx.PipedI /\ ~rsx.awake /\ 10 \in Cmd.reads) => Reads'
      BY <1>1, <2>2 DEF Run, Reads, Cmd
    <3>2. Run => Writes'
      BY <2>3 DEF Run
    <3>3. QED
      BY <2>4, <2>5, <3>1, <3>2 DEF Run
  <2>7. QED
    BY <2>1, <2>6
<1>6. pc' = "ended" => Ended'
  <2>1. pc' = "ended" => Ended
    BY DEF Inv
  <2>2. QED
    BY <1>1, <2>1 DEF Ended, OutputArrives, NothingElse, Targets, Cmd
<1>7. QED
  BY <1>2, <1>3, <1>4, <1>5, <1>6 DEF Inv


-----------------------------------------------------------------------------
(***************************************************************************)
(* A command starts.                                                       *)
(***************************************************************************)
LEMMA NothingHas ==
    ASSUME NEW kinds
    PROVE  ~Has(<<>>, kinds)
  BY DEF Has, Places

LEMMA StartPlainKeeps ==
    ASSUME Inv, StartPlain
    PROVE  Inv'
<1>1. /\ pc = "start" /\ ~Cmd.pm /\ pc' = "run"
      /\ line' = line /\ rsx' = rsx /\ disk' = disk /\ room' = room /\ old' = old
      /\ sent' = sent /\ prev' = prev /\ taken' = taken /\ got' = got /\ eof' = eof
  BY DEF StartPlain
<1>2. /\ Typed /\ Rest /\ Start
      /\ \A f \in DOMAIN disk \ DOMAIN old : Padded(disk[f])
      /\ rsx.PipedO => rsx.outfcb = PIPEOUT
      /\ rsx.PipedI => rsx.infcb = PIPEIN
  BY <1>1 DEF Inv
<1>3. Cmd.ops = <<>>
  <2>1. UsualCommand(Cmd, ~rsx.PipedI, 1 = Len(line))
    BY <1>2, OutFileFacts
  <2>2. IF Cmd.pm THEN ~rsx.PipedI \/ Has(Cmd.ops, Outputs) ELSE Cmd.ops = <<>>
    BY <2>1, Zenon DEF UsualCommand
  <2>3. QED
    BY <1>1, <2>2
<1>4. \A kinds : ~Has(Cmd.ops, kinds)
  BY <1>3, NothingHas
<1>5. Cmd' = Cmd /\ Targets = {} /\ Targets' = {}
  BY <1>1, <1>4 DEF Cmd, Targets
<1>6. /\ room = 0 /\ taken = 0 /\ rsx.inptr = RECSIZE /\ ~rsx.PipedO /\ ~rsx.oapp /\ ~rsx.awake
      /\ Untouched(Temps) /\ PIPEOUT \notin DOMAIN disk
      /\ IF rsx.PipedI
         THEN /\ rsx.infcb = PIPEIN /\ rsx.inflg /\ rsx.pclosed
              /\ rsx.outflg /\ rsx.outfcb = PIPEOUT
              /\ PIPEIN \in DOMAIN disk /\ Exact(disk[PIPEIN]) = prev
         ELSE /\ PIPEIN \notin DOMAIN disk
              /\ ~rsx.inflg /\ ~rsx.outflg /\ ~rsx.errflg /\ ~rsx.pclosed /\ rsx.inlen = 0
              /\ prev = Given(line, old)
  BY <1>2 DEF Start
<1>7. Reads
  <2>1. taken <= Len(prev)
    BY <1>2, <1>6, LenProperties DEF Typed
  <2>2. CASE rsx.PipedI
    <3>1. Waits(rsx, disk, prev)
      BY <1>6, <2>2 DEF Waits
    <3>2. QED
      BY <1>6, <2>1, <2>2, <3>1 DEF Reads
  <2>3. CASE ~rsx.PipedI
    <3>1. prev = <<>>
      BY <1>4, <1>6, <2>3 DEF Given, Cmd
    <3>2. QED
      BY <1>6, <2>1, <2>3, <3>1 DEF Reads
  <2>4. QED
    BY <2>2, <2>3
<1>8. Writes
  BY <1>4, <1>6 DEF Writes
<1>9. Run
  <2>1. Untouched(Temps \cup Targets)
    BY <1>5, <1>6 DEF Untouched
  <2>2. /\ PIPEIN \in DOMAIN disk <=> rsx.PipedI
        /\ PIPEOUT \in DOMAIN disk <=> Has(Cmd.ops, Pipes)
        /\ rsx.PipedI => rsx.inflg /\ rsx.infcb = PIPEIN
        /\ rsx.oapp => Has(Cmd.ops, Appends)
        /\ rsx.awake \/ Has(Cmd.ops, Outputs) => Cmd.pm
    BY <1>4, <1>6
  <2>3. QED
    BY <1>7, <1>8, <2>1, <2>2 DEF Run
<1>10. Run'
  <2>1. Reads'
    BY <1>1, <1>5, <1>7 DEF Reads, Crossed, OnlyLines
  <2>2. Writes'
    BY <1>1, <1>4, <1>5, <1>8 DEF Writes
  <2>3. Untouched(Temps \cup Targets)'
    BY <1>1, <1>5, <1>9 DEF Run, Untouched
  <2>4. /\ PIPEIN \in DOMAIN disk' <=> rsx'.PipedI
        /\ PIPEOUT \in DOMAIN disk' <=> Has(Cmd'.ops, Pipes)
        /\ rsx'.PipedI => rsx'.inflg /\ rsx'.infcb = PIPEIN
        /\ rsx'.oapp => Has(Cmd'.ops, Appends)
        /\ rsx'.awake \/ Has(Cmd'.ops, Outputs) => Cmd'.pm
    BY <1>1, <1>5, <1>9 DEF Run
  <2>5. QED
    BY <2>1, <2>2, <2>3, <2>4 DEF Run
<1>11. Typed'
  BY <1>1, <1>2 DEF Typed
<1>12. Rest'
  BY <1>1, <1>2, RestStays
<1>13. /\ \A f \in DOMAIN disk' \ DOMAIN old' : Padded(disk'[f])
       /\ rsx'.PipedO => rsx'.outfcb = PIPEOUT
       /\ rsx'.PipedI => rsx'.infcb = PIPEIN
  BY <1>1, <1>2
<1>14. QED
  BY <1>1, <1>10, <1>11, <1>12, <1>13 DEF Inv

\* The RSX once it has the command line.
LEMMA fparseFacts ==
    ASSUME NEW r \in Regs, NEW ops, NEW s, s = fparse(r, ops),
           Has(ops, Inputs) => InFile(ops) \in Names,
           Has(ops, Outputs) => OutFile(ops) \in Names
    PROVE  /\ s \in Regs
           /\ s.infcb = IF Has(ops, Inputs) THEN InFile(ops) ELSE r.infcb
           /\ s.outfcb = IF Has(ops, Outputs) THEN OutFile(ops) ELSE r.outfcb
           /\ s.inflg <=> r.inflg \/ Has(ops, Inputs)
           /\ s.outflg <=> r.outflg \/ Has(ops, Outputs)
           /\ s.errflg <=> r.errflg \/ Has(ops, Errors)
           /\ s.oapp <=> r.oapp \/ Has(ops, Appends)
           /\ s.PipedO <=> r.PipedO \/ Has(ops, Pipes)
           /\ s.PipedI = r.PipedI /\ s.awake = r.awake /\ s.pclosed = r.pclosed
           /\ s.inptr = r.inptr /\ s.inlen = r.inlen
<1>1. PICK x \in Names : x = IF Has(ops, Inputs) THEN InFile(ops) ELSE r.infcb
  BY DEF Regs
<1>2. PICK y \in Names : y = IF Has(ops, Outputs) THEN OutFile(ops) ELSE r.outfcb
  BY DEF Regs
<1>3. PICK b1 \in BOOLEAN : b1 = (r.inflg \/ Has(ops, Inputs))
  OBVIOUS
<1>4. PICK b2 \in BOOLEAN : b2 = (r.outflg \/ Has(ops, Outputs))
  OBVIOUS
<1>5. PICK b3 \in BOOLEAN : b3 = (r.errflg \/ Has(ops, Errors))
  OBVIOUS
<1>6. PICK b4 \in BOOLEAN : b4 = (r.oapp \/ Has(ops, Appends))
  OBVIOUS
<1>7. PICK b5 \in BOOLEAN : b5 = (r.PipedO \/ Has(ops, Pipes))
  OBVIOUS
<1>8. s = [r EXCEPT !.infcb = x, !.inflg = b1, !.outfcb = y, !.outflg = b2, !.errflg = b3,
                    !.oapp = b4, !.PipedO = b5]
  BY <1>1, <1>2, <1>3, <1>4, <1>5, <1>6, <1>7, Zenon DEF fparse
<1>9. s \in Regs
  <2>1. PICK u : u = [r EXCEPT !.infcb = x, !.inflg = b1]
    OBVIOUS
  <2>2. u \in Regs
    BY <2>1 DEF Regs
  <2>3. PICK v : v = [u EXCEPT !.outfcb = y, !.outflg = b2]
    OBVIOUS
  <2>4. v \in Regs
    BY <2>2, <2>3 DEF Regs
  <2>5. PICK w : w = [v EXCEPT !.errflg = b3, !.oapp = b4]
    OBVIOUS
  <2>6. w \in Regs
    BY <2>4, <2>5 DEF Regs
  <2>7. s = [w EXCEPT !.PipedO = b5]
    BY <1>8, <2>1, <2>3, <2>5
  <2>8. QED
    BY <2>6, <2>7 DEF Regs
<1>10. s.infcb = x /\ s.outfcb = y /\ s.inptr = r.inptr /\ s.inlen = r.inlen
  BY <1>8 DEF Regs
<1>11. s.inflg = b1 /\ s.outflg = b2 /\ s.errflg = b3 /\ s.oapp = b4 /\ s.PipedO = b5
  BY <1>8 DEF Regs
<1>12. s.PipedI = r.PipedI /\ s.awake = r.awake /\ s.pclosed = r.pclosed
  BY <1>8 DEF Regs
<1>13. /\ s.inflg <=> r.inflg \/ Has(ops, Inputs)
       /\ s.outflg <=> r.outflg \/ Has(ops, Outputs)
       /\ s.errflg <=> r.errflg \/ Has(ops, Errors)
       /\ s.oapp <=> r.oapp \/ Has(ops, Appends)
       /\ s.PipedO <=> r.PipedO \/ Has(ops, Pipes)
  BY <1>3, <1>4, <1>5, <1>6, <1>7, <1>11, Zenon
<1>14. QED
  BY <1>1, <1>2, <1>9, <1>10, <1>12, <1>13


\* What creating the output leaves alone.
SameFlags(r, s) ==
    /\ s.awake = r.awake /\ s.inflg = r.inflg /\ s.PipedI = r.PipedI /\ s.PipedO = r.PipedO
    /\ s.outflg = r.outflg /\ s.errflg = r.errflg /\ s.oapp = r.oapp /\ s.outfcb = r.outfcb
    /\ s.lastin = r.lastin

\* The output is there, holds t, and is the only file that may be another.
Created(r, d, m, t) ==
    /\ m.r \in Regs /\ SameIn(r, m.r) /\ SameFlags(r, m.r)
    /\ DOMAIN m.d = DOMAIN d \cup {r.outfcb}
    /\ \A f \in DOMAIN d \ {r.outfcb} : m.d[f] = d[f]
    /\ FileOK(m.d[r.outfcb])
    /\ Holds(m.r, m.d, t)

LEMMA FilledFacts == Filled \in Block /\ \A i \in 1 .. RECSIZE : Filled[i] = MARK
  BY Sizes DEF Filled, Block

LEMMA NoFileFacts ==
    /\ FileOK(NoFile) /\ NoFile.recs = <<>> /\ NoFile.unused = 0
    /\ Len(NoFile.recs) = 0
<1>1. NoFile.recs = <<>> /\ NoFile.unused = 0
  BY DEF NoFile
<1>2. <<>> \in Seq(Nat) /\ Len(<<>>) = 0
  BY EmptySeq
<1>3. NoFile \in File
  BY <1>2, Sizes DEF NoFile, File
<1>4. 0 % RECSIZE = 0
  BY Sizes, SmallRemainder
<1>5. QED
  BY <1>1, <1>2, <1>3, <1>4 DEF FileOK

LEMMA RcreatFacts ==
    ASSUME NEW r \in Regs, r.outbuf = Filled, NEW d, NEW m, m = rcreat([r |-> r, d |-> d])
    PROVE  Created(r, d, m, <<>>)
<1>1. PICK s : s = [r EXCEPT !.outrec = 0, !.outptr = 0, !.hooked = TRUE]
  OBVIOUS
<1>2. PICK e : e = Entered(d, r.outfcb, NoFile)
  OBVIOUS
<1>3. m = [r |-> s, d |-> e]
  BY <1>1, <1>2 DEF rcreat
<1>4. m.r = s /\ m.d = e
  BY <1>3
<1>5. /\ DOMAIN e = DOMAIN d \cup {r.outfcb} /\ e[r.outfcb] = NoFile
      /\ \A f \in DOMAIN d \ {r.outfcb} : e[f] = d[f]
  BY <1>2 DEF Entered
<1>6. s \in Regs
  <2>1. 0 \in Nat /\ 0 \in 0 .. RECSIZE
    BY Sizes
  <2>2. PICK z : z = 0
    OBVIOUS
  <2>3. s = [r EXCEPT !.outrec = z, !.outptr = z, !.hooked = TRUE]
    BY <1>1, <2>2
  <2>4. z \in Nat /\ z \in 0 .. RECSIZE
    BY <2>1, <2>2
  <2> HIDE <2>2
  <2>5. QED
    BY <2>3, <2>4 DEF Regs
<1>7. SameIn(r, s)
  BY <1>1 DEF Regs, SameIn
<1>8. SameFlags(r, s)
  BY <1>1 DEF Regs, SameFlags
<1>9. s.outrec = 0 /\ s.outptr = 0 /\ s.outbuf = Filled /\ s.outfcb = r.outfcb
  BY <1>1 DEF Regs
<1>10. Holds(s, e, <<>>)
  <2>1. 0 * RECSIZE = 0 /\ 0 + RECSIZE = RECSIZE /\ Len(<<>>) = 0
    BY Sizes, EmptySeq
  <2>2. s.outfcb \in DOMAIN e /\ e[s.outfcb] = NoFile /\ s.outrec * RECSIZE = 0
    BY <1>5, <1>9, <2>1
  <2>3. \A i \in (s.outptr + 1) .. RECSIZE : s.outbuf[i] = MARK
    BY <1>9, FilledFacts
  <2>4. 1 .. 0 = {} /\ 0 + 0 = 0
    OBVIOUS
  <2>5. QED
    BY <1>9, <2>1, <2>2, <2>3, <2>4, NoFileFacts DEF Holds
<1>11. QED
  BY <1>4, <1>5, <1>6, <1>7, <1>8, <1>10, NoFileFacts DEF Created

LEMMA AppendFacts ==
    ASSUME NEW r \in Regs, NEW d, r.outfcb \in DOMAIN d, r.outfcb \in DOMAIN old,
           FileOK(d[r.outfcb]), Appendable(d[r.outfcb]),
           NEW m, m = append([r |-> r, d |-> d])
    PROVE  Created(r, d, m, Text(d[r.outfcb]))
<1> DEFINE f == d[r.outfcb]
<1>1. PICK n \in Nat : n = Records(f) - 1
  BY TextFacts
<1>2. PICK b \in Nat : b = n * RECSIZE
  BY Sizes
<1>3. PICK k \in 1 .. RECSIZE - 1 : k = Used(f)
  BY TextFacts
<1>4. /\ Len(f.recs) = b + RECSIZE
      /\ Text(f) \in Seq(Nat) /\ Len(Text(f)) = b + k
      /\ \A i \in 1 .. Len(Text(f)) : Text(f)[i] = f.recs[i]
  BY <1>1, <1>2, <1>3, TextFacts
<1>5. f.recs \in Seq(Nat) /\ f.recs # <<>>
  BY FileFacts DEF Appendable
<1>6. PICK x \in Block : x = Record(f, n) /\ \A i \in 1 .. RECSIZE : x[i] = f.recs[b + i]
  <2>1. PICK g : g = f
    OBVIOUS
  <2>2. g.recs \in Seq(Nat) /\ b + RECSIZE <= Len(g.recs)
    BY <1>4, <1>5, <2>1, Sizes
  <2>3. Record(g, n) \in Block /\ \A i \in 1 .. RECSIZE : Record(g, n)[i] = g.recs[b + i]
    BY <1>2, <2>2, RecordFacts
  <2>4. QED
    BY <2>1, <2>3
<1>7. PICK s : s = [r EXCEPT !.outrec = n, !.outptr = k, !.hooked = TRUE, !.outbuf = x]
  OBVIOUS
<1>8. m.r = s /\ m.d = d
  <2>1. m = [[r |-> r, d |-> d] EXCEPT !.r.outrec = n, !.r.outptr = k, !.r.hooked = TRUE, !.r.outbuf = x]
    BY <1>1, <1>3, <1>5, <1>6 DEF append
  <2>2. QED
    BY <1>7, <2>1
<1>9. k \in 0 .. RECSIZE /\ k \in Nat /\ k # 0 /\ k < RECSIZE
  BY Sizes
<1>10. s \in Regs
  BY <1>7, <1>9 DEF Regs
<1>11. SameIn(r, s)
  BY <1>7 DEF Regs, SameIn
<1>12. SameFlags(r, s)
  BY <1>7 DEF Regs, SameFlags
<1>13. s.outrec = n /\ s.outptr = k /\ s.outbuf = x /\ s.outfcb = r.outfcb
  BY <1>7 DEF Regs
<1>14. Holds(s, d, Text(f))
  <2>1. \A i \in 1 .. b : f.recs[i] = Text(f)[i]
    BY <1>4, <1>9
  <2>2. ASSUME NEW i \in 1 .. k PROVE x[i] = Text(f)[b + i]
    <3>1. i \in 1 .. RECSIZE /\ b + i \in 1 .. b + k
      BY <1>9, Sizes
    <3>2. QED
      BY <1>4, <1>6, <3>1
  <2>3. s.outrec * RECSIZE = b
    BY <1>2, <1>13
  <2>4. Len(f.recs) \in {b, b + RECSIZE}
    BY <1>4
  <2>5. QED
    BY <1>4, <1>9, <1>13, <2>1, <2>2, <2>3, <2>4 DEF Holds
<1>15. DOMAIN d = DOMAIN d \cup {r.outfcb}
  OBVIOUS
<1>16. QED
  BY <1>8, <1>10, <1>11, <1>12, <1>14, <1>15 DEF Created


\* The input, if there is any, is open at its beginning.
LEMMA InputOpens ==
    ASSUME Inv, pc = "start",
           NEW r \in Regs, r.infcb = IF Has(Cmd.ops, Inputs) THEN InFile(Cmd.ops) ELSE rsx.infcb,
           r.inflg <=> rsx.PipedI \/ Has(Cmd.ops, Inputs),
           r.PipedI = rsx.PipedI, r.awake, ~r.pclosed, r.inptr = RECSIZE, r.inlen = rsx.inlen,
           NEW s, s = IF r.inflg THEN openin([r |-> r, d |-> disk]) ELSE r
    PROVE  /\ s \in Regs /\ SameOut(r, s) /\ s.awake /\ (s.PipedI => s.inflg)
           /\ \/ prev = <<>> /\ s.inlen = 0 /\ ~s.PipedI
              \/ /\ At(s, disk, prev, 0) /\ s.lastin = 0
                 /\ ~(Has(Cmd.ops, Outputs) /\ s.infcb = OutFile(Cmd.ops))
<1>1. /\ Typed /\ Rest /\ Start /\ UsualDisk(old) /\ (rsx.PipedI => rsx.infcb = PIPEIN)
      /\ \A f \in DOMAIN disk : FileOK(disk[f])
  BY DEF Inv, Rest, Typed
<1>2. /\ UsualCommand(Cmd, ~rsx.PipedI, 1 = Len(line))
      /\ Has(Cmd.ops, Outputs) => OutFile(Cmd.ops) # PIPEIN
      /\ Has(Cmd.ops, Inputs) => InFile(Cmd.ops) \notin Temps
  BY <1>1, OutFileFacts
<1>3. /\ Has(Cmd.ops, Inputs) => ~rsx.PipedI
      /\ Has(Cmd.ops, Inputs) /\ Has(Cmd.ops, Outputs) => InFile(Cmd.ops) # OutFile(Cmd.ops)
  BY <1>2, Zenon DEF UsualCommand
<1>4. /\ DOMAIN disk \ Temps = DOMAIN old \ Temps
      /\ \A f \in DOMAIN old \ Temps : disk[f] = old[f]
      /\ \A f \in DOMAIN old : f \notin Devices
  BY <1>1 DEF Start, Untouched, UsualDisk
<1>5. CASE rsx.PipedI
  <2>1. r.infcb = PIPEIN /\ PIPEIN \in DOMAIN disk /\ Exact(disk[PIPEIN]) = prev
    BY <1>1, <1>3, <1>5 DEF Start
  <2>2. PIPEIN \notin Devices
    BY DEF PIPEIN, Devices
  <2>3. s = openin([r |-> r, d |-> disk])
    BY <1>5
  <2>4. /\ s \in Regs /\ SameOut(r, s) /\ At(s, disk, prev, 0) /\ s.inflg /\ s.awake /\ s.lastin = 0
    BY <1>1, <2>1, <2>2, <2>3, OpenFacts
  <2>5. s.infcb = PIPEIN
    BY <2>1, <2>4 DEF SameOut
  <2>6. QED
    BY <1>2, <2>4, <2>5
<1>6. CASE ~rsx.PipedI /\ Has(Cmd.ops, Inputs)
  <2>1. /\ prev = Given(line, old) /\ r.infcb = InFile(Cmd.ops) /\ r.infcb \notin Temps
        /\ s = openin([r |-> r, d |-> disk])
    BY <1>1, <1>2, <1>6 DEF Start
  <2>2. prev = IF r.infcb \in DOMAIN old THEN Exact(old[r.infcb]) ELSE <<>>
    BY <1>6, <2>1 DEF Given, Cmd
  <2>3. CASE r.infcb \in DOMAIN disk
    <3>1. r.infcb \in DOMAIN disk \ Devices /\ Exact(disk[r.infcb]) = prev
      BY <1>4, <2>1, <2>2, <2>3
    <3>2. s \in Regs /\ SameOut(r, s) /\ At(s, disk, prev, 0) /\ s.inflg /\ s.awake /\ s.lastin = 0
      BY <1>1, <2>1, <3>1, OpenFacts
    <3>3. s.infcb = r.infcb
      BY <3>2 DEF SameOut
    <3>4. QED
      BY <1>3, <1>6, <2>1, <3>2, <3>3
  <2>4. CASE r.infcb \notin DOMAIN disk
    <3>1. prev = <<>>
      BY <1>4, <2>1, <2>2, <2>4
    <3>2. CASE r.infcb \in Devices
      <4>1. s = [r EXCEPT !.inlen = 0, !.inrec = 0, !.hooked = TRUE, !.pclosed = FALSE,
                          !.ineof = FALSE, !.lastin = 0, !.inflg = TRUE, !.awake = TRUE]
        BY <2>1, <3>2 DEF openin, BytesIn
      <4>2. s \in Regs
        <5>1. PICK u : u = [r EXCEPT !.inlen = 0, !.inrec = 0, !.hooked = TRUE, !.pclosed = FALSE]
          OBVIOUS
        <5>2. u \in Regs
          BY <5>1 DEF Regs
        <5>3. PICK v : v = [u EXCEPT !.ineof = FALSE, !.lastin = 0]
          OBVIOUS
        <5>4. v \in Regs
          BY <5>2, <5>3 DEF Regs
        <5>5. s = [v EXCEPT !.inflg = TRUE, !.awake = TRUE]
          BY <4>1, <5>1, <5>3
        <5>6. QED
          BY <5>4, <5>5 DEF Regs
      <4>3. SameOut(r, s)
        BY <4>1 DEF Regs, SameOut
      <4>4. s.inlen = 0 /\ s.awake /\ s.inflg
        BY <4>1 DEF Regs
      <4>5. ~s.PipedI
        BY <1>6, <4>3 DEF SameOut
      <4>6. QED
        BY <3>1, <4>2, <4>3, <4>4, <4>5
    <3>3. CASE r.infcb \notin Devices
      <4>1. s = [r EXCEPT !.inlen = 0, !.inflg = FALSE, !.ineof = TRUE]
        BY <2>1, <2>4, <3>3 DEF openin
      <4>2. s \in Regs
        <5>1. PICK u : u = [r EXCEPT !.inlen = 0, !.inflg = FALSE]
          OBVIOUS
        <5>2. u \in Regs
          BY <5>1 DEF Regs
        <5>3. s = [u EXCEPT !.ineof = TRUE]
          BY <4>1, <5>1
        <5>4. QED
          BY <5>2, <5>3 DEF Regs
      <4>3. SameOut(r, s)
        BY <4>1 DEF Regs, SameOut
      <4>4. s.inlen = 0 /\ s.awake = r.awake
        BY <4>1 DEF Regs
      <4>5. ~s.PipedI
        BY <1>6, <4>3 DEF SameOut
      <4>6. QED
        BY <3>1, <4>2, <4>3, <4>4, <4>5
    <3>4. QED
      BY <3>2, <3>3
  <2>5. QED
    BY <2>3, <2>4
<1>7. CASE ~rsx.PipedI /\ ~Has(Cmd.ops, Inputs)
  <2>1. prev = <<>> /\ rsx.inlen = 0
    BY <1>1, <1>7 DEF Start, Given, Cmd
  <2>2. s = r
    BY <1>7
  <2>3. QED
    BY <1>7, <2>1, <2>2 DEF SameOut
<1>8. QED
  BY <1>5, <1>6, <1>7

\* The output, if there is a file for it, is empty or holds what it held before.
LEMMA OutputOpens ==
    ASSUME Inv, pc = "start",
           NEW r \in Regs, r.outbuf = Filled, r.outflg <=> Has(Cmd.ops, Outputs),
           Has(Cmd.ops, Outputs) => r.outfcb = OutFile(Cmd.ops), r.oapp <=> Has(Cmd.ops, Appends),
           NEW m, m = creat([r |-> r, d |-> disk])
    PROVE  /\ m.r \in Regs /\ SameIn(r, m.r) /\ SameFlags(r, m.r)
           /\ IF Has(Cmd.ops, Outputs) /\ OutFile(Cmd.ops) \notin Devices
              THEN Created(r, disk, m, Before) ELSE m.d = disk
<1>1. /\ Typed /\ Rest /\ Start /\ UsualDisk(old) /\ AppendsTo(line, old)
      /\ \A f \in DOMAIN disk : FileOK(disk[f])
  BY DEF Inv, Rest, Typed
<1>2. CASE ~Has(Cmd.ops, Outputs)
  <2>1. m = [r |-> r, d |-> disk]
    BY <1>2 DEF creat
  <2>2. QED
    BY <1>2, <2>1 DEF SameIn, SameFlags
<1>3. CASE Has(Cmd.ops, Outputs) /\ OutFile(Cmd.ops) \in Devices
  <2>1. PICK s : s = [r EXCEPT !.hooked = TRUE]
    OBVIOUS
  <2>2. m.r = s /\ m.d = disk
    <3>1. m = [[r |-> r, d |-> disk] EXCEPT !.r.hooked = TRUE]
      BY <1>3 DEF creat
    <3>2. QED
      BY <2>1, <3>1
  <2>3. s \in Regs
    BY <2>1 DEF Regs
  <2>4. SameIn(r, s)
    BY <2>1 DEF Regs, SameIn
  <2>5. SameFlags(r, s)
    BY <2>1 DEF Regs, SameFlags
  <2>6. QED
    BY <1>3, <2>2, <2>3, <2>4, <2>5
<1>4. CASE Has(Cmd.ops, Outputs) /\ OutFile(Cmd.ops) \notin Devices
  <2>1. r.outfcb = OutFile(Cmd.ops) /\ m = IF r.oapp THEN append([r |-> r, d |-> disk]) ELSE rcreat([r |-> r, d |-> disk])
    BY <1>4 DEF creat
  <2>2. CASE Has(Cmd.ops, Appends) /\ OutFile(Cmd.ops) \in DOMAIN old
    <3>1. /\ UsualCommand(Cmd, ~rsx.PipedI, 1 = Len(line)) /\ Cmd = line[1]
          /\ OutFile(Cmd.ops) # PIPEIN
          /\ OutFile(Cmd.ops) = PIPEOUT <=> Has(Cmd.ops, Pipes)
      BY <1>1, <1>4, OutFileFacts
    <3>2. 1 = Len(line) /\ ~Has(Cmd.ops, Pipes)
      BY <2>2, <3>1, Zenon DEF UsualCommand
    <3>3. Appendable(old[OutFile(Cmd.ops)])
      BY <1>1, <2>2, <3>1, <3>2 DEF AppendsTo
    <3>4. OutFile(Cmd.ops) \in DOMAIN disk /\ disk[OutFile(Cmd.ops)] = old[OutFile(Cmd.ops)]
      BY <1>1, <2>2, <3>1, <3>2 DEF Start, Untouched, Temps
    <3>5. m = append([r |-> r, d |-> disk])
      BY <2>1, <2>2
    <3>6. Created(r, disk, m, Text(disk[r.outfcb]))
      BY <1>1, <2>1, <2>2, <3>3, <3>4, <3>5, AppendFacts
    <3>7. Created(r, disk, m, Before)
      BY <2>1, <2>2, <3>4, <3>6 DEF Before
    <3>8. QED
      BY <1>4, <3>7 DEF Created
  <2>3. CASE ~(Has(Cmd.ops, Appends) /\ OutFile(Cmd.ops) \in DOMAIN old)
    <3>1. m = rcreat([r |-> r, d |-> disk])
      <4>1. CASE Has(Cmd.ops, Appends)
        <5>1. /\ UsualCommand(Cmd, ~rsx.PipedI, 1 = Len(line))
              /\ OutFile(Cmd.ops) # PIPEIN
              /\ OutFile(Cmd.ops) = PIPEOUT <=> Has(Cmd.ops, Pipes)
          BY <1>1, <1>4, OutFileFacts
        <5>2. ~Has(Cmd.ops, Pipes)
          BY <4>1, <5>1, Zenon DEF UsualCommand
        <5>3. OutFile(Cmd.ops) \notin DOMAIN disk
          BY <1>1, <2>3, <4>1, <5>1, <5>2 DEF Start, Untouched, Temps
        <5>4. m = append([r |-> r, d |-> disk])
          BY <2>1, <4>1
        <5>5. QED
          BY <2>1, <5>3, <5>4 DEF append
      <4>2. CASE ~Has(Cmd.ops, Appends)
        BY <2>1, <4>2
      <4>3. QED
        BY <4>1, <4>2
    <3>2. Created(r, disk, m, <<>>)
      BY <3>1, RcreatFacts
    <3>3. Before = <<>>
      BY <2>3 DEF Before
    <3>4. QED
      BY <1>4, <3>2, <3>3 DEF Created
  <2>4. QED
    BY <2>2, <2>3
<1>5. QED
  BY <1>2, <1>3, <1>4


LEMMA AtElsewhere ==
    ASSUME NEW r, NEW s, NEW d, NEW e, NEW p, NEW n, At(r, d, p, n), SameIn(r, s),
           r.infcb \in DOMAIN e, e[r.infcb] = d[r.infcb]
    PROVE  At(s, e, p, n)
  BY DEF At, SameIn

LEMMA ErrorsAreOutputs ==
    ASSUME NEW ops
    PROVE  /\ Has(ops, Errors) => Has(ops, Outputs)
           /\ Has(ops, Appends) => Has(ops, Outputs)
           /\ Has(ops, Pipes) => Has(ops, Outputs)
  BY DEF Has, Places, Errors, Outputs, Appends, Pipes

\* What initialising leaves.
LEMMA InitialiseFacts ==
    ASSUME Inv, Initialise
    PROVE  /\ rsx' \in Regs /\ rsx'.awake /\ rsx'.PipedI = rsx.PipedI
           /\ rsx'.PipedI => rsx'.inflg /\ rsx'.infcb = PIPEIN
           /\ rsx'.outflg <=> Has(Cmd.ops, Outputs)
           /\ rsx'.errflg => Has(Cmd.ops, Outputs)
           /\ rsx'.oapp <=> Has(Cmd.ops, Appends)
           /\ rsx'.PipedO <=> Has(Cmd.ops, Pipes)
           /\ Has(Cmd.ops, Outputs) => rsx'.outfcb = OutFile(Cmd.ops)
           /\ \/ prev = <<>> /\ rsx'.inlen = 0 /\ ~rsx'.PipedI
              \/ /\ At(rsx', disk', prev, 0) /\ rsx'.lastin = 0
                 /\ ~(Has(Cmd.ops, Outputs) /\ rsx'.infcb = OutFile(Cmd.ops))
           /\ IF Has(Cmd.ops, Outputs) /\ OutFile(Cmd.ops) \notin Devices
              THEN /\ DOMAIN disk' = DOMAIN disk \cup {OutFile(Cmd.ops)}
                   /\ \A f \in DOMAIN disk \ {OutFile(Cmd.ops)} : disk'[f] = disk[f]
                   /\ FileOK(disk'[OutFile(Cmd.ops)])
                   /\ Holds(rsx', disk', Before)
              ELSE disk' = disk
<1>1. /\ Typed /\ Rest /\ Start /\ pc = "start" /\ Cmd.pm /\ rsx \in Regs
      /\ rsx.PipedI => rsx.infcb = PIPEIN
  BY DEF Initialise, Inv, Typed
<1>2. /\ UsualCommand(Cmd, ~rsx.PipedI, 1 = Len(line))
      /\ Has(Cmd.ops, Outputs) => OutFile(Cmd.ops) \in Names
      /\ Has(Cmd.ops, Inputs) => InFile(Cmd.ops) \in Names
  BY <1>1, OutFileFacts
<1>3. /\ rsx.PipedI => Has(Cmd.ops, Outputs)
      /\ Has(Cmd.ops, Inputs) => ~rsx.PipedI
  BY <1>1, <1>2, Zenon DEF UsualCommand
<1>4. /\ rsx.inptr = RECSIZE /\ ~rsx.PipedO /\ ~rsx.oapp
      /\ rsx.PipedI => rsx.inflg
      /\ ~rsx.PipedI => ~rsx.inflg /\ ~rsx.outflg /\ ~rsx.errflg
  BY <1>1 DEF Start
<1>5. PICK b \in BOOLEAN : b = (rsx.inflg \/ rsx.PipedI)
  OBVIOUS
<1>6. PICK r1 : r1 = [rsx EXCEPT !.awake = TRUE, !.pclosed = FALSE, !.inflg = b]
  OBVIOUS
<1>7. r1 \in Regs
  <2>1. PICK u : u = [rsx EXCEPT !.awake = TRUE, !.pclosed = FALSE]
    OBVIOUS
  <2>2. u \in Regs
    BY <1>1, <2>1 DEF Regs
  <2>3. r1 = [u EXCEPT !.inflg = b]
    BY <1>6, <2>1
  <2>4. QED
    BY <2>2, <2>3 DEF Regs
<1>8. /\ r1.awake = TRUE /\ r1.pclosed = FALSE /\ r1.inflg = b /\ r1.inptr = rsx.inptr
      /\ r1.inlen = rsx.inlen /\ r1.infcb = rsx.infcb /\ r1.outfcb = rsx.outfcb
  BY <1>1, <1>6 DEF Regs
<1>9. /\ r1.PipedI = rsx.PipedI /\ r1.PipedO = rsx.PipedO /\ r1.outflg = rsx.outflg
      /\ r1.errflg = rsx.errflg /\ r1.oapp = rsx.oapp
  BY <1>1, <1>6 DEF Regs
<1>10. PICK r2 : r2 = fparse(r1, Cmd.ops)
  OBVIOUS
<1>11. /\ r2 \in Regs
       /\ r2.infcb = IF Has(Cmd.ops, Inputs) THEN InFile(Cmd.ops) ELSE r1.infcb
       /\ r2.outfcb = IF Has(Cmd.ops, Outputs) THEN OutFile(Cmd.ops) ELSE r1.outfcb
       /\ r2.inflg <=> r1.inflg \/ Has(Cmd.ops, Inputs)
       /\ r2.outflg <=> r1.outflg \/ Has(Cmd.ops, Outputs)
       /\ r2.errflg <=> r1.errflg \/ Has(Cmd.ops, Errors)
       /\ r2.oapp <=> r1.oapp \/ Has(Cmd.ops, Appends)
       /\ r2.PipedO <=> r1.PipedO \/ Has(Cmd.ops, Pipes)
       /\ r2.PipedI = r1.PipedI /\ r2.awake = r1.awake /\ r2.pclosed = r1.pclosed
       /\ r2.inptr = r1.inptr /\ r2.inlen = r1.inlen
  BY <1>2, <1>7, <1>10, fparseFacts
<1>12. /\ r2.infcb = IF Has(Cmd.ops, Inputs) THEN InFile(Cmd.ops) ELSE rsx.infcb
       /\ r2.inflg <=> rsx.PipedI \/ Has(Cmd.ops, Inputs)
       /\ r2.PipedI = rsx.PipedI /\ r2.awake /\ ~r2.pclosed /\ r2.inptr = RECSIZE
       /\ r2.inlen = rsx.inlen
       /\ Has(Cmd.ops, Outputs) => r2.outfcb = OutFile(Cmd.ops)
       /\ r2.outflg <=> Has(Cmd.ops, Outputs)
       /\ r2.errflg => Has(Cmd.ops, Outputs)
       /\ r2.oapp <=> Has(Cmd.ops, Appends)
       /\ r2.PipedO <=> Has(Cmd.ops, Pipes)
  BY <1>3, <1>4, <1>5, <1>8, <1>9, <1>11, ErrorsAreOutputs
<1>13. PICK r3 : r3 = IF r2.inflg THEN openin([r |-> r2, d |-> disk]) ELSE r2
  OBVIOUS
<1>14. /\ r3 \in Regs /\ SameOut(r2, r3) /\ r3.awake /\ (r3.PipedI => r3.inflg)
       /\ \/ prev = <<>> /\ r3.inlen = 0 /\ ~r3.PipedI
          \/ /\ At(r3, disk, prev, 0) /\ r3.lastin = 0
             /\ ~(Has(Cmd.ops, Outputs) /\ r3.infcb = OutFile(Cmd.ops))
  BY <1>1, <1>11, <1>12, <1>13, InputOpens
<1>15. PICK r4 : r4 = [r3 EXCEPT !.outbuf = Filled]
  OBVIOUS
<1>16. /\ r4 \in Regs /\ r4.outbuf = Filled
  BY <1>14, <1>15, FilledFacts DEF Regs
<1>17. SameIn(r3, r4)
  BY <1>14, <1>15 DEF Regs, SameIn
<1>18. SameFlags(r3, r4)
  BY <1>14, <1>15 DEF Regs, SameFlags
<1>19. PICK m : m = creat([r |-> r4, d |-> disk])
  OBVIOUS
<1>20. rsx' = m.r /\ disk' = m.d
  <2>1. r1 = [rsx EXCEPT !.awake = TRUE, !.pclosed = FALSE, !.inflg = @ \/ rsx.PipedI]
    BY <1>5, <1>6, Zenon
  <2>2. Become(creat([r |-> r4, d |-> disk]))
    BY <1>10, <1>13, <1>15, <2>1, Zenon DEF Initialise
  <2>3. QED
    BY <1>19, <2>2 DEF Become
<1>21. /\ r4.outflg <=> Has(Cmd.ops, Outputs)
       /\ Has(Cmd.ops, Outputs) => r4.outfcb = OutFile(Cmd.ops)
       /\ r4.oapp <=> Has(Cmd.ops, Appends)
       /\ r4.errflg => Has(Cmd.ops, Outputs)
       /\ r4.PipedO <=> Has(Cmd.ops, Pipes)
       /\ r4.PipedI = rsx.PipedI /\ r4.awake
       /\ r4.PipedI => r4.inflg
  BY <1>12, <1>14, <1>18 DEF SameOut, SameFlags
<1>22. /\ m.r \in Regs /\ SameIn(r4, m.r) /\ SameFlags(r4, m.r)
       /\ IF Has(Cmd.ops, Outputs) /\ OutFile(Cmd.ops) \notin Devices
          THEN Created(r4, disk, m, Before) ELSE m.d = disk
  BY <1>1, <1>16, <1>19, <1>21, OutputOpens
<1>23. /\ m.r.awake /\ m.r.PipedI = rsx.PipedI
       /\ m.r.PipedI => m.r.inflg
       /\ m.r.outflg <=> Has(Cmd.ops, Outputs)
       /\ m.r.errflg => Has(Cmd.ops, Outputs)
       /\ m.r.oapp <=> Has(Cmd.ops, Appends)
       /\ m.r.PipedO <=> Has(Cmd.ops, Pipes)
       /\ Has(Cmd.ops, Outputs) => m.r.outfcb = OutFile(Cmd.ops)
  BY <1>21, <1>22 DEF SameFlags
<1>24. m.r.infcb = r2.infcb /\ m.r.inlen = r3.inlen /\ SameIn(r3, m.r)
  BY <1>14, <1>17, <1>22 DEF SameIn, SameOut
<1>25. m.r.PipedI => m.r.infcb = PIPEIN
  BY <1>1, <1>3, <1>12, <1>23, <1>24
<1>26. IF Has(Cmd.ops, Outputs) /\ OutFile(Cmd.ops) \notin Devices
       THEN /\ DOMAIN m.d = DOMAIN disk \cup {OutFile(Cmd.ops)}
            /\ \A f \in DOMAIN disk \ {OutFile(Cmd.ops)} : m.d[f] = disk[f]
            /\ FileOK(m.d[OutFile(Cmd.ops)])
            /\ Holds(m.r, m.d, Before)
       ELSE m.d = disk
  BY <1>21, <1>22 DEF Created
<1>27. \/ prev = <<>> /\ m.r.inlen = 0 /\ ~m.r.PipedI
       \/ /\ At(m.r, m.d, prev, 0) /\ m.r.lastin = 0
          /\ ~(Has(Cmd.ops, Outputs) /\ m.r.infcb = OutFile(Cmd.ops))
  <2>1. CASE prev = <<>> /\ r3.inlen = 0 /\ ~r3.PipedI
    <3>1. ~m.r.PipedI
      BY <2>1, <1>12, <1>14, <1>23 DEF SameOut
    <3>2. QED
      BY <1>24, <2>1, <3>1
  <2>2. CASE /\ At(r3, disk, prev, 0) /\ r3.lastin = 0
             /\ ~(Has(Cmd.ops, Outputs) /\ r3.infcb = OutFile(Cmd.ops))
    <3>1. r3.infcb \in DOMAIN disk /\ m.r.infcb = r3.infcb
      BY <1>24, <2>2 DEF At, SameIn
    <3>2. r3.infcb \in DOMAIN m.d /\ m.d[r3.infcb] = disk[r3.infcb]
      BY <1>26, <2>2, <3>1
    <3>3. At(m.r, m.d, prev, 0)
      BY <1>24, <2>2, <3>2, AtElsewhere
    <3>4. m.r.lastin = 0
      BY <1>18, <1>22, <2>2 DEF SameFlags
    <3>5. QED
      BY <2>2, <3>1, <3>3, <3>4
  <2>3. QED
    BY <1>14, <2>1, <2>2
<1>28. QED
  BY <1>20, <1>22, <1>23, <1>25, <1>26, <1>27


LEMMA PaddedWhole ==
    ASSUME NEW f, FileOK(f), f.unused = 0
    PROVE  Padded(f)
<1>1. Len(f.recs) \in Nat
  BY FileFacts
<1>2. PICK n \in Nat : n = Len(f.recs)
  BY <1>1
<1>3. \A i \in (n - 0 + 1) .. n : FALSE
  OBVIOUS
<1>4. QED
  BY <1>2, <1>3 DEF Padded

LEMMA BeforeFacts ==
    ASSUME Rest
    PROVE  /\ \A f \in DOMAIN old : FileOK(old[f])
           /\ Before \in Seq(Nat)
<1>1. ASSUME NEW f \in DOMAIN old PROVE FileOK(old[f])
  <2>1. PICK g : g = old[f]
    OBVIOUS
  <2>2. g \in [recs : Seq(Bytes), unused : 0..(RECSIZE - 1)] /\ Len(g.recs) % RECSIZE = 0
    BY <2>1 DEF Rest, UsualDisk
  <2>3. g.recs \in Seq(Nat)
    <3>1. g.recs \in Seq(Bytes)
      BY <2>2
    <3>2. QED
      BY <3>1, Sizes, SeqMonotonic
  <2>4. g \in File
    BY <2>2, <2>3 DEF File
  <2>5. QED
    BY <2>1, <2>2, <2>4 DEF FileOK
<1>2. CASE Has(Cmd.ops, Appends) /\ OutFile(Cmd.ops) \in DOMAIN old
  <2>1. Cmd = line[1] /\ UsualCommand(Cmd, ~rsx.PipedI, 1 = Len(line))
    BY OutFileFacts
  <2>2. 1 = Len(line)
    BY <1>2, <2>1, Zenon DEF UsualCommand
  <2>3. Appendable(old[OutFile(Cmd.ops)])
    BY <1>2, <2>1, <2>2 DEF Rest, AppendsTo
  <2>4. Text(old[OutFile(Cmd.ops)]) \in Seq(Nat)
    BY <1>1, <1>2, <2>3, TextFacts
  <2>5. QED
    BY <1>1, <1>2, <2>4 DEF Before
<1>3. CASE ~(Has(Cmd.ops, Appends) /\ OutFile(Cmd.ops) \in DOMAIN old)
  BY <1>1, <1>3, EmptySeq DEF Before
<1>4. QED
  BY <1>2, <1>3

LEMMA InitialiseKeeps ==
    ASSUME Inv, Initialise
    PROVE  Inv'
<1>1. /\ pc = "start" /\ pc' = "run" /\ Cmd.pm
      /\ line' = line /\ room' = room /\ old' = old /\ sent' = sent /\ prev' = prev
      /\ taken' = taken /\ got' = got /\ eof' = eof
  BY DEF Initialise
<1>2. /\ Typed /\ Rest /\ Start /\ Cmd' = Cmd /\ Targets' = Targets
      /\ \A f \in DOMAIN disk \ DOMAIN old : Padded(disk[f])
      /\ \A f \in DOMAIN disk : FileOK(disk[f])
  BY <1>1 DEF Inv, Typed, Cmd, Targets
<1> DEFINE Out == Has(Cmd.ops, Outputs)
           file == OutFile(Cmd.ops)
<1>3. /\ rsx' \in Regs /\ rsx'.awake /\ rsx'.PipedI = rsx.PipedI
      /\ rsx'.PipedI => rsx'.inflg /\ rsx'.infcb = PIPEIN
      /\ rsx'.outflg <=> Out
      /\ rsx'.errflg => Out
      /\ rsx'.oapp <=> Has(Cmd.ops, Appends)
      /\ rsx'.PipedO <=> Has(Cmd.ops, Pipes)
      /\ Out => rsx'.outfcb = file
      /\ \/ prev = <<>> /\ rsx'.inlen = 0 /\ ~rsx'.PipedI
         \/ /\ At(rsx', disk', prev, 0) /\ rsx'.lastin = 0
            /\ ~(Out /\ rsx'.infcb = file)
      /\ IF Out /\ file \notin Devices
         THEN /\ DOMAIN disk' = DOMAIN disk \cup {file}
              /\ \A f \in DOMAIN disk \ {file} : disk'[f] = disk[f]
              /\ FileOK(disk'[file])
              /\ Holds(rsx', disk', Before)
         ELSE disk' = disk
  BY InitialiseFacts
<1>4. /\ Out => file # PIPEIN
      /\ Out => (file = PIPEOUT <=> Has(Cmd.ops, Pipes))
      /\ Has(Cmd.ops, Pipes) => Out
  BY <1>2, OutFileFacts, ErrorsAreOutputs
<1>5. /\ room = 0 /\ sent = <<>> /\ taken = 0 /\ Untouched(Temps)
      /\ PIPEOUT \notin DOMAIN disk
      /\ PIPEIN \in DOMAIN disk <=> rsx.PipedI
  BY <1>2 DEF Start
<1>6. PIPEOUT \notin Devices /\ PIPEIN # PIPEOUT
  BY DEF PIPEOUT, PIPEIN, Devices
<1> HIDE DEF Out, file
<1>7. \A f \in DOMAIN disk' : /\ FileOK(disk'[f])
                              /\ f \notin DOMAIN old => Padded(disk'[f])
  <2>1. CASE Out /\ file \notin Devices
    <3>1. ASSUME file \notin DOMAIN old PROVE Padded(disk'[file])
      <4>1. rsx'.outfcb = file /\ Holds(rsx', disk', Before) /\ FileOK(disk'[file])
        BY <1>3, <2>1
      <4>2. disk'[file].unused = 0
        BY <3>1, <4>1 DEF Holds
      <4>3. QED
        BY <4>1, <4>2, PaddedWhole
    <3>2. \A f \in DOMAIN disk' : f \in DOMAIN disk \ {file} \/ f = file
      BY <1>3, <2>1
    <3>3. QED
      BY <1>2, <1>3, <2>1, <3>1, <3>2
  <2>2. CASE ~(Out /\ file \notin Devices)
    BY <1>2, <1>3, <2>2
  <2>3. QED
    BY <2>1, <2>2
<1>8. Typed'
  <2>1. /\ room \in Nat /\ eof \in BOOLEAN
        /\ sent \in Seq(Bytes) /\ prev \in Seq(Bytes) /\ got \in Seq(Bytes) /\ taken \in Nat
    BY <1>2 DEF Typed
  <2>2. QED
    BY <1>1, <1>3, <1>7, <2>1 DEF Typed
<1>9. Rest'
  BY <1>1, <1>2, <1>3, RestStays
<1>10. /\ rsx'.PipedO => rsx'.outfcb = PIPEOUT
       /\ rsx'.PipedI => rsx'.infcb = PIPEIN
  BY <1>3, <1>4
<1>11. Reads'
  <2>1. taken' = 0 /\ taken' <= Len(prev')
    BY <1>1, <1>2, <1>5, LenProperties DEF Typed
  <2>2. \/ prev = <<>> /\ rsx'.inlen = 0 /\ ~rsx'.PipedI
        \/ At(rsx', disk', prev, 0) /\ ~Crossed' /\ rsx'.lastin = 0
    BY <1>2, <1>3 DEF Crossed, Out, file
  <2>3. rsx'.lastin = 0 => Recent(rsx', prev', taken')
    BY LineEnds DEF Recent
  <2>4. \/ prev' = <<>> /\ rsx'.inlen = 0 /\ ~rsx'.PipedI
        \/ At(rsx', disk', prev', taken') /\ ~Crossed' /\ (OnlyLines' => Recent(rsx', prev', taken'))
    BY <1>1, <2>1, <2>2, <2>3
  <2>5. ~(room' > 0)
    BY <1>1, <1>5
  <2>6. QED
    BY <2>1, <2>4, <2>5 DEF Reads
<1>12. Writes'
  <2>1. Out /\ file \notin Devices => Total' = Before
    <3>1. ASSUME Out, file \notin Devices PROVE Before \o <<>> = Before
      <4>1. Holds(rsx', disk', Before)
        BY <1>3, <3>1
      <4>2. Before \in Seq(Nat)
        BY <1>2, BeforeFacts
      <4>3. QED
        BY <4>2, ConcatEmptySeq
    <3>2. Total' = Before \o sent
      BY <1>1, <1>2 DEF Total, Before
    <3>3. QED
      BY <1>5, <3>1, <3>2
  <2>2. CASE Out
    <3>1. rsx'.outflg /\ rsx'.outfcb = file /\ (rsx'.PipedO <=> Has(Cmd.ops, Pipes))
      BY <1>3, <2>2
    <3>2. rsx'.outfcb \notin Devices => Holds(rsx', disk', Before)
      BY <1>3, <2>2
    <3>3. rsx'.outfcb \notin Devices => Holds(rsx', disk', Total')
      BY <2>1, <2>2, <3>1, <3>2
    <3>4. Holds(rsx', disk', Total') => Holds(rsx, disk, Total)'
      BY <1>1 DEF Holds
    <3>5. QED
      BY <1>2, <2>2, <3>1, <3>3, <3>4 DEF Writes, Out, file
  <2>3. CASE ~Out
    <3>1. ~rsx'.PipedO /\ ~rsx'.outflg /\ ~rsx'.errflg
      BY <1>3, <1>4, <2>3
    <3>2. QED
      BY <1>2, <2>3, <3>1 DEF Writes, Out
  <2>4. QED
    BY <2>2, <2>3
<1>13. Untouched(Temps \cup Targets)'
  <2>1. DOMAIN disk \ Temps = DOMAIN old \ Temps /\ \A f \in DOMAIN old \ Temps : disk[f] = old[f]
    BY <1>5 DEF Untouched
  <2>2. CASE Out /\ file \notin Devices
    <3>1. Targets = {file}
      BY <2>2 DEF Targets, Out, file
    <3>2. /\ DOMAIN disk' = DOMAIN disk \cup {file}
          /\ \A f \in DOMAIN disk \ {file} : disk'[f] = disk[f]
      BY <1>3, <2>2
    <3>3. QED
      BY <1>1, <1>2, <2>1, <3>1, <3>2 DEF Untouched
  <2>3. CASE ~(Out /\ file \notin Devices)
    <3>1. disk' = disk
      BY <1>3, <2>3
    <3>2. QED
      BY <1>1, <1>2, <2>1, <3>1 DEF Untouched
  <2>4. QED
    BY <2>2, <2>3
<1>14. /\ PIPEIN \in DOMAIN disk' <=> rsx'.PipedI
       /\ PIPEOUT \in DOMAIN disk' <=> Has(Cmd.ops, Pipes)
  <2>1. CASE Out /\ file \notin Devices
    BY <1>3, <1>4, <1>5, <2>1
  <2>2. CASE ~(Out /\ file \notin Devices)
    BY <1>3, <1>4, <1>5, <1>6, <2>2
  <2>3. QED
    BY <2>1, <2>2
<1>15. Run'
  <2>1. /\ rsx'.PipedI => rsx'.inflg /\ rsx'.infcb = PIPEIN
        /\ rsx'.oapp => Has(Cmd'.ops, Appends)
        /\ rsx'.awake \/ Has(Cmd'.ops, Outputs) => Cmd'.pm
    BY <1>1, <1>2, <1>3
  <2>2. QED
    BY <1>2, <1>11, <1>12, <1>13, <1>14, <2>1 DEF Run
<1>16. \A f \in DOMAIN disk' \ DOMAIN old' : Padded(disk'[f])
  BY <1>1, <1>7
<1>17. QED
  BY <1>1, <1>8, <1>9, <1>10, <1>15, <1>16 DEF Inv



-----------------------------------------------------------------------------
(***************************************************************************)
(* Output.                                                                 *)
(***************************************************************************)
\* Only the file of r's output may be another, and it is a file.
Alone(r, m, d) ==
    /\ m.r \in Regs /\ SameIn(r, m.r) /\ SameFlags(r, m.r)
    /\ r.outfcb \in DOMAIN d /\ DOMAIN m.d = DOMAIN d
    /\ \A f \in DOMAIN d \ {r.outfcb} : m.d[f] = d[f]
    /\ FileOK(m.d[r.outfcb])

\* The buffer is written behind the records that are full.
LEMMA WrobufFacts ==
    ASSUME NEW r \in Regs, NEW d, NEW t, r.outfcb \in DOMAIN d, FileOK(d[r.outfcb]), Holds(r, d, t),
           NEW m, m = wrobuf([r |-> r, d |-> d]),
           NEW n, n = r.outrec * RECSIZE
    PROVE  /\ Alone(r, m, d) /\ n \in Nat
           /\ m.r.outrec = r.outrec + 1 /\ m.r.outptr = 0 /\ m.r.outbuf = Filled
           /\ m.r.outrec * RECSIZE = n + RECSIZE
           /\ m.d[r.outfcb].unused = d[r.outfcb].unused
           /\ Len(m.d[r.outfcb].recs) = n + RECSIZE
           /\ \A i \in 1 .. n : m.d[r.outfcb].recs[i] = t[i]
           /\ \A i \in 1 .. RECSIZE : m.d[r.outfcb].recs[n + i] = r.outbuf[i]
<1> DEFINE f == d[r.outfcb]
<1>1. PICK x \in Nat : x = r.outrec
  BY DEF Regs
<1>2. n = x * RECSIZE /\ n \in Nat /\ (x + 1) * RECSIZE = n + RECSIZE
  BY <1>1, OneMore, Sizes
<1>3. PICK s \in Seq(Nat) : s = f.recs
  BY FileFacts
<1>4. PICK b \in Block : b = r.outbuf
  BY DEF Regs
<1>5. Len(s) \in {n, n + RECSIZE} /\ \A i \in 1 .. n : s[i] = t[i]
  BY <1>3 DEF Holds
<1>6. PICK new : new = SubSeq(s, 1, n) \o b \o SubSeq(s, n + RECSIZE + 1, Len(s))
  OBVIOUS
<1>7. /\ new \in Seq(Nat) /\ Len(new) = n + RECSIZE
      /\ \A i \in 1 .. n : new[i] = s[i]
      /\ \A i \in 1 .. RECSIZE : new[n + i] = b[i]
  BY <1>2, <1>5, <1>6, Spliced
<1>8. PICK u : u = [r EXCEPT !.outrec = @ + 1, !.outptr = 0, !.outbuf = Filled]
  OBVIOUS
<1>9. PICK e : e = [d EXCEPT ![r.outfcb].recs = new]
  OBVIOUS
<1>10. m = [r |-> u, d |-> e]
  BY <1>2, <1>1, <1>3, <1>4, <1>6, <1>8, <1>9 DEF wrobuf
<1>11. m.r = u /\ m.d = e
  BY <1>10
<1>12. PICK y \in Nat : y = x + 1
  OBVIOUS
<1>13. PICK z \in 0 .. RECSIZE : z = 0
  BY Sizes
<1>14. u = [r EXCEPT !.outrec = y, !.outptr = z, !.outbuf = Filled]
  BY <1>1, <1>8, <1>12, <1>13
<1>15. u \in Regs
  BY <1>14, FilledFacts DEF Regs
<1>16. SameIn(r, u)
  BY <1>14 DEF Regs, SameIn
<1>17. SameFlags(r, u)
  BY <1>14 DEF Regs, SameFlags
<1>18. u.outrec = y /\ u.outptr = z /\ u.outbuf = Filled
  BY <1>14 DEF Regs
<1>19. /\ DOMAIN e = DOMAIN d /\ \A g \in DOMAIN d \ {r.outfcb} : e[g] = d[g]
       /\ e[r.outfcb] = [f EXCEPT !.recs = new]
  BY <1>9
<1>20. PICK h : h = f
  OBVIOUS
<1>21. /\ [h EXCEPT !.recs = new].recs = new /\ [h EXCEPT !.recs = new].unused = h.unused
       /\ [h EXCEPT !.recs = new] \in File
  BY <1>7, <1>20 DEF FileOK, File
<1>22. Len(new) % RECSIZE = 0
  <2>1. x + 1 \in Nat
    OBVIOUS
  <2>2. ((x + 1) * RECSIZE) % RECSIZE = 0
    BY <2>1, MultiplesAreWhole, Sizes
  <2>3. QED
    BY <1>2, <1>7, <2>2
<1>23. FileOK(e[r.outfcb])
  BY <1>19, <1>20, <1>21, <1>22 DEF FileOK
<1>24. Alone(r, m, d)
  BY <1>11, <1>15, <1>16, <1>17, <1>19, <1>23 DEF Alone
<1>25. /\ e[r.outfcb].unused = f.unused /\ e[r.outfcb].recs = new
  BY <1>19, <1>20, <1>21
<1>26. m.r.outrec = r.outrec + 1 /\ m.r.outptr = 0 /\ m.r.outbuf = Filled
       /\ m.r.outrec * RECSIZE = n + RECSIZE
  BY <1>1, <1>2, <1>11, <1>12, <1>13, <1>18
<1>27. QED
  BY <1>2, <1>4, <1>5, <1>7, <1>11, <1>24, <1>25, <1>26

\* A byte in the buffer, behind what was written.
Put(r, d, b) ==
    [[r |-> r, d |-> d] EXCEPT !.r.outptr = @ + 1,
       !.r.outbuf = [i \in 1..RECSIZE |-> IF i = r.outptr + 1 THEN b ELSE @[i]]]

LEMMA PutFacts ==
    ASSUME NEW r \in Regs, NEW d, NEW t \in Seq(Nat), NEW b \in Nat,
           r.outfcb \in DOMAIN d, FileOK(d[r.outfcb]), Holds(r, d, t), r.outptr < RECSIZE,
           NEW m, m = Put(r, d, b)
    PROVE  Alone(r, m, d) /\ Holds(m.r, m.d, Append(t, b))
<1>1. PICK p \in 0 .. RECSIZE : p = r.outptr
  BY DEF Regs
<1>2. p \in Nat /\ p < RECSIZE /\ p + 1 \in 1 .. RECSIZE /\ RECSIZE \in Nat
  BY <1>1, Sizes
<1>3. PICK q \in 0 .. RECSIZE : q = p + 1
  BY <1>2
<1>4. PICK x \in Block : x = r.outbuf
  BY DEF Regs
<1>5. PICK y : y = [i \in 1 .. RECSIZE |-> IF i = q THEN b ELSE x[i]]
  OBVIOUS
<1>6. y \in Block
  BY <1>4, <1>5 DEF Block
<1>7. PICK s : s = [r EXCEPT !.outptr = q, !.outbuf = y]
  OBVIOUS
<1>8. m.r = s /\ m.d = d
  <2>1. m.r = [r EXCEPT !.outptr = @ + 1,
                        !.outbuf = [i \in 1..RECSIZE |-> IF i = r.outptr + 1 THEN b ELSE @[i]]]
    BY DEF Put
  <2>2. m.d = d
    BY DEF Put
  <2>3. QED
    BY <1>1, <1>3, <1>4, <1>5, <1>7, <2>1, <2>2
<1>9. s \in Regs
  BY <1>6, <1>7 DEF Regs
<1>10. SameIn(r, s)
  BY <1>7 DEF Regs, SameIn
<1>11. SameFlags(r, s)
  BY <1>7 DEF Regs, SameFlags
<1>12. s.outptr = q /\ s.outbuf = y /\ s.outrec = r.outrec /\ s.outfcb = r.outfcb
  BY <1>7 DEF Regs
<1>13. PICK n \in Nat : n = r.outrec * RECSIZE
  <2>1. PICK z \in Nat : z = r.outrec
    BY DEF Regs
  <2>2. QED
    BY <2>1, Sizes
<1>14. PICK f : f = d[r.outfcb]
  OBVIOUS
<1>15. /\ Len(t) = n + p /\ Len(f.recs) \in {n, n + RECSIZE}
       /\ \A i \in 1 .. n : f.recs[i] = t[i]
       /\ \A i \in 1 .. p : x[i] = t[n + i]
       /\ r.outfcb \notin DOMAIN old =>
             f.unused = 0 /\ \A i \in (p + 1) .. RECSIZE : x[i] = MARK
  BY <1>1, <1>4, <1>13, <1>14 DEF Holds
<1>16. PICK v \in Seq(Nat) : /\ v = Append(t, b) /\ Len(v) = n + q
                             /\ \A i \in 1 .. n + p : v[i] = t[i]
                             /\ v[n + q] = b
  <2>1. /\ Append(t, b) \in Seq(Nat)
        /\ Len(Append(t, b)) = Len(t) + 1
        /\ \A i \in 1 .. Len(t) : Append(t, b)[i] = t[i]
        /\ Append(t, b)[Len(t) + 1] = b
    BY AppendProperties
  <2>2. Len(t) + 1 = n + q
    BY <1>2, <1>3, <1>15
  <2>3. QED
    BY <1>15, <2>1, <2>2
<1>17. \A i \in 1 .. n : f.recs[i] = v[i]
  BY <1>2, <1>15, <1>16
<1>18. ASSUME NEW i \in 1 .. q PROVE y[i] = v[n + i]
  <2>1. i \in 1 .. RECSIZE
    BY <1>2, <1>3
  <2>2. CASE i = q
    BY <1>5, <1>16, <2>1, <2>2
  <2>3. CASE i # q
    <3>1. i \in 1 .. p /\ n + i \in 1 .. n + p
      BY <1>2, <1>3, <2>3
    <3>2. y[i] = x[i]
      BY <1>5, <2>1, <2>3
    <3>3. QED
      BY <1>15, <1>16, <3>1, <3>2
  <2>4. QED
    BY <2>2, <2>3
<1>19. ASSUME r.outfcb \notin DOMAIN old, NEW i \in (q + 1) .. RECSIZE PROVE y[i] = MARK
  <2>1. i \in 1 .. RECSIZE /\ i # q /\ i \in (p + 1) .. RECSIZE
    BY <1>2, <1>3
  <2>2. QED
    BY <1>5, <1>15, <1>19, <2>1
<1>20. Holds(s, d, v)
  <2>1. s.outrec * RECSIZE = n
    BY <1>12, <1>13
  <2>2. q # 0
    BY <1>2, <1>3
  <2>3. s.outfcb \notin DOMAIN old =>
          f.unused = 0 /\ \A i \in (s.outptr + 1) .. RECSIZE : s.outbuf[i] = MARK
    BY <1>12, <1>15, <1>19
  <2>4. QED
    BY <1>12, <1>14, <1>15, <1>16, <1>17, <1>18, <2>1, <2>2, <2>3 DEF Holds
<1>21. Alone(r, m, d)
  BY <1>8, <1>9, <1>10, <1>11 DEF Alone
<1>22. QED
  BY <1>8, <1>16, <1>20, <1>21


LEMMA AloneTwice ==
    ASSUME NEW r, NEW d, NEW w, NEW m, Alone(r, w, d), Alone(w.r, m, w.d)
    PROVE  Alone(r, m, d)
<1>1. w.r.outfcb = r.outfcb
  BY DEF Alone, SameFlags
<1>2. SameIn(r, m.r)
  BY DEF Alone, SameIn
<1>3. SameFlags(r, m.r)
  BY DEF Alone, SameFlags
<1>4. QED
  BY <1>1, <1>2, <1>3 DEF Alone

LEMMA BytoutFacts ==
    ASSUME NEW r \in Regs, NEW d, NEW t \in Seq(Nat), NEW b \in Nat,
           r.outfcb \in DOMAIN d, FileOK(d[r.outfcb]), Holds(r, d, t), r.outfcb \notin Devices,
           NEW m, m = bytout([r |-> r, d |-> d], b)
    PROVE  Alone(r, m, d) /\ Holds(m.r, m.d, Append(t, b))
<1>1. PICK p \in 0 .. RECSIZE : p = r.outptr
  BY DEF Regs
<1>2. p \in Nat /\ RECSIZE \in Nat \ {0}
  BY <1>1, Sizes
<1>3. CASE p < RECSIZE
  <2>1. ~Full(r)
    BY <1>1, <1>2, <1>3 DEF Full
  <2>2. m = Put(r, d, b)
    BY <2>1 DEF bytout, Put
  <2>3. QED
    BY <1>1, <1>3, <2>2, PutFacts
<1>4. CASE p = RECSIZE
  <2>1. Full(r)
    BY <1>1, <1>2, <1>4 DEF Full
  <2>2. PICK w : w = wrobuf([r |-> r, d |-> d])
    OBVIOUS
  <2>3. PICK n : n = r.outrec * RECSIZE
    OBVIOUS
  <2>4. /\ Alone(r, w, d) /\ n \in Nat
        /\ w.r.outptr = 0 /\ w.r.outbuf = Filled
        /\ w.r.outrec * RECSIZE = n + RECSIZE
        /\ w.d[r.outfcb].unused = d[r.outfcb].unused
        /\ Len(w.d[r.outfcb].recs) = n + RECSIZE
        /\ \A i \in 1 .. n : w.d[r.outfcb].recs[i] = t[i]
        /\ \A i \in 1 .. RECSIZE : w.d[r.outfcb].recs[n + i] = r.outbuf[i]
    BY <2>2, <2>3, WrobufFacts
  <2>5. PICK s, e : s = w.r /\ e = w.d /\ w = [r |-> s, d |-> e]
    BY <2>2 DEF wrobuf
  <2>6. PICK f : f = e[r.outfcb]
    OBVIOUS
  <2>7. /\ s \in Regs /\ s.outfcb = r.outfcb /\ r.outfcb \in DOMAIN e /\ FileOK(f)
    BY <2>4, <2>5, <2>6 DEF Alone, SameFlags
  <2>8. /\ Len(t) = n + RECSIZE
        /\ \A i \in 1 .. RECSIZE : r.outbuf[i] = t[n + i]
        /\ r.outfcb \notin DOMAIN old => d[r.outfcb].unused = 0
    BY <1>1, <1>4, <2>3 DEF Holds
  <2>9. ASSUME NEW i \in 1 .. n + RECSIZE PROVE f.recs[i] = t[i]
    <3>1. CASE i <= n
      BY <2>4, <2>5, <2>6, <3>1
    <3>2. CASE i > n
      <4>1. PICK k \in 1 .. RECSIZE : i = n + k
        <5>1. i - n \in 1 .. RECSIZE /\ i = n + (i - n)
          BY <1>2, <2>4, <3>2
        <5>2. QED
          BY <5>1
      <4>2. f.recs[n + k] = r.outbuf[k] /\ r.outbuf[k] = t[n + k]
        BY <2>4, <2>5, <2>6, <2>8
      <4>3. QED
        BY <4>1, <4>2
    <3>3. QED
      BY <2>4, <3>1, <3>2
  <2>10. Holds(s, e, t)
    <3>1. PICK k \in Nat : k = n + RECSIZE
      BY <1>2, <2>4
    <3>2. Len(t) = k + 0 /\ Len(f.recs) = k /\ s.outrec * RECSIZE = k /\ s.outptr = 0
      BY <2>4, <2>5, <2>6, <2>8, <3>1
    <3>3. \A i \in 1 .. k : f.recs[i] = t[i]
      BY <2>9, <3>1
    <3>4. \A i \in 1 .. 0 : s.outbuf[i] = t[k + i]
      OBVIOUS
    <3>5. s.outfcb \notin DOMAIN old =>
            f.unused = 0 /\ \A i \in (0 + 1) .. RECSIZE : s.outbuf[i] = MARK
      BY <2>4, <2>5, <2>6, <2>7, <2>8, FilledFacts
    <3>6. QED
      BY <2>6, <2>7, <3>2, <3>3, <3>4, <3>5 DEF Holds
  <2>11. m = Put(s, e, b)
    <3>1. m = [w EXCEPT !.r.outptr = @ + 1,
                 !.r.outbuf = [i \in 1..RECSIZE |-> IF i = w.r.outptr + 1 THEN b ELSE @[i]]]
      BY <2>1, <2>2 DEF bytout
    <3>2. QED
      BY <2>5, <3>1, Zenon DEF Put
  <2>12. s.outptr < RECSIZE
    BY <1>2, <2>4, <2>5
  <2>13. Alone(s, m, e) /\ Holds(m.r, m.d, Append(t, b))
    BY <2>6, <2>7, <2>10, <2>11, <2>12, PutFacts
  <2>14. QED
    BY <2>4, <2>5, <2>13, AloneTwice
<1>5. QED
  BY <1>1, <1>2, <1>3, <1>4


LEMMA AppendBehind ==
    ASSUME NEW S, NEW s \in Seq(S), NEW t \in Seq(S), NEW x \in S
    PROVE  s \o Append(t, x) = Append(s \o t, x)
<1>1. s \o t \in Seq(S) /\ <<x>> \in Seq(S)
  BY ConcatProperties
<1>2. Append(t, x) = t \o <<x>>
  BY AppendIsConcat
<1>3. Append(s \o t, x) = (s \o t) \o <<x>>
  BY <1>1, AppendIsConcat
<1>4. s \o (t \o <<x>>) = (s \o t) \o <<x>>
  BY <1>1, ConcatAssociative
<1>5. QED
  BY <1>2, <1>3, <1>4

LEMMA OutputKeeps ==
    ASSUME Inv, Output
    PROVE  Inv' /\ Abstract!Put
<1>1. /\ pc = "run" /\ room = 0 /\ rsx.awake /\ pc' = pc /\ line' = line /\ room' = room
      /\ old' = old /\ prev' = prev /\ taken' = taken /\ got' = got /\ eof' = eof
  BY DEF Output, Running
<1>2. PICK b \in Bytes : /\ rsx.outflg \/ rsx.errflg
                         /\ Become(bytout(M, b)) /\ sent' = Append(sent, b)
  BY DEF Output
<1>3. /\ Typed /\ Rest /\ Run /\ Reads /\ Writes /\ rsx \in Regs /\ sent \in Seq(Bytes)
      /\ \A f \in DOMAIN disk \ DOMAIN old : Padded(disk[f])
      /\ \A f \in DOMAIN disk : FileOK(disk[f])
      /\ rsx.PipedO => rsx.outfcb = PIPEOUT
      /\ rsx.PipedI => rsx.infcb = PIPEIN
  BY <1>1 DEF Inv, Run, Typed
<1> DEFINE file == OutFile(Cmd.ops)
<1>4. /\ Has(Cmd.ops, Outputs) /\ rsx.outflg /\ rsx.outfcb = file
      /\ rsx.PipedO <=> Has(Cmd.ops, Pipes)
      /\ file \notin Devices => Holds(rsx, disk, Total)
  BY <1>1, <1>2, <1>3 DEF Writes
<1>5. Cmd' = Cmd /\ Targets' = Targets /\ Before' = Before
  BY <1>1 DEF Cmd, Targets, Before
<1>6. Before \in Seq(Nat) /\ sent \in Seq(Nat) /\ b \in Nat
  BY <1>3, BeforeFacts, SeqMonotonic, Sizes
<1>7. Total \in Seq(Nat)
  BY <1>6, ConcatProperties DEF Total
<1>8. sent' \in Seq(Bytes) /\ Total' = Append(Total, b)
  <2>1. Append(sent, b) \in Seq(Bytes)
    BY <1>3, AppendProperties
  <2>2. Before \o Append(sent, b) = Append(Before \o sent, b)
    BY <1>6, AppendBehind
  <2>3. QED
    BY <1>2, <1>5, <2>1, <2>2 DEF Total
<1>9. PICK m : m = bytout([r |-> rsx, d |-> disk], b)
  OBVIOUS
<1>10. rsx' = m.r /\ disk' = m.d
  BY <1>2, <1>9 DEF Become, M
<1> HIDE DEF file
<1> DEFINE Fine ==
      /\ m.r \in Regs /\ SameIn(rsx, m.r) /\ SameFlags(rsx, m.r) /\ DOMAIN m.d = DOMAIN disk
      /\ \A f \in DOMAIN disk : f # file \/ f \in Devices => m.d[f] = disk[f]
      /\ \A f \in DOMAIN disk : FileOK(m.d[f]) /\ (f \notin DOMAIN old => Padded(m.d[f]))
      /\ file \notin Devices => Holds(m.r, m.d, Append(Total, b))
<1>11. ASSUME file \in Devices PROVE Fine
  <2>1. m = [r |-> rsx, d |-> disk]
    BY <1>4, <1>9, <1>11 DEF bytout
  <2>2. m.r = rsx /\ m.d = disk
    BY <2>1
  <2>3. SameIn(rsx, rsx) /\ SameFlags(rsx, rsx)
    BY DEF SameIn, SameFlags
  <2>4. QED
    BY <1>3, <1>11, <2>2, <2>3
<1>12. ASSUME file \notin Devices PROVE Fine
  <2>1. Holds(rsx, disk, Total) /\ rsx.outfcb = file
    BY <1>4, <1>12
  <2>2. file \in DOMAIN disk /\ FileOK(disk[file])
    BY <1>3, <2>1 DEF Holds
  <2>3. Alone(rsx, m, disk) /\ Holds(m.r, m.d, Append(Total, b))
    BY <1>3, <1>6, <1>7, <1>9, <1>12, <2>1, <2>2, BytoutFacts
  <2>4. /\ m.r \in Regs /\ SameIn(rsx, m.r) /\ SameFlags(rsx, m.r) /\ DOMAIN m.d = DOMAIN disk
        /\ \A f \in DOMAIN disk \ {file} : m.d[f] = disk[f]
        /\ FileOK(m.d[file])
    BY <2>1, <2>3 DEF Alone
  <2>5. file \notin DOMAIN old => Padded(m.d[file])
    <3>1. m.r.outfcb = file
      BY <2>1, <2>4 DEF SameFlags
    <3>2. file \notin DOMAIN old => m.d[file].unused = 0
      BY <2>3, <3>1 DEF Holds
    <3>3. QED
      BY <2>4, <3>2, PaddedWhole
  <2>6. QED
    BY <1>3, <1>12, <2>3, <2>4, <2>5
<1>13. Fine
  BY <1>11, <1>12
<1>14. Typed'
  <2>1. /\ room \in Nat /\ eof \in BOOLEAN /\ prev \in Seq(Bytes) /\ got \in Seq(Bytes)
        /\ taken \in Nat
    BY <1>3 DEF Typed
  <2>2. rsx' \in Regs /\ \A f \in DOMAIN disk' : FileOK(disk'[f])
    BY <1>10, <1>13
  <2>3. QED
    BY <1>1, <1>8, <2>1, <2>2 DEF Typed
<1>15. /\ rsx'.PipedI = rsx.PipedI /\ rsx'.PipedO = rsx.PipedO /\ rsx'.inflg = rsx.inflg
       /\ rsx'.outflg = rsx.outflg /\ rsx'.oapp = rsx.oapp /\ rsx'.outfcb = rsx.outfcb
       /\ rsx'.awake = rsx.awake /\ rsx'.infcb = rsx.infcb /\ rsx'.inlen = rsx.inlen
       /\ rsx'.pclosed = rsx.pclosed /\ rsx'.lastin = rsx.lastin
  BY <1>10, <1>13 DEF SameIn, SameFlags
<1>16. Rest'
  BY <1>1, <1>3, <1>15, RestStays
<1>17. Reads'
  <2>1. /\ taken <= Len(prev)
        /\ \/ prev = <<>> /\ rsx.inlen = 0 /\ ~rsx.PipedI
           \/ At(rsx, disk, prev, taken) /\ ~Crossed /\ (OnlyLines => Recent(rsx, prev, taken))
    <3>1. ~Waits(rsx, disk, prev)
      BY <1>1 DEF Waits
    <3>2. QED
      BY <1>3, <3>1 DEF Reads
  <2>2. Crossed' = Crossed
    BY <1>5, <1>15 DEF Crossed
  <2>3. ASSUME At(rsx, disk, prev, taken), ~Crossed PROVE At(rsx', disk', prev, taken)
    <3>1. rsx.infcb \in DOMAIN disk /\ rsx.infcb # file
      BY <1>4, <2>3 DEF At, Crossed, file
    <3>2. SameIn(rsx, rsx')
      BY <1>10, <1>13
    <3>3. rsx.infcb \in DOMAIN disk' /\ disk'[rsx.infcb] = disk[rsx.infcb]
      BY <1>10, <1>13, <3>1
    <3>4. QED
      BY <2>3, <3>2, <3>3, AtElsewhere
  <2>4. At(rsx', disk', prev, taken) => At(rsx', disk', prev', taken')
    BY <1>1
  <2>5. Recent(rsx, prev, taken) => Recent(rsx', prev', taken')
    BY <1>1, <1>15 DEF Recent
  <2>6. ~(room' > 0)
    BY <1>1
  <2>7. OnlyLines' = OnlyLines
    BY <1>1 DEF OnlyLines, Cmd
  <2>8. QED
    BY <1>1, <1>15, <2>1, <2>2, <2>3, <2>4, <2>5, <2>6, <2>7 DEF Reads
<1>18. Writes'
  <2>1. rsx'.outflg /\ rsx'.outfcb = OutFile(Cmd.ops) /\ (rsx'.PipedO <=> Has(Cmd.ops, Pipes))
    BY <1>4, <1>15 DEF file
  <2>2. rsx'.outfcb \notin Devices => Holds(rsx', disk', Total')
    BY <1>4, <1>8, <1>10, <1>13, <1>15
  <2>3. Holds(rsx', disk', Total') => Holds(rsx, disk, Total)'
    BY <1>1 DEF Holds
  <2>4. QED
    BY <1>4, <1>5, <2>1, <2>2, <2>3 DEF Writes
<1>19. Run'
  <2>1. Untouched(Temps \cup Targets)'
    <3>1. Untouched(Temps \cup Targets)
      BY <1>3 DEF Run
    <3>2. file \notin Devices => file \in Targets
      BY <1>4 DEF Targets, file
    <3>3. DOMAIN disk' = DOMAIN disk /\ \A f \in DOMAIN disk : f \notin Targets => disk'[f] = disk[f]
      BY <1>10, <1>13, <3>2
    <3>4. \A f \in DOMAIN old \ (Temps \cup Targets) : f \in DOMAIN disk
      BY <3>1 DEF Untouched
    <3>5. QED
      BY <1>1, <1>5, <3>1, <3>3, <3>4 DEF Untouched
  <2>2. /\ PIPEIN \in DOMAIN disk <=> rsx.PipedI
        /\ PIPEOUT \in DOMAIN disk <=> Has(Cmd.ops, Pipes)
        /\ rsx.PipedI => rsx.inflg /\ rsx.infcb = PIPEIN
        /\ rsx.oapp => Has(Cmd.ops, Appends)
        /\ rsx.awake \/ Has(Cmd.ops, Outputs) => Cmd.pm
    BY <1>3 DEF Run
  <2>3. DOMAIN disk' = DOMAIN disk
    BY <1>10, <1>13
  <2>4. /\ PIPEIN \in DOMAIN disk' <=> rsx'.PipedI
        /\ PIPEOUT \in DOMAIN disk' <=> Has(Cmd'.ops, Pipes)
        /\ rsx'.PipedI => rsx'.inflg /\ rsx'.infcb = PIPEIN
        /\ rsx'.oapp => Has(Cmd'.ops, Appends)
        /\ rsx'.awake \/ Has(Cmd'.ops, Outputs) => Cmd'.pm
    BY <1>5, <1>15, <2>2, <2>3
  <2>5. QED
    BY <1>17, <1>18, <2>1, <2>4 DEF Run
<1>20. /\ \A f \in DOMAIN disk' \ DOMAIN old' : Padded(disk'[f])
       /\ rsx'.PipedO => rsx'.outfcb = PIPEOUT
       /\ rsx'.PipedI => rsx'.infcb = PIPEIN
  BY <1>1, <1>3, <1>10, <1>13, <1>15
<1>21. Inv'
  BY <1>1, <1>14, <1>16, <1>19, <1>20 DEF Inv
<1>22. Abstract!Put
  BY <1>1, <1>2 DEF Abstract!Put
<1>23. QED
  BY <1>21, <1>22



-----------------------------------------------------------------------------
(***************************************************************************)
(* A command ends.                                                         *)
(***************************************************************************)
\* A file with its count of unused bytes set.
LEMMA CountFields ==
    ASSUME NEW f, FileOK(f), NEW u \in 0 .. RECSIZE - 1, NEW g, g = [f EXCEPT !.unused = u]
    PROVE  FileOK(g) /\ g.recs = f.recs /\ g.unused = u
  BY DEF FileOK, File

LEMMA CountFacts ==
    ASSUME NEW f, FileOK(f), NEW u \in 0 .. RECSIZE - 1, NEW t \in Seq(Nat),
           NEW n \in Nat, n = Len(f.recs), n = Len(t) + u,
           \A i \in 1 .. Len(t) : f.recs[i] = t[i],
           NEW g, g.recs = f.recs, g.unused = u
    PROVE  Exact(g) = t
<1>3. u \in Nat /\ Len(t) \in Nat /\ u <= n /\ n - u = Len(t)
  BY Sizes, LenProperties
<1>4. f.recs \in Seq(Nat)
  BY FileFacts
<1>5. /\ Exact(g) \in Seq(Nat)
      /\ Len(Exact(g)) = IF g.unused <= Len(g.recs) THEN Len(g.recs) - g.unused ELSE 0
      /\ \A i \in 1 .. Len(Exact(g)) : Exact(g)[i] = g.recs[i]
  <2>1. g.recs \in Seq(Nat) /\ g.unused \in Nat
    BY <1>3, <1>4
  <2>2. QED
    BY <2>1, ExactFacts
<1>6. Len(Exact(g)) = Len(t)
  BY <1>3, <1>5
<1>7. \A i \in 1 .. Len(Exact(g)) : Exact(g)[i] = t[i]
  BY <1>5, <1>6
<1>8. QED
  BY <1>5, <1>6, <1>7, SeqEqual

LEMMA CloseOutFacts ==
    ASSUME NEW r \in Regs, NEW d, NEW t \in Seq(Nat), r.outflg,
           r.outfcb \in DOMAIN d, FileOK(d[r.outfcb]), Holds(r, d, t),
           NEW m, m = CloseOut([r |-> r, d |-> d])
    PROVE  /\ Alone(r, m, d)
           /\ Exact(m.d[r.outfcb]) = t
           /\ r.outfcb \notin DOMAIN old => Padded(m.d[r.outfcb])
<1>1. PICK p \in 0 .. RECSIZE : p = r.outptr
  BY DEF Regs
<1>2. p \in Nat /\ RECSIZE \in Nat \ {0}
  BY <1>1, Sizes
<1>3. PICK n \in Nat : n = r.outrec * RECSIZE
  <2>1. PICK z \in Nat : z = r.outrec
    BY DEF Regs
  <2>2. QED
    BY <2>1, Sizes
<1>4. PICK f : f = d[r.outfcb] /\ FileOK(f)
  OBVIOUS
<1>5. /\ Len(t) = n + p
      /\ \A i \in 1 .. n : f.recs[i] = t[i]
      /\ \A i \in 1 .. p : r.outbuf[i] = t[n + i]
      /\ p = 0 => Len(f.recs) = n
      /\ r.outfcb \notin DOMAIN old =>
            f.unused = 0 /\ \A i \in (p + 1) .. RECSIZE : r.outbuf[i] = MARK
  BY <1>1, <1>3, <1>4 DEF Holds
<1>6. CASE p = 0
  <2>1. PICK u \in 0 .. RECSIZE - 1 : u = 0 /\ u = Unused(r)
    <3>1. RECSIZE % RECSIZE = 0 /\ RECSIZE - 0 = RECSIZE /\ 0 \in 0 .. RECSIZE - 1
      BY <1>2, SmallRemainder
    <3>2. QED
      BY <1>1, <1>6, <3>1 DEF Unused
  <2>2. PICK e : e = [d EXCEPT ![r.outfcb].unused = u]
    OBVIOUS
  <2>3. m.r = r /\ m.d = e
    <3>1. m = [[r |-> r, d |-> d] EXCEPT !.d[r.outfcb].unused = u]
      BY <1>1, <1>6, <2>1 DEF CloseOut
    <3>2. QED
      BY <2>2, <3>1
  <2>4. PICK g : g = [f EXCEPT !.unused = u]
    OBVIOUS
  <2>5. DOMAIN e = DOMAIN d /\ e[r.outfcb] = g /\ \A h \in DOMAIN d \ {r.outfcb} : e[h] = d[h]
    BY <1>4, <2>2, <2>4
  <2>6. FileOK(g) /\ Exact(g) = t /\ g.recs = f.recs /\ g.unused = u
    <3>1. Len(t) = n /\ n = Len(t) + u /\ n = Len(f.recs)
      BY <1>5, <1>6, <2>1
    <3>2. \A i \in 1 .. Len(t) : f.recs[i] = t[i]
      BY <1>5, <3>1
    <3>3. FileOK(g) /\ g.recs = f.recs /\ g.unused = u
      BY <1>4, <2>4, CountFields
    <3>4. PICK k \in Nat : k = Len(f.recs) /\ k = Len(t) + u /\ FileOK(f)
      BY <1>4, <3>1
    <3>5. Exact(g) = t
      BY <3>2, <3>3, <3>4, CountFacts
    <3>6. QED
      BY <3>3, <3>5
  <2>7. Padded(g)
    BY <2>1, <2>6, PaddedWhole
  <2>8. Alone(r, m, d)
    <3>1. SameIn(r, r) /\ SameFlags(r, r)
      BY DEF SameIn, SameFlags
    <3>2. QED
      BY <2>3, <2>5, <2>6, <3>1 DEF Alone
  <2>9. QED
    BY <2>3, <2>5, <2>6, <2>7, <2>8
<1>7. CASE p # 0
  <2>1. PICK u \in 0 .. RECSIZE - 1 : u = RECSIZE - p /\ u = Unused(r)
    <3>1. RECSIZE - p \in 0 .. RECSIZE - 1 /\ RECSIZE - p \in Nat /\ RECSIZE - p < RECSIZE
      BY <1>2, <1>7
    <3>2. (RECSIZE - p) % RECSIZE = RECSIZE - p
      BY <1>2, <3>1, SmallRemainder
    <3>3. QED
      BY <1>1, <3>1, <3>2 DEF Unused
  <2>2. PICK w : w = wrobuf([r |-> r, d |-> d])
    OBVIOUS
  <2>3. /\ Alone(r, w, d)
        /\ Len(w.d[r.outfcb].recs) = n + RECSIZE
        /\ \A i \in 1 .. n : w.d[r.outfcb].recs[i] = t[i]
        /\ \A i \in 1 .. RECSIZE : w.d[r.outfcb].recs[n + i] = r.outbuf[i]
    BY <1>3, <2>2, WrobufFacts
  <2>4. PICK s, c : s = w.r /\ c = w.d /\ w = [r |-> s, d |-> c]
    BY <2>2 DEF wrobuf
  <2>5. PICK h : h = c[r.outfcb]
    OBVIOUS
  <2>6. /\ Len(h.recs) = n + RECSIZE /\ FileOK(h)
        /\ \A i \in 1 .. n : h.recs[i] = t[i]
        /\ \A i \in 1 .. RECSIZE : h.recs[n + i] = r.outbuf[i]
    BY <2>3, <2>4, <2>5 DEF Alone
  <2>7. PICK e : e = [c EXCEPT ![r.outfcb].unused = u]
    OBVIOUS
  <2>8. m.r = s /\ m.d = e
    <3>1. m = [w EXCEPT !.d[r.outfcb].unused = u]
      BY <1>1, <1>7, <2>1, <2>2 DEF CloseOut
    <3>2. QED
      BY <2>4, <2>7, <3>1
  <2>9. PICK g : g = [h EXCEPT !.unused = u]
    OBVIOUS
  <2>10. /\ s \in Regs /\ SameIn(r, s) /\ SameFlags(r, s) /\ DOMAIN c = DOMAIN d
         /\ \A x \in DOMAIN d \ {r.outfcb} : c[x] = d[x]
    BY <2>3, <2>4 DEF Alone
  <2>11. DOMAIN e = DOMAIN d /\ e[r.outfcb] = g /\ \A x \in DOMAIN d \ {r.outfcb} : e[x] = d[x]
    BY <2>5, <2>7, <2>9, <2>10
  <2>12. ASSUME NEW i \in 1 .. Len(t) PROVE h.recs[i] = t[i]
    <3>1. CASE i <= n
      BY <1>5, <2>6, <3>1
    <3>2. CASE i > n
      <4>1. PICK k \in 1 .. p : i = n + k
        <5>1. i - n \in 1 .. p /\ i = n + (i - n)
          BY <1>2, <1>5, <3>2
        <5>2. QED
          BY <5>1
      <4>2. k \in 1 .. RECSIZE
        BY <1>2
      <4>3. h.recs[n + k] = r.outbuf[k] /\ r.outbuf[k] = t[n + k]
        BY <1>5, <2>6, <4>2
      <4>4. QED
        BY <4>1, <4>3
    <3>3. QED
      BY <1>5, <3>1, <3>2
  <2>13. FileOK(g) /\ Exact(g) = t /\ g.recs = h.recs /\ g.unused = u
    <3>1. PICK k \in Nat : k = Len(h.recs) /\ k = Len(t) + u
      <4>1. u = RECSIZE - p
        BY <2>1
      <4>2. n + RECSIZE = (n + p) + u /\ n + RECSIZE \in Nat
        BY <1>2, <4>1
      <4>3. QED
        BY <1>5, <2>6, <4>2
    <3>2. FileOK(g) /\ g.recs = h.recs /\ g.unused = u
      BY <2>6, <2>9, CountFields
    <3>3. QED
      BY <2>6, <2>12, <3>1, <3>2, CountFacts
  <2>14. ASSUME r.outfcb \notin DOMAIN old PROVE Padded(g)
    <3>1. ASSUME NEW i \in (n + RECSIZE - u + 1) .. (n + RECSIZE) PROVE h.recs[i] = MARK
      <4>1. PICK k \in (p + 1) .. RECSIZE : i = n + k
        <5>1. i - n \in (p + 1) .. RECSIZE /\ i = n + (i - n)
          BY <1>2, <2>1
        <5>2. QED
          BY <5>1
      <4>2. k \in 1 .. RECSIZE
        BY <1>2
      <4>3. h.recs[n + k] = r.outbuf[k] /\ r.outbuf[k] = MARK
        BY <1>5, <2>6, <2>14, <4>2
      <4>4. QED
        BY <4>1, <4>3
    <3>2. PICK k : k = n + RECSIZE
      OBVIOUS
    <3>3. Len(g.recs) = k /\ g.unused = u /\ g.recs = h.recs
      BY <2>6, <2>13, <3>2
    <3>4. \A i \in (k - u + 1) .. k : g.recs[i] = MARK
      BY <1>2, <3>1, <3>2, <3>3
    <3>5. QED
      BY <3>3, <3>4 DEF Padded
  <2>15. Alone(r, m, d)
    BY <2>8, <2>10, <2>11, <2>13 DEF Alone
  <2>16. QED
    BY <2>8, <2>11, <2>13, <2>14, <2>15
<1>8. QED
  BY <1>6, <1>7


LEMMA HoldsElsewhere ==
    ASSUME NEW r, NEW s, NEW d, NEW e, NEW t, Holds(r, d, t),
           s.outfcb = r.outfcb, s.outrec = r.outrec, s.outptr = r.outptr, s.outbuf = r.outbuf,
           r.outfcb \in DOMAIN e, e[r.outfcb] = d[r.outfcb]
    PROVE  Holds(s, e, t)
  BY DEF Holds

LEMMA NoDevices ==
    ASSUME Rest, Untouched(Temps \cup Targets)
    PROVE  \A f \in Devices : f \notin DOMAIN disk
<1>1. \A f \in DOMAIN old : f \notin Devices
  BY DEF Rest, UsualDisk
<1>2. \A f \in Devices : f \notin Temps \cup Targets
  BY DEF Devices, Temps, PIPEIN, PIPEOUT, Targets
<1>3. QED
  BY <1>1, <1>2 DEF Untouched

LEMMA OtherRegs ==
    ASSUME NEW r, NEW d, NEW s
    PROVE  /\ [r |-> r, d |-> d].r = r
           /\ [[r |-> r, d |-> d] EXCEPT !.r = s] = [r |-> s, d |-> d]
  OBVIOUS

\* What is left when both are closed.
LEMMA MybootFacts ==
    ASSUME Inv, pc = "run", NEW m, m = myboot(M)
    PROVE  /\ m.r \in Regs /\ ~m.r.awake /\ ~m.r.PipedI /\ m.r.inptr = RECSIZE
           /\ m.r.inflg = FALSE /\ m.r.inlen = rsx.inlen
           /\ m.r.PipedO = rsx.PipedO /\ m.r.outflg = rsx.outflg /\ m.r.errflg = rsx.errflg
           /\ m.r.oapp = rsx.oapp /\ m.r.outfcb = rsx.outfcb
           /\ DOMAIN m.d = DOMAIN disk \ {PIPEIN}
           /\ \A f \in DOMAIN m.d : f \notin Targets => m.d[f] = disk[f]
           /\ \A f \in DOMAIN m.d : FileOK(m.d[f]) /\ (f \notin DOMAIN old => Padded(m.d[f]))
           /\ \A f \in Targets : f \in DOMAIN m.d /\ Exact(m.d[f]) = Total
<1>1. /\ Typed /\ Rest /\ Run /\ Writes /\ rsx \in Regs /\ sent \in Seq(Bytes)
      /\ Untouched(Temps \cup Targets)
      /\ \A f \in DOMAIN disk \ DOMAIN old : Padded(disk[f])
      /\ \A f \in DOMAIN disk : FileOK(disk[f])
      /\ PIPEIN \in DOMAIN disk <=> rsx.PipedI
      /\ PIPEOUT \in DOMAIN disk <=> Has(Cmd.ops, Pipes)
      /\ rsx.PipedI => rsx.inflg /\ rsx.infcb = PIPEIN
  BY DEF Inv, Run, Typed
<1>2. /\ Has(Cmd.ops, Outputs) => OutFile(Cmd.ops) # PIPEIN
      /\ Has(Cmd.ops, Pipes) => Has(Cmd.ops, Outputs)
      /\ \A f \in Devices : f \notin DOMAIN disk
  BY <1>1, OutFileFacts, ErrorsAreOutputs, NoDevices
<1>3. Total \in Seq(Nat)
  <2>1. Before \in Seq(Nat) /\ sent \in Seq(Nat)
    BY <1>1, BeforeFacts, SeqMonotonic, Sizes
  <2>2. QED
    BY <2>1, ConcatProperties DEF Total
<1>4. PICK r0 : r0 = [rsx EXCEPT !.hooked = FALSE, !.awake = FALSE]
  OBVIOUS
<1>5. PICK r1 : r1 = [r0 EXCEPT !.inptr = RECSIZE, !.inflg = FALSE]
  OBVIOUS
<1>6. r0 \in Regs
  BY <1>1, <1>4 DEF Regs
<1>7. r1 \in Regs
  <2>1. RECSIZE \in 0 .. RECSIZE
    BY Sizes
  <2>2. QED
    BY <1>6, <1>5, <2>1 DEF Regs
<1>8. /\ r0.inflg = rsx.inflg /\ r0.PipedI = rsx.PipedI /\ r0.infcb = rsx.infcb
  BY <1>1, <1>4 DEF Regs
<1>9. /\ r1.awake = FALSE /\ r1.inflg = FALSE /\ r1.inptr = RECSIZE /\ r1.inlen = rsx.inlen
      /\ r1.outfcb = rsx.outfcb
  BY <1>1, <1>4, <1>5 DEF Regs
<1>10. /\ r1.PipedO = rsx.PipedO /\ r1.outflg = rsx.outflg /\ r1.errflg = rsx.errflg
       /\ r1.oapp = rsx.oapp
  BY <1>1, <1>4, <1>5 DEF Regs
<1>11. r1.outrec = rsx.outrec /\ r1.outptr = rsx.outptr /\ r1.outbuf = rsx.outbuf
  BY <1>1, <1>4, <1>5 DEF Regs
<1>12. PICK d1 : d1 = IF rsx.inflg /\ rsx.PipedI THEN Deleted(disk, rsx.infcb) ELSE disk
  OBVIOUS
<1>13. DOMAIN d1 = DOMAIN disk \ {PIPEIN} /\ \A f \in DOMAIN d1 : d1[f] = disk[f]
  BY <1>1, <1>12 DEF Deleted
<1>14. PICK c : c = CloseOut([r |-> r1, d |-> d1])
  OBVIOUS
<1>15. m = [c EXCEPT !.r.PipedI = FALSE]
  <2>1. [M EXCEPT !.r.hooked = FALSE, !.r.awake = FALSE] = [r |-> r0, d |-> disk]
    <3>1. PICK u : u = [rsx EXCEPT !.hooked = FALSE]
      OBVIOUS
    <3>2. [M EXCEPT !.r.hooked = FALSE] = [r |-> u, d |-> disk]
      BY <3>1, OtherRegs, Zenon DEF M
    <3>3. [[r |-> u, d |-> disk] EXCEPT !.r.awake = FALSE] = [r |-> r0, d |-> disk]
      <4>1. r0 = [u EXCEPT !.awake = FALSE]
        BY <1>4, <3>1, Zenon
      <4>2. QED
        BY <4>1, OtherRegs, Zenon
    <3>4. [M EXCEPT !.r.hooked = FALSE, !.r.awake = FALSE]
             = [[M EXCEPT !.r.hooked = FALSE] EXCEPT !.r.awake = FALSE]
      BY Zenon
    <3>5. QED
      BY <3>2, <3>3, <3>4, Zenon
  <2>2. CloseIn([r |-> r0, d |-> disk]) = [r |-> r1, d |-> d1]
    BY <1>5, <1>8, <1>12 DEF CloseIn
  <2>3. QED
    BY <1>14, <2>1, <2>2 DEF myboot
<1> DEFINE Fine ==
      /\ c.r \in Regs /\ SameIn(r1, c.r) /\ SameFlags(r1, c.r)
      /\ \E s, e : c = [r |-> s, d |-> e]
      /\ DOMAIN c.d = DOMAIN d1
      /\ \A f \in DOMAIN c.d : f \notin Targets => c.d[f] = d1[f]
      /\ \A f \in DOMAIN c.d : FileOK(c.d[f]) /\ (f \notin DOMAIN old => Padded(c.d[f]))
      /\ \A f \in Targets : f \in DOMAIN c.d /\ Exact(c.d[f]) = Total
<1>16. \A f \in DOMAIN d1 : FileOK(d1[f]) /\ (f \notin DOMAIN old => Padded(d1[f]))
  BY <1>1, <1>13
<1>17. ASSUME Has(Cmd.ops, Outputs), OutFile(Cmd.ops) \notin Devices PROVE Fine
  <2>1. /\ rsx.outflg /\ rsx.outfcb = OutFile(Cmd.ops) /\ Holds(rsx, disk, Total)
        /\ Targets = {rsx.outfcb}
    BY <1>1, <1>17 DEF Writes, Targets
  <2>2. rsx.outfcb \in DOMAIN d1 /\ d1[rsx.outfcb] = disk[rsx.outfcb]
    BY <1>2, <1>13, <1>17, <2>1 DEF Holds
  <2>3. Holds(r1, d1, Total)
    BY <1>9, <1>11, <2>1, <2>2, HoldsElsewhere
  <2>4. r1.outfcb \in DOMAIN d1 /\ FileOK(d1[r1.outfcb]) /\ r1.outflg
    BY <1>9, <1>10, <1>16, <2>1, <2>2
  <2>5. /\ Alone(r1, c, d1) /\ Exact(c.d[r1.outfcb]) = Total
        /\ r1.outfcb \notin DOMAIN old => Padded(c.d[r1.outfcb])
    BY <1>3, <1>7, <1>14, <2>3, <2>4, CloseOutFacts
  <2>6. /\ c.r \in Regs /\ SameIn(r1, c.r) /\ SameFlags(r1, c.r) /\ DOMAIN c.d = DOMAIN d1
        /\ \A f \in DOMAIN d1 \ {r1.outfcb} : c.d[f] = d1[f]
        /\ FileOK(c.d[r1.outfcb])
    BY <2>5 DEF Alone
  <2>7. \E s, e : c = [r |-> s, d |-> e]
    BY <1>14 DEF CloseOut, wrobuf
  <2>8. /\ \A f \in DOMAIN c.d : f \notin Targets => c.d[f] = d1[f]
        /\ \A f \in DOMAIN c.d : FileOK(c.d[f]) /\ (f \notin DOMAIN old => Padded(c.d[f]))
        /\ \A f \in Targets : f \in DOMAIN c.d /\ Exact(c.d[f]) = Total
    BY <1>9, <1>16, <2>1, <2>4, <2>5, <2>6
  <2>9. QED
    BY <2>6, <2>7, <2>8
<1>18. ASSUME ~(Has(Cmd.ops, Outputs) /\ OutFile(Cmd.ops) \notin Devices) PROVE Fine
  <2>1. Targets = {}
    BY <1>18 DEF Targets
  <2>2. rsx.outflg => rsx.outfcb \notin DOMAIN disk
    <3>1. CASE Has(Cmd.ops, Outputs)
      BY <1>1, <1>2, <1>18, <3>1 DEF Writes
    <3>2. CASE ~Has(Cmd.ops, Outputs)
      BY <1>1, <1>2, <3>2 DEF Writes
    <3>3. QED
      BY <3>1, <3>2
  <2>3. ~r1.outflg \/ r1.outfcb \notin DOMAIN d1
    BY <1>9, <1>10, <1>13, <2>2
  <2>4. c = [r |-> r1, d |-> d1]
    BY <1>14, <2>3 DEF CloseOut
  <2>5. c.r = r1 /\ c.d = d1
    BY <2>4
  <2>6. SameIn(r1, r1) /\ SameFlags(r1, r1)
    BY DEF SameIn, SameFlags
  <2>7. \E s, e : c = [r |-> s, d |-> e]
    BY <2>4
  <2>8. QED
    BY <1>7, <1>16, <2>1, <2>5, <2>6, <2>7
<1>19. Fine
  BY <1>17, <1>18
<1> HIDE DEF Fine
<1>20. PICK s, e : s = c.r /\ e = c.d /\ c = [r |-> s, d |-> e]
  BY <1>19 DEF Fine
<1>21. PICK x : x = [s EXCEPT !.PipedI = FALSE]
  OBVIOUS
<1>22. m.r = x /\ m.d = e
  BY <1>15, <1>20, <1>21
<1>23. s \in Regs /\ SameIn(r1, s) /\ SameFlags(r1, s)
  BY <1>19, <1>20 DEF Fine
<1>24. x \in Regs
  BY <1>21, <1>23 DEF Regs
<1>25. /\ x.PipedI = FALSE /\ x.awake = s.awake /\ x.inptr = s.inptr /\ x.inlen = s.inlen
       /\ x.inflg = s.inflg /\ x.outfcb = s.outfcb
  BY <1>21, <1>23 DEF Regs
<1>26. x.PipedO = s.PipedO /\ x.outflg = s.outflg /\ x.errflg = s.errflg /\ x.oapp = s.oapp
  BY <1>21, <1>23 DEF Regs
<1>27. /\ ~x.awake /\ x.inptr = RECSIZE /\ x.inflg = FALSE /\ x.inlen = rsx.inlen
       /\ x.outfcb = rsx.outfcb /\ x.PipedO = rsx.PipedO /\ x.outflg = rsx.outflg
       /\ x.errflg = rsx.errflg /\ x.oapp = rsx.oapp
  BY <1>9, <1>10, <1>23, <1>25, <1>26 DEF SameIn, SameFlags
<1>28. /\ DOMAIN e = DOMAIN disk \ {PIPEIN}
       /\ \A f \in DOMAIN e : f \notin Targets => e[f] = disk[f]
       /\ \A f \in DOMAIN e : FileOK(e[f]) /\ (f \notin DOMAIN old => Padded(e[f]))
       /\ \A f \in Targets : f \in DOMAIN e /\ Exact(e[f]) = Total
  BY <1>13, <1>19, <1>20 DEF Fine
<1>29. QED
  BY <1>22, <1>24, <1>25, <1>27, <1>28


LEMMA OldNames ==
    ASSUME Rest
    PROVE  PIPEIN \notin DOMAIN old /\ PIPEOUT \notin DOMAIN old
  BY DEF Rest, UsualDisk

LEMMA VanishKeeps ==
    ASSUME Inv, Vanish
    PROVE  Inv' /\ UNCHANGED <<sent, prev, taken, got, eof>>
<1>1. /\ pc = "run" /\ room = 0 /\ ~(rsx.hooked /\ rsx.PipedO)
      /\ line' = line /\ room' = room /\ old' = old /\ sent' = sent /\ prev' = prev
      /\ taken' = taken /\ got' = got /\ eof' = eof
      /\ pc' = IF rsx.hooked THEN "ended" ELSE "lost"
      /\ Become(IF rsx.hooked THEN myboot(M) ELSE M)
  BY DEF Vanish, Running
<1>2. CASE ~rsx.hooked
  <2>1. pc' = "lost" /\ rsx' = rsx /\ disk' = disk /\ room' \in Nat
    BY <1>1, <1>2 DEF Become, M
  <2>2. QED
    BY <1>1, <2>1, QuietKeeps
<1>3. CASE rsx.hooked
  <2>1. PICK m : m = myboot(M)
    OBVIOUS
  <2>2. pc' = "ended" /\ rsx' = m.r /\ disk' = m.d /\ ~rsx.PipedO
    BY <1>1, <1>3, <2>1 DEF Become
  <2>3. /\ m.r \in Regs /\ ~m.r.awake /\ ~m.r.PipedI
        /\ m.r.PipedO = rsx.PipedO
        /\ DOMAIN m.d = DOMAIN disk \ {PIPEIN}
        /\ \A f \in DOMAIN m.d : f \notin Targets => m.d[f] = disk[f]
        /\ \A f \in DOMAIN m.d : FileOK(m.d[f]) /\ (f \notin DOMAIN old => Padded(m.d[f]))
        /\ \A f \in Targets : f \in DOMAIN m.d /\ Exact(m.d[f]) = Total
    BY <1>1, <2>1, MybootFacts
  <2>4. Typed /\ Rest /\ Writes /\ Untouched(Temps \cup Targets)
        /\ (PIPEOUT \in DOMAIN disk <=> Has(Cmd.ops, Pipes))
    BY <1>1 DEF Inv, Run
  <2>5. Typed'
    <3>1. /\ sent \in Seq(Bytes) /\ prev \in Seq(Bytes) /\ got \in Seq(Bytes)
          /\ room \in Nat /\ eof \in BOOLEAN /\ taken \in Nat
      BY <2>4 DEF Typed
    <3>2. QED
      BY <1>1, <2>2, <2>3, <3>1 DEF Typed
  <2>6. Rest'
    BY <1>1, <2>2, <2>3, <2>4, RestStays
  <2>7. PIPEOUT \notin DOMAIN disk
    <3>1. Has(Cmd.ops, Pipes) => Has(Cmd.ops, Outputs)
      BY ErrorsAreOutputs
    <3>2. QED
      BY <2>2, <2>4, <3>1 DEF Writes
  <2>8. Cmd' = Cmd /\ Targets' = Targets
    BY <1>1 DEF Cmd, Targets
  <2>9. OutputArrives'
    <3>1. \A f \in DOMAIN disk' \ DOMAIN old' : Padded(disk'[f])
      BY <1>1, <2>2, <2>3
    <3>2. ASSUME NEW f \in Targets
          PROVE  Exact(disk'[f])
                   = (IF Has(Cmd.ops, Appends) /\ f \in DOMAIN old THEN Text(old[f]) ELSE <<>>) \o sent
      <4>1. f = OutFile(Cmd.ops)
        BY DEF Targets
      <4>2. Exact(disk'[f]) = Total
        BY <2>2, <2>3
      <4>3. QED
        BY <4>1, <4>2 DEF Total, Before
    <3>3. QED
      BY <1>1, <2>8, <3>1, <3>2 DEF OutputArrives
  <2>10. NothingElse'
    <3>1. /\ DOMAIN disk \ (Temps \cup Targets) = DOMAIN old \ (Temps \cup Targets)
          /\ \A f \in DOMAIN old \ (Temps \cup Targets) : disk[f] = old[f]
          /\ \A f \in Temps : f \notin DOMAIN old
      BY <2>4, OldNames DEF Untouched, Temps
    <3>2. DOMAIN disk' \ Targets = DOMAIN old \ Targets
      <4>1. DOMAIN disk' = DOMAIN disk \ Temps
        BY <2>2, <2>3, <2>7 DEF Temps
      <4>2. QED
        BY <3>1, <4>1
    <3>3. \A f \in DOMAIN old \ Targets : disk'[f] = old[f]
      BY <2>2, <2>3, <3>1, <3>2
    <3>4. QED
      BY <1>1, <2>8, <3>2, <3>3 DEF NothingElse
  <2>11. Inv'
    <3>1. \A f \in DOMAIN disk' \ DOMAIN old' : Padded(disk'[f])
      BY <1>1, <2>2, <2>3
    <3>2. ~rsx'.PipedO /\ ~rsx'.PipedI
      BY <2>2, <2>3
    <3>3. Ended'
      BY <2>9, <2>10 DEF Ended
    <3>4. QED
      BY <2>2, <2>5, <2>6, <3>1, <3>2, <3>3 DEF Inv
  <2>12. QED
    BY <1>1, <2>11
<1>4. QED
  BY <1>2, <1>3

LEMMA ChainRest ==
    ASSUME Rest, Len(line) # 1, line' = Tail(line), old' = old, rsx'.PipedI = TRUE
    PROVE  Rest'
<1>1. /\ line \in Seq(Command) /\ line # <<>>
      /\ \A i \in 1..Len(line) : UsualCommand(line[i], i = 1 /\ ~rsx.PipedI, i = Len(line))
      /\ UsualDisk(old) /\ AppendsTo(line, old)
  BY DEF Rest
<1>2. PICK n \in Nat : n = Len(line) /\ n > 1
  <2>1. line \in Seq(Command) /\ line # <<>>
    BY <1>1
  <2>2. PICK n \in Nat \ {0} : n = Len(line)
    BY <2>1, EmptySeq
  <2>3. n # 1
    BY <2>2
  <2>4. n \in Nat /\ n > 1
    BY <2>3
  <2>5. QED
    BY <2>2, <2>4
<1>3. /\ Tail(line) \in Seq(Command) /\ Len(Tail(line)) = n - 1
      /\ \A i \in 1 .. n - 1 : Tail(line)[i] = line[i + 1]
  BY <1>1, <1>2, HeadTailProperties
<1>4. Tail(line) # <<>>
  <2>1. n - 1 # 0
    BY <1>2
  <2>2. QED
    BY <1>3, <2>1, EmptySeq
<1>5. ASSUME NEW i \in 1 .. n - 1
      PROVE  UsualCommand(Tail(line)[i], i = 1 /\ ~rsx'.PipedI, i = n - 1)
  <2>1. i + 1 \in 1 .. n /\ i + 1 # 1
    BY <1>2
  <2>2. UsualCommand(line[i + 1], i + 1 = 1 /\ ~rsx.PipedI, i + 1 = n)
    BY <1>1, <1>2, <2>1
  <2>3. (i + 1 = 1 /\ ~rsx.PipedI) = (i = 1 /\ ~rsx'.PipedI)
    BY <2>1
  <2>4. (i + 1 = n) = (i = n - 1)
    BY <1>2
  <2>5. Tail(line)[i] = line[i + 1]
    BY <1>3
  <2>6. QED
    BY <2>2, <2>3, <2>4, <2>5, Zenon
<1>6. AppendsTo(Tail(line), old)
  <2>1. n - 1 \in 1 .. n - 1 /\ (n - 1) + 1 = n
    BY <1>2
  <2>2. Tail(line)[Len(Tail(line))] = line[Len(line)]
    BY <1>2, <1>3, <2>1
  <2>3. QED
    BY <1>1, <2>2 DEF AppendsTo
<1>7. QED
  BY <1>1, <1>3, <1>4, <1>5, <1>6 DEF Rest


\* PIPEOUT has become PIPEIN, and waits to be read.
Passed(c, m) ==
    /\ m.r \in Regs /\ m.r.PipedO = FALSE /\ m.r.PipedI = TRUE /\ m.r.inflg = TRUE
    /\ m.r.infcb = PIPEIN /\ m.r.awake = FALSE /\ m.r.pclosed = TRUE
    /\ m.r.inptr = c.r.inptr /\ m.r.outflg = c.r.outflg /\ m.r.oapp = c.r.oapp
    /\ m.r.outfcb = c.r.outfcb
    /\ DOMAIN m.d = (DOMAIN c.d \ Temps) \cup {PIPEIN} /\ m.d[PIPEIN] = c.d[PIPEOUT]
    /\ \A f \in DOMAIN c.d \ Temps : m.d[f] = c.d[f]

LEMMA XferpipeFacts ==
    ASSUME NEW c, c.r \in Regs, PIPEIN \notin DOMAIN c.d, PIPEOUT \in DOMAIN c.d,
           NEW m, m = xferpipe(c)
    PROVE  Passed(c, m)
<1>0. PICK r, d : /\ r = c.r /\ d = c.d /\ r \in Regs
                  /\ PIPEIN \notin DOMAIN d /\ PIPEOUT \in DOMAIN d
  OBVIOUS
<1>1. PIPEIN # PIPEOUT
  BY DEF PIPEIN, PIPEOUT
<1>2. PICK e : e = Entered(Deleted(d, PIPEOUT), PIPEIN, d[PIPEOUT])
  OBVIOUS
<1>3. PICK s : s = [r EXCEPT !.PipedO = FALSE, !.PipedI = TRUE, !.inflg = TRUE, !.infcb = PIPEIN,
                             !.awake = FALSE, !.hooked = TRUE, !.pclosed = TRUE]
  OBVIOUS
<1>4. m = [r |-> s, d |-> e]
  BY <1>0, <1>2, <1>3 DEF xferpipe, Renamed
<1>5. m.r = s /\ m.d = e
  BY <1>4
<1>6. s \in Regs
  <2>1. PICK u : u = [r EXCEPT !.PipedO = FALSE, !.PipedI = TRUE]
    OBVIOUS
  <2>2. u \in Regs
    BY <1>0, <2>1 DEF Regs
  <2>3. PICK n \in Names : n = PIPEIN
    BY DEF Names, Temps
  <2>4. PICK v : v = [u EXCEPT !.inflg = TRUE, !.infcb = n]
    OBVIOUS
  <2>5. v \in Regs
    BY <2>2, <2>4 DEF Regs
  <2>6. PICK w : w = [v EXCEPT !.awake = FALSE, !.hooked = TRUE]
    OBVIOUS
  <2>7. w \in Regs
    BY <2>5, <2>6 DEF Regs
  <2>8. s = [w EXCEPT !.pclosed = TRUE]
    BY <1>3, <2>1, <2>3, <2>4, <2>6
  <2>9. QED
    BY <2>7, <2>8 DEF Regs
<1>7. /\ s.PipedO = FALSE /\ s.PipedI = TRUE /\ s.inflg = TRUE
      /\ s.infcb = PIPEIN /\ s.awake = FALSE /\ s.pclosed = TRUE
  BY <1>0, <1>3 DEF Regs
<1>8. /\ s.inptr = r.inptr /\ s.outflg = r.outflg /\ s.oapp = r.oapp
      /\ s.outfcb = r.outfcb
  BY <1>0, <1>3 DEF Regs
<1>9. /\ DOMAIN e = (DOMAIN d \ Temps) \cup {PIPEIN} /\ e[PIPEIN] = d[PIPEOUT]
      /\ \A f \in DOMAIN d \ Temps : e[f] = d[f]
  <2>1. PICK g : g = Deleted(d, PIPEOUT)
    OBVIOUS
  <2>2. DOMAIN g = DOMAIN d \ {PIPEOUT} /\ \A f \in DOMAIN d \ {PIPEOUT} : g[f] = d[f]
    BY <2>1 DEF Deleted
  <2>3. /\ DOMAIN e = DOMAIN g \cup {PIPEIN} /\ e[PIPEIN] = d[PIPEOUT]
        /\ \A f \in DOMAIN g \ {PIPEIN} : e[f] = g[f]
    BY <1>2, <2>1 DEF Entered
  <2>4. QED
    BY <1>1, <2>2, <2>3 DEF Temps
<1>10. QED
  BY <1>0, <1>5, <1>6, <1>7, <1>8, <1>9 DEF Passed

LEMMA ChainKeeps ==
    ASSUME Inv, Chain
    PROVE  Inv' /\ Abstract!Pass
<1>1. /\ pc = "run" /\ room = 0 /\ rsx.PipedO /\ pc' = "start" /\ line' = Tail(line)
      /\ Become(xferpipe(myboot(M)))
      /\ prev' = sent /\ sent' = <<>> /\ taken' = 0 /\ got' = <<>> /\ eof' = FALSE
      /\ room' = room /\ old' = old
  BY DEF Chain, Running
<1>2. /\ Typed /\ Rest /\ Writes /\ Untouched(Temps \cup Targets) /\ sent \in Seq(Bytes)
      /\ rsx.oapp => Has(Cmd.ops, Appends)
      /\ \A f \in Temps : f \notin DOMAIN old
  BY <1>1, OldNames DEF Inv, Run, Typed, Temps
<1>3. PICK c : c = myboot(M)
  OBVIOUS
<1>4. PICK m : m = xferpipe(c)
  OBVIOUS
<1>5. rsx' = m.r /\ disk' = m.d
  BY <1>1, <1>3, <1>4 DEF Become
<1>6. /\ c.r \in Regs /\ c.r.inptr = RECSIZE
      /\ c.r.outflg = rsx.outflg /\ c.r.oapp = rsx.oapp /\ c.r.outfcb = rsx.outfcb
      /\ DOMAIN c.d = DOMAIN disk \ {PIPEIN}
      /\ \A f \in DOMAIN c.d : f \notin Targets => c.d[f] = disk[f]
      /\ \A f \in DOMAIN c.d : FileOK(c.d[f]) /\ (f \notin DOMAIN old => Padded(c.d[f]))
      /\ \A f \in Targets : f \in DOMAIN c.d /\ Exact(c.d[f]) = Total
  BY <1>1, <1>3, MybootFacts
<1>7. /\ Has(Cmd.ops, Outputs) /\ Has(Cmd.ops, Pipes) /\ OutFile(Cmd.ops) = PIPEOUT
      /\ rsx.outflg /\ rsx.outfcb = PIPEOUT
  <2>1. Has(Cmd.ops, Outputs) /\ Has(Cmd.ops, Pipes) /\ rsx.outflg /\ rsx.outfcb = OutFile(Cmd.ops)
    BY <1>1, <1>2 DEF Writes
  <2>2. OutFile(Cmd.ops) = PIPEOUT
    BY <1>2, <2>1, OutFileFacts
  <2>3. QED
    BY <2>1, <2>2
<1>8. Targets = {PIPEOUT}
  <2>1. PIPEOUT \notin Devices
    BY DEF PIPEOUT, Devices
  <2>2. QED
    BY <1>7, <2>1 DEF Targets
<1>9. Len(line) # 1 /\ ~Has(Cmd.ops, Appends)
  <2>1. UsualCommand(Cmd, ~rsx.PipedI, 1 = Len(line))
    BY <1>2, OutFileFacts
  <2>2. ~(1 = Len(line))
    BY <1>7, <2>1, Zenon DEF UsualCommand
  <2>3. Has(Cmd.ops, Appends) => 1 = Len(line)
    BY <2>1, Zenon DEF UsualCommand
  <2>4. QED
    BY <2>2, <2>3
<1>10. Total = sent
  <2>1. Before = <<>>
    BY <1>9 DEF Before
  <2>2. QED
    BY <1>2, <2>1, ConcatEmptySeq DEF Total
<1>11. PIPEIN \notin DOMAIN c.d /\ PIPEOUT \in DOMAIN c.d
  BY <1>6, <1>8
<1>12. c.r \in Regs
  BY <1>6
<1>13. /\ m.r \in Regs /\ m.r.PipedO = FALSE /\ m.r.PipedI = TRUE /\ m.r.inflg = TRUE
       /\ m.r.infcb = PIPEIN /\ m.r.awake = FALSE /\ m.r.pclosed = TRUE
       /\ m.r.inptr = c.r.inptr /\ m.r.outflg = c.r.outflg /\ m.r.oapp = c.r.oapp
       /\ m.r.outfcb = c.r.outfcb
       /\ DOMAIN m.d = (DOMAIN c.d \ Temps) \cup {PIPEIN} /\ m.d[PIPEIN] = c.d[PIPEOUT]
       /\ \A f \in DOMAIN c.d \ Temps : m.d[f] = c.d[f]
  <2>1. Passed(c, m)
    BY <1>4, <1>11, <1>12, XferpipeFacts
  <2>2. QED
    BY <2>1, Zenon DEF Passed
<1>14. /\ DOMAIN disk' = (DOMAIN disk \ Temps) \cup {PIPEIN}
       /\ Exact(disk'[PIPEIN]) = sent /\ FileOK(disk'[PIPEIN]) /\ Padded(disk'[PIPEIN])
       /\ \A f \in DOMAIN disk \ Temps : disk'[f] = disk[f]
  <2>1. Exact(c.d[PIPEOUT]) = sent /\ FileOK(c.d[PIPEOUT]) /\ Padded(c.d[PIPEOUT])
    BY <1>2, <1>6, <1>8, <1>10, <1>11 DEF Temps
  <2>2. DOMAIN c.d \ Temps = DOMAIN disk \ Temps /\ \A f \in DOMAIN disk \ Temps : c.d[f] = disk[f]
    BY <1>6, <1>8 DEF Temps
  <2>3. QED
    BY <1>5, <1>13, <2>1, <2>2
<1>15. /\ \A f \in DOMAIN disk' : FileOK(disk'[f])
       /\ \A f \in DOMAIN disk' \ DOMAIN old' : Padded(disk'[f])
  <2>1. /\ \A f \in DOMAIN disk : FileOK(disk[f])
        /\ \A f \in DOMAIN disk \ DOMAIN old : Padded(disk[f])
    BY DEF Inv, Typed
  <2>2. QED
    BY <1>1, <1>14, <2>1
<1>16. Typed'
  <2>1. room \in Nat
    BY <1>2 DEF Typed
  <2>2. sent' \in Seq(Bytes) /\ got' \in Seq(Bytes) /\ taken' \in Nat
    BY <1>1, EmptySeq
  <2>3. QED
    BY <1>1, <1>2, <1>5, <1>13, <1>15, <2>1, <2>2 DEF Typed
<1>17. Rest'
  <2>1. rsx'.PipedI = TRUE
    BY <1>5, <1>13
  <2>2. QED
    BY <1>1, <1>2, <1>9, <2>1, ChainRest
<1>18. Start'
  <2>1. Untouched(Temps)'
    <3>1. /\ DOMAIN disk \ Temps = DOMAIN old \ Temps
          /\ \A f \in DOMAIN old \ Temps : disk[f] = old[f]
      BY <1>2, <1>8 DEF Untouched, Temps
    <3>2. PIPEIN \in Temps
      BY DEF Temps
    <3>3. QED
      BY <1>1, <1>14, <3>1, <3>2 DEF Untouched
  <2>2. PIPEOUT \notin DOMAIN disk'
    BY <1>14 DEF Temps, PIPEIN, PIPEOUT
  <2>3. /\ rsx'.inptr = RECSIZE /\ ~rsx'.PipedO /\ ~rsx'.oapp /\ ~rsx'.awake
        /\ rsx'.PipedI /\ rsx'.infcb = PIPEIN /\ rsx'.inflg /\ rsx'.pclosed
        /\ rsx'.outflg /\ rsx'.outfcb = PIPEOUT
    BY <1>2, <1>5, <1>6, <1>7, <1>9, <1>13
  <2>4. PIPEIN \in DOMAIN disk' /\ Exact(disk'[PIPEIN]) = prev'
    BY <1>1, <1>14
  <2>5. QED
    BY <1>1, <2>1, <2>2, <2>3, <2>4 DEF Start
<1>19. ~rsx'.PipedO /\ rsx'.infcb = PIPEIN
  BY <1>5, <1>13
<1>20. Inv'
  BY <1>1, <1>15, <1>16, <1>17, <1>18, <1>19 DEF Inv
<1>21. Abstract!Pass
  BY <1>1 DEF Abstract!Pass
<1>22. QED
  BY <1>20, <1>21



-----------------------------------------------------------------------------
(***************************************************************************)
(* The invariant holds at first, and every step keeps it.                  *)
(***************************************************************************)
LEMMA FreshFacts ==
    /\ Fresh \in Regs
    /\ ~Fresh.awake /\ ~Fresh.PipedI /\ ~Fresh.PipedO /\ ~Fresh.inflg /\ ~Fresh.outflg
    /\ ~Fresh.errflg /\ ~Fresh.oapp /\ ~Fresh.pclosed
    /\ Fresh.inptr = RECSIZE /\ Fresh.inlen = 0
<1>1. PICK b : b = Filled
  OBVIOUS
<1>2. b \in Block /\ MARK \in Nat /\ "" \in Names /\ RECSIZE \in 0 .. RECSIZE /\ 0 \in 0 .. RECSIZE
  BY <1>1, Sizes, FilledFacts DEF Names
<1>3. Fresh \in Regs
  BY <1>1, <1>2 DEF Fresh, Regs
<1>4. QED
  BY <1>3 DEF Fresh

LEMMA StartsRight ==
    ASSUME Usual, Init
    PROVE  Inv /\ Abstract!Init
<1>1. /\ pc = "start" /\ line \in Lines /\ disk \in Disks /\ old = disk
      /\ rsx = Fresh /\ room = 0 /\ sent = <<>> /\ prev = Given(line, disk)
      /\ taken = 0 /\ got = <<>> /\ eof = FALSE
  BY DEF Init
<1>2. UsualLine(line) /\ UsualDisk(disk) /\ AppendsTo(line, disk)
  BY <1>1 DEF Usual
<1>3. \A f \in DOMAIN disk : /\ disk[f].recs \in Seq(Bytes) /\ disk[f].unused \in Nat
                             /\ FileOK(disk[f])
  <2>1. ASSUME NEW g \in [recs : Seq(Bytes), unused : 0..(RECSIZE - 1)], Len(g.recs) % RECSIZE = 0
        PROVE  g.recs \in Seq(Bytes) /\ g.unused \in Nat /\ FileOK(g)
    <3>1. g.recs \in Seq(Bytes) /\ g.unused \in 0 .. RECSIZE - 1
      OBVIOUS
    <3>2. g.recs \in Seq(Nat)
      BY <3>1, Sizes, SeqMonotonic
    <3>3. g \in File
      BY <3>2 DEF File
    <3>4. QED
      BY <2>1, <3>1, <3>3, Sizes DEF FileOK
  <2>2. QED
    BY <1>2, <2>1 DEF UsualDisk
<1>4. prev \in Seq(Bytes)
  <2>1. CASE Has(Head(line).ops, Inputs) /\ InFile(Head(line).ops) \in DOMAIN disk
    <3>1. PICK f : f = disk[InFile(Head(line).ops)] /\ f.recs \in Seq(Bytes) /\ f.unused \in Nat
      BY <1>3, <2>1
    <3>2. Exact(f) \in Seq(Bytes)
      BY <3>1, ExactFacts
    <3>3. QED
      BY <1>1, <2>1, <3>1, <3>2 DEF Given
  <2>2. CASE ~(Has(Head(line).ops, Inputs) /\ InFile(Head(line).ops) \in DOMAIN disk)
    BY <1>1, <2>2, EmptySeq DEF Given
  <2>3. QED
    BY <2>1, <2>2
<1>5. Typed
  BY <1>1, <1>3, <1>4, FreshFacts, EmptySeq DEF Typed
<1>6. Rest
  <2>1. ~rsx.PipedI
    BY <1>1, FreshFacts
  <2>2. ASSUME NEW i \in 1 .. Len(line)
        PROVE  UsualCommand(line[i], i = 1 /\ ~rsx.PipedI, i = Len(line))
    <3>1. UsualCommand(line[i], i = 1, i = Len(line))
      BY <1>2 DEF UsualLine
    <3>2. (i = 1) = (i = 1 /\ ~rsx.PipedI)
      BY <2>1
    <3>3. QED
      BY <3>1, <3>2, Zenon
  <2>3. QED
    BY <1>1, <1>2, <2>2 DEF Rest, UsualLine
<1>7. Start
  <2>1. PIPEIN \notin DOMAIN disk /\ PIPEOUT \notin DOMAIN disk
    BY <1>2 DEF UsualDisk
  <2>2. Untouched(Temps)
    BY <1>1 DEF Untouched
  <2>3. prev = Given(line, old)
    BY <1>1
  <2>4. QED
    BY <1>1, <2>1, <2>2, <2>3, FreshFacts DEF Start
<1>8. Inv
  BY <1>1, <1>5, <1>6, <1>7, FreshFacts DEF Inv
<1>9. Abstract!Init
  BY <1>1, <1>4 DEF Abstract!Init
<1>10. QED
  BY <1>8, <1>9

\* Every step keeps the invariant, and is one of the pipe's or none if the command
\* that runs reads orderly.
LEMMA StepKeeps ==
    ASSUME Inv, [Next]_vars
    PROVE  Inv' /\ (OrderlyCommand(Cmd) => [Abstract!Next]_<<sent, prev, taken, got, eof>>)
<1> DEFINE Still == UNCHANGED <<sent, prev, taken, got, eof>>
<1>1. CASE Initialise
  <2>1. Still
    BY <1>1 DEF Initialise
  <2>2. QED
    BY <1>1, <2>1, InitialiseKeeps
<1>2. CASE StartPlain
  <2>1. Still
    BY <1>2 DEF StartPlain
  <2>2. QED
    BY <1>2, <2>1, StartPlainKeeps
<1>3. CASE Output
  BY <1>3, OutputKeeps DEF Abstract!Next
<1>4. CASE PipeIn
  BY <1>4, PipeInKeeps DEF Abstract!Next
<1>5. CASE ConsoleIn
  BY <1>5, ConsoleInKeeps DEF Abstract!Next, OrderlyCommand
<1>6. CASE con10
  <2>1. /\ pc = "run" /\ rsx.PipedI /\ ~rsx.awake /\ 10 \in Cmd.reads /\ room' = BUFLEN
        /\ UNCHANGED <<pc, line, rsx, disk, old, sent, prev, taken, got, eof>>
    BY <1>6 DEF con10, Piped, Running
  <2>2. room' \in Nat
    BY <2>1, Sizes
  <2>3. Inv'
    BY <2>1, <2>2, QuietKeeps
  <2>4. QED
    BY <2>1, <2>3
<1>7. CASE con10b
  <2>1. 10 \in Cmd.reads
    BY <1>7 DEF con10b, Inv, Run, Reads
  <2>2. OrderlyCommand(Cmd) => OnlyLines
    BY <2>1 DEF OrderlyCommand, OnlyLines
  <2>3. QED
    BY <1>7, <2>2, con10bKeeps DEF Abstract!Next
<1>8. CASE Chain
  BY <1>8, ChainKeeps DEF Abstract!Next
<1>9. CASE Vanish
  BY <1>9, VanishKeeps
<1>10. CASE killrsx
  <2>1. /\ pc' = "lost" /\ room' = room
        /\ UNCHANGED <<line, rsx, disk, old, sent, prev, taken, got, eof>>
    BY <1>10 DEF killrsx
  <2>2. room' \in Nat
    BY <2>1 DEF Inv, Typed
  <2>3. Inv'
    BY <2>1, <2>2, QuietKeeps
  <2>4. QED
    BY <2>1, <2>3
<1>11. CASE UNCHANGED vars
  <2>1. /\ pc' = pc /\ room' = room
        /\ UNCHANGED <<line, rsx, disk, old, sent, prev, taken, got, eof>>
    BY <1>11 DEF vars
  <2>2. room' \in Nat
    BY <2>1 DEF Inv, Typed
  <2>3. Inv'
    BY <2>1, <2>2, QuietKeeps
  <2>4. QED
    BY <2>1, <2>3
<1>12. QED
  BY <1>1, <1>2, <1>3, <1>4, <1>5, <1>6, <1>7, <1>8, <1>9, <1>10, <1>11 DEF Next

\* The commands of an orderly pipeline are orderly when their turn comes.
Neat == \A i \in 1..Len(line) : OrderlyCommand(line[i])

LEMMA NeatStays ==
    ASSUME Inv, Neat, [Next]_vars
    PROVE  OrderlyCommand(Cmd) /\ Neat'
<1>1. line \in Seq(Command) /\ line # <<>>
  BY DEF Inv, Rest
<1>2. OrderlyCommand(Cmd)
  <2>1. Cmd = line[1] /\ 1 \in 1..Len(line)
    BY <1>1 DEF Cmd
  <2>2. QED
    BY <2>1 DEF Neat
<1>3. CASE line' = line
  BY <1>2, <1>3 DEF Neat
<1>4. CASE line' = Tail(line)
  <2>1. Len(line') = Len(line) - 1 /\ \A i \in 1..Len(line') : line'[i] = line[i + 1]
    BY <1>1, <1>4
  <2>2. ASSUME NEW i \in 1..Len(line') PROVE OrderlyCommand(line'[i])
    <3>1. i + 1 \in 1..Len(line)
      BY <1>1, <2>1
    <3>2. QED
      BY <2>1, <3>1 DEF Neat
  <2>3. QED
    BY <1>2, <2>2 DEF Neat
<1>5. line' = line \/ line' = Tail(line)
  <2>1. CASE Next
    BY <2>1 DEF Next, Initialise, StartPlain, Output, PipeIn, ConsoleIn, con10, con10b, Received,
                Chain, Vanish, killrsx
  <2>2. CASE UNCHANGED vars
    BY <2>2 DEF vars
  <2>3. QED
    BY <2>1, <2>2
<1>6. QED
  BY <1>2, <1>3, <1>4, <1>5

-----------------------------------------------------------------------------
(***************************************************************************)
(* The theorems.                                                           *)
(***************************************************************************)
\* The inductive invariant holds of every usual pipeline.
THEOREM Invariance ==
    ASSUME Usual
    PROVE  Spec => []Inv
<1>1. Init => Inv
  BY StartsRight
<1>2. Inv /\ [Next]_vars => Inv'
  BY StepKeeps
<1>3. QED
  BY <1>1, <1>2, PTL DEF Spec

LEMMA InvShows == Inv => TypeOK /\ OutputArrives /\ NothingElse
<1> SUFFICES ASSUME Inv PROVE TypeOK /\ OutputArrives /\ NothingElse
  OBVIOUS
<1>1. TypeOK
  <2>1. /\ pc \in {"start", "run", "lost", "ended"} /\ line # <<>> /\ rsx \in Regs
        /\ \A f \in DOMAIN disk : FileOK(disk[f])
        /\ rsx.PipedO => rsx.outfcb = PIPEOUT
        /\ rsx.PipedI => rsx.infcb = PIPEIN
    BY DEF Inv, Typed, Rest
  <2>2. /\ rsx.outptr \in 0..RECSIZE /\ rsx.inptr \in 0..RECSIZE /\ rsx.inlen \in Nat
        /\ rsx.outbuf \in Block /\ rsx.inbuf \in Block
    BY <2>1 DEF Regs
  <2>3. \A b \in Block : Len(b) = RECSIZE
    BY Sizes DEF Block
  <2>4. \A f : FileOK(f) => Len(f.recs) % RECSIZE = 0 /\ f.unused \in 0..(RECSIZE - 1)
    BY DEF FileOK, File
  <2>5. QED
    BY <2>1, <2>2, <2>3, <2>4 DEF TypeOK
<1>2. OutputArrives
  <2>1. pc = "ended" => OutputArrives
    BY DEF Inv, Ended
  <2>2. \A f \in DOMAIN disk \ DOMAIN old : Padded(disk[f])
    BY DEF Inv
  <2>3. QED
    BY <2>1, <2>2 DEF OutputArrives
<1>3. NothingElse
  BY DEF Inv, Ended, NothingElse
<1>4. QED
  BY <1>1, <1>2, <1>3

\* The pointers stay inside the buffers, and the files are whole records.
THEOREM Typing ==
    ASSUME Usual
    PROVE  Spec => []TypeOK
<1>1. Spec => []Inv
  BY Invariance
<1>2. Inv => TypeOK
  BY InvShows
<1>3. QED
  BY <1>1, <1>2, PTL

\* What the last command writes is in its file at the end, behind what was there
\* when it is appended; what PIPEMGR has made is filled up with ^Z.
THEOREM Arrives ==
    ASSUME Usual
    PROVE  Spec => []OutputArrives
<1>1. Spec => []Inv
  BY Invariance
<1>2. Inv => OutputArrives
  BY InvShows
<1>3. QED
  BY <1>1, <1>2, PTL

\* A pipeline leaves all other files as they were, and none behind.
THEOREM NothingElseChanges ==
    ASSUME Usual
    PROVE  Spec => []NothingElse
<1>1. Spec => []Inv
  BY Invariance
<1>2. Inv => NothingElse
  BY InvShows
<1>3. QED
  BY <1>1, <1>2, PTL

\* A command receives the bytes its predecessor sent, each once and in order, and is
\* told of the end after the last; only a command that reads lines - and nothing but
\* lines - may miss a line feed directly behind a carriage return.  Every step is one
\* of Pipe's, or none.
THEOREM Refines ==
    ASSUME Usual, Orderly
    PROVE  Spec => Implements
<1>1. Spec => []Inv
  BY Invariance
<1>2. Init => Abstract!Init
  BY StartsRight
<1>3. Init => Neat
  BY DEF Init, Orderly, Neat
<1>4. Inv /\ Neat /\ [Next]_vars => Neat' /\ [Abstract!Next]_<<sent, prev, taken, got, eof>>
  BY NeatStays, StepKeeps
<1>5. QED
  BY <1>1, <1>2, <1>3, <1>4, PTL DEF Spec, Implements, Abstract!Spec
=============================================================================
