------------------------------ MODULE Pipemgr ------------------------------
(* PIPEMGR.RSX: the resident extension under the commands of a pipeline.  It  *)
(* takes <, >, >> and | from the command line, keeps what goes through a pipe *)
(* in PIPEOUT.$$$, which becomes PIPEIN.$$$ for the next command, and feeds   *)
(* that command through its own call or in place of the keyboard.             *)
(*                                                                            *)
(* A command knows PIPEMGR (pm) or not; one that knows it begins with a call  *)
(* to initialise it, one that does not reads the console by some of the BDOS  *)
(* services 1, 6 and 10 (reads).  Files are records of RECSIZE bytes and a count of bytes *)
(* unused in the last.                                                        *)
EXTENDS Integers, Sequences, SequencesExt

CONSTANTS RECSIZE, MARK,     \* bytes in a record; ^Z
          CR, LF, Bytes,     \* what the commands write
          Lines,             \* pipelines: sequences of [pm, ops, reads]
          Disks,             \* files before: name -> [recs, unused]
          MAXOUT,            \* bytes that a command writes
          BUFLEN             \* of the buffer for a line of input

ASSUME PipemgrAssumption ==
    /\ {RECSIZE, BUFLEN} \subseteq Nat \ {0} /\ MAXOUT \in Nat
    /\ {MARK, CR, LF} \cup Bytes \subseteq Nat /\ CR \notin {0, LF, MARK}

VARIABLES pc,      \* "start", "run", "lost" (no hook: the RSX sees no end), "ended"
          line,    \* the command that runs and those to follow
          rsx,     \* the variables of the RSX
          disk,
          room,    \* of the line that is being read (BDOS 10), 0 if none is
          old,     \* ghost: the disk before,
          sent,    \*   what the command has written to its output,
          prev,    \*   what the one before it had written,
          taken,   \*   how many bytes of that were read for it,
          got,     \*   what it was given of them,
          eof      \*   and whether it was told of the end

vars == <<pc, line, rsx, disk, room, old, sent, prev, taken, got, eof>>

PIPEOUT == "PIPEOUT.$$$"
PIPEIN  == "PIPEIN.$$$"
Devices == {"NUL:", "LST:"}
NoFile  == [recs |-> <<>>, unused |-> 0]
Cmd     == Head(line)

Exact(f) == SubSeq(f.recs, 1, Len(f.recs) - f.unused)
Records(f) == Len(f.recs) \div RECSIZE
Record(f, n) == SubSeq(f.recs, n * RECSIZE + 1, (n + 1) * RECSIZE)
Filled == [i \in 1..RECSIZE |-> MARK]
Entered(d, name, f) == [x \in DOMAIN d \cup {name} |-> IF x = name THEN f ELSE d[x]]
Deleted(d, name) == [f \in DOMAIN d \ {name} |-> d[f]]

\* The RSX and the disk are changed together.
M == [r |-> rsx, d |-> disk]
Become(m) == rsx' = m.r /\ disk' = m.d

Fresh == [awake |-> FALSE, PipedI |-> FALSE, PipedO |-> FALSE, inflg |-> FALSE, outflg |-> FALSE,
          errflg |-> FALSE, oapp |-> FALSE, pclosed |-> FALSE, hooked |-> FALSE,
          infcb |-> "", inrec |-> 0, inptr |-> RECSIZE, inbuf |-> Filled, inlen |-> 0,
          ineof |-> FALSE, lastin |-> MARK,
          outfcb |-> "", outrec |-> 0, outptr |-> 0, outbuf |-> Filled]

-----------------------------------------------------------------------------
(* Initialise: parse the command line, open the input, create the output.     *)

\* The operators.  A pipe is an output file with a name of its own, and ends the
\* line of its command.
Inputs  == {"<"}
Pipes   == {"|", "|&"}
Appends == {">>", ">>&"}
Outputs == {">", ">&"} \cup Appends \cup Pipes
Errors  == {">&", ">>&", "|&"}

Places(ops, kinds) == {i \in DOMAIN ops : ops[i].op \in kinds}
Has(ops, kinds) == Places(ops, kinds) # {}
\* The last operator of a kind names the file.
Final(ops, kinds) == ops[CHOOSE i \in Places(ops, kinds) : \A j \in Places(ops, kinds) : j <= i]
InFile(ops) == Final(ops, Inputs).file
OutFile(ops) == IF Final(ops, Outputs).op \in Pipes THEN PIPEOUT ELSE Final(ops, Outputs).file

\* The whole line.
fparse(r, ops) ==
    [r EXCEPT !.infcb  = IF Has(ops, Inputs) THEN InFile(ops) ELSE @,
              !.inflg  = @ \/ Has(ops, Inputs),
              !.outfcb = IF Has(ops, Outputs) THEN OutFile(ops) ELSE @,
              !.outflg = @ \/ Has(ops, Outputs),
              !.errflg = @ \/ Has(ops, Errors),
              !.oapp   = @ \/ Has(ops, Appends),
              !.PipedO = @ \/ Has(ops, Pipes)]

\* Mutant: the input is whole records.
BytesOfRecords(m) == IF m.r.infcb \in Devices THEN 0 ELSE Len(m.d[m.r.infcb].recs)
BytesIn(m) == IF m.r.infcb \in Devices THEN 0 ELSE Len(Exact(m.d[m.r.infcb]))

openin(m) ==
    IF m.r.infcb \notin DOMAIN m.d \cup Devices THEN [m.r EXCEPT !.inlen = 0, !.inflg = FALSE, !.ineof = TRUE]
    ELSE [m.r EXCEPT !.inlen = BytesIn(m), !.inrec = 0, !.hooked = TRUE, !.pclosed = FALSE,
                     !.ineof = FALSE, !.lastin = 0, !.inflg = TRUE, !.awake = TRUE]

rcreat(m) == [r |-> [m.r EXCEPT !.outrec = 0, !.outptr = 0, !.hooked = TRUE],
              d |-> Entered(m.d, m.r.outfcb, NoFile)]

\* How much of the last record is used.  If its byte count says nothing, what is
\* before a ^Z - or, if there is none, all but the last byte.
Used(f) ==
    LET last  == Record(f, Records(f) - 1)
        marks == {k \in 1..RECSIZE : last[k] = MARK}
    IN  IF f.unused # 0 THEN RECSIZE - f.unused
        ELSE IF marks = {} THEN RECSIZE - 1
        ELSE (CHOOSE k \in marks : \A j \in marks : k <= j) - 1

\* An empty file leaves the warm boot as it is, see Terminate.
append(m) ==
    IF m.r.outfcb \notin DOMAIN m.d THEN rcreat(m)
    ELSE LET f == m.d[m.r.outfcb]
         IN  IF f.recs = <<>> THEN m
             ELSE [m EXCEPT !.r.outrec = Records(f) - 1, !.r.outptr = Used(f), !.r.hooked = TRUE,
                            !.r.outbuf = Record(f, Records(f) - 1)]

creat(m) ==
    IF ~m.r.outflg THEN m
    ELSE IF m.r.outfcb \in Devices THEN [m EXCEPT !.r.hooked = TRUE]
    ELSE IF m.r.oapp THEN append(m) ELSE rcreat(m)

Initialise ==
    /\ pc = "start" /\ Cmd.pm /\ pc' = "run"
    /\ LET r1 == [rsx EXCEPT !.awake = TRUE, !.pclosed = FALSE, !.inflg = @ \/ rsx.PipedI]
           r2 == fparse(r1, Cmd.ops)
           r3 == IF r2.inflg THEN openin([r |-> r2, d |-> disk]) ELSE r2
       IN  Become(creat([r |-> [r3 EXCEPT !.outbuf = Filled], d |-> disk]))
    /\ UNCHANGED <<line, room, old, sent, prev, taken, got, eof>>

\* A command that does not know PIPEMGR.
StartPlain ==
    /\ pc = "start" /\ ~Cmd.pm /\ pc' = "run"
    /\ UNCHANGED <<line, rsx, disk, room, old, sent, prev, taken, got, eof>>

\* The command runs, and the RSX waits for its next call.
Running == pc = "run" /\ room = 0

-----------------------------------------------------------------------------
(* Output                                                                     *)

\* Mutant: the buffer keeps what was written.
wrobufStale(m) ==
    LET f == m.d[m.r.outfcb]
        n == m.r.outrec * RECSIZE
        recs == SubSeq(f.recs, 1, n) \o m.r.outbuf \o SubSeq(f.recs, n + RECSIZE + 1, Len(f.recs))
    IN  [r |-> [m.r EXCEPT !.outrec = @ + 1, !.outptr = 0], d |-> [m.d EXCEPT ![m.r.outfcb].recs = recs]]
wrobuf(m) ==
    LET f == m.d[m.r.outfcb]
        n == m.r.outrec * RECSIZE
        recs == SubSeq(f.recs, 1, n) \o m.r.outbuf \o SubSeq(f.recs, n + RECSIZE + 1, Len(f.recs))
    IN  [r |-> [m.r EXCEPT !.outrec = @ + 1, !.outptr = 0, !.outbuf = Filled],
         d |-> [m.d EXCEPT ![m.r.outfcb].recs = recs]]

\* Mutant: the buffer is written once it holds one byte too many.
FullLate(r) == r.outptr > RECSIZE
Full(r) == r.outptr >= RECSIZE

bytout(m, b) ==
    IF m.r.outfcb \in Devices THEN m
    ELSE LET w == IF Full(m.r) THEN wrobuf(m) ELSE m
         IN  [w EXCEPT !.r.outptr = @ + 1,
                       !.r.outbuf = [i \in 1..RECSIZE |-> IF i = w.r.outptr + 1 THEN b ELSE @[i]]]

\* PipeOut and PipeErr; what is not redirected goes to the console.
Output ==
    /\ Running /\ rsx.awake /\ Len(sent) < MAXOUT
    /\ \E b \in Bytes, flg \in {rsx.outflg, rsx.errflg} :
           /\ flg /\ Become(bytout(M, b)) /\ sent' = Append(sent, b)
    /\ UNCHANGED <<pc, line, room, old, prev, taken, got, eof>>

-----------------------------------------------------------------------------
(* Input.  A reader returns the RSX and a byte, EOF if H is zero.             *)

\* What a reader returns: the RSX, how many bytes it took, the one that is
\* returned, if any, and whether H was zero.
Answer(r, n, raw, eof_) == [r |-> r, n |-> n, raw |-> raw, eof |-> eof_]

rdibuf(r) ==
    IF r.infcb \in DOMAIN disk /\ r.inrec < Records(disk[r.infcb])
    THEN [r EXCEPT !.inbuf = Record(disk[r.infcb], r.inrec), !.inrec = @ + 1, !.inptr = 0]
    ELSE [r EXCEPT !.inbuf = Filled, !.ineof = TRUE, !.inptr = 0]

bytin(r) ==
    IF r.ineof \/ r.infcb \in Devices \/ r.inlen = 0 THEN Answer(r, 0, <<>>, TRUE)
    ELSE LET s == IF r.inptr >= RECSIZE THEN rdibuf(r) ELSE r
         IN  Answer([s EXCEPT !.inlen = @ - 1, !.inptr = @ + 1], 1, <<s.inbuf[s.inptr + 1]>>, FALSE)

\* The first read of a plain command opens the pipe.
pbytin(r) == bytin(IF r.pclosed THEN [openin([r |-> r, d |-> disk]) EXCEPT !.pclosed = FALSE, !.awake = FALSE]
                   ELSE r)

\* Mutant: any line feed is dropped.
qbytinNoFeeds(r) ==
    LET a == pbytin(r)
        s == [a.r EXCEPT !.lastin = IF a.eof THEN MARK ELSE a.raw[1]]
        z == pbytin(s)
    IN  IF a.raw = <<LF>> THEN Answer(z.r, a.n + z.n, z.raw, z.eof)
        ELSE Answer(s, a.n, a.raw, a.eof)

\* A line feed after a carriage return is dropped, and the byte behind it returned
\* as it is; only what qbytin read first is remembered.
qbytin(r) ==
    LET a == pbytin(r)
        s == [a.r EXCEPT !.lastin = IF a.eof THEN MARK ELSE a.raw[1]]
        z == pbytin(s)
    IN  IF a.raw = <<LF>> /\ a.r.lastin = CR THEN Answer(z.r, a.n + z.n, z.raw, z.eof)
        ELSE Answer(s, a.n, a.raw, a.eof)

\* BDOS 6 with 0FFh reads two bytes and returns the second.
con6(r) ==
    LET a == pbytin(r)
        z == pbytin(a.r)
    IN  Answer(z.r, a.n + z.n, z.raw, z.eof)

Piped   == Running /\ rsx.PipedI /\ ~rsx.awake

Received(a) == /\ rsx' = a.r
               /\ taken' = taken + a.n /\ got' = got \o a.raw
               /\ eof' = (eof \/ a.eof)
               /\ UNCHANGED <<pc, line, disk, old, sent, prev>>

PipeIn == Running /\ rsx.awake /\ rsx.inflg /\ ~eof /\ Received(bytin(rsx)) /\ UNCHANGED room

\* A command stops reading when it was told of the end.  BDOS 6 with 0FDh is BDOS 1.
ConsoleIn ==
    /\ Piped /\ ~eof
    /\ \E c \in Cmd.reads \cap {1, 6} : Received(IF c = 1 THEN pbytin(rsx) ELSE con6(rsx))
    /\ UNCHANGED room

\* BDOS 10: a line, as far as the buffer holds it.
con10 ==
    /\ Piped /\ ~eof /\ 10 \in Cmd.reads
    /\ room' = BUFLEN
    /\ UNCHANGED <<pc, line, rsx, disk, old, sent, prev, taken, got, eof>>

\* The loop of con10.
con10b ==
    /\ pc = "run" /\ room > 0
    /\ LET a == qbytin(rsx)
       IN  /\ Received(a)
           /\ room' = IF a.eof \/ Last(a.raw) \in {CR, LF} THEN 0 ELSE room - 1

-----------------------------------------------------------------------------
(* The end of a command: its warm boot comes to the RSX if it is hooked.      *)

CloseIn(m) ==
    LET r == [m.r EXCEPT !.inptr = RECSIZE, !.inflg = FALSE]
    IN  [r |-> r, d |-> IF m.r.inflg /\ m.r.PipedI THEN Deleted(m.d, m.r.infcb) ELSE m.d]

\* Mutant: the count is of the bytes used.
UnusedIsUsed(r) == r.outptr % RECSIZE
Unused(r) == (RECSIZE - r.outptr) % RECSIZE

\* The flags of the output stay as they are.
CloseOut(m) ==
    IF ~m.r.outflg \/ m.r.outfcb \notin DOMAIN m.d THEN m
    ELSE LET w == IF m.r.outptr # 0 THEN wrobuf(m) ELSE m
         IN  [w EXCEPT !.d[m.r.outfcb].unused = Unused(m.r)]

\* PIPEOUT becomes PIPEIN, unless there is one.
Renamed(d) ==
    IF PIPEIN \in DOMAIN d \/ PIPEOUT \notin DOMAIN d THEN d
    ELSE Entered(Deleted(d, PIPEOUT), PIPEIN, d[PIPEOUT])

\* Mutant: the input is left as it was.
xferpipeKeepsInput(m) ==
    [r |-> [m.r EXCEPT !.PipedO = FALSE, !.PipedI = TRUE, !.inflg = TRUE, !.hooked = TRUE, !.pclosed = TRUE],
     d |-> Renamed(m.d)]
xferpipe(m) ==
    [r |-> [m.r EXCEPT !.PipedO = FALSE, !.PipedI = TRUE, !.inflg = TRUE, !.infcb = PIPEIN,
                       !.awake = FALSE, !.hooked = TRUE, !.pclosed = TRUE],
     d |-> Renamed(m.d)]

\* Both are closed before the RSX looks for a pipe.
myboot(m) ==
    LET c == CloseOut(CloseIn([m EXCEPT !.r.hooked = FALSE, !.r.awake = FALSE]))
    IN  [c EXCEPT !.r.PipedI = FALSE]

\* The next command of the pipeline is chained to.
Chain ==
    /\ Running /\ rsx.hooked /\ rsx.PipedO
    /\ pc' = "start" /\ line' = Tail(line) /\ Become(xferpipe(myboot(M)))
    /\ prev' = sent /\ sent' = <<>> /\ taken' = 0 /\ got' = <<>> /\ eof' = FALSE
    /\ UNCHANGED <<room, old>>

\* Without a pipe the RSX goes with its last command, without a hook at once.
Vanish ==
    /\ Running /\ ~(rsx.hooked /\ rsx.PipedO)
    /\ pc' = (IF rsx.hooked THEN "ended" ELSE "lost")
    /\ Become(IF rsx.hooked THEN myboot(M) ELSE M)
    /\ UNCHANGED <<line, room, old, sent, prev, taken, got, eof>>

\* Emergency termination, or a reset of the machine: nothing is closed.
killrsx ==
    /\ Running /\ rsx.awake /\ pc' = "lost"
    /\ UNCHANGED <<line, rsx, disk, room, old, sent, prev, taken, got, eof>>

\* What the first command finds in the file it reads.
Given(l, d) ==
    IF Has(Head(l).ops, Inputs) /\ InFile(Head(l).ops) \in DOMAIN d
    THEN Exact(d[InFile(Head(l).ops)]) ELSE <<>>

Init == /\ pc = "start" /\ line \in Lines /\ disk \in Disks /\ old = disk
        /\ rsx = Fresh /\ room = 0 /\ sent = <<>> /\ prev = Given(line, disk) /\ taken = 0 /\ got = <<>>
        /\ eof = FALSE

Next == Initialise \/ StartPlain \/ Output \/ PipeIn \/ ConsoleIn \/ con10 \/ con10b
        \/ Chain \/ Vanish \/ killrsx

Spec == Init /\ [][Next]_vars

-----------------------------------------------------------------------------
(* What the properties suppose of the pipelines and of the disk before: they  *)
(* fail otherwise.                                                            *)

\* `<' in the first command only and not of the file the output goes to, `>>' in
\* the last only, `|' at the end of every other; a command that does not know
\* PIPEMGR has no operators.  The flags of an output outlive its command, so that
\* every command behind a pipe that knows PIPEMGR has an output of its own.
Operator == [op : Inputs \cup Outputs, file : STRING]
Command  == [pm : BOOLEAN, ops : Seq(Operator), reads : SUBSET {1, 6, 10}]

UsualCommand(c, first, last) ==
    /\ Has(c.ops, Pipes) <=> ~last
    /\ Has(c.ops, Inputs) => first
    /\ Has(c.ops, Appends) => last
    /\ IF c.pm THEN first \/ Has(c.ops, Outputs) ELSE c.ops = <<>>
    /\ \A j \in DOMAIN c.ops : /\ c.ops[j].file \notin {PIPEIN, PIPEOUT}
                               /\ c.ops[j].op \in Pipes => j = Len(c.ops)
    /\ Has(c.ops, Inputs) /\ Has(c.ops, Outputs) => InFile(c.ops) # OutFile(c.ops)

UsualLine(l) == /\ l \in Seq(Command) /\ l # <<>>
                /\ \A i \in 1..Len(l) : UsualCommand(l[i], i = 1, i = Len(l))

\* The last record of a file that is appended to says where the text ends.
Appendable(f) ==
    /\ f.recs # <<>>
    /\ f.unused = 0 => Record(f, Records(f) - 1)[1] # MARK
    /\ f.unused = 0 => \E k \in 1..RECSIZE : Record(f, Records(f) - 1)[k] = MARK

\* No file of PIPEMGR's is left from before.
UsualDisk(d) ==
    \A f \in DOMAIN d :
        /\ f \in STRING \ (Devices \cup {PIPEIN, PIPEOUT})
        /\ d[f] \in [recs : Seq(Bytes), unused : 0..(RECSIZE - 1)]
        /\ Len(d[f].recs) % RECSIZE = 0

AppendsTo(l, d) ==
    LET ops == l[Len(l)].ops
    IN  Has(ops, Appends) /\ OutFile(ops) \in DOMAIN d => Appendable(d[OutFile(ops)])

Usual ==
    /\ \A l \in Lines : UsualLine(l)
    /\ \A d \in Disks : UsualDisk(d)
    /\ \A l \in Lines, d \in Disks : AppendsTo(l, d)

\* What BDOS 6 throws away is received by nobody, and qbytin does not remember what
\* BDOS 1 reads in between.
OrderlyCommand(c) == 6 \notin c.reads /\ ~({1, 10} \subseteq c.reads)
Orderly == \A l \in Lines : \A i \in 1..Len(l) : OrderlyCommand(l[i])

-----------------------------------------------------------------------------
(* Properties                                                                 *)

\* The pointers stay inside the buffers, and what is read inside the file.
TypeOK ==
    /\ pc \in {"start", "run", "lost", "ended"} /\ line # <<>>
    /\ rsx.outptr \in 0..RECSIZE /\ rsx.inptr \in 0..RECSIZE
    /\ Len(rsx.outbuf) = RECSIZE /\ Len(rsx.inbuf) = RECSIZE /\ rsx.inlen \in Nat
    /\ \A f \in DOMAIN disk : Len(disk[f].recs) % RECSIZE = 0 /\ disk[f].unused \in 0..(RECSIZE - 1)
    /\ rsx.PipedO => rsx.outfcb = PIPEOUT
    /\ rsx.PipedI => rsx.infcb = PIPEIN

\* A command receives the bytes its predecessor sent, each once and in order, and
\* is told of the end after the last, through records, a rename and a line buffer.
\* Only a command that reads lines misses any, and none but line feeds directly
\* behind a carriage return.
Abstract == INSTANCE Pipe WITH Byte <- Bytes, ByLines <- 10 \in Cmd.reads
Implements == Abstract!Spec

\* PIPEMGR.md, C=06h: as C=01h, which reads the next character from the pipe.
InOrder == IsPrefix(got, prev)

Targets == IF Has(Cmd.ops, Outputs) THEN {OutFile(Cmd.ops)} \ Devices ELSE {}

\* What a program reads of a text that may end with ^Z.
Text(f) ==
    LET marks == {k \in (Len(f.recs) - RECSIZE + 1)..Len(f.recs) : f.recs[k] = MARK}
    IN  IF f.recs = <<>> \/ f.unused # 0 \/ marks = {} THEN Exact(f)
        ELSE SubSeq(f.recs, 1, (CHOOSE k \in marks : \A j \in marks : k <= j) - 1)

\* The bytes of the last record that are not used are ^Z.
Padded(f) ==
    \A i \in (Len(f.recs) - f.unused + 1)..Len(f.recs) : f.recs[i] = MARK

\* At the end, the file that the last command's output goes to holds that output,
\* behind what it held before if it was to be appended; and whatever PIPEMGR has
\* made is filled up with ^Z at any time (PIPEMGR.md, "File sizes").
OutputArrives ==
    /\ pc = "ended" => \A f \in Targets :
          Exact(disk[f]) = (IF Has(Cmd.ops, Appends) /\ f \in DOMAIN old THEN Text(old[f]) ELSE <<>>) \o sent
    /\ \A f \in DOMAIN disk \ DOMAIN old : Padded(disk[f])

\* At the end the files behind the pipes are gone, and all others as they were.
NothingElse ==
    pc = "ended" => /\ DOMAIN disk \ Targets = DOMAIN old \ Targets
                    /\ \A f \in DOMAIN old \ Targets : disk[f] = old[f]
=============================================================================
