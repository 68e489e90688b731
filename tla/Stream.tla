------------------------------- MODULE Stream -------------------------------
(* One stream of the stdio library over one file: the buffer, its count and   *)
(* its flags (struct _iobuf), the position of the descriptor below, and the   *)
(* bytes the descriptor can reach.  Files are opened, read, written, moved    *)
(* about in and closed in any order; write() may fail half-way, and a ^C may  *)
(* be typed while it works.                                                   *)
(*                                                                            *)
(* A function of the library is an operator from a stream to a stream, so     *)
(* that one that calls others is the composition of theirs.  Operators that   *)
(* read return [s |-> the stream, c |-> the character].                       *)
EXTENDS Integers, Sequences

CONSTANTS BUFSIZ,     \* bytes in a buffer
          SECSIZE,    \* bytes in a record
          Chars,      \* the characters the program writes
          Modes,      \* the modes of fopen(): [op, plus, bin]
          InitFiles,  \* the files there may be at the start
          Setbufs,    \* what the program calls setbuf() with
          DiskFails,  \* may write() stop at a record boundary?
          Handlers,   \* what ^C may do: "SIG_DFL" exits, "jumps" longjmps
          LateBreak,  \* may ^C come after a record has been written?
          Exact,      \* is the exact size of a file kept? (_exact)
          MaxLen      \* bound on the length of the file

EOF == "EOF"

ASSUME StreamAssumption ==
    /\ SECSIZE \in Nat \ {0} /\ BUFSIZ \in Nat \ {0} /\ MaxLen \in Nat
    /\ BUFSIZ % SECSIZE = 0
    /\ DiskFails \in BOOLEAN /\ Exact \in BOOLEAN /\ LateBreak \in BOOLEAN
    /\ Handlers \subseteq {"SIG_DFL", "jumps"}
    /\ Setbufs \subseteq {"NULL", "own"}
    /\ Modes \subseteq [op : {"r", "w", "a"}, plus : BOOLEAN, bin : BOOLEAN]
    /\ EOF \notin Chars            \* EOF is -1, no character
    /\ \A file \in InitFiles : /\ file \in Seq({file[i] : i \in DOMAIN file})
                               /\ \A i \in 1..Len(file) : file[i] # EOF

VARIABLES s,      \* the stream, its descriptor and its file
          call,   \* ghost: the last call and its result
          may,    \* ghost: what the program may do, by the manual
          put     \* ghost: what it has put into the file

vars == <<s, call, may, put>>

OK   == "OK"
Junk == "junk"                        \* what memory holds before it is used

Flags == {"READ", "WRT", "NBF", "MYBUF", "EOF", "ERR", "BINARY", "DIRN",
          "APPEND", "WROTE"}
HighFlags == {"DIRN", "APPEND", "WROTE"}   \* those above bit 7

Lesser(i, j) == IF i < j THEN i ELSE j

Fresh == [i \in 1..BUFSIZ |-> Junk]    \* a buffer of the pool

\* A stream that fopen() can take; `wild' says that control was lost.
NoStream(file) ==
    [ptr |-> 0, cnt |-> 0, base |-> FALSE, flag |-> {},
     buf |-> Fresh, rwp |-> 0, file |-> file, wild |-> FALSE]

IsOpen(t)  == t.flag \cap {"READ", "WRT"} # {}
Flag(t, b) == b \in t.flag
Set(t, b)  == [t EXCEPT !.flag = @ \cup b]
Clear(t, b) == [t EXCEPT !.flag = @ \ b]

-----------------------------------------------------------------------------
(* The descriptor below: read(), write() and lseek() as FcbTable has them.    *)

\* file with d written at offset p, of which k bytes arrived.
Overlay(file, p, d) ==
    [i \in 1..IF Len(d) = 0 \/ p + Len(d) < Len(file) THEN Len(file) ELSE p + Len(d) |->
        IF i > p /\ i <= p + Len(d) THEN d[i - p]
        ELSE IF i <= Len(file) THEN file[i] ELSE "ETX"]

Write(t, d, k) ==
    [t EXCEPT !.file = Overlay(@, t.rwp, SubSeq(d, 1, k)), !.rwp = @ + k]

\* write() leaves its loop only before a record, or when it is done.
Stops(t, n) == {k \in 0..n : k = 0 \/ (t.rwp + k) % SECSIZE = 0}
Written(t, n) == {n} \cup IF DiskFails THEN Stops(t, n) ELSE {}

LseekTo(t, pos) == IF pos >= 0 THEN [t EXCEPT !.rwp = pos] ELSE t

-----------------------------------------------------------------------------
(* Output.                                                                    *)

\* The bytes fflush() would write.
Unwritten(t) == SubSeq(t.buf, 1, BUFSIZ - t.cnt)

Flushes(t) == /\ Flag(t, "WRT") /\ (Flag(t, "DIRN") \/ Flag(t, "WROTE"))
              /\ t.base /\ t.cnt # BUFSIZ

\* How far the write() of fflush() may get.
Flushed(t) == IF Flushes(t) THEN Written(t, BUFSIZ - t.cnt) ELSE {0}

Short(t, k, n) == IF k = n THEN t ELSE Set(t, {"ERR"})

\* mutant: a short write goes unnoticed
FflushForgetsError(t, k) ==
    IF ~Flushes(t) THEN t
    ELSE [Clear(Write(t, Unwritten(t), k), {"WROTE"}) EXCEPT !.cnt = BUFSIZ, !.ptr = 0]

Fflush(t, k) ==
    IF ~Flushes(t) THEN t
    ELSE Short([Clear(Write(t, Unwritten(t), k), {"WROTE"}) EXCEPT !.cnt = BUFSIZ, !.ptr = 0],
               k, BUFSIZ - t.cnt)

\* A full buffer is written and c begins the next; without one c is written.
Flsbuf(t, c, k) ==
    IF ~t.base THEN Short([Write(t, <<c>>, k) EXCEPT !.cnt = 0], k, 1)
    ELSE Short([Write(t, t.buf, k) EXCEPT !.cnt = BUFSIZ - 1, !.ptr = 1,
                                          !.buf = [@ EXCEPT ![1] = c]],
               k, BUFSIZ)

\* A store beyond the buffer, or through a null pointer, hits other memory.
Store(t, c) ==
    IF t.base /\ t.ptr < BUFSIZ THEN [t EXCEPT !.buf[t.ptr + 1] = c, !.ptr = @ + 1]
    ELSE [t EXCEPT !.wild = TRUE]

Spills(t) == t.cnt = 0 \/ Flag(t, "NBF")

PutByte(t, c, k) ==
    IF Spills(t) THEN Flsbuf(t, c, k) ELSE Store([t EXCEPT !.cnt = @ - 1], c)

\* How far the write() of _flsbuf() may get.
Spilled(t) == IF Spills(t) THEN Written(t, IF t.base THEN BUFSIZ ELSE 1) ELSE {0}

\* fputc() turns the stream to output.
TurnedToOutput(t) ==
    Set(IF Flag(t, "DIRN") THEN t ELSE [t EXCEPT !.cnt = BUFSIZ], {"DIRN", "WROTE"})

-----------------------------------------------------------------------------
(* Input.                                                                     *)

Filbuf(t) ==
    LET n == Lesser(IF t.base THEN BUFSIZ ELSE 1, Len(t.file) - t.rwp)
        got == SubSeq(t.file, t.rwp + 1, t.rwp + n)
        u == [t EXCEPT !.cnt = 0]
    IN  IF ~Flag(t, "READ") THEN [s |-> u, c |-> EOF]
        ELSE IF n <= 0 THEN [s |-> Set(u, {"EOF"}), c |-> EOF]
        ELSE IF ~t.base THEN [s |-> [u EXCEPT !.rwp = @ + 1], c |-> got[1]]
        ELSE [s |-> [t EXCEPT !.buf = Overlay(@, 0, got), !.rwp = @ + n,
                              !.cnt = n - 1, !.ptr = 1],
              c |-> got[1]]

NextByte(t) ==
    IF t.cnt > 0 THEN [s |-> [t EXCEPT !.cnt = @ - 1, !.ptr = @ + 1], c |-> t.buf[t.ptr + 1]]
    ELSE Filbuf(t)

\* The loop of fgetc(): carriage returns are skipped in a text.
Skip(r) == IF r.c = "CR" THEN NextByte(r.s) ELSE r
TextByte(t) ==
    LET pass[n \in 0..Len(t.file)] == IF n = 0 THEN NextByte(t) ELSE Skip(pass[n - 1])
    IN  pass[Len(t.file)]

\* mutant: the ^Z is not put back
FgetcPassesEnd(t) ==
    IF ~Flag(t, "READ") \/ Flag(t, "EOF") THEN [s |-> Set(t, {"EOF"}), c |-> EOF]
    ELSE LET r == IF Flag(t, "BINARY") THEN NextByte(t) ELSE TextByte(t)
         IN  IF r.c = EOF \/ (r.c = "ETX" /\ ~Flag(t, "BINARY"))
             THEN [s |-> Set(r.s, {"EOF"}), c |-> EOF] ELSE r

Fgetc(t) ==
    IF ~Flag(t, "READ") \/ Flag(t, "EOF") THEN [s |-> Set(t, {"EOF"}), c |-> EOF]
    ELSE IF Flag(t, "DIRN")
         THEN \* the return address is in DE, which _filbuf() does not keep
              [s |-> [Filbuf(Clear(t, {"DIRN"})).s EXCEPT !.wild = TRUE], c |-> EOF]
    ELSE LET r == IF Flag(t, "BINARY") THEN NextByte(t) ELSE TextByte(t)
         IN  IF r.c = EOF THEN [r EXCEPT !.s = Set(@, {"EOF"})]
             ELSE IF r.c = "ETX" /\ ~Flag(t, "BINARY")
                  THEN [s |-> Set(IF t.base THEN [r.s EXCEPT !.cnt = @ + 1, !.ptr = @ - 1]
                                  ELSE r.s, {"EOF"}),
                        c |-> EOF]
             ELSE r

\* fread() of n bytes.
ReadOn(r) == IF r.c = EOF \/ r.s.wild THEN r ELSE Fgetc(r.s)
Fread(t, n) ==
    LET item[i \in 0..n] == IF i = 0 THEN [s |-> t, c |-> Junk] ELSE ReadOn(item[i - 1])
    IN  item[n].s

CanUnget(t) == /\ Flag(t, "READ") /\ ~Flag(t, "DIRN") /\ t.base /\ t.cnt # BUFSIZ

Ungot(t, c) ==
    IF t.ptr = 0 THEN [t EXCEPT !.buf[1] = c]
    ELSE [t EXCEPT !.cnt = @ + 1, !.ptr = @ - 1, !.buf[t.ptr] = c]

-----------------------------------------------------------------------------
(* Positions.                                                                 *)

Ftell(t) == t.rwp + (IF t.base /\ Flag(t, "WRT") THEN BUFSIZ ELSE 0) - t.cnt

\* mutant: the buffer is not emptied before the end is read
SsizeKeepsBuffer(t) ==
    IF Flag(t, "BINARY") THEN [s |-> t, c |-> Len(t.file)]
    ELSE LET v == Fread(LseekTo(t, Len(t.file) - SECSIZE), SECSIZE)
         IN  [s |-> [v EXCEPT !.flag = t.flag \ HighFlags], c |-> Ftell(v)]

\* _ssize(): a text ends where its last record has a ^Z, so that is read.  The
\* flags are saved in one byte; fseek() has flushed the buffer.
Ssize(t) ==
    IF Flag(t, "BINARY") THEN [s |-> t, c |-> Len(t.file)]
    ELSE LET u == [LseekTo(Clear(Set(t, {"READ"}), {"WRT"}), Len(t.file) - SECSIZE)
                      EXCEPT !.cnt = 0]
             v == Fread(u, SECSIZE)
             w == [v EXCEPT !.flag = t.flag \ HighFlags]
         IN  [s |-> IF Flag(w, "WRT") THEN [w EXCEPT !.cnt = BUFSIZ, !.ptr = 0] ELSE w,
              c |-> Ftell(v)]

\* mutant: a move backwards stays in the buffer, too
MoveToBack(t, target) ==
    LET roffs == target - Ftell(t)
    IN  IF roffs = 0 THEN t
        ELSE IF ~Flag(t, "READ") THEN LseekTo(t, target)
        ELSE IF roffs <= t.cnt /\ ~Flag(t, "WRT")
             THEN [t EXCEPT !.cnt = @ - roffs, !.ptr = @ + roffs]
             ELSE LseekTo([t EXCEPT !.cnt = 0], target)

\* The part of fseek() that follows the choice of the target.
MoveTo(t, target) ==
    LET roffs == target - Ftell(t)
        u     == Clear(t, {"DIRN", "WROTE"})
    IN  IF roffs = 0 THEN t
        ELSE IF ~Flag(t, "READ") THEN LseekTo(t, target)
        ELSE IF roffs >= 0 /\ roffs <= t.cnt /\ ~Flag(t, "WRT")
             THEN [u EXCEPT !.cnt = @ - roffs, !.ptr = @ + roffs]
             ELSE LseekTo([u EXCEPT !.cnt = 0], target)

Target(t, offs, wh) ==
    offs + CASE wh = 0 -> 0
             [] wh = 1 -> IF t.base THEN Ftell(t) ELSE t.rwp
             [] wh = 2 -> IF t.base THEN Ssize(t).c ELSE Len(t.file)

Fseek(t, offs, wh, k) ==
    LET u == Clear(t, {"EOF"})
        f == Fflush(u, k)
    IN  IF ~t.base THEN LseekTo(u, Target(u, offs, wh))
        ELSE MoveTo(IF wh = 2 THEN Ssize(f).s ELSE f, Target(f, offs, wh))

-----------------------------------------------------------------------------
(* Opening and closing.                                                       *)

\* Without exact sizes a closed file ends with its last record.
Recorded(file) ==
    IF Exact THEN file
    ELSE file \o [i \in 1..((SECSIZE - (Len(file) % SECSIZE)) % SECSIZE) |-> "ETX"]

Fclose(t, k) ==
    IF ~IsOpen(t) THEN t
    ELSE LET u == Clear(Fflush(t, k), {"READ", "WRT", "NBF"})
         IN  [u EXCEPT !.base = @ /\ Flag(u, "MYBUF"), !.file = Recorded(@),
                       !.buf = IF Flag(u, "MYBUF") THEN @ ELSE Fresh]

\* Mutant: every stream starts with the direction of output.
ModeFlagsDirn(m) == (IF m.bin THEN {"BINARY"} ELSE {}) \cup {"DIRN"}
                        \cup (IF m.op = "r" THEN {"READ"} ELSE {"WRT"})
                        \cup (IF m.op = "a" THEN {"APPEND"} ELSE {})
                        \cup (IF m.plus THEN {"READ", "WRT"} ELSE {})
ModeFlags(m) ==
    (IF m.bin THEN {"BINARY"} ELSE {})
        \cup (IF m.op = "r" THEN {"READ"} ELSE {"WRT", "DIRN"})
        \cup (IF m.op = "a" THEN {"APPEND"} ELSE {})
        \cup (IF m.plus THEN {"READ", "WRT"} ELSE {})

\* fopen() is freopen() of a closed stream.
Freopen(t, m, k) ==
    LET file == Fclose(t, k).file
        u == [NoStream(IF m.op = "w" THEN <<>> ELSE file) EXCEPT
                 !.base = TRUE, !.flag = ModeFlags(m),
                 !.cnt = IF m.op = "r" THEN 0 ELSE BUFSIZ]
    IN  IF m.op = "a" THEN Fseek(u, 0, 2, 0) ELSE u

SetBuffer(t, c) ==
    LET own == c = "own"
    IN  [t EXCEPT !.base = own, !.ptr = 0,
                  !.flag = IF own THEN @ \cup {"MYBUF"} ELSE @ \ {"MYBUF"},
                  !.cnt = IF own /\ Flag(t, "WRT") THEN BUFSIZ ELSE 0]

-----------------------------------------------------------------------------
(* The program's calls.  It keeps to the manual: setbuf() directly after      *)
(* fopen(), at most one character pushed back and that the last one read, a   *)
(* flush or a seek between reading and writing (`may').  It moves to places   *)
(* inside the file.                                                           *)

None == "none"
Calm == [fresh |-> FALSE, back |-> None, dir |-> None]
Lost == [at |-> -1, bytes |-> <<>>]       \* nothing known of what was put

\* The file with what still is in the buffer.
Image(t) == IF Flushes(t) THEN Overlay(t.file, t.rwp, Unwritten(t)) ELSE t.file

Result(t, r) == IF Flag(t, "ERR") THEN EOF ELSE r

Init == /\ \E file \in InitFiles : s = NoStream(file)
        /\ call = [op |-> None] /\ may = Calm /\ put = Lost

\* What _flsbuf() says: without a buffer an earlier error does not count.
Answer(t, u, c, k) == IF t.base THEN Result(u, c) ELSE IF k = 1 THEN c ELSE EOF

\* A text has ^Z in its last record only, and nothing but ^Z follows.
IsText(file) ==
    \A i \in 1..Len(file) : file[i] = "ETX" =>
        /\ i > Len(file) - SECSIZE
        /\ \A j \in i..Len(file) : file[j] = "ETX"

\* freopen() ignores what its fclose() says: the program flushes first.
Reopen ==
    /\ ~s.wild
    /\ ~Flushes(s)
    /\ \E m \in Modes :
          /\ m.bin \/ IsText(Recorded(s.file))
          /\ s' = Freopen(s, m, 0)
          /\ call' = [op |-> IF IsOpen(s) THEN "freopen" ELSE "fopen", mode |-> m.op]
          /\ put' = IF m.op = "r" THEN Lost
                    ELSE [at |-> IF m.op = "w" THEN 0 ELSE Len(s'.file), bytes |-> <<>>]
    /\ may' = [Calm EXCEPT !.fresh = TRUE]

Setbuf ==
    /\ ~s.wild
    /\ IsOpen(s) /\ may.fresh
    /\ \E c \in Setbufs : s' = SetBuffer(s, c)
    /\ call' = [op |-> "setbuf"]
    /\ may' = Calm /\ UNCHANGED put

Getc ==
    /\ ~s.wild
    /\ may.dir # "write"
    /\ LET r == Fgetc(s)
       IN  /\ s' = r.s
           /\ call' = [op |-> "fgetc", ret |-> r.c]
           /\ may' = [Calm EXCEPT !.dir = "read", !.back = IF r.c = EOF THEN None ELSE r.c]
    /\ put' = Lost

Ungetc ==
    /\ ~s.wild
    /\ may.back # None
    /\ s' = IF CanUnget(s) THEN Ungot(s, may.back) ELSE s
    /\ call' = [op |-> "ungetc", char |-> may.back,
                ret |-> IF CanUnget(s) THEN may.back ELSE EOF]
    /\ may' = [may EXCEPT !.back = None]
    /\ UNCHANGED put

PutNothing ==
    /\ ~s.wild
    /\ ~Flag(s, "WRT") /\ may.dir # "read"
    /\ \E c \in Chars : call' = [op |-> "fputc", char |-> c, ret |-> EOF]
    /\ UNCHANGED <<s, may, put>>

Putc ==
    /\ ~s.wild
    /\ Flag(s, "WRT") /\ may.dir # "read"
    /\ Len(Image(s)) + 2 <= MaxLen
    /\ \E c \in Chars :
        LET t    == TurnedToOutput(s)
            line == c = "LF" /\ ~Flag(s, "BINARY")
        IN  /\ \E k \in IF line THEN Spilled(t) ELSE {0} :
                LET u == IF line THEN PutByte(t, "CR", k) ELSE t
                IN  \E l \in Spilled(u) :
                      /\ s' = PutByte(u, c, l)
                      /\ call' = [op |-> "fputc", char |-> c,
                                  ret |-> IF Spills(u) THEN Answer(u, s', c, l) ELSE c]
            /\ put' = IF put.at < 0 \/ Flag(s', "ERR") THEN Lost
                      ELSE [put EXCEPT !.bytes = @ \o IF line THEN <<"CR", c>> ELSE <<c>>]
    /\ may' = [Calm EXCEPT !.dir = "write"]

FlushCall ==
    /\ ~s.wild
    /\ \E k \in Flushed(s) :
          /\ s' = Fflush(s, k)
          /\ call' = [op |-> "fflush",
                      ret |-> IF Flushes(s) THEN Result(s', OK) ELSE OK]
    /\ may' = Calm /\ UNCHANGED put

TellCall ==
    /\ ~s.wild
    /\ IsOpen(s)
    /\ call' = [op |-> "ftell", ret |-> Ftell(s)]
    /\ UNCHANGED <<s, may, put>>

\* On a text that is written SEEK_END loses control, see ReturnsToCaller.
SeekCall ==
    /\ ~s.wild
    /\ IsOpen(s)
    /\ \E wh \in 0..2, offs \in (-MaxLen)..MaxLen, k \in Flushed(s) :
          /\ wh = 2 => Flag(s, "BINARY") \/ ~Flag(s, "WRT") \/ ~s.base
          /\ LET t == Fflush(Clear(s, {"EOF"}), k)
             IN  Target(t, offs, wh) \in 0..Len(t.file)
          /\ s' = Fseek(s, offs, wh, k)
          /\ call' = [op |-> "fseek", offs |-> offs, wh |-> wh, ret |-> OK]
          /\ put' = IF wh = 0 THEN [at |-> offs, bytes |-> <<>>] ELSE Lost
    /\ may' = Calm

CloseCall ==
    /\ ~s.wild
    /\ \E k \in Flushed(s) :
          /\ s' = Fclose(s, k)
          /\ call' = [op |-> "fclose", ret |-> IF IsOpen(s) THEN Result(s', OK) ELSE EOF]
    /\ may' = Calm /\ UNCHANGED put

\* exit() closes every stream and then the descriptors.
Exit ==
    /\ ~s.wild
    /\ IsOpen(s)
    /\ \E k \in Flushed(s) : s' = Fclose(s, k)
    /\ call' = [op |-> "exit"]
    /\ may' = Calm /\ UNCHANGED put

\* ^C is typed when k bytes of a buffer have been written: _sigchk() calls
\* exit(), whose fclose() finds the buffer as it was, or a handler that does
\* not return.  (The call may be fflush(), fputc(), fseek() or fclose().)
Interrupt ==
    /\ ~s.wild
    /\ Flushes(s)
    /\ \E k \in IF LateBreak THEN Stops(s, BUFSIZ - s.cnt) ELSE {0}, h \in Handlers :
        LET t == Write(s, Unwritten(s), k)
        IN  \/ /\ h = "SIG_DFL" /\ call' = [op |-> "exit"]
               /\ \E l \in Flushed(t) : s' = Fclose(t, l)
            \/ /\ h = "jumps" /\ call' = [op |-> "longjmp"]
               /\ s' = t
    /\ may' = Calm /\ UNCHANGED put

Next == \/ Reopen \/ Setbuf \/ Getc \/ Ungetc \/ PutNothing \/ Putc
        \/ FlushCall \/ TellCall \/ SeekCall \/ CloseCall \/ Exit \/ Interrupt

Spec == Init /\ [][Next]_vars

-----------------------------------------------------------------------------
(* What the properties suppose of the program and the disk; they fail         *)
(* otherwise.                                                                 *)

\* A stream is read or written, not both, and a text is not appended to; ^C is
\* typed before a buffer is on its way.
OneDirection ==
    /\ \A m \in Modes : ~m.plus /\ (m.op = "a" => m.bin)
    /\ ~LateBreak

\* Files are whole records.
WholeFiles ==
    /\ ~Exact
    /\ \A file \in InitFiles : Len(file) % SECSIZE = 0

-----------------------------------------------------------------------------
(* Properties.                                                                *)

TypeOK ==
    /\ s.ptr \in 0..BUFSIZ /\ s.cnt \in 0..BUFSIZ /\ s.base \in BOOLEAN
    /\ s.flag \subseteq Flags /\ Len(s.buf) = BUFSIZ /\ s.rwp \in Nat
    /\ s.wild \in BOOLEAN

\* The buffer and the descriptor agree: what can still be read is what the
\* file holds before the descriptor's position, and on output the room and the
\* bytes waiting fill the buffer.
BufferAgrees ==
    IsOpen(s) /\ s.base =>
        IF Flag(s, "WRT") THEN s.ptr + s.cnt = BUFSIZ
        ELSE /\ s.cnt <= s.rwp
             /\ \A i \in 1..s.cnt : s.buf[s.ptr + i] = s.file[s.rwp - s.cnt + i]

\* Characters put one after the other are in the file, once and in order, when
\* the buffer has been flushed and no error is reported.
WroteWhatWasPut ==
    put.at >= 0 /\ ~Flushes(s) /\ ~Flag(s, "ERR") =>
        /\ put.at + Len(put.bytes) <= Len(s.file)
        /\ \A i \in 1..Len(put.bytes) : s.file[put.at + i] = put.bytes[i]

\* A call of the library comes back to its caller and stores in its own buffer.
ReturnsToCaller == ~s.wild

\* The stream is a file of bytes with a position (ByteFile).
Bytes == INSTANCE ByteFile WITH
    bytes <- Image(s),
    pos   <- IF IsOpen(s) THEN Ftell(s) ELSE 0,
    mode  <- IF ~IsOpen(s) THEN "closed" ELSE IF Flag(s, "READ") THEN "read" ELSE "write",
    text  <- ~Flag(s, "BINARY"),
    buffered <- s.base,
    eof   <- Flag(s, "EOF"),
    err   <- Flag(s, "ERR")

\* Every call does to the file and the position what it promises, and a failed
\* write is known at the latest from fclose().
Implements == Bytes!Spec
=============================================================================
