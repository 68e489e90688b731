------------------------------ MODULE ByteFile ------------------------------
(* What a stream promises its program: a file of bytes and a position in it.  *)
(* Buffers, descriptors and records do not appear.  `call' is the last call   *)
(* and its result, the only thing the program sees.  Once a call has failed   *)
(* to write (err) nothing is promised but that fclose() will say so.          *)
EXTENDS Integers, Sequences

CONSTANTS SECSIZE

VARIABLES bytes,    \* the contents of the file
          pos,      \* the position of the stream
          mode,     \* "closed", "read" or "write"
          text,     \* ASCII or binary
          buffered, \* has the stream a buffer?
          eof, err, \* the indicators
          call      \* the last call, its arguments and its result

vars == <<bytes, pos, mode, text, buffered, eof, err, call>>

EOF == "EOF"

\* CP/M may add bytes to the end of the last record (fopen(3)).
Padding == {[i \in 1..n |-> "ETX"] : n \in 0..(SECSIZE - 1)}

\* The text of a file ends at its first ^Z.
TextEndsAt(e) == /\ \A i \in 1..e : bytes[i] # "ETX"
                 /\ e = Len(bytes) \/ bytes[e + 1] = "ETX"

Open ==
    /\ call'.op \in {"fopen", "freopen"}
    /\ \/ /\ call'.mode = "r" /\ mode' = "read"
          /\ \E p \in Padding : bytes' = bytes \o p
          /\ pos' = 0
       \/ /\ call'.mode = "w" /\ mode' = "write"
          /\ bytes' = <<>> /\ pos' = 0
       \/ /\ call'.mode = "a" /\ mode' = "write"
          /\ \E p \in Padding : bytes' = bytes \o p
          /\ pos' = Len(bytes')
    /\ ~eof' /\ text' \in BOOLEAN /\ buffered'

\* The next character of a text skips carriage returns and stops at ^Z, which
\* an unbuffered stream passes.
Skipped(i) == text /\ \A j \in (pos + 1)..i : bytes[j] = "CR"

Get ==
    /\ call'.op = "fgetc" /\ mode = "read" /\ ~eof
    /\ \E next \in (pos + 1)..(Len(bytes) + 1) :
          /\ next > pos + 1 => Skipped(next - 1)
          /\ next <= Len(bytes) => ~Skipped(next)
          /\ IF next > Len(bytes) \/ (text /\ bytes[next] = "ETX")
             THEN /\ call'.ret = EOF /\ eof'
                  /\ pos' = IF buffered \/ next > Len(bytes) THEN next - 1 ELSE next
             ELSE call'.ret = bytes[next] /\ pos' = next /\ ~eof'
    /\ UNCHANGED <<bytes, mode, text, buffered>>

\* At end of file, and on a stream that is being written, getc() says EOF.
GetNothing ==
    /\ call'.op = "fgetc" /\ (eof \/ mode # "read")
    /\ call'.ret = EOF /\ eof'
    /\ UNCHANGED <<bytes, pos, mode, text, buffered>>

\* One character can be pushed back if the stream has a buffer.
Unget ==
    /\ call'.op = "ungetc"
    /\ \/ call'.ret = call'.char /\ pos' = pos - 1 /\ bytes[pos] = call'.char
       \/ ~buffered /\ call'.ret = EOF /\ pos' = pos
    /\ UNCHANGED <<bytes, mode, text, buffered, eof>>

Put ==
    /\ call'.op = "fputc" /\ mode = "write"
    /\ LET c    == call'.char
           line == IF text /\ c = "LF" THEN <<"CR", "LF">> ELSE <<c>>
       IN  /\ bytes' = SubSeq(bytes, 1, pos) \o line
                       \o SubSeq(bytes, pos + Len(line) + 1, Len(bytes))
           /\ pos' = pos + Len(line)
           /\ call'.ret = c
    /\ UNCHANGED <<mode, text, buffered, eof>>

PutNothing ==
    /\ call'.op = "fputc" /\ mode # "write" /\ call'.ret = EOF
    /\ UNCHANGED <<bytes, pos, mode, text, buffered, eof>>

Quiet ==
    /\ \/ call'.op = "setbuf"
       \/ call'.op = "longjmp" /\ UNCHANGED buffered
       \/ call'.op = "fflush" /\ call'.ret = "OK" /\ UNCHANGED buffered
       \/ call'.op = "ftell" /\ call'.ret = pos /\ UNCHANGED buffered
    /\ UNCHANGED <<bytes, pos, mode, text, eof>>

Seek ==
    /\ call'.op = "fseek" /\ call'.ret = "OK"
    /\ \E from \in 0..Len(bytes) :
          /\ CASE call'.wh = 0 -> from = 0
               [] call'.wh = 1 -> from = pos
               [] call'.wh = 2 -> IF text /\ buffered THEN TextEndsAt(from)
                                  ELSE from = Len(bytes)
          /\ pos' = call'.offs + from
    /\ ~eof'
    /\ UNCHANGED <<bytes, mode, text, buffered>>

Close ==
    /\ call'.op \in {"fclose", "exit"} /\ mode' = "closed"
    /\ \E p \in Padding : bytes' = bytes \o p
    /\ call'.op = "fclose" => call'.ret = IF mode = "closed" THEN EOF ELSE "OK"

\* A write has failed, now or before: the file may have lost anything.
Fail == err' /\ ~(call'.op = "fclose" /\ call'.ret = "OK")

Next == \/ ~err' /\ \/ Open \/ Get \/ GetNothing \/ Unget \/ Put \/ PutNothing
                    \/ Quiet \/ Seek \/ Close
        \/ Fail

Init == pos = 0 /\ mode = "closed" /\ ~eof /\ ~err

Spec == Init /\ [][Next]_vars
=============================================================================
