------------------------------ MODULE Getargs ------------------------------
(* _getargs(): a command line becomes a list of arguments.  Characters are    *)
(* numbers, so that a name can also be data; those with a meaning of their    *)
(* own are constants.  Everything here is an operator: the line is read by a  *)
(* fold over its characters, and the arguments by a fold over the words.      *)
EXTENDS Integers, FiniteSets, Sequences, SequencesExt

CONSTANTS Blank, GT, LT, SQ, DQ, Star, Query, Backslash,
          Cont,     \* a backslash at the end of a line, see Joined
          MAXARGS,  \* most arguments, the program's name included
          MAXLEN    \* longest argument

ASSUME GetargsAssumption ==
    /\ Cardinality({Blank, GT, LT, SQ, DQ, Star, Query, Backslash, Cont}) = 9
    /\ MAXARGS \in Nat \ {0} /\ MAXLEN \in Nat \ {0}

NoQuote == Blank                     \* a blank never opens a quotation

isspecial(c) == c \in {LT, GT}
isseparator(c) == c = Blank

\* nxtch(): a line that ends in a backslash goes on in the next one.  The first
\* character of a line just read is taken as it is, also if it is a backslash.
Joined(lines) ==
    LET from[i \in 1..(Len(lines) + 1)] ==
            IF i > Len(lines) THEN <<>>
            ELSE IF Len(lines[i]) > 1 /\ Last(lines[i]) = Backslash
                 THEN Append(Front(lines[i]), Cont) \o from[i + 1]
                 ELSE lines[i]
    IN  from[1]

\* A character of an argument, with the bit that says it was quoted.
Char(c, quoted) == [c |-> c, quoted |-> quoted]

Text(buf) == [i \in 1..Len(buf) |-> buf[i].c]

\* Mutant: quoted characters are matched as well.
iswildQuoted(buf) == \E i \in 1..Len(buf) : buf[i].c \in {Star, Query}

iswild(buf) == \E i \in 1..Len(buf) : ~buf[i].quoted /\ buf[i].c \in {Star, Query}

\* The BDOS's search: ? is any character or none, * is question marks to the end.
Matches(pattern, file) ==
    LET stars == {i \in 1..Len(pattern) : pattern[i] = Star}
        fixed == IF stars = {} THEN Len(pattern)
                 ELSE (CHOOSE i \in stars : \A j \in stars : i <= j) - 1
    IN  /\ stars = {} => Len(file) <= fixed
        /\ \A i \in 1..fixed : \/ pattern[i] = Query
                               \/ i <= Len(file) /\ pattern[i] = file[i]

-----------------------------------------------------------------------------
(* First step - arguments and globbing.  r is what _getargs() knows: the      *)
(* arguments so far, the one in buf, the quotation it is in, and `in': outside*)
(* an argument, inside a word, behind a > that may become >>, or at the start *)
(* of the line that continues a word.                                         *)

Begin(name) == [args |-> <<name>>, buf |-> <<>>, quote |-> NoQuote,
                in |-> "space", error |-> ""]

EndWord(r, dir) ==
    [r EXCEPT !.buf = <<>>, !.in = "space",
              !.args = @ \o IF iswild(r.buf)
                            THEN SelectSeq(dir, LAMBDA f : Matches(Text(r.buf), f))
                            ELSE <<Text(r.buf)>>]

InWord(r, c) ==
    LET s == [r EXCEPT !.in = "word"]
    IN  IF Len(r.buf) = MAXLEN THEN [r EXCEPT !.error = "argument too long"]
        ELSE IF c = r.quote /\ c # NoQuote THEN [s EXCEPT !.quote = NoQuote]
        ELSE IF r.quote = NoQuote /\ c \in {SQ, DQ} THEN [s EXCEPT !.quote = c]
        ELSE [s EXCEPT !.buf = Append(@, Char(c, r.quote # NoQuote))]

StartWord(r, c, dir) ==
    IF Len(r.args) = MAXARGS THEN [r EXCEPT !.error = "too many arguments"]
    ELSE IF isseparator(c) \/ c = Cont THEN r
    ELSE IF c = GT THEN [r EXCEPT !.buf = <<Char(c, FALSE)>>, !.in = "redirect"]
    ELSE IF c = LT THEN EndWord([r EXCEPT !.buf = <<Char(c, FALSE)>>], dir)
    ELSE InWord(r, c)

\* A word is left at a blank, which is consumed, or before a redirection, which
\* is not - unless a continuation put it behind the place look() looked at.
NextChar(r, c, dir) ==
    IF r.error # "" THEN r
    ELSE IF r.in = "space" THEN StartWord(r, c, dir)
    ELSE IF r.in = "redirect"
         THEN IF c = GT THEN EndWord([r EXCEPT !.buf = Append(@, Char(c, FALSE))], dir)
              ELSE StartWord(EndWord(r, dir), c, dir)
    ELSE IF c = Cont THEN [r EXCEPT !.in = "continued"]
    ELSE IF r.quote = NoQuote /\ isseparator(c) THEN EndWord(r, dir)
    ELSE IF r.quote = NoQuote /\ isspecial(c)
         THEN IF r.in = "continued" THEN EndWord(r, dir)
              ELSE StartWord(EndWord(r, dir), c, dir)
    ELSE InWord(r, c)

Words(name, line, dir) ==
    LET r == FoldLeft(LAMBDA a, c : NextChar(a, c, dir), Begin(name), line)
    IN  IF r.error = "" /\ r.in # "space" THEN EndWord(r, dir) ELSE r

-----------------------------------------------------------------------------
(* Second step - redirection.  The word behind < or > is its file.            *)

redirect(r, op, file, dir) ==
    LET stream == IF op[1] = LT THEN "stdin" ELSE "stdout"
        mode   == IF op[1] = LT THEN "r" ELSE IF Len(op) > 1 /\ op[2] = GT THEN "a" ELSE "w"
    IN  IF \E i \in 1..Len(r.redone) : r.redone[i].stream = stream
        THEN [r EXCEPT !.error = "Ambiguous redirection"]
        ELSE IF mode = "r" /\ \A i \in 1..Len(dir) : dir[i] # file
        THEN [r EXCEPT !.error = "Can't open"]
        ELSE [r EXCEPT !.op = <<>>,
                       !.redone = Append(@, [stream |-> stream, mode |-> mode, file |-> file])]

Redirected(words, dir) ==
    LET Word(r, w) ==
            IF r.error # "" THEN r
            ELSE IF r.op # <<>> THEN redirect(r, r.op, w, dir)
            ELSE IF w # <<>> /\ isspecial(w[1]) THEN [r EXCEPT !.op = w]
            ELSE [r EXCEPT !.argv = Append(@, w)]
        all == FoldLeft(Word, [argv |-> <<>>, op |-> <<>>, redone |-> <<>>, error |-> ""], words)
    IN  IF all.error = "" /\ all.op # <<>> THEN [all EXCEPT !.error = "no name after"] ELSE all

\* _getargs() reading its lines from the standard input, in a directory.
getargs(name, lines, dir) ==
    LET words == Words(name, Joined(lines), dir)
    IN  IF words.error # "" THEN [argv |-> <<>>, op |-> <<>>, redone |-> <<>>, error |-> words.error]
        ELSE Redirected(words.args, dir)
=============================================================================
