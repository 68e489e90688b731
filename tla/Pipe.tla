-------------------------------- MODULE Pipe --------------------------------
(* What a pipe promises (PIPEMGR.md, "File sizes" and "Piping into a          *)
(* non-PIPEMGR program"): the bytes that a command receives are those that    *)
(* the one before it sent, in their order, and it is told of the end when     *)
(* there are no more.  A command that reads lines receives a line feed behind *)
(* a carriage return with it, as one end of a line.                           *)
EXTENDS Naturals, Sequences

CONSTANTS Byte, CR, LF

VARIABLES ByLines, \* does the command that runs read lines?  Its own affair
          sent,    \* by it
          prev,    \* by the one before
          taken,   \* how many bytes of prev are no longer in the pipe
          got,     \* what the command that runs received of them
          eof      \* has it been told of the end?

\* The first command may have been given a file to read.
Init == sent = <<>> /\ prev \in Seq(Byte) /\ taken = 0 /\ got = <<>> /\ eof = FALSE

Put == \E b \in Byte : sent' = Append(sent, b) /\ UNCHANGED <<prev, taken, got, eof>>

\* The bytes of prev behind the first `from' ones, one or several, or the end.
Receive(from) ==
    \E n \in from..Len(prev) :
        /\ taken' = n /\ got' = got \o SubSeq(prev, from + 1, n)
        /\ eof' \in {eof, n = Len(prev)} /\ (n > from \/ eof')
        /\ UNCHANGED <<sent, prev>>

Get == Receive(taken)

\* The second half of the end of a line goes unread.
Skip == /\ ByLines /\ taken > 0 /\ taken < Len(prev)
        /\ prev[taken] = CR /\ prev[taken + 1] = LF
        /\ Receive(taken + 1)

\* The command ends and the next one begins.
Pass == prev' = sent /\ sent' = <<>> /\ taken' = 0 /\ got' = <<>> /\ eof' = FALSE

Next == Put \/ Get \/ Skip \/ Pass

Spec == Init /\ [][Next]_<<sent, prev, taken, got, eof>>
=============================================================================
