------------------------------ MODULE MCStream ------------------------------
(* Instances of Stream for TLC.                                               *)
EXTENDS Stream

Mode(op, plus, bin) == [op |-> op, plus |-> plus, bin |-> bin]

OneWay == {Mode("r", FALSE, b) : b \in BOOLEAN} \cup {Mode("w", FALSE, b) : b \in BOOLEAN}
              \cup {Mode("a", FALSE, TRUE)}
Update    == {Mode("r", TRUE, TRUE)}
Output    == {Mode("w", FALSE, TRUE)}
Appending == {Mode("a", FALSE, FALSE)}

Empty    == {<<>>}
Existing == {<<"x", "x">>}
Texts    == {<<>>, <<"CR", "LF", "x", "ETX">>, <<"x", "CR">>}

\* The theorems of StreamProofs are about instances like that of Stream_sound.
ASSUME InstanceIsOneWay  == Modes = OneWay /\ ~LateBreak => OneDirection
ASSUME InstanceHasWholes == InitFiles = Texts /\ ~Exact => WholeFiles

\* `call' is read by no guard.
MCView == <<s, may, put>>
=============================================================================
