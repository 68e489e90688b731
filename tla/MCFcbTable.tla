----------------------------- MODULE MCFcbTable -----------------------------
(***************************************************************************)
(* Small instances of FcbTable for TLC.                                    *)
(***************************************************************************)
EXTENDS FcbTable, TLC

CONSTANTS n1, n2

OneUser  == {0}
TwoUsers == {0, 1}
OneName  == {n1}
TwoNames == {n1, n2}
Console  == {U_CON}
NameSymmetry == Permutations(TwoNames)

\* The last result is read by no action: states that differ only in it count as
\* one.  The properties about results are action properties, which TLC checks on
\* every step, also on a step to a state it has seen.
WithoutLast == <<fcb, user, dir, held, length>>
=============================================================================
