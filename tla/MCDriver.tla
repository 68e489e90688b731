------------------------------ MODULE MCDriver ------------------------------
(* Instances of Driver for TLC: up to three files, and the options that decide *)
(* which commands are written.                                                *)
EXTENDS Driver

A == <<"A", "C">>
B == <<"B", "C">>
S == <<"S", "AS">>
Y == <<"Y", "SYM">>
O == <<"O", "OBJ">>

Opt(o)     == [opt |-> o, arg |-> <<>>]
With(o, a) == [opt |-> o, arg |-> a]
Named1(n)  == [opt |-> "file", arg |-> n]

Files(names) == [i \in 1..Len(names) |-> Named1(names[i])]
Many(o, n)   == [i \in 1..n |-> Opt(o)]

Settings == {<<>>, <<Opt("O")>>, <<With("O", <<"F">>), Opt("S")>>, <<Opt("S"), Opt("X")>>, <<Opt("C")>>,
             <<With("C", <<"R", "X">>), Opt("V")>>, <<Opt("A")>>, <<Opt("A"), With("C", <<"R">>)>>,
             <<With("E", <<"P", "COM">>), Opt("R"), Opt("P"), Opt("L")>>}

MCLines ==
    {s \o Files(f) : s \in Settings, f \in {<<A>>, <<A, B>>, <<A, O>>, <<S>>, <<S, A>>, <<O>>}}
    \* overlays: the order of -A and -Y and the files matters
    \cup {<<Opt("Y")>> \o Files(f) : f \in {<<A, O>>, <<Y, A>>, <<B, Y>>, <<Y>>}}
    \cup {<<Opt("Y"), Opt("A")>> \o Files(<<A>>), <<Opt("Y")>> \o Files(<<Y, A>>) \o <<Opt("A")>>}
    \* one command too long, of a pass or of the linker
    \cup {Many("I", 3) \o Files(<<A>>), Many("L", 2) \o <<Opt("V")>> \o Files(<<A, B>>)}
    \cup {<<>>, <<Opt("C")>>, <<Opt("H")>> \o Files(<<A>>), Files(<<A>>) \o <<Opt("unknown")>>}

\* The resident program's symbols; the last line has no name.
Table == {<<"__ovrbgn", "2F00">>, <<"_main", "0234">>, <<"junk">>}
Given == (A :> {A}) @@ (B :> {B}) @@ (S :> {S}) @@ (Y :> Table) @@ (O :> {O})
Old   == {<<"old">>}
\* What earlier builds left: programs, objects, temporary files.
Left  == {Obj(A), Obj(B), <<"A", "COM">>, tmpf1, tmpf2, tmpf5, l_dot_obj}
MCDisks == {Given, [f \in Left |-> Old] @@ Given,
            [f \in {Obj(A), Obj(B)} |-> Old] @@ Given}

\* The theorems about Driver are about command lines like these.
Settled(l) == FoldLeft(LAMBDA s, w : IF w.opt = "file" THEN Named(s, w.arg) ELSE Option(s, w.opt, w.arg), Setup, l)
AllOf(s) == FlattenSeq([i \in 1..Len(s.c_as) |-> Source(s, s.c_as[i])]) \o TailOf(s)
ASSUME LinesArePlain ==
    \A l \in MCLines :
        (\A i \in DOMAIN l : l[i].opt \notin {"H", "unknown"}) =>
            LET s == Settled(l)
            IN  /\ \A d \in MCDisks : Ordinary(s, d)
                /\ s.outfile # None => OneLong(AllOf([s EXCEPT !.iuds = @ + 1]))
=============================================================================
