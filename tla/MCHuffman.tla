----------------------------- MODULE MCHuffman -----------------------------
(* Instances of Huffman for TLC: bytes of three bits, the characters 1 to 4   *)
(* in names and files, and those that only the command line has above 7.      *)
EXTENDS Huffman

MCBlank == 8
MCGT == 9
MCLT == 10
MCSQ == 11
MCDQ == 12
MCStar == 13
MCQuery == 14
MCBackslash == 15
MCCont == 16
MCDash == 17
MCA == 18
MCB == 19
MCF == 20

Huf    == <<4>>               \* the archive
One    == <<1>>
Other  == <<1, 2>>            \* a name that begins with the other one
Absent == <<3>>

Flag(c) == <<MCDash, c>>

\* An item of a command line: what is typed, and the words it means.
Item(typedAs, words) == [text |-> typedAs, words |-> words]
Word(w)   == Item(w, <<Literal(w)>>)
Single(w) == Item(<<MCSQ>> \o w \o <<MCSQ>>, <<Literal(w)>>)
Half(w)   == Item(<<Head(w), MCDQ>> \o Tail(w) \o <<MCDQ>>, <<Literal(w)>>)

Line(items)  == FlattenSeq([i \in 1..Len(items) |-> IF i = 1 THEN items[i].text ELSE <<MCBlank>> \o items[i].text])
Meant(items) == FlattenSeq([i \in 1..Len(items) |-> items[i].words])
Typed(items) == [lines |-> <<Line(items)>>, words |-> Meant(items)]
\* The same on two lines.
Continued(items) ==
    [lines |-> <<Append(Line(<<Head(items)>>), MCBackslash), <<MCBlank>> \o Line(Tail(items))>>,
     words |-> Meant(items)]

Files == {Word(One), Word(Other), Word(Absent), Word(Flag(MCA)), Word(Flag(MCB)),
          Single(<<1, MCStar>>), Half(<<1, MCBlank, MCGT>>)}
Archives == {<<Word(Huf)>>, <<Word(Flag(MCA)), Word(Huf)>>}
            \cup {<<Word(Flag(MCF) \o <<n>>), Word(Huf)>> : n \in {1, 30}}
\* Wildcards: both files, the second one, and none.
Globs == {Item(<<1, MCStar>>, <<Glob({One, Other})>>), Item(<<1, MCQuery>>, <<Glob({One, Other})>>),
          Item(<<MCQuery, 2>>, <<Glob({Other})>>), Item(<<3, MCStar>>, <<Glob({})>>)}

\* Redirections.  A quoted word that begins with > or < is one too, with the word
\* behind it as its file, although getargs.c:23-24 says that quotes protect it.
Taken == {Item(<<MCGT>> \o Absent, <<>>), Item(<<MCGT, MCGT, MCBlank>> \o Absent, <<>>)}
         \cup {Item(<<MCSQ, s>> \o Absent \o <<MCSQ, MCBlank>> \o One, <<>>) : s \in {MCGT, MCLT}}

MCLines ==
    {Typed(a \o <<f>>) : a \in Archives, f \in Files}
    \cup {Typed(a \o <<f, g>>) : a \in Archives, f, g \in Files}
    \cup {Continued(<<Word(Huf), f, g>>) : f, g \in Files}
    \cup {Typed(<<Word(Huf), f, t, g>>) : f, g \in {Word(One), Word(Other)}, t \in Taken}
    \cup {Typed(<<t, Word(Huf), f>>) : f \in {Word(One), Word(Other)}, t \in Taken}
    \cup {Typed(a \o <<g>>) : a \in Archives, g \in Globs}
    \cup {Typed(<<Word(Huf), g, f>>) : f \in {Word(Other), Word(Flag(MCA))}, g \in Globs}
    \cup {Typed(<<Word(Huf), f, g>>) : f \in {Word(Other), Word(Flag(MCA))}, g \in Globs}
    \cup {Continued(<<Word(Huf), g>>) : g \in Globs}

Texts == {<<>>, <<1, 1, 2, 3>>, <<2, 6, 5, 1, 5>>, <<3, 4, 1, 1, 1, 7, 2>>, <<2, 2, 2, 2, 1, 1, 3, 4>>}
MCDisks == {(One :> c) : c \in Texts} \cup {(One :> c) @@ (Other :> d) : c, d \in Texts}
           \cup {(One :> <<2, 1>>) @@ (Huf :> <<3>>)}

MCAsked == {[names |-> n, extract |-> x] : n \in {{}, {One}, {Other}}, x \in BOOLEAN}
=============================================================================
