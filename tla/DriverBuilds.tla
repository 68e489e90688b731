---------------------------- MODULE DriverBuilds ----------------------------
(***************************************************************************)
(* What C's command file makes, whatever pass may fail: an outline of the  *)
(* file says what is known of the files before each of its commands.       *)
(***************************************************************************)
EXTENDS DriverProofs

\* What is made of what a program reads.
Effect(c, from) == IF c.prog = "SYMTOAS" THEN symtoas(from) ELSE from \cup c.adds

\* Facts are pairs of a file and what it was made from.
Holds(facts, d) == \A p \in facts : p[1] \in DOMAIN d /\ d[p[1]] = p[2]
\* The disk d where the inputs are as they were on the disk b.
Unspoilt(s, b, d) == \A f \in Inputs(s) : IF f \in DOMAIN b THEN f \in DOMAIN d /\ d[f] = b[f]
                                          ELSE f \notin DOMAIN d

\* On any such disk where the facts hold, the command makes v.
Yields(c, facts, v, s, b) ==
    \A d : Holds(facts, d) /\ Unspoilt(s, b, d) /\ Range(c.ins) \subseteq DOMAIN d
               => Effect(c, UNION {d[f] : f \in Range(c.ins)}) = v

\* What is known before a command: of the files while nothing has failed since
\* the last TRAP (sure), or at all (calm), and that nothing has (guarded).
Note(sure, calm, guarded) == [sure |-> sure, calm |-> calm, guarded |-> guarded]
Known(calm) == Note({}, calm, FALSE)

\* A program turns the facts x into y.
Turns(c, x, y, s, b) ==
    \A p \in y : IF p[1] \in Range(c.outs) THEN p[1] # crtmp /\ Yields(c, x, p[2], s, b) ELSE p \in x
Without(y, x, f) == \A p \in y : p \in x /\ p[1] # f

\* No program writes a file it may not, or anything but what is meant to be there.
Proper(c, note, s, b) ==
    /\ Range(c.outs) \cap Inputs(s) = {}
    /\ \A n \in Range(s.c_as) : n[2] # "SYM" /\ Obj(n) \in Range(c.outs) => Yields(c, note.sure, b[n], s, b)
    /\ Outfile(s) \in Range(c.outs) /\ ~s.reloc => note.guarded /\ Yields(c, note.calm, Wanted(s, b), s, b)

Leads(c, x, y, s, b) ==
    \/ /\ c.op = "EXEC" /\ Proper(c, x, s, b) /\ ~y.guarded
       /\ Turns(c, x.sure, y.sure, s, b) /\ Turns(c, x.calm, y.calm, s, b)
       /\ x.guarded => y.sure \subseteq x.sure
    \/ /\ c.op \in {"RM_FILE", "RM_EXIT"} /\ c.outs[1] \notin Inputs(s) /\ ~y.guarded
       /\ Without(y.sure, x.sure, c.outs[1]) /\ Without(y.calm, x.calm, c.outs[1])
    \/ c.op = "TRAP" /\ y.sure = {} /\ y.calm \subseteq x.calm /\ ~y.guarded
    \/ c.op = "IF_NERR" /\ y.sure \subseteq x.sure /\ y.calm \subseteq x.calm /\ y.guarded
    \/ c.op \in {"SKP_ERR", "ECHO", "PRINT"} /\ y.sure \subseteq x.sure /\ y.calm \subseteq x.calm /\ ~y.guarded

\* The notes F lead through the commands c.
Annotates(F, c, s, b) == \A i \in 1..Len(c) : Leads(c[i], F[i], F[i + 1], s, b)
Outline(c, x, y, s, b) ==
    IsSequence(c) /\ \E F : F[1] = x /\ F[Len(c) + 1] = y /\ Annotates(F, c, s, b)

LEMMA OutlineEmpty == ASSUME NEW x, NEW s, NEW b PROVE Outline(<<>>, x, x, s, b)
<1>1. PICK F : F = [i \in 1..1 |-> x]
  OBVIOUS
<1>2. F[1] = x /\ Len(<<>>) = 0 /\ IsSequence(<<>>)
  BY <1>1, EmptyIsSequence
<1>3. Annotates(F, <<>>, s, b)
  BY <1>2 DEF Annotates
<1>4. F[Len(<<>>) + 1] = x
  BY <1>2
<1>5. QED
  BY <1>2, <1>3, <1>4 DEF Outline

LEMMA OutlineOne ==
    ASSUME NEW c, NEW x, NEW y, NEW s, NEW b, Leads(c, x, y, s, b)
    PROVE  Outline(<<c>>, x, y, s, b)
<1>1. PICK F : F = [i \in 1..2 |-> IF i = 1 THEN x ELSE y]
  OBVIOUS
<1>2. F[1] = x /\ F[2] = y
  BY <1>1
<1>3. Len(<<c>>) = 1 /\ <<c>>[1] = c /\ IsSequence(<<c>>)
  BY OneIsSequence
<1>4. Annotates(F, <<c>>, s, b)
  <2>1. ASSUME NEW i \in 1..1 PROVE Leads(<<c>>[i], F[i], F[i + 1], s, b)
    <3>1. i = 1 /\ i + 1 = 2
      OBVIOUS
    <3>2. QED
      BY <1>2, <1>3, <3>1
  <2>2. QED
    BY <1>3, <2>1 DEF Annotates
<1>5. F[Len(<<c>>) + 1] = y
  BY <1>2, <1>3
<1>6. QED
  BY <1>2, <1>3, <1>4, <1>5 DEF Outline

LEMMA OutlineJoin ==
    ASSUME NEW p, NEW q, NEW x, NEW y, NEW z, NEW s, NEW b, Outline(p, x, y, s, b), Outline(q, y, z, s, b)
    PROVE  Outline(p \o q, x, z, s, b)
<1>1. PICK c : c = p \o q
  OBVIOUS
<1>2. IsSequence(p) /\ IsSequence(q)
  BY DEF Outline
<1>3. PICK F : F[1] = x /\ F[Len(p) + 1] = y /\ Annotates(F, p, s, b)
  BY DEF Outline
<1>4. PICK G : G[1] = y /\ G[Len(q) + 1] = z /\ Annotates(G, q, s, b)
  BY DEF Outline
<1>5. /\ IsSequence(c) /\ Len(p) \in Nat /\ Len(q) \in Nat /\ Len(c) = Len(p) + Len(q)
      /\ \A i \in 1..Len(p) : c[i] = p[i]
      /\ \A i \in 1..Len(q) : c[Len(p) + i] = q[i]
  BY <1>1, <1>2, Joined
<1>6. PICK H : H = [i \in 1..(Len(c) + 1) |-> IF i <= Len(p) THEN F[i] ELSE G[i - Len(p)]]
  OBVIOUS
<1>7. \A i \in 1..(Len(p) + 1) : H[i] = F[i]
  <2>1. TAKE i \in 1..(Len(p) + 1)
  <2>2. i \in 1..(Len(c) + 1)
    BY <1>5
  <2>3. CASE i <= Len(p)
    BY <1>6, <2>2, <2>3
  <2>4. CASE i = Len(p) + 1
    <3>1. H[i] = G[i - Len(p)] /\ i - Len(p) = 1
      BY <1>5, <1>6, <2>2, <2>4
    <3>2. QED
      BY <1>3, <1>4, <2>4, <3>1
  <2>5. QED
    BY <1>5, <2>3, <2>4
<1>8. \A i \in 1..(Len(q) + 1) : H[Len(p) + i] = G[i]
  <2>1. TAKE i \in 1..(Len(q) + 1)
  <2>2. Len(p) + i \in 1..(Len(c) + 1) /\ ~(Len(p) + i <= Len(p)) /\ (Len(p) + i) - Len(p) = i
    BY <1>5
  <2>3. QED
    BY <1>6, <2>2
<1>9. ASSUME NEW i \in 1..Len(c) PROVE Leads(c[i], H[i], H[i + 1], s, b)
  <2>1. CASE i \in 1..Len(p)
    <3>1. i \in 1..(Len(p) + 1) /\ i + 1 \in 1..(Len(p) + 1)
      BY <1>5, <2>1
    <3>2. H[i] = F[i] /\ H[i + 1] = F[i + 1] /\ c[i] = p[i]
      BY <1>5, <1>7, <2>1, <3>1
    <3>3. QED
      BY <1>3, <2>1, <3>2 DEF Annotates
  <2>2. CASE i > Len(p)
    <3>1. PICK j \in 1..Len(q) : i = Len(p) + j
      <4>1. i - Len(p) \in 1..Len(q) /\ i = Len(p) + (i - Len(p))
        BY <1>5, <2>2
      <4>2. QED
        BY <4>1
    <3>2. j \in 1..(Len(q) + 1) /\ j + 1 \in 1..(Len(q) + 1) /\ i + 1 = Len(p) + (j + 1)
      BY <1>5, <3>1
    <3>3. H[i] = G[j] /\ H[i + 1] = G[j + 1] /\ c[i] = q[j]
      BY <1>5, <1>8, <3>1, <3>2
    <3>4. QED
      BY <1>4, <3>3 DEF Annotates
  <2>3. QED
    BY <1>5, <2>1, <2>2
<1>10. H[1] = x
  <2>1. 1 \in 1..(Len(p) + 1)
    BY <1>5
  <2>2. QED
    BY <1>3, <1>7, <2>1
<1>11. H[Len(c) + 1] = z
  <2>1. Len(q) + 1 \in 1..(Len(q) + 1) /\ Len(c) + 1 = Len(p) + (Len(q) + 1)
    BY <1>5
  <2>2. QED
    BY <1>4, <1>8, <2>1
<1>12. Outline(c, x, z, s, b)
  BY <1>5, <1>9, <1>10, <1>11 DEF Outline, Annotates
<1>13. QED
  BY <1>1, <1>12


(***************************************************************************)
(* The outlines of the parts of the command file.                          *)
(***************************************************************************)
LEMMA OutlineQuiet ==
    ASSUME NEW op \in {"PRINT", "ECHO", "SKP_ERR"}, NEW x, ~x.guarded, NEW s, NEW b
    PROVE  Outline(put_cmd(op), x, x, s, b)
<1>1. PICK c : c = Command(op, "none", <<>>, <<>>, 0)
  OBVIOUS
<1>2. c.op = op /\ put_cmd(op) = <<c>>
  BY <1>1 DEF Command, put_cmd
<1>3. Leads(c, x, x, s, b)
  BY <1>2 DEF Leads
<1>4. QED
  BY <1>2, <1>3, OutlineOne

LEMMA OutlineTrap ==
    ASSUME NEW x, NEW calm, calm \subseteq x.calm, NEW s, NEW b
    PROVE  Outline(put_cmd("TRAP"), x, Known(calm), s, b)
<1>1. PICK c : c = Command("TRAP", "none", <<>>, <<>>, 0)
  OBVIOUS
<1>2. c.op = "TRAP" /\ put_cmd("TRAP") = <<c>>
  BY <1>1 DEF Command, put_cmd
<1>3. Leads(c, x, Known(calm), s, b)
  BY <1>2 DEF Leads, Known, Note
<1>4. QED
  BY <1>2, <1>3, OutlineOne

LEMMA OutlineGuard ==
    ASSUME NEW x, NEW s, NEW b
    PROVE  Outline(put_cmd("IF_NERR"), x, Note(x.sure, x.calm, TRUE), s, b)
<1>1. PICK c : c = Command("IF_NERR", "none", <<>>, <<>>, 0)
  OBVIOUS
<1>2. c.op = "IF_NERR" /\ put_cmd("IF_NERR") = <<c>>
  BY <1>1 DEF Command, put_cmd
<1>3. Leads(c, x, Note(x.sure, x.calm, TRUE), s, b)
  BY <1>2 DEF Leads, Note
<1>4. QED
  BY <1>2, <1>3, OutlineOne

LEMMA OutlineRm ==
    ASSUME NEW s, NEW b, NEW file, file \notin Inputs(s), NEW x, NEW y, ~x.guarded, ~y.guarded,
           Without(y.sure, x.sure, file), Without(y.calm, x.calm, file)
    PROVE  Outline(rm(s, file), x, y, s, b)
<1>1. PICK c, p : /\ rm(s, file) = p \o <<c>> /\ (p = <<>> \/ p = put_cmd("PRINT"))
                  /\ Removes(c, file)
  BY RmIs
<1>2. Outline(p, x, x, s, b)
  BY <1>1, OutlineQuiet, OutlineEmpty
<1>3. Leads(c, x, y, s, b)
  BY <1>1 DEF Leads, Removes
<1>4. Outline(<<c>>, x, y, s, b)
  BY <1>3, OutlineOne
<1>5. QED
  BY <1>1, <1>2, <1>4, OutlineJoin

LEMMA OutlineWritten ==
    ASSUME NEW s, NEW b, NEW c, NEW x, NEW y, c.op = "EXEC", Leads(c, x, y, s, b), ~y.guarded,
           redname \notin Inputs(s),
           \A p \in y.sure \cup y.calm : p[1] # redname
    PROVE  Outline(Written(s, c), x, y, s, b)
<1>1. Outline(<<c>>, x, y, s, b)
  BY OutlineOne
<1>2. Outline(rm(s, redname), y, y, s, b)
  <2>1. Without(y.sure, y.sure, redname) /\ Without(y.calm, y.calm, redname)
    BY DEF Without
  <2>2. QED
    BY <2>1, OutlineRm
<1>3. Outline(<<>>, y, y, s, b)
  BY OutlineEmpty
<1>4. PICK q : q = (IF IsLong(c) THEN rm(s, redname) ELSE <<>>)
  OBVIOUS
<1>5. Outline(q, y, y, s, b)
  BY <1>2, <1>3, <1>4
<1>6. Written(s, c) = <<c>> \o q
  BY <1>4 DEF Written
<1>7. QED
  BY <1>1, <1>5, <1>6, OutlineJoin

LEMMA OutlineShown ==
    ASSUME NEW s, NEW b, NEW x, ~x.guarded
    PROVE  Outline(shown(s), x, x, s, b)
<1>1. Outline(put_cmd("PRINT"), x, x, s, b) /\ Outline(<<>>, x, x, s, b)
  BY OutlineQuiet, OutlineEmpty
<1>2. QED
  BY <1>1 DEF shown, print

\* A file the properties are not about, but that a program may write.
Aside(s, f) == f \notin Inputs(s) /\ f \notin Objects(s) /\ f # Outfile(s)

\* What there is between the files of an ordinary command line.
LEMMA Apart ==
    ASSUME NEW s, NEW b, Ordinary(s, b)
    PROVE  /\ \A f \in WorkFiles : Aside(s, f)
           /\ \A f \in Listings(s) : Aside(s, f) /\ f \notin WorkFiles
           /\ \A f \in Objects(s) : f \notin Inputs(s) /\ f # Outfile(s) /\ f \notin WorkFiles
           /\ Outfile(s) \notin Inputs(s) /\ Outfile(s) \notin WorkFiles
           /\ Range(s.c_as) \subseteq Inputs(s)
           /\ Range(s.objs) \subseteq Inputs(s) \cup Objects(s)
           /\ \A m, n \in Range(s.c_as) : Obj(m) = Obj(n) => m = n
  BY DEF Ordinary, Results, Inputs, Aside


\* What is known of the objects made so far, and of one file besides.
Facts(M, b) == {<<Obj(n), Contents(b, n)>> : n \in M}
Hold(P, f, v) == Note({<<f, v>>}, P \cup {<<f, v>>}, FALSE)
\* The contents of a file are known.
Knows(s, b, facts, f, v) == (f \in Inputs(s) /\ v = b[f]) \/ <<f, v>> \in facts

LEMMA OneYields ==
    ASSUME NEW s, NEW b, NEW c, NEW g, Range(c.ins) = {g}, NEW facts, NEW v, Knows(s, b, facts, g, v),
           c.adds = {}
    PROVE  /\ c.prog # "SYMTOAS" => Yields(c, facts, v, s, b)
           /\ c.prog = "SYMTOAS" => Yields(c, facts, symtoas(v), s, b)
<1>1. ASSUME NEW d, Holds(facts, d), Unspoilt(s, b, d), Range(c.ins) \subseteq DOMAIN d
      PROVE  UNION {d[f] : f \in Range(c.ins)} = v
  <2>1. g \in DOMAIN d
    BY <1>1
  <2>2. d[g] = v
    <3>1. CASE g \in Inputs(s) /\ v = b[g]
      BY <1>1, <2>1, <3>1 DEF Unspoilt
    <3>2. CASE <<g, v>> \in facts
      <4>1. PICK p \in facts : p = <<g, v>>
        BY <3>2
      <4>2. p[1] = g /\ p[2] = v
        BY <4>1
      <4>3. QED
        BY <1>1, <4>2 DEF Holds
    <3>3. QED
      BY <3>1, <3>2 DEF Knows
  <2>3. UNION {d[f] : f \in {g}} = d[g]
    OBVIOUS
  <2>4. QED
    BY <2>2, <2>3
<1>2. c.prog # "SYMTOAS" => \A from : Effect(c, from) = from
  BY DEF Effect
<1>3. c.prog = "SYMTOAS" => \A from : Effect(c, from) = symtoas(from)
  BY DEF Effect
<1>4. QED
  BY <1>1, <1>2, <1>3 DEF Yields

\* A pass whose output the next one reads.
LEMMA PassLeads ==
    ASSUME NEW s, NEW b, NEW c, c.op = "EXEC", c.adds = {}, NEW g, Range(c.ins) = {g},
           NEW x, ~x.guarded, NEW P, P \subseteq x.calm, \A p \in P : p[1] \in Objects(s),
           NEW v, Knows(s, b, x.sure, g, v), Knows(s, b, x.calm, g, v),
           \A f \in Range(c.outs) : Aside(s, f), NEW t \in Range(c.outs), t # crtmp,
           NEW w, w = (IF c.prog = "SYMTOAS" THEN symtoas(v) ELSE v)
    PROVE  Leads(c, x, Hold(P, t, w), s, b)
<1>1. Yields(c, x.sure, w, s, b) /\ Yields(c, x.calm, w, s, b)
  BY OneYields
<1>2. \A f \in Range(c.outs) : f \notin Inputs(s) /\ f # Outfile(s) /\ f \notin Objects(s)
  BY DEF Aside
<1>3. Proper(c, x, s, b)
  <2>1. \A n \in Range(s.c_as) : Obj(n) \notin Range(c.outs)
    BY <1>2 DEF Objects
  <2>2. Range(c.outs) \cap Inputs(s) = {} /\ Outfile(s) \notin Range(c.outs)
    BY <1>2
  <2>3. QED
    BY <2>1, <2>2 DEF Proper
<1>4. PICK y : y = Hold(P, t, w)
  OBVIOUS
<1>5. y.sure = {<<t, w>>} /\ y.calm = P \cup {<<t, w>>} /\ ~y.guarded
  BY <1>4 DEF Hold, Note
<1>6. Turns(c, x.sure, y.sure, s, b)
  BY <1>1, <1>5 DEF Turns
<1>7. Turns(c, x.calm, y.calm, s, b)
  <2>1. \A p \in P : p \in x.calm /\ p[1] \notin Range(c.outs)
    BY <1>2
  <2>2. \A p \in y.calm : p \in P \/ p = <<t, w>>
    BY <1>5
  <2>3. QED
    BY <1>1, <2>1, <2>2 DEF Turns
<1>8. Leads(c, x, y, s, b)
  BY <1>3, <1>5, <1>6, <1>7 DEF Leads
<1>9. QED
  BY <1>4, <1>8

LEMMA OutlineExec ==
    ASSUME NEW s, NEW b, NEW prog, NEW ins, NEW outs, NEW words, NEW x, NEW y,
           \A c : c.op = "EXEC" /\ c.prog = prog /\ c.ins = ins /\ c.outs = outs /\ c.adds = {}
                     => Leads(c, x, y, s, b),
           ~y.guarded, redname \notin Inputs(s), \A p \in y.sure \cup y.calm : p[1] # redname
    PROVE  Outline(Exec(s, prog, ins, outs, words), x, y, s, b)
<1>1. PICK c : c = Command("EXEC", prog, ins, outs, words)
  OBVIOUS
<1>2. c.op = "EXEC" /\ c.prog = prog /\ c.ins = ins /\ c.outs = outs /\ c.adds = {}
  BY <1>1 DEF Command
<1>3. Leads(c, x, y, s, b)
  BY <1>2
<1>4. Outline(Written(s, c), x, y, s, b)
  BY <1>2, <1>3, OutlineWritten
<1>5. QED
  BY <1>1, <1>4 DEF Exec

LEMMA OutlinePass ==
    ASSUME NEW s, NEW b, Ordinary(s, b), NEW prog, NEW g, NEW outs, NEW words,
           NEW x, ~x.guarded, NEW P, P \subseteq x.calm, \A p \in P : p[1] \in Objects(s),
           NEW v, Knows(s, b, x.sure, g, v), Knows(s, b, x.calm, g, v),
           \A f \in Range(outs) : Aside(s, f), NEW t \in Range(outs), t # crtmp, t # redname,
           NEW w, w = (IF prog = "SYMTOAS" THEN symtoas(v) ELSE v)
    PROVE  Outline(Exec(s, prog, <<g>>, outs, words), x, Hold(P, t, w), s, b)
<1>1. PICK ins : ins = <<g>>
  OBVIOUS
<1>2. IsSequence(ins) /\ Range(ins) = {g}
  BY <1>1, OneIsSequence, OneRange
<1>3. PICK y : y = Hold(P, t, w)
  OBVIOUS
<1>4. ASSUME NEW c, c.op = "EXEC", c.prog = prog, c.ins = ins, c.outs = outs, c.adds = {}
      PROVE  Leads(c, x, y, s, b)
  <2>1. Leads(c, x, Hold(P, t, w), s, b)
    BY <1>2, <1>4, PassLeads
  <2>2. QED
    BY <1>3, <2>1
<1>5. y.sure = {<<t, w>>} /\ y.calm = P \cup {<<t, w>>} /\ ~y.guarded
  BY <1>3 DEF Hold, Note
<1>6. redname \in WorkFiles
  BY DEF WorkFiles
<1>7. redname \notin Inputs(s) /\ redname \notin Objects(s)
  BY <1>6, Apart DEF Aside
<1>8. \A p \in y.sure \cup y.calm : p[1] # redname
  BY <1>5, <1>7
<1>9. Outline(Exec(s, prog, ins, outs, words), x, y, s, b)
  BY <1>2, <1>4, <1>5, <1>7, <1>8, OutlineExec
<1>10. QED
  BY <1>1, <1>3, <1>9


LEMMA FactIs ==
    ASSUME NEW M, NEW b, NEW p \in Facts(M, b)
    PROVE  \E n \in M : p[1] = Obj(n) /\ p[2] = Contents(b, n) /\ p = <<Obj(n), Contents(b, n)>>
<1>1. PICK n \in M : p = <<Obj(n), Contents(b, n)>>
  BY DEF Facts
<1>2. QED
  BY <1>1

LEMMA FactsKept ==
    ASSUME NEW s, NEW M, M \subseteq Range(s.c_as), NEW b
    PROVE  \A p \in Facts(M, b) : p[1] \in Objects(s)
  BY FactIs DEF Objects

\* The assembler makes an object of its source, or of what its source was made into.
LEMMA ZasLeads ==
    ASSUME NEW s, NEW b, Ordinary(s, b), NEW name, name \in Range(s.c_as), NEW M, M \subseteq Range(s.c_as),
           NEW c, c.op = "EXEC", c.prog # "SYMTOAS", c.adds = {}, NEW g, Range(c.ins) = {g},
           Range(c.outs) = {Obj(name)}, NEW x, Facts(M, b) \subseteq x.calm,
           Knows(s, b, x.calm, g, Contents(b, name)),
           name[2] # "SYM" => Knows(s, b, x.sure, g, b[name])
    PROVE  Leads(c, x, Known(Facts(M \cup {name}, b)), s, b)
<1>1. /\ Obj(name) \notin Inputs(s) /\ Obj(name) # Outfile(s) /\ Obj(name) \notin WorkFiles
      /\ \A m, n \in Range(s.c_as) : Obj(m) = Obj(n) => m = n
  BY Apart DEF Objects
<1>2. Yields(c, x.calm, Contents(b, name), s, b)
  BY OneYields
<1>3. name[2] # "SYM" => Yields(c, x.sure, b[name], s, b)
  BY OneYields
<1>4. Proper(c, x, s, b)
  BY <1>1, <1>3 DEF Proper
<1>5. PICK y : y = Known(Facts(M \cup {name}, b))
  OBVIOUS
<1>6. y.sure = {} /\ y.calm = Facts(M \cup {name}, b) /\ ~y.guarded
  BY <1>5 DEF Known, Note
<1>7. Turns(c, x.sure, y.sure, s, b)
  BY <1>6 DEF Turns
<1>8. ASSUME NEW p \in y.calm
      PROVE  IF p[1] \in Range(c.outs) THEN p[1] # crtmp /\ Yields(c, x.calm, p[2], s, b) ELSE p \in x.calm
  <2>1. PICK n \in M \cup {name} : p[1] = Obj(n) /\ p[2] = Contents(b, n) /\ p = <<Obj(n), Contents(b, n)>>
    BY <1>6, FactIs
  <2>2. CASE p[1] = Obj(name)
    <3>1. n = name
      BY <1>1, <2>1, <2>2
    <3>2. crtmp \in WorkFiles
      BY DEF WorkFiles
    <3>3. QED
      BY <1>1, <1>2, <2>1, <3>1, <3>2
  <2>3. CASE p[1] # Obj(name)
    <3>1. n \in M
      BY <2>1, <2>3
    <3>2. p \in Facts(M, b)
      BY <2>1, <3>1 DEF Facts
    <3>3. QED
      BY <2>3, <3>2
  <2>4. QED
    BY <2>2, <2>3
<1>9. Leads(c, x, y, s, b)
  BY <1>4, <1>6, <1>7, <1>8 DEF Leads, Turns
<1>10. QED
  BY <1>5, <1>9

LEMMA OutlineZas ==
    ASSUME NEW s, NEW b, Ordinary(s, b), NEW name, name \in Range(s.c_as), NEW M, M \subseteq Range(s.c_as),
           NEW g, NEW x, Facts(M, b) \subseteq x.calm,
           Knows(s, b, x.calm, g, Contents(b, name)),
           name[2] # "SYM" => Knows(s, b, x.sure, g, b[name])
    PROVE  Outline(ZAS(s, g, name), x, Known(Facts(M \cup {name}, b)), s, b)
<1>1. PICK ins : ins = <<g>>
  OBVIOUS
<1>2. PICK outs : outs = <<Obj(name)>>
  OBVIOUS
<1>3. Range(ins) = {g} /\ Range(outs) = {Obj(name)}
  BY <1>1, <1>2, OneRange
<1>4. PICK y : y = Known(Facts(M \cup {name}, b))
  OBVIOUS
<1>5. ASSUME NEW c, c.op = "EXEC", c.prog = "ZAS", c.ins = ins, c.outs = outs, c.adds = {}
      PROVE  Leads(c, x, y, s, b)
  <2>1. Leads(c, x, Known(Facts(M \cup {name}, b)), s, b)
    BY <1>3, <1>5, ZasLeads
  <2>2. QED
    BY <1>4, <2>1
<1>6. y.sure = {} /\ y.calm = Facts(M \cup {name}, b) /\ ~y.guarded
  BY <1>4 DEF Known, Note
<1>7. redname \in WorkFiles
  BY DEF WorkFiles
<1>8. redname \notin Inputs(s) /\ redname \notin Objects(s)
  BY <1>7, Apart DEF Aside
<1>9. \A p \in y.sure \cup y.calm : p[1] # redname
  <2>1. M \cup {name} \subseteq Range(s.c_as)
    OBVIOUS
  <2>2. QED
    BY <1>6, <1>8, <2>1, FactsKept
<1>10. \A words : Outline(Exec(s, "ZAS", ins, outs, words), x, y, s, b)
  <2>1. TAKE words
  <2>2. QED
    BY <1>5, <1>6, <1>8, <1>9, OutlineExec
<1>11. QED
  BY <1>1, <1>2, <1>4, <1>10 DEF ZAS

LEMMA AssembleOutline ==
    ASSUME NEW s, NEW b, Ordinary(s, b), NEW name, name \in Range(s.c_as), name[2] # "SYM",
           NEW M, M \subseteq Range(s.c_as)
    PROVE  Outline(assemble(s, name), Known(Facts(M, b)), Known(Facts(M \cup {name}, b)), s, b)
<1>1. PICK x : x = Known(Facts(M, b))
  OBVIOUS
<1>2. x.sure = {} /\ x.calm = Facts(M, b) /\ ~x.guarded
  BY <1>1 DEF Known, Note
<1>3. name \in Inputs(s) /\ Contents(b, name) = b[name]
  BY DEF Inputs, Contents
<1>4. Outline(ZAS(s, name, name), x, Known(Facts(M \cup {name}, b)), s, b)
  <2>1. Knows(s, b, x.calm, name, Contents(b, name)) /\ Knows(s, b, x.sure, name, b[name])
    BY <1>3 DEF Knows
  <2>2. Facts(M, b) \subseteq x.calm
    BY <1>2
  <2>3. QED
    BY <2>1, <2>2, OutlineZas
<1>5. Outline(shown(s), x, x, s, b)
  BY <1>2, OutlineShown
<1>6. QED
  BY <1>1, <1>4, <1>5, OutlineJoin DEF assemble

LEMMA SymOutline ==
    ASSUME NEW s, NEW b, Ordinary(s, b), NEW name, name \in Range(s.c_as), name[2] = "SYM",
           NEW M, M \subseteq Range(s.c_as)
    PROVE  Outline(assemble_sym(s, name), Known(Facts(M, b)), Known(Facts(M \cup {name}, b)), s, b)
<1>1. PICK P : P = Facts(M, b)
  OBVIOUS
<1>2. PICK x : x = Known(P)
  OBVIOUS
<1>3. x.sure = {} /\ x.calm = P /\ ~x.guarded
  BY <1>2 DEF Known, Note
<1>4. name \in Inputs(s) /\ Contents(b, name) = symtoas(b[name])
  BY DEF Inputs, Contents
<1>5. s.overlay
  BY DEF Ordinary, Tables
<1>6. tmpf5 \in WorkFiles /\ tmpf5 # crtmp /\ tmpf5 # redname
  BY DEF WorkFiles, tmpf5, crtmp, redname
<1>7. PICK w : w = symtoas(b[name])
  OBVIOUS
<1>8. PICK y : y = Hold(P, tmpf5, w)
  OBVIOUS
<1>9. PICK outs : outs = <<tmpf5>>
  OBVIOUS
<1>10. Outline(Exec(s, "SYMTOAS", <<name>>, outs, 2), x, y, s, b)
  <2>1. \A p \in P : p[1] \in Objects(s)
    BY <1>1, FactsKept
  <2>2. Knows(s, b, x.sure, name, b[name]) /\ Knows(s, b, x.calm, name, b[name])
    BY <1>4 DEF Knows
  <2>3. Range(outs) = {tmpf5}
    BY <1>9, OneRange
  <2>4. Aside(s, tmpf5)
    BY <1>6, Apart
  <2>5. \A f \in Range(outs) : Aside(s, f)
    BY <2>3, <2>4
  <2>6. tmpf5 \in Range(outs)
    BY <2>3
  <2>7. P \subseteq x.calm
    BY <1>3
  <2>8. PICK prog : prog = "SYMTOAS"
    OBVIOUS
  <2>9. w = (IF prog = "SYMTOAS" THEN symtoas(b[name]) ELSE b[name])
    BY <1>7, <2>8
  <2>10. Outline(Exec(s, prog, <<name>>, outs, 2), x, Hold(P, tmpf5, w), s, b)
    BY <1>3, <1>6, <2>1, <2>2, <2>5, <2>6, <2>7, <2>9, OutlinePass
  <2>11. QED
    BY <1>8, <2>8, <2>10
<1>11. PICK q : q = P \cup {<<tmpf5, w>>}
  OBVIOUS
<1>12. PICK z : z = Known(q)
  OBVIOUS
<1>13. Outline(put_cmd("TRAP"), y, z, s, b)
  <2>1. q \subseteq y.calm
    BY <1>8, <1>11 DEF Hold, Note
  <2>2. Outline(put_cmd("TRAP"), y, Known(q), s, b)
    BY <2>1, OutlineTrap
  <2>3. QED
    BY <1>12, <2>2
<1>14. z.sure = {} /\ z.calm = q /\ ~z.guarded
  BY <1>12 DEF Known, Note
<1>15. Outline(shown(s), z, z, s, b)
  BY <1>14, OutlineShown
<1>16. Outline(ZAS(s, tmpf5, name), z, Known(Facts(M \cup {name}, b)), s, b)
  <2>1. Knows(s, b, z.calm, tmpf5, Contents(b, name))
    BY <1>4, <1>7, <1>11, <1>14 DEF Knows
  <2>2. Facts(M, b) \subseteq z.calm
    BY <1>1, <1>11, <1>14
  <2>3. QED
    BY <2>1, <2>2, OutlineZas
<1>17. PICK e : e = Exec(s, "SYMTOAS", <<name>>, outs, 2)
  OBVIOUS
<1>18. assemble_sym(s, name) = (e \o put_cmd("TRAP")) \o shown(s) \o ZAS(s, tmpf5, name)
  BY <1>5, <1>9, <1>17 DEF assemble_sym
<1>19. Outline(e \o put_cmd("TRAP"), x, z, s, b)
  BY <1>10, <1>13, <1>17, OutlineJoin
<1>20. Outline((e \o put_cmd("TRAP")) \o shown(s), x, z, s, b)
  BY <1>15, <1>19, OutlineJoin
<1>21. QED
  BY <1>1, <1>2, <1>16, <1>18, <1>20, OutlineJoin


\* The next pass reads what the last one wrote.
LEMMA NextPass ==
    ASSUME NEW s, NEW b, Ordinary(s, b), NEW prog, prog # "SYMTOAS", NEW g, NEW outs, NEW words,
           NEW P, \A p \in P : p[1] \in Objects(s), NEW v,
           \A f \in Range(outs) : Aside(s, f), NEW t \in Range(outs), t # crtmp, t # redname
    PROVE  Outline(Exec(s, prog, <<g>>, outs, words), Hold(P, g, v), Hold(P, t, v), s, b)
<1>1. PICK x : x = Hold(P, g, v)
  OBVIOUS
<1>2. x.sure = {<<g, v>>} /\ x.calm = P \cup {<<g, v>>} /\ ~x.guarded
  BY <1>1 DEF Hold, Note
<1>3. Knows(s, b, x.sure, g, v) /\ Knows(s, b, x.calm, g, v) /\ P \subseteq x.calm
  BY <1>2 DEF Knows
<1>4. v = (IF prog = "SYMTOAS" THEN symtoas(v) ELSE v)
  OBVIOUS
<1>5. Outline(Exec(s, prog, <<g>>, outs, words), x, Hold(P, t, v), s, b)
  BY <1>2, <1>3, <1>4, OutlinePass
<1>6. QED
  BY <1>1, <1>5

LEMMA RangeJoined ==
    ASSUME NEW p, NEW q, IsSequence(p), IsSequence(q)
    PROVE  Range(p) \subseteq Range(p \o q) /\ Range(p \o q) \subseteq Range(p) \cup Range(q)
<1>1. PICK c : c = p \o q
  OBVIOUS
<1>2. /\ IsSequence(c) /\ Len(p) \in Nat /\ Len(q) \in Nat /\ Len(c) = Len(p) + Len(q)
      /\ \A i \in 1..Len(p) : c[i] = p[i]
      /\ \A i \in 1..Len(q) : c[Len(p) + i] = q[i]
  BY <1>1, Joined
<1>3. DOMAIN c = 1..Len(c) /\ DOMAIN p = 1..Len(p) /\ DOMAIN q = 1..Len(q)
  BY <1>2, SequenceIs
<1>4. \A i \in DOMAIN p : i \in DOMAIN c /\ c[i] = p[i]
  BY <1>2, <1>3
<1>5. ASSUME NEW i \in DOMAIN c PROVE c[i] \in Range(p) \cup Range(q)
  <2>1. CASE i <= Len(p)
    <3>1. i \in DOMAIN p
      BY <1>2, <1>3, <2>1
    <3>2. QED
      BY <1>4, <3>1 DEF Range
  <2>2. CASE i > Len(p)
    <3>1. PICK j \in 1..Len(q) : i = Len(p) + j
      <4>1. i - Len(p) \in 1..Len(q) /\ i = Len(p) + (i - Len(p))
        BY <1>2, <1>3, <2>2
      <4>2. QED
        BY <4>1
    <3>2. c[i] = q[j] /\ j \in DOMAIN q
      BY <1>2, <1>3, <3>1
    <3>3. QED
      BY <3>2 DEF Range
  <2>3. QED
    BY <1>2, <1>3, <2>1, <2>2
<1>6. QED
  BY <1>1, <1>4, <1>5 DEF Range

\* What a source leaves known: its object, but with -S, which keeps the assembler's input.
Done(s, M, name) == IF s.keepas /\ name[2] = "C" THEN M ELSE M \cup {name}

LEMMA CompileOutline ==
    ASSUME NEW s, NEW b, Ordinary(s, b), NEW name, name \in Range(s.c_as), name[2] = "C",
           NEW M, M \subseteq Range(s.c_as)
    PROVE  \E y : Facts(Done(s, M, name), b) \subseteq y.calm
                  /\ Outline(compile(s, name), Known(Facts(M, b)), y, s, b)
<1>1. PICK P, v, as : P = Facts(M, b) /\ v = b[name] /\ as = <<name[1], "AS">>
  OBVIOUS
<1>2. \A p \in P : p[1] \in Objects(s)
  BY <1>1, FactsKept
<1>3. name \in Inputs(s) /\ Contents(b, name) = v
  BY <1>1 DEF Inputs, Contents
<1>4. /\ Aside(s, tmpf1) /\ Aside(s, tmpf2) /\ Aside(s, tmpf3) /\ Aside(s, crtmp)
      /\ tmpf1 # crtmp /\ tmpf1 # redname /\ tmpf2 # crtmp /\ tmpf2 # redname
  <2>1. /\ tmpf1 \in WorkFiles /\ tmpf2 \in WorkFiles /\ tmpf3 \in WorkFiles /\ crtmp \in WorkFiles
    BY DEF WorkFiles
  <2>2. tmpf1 # crtmp /\ tmpf1 # redname /\ tmpf2 # crtmp /\ tmpf2 # redname
    BY DEF tmpf1, tmpf2, crtmp, redname
  <2>3. QED
    BY <2>1, <2>2, Apart
<1>5. s.keepas => Aside(s, as) /\ as # crtmp /\ as # redname
  <2>1. s.keepas => as \in Listings(s)
    BY <1>1 DEF Listings
  <2>2. crtmp \in WorkFiles /\ redname \in WorkFiles
    BY DEF WorkFiles
  <2>3. QED
    BY <2>1, <2>2, Apart
<1>6. PICK x0, x1, x2 : x0 = Known(P) /\ x1 = Hold(P, tmpf1, v) /\ x2 = Hold(P, tmpf2, v)
  OBVIOUS
<1>7. x0.sure = {} /\ x0.calm = P /\ ~x0.guarded
  BY <1>6 DEF Known, Note
<1>8. Outline(shown(s), x0, x0, s, b)
  BY <1>7, OutlineShown
<1>9. \A words : Outline(Exec(s, "CPP", <<name>>, <<tmpf1>>, words), x0, x1, s, b)
  <2>1. TAKE words
  <2>2. PICK prog, outs : prog = "CPP" /\ outs = <<tmpf1>>
    OBVIOUS
  <2>3. Range(outs) = {tmpf1}
    BY <2>2, OneRange
  <2>4. (\A f \in Range(outs) : Aside(s, f)) /\ tmpf1 \in Range(outs)
    BY <1>4, <2>3
  <2>5. Knows(s, b, x0.sure, name, v) /\ Knows(s, b, x0.calm, name, v) /\ P \subseteq x0.calm
    BY <1>1, <1>3, <1>7 DEF Knows
  <2>6. v = (IF prog = "SYMTOAS" THEN symtoas(v) ELSE v)
    BY <2>2
  <2>7. Outline(Exec(s, prog, <<name>>, outs, words), x0, Hold(P, tmpf1, v), s, b)
    BY <1>2, <1>4, <1>7, <2>4, <2>5, <2>6, OutlinePass
  <2>8. QED
    BY <1>6, <2>2, <2>7
<1>10. PICK xr : xr = (IF s.xref THEN <<crtmp>> ELSE <<>>)
  OBVIOUS
<1>11. \A words : Outline(Exec(s, "P1", <<tmpf1>>, <<tmpf2, tmpf3>> \o xr, words), x1, x2, s, b)
  <2>1. TAKE words
  <2>2. PICK prog, two : prog = "P1" /\ two = <<tmpf2, tmpf3>>
    OBVIOUS
  <2>3. Range(two) = {tmpf2, tmpf3} /\ IsSequence(two)
    <3>1. DOMAIN two = 1..2 /\ two[1] = tmpf2 /\ two[2] = tmpf3 /\ two \in Seq({tmpf2, tmpf3})
      BY <2>2
    <3>2. \A i : i \in 1..2 <=> i = 1 \/ i = 2
      OBVIOUS
    <3>3. QED
      BY <3>1, <3>2 DEF Range, IsSequence
  <2>4. Range(xr) \subseteq {crtmp} /\ IsSequence(xr)
    <3>1. Range(<<crtmp>>) = {crtmp} /\ IsSequence(<<crtmp>>) /\ IsSequence(<<>>) /\ Range(<<>>) = {}
      BY OneRange, OneIsSequence, EmptyIsSequence DEF Range
    <3>2. QED
      BY <1>10, <3>1
  <2>5. PICK outs : outs = two \o xr
    OBVIOUS
  <2>6. {tmpf2, tmpf3} \subseteq Range(outs) /\ Range(outs) \subseteq {tmpf2, tmpf3, crtmp}
    BY <2>3, <2>4, <2>5, RangeJoined
  <2>7. (\A f \in Range(outs) : Aside(s, f)) /\ tmpf2 \in Range(outs)
    BY <1>4, <2>6
  <2>8. prog # "SYMTOAS"
    BY <2>2
  <2>9. Outline(Exec(s, prog, <<tmpf1>>, outs, words), Hold(P, tmpf1, v), Hold(P, tmpf2, v), s, b)
    BY <1>2, <1>4, <2>7, <2>8, NextPass
  <2>10. QED
    BY <1>6, <2>2, <2>5, <2>9
<1>12. ASSUME NEW prog \in {"CGEN", "OPTIM"}, NEW g, NEW t, Aside(s, t), t # crtmp, t # redname, NEW words
       PROVE  Outline(Exec(s, prog, <<g>>, <<t>>, words), Hold(P, g, v), Hold(P, t, v), s, b)
  <2>1. PICK outs : outs = <<t>>
    OBVIOUS
  <2>2. Range(outs) = {t}
    BY <2>1, OneRange
  <2>3. (\A f \in Range(outs) : Aside(s, f)) /\ t \in Range(outs)
    BY <1>12, <2>2
  <2>4. prog # "SYMTOAS"
    OBVIOUS
  <2>5. Outline(Exec(s, prog, <<g>>, outs, words), Hold(P, g, v), Hold(P, t, v), s, b)
    BY <1>2, <1>12, <2>3, <2>4, NextPass
  <2>6. QED
    BY <2>1, <2>5
<1>13. PICK t1 : t1 = (IF s.keepas /\ ~s.optimize THEN as ELSE tmpf1)
  OBVIOUS
<1>14. PICK t2 : t2 = (IF ~s.optimize THEN t1 ELSE IF s.keepas THEN as ELSE tmpf2)
  OBVIOUS
<1>15. PICK c1, c2, c3, c4, c5 :
         /\ c1 = Exec(s, "CPP", <<name>>, <<tmpf1>>, s.iuds + 2)
         /\ c2 = Exec(s, "P1", <<tmpf1>>, <<tmpf2, tmpf3>> \o xr, 3 + Len(xr))
         /\ c3 = Exec(s, "CGEN", <<tmpf2>>, <<t1>>, 2)
         /\ c4 = (IF ~s.optimize THEN <<>> ELSE Exec(s, "OPTIM", <<tmpf1>>, <<IF s.keepas THEN as ELSE tmpf2>>, 2))
         /\ c5 = (IF s.keepas THEN <<>> ELSE ZAS(s, IF s.optimize THEN tmpf2 ELSE tmpf1, name))
  OBVIOUS
<1>16. compile(s, name) = shown(s) \o c1 \o c2 \o c3 \o c4 \o c5
  BY <1>1, <1>10, <1>13, <1>15 DEF compile
<1>17. Outline(c3, x2, Hold(P, t1, v), s, b)
  <2>1. Aside(s, t1) /\ t1 # crtmp /\ t1 # redname
    BY <1>4, <1>5, <1>13
  <2>2. QED
    BY <1>6, <1>12, <1>15, <2>1
<1>18. Outline(c4, Hold(P, t1, v), Hold(P, t2, v), s, b)
  <2>1. CASE s.optimize
    <3>1. t1 = tmpf1 /\ t2 = (IF s.keepas THEN as ELSE tmpf2)
      BY <1>13, <1>14, <2>1
    <3>2. Aside(s, t2) /\ t2 # crtmp /\ t2 # redname
      BY <1>4, <1>5, <3>1
    <3>3. c4 = Exec(s, "OPTIM", <<t1>>, <<t2>>, 2)
      BY <1>15, <2>1, <3>1
    <3>4. QED
      BY <1>12, <3>2, <3>3
  <2>2. CASE ~s.optimize
    <3>1. t1 = t2 /\ c4 = <<>>
      BY <1>14, <1>15, <2>2
    <3>2. QED
      BY <3>1, OutlineEmpty
  <2>3. QED
    BY <2>1, <2>2
<1>19. \E y : Facts(Done(s, M, name), b) \subseteq y.calm /\ Outline(c5, Hold(P, t2, v), y, s, b)
  <2>1. PICK z : z = Hold(P, t2, v)
    OBVIOUS
  <2>2. z.sure = {<<t2, v>>} /\ z.calm = P \cup {<<t2, v>>} /\ ~z.guarded
    BY <2>1 DEF Hold, Note
  <2>3. CASE s.keepas
    <3>1. Done(s, M, name) = M /\ c5 = <<>>
      BY <1>15, <2>3 DEF Done
    <3>2. Facts(M, b) \subseteq z.calm /\ Outline(c5, z, z, s, b)
      BY <1>1, <2>2, <3>1, OutlineEmpty
    <3>3. QED
      BY <2>1, <3>1, <3>2
  <2>4. CASE ~s.keepas
    <3>1. Done(s, M, name) = M \cup {name} /\ c5 = ZAS(s, t2, name)
      BY <1>13, <1>14, <1>15, <2>4 DEF Done
    <3>2. PICK y : y = Known(Facts(M \cup {name}, b))
      OBVIOUS
    <3>3. Outline(ZAS(s, t2, name), z, y, s, b)
      <4>1. Facts(M, b) \subseteq z.calm
        BY <1>1, <2>2
      <4>2. Knows(s, b, z.calm, t2, Contents(b, name)) /\ Knows(s, b, z.sure, t2, b[name])
        BY <1>1, <1>3, <2>2 DEF Knows
      <4>3. Outline(ZAS(s, t2, name), z, Known(Facts(M \cup {name}, b)), s, b)
        BY <4>1, <4>2, OutlineZas
      <4>4. QED
        BY <3>2, <4>3
    <3>4. Facts(M \cup {name}, b) \subseteq y.calm
      BY <3>2 DEF Known, Note
    <3>5. QED
      BY <2>1, <3>1, <3>3, <3>4
  <2>5. QED
    BY <2>3, <2>4
<1>20. PICK y : Facts(Done(s, M, name), b) \subseteq y.calm /\ Outline(c5, Hold(P, t2, v), y, s, b)
  BY <1>19
<1>21. Outline(c1, x0, x1, s, b) /\ Outline(c2, x1, x2, s, b)
  BY <1>9, <1>11, <1>15
<1>22. Outline(shown(s) \o c1, x0, x1, s, b)
  BY <1>8, <1>21, OutlineJoin
<1>23. Outline(shown(s) \o c1 \o c2, x0, x2, s, b)
  BY <1>21, <1>22, OutlineJoin
<1>24. Outline(shown(s) \o c1 \o c2 \o c3, x0, Hold(P, t1, v), s, b)
  BY <1>17, <1>23, OutlineJoin
<1>25. Outline(shown(s) \o c1 \o c2 \o c3 \o c4, x0, Hold(P, t2, v), s, b)
  BY <1>18, <1>24, OutlineJoin
<1>26. Outline(shown(s) \o c1 \o c2 \o c3 \o c4 \o c5, x0, y, s, b)
  BY <1>20, <1>25, OutlineJoin
<1>27. QED
  BY <1>1, <1>6, <1>16, <1>20, <1>26


LEMMA SourceOutline ==
    ASSUME NEW s, NEW b, Ordinary(s, b), NEW name, name \in Range(s.c_as), IsSource(name),
           NEW M, M \subseteq Range(s.c_as)
    PROVE  Outline(Source(s, name), Known(Facts(M, b)), Known(Facts(Done(s, M, name), b)), s, b)
<1>1. PICK C : C = Facts(Done(s, M, name), b)
  OBVIOUS
<1>2. PICK q : q = Passes(s, name)
  OBVIOUS
<1>3. \E y : C \subseteq y.calm /\ Outline(q, Known(Facts(M, b)), y, s, b)
  <2>1. Facts(M \cup {name}, b) \subseteq Known(Facts(M \cup {name}, b)).calm
    BY DEF Known, Note
  <2>2. name[2] # "C" => Done(s, M, name) = M \cup {name}
    BY DEF Done
  <2>3. CASE name[2] = "C"
    <3>1. q = compile(s, name)
      BY <1>2, <2>3 DEF Passes
    <3>2. \E y : Facts(Done(s, M, name), b) \subseteq y.calm
                 /\ Outline(compile(s, name), Known(Facts(M, b)), y, s, b)
      BY <2>3, CompileOutline
    <3>3. QED
      BY <1>1, <3>1, <3>2
  <2>4. CASE name[2] = "AS"
    <3>1. q = assemble(s, name)
      BY <1>2, <2>4 DEF Passes
    <3>2. Outline(assemble(s, name), Known(Facts(M, b)), Known(Facts(M \cup {name}, b)), s, b)
      BY <2>4, AssembleOutline
    <3>3. name[2] # "C"
      BY <2>4
    <3>4. QED
      BY <1>1, <2>1, <2>2, <3>1, <3>2, <3>3
  <2>5. CASE name[2] = "SYM"
    <3>1. q = assemble_sym(s, name)
      BY <1>2, <2>5 DEF Passes
    <3>2. Outline(assemble_sym(s, name), Known(Facts(M, b)), Known(Facts(M \cup {name}, b)), s, b)
      BY <2>5, SymOutline
    <3>3. name[2] # "C"
      BY <2>5
    <3>4. QED
      BY <1>1, <2>1, <2>2, <3>1, <3>2, <3>3
  <2>6. QED
    BY <2>3, <2>4, <2>5 DEF IsSource
<1>4. PICK y : C \subseteq y.calm /\ Outline(q, Known(Facts(M, b)), y, s, b)
  BY <1>3
<1>5. Outline(put_cmd("TRAP"), y, Known(C), s, b)
  BY <1>4, OutlineTrap
<1>6. Outline(q \o put_cmd("TRAP"), Known(Facts(M, b)), Known(C), s, b)
  BY <1>4, <1>5, OutlineJoin
<1>7. QED
  BY <1>1, <1>2, <1>6 DEF Source

\* The removal of a file of which nothing is known.
LEMMA OutlineDrop ==
    ASSUME NEW s, NEW b, NEW file, file \notin Inputs(s), NEW C, \A p \in C : p[1] # file
    PROVE  Outline(rm(s, file), Known(C), Known(C), s, b)
<1>1. PICK x : x = Known(C)
  OBVIOUS
<1>2. x.sure = {} /\ x.calm = C /\ ~x.guarded
  BY <1>1 DEF Known, Note
<1>3. Without(x.sure, x.sure, file) /\ Without(x.calm, x.calm, file)
  BY <1>2 DEF Without
<1>4. Outline(rm(s, file), x, x, s, b)
  BY <1>2, <1>3, OutlineRm
<1>5. QED
  BY <1>1, <1>4

\* Facts about what is made for the user.
Lasting(s, C) == \A p \in C : p[1] \in Objects(s) \/ p[1] = Outfile(s)

LEMMA TempsOutline ==
    ASSUME NEW s, NEW b, Ordinary(s, b), NEW C, Lasting(s, C)
    PROVE  Outline(TempsRemoved(s), Known(C), Known(C), s, b)
<1>1. \A f \in WorkFiles : f \notin Inputs(s) /\ \A p \in C : p[1] # f
  BY Apart DEF Lasting, Aside
<1>2. tmpf1 \in WorkFiles /\ tmpf2 \in WorkFiles /\ tmpf3 \in WorkFiles /\ tmpf5 \in WorkFiles
  BY DEF WorkFiles
<1>3. \A f \in WorkFiles : Outline(rm(s, f), Known(C), Known(C), s, b)
  <2>1. TAKE f \in WorkFiles
  <2>2. f \notin Inputs(s) /\ \A p \in C : p[1] # f
    BY <1>1
  <2>3. QED
    BY <2>2, OutlineDrop
<1>4. PICK r1, r2, r3, r5 : r1 = rm(s, tmpf1) /\ r2 = rm(s, tmpf2) /\ r3 = rm(s, tmpf3) /\ r5 = rm(s, tmpf5)
  OBVIOUS
<1>5. PICK x : x = Known(C)
  OBVIOUS
<1>6. Outline(r1, x, x, s, b) /\ Outline(r2, x, x, s, b) /\ Outline(r3, x, x, s, b) /\ Outline(r5, x, x, s, b)
  BY <1>2, <1>3, <1>4, <1>5
<1>7. Outline(r1 \o r2, x, x, s, b)
  BY <1>6, OutlineJoin
<1>8. Outline(r1 \o r2 \o r3, x, x, s, b)
  BY <1>6, <1>7, OutlineJoin
<1>9. Outline(r1 \o r2 \o r3 \o r5, x, x, s, b)
  BY <1>6, <1>8, OutlineJoin
<1>10. QED
  BY <1>4, <1>5, <1>9 DEF TempsRemoved

\* An overlay begins where the table of symbols says.
Based(s, b) == s.overlay => {<<"text", s.cbase>>} =
                   (IF Start(s, b) = {} THEN {<<"text", "100">>} ELSE Start(s, b))

LEMMA LinkYields ==
    ASSUME NEW s, NEW b, SetOK(s), Ordinary(s, b), Based(s, b),
           NEW c, c.ins = s.objs, c.prog = "LINK",
           c.adds = (IF s.overlay THEN {<<"text", s.cbase>>} ELSE {})
    PROVE  Yields(c, Facts(Range(s.c_as), b), Wanted(s, b), s, b)
<1>1. PICK facts, names, objs : facts = Facts(Range(s.c_as), b) /\ names = Range(s.c_as) /\ objs = Range(s.objs)
  OBVIOUS
<1>2. Objects(s) \subseteq objs /\ objs \subseteq Inputs(s) \cup Objects(s)
  BY <1>1, Apart DEF SetOK
<1>3. ASSUME NEW d, Holds(facts, d), Unspoilt(s, b, d), Range(c.ins) \subseteq DOMAIN d
      PROVE  Effect(c, UNION {d[f] : f \in Range(c.ins)}) = Wanted(s, b)
  <2>1. \A n \in names : Obj(n) \in objs /\ d[Obj(n)] = Contents(b, n)
    <3>1. TAKE n \in names
    <3>2. PICK p \in facts : p = <<Obj(n), Contents(b, n)>>
      BY <1>1 DEF Facts
    <3>3. p[1] = Obj(n) /\ p[2] = Contents(b, n)
      BY <3>2
    <3>4. QED
      BY <1>1, <1>2, <1>3, <3>2, <3>3 DEF Holds, Objects
  <2>2. \A f \in objs \ Objects(s) : d[f] = b[f]
    BY <1>1, <1>2, <1>3 DEF Unspoilt
  <2>3. PICK u1, u2, u : /\ u1 = UNION {Contents(b, n) : n \in names}
                         /\ u2 = UNION {b[f] : f \in objs \ Objects(s)}
                         /\ u = UNION {d[f] : f \in objs}
    OBVIOUS
  <2>4. u = u1 \cup u2
    <3>1. ASSUME NEW e \in u PROVE e \in u1 \cup u2
      <4>1. PICK f \in objs : e \in d[f]
        BY <2>3
      <4>2. CASE f \in Objects(s)
        <5>1. PICK n \in names : f = Obj(n)
          BY <1>1, <4>2 DEF Objects
        <5>2. e \in Contents(b, n)
          BY <2>1, <4>1, <5>1
        <5>3. QED
          BY <2>3, <5>2
      <4>3. CASE f \notin Objects(s)
        <5>1. e \in b[f] /\ f \in objs \ Objects(s)
          BY <2>2, <4>1, <4>3
        <5>2. QED
          BY <2>3, <5>1
      <4>4. QED
        BY <4>2, <4>3
    <3>2. ASSUME NEW e \in u1 PROVE e \in u
      <4>1. PICK n \in names : e \in Contents(b, n)
        BY <2>3
      <4>2. PICK f \in objs : e \in d[f]
        BY <2>1, <4>1
      <4>3. QED
        BY <2>3, <4>2
    <3>3. ASSUME NEW e \in u2 PROVE e \in u
      <4>1. PICK f \in objs \ Objects(s) : e \in b[f]
        BY <2>3
      <4>2. e \in d[f] /\ f \in objs
        BY <2>2, <4>1
      <4>3. QED
        BY <2>3, <4>2
    <3>4. QED
      BY <3>1, <3>2, <3>3
  <2>5. PICK third : third = (IF ~s.overlay THEN {} ELSE IF Start(s, b) = {} THEN {<<"text", "100">>} ELSE Start(s, b))
    OBVIOUS
  <2>6. c.adds = third
    BY <2>5 DEF Based
  <2>7. Wanted(s, b) = u1 \cup u2 \cup third
    <3>1. PICK w1 : w1 = UNION {Contents(b, name) : name \in Range(s.c_as)}
      OBVIOUS
    <3>2. PICK w2 : w2 = UNION {b[f] : f \in Range(s.objs) \ Objects(s)}
      OBVIOUS
    <3>3. Wanted(s, b) = w1 \cup w2 \cup third
      BY <2>5, <3>1, <3>2 DEF Wanted
    <3>4. w1 = u1 /\ w2 = u2
      BY <1>1, <2>3, <3>1, <3>2
    <3>5. QED
      BY <3>3, <3>4
  <2>8. Effect(c, u) = u \cup c.adds
    BY DEF Effect
  <2>9. UNION {d[f] : f \in Range(c.ins)} = u
    BY <1>1, <2>3
  <2>10. QED
    BY <2>4, <2>6, <2>7, <2>8, <2>9
<1>4. QED
  BY <1>1, <1>3 DEF Yields


\* The linker, which no failure reaches, and what makes its output relocatable.
LEMMA LinkedOutline ==
    ASSUME NEW s, NEW b, SetOK(s), Ordinary(s, b), Based(s, b), ~s.keep
    PROVE  Outline(Linked(s), Known(Facts(Range(s.c_as), b)), Known({<<Outfile(s), Wanted(s, b)>>}), s, b)
<1>1. PICK facts, W, o : /\ facts = Facts(Range(s.c_as), b) /\ W = Wanted(s, b)
                         /\ o = (IF s.reloc THEN l_dot_obj ELSE Outfile(s))
  OBVIOUS
<1>2. PICK x, x1, y, z : /\ x = Known(facts) /\ x1 = Note({}, facts, TRUE)
                         /\ y = Known({<<o, W>>}) /\ z = Known({<<Outfile(s), W>>})
  OBVIOUS
<1>3. /\ x.sure = {} /\ x.calm = facts /\ ~x.guarded
      /\ x1.sure = {} /\ x1.calm = facts /\ x1.guarded
      /\ y.sure = {} /\ y.calm = {<<o, W>>} /\ ~y.guarded
      /\ z.sure = {} /\ z.calm = {<<Outfile(s), W>>} /\ ~z.guarded
  BY <1>2 DEF Known, Note
<1>4. PICK c, r, q :
        /\ Linked(s) = put_cmd("IF_NERR") \o Written(s, c) \o r \o q
        /\ c.op = "EXEC" /\ c.prog = "LINK" /\ c.ins = s.objs
        /\ c.outs = <<IF s.reloc THEN l_dot_obj ELSE Outfile(s)>>
        /\ c.adds = (IF s.overlay THEN {<<"text", s.cbase>>} ELSE {})
        /\ r = (IF s.reloc THEN Exec(s, "OBJTOHEX", <<l_dot_obj>>, <<Outfile(s)>>, 4) \o rm(s, l_dot_obj)
                ELSE <<>>)
        /\ q = (IF Len(s.c_as) = 1 /\ s.nfiles = 1 THEN rm(s, s.single) ELSE <<>>)
  BY LinkIs
<1>5. /\ Outfile(s) \notin Inputs(s) /\ Outfile(s) \notin Objects(s) /\ Outfile(s) \notin WorkFiles
      /\ l_dot_obj \notin Inputs(s) /\ l_dot_obj \notin Objects(s) /\ l_dot_obj # Outfile(s)
      /\ redname \notin Inputs(s) /\ redname # Outfile(s) /\ redname # l_dot_obj
      /\ crtmp # Outfile(s) /\ crtmp # l_dot_obj
  <2>1. l_dot_obj \in WorkFiles /\ redname \in WorkFiles /\ crtmp \in WorkFiles
    BY DEF WorkFiles
  <2>2. redname # l_dot_obj /\ crtmp # l_dot_obj
    BY DEF redname, l_dot_obj, crtmp
  <2>3. QED
    BY <2>1, <2>2, Apart DEF Aside
<1>6. Outline(put_cmd("IF_NERR"), x, x1, s, b)
  <2>1. Outline(put_cmd("IF_NERR"), x, Note(x.sure, x.calm, TRUE), s, b)
    BY OutlineGuard
  <2>2. QED
    BY <1>2, <1>3, <2>1
<1>7. Outline(Written(s, c), x1, y, s, b)
  <2>1. Range(c.outs) = {o}
    BY <1>1, <1>4, OneRange
  <2>2. o \notin Inputs(s) /\ o \notin Objects(s) /\ o # redname /\ o # crtmp /\ (s.reloc <=> o # Outfile(s))
    BY <1>1, <1>5
  <2>3. Yields(c, facts, W, s, b)
    BY <1>1, <1>4, LinkYields
  <2>4. Proper(c, x1, s, b)
    <3>1. Range(c.outs) \cap Inputs(s) = {}
      BY <2>1, <2>2
    <3>2. \A n \in Range(s.c_as) : Obj(n) \notin Range(c.outs)
      BY <2>1, <2>2 DEF Objects
    <3>3. Yields(c, x1.calm, Wanted(s, b), s, b)
      BY <1>1, <1>3, <2>3
    <3>4. QED
      BY <1>3, <3>1, <3>2, <3>3 DEF Proper
  <2>5. Turns(c, x1.sure, y.sure, s, b)
    BY <1>3 DEF Turns
  <2>6. Turns(c, x1.calm, y.calm, s, b)
    <3>1. ASSUME NEW p \in y.calm PROVE p[1] = o /\ p[2] = W
      BY <1>3
    <3>2. QED
      BY <1>3, <2>1, <2>2, <2>3, <3>1 DEF Turns
  <2>7. y.sure \subseteq x1.sure
    BY <1>3
  <2>8. Leads(c, x1, y, s, b)
    BY <1>3, <1>4, <2>4, <2>5, <2>6, <2>7 DEF Leads
  <2>9. \A p \in y.sure \cup y.calm : p[1] # redname
    BY <1>3, <2>2
  <2>10. QED
    BY <1>3, <1>4, <1>5, <2>8, <2>9, OutlineWritten
<1>8. Outline(r, y, z, s, b)
  <2>1. CASE ~s.reloc
    <3>1. r = <<>> /\ y = z
      BY <1>1, <1>2, <1>4, <2>1
    <3>2. QED
      BY <3>1, OutlineEmpty
  <2>2. CASE s.reloc
    <3>1. o = l_dot_obj
      BY <1>1, <2>2
    <3>2. PICK ins, outs : ins = <<l_dot_obj>> /\ outs = <<Outfile(s)>>
      OBVIOUS
    <3>3. Range(ins) = {l_dot_obj} /\ Range(outs) = {Outfile(s)}
      BY <3>2, OneRange
    <3>4. ASSUME NEW e, e.op = "EXEC", e.prog = "OBJTOHEX", e.ins = ins, e.outs = outs, e.adds = {}
          PROVE  Leads(e, y, z, s, b)
      <4>1. Knows(s, b, y.calm, l_dot_obj, W)
        BY <1>3, <3>1 DEF Knows
      <4>2. Yields(e, y.calm, W, s, b)
        BY <3>3, <3>4, <4>1, OneYields
      <4>3. Proper(e, y, s, b)
        <5>1. Range(e.outs) \cap Inputs(s) = {}
          BY <1>5, <3>3, <3>4
        <5>2. \A n \in Range(s.c_as) : Obj(n) \notin Range(e.outs)
          BY <1>5, <3>3, <3>4 DEF Objects
        <5>3. QED
          BY <2>2, <5>1, <5>2 DEF Proper
      <4>4. Turns(e, y.sure, z.sure, s, b)
        BY <1>3 DEF Turns
      <4>5. Turns(e, y.calm, z.calm, s, b)
        <5>1. ASSUME NEW p \in z.calm PROVE p[1] = Outfile(s) /\ p[2] = W
          BY <1>3
        <5>2. QED
          BY <1>5, <3>3, <3>4, <4>2, <5>1 DEF Turns
      <4>6. QED
        BY <1>3, <3>4, <4>3, <4>4, <4>5 DEF Leads
    <3>5. \A p \in z.sure \cup z.calm : p[1] # redname
      BY <1>3, <1>5
    <3>6. Outline(Exec(s, "OBJTOHEX", ins, outs, 4), y, z, s, b)
      BY <1>3, <1>5, <3>4, <3>5, OutlineExec
    <3>7. Outline(rm(s, l_dot_obj), z, z, s, b)
      <4>1. PICK C : C = {<<Outfile(s), W>>}
        OBVIOUS
      <4>2. \A p \in C : p[1] # l_dot_obj
        BY <1>5, <4>1
      <4>3. Outline(rm(s, l_dot_obj), Known(C), Known(C), s, b)
        BY <1>5, <4>2, OutlineDrop
      <4>4. QED
        BY <1>2, <4>1, <4>3
    <3>8. PICK e : e = Exec(s, "OBJTOHEX", ins, outs, 4)
      OBVIOUS
    <3>9. r = e \o rm(s, l_dot_obj)
      BY <1>4, <2>2, <3>2, <3>8
    <3>10. QED
      BY <3>6, <3>7, <3>8, <3>9, OutlineJoin
  <2>3. QED
    BY <2>1, <2>2
<1>9. Outline(q, z, z, s, b)
  <2>1. CASE Len(s.c_as) = 1 /\ s.nfiles = 1
    <3>1. s.single \in Objects(s)
      <4>1. IsSequence(s.c_as) /\ (Range(s.c_as) = {} \/ s.single \in Objects(s))
        BY DEF SetOK
      <4>2. 1 \in DOMAIN s.c_as
        BY <2>1, <4>1, SequenceIs
      <4>3. Range(s.c_as) # {}
        BY <4>2 DEF Range
      <4>4. QED
        BY <4>1, <4>3
    <3>2. PICK C, f : C = {<<Outfile(s), W>>} /\ f = s.single
      OBVIOUS
    <3>3. f \notin Inputs(s) /\ \A p \in C : p[1] # f
      BY <1>5, <3>1, <3>2, Apart
    <3>4. Outline(rm(s, f), Known(C), Known(C), s, b)
      BY <3>3, OutlineDrop
    <3>5. QED
      BY <1>2, <1>4, <2>1, <3>2, <3>4
  <2>2. CASE ~(Len(s.c_as) = 1 /\ s.nfiles = 1)
    <3>1. q = <<>>
      BY <1>4, <2>2
    <3>2. QED
      BY <3>1, OutlineEmpty
  <2>3. QED
    BY <2>1, <2>2
<1>10. PICK i, w : i = put_cmd("IF_NERR") /\ w = Written(s, c)
  OBVIOUS
<1>11. Outline(i \o w, x, y, s, b)
  BY <1>6, <1>7, <1>10, OutlineJoin
<1>12. Outline(i \o w \o r, x, z, s, b)
  BY <1>8, <1>11, OutlineJoin
<1>13. Outline(i \o w \o r \o q, x, z, s, b)
  BY <1>9, <1>12, OutlineJoin
<1>14. QED
  BY <1>1, <1>2, <1>4, <1>10, <1>13

LEMMA CrossOutline ==
    ASSUME NEW s, NEW b, Ordinary(s, b), NEW C, Lasting(s, C)
    PROVE  Outline(CrossReferenced(s), Known(C), Known(C), s, b)
<1>1. PICK x, x1 : x = Known(C) /\ x1 = Note({}, C, TRUE)
  OBVIOUS
<1>2. x.sure = {} /\ x.calm = C /\ ~x.guarded /\ x1.sure = {} /\ x1.calm = C /\ x1.guarded
  BY <1>1 DEF Known, Note
<1>3. CASE ~s.xref
  BY <1>3, OutlineEmpty DEF CrossReferenced
<1>4. CASE s.xref /\ s.xrname = None
  <2>1. Outline(put_cmd("PRINT"), x, x, s, b)
    BY <1>2, OutlineQuiet
  <2>2. QED
    BY <1>1, <1>4, <2>1 DEF CrossReferenced, print
<1>5. CASE s.xref /\ s.xrname # None
  <2>1. PICK f, ins, outs : f = s.xrname /\ ins = <<crtmp>> /\ outs = <<f>>
    OBVIOUS
  <2>2. Range(ins) = {crtmp} /\ Range(outs) = {f}
    BY <2>1, OneRange
  <2>3. Aside(s, f)
    <3>1. f \in Listings(s)
      BY <1>5, <2>1 DEF Listings
    <3>2. QED
      BY <3>1, Apart
  <2>4. \A w \in WorkFiles : w \notin Inputs(s) /\ \A p \in C : p[1] # w
    BY Apart DEF Lasting, Aside
  <2>5. redname \in WorkFiles /\ crtmp \in WorkFiles
    BY DEF WorkFiles
  <2>6. ASSUME NEW e, e.op = "EXEC", e.prog = "CREF", e.ins = ins, e.outs = outs, e.adds = {}
        PROVE  Leads(e, x1, x, s, b)
    <3>1. Proper(e, x1, s, b)
      BY <2>2, <2>3, <2>6 DEF Proper, Aside, Objects
    <3>2. Turns(e, x1.sure, x.sure, s, b) /\ x.sure \subseteq x1.sure
      BY <1>2 DEF Turns
    <3>3. \A p \in C : p[1] \notin Range(e.outs)
      BY <2>2, <2>3, <2>6 DEF Lasting, Aside
    <3>4. Turns(e, x1.calm, x.calm, s, b)
      BY <1>2, <3>3 DEF Turns
    <3>5. QED
      BY <1>2, <2>6, <3>1, <3>2, <3>4 DEF Leads
  <2>7. Outline(Exec(s, "CREF", ins, outs, 3), x1, x, s, b)
    <3>1. \A p \in x.sure \cup x.calm : p[1] # redname
      BY <1>2, <2>4, <2>5
    <3>2. QED
      BY <1>2, <2>4, <2>5, <2>6, <3>1, OutlineExec
  <2>8. Outline(rm(s, crtmp), x, x, s, b)
    BY <1>1, <2>4, <2>5, OutlineDrop
  <2>9. Outline(put_cmd("IF_NERR"), x, x1, s, b)
    <3>1. Outline(put_cmd("IF_NERR"), x, Note(x.sure, x.calm, TRUE), s, b)
      BY OutlineGuard
    <3>2. QED
      BY <1>1, <1>2, <3>1
  <2>10. PICK i, e, r : i = put_cmd("IF_NERR") /\ e = Exec(s, "CREF", ins, outs, 3) /\ r = rm(s, crtmp)
    OBVIOUS
  <2>11. Outline(i \o e, x, x, s, b)
    BY <2>7, <2>9, <2>10, OutlineJoin
  <2>12. Outline(i \o e \o r, x, x, s, b)
    BY <2>8, <2>10, <2>11, OutlineJoin
  <2>13. CrossReferenced(s) = i \o e \o r
    BY <1>5, <2>1, <2>10 DEF CrossReferenced
  <2>14. QED
    BY <1>1, <2>12, <2>13
<1>6. QED
  BY <1>3, <1>4, <1>5


\* The end of doit(): if nothing fails, the program is linked from all that was named.
LEMMA TailOutline ==
    ASSUME NEW s, NEW b, SetOK(s), Ordinary(s, b), NEW M, M \subseteq Range(s.c_as),
           ~s.keep => M = Range(s.c_as) /\ Based(s, b)
    PROVE  \E y : /\ ~s.keep => <<Outfile(s), Wanted(s, b)>> \in y.calm
                  /\ Outline(TailOf(s), Known(Facts(M, b)), y, s, b)
<1>1. PICK C : C = (IF s.keep THEN Facts(M, b) ELSE {<<Outfile(s), Wanted(s, b)>>})
  OBVIOUS
<1>2. PICK x, z : x = Known(Facts(M, b)) /\ z = Known(C)
  OBVIOUS
<1>3. Lasting(s, Facts(M, b)) /\ Lasting(s, C)
  <2>1. \A p \in Facts(M, b) : p[1] \in Objects(s)
    BY FactsKept
  <2>2. ~s.keep => \A p \in C : p[1] = Outfile(s)
    BY <1>1
  <2>3. QED
    BY <1>1, <2>1, <2>2 DEF Lasting
<1>4. Outline(TempsRemoved(s), x, x, s, b)
  BY <1>2, <1>3, TempsOutline
<1>5. Outline(Linked(s), x, z, s, b)
  <2>1. CASE s.keep
    <3>1. Linked(s) = <<>> /\ x = z
      BY <1>1, <1>2, <2>1 DEF Linked
    <3>2. QED
      BY <3>1, OutlineEmpty
  <2>2. CASE ~s.keep
    BY <1>1, <1>2, <2>2, LinkedOutline
  <2>3. QED
    BY <2>1, <2>2
<1>6. Outline(CrossReferenced(s), z, z, s, b)
  BY <1>2, <1>3, CrossOutline
<1>7. z.sure = {} /\ z.calm = C /\ ~z.guarded
  BY <1>2 DEF Known, Note
<1>8. Outline(put_cmd("TRAP"), z, z, s, b)
  <2>1. Outline(put_cmd("TRAP"), z, Known(C), s, b)
    BY <1>7, OutlineTrap
  <2>2. QED
    BY <1>2, <2>1
<1>9. PICK e : e = Command("RM_EXIT", "none", <<>>, <<execmd>>, 0)
  OBVIOUS
<1>10. Outline(<<e>>, z, z, s, b)
  <2>1. e.op = "RM_EXIT" /\ e.outs[1] = execmd
    BY <1>9 DEF Command
  <2>2. execmd \in WorkFiles
    BY DEF WorkFiles
  <2>3. execmd \notin Inputs(s) /\ execmd \notin Objects(s) /\ execmd # Outfile(s)
    BY <2>2, Apart DEF Aside
  <2>4. Without(z.sure, z.sure, execmd) /\ Without(z.calm, z.calm, execmd)
    BY <1>3, <1>7, <2>3 DEF Without, Lasting
  <2>5. Leads(e, z, z, s, b)
    BY <1>7, <2>1, <2>3, <2>4 DEF Leads
  <2>6. QED
    BY <2>5, OutlineOne
<1>11. PICK p1, p2, p3, p4 :
         p1 = TempsRemoved(s) /\ p2 = Linked(s) /\ p3 = CrossReferenced(s) /\ p4 = put_cmd("TRAP")
  OBVIOUS
<1>12. Outline(p1 \o p2, x, z, s, b)
  BY <1>4, <1>5, <1>11, OutlineJoin
<1>13. Outline(p1 \o p2 \o p3, x, z, s, b)
  BY <1>6, <1>11, <1>12, OutlineJoin
<1>14. Outline(p1 \o p2 \o p3 \o p4, x, z, s, b)
  BY <1>8, <1>11, <1>13, OutlineJoin
<1>15. Outline(p1 \o p2 \o p3 \o p4 \o <<e>>, x, z, s, b)
  BY <1>10, <1>14, OutlineJoin
<1>16. TailOf(s) = p1 \o p2 \o p3 \o p4 \o <<e>>
  BY <1>9, <1>11 DEF TailOf
<1>17. ~s.keep => <<Outfile(s), Wanted(s, b)>> \in z.calm
  BY <1>1, <1>7
<1>18. QED
  BY <1>2, <1>15, <1>16, <1>17

(***************************************************************************)
(* What $EXEC does with the file.                                          *)
(***************************************************************************)
\* The notes F are right where $EXEC is.
Right(F) ==
    /\ Annotates(F, cmdfile, set, before)
    /\ ~set.keep => <<Outfile(set), Wanted(set, before)>> \in F[Len(cmdfile) + 1].calm
    /\ ~status => Holds(F[ip].sure, disk) /\ (F[ip].guarded => ~errors)
    /\ ~status /\ ~errors => Holds(F[ip].calm, disk)
\* What has become of a file that only one thing may be in.
Became(d, b, f, v) ==
    \/ IF f \in DOMAIN b THEN f \in DOMAIN d /\ d[f] = b[f] ELSE f \notin DOMAIN d
    \/ f \notin DOMAIN d
    \/ d[f] \in {Junk, v}
Sound ==
    /\ Unspoilt(set, before, disk)
    /\ \A name \in Range(set.c_as) : name[2] # "SYM" => Became(disk, before, Obj(name), before[name])
    /\ ~set.reloc => Became(disk, before, Outfile(set), Wanted(set, before))

\* What a program that succeeds does to the files.
LEMMA MadeIs ==
    ASSUME NEW c, NEW from
    PROVE  /\ DOMAIN Over(Made(c, from), disk) = Range(c.outs) \cup DOMAIN disk
           /\ \A f \in Range(c.outs) : f # crtmp => Over(Made(c, from), disk)[f] = Effect(c, from)
           /\ \A f \in DOMAIN disk \ Range(c.outs) : Over(Made(c, from), disk)[f] = disk[f]
<1>1. PICK m : m = Made(c, from)
  OBVIOUS
<1>2. DOMAIN m = Range(c.outs)
  BY <1>1 DEF Made
<1>3. \A f \in Range(c.outs) : f # crtmp => m[f] = Effect(c, from)
  BY <1>1 DEF Made, Effect
<1>4. /\ DOMAIN Over(m, disk) = DOMAIN m \cup DOMAIN disk
      /\ \A f \in DOMAIN m : Over(m, disk)[f] = m[f]
      /\ \A f \in DOMAIN disk \ DOMAIN m : Over(m, disk)[f] = disk[f]
  BY OverIs
<1>5. QED
  BY <1>1, <1>2, <1>3, <1>4

\* What one that fails may.
LEMMA LeftIs ==
    ASSUME NEW c, NEW d \in LeftBy(c)
    PROVE  /\ \A f : f \notin Range(c.outs) => (f \in DOMAIN d <=> f \in DOMAIN disk)
           /\ \A f \in DOMAIN disk \ Range(c.outs) : d[f] = disk[f]
           /\ \A f \in Range(c.outs) : f \in DOMAIN d =>
                  d[f] = Junk \/ (f \in DOMAIN disk /\ d[f] = disk[f])
<1>1. PICK R : R = Range(c.outs)
  OBVIOUS
<1>2. CASE d = disk
  BY <1>2
<1>3. CASE d = [f \in DOMAIN disk \ R |-> disk[f]]
  <2>1. DOMAIN d = DOMAIN disk \ R
    BY <1>3
  <2>2. \A f \in DOMAIN disk \ R : d[f] = disk[f]
    BY <1>3
  <2>3. QED
    BY <1>1, <2>1, <2>2
<1>4. CASE d = Over([f \in R |-> Junk], disk)
  <2>1. PICK g : g = [f \in R |-> Junk]
    OBVIOUS
  <2>2. DOMAIN g = R
    BY <2>1
  <2>3. \A f \in R : g[f] = Junk
    BY <2>1
  <2>4. PICK e : e = Over(g, disk)
    OBVIOUS
  <2>5. /\ DOMAIN Over(g, disk) = DOMAIN g \cup DOMAIN disk
        /\ \A f \in DOMAIN g : Over(g, disk)[f] = g[f]
        /\ \A f \in DOMAIN disk \ DOMAIN g : Over(g, disk)[f] = disk[f]
    BY OverIs
  <2>6. /\ DOMAIN e = DOMAIN g \cup DOMAIN disk
        /\ \A f \in DOMAIN g : e[f] = g[f]
        /\ \A f \in DOMAIN disk \ DOMAIN g : e[f] = disk[f]
    BY <2>4, <2>5
  <2>7. d = e
    BY <1>4, <2>1, <2>4
  <2>8. QED
    BY <1>1, <2>2, <2>3, <2>6, <2>7
<1>5. QED
  BY <1>1, <1>2, <1>3, <1>4 DEF LeftBy

LEMMA BecameKept ==
    ASSUME NEW d, NEW e, NEW b, NEW f, NEW v, Became(d, b, f, v),
           \/ f \notin DOMAIN e
           \/ e[f] \in {Junk, v}
           \/ f \in DOMAIN e /\ f \in DOMAIN d /\ e[f] = d[f]
    PROVE  Became(e, b, f, v)
<1>1. CASE f \notin DOMAIN e
  BY <1>1 DEF Became
<1>2. CASE e[f] \in {Junk, v}
  BY <1>2 DEF Became
<1>3. CASE f \in DOMAIN e /\ f \in DOMAIN d /\ e[f] = d[f]
  <2>1. CASE d[f] \in {Junk, v}
    BY <1>3, <2>1 DEF Became
  <2>2. CASE f \in DOMAIN b /\ d[f] = b[f]
    BY <1>3, <2>2 DEF Became
  <2>3. QED
    BY <1>3, <2>1, <2>2 DEF Became
<1>4. QED
  BY <1>1, <1>2, <1>3


\* By its operation, what a command does to what is known.
LEMMA ExecLeads ==
    ASSUME NEW c, NEW x, NEW y, NEW s, NEW b, Leads(c, x, y, s, b), c.op = "EXEC"
    PROVE  /\ Proper(c, x, s, b) /\ ~y.guarded
           /\ Turns(c, x.sure, y.sure, s, b) /\ Turns(c, x.calm, y.calm, s, b)
           /\ x.guarded => y.sure \subseteq x.sure
  BY DEF Leads

LEMMA RmLeads ==
    ASSUME NEW c, NEW x, NEW y, NEW s, NEW b, Leads(c, x, y, s, b), c.op \in {"RM_FILE", "RM_EXIT"}
    PROVE  /\ c.outs[1] \notin Inputs(s) /\ ~y.guarded
           /\ Without(y.sure, x.sure, c.outs[1]) /\ Without(y.calm, x.calm, c.outs[1])
  BY DEF Leads

LEMMA TrapLeads ==
    ASSUME NEW c, NEW x, NEW y, NEW s, NEW b, Leads(c, x, y, s, b), c.op = "TRAP"
    PROVE  y.sure = {} /\ y.calm \subseteq x.calm /\ ~y.guarded
  BY DEF Leads

LEMMA PlainLeads ==
    ASSUME NEW c, NEW x, NEW y, NEW s, NEW b, Leads(c, x, y, s, b),
           c.op \in {"IF_NERR", "SKP_ERR", "ECHO", "PRINT"}
    PROVE  /\ y.sure \subseteq x.sure /\ y.calm \subseteq x.calm
           /\ c.op = "IF_NERR" <=> y.guarded
  BY DEF Leads

\* What is known of what a program makes, it makes.
LEMMA TurnsHolds ==
    ASSUME NEW c, NEW s, NEW b, NEW x, NEW y, Turns(c, x, y, s, b), NEW d, NEW e,
           Holds(x, d), Unspoilt(s, b, d), Range(c.ins) \subseteq DOMAIN d,
           NEW from, from = UNION {d[g] : g \in Range(c.ins)},
           DOMAIN e = Range(c.outs) \cup DOMAIN d,
           \A f \in Range(c.outs) : f # crtmp => e[f] = Effect(c, from),
           \A f \in DOMAIN d \ Range(c.outs) : e[f] = d[f]
    PROVE  Holds(y, e)
<1>1. ASSUME NEW p \in y PROVE p[1] \in DOMAIN e /\ e[p[1]] = p[2]
  <2>1. CASE p[1] \in Range(c.outs)
    <3>1. p[1] # crtmp /\ Yields(c, x, p[2], s, b)
      BY <2>1 DEF Turns
    <3>2. Effect(c, from) = p[2]
      BY <3>1 DEF Yields
    <3>3. QED
      BY <2>1, <3>1, <3>2
  <2>2. CASE p[1] \notin Range(c.outs)
    <3>1. p \in x
      BY <2>2 DEF Turns
    <3>2. p[1] \in DOMAIN d /\ d[p[1]] = p[2]
      BY <3>1 DEF Holds
    <3>3. QED
      BY <2>2, <3>2
  <2>3. QED
    BY <2>1, <2>2
<1>2. QED
  BY <1>1 DEF Holds


\* A program keeps what has been built sound.
LEMMA RunBuilds ==
    ASSUME Shape, Kept, OneLong(cmdfile), Ordinary(set, before), Sound, NEW F, Right(F), Run
    PROVE  Sound' /\ Right(F)' /\ pc' = "run"
<1>1. /\ Ready("EXEC") /\ Moved
      /\ \/ /\ Range(cmdfile[ip].ins) \subseteq DOMAIN disk /\ UNCHANGED status
            /\ disk' = Over(Made(cmdfile[ip], UNION {disk[f] : f \in Range(cmdfile[ip].ins)}), disk)
         \/ status' = TRUE /\ disk' \in LeftBy(cmdfile[ip])
  BY OwnWords
<1>2. /\ pc = "run" /\ ~status /\ ip \in 1..Len(cmdfile) /\ cmdfile[ip].op = "EXEC"
  BY <1>1, ReadyIs
<1>3. /\ ip' = ip + 1 /\ pc' = "run" /\ UNCHANGED <<errors, set, cmdfile, before>>
  BY <1>1, <1>2 DEF Moved, driverVars
<1>4. PICK c, x, y : c = cmdfile[ip] /\ x = F[ip] /\ y = F[ip + 1]
  OBVIOUS
<1>5. Leads(c, x, y, set, before)
  BY <1>2, <1>4 DEF Right, Annotates
<1>6. /\ Proper(c, x, set, before) /\ ~y.guarded
      /\ Turns(c, x.sure, y.sure, set, before) /\ Turns(c, x.calm, y.calm, set, before)
  BY <1>2, <1>4, <1>5, ExecLeads
<1>7. Holds(x.sure, disk) /\ (x.guarded => ~errors) /\ (~errors => Holds(x.calm, disk))
  BY <1>2, <1>4 DEF Right
<1>8. /\ Unspoilt(set, before, disk)
      /\ \A n \in Range(set.c_as) : n[2] # "SYM" => Became(disk, before, Obj(n), before[n])
      /\ ~set.reloc => Became(disk, before, Outfile(set), Wanted(set, before))
  BY DEF Sound
<1>9. PICK e : e = disk'
  OBVIOUS
<1>10. /\ Annotates(F, cmdfile, set, before)
       /\ ~set.keep => <<Outfile(set), Wanted(set, before)>> \in F[Len(cmdfile) + 1].calm
  BY DEF Right
<1>11. Range(c.outs) \cap Inputs(set) = {}
  BY <1>6 DEF Proper
<1>12. CASE Range(c.ins) \subseteq DOMAIN disk /\ status' = status
            /\ e = Over(Made(c, UNION {disk[f] : f \in Range(c.ins)}), disk)
  <2>1. PICK from : from = UNION {disk[f] : f \in Range(c.ins)}
    OBVIOUS
  <2>2. /\ DOMAIN e = Range(c.outs) \cup DOMAIN disk
        /\ \A f \in Range(c.outs) : f # crtmp => e[f] = Effect(c, from)
        /\ \A f \in DOMAIN disk \ Range(c.outs) : e[f] = disk[f]
    <3>1. e = Over(Made(c, from), disk)
      BY <1>12, <2>1
    <3>2. /\ DOMAIN Over(Made(c, from), disk) = Range(c.outs) \cup DOMAIN disk
          /\ \A f \in Range(c.outs) : f # crtmp => Over(Made(c, from), disk)[f] = Effect(c, from)
          /\ \A f \in DOMAIN disk \ Range(c.outs) : Over(Made(c, from), disk)[f] = disk[f]
      BY MadeIs
    <3>3. QED
      BY <3>1, <3>2
  <2>3. ASSUME NEW facts, Holds(facts, disk), NEW v, Yields(c, facts, v, set, before)
        PROVE  Effect(c, from) = v
    BY <1>8, <1>12, <2>1, <2>3 DEF Yields
  <2>4. ASSUME NEW f, NEW v, Became(disk, before, f, v), f # crtmp,
               f \in Range(c.outs) => Effect(c, from) = v
        PROVE  Became(e, before, f, v)
    <3>1. CASE f \in Range(c.outs)
      <4>1. e[f] \in {Junk, v}
        BY <2>2, <2>4, <3>1
      <4>2. QED
        BY <2>4, <4>1, BecameKept
    <3>2. CASE f \notin Range(c.outs)
      <4>1. f \notin DOMAIN e \/ (f \in DOMAIN e /\ f \in DOMAIN disk /\ e[f] = disk[f])
        BY <2>2, <3>2
      <4>2. QED
        BY <2>4, <4>1, BecameKept
    <3>3. QED
      BY <3>1, <3>2
  <2>5. Unspoilt(set, before, e)
    BY <1>8, <1>11, <2>2 DEF Unspoilt
  <2>6. ASSUME NEW n \in Range(set.c_as), n[2] # "SYM" PROVE Became(e, before, Obj(n), before[n])
    <3>1. Obj(n) # crtmp
      <4>1. Obj(n) \in Objects(set) /\ crtmp \in WorkFiles
        BY DEF Objects, WorkFiles
      <4>2. QED
        BY <4>1, Apart
    <3>2. Obj(n) \in Range(c.outs) => Effect(c, from) = before[n]
      BY <1>6, <1>7, <2>3, <2>6 DEF Proper
    <3>3. QED
      BY <1>8, <2>4, <2>6, <3>1, <3>2
  <2>7. ~set.reloc => Became(e, before, Outfile(set), Wanted(set, before))
    <3>1. SUFFICES ASSUME ~set.reloc PROVE Became(e, before, Outfile(set), Wanted(set, before))
      OBVIOUS
    <3>2. Outfile(set) # crtmp
      <4>1. crtmp \in WorkFiles
        BY DEF WorkFiles
      <4>2. QED
        BY <4>1, Apart
    <3>3. Outfile(set) \in Range(c.outs) => Effect(c, from) = Wanted(set, before)
      BY <1>6, <1>7, <2>3, <3>1 DEF Proper
    <3>4. QED
      BY <1>8, <2>4, <3>1, <3>2, <3>3
  <2>8. Sound'
    BY <1>3, <1>9, <2>5, <2>6, <2>7 DEF Sound
  <2>9. Holds(y.sure, e) /\ (~errors => Holds(y.calm, e))
    <3>1. ASSUME NEW u, NEW v, Turns(c, u, v, set, before), Holds(u, disk) PROVE Holds(v, e)
      BY <1>8, <1>12, <2>1, <2>2, <3>1, TurnsHolds
    <3>2. QED
      BY <1>6, <1>7, <3>1
  <2>10. Right(F)'
    BY <1>2, <1>3, <1>4, <1>6, <1>9, <1>10, <1>12, <2>9 DEF Right
  <2>11. QED
    BY <1>3, <2>8, <2>10
<1>13. CASE status' = TRUE /\ e \in LeftBy(c)
  <2>1. /\ \A f : f \notin Range(c.outs) => (f \in DOMAIN e <=> f \in DOMAIN disk)
        /\ \A f \in DOMAIN disk \ Range(c.outs) : e[f] = disk[f]
        /\ \A f \in Range(c.outs) : f \in DOMAIN e =>
                  e[f] = Junk \/ (f \in DOMAIN disk /\ e[f] = disk[f])
    BY <1>13, LeftIs
  <2>2. ASSUME NEW f, NEW v, Became(disk, before, f, v) PROVE Became(e, before, f, v)
    <3>1. f \notin DOMAIN e \/ e[f] \in {Junk, v} \/ (f \in DOMAIN e /\ f \in DOMAIN disk /\ e[f] = disk[f])
      BY <2>1
    <3>2. QED
      BY <2>2, <3>1, BecameKept
  <2>3. Unspoilt(set, before, e)
    BY <1>8, <1>11, <2>1 DEF Unspoilt
  <2>4. Sound'
    BY <1>3, <1>8, <1>9, <2>2, <2>3 DEF Sound
  <2>5. Right(F)'
    BY <1>3, <1>10, <1>13 DEF Right
  <2>6. QED
    BY <1>3, <2>4, <2>5
<1>14. QED
  BY <1>1, <1>4, <1>9, <1>12, <1>13


\* So does the removal of a file, and the last one leaves the program built.
LEMMA RemoveBuilds ==
    ASSUME Shape, Sound, NEW F, Right(F), RemoveFile
    PROVE  /\ Sound' /\ pc' \in {"run", "ended"}
           /\ pc' = "run" => Right(F)'
           /\ pc' = "ended" /\ ~errors' /\ ~set'.keep =>
                  /\ Outfile(set') \in DOMAIN disk'
                  /\ disk'[Outfile(set')] = Wanted(set', before')
<1>1. PICK op \in {"RM_FILE", "RM_EXIT"} : Ready(op)
  BY DEF RemoveFile
<1>2. /\ pc = "run" /\ ~status /\ ip \in 1..Len(cmdfile) /\ cmdfile[ip].op = op /\ Laid(cmdfile)
      /\ Len(cmdfile) \in Nat
  BY <1>1, ReadyIs
<1>3. PICK c, x, y, e : c = cmdfile[ip] /\ x = F[ip] /\ y = F[ip + 1] /\ e = disk'
  OBVIOUS
<1>4. PICK file : file = c.outs[1]
  OBVIOUS
<1>5. /\ e = [f \in DOMAIN disk \ {file} |-> disk[f]]
      /\ pc' = (IF op = "RM_EXIT" THEN "ended" ELSE "run") /\ ip' = ip + 1
      /\ UNCHANGED <<status, errors, set, cmdfile, before>>
  BY <1>2, <1>3, <1>4 DEF RemoveFile, Current, driverVars
<1>6. Leads(c, x, y, set, before) /\ c.op \in {"RM_FILE", "RM_EXIT"}
  BY <1>2, <1>3 DEF Right, Annotates
<1>7. /\ file \notin Inputs(set) /\ ~y.guarded
      /\ Without(y.sure, x.sure, file) /\ Without(y.calm, x.calm, file)
  BY <1>4, <1>6, RmLeads
<1>8. DOMAIN e = DOMAIN disk \ {file}
  BY <1>5
<1>9. \A f \in DOMAIN disk : f # file => e[f] = disk[f]
  BY <1>5
<1>10. ASSUME NEW u, NEW v, Without(v, u, file), Holds(u, disk) PROVE Holds(v, e)
  BY <1>8, <1>9, <1>10 DEF Without, Holds
<1>11. ASSUME NEW f, NEW v, Became(disk, before, f, v) PROVE Became(e, before, f, v)
  <2>1. f \notin DOMAIN e \/ e[f] \in {Junk, v} \/ (f \in DOMAIN e /\ f \in DOMAIN disk /\ e[f] = disk[f])
    BY <1>8, <1>9
  <2>2. QED
    BY <1>11, <2>1, BecameKept
<1>12. Unspoilt(set, before, e)
  <2>1. Unspoilt(set, before, disk)
    BY DEF Sound
  <2>2. QED
    BY <1>7, <1>8, <1>9, <2>1 DEF Unspoilt
<1>13. Sound'
  <2>1. /\ \A n \in Range(set.c_as) : n[2] # "SYM" => Became(disk, before, Obj(n), before[n])
        /\ ~set.reloc => Became(disk, before, Outfile(set), Wanted(set, before))
    BY DEF Sound
  <2>2. QED
    BY <1>3, <1>5, <1>11, <1>12, <2>1 DEF Sound
<1>14. Holds(y.sure, e) /\ (~errors => Holds(y.calm, e))
  <2>1. Holds(x.sure, disk) /\ (~errors => Holds(x.calm, disk))
    BY <1>2, <1>3 DEF Right
  <2>2. QED
    BY <1>7, <1>10, <2>1
<1>15. /\ Annotates(F, cmdfile, set, before)
       /\ ~set.keep => <<Outfile(set), Wanted(set, before)>> \in F[Len(cmdfile) + 1].calm
  BY DEF Right
<1>16. Right(F)'
  BY <1>3, <1>5, <1>7, <1>14, <1>15 DEF Right
<1>17. ASSUME op = "RM_EXIT", ~errors, ~set.keep
       PROVE  Outfile(set) \in DOMAIN e /\ e[Outfile(set)] = Wanted(set, before)
  <2>1. ip = Len(cmdfile)
    <3>1. ip \notin 1..(Len(cmdfile) - 1)
      BY <1>2, <1>17 DEF Laid
    <3>2. QED
      BY <1>2, <3>1
  <2>2. PICK p \in y.calm : p = <<Outfile(set), Wanted(set, before)>>
    BY <1>3, <1>15, <1>17, <2>1
  <2>3. p[1] = Outfile(set) /\ p[2] = Wanted(set, before)
    BY <2>2
  <2>4. QED
    BY <1>14, <1>17, <2>3 DEF Holds
<1>18. QED
  BY <1>1, <1>3, <1>5, <1>13, <1>16, <1>17

\* A guarded command is passed over when something has failed.
LEMMA ControlBuilds ==
    ASSUME Shape, Sound, NEW F, Right(F), Control
    PROVE  Sound' /\ Right(F)' /\ pc' = "run"
<1>1. PICK op \in {"IF_NERR", "SKP_ERR", "TRAP", "ECHO", "PRINT"} :
        /\ Ready(op)
        /\ op = "IF_NERR" => ip + 2 \in 1..Len(cmdfile) /\ ip' = IF errors THEN ip + 2 ELSE ip + 1
        /\ op # "IF_NERR" => ip' = ip + 1
  BY ControlIs
<1>2. UNCHANGED <<pc, disk, status, errors, set, cmdfile, before>>
  BY ControlIs
<1>3. /\ pc = "run" /\ ~status /\ ip \in 1..Len(cmdfile) /\ cmdfile[ip].op = op /\ Laid(cmdfile)
      /\ Len(cmdfile) \in Nat /\ ip \in 1..(Len(cmdfile) - 1)
  BY <1>1, ReadyIs
<1>4. PICK c, x, y : c = cmdfile[ip] /\ x = F[ip] /\ y = F[ip + 1]
  OBVIOUS
<1>5. Leads(c, x, y, set, before) /\ c.op = op
  BY <1>3, <1>4 DEF Right, Annotates
<1>6. Holds(x.sure, disk) /\ (~errors => Holds(x.calm, disk))
  BY <1>3, <1>4 DEF Right
<1>7. /\ Annotates(F, cmdfile, set, before)
      /\ ~set.keep => <<Outfile(set), Wanted(set, before)>> \in F[Len(cmdfile) + 1].calm
  BY DEF Right
<1>8. ASSUME NEW u, NEW v, v \subseteq u, Holds(u, disk) PROVE Holds(v, disk)
  BY <1>8 DEF Holds
<1>9. CASE op = "TRAP"
  <2>1. y.sure = {} /\ y.calm \subseteq x.calm /\ ~y.guarded
    BY <1>5, <1>9, TrapLeads
  <2>2. Holds(y.sure, disk) /\ (~errors => Holds(y.calm, disk))
    BY <1>6, <1>8, <2>1
  <2>3. ip' = ip + 1
    BY <1>1, <1>9
  <2>4. QED
    BY <1>2, <1>3, <1>4, <1>7, <2>1, <2>2, <2>3 DEF Right, Sound
<1>10. CASE op # "TRAP"
  <2>1. y.sure \subseteq x.sure /\ y.calm \subseteq x.calm /\ (op = "IF_NERR" <=> y.guarded)
    BY <1>1, <1>5, <1>10, PlainLeads
  <2>2. Holds(y.sure, disk) /\ (~errors => Holds(y.calm, disk))
    BY <1>6, <1>8, <2>1
  <2>3. CASE op # "IF_NERR" \/ ~errors
    <3>1. ip' = ip + 1
      BY <1>1, <2>3
    <3>2. y.guarded => ~errors
      BY <2>1, <2>3
    <3>3. QED
      BY <1>2, <1>3, <1>4, <1>7, <2>2, <3>1, <3>2 DEF Right, Sound
  <2>4. CASE op = "IF_NERR" /\ errors
    <3>1. ip' = ip + 2 /\ ip + 1 \in 1..Len(cmdfile)
      BY <1>1, <1>3, <2>4
    <3>2. PICK d, z : d = cmdfile[ip + 1] /\ z = F[ip + 2]
      OBVIOUS
    <3>3. d.op = "EXEC"
      BY <1>3, <2>4, <3>2 DEF Laid
    <3>4. Leads(d, y, z, set, before)
      <4>1. (ip + 1) + 1 = ip + 2
        BY <1>3
      <4>2. QED
        BY <1>4, <1>7, <3>1, <3>2, <4>1 DEF Annotates
    <3>5. ~z.guarded /\ z.sure \subseteq y.sure
      BY <2>1, <2>4, <3>3, <3>4, ExecLeads
    <3>6. Holds(z.sure, disk)
      BY <1>8, <2>2, <3>5
    <3>7. QED
      BY <1>2, <1>3, <1>7, <2>4, <3>1, <3>2, <3>5, <3>6 DEF Right, Sound
  <2>5. QED
    BY <2>3, <2>4
<1>11. QED
  BY <1>9, <1>10

\* Behind a TRAP nothing is supposed of what the source before it has made.
LEMMA FailedBuilds ==
    ASSUME Shape, Sound, NEW F, Right(F), Failed
    PROVE  Sound' /\ Right(F)' /\ pc' = "run"
<1>1. /\ pc = "run" /\ status' = FALSE /\ errors' = TRUE
      /\ UNCHANGED <<disk, set, cmdfile, before>>
      /\ Going(cmdfile, ip, status, erract) /\ status
  BY DEF Failed, Shape, driverVars
<1>2. Laid(cmdfile) /\ ip \in 1..Len(cmdfile) /\ ip > 1 /\ cmdfile[ip - 1].op = "EXEC" /\ erract = "skip"
  BY <1>1 DEF Going
<1>3. IsSequence(cmdfile) /\ Len(cmdfile) \in Nat
  BY <1>2, SequenceIs DEF Laid
<1>4. ip' = skipto(ip) /\ pc' = pc
  BY <1>2 DEF Failed
<1>5. \E t \in ip..(Len(cmdfile) - 1) : cmdfile[t].op = "TRAP"
  <2>1. ip - 1 \in 1..(Len(cmdfile) - 1)
    BY <1>2, <1>3
  <2>2. PICK t \in ((ip - 1) + 1)..(Len(cmdfile) - 1) : cmdfile[t].op = "TRAP"
    BY <1>2, <2>1 DEF Laid
  <2>3. (ip - 1) + 1 = ip
    BY <1>2, <1>3
  <2>4. QED
    BY <2>2, <2>3
<1>6. PICK k : k = skipto(ip)
  OBVIOUS
<1>7. k \in (ip + 1)..Len(cmdfile) /\ cmdfile[k - 1].op = "TRAP"
  BY <1>2, <1>3, <1>5, <1>6, SkiptoIs
<1>8. k - 1 \in 1..Len(cmdfile) /\ (k - 1) + 1 = k
  BY <1>2, <1>3, <1>7
<1>9. /\ Annotates(F, cmdfile, set, before)
      /\ ~set.keep => <<Outfile(set), Wanted(set, before)>> \in F[Len(cmdfile) + 1].calm
  BY DEF Right
<1>10. Leads(cmdfile[k - 1], F[k - 1], F[k], set, before)
  BY <1>8, <1>9 DEF Annotates
<1>11. F[k].sure = {} /\ ~F[k].guarded
  BY <1>7, <1>10, TrapLeads
<1>12. Holds(F[k].sure, disk)
  BY <1>11 DEF Holds
<1>13. Right(F)'
  BY <1>1, <1>4, <1>6, <1>9, <1>11, <1>12 DEF Right
<1>14. QED
  BY <1>1, <1>4, <1>13 DEF Sound


(***************************************************************************)
(* C: what is written for the sources so far.                              *)
(***************************************************************************)
\* Settings that differ only in where an overlay begins.
Alike(s, t) ==
    /\ t.c_as = s.c_as /\ t.objs = s.objs /\ t.keepas = s.keepas /\ t.reloc = s.reloc
    /\ t.overlay = s.overlay /\ t.outfile = s.outfile

LEMMA SameFiles ==
    ASSUME NEW s, NEW t, Alike(s, t)
    PROVE  /\ Objects(t) = Objects(s) /\ Inputs(t) = Inputs(s) /\ Outfile(t) = Outfile(s)
           /\ Tables(t) = Tables(s)
           /\ \A b : Wanted(t, b) = Wanted(s, b)
<1>1. Objects(t) = Objects(s) /\ Tables(t) = Tables(s) /\ Outfile(t) = Outfile(s)
  BY DEF Alike, Objects, Tables, Outfile
<1>2. Inputs(t) = Inputs(s)
  BY <1>1 DEF Alike, Inputs
<1>3. ASSUME NEW b PROVE Wanted(t, b) = Wanted(s, b)
  <2>1. Start(t, b) = Start(s, b)
    BY <1>1 DEF Start
  <2>2. QED
    BY <1>1, <2>1 DEF Alike, Wanted
<1>4. QED
  BY <1>1, <1>2, <1>3

LEMMA OutlineAlike ==
    ASSUME NEW s, NEW t, Alike(s, t), NEW c, NEW x, NEW y, NEW b, Outline(c, x, y, s, b)
    PROVE  Outline(c, x, y, t, b)
<1>1. /\ Inputs(t) = Inputs(s) /\ Outfile(t) = Outfile(s) /\ Wanted(t, b) = Wanted(s, b)
      /\ t.c_as = s.c_as /\ t.reloc = s.reloc
  BY SameFiles DEF Alike
<1>2. \A d : Unspoilt(t, b, d) <=> Unspoilt(s, b, d)
  BY <1>1 DEF Unspoilt
<1>3. ASSUME NEW e, NEW facts, NEW v, Yields(e, facts, v, s, b) PROVE Yields(e, facts, v, t, b)
  BY <1>2, <1>3 DEF Yields
<1>4. ASSUME NEW e, NEW u, NEW v, Turns(e, u, v, s, b) PROVE Turns(e, u, v, t, b)
  BY <1>3, <1>4 DEF Turns
<1>5. ASSUME NEW e, NEW u, Proper(e, u, s, b) PROVE Proper(e, u, t, b)
  <2>1. Range(e.outs) \cap Inputs(t) = {}
    BY <1>1, <1>5 DEF Proper
  <2>2. \A n \in Range(t.c_as) : n[2] # "SYM" /\ Obj(n) \in Range(e.outs) => Yields(e, u.sure, b[n], t, b)
    BY <1>1, <1>3, <1>5 DEF Proper
  <2>3. Outfile(t) \in Range(e.outs) /\ ~t.reloc => u.guarded /\ Yields(e, u.calm, Wanted(t, b), t, b)
    BY <1>1, <1>3, <1>5 DEF Proper
  <2>4. QED
    BY <2>1, <2>2, <2>3 DEF Proper
<1>6. ASSUME NEW e, NEW u, NEW v, Leads(e, u, v, s, b) PROVE Leads(e, u, v, t, b)
  BY <1>1, <1>4, <1>5, <1>6 DEF Leads
<1>7. IsSequence(c)
  BY DEF Outline
<1>8. PICK F : F[1] = x /\ F[Len(c) + 1] = y /\ Annotates(F, c, s, b)
  BY DEF Outline
<1>9. Annotates(F, c, t, b)
  BY <1>6, <1>8 DEF Annotates
<1>10. QED
  BY <1>7, <1>8, <1>9 DEF Outline

\* The command line does not say where an overlay begins.
LEMMA ArgumentBase ==
    ASSUME Shape, Argument
    PROVE  set'.cbase = set.cbase
<1>1. DOMAIN set = Fields /\ SetOK(set)
  BY DEF Shape, SetOK
<1>2. ASSUME NEW s, DOMAIN s = Fields, NEW arg PROVE Keep(s, arg).cbase = s.cbase
  BY <1>2, FieldsAre DEF Keep
<1>3. ASSUME NEW opt \in Options, NEW arg PROVE Option(set, opt, arg).cbase = set.cbase
  <2>1. Keep([set EXCEPT !.keepas = TRUE], arg).cbase = set.cbase
    <3>1. PICK s : s = [set EXCEPT !.keepas = TRUE]
      OBVIOUS
    <3>2. DOMAIN s = Fields /\ s.cbase = set.cbase
      BY <1>1, <3>1, FieldsAre
    <3>3. QED
      BY <1>2, <3>1, <3>2
  <2>2. QED
    BY <1>1, <1>2, <2>1, FieldsAre DEF Option, Options
<1>4. ASSUME NEW s, DOMAIN s = Fields, NEW name
      PROVE  addobj(s, name).cbase = s.cbase
  BY <1>4, FieldsAre DEF addobj
<1>5. ASSUME NEW name PROVE Named(set, name).cbase = set.cbase
  <2>1. DOMAIN Seen(set) = Fields /\ Seen(set).cbase = set.cbase
    BY <1>1, FieldsAre DEF Seen
  <2>2. PICK r : r = [Seen(set) EXCEPT !.c_as = Append(@, name), !.single = Obj(name)]
    OBVIOUS
  <2>3. DOMAIN r = Fields /\ r.cbase = set.cbase
    BY <2>1, <2>2, FieldsAre
  <2>4. addobj(r, Obj(name)).cbase = set.cbase /\ addobj(Seen(set), name).cbase = set.cbase
    BY <1>4, <2>1, <2>3
  <2>5. QED
    BY <2>2, <2>4 DEF Named
<1>6. CASE line = <<>>
  BY <1>6 DEF Argument
<1>7. CASE line # <<>>
  <2>1. PICK w : w = Head(line)
    OBVIOUS
  <2>2. w.opt \in Options \cup {"file", "H", "unknown"}
    <3>1. IsSequence(line) /\ \A i \in 1..Len(line) : line[i].opt \in Options \cup {"file", "H", "unknown"}
      BY DEF Argument, Shape, Line
    <3>2. 1 \in 1..Len(line) /\ w = line[1]
      BY <1>7, <2>1, <3>1 DEF IsSequence
    <3>3. QED
      BY <3>1, <3>2
  <2>3. \/ UNCHANGED set
        \/ w.opt = "file" /\ set' = Named(set, w.arg)
        \/ w.opt \in Options /\ set' = Option(set, w.opt, w.arg)
    BY <1>7, <2>1, <2>2 DEF Argument
  <2>4. QED
    BY <1>3, <1>5, <2>3
<1>8. QED
  BY <1>6, <1>7


\* Where an overlay begins, when the sources before turn t have been seen.
Foreseen(s, b, t) ==
    /\ t \in 1..(Len(s.c_as) + 1)
    /\ (\A m \in 1..(t - 1) : s.c_as[m][2] # "SYM") => s.cbase = "100"
    /\ \A m \in 1..(t - 1) : s.c_as[m][2] = "SYM" /\ s.overlay => s.cbase = sym2as(b[s.c_as[m]])
\* Of which of them the objects are known.
Covers(s, t, M) == M \subseteq Range(s.c_as) /\ (~s.keepas => \A m \in 1..(t - 1) : s.c_as[m] \in M)

\* C itself writes only the command file and the one for cross references.
Untouched ==
    \A f : f \notin {execmd, crtmp} =>
        IF f \in DOMAIN before THEN f \in DOMAIN disk /\ disk[f] = before[f] ELSE f \notin DOMAIN disk

LEMMA UntouchedSound == ASSUME Untouched, Ordinary(set, before) PROVE Sound
<1>1. execmd \in WorkFiles /\ crtmp \in WorkFiles
  BY DEF WorkFiles
<1>2. \A f \in Inputs(set) \cup Objects(set) \cup {Outfile(set)} : f \notin {execmd, crtmp}
  BY <1>1, Apart DEF Aside
<1>3. ASSUME NEW f \in Inputs(set) \cup Objects(set) \cup {Outfile(set)}
      PROVE  IF f \in DOMAIN before THEN f \in DOMAIN disk /\ disk[f] = before[f] ELSE f \notin DOMAIN disk
  BY <1>2, <1>3 DEF Untouched
<1>4. \A v : \A f \in Objects(set) \cup {Outfile(set)} : Became(disk, before, f, v)
  BY <1>3 DEF Became
<1>5. Unspoilt(set, before, disk)
  BY <1>3 DEF Unspoilt
<1>6. \A n \in Range(set.c_as) : Obj(n) \in Objects(set)
  BY DEF Objects
<1>7. QED
  BY <1>4, <1>5, <1>6 DEF Sound

LEMMA InBounds ==
    ASSUME NEW s, SetOK(s)
    PROVE  /\ Len(s.c_as) \in Nat
           /\ \A m \in 1..Len(s.c_as) : s.c_as[m] \in Range(s.c_as) /\ IsSource(s.c_as[m])
           /\ \A n \in Range(s.c_as) : \E m \in 1..Len(s.c_as) : s.c_as[m] = n
<1>1. IsSequence(s.c_as) /\ \A n \in Range(s.c_as) : IsSource(n)
  BY DEF SetOK
<1>2. Len(s.c_as) \in Nat /\ DOMAIN s.c_as = 1..Len(s.c_as)
  BY <1>1, SequenceIs
<1>3. QED
  BY <1>1, <1>2 DEF Range

\* When all have been seen, an overlay begins where its table says.
LEMMA AllSeen ==
    ASSUME NEW s, SetOK(s), NEW b, Ordinary(s, b), NEW t \in Nat, t > Len(s.c_as), Foreseen(s, b, t)
    PROVE  Based(s, b)
<1>1. Len(s.c_as) \in Nat /\ \A n \in Range(s.c_as) : \E m \in 1..Len(s.c_as) : s.c_as[m] = n
  BY InBounds
<1>2. SUFFICES ASSUME s.overlay
               PROVE  {<<"text", s.cbase>>} = (IF Start(s, b) = {} THEN {<<"text", "100">>} ELSE Start(s, b))
  BY DEF Based
<1>3. CASE Tables(s) = {}
  <2>1. s.cbase = "100"
    <3>1. \A m \in 1..Len(s.c_as) : s.c_as[m] \in Range(s.c_as)
      BY InBounds
    <3>2. t = Len(s.c_as) + 1
      BY <1>1 DEF Foreseen
    <3>3. ASSUME NEW m \in 1..(t - 1) PROVE s.c_as[m][2] # "SYM"
      <4>1. m \in 1..Len(s.c_as)
        BY <1>1, <3>2
      <4>2. QED
        BY <1>3, <3>1, <4>1 DEF Tables
    <3>4. QED
      BY <3>3 DEF Foreseen
  <2>2. Start(s, b) = {}
    BY <1>3 DEF Start
  <2>3. QED
    BY <2>1, <2>2
<1>4. CASE Tables(s) # {}
  <2>1. PICK y : y \in Tables(s)
    BY <1>4
  <2>2. Tables(s) = {y} /\ y \in Range(s.c_as) /\ y[2] = "SYM" /\ \A l, m \in Starts(b[y]) : l = m
    BY <2>1 DEF Ordinary, Tables
  <2>3. s.cbase = sym2as(b[y])
    <3>1. PICK m \in 1..Len(s.c_as) : s.c_as[m] = y
      BY <1>1, <2>2
    <3>2. m \in 1..(t - 1)
      BY <1>1
    <3>3. QED
      BY <1>2, <2>2, <3>1, <3>2 DEF Foreseen
  <2>4. PICK S : S = Starts(b[y])
    OBVIOUS
  <2>5. Start(s, b) = {<<"text", l[2]>> : l \in S}
    BY <2>2, <2>4 DEF Start
  <2>6. CASE S = {}
    <3>1. s.cbase = "100"
      BY <2>3, <2>4, <2>6 DEF sym2as
    <3>2. Start(s, b) = {}
      BY <2>5, <2>6
    <3>3. QED
      BY <3>1, <3>2
  <2>7. CASE S # {}
    <3>1. PICK l \in S : l = CHOOSE k \in S : TRUE
      BY <2>7
    <3>2. s.cbase = l[2]
      BY <2>3, <2>4, <2>7, <3>1 DEF sym2as
    <3>3. S = {l}
      BY <2>2, <2>4, <3>1
    <3>4. Start(s, b) = {<<"text", l[2]>>}
      BY <2>5, <3>3
    <3>5. QED
      BY <3>2, <3>4
  <2>8. QED
    BY <2>6, <2>7
<1>5. QED
  BY <1>3, <1>4


\* What holds of the files at every step of C and of $EXEC.
Building ==
    /\ pc \in {"args", "doit"} => set.cbase = "100" /\ turn = 1
    /\ pc \in {"args", "doit", "sources", "exit"} => Untouched
    /\ pc = "sources" =>
           /\ Foreseen(set, before, turn)
           /\ \E M : /\ Covers(set, turn, M)
                     /\ Outline(cmdfile, Known({}), Known(Facts(M, before)), set, before)
    /\ pc = "run" => Sound /\ \E F : Right(F)
    /\ pc = "ended" =>
           /\ \A n \in Range(set.c_as) : n[2] # "SYM" => Became(disk, before, Obj(n), before[n])
           /\ ~errors /\ ~set.keep =>
                  Outfile(set) \in DOMAIN disk /\ disk[Outfile(set)] = Wanted(set, before)

LEMMA BuildingInit == Init => Building
<1>1. SUFFICES ASSUME Init PROVE Building
  OBVIOUS
<1>2. Setup.cbase = "100"
  BY FieldsAre DEF Setup, NoSettings
<1>3. Untouched
  BY <1>1 DEF Init, Untouched
<1>4. QED
  BY <1>1, <1>2, <1>3 DEF Init, Building

LEMMA ArgumentBuilds ==
    ASSUME Shape, Building, Argument
    PROVE  Building'
<1>1. pc = "args" /\ pc' \in {"args", "doit", "exit"} /\ UNCHANGED <<turn, disk, before>>
  BY DEF Argument
<1>2. set'.cbase = set.cbase
  BY ArgumentBase
<1>3. Untouched'
  BY <1>1 DEF Building, Untouched
<1>4. QED
  BY <1>1, <1>2, <1>3 DEF Building

LEMMA BeginBuilds ==
    ASSUME Shape, Building, Begin
    PROVE  Building'
<1>1. /\ pc = "doit" /\ turn = 1 /\ set.cbase = "100" /\ Untouched /\ UNCHANGED <<turn, before>>
      /\ SetOK(set) /\ DOMAIN set = Fields
  BY DEF Begin, Building, Shape, SetOK
<1>2. PICK x : x = (IF set.xref THEN {crtmp} ELSE {})
  OBVIOUS
<1>3. ASSUME NEW S, S \subseteq {execmd, crtmp}, disk' = Over([f \in S |-> {}], disk) PROVE Untouched'
  <2>1. PICK g : g = [f \in S |-> {}]
    OBVIOUS
  <2>2. DOMAIN g = S
    BY <2>1
  <2>3. /\ DOMAIN Over(g, disk) = DOMAIN g \cup DOMAIN disk
        /\ \A f \in DOMAIN disk \ DOMAIN g : Over(g, disk)[f] = disk[f]
    BY OverIs
  <2>4. DOMAIN disk' = S \cup DOMAIN disk /\ \A f \in DOMAIN disk \ S : disk'[f] = disk[f]
    BY <1>3, <2>1, <2>2, <2>3
  <2>5. PICK e : e = disk'
    OBVIOUS
  <2>6. \A f : f \notin {execmd, crtmp} =>
            IF f \in DOMAIN before THEN f \in DOMAIN e /\ e[f] = before[f] ELSE f \notin DOMAIN e
    BY <1>1, <1>3, <2>4, <2>5 DEF Untouched
  <2>7. QED
    BY <1>1, <2>5, <2>6 DEF Untouched
<1>4. CASE pc' = "exit" /\ disk' = Over([f \in x |-> {}], disk)
  <2>1. x \subseteq {execmd, crtmp}
    BY <1>2
  <2>2. Untouched'
    BY <1>3, <1>4, <2>1
  <2>3. QED
    BY <1>4, <2>2 DEF Building
<1>5. CASE /\ pc' = "sources" /\ disk' = Over([f \in {execmd} \cup x |-> {}], disk)
           /\ set' = [set EXCEPT !.iuds = @ + 1]
           /\ cmdfile' = put_cmd("SKP_ERR") \o (IF set.verbose THEN put_cmd("ECHO") ELSE <<>>)
  <2>1. Untouched'
    <3>1. PICK S : S = {execmd} \cup x
      OBVIOUS
    <3>2. S \subseteq {execmd, crtmp} /\ disk' = Over([f \in S |-> {}], disk)
      BY <1>2, <1>5, <3>1
    <3>3. QED
      BY <1>3, <3>2
  <2>2. set'.cbase = "100" /\ set'.c_as = set.c_as /\ IsSequence(set.c_as)
    BY <1>1, <1>5, FieldsAre DEF SetOK
  <2>3. Foreseen(set', before', turn')
    <3>1. Len(set'.c_as) \in Nat
      BY <2>2, SequenceIs
    <3>2. turn' = 1
      BY <1>1
    <3>3. turn' \in 1..(Len(set'.c_as) + 1) /\ 1..(turn' - 1) = {}
      BY <3>1, <3>2
    <3>4. QED
      BY <2>2, <3>3 DEF Foreseen
  <2>4. \E M : /\ Covers(set', turn', M)
               /\ Outline(cmdfile', Known({}), Known(Facts(M, before')), set', before')
    <3>1. PICK M : M = {}
      OBVIOUS
    <3>2. Covers(set', turn', M)
      <4>1. 1..(turn' - 1) = {}
        BY <1>1
      <4>2. QED
        BY <3>1, <4>1 DEF Covers
    <3>3. Facts(M, before') = {}
      BY <3>1 DEF Facts
    <3>4. PICK k : k = Known({})
      OBVIOUS
    <3>5. ~k.guarded
      BY <3>4 DEF Known, Note
    <3>6. ASSUME NEW s, NEW b PROVE Outline(cmdfile', k, k, s, b)
      <4>1. PICK p, q : p = put_cmd("SKP_ERR") /\ q = (IF set.verbose THEN put_cmd("ECHO") ELSE <<>>)
        OBVIOUS
      <4>2. Outline(p, k, k, s, b)
        BY <3>5, <4>1, OutlineQuiet
      <4>3. Outline(q, k, k, s, b)
        BY <3>5, <4>1, OutlineQuiet, OutlineEmpty
      <4>4. QED
        BY <1>5, <4>1, <4>2, <4>3, OutlineJoin
    <3>7. Outline(cmdfile', k, k, set', before')
      BY <3>6
    <3>8. QED
      BY <3>2, <3>3, <3>4, <3>7
  <2>5. QED
    BY <1>5, <2>1, <2>3, <2>4 DEF Building
<1>6. QED
  BY <1>2, <1>4, <1>5 DEF Begin


LEMMA LocatedAlike ==
    ASSUME NEW s, SetOK(s), NEW name
    PROVE  Alike(s, Located(s, name)) /\ SetOK(Located(s, name))
<1>1. PICK b : b = (IF name \in DOMAIN disk THEN sym2as(disk[name]) ELSE "FFFF")
  OBVIOUS
<1>2. PICK t : t = [s EXCEPT !.cbase = b]
  OBVIOUS
<1>3. DOMAIN s = Fields
  BY DEF SetOK
<1>4. Alike(s, t) /\ Alike(s, s)
  BY <1>2, <1>3, FieldsAre DEF Alike
<1>5. QED
  BY <1>1, <1>2, <1>4, LocatedOK DEF Located

\* One source more.
LEMMA TurnForeseen ==
    ASSUME NEW s, SetOK(s), NEW b, Ordinary(s, b), Unspoilt(s, b, disk), NEW t \in 1..Len(s.c_as),
           Foreseen(s, b, t), NEW name, name = s.c_as[t], NEW r, r = Located(s, name)
    PROVE  Foreseen(r, b, t + 1)
<1>1. Len(s.c_as) \in Nat /\ \A m \in 1..Len(s.c_as) : s.c_as[m] \in Range(s.c_as)
  BY InBounds
<1>2. r.c_as = s.c_as /\ r.overlay = s.overlay
  BY LocatedAlike DEF Alike
<1>3. t + 1 \in 1..(Len(r.c_as) + 1) /\ (t + 1) - 1 = t
  BY <1>1, <1>2
<1>4. \A m \in 1..t : m \in 1..(t - 1) \/ m = t
  BY <1>1
<1>5. /\ (\A m \in 1..(t - 1) : s.c_as[m][2] # "SYM") => s.cbase = "100"
      /\ \A m \in 1..(t - 1) : s.c_as[m][2] = "SYM" /\ s.overlay => s.cbase = sym2as(b[s.c_as[m]])
  BY DEF Foreseen
<1>6. CASE ~s.overlay \/ name[2] # "SYM"
  <2>1. r = s
    BY <1>6 DEF Located
  <2>2. (\A m \in 1..t : s.c_as[m][2] # "SYM") => s.cbase = "100"
    <3>1. \A m \in 1..(t - 1) : m \in 1..t
      BY <1>1
    <3>2. QED
      BY <1>5, <3>1
  <2>3. \A m \in 1..t : s.c_as[m][2] = "SYM" /\ s.overlay => s.cbase = sym2as(b[s.c_as[m]])
    BY <1>4, <1>5, <1>6
  <2>4. QED
    BY <1>3, <2>1, <2>2, <2>3 DEF Foreseen
<1>7. CASE s.overlay /\ name[2] = "SYM"
  <2>1. name \in Tables(s)
    BY <1>1, <1>7 DEF Tables
  <2>2. name \in DOMAIN b /\ Tables(s) = {name}
    BY <2>1 DEF Ordinary
  <2>3. name \in DOMAIN disk /\ disk[name] = b[name]
    <3>1. name \in Inputs(s)
      BY <2>1 DEF Tables, Inputs
    <3>2. QED
      BY <2>2, <3>1 DEF Unspoilt
  <2>4. r.cbase = sym2as(b[name])
    <3>1. DOMAIN s = Fields
      BY DEF SetOK
    <3>2. PICK v : v = sym2as(b[name])
      OBVIOUS
    <3>3. r = [s EXCEPT !.cbase = v]
      BY <1>7, <2>3, <3>2 DEF Located
    <3>4. QED
      BY <3>1, <3>2, <3>3, FieldsAre
  <2>5. ASSUME NEW m \in 1..t, s.c_as[m][2] = "SYM" PROVE s.c_as[m] = name
    <3>1. s.c_as[m] \in Range(s.c_as)
      BY <1>1
    <3>2. s.c_as[m] \in Tables(s)
      BY <2>5, <3>1 DEF Tables
    <3>3. QED
      BY <2>2, <3>2
  <2>6. ~(\A m \in 1..t : s.c_as[m][2] # "SYM")
    BY <1>7
  <2>7. \A m \in 1..t : s.c_as[m][2] = "SYM" => r.cbase = sym2as(b[s.c_as[m]])
    BY <2>4, <2>5
  <2>8. QED
    BY <1>2, <1>3, <2>6, <2>7 DEF Foreseen
<1>8. QED
  BY <1>6, <1>7

LEMMA SourcesBuilds ==
    ASSUME Shape, Building, Ordinary(set, before), Sources
    PROVE  Building'
<1>1. /\ pc = "sources" /\ Untouched /\ UNCHANGED <<disk, before>> /\ SetOK(set) /\ turn \in 1..Len(set.c_as)
  <2>1. turn \in Nat \ {0} /\ SetOK(set)
    BY DEF Shape
  <2>2. Len(set.c_as) \in Nat
    BY <2>1, InBounds
  <2>3. QED
    BY <2>1, <2>2 DEF Sources, Building
<1>2. Untouched'
  BY <1>1 DEF Untouched
<1>3. PICK name : name = set.c_as[turn]
  OBVIOUS
<1>4. PICK cmds, r : cmds = Source(set, name) /\ r = Located(set, name)
  OBVIOUS
<1>5. CASE pc' = "exit"
  BY <1>2, <1>5 DEF Building
<1>6. CASE doexec(cmds) /\ set' = r /\ turn' = turn + 1 /\ pc' = pc
  <2>1. name \in Range(set.c_as) /\ IsSource(name)
    BY <1>1, <1>3, InBounds
  <2>2. Unspoilt(set, before, disk)
    BY <1>1, UntouchedSound DEF Sound
  <2>3. Foreseen(set, before, turn)
    BY <1>1 DEF Building
  <2>4. Foreseen(r, before, turn + 1)
    BY <1>1, <1>3, <1>4, <2>2, <2>3, TurnForeseen
  <2>5. PICK M : /\ Covers(set, turn, M)
                 /\ Outline(cmdfile, Known({}), Known(Facts(M, before)), set, before)
    BY <1>1 DEF Building
  <2>6. PICK N : N = Done(set, M, name)
    OBVIOUS
  <2>7. Alike(set, r)
    BY <1>1, <1>4, LocatedAlike
  <2>8. Covers(r, turn + 1, N)
    <3>1. N \subseteq Range(set.c_as) /\ M \subseteq N
      BY <2>1, <2>5, <2>6 DEF Covers, Done
    <3>2. ~set.keepas => \A m \in 1..((turn + 1) - 1) : set.c_as[m] \in N
      <4>1. SUFFICES ASSUME ~set.keepas, NEW m \in 1..((turn + 1) - 1) PROVE set.c_as[m] \in N
        OBVIOUS
      <4>2. m \in 1..(turn - 1) \/ m = turn
        BY <1>1
      <4>3. N = M \cup {name}
        BY <2>6, <4>1 DEF Done
      <4>4. QED
        BY <1>3, <2>5, <4>1, <4>2, <4>3 DEF Covers
    <3>3. QED
      BY <2>7, <3>1, <3>2 DEF Covers, Alike
  <2>9. Outline(cmds, Known(Facts(M, before)), Known(Facts(N, before)), set, before)
    <3>1. M \subseteq Range(set.c_as)
      BY <2>5 DEF Covers
    <3>2. Outline(Source(set, name), Known(Facts(M, before)), Known(Facts(Done(set, M, name), before)), set, before)
      BY <2>1, <3>1, SourceOutline
    <3>3. QED
      BY <1>4, <2>6, <3>2
  <2>10. Outline(cmdfile \o cmds, Known({}), Known(Facts(N, before)), set, before)
    BY <2>5, <2>9, OutlineJoin
  <2>11. Outline(cmdfile \o cmds, Known({}), Known(Facts(N, before)), r, before)
    BY <2>7, <2>10, OutlineAlike
  <2>12. cmdfile' = cmdfile \o cmds
    BY <1>6 DEF doexec
  <2>13. Foreseen(set', before', turn')
    BY <1>1, <1>6, <2>4
  <2>14. Covers(set', turn', N) /\ Outline(cmdfile', Known({}), Known(Facts(N, before')), set', before')
    BY <1>1, <1>6, <2>8, <2>11, <2>12
  <2>15. pc' = "sources"
    BY <1>1, <1>6
  <2>16. QED
    BY <1>2, <2>13, <2>14, <2>15 DEF Building
<1>7. QED
  BY <1>3, <1>4, <1>5, <1>6 DEF Sources

LEMMA FinishBuilds ==
    ASSUME Shape, Building, Ordinary(set, before), Finish
    PROVE  Building'
<1>1. /\ pc = "sources" /\ Untouched /\ UNCHANGED <<set, turn, disk, before, ip, status, errors>>
      /\ SetOK(set) /\ turn > Len(set.c_as) /\ turn \in Nat /\ ip = 1 /\ errors = FALSE /\ status = FALSE
  BY DEF Shape, Building, Finish, execVars
<1>2. Untouched'
  BY <1>1 DEF Untouched
<1>3. CASE pc' = "exit"
  BY <1>2, <1>3 DEF Building
<1>4. CASE doexec(TailOf(set)) /\ pc' = "run"
  <2>1. PICK M : /\ Covers(set, turn, M)
                 /\ Outline(cmdfile, Known({}), Known(Facts(M, before)), set, before)
    BY <1>1 DEF Building
  <2>2. Foreseen(set, before, turn)
    BY <1>1 DEF Building
  <2>3. ~set.keep => M = Range(set.c_as) /\ Based(set, before)
    <3>1. SUFFICES ASSUME ~set.keep PROVE M = Range(set.c_as) /\ Based(set, before)
      OBVIOUS
    <3>2. ~set.keepas
      BY <3>1 DEF Ordinary
    <3>3. /\ Len(set.c_as) \in Nat
          /\ \A n \in Range(set.c_as) : \E m \in 1..Len(set.c_as) : set.c_as[m] = n
      BY <1>1, InBounds
    <3>4. \A m \in 1..Len(set.c_as) : m \in 1..(turn - 1)
      BY <1>1, <3>3
    <3>5. M = Range(set.c_as)
      BY <2>1, <3>2, <3>3, <3>4 DEF Covers
    <3>6. Based(set, before)
      BY <1>1, <2>2, AllSeen
    <3>7. QED
      BY <3>5, <3>6
  <2>4. PICK y : /\ ~set.keep => <<Outfile(set), Wanted(set, before)>> \in y.calm
                 /\ Outline(TailOf(set), Known(Facts(M, before)), y, set, before)
    <3>1. M \subseteq Range(set.c_as)
      BY <2>1 DEF Covers
    <3>2. QED
      BY <1>1, <2>3, <3>1, TailOutline
  <2>5. cmdfile' = cmdfile \o TailOf(set)
    BY <1>4 DEF doexec
  <2>6. PICK q : q = cmdfile \o TailOf(set)
    OBVIOUS
  <2>7. Outline(q, Known({}), y, set, before)
    BY <2>1, <2>4, <2>6, OutlineJoin
  <2>8. PICK F : F[1] = Known({}) /\ F[Len(q) + 1] = y /\ Annotates(F, q, set, before)
    BY <2>7 DEF Outline
  <2>9. Right(F)'
    <3>1. F[1].sure = {} /\ F[1].calm = {} /\ ~F[1].guarded
      BY <2>8 DEF Known, Note
    <3>2. \A d : Holds({}, d)
      BY DEF Holds
    <3>3. ip' = 1 /\ cmdfile' = q /\ set' = set /\ before' = before /\ disk' = disk
      BY <1>1, <2>5, <2>6
    <3>4. QED
      BY <2>4, <2>8, <3>1, <3>2, <3>3 DEF Right
  <2>10. Sound'
    <3>1. Sound
      BY <1>1, UntouchedSound
    <3>2. QED
      BY <1>1, <3>1 DEF Sound
  <2>11. QED
    BY <1>4, <2>9, <2>10 DEF Building
<1>5. QED
  BY <1>3, <1>4 DEF Finish

LEMMA RunningBuilds ==
    ASSUME Shape, Cleaning, Building, Ordinary(set, before), OneLong(cmdfile),
           Failed \/ Run \/ RemoveFile \/ Control
    PROVE  Building'
<1>1. pc = "run"
  BY DEF Failed, Run, RemoveFile, Control, Ready
<1>2. Sound /\ Kept
  BY <1>1 DEF Building, Cleaning
<1>3. PICK F : Right(F)
  BY <1>1 DEF Building
<1>4. CASE Failed
  <2>1. Sound' /\ Right(F)' /\ pc' = "run"
    BY <1>2, <1>3, <1>4, FailedBuilds
  <2>2. QED
    BY <2>1 DEF Building
<1>5. CASE Run
  <2>1. Sound' /\ Right(F)' /\ pc' = "run"
    BY <1>2, <1>3, <1>5, RunBuilds
  <2>2. QED
    BY <2>1 DEF Building
<1>6. CASE Control
  <2>1. Sound' /\ Right(F)' /\ pc' = "run"
    BY <1>2, <1>3, <1>6, ControlBuilds
  <2>2. QED
    BY <2>1 DEF Building
<1>7. CASE RemoveFile
  <2>1. /\ Sound' /\ pc' \in {"run", "ended"}
        /\ pc' = "run" => Right(F)'
        /\ pc' = "ended" /\ ~errors' /\ ~set'.keep =>
               /\ Outfile(set') \in DOMAIN disk'
               /\ disk'[Outfile(set')] = Wanted(set', before')
    BY <1>2, <1>3, <1>7, RemoveBuilds
  <2>2. CASE pc' = "run"
    BY <2>1, <2>2 DEF Building
  <2>3. CASE pc' = "ended"
    BY <2>1, <2>3 DEF Building, Sound
  <2>4. QED
    BY <2>1, <2>2, <2>3
<1>8. QED
  BY <1>4, <1>5, <1>6, <1>7


LEMMA BuildingKept == Shape /\ Cleaning /\ Building /\ Plain /\ [Next]_vars => Building'
<1>1. SUFFICES ASSUME Shape, Cleaning, Building, Plain, [Next]_vars PROVE Building'
  OBVIOUS
<1>2. CASE UNCHANGED vars
  <2>1. ASSUME NEW F, Right(F) PROVE Right(F)'
    BY <1>2, <2>1 DEF vars, Right
  <2>2. Building => Building'
    BY <1>2, <2>1 DEF vars, Building, Sound, Untouched
  <2>3. QED
    BY <1>1, <2>2
<1>3. CASE Argument
  BY <1>1, <1>3, ArgumentBuilds
<1>4. CASE Begin
  BY <1>1, <1>4, BeginBuilds
<1>5. CASE Sources \/ Finish
  <2>1. Ordinary(set, before)
    BY <1>1, <1>5 DEF Sources, Finish, Plain
  <2>2. QED
    BY <1>1, <1>5, <2>1, SourcesBuilds, FinishBuilds
<1>6. CASE Failed \/ Run \/ RemoveFile \/ Control
  <2>1. Ordinary(set, before) /\ OneLong(cmdfile)
    BY <1>1, <1>6 DEF Failed, Run, RemoveFile, Control, Ready, Plain
  <2>2. QED
    BY <1>1, <1>6, <2>1, RunningBuilds
<1>7. QED
  BY <1>1, <1>2, <1>3, <1>4, <1>5, <1>6 DEF Next

LEMMA Builds == Spec /\ []Plain => [](Shape /\ Building)
<1>1. QED
  BY CleaningInit, BuildingInit, Shaped, CleaningKept, BuildingKept, PTL DEF Spec

\* An object is made of its own source, or what was there is left, or a part of
\* what a failed pass wrote, or nothing: through the temporary files all sources
\* share, whichever passes fail (ec.c:756-830, exec.as:376-382).
THEOREM OwnSources == Spec /\ []Plain => []OwnSource
<1>1. Shape /\ Building => OwnSource
  <2>1. SUFFICES ASSUME Shape, Building, NEW name \in Range(set.c_as), name[2] # "SYM"
                 PROVE  \/ SameAsBefore(Obj(name)) \/ Obj(name) \notin DOMAIN disk
                        \/ disk[Obj(name)] \in {Junk, before[name]}
    BY DEF OwnSource, Sourced
  <2>2. CASE pc \in {"run", "ended"}
    <3>1. Became(disk, before, Obj(name), before[name])
      BY <2>1, <2>2 DEF Building, Sound
    <3>2. QED
      BY <3>1 DEF Became, SameAsBefore
  <2>3. CASE pc \in {"args", "doit", "sources", "exit"}
    <3>1. Obj(name) \notin {execmd, crtmp}
      BY DEF Obj, execmd, crtmp
    <3>2. QED
      BY <2>1, <2>3, <3>1 DEF Building, Untouched, SameAsBefore
  <2>4. QED
    BY <2>1, <2>2, <2>3 DEF Shape
<1>2. QED
  BY <1>1, Builds, PTL

\* The program is linked from all that was named, as it was when C started, or
\* it is the old one, or a part, or none; and if nothing has failed it is there
\* (IF_NERR, ec.c:488).
THEOREM Linking == Spec /\ []Plain => []Built
<1>1. Shape /\ Building => Built
  <2>1. SUFFICES ASSUME Building PROVE Built
    OBVIOUS
  <2>2. pc = "run" /\ ~set.reloc => Became(disk, before, Outfile(set), Wanted(set, before))
    BY <2>1 DEF Building, Sound
  <2>3. QED
    BY <2>1, <2>2 DEF Building, Built, Became, SameAsBefore
<1>2. QED
  BY <1>1, Builds, PTL
=============================================================================
