---------------------------- MODULE DriverProofs ----------------------------
(***************************************************************************)
(* Theorems about Driver for every command line, whatever pass may fail.   *)
(***************************************************************************)
EXTENDS Driver, FiniteSetTheorems, NaturalsInduction, SequenceTheorems, WellFoundedInduction, TLAPS

(***************************************************************************)
(* Sequences.                                                              *)
(***************************************************************************)
IsSequence(c) == \E T : c \in Seq(T)

LEMMA SequenceIs ==
    ASSUME NEW c, IsSequence(c)
    PROVE  Len(c) \in Nat /\ DOMAIN c = 1..Len(c)
  BY DEF IsSequence

LEMMA Joined ==
    ASSUME NEW a, NEW b, IsSequence(a), IsSequence(b)
    PROVE  /\ IsSequence(a \o b)
           /\ Len(a) \in Nat /\ Len(b) \in Nat /\ Len(a \o b) = Len(a) + Len(b)
           /\ \A i \in 1..Len(a) : (a \o b)[i] = a[i]
           /\ \A i \in 1..Len(b) : (a \o b)[Len(a) + i] = b[i]
<1>1. PICK S : a \in Seq(S)
  BY DEF IsSequence
<1>2. PICK T : b \in Seq(T)
  BY DEF IsSequence
<1>3. a \in Seq(S \cup T) /\ b \in Seq(S \cup T)
  BY <1>1, <1>2
<1>4. QED
  BY <1>3 DEF IsSequence

LEMMA OneIsSequence ==
    ASSUME NEW x
    PROVE  IsSequence(<<x>>) /\ Len(<<x>>) = 1 /\ <<x>>[1] = x
<1>1. <<x>> \in Seq({x})
  OBVIOUS
<1>2. QED
  BY <1>1 DEF IsSequence

LEMMA EmptyIsSequence == IsSequence(<<>>) /\ Len(<<>>) = 0
<1>1. <<>> \in Seq({})
  OBVIOUS
<1>2. QED
  BY <1>1 DEF IsSequence

LEMMA Appended ==
    ASSUME NEW c, NEW x, IsSequence(c)
    PROVE  /\ IsSequence(Append(c, x)) /\ Len(Append(c, x)) = Len(c) + 1
           /\ \A i \in 1..Len(c) : Append(c, x)[i] = c[i]
           /\ Append(c, x)[Len(c) + 1] = x
<1>1. PICK T : c \in Seq(T)
  BY DEF IsSequence
<1>2. c \in Seq(T \cup {x})
  BY <1>1
<1>3. QED
  BY <1>2 DEF IsSequence

LEMMA AppendedRange ==
    ASSUME NEW c, NEW x, IsSequence(c)
    PROVE  Range(Append(c, x)) = Range(c) \cup {x}
<1>1. /\ DOMAIN c = 1..Len(c) /\ Len(c) \in Nat
      /\ DOMAIN Append(c, x) = 1..(Len(c) + 1)
      /\ \A i \in 1..Len(c) : Append(c, x)[i] = c[i]
      /\ Append(c, x)[Len(c) + 1] = x
  BY Appended, SequenceIs
<1>2. QED
  BY <1>1 DEF Range

LEMMA OneRange == ASSUME NEW x PROVE Range(<<x>>) = {x}
  BY DEF Range

\* The place in a joined sequence is one in either.
LEMMA Places ==
    ASSUME NEW a, NEW b, IsSequence(a), IsSequence(b), NEW i \in 1..Len(a \o b)
    PROVE  \/ i \in 1..Len(a) /\ (a \o b)[i] = a[i]
           \/ i - Len(a) \in 1..Len(b) /\ (a \o b)[i] = b[i - Len(a)] /\ i > Len(a)
<1>1. /\ Len(a) \in Nat /\ Len(b) \in Nat /\ Len(a \o b) = Len(a) + Len(b)
      /\ \A k \in 1..Len(a) : (a \o b)[k] = a[k]
      /\ \A k \in 1..Len(b) : (a \o b)[Len(a) + k] = b[k]
  BY Joined
<1>2. CASE i <= Len(a)
  BY <1>1, <1>2
<1>3. CASE i > Len(a)
  <2>1. i - Len(a) \in 1..Len(b) /\ Len(a) + (i - Len(a)) = i
    BY <1>1, <1>3
  <2>2. QED
    BY <1>1, <1>3, <2>1
<1>4. QED
  BY <1>1, <1>2, <1>3

(***************************************************************************)
(* The arguments.                                                          *)
(***************************************************************************)
Fields == DOMAIN NoSettings

\* What the lists of C are, at any time.
SetOK(s) ==
    /\ DOMAIN s = Fields
    /\ IsSequence(s.objs) /\ IsSequence(s.c_as)
    /\ s.nfiles \in Nat /\ Len(s.objs) = s.nfiles /\ Len(s.c_as) <= s.nfiles
    /\ Objects(s) \subseteq Range(s.objs)
    /\ \A name \in Range(s.c_as) : IsSource(name)
    /\ Range(s.c_as) = {} \/ s.single \in Objects(s)

LEMMA FieldsAre ==
    Fields = {"keep", "keepas", "verbose", "optimize", "speed", "reloc", "xref", "xrname", "nolocal",
              "wildcard", "overlay", "iuds", "flgs", "libs", "objs", "c_as", "single", "nfiles",
              "outfile", "cbase"}
  BY DEF Fields, NoSettings


\* A setting that is none of the lists.
LEMMA Otherwise ==
    ASSUME NEW s, SetOK(s), NEW r, DOMAIN r = Fields,
           r.objs = s.objs, r.c_as = s.c_as, r.nfiles = s.nfiles, r.single = s.single
    PROVE  SetOK(r)
  BY DEF SetOK, Objects

LEMMA SetupOK == SetOK(Setup)
<1>1. DOMAIN Setup = Fields /\ Setup.objs = <<>> /\ Setup.c_as = <<>> /\ Setup.nfiles = 0
  BY FieldsAre DEF Setup, NoSettings
<1>2. Range(<<>>) = {}
  BY DEF Range
<1>3. QED
  BY <1>1, <1>2, EmptyIsSequence DEF SetOK, Objects

LEMMA KeepOK ==
    ASSUME NEW s, SetOK(s), NEW arg
    PROVE  SetOK(Keep(s, arg))
<1>1. DOMAIN s = Fields
  BY DEF SetOK
<1>2. SetOK([s EXCEPT !.xref = TRUE, !.xrname = Tail(arg)])
  BY <1>1, FieldsAre, Otherwise
<1>3. SetOK([s EXCEPT !.keep = TRUE])
  BY <1>1, FieldsAre, Otherwise
<1>4. QED
  BY <1>2, <1>3 DEF Keep

LEMMA OptionOK ==
    ASSUME NEW s, SetOK(s), NEW opt, NEW arg,
           opt \in Options
    PROVE  SetOK(Option(s, opt, arg))
<1>1. DOMAIN s = Fields
  BY DEF SetOK
<1>2. /\ SetOK([s EXCEPT !.reloc = TRUE, !.flgs = @ + 1])
      /\ SetOK([s EXCEPT !.wildcard = TRUE])
      /\ SetOK([s EXCEPT !.verbose = TRUE])
      /\ SetOK([s EXCEPT !.keepas = TRUE])
      /\ SetOK([s EXCEPT !.outfile = arg])
      /\ SetOK([s EXCEPT !.optimize = TRUE, !.speed = @ \/ arg = <<"F">>])
      /\ SetOK([s EXCEPT !.iuds = @ + 1])
      /\ SetOK([s EXCEPT !.libs = @ + 1])
      /\ SetOK([s EXCEPT !.nolocal = TRUE, !.flgs = @ + 1])
      /\ SetOK([s EXCEPT !.flgs = @ + 1])
      /\ SetOK([s EXCEPT !.overlay = TRUE])
  BY <1>1, FieldsAre, Otherwise
<1>3. SetOK(Keep(s, arg)) /\ SetOK(Keep([s EXCEPT !.keepas = TRUE], arg))
  BY <1>2, KeepOK
<1>4. QED
  BY <1>2, <1>3 DEF Option, Options

LEMMA AddobjOK ==
    ASSUME NEW s, DOMAIN s = Fields, NEW name, IsSequence(s.objs)
    PROVE  LET r == addobj(s, name)
           IN  /\ DOMAIN r = Fields /\ r.c_as = s.c_as /\ r.nfiles = s.nfiles /\ r.single = s.single
               /\ r.objs = Append(s.objs, name)
  BY FieldsAre DEF addobj

LEMMA NamedOK ==
    ASSUME NEW s, SetOK(s), NEW name
    PROVE  SetOK(Named(s, name))
<1>1. DOMAIN s = Fields /\ IsSequence(s.objs) /\ IsSequence(s.c_as) /\ s.nfiles \in Nat
      /\ Len(s.objs) = s.nfiles /\ Len(s.c_as) <= s.nfiles /\ Objects(s) \subseteq Range(s.objs)
      /\ \A n \in Range(s.c_as) : IsSource(n)
      /\ (Range(s.c_as) = {} \/ s.single \in Objects(s))
  BY DEF SetOK
<1>2. PICK t : t = Seen(s)
  OBVIOUS
<1>3. DOMAIN t = Fields /\ t.objs = s.objs /\ t.c_as = s.c_as /\ t.nfiles = s.nfiles + 1
      /\ t.single = s.single
  BY <1>1, <1>2, FieldsAre DEF Seen
<1>4. CASE IsSource(name)
  <2>1. PICK u : u = [t EXCEPT !.c_as = Append(@, name), !.single = Obj(name)]
    OBVIOUS
  <2>2. DOMAIN u = Fields /\ u.objs = s.objs /\ u.c_as = Append(s.c_as, name) /\ u.nfiles = s.nfiles + 1
        /\ u.single = Obj(name)
    BY <1>3, <2>1, FieldsAre
  <2>3. PICK r : r = addobj(u, Obj(name))
    OBVIOUS
  <2>4. DOMAIN r = Fields /\ r.c_as = u.c_as /\ r.nfiles = u.nfiles /\ r.objs = Append(u.objs, Obj(name))
        /\ r.single = u.single
    BY <1>1, <2>2, <2>3, AddobjOK
  <2>5. /\ IsSequence(r.c_as) /\ Len(r.c_as) = Len(s.c_as) + 1 /\ Range(r.c_as) = Range(s.c_as) \cup {name}
        /\ IsSequence(r.objs) /\ Len(r.objs) = Len(s.objs) + 1 /\ Range(r.objs) = Range(s.objs) \cup {Obj(name)}
    BY <1>1, <2>2, <2>4, Appended, AppendedRange
  <2>6. Len(s.c_as) \in Nat
    BY <1>1, SequenceIs
  <2>7. Objects(r) \subseteq Range(r.objs) /\ r.single \in Objects(r)
    BY <1>1, <2>2, <2>4, <2>5 DEF Objects
  <2>8. SetOK(r)
    BY <1>1, <1>4, <2>2, <2>4, <2>5, <2>6, <2>7 DEF SetOK
  <2>9. QED
    BY <1>2, <1>4, <2>1, <2>3, <2>8 DEF Named
<1>5. CASE ~IsSource(name)
  <2>1. PICK r : r = addobj(t, name)
    OBVIOUS
  <2>2. DOMAIN r = Fields /\ r.c_as = s.c_as /\ r.nfiles = s.nfiles + 1 /\ r.objs = Append(s.objs, name)
        /\ r.single = s.single
    BY <1>1, <1>3, <2>1, AddobjOK
  <2>3. /\ IsSequence(r.objs) /\ Len(r.objs) = Len(s.objs) + 1 /\ Range(r.objs) = Range(s.objs) \cup {name}
    BY <1>1, <2>2, Appended, AppendedRange
  <2>4. Len(s.c_as) \in Nat
    BY <1>1, SequenceIs
  <2>5. /\ Objects(r) \subseteq Range(r.objs)
        /\ (Range(r.c_as) = {} \/ r.single \in Objects(r))
    BY <1>1, <2>2, <2>3 DEF Objects
  <2>6. SetOK(r)
    BY <1>1, <2>2, <2>3, <2>4, <2>5 DEF SetOK
  <2>7. QED
    BY <1>2, <1>5, <2>1, <2>6 DEF Named
<1>6. QED
  BY <1>4, <1>5


(***************************************************************************)
(* The commands.  What holds of the parts of the command file whatever is  *)
(* on the command line.                                                    *)
(***************************************************************************)
Ops == {"EXEC", "RM_FILE", "RM_EXIT", "TRAP", "PRINT", "ECHO", "SKP_ERR", "IF_NERR"}

Formed(c) == c.op \in Ops /\ IsSequence(c.ins) /\ IsFiniteSet(c.adds)
Removes(c, file) == c.op = "RM_FILE" /\ c.outs[1] = file

\* A part of the file in which no program writes one of the files W: a guard has
\* something to guard, and what is written for a long command is removed.
Fitting(c, i, W) ==
    /\ Formed(c[i]) /\ c[i].op # "RM_EXIT"
    /\ c[i].op = "EXEC" => Range(c[i].outs) \cap W = {}
    /\ c[i].op = "IF_NERR" => i < Len(c) /\ c[i + 1].op = "EXEC"
    /\ IsLong(c[i]) => \E k \in (i + 1)..Len(c) : Removes(c[k], redname)
Block(c, W) == IsSequence(c) /\ \A i \in 1..Len(c) : Fitting(c, i, W)

LEMMA BlocksJoin ==
    ASSUME NEW a, NEW b, NEW W, Block(a, W), Block(b, W)
    PROVE  Block(a \o b, W)
<1> DEFINE c == a \o b
<1>1. IsSequence(a) /\ IsSequence(b)
  BY DEF Block
<1>2. /\ IsSequence(c) /\ Len(a) \in Nat /\ Len(b) \in Nat /\ Len(c) = Len(a) + Len(b)
      /\ \A i \in 1..Len(a) : c[i] = a[i]
      /\ \A i \in 1..Len(b) : c[Len(a) + i] = b[i]
  BY <1>1, Joined
<1> HIDE DEF c
<1>3. ASSUME NEW i \in 1..Len(a) PROVE Fitting(c, i, W)
  <2>1. Fitting(a, i, W) /\ c[i] = a[i]
    BY <1>2 DEF Block
  <2>2. ASSUME c[i].op = "IF_NERR" PROVE i < Len(c) /\ c[i + 1].op = "EXEC"
    <3>1. i < Len(a) /\ a[i + 1].op = "EXEC"
      BY <2>1, <2>2 DEF Fitting
    <3>2. i + 1 \in 1..Len(a) /\ i < Len(c)
      BY <1>2, <3>1
    <3>3. QED
      BY <1>2, <3>1, <3>2
  <2>3. ASSUME IsLong(c[i]) PROVE \E k \in (i + 1)..Len(c) : Removes(c[k], redname)
    <3>1. PICK k \in (i + 1)..Len(a) : Removes(a[k], redname)
      BY <2>1, <2>3 DEF Fitting
    <3>2. k \in 1..Len(a) /\ k \in (i + 1)..Len(c)
      BY <1>2
    <3>3. QED
      BY <1>2, <3>1, <3>2
  <2>4. QED
    BY <2>1, <2>2, <2>3 DEF Fitting
<1>4. ASSUME NEW j \in 1..Len(b) PROVE Fitting(c, Len(a) + j, W)
  <2>1. Fitting(b, j, W) /\ c[Len(a) + j] = b[j]
    BY <1>2 DEF Block
  <2>2. ASSUME b[j].op = "IF_NERR" PROVE Len(a) + j < Len(c) /\ c[Len(a) + j + 1].op = "EXEC"
    <3>1. j < Len(b) /\ b[j + 1].op = "EXEC"
      BY <2>1, <2>2 DEF Fitting
    <3>2. j + 1 \in 1..Len(b) /\ Len(a) + j < Len(c) /\ Len(a) + (j + 1) = Len(a) + j + 1
      BY <1>2, <3>1
    <3>3. QED
      BY <1>2, <3>1, <3>2
  <2>3. ASSUME IsLong(b[j]) PROVE \E k \in (Len(a) + j + 1)..Len(c) : Removes(c[k], redname)
    <3>1. PICK k \in (j + 1)..Len(b) : Removes(b[k], redname)
      BY <2>1, <2>3 DEF Fitting
    <3>2. k \in 1..Len(b) /\ Len(a) + k \in (Len(a) + j + 1)..Len(c)
      BY <1>2
    <3>3. c[Len(a) + k] = b[k]
      BY <1>2, <3>2
    <3>4. Removes(c[Len(a) + k], redname)
      BY <3>1, <3>3
    <3>5. QED
      BY <3>2, <3>4
  <2>4. QED
    BY <2>1, <2>2, <2>3 DEF Fitting
<1>5. ASSUME NEW i \in 1..Len(c) PROVE Fitting(c, i, W)
  <2>1. CASE i <= Len(a)
    BY <1>2, <1>3, <2>1
  <2>2. CASE i > Len(a)
    <3>1. i - Len(a) \in 1..Len(b) /\ Len(a) + (i - Len(a)) = i
      BY <1>2, <2>2
    <3>2. QED
      BY <1>4, <3>1
  <2>3. QED
    BY <1>2, <2>1, <2>2
<1>6. QED
  BY <1>2, <1>5 DEF Block, c

LEMMA EmptyBlock == ASSUME NEW W PROVE Block(<<>>, W)
  BY EmptyIsSequence DEF Block

\* A command by itself.
LEMMA OneBlock ==
    ASSUME NEW c, NEW W, Formed(c), c.op \notin {"RM_EXIT", "IF_NERR", "EXEC"}
    PROVE  Block(<<c>>, W)
  BY OneIsSequence DEF Block, Fitting, IsLong

LEMMA PutBlock ==
    ASSUME NEW W, NEW op \in {"TRAP", "PRINT", "ECHO", "SKP_ERR"}
    PROVE  Block(put_cmd(op), W)
<1>1. PICK c : c = Command(op, "none", <<>>, <<>>, 0)
  OBVIOUS
<1>2. c.op = op /\ c.ins = <<>> /\ c.adds = {}
  BY <1>1 DEF Command
<1>3. Formed(c)
  BY <1>2, EmptyIsSequence, FS_EmptySet DEF Formed, Ops
<1>4. Block(<<c>>, W)
  BY <1>2, <1>3, OneBlock
<1>5. QED
  BY <1>1, <1>4 DEF put_cmd

\* rm() ends with the removal.
LEMMA RmIs ==
    ASSUME NEW s, NEW file
    PROVE  \E c, p : /\ rm(s, file) = p \o <<c>> /\ (p = <<>> \/ p = put_cmd("PRINT"))
                     /\ Formed(c) /\ Removes(c, file) /\ c.outs = <<file>>
<1>1. PICK c : c = Command("RM_FILE", "none", <<>>, <<file>>, 0)
  OBVIOUS
<1>2. c.op = "RM_FILE" /\ c.ins = <<>> /\ c.adds = {} /\ c.outs = <<file>>
  BY <1>1 DEF Command
<1>3. Formed(c) /\ Removes(c, file)
  BY <1>2, EmptyIsSequence, FS_EmptySet DEF Formed, Ops, Removes
<1>4. QED
  BY <1>1, <1>2, <1>3 DEF rm, print

LEMMA RmBlock == ASSUME NEW s, NEW file, NEW W PROVE Block(rm(s, file), W)
<1>1. PICK c, p : /\ rm(s, file) = p \o <<c>> /\ (p = <<>> \/ p = put_cmd("PRINT"))
                  /\ Formed(c) /\ Removes(c, file)
  BY RmIs
<1>2. Block(p, W)
  BY <1>1, EmptyBlock, PutBlock
<1>3. Block(<<c>>, W)
  BY <1>1, OneBlock DEF Removes
<1>4. QED
  BY <1>1, <1>2, <1>3, BlocksJoin


\* A program, which is removed with its words if it is long.
LEMMA WrittenBlock ==
    ASSUME NEW s, NEW c, NEW W, Formed(c), c.op = "EXEC", Range(c.outs) \cap W = {}
    PROVE  Block(Written(s, c), W) /\ Len(Written(s, c)) >= 1 /\ Written(s, c)[1] = c
<1>1. CASE ~IsLong(c)
  <2>1. Written(s, c) = <<c>> \o <<>>
    BY <1>1 DEF Written
  <2>2. Written(s, c) = <<c>>
    BY <2>1
  <2>3. QED
    BY <1>1, <2>2, OneIsSequence DEF Block, Fitting
<1>2. CASE IsLong(c)
  <2>1. PICK r, p : /\ rm(s, redname) = p \o <<r>> /\ (p = <<>> \/ p = put_cmd("PRINT"))
                    /\ Formed(r) /\ Removes(r, redname)
    BY RmIs
  <2>2. PICK q : q = rm(s, redname)
    OBVIOUS
  <2>3. Block(q, W)
    BY <2>2, RmBlock
  <2>4. IsSequence(p) /\ IsSequence(<<r>>)
    BY <2>1, EmptyIsSequence, OneIsSequence DEF put_cmd
  <2>5. Len(q) \in Nat /\ Len(q) >= 1 /\ q[Len(q)] = r
    BY <2>1, <2>2, <2>4, Joined, OneIsSequence
  <2>6. PICK w : w = <<c>> \o q
    OBVIOUS
  <2>7. IsSequence(q) /\ IsSequence(<<c>>) /\ Len(<<c>>) = 1 /\ <<c>>[1] = c
    BY <2>3, OneIsSequence DEF Block
  <2>8. /\ IsSequence(w) /\ Len(w) = 1 + Len(q) /\ w[1] = c
        /\ \A i \in 1..Len(q) : w[1 + i] = q[i]
    BY <2>6, <2>7, Joined
  <2>9. Fitting(w, 1, W)
    <3>1. 1 + Len(q) \in 2..Len(w) /\ Removes(w[1 + Len(q)], redname)
      BY <2>1, <2>5, <2>8
    <3>2. QED
      BY <2>8, <3>1 DEF Fitting
  <2>10. ASSUME NEW i \in 1..Len(q) PROVE Fitting(w, 1 + i, W)
    <3>1. Fitting(q, i, W) /\ w[1 + i] = q[i]
      BY <2>3, <2>8 DEF Block
    <3>2. ASSUME q[i].op = "IF_NERR" PROVE 1 + i < Len(w) /\ w[1 + i + 1].op = "EXEC"
      <4>1. i < Len(q) /\ q[i + 1].op = "EXEC"
        BY <3>1, <3>2 DEF Fitting
      <4>2. i + 1 \in 1..Len(q) /\ 1 + (i + 1) = 1 + i + 1
        BY <2>5, <4>1
      <4>3. QED
        BY <2>8, <4>1, <4>2
    <3>3. ASSUME IsLong(q[i]) PROVE \E k \in (1 + i + 1)..Len(w) : Removes(w[k], redname)
      <4>1. PICK k \in (i + 1)..Len(q) : Removes(q[k], redname)
        BY <3>1, <3>3 DEF Fitting
      <4>2. k \in 1..Len(q) /\ 1 + k \in (1 + i + 1)..Len(w)
        BY <2>5, <2>8
      <4>3. Removes(w[1 + k], redname)
        BY <2>8, <4>1, <4>2
      <4>4. QED
        BY <4>2, <4>3
    <3>4. QED
      BY <3>1, <3>2, <3>3 DEF Fitting
  <2>11. ASSUME NEW i \in 1..Len(w) PROVE Fitting(w, i, W)
    <3>1. CASE i = 1
      BY <2>9, <3>1
    <3>2. CASE i # 1
      <4>1. i - 1 \in 1..Len(q) /\ 1 + (i - 1) = i
        BY <2>5, <2>8, <3>2
      <4>2. QED
        BY <2>10, <4>1
    <3>3. QED
      BY <3>1, <3>2
  <2>12. Block(w, W) /\ Len(w) >= 1
    BY <2>5, <2>8, <2>11 DEF Block
  <2>13. w = Written(s, c)
    BY <1>2, <2>2, <2>6 DEF Written
  <2>14. QED
    BY <2>8, <2>12, <2>13
<1>3. QED
  BY <1>1, <1>2

\* A guard and a block that begins with a program.
LEMMA GuardedBlock ==
    ASSUME NEW q, NEW W, Block(q, W), Len(q) >= 1, q[1].op = "EXEC"
    PROVE  Block(put_cmd("IF_NERR") \o q, W)
<1>1. PICK g : g = Command("IF_NERR", "none", <<>>, <<>>, 0)
  OBVIOUS
<1>2. g.op = "IF_NERR" /\ Formed(g) /\ put_cmd("IF_NERR") = <<g>>
  BY <1>1, EmptyIsSequence, FS_EmptySet DEF Command, Formed, Ops, put_cmd
<1>3. PICK w : w = <<g>> \o q
  OBVIOUS
<1>4. IsSequence(q) /\ Len(q) \in Nat /\ IsSequence(<<g>>) /\ Len(<<g>>) = 1 /\ <<g>>[1] = g
  BY OneIsSequence, SequenceIs DEF Block
<1>5. /\ IsSequence(w) /\ Len(w) = 1 + Len(q) /\ w[1] = g
      /\ \A i \in 1..Len(q) : w[1 + i] = q[i]
  BY <1>3, <1>4, Joined
<1>6. Fitting(w, 1, W)
  <2>1. 1 < Len(w) /\ w[1 + 1].op = "EXEC"
    BY <1>4, <1>5
  <2>2. QED
    BY <1>2, <1>5, <2>1 DEF Fitting, IsLong
<1>7. ASSUME NEW i \in 1..Len(q) PROVE Fitting(w, 1 + i, W)
  <2>1. Fitting(q, i, W) /\ w[1 + i] = q[i]
    BY <1>5 DEF Block
  <2>2. ASSUME q[i].op = "IF_NERR" PROVE 1 + i < Len(w) /\ w[1 + i + 1].op = "EXEC"
    <3>1. i < Len(q) /\ q[i + 1].op = "EXEC"
      BY <2>1, <2>2 DEF Fitting
    <3>2. i + 1 \in 1..Len(q) /\ 1 + (i + 1) = 1 + i + 1
      BY <1>4, <3>1
    <3>3. QED
      BY <1>5, <3>1, <3>2
  <2>3. ASSUME IsLong(q[i]) PROVE \E k \in (1 + i + 1)..Len(w) : Removes(w[k], redname)
    <3>1. PICK k \in (i + 1)..Len(q) : Removes(q[k], redname)
      BY <2>1, <2>3 DEF Fitting
    <3>2. k \in 1..Len(q) /\ 1 + k \in (1 + i + 1)..Len(w)
      BY <1>4, <1>5
    <3>3. Removes(w[1 + k], redname)
      BY <1>5, <3>1, <3>2
    <3>4. QED
      BY <3>2, <3>3
  <2>4. QED
    BY <2>1, <2>2, <2>3 DEF Fitting
<1>8. ASSUME NEW i \in 1..Len(w) PROVE Fitting(w, i, W)
  <2>1. CASE i = 1
    BY <1>6, <2>1
  <2>2. CASE i # 1
    <3>1. i - 1 \in 1..Len(q) /\ 1 + (i - 1) = i
      BY <1>4, <1>5, <2>2
    <3>2. QED
      BY <1>7, <3>1
  <2>3. QED
    BY <2>1, <2>2
<1>9. QED
  BY <1>2, <1>3, <1>5, <1>8 DEF Block


LEMMA ExecIs ==
    ASSUME NEW s, NEW prog, NEW ins, NEW outs, NEW words, IsSequence(ins)
    PROVE  \E c : /\ Exec(s, prog, ins, outs, words) = Written(s, c)
                  /\ Formed(c) /\ c.op = "EXEC" /\ c.prog = prog /\ c.ins = ins /\ c.outs = outs /\ c.adds = {}
<1>1. PICK c : c = Command("EXEC", prog, ins, outs, words)
  OBVIOUS
<1>2. c.op = "EXEC" /\ c.prog = prog /\ c.ins = ins /\ c.outs = outs /\ c.adds = {}
  BY <1>1 DEF Command
<1>3. Formed(c)
  BY <1>2, FS_EmptySet DEF Formed, Ops
<1>4. QED
  BY <1>1, <1>2, <1>3 DEF Exec

LEMMA ExecBlock ==
    ASSUME NEW s, NEW prog, NEW ins, NEW outs, NEW words, NEW W, IsSequence(ins), Range(outs) \cap W = {}
    PROVE  LET q == Exec(s, prog, ins, outs, words)
           IN  Block(q, W) /\ Len(q) >= 1 /\ q[1].op = "EXEC"
<1>1. PICK c : /\ Exec(s, prog, ins, outs, words) = Written(s, c)
               /\ Formed(c) /\ c.op = "EXEC" /\ c.outs = outs
  BY ExecIs
<1>2. Block(Written(s, c), W) /\ Len(Written(s, c)) >= 1 /\ Written(s, c)[1] = c
  BY <1>1, WrittenBlock
<1>3. QED
  BY <1>1, <1>2

LEMMA OneInput ==
    ASSUME NEW s, NEW prog, NEW f, NEW outs, NEW words
    PROVE  Block(Exec(s, prog, <<f>>, outs, words), {})
  BY ExecBlock, OneIsSequence

LEMMA ShownBlock == ASSUME NEW s, NEW W PROVE Block(shown(s), W)
  BY EmptyBlock, PutBlock DEF shown, print

LEMMA ZasBlock == ASSUME NEW s, NEW f, NEW name PROVE Block(ZAS(s, f, name), {})
  BY OneInput DEF ZAS

LEMMA CompileBlock == ASSUME NEW s, NEW name PROVE Block(compile(s, name), {})
<1> DEFINE as == <<name[1], "AS">>
           xr == IF s.xref THEN <<crtmp>> ELSE <<>>
           c1 == Exec(s, "CPP", <<name>>, <<tmpf1>>, s.iuds + 2)
           c2 == Exec(s, "P1", <<tmpf1>>, <<tmpf2, tmpf3>> \o xr, 3 + Len(xr))
           c3 == Exec(s, "CGEN", <<tmpf2>>, <<IF s.keepas /\ ~s.optimize THEN as ELSE tmpf1>>, 2)
           c4 == IF ~s.optimize THEN <<>>
                 ELSE Exec(s, "OPTIM", <<tmpf1>>, <<IF s.keepas THEN as ELSE tmpf2>>, 2)
           c5 == IF s.keepas THEN <<>> ELSE ZAS(s, IF s.optimize THEN tmpf2 ELSE tmpf1, name)
<1>1. compile(s, name) = shown(s) \o c1 \o c2 \o c3 \o c4 \o c5
  BY DEF compile
<1>2. Block(c1, {}) /\ Block(c2, {}) /\ Block(c3, {}) /\ Block(c4, {}) /\ Block(c5, {})
  BY OneInput, ZasBlock, EmptyBlock
<1> HIDE DEF c1, c2, c3, c4, c5
<1>3. Block(shown(s) \o c1, {})
  BY <1>2, ShownBlock, BlocksJoin
<1>4. Block(shown(s) \o c1 \o c2, {})
  BY <1>2, <1>3, BlocksJoin
<1>5. Block(shown(s) \o c1 \o c2 \o c3, {})
  BY <1>2, <1>4, BlocksJoin
<1>6. Block(shown(s) \o c1 \o c2 \o c3 \o c4, {})
  BY <1>2, <1>5, BlocksJoin
<1>7. QED
  BY <1>1, <1>2, <1>6, BlocksJoin

LEMMA PassesBlock ==
    ASSUME NEW s, NEW name, IsSource(name)
    PROVE  Block(Passes(s, name), {})
<1>1. CASE name[2] = "C"
  BY <1>1, CompileBlock DEF Passes
<1>2. CASE name[2] = "AS"
  <2>1. Block(shown(s) \o ZAS(s, name, name), {})
    BY ShownBlock, ZasBlock, BlocksJoin
  <2>2. QED
    BY <1>2, <2>1 DEF Passes, assemble
<1>3. CASE name[2] = "SYM"
  <2> DEFINE a == IF s.overlay THEN Exec(s, "SYMTOAS", <<name>>, <<tmpf5>>, 2) \o put_cmd("TRAP") ELSE <<>>
  <2>1. Block(a, {})
    BY OneInput, PutBlock, EmptyBlock, BlocksJoin
  <2> HIDE DEF a
  <2>2. Block(a \o shown(s), {})
    BY <2>1, ShownBlock, BlocksJoin
  <2>3. Block(a \o shown(s) \o ZAS(s, tmpf5, name), {})
    BY <2>2, ZasBlock, BlocksJoin
  <2>4. QED
    BY <1>3, <2>3 DEF Passes, assemble_sym, a
<1>4. QED
  BY <1>1, <1>2, <1>3 DEF IsSource

\* A program's failure stops at a TRAP behind it.
Trapped(c) == \A i \in 1..Len(c) : c[i].op = "EXEC" => \E t \in (i + 1)..Len(c) : c[t].op = "TRAP"

LEMMA TrapIs == put_cmd("TRAP")[1].op = "TRAP" /\ Len(put_cmd("TRAP")) = 1 /\ IsSequence(put_cmd("TRAP"))
<1>1. PICK c : c = Command("TRAP", "none", <<>>, <<>>, 0)
  OBVIOUS
<1>2. c.op = "TRAP" /\ put_cmd("TRAP") = <<c>>
  BY <1>1 DEF Command, put_cmd
<1>3. QED
  BY <1>2, OneIsSequence

LEMMA TrapBehind ==
    ASSUME NEW c, IsSequence(c)
    PROVE  Trapped(c \o put_cmd("TRAP"))
<1>1. PICK t : t = put_cmd("TRAP")
  OBVIOUS
<1>2. PICK w : w = c \o t
  OBVIOUS
<1>3. /\ Len(c) \in Nat /\ Len(w) = Len(c) + 1
      /\ w[Len(c) + 1].op = "TRAP"
  BY <1>1, <1>2, TrapIs, Joined
<1>4. ASSUME NEW i \in 1..Len(w), w[i].op = "EXEC" PROVE \E k \in (i + 1)..Len(w) : w[k].op = "TRAP"
  <2>1. i # Len(c) + 1
    BY <1>3, <1>4
  <2>2. Len(c) + 1 \in (i + 1)..Len(w)
    BY <1>3, <2>1
  <2>3. QED
    BY <1>3, <2>2
<1>5. QED
  BY <1>1, <1>2, <1>4 DEF Trapped

LEMMA TrappedJoin ==
    ASSUME NEW a, NEW b, IsSequence(a), IsSequence(b), Trapped(a), Trapped(b)
    PROVE  Trapped(a \o b)
<1>1. PICK c : c = a \o b
  OBVIOUS
<1>2. /\ Len(a) \in Nat /\ Len(b) \in Nat /\ Len(c) = Len(a) + Len(b)
      /\ \A i \in 1..Len(a) : c[i] = a[i]
      /\ \A i \in 1..Len(b) : c[Len(a) + i] = b[i]
  BY <1>1, Joined
<1>3. ASSUME NEW i \in 1..Len(c), c[i].op = "EXEC" PROVE \E k \in (i + 1)..Len(c) : c[k].op = "TRAP"
  <2>1. CASE i <= Len(a)
    <3>1. i \in 1..Len(a) /\ a[i].op = "EXEC"
      BY <1>2, <1>3, <2>1
    <3>2. PICK k \in (i + 1)..Len(a) : a[k].op = "TRAP"
      BY <3>1 DEF Trapped
    <3>3. k \in 1..Len(a) /\ k \in (i + 1)..Len(c)
      BY <1>2
    <3>4. QED
      BY <1>2, <3>2, <3>3
  <2>2. CASE i > Len(a)
    <3>1. PICK j \in 1..Len(b) : i = Len(a) + j
      <4>1. i - Len(a) \in 1..Len(b) /\ i = Len(a) + (i - Len(a))
        BY <1>2, <2>2
      <4>2. QED
        BY <4>1
    <3>2. b[j].op = "EXEC"
      BY <1>2, <1>3, <3>1
    <3>3. PICK k \in (j + 1)..Len(b) : b[k].op = "TRAP"
      BY <3>2 DEF Trapped
    <3>4. k \in 1..Len(b) /\ Len(a) + k \in (i + 1)..Len(c)
      BY <1>2, <3>1
    <3>5. QED
      BY <1>2, <3>3, <3>4
  <2>3. QED
    BY <1>2, <2>1, <2>2
<1>4. QED
  BY <1>1, <1>3 DEF Trapped

LEMMA SourceBlock ==
    ASSUME NEW s, NEW name, IsSource(name)
    PROVE  Block(Source(s, name), {}) /\ Trapped(Source(s, name))
<1>1. Block(Passes(s, name), {})
  BY PassesBlock
<1>2. Block(Passes(s, name) \o put_cmd("TRAP"), {})
  BY <1>1, PutBlock, BlocksJoin
<1>3. Trapped(Passes(s, name) \o put_cmd("TRAP"))
  BY <1>1, TrapBehind DEF Block
<1>4. QED
  BY <1>2, <1>3 DEF Source


(***************************************************************************)
(* What is removed for good.                                               *)
(***************************************************************************)
\* Place k removes the file, and nothing behind it writes it.
Sweeps(c, k, file) ==
    /\ k \in 1..Len(c) /\ Removes(c[k], file)
    /\ \A j \in (k + 1)..Len(c) : c[j].op = "EXEC" => file \notin Range(c[j].outs)
\* No failure passes over place k.
Reached(c, k) == \A i \in 1..(k - 1) : c[i].op = "EXEC" => \E t \in (i + 1)..(k - 1) : c[t].op = "TRAP"
Swept(c, file)       == \E k \in 1..Len(c) : Sweeps(c, k, file)
SurelySwept(c, file) == \E k \in 1..Len(c) : Sweeps(c, k, file) /\ Reached(c, k)

\* Commands of which none writes a file.
Spares(b, file) == IsSequence(b) /\ \A i \in 1..Len(b) : b[i].op = "EXEC" => file \notin Range(b[i].outs)

LEMMA SweepsRight ==
    ASSUME NEW a, NEW b, NEW file, IsSequence(a), Spares(b, file), NEW k, Sweeps(a, k, file)
    PROVE  Sweeps(a \o b, k, file) /\ k \in 1..Len(a \o b) /\ (Reached(a, k) => Reached(a \o b, k))
<1>1. PICK c : c = a \o b
  OBVIOUS
<1>2. /\ Len(a) \in Nat /\ Len(b) \in Nat /\ Len(c) = Len(a) + Len(b)
      /\ \A i \in 1..Len(a) : c[i] = a[i]
      /\ \A i \in 1..Len(b) : c[Len(a) + i] = b[i]
  BY <1>1, Joined DEF Spares
<1>3. k \in 1..Len(a) /\ Removes(a[k], file)
  BY DEF Sweeps
<1>4. k \in 1..Len(c) /\ Removes(c[k], file)
  BY <1>2, <1>3
<1>5. ASSUME NEW j \in (k + 1)..Len(c), c[j].op = "EXEC" PROVE file \notin Range(c[j].outs)
  <2>1. CASE j <= Len(a)
    <3>1. j \in 1..Len(a) /\ j \in (k + 1)..Len(a)
      BY <1>2, <1>3, <2>1
    <3>2. QED
      BY <1>2, <1>5, <3>1 DEF Sweeps
  <2>2. CASE j > Len(a)
    <3>1. PICK i \in 1..Len(b) : j = Len(a) + i
      <4>1. j - Len(a) \in 1..Len(b) /\ j = Len(a) + (j - Len(a))
        BY <1>2, <1>3, <2>2
      <4>2. QED
        BY <4>1
    <3>2. b[i].op = "EXEC" /\ c[j] = b[i]
      BY <1>2, <1>5, <3>1
    <3>3. QED
      BY <3>2 DEF Spares
  <2>3. QED
    BY <1>2, <1>3, <2>1, <2>2
<1>6. ASSUME Reached(a, k) PROVE Reached(c, k)
  <2>1. ASSUME NEW i \in 1..(k - 1), c[i].op = "EXEC" PROVE \E t \in (i + 1)..(k - 1) : c[t].op = "TRAP"
    <3>1. i \in 1..Len(a) /\ a[i].op = "EXEC"
      BY <1>2, <1>3, <2>1
    <3>2. PICK t \in (i + 1)..(k - 1) : a[t].op = "TRAP"
      BY <1>6, <3>1 DEF Reached
    <3>3. t \in 1..Len(a)
      BY <1>2, <1>3
    <3>4. QED
      BY <1>2, <3>2, <3>3
  <2>2. QED
    BY <2>1 DEF Reached
<1>7. QED
  BY <1>1, <1>4, <1>5, <1>6 DEF Sweeps

LEMMA SweptRight ==
    ASSUME NEW a, NEW b, NEW file, IsSequence(a), Block(b, {file})
    PROVE  /\ Swept(a, file) => Swept(a \o b, file)
           /\ SurelySwept(a, file) => SurelySwept(a \o b, file)
<1>1. Spares(b, file)
  BY DEF Spares, Block, Fitting
<1>2. ASSUME NEW k \in 1..Len(a), Sweeps(a, k, file)
      PROVE  Sweeps(a \o b, k, file) /\ k \in 1..Len(a \o b) /\ (Reached(a, k) => Reached(a \o b, k))
  BY <1>1, <1>2, SweepsRight
<1>3. QED
  BY <1>2 DEF Swept, SurelySwept

LEMMA SweptLeft ==
    ASSUME NEW a, NEW b, NEW file, IsSequence(a), IsSequence(b)
    PROVE  /\ Swept(b, file) => Swept(a \o b, file)
           /\ Trapped(a) /\ SurelySwept(b, file) => SurelySwept(a \o b, file)
<1>1. PICK c : c = a \o b
  OBVIOUS
<1>2. /\ Len(a) \in Nat /\ Len(b) \in Nat /\ Len(c) = Len(a) + Len(b)
      /\ \A i \in 1..Len(a) : c[i] = a[i]
      /\ \A i \in 1..Len(b) : c[Len(a) + i] = b[i]
  BY <1>1, Joined
<1>3. ASSUME NEW k \in 1..Len(b), Sweeps(b, k, file) PROVE Len(a) + k \in 1..Len(c) /\ Sweeps(c, Len(a) + k, file)
  <2>1. Len(a) + k \in 1..Len(c) /\ Removes(c[Len(a) + k], file)
    BY <1>2, <1>3 DEF Sweeps
  <2>2. ASSUME NEW j \in (Len(a) + k + 1)..Len(c), c[j].op = "EXEC" PROVE file \notin Range(c[j].outs)
    <3>1. PICK i \in (k + 1)..Len(b) : j = Len(a) + i
      <4>1. j - Len(a) \in (k + 1)..Len(b) /\ j = Len(a) + (j - Len(a))
        BY <1>2
      <4>2. QED
        BY <4>1
    <3>2. i \in 1..Len(b)
      BY <1>2
    <3>3. b[i].op = "EXEC" /\ c[j] = b[i]
      BY <1>2, <2>2, <3>1, <3>2
    <3>4. QED
      BY <1>3, <3>3 DEF Sweeps
  <2>3. QED
    BY <2>1, <2>2 DEF Sweeps
<1>4. ASSUME NEW k \in 1..Len(b), Reached(b, k), Trapped(a) PROVE Reached(c, Len(a) + k)
  <2>1. ASSUME NEW i \in 1..(Len(a) + k - 1), c[i].op = "EXEC"
        PROVE  \E t \in (i + 1)..(Len(a) + k - 1) : c[t].op = "TRAP"
    <3>1. CASE i <= Len(a)
      <4>1. i \in 1..Len(a) /\ a[i].op = "EXEC"
        BY <1>2, <2>1, <3>1
      <4>2. PICK t \in (i + 1)..Len(a) : a[t].op = "TRAP"
        BY <1>4, <4>1 DEF Trapped
      <4>3. t \in 1..Len(a) /\ t \in (i + 1)..(Len(a) + k - 1)
        BY <1>2
      <4>4. QED
        BY <1>2, <4>2, <4>3
    <3>2. CASE i > Len(a)
      <4>1. PICK j \in 1..(k - 1) : i = Len(a) + j
        <5>1. i - Len(a) \in 1..(k - 1) /\ i = Len(a) + (i - Len(a))
          BY <1>2, <3>2
        <5>2. QED
          BY <5>1
      <4>2. j \in 1..Len(b)
        BY <1>2
      <4>3. b[j].op = "EXEC"
        BY <1>2, <2>1, <4>1, <4>2
      <4>4. PICK t \in (j + 1)..(k - 1) : b[t].op = "TRAP"
        BY <1>4, <4>3 DEF Reached
      <4>5. t \in 1..Len(b) /\ Len(a) + t \in (i + 1)..(Len(a) + k - 1)
        BY <1>2, <4>1
      <4>6. QED
        BY <1>2, <4>4, <4>5
    <3>3. QED
      BY <1>2, <3>1, <3>2
  <2>2. QED
    BY <2>1 DEF Reached
<1>5. QED
  BY <1>1, <1>3, <1>4 DEF Swept, SurelySwept

LEMMA RmSweeps ==
    ASSUME NEW s, NEW file
    PROVE  SurelySwept(rm(s, file), file) /\ Trapped(rm(s, file)) /\ IsSequence(rm(s, file))
<1>1. PICK c, p : /\ rm(s, file) = p \o <<c>> /\ (p = <<>> \/ p = put_cmd("PRINT"))
                  /\ Removes(c, file)
  BY RmIs
<1>2. IsSequence(p) /\ \A i \in 1..Len(p) : p[i].op # "EXEC"
  <2>1. CASE p = <<>>
    BY <2>1, EmptyIsSequence
  <2>2. CASE p = put_cmd("PRINT")
    <3>1. PICK r : r = Command("PRINT", "none", <<>>, <<>>, 0)
      OBVIOUS
    <3>2. p = <<r>> /\ r.op = "PRINT"
      BY <2>2, <3>1 DEF put_cmd, Command
    <3>3. QED
      BY <3>2, OneIsSequence
  <2>3. QED
    BY <1>1, <2>1, <2>2
<1>3. PICK w : w = p \o <<c>>
  OBVIOUS
<1>4. /\ Len(p) \in Nat /\ Len(w) = Len(p) + 1 /\ w[Len(p) + 1] = c /\ IsSequence(w)
      /\ \A i \in 1..Len(p) : w[i] = p[i]
  BY <1>2, <1>3, Joined, OneIsSequence
<1>5. \A i \in 1..Len(w) : w[i].op # "EXEC"
  BY <1>1, <1>2, <1>4 DEF Removes
<1>6. Sweeps(w, Len(w), file) /\ Reached(w, Len(w)) /\ Trapped(w) /\ Len(w) \in 1..Len(w)
  BY <1>1, <1>4, <1>5 DEF Sweeps, Reached, Trapped
<1>7. QED
  BY <1>1, <1>3, <1>4, <1>6 DEF SurelySwept

LEMMA SurelyIsSwept == ASSUME NEW c, NEW file, SurelySwept(c, file) PROVE Swept(c, file)
  BY DEF Swept, SurelySwept

\* The passes' temporary files.
Temps == {tmpf1, tmpf2, tmpf3, tmpf5}

LEMMA TempsSwept ==
    ASSUME NEW s
    PROVE  /\ \A file \in Temps : SurelySwept(TempsRemoved(s), file)
           /\ \A W : Block(TempsRemoved(s), W)
<1> DEFINE r1 == rm(s, tmpf1)
           r2 == rm(s, tmpf2)
           r3 == rm(s, tmpf3)
           r5 == rm(s, tmpf5)
<1>1. TempsRemoved(s) = r1 \o r2 \o r3 \o r5
  BY DEF TempsRemoved
<1>2. /\ SurelySwept(r1, tmpf1) /\ SurelySwept(r2, tmpf2) /\ SurelySwept(r3, tmpf3) /\ SurelySwept(r5, tmpf5)
      /\ Trapped(r1) /\ Trapped(r2) /\ Trapped(r3) /\ Trapped(r5)
  BY RmSweeps
<1>3. \A W : Block(r1, W) /\ Block(r2, W) /\ Block(r3, W) /\ Block(r5, W)
  BY RmBlock
<1> HIDE DEF r1, r2, r3, r5
<1>4. IsSequence(r1) /\ IsSequence(r2) /\ IsSequence(r3) /\ IsSequence(r5)
  BY <1>3 DEF Block
<1>5. /\ SurelySwept(r1 \o r2, tmpf1) /\ SurelySwept(r1 \o r2, tmpf2)
      /\ Trapped(r1 \o r2) /\ \A W : Block(r1 \o r2, W)
  BY <1>2, <1>3, <1>4, SweptRight, SweptLeft, TrappedJoin, BlocksJoin
<1>6. IsSequence(r1 \o r2)
  BY <1>5 DEF Block
<1>7. /\ \A f \in {tmpf1, tmpf2, tmpf3} : SurelySwept(r1 \o r2 \o r3, f)
      /\ Trapped(r1 \o r2 \o r3) /\ \A W : Block(r1 \o r2 \o r3, W)
  <2>1. SurelySwept(r1 \o r2 \o r3, tmpf1) /\ SurelySwept(r1 \o r2 \o r3, tmpf2)
    BY <1>3, <1>5, <1>6, SweptRight
  <2>2. SurelySwept(r1 \o r2 \o r3, tmpf3)
    BY <1>2, <1>4, <1>5, <1>6, SweptLeft
  <2>3. QED
    BY <1>2, <1>3, <1>4, <1>5, <1>6, <2>1, <2>2, TrappedJoin, BlocksJoin
<1>8. IsSequence(r1 \o r2 \o r3)
  BY <1>7 DEF Block
<1>9. \A f \in Temps : SurelySwept(r1 \o r2 \o r3 \o r5, f)
  <2>1. \A f \in {tmpf1, tmpf2, tmpf3} : SurelySwept(r1 \o r2 \o r3 \o r5, f)
    BY <1>3, <1>7, <1>8, SweptRight
  <2>2. SurelySwept(r1 \o r2 \o r3 \o r5, tmpf5)
    BY <1>2, <1>4, <1>7, <1>8, SweptLeft
  <2>3. QED
    BY <2>1, <2>2 DEF Temps
<1>10. \A W : Block(r1 \o r2 \o r3 \o r5, W)
  BY <1>3, <1>7, BlocksJoin
<1>11. QED
  BY <1>1, <1>9, <1>10


(***************************************************************************)
(* The link and what follows.                                              *)
(***************************************************************************)
LEMMA LinkIs ==
    ASSUME NEW s, SetOK(s), ~s.keep
    PROVE  \E c, r, q :
               /\ Linked(s) = put_cmd("IF_NERR") \o Written(s, c) \o r \o q
               /\ Formed(c) /\ c.op = "EXEC" /\ c.prog = "LINK" /\ c.ins = s.objs
               /\ c.outs = <<IF s.reloc THEN l_dot_obj ELSE Outfile(s)>>
               /\ c.adds = (IF s.overlay THEN {<<"text", s.cbase>>} ELSE {})
               /\ r = (IF s.reloc THEN Exec(s, "OBJTOHEX", <<l_dot_obj>>, <<Outfile(s)>>, 4) \o rm(s, l_dot_obj)
                       ELSE <<>>)
               /\ q = (IF Len(s.c_as) = 1 /\ s.nfiles = 1 THEN rm(s, s.single) ELSE <<>>)
<1> DEFINE words == s.flgs + 2 + Len(s.objs) + s.libs + (IF s.reloc THEN 0 ELSE 1)
                    + (IF s.overlay THEN 0 ELSE 2 + (IF s.wildcard THEN 1 ELSE 0))
           plain == Command("EXEC", "LINK", s.objs, <<IF s.reloc THEN l_dot_obj ELSE Outfile(s)>>, words)
           adds  == IF s.overlay THEN {<<"text", s.cbase>>} ELSE {}
           link  == [plain EXCEPT !.adds = adds]
<1>1. Linked(s) = put_cmd("IF_NERR") \o Written(s, link)
                  \o (IF s.reloc THEN Exec(s, "OBJTOHEX", <<l_dot_obj>>, <<Outfile(s)>>, 4) \o rm(s, l_dot_obj)
                      ELSE <<>>)
                  \o (IF Len(s.c_as) = 1 /\ s.nfiles = 1 THEN rm(s, s.single) ELSE <<>>)
  BY DEF Linked
<1>2. PICK w : w = words
  OBVIOUS
<1>3. PICK a : a = adds
  OBVIOUS
<1>4. PICK o : o = <<IF s.reloc THEN l_dot_obj ELSE Outfile(s)>>
  OBVIOUS
<1>5. link = [Command("EXEC", "LINK", s.objs, o, w) EXCEPT !.adds = a]
  BY <1>2, <1>3, <1>4
<1>6. link.op = "EXEC" /\ link.prog = "LINK" /\ link.ins = s.objs /\ link.outs = o /\ link.adds = a
  <2> HIDE DEF link
  <2>1. QED
    BY <1>5 DEF Command
<1>7. IsFiniteSet(a)
  BY <1>3, FS_EmptySet, FS_Singleton
<1> HIDE DEF link
<1>8. Formed(link)
  BY <1>6, <1>7 DEF Formed, Ops, SetOK
<1>9. QED
  BY <1>1, <1>3, <1>4, <1>6, <1>8

LEMMA LinkedBlock ==
    ASSUME NEW s, SetOK(s), NEW W, Outfile(s) \notin W, l_dot_obj \notin W
    PROVE  Block(Linked(s), W)
<1>1. CASE s.keep
  BY <1>1, EmptyBlock DEF Linked
<1>2. CASE ~s.keep
  <2>1. PICK c, r, q :
               /\ Linked(s) = put_cmd("IF_NERR") \o Written(s, c) \o r \o q
               /\ Formed(c) /\ c.op = "EXEC"
               /\ c.outs = <<IF s.reloc THEN l_dot_obj ELSE Outfile(s)>>
               /\ r = (IF s.reloc THEN Exec(s, "OBJTOHEX", <<l_dot_obj>>, <<Outfile(s)>>, 4) \o rm(s, l_dot_obj)
                       ELSE <<>>)
               /\ q = (IF Len(s.c_as) = 1 /\ s.nfiles = 1 THEN rm(s, s.single) ELSE <<>>)
    BY <1>2, LinkIs
  <2>2. Range(c.outs) \cap W = {}
    BY <2>1, OneRange
  <2>3. Block(put_cmd("IF_NERR") \o Written(s, c), W)
    BY <2>1, <2>2, WrittenBlock, GuardedBlock
  <2>4. Block(r, W)
    <3>1. Range(<<Outfile(s)>>) \cap W = {} /\ IsSequence(<<l_dot_obj>>)
      BY OneRange, OneIsSequence
    <3>2. Block(Exec(s, "OBJTOHEX", <<l_dot_obj>>, <<Outfile(s)>>, 4), W)
      BY <3>1, ExecBlock
    <3>3. QED
      BY <2>1, <3>2, RmBlock, EmptyBlock, BlocksJoin
  <2>5. Block(q, W)
    BY <2>1, RmBlock, EmptyBlock
  <2>6. Block(put_cmd("IF_NERR") \o Written(s, c) \o r, W)
    BY <2>3, <2>4, BlocksJoin
  <2>7. Block(put_cmd("IF_NERR") \o Written(s, c) \o r \o q, W)
    BY <2>5, <2>6, BlocksJoin
  <2>8. QED
    BY <2>1, <2>7
<1>3. QED
  BY <1>1, <1>2

\* With -A the object that OBJTOHEX reads is removed behind it.
LEMMA LinkedSweeps ==
    ASSUME NEW s, SetOK(s), ~s.keep, s.reloc
    PROVE  Swept(Linked(s), l_dot_obj)
<1>1. PICK c, r, q :
             /\ Linked(s) = put_cmd("IF_NERR") \o Written(s, c) \o r \o q
             /\ Formed(c) /\ c.op = "EXEC"
             /\ r = (IF s.reloc THEN Exec(s, "OBJTOHEX", <<l_dot_obj>>, <<Outfile(s)>>, 4) \o rm(s, l_dot_obj)
                     ELSE <<>>)
             /\ q = (IF Len(s.c_as) = 1 /\ s.nfiles = 1 THEN rm(s, s.single) ELSE <<>>)
  BY LinkIs
<1>2. Block(put_cmd("IF_NERR") \o Written(s, c), {})
  <2>1. Range(c.outs) \cap {} = {}
    OBVIOUS
  <2>2. QED
    BY <1>1, <2>1, WrittenBlock, GuardedBlock
<1>3. Block(Exec(s, "OBJTOHEX", <<l_dot_obj>>, <<Outfile(s)>>, 4), {})
  BY OneInput
<1>4. Swept(r, l_dot_obj) /\ IsSequence(r)
  <2>1. Swept(rm(s, l_dot_obj), l_dot_obj) /\ IsSequence(rm(s, l_dot_obj))
    BY RmSweeps, SurelyIsSwept
  <2>2. PICK e : e = Exec(s, "OBJTOHEX", <<l_dot_obj>>, <<Outfile(s)>>, 4)
    OBVIOUS
  <2>3. IsSequence(e)
    BY <1>3, <2>2 DEF Block
  <2>4. r = e \o rm(s, l_dot_obj)
    BY <1>1, <2>2
  <2>5. QED
    BY <2>1, <2>3, <2>4, SweptLeft, Joined
<1>5. IsSequence(put_cmd("IF_NERR") \o Written(s, c))
  BY <1>2 DEF Block
<1>6. Swept(put_cmd("IF_NERR") \o Written(s, c) \o r, l_dot_obj) /\ IsSequence(put_cmd("IF_NERR") \o Written(s, c) \o r)
  BY <1>4, <1>5, SweptLeft, Joined
<1>7. Block(q, {l_dot_obj})
  BY <1>1, RmBlock, EmptyBlock
<1>8. Swept(put_cmd("IF_NERR") \o Written(s, c) \o r \o q, l_dot_obj)
  BY <1>6, <1>7, SweptRight
<1>9. QED
  BY <1>1, <1>8

LEMMA CrossBlock ==
    ASSUME NEW s, NEW W, s.xref => s.xrname \notin W
    PROVE  Block(CrossReferenced(s), W)
<1>1. CASE ~s.xref
  BY <1>1, EmptyBlock DEF CrossReferenced
<1>2. CASE s.xref /\ s.xrname = None
  BY <1>2, PutBlock DEF CrossReferenced, print
<1>3. CASE s.xref /\ s.xrname # None
  <2> DEFINE q == Exec(s, "CREF", <<crtmp>>, <<s.xrname>>, 3)
  <2>1. Range(<<s.xrname>>) \cap W = {} /\ IsSequence(<<crtmp>>)
    BY <1>3, OneRange, OneIsSequence
  <2>2. Block(q, W) /\ Len(q) >= 1 /\ q[1].op = "EXEC"
    BY <2>1, ExecBlock
  <2> HIDE DEF q
  <2>3. Block(put_cmd("IF_NERR") \o q, W)
    BY <2>2, GuardedBlock
  <2>4. Block(put_cmd("IF_NERR") \o q \o rm(s, crtmp), W)
    BY <2>3, RmBlock, BlocksJoin
  <2>5. QED
    BY <1>3, <2>4 DEF CrossReferenced, q
<1>4. QED
  BY <1>1, <1>2, <1>3

LEMMA CrossSweeps ==
    ASSUME NEW s, s.xref, s.xrname # None
    PROVE  Swept(CrossReferenced(s), crtmp)
<1> DEFINE q == Exec(s, "CREF", <<crtmp>>, <<s.xrname>>, 3)
<1>1. Range(<<s.xrname>>) \cap {} = {} /\ IsSequence(<<crtmp>>)
  BY OneIsSequence
<1>2. Block(q, {}) /\ Len(q) >= 1 /\ q[1].op = "EXEC"
  BY <1>1, ExecBlock
<1> HIDE DEF q
<1>3. Block(put_cmd("IF_NERR") \o q, {})
  BY <1>2, GuardedBlock
<1>4. IsSequence(put_cmd("IF_NERR") \o q)
  BY <1>3 DEF Block
<1>5. Swept(rm(s, crtmp), crtmp) /\ IsSequence(rm(s, crtmp))
  BY RmSweeps, SurelyIsSwept
<1>6. Swept(put_cmd("IF_NERR") \o q \o rm(s, crtmp), crtmp)
  BY <1>4, <1>5, SweptLeft
<1>7. QED
  BY <1>6 DEF CrossReferenced, q

\* All but the last command.
Body(s) == TempsRemoved(s) \o Linked(s) \o CrossReferenced(s) \o put_cmd("TRAP")

LEMMA BodyIs ==
    ASSUME NEW s, SetOK(s)
    PROVE  /\ Block(Body(s), {}) /\ Trapped(Body(s)) /\ Len(Body(s)) \in Nat /\ Len(Body(s)) >= 1
           /\ \A f \in Temps : Outfile(s) # f /\ l_dot_obj # f /\ (s.xref => s.xrname # f)
                  => SurelySwept(Body(s), f)
           /\ ~s.keep /\ s.reloc /\ (s.xref => s.xrname # l_dot_obj) => Swept(Body(s), l_dot_obj)
           /\ s.xref /\ s.xrname # None => Swept(Body(s), crtmp)
<1> DEFINE t == TempsRemoved(s)
           l == Linked(s)
           x == CrossReferenced(s)
           p == put_cmd("TRAP")
<1>1. /\ \A W : Block(t, W) /\ Block(p, W)
      /\ \A W : Outfile(s) \notin W /\ l_dot_obj \notin W => Block(l, W)
      /\ \A W : (s.xref => s.xrname \notin W) => Block(x, W)
  BY TempsSwept, PutBlock, LinkedBlock, CrossBlock
<1>2. /\ \A f \in Temps : SurelySwept(t, f)
      /\ ~s.keep /\ s.reloc => Swept(l, l_dot_obj)
      /\ s.xref /\ s.xrname # None => Swept(x, crtmp)
  BY TempsSwept, LinkedSweeps, CrossSweeps
<1>3. Len(p) = 1 /\ IsSequence(p)
  BY TrapIs
<1>4. Body(s) = t \o l \o x \o p
  BY DEF Body
<1>5. \A c : IsSequence(c) => Trapped(c \o p)
  BY TrapBehind
<1> HIDE DEF t, l, x, p
<1>6. Block(l, {}) /\ Block(x, {}) /\ Block(t, {}) /\ Block(p, {})
  BY <1>1
<1>7. Block(t \o l, {}) /\ Block(t \o l \o x, {}) /\ Block(t \o l \o x \o p, {})
  BY <1>6, BlocksJoin
<1>8. IsSequence(t) /\ IsSequence(l) /\ IsSequence(x) /\ IsSequence(t \o l) /\ IsSequence(t \o l \o x) /\ IsSequence(t \o l \o x \o p)
  BY <1>6, <1>7 DEF Block
<1>9. Trapped(t \o l \o x \o p) /\ Len(t \o l \o x \o p) \in Nat /\ Len(t \o l \o x \o p) >= 1
  <2>1. PICK w : w = t \o l \o x
    OBVIOUS
  <2>2. Len(w) \in Nat /\ Len(w \o p) = Len(w) + Len(p)
    BY <1>3, <1>8, <2>1, Joined
  <2>3. Trapped(w \o p)
    BY <1>5, <1>8, <2>1
  <2>4. QED
    BY <1>3, <2>1, <2>2, <2>3
<1>10. ASSUME NEW f \in Temps, Outfile(s) # f, l_dot_obj # f, s.xref => s.xrname # f
       PROVE  SurelySwept(t \o l \o x \o p, f)
  <2>1. Block(l, {f}) /\ Block(x, {f}) /\ Block(p, {f})
    BY <1>1, <1>10
  <2>2. SurelySwept(t \o l, f)
    BY <1>2, <1>8, <2>1, SweptRight
  <2>3. SurelySwept(t \o l \o x, f)
    BY <1>8, <2>1, <2>2, SweptRight
  <2>4. QED
    BY <1>8, <2>1, <2>3, SweptRight
<1>11. ASSUME ~s.keep, s.reloc, s.xref => s.xrname # l_dot_obj
       PROVE  Swept(t \o l \o x \o p, l_dot_obj)
  <2>1. Block(x, {l_dot_obj}) /\ Block(p, {l_dot_obj})
    BY <1>1, <1>11
  <2>2. Swept(t \o l, l_dot_obj)
    BY <1>2, <1>8, <1>11, SweptLeft
  <2>3. Swept(t \o l \o x, l_dot_obj)
    BY <1>8, <2>1, <2>2, SweptRight
  <2>4. QED
    BY <1>8, <2>1, <2>3, SweptRight
<1>12. ASSUME s.xref, s.xrname # None
       PROVE  Swept(t \o l \o x \o p, crtmp)
  <2>1. Block(p, {crtmp})
    BY <1>1
  <2>2. Swept(t \o l \o x, crtmp)
    BY <1>2, <1>8, <1>12, SweptLeft
  <2>3. QED
    BY <1>8, <2>1, <2>2, SweptRight
<1>13. QED
  BY <1>4, <1>7, <1>9, <1>10, <1>11, <1>12


(***************************************************************************)
(* The whole file, and the interpreter's way through it.                   *)
(***************************************************************************)
Begun(c) == Block(c, {}) /\ Len(c) >= 1 /\ c[1].op = "SKP_ERR" /\ Trapped(c)

Laid(c) ==
    /\ IsSequence(c) /\ Len(c) >= 1 /\ c[1].op = "SKP_ERR"
    /\ c[Len(c)].op = "RM_EXIT" /\ c[Len(c)].outs[1] = execmd
    /\ \A i \in 1..Len(c) : Formed(c[i])
    /\ \A i \in 1..(Len(c) - 1) :
          /\ c[i].op # "RM_EXIT"
          /\ c[i].op = "EXEC" => \E t \in (i + 1)..(Len(c) - 1) : c[t].op = "TRAP"
          /\ c[i].op = "IF_NERR" => i + 1 < Len(c) /\ c[i + 1].op = "EXEC"
          /\ IsLong(c[i]) => \E k \in (i + 1)..Len(c) : Removes(c[k], redname)

LEMMA LastIs ==
    ASSUME NEW s
    PROVE  \E e : /\ TailOf(s) = Body(s) \o <<e>>
                  /\ Formed(e) /\ e.op = "RM_EXIT" /\ e.outs = <<execmd>>
<1>1. PICK e : e = Command("RM_EXIT", "none", <<>>, <<execmd>>, 0)
  OBVIOUS
<1>2. e.op = "RM_EXIT" /\ e.outs = <<execmd>> /\ e.ins = <<>> /\ e.adds = {}
  BY <1>1 DEF Command
<1>3. Formed(e)
  BY <1>2, EmptyIsSequence, FS_EmptySet DEF Formed, Ops
<1>4. TailOf(s) = Body(s) \o <<e>>
  BY <1>1 DEF TailOf, Body
<1>5. QED
  BY <1>2, <1>3, <1>4

LEMMA Regrouped ==
    ASSUME NEW a, NEW b, NEW c, IsSequence(a), IsSequence(b), IsSequence(c)
    PROVE  a \o (b \o c) = (a \o b) \o c
<1>1. PICK S : a \in Seq(S)
  BY DEF IsSequence
<1>2. PICK T : b \in Seq(T)
  BY DEF IsSequence
<1>3. PICK U : c \in Seq(U)
  BY DEF IsSequence
<1>4. a \in Seq(S \cup T \cup U) /\ b \in Seq(S \cup T \cup U) /\ c \in Seq(S \cup T \cup U)
  BY <1>1, <1>2, <1>3
<1>5. QED
  BY <1>4

LEMMA BegunThenLaid ==
    ASSUME NEW h, Begun(h), NEW e, Formed(e), e.op = "RM_EXIT", e.outs = <<execmd>>
    PROVE  Laid(h \o <<e>>)
<1>1. PICK c : c = h \o <<e>>
  OBVIOUS
<1>2. /\ IsSequence(c) /\ Len(h) \in Nat /\ Len(c) = Len(h) + 1 /\ Len(h) >= 1
      /\ \A i \in 1..Len(h) : c[i] = h[i]
      /\ c[Len(h) + 1] = e
  BY <1>1, Joined, OneIsSequence DEF Begun, Block
<1>3. c[1].op = "SKP_ERR"
  BY <1>2 DEF Begun
<1>4. ASSUME NEW i \in 1..Len(c) PROVE Formed(c[i])
  <2>1. CASE i \in 1..Len(h)
    BY <1>2, <2>1 DEF Begun, Block, Fitting
  <2>2. CASE i = Len(h) + 1
    BY <1>2, <2>2
  <2>3. QED
    BY <1>2, <2>1, <2>2
<1>5. ASSUME NEW i \in 1..(Len(c) - 1)
      PROVE  /\ c[i].op # "RM_EXIT"
             /\ c[i].op = "EXEC" => \E t \in (i + 1)..(Len(c) - 1) : c[t].op = "TRAP"
             /\ c[i].op = "IF_NERR" => i + 1 < Len(c) /\ c[i + 1].op = "EXEC"
             /\ IsLong(c[i]) => \E k \in (i + 1)..Len(c) : Removes(c[k], redname)
  <2>1. i \in 1..Len(h) /\ c[i] = h[i] /\ Fitting(h, i, {})
    BY <1>2 DEF Begun, Block
  <2>2. ASSUME h[i].op = "EXEC" PROVE \E t \in (i + 1)..(Len(c) - 1) : c[t].op = "TRAP"
    <3>1. PICK t \in (i + 1)..Len(h) : h[t].op = "TRAP"
      BY <2>1, <2>2 DEF Begun, Trapped
    <3>2. t \in 1..Len(h) /\ t \in (i + 1)..(Len(c) - 1)
      BY <1>2
    <3>3. QED
      BY <1>2, <3>1, <3>2
  <2>3. ASSUME h[i].op = "IF_NERR" PROVE i + 1 < Len(c) /\ c[i + 1].op = "EXEC"
    <3>1. i < Len(h) /\ h[i + 1].op = "EXEC"
      BY <2>1, <2>3 DEF Fitting
    <3>2. i + 1 \in 1..Len(h) /\ i + 1 < Len(c)
      BY <1>2, <3>1
    <3>3. QED
      BY <1>2, <3>1, <3>2
  <2>4. ASSUME IsLong(h[i]) PROVE \E k \in (i + 1)..Len(c) : Removes(c[k], redname)
    <3>1. PICK k \in (i + 1)..Len(h) : Removes(h[k], redname)
      BY <2>1, <2>4 DEF Fitting
    <3>2. k \in 1..Len(h) /\ k \in (i + 1)..Len(c)
      BY <1>2
    <3>3. QED
      BY <1>2, <3>1, <3>2
  <2>5. QED
    BY <2>1, <2>2, <2>3, <2>4 DEF Fitting
<1>6. c[Len(c)].op = "RM_EXIT" /\ c[Len(c)].outs[1] = execmd
  BY <1>2
<1>7. QED
  BY <1>1, <1>2, <1>3, <1>4, <1>5, <1>6 DEF Laid

LEMMA BegunJoin ==
    ASSUME NEW c, NEW b, Begun(c), Block(b, {}), Trapped(b)
    PROVE  Begun(c \o b)
<1>1. Block(c \o b, {})
  BY BlocksJoin DEF Begun
<1>2. IsSequence(c) /\ IsSequence(b) /\ Len(c) >= 1
  BY DEF Begun, Block
<1>3. Trapped(c \o b)
  BY <1>2, TrappedJoin DEF Begun
<1>4. /\ Len(c) \in Nat /\ Len(b) \in Nat /\ Len(c \o b) = Len(c) + Len(b)
      /\ \A i \in 1..Len(c) : (c \o b)[i] = c[i]
  BY <1>2, Joined
<1>5. Len(c \o b) >= 1 /\ (c \o b)[1] = c[1]
  BY <1>2, <1>4
<1>6. QED
  BY <1>1, <1>3, <1>5 DEF Begun

\* The end of doit().
LEMMA Completed ==
    ASSUME NEW s, SetOK(s), NEW c, Begun(c)
    PROVE  \E h, e : /\ c \o TailOf(s) = h \o <<e>> /\ h = c \o Body(s) /\ Begun(h)
                     /\ Formed(e) /\ e.op = "RM_EXIT" /\ e.outs = <<execmd>>
<1>1. PICK e : /\ TailOf(s) = Body(s) \o <<e>>
               /\ Formed(e) /\ e.op = "RM_EXIT" /\ e.outs = <<execmd>>
  BY LastIs
<1>2. Block(Body(s), {}) /\ Trapped(Body(s))
  BY BodyIs
<1>3. PICK h : h = c \o Body(s)
  OBVIOUS
<1>4. Begun(h)
  BY <1>2, <1>3, BegunJoin
<1>5. IsSequence(c) /\ IsSequence(Body(s)) /\ IsSequence(<<e>>)
  BY <1>2, OneIsSequence DEF Begun, Block
<1>6. c \o TailOf(s) = h \o <<e>>
  BY <1>1, <1>3, <1>5, Regrouped
<1>7. QED
  BY <1>1, <1>3, <1>4, <1>6

(***************************************************************************)
(* The files.                                                              *)
(***************************************************************************)
LEMMA OverIs ==
    ASSUME NEW f, NEW g
    PROVE  /\ DOMAIN Over(f, g) = DOMAIN f \cup DOMAIN g
           /\ \A x \in DOMAIN f : Over(f, g)[x] = f[x]
           /\ \A x \in DOMAIN g \ DOMAIN f : Over(f, g)[x] = g[x]
  BY DEF Over

\* A set of numbers that is not empty has a least one.
LEMMA LeastNatural ==
    ASSUME NEW T, T \subseteq Nat, T # {}
    PROVE  \E m \in T : \A k \in T : m <= k
<1> DEFINE R == {ss \in Nat \X Nat : ss[1] < ss[2]}
<1>1. IsWellFoundedOn(R, Nat)
  BY NatLessThanWellFounded DEF OpToRel
<1>2. PICK m \in T : \A k \in T : ~(<<k, m>> \in R)
  BY <1>1, WFMin
<1>3. ASSUME NEW k \in T, k < m PROVE FALSE
  <2>1. <<k, m>> \in Nat \X Nat /\ <<k, m>>[1] < <<k, m>>[2]
    BY <1>3
  <2>2. QED
    BY <1>2, <2>1
<1>4. QED
  BY <1>3

\* The last of some places.
LEMMA LastOf ==
    ASSUME NEW n \in Nat, NEW S, S \subseteq 1..n, S # {}
    PROVE  Max(S) \in S /\ \A x \in S : Max(S) >= x
<1> DEFINE T == {k \in Nat : \A x \in S : x <= k}
<1>1. T \subseteq Nat /\ n \in T
  OBVIOUS
<1>2. PICK m \in T : \A k \in T : m <= k
  <2> HIDE DEF T
  <2>1. T # {}
    BY <1>1
  <2>2. QED
    BY <1>1, <2>1, LeastNatural
<1>3. m \in S
  <2>1. SUFFICES ASSUME m \notin S PROVE FALSE
    OBVIOUS
  <2>2. m \in Nat /\ \A x \in S : x <= m
    BY <1>2
  <2>3. \A x \in S : x \in Nat /\ x >= 1 /\ x # m
    BY <2>1
  <2>4. m >= 1
    <3>1. PICK x \in S : TRUE
      OBVIOUS
    <3>2. x \in Nat /\ x >= 1 /\ x <= m
      BY <2>2, <2>3
    <3>3. QED
      BY <2>2, <3>2
  <2>5. \A x \in S : x <= m - 1
    BY <2>2, <2>3
  <2>6. m - 1 \in T
    BY <2>2, <2>4, <2>5
  <2>7. m <= m - 1
    BY <1>2, <2>6
  <2>8. QED
    BY <2>2, <2>7
<1>4. \E m0 \in S : \A x \in S : m0 >= x
  BY <1>2, <1>3
<1>5. QED
  BY <1>4 DEF Max


(***************************************************************************)
(* Types, and where the interpreter is, on every command line.             *)
(***************************************************************************)
Finite(d) == \A f \in DOMAIN d : IsFiniteSet(d[f])
Words(r)  == r = None \/ Formed(r)
Line(l)   == IsSequence(l) /\ \A i \in 1..Len(l) : l[i].opt \in Options \cup {"file", "H", "unknown"}

\* The interpreter goes by the whole file, and a failed program is the one
\* before the next command.
Going(c, i, failed, act) ==
    /\ Laid(c) /\ i \in 1..Len(c)
    /\ i > 1 => act = "skip"
    /\ failed => i > 1 /\ c[i - 1].op = "EXEC"

Shape ==
    /\ pc \in {"args", "doit", "sources", "run", "exit", "ended"}
    /\ SetOK(set) /\ turn \in Nat \ {0}
    /\ Finite(disk) /\ Words(redfile) /\ IsSequence(cmdfile)
    /\ status \in BOOLEAN /\ errors \in BOOLEAN /\ erract \in {"exit", "skip"}
    /\ pc = "args" => Line(line)
    /\ pc = "sources" => Begun(cmdfile)
    /\ pc \in {"args", "doit", "sources", "exit"} =>
           ip = 1 /\ status = FALSE /\ errors = FALSE /\ erract = "exit"
    /\ pc = "run" => Going(cmdfile, ip, status, erract)
    /\ pc = "ended" => ip \in 1..(Len(cmdfile) + 1)

LEMMA InitShape == Init => Shape
<1>1. SUFFICES ASSUME Init PROVE Shape
  OBVIOUS
<1>2. Line(line)
  <2>1. PICK T : T = [opt : Options \cup {"file", "H", "unknown"}, arg : Seq(STRING)]
    OBVIOUS
  <2>2. \A w \in T : w.opt \in Options \cup {"file", "H", "unknown"}
    BY <2>1
  <2>3. line \in Seq(T)
    BY <1>1, <2>1, DriverAssumption DEF Init
  <2>4. IsSequence(line) /\ \A i \in 1..Len(line) : line[i] \in T
    BY <2>3 DEF IsSequence
  <2>5. QED
    BY <2>2, <2>4 DEF Line
<1>3. Finite(disk)
  BY <1>1, DriverAssumption DEF Init, Finite
<1>4. SetOK(set) /\ turn \in Nat \ {0} /\ IsSequence(cmdfile) /\ Words(redfile)
  BY <1>1, SetupOK, EmptyIsSequence DEF Init, Words
<1>5. QED
  BY <1>1, <1>2, <1>3, <1>4 DEF Init, Shape

LEMMA ArgumentShape == Shape /\ Argument => Shape'
<1>1. SUFFICES ASSUME Shape, Argument PROVE Shape'
  OBVIOUS
<1>2. /\ pc = "args" /\ UNCHANGED <<turn, disk, redfile, cmdfile, before, ip, status, errors, erract, tried>>
      /\ Line(line) /\ SetOK(set)
  BY <1>1 DEF Argument, Shape, execVars
<1>3. CASE line = <<>>
  <2>1. pc' = "doit" /\ UNCHANGED <<line, set>>
    BY <1>1, <1>3 DEF Argument
  <2>2. QED
    BY <1>1, <1>2, <2>1 DEF Shape
<1>4. CASE line # <<>>
  <2>1. PICK w : w = Head(line)
    OBVIOUS
  <2>2. /\ line' = Tail(line)
        /\ IF w.opt \in {"H", "unknown"} THEN pc' = "exit" /\ UNCHANGED set
           ELSE /\ set' = IF w.opt = "file" THEN Named(set, w.arg) ELSE Option(set, w.opt, w.arg)
                /\ UNCHANGED pc
    BY <1>1, <1>4, <2>1 DEF Argument
  <2>3. w.opt \in Options \cup {"file", "H", "unknown"} /\ Line(line')
    <3>1. PICK T : line \in Seq(T)
      BY <1>2 DEF Line, IsSequence
    <3>2. Len(line) >= 1 /\ Head(line) = line[1] /\ Tail(line) \in Seq(T) /\ Len(Tail(line)) = Len(line) - 1
          /\ \A i \in 1..Len(Tail(line)) : Tail(line)[i] = line[i + 1] /\ i + 1 \in 1..Len(line)
      BY <1>4, <3>1
    <3>3. 1 \in 1..Len(line)
      BY <3>1, <3>2
    <3>4. QED
      BY <1>2, <2>1, <2>2, <3>2, <3>3 DEF Line, IsSequence
  <2>4. CASE w.opt \in {"H", "unknown"}
    BY <1>1, <1>2, <2>2, <2>4 DEF Shape
  <2>5. CASE w.opt \notin {"H", "unknown"}
    <3>1. SetOK(set')
      <4>1. CASE w.opt = "file"
        BY <1>2, <2>2, <2>5, <4>1, NamedOK
      <4>2. CASE w.opt # "file"
        <5>1. w.opt \in Options
          BY <2>3, <2>5, <4>2
        <5>2. QED
          BY <1>2, <2>2, <2>5, <4>2, <5>1, OptionOK
      <4>3. QED
        BY <4>1, <4>2
    <3>2. QED
      BY <1>1, <1>2, <2>2, <2>3, <2>5, <3>1 DEF Shape
  <2>6. QED
    BY <2>4, <2>5
<1>5. QED
  BY <1>3, <1>4

LEMMA BeginShape == Shape /\ Begin => Shape'
<1>1. SUFFICES ASSUME Shape, Begin PROVE Shape'
  OBVIOUS
<1>2. PICK x : x = (IF set.xref THEN {crtmp} ELSE {})
  OBVIOUS
<1>3. /\ pc = "doit" /\ UNCHANGED <<line, turn, redfile, before, ip, status, errors, erract, tried>>
      /\ SetOK(set) /\ Finite(disk)
  BY <1>1 DEF Begin, Shape, execVars
<1>4. ASSUME NEW s PROVE Finite(Over([f \in s |-> {}], disk))
  <2>1. PICK g : g = [f \in s |-> {}]
    OBVIOUS
  <2>2. DOMAIN g = s /\ \A f \in s : g[f] = {}
    BY <2>1
  <2>3. Finite(Over(g, disk))
    <3>1. /\ DOMAIN Over(g, disk) = DOMAIN g \cup DOMAIN disk
          /\ \A f \in DOMAIN g : Over(g, disk)[f] = g[f]
          /\ \A f \in DOMAIN disk \ DOMAIN g : Over(g, disk)[f] = disk[f]
      BY OverIs
    <3>2. QED
      BY <1>3, <2>2, <3>1, FS_EmptySet DEF Finite
  <2>4. QED
    BY <2>1, <2>3
<1>5. CASE /\ pc' = "sources" /\ disk' = Over([f \in {execmd} \cup x |-> {}], disk)
           /\ set' = [set EXCEPT !.iuds = @ + 1]
           /\ cmdfile' = put_cmd("SKP_ERR") \o (IF set.verbose THEN put_cmd("ECHO") ELSE <<>>)
  <2>1. SetOK(set')
    BY <1>3, <1>5, FieldsAre, Otherwise DEF SetOK
  <2>2. Finite(disk')
    BY <1>4, <1>5
  <2>3. Begun(cmdfile')
    <3>1. PICK c : c = Command("SKP_ERR", "none", <<>>, <<>>, 0)
      OBVIOUS
    <3>2. c.op = "SKP_ERR" /\ put_cmd("SKP_ERR") = <<c>>
      BY <3>1 DEF Command, put_cmd
    <3>3. PICK d : d = Command("ECHO", "none", <<>>, <<>>, 0)
      OBVIOUS
    <3>4. d.op = "ECHO" /\ put_cmd("ECHO") = <<d>>
      BY <3>3 DEF Command, put_cmd
    <3>5. PICK e : e = (IF set.verbose THEN put_cmd("ECHO") ELSE <<>>)
      OBVIOUS
    <3>6. Block(e, {}) /\ Block(<<c>>, {})
      BY <3>2, <3>5, PutBlock, EmptyBlock
    <3>7. Block(cmdfile', {})
      BY <1>5, <3>2, <3>5, <3>6, BlocksJoin
    <3>8. IsSequence(<<c>>) /\ Len(<<c>>) = 1 /\ <<c>>[1] = c /\ IsSequence(e)
      BY <3>6, OneIsSequence DEF Block
    <3>9. \A i \in 1..Len(<<c>>) : <<c>>[i].op # "EXEC"
      BY <3>2, <3>8
    <3>10. \A i \in 1..Len(e) : e[i].op # "EXEC"
      BY <3>4, <3>5, OneIsSequence, EmptyIsSequence
    <3>11. Trapped(<<c>>) /\ Trapped(e)
      BY <3>9, <3>10 DEF Trapped
    <3>12. Trapped(cmdfile')
      BY <1>5, <3>2, <3>5, <3>8, <3>11, TrappedJoin
    <3>13. /\ Len(e) \in Nat /\ Len(<<c>> \o e) = 1 + Len(e)
           /\ \A i \in 1..1 : (<<c>> \o e)[i] = <<c>>[i]
      BY <3>8, Joined
    <3>14. Len(cmdfile') >= 1 /\ cmdfile'[1] = c
      BY <1>5, <3>2, <3>5, <3>8, <3>13
    <3>15. QED
      BY <3>2, <3>7, <3>12, <3>14 DEF Begun
  <2>4. IsSequence(cmdfile')
    BY <2>3 DEF Begun, Block
  <2>5. QED
    BY <1>1, <1>3, <1>5, <2>1, <2>2, <2>3, <2>4 DEF Shape
<1>6. CASE pc' = "exit" /\ disk' = Over([f \in x |-> {}], disk) /\ UNCHANGED <<set, cmdfile>>
  <2>1. Finite(disk')
    BY <1>4, <1>6
  <2>2. QED
    BY <1>1, <1>3, <1>6, <2>1 DEF Shape
<1>7. QED
  BY <1>1, <1>2, <1>5, <1>6 DEF Begin


LEMMA DoexecIs ==
    ASSUME Words(redfile), IsSequence(cmdfile), NEW cmds, IsSequence(cmds),
           \A i \in 1..Len(cmds) : Formed(cmds[i]), doexec(cmds)
    PROVE  Words(redfile') /\ cmdfile' = cmdfile \o cmds /\ IsSequence(cmdfile')
<1>1. PICK longs : longs = {i \in DOMAIN cmds : IsLong(cmds[i])}
  OBVIOUS
<1>2. cmdfile' = cmdfile \o cmds /\ redfile' = IF longs = {} THEN redfile ELSE cmds[Max(longs)]
  BY <1>1 DEF doexec
<1>3. DOMAIN cmds = 1..Len(cmds) /\ Len(cmds) \in Nat
  BY SequenceIs
<1>4. longs # {} => Max(longs) \in longs
  BY <1>1, <1>3, LastOf
<1>5. Words(redfile')
  BY <1>1, <1>2, <1>3, <1>4 DEF Words
<1>6. IsSequence(cmdfile')
  BY <1>2, Joined
<1>7. QED
  BY <1>2, <1>5, <1>6

LEMMA LocatedOK ==
    ASSUME NEW s, SetOK(s), NEW name
    PROVE  SetOK(Located(s, name))
<1>1. PICK b : b = (IF name \in DOMAIN disk THEN sym2as(disk[name]) ELSE "FFFF")
  OBVIOUS
<1>2. SetOK([s EXCEPT !.cbase = b])
  BY FieldsAre, Otherwise DEF SetOK
<1>3. QED
  BY <1>1, <1>2 DEF Located

LEMMA SourcesShape == Shape /\ Sources => Shape'
<1>1. SUFFICES ASSUME Shape, Sources PROVE Shape'
  OBVIOUS
<1>2. /\ pc = "sources" /\ turn <= Len(set.c_as)
      /\ UNCHANGED <<line, disk, before, ip, status, errors, erract, tried>>
      /\ SetOK(set) /\ Begun(cmdfile) /\ Words(redfile) /\ IsSequence(cmdfile) /\ turn \in Nat \ {0}
  BY <1>1 DEF Sources, Shape, execVars
<1>3. PICK name : name = set.c_as[turn]
  OBVIOUS
<1>4. PICK cmds : cmds = Source(set, name)
  OBVIOUS
<1>5. IsSource(name)
  <2>1. IsSequence(set.c_as) /\ \A n \in Range(set.c_as) : IsSource(n)
    BY <1>2 DEF SetOK
  <2>2. turn \in DOMAIN set.c_as
    BY <1>2, <2>1, SequenceIs
  <2>3. QED
    BY <1>3, <2>1, <2>2 DEF Range
<1>6. Block(cmds, {}) /\ Trapped(cmds)
  BY <1>4, <1>5, SourceBlock
<1>7. CASE doexec(cmds) /\ set' = Located(set, name) /\ turn' = turn + 1 /\ UNCHANGED pc
  <2>1. IsSequence(cmds) /\ \A i \in 1..Len(cmds) : Formed(cmds[i])
    BY <1>6 DEF Block, Fitting
  <2>2. Words(redfile') /\ cmdfile' = cmdfile \o cmds /\ IsSequence(cmdfile')
    BY <1>2, <1>7, <2>1, DoexecIs
  <2>3. Begun(cmdfile')
    BY <1>2, <1>6, <2>2, BegunJoin
  <2>4. SetOK(set') /\ turn' \in Nat \ {0}
    BY <1>2, <1>7, LocatedOK
  <2>5. QED
    BY <1>1, <1>2, <1>7, <2>2, <2>3, <2>4 DEF Shape, Finite
<1>8. CASE pc' = "exit" /\ UNCHANGED <<set, turn, cmdfile, redfile>>
  BY <1>1, <1>2, <1>8 DEF Shape, Finite
<1>9. QED
  BY <1>1, <1>3, <1>4, <1>7, <1>8 DEF Sources

LEMMA FinishShape == Shape /\ Finish => Shape'
<1>1. SUFFICES ASSUME Shape, Finish PROVE Shape'
  OBVIOUS
<1>2. /\ pc = "sources" /\ UNCHANGED <<line, set, turn, disk, before, ip, status, errors, erract, tried>>
      /\ SetOK(set) /\ Begun(cmdfile) /\ Words(redfile) /\ IsSequence(cmdfile)
      /\ ip = 1 /\ status = FALSE /\ errors = FALSE /\ erract = "exit"
  BY <1>1 DEF Finish, Shape, execVars
<1>3. CASE doexec(TailOf(set)) /\ pc' \in {"run", "exit"}
  <2>1. PICK h, e : /\ cmdfile \o TailOf(set) = h \o <<e>> /\ Begun(h)
                    /\ Formed(e) /\ e.op = "RM_EXIT" /\ e.outs = <<execmd>>
    BY <1>2, Completed
  <2>2. Laid(cmdfile \o TailOf(set))
    BY <2>1, BegunThenLaid
  <2>3. IsSequence(TailOf(set)) /\ \A i \in 1..Len(TailOf(set)) : Formed(TailOf(set)[i])
    <3>1. PICK l : /\ TailOf(set) = Body(set) \o <<l>> /\ Formed(l)
      BY LastIs
    <3>2. Block(Body(set), {})
      BY <1>2, BodyIs
    <3>3. IsSequence(Body(set)) /\ IsSequence(<<l>>) /\ \A i \in 1..Len(Body(set)) : Formed(Body(set)[i])
      BY <3>2, OneIsSequence DEF Block, Fitting
    <3>4. IsSequence(Body(set) \o <<l>>)
      BY <3>3, Joined
    <3>5. ASSUME NEW i \in 1..Len(Body(set) \o <<l>>) PROVE Formed((Body(set) \o <<l>>)[i])
      <4>1. \/ i \in 1..Len(Body(set)) /\ (Body(set) \o <<l>>)[i] = Body(set)[i]
            \/ i - Len(Body(set)) \in 1..Len(<<l>>) /\ (Body(set) \o <<l>>)[i] = <<l>>[i - Len(Body(set))]
        BY <3>3, Places
      <4>2. Len(<<l>>) = 1 /\ <<l>>[1] = l
        BY OneIsSequence
      <4>3. Len(Body(set)) \in Nat
        BY <3>3, SequenceIs
      <4>4. \/ (Body(set) \o <<l>>)[i] = l
            \/ i \in 1..Len(Body(set)) /\ (Body(set) \o <<l>>)[i] = Body(set)[i]
        <5>1. CASE i \in 1..Len(Body(set)) /\ (Body(set) \o <<l>>)[i] = Body(set)[i]
          BY <5>1
        <5>2. CASE i - Len(Body(set)) \in 1..Len(<<l>>) /\ (Body(set) \o <<l>>)[i] = <<l>>[i - Len(Body(set))]
          <6>1. i - Len(Body(set)) = 1
            BY <4>2, <4>3, <5>2
          <6>2. QED
            BY <4>2, <5>2, <6>1
        <5>3. QED
          BY <4>1, <5>1, <5>2
      <4>5. QED
        BY <3>1, <3>3, <4>4
    <3>6. QED
      BY <3>1, <3>4, <3>5
  <2>4. Words(redfile') /\ cmdfile' = cmdfile \o TailOf(set) /\ IsSequence(cmdfile')
    BY <1>2, <1>3, <2>3, DoexecIs
  <2>5. Laid(cmdfile') /\ ip' \in 1..Len(cmdfile')
    <3>1. Laid(cmdfile')
      BY <2>2, <2>4
    <3>2. Len(cmdfile') \in Nat /\ Len(cmdfile') >= 1
      BY <2>4, <3>1, SequenceIs DEF Laid
    <3>3. QED
      BY <1>2, <3>1, <3>2
  <2>6. Going(cmdfile', ip', status', erract')
    <3>1. ip' = 1 /\ status' = FALSE
      BY <1>2
    <3>2. QED
      BY <2>5, <3>1 DEF Going
  <2>7. QED
    BY <1>1, <1>2, <1>3, <2>4, <2>6 DEF Shape, Finite
<1>4. CASE pc' = "exit" /\ UNCHANGED <<cmdfile, redfile>>
  BY <1>1, <1>2, <1>4 DEF Shape, Finite
<1>5. QED
  BY <1>1, <1>3, <1>4 DEF Finish


\* Where $EXEC goes after a failure: behind the next TRAP.
LEMMA SkiptoIs ==
    ASSUME IsSequence(cmdfile), NEW i, i \in 1..Len(cmdfile),
           \E t \in i..(Len(cmdfile) - 1) : cmdfile[t].op = "TRAP"
    PROVE  /\ skipto(i) \in (i + 1)..Len(cmdfile) /\ cmdfile[skipto(i) - 1].op = "TRAP"
           /\ \A k \in i..(skipto(i) - 2) : cmdfile[k].op # "TRAP"
<1> DEFINE T == {t \in Nat : t \in i..(Len(cmdfile) - 1) /\ cmdfile[t].op = "TRAP"}
<1>1. Len(cmdfile) \in Nat
  BY SequenceIs
<1>2. PICK m \in T : \A k \in T : m <= k
  <2>1. T \subseteq Nat /\ T # {}
    BY <1>1
  <2> HIDE DEF T
  <2>2. QED
    BY <2>1, LeastNatural
<1>3. /\ m + 1 \in (i + 1)..Len(cmdfile) /\ cmdfile[(m + 1) - 1].op = "TRAP"
      /\ \A k \in i..((m + 1) - 2) : cmdfile[k].op # "TRAP"
  <2>1. m \in i..(Len(cmdfile) - 1) /\ m \in Nat /\ cmdfile[m].op = "TRAP"
    BY <1>2
  <2>2. (m + 1) - 1 = m /\ (m + 1) - 2 = m - 1
    BY <2>1
  <2>3. ASSUME NEW k \in i..(m - 1), cmdfile[k].op = "TRAP" PROVE FALSE
    <3>1. k \in T /\ k < m
      BY <1>1, <2>1, <2>3
    <3>2. QED
      BY <1>2, <2>1, <3>1
  <2>4. QED
    BY <1>1, <2>1, <2>2, <2>3
<1> DEFINE P(j) == cmdfile[j - 1].op = "TRAP" /\ \A k \in i..(j - 2) : cmdfile[k].op # "TRAP"
           s == CHOOSE j \in (i + 1)..(Len(cmdfile) + 1) : P(j)
<1>4. s \in (i + 1)..(Len(cmdfile) + 1) /\ P(s)
  <2>1. m + 1 \in (i + 1)..(Len(cmdfile) + 1) /\ P(m + 1)
    BY <1>1, <1>3
  <2> HIDE DEF P
  <2>2. QED
    BY <2>1
<1>5. skipto(i) = s
  BY DEF skipto
<1> HIDE DEF s
<1>6. s # Len(cmdfile) + 1
  <2>1. SUFFICES ASSUME s = Len(cmdfile) + 1 PROVE FALSE
    OBVIOUS
  <2>2. m \in i..(Len(cmdfile) - 1) /\ cmdfile[m].op = "TRAP"
    BY <1>2
  <2>3. m \in i..(s - 2)
    BY <1>1, <2>1, <2>2
  <2>4. QED
    BY <1>4, <2>2, <2>3
<1>7. s \in (i + 1)..Len(cmdfile)
  BY <1>1, <1>4, <1>6
<1>8. QED
  BY <1>4, <1>5, <1>7

LEMMA FailedShape == Shape /\ Failed => Shape'
<1>1. SUFFICES ASSUME Shape, Failed PROVE Shape'
  OBVIOUS
<1>2. /\ pc = "run" /\ status' = FALSE /\ errors' = TRUE
      /\ UNCHANGED <<disk, redfile, erract, tried, line, set, turn, cmdfile, before>>
      /\ Going(cmdfile, ip, status, erract) /\ status
  BY <1>1 DEF Failed, Shape, driverVars
<1>3. Laid(cmdfile) /\ ip \in 1..Len(cmdfile) /\ ip > 1 /\ cmdfile[ip - 1].op = "EXEC" /\ erract = "skip"
  BY <1>2 DEF Going
<1>4. IsSequence(cmdfile) /\ Len(cmdfile) \in Nat
  BY <1>3, SequenceIs DEF Laid
<1>5. ip' = skipto(ip) /\ pc' = pc
  BY <1>1, <1>3 DEF Failed
<1>6. \E t \in ip..(Len(cmdfile) - 1) : cmdfile[t].op = "TRAP"
  <2>1. ip - 1 \in 1..(Len(cmdfile) - 1)
    BY <1>3, <1>4
  <2>2. PICK t \in ((ip - 1) + 1)..(Len(cmdfile) - 1) : cmdfile[t].op = "TRAP"
    BY <1>3, <2>1 DEF Laid
  <2>3. (ip - 1) + 1 = ip
    BY <1>3, <1>4
  <2>4. QED
    BY <2>2, <2>3
<1>7. ip' \in (ip + 1)..Len(cmdfile)
  BY <1>3, <1>4, <1>5, <1>6, SkiptoIs
<1>8. ip' \in 1..Len(cmdfile)
  BY <1>3, <1>4, <1>7
<1>9. Going(cmdfile', ip', status', erract')
  BY <1>2, <1>3, <1>8 DEF Going
<1>10. QED
  BY <1>1, <1>2, <1>5, <1>9 DEF Shape, Finite

LEMMA ReadyIs ==
    ASSUME Shape, NEW op, Ready(op)
    PROVE  /\ pc = "run" /\ ~status /\ Laid(cmdfile) /\ ip \in 1..Len(cmdfile) /\ Len(cmdfile) \in Nat
           /\ cmdfile[ip].op = op /\ Formed(cmdfile[ip]) /\ IsSequence(cmdfile)
           /\ op # "RM_EXIT" => ip + 1 \in 1..Len(cmdfile) /\ ip \in 1..(Len(cmdfile) - 1)
<1>1. pc = "run" /\ ~status /\ cmdfile[ip].op = op
  BY DEF Ready, Current
<1>2. Laid(cmdfile) /\ ip \in 1..Len(cmdfile)
  BY <1>1 DEF Shape, Going
<1>3. Len(cmdfile) \in Nat /\ Formed(cmdfile[ip]) /\ IsSequence(cmdfile)
  BY <1>2, SequenceIs DEF Laid
<1>4. op # "RM_EXIT" => ip # Len(cmdfile)
  BY <1>1, <1>2 DEF Laid
<1>5. op # "RM_EXIT" => ip + 1 \in 1..Len(cmdfile) /\ ip \in 1..(Len(cmdfile) - 1)
  BY <1>2, <1>3, <1>4
<1>6. QED
  BY <1>1, <1>2, <1>3, <1>5


\* The image of a finite set, and the union of a finite number of them.
LEMMA ImageFinite ==
    ASSUME NEW S, IsFiniteSet(S), NEW f, DOMAIN f = S, f = [x \in S |-> f[x]]
    PROVE  IsFiniteSet({f[x] : x \in S})
<1>1. PICK T : T = {f[x] : x \in S}
  OBVIOUS
<1>2. f \in [S -> T]
  BY <1>1
<1>3. \A t \in T : \E x \in S : f[x] = t
  BY <1>1
<1>4. f \in Surjection(S, T)
  BY <1>2, <1>3 DEF Surjection
<1>5. IsFiniteSet(T)
  BY <1>4, FS_Surjection
<1>6. QED
  BY <1>1, <1>5

LEMMA ContentsFinite ==
    ASSUME NEW d, Finite(d), NEW q, IsSequence(q), Range(q) \subseteq DOMAIN d
    PROVE  IsFiniteSet(UNION {d[f] : f \in Range(q)})
<1>1. PICK R : R = Range(q)
  OBVIOUS
<1>2. IsFiniteSet(R)
  <2>1. Len(q) \in Nat /\ DOMAIN q = 1..Len(q)
    BY SequenceIs
  <2>2. IsFiniteSet(DOMAIN q)
    BY <2>1, FS_Interval
  <2>3. q = [x \in DOMAIN q |-> q[x]]
    BY DEF IsSequence
  <2>4. IsFiniteSet({q[x] : x \in DOMAIN q})
    BY <2>2, <2>3, ImageFinite
  <2>5. QED
    BY <1>1, <2>4 DEF Range
<1>3. PICK g : g = [f \in R |-> d[f]]
  OBVIOUS
<1>4. DOMAIN g = R /\ g = [x \in R |-> g[x]] /\ \A f \in R : g[f] = d[f]
  BY <1>3
<1>5. PICK S : S = {g[f] : f \in R}
  OBVIOUS
<1>6. IsFiniteSet(S)
  BY <1>2, <1>4, <1>5, ImageFinite
<1>7. \A T \in S : IsFiniteSet(T)
  BY <1>1, <1>4, <1>5 DEF Finite
<1>8. IsFiniteSet(UNION S)
  BY <1>6, <1>7, FS_UNION
<1>9. S = {d[f] : f \in R}
  BY <1>4, <1>5
<1>10. QED
  BY <1>1, <1>8, <1>9

\* A file is removed.
LEMMA RemovedFinite ==
    ASSUME Finite(disk), NEW S
    PROVE  Finite([f \in DOMAIN disk \ S |-> disk[f]])
<1>1. PICK g : g = [f \in DOMAIN disk \ S |-> disk[f]]
  OBVIOUS
<1>2. DOMAIN g = DOMAIN disk \ S /\ \A f \in DOMAIN disk \ S : g[f] = disk[f]
  BY <1>1
<1>3. QED
  BY <1>1, <1>2 DEF Finite

LEMMA OverFinite ==
    ASSUME Finite(disk), NEW g, Finite(g)
    PROVE  Finite(Over(g, disk))
<1>1. /\ DOMAIN Over(g, disk) = DOMAIN g \cup DOMAIN disk
      /\ \A f \in DOMAIN g : Over(g, disk)[f] = g[f]
      /\ \A f \in DOMAIN disk \ DOMAIN g : Over(g, disk)[f] = disk[f]
  BY OverIs
<1>2. QED
  BY <1>1 DEF Finite

LEMMA MadeFinite ==
    ASSUME Finite(disk), NEW c, IsFiniteSet(c.adds), NEW from, IsFiniteSet(from)
    PROVE  Finite(Made(c, from))
<1>1. PICK what : what = (IF c.prog = "SYMTOAS" THEN symtoas(from) ELSE from \cup c.adds)
  OBVIOUS
<1>2. IsFiniteSet(what)
  <2>1. symtoas(from) \subseteq from
    BY DEF symtoas
  <2>2. IsFiniteSet(symtoas(from))
    BY <2>1, FS_Subset
  <2>3. IsFiniteSet(from \cup c.adds)
    BY FS_Union
  <2>4. QED
    BY <1>1, <2>2, <2>3
<1>3. PICK R : R = Range(c.outs)
  OBVIOUS
<1>4. PICK g : g = [f \in R |-> IF f = crtmp /\ f \in DOMAIN disk THEN what \cup disk[f] ELSE what]
  OBVIOUS
<1>5. DOMAIN g = R
  BY <1>4
<1>6. ASSUME NEW f \in R PROVE IsFiniteSet(g[f])
  <2>1. CASE f = crtmp /\ f \in DOMAIN disk
    <3>1. IsFiniteSet(disk[f])
      BY <2>1 DEF Finite
    <3>2. IsFiniteSet(what \cup disk[f])
      BY <1>2, <3>1, FS_Union
    <3>3. QED
      BY <1>4, <2>1, <3>2
  <2>2. CASE ~(f = crtmp /\ f \in DOMAIN disk)
    BY <1>2, <1>4, <2>2
  <2>3. QED
    BY <2>1, <2>2
<1>7. Made(c, from) = g
  BY <1>1, <1>3, <1>4 DEF Made
<1>8. QED
  BY <1>5, <1>6, <1>7 DEF Finite

LEMMA LeftFinite ==
    ASSUME Finite(disk), NEW c, NEW d \in LeftBy(c)
    PROVE  Finite(d)
<1>1. PICK R : R = Range(c.outs)
  OBVIOUS
<1>2. Finite([f \in DOMAIN disk \ R |-> disk[f]])
  BY RemovedFinite
<1>3. Finite(Over([f \in R |-> Junk], disk))
  <2>1. PICK g : g = [f \in R |-> Junk]
    OBVIOUS
  <2>2. Finite(g)
    BY <2>1, FS_Singleton DEF Finite, Junk
  <2>3. QED
    BY <2>1, <2>2, OverFinite
<1>4. QED
  BY <1>1, <1>2, <1>3 DEF LeftBy

\* What a step of $EXEC does to the place it is at.
Moved == /\ ip' = ip + 1 /\ UNCHANGED <<pc, errors, erract>> /\ UNCHANGED driverVars
         /\ UNCHANGED redfile

LEMMA RunIs ==
    ASSUME Shape, Run
    PROVE  \E words :
             /\ Ready("EXEC") /\ Moved /\ Words(words)
             /\ words = (IF IsLong(cmdfile[ip]) THEN redfile ELSE cmdfile[ip])
             /\ \/ /\ IsLong(cmdfile[ip]) => redfile # None
                   /\ words.prog = cmdfile[ip].prog
                   /\ Range(words.ins) \subseteq DOMAIN disk
                   /\ UNCHANGED status
                   /\ disk' = Over(Made(words, UNION {disk[f] : f \in Range(words.ins)}), disk)
                \/ /\ status' = TRUE /\ disk' \in LeftBy(words) /\ (IsLong(cmdfile[ip]) => redfile # None)
                \/ status' = TRUE /\ disk' = disk
<1>1. PICK words : words = (IF IsLong(Current) THEN redfile ELSE Current)
  OBVIOUS
<1>2. PICK able : able \in BOOLEAN /\ able = (/\ IsLong(Current) => redfile # None
                      /\ words.prog = Current.prog
                      /\ Range(words.ins) \subseteq DOMAIN disk)
  OBVIOUS
<1>3. /\ Ready("EXEC")
      /\ \/ /\ able /\ UNCHANGED status
            /\ disk' = Over(Made(words, UNION {disk[f] : f \in Range(words.ins)}), disk)
         \/ status' = TRUE /\ disk' \in IF able THEN LeftBy(words) ELSE {disk}
      /\ ip' = ip + 1
      /\ UNCHANGED <<pc, redfile, errors, erract>> /\ UNCHANGED driverVars
  BY <1>1, <1>2 DEF Run
<1>4. Moved
  BY <1>3 DEF Moved
<1>5. Current = cmdfile[ip] /\ Formed(Current) /\ Words(redfile)
  BY <1>3, ReadyIs DEF Current, Shape
<1>6. Words(words)
  BY <1>1, <1>5 DEF Words
<1>7. \/ able /\ UNCHANGED status
         /\ disk' = Over(Made(words, UNION {disk[f] : f \in Range(words.ins)}), disk)
      \/ status' = TRUE /\ able /\ disk' \in LeftBy(words)
      \/ status' = TRUE /\ disk' = disk
  BY <1>2, <1>3
<1>8. able => /\ IsLong(Current) => redfile # None
              /\ words.prog = Current.prog
              /\ Range(words.ins) \subseteq DOMAIN disk
  BY <1>2
<1>9. QED
  BY <1>1, <1>3, <1>4, <1>5, <1>6, <1>7, <1>8


LEMMA RunShape == Shape /\ Run => Shape'
<1>1. SUFFICES ASSUME Shape, Run PROVE Shape'
  OBVIOUS
<1>2. PICK words :
        /\ Ready("EXEC") /\ Moved /\ Words(words)
        /\ words = (IF IsLong(cmdfile[ip]) THEN redfile ELSE cmdfile[ip])
        /\ \/ /\ IsLong(cmdfile[ip]) => redfile # None
              /\ words.prog = cmdfile[ip].prog
              /\ Range(words.ins) \subseteq DOMAIN disk
              /\ UNCHANGED status
              /\ disk' = Over(Made(words, UNION {disk[f] : f \in Range(words.ins)}), disk)
           \/ /\ status' = TRUE /\ disk' \in LeftBy(words) /\ (IsLong(cmdfile[ip]) => redfile # None)
           \/ status' = TRUE /\ disk' = disk
  BY <1>1, RunIs
<1>3. /\ pc = "run" /\ ~status /\ Laid(cmdfile) /\ ip \in 1..Len(cmdfile) /\ Len(cmdfile) \in Nat
      /\ cmdfile[ip].op = "EXEC" /\ Formed(cmdfile[ip]) /\ IsSequence(cmdfile)
      /\ ip + 1 \in 1..Len(cmdfile)
  BY <1>1, <1>2, ReadyIs
<1>4. /\ ip' = ip + 1 /\ UNCHANGED <<pc, errors, erract, line, set, turn, cmdfile, before, redfile>>
  BY <1>2 DEF Moved, driverVars
<1>5. Finite(disk) /\ Words(redfile)
  BY <1>1 DEF Shape
<1>6. Finite(disk')
  <2>1. CASE /\ IsLong(cmdfile[ip]) => redfile # None
             /\ Range(words.ins) \subseteq DOMAIN disk
             /\ disk' = Over(Made(words, UNION {disk[f] : f \in Range(words.ins)}), disk)
    <3>1. Formed(words)
      BY <1>2, <1>3, <1>5, <2>1 DEF Words
    <3>2. IsSequence(words.ins) /\ IsFiniteSet(words.adds)
      BY <3>1 DEF Formed
    <3>3. PICK from : from = UNION {disk[f] : f \in Range(words.ins)}
      OBVIOUS
    <3>4. PICK q : q = words.ins
      OBVIOUS
    <3>5. IsFiniteSet(from)
      BY <1>5, <2>1, <3>2, <3>3, <3>4, ContentsFinite
    <3>6. Finite(Made(words, from))
      BY <1>5, <3>2, <3>5, MadeFinite
    <3>7. QED
      BY <1>5, <2>1, <3>3, <3>6, OverFinite
  <2>2. CASE disk' \in LeftBy(words)
    BY <1>5, <2>2, LeftFinite
  <2>3. CASE disk' = disk
    BY <1>5, <2>3
  <2>4. QED
    BY <1>2, <2>1, <2>2, <2>3
<1>7. status' \in BOOLEAN
  <2>1. status' = status \/ status' = TRUE
    BY <1>2
  <2>2. status \in BOOLEAN
    BY <1>1 DEF Shape
  <2>3. QED
    BY <2>1, <2>2
<1>8. erract = "skip" \/ ip = 1
  BY <1>1, <1>3 DEF Shape, Going
<1>9. erract = "skip"
  BY <1>3, <1>8 DEF Laid
<1>10. Going(cmdfile', ip', status', erract')
  <2>1. (ip + 1) - 1 = ip /\ ip + 1 > 1
    BY <1>3
  <2>2. QED
    BY <1>3, <1>4, <1>9, <2>1 DEF Going
<1>11. QED
  BY <1>1, <1>3, <1>4, <1>6, <1>7, <1>10 DEF Shape

LEMMA RemoveFileShape == Shape /\ RemoveFile => Shape'
<1>1. SUFFICES ASSUME Shape, RemoveFile PROVE Shape'
  OBVIOUS
<1>2. PICK op \in {"RM_FILE", "RM_EXIT"} : Ready(op)
  BY <1>1 DEF RemoveFile
<1>3. /\ pc = "run" /\ ~status /\ Laid(cmdfile) /\ ip \in 1..Len(cmdfile) /\ Len(cmdfile) \in Nat
      /\ cmdfile[ip].op = op /\ IsSequence(cmdfile)
      /\ op # "RM_EXIT" => ip + 1 \in 1..Len(cmdfile)
  BY <1>1, <1>2, ReadyIs
<1>4. PICK file : /\ disk' = [f \in DOMAIN disk \ {file} |-> disk[f]]
                  /\ redfile' = IF file = redname THEN None ELSE redfile
  BY <1>1 DEF RemoveFile
<1>5. /\ pc' = (IF op = "RM_EXIT" THEN "ended" ELSE pc) /\ ip' = ip + 1
      /\ UNCHANGED <<status, errors, erract, line, set, turn, cmdfile, before>>
  BY <1>1, <1>3 DEF RemoveFile, Current, driverVars
<1>6. Finite(disk') /\ Words(redfile')
  BY <1>1, <1>4, RemovedFinite DEF Shape, Words
<1>7. op # "RM_EXIT" => Going(cmdfile', ip', status', erract')
  <2>1. erract = "skip" \/ ip = 1
    BY <1>1, <1>3 DEF Shape, Going
  <2>2. erract = "skip"
    BY <1>2, <1>3, <2>1 DEF Laid
  <2>3. QED
    BY <1>3, <1>5, <2>2 DEF Going
<1>8. ip' \in 1..(Len(cmdfile') + 1)
  BY <1>3, <1>5
<1>9. CASE op = "RM_EXIT"
  <2>1. pc' = "ended"
    BY <1>5, <1>9
  <2>2. QED
    BY <1>1, <1>5, <1>6, <1>8, <2>1 DEF Shape
<1>10. CASE op # "RM_EXIT"
  <2>1. pc' = "run"
    BY <1>3, <1>5, <1>10
  <2>2. QED
    BY <1>1, <1>5, <1>6, <1>7, <1>10, <2>1 DEF Shape
<1>11. QED
  BY <1>9, <1>10

LEMMA ControlIs ==
    ASSUME Shape, Control
    PROVE  /\ \E op \in {"IF_NERR", "SKP_ERR", "TRAP", "ECHO", "PRINT"} :
                  /\ Ready(op)
                  /\ op = "IF_NERR" => ip + 2 \in 1..Len(cmdfile) /\ ip' = IF errors THEN ip + 2 ELSE ip + 1
                  /\ op # "IF_NERR" => ip' = ip + 1
                  /\ op = "SKP_ERR" => erract' = "skip"
                  /\ op # "SKP_ERR" => erract' = erract
           /\ UNCHANGED <<pc, disk, redfile, status, errors, tried, line, set, turn, cmdfile, before>>
           /\ ip' \in 2..Len(cmdfile)
<1>1. UNCHANGED <<pc, disk, redfile, status, errors, tried, line, set, turn, cmdfile, before>>
  BY DEF Control, driverVars
<1>2. PICK op \in {"IF_NERR", "SKP_ERR", "TRAP", "ECHO", "PRINT"} :
        /\ Ready(op)
        /\ op = "IF_NERR" => ip' = IF errors THEN ip + 2 ELSE ip + 1
        /\ op # "IF_NERR" => ip' = ip + 1
        /\ op = "SKP_ERR" => erract' = "skip"
        /\ op # "SKP_ERR" => erract' = erract
  BY DEF Control, IfNErr
<1>3. /\ Laid(cmdfile) /\ ip \in 1..Len(cmdfile) /\ Len(cmdfile) \in Nat
      /\ cmdfile[ip].op = op /\ ip + 1 \in 1..Len(cmdfile) /\ ip \in 1..(Len(cmdfile) - 1)
  BY <1>2, ReadyIs
<1>4. op = "IF_NERR" => ip + 2 \in 1..Len(cmdfile)
  <2>1. SUFFICES ASSUME op = "IF_NERR" PROVE ip + 2 \in 1..Len(cmdfile)
    OBVIOUS
  <2>2. ip + 1 < Len(cmdfile)
    BY <1>3, <2>1 DEF Laid
  <2>3. QED
    BY <1>3, <2>2
<1>5. ip' \in 2..Len(cmdfile)
  BY <1>2, <1>3, <1>4
<1>6. QED
  BY <1>1, <1>2, <1>4, <1>5

LEMMA ControlShape == Shape /\ Control => Shape'
<1>1. SUFFICES ASSUME Shape, Control PROVE Shape'
  OBVIOUS
<1>2. PICK op \in {"IF_NERR", "SKP_ERR", "TRAP", "ECHO", "PRINT"} :
        /\ Ready(op)
        /\ op = "SKP_ERR" => erract' = "skip"
        /\ op # "SKP_ERR" => erract' = erract
  BY <1>1, ControlIs
<1>3. /\ UNCHANGED <<pc, disk, redfile, status, errors, tried, line, set, turn, cmdfile, before>>
      /\ ip' \in 2..Len(cmdfile)
  BY <1>1, ControlIs
<1>4. /\ pc = "run" /\ ~status /\ Laid(cmdfile) /\ ip \in 1..Len(cmdfile) /\ Len(cmdfile) \in Nat
      /\ cmdfile[ip].op = op
  BY <1>1, <1>2, ReadyIs
<1>5. erract' = "skip"
  <2>1. ip > 1 => erract = "skip"
    BY <1>1, <1>4 DEF Shape, Going
  <2>2. op # "SKP_ERR" => ip # 1
    BY <1>4 DEF Laid
  <2>3. op # "SKP_ERR" => ip > 1
    BY <1>4, <2>2
  <2>4. QED
    BY <1>2, <2>1, <2>3
<1>6. Going(cmdfile', ip', status', erract')
  <2>1. ip' \in 1..Len(cmdfile)
    BY <1>3, <1>4
  <2>2. QED
    BY <1>3, <1>4, <1>5, <2>1 DEF Going
<1>7. QED
  BY <1>1, <1>3, <1>4, <1>5, <1>6 DEF Shape, Finite

LEMMA ShapeKept == Shape /\ [Next]_vars => Shape'
<1>1. SUFFICES ASSUME Shape, [Next]_vars PROVE Shape'
  OBVIOUS
<1>2. CASE UNCHANGED vars
  BY <1>1, <1>2 DEF Shape, vars, Finite
<1>3. CASE Next
  BY <1>1, <1>3, ArgumentShape, BeginShape, SourcesShape, FinishShape, FailedShape, RunShape,
     RemoveFileShape, ControlShape DEF Next
<1>4. QED
  BY <1>1, <1>2, <1>3

LEMMA Shaped == Spec => []Shape
<1>1. QED
  BY InitShape, ShapeKept, PTL DEF Spec

\* Every file and object named is counted, what is on the disk can be listed,
\* and $EXEC never leaves the command file: a skip finds its TRAP, a guard the
\* command it guards (exec.as:150-390).
THEOREM Typing == Spec => []TypeOK
<1>1. Shape => TypeOK
  <2>1. SUFFICES ASSUME Shape PROVE TypeOK
    OBVIOUS
  <2>2. ip \in 1..(Len(cmdfile) + 1)
    <3>1. Len(cmdfile) \in Nat
      BY <2>1, SequenceIs DEF Shape
    <3>2. pc = "run" => ip \in 1..Len(cmdfile)
      BY <2>1 DEF Shape, Going
    <3>3. QED
      BY <2>1, <3>1, <3>2 DEF Shape
  <2>3. QED
    BY <2>1, <2>2 DEF Shape, SetOK, Finite, TypeOK
<1>2. QED
  BY <1>1, Shaped, PTL


(***************************************************************************)
(* The temporary files.                                                    *)
(***************************************************************************)
\* What the file for long commands holds is one of the commands.
Kept == redfile = None \/ \E i \in 1..Len(cmdfile) : IsLong(cmdfile[i]) /\ redfile = cmdfile[i]
\* A file is still to be removed at place k, or is no more.
Gone(i, k, d, file) == i <= k \/ file \notin DOMAIN d

\* So with one long command a program reads its own words: what there is behind
\* it was there, or is an output of it.
LEMMA OwnWords ==
    ASSUME Shape, Run, Kept, OneLong(cmdfile)
    PROVE  /\ Ready("EXEC") /\ Moved
           /\ \/ /\ Range(cmdfile[ip].ins) \subseteq DOMAIN disk /\ UNCHANGED status
                 /\ disk' = Over(Made(cmdfile[ip], UNION {disk[f] : f \in Range(cmdfile[ip].ins)}), disk)
              \/ status' = TRUE /\ disk' \in LeftBy(cmdfile[ip])
<1>1. PICK words :
        /\ Ready("EXEC") /\ Moved /\ Words(words)
        /\ words = (IF IsLong(cmdfile[ip]) THEN redfile ELSE cmdfile[ip])
        /\ \/ /\ IsLong(cmdfile[ip]) => redfile # None
              /\ words.prog = cmdfile[ip].prog
              /\ Range(words.ins) \subseteq DOMAIN disk
              /\ UNCHANGED status
              /\ disk' = Over(Made(words, UNION {disk[f] : f \in Range(words.ins)}), disk)
           \/ /\ status' = TRUE /\ disk' \in LeftBy(words) /\ (IsLong(cmdfile[ip]) => redfile # None)
           \/ status' = TRUE /\ disk' = disk
  BY RunIs
<1>2. IsSequence(cmdfile) /\ Len(cmdfile) \in Nat /\ ip \in 1..Len(cmdfile)
  BY <1>1, ReadyIs
<1>3. (IsLong(cmdfile[ip]) => redfile # None) => words = cmdfile[ip]
  <2>1. SUFFICES ASSUME IsLong(cmdfile[ip]), redfile # None PROVE redfile = cmdfile[ip]
    BY <1>1
  <2>2. PICK i \in 1..Len(cmdfile) : IsLong(cmdfile[i]) /\ redfile = cmdfile[i]
    BY <2>1 DEF Kept
  <2>3. DOMAIN cmdfile = 1..Len(cmdfile)
    BY <1>2, SequenceIs
  <2>4. QED
    BY <1>2, <2>1, <2>2, <2>3 DEF OneLong
<1>4. disk \in LeftBy(cmdfile[ip])
  BY DEF LeftBy
<1>5. QED
  BY <1>1, <1>3, <1>4

LEMMA OutputsOnly ==
    ASSUME NEW c, NEW from, NEW d, d = Over(Made(c, from), disk) \/ d \in LeftBy(c)
    PROVE  DOMAIN d \subseteq DOMAIN disk \cup Range(c.outs)
<1>1. DOMAIN Made(c, from) = Range(c.outs)
  BY DEF Made
<1>2. DOMAIN Over(Made(c, from), disk) = DOMAIN Made(c, from) \cup DOMAIN disk
  BY OverIs
<1>3. DOMAIN [f \in Range(c.outs) |-> Junk] = Range(c.outs)
  OBVIOUS
<1>4. DOMAIN Over([f \in Range(c.outs) |-> Junk], disk) = Range(c.outs) \cup DOMAIN disk
  <2>1. PICK g : g = [f \in Range(c.outs) |-> Junk]
    OBVIOUS
  <2>2. DOMAIN Over(g, disk) = DOMAIN g \cup DOMAIN disk
    BY OverIs
  <2>3. QED
    BY <1>3, <2>1, <2>2
<1>5. d \in LeftBy(c) => d = disk \/ d = [f \in DOMAIN disk \ Range(c.outs) |-> disk[f]]
                         \/ d = Over([f \in Range(c.outs) |-> Junk], disk)
  BY DEF LeftBy
<1>6. QED
  BY <1>1, <1>2, <1>4, <1>5

\* A file that is swept stays so, whatever $EXEC does but skip.
LEMMA GoneOn ==
    ASSUME Shape, Kept, OneLong(cmdfile), Run \/ RemoveFile \/ Control,
           NEW k, NEW file, Sweeps(cmdfile, k, file), Gone(ip, k, disk, file)
    PROVE  Gone(ip', k, disk', file)
<1>1. k \in 1..Len(cmdfile) /\ cmdfile[k].op = "RM_FILE" /\ cmdfile[k].outs[1] = file
      /\ \A j \in (k + 1)..Len(cmdfile) : cmdfile[j].op = "EXEC" => file \notin Range(cmdfile[j].outs)
  BY DEF Sweeps, Removes
<1>2. CASE Run
  <2>1. /\ ip \in 1..Len(cmdfile) /\ Len(cmdfile) \in Nat /\ cmdfile[ip].op = "EXEC" /\ ip' = ip + 1
    BY <1>2, OwnWords, ReadyIs DEF Moved
  <2>2. DOMAIN disk' \subseteq DOMAIN disk \cup Range(cmdfile[ip].outs)
    BY <1>2, OwnWords, OutputsOnly
  <2>3. CASE ip <= k
    <3>1. ip # k
      BY <1>1, <2>1
    <3>2. QED
      BY <1>1, <2>1, <2>3, <3>1 DEF Gone
  <2>4. CASE ~(ip <= k)
    <3>1. ip \in (k + 1)..Len(cmdfile)
      BY <1>1, <2>1, <2>4
    <3>2. QED
      BY <1>1, <2>1, <2>2, <2>4, <3>1 DEF Gone
  <2>5. QED
    BY <2>3, <2>4
<1>3. CASE RemoveFile
  <2>1. PICK op \in {"RM_FILE", "RM_EXIT"} : Ready(op)
    BY <1>3 DEF RemoveFile
  <2>2. ip \in 1..Len(cmdfile) /\ Len(cmdfile) \in Nat /\ cmdfile[ip].op = op
    BY <2>1, ReadyIs
  <2>3. ip' = ip + 1 /\ disk' = [f \in DOMAIN disk \ {cmdfile[ip].outs[1]} |-> disk[f]]
    BY <1>3 DEF RemoveFile, Current
  <2>4. DOMAIN disk' = DOMAIN disk \ {cmdfile[ip].outs[1]}
    BY <2>3
  <2>5. CASE ip = k
    BY <1>1, <2>4, <2>5 DEF Gone
  <2>6. CASE ip < k
    BY <1>1, <2>2, <2>3, <2>6 DEF Gone
  <2>7. CASE ~(ip <= k)
    BY <2>4, <2>7 DEF Gone
  <2>8. QED
    BY <1>1, <2>2, <2>5, <2>6, <2>7
<1>4. CASE Control
  <2>1. PICK op \in {"IF_NERR", "SKP_ERR", "TRAP", "ECHO", "PRINT"} :
          /\ Ready(op)
          /\ op = "IF_NERR" => ip + 2 \in 1..Len(cmdfile) /\ ip' = IF errors THEN ip + 2 ELSE ip + 1
          /\ op # "IF_NERR" => ip' = ip + 1
    BY <1>4, ControlIs
  <2>2. /\ ip \in 1..Len(cmdfile) /\ Len(cmdfile) \in Nat /\ cmdfile[ip].op = op /\ Laid(cmdfile)
        /\ ip \in 1..(Len(cmdfile) - 1)
    BY <2>1, ReadyIs
  <2>3. disk' = disk
    BY <1>4, ControlIs
  <2>4. op = "IF_NERR" => ip + 1 # k
    <3>1. op = "IF_NERR" => cmdfile[ip + 1].op = "EXEC"
      BY <2>2 DEF Laid
    <3>2. QED
      BY <1>1, <3>1
  <2>5. ip # k
    BY <1>1, <2>1, <2>2
  <2>6. ip <= k => ip' <= k
    BY <1>1, <2>1, <2>2, <2>4, <2>5
  <2>7. QED
    BY <2>3, <2>6 DEF Gone
<1>5. QED
  BY <1>2, <1>3, <1>4

\* Nor does a skip pass over the place, if no failure does.
LEMMA GoneOver ==
    ASSUME Shape, Failed, NEW k, NEW file, Sweeps(cmdfile, k, file), Reached(cmdfile, k),
           Gone(ip, k, disk, file)
    PROVE  Gone(ip', k, disk', file)
<1>1. /\ pc = "run" /\ disk' = disk /\ Going(cmdfile, ip, status, erract) /\ status
  BY DEF Failed, Shape
<1>2. Laid(cmdfile) /\ ip \in 1..Len(cmdfile) /\ ip > 1 /\ cmdfile[ip - 1].op = "EXEC" /\ erract = "skip"
  BY <1>1 DEF Going
<1>3. IsSequence(cmdfile) /\ Len(cmdfile) \in Nat /\ k \in 1..Len(cmdfile)
  BY <1>2, SequenceIs DEF Laid, Sweeps
<1>4. ip' = skipto(ip)
  BY <1>2 DEF Failed
<1>5. CASE ip <= k
  <2>1. ip - 1 \in 1..(k - 1) /\ (ip - 1) + 1 = ip
    BY <1>2, <1>3, <1>5
  <2>2. PICK t \in ip..(k - 1) : cmdfile[t].op = "TRAP"
    BY <1>2, <2>1 DEF Reached
  <2>3. t \in ip..(Len(cmdfile) - 1)
    BY <1>2, <1>3, <2>2
  <2>4. /\ skipto(ip) \in (ip + 1)..Len(cmdfile)
        /\ \A j \in ip..(skipto(ip) - 2) : cmdfile[j].op # "TRAP"
    BY <1>2, <1>3, <2>2, <2>3, SkiptoIs
  <2>5. ~(t <= skipto(ip) - 2)
    <3>1. SUFFICES ASSUME t <= skipto(ip) - 2 PROVE FALSE
      OBVIOUS
    <3>2. t \in ip..(skipto(ip) - 2)
      BY <1>2, <1>3, <2>2, <2>4, <3>1
    <3>3. QED
      BY <2>2, <2>4, <3>2
  <2>6. skipto(ip) <= k
    BY <1>2, <1>3, <2>2, <2>4, <2>5
  <2>7. QED
    BY <1>4, <2>6 DEF Gone
<1>6. CASE ~(ip <= k)
  BY <1>1, <1>6 DEF Gone
<1>7. QED
  BY <1>5, <1>6


Clearing(failing) ==
    /\ \A file \in Temps : \E k \in 1..Len(cmdfile) :
           Sweeps(cmdfile, k, file) /\ Reached(cmdfile, k) /\ Gone(ip, k, disk, file)
    /\ set.reloc /\ ~set.keep => \E k \in 1..Len(cmdfile) :
           Sweeps(cmdfile, k, l_dot_obj) /\ (failing \/ Gone(ip, k, disk, l_dot_obj))
    /\ set.xref /\ set.xrname # None => \E k \in 1..Len(cmdfile) :
           Sweeps(cmdfile, k, crtmp) /\ (failing \/ Gone(ip, k, disk, crtmp))
    /\ redfile # None => failing \/ \E k \in ip..Len(cmdfile) : Removes(cmdfile[k], redname)

Cleaning ==
    /\ TempsGone
    /\ pc \in {"args", "doit"} => redfile = None
    /\ pc \in {"sources", "run"} => Kept
    /\ pc = "run" => Clearing(errors \/ status)

LEMMA CleaningInit == Init => Cleaning
  BY DEF Init, Cleaning, TempsGone

\* While the commands are written.
LEMMA KeptBy ==
    ASSUME Kept, IsSequence(cmdfile), NEW cmds, IsSequence(cmds), doexec(cmds)
    PROVE  Kept'
<1>1. PICK longs : longs = {i \in DOMAIN cmds : IsLong(cmds[i])}
  OBVIOUS
<1>2. cmdfile' = cmdfile \o cmds /\ redfile' = IF longs = {} THEN redfile ELSE cmds[Max(longs)]
  BY <1>1 DEF doexec
<1>3. DOMAIN cmds = 1..Len(cmds) /\ Len(cmds) \in Nat
  BY SequenceIs
<1>4. /\ Len(cmdfile) \in Nat /\ Len(cmdfile') = Len(cmdfile) + Len(cmds)
      /\ \A i \in 1..Len(cmdfile) : cmdfile'[i] = cmdfile[i]
      /\ \A i \in 1..Len(cmds) : cmdfile'[Len(cmdfile) + i] = cmds[i]
  BY <1>2, Joined
<1>5. CASE longs = {}
  <2>1. redfile' = redfile
    BY <1>2, <1>5
  <2>2. ASSUME NEW i \in 1..Len(cmdfile), IsLong(cmdfile[i]), redfile = cmdfile[i] PROVE Kept'
    <3>1. i \in 1..Len(cmdfile') /\ cmdfile'[i] = cmdfile[i]
      BY <1>3, <1>4
    <3>2. QED
      BY <2>1, <2>2, <3>1 DEF Kept
  <2>3. QED
    BY <2>1, <2>2 DEF Kept
<1>6. CASE longs # {}
  <2>1. Max(longs) \in longs
    BY <1>1, <1>3, <1>6, LastOf
  <2>2. PICK m : m = Max(longs)
    OBVIOUS
  <2>3. m \in 1..Len(cmds) /\ IsLong(cmds[m]) /\ redfile' = cmds[m]
    BY <1>1, <1>2, <1>3, <1>6, <2>1, <2>2
  <2>4. Len(cmdfile) + m \in 1..Len(cmdfile') /\ cmdfile'[Len(cmdfile) + m] = cmds[m]
    BY <1>3, <1>4, <2>3
  <2>5. QED
    BY <2>3, <2>4 DEF Kept
<1>7. QED
  BY <1>5, <1>6

LEMMA WritingCleans ==
    ASSUME Shape, Cleaning, Argument \/ Begin \/ Sources
    PROVE  Cleaning'
<1>1. TempsGone' /\ pc \in {"args", "doit", "sources"} /\ pc' \in {"args", "doit", "sources", "exit"}
  BY DEF Argument, Begin, Sources, TempsGone
<1>2. CASE Argument
  BY <1>1, <1>2 DEF Argument, Cleaning
<1>3. CASE Begin
  BY <1>1, <1>3 DEF Begin, Cleaning, Kept
<1>4. CASE Sources
  <2>1. pc = "sources" /\ pc' \in {"sources", "exit"} /\ Kept /\ IsSequence(cmdfile)
    BY <1>4 DEF Sources, Cleaning, Shape
  <2>2. CASE pc' = "exit"
    BY <1>1, <2>2 DEF Cleaning
  <2>3. CASE pc' = "sources"
    <3>1. PICK name : name = set.c_as[turn]
      OBVIOUS
    <3>2. doexec(Source(set, name))
      BY <1>4, <2>3, <3>1 DEF Sources
    <3>3. IsSource(name)
      <4>1. IsSequence(set.c_as) /\ \A n \in Range(set.c_as) : IsSource(n)
        BY DEF Shape, SetOK
      <4>2. turn \in DOMAIN set.c_as
        BY <1>4, <4>1, SequenceIs DEF Sources, Shape
      <4>3. QED
        BY <3>1, <4>1, <4>2 DEF Range
    <3>4. IsSequence(Source(set, name))
      BY <3>3, SourceBlock DEF Block
    <3>5. Kept'
      BY <2>1, <3>2, <3>4, KeptBy
    <3>6. QED
      BY <1>1, <2>3, <3>5 DEF Cleaning
  <2>4. QED
    BY <2>1, <2>2, <2>3
<1>5. QED
  BY <1>2, <1>3, <1>4

\* The end: what is swept, is so from the first command on.
LEMMA FinishSweeps ==
    ASSUME NEW s, SetOK(s), NEW d, Ordinary(s, d), NEW c, Begun(c)
    PROVE  LET q == c \o TailOf(s)
           IN  /\ \A file \in Temps : SurelySwept(q, file)
               /\ s.reloc /\ ~s.keep => Swept(q, l_dot_obj)
               /\ s.xref /\ s.xrname # None => Swept(q, crtmp)
<1>1. PICK h, e : /\ c \o TailOf(s) = h \o <<e>> /\ h = c \o Body(s)
                  /\ e.op = "RM_EXIT"
  BY Completed
<1>2. \A file : Spares(<<e>>, file)
  BY <1>1, OneIsSequence DEF Spares
<1>3. IsSequence(c) /\ Trapped(c) /\ IsSequence(Body(s)) /\ IsSequence(h)
  <2>1. IsSequence(c) /\ Trapped(c) /\ IsSequence(Body(s))
    BY BodyIs DEF Begun, Block
  <2>2. QED
    BY <1>1, <2>1, Joined
<1>4. /\ Outfile(s) \notin Temps /\ l_dot_obj \notin Temps /\ Outfile(s) # l_dot_obj
      /\ s.xref => s.xrname \notin Temps /\ s.xrname # l_dot_obj
  <2>1. Temps \subseteq WorkFiles /\ l_dot_obj \in WorkFiles
    BY DEF Temps, WorkFiles
  <2>2. WorkFiles \cap Results(s) = {}
    BY DEF Ordinary
  <2>3. Outfile(s) \in Results(s) /\ (s.xref => s.xrname \in Results(s))
    BY DEF Results, Listings
  <2>4. l_dot_obj \notin Temps
    BY DEF Temps, l_dot_obj, tmpf1, tmpf2, tmpf3, tmpf5
  <2>5. QED
    BY <2>1, <2>2, <2>3, <2>4
<1>5. ASSUME NEW file
      PROVE  /\ Swept(Body(s), file) => Swept(h \o <<e>>, file)
             /\ SurelySwept(Body(s), file) => SurelySwept(h \o <<e>>, file)
  <2>1. /\ Swept(Body(s), file) => Swept(h, file)
        /\ SurelySwept(Body(s), file) => SurelySwept(h, file)
    BY <1>1, <1>3, SweptLeft
  <2>2. ASSUME NEW k \in 1..Len(h), Sweeps(h, k, file)
        PROVE  /\ Sweeps(h \o <<e>>, k, file) /\ k \in 1..Len(h \o <<e>>)
               /\ (Reached(h, k) => Reached(h \o <<e>>, k))
    BY <1>2, <1>3, <2>2, SweepsRight
  <2>3. /\ Swept(h, file) => Swept(h \o <<e>>, file)
        /\ SurelySwept(h, file) => SurelySwept(h \o <<e>>, file)
    BY <2>2 DEF Swept, SurelySwept
  <2>4. QED
    BY <2>1, <2>3
<1>6. \A file \in Temps : SurelySwept(h \o <<e>>, file)
  BY <1>4, <1>5, BodyIs
<1>7. s.reloc /\ ~s.keep => Swept(h \o <<e>>, l_dot_obj)
  BY <1>4, <1>5, BodyIs
<1>8. s.xref /\ s.xrname # None => Swept(h \o <<e>>, crtmp)
  BY <1>5, BodyIs
<1>9. QED
  BY <1>1, <1>6, <1>7, <1>8

LEMMA FinishCleans ==
    ASSUME Shape, Cleaning, Finish, Plain'
    PROVE  Cleaning'
<1>1. /\ pc = "sources" /\ pc' \in {"run", "exit"} /\ TempsGone' /\ Kept
      /\ UNCHANGED <<set, disk, before, ip, status, errors>>
      /\ SetOK(set) /\ Begun(cmdfile) /\ IsSequence(cmdfile) /\ ip = 1
  BY DEF Finish, Shape, Cleaning, TempsGone, execVars
<1>2. CASE pc' = "exit"
  BY <1>1, <1>2 DEF Cleaning
<1>3. CASE pc' = "run"
  <2>1. doexec(TailOf(set)) /\ Shape'
    BY <1>3, FinishShape DEF Finish
  <2>2. Laid(cmdfile') /\ IsSequence(cmdfile') /\ Len(cmdfile') \in Nat /\ cmdfile' = cmdfile \o TailOf(set)
    BY <1>3, <2>1, SequenceIs DEF doexec, Shape, Going
  <2>3. /\ \A file \in Temps : SurelySwept(cmdfile', file)
        /\ set.reloc /\ ~set.keep => Swept(cmdfile', l_dot_obj)
        /\ set.xref /\ set.xrname # None => Swept(cmdfile', crtmp)
    <3>1. Ordinary(set, before)
      BY <1>1, <1>3 DEF Plain
    <3>2. PICK q : q = cmdfile \o TailOf(set)
      OBVIOUS
    <3>3. QED
      BY <1>1, <2>2, <3>1, FinishSweeps
  <2>4. Kept'
    <3>1. IsSequence(TailOf(set))
      <4>1. PICK l : TailOf(set) = Body(set) \o <<l>>
        BY LastIs
      <4>2. IsSequence(Body(set)) /\ IsSequence(<<l>>)
        BY <1>1, BodyIs, OneIsSequence DEF Block
      <4>3. QED
        BY <4>1, <4>2, Joined
    <3>2. QED
      BY <1>1, <2>1, <3>1, KeptBy
  <2>5. \A file : \A k \in 1..Len(cmdfile') : Gone(ip', k, disk', file)
    BY <1>1, <2>2 DEF Gone
  <2>6. redfile' # None => \E k \in (ip')..Len(cmdfile') : Removes(cmdfile'[k], redname)
    <3>1. SUFFICES ASSUME redfile' # None PROVE \E k \in 1..Len(cmdfile') : Removes(cmdfile'[k], redname)
      BY <1>1
    <3>2. PICK i \in 1..Len(cmdfile') : IsLong(cmdfile'[i])
      BY <2>4, <3>1 DEF Kept
    <3>3. i # Len(cmdfile')
      BY <2>2, <3>2 DEF Laid, IsLong
    <3>4. i \in 1..(Len(cmdfile') - 1)
      BY <2>2, <3>3
    <3>5. PICK k \in (i + 1)..Len(cmdfile') : Removes(cmdfile'[k], redname)
      BY <2>2, <3>2, <3>4 DEF Laid
    <3>6. k \in 1..Len(cmdfile')
      BY <2>2, <3>4
    <3>7. QED
      BY <3>5, <3>6
  <2>7. Clearing(errors \/ status)'
    <3>1. \A file \in Temps : \E k \in 1..Len(cmdfile') :
              Sweeps(cmdfile', k, file) /\ Reached(cmdfile', k) /\ Gone(ip', k, disk', file)
      BY <2>3, <2>5 DEF SurelySwept
    <3>2. set'.reloc /\ ~set'.keep => \E k \in 1..Len(cmdfile') :
              Sweeps(cmdfile', k, l_dot_obj) /\ Gone(ip', k, disk', l_dot_obj)
      BY <1>1, <2>3, <2>5 DEF Swept
    <3>3. set'.xref /\ set'.xrname # None => \E k \in 1..Len(cmdfile') :
              Sweeps(cmdfile', k, crtmp) /\ Gone(ip', k, disk', crtmp)
      BY <1>1, <2>3, <2>5 DEF Swept
    <3>4. QED
      BY <2>6, <3>1, <3>2, <3>3 DEF Clearing
  <2>8. QED
    BY <1>1, <1>3, <2>4, <2>7 DEF Cleaning
<1>4. QED
  BY <1>1, <1>2, <1>3


\* While they run.
LEMMA RunningCleans ==
    ASSUME Shape, Cleaning, OneLong(cmdfile), Run \/ RemoveFile \/ Control, pc' = "run"
    PROVE  Cleaning'
<1>1. /\ pc = "run" /\ UNCHANGED <<set, cmdfile, errors>> /\ (status \/ errors => status' \/ errors')
      /\ Kept /\ Clearing(errors \/ status) /\ IsSequence(cmdfile)
  <2>1. pc = "run" /\ ~status
    BY DEF Run, RemoveFile, Control, Ready
  <2>2. UNCHANGED <<set, cmdfile, errors>>
    BY DEF Run, RemoveFile, Control, driverVars
  <2>3. QED
    BY <2>1, <2>2 DEF Cleaning, Shape
<1>2. ASSUME NEW k, NEW file, Sweeps(cmdfile, k, file), Gone(ip, k, disk, file)
      PROVE  Gone(ip', k, disk', file)
  BY <1>1, <1>2, GoneOn
<1>3. /\ \A file \in Temps : \E k \in 1..Len(cmdfile) :
             Sweeps(cmdfile, k, file) /\ Reached(cmdfile, k) /\ Gone(ip', k, disk', file)
  BY <1>1, <1>2 DEF Clearing
<1>4. set.reloc /\ ~set.keep => \E k \in 1..Len(cmdfile) :
             Sweeps(cmdfile, k, l_dot_obj) /\ ((errors \/ status) \/ Gone(ip', k, disk', l_dot_obj))
  BY <1>1, <1>2 DEF Clearing
<1>5. set.xref /\ set.xrname # None => \E k \in 1..Len(cmdfile) :
             Sweeps(cmdfile, k, crtmp) /\ ((errors \/ status) \/ Gone(ip', k, disk', crtmp))
  BY <1>1, <1>2 DEF Clearing
<1>6. redfile' # None => (errors \/ status)' \/ \E k \in (ip')..Len(cmdfile') : Removes(cmdfile'[k], redname)
  <2>1. SUFFICES ASSUME redfile' # None, ~errors', ~status'
                 PROVE \E k \in (ip')..Len(cmdfile) : Removes(cmdfile[k], redname)
    BY <1>1
  <2>2. redfile' = redfile \/ redfile' = None
    BY DEF Run, RemoveFile, Control, driverVars
  <2>3. PICK k \in ip..Len(cmdfile) : Removes(cmdfile[k], redname)
    BY <1>1, <2>1, <2>2 DEF Clearing
  <2>4. ip \in Nat /\ Len(cmdfile) \in Nat /\ ip \in 1..Len(cmdfile)
    BY <1>1, SequenceIs DEF Shape, Going
  <2>5. ip' = ip + 1
    <3>1. CASE Run
      BY <3>1 DEF Run
    <3>2. CASE RemoveFile
      BY <3>2 DEF RemoveFile
    <3>3. CASE Control
      BY <1>1, <2>1, <3>3, ControlIs
    <3>4. QED
      BY <3>1, <3>2, <3>3
  <2>6. ip # k
    <3>1. SUFFICES ASSUME ip = k PROVE FALSE
      OBVIOUS
    <3>2. cmdfile[ip].op = "RM_FILE" /\ cmdfile[ip].outs[1] = redname
      BY <2>3, <3>1 DEF Removes
    <3>3. CASE Run
      BY <3>2, <3>3 DEF Run, Ready, Current
    <3>4. CASE RemoveFile
      BY <2>1, <3>2, <3>4 DEF RemoveFile, Current
    <3>5. CASE Control
      <4>1. PICK op \in {"IF_NERR", "SKP_ERR", "TRAP", "ECHO", "PRINT"} : Ready(op)
        BY <3>5, ControlIs
      <4>2. QED
        BY <3>2, <4>1 DEF Ready, Current
    <3>6. QED
      BY <3>3, <3>4, <3>5
  <2>7. k \in (ip')..Len(cmdfile)
    BY <2>4, <2>5, <2>6
  <2>8. QED
    BY <2>3, <2>7
<1>7. Kept'
  <2>1. redfile' = redfile \/ redfile' = None
    BY DEF Run, RemoveFile, Control, driverVars
  <2>2. QED
    BY <1>1, <2>1 DEF Kept
<1>8. Clearing(errors \/ status)'
  BY <1>1, <1>3, <1>4, <1>5, <1>6 DEF Clearing
<1>9. QED
  BY <1>7, <1>8 DEF Cleaning, TempsGone

LEMMA SkippingCleans ==
    ASSUME Shape, Cleaning, Failed
    PROVE  Cleaning'
<1>1. /\ pc = "run" /\ UNCHANGED <<set, cmdfile, redfile>> /\ errors' /\ status
      /\ Kept /\ Clearing(errors \/ status) /\ IsSequence(cmdfile)
  BY DEF Failed, driverVars, Cleaning, Shape
<1>2. pc' = "run"
  BY <1>1 DEF Failed, Shape, Going
<1>3. \A file \in Temps : \E k \in 1..Len(cmdfile) :
             Sweeps(cmdfile, k, file) /\ Reached(cmdfile, k) /\ Gone(ip', k, disk', file)
  <2>1. TAKE file \in Temps
  <2>2. PICK k \in 1..Len(cmdfile) :
             Sweeps(cmdfile, k, file) /\ Reached(cmdfile, k) /\ Gone(ip, k, disk, file)
    BY <1>1 DEF Clearing
  <2>3. QED
    BY <2>2, GoneOver
<1>4. Clearing(errors \/ status)'
  BY <1>1, <1>3 DEF Clearing
<1>5. QED
  BY <1>1, <1>2, <1>4 DEF Cleaning, TempsGone, Kept

\* The last command removes the command file itself.
LEMMA LastCleans ==
    ASSUME Shape, Cleaning, Run \/ RemoveFile \/ Control, pc' # "run"
    PROVE  Cleaning'
<1>1. RemoveFile /\ Ready("RM_EXIT") /\ pc' = "ended"
  BY DEF Run, RemoveFile, Control, Ready, Current
<1>2. /\ pc = "run" /\ ~status /\ Laid(cmdfile) /\ ip \in 1..Len(cmdfile) /\ Len(cmdfile) \in Nat
      /\ cmdfile[ip].op = "RM_EXIT" /\ IsSequence(cmdfile)
  BY <1>1, ReadyIs
<1>3. ip = Len(cmdfile) /\ cmdfile[ip].outs[1] = execmd
  <2>1. ip \notin 1..(Len(cmdfile) - 1)
    BY <1>2 DEF Laid
  <2>2. ip = Len(cmdfile)
    BY <1>2, <2>1
  <2>3. QED
    BY <1>2, <2>2 DEF Laid
<1>4. DOMAIN disk' = DOMAIN disk \ {execmd} /\ redfile' = redfile /\ UNCHANGED <<set, errors>>
  <2>1. /\ disk' = [f \in DOMAIN disk \ {execmd} |-> disk[f]]
        /\ redfile' = (IF execmd = redname THEN None ELSE redfile)
        /\ UNCHANGED <<set, errors>>
    BY <1>1, <1>3 DEF RemoveFile, Current, driverVars
  <2>2. execmd # redname
    BY DEF execmd, redname
  <2>3. QED
    BY <2>1, <2>2
<1>5. Clearing(errors \/ status)
  BY <1>2 DEF Cleaning
<1>6. ASSUME NEW k \in 1..Len(cmdfile), NEW file, Sweeps(cmdfile, k, file), Gone(ip, k, disk, file)
      PROVE  file \notin DOMAIN disk
  <2>1. k # ip
    BY <1>2, <1>6 DEF Sweeps, Removes
  <2>2. ~(ip <= k)
    BY <1>2, <1>3, <2>1
  <2>3. QED
    BY <1>6, <2>2 DEF Gone
<1>7. \A file \in Temps : file \notin DOMAIN disk
  BY <1>5, <1>6 DEF Clearing
<1>8. ~errors /\ set.reloc /\ ~set.keep => l_dot_obj \notin DOMAIN disk
  BY <1>2, <1>5, <1>6 DEF Clearing
<1>9. ~errors /\ set.xref /\ set.xrname # None => crtmp \notin DOMAIN disk
  BY <1>2, <1>5, <1>6 DEF Clearing
<1>10. ~errors => redfile = None
  <2>1. SUFFICES ASSUME ~errors, redfile # None PROVE FALSE
    OBVIOUS
  <2>2. PICK k \in ip..Len(cmdfile) : Removes(cmdfile[k], redname)
    BY <1>2, <1>5, <2>1 DEF Clearing
  <2>3. k = ip
    BY <1>2, <1>3, <2>2
  <2>4. QED
    BY <1>2, <2>2, <2>3 DEF Removes
<1>11. TempsGone'
  BY <1>4, <1>7, <1>8, <1>9, <1>10 DEF TempsGone, Temps
<1>12. QED
  BY <1>1, <1>11 DEF Cleaning

LEMMA CleaningKept == Shape /\ Cleaning /\ Plain /\ Plain' /\ [Next]_vars => Cleaning'
<1>1. SUFFICES ASSUME Shape, Cleaning, Plain, Plain', [Next]_vars PROVE Cleaning'
  OBVIOUS
<1>2. CASE UNCHANGED vars
  BY <1>1, <1>2 DEF Cleaning, vars, TempsGone, Kept, Clearing
<1>3. CASE Argument \/ Begin \/ Sources
  BY <1>1, <1>3, WritingCleans
<1>4. CASE Finish
  BY <1>1, <1>4, FinishCleans
<1>5. CASE Failed
  BY <1>1, <1>5, SkippingCleans
<1>6. CASE Run \/ RemoveFile \/ Control
  <2>1. OneLong(cmdfile)
    BY <1>1, <1>6 DEF Plain, Run, RemoveFile, Control, Ready
  <2>2. QED
    BY <1>1, <1>6, <2>1, RunningCleans, LastCleans
<1>7. QED
  BY <1>1, <1>2, <1>3, <1>4, <1>5, <1>6 DEF Next

\* Whatever fails, the passes' temporary files and the command file are removed,
\* and the others if nothing has failed (ec.c:427-430, 490-517).
THEOREM Cleanup == Spec /\ []Plain => []TempsGone
<1>1. Cleaning => TempsGone
  BY DEF Cleaning
<1>2. QED
  BY <1>1, CleaningInit, CleaningKept, Shaped, PTL DEF Spec
=============================================================================
