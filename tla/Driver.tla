------------------------------- MODULE Driver -------------------------------
(* The compiler driver and the batch interpreter.  C turns its arguments into *)
(* settings and lists, writes a file of commands and is replaced by $EXEC,    *)
(* which runs them: the passes, which may fail at any time, and the removal   *)
(* of the temporary files.  The two share only files.                         *)
(*                                                                            *)
(* A name is <<base, type>>.  Of a file we know what it was made from: names   *)
(* of files, and the lines <<symbol, address>> of a table of symbols.         *)
EXTENDS Integers, FiniteSets, Sequences, SequencesExt

CONSTANTS Lines,      \* the lines of arguments: sequences of [opt, arg]
          Disks,      \* the files there may be: name -> what it was made from
          LONG        \* words of a command beyond which they go through a file

\* An argument is an option with its text, or a file with its name.
Options == {"A", "R", "V", "S", "C", "E", "O", "I", "U", "D", "L", "X", "F", "P", "M", "W", "Y"}
ASSUME DriverAssumption ==
    /\ LONG \in Nat
    /\ \A l \in Lines : l \in Seq([opt : Options \cup {"file", "H", "unknown"}, arg : Seq(STRING)])
    /\ \A d \in Disks : \A f \in DOMAIN d : IsFiniteSet(d[f])

VARIABLES pc,         \* "args", "doit", "sources", "run", "exit", "ended"
          line,       \* the arguments not yet seen
          set,        \* the settings and lists of C
          turn,       \* the source whose commands are next
          disk,       \* the files: name -> set of names
          redfile,    \* what the file for long commands holds
          cmdfile,    \* the commands written
          ip,         \* $EXEC: the next command,
          status,     \*   did the last program fail (DBUF),
          errors,     \*   has any,
          erract,     \*   and what is done about it
          tried,      \* ghost: the sources whose first pass has been started
          before      \* ghost: the disk as it was

vars == <<pc, line, set, turn, disk, redfile, cmdfile, ip, status, errors, erract, tried, before>>
execVars == <<ip, status, errors, erract, tried>>

tmpf1 == <<"$CTMP1", "$$$">>
tmpf2 == <<"$CTMP2", "$$$">>
tmpf3 == <<"$CTMP3", "$$$">>
redname   == <<"$CTMP4", "$$$">>
tmpf5 == <<"$CTMP5", "$$$">>
l_dot_obj == <<"$L", "OBJ">>
execmd == <<"$$EXEC", "$$$">>
crtmp  == <<"CREF", "TMP">>
Junk   == {<<"junk">>}          \* what a failed pass may leave in its output
None   == <<>>

\* The disk g when the files of f have been written.
Over(f, g) == [x \in DOMAIN f \cup DOMAIN g |-> IF x \in DOMAIN f THEN f[x] ELSE g[x]]

Obj(name) == <<name[1], "OBJ">>
IsSource(name) == name[2] \in {"C", "AS", "SYM"}

-----------------------------------------------------------------------------
(* C: arguments                                                               *)

NoSettings ==
         [keep |-> FALSE, keepas |-> FALSE, verbose |-> FALSE, optimize |-> FALSE, speed |-> FALSE,
          reloc |-> FALSE, xref |-> FALSE, xrname |-> None, nolocal |-> FALSE, wildcard |-> FALSE,
          overlay |-> FALSE, iuds |-> 0, flgs |-> 0, libs |-> 0, objs |-> <<>>, c_as |-> <<>>,
          single |-> None, nfiles |-> 0, outfile |-> None, cbase |-> "100"]

\* The lists begin with what every command gets.
Setup == [NoSettings EXCEPT !.iuds = 3, !.flgs = 1]

\* The first file names the program, if -E has not.
addobj(s, name) ==
    [s EXCEPT !.objs = Append(@, name),
              !.outfile = IF @ = None THEN <<name[1], "COM">> ELSE @]

\* -C, which -S falls into: with an R it asks for cross references.
Keep(s, arg) == IF arg # <<>> /\ arg[1] = "R"
                THEN [s EXCEPT !.xref = TRUE, !.xrname = Tail(arg)]
                ELSE [s EXCEPT !.keep = TRUE]

Option(s, opt, arg) ==
    CASE opt = "A" -> [s EXCEPT !.reloc = TRUE, !.flgs = @ + 1]
      [] opt = "R" -> [s EXCEPT !.wildcard = TRUE]
      [] opt = "V" -> [s EXCEPT !.verbose = TRUE]
      [] opt = "S" -> Keep([s EXCEPT !.keepas = TRUE], arg)
      [] opt = "C" -> Keep(s, arg)
      [] opt = "E" -> [s EXCEPT !.outfile = arg]
      [] opt = "O" -> [s EXCEPT !.optimize = TRUE, !.speed = @ \/ arg = <<"F">>]
      [] opt \in {"I", "U", "D"} -> [s EXCEPT !.iuds = @ + 1]
      [] opt = "L" -> [s EXCEPT !.libs = @ + 1]
      [] opt = "X" -> [s EXCEPT !.nolocal = TRUE, !.flgs = @ + 1]
      [] opt \in {"F", "P", "M", "W"} -> [s EXCEPT !.flgs = @ + 1]
      [] opt = "Y" -> [s EXCEPT !.overlay = TRUE]

\* A file.  Only now are -Y and -A found to exclude each other.
\* Mutant: that there are files is noted, not how many.
SeenOnce(s) == [s EXCEPT !.overlay = @ /\ ~s.reloc, !.nfiles = 1]
Seen(s) == [s EXCEPT !.overlay = @ /\ ~s.reloc, !.nfiles = @ + 1]

Named(s, name) ==
    IF IsSource(name)
    THEN addobj([Seen(s) EXCEPT !.c_as = Append(@, name), !.single = Obj(name)], Obj(name))
    ELSE addobj(Seen(s), name)

Argument ==
    /\ pc = "args"
    /\ IF line = <<>> THEN pc' = "doit" /\ UNCHANGED <<line, set>>
       ELSE LET w == Head(line)
            IN  /\ line' = Tail(line)
                /\ IF w.opt \in {"H", "unknown"} THEN pc' = "exit" /\ UNCHANGED set
                   ELSE /\ set' = IF w.opt = "file" THEN Named(set, w.arg) ELSE Option(set, w.opt, w.arg)
                        /\ UNCHANGED pc
    /\ UNCHANGED <<turn, disk, redfile, cmdfile, before>> /\ UNCHANGED execVars

-----------------------------------------------------------------------------
(* C: commands                                                                *)

Command(op, prog, ins, outs, words) ==
    [op |-> op, prog |-> prog, ins |-> ins, outs |-> outs, words |-> words, adds |-> {}]
put_cmd(op) == <<Command(op, "none", <<>>, <<>>, 0)>>
print == put_cmd("PRINT")
rm(s, file) == (IF s.verbose THEN print ELSE <<>>)
               \o <<Command("RM_FILE", "none", <<>>, <<file>>, 0)>>

\* A command that is too long for the command line reads its words from a file,
\* which is removed behind it.
IsLong(c) == c.op = "EXEC" /\ c.words > LONG
Written(s, c) == <<c>> \o (IF IsLong(c) THEN rm(s, redname) ELSE <<>>)
Exec(s, prog, ins, outs, words) == Written(s, Command("EXEC", prog, ins, outs, words))

\* The files that doexec() and rm() write.  There is one for long commands
\* (redname has no %d): what is written last is in it.
doexec(cmds) ==
    LET longs == {i \in DOMAIN cmds : IsLong(cmds[i])}
    IN  /\ cmdfile' = cmdfile \o cmds
        /\ redfile' = IF longs = {} THEN redfile ELSE cmds[Max(longs)]

ZAS(s, input, name) ==
    Exec(s, "ZAS", <<input>>, <<Obj(name)>>,
         2 + (IF s.nolocal THEN 1 ELSE 0) + (IF s.optimize /\ ~s.speed THEN 1 ELSE 0))

\* The name is shown if there are several.
shown(s) == IF Len(s.c_as) > 1 THEN print ELSE <<>>

assemble(s, name) == shown(s) \o ZAS(s, name, name)

\* Where an overlay begins: behind the resident program, says its table of symbols.
Starts(lines) == {l \in lines : Len(l) = 2 /\ l[1] = "__ovrbgn"}
sym2as(lines) ==
    IF Starts(lines) = {} THEN "100" ELSE (CHOOSE l \in Starts(lines) : TRUE)[2]
\* The last table decides.
Located(s, name) ==
    IF ~s.overlay \/ name[2] # "SYM" THEN s
    ELSE [s EXCEPT !.cbase = IF name \in DOMAIN disk THEN sym2as(disk[name]) ELSE "FFFF"]

assemble_sym(s, name) ==
    (IF s.overlay THEN Exec(s, "SYMTOAS", <<name>>, <<tmpf5>>, 2) \o put_cmd("TRAP") ELSE <<>>)
    \o shown(s) \o ZAS(s, tmpf5, name)

compile(s, name) ==
    LET as == <<name[1], "AS">>
        xr == IF s.xref THEN <<crtmp>> ELSE <<>>
    IN  shown(s)
        \o Exec(s, "CPP", <<name>>, <<tmpf1>>, s.iuds + 2)
        \o Exec(s, "P1", <<tmpf1>>, <<tmpf2, tmpf3>> \o xr, 3 + Len(xr))
        \o Exec(s, "CGEN", <<tmpf2>>, <<IF s.keepas /\ ~s.optimize THEN as ELSE tmpf1>>, 2)
        \o (IF ~s.optimize THEN <<>>
            ELSE Exec(s, "OPTIM", <<tmpf1>>, <<IF s.keepas THEN as ELSE tmpf2>>, 2))
        \o (IF s.keepas THEN <<>> ELSE ZAS(s, IF s.optimize THEN tmpf2 ELSE tmpf1, name))

\* One turn of doit()'s loop.
Passes(s, name) ==
    CASE name[2] = "C" -> compile(s, name)
      [] name[2] = "AS" -> assemble(s, name)
      [] name[2] = "SYM" -> assemble_sym(s, name)
\* Mutant: the failure of one source goes on to the end.
SourceNoTrap(s, name) == Passes(s, name)
Source(s, name) == Passes(s, name) \o put_cmd("TRAP")

TempsRemoved(s) == rm(s, tmpf1) \o rm(s, tmpf2) \o rm(s, tmpf3) \o rm(s, tmpf5)

Outfile(s) == IF s.overlay /\ ~s.reloc THEN <<s.outfile[1], "OVR">> ELSE s.outfile

\* The linker, unless -C: with -A its output is made relocatable by OBJTOHEX.
Linked(s) ==
    LET words == s.flgs + 2 + Len(s.objs) + s.libs + (IF s.reloc THEN 0 ELSE 1)
                 + (IF s.overlay THEN 0 ELSE 2 + (IF s.wildcard THEN 1 ELSE 0))
        link  == [Command("EXEC", "LINK", s.objs, <<IF s.reloc THEN l_dot_obj ELSE Outfile(s)>>, words)
                  EXCEPT !.adds = IF s.overlay THEN {<<"text", s.cbase>>} ELSE {}]
    IN  IF s.keep THEN <<>>
        ELSE put_cmd("IF_NERR") \o Written(s, link)
             \o (IF s.reloc THEN Exec(s, "OBJTOHEX", <<l_dot_obj>>, <<Outfile(s)>>, 4) \o rm(s, l_dot_obj)
                 ELSE <<>>)
             \o (IF Len(s.c_as) = 1 /\ s.nfiles = 1 THEN rm(s, s.single) ELSE <<>>)

CrossReferenced(s) ==
    IF ~s.xref THEN <<>>
    ELSE IF s.xrname = None THEN print
    ELSE put_cmd("IF_NERR") \o Exec(s, "CREF", <<crtmp>>, <<s.xrname>>, 3) \o rm(s, crtmp)

\* Mutant: the temporary files are removed behind the linker.
TailLate(s) == Linked(s) \o TempsRemoved(s) \o CrossReferenced(s) \o put_cmd("TRAP")
               \o <<Command("RM_EXIT", "none", <<>>, <<execmd>>, 0)>>
TailOf(s) == TempsRemoved(s) \o Linked(s) \o CrossReferenced(s) \o put_cmd("TRAP")
             \o <<Command("RM_EXIT", "none", <<>>, <<execmd>>, 0)>>

\* doit() up to its loop.  The command file may not be created.
Begin ==
    /\ pc = "doit"
    /\ LET xref == IF set.xref THEN {crtmp} ELSE {}
       IN  \/ /\ pc' = "sources" /\ disk' = Over([f \in {execmd} \cup xref |-> {}], disk)
              /\ set' = [set EXCEPT !.iuds = @ + 1]
              /\ cmdfile' = put_cmd("SKP_ERR") \o (IF set.verbose THEN put_cmd("ECHO") ELSE <<>>)
           \/ /\ pc' = "exit" /\ disk' = Over([f \in xref |-> {}], disk) /\ UNCHANGED <<set, cmdfile>>
    /\ UNCHANGED <<line, turn, redfile, before>> /\ UNCHANGED execVars

\* The loop.  A command too long may find no room for its file.
Sources ==
    /\ pc = "sources" /\ turn <= Len(set.c_as)
    /\ LET name == set.c_as[turn]
           cmds == Source(set, name)
       IN  \/ doexec(cmds) /\ set' = Located(set, name) /\ turn' = turn + 1 /\ UNCHANGED pc
          \/ /\ pc' = "exit" /\ \E i \in DOMAIN cmds : IsLong(cmds[i])
             /\ UNCHANGED <<set, turn, cmdfile, redfile>>
    /\ UNCHANGED <<line, disk, before>> /\ UNCHANGED execVars

\* The rest of doit(): without a file there is nothing to name the program, and
\* the interpreter may not be found.
Finish ==
    /\ pc = "sources" /\ turn > Len(set.c_as)
    /\ \/ /\ set.keep \/ set.outfile # None
          /\ doexec(TailOf(set)) /\ pc' \in {"run", "exit"}
       \/ pc' = "exit" /\ UNCHANGED <<cmdfile, redfile>>
    /\ UNCHANGED <<line, set, turn, disk, before>> /\ UNCHANGED execVars

-----------------------------------------------------------------------------
(* $EXEC                                                                      *)

Current == cmdfile[ip]
Ready(op) == pc = "run" /\ ~status /\ ip <= Len(cmdfile) /\ Current.op = op
driverVars == <<line, set, turn, cmdfile, before>>

\* Mutant: only the next command is skipped.
skipOne(i) == i + 1
\* skipto: the command behind the next TRAP.
skipto(i) == CHOOSE j \in (i + 1)..(Len(cmdfile) + 1) :
                 /\ cmdfile[j - 1].op = "TRAP"
                 /\ \A k \in i..(j - 2) : cmdfile[k].op # "TRAP"

\* The last program has failed.
Failed ==
    /\ pc = "run" /\ status
    /\ status' = FALSE /\ errors' = TRUE
    /\ IF erract = "exit" THEN pc' = "ended" /\ UNCHANGED ip
       ELSE ip' = skipto(ip) /\ UNCHANGED pc
    /\ UNCHANGED <<disk, redfile, erract, tried>> /\ UNCHANGED driverVars

\* SYMTOAS writes a definition for each line that has a symbol.
symtoas(lines) == {l \in lines : Len(l) = 2}

\* What a program makes: of its inputs, and CREF.TMP grows.
Made(c, from) ==
    LET what == IF c.prog = "SYMTOAS" THEN symtoas(from) ELSE from \cup c.adds
    IN  [f \in Range(c.outs) |-> IF f = crtmp /\ f \in DOMAIN disk THEN what \cup disk[f] ELSE what]

\* What it may leave if it fails: its outputs as they were, gone, or in part.
LeftBy(c) == {disk, [f \in DOMAIN disk \ Range(c.outs) |-> disk[f]], Over([f \in Range(c.outs) |-> Junk], disk)}

\* A program reads its words, from the command or through <file, then its inputs,
\* and writes its outputs.
Run ==
    /\ Ready("EXEC")
    /\ LET long  == IsLong(Current)
           words == IF long THEN redfile ELSE Current
           able  == /\ long => redfile # None
                    /\ words.prog = Current.prog
                    /\ Range(words.ins) \subseteq DOMAIN disk
       IN  /\ \/ /\ able /\ UNCHANGED status
                 /\ disk' = Over(Made(words, UNION {disk[f] : f \in Range(words.ins)}), disk)
              \/ /\ status' = TRUE
                 /\ disk' \in IF able THEN LeftBy(words) ELSE {disk}
           /\ tried' = tried \cup (IF long => redfile # None THEN Range(words.ins) ELSE {})
    /\ ip' = ip + 1
    /\ UNCHANGED <<pc, redfile, errors, erract>> /\ UNCHANGED driverVars

RemoveFile ==
    /\ Ready("RM_FILE") \/ Ready("RM_EXIT")
    /\ LET file == Current.outs[1]
       IN  /\ disk' = [f \in DOMAIN disk \ {file} |-> disk[f]]
           /\ redfile' = IF file = redname THEN None ELSE redfile
    /\ pc' = IF Current.op = "RM_EXIT" THEN "ended" ELSE pc
    /\ ip' = ip + 1
    /\ UNCHANGED <<status, errors, erract, tried>> /\ UNCHANGED driverVars

\* Mutant: the linker runs whatever has failed.
IfNErrNever == ip' = ip + 1
IfNErr == ip' = IF errors THEN ip + 2 ELSE ip + 1

Control ==
    /\ \/ Ready("IF_NERR") /\ IfNErr /\ UNCHANGED erract
       \/ Ready("SKP_ERR") /\ erract' = "skip" /\ ip' = ip + 1
       \/ (Ready("TRAP") \/ Ready("ECHO") \/ Ready("PRINT")) /\ ip' = ip + 1 /\ UNCHANGED erract
    /\ UNCHANGED <<pc, disk, redfile, status, errors, tried>> /\ UNCHANGED driverVars

Init ==
    /\ pc = "args" /\ line \in Lines /\ set = Setup /\ turn = 1
    /\ disk \in Disks /\ before = disk /\ redfile = None /\ cmdfile = <<>>
    /\ ip = 1 /\ status = FALSE /\ errors = FALSE /\ erract = "exit" /\ tried = {}

Next == \/ Argument \/ Begin \/ Sources \/ Finish
        \/ Failed \/ Run \/ RemoveFile \/ Control

\* $EXEC runs one command after the other, and every program comes back to it.
Spec == Init /\ [][Next]_vars /\ WF_vars(Next)

-----------------------------------------------------------------------------
(* Properties                                                                 *)

Sourced   == Range(set.c_as)
Objects(s) == {Obj(name) : name \in Range(s.c_as)}
Tables(s)  == {name \in Range(s.c_as) : name[2] = "SYM"}
SameAsBefore(f) == IF f \in DOMAIN before THEN f \in DOMAIN disk /\ disk[f] = before[f]
                   ELSE f \notin DOMAIN disk

\* What the properties suppose of a command line and the files there are: what
\* is read, written and passed on are different files, and each source has an
\* object of its own; -S comes without an R, which would link objects that were
\* not made; a table of symbols is for an overlay, which has one place to begin.
WorkFiles  == {tmpf1, tmpf2, tmpf3, redname, tmpf5, l_dot_obj, execmd, crtmp}
Inputs(s)  == Range(s.c_as) \cup (Range(s.objs) \ Objects(s))
Listings(s) == (IF s.xref THEN {s.xrname} ELSE {})
               \cup (IF s.keepas THEN {<<name[1], "AS">> : name \in {n \in Range(s.c_as) : n[2] = "C"}} ELSE {})
Results(s) == {Outfile(s)} \cup Listings(s)
Ordinary(s, d) ==
    /\ WorkFiles \cap (Objects(s) \cup Inputs(s) \cup Results(s)) = {}
    /\ Objects(s) \cap (Inputs(s) \cup Results(s)) = {} /\ Inputs(s) \cap Results(s) = {}
    /\ \A m, n \in Range(s.c_as) : Obj(m) = Obj(n) => m = n
    /\ Outfile(s) \notin Listings(s)
    /\ s.keepas => s.keep
    /\ \A y \in Tables(s) : /\ s.overlay /\ y \in DOMAIN d /\ Tables(s) = {y}
                            /\ \A l, m \in Starts(d[y]) : l = m
\* And the file for long commands is written once.
OneLong(cmds) ==
    \A i, j \in DOMAIN cmds : IsLong(cmds[i]) /\ IsLong(cmds[j]) => cmds[i] = cmds[j]
Plain == pc \in {"sources", "run"} => Ordinary(set, before) /\ OneLong(cmdfile)

TypeOK ==
    /\ pc \in {"args", "doit", "sources", "run", "exit", "ended"}
    /\ Len(set.objs) = set.nfiles /\ Len(set.c_as) <= set.nfiles
    /\ \A f \in DOMAIN disk : IsFiniteSet(disk[f])
    /\ ip \in 1..(Len(cmdfile) + 1) /\ status \in BOOLEAN /\ errors \in BOOLEAN
    /\ erract \in {"exit", "skip"}

\* All sources go through the same temporary files, which may be left over from
\* an earlier run: an object is made of its own source all the same, or what was
\* there is left alone, wherever a pass has failed (ec.c:756-830, exec.as:376-382).
\* A .SYM file is left out: behind the TRAP of ec.c:705 a SYMTOAS that failed is
\* forgotten, and an old $CTMP5 assembled.
OwnSource ==
    \A name \in {n \in Sourced : n[2] # "SYM"} :
        \/ SameAsBefore(Obj(name))
        \/ Obj(name) \notin DOMAIN disk
        \/ disk[Obj(name)] \in {Junk, before[name]}

\* The program is linked from all the files that were named, as they are now, or
\* it is the old one, or none: an object that could not be made again is not linked in
\* (IF_NERR, ec.c:488).  With -A this holds when nothing has failed.
\* An overlay begins where the resident program's symbols say.
Contents(d, name) == IF name[2] = "SYM" THEN symtoas(d[name]) ELSE d[name]
Start(s, d) == {<<"text", l[2]>> : l \in UNION {Starts(d[n]) : n \in Tables(s)}}
Wanted(s, d) == (UNION {Contents(d, name) : name \in Range(s.c_as)})
                \cup (UNION {d[f] : f \in Range(s.objs) \ Objects(s)})
                \cup (IF ~s.overlay THEN {} ELSE IF Start(s, d) = {} THEN {<<"text", "100">>} ELSE Start(s, d))
Built ==
    LET out == Outfile(set)
    IN  /\ pc = "run" /\ ~set.reloc =>
               SameAsBefore(out) \/ out \notin DOMAIN disk \/ disk[out] \in {Junk, Wanted(set, before)}
        /\ pc = "ended" /\ ~errors /\ ~set.keep => out \in DOMAIN disk /\ disk[out] = Wanted(set, before)

\* "The temporary files ... will have been deleted": the passes' and the command
\* file whatever has failed, the others if nothing has (ec.c:427-430, 498, 517).
TempsGone ==
    pc = "ended" =>
        /\ DOMAIN disk \cap {tmpf1, tmpf2, tmpf3, tmpf5, execmd} = {}
        /\ ~errors => /\ redfile = None
                      /\ set.reloc /\ ~set.keep => l_dot_obj \notin DOMAIN disk
                      /\ set.xref /\ set.xrname # None => crtmp \notin DOMAIN disk

\* Each source is tried, whatever has become of those before it: the skip stops
\* at the TRAP between them (ec.c:425).
EverySourceTried == pc = "run" ~> Sourced \subseteq tried
=============================================================================
