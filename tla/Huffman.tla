------------------------------ MODULE Huffman ------------------------------
(* enhuff packs files into one archive, dehuff takes them out.  enhuff runs   *)
(* at its prompt, so that its arguments come from _getargs(); then a dehuff   *)
(* runs on what it left.  The archive is a sequence of bytes of CHAR_BIT bits *)
(* with its real layout - a header, the tree, one entry for each file, the    *)
(* names, the contents - and the two programs share nothing else.             *)
EXTENDS Getargs

CONSTANTS CHAR_BIT,               \* bits in a byte
          LF, CR, ETX,            \* characters with a meaning in texts
          Dash, LetterA, LetterB, LetterF,   \* of options
          MAGIC, HSIZE, FSIZE,    \* huff.h
          Lines,                  \* what may be typed at the prompt: [lines, words],
                                  \* where a word that is meant is a Literal or a Glob
          Disks,                  \* the files there may be: name -> contents
          Asked                   \* what dehuff may be asked for

ALFSIZ == 2^CHAR_BIT
Hole   == ALFSIZ                  \* a byte of the archive nobody has written
EOF    == -1

ASSUME HuffmanAssumption ==
    /\ CHAR_BIT \in Nat \ {0} /\ HSIZE \in Nat /\ FSIZE \in Nat
    /\ MAGIC \in 0..(ALFSIZ^2 - 1) /\ {LF, CR, ETX} \subseteq 1..(ALFSIZ - 1)

\* A word stands for itself, or for those of some files that there are.
Literal(w) == [wild |-> FALSE, names |-> {w}]
Glob(names) == [wild |-> TRUE, names |-> names]

VARIABLES pc,       \* where the two programs are
          typed,    \* at the prompt
          disk,     \* the files: name -> contents
          argv,     \* of enhuff, from _getargs()
          opt,      \* factor and ascii
          flist,    \* the files of the archive
          coding,   \* what make_tree() leaves: the characters, the tree, c_bits
          huf,      \* the archive
          twice,    \* ghost: was a byte of it written twice?
          ask,      \* dehuff's arguments: the names asked for, list or extract
          member,   \* dehuff: the tree it read and the next member
          out       \* dehuff: name -> contents of what it extracted or listed

vars == <<pc, typed, disk, argv, opt, flist, coding, huf, twice, ask, member, out>>

enhuffVars == <<typed, disk, argv, opt, flist, coding, twice>>

\* The directory in the order the BDOS finds it.
Dir == SetToSortSeq(DOMAIN disk, LAMBDA a, b : \E n \in 0..Len(a) :
           /\ n < Len(b) /\ SubSeq(a, 1, n) = SubSeq(b, 1, n)
           /\ n = Len(a) \/ a[n + 1] < b[n + 1])

\* What getc() returns of a text: no carriage returns, nothing from ^Z on.
TextIn(bytes) ==
    LET ends == {i \in 1..Len(bytes) : bytes[i] = ETX}
        upto == IF ends = {} THEN Len(bytes) ELSE (CHOOSE i \in ends : \A j \in ends : i <= j) - 1
    IN  SelectSeq(SubSeq(bytes, 1, upto), LAMBDA c : c # CR)
\* What putc() writes of it.
TextOut(chars) == FlattenSeq([i \in 1..Len(chars) |-> IF chars[i] = LF THEN <<CR, LF>> ELSE <<chars[i]>>])

Contents(f) == IF f.asc THEN TextIn(disk[f.name]) ELSE disk[f.name]

-----------------------------------------------------------------------------
(* qsort(): partition about the middle element, then each part.               *)

Swapped(a, i, j) == [a EXCEPT ![i] = a[j], ![j] = a[i]]

RECURSIVE Partition(_, _, _, _, _), SortPart(_, _, _, _)
Partition(key, a, x, i, j) ==
    IF i > j THEN [a |-> a, i |-> i, j |-> j]
    ELSE LET up   == CHOOSE u \in i..Len(a) : key[a[u]] >= key[x] /\ \A v \in i..(u - 1) : key[a[v]] < key[x]
             down == CHOOSE d \in 1..j : key[a[d]] <= key[x] /\ \A v \in (d + 1)..j : key[a[v]] > key[x]
         IN  IF up <= down THEN Partition(key, Swapped(a, up, down), x, up + 1, down - 1)
             ELSE [a |-> a, i |-> up, j |-> down]

SortPart(key, a, l, r) ==
    IF l >= r THEN a
    ELSE LET p == Partition(key, a, a[(l - 1 + r - 1) \div 2 + 1], l, r)
         IN  SortPart(key, SortPart(key, p.a, l, p.j), p.i, r)

qsort(key, a) == SortPart(key, a, 1, Len(a))

\* What the two sorts compare: the greater frequency, the shorter length first.
cmpr(freq)   == [c \in DOMAIN freq |-> -freq[c]]
cmpnp(paths) == [n \in DOMAIN paths |-> Len(paths[n])]

-----------------------------------------------------------------------------
(* The tree.  A leaf is <<its character>>, a node <<left, right>>.            *)

Sum(freq, first, last) == FoldLeft(+, 0, SubSeq(freq, first, last))
Quotient(a, b) == IF b > 0 THEN a \div b ELSE -(a \div (-b))

\* Where bld() divides first..last: as soon as a part has 1/factor of the weight.
SplitAt(freq, factor, first, last) ==
    LET tot == Quotient(Sum(freq, first, last), factor)
        i   == CHOOSE k \in first..last :
                  /\ k = last \/ Sum(freq, first, k) >= tot
                  /\ \A h \in first..(k - 1) : Sum(freq, first, h) < tot
    IN  IF i = last THEN (first - 1 + last - 1) \div 2 + 1 ELSE i

\* Its leaves are numbered from the left, in the order bld() makes them.
RECURSIVE bld(_, _, _, _)
bld(freq, factor, first, last) ==
    IF first = last THEN <<first>>
    ELSE LET i == SplitAt(freq, factor, first, last)
         IN  <<bld(freq, factor, first, i), bld(freq, factor, i + 1, last)>>

RECURSIVE Leaves(_), Paths(_), walk_tree(_), Named(_, _)
Leaves(t) == IF Len(t) = 1 THEN t ELSE Leaves(t[1]) \o Leaves(t[2])
Paths(t) ==
    IF Len(t) = 1 THEN <<<<>>>>
    ELSE [i \in 1..Len(Paths(t[1])) |-> <<1>> \o Paths(t[1])[i]]
         \o [i \in 1..Len(Paths(t[2])) |-> <<0>> \o Paths(t[2])[i]]
walk_tree(t) == IF Len(t) = 1 THEN <<>> ELSE <<1>> \o walk_tree(t[1]) \o <<0>> \o walk_tree(t[2])
Named(t, chars) == IF Len(t) = 1 THEN <<chars[t[1]]>> ELSE <<Named(t[1], chars), Named(t[2], chars)>>

\* Mutant: the leaves are named from the left.
TreeInOrder(freq, factor) ==
    LET cptrs == qsort(cmpr(freq), [i \in 1..ALFSIZ |-> i - 1])
        used  == Cardinality({c \in 0..(ALFSIZ - 1) : freq[c] > 0})
    IN  Named(bld([i \in 1..used |-> freq[cptrs[i]]], factor, 1, used), cptrs)

\* The shortest leaf gets the most frequent character: cptrs is sorted by
\* frequency, nptrs by length, and they are joined place by place.
Tree(freq, factor) ==
    LET cptrs == qsort(cmpr(freq), [i \in 1..ALFSIZ |-> i - 1])
        used  == Cardinality({c \in 0..(ALFSIZ - 1) : freq[c] > 0})
        shape == bld([i \in 1..used |-> freq[cptrs[i]]], factor, 1, used)
        paths == Paths(shape)
        nptrs == qsort(cmpnp(paths), [i \in 1..used |-> i])
    IN  Named(shape, [n \in 1..used |-> cptrs[CHOOSE i \in 1..used : nptrs[i] = n]])

\* c_bits of every character that has a leaf.
Bits(t) == [c \in Range(Leaves(t)) |-> Paths(t)[CHOOSE i \in 1..Len(Leaves(t)) : Leaves(t)[i] = c]]

-----------------------------------------------------------------------------
(* Bytes.                                                                     *)

BitsAt(bits, first, shift) ==
    FoldFunctionOnSet(+, 0,
        [b \in 0..(CHAR_BIT - 1) |->
            IF first + b <= Len(bits) THEN bits[first + b] * 2^(b + shift) ELSE 0], 0..(CHAR_BIT - 1))

\* Mutant: the bit is counted before it is shifted.
PackLate(bits) ==
    [k \in 1..((Len(bits) + CHAR_BIT - 1) \div CHAR_BIT) |-> BitsAt(bits, (k - 1) * CHAR_BIT + 1, 1)]

\* Bits go into a byte from the low end; align() fills the last one with zeros.
Pack(bits) ==
    [k \in 1..((Len(bits) + CHAR_BIT - 1) \div CHAR_BIT) |-> BitsAt(bits, (k - 1) * CHAR_BIT + 1, 0)]

puthch(chars) == Pack(FlattenSeq([i \in 1..Len(chars) |-> coding.bits[chars[i]]]))

put2(i) == <<i % ALFSIZ, (i \div ALFSIZ) % ALFSIZ>>
put4(i) == put2(i % ALFSIZ^2) \o put2(i \div ALFSIZ^2)

Written(file, pos, bytes) ==
    [i \in 1..(IF pos + Len(bytes) > Len(file) THEN pos + Len(bytes) ELSE Len(file)) |->
        IF i \in (pos + 1)..(pos + Len(bytes)) THEN bytes[i - pos]
        ELSE IF i <= Len(file) THEN file[i] ELSE Hole]

\* A row of writes: bytes at a position, then others at another.
Put(writes) ==
    LET Write(r, w) ==
            [file  |-> Written(r.file, w.at, w.bytes),
             twice |-> r.twice \/ \E i \in (w.at + 1)..(w.at + Len(w.bytes)) :
                                     i <= Len(r.file) /\ r.file[i] # Hole]
        r == FoldLeft(Write, [file |-> huf, twice |-> twice], writes)
    IN  huf' = r.file /\ twice' = r.twice
At(pos, bytes) == [at |-> pos, bytes |-> bytes]

get2(pos) == huf[pos + 1] + huf[pos + 2] * ALFSIZ
get4(pos) == get2(pos) + get2(pos + 2) * ALFSIZ^2

\* A reader is the number of the next bit of the archive.  Once it has run into
\* the end, ok = FALSE: get_bit() leaves the program.
get_bit(k) == (huf[k \div CHAR_BIT + 1] \div 2^(k % CHAR_BIT)) % 2
AtEnd(k)   == k \div CHAR_BIT >= Len(huf)

RECURSIVE get_tree(_, _, _)
get_tree(cl, n, k) ==                      \* n leaves have been read before
    IF AtEnd(k) THEN [ok |-> FALSE, t |-> <<0>>, n |-> n, k |-> k]
    ELSE IF get_bit(k) = 1
         THEN LET l == get_tree(cl, n, k + 1)
                  r == get_tree(cl, l.n, l.k)
              IN  [ok |-> l.ok /\ r.ok, t |-> <<l.t, r.t>>, n |-> r.n, k |-> r.k]
         ELSE [ok |-> TRUE, t |-> <<cl[n + 1]>>, n |-> n + 1, k |-> k + 1]

RECURSIVE gethch(_, _), Chars(_, _, _)
gethch(t, k) ==
    IF Len(t) = 1 THEN [ok |-> TRUE, c |-> t[1], k |-> k]
    ELSE IF AtEnd(k) THEN [ok |-> FALSE, c |-> EOF, k |-> k]
    ELSE gethch(IF get_bit(k) = 1 THEN t[1] ELSE t[2], k + 1)
\* The next n characters, or those before the next null.
Chars(t, k, n) ==
    LET h == gethch(t, k)
    IN  IF n = 0 \/ ~h.ok \/ (n = EOF /\ h.c = 0) THEN [ok |-> n = 0 \/ h.ok, chars |-> <<>>]
        ELSE [Chars(t, h.k, IF n = EOF THEN EOF ELSE n - 1) EXCEPT !.chars = <<h.c>> \o @]

-----------------------------------------------------------------------------
(* enhuff                                                                     *)

option(w)  == IF Len(w) > 1 /\ w[1] = Dash THEN w[2] ELSE EOF
isdash(w)  == w # <<>> /\ w[1] = Dash

\* The prompt: main() has no arguments and takes them from _getargs().
Prompt ==
    /\ pc = "prompt"
    /\ LET a == getargs(<<>>, typed.lines, Dir)
       IN  /\ argv' = a.argv
           /\ pc' = IF a.error = "" THEN "options" ELSE "exit"
           /\ disk' = [f \in {a.redone[i].file : i \in {j \in 1..Len(a.redone) : a.redone[j].mode = "w"}}
                         |-> <<>>] @@ disk
    /\ UNCHANGED <<typed, opt, flist, coding, huf, twice, ask, member, out>>

Options ==
    /\ pc = "options"
    /\ LET flags == CHOOSE n \in 1..Len(argv) : /\ \A i \in 2..n : isdash(argv[i])
                                                /\ n < Len(argv) => ~isdash(argv[n + 1])
           Last1(cs) == {i \in 2..flags : option(argv[i]) \in cs}
           latest(cs) == argv[CHOOSE i \in Last1(cs) : \A j \in Last1(cs) : j <= i]
           given == IF Last1({LetterF}) = {} \/ Len(latest({LetterF})) < 3 THEN 0
                    ELSE latest({LetterF})[3]
       IN  /\ opt' = [factor |-> IF given = 0 THEN 2 ELSE given,
                      ascii |-> Last1({LetterA, LetterB}) # {} /\ option(latest({LetterA, LetterB})) = LetterA]
           /\ argv' = SubSeq(argv, flags + 1, Len(argv))
           /\ pc' = IF Len(argv) - flags < 2 THEN "exit" ELSE "create"
    /\ UNCHANGED <<typed, disk, flist, coding, huf, twice, ask, member, out>>

\* An archive that exists is overwritten if the user says so; it may be that it
\* cannot be created.
Create ==
    /\ pc = "create"
    /\ \/ pc' = "count" /\ disk' = (argv[1] :> <<>>) @@ disk
       \/ pc' = "exit" /\ UNCHANGED disk
    /\ UNCHANGED <<typed, argv, opt, flist, coding, huf, twice, ask, member, out>>

\* Mutant: the bytes on the disk are counted.
NchrsOnDisk(f) == Len(disk[f.name])
Nchrs(f) == Len(Contents(f))

\* make_tree()'s first pass: options among the names apply to those behind them,
\* and a file that cannot be opened is left out.
Counted ==
    LET Name(r, w) ==
            IF option(w) \in {LetterA, LetterB} THEN [r EXCEPT !.ascii = option(w) = LetterA]
            ELSE IF w \notin DOMAIN disk THEN r
            ELSE LET f == [name |-> w, asc |-> r.ascii, npos |-> 0, pos |-> 0, nchrs |-> 0]
                 IN  [r EXCEPT !.files = Append(@, [f EXCEPT !.nchrs = Nchrs(f)])]
    IN  FoldLeft(Name, [ascii |-> opt.ascii, files |-> <<>>], Tail(argv)).files

\* c_freq: the characters of the files and of their names, and a null for each.
Frequencies(files) ==
    LET all == FlattenSeq([i \in 1..Len(files) |-> Contents(files[i]) \o files[i].name \o <<0>>])
    IN  [c \in 0..(ALFSIZ - 1) |-> Cardinality({i \in 1..Len(all) : all[i] = c})]

make_tree ==
    /\ pc = "count"
    /\ flist' = Counted
    /\ IF Counted = <<>>
       THEN pc' = "runaway" /\ UNCHANGED coding    \* bld(0, -1) never returns
       ELSE LET freq == Frequencies(Counted)
                t    == Tree(freq, opt.factor)
            IN  pc' = "tree" /\ coding' = [freq |-> freq, tree |-> t, bits |-> Bits(t)]
    /\ UNCHANGED <<typed, disk, argv, opt, huf, twice, ask, member, out>>

\* The characters of the leaves, then the shape and the 0 that ends it.
TreeBytes == Leaves(coding.tree) \o Pack(Append(walk_tree(coding.tree), 0))

put_tree ==
    /\ pc = "tree" /\ pc' = "names"
    /\ Put(<<At(HSIZE, TreeBytes)>>)
    /\ UNCHANGED <<typed, disk, argv, opt, flist, coding, ask, member, out>>

\* hd_hpos: the entries follow the tree, the names the entries.
hpos   == HSIZE + Len(TreeBytes)
\* Mutant: an entry without its last byte.
EntryShort(i) == hpos + (i - 1) * (FSIZE - 1)
Entry(i) == hpos + (i - 1) * FSIZE
filecnt == Len(flist)

putnames ==
    /\ pc = "names" /\ pc' = "files"
    /\ LET name(i) == puthch(Append(flist[i].name, 0))
           upto(i) == FlattenSeq([j \in 1..i |-> name(j)])
       IN  /\ Put(<<At(Entry(filecnt + 1), upto(filecnt))>>)
           /\ flist' = [i \in 1..filecnt |->
                           [flist[i] EXCEPT !.npos = Entry(filecnt + 1) + Len(upto(i - 1))]]
    /\ UNCHANGED <<typed, disk, argv, opt, coding, ask, member, out>>

\* error() sends the text of its message to stdout, which is the archive.
ErrorText == <<LF>>

\* Mutant: the last file is forgotten.
AllButOne  == \A i \in 1..(filecnt - 1) : flist[i].pos > 0
AllWritten == \A i \in 1..filecnt : flist[i].pos > 0

\* One file of putfiles(); its place is known when it is reached, and the file
\* may have gone since it was counted.
putfile ==
    /\ pc = "files" /\ ~\A i \in 1..filecnt : flist[i].pos > 0
    /\ LET i == CHOOSE j \in 1..filecnt : flist[j].pos = 0 /\ \A k \in 1..(j - 1) : flist[k].pos > 0
       IN  \/ /\ flist' = [flist EXCEPT ![i].pos = Len(huf)]
              /\ Put(<<At(Len(huf), puthch(Contents(flist[i])))>>)
              /\ UNCHANGED pc
           \/ pc' = "aborted" /\ Put(<<At(Len(huf), ErrorText)>>) /\ UNCHANGED flist
    /\ UNCHANGED <<typed, disk, argv, opt, coding, ask, member, out>>

\* The entries, and the header that makes the file an archive.
puthdr ==
    /\ pc = "files" /\ AllWritten
    /\ LET header  == put2(MAGIC) \o put2(filecnt) \o put2(Len(Leaves(coding.tree))) \o put4(hpos)
           entries == FlattenSeq([i \in 1..filecnt |->
                          put4(flist[i].npos) \o put4(flist[i].nchrs) \o put4(flist[i].pos)
                          \o <<IF flist[i].asc THEN 1 ELSE 0>>])
       IN  Put(<<At(0, header), At(hpos, entries)>>)
    /\ pc' = "done"
    /\ UNCHANGED <<typed, disk, argv, opt, flist, coding, ask, member, out>>

-----------------------------------------------------------------------------
(* dehuff                                                                     *)

casecmp(s1, s2) == Len(s1) <= Len(s2) /\ s1 = SubSeq(s2, 1, Len(s1))

isarg(name) == ask.names = {} \/ \E a \in ask.names : casecmp(a, name)

IsArchive == (\A i \in 1..HSIZE : huf[i] # Hole) /\ get2(0) = MAGIC

bld_tree ==
    LET alfused == get2(4)
    IN  get_tree(SubSeq(huf, HSIZE + 1, HSIZE + alfused), 0, (HSIZE + alfused) * CHAR_BIT)

Open ==
    /\ pc \in {"done", "aborted"}
    /\ ask' \in Asked
    /\ IF IsArchive /\ bld_tree.ok
       THEN pc' = "members" /\ member' = [tree |-> bld_tree.t, next |-> 0]
       ELSE pc' = "refused" /\ UNCHANGED member
    /\ UNCHANGED enhuffVars /\ UNCHANGED <<huf, out>>

\* getname() and, if it is wanted, list() or extract() of the next member.  In a
\* file that ends too early error() leaves the program, and what was extracted
\* of the member stays.
Member ==
    /\ pc = "members" /\ member.next < get2(2)
    /\ LET at    == get4(6) + member.next * FSIZE
           asc   == huf[at + 13] # 0
           name  == Chars(member.tree, get4(at) * CHAR_BIT, EOF)
           whole == Chars(member.tree, get4(at + 8) * CHAR_BIT, get4(at + 4))
           wanted == name.ok /\ isarg(name.chars)
       IN  /\ out' = IF ~wanted THEN out
                     ELSE (name.chars :> IF ~ask.extract THEN <<get4(at + 4)>>
                                         ELSE IF asc THEN TextOut(whole.chars) ELSE whole.chars) @@ out
           /\ pc' = IF name.ok /\ (wanted /\ ask.extract => whole.ok) THEN "members" ELSE "cut"
    /\ member' = [member EXCEPT !.next = @ + 1]
    /\ UNCHANGED enhuffVars /\ UNCHANGED <<huf, ask>>

End ==
    /\ pc = "members" /\ member.next = get2(2) /\ pc' = "ended"
    /\ UNCHANGED enhuffVars /\ UNCHANGED <<huf, ask, member, out>>

Init ==
    /\ pc = "prompt" /\ typed \in Lines /\ disk \in Disks
    /\ argv = <<>> /\ opt = [factor |-> 0, ascii |-> FALSE]
    /\ flist = <<>> /\ coding = <<>> /\ huf = <<>> /\ twice = FALSE
    /\ ask = <<>> /\ member = <<>> /\ out = <<>>

Next == \/ Prompt \/ Options \/ Create \/ make_tree \/ put_tree \/ putnames
        \/ putfile \/ puthdr \/ Open \/ Member \/ End

Spec == Init /\ [][Next]_vars

-----------------------------------------------------------------------------
(* Properties                                                                 *)

TypeOK ==
    /\ pc \in {"prompt", "options", "create", "count", "tree", "names", "files", "aborted",
               "done", "members", "ended", "cut", "refused", "exit", "runaway"}
    /\ huf \in Seq(0..Hole) /\ twice \in BOOLEAN
    /\ \A i \in 1..Len(flist) : flist[i].pos \in 0..Len(huf) /\ flist[i].npos \in 0..Len(huf)
    /\ pc \in {"members", "ended"} => member.next \in 0..get2(2)

\* What the words of a line mean in this directory.
Expansion(words) ==
    FlattenSeq([i \in 1..Len(words) |->
        IF words[i].wild THEN SelectSeq(Dir, LAMBDA f : f \in words[i].names)
        ELSE SetToSeq(words[i].names)])

\* The arguments are the words that were typed: quotations kept together and
\* unexpanded, wildcards replaced by the files there are, continued lines joined,
\* redirections taken out (getargs.c:10-24) - those with the operator in quotes as
\* well, which getargs.c:23-24 excludes and line 185 does not; and no line is refused.
WordsSurvive ==
    /\ pc = "options" => argv = <<<<>>>> \o Expansion(typed.words)
    /\ pc = "exit" => argv # <<>>

\* The more frequent of two characters never has the longer code: bld() makes
\* leaves of any length, and two sorts bring lengths and characters together.
FrequentFirst ==
    coding # <<>> =>
        \A c, d \in DOMAIN coding.bits :
            coding.freq[c] > coding.freq[d] => Len(coding.bits[c]) <= Len(coding.bits[d])

\* enhuff moves about in the archive: its parts never overlap and, in the end,
\* leave no byte between them.
WrittenOnce ==
    /\ ~twice
    /\ pc = "done" => \A i \in 1..Len(huf) : huf[i] # Hole

\* An archive whose writing was given up is not taken for one: the header comes
\* last, and dehuff reads no member of a file without it.
AbortedIsRefused ==
    pc \in {"members", "ended"} => \A i \in 1..filecnt : flist[i].pos > 0

\* dehuff lists and extracts what enhuff packed: the members asked for, with
\* their names, and contents that are the same when read as they were packed.
\* It never runs into the end of the archive.
RoundTrip ==
    /\ pc # "cut"
    /\ pc = "ended" =>
        \A i \in 1..filecnt :
            LET f == flist[i]
                Later == \E j \in (i + 1)..filecnt : flist[j].name = f.name
            IN  isarg(f.name) /\ ~Later =>
                    /\ f.name \in DOMAIN out
                    /\ IF ~ask.extract THEN out[f.name] = <<Len(Contents(f))>>
                       ELSE IF f.asc THEN TextIn(out[f.name]) = Contents(f)
                       ELSE out[f.name] = Contents(f)
=============================================================================
