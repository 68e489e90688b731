-------------------------------- MODULE Heap --------------------------------
(***************************************************************************)
(* The heap: malloc(), calloc(), realloc() and free() over sbrk().  The    *)
(* search of malloc() is modelled step by step, because it rewrites the    *)
(* chain of blocks as it goes and may give up half-way; the other calls    *)
(* are one step each.                                                      *)
(*                                                                         *)
(* Addresses count units of SUNIT bytes, the size of a `struct store`.     *)
(* Sizes in bytes keep their 16 bits.  A unit of memory holds a header or  *)
(* a datum the program wrote; a stale header stays until it is overwritten.*)
(* Addresses 1 and 2 are allocs[0] and allocs[1]; 0 is the null pointer.   *)
(***************************************************************************)
EXTENDS Integers, FiniteSets

CONSTANTS
    Tags,       \* the blocks the program may hold at a time
    SUNIT,      \* sizeof(struct store), 3 on the Z80
    GRAIN,      \* BLOCK, in bytes (255 in the code)
    WORD,       \* unsigned numbers are taken modulo WORD (65536)
    Base,       \* first unit of the heap (__Hbss)
    Limit,      \* sbrk() gives out units below this one (sp less 1024 bytes)
    Sizes,      \* bytes asked of malloc()
    Resizes,    \* bytes asked of realloc()
    Items,      \* pairs <<n, s>> asked of calloc()
    Foreign,    \* units _bufallo() takes of sbrk() at a time
    Retries     \* TRUE: the program goes on allocating after a null pointer

ASSUME HeapAssumption ==
    /\ SUNIT \in Nat \ {0} /\ GRAIN \in Nat \ {0} /\ GRAIN % SUNIT = 0
    /\ WORD \in Nat \ {0} /\ Sizes \union Resizes \subseteq 0 .. WORD - 1
    /\ Items \subseteq (0 .. WORD - 1) \X (0 .. WORD - 1)
    /\ Base \in Nat /\ Limit \in Nat /\ 3 < Base /\ Base <= Limit
    /\ Foreign \in Nat \ {0} /\ Retries \in BOOLEAN

allocs0 == 1
allocs1 == 2
Units   == 1 .. Limit

VARIABLES
    mem,      \* per unit [ptr, busy, data]: a header or a datum
    allocp,   \* where the next search starts
    alloct,   \* the top block of the arena
    allocx,   \* the unit the last split overwrote
    memtop,   \* the first unit sbrk() has not given out
    call,     \* the malloc() in progress: who called, for what, and p and temp
    held,     \* ghost: per tag the block the program holds [at, want, moved]
    chain,    \* ghost: the blocks linked from allocs[0]
    foreign,  \* ghost: units of others below memtop
    refused   \* ghost: malloc() has returned a null pointer

vars == <<mem, allocp, alloct, allocx, memtop, call, held, chain, foreign, refused>>

Header(ptr, busy) == [ptr |-> ptr, busy |-> busy, data |-> <<>>]
Datum(t, i)       == [ptr |-> 0, busy |-> FALSE, data |-> <<t, i>>]
Blank             == Header(0, FALSE)

NotHeld == [at |-> 0, want |-> 0, moved |-> FALSE]
NoCall  == [pc |-> "idle", op |-> "malloc", tag |-> 0, want |-> 0, nw |-> 0,
            p |-> 0, laps |-> 0, from |-> 0, ons |-> 0]

Lesser(a, b) == IF a < b THEN a ELSE b

\* The units of a block for n bytes, its header included, in WORD arithmetic.
NeedNoHeader(n) == (((n - 1 + SUNIT) % WORD) \div SUNIT)       \* mutant: no header
Need(n) == ((n - 1 + SUNIT * 2) % WORD) \div SUNIT

\* The units by which the arena grows for a block of nw units.
Grain(nw) == ((((nw * SUNIT) + SUNIT - 1 + GRAIN) % WORD) \div GRAIN) * (GRAIN \div SUNIT)

Init ==
    /\ mem = [a \in Units |-> Blank]
    /\ allocp = 0 /\ alloct = 0 /\ allocx = Blank
    /\ memtop = Base
    /\ call = NoCall
    /\ held = [t \in Tags |-> NotHeld]
    /\ chain = {}
    /\ foreign = allocs1 + 1 .. Base - 1
    /\ refused = FALSE

-----------------------------------------------------------------------------
(***************************************************************************)
(* The calls.  The first malloc() links the two blocks of the static arena.*)
(***************************************************************************)
Idle == call.pc = "idle" /\ (refused => Retries)

Search(start, t, op, want, n, from, ons) ==
    call' = [pc |-> "look", op |-> op, tag |-> t, want |-> want, nw |-> Need(n),
             p |-> start, laps |-> 0, from |-> from, ons |-> ons]

Allocate(t, op, want, n) ==
    /\ Idle
    /\ held[t] = NotHeld
    /\ IF mem[allocs0].ptr = 0
       THEN /\ mem' = [mem EXCEPT ![allocs0] = Header(allocs1, TRUE),
                                  ![allocs1] = Header(allocs0, TRUE)]
            /\ alloct' = allocs1 /\ allocp' = allocs0
            /\ chain' = {allocs0, allocs1}
       ELSE UNCHANGED <<mem, alloct, allocp, chain>>
    /\ Search(allocp', t, op, want, n, 0, 0)
    /\ UNCHANGED <<allocx, memtop, held, foreign, refused>>

Malloc(t, n) == Allocate(t, "malloc", n, n)

\* calloc() multiplies in one word, then clears the block it was given.
Calloc(t, item) == Allocate(t, "calloc", item[1] * item[2], (item[1] * item[2]) % WORD)

FreeKeepsBusy(t) ==            \* mutant: no cbusy()
    /\ call.pc = "idle"
    /\ held[t] # NotHeld
    /\ allocp' = held[t].at - 1
    /\ held' = [held EXCEPT ![t] = NotHeld]
    /\ UNCHANGED <<mem, alloct, allocx, memtop, call, chain, foreign, refused>>

Free(t) ==
    LET p == held[t].at - 1 IN
    /\ call.pc = "idle"
    /\ held[t] # NotHeld
    /\ allocp' = p
    /\ mem' = [mem EXCEPT ![p].busy = FALSE]
    /\ held' = [held EXCEPT ![t] = NotHeld]
    /\ UNCHANGED <<alloct, allocx, memtop, call, chain, foreign, refused>>

\* realloc() frees the block and allocates anew; the old contents stay where
\* they are until they have been copied.
Realloc(t, n) ==
    LET xp == held[t].at IN
    /\ Idle
    /\ held[t] # NotHeld
    /\ allocp' = xp - 1
    /\ mem' = [mem EXCEPT ![xp - 1].busy = FALSE]
    /\ held' = [held EXCEPT ![t] = NotHeld]
    /\ Search(xp - 1, t, "realloc", n, n, xp, mem[xp - 1].ptr - xp)
    /\ UNCHANGED <<alloct, allocx, memtop, chain, foreign, refused>>

\* _bufallo() takes its buffers from sbrk() too: the arena has gaps.
Bufallo ==
    /\ call.pc = "idle"
    /\ memtop + Foreign <= Limit
    /\ memtop' = memtop + Foreign
    /\ foreign' = foreign \union (memtop .. memtop + Foreign - 1)
    /\ UNCHANGED <<mem, allocp, alloct, allocx, call, held, chain, refused>>

-----------------------------------------------------------------------------
(***************************************************************************)
(* The search: merge the idle blocks that follow an idle one, take it if   *)
(* it is large enough, go on to the next, and grow the arena after two     *)
(* rounds.                                                                 *)
(***************************************************************************)
Looking    == call.pc = "look"
p          == call.p
q          == mem[call.p].ptr
IsIdle(a)  == ~mem[a].busy

FitsBusy   == q - p >= call.nw                     \* mutant: busy blocks too
FitsNearly == IsIdle(p) /\ q - p >= call.nw - 1    \* mutant: one unit short
Fits       == IsIdle(p) /\ q - p >= call.nw

Merge ==
    /\ Looking
    /\ IsIdle(p) /\ IsIdle(q)
    /\ mem' = [mem EXCEPT ![p].ptr = mem[q].ptr]
    /\ chain' = chain \ {q}
    /\ UNCHANGED <<allocp, alloct, allocx, memtop, call, held, foreign, refused>>

\* What realloc() makes of the memory m in which the new block at `to` was
\* taken: bmove() copies upwards unit by unit, and the unit that the split
\* overwrote comes back from allocx.
Moved(m, to, ns, saved) ==
    LET xp == call.from
        c  == Lesser(call.ons, ns)
        copy == [a \in Units |->
                   IF a \in to .. to + c - 1
                   THEN IF to > xp THEN m[xp + ((a - to) % (to - xp))] ELSE m[xp + (a - to)]
                   ELSE m[a]]
    IN
    IF to = xp THEN m
    ELSE IF to < xp /\ to + ns > xp THEN [copy EXCEPT ![to + (to + ns - xp)] = saved]
    ELSE copy

\* The program then writes what it did not have there before.
Written(m, t, at, first, ns) ==
    [a \in Units |-> IF a \in at + first .. at + ns - 1 THEN Datum(t, a - at) ELSE m[a]]

AllocpStays(rest) == allocp    \* mutant: the search pointer is left behind
AllocpAfter(rest) == rest

Take ==
    LET rest  == p + call.nw
        split == q > rest
        m1    == IF split THEN [mem EXCEPT ![rest] = Header(q, FALSE)] ELSE mem
        m2    == [m1 EXCEPT ![p] = Header(rest, TRUE)]
        ns    == rest - (p + 1)
        saved == IF split THEN mem[rest] ELSE allocx
        again == call.op = "realloc"
    IN
    /\ Looking
    /\ Fits /\ ~IsIdle(q)
    /\ allocp' = AllocpAfter(rest)
    /\ allocx' = saved
    /\ chain' = chain \union {rest}
    /\ mem' = IF again
              THEN Written(Moved(m2, p + 1, ns, saved), call.tag, p + 1, Lesser(call.ons, ns), ns)
              ELSE Written(m2, call.tag, p + 1, 0, ns)
    /\ held' = [held EXCEPT ![call.tag] = [at |-> p + 1, want |-> call.want, moved |-> again]]
    /\ call' = NoCall
    /\ UNCHANGED <<alloct, memtop, foreign, refused>>

\* Past this block, unless the round is over for the second time.
Wraps   == p = alloct /\ q = allocs0
Astray  == q <= p /\ ~Wraps
OneLap  == 1                   \* mutant: one round only
LapsForgotten == 0             \* mutant: rounds are not counted
LapsAfter     == IF Wraps THEN call.laps + 1 ELSE call.laps
LastLap == 2
Done    == Wraps /\ LapsAfter = LastLap

Passed == Looking /\ ~Fits /\ (IsIdle(p) => ~IsIdle(q))

Advance ==
    /\ Passed
    /\ ~Astray /\ ~Done
    /\ call' = [call EXCEPT !.p = q, !.laps = LapsAfter]
    /\ UNCHANGED <<mem, allocp, alloct, allocx, memtop, held, chain, foreign, refused>>

RoomUnchecked == TRUE          \* mutant: what sbrk() answers is not tested
Room == memtop + Grain(call.nw) <= Limit

\* The old top becomes the header of an idle block, or of a busy one over the
\* gap that others left.
Grow ==
    LET new == memtop
        top == memtop + Grain(call.nw) - 1
    IN
    /\ Passed
    /\ Done /\ Room
    /\ mem' = [mem EXCEPT ![alloct].ptr = new, ![alloct].busy = (new # alloct + 1),
                          ![new].ptr = top, ![top].ptr = allocs0,
                          ![top].busy = TRUE, ![new].busy = FALSE]
    /\ alloct' = top
    /\ memtop' = top + 1
    /\ chain' = chain \union {new, top}
    /\ call' = [call EXCEPT !.p = allocs0, !.laps = 0]
    /\ UNCHANGED <<allocp, allocx, held, foreign, refused>>

\* A null pointer: no memory is left, or the chain is not what it should be.
GiveUp ==
    /\ Passed
    /\ Astray \/ (Done /\ ~Room)
    /\ call' = NoCall
    /\ refused' = TRUE
    /\ UNCHANGED <<mem, allocp, alloct, allocx, memtop, held, chain, foreign>>

Searching == Merge \/ Take \/ Advance \/ Grow \/ GiveUp

Next ==
    \/ \E t \in Tags :
        \/ \E n \in Sizes : Malloc(t, n)
        \/ \E n \in Resizes : Realloc(t, n)
        \/ \E item \in Items : Calloc(t, item)
        \/ Free(t)
    \/ Bufallo
    \/ Searching

\* malloc() is a loop without waiting: it runs on until it returns.
Spec == Init /\ [][Next]_vars /\ WF_vars(Searching)

-----------------------------------------------------------------------------
(***************************************************************************)
(* Properties.                                                             *)
(***************************************************************************)
Cells == [ptr : 0 .. Limit, busy : BOOLEAN, data : {<<>>} \union (Tags \X (0 .. Limit))]

\* Every variable keeps its type.
TypeOK ==
    /\ mem \in [Units -> Cells] /\ allocx \in Cells
    /\ allocp \in 0 .. Limit /\ alloct \in 0 .. Limit
    /\ memtop \in Base .. Limit
    /\ call \in [pc : {"idle", "look"}, op : {"malloc", "calloc", "realloc"},
                 tag : Tags \union {0}, want : Nat, nw : 0 .. WORD, p : 0 .. Limit,
                 laps : 0 .. 2, from : 0 .. Limit, ons : 0 .. Limit]
    /\ held \in [Tags -> [at : 0 .. Limit, want : Nat, moved : BOOLEAN]]
    /\ chain \subseteq Units /\ foreign \subseteq 1 .. Limit /\ refused \in BOOLEAN

\* Every block points to the next higher one, and the top one, which is
\* busy, to the first: the "circular", "monotonically linked" arena of the
\* comment at the head of malloc.c.
ChainLinked ==
    \A a \in chain :
        IF a = alloct
        THEN mem[a].ptr = allocs0 /\ mem[a].busy
        ELSE /\ mem[a].ptr \in chain /\ a < mem[a].ptr
             /\ chain \intersect (a + 1 .. mem[a].ptr - 1) = {}

\* Between calls the search pointer is at a block of the chain, so that the
\* next search cannot walk over, and give out, part of a larger block.
SearchStartsInChain == Idle /\ chain # {} => allocp \in chain

\* What the program wrote in a block is there until it frees the block,
\* whatever is allocated, merged, split or moved meanwhile: blocks do not
\* overlap and realloc() carries the contents over.
Keeps(t, first) ==
    \A i \in first .. ((held[t].want + SUNIT - 1) \div SUNIT) - 1 :
        mem[held[t].at + i].data = <<t, i>>

DataIntact == \A t \in Tags : held[t] # NotHeld => Keeps(t, 0)

\* The same, but for the first unit of a block that realloc() gave: that is
\* all realloc() can lose.
RestIntact ==
    \A t \in Tags : held[t] # NotHeld => Keeps(t, IF held[t].moved THEN 1 ELSE 0)

\* A block has room for the bytes that were asked for (htc.txt, MALLOC, CALLOC),
\* and none of it is memory that _bufallo() took of sbrk() for its buffers.
RoomAsAsked ==
    \A t \in Tags : held[t] # NotHeld =>
        LET next == mem[held[t].at - 1].ptr IN
        /\ held[t].want <= (next - held[t].at) * SUNIT
        /\ foreign \intersect (held[t].at .. next - 1) = {}

\* A busy block is the program's, or the bottom or top of the arena, or covers
\* memory that is not malloc's: nothing that was freed stays out of reach.
BusyIsOwned ==
    call.pc = "idle" =>
        \A a \in chain : mem[a].busy =>
            \/ a \in {allocs0, alloct}
            \/ \E t \in Tags : held[t].at = a + 1
            \/ a + 1 \in foreign

\* malloc() returns a null pointer only when no run of idle blocks is large
\* enough, however the runs were cut up before: they are all merged by then.
GivesUpOnlyWhenFull ==
    [][ (refused' /\ ~refused) =>
          \A a \in chain : mem[a].busy \/ (mem[mem[a].ptr].busy /\ mem[a].ptr - a < call.nw) ]_vars

\* malloc() returns.
MallocReturns == (call.pc = "look") ~> (call.pc = "idle")
-----------------------------------------------------------------------------
(***************************************************************************)
(* What the theorems suppose of the program.  It stops once malloc() has   *)
(* refused it (a search that failed leaves allocp behind), and its         *)
(* requests, rounded up to units and then to the grain of the arena, fit   *)
(* the word: malloc() does not test for that (malloc.c:57, :80), nor does  *)
(* calloc() (calloc.c:14).                                                 *)
(***************************************************************************)
Fitting(n) ==
    /\ n - 1 + SUNIT * 2 < WORD
    /\ (Need(n) * SUNIT) + SUNIT - 1 + GRAIN < WORD

Frugal ==
    /\ ~Retries
    /\ \A n \in Sizes \union Resizes : Fitting(n)
    /\ \A item \in Items : item[1] * item[2] < WORD /\ Fitting(item[1] * item[2])
=============================================================================
