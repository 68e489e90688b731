----------------------------- MODULE HeapProofs -----------------------------
(***************************************************************************)
(* Theorems about Heap for every size of memory, unit, grain and word,     *)
(* every set of blocks and of requests.                                    *)
(***************************************************************************)
EXTENDS Heap, TLAPS

(***************************************************************************)
(* The inductive invariant.                                                *)
(***************************************************************************)
IsHeld(a) == \E t \in Tags : held[t] # NotHeld /\ held[t].at = a + 1

\* The chain runs from allocs[0] to alloct, which is the last block below
\* memtop but for what others took; before the first malloc() it is empty.
Bounds ==
    /\ chain = {} => /\ mem[allocs0].ptr = 0 /\ call.pc = "idle"
                     /\ \A t \in Tags : held[t] = NotHeld
    /\ chain # {} => /\ allocs0 \in chain /\ mem[allocs0].busy
                     /\ alloct \in chain /\ alloct # allocs0
                     /\ alloct + 1 < memtop => alloct + 1 \in foreign
    /\ \A a \in chain : a <= alloct /\ alloct < memtop

\* What others took of sbrk() is no header and in no block that malloc() may
\* give out.
Apart ==
    /\ allocs1 + 1 \in foreign
    /\ foreign \subseteq allocs1 + 1 .. memtop - 1
    /\ \A a \in chain :
        /\ a \notin foreign
        /\ ~mem[a].busy \/ IsHeld(a) => foreign \intersect (a .. mem[a].ptr - 1) = {}

\* The program's blocks are busy blocks of the chain, each its own.
HoldsOne(t) ==
    /\ held[t].at - 1 \in chain /\ mem[held[t].at - 1].busy
    /\ held[t].at - 1 \notin {allocs0, alloct}
    /\ \A u \in Tags \ {t} : held[u] # NotHeld => held[u].at # held[t].at

Holds == \A t \in Tags : held[t] # NotHeld => HoldsOne(t)

\* BusyIsOwned, during a search too.
Owned ==
    \A a \in chain : mem[a].busy =>
        a \in {allocs0, alloct} \/ IsHeld(a) \/ a + 1 \in foreign

\* A block is full of what the program wrote there, but for the first unit of
\* one that realloc() gave.
Filled(t) ==
    /\ held[t].want <= (mem[held[t].at - 1].ptr - held[t].at) * SUNIT
    /\ \A i \in Nat :
          (IF held[t].moved THEN 1 ELSE 0) <= i /\ held[t].at + i < mem[held[t].at - 1].ptr
             => mem[held[t].at + i].data = <<t, i>>

Full == \A t \in Tags : held[t] # NotHeld => Filled(t)

\* A block that this search would not take, nor enlarge.
Short(a) == mem[a].busy \/ (mem[mem[a].ptr].busy /\ mem[a].ptr - a < call.nw)

\* A search is at a block of the chain; in its second round all the blocks
\* behind it are too short.
Searches ==
    Looking =>
        /\ call.p \in chain /\ call.tag \in Tags /\ held[call.tag] = NotHeld
        /\ call.nw >= 1 /\ call.want <= (call.nw - 1) * SUNIT
        /\ Grain(call.nw) \in Nat /\ Grain(call.nw) > call.nw
        /\ call.laps \in {0, 1}
        /\ call.laps = 1 => \A a \in chain : a < call.p => Short(a)

\* Until realloc() has copied it, the old block is no part of the chain, and
\* still holds what the program wrote.
Kept ==
    Looking /\ call.op = "realloc" =>
        /\ call.from \in Units /\ call.from + call.ons < memtop
        /\ \A a \in chain : a < call.from \/ call.from + call.ons <= a
        /\ \A i \in Nat : 1 <= i /\ i < call.ons => mem[call.from + i].data = <<call.tag, i>>

Rests == Idle /\ chain # {} => allocp \in chain

Inv == /\ TypeOK /\ ChainLinked /\ Bounds /\ Apart /\ Holds /\ Owned /\ Full
       /\ Searches /\ Kept /\ Rests

-----------------------------------------------------------------------------
(***************************************************************************)
(* Sizes.                                                                  *)
(***************************************************************************)
LEMMA DivisionBounds ==
    ASSUME NEW n \in Nat, NEW d \in Nat \ {0}
    PROVE  /\ n \div d \in Nat
           /\ (n \div d) * d <= n
           /\ n < ((n \div d) + 1) * d
  BY Z3

LEMMA SmallRemainder ==
    ASSUME NEW n \in Nat, NEW d \in Nat \ {0}, n < d
    PROVE  n % d = n
  OBVIOUS

LEMMA FewerTimes ==
    ASSUME NEW a \in Int, NEW b \in Int, NEW d \in Nat \ {0}, a * d < b * d
    PROVE  a < b
  OBVIOUS

LEMMA TimesTimes ==
    ASSUME NEW k \in Int, NEW g \in Int, NEW d \in Int
    PROVE  k * (g * d) = (k * g) * d
  OBVIOUS

\* A block of Need(n) units has, besides its header, room for n bytes.
LEMMA NeedHolds ==
    ASSUME HeapAssumption, NEW n \in Nat, Fitting(n)
    PROVE  /\ Need(n) \in 1 .. WORD
           /\ n <= (Need(n) - 1) * SUNIT
<1> DEFINE b == n - 1 + SUNIT * 2
<1>1. b \in Nat /\ b < WORD /\ SUNIT \in Nat \ {0} /\ WORD \in Nat \ {0}
  BY DEF HeapAssumption, Fitting
<1>2. Need(n) = b \div SUNIT
  BY <1>1, SmallRemainder DEF Need
<1> DEFINE k == b \div SUNIT
<1>3. k \in Nat /\ k * SUNIT <= b /\ b < (k + 1) * SUNIT
  BY <1>1, DivisionBounds
<1>4. k >= 1
  <2>1. 1 * SUNIT < (k + 1) * SUNIT
    <3>1. 1 * SUNIT <= b
      BY <1>1
    <3>2. (k + 1) * SUNIT \in Int
      BY <1>1, <1>3
    <3>3. QED
      BY <1>1, <1>3, <3>1, <3>2
  <2>2. 1 < k + 1
    BY <1>1, <1>3, <2>1, FewerTimes
  <2>3. QED
    BY <1>3, <2>2
<1>5. k <= WORD
  <2>1. k * 1 <= k * SUNIT
    BY <1>1, <1>3
  <2>2. QED
    BY <1>1, <1>3, <2>1
<1>6. (k + 1) * SUNIT = (k - 1) * SUNIT + SUNIT * 2
  BY <1>1, <1>3
<1>7. n <= (k - 1) * SUNIT
  <2>1. (k - 1) * SUNIT \in Int /\ SUNIT * 2 \in Int
    BY <1>1, <1>3
  <2>2. n - 1 + SUNIT * 2 < (k - 1) * SUNIT + SUNIT * 2
    BY <1>3, <1>6
  <2>3. QED
    BY <2>1, <2>2
<1>8. QED
  BY <1>2, <1>3, <1>4, <1>5, <1>7

\* The arena grows by a block of nw units at least and a header for its top.
LEMMA GrainHolds ==
    ASSUME HeapAssumption, NEW nw \in Nat, (nw * SUNIT) + SUNIT - 1 + GRAIN < WORD
    PROVE  Grain(nw) \in Nat /\ Grain(nw) > nw
<1> DEFINE b == (nw * SUNIT) + SUNIT - 1 + GRAIN
           g == GRAIN \div SUNIT
           k == b \div GRAIN
<1>1. SUNIT \in Nat \ {0} /\ GRAIN \in Nat \ {0} /\ GRAIN % SUNIT = 0 /\ WORD \in Nat \ {0}
  BY DEF HeapAssumption
<1>2. g \in Nat /\ g * SUNIT = GRAIN
  BY <1>1, Z3
<1>3. nw * SUNIT \in Nat
  BY <1>1
<1>4. b \in Nat /\ b < WORD
  BY <1>1, <1>3
<1>5. Grain(nw) = k * g
  BY <1>1, <1>4, SmallRemainder DEF Grain
<1>6. k \in Nat /\ b < (k + 1) * GRAIN
  BY <1>1, <1>4, DivisionBounds
<1>7. (k + 1) * GRAIN = k * GRAIN + GRAIN /\ k * GRAIN \in Nat
  BY <1>1, <1>6
<1>8. (nw * SUNIT) + SUNIT - 1 < k * GRAIN
  BY <1>1, <1>3, <1>6, <1>7
<1>9. k * GRAIN = (k * g) * SUNIT
  <2>1. k * (g * SUNIT) = (k * g) * SUNIT
    BY <1>1, <1>2, <1>6, TimesTimes
  <2>2. QED
    BY <1>2, <2>1
<1>10. k * g \in Nat
  BY <1>2, <1>6
<1>11. nw * SUNIT < (k * g) * SUNIT
  BY <1>1, <1>3, <1>8, <1>9, <1>10
<1>12. nw < k * g
  BY <1>1, <1>10, <1>11, FewerTimes
<1>13. QED
  BY <1>5, <1>10, <1>12

-----------------------------------------------------------------------------
(***************************************************************************)
(* The chain, in order of addresses.                                       *)
(***************************************************************************)
\* What the invariant says of a block of the chain.
LEMMA BlockFacts ==
    ASSUME HeapAssumption, TypeOK, ChainLinked, Bounds, NEW a \in chain
    PROVE  /\ a \in Units /\ a \in Nat /\ a <= alloct /\ alloct < memtop /\ memtop <= Limit
           /\ alloct \in chain /\ allocs0 \in chain
           /\ mem[a] \in Cells /\ mem[a].ptr \in chain /\ mem[a].ptr \in Nat
           /\ a # alloct => a < mem[a].ptr
<1>1. chain # {}
  OBVIOUS
<1>2. a \in Units /\ mem[a] \in Cells
  BY DEF TypeOK
<1>3. a \in Nat /\ memtop \in Nat /\ memtop <= Limit
  BY <1>2 DEF TypeOK, Units, HeapAssumption
<1>4. mem[a].ptr \in chain /\ (a # alloct => a < mem[a].ptr)
  BY <1>1 DEF ChainLinked, Bounds
<1>5. mem[a].ptr \in Nat
  BY <1>2, HeapAssumption DEF Cells, HeapAssumption
<1>6. QED
  BY <1>1, <1>2, <1>3, <1>4, <1>5 DEF Bounds

\* The next block is the lowest of the higher ones.
LEMMA NextIsLowest ==
    ASSUME HeapAssumption, TypeOK, ChainLinked, Bounds,
           NEW a \in chain, NEW b \in chain, a < b
    PROVE  a # alloct /\ a < mem[a].ptr /\ mem[a].ptr <= b
<1>1. /\ a \in Nat /\ b \in Nat /\ alloct \in Nat /\ b <= alloct
      /\ mem[a].ptr \in Nat
  BY BlockFacts
<1>2. a # alloct
  BY <1>1
<1>3. a < mem[a].ptr /\ chain \intersect (a + 1 .. mem[a].ptr - 1) = {}
  BY <1>2 DEF ChainLinked
<1>4. ~ (b <= mem[a].ptr - 1)
  BY <1>1, <1>3
<1>5. QED
  BY <1>1, <1>2, <1>3, <1>4

\* A block of the program has its header in the chain, below the top.
LEMMA HeldFacts ==
    ASSUME HeapAssumption, TypeOK, ChainLinked, Bounds, Holds,
           NEW t \in Tags, held[t] # NotHeld
    PROVE  /\ held[t].at \in Nat /\ held[t].at - 1 \in chain /\ held[t].at - 1 \in Units
           /\ held[t].at - 1 # alloct /\ held[t].at - 1 # allocs0
           /\ mem[held[t].at - 1].busy
           /\ mem[held[t].at - 1].ptr \in chain /\ mem[held[t].at - 1].ptr \in Nat
           /\ held[t].at <= mem[held[t].at - 1].ptr /\ mem[held[t].at - 1].ptr < memtop
           /\ mem[held[t].at - 1].ptr \in Units
           /\ IsHeld(held[t].at - 1)
<1> DEFINE b == held[t].at - 1
<1>1. held[t].at \in Nat
  BY DEF TypeOK, HeapAssumption
<1>2. b \in chain /\ b # alloct /\ b # allocs0 /\ mem[b].busy
  BY DEF Holds, HoldsOne
<1>3. /\ b \in Units /\ b \in Nat /\ mem[b].ptr \in chain /\ mem[b].ptr \in Nat /\ b < mem[b].ptr
      /\ memtop \in Nat
  BY <1>2, BlockFacts DEF TypeOK, HeapAssumption
<1>4. mem[b].ptr < memtop /\ mem[b].ptr \in Units
  BY <1>3, BlockFacts
<1>5. IsHeld(b)
  BY <1>1 DEF IsHeld
<1>6. QED
  BY <1>1, <1>2, <1>3, <1>4, <1>5

\* The blocks that a step leaves alone stay full.
LEMMA StaysFilled ==
    ASSUME HeapAssumption, TypeOK, ChainLinked, Bounds, Holds, Full,
           NEW t \in Tags, held[t] # NotHeld, held'[t] = held[t],
           mem'[held[t].at - 1].ptr = mem[held[t].at - 1].ptr,
           \A a \in Units : held[t].at <= a /\ a < mem[held[t].at - 1].ptr
                               => mem'[a].data = mem[a].data
    PROVE  Filled(t)'
<1>1. Filled(t)
  BY DEF Full
<1>2. held[t].at \in Nat /\ mem[held[t].at - 1].ptr \in Nat /\ mem[held[t].at - 1].ptr \in Units
      /\ held[t].at - 1 \in Units
  BY HeldFacts
<1>3. ASSUME NEW i \in Nat, (IF held[t].moved THEN 1 ELSE 0) <= i,
             held[t].at + i < mem[held[t].at - 1].ptr
      PROVE  mem'[held[t].at + i].data = <<t, i>>
  <2>1. held[t].at + i \in Units /\ held[t].at <= held[t].at + i
    BY <1>2, <1>3 DEF Units, HeapAssumption
  <2>2. mem[held[t].at + i].data = <<t, i>>
    BY <1>1, <1>3 DEF Filled
  <2>3. QED
    BY <1>3, <2>1, <2>2
<1>4. QED
  BY <1>1, <1>3 DEF Filled

\* Memory cells.
LEMMA CellFacts ==
    ASSUME HeapAssumption, NEW c \in Cells, NEW x \in 0 .. Limit, NEW y \in BOOLEAN
    PROVE  /\ [c EXCEPT !.busy = y] \in Cells /\ [c EXCEPT !.ptr = x] \in Cells
           /\ Header(x, y) \in Cells
           /\ \A t \in Tags, i \in 0 .. Limit : Datum(t, i) \in Cells
<1> DEFINE D == {<<>>} \union (Tags \X (0 .. Limit))
<1>1. Cells = [ptr : 0 .. Limit, busy : BOOLEAN, data : D]
  BY DEF Cells
<1>2. <<>> \in D /\ \A t \in Tags, i \in 0 .. Limit : <<t, i>> \in D
  OBVIOUS
<1>3. 0 \in 0 .. Limit
  BY DEF HeapAssumption
<1> HIDE DEF D
<1>4. QED
  BY <1>1, <1>2, <1>3 DEF Header, Datum

\* A header rewritten.
LEMMA Relinked ==
    ASSUME HeapAssumption, NEW c \in Cells, NEW x \in 0 .. Limit, NEW y \in BOOLEAN
    PROVE  /\ [[c EXCEPT !.ptr = x] EXCEPT !.busy = y] \in Cells
           /\ [[c EXCEPT !.ptr = x] EXCEPT !.busy = y].ptr = x
           /\ [[c EXCEPT !.ptr = x] EXCEPT !.busy = y].busy <=> y
           /\ [[c EXCEPT !.ptr = x] EXCEPT !.busy = y].data = c.data
<1>1. [c EXCEPT !.ptr = x] \in Cells
  BY CellFacts
<1>2. [[c EXCEPT !.ptr = x] EXCEPT !.busy = y] \in Cells
  BY <1>1, CellFacts
<1> DEFINE D == {<<>>} \union (Tags \X (0 .. Limit))
<1>3. c \in [ptr : 0 .. Limit, busy : BOOLEAN, data : D]
  BY DEF Cells
<1> HIDE DEF D
<1>4. QED
  BY <1>2, <1>3

-----------------------------------------------------------------------------
(***************************************************************************)
(* The steps.                                                              *)
(***************************************************************************)
LEMMA FreeKeeps ==
    ASSUME HeapAssumption, Frugal, Inv, NEW t \in Tags, Free(t)
    PROVE  Inv'
<1> DEFINE b == held[t].at - 1
<1> USE DEF Inv
<1>1. /\ held[t] # NotHeld /\ call.pc = "idle"
      /\ allocp' = b /\ mem' = [mem EXCEPT ![b].busy = FALSE]
      /\ held' = [held EXCEPT ![t] = NotHeld]
      /\ alloct' = alloct /\ allocx' = allocx /\ memtop' = memtop /\ call' = call
      /\ chain' = chain /\ foreign' = foreign /\ refused' = refused
  BY DEF Free
<1>2. /\ b \in chain /\ b \in Units /\ b # alloct /\ b # allocs0 /\ IsHeld(b)
      /\ held[t].at \in Nat
  BY <1>1, HeldFacts
<1>3. /\ \A a \in Units : mem'[a].ptr = mem[a].ptr /\ mem'[a].data = mem[a].data
      /\ \A a \in Units : a # b => mem'[a] = mem[a]
      /\ mem'[b].busy = FALSE
  BY <1>1, <1>2 DEF TypeOK, Cells
<1>4. /\ held'[t] = NotHeld /\ \A u \in Tags : u # t => held'[u] = held[u]
  BY <1>1 DEF TypeOK
<1>5. \A a \in chain : a \in Units
  BY DEF TypeOK
<1>6. TypeOK'
  <2>1. mem' \in [Units -> Cells]
    <3>1. mem \in [Units -> Cells] /\ mem[b] \in Cells /\ 0 \in 0 .. Limit
      BY <1>2 DEF TypeOK, HeapAssumption
    <3>2. [mem[b] EXCEPT !.busy = FALSE] \in Cells
      BY <3>1, CellFacts
    <3>3. QED
      BY <1>1, <3>1, <3>2
  <2>2. allocp' \in 0 .. Limit
    BY <1>1, <1>2 DEF Units, HeapAssumption
  <2>3. held' \in [Tags -> [at : 0 .. Limit, want : Nat, moved : BOOLEAN]]
    BY <1>1, HeapAssumption DEF TypeOK, NotHeld, HeapAssumption
  <2>4. QED
    BY <1>1, <2>1, <2>2, <2>3 DEF TypeOK
<1>7. ChainLinked'
  BY <1>1, <1>2, <1>3, <1>5 DEF ChainLinked
<1>8. Bounds'
  BY <1>1, <1>2, <1>3, <1>4, <1>5 DEF Bounds
<1>9. \A a \in chain : IsHeld(a)' => IsHeld(a)
  BY <1>1, <1>4 DEF IsHeld
<1>10. Apart'
  BY <1>1, <1>2, <1>3, <1>5, <1>9 DEF Apart
<1>11. Holds'
  <2> SUFFICES ASSUME NEW u \in Tags, held'[u] # NotHeld PROVE HoldsOne(u)'
    BY DEF Holds
  <2>1. u # t /\ held'[u] = held[u] /\ held[u] # NotHeld
    BY <1>4
  <2>2. HoldsOne(u) /\ HoldsOne(t)
    BY <1>1, <2>1 DEF Holds
  <2>3. held[u].at # held[t].at /\ held[u].at - 1 # b
    BY <1>1, <1>2, <2>1, <2>2, HeldFacts DEF HoldsOne
  <2>4. QED
    BY <1>1, <1>3, <1>4, <1>5, <2>1, <2>2, <2>3 DEF HoldsOne
<1>12. \A a \in chain : a # b /\ IsHeld(a) => IsHeld(a)'
  BY <1>1, <1>4, <1>2, <1>5 DEF IsHeld, Units
<1>13. Owned'
  BY <1>1, <1>2, <1>3, <1>5, <1>12 DEF Owned
<1>14. Full'
  <2> SUFFICES ASSUME NEW u \in Tags, held'[u] # NotHeld PROVE Filled(u)'
    BY DEF Full
  <2>1. held'[u] = held[u] /\ held[u] # NotHeld
    BY <1>4
  <2>2. held[u].at - 1 \in Units
    BY <2>1, HeldFacts
  <2>3. QED
    BY <1>3, <2>1, <2>2, StaysFilled
<1>15. Searches' /\ Kept'
  BY <1>1 DEF Searches, Kept, Looking
<1>16. Rests'
  BY <1>1, <1>2 DEF Rests
<1>17. QED
  BY <1>6, <1>7, <1>8, <1>10, <1>11, <1>13, <1>14, <1>15, <1>16

LEMMA BufalloKeeps ==
    ASSUME HeapAssumption, Frugal, Inv, Bufallo
    PROVE  Inv'
<1> USE DEF Inv
<1>1. /\ call.pc = "idle" /\ memtop + Foreign <= Limit /\ memtop' = memtop + Foreign
      /\ foreign' = foreign \union (memtop .. memtop + Foreign - 1)
      /\ mem' = mem /\ allocp' = allocp /\ alloct' = alloct /\ allocx' = allocx
      /\ call' = call /\ held' = held /\ chain' = chain /\ refused' = refused
  BY DEF Bufallo
<1>2. /\ memtop \in Nat /\ Base <= memtop /\ Foreign \in Nat \ {0} /\ Base \in Nat /\ 3 < Base
      /\ Limit \in Nat
  BY DEF TypeOK, HeapAssumption
<1>3. \A a \in chain : /\ a \in Nat /\ a < memtop /\ mem[a].ptr \in Nat
                       /\ mem[a].ptr < memtop /\ alloct \in Nat
  <2> TAKE a \in chain
  <2>1. /\ a \in Nat /\ a <= alloct /\ alloct < memtop /\ mem[a].ptr \in chain
        /\ alloct \in chain
    BY BlockFacts
  <2>2. mem[a].ptr \in Nat /\ mem[a].ptr <= alloct /\ alloct \in Nat
    BY <2>1, BlockFacts
  <2>3. QED
    BY <1>2, <2>1, <2>2
<1>4. TypeOK'
  BY <1>1, <1>2 DEF TypeOK
<1>5. ChainLinked'
  BY <1>1 DEF ChainLinked
<1>6. Bounds'
  <2>1. chain # {} => alloct \in chain /\ alloct < memtop
    BY DEF Bounds
  <2>2. chain # {} /\ alloct + 1 < memtop' => alloct + 1 \in foreign'
    BY <1>1, <1>2, <1>3, <2>1 DEF Bounds
  <2>3. \A a \in chain : a <= alloct /\ alloct < memtop'
    BY <1>1, <1>2, <1>3 DEF Bounds
  <2>4. QED
    BY <1>1, <2>1, <2>2, <2>3 DEF Bounds
<1>7. Apart'
  <2>1. foreign \subseteq allocs1 + 1 .. memtop - 1 /\ allocs1 + 1 \in foreign
    BY DEF Apart
  <2>2. foreign' \subseteq allocs1 + 1 .. memtop' - 1 /\ allocs1 + 1 \in foreign'
    BY <1>1, <1>2, <2>1 DEF allocs1
  <2>3. \A a \in chain : a \notin foreign'
    BY <1>1, <1>2, <1>3 DEF Apart
  <2>4. ASSUME NEW a \in chain, ~mem[a].busy \/ IsHeld(a)
        PROVE  foreign' \intersect (a .. mem[a].ptr - 1) = {}
    <3>1. foreign \intersect (a .. mem[a].ptr - 1) = {}
      BY <2>4 DEF Apart
    <3>2. QED
      BY <1>1, <1>2, <1>3, <3>1
  <2>5. QED
    BY <1>1, <2>2, <2>3, <2>4 DEF Apart, IsHeld
<1>8. Holds' /\ Full'
  BY <1>1 DEF Holds, HoldsOne, Full, Filled
<1>9. Owned'
  BY <1>1 DEF Owned, IsHeld
<1>10. Searches' /\ Kept' /\ Rests'
  BY <1>1 DEF Searches, Kept, Looking, Rests, Idle
<1>11. QED
  BY <1>4, <1>5, <1>6, <1>7, <1>8, <1>9, <1>10

\* Where a search stands.
LEMMA SearchFacts ==
    ASSUME HeapAssumption, Inv, Looking
    PROVE  /\ call.pc = "look" /\ call.op \in {"malloc", "calloc", "realloc"}
           /\ p \in chain /\ p \in Units /\ p \in Nat /\ mem[p] \in Cells
           /\ q \in chain /\ q \in Units /\ q \in Nat /\ mem[q] \in Cells
           /\ mem[q].ptr \in chain /\ mem[q].ptr \in Nat
           /\ alloct \in Nat /\ p <= alloct /\ q <= alloct /\ alloct < memtop
           /\ memtop \in Nat /\ memtop <= Limit /\ alloct \in chain /\ allocs0 \in chain
           /\ chain \subseteq Units
           /\ call.nw \in Nat /\ call.nw >= 1 /\ call.laps \in {0, 1}
           /\ call.tag \in Tags /\ held[call.tag] = NotHeld /\ call.want \in Nat
           /\ p # alloct => p < q
           /\ p = alloct => q = allocs0 /\ mem[p].busy
           /\ mem[allocs0].busy /\ alloct # allocs0 /\ mem[alloct].busy
           /\ q = alloct => mem[q].ptr = allocs0
           /\ ~Astray
<1> USE DEF Inv
<1>1. call.p \in chain /\ call.nw >= 1 /\ call.laps \in {0, 1}
      /\ call.tag \in Tags /\ held[call.tag] = NotHeld
  BY DEF Searches
<1>2. /\ call.p \in Units /\ call.p \in Nat /\ mem[call.p] \in Cells
      /\ mem[call.p].ptr \in chain /\ mem[call.p].ptr \in Nat
      /\ call.p # alloct => call.p < mem[call.p].ptr
      /\ call.p <= alloct /\ alloct < memtop /\ memtop <= Limit
      /\ alloct \in chain /\ allocs0 \in chain /\ alloct \in Nat
  BY <1>1, BlockFacts
<1>3. /\ mem[call.p].ptr \in Units /\ mem[mem[call.p].ptr] \in Cells
      /\ mem[mem[call.p].ptr].ptr \in chain /\ mem[mem[call.p].ptr].ptr \in Nat
      /\ mem[call.p].ptr <= alloct
  BY <1>2, BlockFacts
<1>4. memtop \in Nat /\ chain \subseteq Units /\ call.want \in Nat /\ call.nw \in Nat
      /\ call.op \in {"malloc", "calloc", "realloc"}
  BY DEF TypeOK, HeapAssumption
<1>5. mem[alloct].ptr = allocs0 /\ mem[alloct].busy /\ mem[allocs0].busy /\ alloct # allocs0
  BY <1>2 DEF ChainLinked, Bounds
<1>6. ~Astray
  BY <1>2, <1>5 DEF Astray, Wraps, p, q
<1>7. QED
  BY <1>1, <1>2, <1>3, <1>4, <1>5, <1>6 DEF p, q, Looking

LEMMA MergeKeeps ==
    ASSUME HeapAssumption, Frugal, Inv, Merge
    PROVE  Inv'
<1> USE DEF Inv
<1> DEFINE b == call.p
           c == mem[call.p].ptr
           d == mem[mem[call.p].ptr].ptr
<1>1. /\ Looking /\ ~mem[b].busy /\ ~mem[c].busy
      /\ mem' = [mem EXCEPT ![b].ptr = d] /\ chain' = chain \ {c}
      /\ allocp' = allocp /\ alloct' = alloct /\ allocx' = allocx /\ memtop' = memtop
      /\ call' = call /\ held' = held /\ foreign' = foreign /\ refused' = refused
  BY DEF Merge, IsIdle, p, q
<1>2. /\ b \in chain /\ b \in Units /\ b \in Nat /\ c \in chain /\ c \in Units /\ c \in Nat
      /\ d \in chain /\ d \in Nat /\ mem[b] \in Cells /\ mem[allocs0].busy
      /\ mem[alloct].busy /\ alloct \in chain /\ allocs0 \in chain /\ alloct \in Nat
      /\ chain \subseteq Units /\ memtop \in Nat /\ call.pc = "look"
      /\ b # alloct => b < c
  BY <1>1, SearchFacts DEF p, q
<1>3. b # alloct /\ c # alloct /\ b # allocs0 /\ c # allocs0 /\ b < c
  BY <1>1, <1>2
<1>4. c < d
  BY <1>2, <1>3, BlockFacts
<1>5. /\ mem'[b].ptr = d /\ mem'[b].busy = mem[b].busy /\ mem'[b].data = mem[b].data
      /\ \A a \in Units : a # b => mem'[a] = mem[a]
      /\ \A a \in Units : mem'[a].busy = mem[a].busy /\ mem'[a].data = mem[a].data
  BY <1>1, <1>2 DEF TypeOK, Cells
<1>6. TypeOK'
  <2>1. d \in 0 .. Limit
    BY <1>2 DEF Units, HeapAssumption
  <2>2. [mem[b] EXCEPT !.ptr = d] \in Cells
    BY <1>2, <2>1, CellFacts DEF HeapAssumption
  <2>3. mem' \in [Units -> Cells]
    BY <1>1, <1>2, <2>2 DEF TypeOK
  <2>4. QED
    BY <1>1, <2>3 DEF TypeOK
\* No other block points to the one that was swallowed.
<1>7. \A a \in chain : a # b => mem[a].ptr # c
  <2> SUFFICES ASSUME NEW a \in chain, a # b, mem[a].ptr = c PROVE FALSE
    OBVIOUS
  <2>1. a \in Nat /\ a # alloct
    BY <1>3, BlockFacts DEF ChainLinked
  <2>2. a < c
    BY <2>1, BlockFacts
  <2>3. ~ (a < b)
    BY <1>2, <1>3, <2>1, NextIsLowest
  <2>4. ~ (b < a)
    BY <1>2, <1>3, <2>1, <2>2, NextIsLowest
  <2>5. QED
    BY <1>2, <2>1, <2>3, <2>4
<1>8. ChainLinked'
  <2> SUFFICES ASSUME NEW a \in chain, a # c
               PROVE  IF a = alloct
                      THEN mem'[a].ptr = allocs0 /\ mem'[a].busy
                      ELSE /\ mem'[a].ptr \in chain \ {c} /\ a < mem'[a].ptr
                           /\ (chain \ {c}) \intersect (a + 1 .. mem'[a].ptr - 1) = {}
    BY <1>1 DEF ChainLinked
  <2>1. a \in Units /\ a \in Nat
    BY BlockFacts
  <2>2. CASE a = b
    <3>1. chain \intersect (b + 1 .. c - 1) = {} /\ chain \intersect (c + 1 .. d - 1) = {}
      BY <1>2, <1>3 DEF ChainLinked
    <3>2. (chain \ {c}) \intersect (b + 1 .. d - 1) = {}
      BY <1>2, <1>3, <1>4, <3>1
    <3>3. QED
      BY <1>2, <1>3, <1>4, <1>5, <2>2, <3>2
  <2>3. CASE a # b
    BY <1>5, <1>7, <2>1, <2>3 DEF ChainLinked
  <2>4. QED
    BY <2>2, <2>3
<1>9. Bounds'
  BY <1>1, <1>2, <1>3, <1>5 DEF Bounds
<1>10. \A a \in chain : IsHeld(a)' <=> IsHeld(a)
  BY <1>1 DEF IsHeld
<1>11. Apart'
  <2>1. foreign \intersect (b .. c - 1) = {} /\ foreign \intersect (c .. d - 1) = {}
    BY <1>1, <1>2 DEF Apart
  <2>2. foreign \intersect (b .. d - 1) = {}
    BY <1>2, <1>3, <1>4, <2>1 DEF Apart
  <2>3. ASSUME NEW a \in chain, a # c, ~mem[a].busy \/ IsHeld(a)
        PROVE  foreign \intersect (a .. mem'[a].ptr - 1) = {}
    <3>1. a \in Units
      BY <1>2
    <3>2. CASE a = b
      BY <1>5, <2>2, <3>2
    <3>3. CASE a # b
      BY <1>5, <2>3, <3>1, <3>3 DEF Apart
    <3>4. QED
      BY <3>2, <3>3
  <2>4. QED
    BY <1>1, <1>2, <1>5, <1>10, <2>3 DEF Apart
<1>12. ASSUME NEW u \in Tags, held[u] # NotHeld
       PROVE  held[u].at - 1 # b /\ held[u].at - 1 # c /\ held[u].at - 1 \in Units
  BY <1>1, <1>12, HeldFacts
<1>13. Holds'
  <2> SUFFICES ASSUME NEW u \in Tags, held[u] # NotHeld PROVE HoldsOne(u)'
    BY <1>1 DEF Holds
  <2>1. HoldsOne(u)
    BY DEF Holds
  <2>2. QED
    BY <1>1, <1>5, <1>12, <2>1 DEF HoldsOne
<1>14. Owned'
  BY <1>1, <1>2, <1>5, <1>10 DEF Owned
<1>15. Full'
  <2> SUFFICES ASSUME NEW u \in Tags, held[u] # NotHeld PROVE Filled(u)'
    BY <1>1 DEF Full
  <2>1. QED
    BY <1>1, <1>5, <1>12, StaysFilled
<1>16. Searches'
  <2>1. ASSUME call.laps = 1, NEW a \in chain, a # c, a < b
        PROVE  Short(a)'
    <3>1. Short(a) /\ a \in Units /\ a \in Nat /\ mem[a].ptr \in Units
      BY <1>1, <1>2, <2>1, BlockFacts DEF Searches
    <3>2. mem'[a] = mem[a]
      BY <1>2, <1>5, <2>1, <3>1
    <3>3. mem'[mem[a].ptr].busy = mem[mem[a].ptr].busy
      BY <1>5, <3>1
    <3>4. QED
      BY <1>1, <3>1, <3>2, <3>3, Zenon DEF Short
  <2>2. QED
    BY <1>1, <1>2, <1>3, <2>1 DEF Searches, Looking
<1>17. Kept'
  <2> SUFFICES ASSUME call.op = "realloc"
               PROVE  /\ call.from \in Units /\ call.from + call.ons < memtop
                      /\ \A a \in chain \ {c} : a < call.from \/ call.from + call.ons <= a
                      /\ \A i \in Nat : 1 <= i /\ i < call.ons
                           => mem'[call.from + i].data = <<call.tag, i>>
    BY <1>1 DEF Kept, Looking
  <2>1. Kept /\ call.from \in Nat /\ call.ons \in Nat /\ memtop <= Limit
    BY DEF TypeOK, HeapAssumption
  <2>2. \A i \in Nat : i < call.ons => call.from + i \in Units
    BY <1>1, <1>2, <2>1 DEF Kept, Units, HeapAssumption
  <2>3. QED
    BY <1>1, <1>5, <2>1, <2>2 DEF Kept
<1>18. Rests'
  BY <1>1, <1>2 DEF Rests, Idle
<1>19. QED
  BY <1>6, <1>8, <1>9, <1>11, <1>13, <1>14, <1>15, <1>16, <1>17, <1>18

\* A block the search passes is too short for it.
LEMMA PassedIsShort ==
    ASSUME HeapAssumption, Inv, Passed
    PROVE  Short(call.p)
<1>1. call.nw \in Nat /\ q \in Nat /\ p \in Nat
  BY SearchFacts DEF Passed
<1>2. CASE mem[call.p].busy
  BY <1>2, Zenon DEF Short
<1>3. CASE ~mem[call.p].busy
  <2>1. ~ (q - p >= call.nw) /\ mem[q].busy
    BY <1>3 DEF Passed, Fits, IsIdle, p
  <2>2. q - p < call.nw
    BY <1>1, <2>1
  <2>3. QED
    BY <2>1, <2>2, Zenon DEF Short, p, q
<1>4. QED
  BY <1>2, <1>3

LEMMA AdvanceKeeps ==
    ASSUME HeapAssumption, Frugal, Inv, Advance
    PROVE  Inv'
<1> USE DEF Inv
<1>1. /\ Passed /\ ~Done /\ Looking
      /\ call' = [call EXCEPT !.p = q, !.laps = LapsAfter]
      /\ mem' = mem /\ allocp' = allocp /\ alloct' = alloct /\ allocx' = allocx
      /\ memtop' = memtop /\ held' = held /\ chain' = chain /\ foreign' = foreign
      /\ refused' = refused
  BY DEF Advance, Passed
<1>2. /\ p \in chain /\ p \in Nat /\ q \in chain /\ q \in Nat /\ q \in Units
      /\ p <= alloct /\ alloct \in Nat /\ (p # alloct => p < q) /\ (p = alloct => q = allocs0)
      /\ call.laps \in {0, 1} /\ call.pc = "look" /\ chain \subseteq Units
  BY <1>1, SearchFacts
<1>3. LapsAfter \in {0, 1} /\ (~Wraps => LapsAfter = call.laps)
  BY <1>1, <1>2 DEF Done, LapsAfter, LastLap
<1>4. /\ call'.p = q /\ call'.laps = LapsAfter /\ call'.pc = call.pc /\ call'.op = call.op
      /\ call'.tag = call.tag /\ call'.want = call.want /\ call'.nw = call.nw
      /\ call'.from = call.from /\ call'.ons = call.ons
  BY <1>1, <1>2 DEF TypeOK
<1>5. TypeOK'
  <2>1. q \in 0 .. Limit /\ LapsAfter \in 0 .. 2
    BY <1>2, <1>3 DEF Units, HeapAssumption
  <2>2. QED
    BY <1>1, <2>1 DEF TypeOK
<1>6. ChainLinked' /\ Holds' /\ Full'
  BY <1>1 DEF ChainLinked, Holds, HoldsOne, Full, Filled
<1>7. Bounds'
  BY <1>1, <1>2, <1>4 DEF Bounds
<1>8. Apart' /\ Owned'
  BY <1>1 DEF Apart, Owned, IsHeld
<1>9. Searches'
  <2>1. ASSUME LapsAfter = 1, NEW a \in chain, a < q PROVE Short(a)'
    <3>1. a \in Nat /\ a >= 1
      BY <1>2 DEF Units, HeapAssumption
    <3>2. p # alloct
      BY <1>2, <2>1, <3>1 DEF allocs0
    <3>3. ~Wraps /\ call.laps = 1
      BY <1>3, <2>1, <3>2 DEF Wraps
    <3>4. ~ (p < a)
      BY <1>2, <2>1, <3>1, <3>2, NextIsLowest DEF p, q
    <3>5. Short(a)
      <4>1. CASE a < p
        BY <1>1, <3>3, <4>1 DEF Searches, p
      <4>2. CASE a = p
        BY <1>1, <4>2, PassedIsShort DEF p
      <4>3. QED
        BY <1>2, <3>1, <3>4, <4>1, <4>2
    <3>6. QED
      BY <1>1, <1>4, <3>5, Zenon DEF Short
  <2>2. QED
    BY <1>1, <1>2, <1>3, <1>4, <2>1 DEF Searches, Looking, Grain
<1>10. Kept'
  BY <1>1, <1>4 DEF Kept, Looking
<1>11. Rests'
  BY <1>1, <1>4, <1>2 DEF Rests, Idle
<1>12. QED
  BY <1>5, <1>6, <1>7, <1>8, <1>9, <1>10, <1>11

\* When malloc() refuses, every block is too short: the chain is sound, so
\* the search has been round it twice.
LEMMA RefusalFacts ==
    ASSUME HeapAssumption, Inv, GiveUp
    PROVE  \A a \in chain : Short(a)
<1> USE DEF Inv
<1>1. Looking /\ Passed /\ Done
  BY SearchFacts DEF GiveUp, Passed
<1>2. p = alloct /\ call.laps = 1 /\ call.p \in chain
  BY <1>1, SearchFacts DEF Done, Wraps, LapsAfter, LastLap, p
<1>3. ASSUME NEW a \in chain PROVE Short(a)
  <2>1. a \in Nat /\ a <= alloct /\ alloct \in Nat
    BY <1>1, BlockFacts, SearchFacts
  <2>2. CASE a = call.p
    BY <1>1, <2>2, PassedIsShort
  <2>3. CASE a < call.p
    BY <1>1, <1>2, <2>3 DEF Searches
  <2>4. QED
    BY <1>2, <2>1, <2>2, <2>3 DEF p
<1>4. QED
  BY <1>3

LEMMA GiveUpKeeps ==
    ASSUME HeapAssumption, Frugal, Inv, GiveUp
    PROVE  Inv'
<1> USE DEF Inv
<1>1. /\ call' = NoCall /\ refused' = TRUE /\ Looking
      /\ mem' = mem /\ allocp' = allocp /\ alloct' = alloct /\ allocx' = allocx
      /\ memtop' = memtop /\ held' = held /\ chain' = chain /\ foreign' = foreign
  BY DEF GiveUp, Passed
<1>2. call'.pc = "idle" /\ refused'
  BY <1>1 DEF NoCall
<1>3. TypeOK'
  BY <1>1 DEF TypeOK, NoCall, HeapAssumption
<1>4. ChainLinked' /\ Holds' /\ Full'
  BY <1>1 DEF ChainLinked, Holds, HoldsOne, Full, Filled
<1>5. Bounds' /\ Apart' /\ Owned'
  BY <1>1, <1>2 DEF Bounds, Apart, Owned, IsHeld
<1>6. Searches' /\ Kept'
  BY <1>2 DEF Searches, Kept, Looking
<1>7. Rests'
  BY <1>2 DEF Rests, Idle, Frugal
<1>8. QED
  BY <1>3, <1>4, <1>5, <1>6, <1>7

\* A search begins at a block of the chain.
LEMMA SearchBegins ==
    ASSUME HeapAssumption, TypeOK, NEW t \in Tags, NEW n \in Nat, Fitting(n),
           NEW start, NEW op, NEW from, NEW ons,
           op \in {"malloc", "calloc", "realloc"}, start \in 0 .. Limit,
           from \in 0 .. Limit, ons \in 0 .. Limit,
           Search(start, t, op, n, n, from, ons)
    PROVE  /\ call' \in [pc : {"idle", "look"}, op : {"malloc", "calloc", "realloc"},
                         tag : Tags \union {0}, want : Nat, nw : 0 .. WORD, p : 0 .. Limit,
                         laps : 0 .. 2, from : 0 .. Limit, ons : 0 .. Limit]
           /\ call'.pc = "look" /\ call'.op = op /\ call'.tag = t /\ call'.p = start
           /\ call'.laps = 0 /\ call'.from = from /\ call'.ons = ons
           /\ call'.nw >= 1 /\ call'.want <= (call'.nw - 1) * SUNIT
           /\ Grain(call.nw)' \in Nat /\ Grain(call.nw)' > call'.nw
<1>1. /\ Need(n) \in 1 .. WORD /\ n <= (Need(n) - 1) * SUNIT
      /\ Grain(Need(n)) \in Nat /\ Grain(Need(n)) > Need(n)
  <2>1. Need(n) \in 1 .. WORD /\ n <= (Need(n) - 1) * SUNIT /\ WORD \in Nat
    BY NeedHolds DEF HeapAssumption
  <2>2. Need(n) \in Nat
    BY <2>1
  <2>3. QED
    BY <2>1, <2>2, GrainHolds DEF Fitting
<1>2. call' = [pc |-> "look", op |-> op, tag |-> t, want |-> n, nw |-> Need(n),
               p |-> start, laps |-> 0, from |-> from, ons |-> ons]
  BY DEF Search
<1>3. Need(n) \in 0 .. WORD /\ Need(n) >= 1
  BY <1>1 DEF HeapAssumption
<1> HIDE DEF Need
<1>4. QED
  BY <1>1, <1>2, <1>3 DEF Grain

\* The first malloc() finds no chain, and makes one of the two static blocks.
LEMMA FirstChain ==
    ASSUME HeapAssumption, Inv, mem[allocs0].ptr = 0,
           mem' = [mem EXCEPT ![allocs0] = Header(allocs1, TRUE),
                              ![allocs1] = Header(allocs0, TRUE)],
           alloct' = allocs1, allocp' = allocs0, chain' = {allocs0, allocs1},
           allocx' = allocx, memtop' = memtop, held' = held, foreign' = foreign
    PROVE  /\ mem' \in [Units -> Cells] /\ alloct' \in 0 .. Limit
           /\ ChainLinked' /\ Apart' /\ Holds' /\ Owned' /\ Full'
           /\ \A t \in Tags : held[t] = NotHeld
           /\ allocs0 \in chain' /\ mem'[allocs0].busy
           /\ alloct' \in chain' /\ alloct' # allocs0 /\ alloct' + 1 \in foreign'
           /\ \A a \in chain' : a <= alloct' /\ alloct' < memtop'
<1> USE DEF Inv
<1>1. chain = {}
  <2>1. chain # {} => allocs0 \in chain
    BY DEF Bounds
  <2>2. allocs0 \in chain => mem[allocs0].ptr \in Units
    BY BlockFacts DEF TypeOK
  <2>3. QED
    BY <2>1, <2>2 DEF Units, HeapAssumption
<1>2. \A t \in Tags : held[t] = NotHeld
  BY <1>1 DEF Bounds
<1>3. /\ 1 \in Units /\ 2 \in Units /\ Limit \in Nat /\ memtop \in Nat /\ 3 < memtop
      /\ 1 \in 0 .. Limit /\ 2 \in 0 .. Limit
  BY DEF Units, HeapAssumption, TypeOK
<1>4. mem' \in [Units -> Cells]
  <2>1. Header(2, TRUE) \in Cells /\ Header(1, TRUE) \in Cells
    <3>1. NoCall \in {NoCall} /\ mem[1] \in Cells
      BY <1>3 DEF TypeOK
    <3>2. QED
      BY <1>3, <3>1, CellFacts
  <2>2. QED
    BY <1>3, <2>1 DEF TypeOK, allocs0, allocs1
<1>5. mem'[1].ptr = 2 /\ mem'[1].busy /\ mem'[2].ptr = 1 /\ mem'[2].busy
  BY <1>3 DEF TypeOK, allocs0, allocs1, Header
<1>6. chain' = {1, 2} /\ alloct' = 2 /\ allocs0 = 1 /\ foreign' = foreign /\ memtop' = memtop
  BY DEF allocs0, allocs1
<1>7. ChainLinked'
  <2>1. mem'[2].ptr = allocs0 /\ mem'[2].busy
    BY <1>5, <1>6, Zenon
  <2>2. SUFFICES ASSUME NEW a \in chain'
                 PROVE  IF a = alloct'
                        THEN mem'[a].ptr = allocs0 /\ mem'[a].busy
                        ELSE /\ mem'[a].ptr \in chain' /\ a < mem'[a].ptr
                             /\ chain' \intersect (a + 1 .. mem'[a].ptr - 1) = {}
    BY DEF ChainLinked
  <2>3. CASE a = 1
    <3>1. mem'[a].ptr = 2
      BY <1>5, <2>3, Zenon
    <3>2. a # alloct' /\ 2 \in chain' /\ a < 2 /\ chain' \intersect (a + 1 .. 2 - 1) = {}
      BY <1>6, <2>3
    <3>3. QED
      BY <3>1, <3>2, Zenon
  <2>4. CASE a = 2
    BY <1>6, <2>1, <2>4
  <2>5. QED
    BY <1>6, <2>2, <2>3, <2>4
<1>8. 3 \in foreign /\ foreign \subseteq 3 .. memtop - 1
  BY DEF Apart, allocs1
<1>9. Apart'
  <2>1. mem'[1].busy /\ mem'[2].busy /\ ~IsHeld(1)' /\ ~IsHeld(2)'
    BY <1>2, <1>5 DEF IsHeld
  <2>2. 1 \notin foreign' /\ 2 \notin foreign'
    BY <1>6, <1>8
  <2>3. allocs1 + 1 \in foreign' /\ foreign' \subseteq allocs1 + 1 .. memtop' - 1
    BY <1>6, <1>8 DEF allocs1
  <2>4. QED
    BY <1>6, <2>1, <2>2, <2>3 DEF Apart
<1>10. Holds' /\ Full'
  BY <1>2 DEF Holds, Full
<1>11. Owned'
  BY DEF Owned
<1>12. /\ allocs0 \in chain' /\ mem'[allocs0].busy
       /\ alloct' \in chain' /\ alloct' # allocs0 /\ alloct' + 1 \in foreign'
       /\ alloct' \in 0 .. Limit
  BY <1>3, <1>5, <1>6, <1>8
<1>13. \A a \in chain' : a <= alloct' /\ alloct' < memtop'
  BY <1>3, <1>6
<1>14. QED
  BY <1>2, <1>4, <1>7, <1>9, <1>10, <1>11, <1>12, <1>13

LEMMA AllocateKeeps ==
    ASSUME HeapAssumption, Frugal, Inv, NEW t \in Tags, NEW n \in Nat, Fitting(n),
           NEW op \in {"malloc", "calloc"}, Allocate(t, op, n, n)
    PROVE  Inv'
<1> USE DEF Inv
<1>1. /\ Idle /\ held[t] = NotHeld /\ Search(allocp', t, op, n, n, 0, 0)
      /\ allocx' = allocx /\ memtop' = memtop /\ held' = held /\ foreign' = foreign
      /\ refused' = refused
  BY DEF Allocate
<1>2. CASE mem[allocs0].ptr = 0
  <2>1. /\ mem' = [mem EXCEPT ![allocs0] = Header(allocs1, TRUE),
                              ![allocs1] = Header(allocs0, TRUE)]
        /\ alloct' = allocs1 /\ allocp' = allocs0 /\ chain' = {allocs0, allocs1}
    BY <1>2 DEF Allocate
  <2>2. /\ mem' \in [Units -> Cells] /\ alloct' \in 0 .. Limit
        /\ ChainLinked' /\ Apart' /\ Holds' /\ Owned' /\ Full'
        /\ \A u \in Tags : held[u] = NotHeld
        /\ allocs0 \in chain' /\ mem'[allocs0].busy
        /\ alloct' \in chain' /\ alloct' # allocs0 /\ alloct' + 1 \in foreign'
        /\ \A a \in chain' : a <= alloct' /\ alloct' < memtop'
    BY <1>1, <1>2, <2>1, FirstChain
  <2>3. allocp' \in chain' /\ allocp' \in 0 .. Limit /\ chain' \subseteq Units
    BY <2>1 DEF allocs0, allocs1, HeapAssumption, Units
  <2>4. /\ call' \in [pc : {"idle", "look"}, op : {"malloc", "calloc", "realloc"},
                      tag : Tags \union {0}, want : Nat, nw : 0 .. WORD, p : 0 .. Limit,
                      laps : 0 .. 2, from : 0 .. Limit, ons : 0 .. Limit]
        /\ call'.pc = "look" /\ call'.op = op /\ call'.tag = t /\ call'.p = allocp'
        /\ call'.laps = 0
        /\ call'.nw >= 1 /\ call'.want <= (call'.nw - 1) * SUNIT
        /\ Grain(call.nw)' \in Nat /\ Grain(call.nw)' > call'.nw
    BY <1>1, <2>3, SearchBegins DEF HeapAssumption
  <2>5. TypeOK'
    BY <1>1, <2>2, <2>3, <2>4 DEF TypeOK
  <2>6. Bounds'
    BY <2>2 DEF Bounds
  <2>7. Searches'
    BY <1>1, <2>3, <2>4 DEF Searches, Looking
  <2>8. Kept' /\ Rests'
    BY <2>3, <2>4 DEF Kept, Rests, Looking
  <2>9. QED
    BY <2>2, <2>5, <2>6, <2>7, <2>8
<1>3. CASE mem[allocs0].ptr # 0
  <2>1. mem' = mem /\ alloct' = alloct /\ allocp' = allocp /\ chain' = chain
    BY <1>3 DEF Allocate
  <2>2. chain # {}
    BY <1>3 DEF Bounds
  <2>3. allocp' \in chain' /\ allocp' \in 0 .. Limit
    BY <1>1, <2>1, <2>2 DEF Rests, TypeOK
  <2>4. /\ call' \in [pc : {"idle", "look"}, op : {"malloc", "calloc", "realloc"},
                      tag : Tags \union {0}, want : Nat, nw : 0 .. WORD, p : 0 .. Limit,
                      laps : 0 .. 2, from : 0 .. Limit, ons : 0 .. Limit]
        /\ call'.pc = "look" /\ call'.op = op /\ call'.tag = t /\ call'.p = allocp'
        /\ call'.laps = 0
        /\ call'.nw >= 1 /\ call'.want <= (call'.nw - 1) * SUNIT
        /\ Grain(call.nw)' \in Nat /\ Grain(call.nw)' > call'.nw
    BY <1>1, <2>3, SearchBegins DEF HeapAssumption
  <2>5. TypeOK'
    BY <1>1, <2>1, <2>4 DEF TypeOK
  <2>6. ChainLinked' /\ Holds' /\ Full' /\ Apart' /\ Owned'
    BY <1>1, <2>1 DEF ChainLinked, Holds, HoldsOne, Full, Filled, Apart, Owned, IsHeld
  <2>7. Bounds'
    BY <1>1, <2>1, <2>2 DEF Bounds
  <2>8. Searches'
    BY <1>1, <2>3, <2>4 DEF Searches, Looking
  <2>9. Kept' /\ Rests'
    BY <2>3, <2>4 DEF Kept, Rests, Looking
  <2>10. QED
    BY <2>5, <2>6, <2>7, <2>8, <2>9
<1>4. QED
  BY <1>2, <1>3

\* realloc() frees the block and remembers where its contents lie.
LEMMA ReallocKeeps ==
    ASSUME HeapAssumption, Frugal, Inv, NEW t \in Tags, NEW n \in Nat, Fitting(n),
           Realloc(t, n)
    PROVE  Inv'
<1> DEFINE b  == held[t].at - 1
           xp == held[t].at
<1> USE DEF Inv
<1>1. /\ Idle /\ held[t] # NotHeld
      /\ allocp' = b /\ mem' = [mem EXCEPT ![b].busy = FALSE]
      /\ held' = [held EXCEPT ![t] = NotHeld]
      /\ Search(b, t, "realloc", n, n, xp, mem[b].ptr - xp)
      /\ alloct' = alloct /\ allocx' = allocx /\ memtop' = memtop
      /\ chain' = chain /\ foreign' = foreign /\ refused' = refused
  BY DEF Realloc
<1>2. /\ b \in chain /\ b \in Units /\ b # alloct /\ b # allocs0 /\ IsHeld(b)
      /\ xp \in Nat /\ mem[b].ptr \in Nat /\ xp <= mem[b].ptr /\ mem[b].ptr < memtop
      /\ mem[b].ptr \in Units
  BY <1>1, HeldFacts
<1>3. memtop \in Nat /\ memtop <= Limit /\ Limit \in Nat
  BY DEF TypeOK, HeapAssumption
<1>4. xp \in Units /\ mem[b].ptr - xp \in 0 .. Limit /\ b \in 0 .. Limit /\ xp \in 0 .. Limit
  BY <1>2, <1>3 DEF Units
<1>5. /\ call' \in [pc : {"idle", "look"}, op : {"malloc", "calloc", "realloc"},
                    tag : Tags \union {0}, want : Nat, nw : 0 .. WORD, p : 0 .. Limit,
                    laps : 0 .. 2, from : 0 .. Limit, ons : 0 .. Limit]
      /\ call'.pc = "look" /\ call'.tag = t /\ call'.p = b
      /\ call'.laps = 0 /\ call'.from = xp /\ call'.ons = mem[b].ptr - xp
      /\ call'.nw >= 1 /\ call'.want <= (call'.nw - 1) * SUNIT
      /\ Grain(call.nw)' \in Nat /\ Grain(call.nw)' > call'.nw
  BY <1>1, <1>4, SearchBegins
<1>6. /\ \A a \in Units : mem'[a].ptr = mem[a].ptr /\ mem'[a].data = mem[a].data
      /\ \A a \in Units : a # b => mem'[a] = mem[a]
      /\ mem'[b].busy = FALSE
  BY <1>1, <1>2 DEF TypeOK, Cells
<1>7. /\ held'[t] = NotHeld /\ \A u \in Tags : u # t => held'[u] = held[u]
  BY <1>1 DEF TypeOK
<1>8. \A a \in chain : a \in Units
  BY DEF TypeOK
<1>9. TypeOK'
  <2>1. mem' \in [Units -> Cells]
    <3>1. mem \in [Units -> Cells] /\ mem[b] \in Cells /\ 0 \in 0 .. Limit
      BY <1>2 DEF TypeOK, HeapAssumption
    <3>2. [mem[b] EXCEPT !.busy = FALSE] \in Cells
      BY <3>1, CellFacts
    <3>3. QED
      BY <1>1, <3>1, <3>2
  <2>2. held' \in [Tags -> [at : 0 .. Limit, want : Nat, moved : BOOLEAN]]
    BY <1>1, HeapAssumption DEF TypeOK, NotHeld, HeapAssumption
  <2>3. QED
    BY <1>1, <1>4, <1>5, <2>1, <2>2 DEF TypeOK
<1>10. ChainLinked'
  BY <1>1, <1>2, <1>6, <1>8 DEF ChainLinked
<1>11. Bounds'
  BY <1>1, <1>2, <1>6, <1>8 DEF Bounds
<1>12. \A a \in chain : IsHeld(a)' => IsHeld(a)
  BY <1>1, <1>7 DEF IsHeld
<1>13. Apart'
  BY <1>1, <1>2, <1>6, <1>8, <1>12 DEF Apart
<1>14. Holds'
  <2> SUFFICES ASSUME NEW u \in Tags, held'[u] # NotHeld PROVE HoldsOne(u)'
    BY DEF Holds
  <2>1. u # t /\ held'[u] = held[u] /\ held[u] # NotHeld
    BY <1>7
  <2>2. HoldsOne(u) /\ HoldsOne(t)
    BY <1>1, <2>1 DEF Holds
  <2>3. held[u].at # held[t].at /\ held[u].at - 1 # b
    BY <1>1, <1>2, <2>1, <2>2, HeldFacts DEF HoldsOne
  <2>4. QED
    BY <1>1, <1>6, <1>7, <1>8, <2>1, <2>2, <2>3 DEF HoldsOne
<1>15. \A a \in chain : a # b /\ IsHeld(a) => IsHeld(a)'
  BY <1>1, <1>7, <1>2, <1>8 DEF IsHeld, Units
<1>16. Owned'
  BY <1>1, <1>2, <1>6, <1>8, <1>15 DEF Owned
<1>17. Full'
  <2> SUFFICES ASSUME NEW u \in Tags, held'[u] # NotHeld PROVE Filled(u)'
    BY DEF Full
  <2>1. held'[u] = held[u] /\ held[u] # NotHeld
    BY <1>7
  <2>2. held[u].at - 1 \in Units
    BY <2>1, HeldFacts
  <2>3. QED
    BY <1>6, <2>1, <2>2, StaysFilled
<1>18. Searches'
  BY <1>1, <1>2, <1>5, <1>7 DEF Searches, Looking
<1>19. Kept'
  <2>1. \A a \in chain : a < xp \/ mem[b].ptr <= a
    <3> TAKE a \in chain
    <3>1. a \in Nat
      BY BlockFacts
    <3>2. b < a => mem[b].ptr <= a
      BY <1>2, NextIsLowest
    <3>3. QED
      BY <1>2, <3>1, <3>2
  <2>2. ASSUME NEW i \in Nat, 1 <= i, i < mem[b].ptr - xp
        PROVE  mem'[xp + i].data = <<t, i>>
    <3>1. xp + i \in Units /\ xp + i < mem[b].ptr
      BY <1>2, <1>3, <2>2 DEF Units
    <3>2. Filled(t)
      BY <1>1 DEF Full
    <3>3. (IF held[t].moved THEN 1 ELSE 0) <= i
      BY <2>2
    <3>4. mem[xp + i].data = <<t, i>>
      BY <3>1, <3>2, <3>3 DEF Filled
    <3>5. QED
      BY <1>6, <3>1, <3>4
  <2>3. xp + (mem[b].ptr - xp) = mem[b].ptr
    BY <1>2
  <2>4. /\ call'.from = xp /\ call'.ons = mem[b].ptr - xp /\ call'.tag = t
        /\ call'.from + call'.ons = mem[b].ptr
    BY <1>5, <2>3
  <2>5. \A a \in chain' : a < call'.from \/ call'.from + call'.ons <= a
    BY <1>1, <2>1, <2>4
  <2>6. \A i \in Nat : 1 <= i /\ i < call'.ons => mem'[call'.from + i].data = <<call'.tag, i>>
    BY <2>2, <2>4
  <2>7. call'.from \in Units /\ call'.from + call'.ons < memtop'
    BY <1>1, <1>2, <1>4, <2>4
  <2>8. QED
    BY <2>5, <2>6, <2>7 DEF Kept
<1>20. Rests'
  BY <1>1, <1>2 DEF Rests
<1>21. QED
  BY <1>9, <1>10, <1>11, <1>13, <1>14, <1>16, <1>17, <1>18, <1>19, <1>20

\* The arena grows by an idle block and a new top.
LEMMA GrowKeeps ==
    ASSUME HeapAssumption, Frugal, Inv, Grow
    PROVE  Inv'
<1> DEFINE new == memtop
           top == memtop + Grain(call.nw) - 1
<1> USE DEF Inv
<1>gap. PICK gap \in BOOLEAN : gap = (new # alloct + 1)
  OBVIOUS
<1>1. /\ Passed /\ Looking /\ Room
      /\ alloct' = top /\ memtop' = top + 1 /\ chain' = chain \union {new, top}
      /\ call' = [call EXCEPT !.p = allocs0, !.laps = 0]
      /\ allocp' = allocp /\ allocx' = allocx /\ held' = held /\ foreign' = foreign
      /\ refused' = refused
  BY Zenon DEF Grow, Passed
<1>mem. mem' = [mem EXCEPT ![alloct].ptr = new, ![alloct].busy = gap,
                          ![new].ptr = top, ![top].ptr = allocs0,
                          ![top].busy = TRUE, ![new].busy = FALSE]
  BY <1>gap, Zenon DEF Grow
<1>2. /\ alloct \in chain /\ allocs0 \in chain /\ alloct \in Nat /\ alloct < new /\ new \in Nat
      /\ alloct # allocs0 /\ mem[allocs0].busy /\ chain \subseteq Units
      /\ call.pc = "look" /\ call.nw \in Nat /\ call.nw >= 1 /\ call.tag \in Tags
      /\ held[call.tag] = NotHeld
  BY <1>1, SearchFacts
<1>3. Grain(call.nw) \in Nat /\ Grain(call.nw) > call.nw
  BY <1>1 DEF Searches
<1>4. /\ top \in Nat /\ new < top /\ top < Limit + 1 /\ memtop' = memtop + Grain(call.nw)
      /\ memtop' <= Limit /\ Limit \in Nat /\ Base <= memtop /\ Base \in Nat /\ 3 < Base
  <2>1. memtop + Grain(call.nw) <= Limit
    BY <1>1 DEF Room
  <2>2. Limit \in Nat /\ Base <= memtop /\ Base \in Nat /\ 3 < Base
    BY DEF TypeOK, HeapAssumption
  <2>3. QED
    BY <1>1, <1>2, <1>3, <2>1, <2>2
<1> HIDE DEF top
<1>5. /\ alloct \in Units /\ new \in Units /\ top \in Units /\ allocs0 \in Units
      /\ alloct # new /\ alloct # top /\ new # top
      /\ new \in 0 .. Limit /\ top \in 0 .. Limit /\ allocs0 \in 0 .. Limit
  BY <1>2, <1>4 DEF Units, HeapAssumption, allocs0
<1>6. \A a \in chain : /\ a \in Nat /\ a <= alloct /\ a # new /\ a # top /\ a \in Units
                       /\ a < new
  <2> TAKE a \in chain
  <2>1. a \in Nat /\ a <= alloct /\ a \in Units
    BY BlockFacts
  <2>2. QED
    BY <1>2, <1>4, <2>1
<1>7. /\ mem \in [Units -> Cells]
      /\ mem[alloct] \in Cells /\ mem[new] \in Cells /\ mem[top] \in Cells
  BY <1>5 DEF TypeOK
<1>8. /\ mem'[alloct] = [[mem[alloct] EXCEPT !.ptr = new] EXCEPT !.busy = gap]
      /\ mem'[new] = [[mem[new] EXCEPT !.ptr = top] EXCEPT !.busy = FALSE]
      /\ mem'[top] = [[mem[top] EXCEPT !.ptr = allocs0] EXCEPT !.busy = TRUE]
      /\ \A a \in Units : a \notin {alloct, new, top} => mem'[a] = mem[a]
      /\ DOMAIN mem' = Units
      /\ mem' = [a \in Units |-> mem'[a]]
  BY <1>mem, <1>5, <1>7
<1>9. /\ mem'[alloct] \in Cells /\ mem'[new] \in Cells /\ mem'[top] \in Cells
      /\ mem'[alloct].ptr = new /\ (mem'[alloct].busy <=> gap)
      /\ mem'[alloct].data = mem[alloct].data
      /\ mem'[new].ptr = top /\ ~mem'[new].busy /\ mem'[new].data = mem[new].data
      /\ mem'[top].ptr = allocs0 /\ mem'[top].busy /\ mem'[top].data = mem[top].data
  <2>2. /\ mem'[alloct] \in Cells /\ mem'[alloct].ptr = new /\ (mem'[alloct].busy <=> gap)
        /\ mem'[alloct].data = mem[alloct].data
    <3>1. CASE gap = TRUE
      <4>1. /\ [[mem[alloct] EXCEPT !.ptr = new] EXCEPT !.busy = TRUE] \in Cells
            /\ [[mem[alloct] EXCEPT !.ptr = new] EXCEPT !.busy = TRUE].ptr = new
            /\ [[mem[alloct] EXCEPT !.ptr = new] EXCEPT !.busy = TRUE].busy <=> TRUE
            /\ [[mem[alloct] EXCEPT !.ptr = new] EXCEPT !.busy = TRUE].data = mem[alloct].data
        BY <1>5, <1>7, Relinked
      <4>2. QED
        BY <1>8, <3>1, <4>1, Zenon
    <3>2. CASE gap = FALSE
      <4>1. /\ [[mem[alloct] EXCEPT !.ptr = new] EXCEPT !.busy = FALSE] \in Cells
            /\ [[mem[alloct] EXCEPT !.ptr = new] EXCEPT !.busy = FALSE].ptr = new
            /\ [[mem[alloct] EXCEPT !.ptr = new] EXCEPT !.busy = FALSE].busy <=> FALSE
            /\ [[mem[alloct] EXCEPT !.ptr = new] EXCEPT !.busy = FALSE].data = mem[alloct].data
        BY <1>5, <1>7, Relinked
      <4>2. QED
        BY <1>8, <3>2, <4>1, Zenon
    <3>3. QED
      BY <1>gap, <3>1, <3>2
  <2>3. /\ mem'[new] \in Cells /\ mem'[new].ptr = top /\ (mem'[new].busy <=> FALSE)
        /\ mem'[new].data = mem[new].data
    <3>1. /\ [[mem[new] EXCEPT !.ptr = top] EXCEPT !.busy = FALSE] \in Cells
          /\ [[mem[new] EXCEPT !.ptr = top] EXCEPT !.busy = FALSE].ptr = top
          /\ [[mem[new] EXCEPT !.ptr = top] EXCEPT !.busy = FALSE].busy <=> FALSE
          /\ [[mem[new] EXCEPT !.ptr = top] EXCEPT !.busy = FALSE].data = mem[new].data
      BY <1>5, <1>7, Relinked
    <3>2. QED
      BY <1>8, <3>1, Zenon
  <2>4. /\ mem'[top] \in Cells /\ mem'[top].ptr = allocs0 /\ (mem'[top].busy <=> TRUE)
        /\ mem'[top].data = mem[top].data
    <3>1. /\ [[mem[top] EXCEPT !.ptr = allocs0] EXCEPT !.busy = TRUE] \in Cells
          /\ [[mem[top] EXCEPT !.ptr = allocs0] EXCEPT !.busy = TRUE].ptr = allocs0
          /\ [[mem[top] EXCEPT !.ptr = allocs0] EXCEPT !.busy = TRUE].busy <=> TRUE
          /\ [[mem[top] EXCEPT !.ptr = allocs0] EXCEPT !.busy = TRUE].data = mem[top].data
      BY <1>5, <1>7, Relinked
    <3>2. QED
      BY <1>8, <3>1, Zenon
  <2>5. QED
    BY <2>2, <2>3, <2>4
<1>10. mem' \in [Units -> Cells] /\ \A a \in Units : mem'[a].data = mem[a].data
  <2>1. ASSUME NEW a \in Units PROVE mem'[a] \in Cells /\ mem'[a].data = mem[a].data
    <3>1. CASE a \in {alloct, new, top}
      BY <1>9, <3>1
    <3>2. CASE a \notin {alloct, new, top}
      BY <1>7, <1>8, <3>2
    <3>3. QED
      BY <3>1, <3>2
  <2>2. QED
    BY <1>8, <2>1
<1>11. \A a \in chain : a # alloct => mem'[a] = mem[a]
  BY <1>6, <1>8
<1>12. /\ call'.p = allocs0 /\ call'.laps = 0 /\ call'.pc = call.pc /\ call'.op = call.op
       /\ call'.tag = call.tag /\ call'.want = call.want /\ call'.nw = call.nw
       /\ call'.from = call.from /\ call'.ons = call.ons
  BY <1>1 DEF TypeOK
<1>13. TypeOK'
  <2>1. memtop' \in Base .. Limit /\ alloct' \in 0 .. Limit
    BY <1>1, <1>2, <1>3, <1>4, <1>5
  <2>2. call' \in [pc : {"idle", "look"}, op : {"malloc", "calloc", "realloc"},
                   tag : Tags \union {0}, want : Nat, nw : 0 .. WORD, p : 0 .. Limit,
                   laps : 0 .. 2, from : 0 .. Limit, ons : 0 .. Limit]
    <3>1. call \in [pc : {"idle", "look"}, op : {"malloc", "calloc", "realloc"},
                    tag : Tags \union {0}, want : Nat, nw : 0 .. WORD, p : 0 .. Limit,
                    laps : 0 .. 2, from : 0 .. Limit, ons : 0 .. Limit]
      BY DEF TypeOK
    <3>2. allocs0 \in 0 .. Limit /\ 0 \in 0 .. 2
      BY <1>5
    <3>3. QED
      BY <1>1, <3>1, <3>2
  <2>3. chain' \subseteq Units
    BY <1>1, <1>2, <1>5
  <2>4. QED
    BY <1>1, <1>10, <2>1, <2>2, <2>3 DEF TypeOK
<1>14. ChainLinked'
  <2> SUFFICES ASSUME NEW a \in chain \union {new, top}
               PROVE  IF a = top
                      THEN mem'[a].ptr = allocs0 /\ mem'[a].busy
                      ELSE /\ mem'[a].ptr \in chain \union {new, top} /\ a < mem'[a].ptr
                           /\ (chain \union {new, top}) \intersect (a + 1 .. mem'[a].ptr - 1) = {}
    BY <1>1 DEF ChainLinked
  <2>1. CASE a = top
    BY <1>9, <2>1
  <2>2. CASE a = new
    <3>1. (chain \union {new, top}) \intersect (new + 1 .. top - 1) = {}
      BY <1>2, <1>4, <1>6
    <3>2. QED
      BY <1>2, <1>4, <1>5, <1>9, <2>2, <3>1
  <2>3. CASE a = alloct
    <3>1. (chain \union {new, top}) \intersect (alloct + 1 .. new - 1) = {}
      BY <1>2, <1>4, <1>6
    <3>2. QED
      BY <1>2, <1>5, <1>9, <2>3, <3>1
  <2>4. CASE a \in chain /\ a # alloct
    <3>1. /\ mem[a].ptr \in chain /\ a < mem[a].ptr
          /\ chain \intersect (a + 1 .. mem[a].ptr - 1) = {}
      BY <2>4 DEF ChainLinked
    <3>2. mem[a].ptr \in Nat /\ mem[a].ptr < new /\ a \in Nat
      BY <1>6, <2>4, <3>1
    <3>3. (chain \union {new, top}) \intersect (a + 1 .. mem[a].ptr - 1) = {}
      BY <1>2, <1>4, <3>1, <3>2
    <3>4. a # top /\ mem'[a].ptr = mem[a].ptr
      BY <1>6, <1>11, <2>4
    <3>5. QED
      BY <3>1, <3>3, <3>4, Zenon
  <2>5. QED
    BY <2>1, <2>2, <2>3, <2>4
<1>15. Bounds'
  <2>1. mem'[allocs0].busy
    BY <1>2, <1>11
  <2>2. \A a \in chain' : a <= alloct' /\ alloct' < memtop'
    BY <1>1, <1>2, <1>4, <1>6
  <2>3. ~ (alloct' + 1 < memtop')
    BY <1>1, <1>4
  <2>4. alloct' \in chain' /\ alloct' # allocs0 /\ allocs0 \in chain' /\ chain' # {}
    BY <1>1, <1>2, <1>6
  <2>5. QED
    BY <2>1, <2>2, <2>3, <2>4 DEF Bounds
<1>16. ASSUME NEW u \in Tags, held[u] # NotHeld
       PROVE  /\ held[u].at - 1 \in chain /\ held[u].at - 1 # alloct /\ held[u].at - 1 \in Units
              /\ held[u].at - 1 # top /\ held[u].at - 1 # new
              /\ mem'[held[u].at - 1] = mem[held[u].at - 1]
  <2>1. held[u].at - 1 \in chain /\ held[u].at - 1 # alloct
    BY <1>16, HeldFacts
  <2>2. QED
    BY <1>6, <1>11, <2>1
<1>17. ~IsHeld(alloct) /\ ~IsHeld(top) /\ ~IsHeld(new) /\ \A a : IsHeld(a)' <=> IsHeld(a)
  <2>1. ASSUME NEW a \in Nat, a \in {alloct, new, top} PROVE ~IsHeld(a)
    <3>1. SUFFICES ASSUME NEW u \in Tags, held[u] # NotHeld, held[u].at = a + 1
                   PROVE  FALSE
      BY DEF IsHeld
    <3>2. QED
      BY <1>16, <2>1, <3>1
  <2>2. \A a : IsHeld(a)' <=> IsHeld(a)
    BY <1>1 DEF IsHeld
  <2>3. QED
    BY <1>2, <1>4, <2>1, <2>2
<1>18. Apart'
  <2>1. /\ allocs1 + 1 \in foreign /\ foreign \subseteq allocs1 + 1 .. new - 1
        /\ \A f \in foreign : f \in Nat /\ f < new
    BY <1>2 DEF Apart, allocs1
  <2>2. foreign \subseteq allocs1 + 1 .. memtop' - 1
    BY <1>1, <1>2, <1>4, <2>1 DEF allocs1
  <2>3. \A a \in chain' : a \notin foreign
    BY <1>1, <1>2, <1>4, <1>6, <2>1 DEF Apart
  <2>4. ASSUME NEW a \in chain', ~mem'[a].busy \/ IsHeld(a)
        PROVE  foreign \intersect (a .. mem'[a].ptr - 1) = {}
    <3>1. CASE a = top
      BY <1>9, <1>17, <2>4, <3>1
    <3>2. CASE a = new
      BY <1>2, <2>1, <3>2
    <3>3. CASE a = alloct
      <4>1. new = alloct + 1
        BY <1>gap, <1>9, <1>17, <2>4, <3>3
      <4>2. mem'[a].ptr - 1 = alloct
        BY <1>2, <1>9, <3>3, <4>1
      <4>3. QED
        BY <1>2, <2>1, <2>3, <3>3, <4>2
    <3>4. CASE a \in chain /\ a # alloct
      <4>1. mem'[a] = mem[a]
        BY <1>11, <3>4
      <4>2. ~mem[a].busy \/ IsHeld(a)
        BY <2>4, <4>1, Zenon
      <4>3. QED
        BY <3>4, <4>1, <4>2 DEF Apart
    <3>5. QED
      BY <1>1, <3>1, <3>2, <3>3, <3>4
  <2>5. QED
    BY <1>1, <1>17, <2>1, <2>2, <2>3, <2>4 DEF Apart
<1>19. Holds'
  <2> SUFFICES ASSUME NEW u \in Tags, held[u] # NotHeld PROVE HoldsOne(u)'
    BY <1>1 DEF Holds
  <2>1. HoldsOne(u)
    BY DEF Holds
  <2>2. held'[u].at - 1 \in chain' /\ held'[u].at - 1 \notin {allocs0, alloct'}
    BY <1>1, <1>16, <2>1 DEF HoldsOne
  <2>3. mem'[held'[u].at - 1].busy
    BY <1>1, <1>16, <2>1, Zenon DEF HoldsOne
  <2>4. \A v \in Tags \ {u} : held'[v] # NotHeld => held'[v].at # held'[u].at
    BY <1>1, <2>1 DEF HoldsOne
  <2>5. QED
    BY <2>2, <2>3, <2>4 DEF HoldsOne
<1>20. Owned'
  <2> SUFFICES ASSUME NEW a \in chain', mem'[a].busy
               PROVE  a \in {allocs0, top} \/ IsHeld(a) \/ a + 1 \in foreign
    BY <1>1, <1>17 DEF Owned
  <2>1. CASE a = new
    BY <1>9, <2>1
  <2>2. CASE a = alloct
    <3>1. new # alloct + 1
      BY <1>gap, <1>9, <2>2, Zenon
    <3>2. alloct + 1 < memtop
      BY <1>2, <3>1
    <3>3. QED
      BY <1>2, <2>2, <3>2 DEF Bounds
  <2>3. CASE a \in chain /\ a # alloct
    <3>1. mem[a].busy
      BY <1>11, <2>3, Zenon
    <3>2. QED
      BY <2>3, <3>1 DEF Owned
  <2>4. QED
    BY <1>1, <2>1, <2>2, <2>3
<1>21. Full'
  <2> SUFFICES ASSUME NEW u \in Tags, held[u] # NotHeld PROVE Filled(u)'
    BY <1>1 DEF Full
  <2>1. QED
    BY <1>1, <1>10, <1>16, StaysFilled
<1>22. Searches'
  BY <1>1, <1>2, <1>3, <1>12 DEF Searches, Looking, Grain
<1>23. Kept'
  <2> SUFFICES ASSUME call.op = "realloc"
               PROVE  /\ call.from \in Units /\ call.from + call.ons < memtop'
                      /\ \A a \in chain' : a < call.from \/ call.from + call.ons <= a
                      /\ \A i \in Nat : 1 <= i /\ i < call.ons
                           => mem'[call.from + i].data = <<call.tag, i>>
    BY <1>1, <1>12 DEF Kept, Looking
  <2>1. call.from \in Nat /\ call.ons \in Nat
    BY DEF TypeOK, HeapAssumption
  <2>2. call.from \in Units /\ call.from + call.ons < memtop
    BY <1>1 DEF Kept
  <2>3. \A i \in Nat : i < call.ons => call.from + i \in Units
    BY <1>2, <1>3, <1>4, <2>1, <2>2 DEF Units
  <2>4. \A i \in Nat : 1 <= i /\ i < call.ons => mem'[call.from + i].data = <<call.tag, i>>
    BY <1>1, <1>10, <2>3 DEF Kept
  <2>5. \A a \in chain' : a < call.from \/ call.from + call.ons <= a
    BY <1>1, <1>2, <1>4, <2>1, <2>2 DEF Kept
  <2>6. QED
    BY <1>1, <1>2, <1>3, <1>4, <2>1, <2>2, <2>4, <2>5
<1>24. Rests'
  BY <1>2, <1>12 DEF Rests, Idle
<1>25. QED
  BY <1>13, <1>14, <1>15, <1>18, <1>19, <1>20, <1>21, <1>22, <1>23, <1>24

\* What the program writes in its block, and where.
Overwrites(w, m, t, at, first, ns) ==
    /\ w \in [Units -> Cells]
    /\ \A a \in Units : a < at + first \/ at + ns <= a => w[a] = m[a]
    /\ \A i \in Nat : first <= i /\ i < ns /\ at + i \in Units => w[at + i].data = <<t, i>>

LEMMA WrittenFacts ==
    ASSUME HeapAssumption, NEW m \in [Units -> Cells], NEW t \in Tags,
           NEW at \in Nat, NEW first \in Nat, NEW ns \in Nat
    PROVE  Overwrites(Written(m, t, at, first, ns), m, t, at, first, ns)
<1> DEFINE w == Written(m, t, at, first, ns)
<1>1. w = [a \in Units |-> IF a \in at + first .. at + ns - 1 THEN Datum(t, a - at) ELSE m[a]]
  BY DEF Written
<1>2. Limit \in Nat /\ \A a \in Units : a \in Nat /\ a <= Limit
  BY DEF Units, HeapAssumption
<1>3. \A a \in Units : a \in at + first .. at + ns - 1 => Datum(t, a - at) \in Cells
  <2> SUFFICES ASSUME NEW a \in Units, a \in at + first .. at + ns - 1
               PROVE  Datum(t, a - at) \in Cells
    OBVIOUS
  <2>1. a - at \in 0 .. Limit
    BY <1>2
  <2>2. m[a] \in Cells /\ 0 \in 0 .. Limit
    BY <1>2
  <2>3. QED
    BY <2>1, <2>2, CellFacts
<1>4. w \in [Units -> Cells]
  BY <1>1, <1>3
<1>5. \A a \in Units : a < at + first \/ at + ns <= a => w[a] = m[a]
  BY <1>1, <1>2
<1>6. \A i \in Nat : first <= i /\ i < ns /\ at + i \in Units => w[at + i].data = <<t, i>>
  <2> SUFFICES ASSUME NEW i \in Nat, first <= i, i < ns, at + i \in Units
               PROVE  w[at + i].data = <<t, i>>
    OBVIOUS
  <2>1. at + i \in at + first .. at + ns - 1 /\ at + i - at = i
    OBVIOUS
  <2>2. w[at + i] = Datum(t, i)
    BY <1>1, <2>1
  <2>3. QED
    BY <2>2 DEF Datum
<1>7. QED
  BY <1>4, <1>5, <1>6 DEF Overwrites

\* bmove() and the unit given back from allocx: where each unit of a moved
\* block comes from.  A block that moves up does not overlap its old self.
LEMMA MovedFacts ==
    ASSUME HeapAssumption, NEW m \in [Units -> Cells], NEW saved \in Cells,
           NEW to \in Units, NEW ns \in Nat, call.from \in Units, call.ons \in Nat,
           call.from + call.ons <= Limit, to + ns <= Limit,
           call.from < to => call.from + call.ons < to
    PROVE  /\ Moved(m, to, ns, saved) \in [Units -> Cells]
           /\ \A a \in Units : a < to \/ to + ns <= a => Moved(m, to, ns, saved)[a] = m[a]
           /\ \A i \in Nat : 1 <= i /\ i < Lesser(call.ons, ns) =>
                 Moved(m, to, ns, saved)[to + i] =
                    IF to < call.from /\ i = to + ns - call.from
                    THEN saved ELSE m[call.from + i]
<1> DEFINE xp == call.from
           c  == Lesser(call.ons, ns)
           copy == [a \in Units |->
                      IF a \in to .. to + c - 1
                      THEN IF to > xp THEN m[xp + ((a - to) % (to - xp))] ELSE m[xp + (a - to)]
                      ELSE m[a]]
           M == Moved(m, to, ns, saved)
<1>1. /\ Limit \in Nat /\ to \in Nat /\ 1 <= to /\ xp \in Nat /\ 1 <= xp
      /\ \A a \in Units : a \in Nat /\ 1 <= a /\ a <= Limit
      /\ \A a \in Nat : 1 <= a /\ a <= Limit => a \in Units
  BY DEF Units, HeapAssumption
<1>2. c \in Nat /\ c <= call.ons /\ c <= ns
  BY DEF Lesser
<1>3. M = IF to = xp THEN m
          ELSE IF to < xp /\ to + ns > xp THEN [copy EXCEPT ![to + (to + ns - xp)] = saved]
          ELSE copy
  BY DEF Moved
<1> HIDE DEF M, c
<1>4. \A a \in Units : a \in to .. to + c - 1 => xp + (a - to) \in Units
  BY <1>1, <1>2
<1>5. \A a \in Units : a \in to .. to + c - 1 => copy[a] = m[xp + (a - to)]
  <2> SUFFICES ASSUME NEW a \in Units, a \in to .. to + c - 1
               PROVE  copy[a] = m[xp + (a - to)]
    OBVIOUS
  <2>1. CASE to > xp
    <3>1. a - to \in Nat /\ to - xp \in Nat \ {0} /\ a - to < to - xp
      BY <1>1, <1>2, <2>1
    <3>2. (a - to) % (to - xp) = a - to
      BY <3>1, SmallRemainder
    <3>3. QED
      BY <2>1, <3>2
  <2>2. CASE ~ (to > xp)
    BY <2>2
  <2>3. QED
    BY <2>1, <2>2
<1>6. \A a \in Units : a \notin to .. to + c - 1 => copy[a] = m[a]
  OBVIOUS
<1>7. copy \in [Units -> Cells]
  <2>1. \A a \in Units : copy[a] \in Cells
    <3> TAKE a \in Units
    <3>1. CASE a \in to .. to + c - 1
      BY <1>4, <1>5, <3>1
    <3>2. CASE a \notin to .. to + c - 1
      BY <1>6, <3>2
    <3>3. QED
      BY <3>1, <3>2
  <2>2. DOMAIN copy = Units /\ copy = [a \in Units |-> copy[a]]
    OBVIOUS
  <2> HIDE DEF copy
  <2>3. QED
    BY <2>1, <2>2
<1> HIDE DEF copy
<1>8. \A i \in Nat : i < c => to + i \in Units /\ copy[to + i] = m[xp + i]
  <2> SUFFICES ASSUME NEW i \in Nat, i < c
               PROVE  to + i \in Units /\ copy[to + i] = m[xp + i]
    OBVIOUS
  <2>1. to + i \in Units /\ to + i \in to .. to + c - 1 /\ to + i - to = i
    BY <1>1, <1>2
  <2>2. QED
    BY <1>1, <1>5, <2>1
<1>9. CASE to = xp
  BY <1>1, <1>2, <1>3, <1>9 DEF M, c
<1>10. CASE to # xp /\ ~ (to < xp /\ to + ns > xp)
  <2>1. M = copy
    BY <1>3, <1>10
  <2>2. \A a \in Units : a < to \/ to + ns <= a => copy[a] = m[a]
    BY <1>1, <1>2, <1>6
  <2>3. \A i \in Nat : 1 <= i /\ i < c => ~ (to < xp /\ i = to + ns - xp)
    BY <1>1, <1>10
  <2>4. QED
    BY <1>7, <1>8, <2>1, <2>2, <2>3 DEF M, c
<1>11. CASE to < xp /\ to + ns > xp
  <2> DEFINE j == to + ns - xp
  <2>1. j \in Nat /\ to + j \in Units /\ to + j < to + ns /\ to <= to + j
    BY <1>1, <1>11
  <2>2. M = [copy EXCEPT ![to + j] = saved]
    BY <1>1, <1>3, <1>11
  <2> HIDE DEF j
  <2>3. M \in [Units -> Cells] /\ M[to + j] = saved
        /\ \A a \in Units : a # to + j => M[a] = copy[a]
    BY <1>7, <2>1, <2>2
  <2>4. \A a \in Units : a < to \/ to + ns <= a => M[a] = m[a]
    BY <1>1, <1>2, <1>6, <2>1, <2>3
  <2>5. ASSUME NEW i \in Nat, 1 <= i, i < c
        PROVE  M[to + i] = IF to < xp /\ i = to + ns - xp THEN saved ELSE m[xp + i]
    <3>1. CASE i = j
      BY <1>11, <2>3, <3>1 DEF j
    <3>2. CASE i # j
      <4>1. to + i # to + j
        BY <1>1, <2>1, <3>2
      <4>2. QED
        BY <1>8, <2>3, <2>5, <3>2, <4>1 DEF j
    <3>3. QED
      BY <3>1, <3>2
  <2>6. QED
    BY <2>3, <2>4, <2>5 DEF M, c
<1>12. QED
  BY <1>1, <1>9, <1>10, <1>11

\* What Take does to the chain and to the memory.
LEMMA TakeFacts ==
    ASSUME HeapAssumption, Frugal, Inv, Take
    PROVE  /\ Looking /\ ~mem[p].busy /\ mem[q].busy
           /\ p < p + call.nw /\ p + call.nw <= q
           /\ allocp' = p + call.nw /\ allocx' \in Cells /\ call' = NoCall
           /\ chain' = chain \union {p + call.nw}
           /\ held' = [held EXCEPT ![call.tag] =
                          [at |-> p + 1, want |-> call.want, moved |-> call.op = "realloc"]]
           /\ alloct' = alloct /\ memtop' = memtop /\ foreign' = foreign /\ refused' = refused
           /\ mem' \in [Units -> Cells]
           /\ mem'[p].ptr = p + call.nw /\ mem'[p].busy
           /\ p + call.nw = q \/ (mem'[p + call.nw].ptr = q /\ ~mem'[p + call.nw].busy)
           /\ \A a \in Units : a < p \/ p + call.nw < a \/ (a = p + call.nw /\ a = q)
                 => mem'[a] = mem[a]
           /\ \A i \in Nat : (call.op = "realloc" => 1 <= i) /\ p + 1 + i < p + call.nw
                 => mem'[p + 1 + i].data = <<call.tag, i>>
<1> DEFINE rest  == p + call.nw
           split == q > rest
           m1    == IF split THEN [mem EXCEPT ![rest] = Header(q, FALSE)] ELSE mem
           m2    == [m1 EXCEPT ![p] = Header(rest, TRUE)]
           ns    == rest - (p + 1)
           saved == IF split THEN mem[rest] ELSE allocx
           again == call.op = "realloc"
           c     == Lesser(call.ons, ns)
<1>1. /\ Looking /\ Fits /\ ~IsIdle(q)
      /\ allocp' = rest /\ allocx' = saved /\ chain' = chain \union {rest} /\ call' = NoCall
      /\ held' = [held EXCEPT ![call.tag] = [at |-> p + 1, want |-> call.want, moved |-> again]]
      /\ alloct' = alloct /\ memtop' = memtop /\ foreign' = foreign /\ refused' = refused
  BY DEF Take, AllocpAfter
<1>2. mem' = IF again
             THEN Written(Moved(m2, p + 1, ns, saved), call.tag, p + 1, c, ns)
             ELSE Written(m2, call.tag, p + 1, 0, ns)
  BY Zenon DEF Take
<1>3. TypeOK /\ Kept
  BY DEF Inv
<1>4. /\ p \in chain /\ p \in Units /\ p \in Nat /\ mem[p] \in Cells
      /\ q \in chain /\ q \in Units /\ q \in Nat
      /\ call.nw \in Nat /\ call.nw >= 1 /\ call.tag \in Tags
      /\ alloct \in Nat /\ q <= alloct /\ alloct < memtop /\ memtop \in Nat /\ memtop <= Limit
  BY <1>1, SearchFacts
<1>5. ~mem[p].busy /\ mem[q].busy /\ q - p >= call.nw
  BY <1>1 DEF Fits, IsIdle
<1>6. Limit \in Nat /\ (\A a \in Units : a \in Nat /\ 1 <= a /\ a <= Limit)
      /\ (\A a \in Nat : 1 <= a /\ a <= Limit => a \in Units)
  BY DEF Units, HeapAssumption
<1>7. /\ rest \in Nat /\ p < rest /\ rest <= q /\ rest \in Units
      /\ ns \in Nat /\ (p + 1) + ns = rest /\ p + 1 \in Units
      /\ rest \in 0 .. Limit /\ q \in 0 .. Limit
  BY <1>4, <1>5, <1>6
<1>8. /\ m2 \in [Units -> Cells]
      /\ m2[p].ptr = rest /\ m2[p].busy
      /\ split => m2[rest].ptr = q /\ ~m2[rest].busy
      /\ \A a \in Units : a # p /\ (a # rest \/ ~split) => m2[a] = mem[a]
  <2>1. mem \in [Units -> Cells]
    BY <1>3 DEF TypeOK
  <2>2. Header(q, FALSE) \in Cells /\ Header(rest, TRUE) \in Cells
    BY <1>4, <1>7, CellFacts
  <2> HIDE DEF rest
  <2>3. /\ m1 \in [Units -> Cells] /\ (split => m1[rest] = Header(q, FALSE))
        /\ \A a \in Units : a # rest \/ ~split => m1[a] = mem[a]
    BY <1>7, <2>1, <2>2
  <2> HIDE DEF m1
  <2>4. p # rest /\ p \in Units /\ rest \in Units
    BY <1>4, <1>7
  <2>5. /\ m2 \in [Units -> Cells] /\ m2[p] = Header(rest, TRUE)
        /\ \A a \in Units : a # p => m2[a] = m1[a]
    BY <2>2, <2>3, <2>4
  <2> HIDE DEF m2
  <2>6. m2[p].ptr = rest /\ m2[p].busy
    BY <2>5 DEF Header
  <2>7. split => m2[rest].ptr = q /\ ~m2[rest].busy
    BY <2>3, <2>4, <2>5 DEF Header
  <2>8. QED
    BY <2>3, <2>4, <2>5, <2>6, <2>7
<1>9. saved \in Cells
  BY <1>3, <1>7 DEF TypeOK
<1>10. \A a \in chain : a <= p \/ q <= a
  <2> TAKE a \in chain
  <2>1. a \in Nat
    BY BlockFacts DEF Inv
  <2>2. p < a => q <= a
    BY <1>4, NextIsLowest DEF Inv, p, q
  <2>3. QED
    BY <1>4, <2>1, <2>2
<1> HIDE DEF rest, m1, m2, ns, saved, c
<1>at. PICK at \in Nat : at = p + 1
  BY <1>4
\* The memory after realloc()'s copy.
<1>11. ASSUME again
       PROVE  /\ Moved(m2, at, ns, saved) \in [Units -> Cells]
              /\ \A a \in Units : a < at \/ rest <= a => Moved(m2, at, ns, saved)[a] = m2[a]
              /\ \A i \in Nat : 1 <= i /\ i < c
                    => Moved(m2, at, ns, saved)[at + i].data = <<call.tag, i>>
  <2> DEFINE xp == call.from
             M  == Moved(m2, at, ns, saved)
  <2>1. /\ xp \in Units /\ xp + call.ons < memtop
        /\ \A a \in chain : a < xp \/ xp + call.ons <= a
        /\ \A i \in Nat : 1 <= i /\ i < call.ons => mem[xp + i].data = <<call.tag, i>>
    BY <1>1, <1>3, <1>11 DEF Kept
  <2>2. call.ons \in Nat /\ xp \in Nat /\ xp + call.ons <= Limit
    BY <1>3, <1>4, <1>6, <2>1 DEF TypeOK
  <2>3. xp < at => xp + call.ons < at
    BY <1>at, <1>4, <2>1, <2>2
  <2>4. at \in Nat /\ at + ns = rest /\ at + ns <= Limit
    BY <1>at, <1>4, <1>6, <1>7
  <2>5. /\ M \in [Units -> Cells]
        /\ \A a \in Units : a < at \/ at + ns <= a => M[a] = m2[a]
        /\ \A i \in Nat : 1 <= i /\ i < c =>
              M[at + i] = IF at < xp /\ i = at + ns - xp THEN saved ELSE m2[xp + i]
    BY <1>at, <1>7, <1>8, <1>9, <2>1, <2>2, <2>3, <2>4, MovedFacts DEF c
  <2> HIDE DEF M
  <2>6. ASSUME NEW i \in Nat, 1 <= i, i < c PROVE M[at + i].data = <<call.tag, i>>
    <3>1. c \in Nat /\ c <= call.ons /\ c <= ns
      BY <1>at, <1>7, <2>2 DEF c, Lesser
    <3>2. xp + i \in Units /\ i < call.ons /\ i < ns /\ mem[xp + i].data = <<call.tag, i>>
      <4>1. i < call.ons /\ i < ns
        BY <1>at, <1>7, <2>2, <2>6, <3>1
      <4>2. xp + i \in Nat /\ 1 <= xp + i /\ xp + i <= Limit
        BY <1>6, <2>2, <2>6, <4>1
      <4>3. QED
        BY <1>6, <2>1, <2>6, <4>1, <4>2
    <3>3. xp + i \notin chain
      BY <2>1, <2>2, <2>6, <3>2
    <3>4. xp + i # p /\ xp + i # q
      BY <1>at, <1>4, <3>3
    <3>5. CASE at < xp /\ i = at + ns - xp
      <4>1. xp + i = rest
        BY <1>at, <1>7, <2>2, <2>4, <3>5
      <4>2. split
        BY <1>at, <1>4, <1>7, <3>4, <4>1
      <4>3. saved = mem[xp + i]
        BY <4>1, <4>2 DEF saved
      <4>4. QED
        BY <2>5, <2>6, <3>2, <3>5, <4>3
    <3>6. CASE ~ (at < xp /\ i = at + ns - xp)
      <4>1. xp + i # rest
        BY <1>at, <1>7, <2>2, <2>3, <2>4, <3>1, <3>2, <3>6
      <4>2. m2[xp + i] = mem[xp + i]
        BY <1>8, <3>2, <3>4, <4>1
      <4>3. QED
        BY <2>5, <2>6, <3>2, <3>6, <4>2
    <3>7. QED
      BY <3>5, <3>6
  <2>7. QED
    BY <2>4, <2>5, <2>6 DEF M
<1>12. /\ mem' \in [Units -> Cells]
       /\ \A a \in Units : a < at \/ rest <= a => mem'[a] = m2[a]
       /\ \A i \in Nat : (again => 1 <= i) /\ at + i < rest
             => mem'[at + i].data = <<call.tag, i>>
  <2>1. /\ at \in Nat /\ at + ns = rest
        /\ \A i \in Nat : at + i < rest => at + i \in Units /\ i < ns
    BY <1>at, <1>4, <1>6, <1>7
  <2>2. CASE ~again
    <3>1. mem' = Written(m2, call.tag, at, 0, ns)
      BY <1>at, <1>2, <2>2
    <3>2. /\ mem' \in [Units -> Cells]
          /\ \A a \in Units : a < at + 0 \/ at + ns <= a => mem'[a] = m2[a]
          /\ \A i \in Nat : 0 <= i /\ i < ns /\ at + i \in Units
                => mem'[at + i].data = <<call.tag, i>>
      <4>1. m2 \in [Units -> Cells] /\ call.tag \in Tags /\ at \in Nat /\ 0 \in Nat /\ ns \in Nat
        BY <1>at, <1>4, <1>7, <1>8, <2>1
      <4>2. Overwrites(Written(m2, call.tag, at, 0, ns), m2, call.tag, at, 0, ns)
        BY <4>1, WrittenFacts
      <4>3. QED
        BY <3>1, <4>2, Zenon DEF Overwrites
    <3>3. QED
      BY <1>at, <1>4, <2>1, <3>2
  <2>3. CASE again
    <3> DEFINE M == Moved(m2, at, ns, saved)
    <3>1. mem' = Written(M, call.tag, at, c, ns)
      BY <1>at, <1>2, <2>3
    <3>2. /\ M \in [Units -> Cells]
          /\ \A a \in Units : a < at \/ rest <= a => M[a] = m2[a]
          /\ \A i \in Nat : 1 <= i /\ i < c => M[at + i].data = <<call.tag, i>>
      BY <1>11, <2>3
    <3> HIDE DEF M
    <3>3. c \in Nat /\ c <= ns
      BY <1>3, <1>7 DEF c, Lesser, TypeOK
    <3>4. /\ mem' \in [Units -> Cells]
          /\ \A a \in Units : a < at + c \/ at + ns <= a => mem'[a] = M[a]
          /\ \A i \in Nat : c <= i /\ i < ns /\ at + i \in Units
                => mem'[at + i].data = <<call.tag, i>>
      <4>1. M \in [Units -> Cells] /\ call.tag \in Tags /\ at \in Nat /\ c \in Nat /\ ns \in Nat
        BY <1>at, <1>4, <1>7, <2>1, <3>2, <3>3
      <4>2. Overwrites(Written(M, call.tag, at, c, ns), M, call.tag, at, c, ns)
        BY <4>1, WrittenFacts
      <4>3. QED
        BY <3>1, <4>2, Zenon DEF Overwrites
    <3>5. \A a \in Units : a < at \/ rest <= a => mem'[a] = m2[a]
      BY <1>at, <1>4, <1>6, <2>1, <3>2, <3>3, <3>4
    <3>6. ASSUME NEW i \in Nat, 1 <= i, at + i < rest
          PROVE  mem'[at + i].data = <<call.tag, i>>
      <4>1. CASE i < c
        BY <1>at, <1>4, <2>1, <3>2, <3>3, <3>4, <3>6, <4>1
      <4>2. CASE c <= i
        BY <2>1, <3>4, <3>6, <4>2
      <4>3. QED
        BY <3>3, <4>1, <4>2
    <3>7. QED
      BY <2>3, <3>4, <3>5, <3>6
  <2>4. QED
    BY <2>2, <2>3
<1>two. /\ mem' \in [Units -> Cells]
        /\ \A a \in Units : a < p + 1 \/ rest <= a => mem'[a] = m2[a]
  BY <1>at, <1>12, Zenon
<1>13. mem'[p].ptr = rest /\ mem'[p].busy
  <2>1. mem'[p] = m2[p]
    BY <1>4, <1>two
  <2>2. QED
    BY <1>8, <2>1, Zenon
<1>14. rest = q \/ (mem'[rest].ptr = q /\ ~mem'[rest].busy)
  <2>1. CASE split
    <3>1. mem'[rest] = m2[rest]
      BY <1>7, <1>two
    <3>2. QED
      BY <1>8, <2>1, <3>1, Zenon
  <2>2. CASE ~split
    BY <1>4, <1>7, <2>2
  <2>3. QED
    BY <2>1, <2>2
<1>15. \A a \in Units : a < p \/ rest < a \/ (a = rest /\ a = q) => mem'[a] = mem[a]
  <2> SUFFICES ASSUME NEW a \in Units, a < p \/ rest < a \/ (a = rest /\ a = q)
               PROVE  mem'[a] = mem[a]
    OBVIOUS
  <2>1. a \in Nat /\ a # p /\ (a < p + 1 \/ rest <= a) /\ (a # rest \/ ~split)
    BY <1>4, <1>6, <1>7
  <2>2. QED
    BY <1>8, <1>two, <2>1
<1>16. QED
  BY <1>1, <1>4, <1>5, <1>7, <1>9, <1>at, <1>12, <1>13, <1>14, <1>15 DEF rest

LEMMA TakeKeeps ==
    ASSUME HeapAssumption, Frugal, Inv, Take
    PROVE  Inv'
<1> DEFINE tag == call.tag
<1>1. /\ Looking /\ ~mem[p].busy /\ mem[q].busy
      /\ allocx' \in Cells /\ call' = NoCall
      /\ alloct' = alloct /\ memtop' = memtop /\ foreign' = foreign /\ refused' = refused
      /\ mem' \in [Units -> Cells]
  BY TakeFacts, Zenon
<1>2. PICK rest \in Nat : rest = p + call.nw
  <2>1. p + call.nw \in Nat
    BY <1>1, SearchFacts
  <2>2. QED
    BY <2>1
<1>rest. p < rest /\ rest <= q /\ allocp' = rest /\ chain' = chain \union {rest}
  BY <1>2, TakeFacts, Zenon
<1>head. /\ mem'[p].ptr = rest /\ mem'[p].busy
         /\ rest = q \/ (mem'[rest].ptr = q /\ ~mem'[rest].busy)
  BY <1>2, TakeFacts, Zenon
<1>same. \A a \in Units : a < p \/ rest < a \/ (a = rest /\ a = q) => mem'[a] = mem[a]
  BY <1>2, TakeFacts, Zenon
<1>data. \A i \in Nat : (call.op = "realloc" => 1 <= i) /\ p + 1 + i < rest
            => mem'[p + 1 + i].data = <<tag, i>>
  BY <1>2, TakeFacts, Zenon
<1>3. held' = [held EXCEPT ![tag] = [at |-> p + 1, want |-> call.want,
                                     moved |-> call.op = "realloc"]]
  BY TakeFacts, Zenon
<1>4. /\ p \in chain /\ p \in Units /\ p \in Nat
      /\ q \in chain /\ q \in Units /\ q \in Nat
      /\ call.nw \in Nat /\ call.nw >= 1 /\ tag \in Tags /\ held[tag] = NotHeld
      /\ call.want \in Nat
      /\ alloct \in chain /\ allocs0 \in chain /\ alloct \in Nat /\ p <= alloct
      /\ q <= alloct /\ alloct < memtop /\ memtop \in Nat /\ memtop <= Limit
      /\ mem[alloct].busy /\ mem[allocs0].busy /\ alloct # allocs0 /\ chain \subseteq Units
      /\ p # alloct /\ p # allocs0
  BY <1>1, SearchFacts
<1>want. call.want <= (call.nw - 1) * SUNIT
  BY <1>1 DEF Inv, Searches
<1>5. Limit \in Nat /\ (\A a \in Units : a \in Nat /\ 1 <= a /\ a <= Limit)
      /\ (\A a \in Nat : 1 <= a /\ a <= Limit => a \in Units)
  BY DEF Units, HeapAssumption
<1>6. rest \in Units
  BY <1>2, <1>rest, <1>4, <1>5
<1>7. /\ held'[tag].at = p + 1 /\ held'[tag].want = call.want
      /\ held'[tag].moved = (call.op = "realloc")
      /\ \A u \in Tags : u # tag => held'[u] = held[u]
  BY <1>3, <1>4 DEF Inv, TypeOK
<1>8. \A a \in chain : a \in Nat /\ a \in Units /\ (a <= p \/ q <= a)
  <2> TAKE a \in chain
  <2>1. a \in Nat /\ a \in Units
    BY BlockFacts DEF Inv
  <2>2. p < a => q <= a
    BY <1>4, NextIsLowest DEF Inv, p, q
  <2>3. QED
    BY <1>4, <2>1, <2>2
\* The other blocks of the chain stay as they are.
<1>9. \A a \in chain : a # p => mem'[a] = mem[a]
  <2> SUFFICES ASSUME NEW a \in chain, a # p PROVE mem'[a] = mem[a]
    OBVIOUS
  <2>1. a < p \/ rest < a \/ (a = rest /\ a = q)
    BY <1>2, <1>rest, <1>4, <1>8
  <2>2. QED
    BY <1>rest, <1>same, <1>8, <2>1
<1>10. rest \notin chain => /\ rest < q /\ mem'[rest].ptr = q /\ ~mem'[rest].busy
  <2>1. rest \notin chain => rest # q
    BY <1>4
  <2>2. QED
    BY <1>rest, <1>head, <1>4, <2>1
<1>11. rest \in chain => rest = q /\ mem'[rest] = mem[rest]
  BY <1>2, <1>rest, <1>4, <1>8, <1>9
<1>12. TypeOK'
  <2>1. held' \in [Tags -> [at : 0 .. Limit, want : Nat, moved : BOOLEAN]]
    <3>1. p + 1 \in 0 .. Limit /\ (call.op = "realloc") \in BOOLEAN
      BY <1>2, <1>rest, <1>4, <1>5
    <3>2. held \in [Tags -> [at : 0 .. Limit, want : Nat, moved : BOOLEAN]]
      BY DEF Inv, TypeOK
    <3>3. QED
      BY <1>3, <1>4, <3>1, <3>2
  <2>2. allocp' \in 0 .. Limit /\ chain' \subseteq Units
    BY <1>rest, <1>4, <1>5, <1>6
  <2>3. call' \in [pc : {"idle", "look"}, op : {"malloc", "calloc", "realloc"},
                   tag : Tags \union {0}, want : Nat, nw : 0 .. WORD, p : 0 .. Limit,
                   laps : 0 .. 2, from : 0 .. Limit, ons : 0 .. Limit]
    BY <1>1 DEF NoCall, HeapAssumption
  <2>4. QED
    BY <1>1, <2>1, <2>2, <2>3 DEF Inv, TypeOK
<1>13. ChainLinked'
  <2> SUFFICES ASSUME NEW a \in chain \union {rest}
               PROVE  IF a = alloct
                      THEN mem'[a].ptr = allocs0 /\ mem'[a].busy
                      ELSE /\ mem'[a].ptr \in chain \union {rest} /\ a < mem'[a].ptr
                           /\ (chain \union {rest}) \intersect (a + 1 .. mem'[a].ptr - 1) = {}
    BY <1>1, <1>rest DEF ChainLinked
  <2>1. CASE a = p
    <3>1. (chain \union {rest}) \intersect (p + 1 .. rest - 1) = {}
      BY <1>2, <1>rest, <1>4, <1>8
    <3>2. QED
      BY <1>2, <1>rest, <1>head, <1>4, <2>1, <3>1
  <2>2. CASE a = rest /\ rest \notin chain
    <3>1. (chain \union {rest}) \intersect (rest + 1 .. q - 1) = {}
      BY <1>2, <1>rest, <1>4, <1>8
    <3>2. rest # alloct
      BY <1>4, <2>2
    <3>3. QED
      BY <1>4, <1>10, <2>2, <3>1, <3>2
  <2>3. CASE a \in chain /\ a # p
    <3>1. mem'[a] = mem[a]
      BY <1>9, <2>3
    <3>2. CASE a = alloct
      <4>1. mem[a].ptr = allocs0 /\ mem[a].busy
        BY <2>3, <3>2 DEF Inv, ChainLinked
      <4>2. QED
        BY <3>1, <3>2, <4>1, Zenon
    <3>3. CASE a # alloct
      <4>1. /\ mem[a].ptr \in chain /\ a < mem[a].ptr
            /\ chain \intersect (a + 1 .. mem[a].ptr - 1) = {}
        BY <2>3, <3>3 DEF Inv, ChainLinked
      <4>2. rest \notin chain => ~ (a < rest /\ rest < mem[a].ptr)
        <5>1. a < p => mem[a].ptr <= p
          BY <1>4, <2>3, NextIsLowest DEF Inv
        <5>2. mem[a].ptr \in Nat
          BY <2>3, BlockFacts DEF Inv
        <5>3. QED
          BY <1>2, <1>rest, <1>4, <1>8, <2>3, <5>1, <5>2
      <4>3. (chain \union {rest}) \intersect (a + 1 .. mem[a].ptr - 1) = {}
        BY <1>2, <1>rest, <1>8, <2>3, <4>1, <4>2
      <4>4. QED
        BY <3>1, <3>3, <4>1, <4>3, Zenon
    <3>4. QED
      BY <3>2, <3>3
  <2>4. QED
    BY <2>1, <2>2, <2>3
<1>14. Bounds'
  <2>1. mem'[allocs0].busy /\ allocs0 \in chain' /\ alloct \in chain' /\ chain' # {}
    BY <1>2, <1>rest, <1>4, <1>9
  <2>2. \A a \in chain' : a <= alloct /\ alloct < memtop
    <3>1. \A a \in chain : a <= alloct
      BY DEF Inv, Bounds
    <3>2. rest <= alloct
      BY <1>rest, <1>4
    <3>3. QED
      BY <1>rest, <1>4, <3>1, <3>2
  <2>3. alloct + 1 < memtop => alloct + 1 \in foreign
    BY <1>4 DEF Inv, Bounds
  <2>4. QED
    BY <1>1, <1>4, <2>1, <2>2, <2>3 DEF Bounds
<1>15. /\ \A a \in Nat : IsHeld(a)' => a = p \/ IsHeld(a)
       /\ \A a \in Nat : IsHeld(a) => IsHeld(a)'
       /\ \A a \in Nat : a = p => IsHeld(a)'
  <2>1. held'[tag] # NotHeld
    BY <1>4, <1>7 DEF NotHeld
  <2>2. ASSUME NEW a \in Nat, a = p PROVE IsHeld(a)'
    <3>1. tag \in Tags /\ held'[tag].at = a + 1
      BY <1>4, <1>7, <2>2
    <3>2. QED
      BY <2>1, <3>1 DEF IsHeld
  <2>3. ASSUME NEW a \in Nat, IsHeld(a) PROVE IsHeld(a)'
    BY <1>4, <1>7, <2>3 DEF IsHeld
  <2>4. ASSUME NEW a \in Nat, IsHeld(a)' PROVE a = p \/ IsHeld(a)
    <3>1. PICK u \in Tags : held'[u] # NotHeld /\ held'[u].at = a + 1
      BY <2>4 DEF IsHeld
    <3>2. CASE u = tag
      BY <1>4, <1>7, <3>1, <3>2
    <3>3. CASE u # tag
      BY <1>7, <3>1, <3>3 DEF IsHeld
    <3>4. QED
      BY <3>2, <3>3
  <2>5. QED
    BY <2>2, <2>3, <2>4
<1>16. Apart'
  <2>1. foreign \intersect (p .. q - 1) = {} /\ foreign \subseteq allocs1 + 1 .. memtop - 1
        /\ allocs1 + 1 \in foreign
    BY <1>1, <1>4 DEF Inv, Apart, p, q
  <2>2. \A a \in chain' : a \notin foreign
    <3>1. rest \notin foreign
      <4>1. CASE rest \in chain
        BY <4>1 DEF Inv, Apart
      <4>2. CASE rest \notin chain
        BY <1>2, <1>rest, <1>4, <1>10, <2>1, <4>2
      <4>3. QED
        BY <4>1, <4>2
    <3>2. QED
      BY <1>2, <1>rest, <3>1 DEF Inv, Apart
  <2>3. ASSUME NEW a \in chain \union {rest}, ~mem'[a].busy \/ IsHeld(a)'
        PROVE  foreign \intersect (a .. mem'[a].ptr - 1) = {}
    <3>1. CASE a = p
      BY <1>2, <1>rest, <1>head, <1>4, <2>1, <3>1
    <3>2. CASE a = rest /\ rest \notin chain
      BY <1>2, <1>rest, <1>4, <1>10, <2>1, <3>2
    <3>3. CASE a \in chain /\ a # p
      <4>1. mem'[a] = mem[a] /\ a \in Nat
        BY <1>8, <1>9, <3>3
      <4>2. ~mem[a].busy \/ IsHeld(a)
        BY <1>15, <2>3, <3>3, <4>1, Zenon
      <4>3. QED
        BY <3>3, <4>1, <4>2 DEF Inv, Apart
    <3>4. QED
      BY <3>1, <3>2, <3>3
  <2>4. QED
    BY <1>1, <1>2, <1>rest, <2>1, <2>2, <2>3 DEF Apart
<1>17. ASSUME NEW u \in Tags, u # tag, held'[u] # NotHeld
       PROVE  /\ held'[u] = held[u] /\ held[u] # NotHeld /\ held[u].at \in Nat
              /\ held[u].at - 1 \in chain /\ held[u].at - 1 # p /\ held[u].at - 1 \in Units
              /\ mem'[held[u].at - 1] = mem[held[u].at - 1]
  <2>1. held'[u] = held[u] /\ held[u] # NotHeld
    BY <1>7, <1>17
  <2>2. /\ held[u].at - 1 \in chain /\ mem[held[u].at - 1].busy /\ held[u].at - 1 \in Units
        /\ held[u].at \in Nat
    BY <2>1, HeldFacts DEF Inv
  <2>3. held[u].at - 1 # p
    BY <1>1, <2>2
  <2>4. QED
    BY <1>9, <2>1, <2>2, <2>3
<1>18. Holds'
  <2> SUFFICES ASSUME NEW u \in Tags, held'[u] # NotHeld PROVE HoldsOne(u)'
    BY DEF Holds
  <2>1. CASE u = tag
    <3>1. held'[u].at - 1 = p
      BY <1>4, <1>7, <2>1
    <3>2. held'[u].at - 1 \in chain' /\ held'[u].at - 1 \notin {allocs0, alloct'}
      BY <1>1, <1>2, <1>rest, <1>4, <3>1
    <3>3. mem'[held'[u].at - 1].busy
      BY <1>head, <3>1, Zenon
    <3>4. ASSUME NEW v \in Tags \ {u}, held'[v] # NotHeld PROVE held'[v].at # held'[u].at
      BY <1>4, <1>7, <1>17, <2>1, <3>4
    <3>5. QED
      BY <3>2, <3>3, <3>4 DEF HoldsOne
  <2>2. CASE u # tag
    <3>1. HoldsOne(u)
      BY <1>17, <2>2 DEF Inv, Holds
    <3>2. held'[u].at - 1 \in chain' /\ held'[u].at - 1 \notin {allocs0, alloct'}
      BY <1>1, <1>2, <1>rest, <1>17, <2>2, <3>1 DEF HoldsOne
    <3>3. mem'[held'[u].at - 1].busy
      BY <1>17, <2>2, <3>1, Zenon DEF HoldsOne
    <3>4. ASSUME NEW v \in Tags \ {u}, held'[v] # NotHeld PROVE held'[v].at # held'[u].at
      <4>1. CASE v = tag
        BY <1>4, <1>7, <1>17, <2>2, <4>1
      <4>2. CASE v # tag
        BY <1>17, <2>2, <3>1, <3>4, <4>2 DEF HoldsOne
      <4>3. QED
        BY <4>1, <4>2
    <3>5. QED
      BY <3>2, <3>3, <3>4 DEF HoldsOne
  <2>3. QED
    BY <2>1, <2>2
<1>19. Owned'
  <2> SUFFICES ASSUME NEW a \in chain \union {rest}, mem'[a].busy
               PROVE  a \in {allocs0, alloct} \/ IsHeld(a)' \/ a + 1 \in foreign
    BY <1>1, <1>rest DEF Owned
  <2>1. CASE a = p
    BY <1>4, <1>15, <2>1
  <2>2. CASE a = rest /\ rest \notin chain
    BY <1>10, <2>2, Zenon
  <2>3. CASE a \in chain /\ a # p
    <3>1. mem[a].busy
      BY <1>9, <2>3, Zenon
    <3>2. a \in {allocs0, alloct} \/ IsHeld(a) \/ a + 1 \in foreign
      BY <2>3, <3>1 DEF Inv, Owned
    <3>3. QED
      BY <1>8, <1>15, <2>3, <3>2
  <2>4. QED
    BY <2>1, <2>2, <2>3
<1>20. Full'
  <2> SUFFICES ASSUME NEW u \in Tags, held'[u] # NotHeld PROVE Filled(u)'
    BY DEF Full
  <2>1. CASE u = tag
    <3>1. /\ held'[u].at = p + 1 /\ held'[u].at - 1 = p /\ mem'[held'[u].at - 1].ptr = rest
          /\ held'[u].want = call.want
      BY <1>rest, <1>head, <1>4, <1>7, <2>1
    <3>2. rest - (p + 1) = call.nw - 1
      BY <1>2, <1>rest, <1>4
    <3>3. held'[u].want <= (mem'[held'[u].at - 1].ptr - held'[u].at) * SUNIT
      BY <1>want, <3>1, <3>2
    <3>4. ASSUME NEW i \in Nat, (IF held'[u].moved THEN 1 ELSE 0) <= i,
                 held'[u].at + i < mem'[held'[u].at - 1].ptr
          PROVE  mem'[held'[u].at + i].data = <<u, i>>
      <4>1. call.op = "realloc" => 1 <= i
        BY <1>7, <2>1, <3>4
      <4>2. p + 1 + i < rest
        BY <3>1, <3>4
      <4>3. QED
        BY <1>data, <2>1, <3>1, <4>1, <4>2
    <3>5. QED
      BY <3>3, <3>4 DEF Filled
  <2>2. CASE u # tag
    <3> DEFINE b == held[u].at - 1
    <3>1. /\ held'[u] = held[u] /\ held[u] # NotHeld /\ b \in chain /\ b # p
          /\ mem'[b].ptr = mem[b].ptr /\ b \in Nat /\ held[u].at = b + 1
      BY <1>8, <1>17, <2>2
    <3>2. mem[b].ptr \in Nat
      BY <3>1, BlockFacts DEF Inv
    <3>3. b < p => mem[b].ptr <= p
      BY <1>4, <3>1, NextIsLowest DEF Inv
    <3> HIDE DEF b
    <3>4. \A a \in Units : b + 1 <= a /\ a < mem[b].ptr => mem'[a] = mem[a]
      <4> SUFFICES ASSUME NEW a \in Units, b + 1 <= a, a < mem[b].ptr
                   PROVE  mem'[a] = mem[a]
        OBVIOUS
      <4>1. a \in Nat /\ (b <= p \/ q <= b)
        BY <1>5, <1>8, <3>1
      <4>2. a < p \/ rest < a
        BY <1>rest, <1>4, <3>1, <3>2, <3>3, <4>1
      <4>3. QED
        BY <1>same, <4>2
    <3>5. QED
      BY <3>1, <3>4, StaysFilled DEF Inv, b
  <2>3. QED
    BY <2>1, <2>2
<1>21. Searches' /\ Kept'
  BY <1>1 DEF NoCall, Searches, Kept, Looking
<1>22. Rests'
  BY <1>rest DEF Rests
<1>23. QED
  BY <1>12, <1>13, <1>14, <1>16, <1>18, <1>19, <1>20, <1>21, <1>22 DEF Inv

-----------------------------------------------------------------------------
(***************************************************************************)
(* The invariant holds of every behaviour.                                 *)
(***************************************************************************)
LEMMA InitKeeps ==
    ASSUME HeapAssumption, Init
    PROVE  Inv
<1>1. /\ mem = [a \in Units |-> Blank] /\ allocp = 0 /\ alloct = 0 /\ allocx = Blank
      /\ memtop = Base /\ call = NoCall /\ held = [t \in Tags |-> NotHeld] /\ chain = {}
      /\ foreign = allocs1 + 1 .. Base - 1 /\ refused = FALSE
  BY DEF Init
<1>2. /\ Limit \in Nat /\ 0 \in 0 .. Limit /\ 1 \in Units /\ Base \in Nat /\ 3 < Base
      /\ Base <= Limit
  BY DEF HeapAssumption, Units
<1> DEFINE D == {<<>>} \union (Tags \X (0 .. Limit))
<1>3. Blank \in Cells
  <2>1. Cells = [ptr : 0 .. Limit, busy : BOOLEAN, data : D] /\ <<>> \in D
    BY DEF Cells
  <2> HIDE DEF D
  <2>2. QED
    BY <1>2, <2>1 DEF Blank, Header
<1>4. TypeOK
  <2>1. mem \in [Units -> Cells] /\ allocx \in Cells
    BY <1>1, <1>3
  <2>2. /\ allocp \in 0 .. Limit /\ alloct \in 0 .. Limit /\ memtop \in Base .. Limit
        /\ chain \subseteq Units /\ foreign \subseteq 1 .. Limit /\ refused \in BOOLEAN
    <3>1. allocp \in 0 .. Limit /\ alloct \in 0 .. Limit /\ memtop \in Base .. Limit
      BY <1>1, <1>2
    <3>2. foreign \subseteq 1 .. Limit
      <4>1. foreign = allocs1 + 1 .. Base - 1
        BY <1>1
      <4>2. QED
        BY <1>2, <4>1 DEF allocs1
    <3>3. chain \subseteq Units /\ refused \in BOOLEAN
      BY <1>1
    <3>4. QED
      BY <3>1, <3>2, <3>3
  <2>3. call \in [pc : {"idle", "look"}, op : {"malloc", "calloc", "realloc"},
                  tag : Tags \union {0}, want : Nat, nw : 0 .. WORD, p : 0 .. Limit,
                  laps : 0 .. 2, from : 0 .. Limit, ons : 0 .. Limit]
    BY <1>1, <1>2, HeapAssumption DEF NoCall, HeapAssumption
  <2>4. held \in [Tags -> [at : 0 .. Limit, want : Nat, moved : BOOLEAN]]
    BY <1>1, <1>2 DEF NotHeld
  <2>5. QED
    BY <2>1, <2>2, <2>3, <2>4 DEF TypeOK
<1>5. ChainLinked /\ Owned /\ Rests
  BY <1>1 DEF ChainLinked, Owned, Rests
<1>6. mem[allocs0].ptr = 0
  BY <1>1, <1>2 DEF Blank, Header, allocs0
<1>7. Bounds
  BY <1>1, <1>6 DEF Bounds, NoCall
<1>8. Apart
  BY <1>1, <1>2 DEF Apart, allocs1
<1>9. Holds /\ Full
  BY <1>1 DEF Holds, Full
<1>10. Searches /\ Kept
  BY <1>1 DEF Searches, Kept, Looking, NoCall
<1>11. QED
  BY <1>4, <1>5, <1>7, <1>8, <1>9, <1>10 DEF Inv

LEMMA StutterKeeps ==
    ASSUME Inv, UNCHANGED vars
    PROVE  Inv'
<1>1. /\ mem' = mem /\ allocp' = allocp /\ alloct' = alloct /\ allocx' = allocx
      /\ memtop' = memtop /\ call' = call /\ held' = held /\ chain' = chain
      /\ foreign' = foreign /\ refused' = refused
  BY DEF vars
<1>2. TypeOK' /\ ChainLinked' /\ Bounds' /\ Apart'
  BY <1>1 DEF Inv, TypeOK, ChainLinked, Bounds, Apart, IsHeld
<1>3. Holds' /\ Owned' /\ Full' /\ Rests'
  BY <1>1 DEF Inv, Holds, HoldsOne, Owned, IsHeld, Full, Filled, Rests, Idle
<1>4. Searches' /\ Kept'
  BY <1>1 DEF Inv, Searches, Kept, Looking, Short, Grain
<1>5. QED
  BY <1>2, <1>3, <1>4 DEF Inv

\* The calls pass on requests that fit.
LEMMA RequestsFit ==
    ASSUME HeapAssumption, Frugal
    PROVE  /\ \A n \in Sizes \union Resizes : n \in Nat /\ Fitting(n)
           /\ \A item \in Items : /\ item[1] * item[2] \in Nat /\ Fitting(item[1] * item[2])
                                  /\ (item[1] * item[2]) % WORD = item[1] * item[2]
<1>1. \A n \in Sizes \union Resizes : n \in Nat /\ Fitting(n)
  BY DEF HeapAssumption, Frugal
<1>2. ASSUME NEW item \in Items
      PROVE  /\ item[1] * item[2] \in Nat /\ Fitting(item[1] * item[2])
             /\ (item[1] * item[2]) % WORD = item[1] * item[2]
  <2>1. item[1] \in Nat /\ item[2] \in Nat /\ WORD \in Nat \ {0}
    BY DEF HeapAssumption
  <2>2. item[1] * item[2] \in Nat
    BY <2>1
  <2>3. item[1] * item[2] < WORD /\ Fitting(item[1] * item[2])
    BY DEF Frugal
  <2>4. QED
    BY <2>1, <2>2, <2>3, SmallRemainder
<1>3. QED
  BY <1>1, <1>2

LEMMA StepKeeps ==
    ASSUME HeapAssumption, Frugal, Inv, [Next]_vars
    PROVE  Inv'
<1>1. ASSUME NEW t \in Tags, NEW n \in Sizes, Malloc(t, n) PROVE Inv'
  BY <1>1, RequestsFit, AllocateKeeps DEF Malloc
<1>2. ASSUME NEW t \in Tags, NEW n \in Resizes, Realloc(t, n) PROVE Inv'
  BY <1>2, RequestsFit, ReallocKeeps
<1>3. ASSUME NEW t \in Tags, NEW item \in Items, Calloc(t, item) PROVE Inv'
  <2>1. item[1] * item[2] \in Nat /\ Fitting(item[1] * item[2])
        /\ (item[1] * item[2]) % WORD = item[1] * item[2]
    BY RequestsFit
  <2>2. Allocate(t, "calloc", item[1] * item[2], item[1] * item[2])
    BY <1>3, <2>1 DEF Calloc
  <2>3. QED
    BY <2>1, <2>2, AllocateKeeps
<1>4. ASSUME NEW t \in Tags, Free(t) PROVE Inv'
  BY <1>4, FreeKeeps
<1>5. ASSUME Bufallo PROVE Inv'
  BY <1>5, BufalloKeeps
<1>6. ASSUME Merge PROVE Inv'
  BY <1>6, MergeKeeps
<1>7. ASSUME Take PROVE Inv'
  BY <1>7, TakeKeeps
<1>8. ASSUME Advance PROVE Inv'
  BY <1>8, AdvanceKeeps
<1>9. ASSUME Grow PROVE Inv'
  BY <1>9, GrowKeeps
<1>10. ASSUME GiveUp PROVE Inv'
  BY <1>10, GiveUpKeeps
<1>11. ASSUME UNCHANGED vars PROVE Inv'
  BY <1>11, StutterKeeps
<1> DEFINE Fine == Inv'
<1>12. Next => Fine
  <2> HIDE DEF Fine
  <2> SUFFICES ASSUME Next PROVE Fine
    OBVIOUS
  <2>1. CASE \E t \in Tags : \E n \in Sizes : Malloc(t, n)
    BY <1>1, <2>1 DEF Fine
  <2>2. CASE \E t \in Tags : \E n \in Resizes : Realloc(t, n)
    BY <1>2, <2>2 DEF Fine
  <2>3. CASE \E t \in Tags : \E item \in Items : Calloc(t, item)
    BY <1>3, <2>3 DEF Fine
  <2>4. CASE \E t \in Tags : Free(t)
    BY <1>4, <2>4 DEF Fine
  <2>5. CASE Bufallo \/ Searching
    BY <1>5, <1>6, <1>7, <1>8, <1>9, <1>10, <2>5 DEF Searching, Fine
  <2>6. QED
    BY <2>1, <2>2, <2>3, <2>4, <2>5 DEF Next
<1>13. QED
  BY <1>11, <1>12

\* malloc() is the only call that refuses, and when it does every block is
\* too short.
LEMMA StepRefuses ==
    ASSUME HeapAssumption, Inv, [Next]_vars, refused', ~refused
    PROVE  \A a \in chain : Short(a)
<1>1. ASSUME NEW t \in Tags, NEW op, NEW want, NEW n, Allocate(t, op, want, n)
      PROVE  FALSE
  BY <1>1 DEF Allocate
<1>2. ~(\E t \in Tags : \E n \in Sizes : Malloc(t, n))
  BY <1>1 DEF Malloc
<1>3. ~(\E t \in Tags : \E item \in Items : Calloc(t, item))
  BY <1>1 DEF Calloc
<1>4. ~(\E t \in Tags : \E n \in Resizes : Realloc(t, n)) /\ ~(\E t \in Tags : Free(t))
  BY DEF Realloc, Free
<1>5. ~Bufallo /\ ~Merge /\ ~Take /\ ~Advance /\ ~Grow /\ ~UNCHANGED vars
  BY DEF Bufallo, Merge, Take, Advance, Grow, vars
<1>6. GiveUp
  BY <1>2, <1>3, <1>4, <1>5 DEF Next, Searching
<1>7. QED
  BY <1>6, RefusalFacts

LEMMA InvHolds ==
    ASSUME Frugal
    PROVE  Spec => []Inv
<1>1. Init => Inv
  BY HeapAssumption, InitKeeps
<1>2. Inv /\ [Next]_vars => Inv'
  BY HeapAssumption, StepKeeps
<1>3. QED
  BY <1>1, <1>2, PTL DEF Spec

-----------------------------------------------------------------------------
(***************************************************************************)
(* The theorems.                                                           *)
(***************************************************************************)
\* Every variable keeps its type: no pointer leaves the memory, whatever is
\* merged, split and moved.
THEOREM Typing ==
    ASSUME Frugal
    PROVE  Spec => []TypeOK
<1>1. Inv => TypeOK
  BY DEF Inv
<1>2. QED
  BY <1>1, InvHolds, PTL

\* The arena stays the circular, monotonically linked list that the comment
\* at the head of malloc.c describes.
THEOREM Linked ==
    ASSUME Frugal
    PROVE  Spec => []ChainLinked
<1>1. Inv => ChainLinked
  BY DEF Inv
<1>2. QED
  BY <1>1, InvHolds, PTL

\* The search pointer that free(), realloc() and malloc() leave is at a block
\* of the chain: the next search walks the blocks and nothing else.
THEOREM StartsInChain ==
    ASSUME Frugal
    PROVE  Spec => []SearchStartsInChain
<1>1. Inv => SearchStartsInChain
  BY DEF Inv, Rests, SearchStartsInChain
<1>2. QED
  BY <1>1, InvHolds, PTL

\* Nothing that was freed stays out of reach.
THEOREM NothingLost ==
    ASSUME Frugal
    PROVE  Spec => []BusyIsOwned
<1>1. Inv => BusyIsOwned
  <2> SUFFICES ASSUME Inv, NEW a \in chain, mem[a].busy
               PROVE  \/ a \in {allocs0, alloct}
                      \/ \E t \in Tags : held[t].at = a + 1
                      \/ a + 1 \in foreign
    BY DEF BusyIsOwned
  <2>1. QED
    BY DEF Inv, Owned, IsHeld
<1>2. QED
  BY <1>1, InvHolds, PTL

\* A block has the room that was asked for and nothing in it is memory that
\* _bufallo() took of sbrk().
THEOREM Roomy ==
    ASSUME Frugal
    PROVE  Spec => []RoomAsAsked
<1>1. Inv => RoomAsAsked
  <2> SUFFICES ASSUME Inv, NEW t \in Tags, held[t] # NotHeld
               PROVE  /\ held[t].want <= (mem[held[t].at - 1].ptr - held[t].at) * SUNIT
                      /\ foreign \intersect (held[t].at .. mem[held[t].at - 1].ptr - 1) = {}
    BY DEF RoomAsAsked
  <2>1. held[t].want <= (mem[held[t].at - 1].ptr - held[t].at) * SUNIT
    BY DEF Inv, Full, Filled
  <2>2. foreign \intersect (held[t].at - 1 .. mem[held[t].at - 1].ptr - 1) = {}
    BY HeapAssumption, HeldFacts DEF Inv, Apart
  <2>3. held[t].at \in Nat /\ mem[held[t].at - 1].ptr \in Nat
    BY HeapAssumption, HeldFacts DEF Inv
  <2>4. QED
    BY <2>1, <2>2, <2>3
<1>2. QED
  BY <1>1, InvHolds, PTL

\* The units of n bytes are in a block of k units that has room for n bytes.
LEMMA LastUnit ==
    ASSUME HeapAssumption, NEW n \in Nat, NEW k \in Int, n <= k * SUNIT
    PROVE  /\ (n + SUNIT - 1) \div SUNIT \in Nat
           /\ (n + SUNIT - 1) \div SUNIT <= k
<1>1. SUNIT \in Nat \ {0} /\ n + SUNIT - 1 \in Nat
  BY DEF HeapAssumption
<1> DEFINE d == (n + SUNIT - 1) \div SUNIT
<1>2. d \in Nat /\ d * SUNIT <= n + SUNIT - 1
  BY <1>1, DivisionBounds
<1>3. k * SUNIT \in Int /\ d * SUNIT \in Int /\ (k + 1) * SUNIT = k * SUNIT + SUNIT
  BY <1>1, <1>2
<1>4. d * SUNIT < (k + 1) * SUNIT
  BY <1>1, <1>2, <1>3
<1>5. d < k + 1
  BY <1>1, <1>2, <1>4, FewerTimes
<1>6. QED
  BY <1>2, <1>5

\* What the program wrote in a block is there until it frees the block, but
\* for the first unit of one that realloc() gave.
THEOREM RestKept ==
    ASSUME Frugal
    PROVE  Spec => []RestIntact
<1>1. Inv => RestIntact
  <2> SUFFICES ASSUME Inv, NEW t \in Tags, held[t] # NotHeld
               PROVE  Keeps(t, IF held[t].moved THEN 1 ELSE 0)
    BY DEF RestIntact
  <2> DEFINE next == mem[held[t].at - 1].ptr
             first == IF held[t].moved THEN 1 ELSE 0
             units == (held[t].want + SUNIT - 1) \div SUNIT
  <2>1. held[t].at \in Nat /\ next \in Nat /\ held[t].want \in Nat /\ first \in Nat
    <3>1. held[t].at \in Nat /\ next \in Nat
      BY HeapAssumption, HeldFacts DEF Inv
    <3>2. held[t].want \in Nat
      BY DEF Inv, TypeOK
    <3>3. QED
      BY <3>1, <3>2
  <2>2. /\ held[t].want <= (next - held[t].at) * SUNIT
        /\ \A i \in Nat : first <= i /\ held[t].at + i < next
                            => mem[held[t].at + i].data = <<t, i>>
    BY DEF Inv, Full, Filled
  <2>3. units \in Nat /\ units <= next - held[t].at
    <3>1. PICK n \in Nat : n = held[t].want
      BY <2>1
    <3>2. PICK k \in Int : k = next - held[t].at
      BY <2>1
    <3>3. n <= k * SUNIT
      BY <2>2, <3>1, <3>2
    <3>4. (n + SUNIT - 1) \div SUNIT \in Nat /\ (n + SUNIT - 1) \div SUNIT <= k
      BY HeapAssumption, <3>3, LastUnit
    <3>5. QED
      BY <3>1, <3>2, <3>4
  <2> HIDE DEF next, first, units
  <2>4. ASSUME NEW i \in first .. units - 1
        PROVE  mem[held[t].at + i].data = <<t, i>>
    <3>1. i \in Nat /\ first <= i /\ held[t].at + i < next
      BY <2>1, <2>3
    <3>2. QED
      BY <2>2, <3>1
  <2>5. QED
    BY <2>4 DEF Keeps, first, units
<1>2. QED
  BY <1>1, InvHolds, PTL

\* malloc() refuses only when every run of idle blocks is too short, however
\* the runs were cut up before.
THEOREM RefusesOnlyWhenFull ==
    ASSUME Frugal
    PROVE  Spec => GivesUpOnlyWhenFull
<1> DEFINE AllShort == \A a \in chain :
                         mem[a].busy \/ (mem[mem[a].ptr].busy /\ mem[a].ptr - a < call.nw)
<1>1. Inv /\ [Next]_vars => [(refused' /\ ~refused) => AllShort]_vars
  <2> SUFFICES ASSUME Inv, [Next]_vars, refused', ~refused
               PROVE  AllShort
    OBVIOUS
  <2>1. \A a \in chain : Short(a)
    BY HeapAssumption, StepRefuses
  <2>2. QED
    BY <2>1, Zenon DEF Short
<1>2. QED
  BY <1>1, InvHolds, PTL DEF Spec, GivesUpOnlyWhenFull

\* malloc()'s test that the chain is what it should be never fails: it walks
\* upwards from block to block and wraps at the top only.
THEOREM NeverAstray ==
    ASSUME Frugal
    PROVE  Spec => [](Looking => ~Astray)
<1>1. Inv => (Looking => ~Astray)
  BY HeapAssumption, SearchFacts
<1>2. QED
  BY <1>1, InvHolds, PTL
=============================================================================
