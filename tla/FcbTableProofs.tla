--------------------------- MODULE FcbTableProofs ---------------------------
(***************************************************************************)
(* Theorems about FcbTable for every table size, record size, set of files *)
(* and bound.                                                              *)
(***************************************************************************)
EXTENDS FcbTable, WellFoundedInduction, TLAPS

(***************************************************************************)
(* getfcb() finds a slot whenever there is one: the first free slot exists *)
(* because the slots are natural numbers.                                  *)
(***************************************************************************)
LEMMA LeastNatural ==
    ASSUME NEW T, T \subseteq Nat, T # {}
    PROVE  \E m \in T : \A k \in T : m <= k
<1> DEFINE R == {ss \in Nat \X Nat : ss[1] < ss[2]}
<1>1. IsWellFoundedOn(R, Nat)
  BY NatLessThanWellFounded DEF OpToRel
<1>2. PICK m \in T : \A k \in T : ~ (<<k, m>> \in R)
  BY <1>1, WFMin
<1>3. ASSUME NEW k \in T, k < m PROVE FALSE
  <2>1. <<k, m>> \in Nat \X Nat /\ <<k, m>>[1] < <<k, m>>[2]
    BY <1>3
  <2>2. QED
    BY <1>2, <2>1
<1>4. QED
  BY <1>3

LEMMA FirstFreeIsFree ==
    ASSUME TableAssumption, ~Full
    PROVE  FirstFree \in Fds /\ IsFree(FirstFree)
<1> DEFINE T == {fd \in Fds : IsFree(fd)}
<1>1. T \subseteq Nat /\ T # {}
  BY DEF Full, Fds, TableAssumption
<1>2. PICK m \in T : \A k \in T : m <= k
  BY <1>1, LeastNatural
<1>3. \A e \in 0 .. m - 1 : ~IsFree(e)
  BY <1>1, <1>2 DEF Fds, TableAssumption
<1>4. \E fd \in Fds : IsFree(fd) /\ \A e \in 0 .. fd - 1 : ~IsFree(e)
  BY <1>2, <1>3
<1>5. QED
  BY <1>4 DEF FirstFree

\* exit() closes some writer last.
LEMMA LastWriterExists ==
    ASSUME TableAssumption, NEW f, Writers(f) # {}
    PROVE  LastWriter(f) \in Writers(f)
<1> DEFINE T == {MAXFILE - fd : fd \in Writers(f)}
<1>1. Writers(f) \subseteq Fds
  BY DEF Writers
<1>2. T \subseteq Nat /\ T # {}
  BY <1>1 DEF Fds, TableAssumption
<1>3. PICK m \in T : \A k \in T : m <= k
  BY <1>2, LeastNatural
<1>4. PICK fd \in Writers(f) : m = MAXFILE - fd
  BY <1>3
<1>5. ASSUME NEW e \in Writers(f) PROVE e <= fd
  <2>1. MAXFILE - e \in T
    OBVIOUS
  <2>2. MAXFILE - fd <= MAXFILE - e
    BY <1>3, <1>4, <2>1
  <2>3. e \in Int /\ fd \in Int /\ MAXFILE \in Int
    BY <1>1 DEF Fds, TableAssumption
  <2>4. QED
    BY <2>2, <2>3
<1>6. QED
  BY <1>5 DEF LastWriter

-----------------------------------------------------------------------------
(***************************************************************************)
(* Typing of the helpers.                                                  *)
(***************************************************************************)
LEMMA FcbTyping ==
    /\ FreeFcb \in FcbType
    /\ \A d \in 4 .. 9 : DeviceFcb(d) \in FcbType
BY DEF FreeFcb, DeviceFcb, FcbType

LEMMA LastBytesType ==
    ASSUME TableAssumption, NEW n \in Int
    PROVE  LastBytes(n) \in 0 .. SECSIZE - 1
BY DEF LastBytes, TableAssumption

LEMMA SizeOfType ==
    ASSUME TableAssumption, NEW e \in Entries
    PROVE  SizeOf(e) \in Int
BY DEF SizeOf, Entries, TableAssumption

LEMMA StampType ==
    ASSUME TableAssumption, NEW e \in Entries, NEW b \in FcbType
    PROVE  Stamp(e, b) \in Entries
BY LastBytesType DEF Stamp, Entries, FcbType

LEMMA ResultType ==
    \A op \in Calls, want \in Int, ret \in Int : Result(op, want, ret) \in Results
BY DEF Result, Results

LEMMA StartTyping ==
    ASSUME TableAssumption
    PROVE  /\ StartTable \in [Fds -> FcbType]
           /\ {fd \in Fds : StartTable[fd].use # 0} = 0 .. 2
<1>1. StartTable \in [Fds -> FcbType]
  BY FcbTyping DEF StartTable, U_CON
<1>2. \A fd \in Fds : StartTable[fd].use # 0 <=> fd < 3
  BY DEF StartTable, DeviceFcb, FreeFcb, U_CON
<1>3. QED
  BY <1>1, <1>2 DEF Fds, TableAssumption

LEMMA OldSizes ==
    ASSUME TableAssumption, NEW e \in OldEntries
    PROVE  e \in Entries /\ SizeOf(e) \in Nat
<1>1. e \in Entries
  BY DEF OldEntries, Entries
<1>2. CASE e.lrbc = 0
  BY <1>1, <1>2 DEF SizeOf, Entries, TableAssumption
<1>3. CASE e.recs # 0
  <2>1. e.recs * SECSIZE >= SECSIZE
    <3>1. PICK r \in Nat : e.recs = r + 1
      <4>1. e.recs - 1 \in Nat
        BY <1>1, <1>3 DEF Entries
      <4>2. QED
        BY <4>1, <1>1 DEF Entries
    <3>2. (r + 1) * SECSIZE = r * SECSIZE + SECSIZE /\ r * SECSIZE >= 0
      BY DEF TableAssumption
    <3>3. QED
      BY <3>1, <3>2 DEF TableAssumption
  <2>2. QED
    BY <1>1, <2>1 DEF SizeOf, Entries, TableAssumption
<1>4. QED
  BY <1>1, <1>2, <1>3 DEF OldEntries

-----------------------------------------------------------------------------
(***************************************************************************)
(* The slots are exactly the descriptors the program holds.                *)
(***************************************************************************)
SlotsInv == TypeOK /\ SlotsOwned

LEMMA SlotsInit == Init => SlotsInv
<1> SUFFICES ASSUME Init PROVE SlotsInv
  OBVIOUS
<1> USE TableAssumption
<1>1. fcb \in [Fds -> FcbType] /\ SlotsOwned
  BY StartTyping DEF Init, SlotsOwned, IsFree
<1>2. user \in Users /\ held \subseteq Fds
  BY DEF Init, TableAssumption, Fds
<1>3. dir \in [File -> Entries \union {Absent}]
  BY OldSizes DEF Init
<1>4. length \in [File -> Nat]
  BY OldSizes DEF Init
<1>5. last \in Results
  BY ResultType DEF Calls, Init
<1>6. QED
  BY <1>1, <1>2, <1>3, <1>4, <1>5 DEF SlotsInv, TypeOK

\* What granting the first free slot does, shared by open, creat and dup.
LEMMA GrantKeeps ==
    ASSUME SlotsInv, ~Full, NEW b \in FcbType, b.use # 0, NEW op \in Calls,
           Grant(op, FirstFree, b)
    PROVE  /\ fcb' \in [Fds -> FcbType]
           /\ held' \subseteq Fds
           /\ SlotsOwned'
           /\ last' \in Results
<1> USE TableAssumption
<1>1. FirstFree \in Fds /\ IsFree(FirstFree)
  BY FirstFreeIsFree
<1>2. fcb' \in [Fds -> FcbType] /\ held' \subseteq Fds
  BY <1>1 DEF SlotsInv, TypeOK, Grant
<1>3. \A fd \in Fds : fcb'[fd] = IF fd = FirstFree THEN b ELSE fcb[fd]
  BY <1>1 DEF SlotsInv, TypeOK, Grant
<1>4. SlotsOwned'
  BY <1>1, <1>2, <1>3 DEF SlotsInv, SlotsOwned, IsFree, Grant
<1>5. FirstFree \in Int
  BY <1>1 DEF Fds
<1>6. QED
  BY <1>2, <1>4, <1>5, ResultType DEF Grant

\* Every call keeps the correspondence.
LEMMA SlotsNext == SlotsInv /\ [Next]_vars => SlotsInv'
<1> SUFFICES ASSUME SlotsInv, [Next]_vars PROVE SlotsInv'
  OBVIOUS
<1> USE TableAssumption
<1>0. /\ fcb \in [Fds -> FcbType] /\ user \in Users
      /\ dir \in [File -> Entries \union {Absent}]
      /\ held \subseteq Fds /\ length \in [File -> Nat]
      /\ last \in Results
      /\ SlotsOwned
  BY DEF SlotsInv, TypeOK
<1>free. ~Full => FirstFree \in Fds /\ IsFree(FirstFree)
  BY FirstFreeIsFree
<1>back. ASSUME ~Full, fcb' = [fcb EXCEPT ![FirstFree] = FreeFcb], held' = held
         PROVE  fcb' \in [Fds -> FcbType] /\ SlotsOwned'
  <2>1. fcb' \in [Fds -> FcbType]
    BY <1>0, <1>free, <1>back, FcbTyping
  <2>2. \A fd \in Fds : fcb'[fd].use = fcb[fd].use
    BY <1>0, <1>free, <1>back DEF IsFree, FreeFcb
  <2>3. QED
    BY <1>0, <1>back, <2>1, <2>2 DEF SlotsOwned, IsFree
<1>same. ASSUME fcb' = fcb, held' = held
         PROVE  fcb' \in [Fds -> FcbType] /\ SlotsOwned'
  BY <1>0, <1>same DEF SlotsOwned, IsFree
<1>1. CASE OpenFull
  BY <1>0, <1>1, <1>same, ResultType DEF Calls, OpenFull, SlotsInv, TypeOK
<1>2. ASSUME NEW d \in Devices, OpenDevice(d) PROVE SlotsInv'
  <2>1. DeviceFcb(d) \in FcbType /\ DeviceFcb(d).use # 0
    BY FcbTyping DEF TableAssumption, DeviceFcb, FreeFcb
  <2>2. /\ fcb' \in [Fds -> FcbType] /\ held' \subseteq Fds
        /\ SlotsOwned' /\ last' \in Results
    BY <1>2, <2>1, GrantKeeps DEF Calls, OpenDevice
  <2>3. QED
    BY <1>0, <1>2, <2>2 DEF OpenDevice, SlotsInv, TypeOK
<1>3. ASSUME NEW f \in File, OpenMissing(f) PROVE SlotsInv'
  BY <1>0, <1>3, <1>back, ResultType DEF Calls, OpenMissing, SlotsInv, TypeOK
<1>4. ASSUME NEW f \in File, NEW mode \in Modes, OpenFile(f, mode) PROVE SlotsInv'
  <2> DEFINE b == [use |-> mode, file |-> f, rwp |-> 0, fsize |-> SizeOf(dir[f])]
  <2>1. b \in FcbType /\ b.use # 0
    BY <1>0, <1>4, SizeOfType DEF OpenFile, FcbType, Modes, U_READ, U_WRITE, U_RDWR
  <2>2. ~Full /\ Grant("open", FirstFree, b) /\ UNCHANGED <<user, dir, length>>
    BY <1>4 DEF OpenFile
  <2> HIDE DEF b
  <2>3. /\ fcb' \in [Fds -> FcbType] /\ held' \subseteq Fds
        /\ SlotsOwned' /\ last' \in Results
    BY <2>1, <2>2, GrantKeeps DEF Calls
  <2>4. QED
    BY <1>0, <2>2, <2>3 DEF SlotsInv, TypeOK
<1>5. ASSUME NEW f \in File, CreatFile(f) PROVE SlotsInv'
  <2> DEFINE b == [use |-> U_WRITE, file |-> f, rwp |-> 0, fsize |-> 0]
  <2>1. b \in FcbType /\ b.use # 0
    BY DEF FcbType, U_WRITE
  <2>2. NewEntry \in Entries
    BY DEF NewEntry, Entries, TableAssumption
  <2>3. /\ ~Full /\ Grant("creat", FirstFree, b) /\ user' = user
        /\ dir' = [dir EXCEPT ![f] = NewEntry]
        /\ length' = [length EXCEPT ![f] = 0]
    BY <1>5 DEF CreatFile
  <2> HIDE DEF b
  <2>4. /\ fcb' \in [Fds -> FcbType] /\ held' \subseteq Fds
        /\ SlotsOwned' /\ last' \in Results
    BY <2>1, <2>3, GrantKeeps DEF Calls
  <2>5. QED
    BY <1>0, <2>2, <2>3, <2>4 DEF SlotsInv, TypeOK
<1>6. ASSUME NEW f \in File, CreatFails(f) PROVE SlotsInv'
  BY <1>0, <1>6, <1>back, ResultType DEF Calls, CreatFails, SlotsInv, TypeOK
<1>7. ASSUME NEW fd \in held, NEW n \in 0 .. MaxIO, WriteFile(fd, n) PROVE SlotsInv'
  <2> DEFINE fc == fcb[fd]
             f  == fc.file
  <2>0. /\ fd \in Fds /\ fc \in FcbType /\ n \in Nat
        /\ fc.use \in {U_WRITE, U_RDWR}
    BY <1>0, <1>7 DEF WriteFile, TableAssumption
  <2>1. PICK k \in Stops(fc.rwp, n) :
          LET end == fc.rwp + k IN
          /\ fcb' = [fcb EXCEPT ![fd].rwp = end,
                                ![fd].fsize = IF k = 0 THEN @ ELSE Larger(@, end)]
          /\ IF k = 0 \/ dir[f] = Absent
             THEN UNCHANGED <<dir, length>>
             ELSE /\ dir' = [dir EXCEPT ![f].recs = Larger(@, Records(end))]
                  /\ length' = [length EXCEPT ![f] = Larger(@, end)]
          /\ last' = Result("write", n, k)
    BY <1>7 DEF WriteFile
  <2> DEFINE end == fc.rwp + k
             new == [fc EXCEPT !.rwp = end, !.fsize = IF k = 0 THEN @ ELSE Larger(@, end)]
  <2>2. k \in Nat /\ end \in Nat
    BY <2>0 DEF Stops, FcbType
  <2>3. new \in FcbType /\ new.use = fc.use
    <3>1. (IF k = 0 THEN fc.fsize ELSE Larger(fc.fsize, end)) \in Int
      BY <2>0, <2>2 DEF FcbType, Larger
    <3>2. new = [fc EXCEPT !.rwp = end,
                           !.fsize = IF k = 0 THEN fc.fsize ELSE Larger(fc.fsize, end)]
      BY <2>0 DEF FcbType
    <3>3. QED
      BY <2>0, <2>2, <3>1, <3>2 DEF FcbType
  <2>4. fcb' = [fcb EXCEPT ![fd] = new]
    BY <1>0, <2>0, <2>1
  <2>5. fcb' \in [Fds -> FcbType] /\ SlotsOwned'
    <3>1. fcb' \in [Fds -> FcbType]
      BY <1>0, <2>0, <2>3, <2>4
    <3>2. \A e \in Fds : fcb'[e].use = fcb[e].use
      BY <1>0, <2>0, <2>3, <2>4
    <3>3. held' = held
      BY <1>7 DEF WriteFile
    <3>4. QED
      BY <1>0, <3>1, <3>2, <3>3 DEF SlotsOwned, IsFree
  <2>6. Records(end) \in Nat
    BY <2>2 DEF Records, TableAssumption
  <2>7. /\ dir' \in [File -> Entries \union {Absent}]
        /\ length' \in [File -> Nat]
    <3>1. CASE k = 0 \/ dir[f] = Absent
      BY <1>0, <2>1, <3>1
    <3>2. CASE ~(k = 0 \/ dir[f] = Absent)
      <4>1. /\ dir' = [dir EXCEPT ![f].recs = Larger(@, Records(end))]
            /\ length' = [length EXCEPT ![f] = Larger(@, end)]
        BY <2>1, <3>2
      <4>2. length' \in [File -> Nat]
        BY <1>0, <2>2, <4>1 DEF Larger
      <4>3. dir' \in [File -> Entries \union {Absent}]
        BY <1>0, <2>6, <3>2, <4>1 DEF Larger, Entries
      <4>4. QED
        BY <4>2, <4>3
    <3>3. QED
      BY <3>1, <3>2
  <2>8. last' \in Results
    BY <2>0, <2>1, <2>2, ResultType DEF Calls
  <2>9. QED
    BY <1>0, <1>7, <2>5, <2>7, <2>8 DEF WriteFile, SlotsInv, TypeOK
<1>8. ASSUME NEW fd \in held, NEW n \in 0 .. MaxIO, ReadFile(fd, n) PROVE SlotsInv'
  <2> DEFINE fc == fcb[fd]
             most == IF Allowed(fc, n) < Readable(fc) THEN Allowed(fc, n) ELSE Readable(fc)
  <2>0. fd \in Fds /\ fc \in FcbType /\ n \in Nat
    BY <1>0, <1>8 DEF TableAssumption
  <2>1. PICK k \in Stops(fc.rwp, most) :
          fcb' = [fcb EXCEPT ![fd].rwp = @ + k] /\ last' = Result("read", n, k)
    BY <1>8 DEF ReadFile
  <2>2. k \in Nat
    <3>1. k \in 0 .. most
      BY <2>1 DEF Stops
    <3>2. QED
      BY <3>1
  <2>3. fcb' \in [Fds -> FcbType]
    BY <1>0, <2>0, <2>1, <2>2 DEF FcbType
  <2>4. \A e \in Fds : fcb'[e].use = fcb[e].use
    BY <1>0, <2>0, <2>1, <2>2 DEF FcbType
  <2>5. SlotsOwned'
    BY <1>0, <1>8, <2>3, <2>4 DEF SlotsOwned, IsFree, ReadFile
  <2>6. QED
    BY <1>0, <1>8, <2>0, <2>1, <2>2, <2>3, <2>5, ResultType DEF Calls, ReadFile, SlotsInv, TypeOK
<1>9. ASSUME NEW fd \in held, NEW n \in 0 .. MaxIO, WriteDevice(fd, n) \/ ReadDevice(fd, n)
      PROVE  SlotsInv'
  <2>1. n \in Int /\ \A k \in 0 .. n : k \in Int
    BY DEF TableAssumption
  <2>2. CASE WriteDevice(fd, n)
    <3>1. last' \in Results
      BY <2>1, <2>2, ResultType DEF Calls, WriteDevice
    <3>2. QED
      BY <1>0, <1>same, <2>2, <3>1 DEF WriteDevice, SlotsInv, TypeOK
  <2>3. CASE ReadDevice(fd, n)
    <3>1. last' \in Results
      BY <2>1, <2>3, ResultType DEF Calls, ReadDevice
    <3>2. QED
      BY <1>0, <1>same, <2>3, <3>1 DEF ReadDevice, SlotsInv, TypeOK
  <2>4. QED
    BY <1>9, <2>2, <2>3
<1>10. ASSUME NEW fd \in held, NEW offs \in -MaxIO .. MaxPos, NEW whence \in 0 .. 2,
              Lseek(fd, offs, whence)
       PROVE  SlotsInv'
  <2> DEFINE pos == Base(fcb[fd], whence) + offs
  <2>0. fd \in Fds /\ fcb[fd] \in FcbType /\ offs \in Int
    BY <1>0 DEF TableAssumption
  <2>1. pos \in Int
    BY <2>0 DEF Base, Larger, FcbType
  <2>2. CASE pos >= 0
    <3>1. fcb' = [fcb EXCEPT ![fd].rwp = pos] /\ last' = Result("lseek", pos, pos)
      BY <1>10, <2>2 DEF Lseek
    <3> HIDE DEF pos
    <3>2. fcb' \in [Fds -> FcbType] /\ \A e \in Fds : fcb'[e].use = fcb[e].use
      BY <1>0, <2>0, <2>1, <2>2, <3>1 DEF FcbType
    <3>3. SlotsOwned'
      BY <1>0, <1>10, <3>2 DEF SlotsOwned, IsFree, Lseek
    <3>4. QED
      BY <1>0, <1>10, <2>1, <3>1, <3>2, <3>3, ResultType DEF Calls, Lseek, SlotsInv, TypeOK
  <2>3. CASE ~(pos >= 0)
    <3>1. /\ fcb' = fcb /\ held' = held /\ last' = Result("lseek", -1, -1)
          /\ UNCHANGED <<user, dir, length>>
      BY <1>10, <2>3 DEF Lseek
    <3>2. QED
      BY <1>0, <1>same, <3>1, ResultType DEF Calls, SlotsInv, TypeOK
  <2>4. QED
    BY <2>2, <2>3
<1>11. ASSUME NEW fd \in held, Dup(fd) PROVE SlotsInv'
  <2>0. fd \in Fds /\ fcb[fd] \in FcbType
    BY <1>0
  <2>1. CASE IsFree(fd) \/ Full
    BY <1>0, <1>11, <1>same, <2>1, ResultType DEF Calls, Dup, SlotsInv, TypeOK
  <2>2. CASE ~(IsFree(fd) \/ Full)
    <3>1. Grant("dup", FirstFree, fcb[fd]) /\ ~Full /\ fcb[fd].use # 0
      BY <1>11, <2>2 DEF Dup, IsFree
    <3>2. /\ fcb' \in [Fds -> FcbType] /\ held' \subseteq Fds
          /\ SlotsOwned' /\ last' \in Results
      BY <2>0, <3>1, GrantKeeps DEF Calls
    <3>3. QED
      BY <1>0, <1>11, <3>2 DEF Dup, SlotsInv, TypeOK
  <2>3. QED
    BY <2>1, <2>2
<1>12. ASSUME NEW fd \in held, Close(fd) PROVE SlotsInv'
  <2> DEFINE fc == fcb[fd]
  <2>0. fd \in Fds /\ fc \in FcbType
    BY <1>0
  <2>1. fcb' \in [Fds -> FcbType]
    BY <1>0, <1>12, <2>0, FcbTyping DEF Close
  <2>2. \A e \in Fds : fcb'[e].use = IF e = fd THEN 0 ELSE fcb[e].use
    BY <1>0, <1>12, <2>0 DEF Close, FreeFcb
  <2>3. SlotsOwned' /\ held' \subseteq Fds
    BY <1>0, <1>12, <2>0, <2>1, <2>2 DEF SlotsOwned, IsFree, Close
  <2>4. dir' \in [File -> Entries \union {Absent}]
    <3>1. CASE UNCHANGED dir
      BY <1>0, <3>1
    <3>2. CASE /\ dir' = [dir EXCEPT ![fc.file] = Stamp(@, fc)]
               /\ dir[fc.file] # Absent
      BY <1>0, <2>0, <3>2, StampType
    <3>3. QED
      BY <1>12, <3>1, <3>2 DEF Close
  <2>5. last' \in Results
    BY <1>12, ResultType DEF Calls, Close
  <2>6. QED
    BY <1>0, <1>12, <2>1, <2>3, <2>4, <2>5 DEF Close, SlotsInv, TypeOK
<1>13. ASSUME NEW f \in File, Unlink(f) PROVE SlotsInv'
  BY <1>0, <1>13, <1>same, ResultType DEF Calls, Unlink, SlotsInv, TypeOK
<1>14. ASSUME NEW f1 \in File, NEW f2 \in File, Rename(f1, f2) PROVE SlotsInv'
  <2> DEFINE here1 == <<user, f1[2]>>
             here2 == <<user, f2[2]>>
             dir1  == [dir EXCEPT ![f2] = IF Deleted(f2) THEN Absent ELSE @]
             moves == dir1[here1] # Absent /\ dir1[here2] = Absent
  <2>1. here1 \in File /\ here2 \in File
    BY <1>0 DEF File
  <2>2. dir1 \in [File -> Entries \union {Absent}]
    BY <1>0
  <2>3. dir' = dir1 \/ dir' = [dir1 EXCEPT ![here2] = dir1[here1], ![here1] = Absent]
    BY <1>14 DEF Rename
  <2>4. dir' \in [File -> Entries \union {Absent}]
    <3> HIDE DEF dir1, here1, here2
    <3>1. QED
      BY <2>1, <2>2, <2>3
  <2>5. length' = length \/ length' = [length EXCEPT ![here2] = length[here1]]
    BY <1>14 DEF Rename
  <2>6. length' \in [File -> Nat]
    BY <1>0, <2>1, <2>5
  <2>7. last' \in Results
    <3>1. last' = Result("rename", 0, 0) \/ last' = Result("rename", -1, 0)
      BY <1>14 DEF Rename
    <3>2. QED
      BY <3>1, ResultType DEF Calls
  <2>8. QED
    BY <1>0, <1>14, <1>same, <2>4, <2>6, <2>7 DEF Rename, SlotsInv, TypeOK
<1>15. ASSUME NEW f2 \in File, RenameDevice(f2) PROVE SlotsInv'
  BY <1>0, <1>15, <1>same, ResultType DEF Calls, RenameDevice, SlotsInv, TypeOK
<1>16. CASE UnlinkDevice
  BY <1>0, <1>16, <1>same, ResultType DEF Calls, UnlinkDevice, SlotsInv, TypeOK
<1>17. ASSUME NEW u \in Users, Setuid(u) PROVE SlotsInv'
  <2>1. u \in Int
    BY DEF TableAssumption
  <2>2. QED
    BY <1>0, <1>17, <1>same, <2>1, ResultType DEF Calls, Setuid, SlotsInv, TypeOK
<1>18. CASE Exit
  <2>1. ASSUME NEW f \in File, dir[f] # Absent, Writers(f) # {}
        PROVE  Stamp(dir[f], fcb[LastWriter(f)]) \in Entries
    <3>1. LastWriter(f) \in Fds
      BY <2>1, LastWriterExists DEF Writers
    <3>2. QED
      BY <1>0, <2>1, <3>1, StampType
  <2>2. dir' \in [File -> Entries \union {Absent}]
    BY <1>0, <1>18, <2>1 DEF Exit
  <2>3. fcb' \in [Fds -> FcbType] /\ SlotsOwned' /\ held' \subseteq Fds
    BY <1>18, StartTyping DEF Exit, SlotsOwned, IsFree, Fds, TableAssumption
  <2>4. QED
    BY <1>0, <1>18, <2>2, <2>3, ResultType DEF Calls, Exit, SlotsInv, TypeOK
<1>21. ASSUME NEW f \in File, Stat(f) PROVE SlotsInv'
  <2>1. Recorded(length[f]) \in Int
    <3>1. length[f] \in Nat
      BY <1>0
    <3>2. QED
      BY <3>1 DEF Recorded, Records, TableAssumption
  <2>2. CASE dir[f] # Absent
    <3>1. dir[f] \in Entries
      BY <1>0, <2>2
    <3>2. SizeOf(dir[f]) \in Int /\ dir[f].recs * SECSIZE \in Int
      BY <3>1, SizeOfType DEF Entries, TableAssumption
    <3>3. last' \in Results
      BY <1>21, <2>1, <3>2, ResultType DEF Calls, Stat
    <3>4. QED
      BY <1>0, <1>21, <1>same, <3>3 DEF Stat, SlotsInv, TypeOK
  <2>3. CASE dir[f] = Absent
    <3>1. last' = Result("stat", -1, -1)
      BY <1>21, <2>3 DEF Stat
    <3>2. last' \in Results
      BY <3>1, ResultType DEF Calls
    <3>3. QED
      BY <1>0, <1>21, <1>same, <3>2 DEF Stat, SlotsInv, TypeOK
  <2>4. QED
    BY <2>2, <2>3
<1>22. ASSUME NEW f \in File, NEW ro \in BOOLEAN, Chmod(f, ro) PROVE SlotsInv'
  <2>1. dir' \in [File -> Entries \union {Absent}]
    BY <1>0, <1>22 DEF Chmod, Entries
  <2>2. last' \in Results
    <3>1. last' = Result("chmod", 0, 0) \/ last' = Result("chmod", -1, 255)
      BY <1>22 DEF Chmod
    <3>2. QED
      BY <3>1, ResultType DEF Calls
  <2>3. QED
    BY <1>0, <1>22, <1>same, <2>1, <2>2 DEF Chmod, SlotsInv, TypeOK
<1>23. CASE StatDevice
  BY <1>0, <1>23, <1>same, ResultType DEF Calls, StatDevice, SlotsInv, TypeOK
<1>19. CASE UNCHANGED vars
  BY <1>0, <1>19 DEF vars, SlotsInv, TypeOK, SlotsOwned, IsFree
<1>20. QED
  BY <1>1, <1>2, <1>3, <1>4, <1>5, <1>6, <1>7, <1>8, <1>9, <1>10, <1>11, <1>12,
     <1>13, <1>14, <1>15, <1>16, <1>17, <1>18, <1>19, <1>21, <1>22, <1>23 DEF Next, File

(***************************************************************************)
(* No call strands a slot and no held descriptor is given out again, for   *)
(* every table size and whatever fails, is shared or is renamed.           *)
(***************************************************************************)
THEOREM SlotAccounting == Spec => [](TypeOK /\ SlotsOwned)
<1>1. Init => SlotsInv
  BY SlotsInit
<1>2. SlotsInv /\ [Next]_vars => SlotsInv'
  BY SlotsNext
<1>3. SlotsInv => TypeOK /\ SlotsOwned
  BY DEF SlotsInv
<1>4. QED
  BY <1>1, <1>2, <1>3, PTL DEF Spec

-----------------------------------------------------------------------------
(***************************************************************************)
(* A free slot holds nothing: putting one back as it is taken changes no   *)
(* slot, so that a failing open() or creat() leaves the whole table alone. *)
(***************************************************************************)
FreeBlocks == \A fd \in Fds : IsFree(fd) => fcb[fd] = FreeFcb
TableInv   == SlotsInv /\ FreeBlocks

LEMMA FreeBlocksInit == Init => FreeBlocks
<1>1. \A fd \in Fds : StartTable[fd].use = 0 => StartTable[fd] = FreeFcb
  BY DEF StartTable, DeviceFcb, FreeFcb, U_CON
<1>2. QED
  BY <1>1 DEF Init, FreeBlocks, IsFree

\* A slot that is changed is in use afterwards, or holds nothing.
LEMMA OneBlock ==
    ASSUME FreeBlocks, fcb \in [Fds -> FcbType], NEW fd, NEW b,
           b.use = 0 => b = FreeFcb,
           fcb' = [fcb EXCEPT ![fd] = b]
    PROVE  FreeBlocks'
<1>1. \A e \in Fds : fcb'[e] = IF e = fd THEN b ELSE fcb[e]
  OBVIOUS
<1>2. QED
  BY <1>1 DEF FreeBlocks, IsFree

LEMMA BackAgain ==
    ASSUME TableInv, ~Full, fcb' = [fcb EXCEPT ![FirstFree] = FreeFcb]
    PROVE  fcb' = fcb
<1> USE TableAssumption
<1>1. FirstFree \in Fds /\ fcb[FirstFree] = FreeFcb
  BY FirstFreeIsFree DEF TableInv, FreeBlocks
<1>2. QED
  BY <1>1 DEF TableInv, SlotsInv, TypeOK

LEMMA GrantIsNoFailure ==
    ASSUME TableInv, ~Full, NEW b, b.use # 0, NEW op, Grant(op, FirstFree, b)
    PROVE  FreeBlocks' /\ last'.ret # -1
<1> USE TableAssumption
<1>1. FirstFree \in Nat
  BY FirstFreeIsFree DEF Fds
<1>2. last'.ret # -1
  BY <1>1 DEF Grant, Result
<1>3. FreeBlocks'
  BY OneBlock DEF TableInv, SlotsInv, TypeOK, Grant
<1>4. QED
  BY <1>2, <1>3

\* What each call does to the table, and what it returns.
LEMMA FailureNext ==
    TableInv /\ [Next]_vars => FreeBlocks' /\ (last'.ret = -1 => fcb' = fcb)
<1> DEFINE Fine == FreeBlocks' /\ (last'.ret = -1 => fcb' = fcb)
<1> SUFFICES ASSUME TableInv, [Next]_vars PROVE Fine
  OBVIOUS
<1> USE TableAssumption
<1>0. FreeBlocks /\ fcb \in [Fds -> FcbType] /\ held \subseteq Fds /\ SlotsOwned
  BY DEF TableInv, SlotsInv, TypeOK
<1>same. ASSUME fcb' = fcb PROVE Fine
  BY <1>0, <1>same DEF FreeBlocks, IsFree
<1>used. \A fd \in held : fd \in Fds /\ fcb[fd] \in FcbType /\ fcb[fd].use # 0
  BY <1>0 DEF SlotsOwned, IsFree
<1>1. CASE OpenFull
  BY <1>1, <1>same DEF OpenFull
<1>2. ASSUME NEW d \in Devices, OpenDevice(d) PROVE Fine
  <2>1. DeviceFcb(d).use # 0
    BY DEF TableAssumption, DeviceFcb, FreeFcb
  <2>2. QED
    BY <1>2, <2>1, GrantIsNoFailure DEF OpenDevice
<1>3. ASSUME NEW f \in File, OpenMissing(f) PROVE Fine
  BY <1>3, BackAgain, <1>same DEF OpenMissing
<1>4. ASSUME NEW f \in File, NEW mode \in Modes, OpenFile(f, mode) PROVE Fine
  <2> DEFINE b == [use |-> mode, file |-> f, rwp |-> 0, fsize |-> SizeOf(dir[f])]
  <2>1. b.use # 0
    BY DEF Modes, U_READ, U_WRITE, U_RDWR
  <2>2. ~Full /\ Grant("open", FirstFree, b)
    BY <1>4 DEF OpenFile
  <2> HIDE DEF b
  <2>3. QED
    BY <2>1, <2>2, GrantIsNoFailure
<1>5. ASSUME NEW f \in File, CreatFile(f) PROVE Fine
  <2> DEFINE b == [use |-> U_WRITE, file |-> f, rwp |-> 0, fsize |-> 0]
  <2>1. b.use # 0
    BY DEF U_WRITE
  <2>2. ~Full /\ Grant("creat", FirstFree, b)
    BY <1>5 DEF CreatFile
  <2> HIDE DEF b
  <2>3. QED
    BY <2>1, <2>2, GrantIsNoFailure
<1>6. ASSUME NEW f \in File, CreatFails(f) PROVE Fine
  BY <1>6, BackAgain, <1>same DEF CreatFails
<1>7. ASSUME NEW fd \in held, NEW n \in 0 .. MaxIO, WriteFile(fd, n) PROVE Fine
  <2>1. PICK k \in Stops(fcb[fd].rwp, n) :
          /\ fcb' = [fcb EXCEPT ![fd].rwp = fcb[fd].rwp + k,
                                ![fd].fsize = IF k = 0 THEN @ ELSE Larger(@, fcb[fd].rwp + k)]
          /\ last' = Result("write", n, k)
    BY <1>7 DEF WriteFile
  <2> DEFINE b == [fcb[fd] EXCEPT !.rwp = fcb[fd].rwp + k,
                                  !.fsize = IF k = 0 THEN @ ELSE Larger(@, fcb[fd].rwp + k)]
  <2>2. fcb' = [fcb EXCEPT ![fd] = b] /\ b.use # 0
    BY <1>0, <1>used, <2>1 DEF FcbType
  <2> HIDE DEF b
  <2>3. FreeBlocks'
    BY <1>0, <2>2, OneBlock
  <2>4. last'.ret # -1
    BY <2>1 DEF Stops, Result, TableAssumption
  <2>5. QED
    BY <2>3, <2>4
<1>8. ASSUME NEW fd \in held, NEW n \in 0 .. MaxIO, ReadFile(fd, n) PROVE Fine
  <2> DEFINE most == IF Allowed(fcb[fd], n) < Readable(fcb[fd])
                     THEN Allowed(fcb[fd], n) ELSE Readable(fcb[fd])
  <2>1. PICK k \in Stops(fcb[fd].rwp, most) :
          fcb' = [fcb EXCEPT ![fd].rwp = @ + k] /\ last' = Result("read", n, k)
    BY <1>8 DEF ReadFile
  <2> HIDE DEF most
  <2> DEFINE b == [fcb[fd] EXCEPT !.rwp = @ + k]
  <2>2. fcb' = [fcb EXCEPT ![fd] = b] /\ b.use # 0
    BY <1>0, <1>used, <2>1 DEF FcbType
  <2> HIDE DEF b
  <2>3. FreeBlocks'
    BY <1>0, <2>2, OneBlock
  <2>4. last'.ret # -1
    BY <2>1 DEF Stops, Result
  <2>5. QED
    BY <2>3, <2>4
<1>9. ASSUME NEW fd \in held, NEW n \in 0 .. MaxIO, WriteDevice(fd, n) PROVE Fine
  BY <1>9, <1>same DEF WriteDevice
<1>10. ASSUME NEW fd \in held, NEW n \in 0 .. MaxIO, ReadDevice(fd, n) PROVE Fine
  BY <1>10, <1>same DEF ReadDevice
<1>11. ASSUME NEW fd \in held, NEW offs \in -MaxIO .. MaxPos, NEW whence \in 0 .. 2,
              Lseek(fd, offs, whence)
       PROVE  Fine
  <2> DEFINE pos == Base(fcb[fd], whence) + offs
             b   == [fcb[fd] EXCEPT !.rwp = pos]
  <2>1. CASE pos >= 0
    <3>1. fcb' = [fcb EXCEPT ![fd].rwp = pos] /\ last' = Result("lseek", pos, pos)
      BY <1>11, <2>1 DEF Lseek
    <3>2. fcb' = [fcb EXCEPT ![fd] = b] /\ b.use # 0
      BY <1>0, <1>used, <3>1 DEF FcbType
    <3>3. last'.ret # -1
      BY <2>1, <3>1 DEF Result
    <3> HIDE DEF b
    <3>4. QED
      BY <1>0, <3>2, <3>3, OneBlock
  <2>2. CASE ~(pos >= 0)
    BY <1>11, <2>2, <1>same DEF Lseek
  <2>3. QED
    BY <2>1, <2>2
<1>12. ASSUME NEW fd \in held, Dup(fd) PROVE Fine
  <2>1. CASE IsFree(fd) \/ Full
    BY <1>12, <2>1, <1>same DEF Dup
  <2>2. CASE ~(IsFree(fd) \/ Full)
    BY <1>12, <2>2, <1>used, GrantIsNoFailure DEF Dup
  <2>3. QED
    BY <2>1, <2>2
<1>13. ASSUME NEW fd \in held, Close(fd) PROVE Fine
  <2>1. fcb' = [fcb EXCEPT ![fd] = FreeFcb]
    BY <1>13 DEF Close
  <2>2. last'.ret # -1
    BY <1>13 DEF Close, Result
  <2>3. QED
    BY <1>0, <2>1, <2>2, OneBlock
<1>14. ASSUME NEW f \in File, Unlink(f) PROVE Fine
  BY <1>14, <1>same DEF Unlink
<1>15. ASSUME NEW f \in File, NEW g \in File, Rename(f, g) PROVE Fine
  BY <1>15, <1>same DEF Rename
<1>16. ASSUME NEW f \in File, RenameDevice(f) PROVE Fine
  BY <1>16, <1>same DEF RenameDevice
<1>17. ASSUME NEW f \in File, Stat(f) PROVE Fine
  BY <1>17, <1>same DEF Stat
<1>18. ASSUME NEW f \in File, NEW ro \in BOOLEAN, Chmod(f, ro) PROVE Fine
  BY <1>18, <1>same DEF Chmod
<1>19. ASSUME NEW u \in Users, Setuid(u) PROVE Fine
  BY <1>19, <1>same DEF Setuid
<1>20. CASE Exit
  <2>1. \A fd \in Fds : StartTable[fd].use = 0 => StartTable[fd] = FreeFcb
    BY DEF StartTable, DeviceFcb, FreeFcb, U_CON
  <2>2. FreeBlocks'
    BY <1>20, <2>1 DEF Exit, FreeBlocks, IsFree
  <2>3. last'.ret # -1
    BY <1>20 DEF Exit, Result
  <2>4. QED
    BY <2>2, <2>3
<1>21. CASE UNCHANGED vars
  BY <1>21, <1>same DEF vars
<1>22. CASE UnlinkDevice
  BY <1>22, <1>same DEF UnlinkDevice
<1>23. CASE StatDevice
  BY <1>23, <1>same DEF StatDevice
<1> HIDE DEF Fine
<1>24. QED
  BY <1>1, <1>2, <1>3, <1>4, <1>5, <1>6, <1>7, <1>8, <1>9, <1>10, <1>11, <1>12,
     <1>13, <1>14, <1>15, <1>16, <1>17, <1>18, <1>19, <1>20, <1>21, <1>22, <1>23
     DEF Next, File

\* Every variable keeps its type: no position, size or extent leaves its range,
\* whatever is opened, sought, written, shared or refused.
THEOREM Typing == Spec => []TypeOK
<1>1. TypeOK /\ SlotsOwned => TypeOK
  OBVIOUS
<1>2. QED
  BY <1>1, SlotAccounting, PTL

(***************************************************************************)
(* A call that returns -1 leaves every slot as it was: getfcb() has        *)
(* reserved one by then, which every such exit gives back.                 *)
(***************************************************************************)
THEOREM FailuresAreClean == Spec => FailureKeepsTable
<1>1. Init => TableInv
  BY SlotsInit, FreeBlocksInit DEF TableInv
<1>2. TableInv /\ [Next]_vars => TableInv'
  BY SlotsNext, FailureNext DEF TableInv
<1>3. TableInv /\ [Next]_vars => [last'.ret = -1 => fcb' = fcb]_vars
  BY FailureNext
<1>4. QED
  BY <1>1, <1>2, <1>3, PTL DEF Spec, FailureKeepsTable

-----------------------------------------------------------------------------
(***************************************************************************)
(* Arithmetic of records.                                                  *)
(***************************************************************************)
LEMMA Division ==
    ASSUME TableAssumption, NEW n \in Int
    PROVE  /\ n \div SECSIZE \in Int
           /\ (n \div SECSIZE) * SECSIZE + (n % SECSIZE) = n
           /\ n % SECSIZE \in 0 .. SECSIZE - 1
BY DEF TableAssumption

LEMMA RecordsUnique ==
    ASSUME TableAssumption, NEW r \in Int, NEW q \in Int, NEW n \in Int,
           r * SECSIZE - SECSIZE < n, n <= r * SECSIZE,
           q * SECSIZE - SECSIZE < n, n <= q * SECSIZE
    PROVE  r = q
<1> DEFINE S == SECSIZE
<1>0. S \in Nat \ {0}
  BY DEF TableAssumption
<1>1. ASSUME q < r PROVE FALSE
  <2>1. (r - (q + 1)) * S >= 0
    BY <1>0, <1>1
  <2>2. r * S - (q * S + S) >= 0
    BY <1>0, <2>1
  <2>3. QED
    BY <1>0, <2>2
<1>2. ASSUME r < q PROVE FALSE
  <2>1. (q - (r + 1)) * S >= 0
    BY <1>0, <1>2
  <2>2. q * S - (r * S + S) >= 0
    BY <1>0, <2>1
  <2>3. QED
    BY <1>0, <2>2
<1>3. QED
  BY <1>1, <1>2

\* Records(n) is the number of records that n bytes fill, the last in part.
LEMMA RecordsBounds ==
    ASSUME TableAssumption, NEW n \in Int
    PROVE  /\ Records(n) \in Int
           /\ Records(n) * SECSIZE - SECSIZE < n
           /\ n <= Records(n) * SECSIZE
<1> DEFINE m == n + SECSIZE - 1
<1>1. m \in Int /\ SECSIZE \in Nat \ {0}
  BY DEF TableAssumption
<1>2. /\ m \div SECSIZE \in Int
      /\ (m \div SECSIZE) * SECSIZE + (m % SECSIZE) = m
      /\ m % SECSIZE \in 0 .. SECSIZE - 1
  BY <1>1, Division
<1>3. Records(n) = m \div SECSIZE
  BY DEF Records
<1> DEFINE q == m \div SECSIZE
           p == q * SECSIZE
<1>4. p \in Int
  BY <1>1, <1>2
<1>5. p - SECSIZE < n /\ n <= p
  <2> HIDE DEF q, p
  <2>1. p + (m % SECSIZE) = n + SECSIZE - 1
    BY <1>2 DEF p, q
  <2>2. m % SECSIZE \in Int /\ 0 <= m % SECSIZE /\ m % SECSIZE <= SECSIZE - 1
    BY <1>1, <1>2
  <2>3. QED
    BY <1>1, <1>4, <2>1, <2>2
<1>6. QED
  BY <1>2, <1>3, <1>5

LEMMA RecordsOf ==
    ASSUME TableAssumption, NEW n \in Int, NEW r \in Int,
           r * SECSIZE - SECSIZE < n, n <= r * SECSIZE
    PROVE  Records(n) = r
<1>1. /\ Records(n) \in Int
      /\ Records(n) * SECSIZE - SECSIZE < n
      /\ n <= Records(n) * SECSIZE
  BY RecordsBounds
<1>2. QED
  BY <1>1, RecordsUnique

LEMMA RecordsZero == TableAssumption => Records(0) = 0
BY RecordsOf DEF TableAssumption

LEMMA RecordsMonotone ==
    ASSUME TableAssumption, NEW m \in Int, NEW n \in Int, m <= n
    PROVE  Records(m) <= Records(n)
<1> DEFINE r == Records(m)
           q == Records(n)
           S == SECSIZE
<1>1. /\ r \in Int /\ q \in Int /\ S \in Nat \ {0}
      /\ r * S - S < m /\ n <= q * S
  BY RecordsBounds DEF TableAssumption
<1>2. ASSUME q < r PROVE FALSE
  <2> HIDE DEF r, q, S
  <2>1. (r - (q + 1)) * S >= 0
    BY <1>1, <1>2
  <2>2. r * S - (q * S + S) >= 0
    BY <1>1, <2>1
  <2>3. QED
    BY <1>1, <2>2
<1>3. QED
  BY <1>1, <1>2

LEMMA RecordsLarger ==
    ASSUME TableAssumption, NEW m \in Int, NEW n \in Int
    PROVE  Records(Larger(m, n)) = Larger(Records(m), Records(n))
<1>1. Records(m) \in Int /\ Records(n) \in Int
  BY RecordsBounds
<1>2. CASE m > n
  BY <1>1, <1>2, RecordsMonotone DEF Larger
<1>3. CASE ~(m > n)
  BY <1>1, <1>3, RecordsMonotone DEF Larger
<1>4. QED
  BY <1>2, <1>3

\* The records and the unused bytes of the last one give the size back.
LEMMA UnusedGivesSize ==
    ASSUME TableAssumption, NEW n \in Int
    PROVE  Records(n) * SECSIZE - ((-n) % SECSIZE) = n
<1> DEFINE S == SECSIZE
           u == (-n) % S
           q == (-n) \div S
<1>0. -n \in Int /\ S \in Nat \ {0}
  BY DEF TableAssumption
<1>1. /\ q \in Int /\ u \in Int
      /\ 0 <= u /\ u <= S - 1
      /\ q * S + u = -n
  <2>1. /\ (-n) \div SECSIZE \in Int
        /\ ((-n) \div SECSIZE) * SECSIZE + ((-n) % SECSIZE) = -n
        /\ (-n) % SECSIZE \in 0 .. SECSIZE - 1
    BY <1>0, Division
  <2>2. QED
    BY <1>0, <2>1
<1>2. (-q) * S = -(q * S)
  <2> HIDE DEF q, S
  <2>1. QED
    BY <1>0, <1>1
<1>3. (-q) * S = n + u
  <2> HIDE DEF q, u, S
  <2>1. QED
    BY <1>0, <1>1, <1>2
<1>4. Records(n) = -q
  <2> HIDE DEF q, u, S
  <2>1. -q \in Int /\ (-q) * S - S < n /\ n <= (-q) * S
    BY <1>0, <1>1, <1>3
  <2>2. QED
    BY <2>1, RecordsOf DEF S
<1>5. QED
  <2> HIDE DEF q, u
  <2>1. (-q) * S - u = n
    BY <1>0, <1>1, <1>3
  <2>2. QED
    BY <1>4, <2>1 DEF u
\* An entry whose unused bytes fit its last record has as many records as its
\* size needs.
LEMMA RecordsOfSize ==
    ASSUME TableAssumption, NEW e \in Entries
    PROVE  Records(SizeOf(e)) = e.recs
<1>1. e.recs \in Int /\ e.lrbc \in Int /\ 0 <= e.lrbc /\ e.lrbc <= SECSIZE - 1
      /\ SECSIZE \in Nat \ {0}
  BY DEF Entries, TableAssumption
<1>2. e.recs * SECSIZE \in Int
  BY <1>1
<1>3. e.recs * SECSIZE - SECSIZE < SizeOf(e) /\ SizeOf(e) <= e.recs * SECSIZE
  BY <1>1, <1>2 DEF SizeOf
<1>4. SizeOf(e) \in Int
  BY SizeOfType
<1>5. QED
  BY <1>1, <1>3, <1>4, RecordsOf

\* What close() records for a block whose size is the file's.
LEMMA StampRecords ==
    ASSUME TableAssumption, EXACT # "D", NEW e \in Entries, NEW b \in FcbType,
           NEW n \in Int, e.recs = Records(n),
           EXACT = "C" => e.lrbc = 0, EXACT # "C" => b.fsize = n
    PROVE  SizeOf(Stamp(e, b)) = Recorded(n) /\ Stamp(e, b).recs = e.recs
           /\ (EXACT = "C" => Stamp(e, b).lrbc = 0)
<1>1. CASE EXACT = "C"
  BY <1>1, RecordsBounds DEF Stamp, SizeOf, Recorded, TableAssumption
<1>2. CASE EXACT # "C"
  <2>1. EXACT = "I"
    BY <1>2 DEF TableAssumption
  <2>2. Stamp(e, b) = [e EXCEPT !.lrbc = (-n) % SECSIZE]
    BY <1>2, <2>1 DEF Stamp, LastBytes
  <2>3. Stamp(e, b).recs = e.recs /\ Stamp(e, b).lrbc = (-n) % SECSIZE
    BY <2>2 DEF Entries
  <2>4. QED
    BY <1>2, <2>3, UnusedGivesSize DEF SizeOf, Recorded
<1>3. QED
  BY <1>1, <1>2

-----------------------------------------------------------------------------
(***************************************************************************)
(* Sizes are kept by a program that shares no files, on a BDOS that does   *)
(* not fail, unless _exact is 'D'.  The invariant is split file by file:   *)
(* FileOK(f) is what SizeInv says of f, TableOK what it says of the blocks.*)
(***************************************************************************)
FileOK(f) ==
    /\ EntryCountsRecords(f)
    /\ \A fd \in Writers(f) :
        /\ dir[f] # Absent
        /\ Records(fcb[fd].fsize) = dir[f].recs
        /\ EXACT # "C" => fcb[fd].fsize = length[f]
    /\ dir[f] # Absent /\ Writers(f) = {} => SizeOf(dir[f]) = Recorded(length[f])

TableOK == (\A fd \in Fds : BlockNamesFile(fd)) /\ OneDescriptorPerFile

LEMMA SizeInvSplit == SizeInv <=> TableOK /\ \A f \in File : FileOK(f)
BY DEF SizeInv, TableOK, FileOK, WriterMatchesDirectory, SizeKept

LEMMA SizeInvJoin == TableOK' /\ (\A f \in File : FileOK(f)') => SizeInv'
BY DEF SizeInv, TableOK, FileOK, WriterMatchesDirectory, SizeKept

\* A file whose entry, length and writers do not change stays as it should be.
LEMMA FileFrame ==
    ASSUME NEW f \in File, FileOK(f),
           dir'[f] = dir[f], length'[f] = length[f], Writers(f)' = Writers(f),
           \A fd \in Writers(f) : fcb'[fd].fsize = fcb[fd].fsize
    PROVE  FileOK(f)'
BY DEF FileOK, EntryCountsRecords

\* So do all files when the blocks in use for a file keep use, name and size.
LEMMA TableFrame ==
    ASSUME SlotsInv, SizeInv, dir' = dir, length' = length,
           \A fd \in Fds :
              /\ fcb'[fd].file = fcb[fd].file
              /\ \/ fcb'[fd].use = fcb[fd].use /\ fcb'[fd].fsize = fcb[fd].fsize
                 \/ fcb'[fd].use \notin Modes /\ fcb[fd].use \notin Modes
    PROVE  SizeInv'
<1>1. TableOK /\ \A f \in File : FileOK(f)
  BY SizeInvSplit
<1>2. TableOK'
  BY <1>1 DEF TableOK, BlockNamesFile, OneDescriptorPerFile
<1>3. ASSUME NEW f \in File PROVE FileOK(f)'
  <2>1. Writers(f)' = Writers(f)
    BY DEF Writers, Modes, U_READ, U_WRITE, U_RDWR
  <2>2. \A fd \in Writers(f) : fcb'[fd].fsize = fcb[fd].fsize
    BY DEF Writers, Modes, U_READ, U_WRITE, U_RDWR
  <2>3. QED
    BY <1>1, <2>1, <2>2, FileFrame
<1>4. QED
  BY <1>2, <1>3, SizeInvJoin

\* A free slot names no file and writes none.
LEMMA FreeBlock ==
    ASSUME SlotsInv, SizeInv, ~Full
    PROVE  /\ FirstFree \in Fds /\ fcb[FirstFree].use = 0
           /\ fcb[FirstFree].file = NoFile
<1>1. FirstFree \in Fds /\ fcb[FirstFree].use = 0
  BY TableAssumption, FirstFreeIsFree DEF IsFree
<1>2. QED
  BY <1>1 DEF SizeInv, BlockNamesFile, Modes, U_READ, U_WRITE, U_RDWR

\* A slot filled without a file leaves every file alone.
LEMMA NoFileFrame ==
    ASSUME SlotsInv, SizeInv, ~Full, dir' = dir, length' = length,
           NEW b \in FcbType, b.file = NoFile, b.use \notin Modes,
           fcb' = [fcb EXCEPT ![FirstFree] = b]
    PROVE  SizeInv'
<1>1. fcb \in [Fds -> FcbType]
  BY DEF SlotsInv, TypeOK
<1>2. \A fd \in Fds :
         /\ fcb'[fd].file = fcb[fd].file
         /\ \/ fcb'[fd].use = fcb[fd].use /\ fcb'[fd].fsize = fcb[fd].fsize
            \/ fcb'[fd].use \notin Modes /\ fcb[fd].use \notin Modes
  BY <1>1, FreeBlock DEF Modes, U_READ, U_WRITE, U_RDWR
<1>3. QED
  BY <1>2, TableFrame

\* A slot filled with a file nobody has open.
LEMMA NewBlock ==
    ASSUME SlotsInv, SizeInv, ~Full, NEW f \in File, OpenOn(f) = {},
           NEW b \in FcbType, b.file = f, b.use \in Modes,
           fcb' = [fcb EXCEPT ![FirstFree] = b],
           dir'[f] # Absent,
           \A g \in File \ {f} : dir'[g] = dir[g] /\ length'[g] = length[g]
    PROVE  /\ TableOK'
           /\ \A g \in File \ {f} : FileOK(g)'
           /\ Writers(f)' = IF b.use = U_READ THEN {} ELSE {FirstFree}
           /\ Writers(f) = {}
<1>1. fcb \in [Fds -> FcbType]
  BY DEF SlotsInv, TypeOK
<1>2. /\ FirstFree \in Fds /\ fcb[FirstFree].use = 0
      /\ fcb[FirstFree].file = NoFile
  BY FreeBlock
<1>3. \A fd \in Fds : fcb'[fd] = IF fd = FirstFree THEN b ELSE fcb[fd]
  BY <1>1, <1>2
<1>4. \A fd \in Fds : fcb[fd].file # f
  BY DEF OpenOn
<1>5. TableOK /\ \A g \in File : FileOK(g)
  BY SizeInvSplit
<1>6. TableOK'
  BY <1>3, <1>4, <1>5, NamesAssumption DEF TableOK, BlockNamesFile, OneDescriptorPerFile
<1>7. ASSUME NEW g \in File \ {f} PROVE FileOK(g)'
  <2>1. Writers(g)' = Writers(g)
    BY <1>2, <1>3 DEF Writers, U_WRITE, U_RDWR
  <2>2. FirstFree \notin Writers(g)
    BY <1>2 DEF Writers, U_WRITE, U_RDWR
  <2>3. \A fd \in Writers(g) : fcb'[fd].fsize = fcb[fd].fsize
    BY <1>3, <2>2 DEF Writers
  <2>4. QED
    BY <1>5, <2>1, <2>3, FileFrame
<1>8. Writers(f) = {}
  BY <1>4 DEF Writers
<1>9. Writers(f)' = IF b.use = U_READ THEN {} ELSE {FirstFree}
  BY <1>2, <1>3, <1>4 DEF Writers, Modes, U_READ, U_WRITE, U_RDWR
<1>10. QED
  BY <1>6, <1>7, <1>8, <1>9

LEMMA SizeInit == EXACT # "D" /\ Init => SizeInv
<1> SUFFICES ASSUME EXACT # "D", Init PROVE SizeInv
  OBVIOUS
<1> USE TableAssumption
<1>1. \A fd \in Fds : fcb[fd].file = NoFile /\ fcb[fd].use \notin Modes
  BY DEF Init, StartTable, DeviceFcb, FreeFcb, U_CON, Modes, U_READ, U_WRITE, U_RDWR
<1>2. TableOK
  BY <1>1 DEF TableOK, BlockNamesFile, OneDescriptorPerFile
<1>3. ASSUME NEW f \in File PROVE FileOK(f)
  <2>1. Writers(f) = {}
    BY <1>1 DEF Writers, Modes, U_READ, U_WRITE, U_RDWR
  <2>2. ASSUME dir[f] # Absent
        PROVE  /\ dir[f].recs = Records(length[f])
               /\ EXACT = "C" => dir[f].lrbc = 0
               /\ SizeOf(dir[f]) = Recorded(length[f])
    <3>1. dir[f] \in OldEntries /\ length[f] = SizeOf(dir[f])
      BY <2>2 DEF Init
    <3>2. dir[f] \in Entries
      BY <3>1, OldSizes
    <3>3. dir[f].recs = Records(length[f])
      BY <3>1, <3>2, RecordsOfSize
    <3>4. EXACT = "C" => dir[f].lrbc = 0
      BY <3>1 DEF OldEntries
    <3>5. SizeOf(dir[f]) = Recorded(length[f])
      <4>1. CASE EXACT = "C"
        <5>1. dir[f].recs * SECSIZE - 0 = dir[f].recs * SECSIZE
          BY <3>2 DEF Entries, TableAssumption
        <5>2. QED
          BY <3>3, <3>4, <4>1, <5>1 DEF Recorded, SizeOf
      <4>2. CASE EXACT # "C"
        BY <3>1, <4>2 DEF Recorded
      <4>3. QED
        BY <4>1, <4>2
    <3>6. QED
      BY <3>3, <3>4, <3>5
  <2>3. QED
    BY <2>1, <2>2 DEF FileOK, EntryCountsRecords
<1>4. QED
  BY <1>2, <1>3, SizeInvSplit

LEMMA SizeNext ==
    ASSUME Sharing = "none", ~IOErrors, EXACT # "D", SlotsInv, SizeInv, [Next]_vars
    PROVE  SizeInv'
<1> USE TableAssumption
<1>0. /\ fcb \in [Fds -> FcbType] /\ user \in Users
      /\ dir \in [File -> Entries \union {Absent}]
      /\ held \subseteq Fds /\ length \in [File -> Nat]
      /\ TableOK /\ \A f \in File : FileOK(f)
  BY SizeInvSplit DEF SlotsInv, TypeOK
<1>modes. \A u : u \in {U_WRITE, U_RDWR} => u \in Modes
  BY DEF Modes
<1>same. ASSUME fcb' = fcb, dir' = dir, length' = length PROVE SizeInv'
  BY <1>same, TableFrame
<1>gone. ASSUME fcb' = fcb, length' = length, NEW f \in File, OpenOn(f) = {},
                dir'[f] = Absent, \A g \in File \ {f} : dir'[g] = dir[g]
         PROVE  SizeInv'
  <2>1. Writers(f) = {} /\ Writers(f)' = {} /\ \A fd \in Fds : fcb[fd].file # f
    BY <1>gone DEF OpenOn, Writers
  <2>2. TableOK'
    BY <1>0, <1>gone, <2>1 DEF TableOK, BlockNamesFile, OneDescriptorPerFile
  <2>3. FileOK(f)'
    BY <1>gone, <2>1 DEF FileOK, EntryCountsRecords
  <2>4. ASSUME NEW g \in File \ {f} PROVE FileOK(g)'
    BY <1>0, <1>gone, FileFrame DEF Writers
  <2>5. QED
    BY <2>2, <2>3, <2>4, SizeInvJoin
<1>free. FreeFcb \in FcbType /\ FreeFcb.file = NoFile /\ FreeFcb.use \notin Modes
  BY FcbTyping DEF FreeFcb, Modes, U_READ, U_WRITE, U_RDWR
<1>1. CASE OpenFull
  BY <1>1, <1>same DEF OpenFull
<1>2. ASSUME NEW d \in Devices, OpenDevice(d) PROVE SizeInv'
  <2>1. /\ DeviceFcb(d) \in FcbType /\ DeviceFcb(d).file = NoFile
        /\ DeviceFcb(d).use \notin Modes
    BY FcbTyping DEF DeviceFcb, FreeFcb, Modes, U_READ, U_WRITE, U_RDWR
  <2>2. QED
    BY <1>2, <2>1, NoFileFrame DEF OpenDevice, Grant
<1>3. ASSUME NEW f \in File, OpenMissing(f) PROVE SizeInv'
  BY <1>3, <1>free, NoFileFrame DEF OpenMissing
<1>4. ASSUME NEW f \in File, NEW mode \in Modes, OpenFile(f, mode) PROVE SizeInv'
  <2> DEFINE b == [use |-> mode, file |-> f, rwp |-> 0, fsize |-> SizeOf(dir[f])]
  <2>0. /\ ~Full /\ dir[f] # Absent /\ OpenOn(f) = {}
        /\ fcb' = [fcb EXCEPT ![FirstFree] = b]
        /\ UNCHANGED <<user, dir, length>>
    BY <1>4 DEF OpenFile, Grant, MayTouch
  <2>1. dir[f] \in Entries
    BY <1>0, <2>0
  <2>2. b \in FcbType /\ b.file = f /\ b.use = mode /\ b.fsize = SizeOf(dir[f])
    BY <2>1, SizeOfType DEF FcbType, Modes, U_READ, U_WRITE, U_RDWR
  <2> HIDE DEF b
  <2>3. /\ TableOK'
        /\ \A g \in File \ {f} : FileOK(g)'
        /\ Writers(f)' = IF b.use = U_READ THEN {} ELSE {FirstFree}
        /\ Writers(f) = {}
    BY <2>0, <2>2, NewBlock
  <2>4. SizeOf(dir[f]) = Recorded(length[f]) /\ EntryCountsRecords(f)
    BY <1>0, <2>0, <2>3 DEF FileOK
  <2>5. fcb'[FirstFree].fsize = SizeOf(dir[f])
    BY <1>0, <2>0, <2>2, FreeBlock
  <2>6. Records(SizeOf(dir[f])) = dir[f].recs
    BY <2>1, RecordsOfSize
  <2>7. EXACT # "C" => SizeOf(dir[f]) = length[f]
    BY <2>4 DEF Recorded
  <2>8. FileOK(f)'
    BY <2>0, <2>3, <2>4, <2>5, <2>6, <2>7 DEF FileOK, EntryCountsRecords
  <2>9. QED
    BY <2>3, <2>8, SizeInvJoin
<1>5. ASSUME NEW f \in File, CreatFile(f) PROVE SizeInv'
  <2> DEFINE b == [use |-> U_WRITE, file |-> f, rwp |-> 0, fsize |-> 0]
  <2>0. /\ ~Full /\ OpenOn(f) = {}
        /\ fcb' = [fcb EXCEPT ![FirstFree] = b]
        /\ dir' = [dir EXCEPT ![f] = NewEntry]
        /\ length' = [length EXCEPT ![f] = 0]
    BY <1>5 DEF CreatFile, Grant, MayTouch
  <2>1. b \in FcbType /\ b.file = f /\ b.use = U_WRITE /\ b.fsize = 0
    BY DEF FcbType, U_WRITE
  <2>2. dir'[f] = NewEntry /\ length'[f] = 0
    BY <1>0, <2>0
  <2>3. dir'[f] # Absent
    <3>1. NewEntry \in Entries
      BY DEF NewEntry, Entries, TableAssumption
    <3>2. QED
      BY <2>2, <3>1, AbsentAssumption
  <2> HIDE DEF b
  <2>4. /\ TableOK'
        /\ \A g \in File \ {f} : FileOK(g)'
        /\ Writers(f)' = IF b.use = U_READ THEN {} ELSE {FirstFree}
    BY <1>0, <2>0, <2>1, <2>3, <1>modes, NewBlock
  <2>5. fcb'[FirstFree].fsize = 0 /\ Writers(f)' = {FirstFree}
    BY <1>0, <2>0, <2>1, <2>4, FreeBlock DEF U_WRITE, U_READ
  <2>6. FileOK(f)'
    BY <2>2, <2>3, <2>5, RecordsZero DEF FileOK, EntryCountsRecords, NewEntry
  <2>7. QED
    BY <2>4, <2>6, SizeInvJoin
<1>6. ASSUME NEW f \in File, CreatFails(f) PROVE SizeInv'
  <2>1. OpenOn(f) = {} /\ ~Full /\ length' = length
        /\ fcb' = [fcb EXCEPT ![FirstFree] = FreeFcb] /\ dir' = dir
    BY <1>6 DEF CreatFails, MayTouch
  <2>2. QED
    BY <2>1, <1>free, NoFileFrame
<1>7. ASSUME NEW fd \in held, NEW n \in 0 .. MaxIO, WriteFile(fd, n) PROVE SizeInv'
  <2> DEFINE fc == fcb[fd]
  <2>0. /\ fd \in Fds /\ fc \in FcbType /\ n \in Nat
        /\ fc.use \in {U_WRITE, U_RDWR}
    BY <1>0, <1>7 DEF WriteFile, TableAssumption
  <2>1. PICK f \in File : f = fc.file /\ dir[f] # Absent /\ fd \in Writers(f)
    BY <1>0, <1>modes, <2>0 DEF TableOK, BlockNamesFile, Writers
  <2>2. dir[f] \in Entries
    BY <1>0, <2>1
  <2>3. Writers(f) = {fd} /\ \A e \in Fds : fcb[e].file = f => e = fd
    BY <1>0, <2>1, NamesAssumption DEF TableOK, OneDescriptorPerFile, Writers
  <2>4. PICK k \in Stops(fc.rwp, n) :
          LET end == fc.rwp + k IN
          /\ fcb' = [fcb EXCEPT ![fd].rwp = end,
                                ![fd].fsize = IF k = 0 THEN @ ELSE Larger(@, end)]
          /\ IF k = 0 \/ dir[f] = Absent
             THEN UNCHANGED <<dir, length>>
             ELSE /\ dir' = [dir EXCEPT ![f].recs = Larger(@, Records(end))]
                  /\ length' = [length EXCEPT ![f] = Larger(@, end)]
    BY <1>7, <2>1 DEF WriteFile
  <2> DEFINE end == fc.rwp + k
             size == IF k = 0 THEN fc.fsize ELSE Larger(fc.fsize, end)
  <2>5. k \in Nat /\ end \in Nat
    BY <2>0 DEF Stops, FcbType
  <2>6. \A e \in Fds :
           /\ fcb'[e].file = fcb[e].file /\ fcb'[e].use = fcb[e].use
           /\ fcb'[e].fsize = IF e = fd THEN size ELSE fcb[e].fsize
    BY <1>0, <2>0, <2>4 DEF FcbType
  <2>7. /\ Records(fc.fsize) = dir[f].recs
        /\ Records(length[f]) = dir[f].recs
        /\ EXACT # "C" => fc.fsize = length[f]
        /\ EXACT = "C" => dir[f].lrbc = 0
    BY <1>0, <2>1 DEF FileOK, EntryCountsRecords
  <2>8. CASE k = 0
    <3>2. size = fc.fsize
      BY <2>8
    <3>3. dir' = dir /\ length' = length
      BY <2>4, <2>8
    <3>4. QED
      BY <2>6, <3>2, <3>3, TableFrame
  <2>9. CASE k # 0
    <3>1. /\ dir' = [dir EXCEPT ![f].recs = Larger(@, Records(end))]
          /\ length' = [length EXCEPT ![f] = Larger(@, end)]
          /\ size = Larger(fc.fsize, end)
      BY <2>1, <2>4, <2>9
    <3>2. /\ dir'[f] = [dir[f] EXCEPT !.recs = Larger(dir[f].recs, Records(end))]
          /\ length'[f] = Larger(length[f], end)
          /\ \A g \in File \ {f} : dir'[g] = dir[g] /\ length'[g] = length[g]
      BY <1>0, <2>1, <3>1
    <3>3. /\ dir'[f].recs = Larger(dir[f].recs, Records(end))
          /\ dir'[f].lrbc = dir[f].lrbc
      BY <2>2, <3>2 DEF Entries
    <3>4. dir'[f] # Absent
      <4>1. Larger(dir[f].recs, Records(end)) \in Nat
        BY <2>2, <2>5, RecordsBounds DEF Entries, Larger
      <4>2. dir'[f] \in Entries
        BY <2>2, <3>2, <4>1 DEF Entries
      <4>3. QED
        BY <4>2, AbsentAssumption
    <3>5. fc.fsize \in Int /\ length[f] \in Int /\ end \in Int
      BY <1>0, <2>0, <2>1, <2>5 DEF FcbType
    <3>6. Records(size) = dir'[f].recs /\ Records(length'[f]) = dir'[f].recs
      BY <2>7, <3>1, <3>2, <3>3, <3>5, RecordsLarger
    <3>7. Writers(f)' = {fd}
      BY <2>3, <2>6 DEF Writers
    <3>8. FileOK(f)'
      BY <2>0, <2>6, <2>7, <3>1, <3>2, <3>3, <3>4, <3>6, <3>7
         DEF FileOK, EntryCountsRecords
    <3>9. ASSUME NEW g \in File \ {f} PROVE FileOK(g)'
      <4>1. Writers(g)' = Writers(g) /\ fd \notin Writers(g)
        BY <2>1, <2>6, <3>9 DEF Writers
      <4>2. \A e \in Writers(g) : fcb'[e].fsize = fcb[e].fsize
        BY <2>6, <4>1 DEF Writers
      <4>3. QED
        BY <1>0, <3>2, <4>1, <4>2, FileFrame
    <3>10. TableOK'
      BY <1>0, <2>6, <3>2, <3>4 DEF TableOK, BlockNamesFile, OneDescriptorPerFile
    <3>11. QED
      BY <3>8, <3>9, <3>10, SizeInvJoin
  <2>10. QED
    BY <2>8, <2>9
<1>8. ASSUME NEW fd \in held, NEW n \in 0 .. MaxIO, ReadFile(fd, n) PROVE SizeInv'
  <2>1. PICK k : fcb' = [fcb EXCEPT ![fd].rwp = @ + k]
    BY <1>8 DEF ReadFile
  <2>2. \A e \in Fds : /\ fcb'[e].file = fcb[e].file /\ fcb'[e].use = fcb[e].use
                       /\ fcb'[e].fsize = fcb[e].fsize
    BY <1>0, <2>1 DEF FcbType
  <2>3. QED
    BY <1>8, <2>2, TableFrame DEF ReadFile
<1>9. ASSUME NEW fd \in held, NEW n \in 0 .. MaxIO, WriteDevice(fd, n) \/ ReadDevice(fd, n)
      PROVE  SizeInv'
  BY <1>9, <1>same DEF WriteDevice, ReadDevice
<1>10. ASSUME NEW fd \in held, NEW offs \in -MaxIO .. MaxPos, NEW whence \in 0 .. 2,
              Lseek(fd, offs, whence)
       PROVE  SizeInv'
  <2>1. PICK p : fcb' = fcb \/ fcb' = [fcb EXCEPT ![fd].rwp = p]
    BY <1>10 DEF Lseek
  <2>2. \A e \in Fds : /\ fcb'[e].file = fcb[e].file /\ fcb'[e].use = fcb[e].use
                       /\ fcb'[e].fsize = fcb[e].fsize
    BY <1>0, <2>1 DEF FcbType
  <2>3. QED
    BY <1>10, <2>2, TableFrame DEF Lseek
<1>11. ASSUME NEW fd \in held, Dup(fd) PROVE SizeInv'
  <2>1. CASE IsFree(fd) \/ Full
    BY <1>11, <1>same, <2>1 DEF Dup
  <2>2. CASE ~(IsFree(fd) \/ Full)
    <3>1. /\ fcb[fd].file = NoFile /\ fcb[fd] \in FcbType
          /\ fcb[fd].use \notin Modes
      BY <1>0, <1>11, NamesAssumption DEF Dup, TableOK, BlockNamesFile
    <3>2. QED
      BY <1>11, <2>2, <3>1, NoFileFrame DEF Dup, Grant
  <2>3. QED
    BY <2>1, <2>2
<1>12. ASSUME NEW fd \in held, Close(fd) PROVE SizeInv'
  <2> DEFINE fc == fcb[fd]
  <2>0. fd \in Fds /\ fc \in FcbType /\ length' = length
    BY <1>0, <1>12 DEF Close
  <2>1. \A e \in Fds : fcb'[e] = IF e = fd THEN FreeFcb ELSE fcb[e]
    BY <1>0, <1>12, <2>0 DEF Close
  <2>2. ASSUME NEW g \in File, g # fc.file, dir'[g] = dir[g] PROVE FileOK(g)'
    <3>1. g # NoFile
      BY NamesAssumption
    <3>2. Writers(g)' = Writers(g) /\ fd \notin Writers(g)
      BY <2>1, <2>2, <3>1 DEF Writers, FreeFcb
    <3>3. \A e \in Writers(g) : fcb'[e].fsize = fcb[e].fsize
      BY <2>1, <3>2 DEF Writers
    <3>4. QED
      BY <1>0, <2>0, <2>2, <3>2, <3>3, FileFrame
  <2>3. ASSUME \A g \in File : dir[g] # Absent => dir'[g] # Absent
        PROVE  TableOK'
    BY <1>0, <2>1, <2>3
       DEF TableOK, BlockNamesFile, OneDescriptorPerFile, FreeFcb, Modes, U_READ,
           U_WRITE, U_RDWR
  <2>4. CASE fc.use \notin {U_WRITE, U_RDWR}
    <3>1. dir' = dir
      BY <1>12, <2>4 DEF Close, IsWriter
    <3>2. ASSUME NEW g \in File PROVE FileOK(g)'
      <4>1. Writers(g)' = Writers(g) /\ fd \notin Writers(g)
        BY <2>1, <2>4, NamesAssumption DEF Writers, FreeFcb
      <4>2. \A e \in Writers(g) : fcb'[e].fsize = fcb[e].fsize
        BY <2>1, <4>1 DEF Writers
      <4>3. QED
        BY <1>0, <2>0, <3>1, <4>1, <4>2, FileFrame
    <3>3. QED
      BY <2>3, <3>1, <3>2, SizeInvJoin
  <2>5. CASE fc.use \in {U_WRITE, U_RDWR}
    <3>1. PICK f \in File : f = fc.file /\ dir[f] # Absent /\ fd \in Writers(f)
      BY <1>0, <1>modes, <2>0, <2>5 DEF TableOK, BlockNamesFile, Writers
    <3>2. dir[f] \in Entries
      BY <1>0, <3>1
    <3>3. \A e \in Fds : fcb[e].file = f => e = fd
      BY <1>0, <2>0, <3>1, NamesAssumption DEF TableOK, OneDescriptorPerFile
    <3>4. dir' = [dir EXCEPT ![f] = Stamp(dir[f], fc)]
      BY <1>12, <2>5, <3>1 DEF Close, IsWriter
    <3>5. /\ dir'[f] = Stamp(dir[f], fc)
          /\ \A g \in File \ {f} : dir'[g] = dir[g]
      BY <1>0, <3>1, <3>4
    <3>6. /\ dir[f].recs = Records(length[f])
          /\ EXACT = "C" => dir[f].lrbc = 0
          /\ EXACT # "C" => fc.fsize = length[f]
      BY <1>0, <3>1 DEF FileOK, EntryCountsRecords
    <3>7. /\ SizeOf(Stamp(dir[f], fc)) = Recorded(length[f])
          /\ Stamp(dir[f], fc).recs = dir[f].recs
          /\ EXACT = "C" => Stamp(dir[f], fc).lrbc = 0
      <4>1. length[f] \in Int
        BY <1>0, <3>1
      <4>2. QED
        BY <2>0, <3>2, <3>6, <4>1, StampRecords
    <3>8. Stamp(dir[f], fc) # Absent
      BY <2>0, <3>2, StampType, AbsentAssumption
    <3>9. Writers(f)' = {}
      BY <2>1, <3>1, <3>3, NamesAssumption DEF Writers, FreeFcb
    <3>10. FileOK(f)'
      BY <2>0, <3>5, <3>6, <3>7, <3>8, <3>9 DEF FileOK, EntryCountsRecords
    <3>11. TableOK'
      BY <2>3, <3>5, <3>8
    <3>12. ASSUME NEW g \in File PROVE FileOK(g)'
      <4>1. CASE g = f
        BY <3>10, <4>1
      <4>2. CASE g # f
        BY <2>2, <3>1, <3>5, <4>2
      <4>3. QED
        BY <4>1, <4>2
    <3>13. QED
      BY <3>11, <3>12, SizeInvJoin
  <2>6. QED
    BY <2>4, <2>5
<1>13. ASSUME NEW f \in File, Unlink(f) PROVE SizeInv'
  <2>1. CASE dir' = [dir EXCEPT ![f] = Absent]
    BY <1>0, <1>13, <1>gone, <2>1 DEF Unlink, MayTouch
  <2>2. CASE dir' = dir
    BY <1>13, <1>same, <2>2 DEF Unlink
  <2>3. QED
    BY <1>13, <2>1, <2>2 DEF Unlink
<1>14. ASSUME NEW f1 \in File, NEW f2 \in File, Rename(f1, f2) PROVE SizeInv'
  <2> DEFINE here1 == <<user, f1[2]>>
             here2 == <<user, f2[2]>>
             dir1  == [dir EXCEPT ![f2] = IF Deleted(f2) THEN Absent ELSE @]
             moves == dir1[here1] # Absent /\ dir1[here2] = Absent
             touched == {f2, here1, here2}
  <2>0. /\ here1 \in File /\ here2 \in File
        /\ \A g \in touched : OpenOn(g) = {}
        /\ fcb' = fcb
    BY <1>0, <1>14 DEF Rename, MayTouch, File
  <2>1. \A g \in touched : Writers(g) = {} /\ Writers(g)' = {}
    BY <2>0 DEF OpenOn, Writers
  <2>2. /\ dir1 \in [File -> Entries \union {Absent}]
        /\ \A g \in File : dir1[g] = dir[g] \/ (g = f2 /\ dir1[g] = Absent)
    BY <1>0
  <2>3. /\ moves => dir' = [dir1 EXCEPT ![here2] = dir1[here1], ![here1] = Absent]
        /\ moves => length' = [length EXCEPT ![here2] = length[here1]]
        /\ ~moves => dir' = dir1 /\ length' = length
    BY <1>14 DEF Rename
  <2> HIDE DEF dir1, here1, here2
  <2>4. moves => here1 # here2
    OBVIOUS
  <2>5. \A g \in File \ touched : dir'[g] = dir[g] /\ length'[g] = length[g]
    BY <1>0, <2>0, <2>2, <2>3
  <2>6. ASSUME NEW g \in File PROVE FileOK(g)'
    <3>1. CASE g \notin touched
      BY <1>0, <2>0, <2>5, <3>1, FileFrame DEF Writers
    <3>2. CASE g \in touched /\ dir'[g] = Absent
      BY <2>1, <3>2 DEF FileOK, EntryCountsRecords
    <3>3. CASE g \in touched /\ dir'[g] # Absent
      <4>1. CASE moves /\ g = here2
        <5>1. dir'[g] = dir[here1] /\ length'[g] = length[here1]
          BY <1>0, <2>0, <2>2, <2>3, <2>4, <4>1
        <5>2. FileOK(here1) /\ Writers(here1) = {} /\ Writers(g)' = {}
          BY <1>0, <2>0, <2>1, <3>3
        <5>3. QED
          BY <3>3, <5>1, <5>2 DEF FileOK, EntryCountsRecords
      <4>2. CASE ~(moves /\ g = here2)
        <5>1. dir'[g] = dir[g] /\ length'[g] = length[g]
          BY <1>0, <2>0, <2>2, <2>3, <2>4, <3>3, <4>2
        <5>2. QED
          BY <1>0, <2>0, <5>1, FileFrame DEF Writers
      <4>3. QED
        BY <4>1, <4>2
    <3>4. QED
      BY <3>1, <3>2, <3>3
  <2>7. TableOK'
    <3>1. \A fd \in Fds : fcb[fd].file \notin touched
      BY <2>0 DEF OpenOn
    <3> HIDE DEF touched
    <3>2. QED
      BY <1>0, <2>0, <2>5, <3>1 DEF TableOK, BlockNamesFile, OneDescriptorPerFile
  <2>8. QED
    BY <2>6, <2>7, SizeInvJoin
<1>15. ASSUME NEW f2 \in File, RenameDevice(f2) PROVE SizeInv'
  <2>1. CASE Deleted(f2)
    BY <1>0, <1>15, <1>gone, <2>1 DEF RenameDevice, MayTouch
  <2>2. CASE ~Deleted(f2)
    <3>1. dir' = dir
      BY <1>0, <1>15, <2>2 DEF RenameDevice
    <3>2. QED
      BY <1>15, <1>same, <3>1 DEF RenameDevice
  <2>3. QED
    BY <2>1, <2>2
<1>16. CASE UnlinkDevice
  BY <1>16, <1>same DEF UnlinkDevice
<1>17. ASSUME NEW u \in Users, Setuid(u) PROVE SizeInv'
  BY <1>17, <1>same DEF Setuid
<1>18. CASE Exit
  <2>1. \A fd \in Fds : fcb'[fd].file = NoFile /\ fcb'[fd].use \notin Modes
    BY <1>18 DEF Exit, StartTable, DeviceFcb, FreeFcb, U_CON, Modes, U_READ, U_WRITE,
                 U_RDWR
  <2>2. TableOK'
    BY <2>1 DEF TableOK, BlockNamesFile, OneDescriptorPerFile
  <2>3. ASSUME NEW f \in File PROVE FileOK(f)'
    <3>1. Writers(f)' = {}
      BY <2>1 DEF Writers, Modes
    <3>2. /\ length'[f] = length[f]
          /\ dir'[f] = IF dir[f] = Absent \/ Writers(f) = {} THEN dir[f]
                       ELSE Stamp(dir[f], fcb[LastWriter(f)])
      BY <1>18 DEF Exit
    <3>3. CASE dir[f] = Absent \/ Writers(f) = {}
      BY <1>0, <3>1, <3>2, <3>3 DEF FileOK, EntryCountsRecords
    <3>4. CASE dir[f] # Absent /\ Writers(f) # {}
      <4> DEFINE b == fcb[LastWriter(f)]
      <4>1. LastWriter(f) \in Writers(f)
        BY <3>4, LastWriterExists
      <4>2. /\ b \in FcbType /\ dir[f] \in Entries /\ length[f] \in Int
            /\ dir[f].recs = Records(length[f])
            /\ EXACT = "C" => dir[f].lrbc = 0
            /\ EXACT # "C" => b.fsize = length[f]
        BY <1>0, <3>4, <4>1 DEF FileOK, EntryCountsRecords, Writers
      <4> HIDE DEF b
      <4>3. /\ SizeOf(Stamp(dir[f], b)) = Recorded(length[f])
            /\ Stamp(dir[f], b).recs = dir[f].recs
            /\ EXACT = "C" => Stamp(dir[f], b).lrbc = 0
        BY <4>2, StampRecords
      <4>4. dir'[f] = Stamp(dir[f], b)
        BY <3>2, <3>4 DEF b
      <4>5. QED
        BY <3>1, <3>2, <4>2, <4>3, <4>4 DEF FileOK, EntryCountsRecords
    <3>5. QED
      BY <3>3, <3>4
  <2>4. QED
    BY <2>2, <2>3, SizeInvJoin
<1>21. ASSUME NEW f \in File, Stat(f) PROVE SizeInv'
  BY <1>21, <1>same DEF Stat
<1>22. ASSUME NEW f \in File, NEW ro \in BOOLEAN, Chmod(f, ro) PROVE SizeInv'
  <2>1. CASE dir[f] = Absent
    BY <1>22, <1>same, <2>1 DEF Chmod
  <2>2. CASE dir[f] # Absent
    <3>1. /\ dir' = [dir EXCEPT ![f].ro = ro] /\ OpenOn(f) = {}
          /\ fcb' = fcb /\ length' = length
      BY <1>22, <2>2 DEF Chmod, MayTouch
    <3>2. dir[f] \in Entries
      BY <1>0, <2>2
    <3>3. /\ dir'[f] = [dir[f] EXCEPT !.ro = ro]
          /\ \A g \in File \ {f} : dir'[g] = dir[g]
      BY <1>0, <3>1
    <3>4. /\ dir'[f] \in Entries
          /\ dir'[f].recs = dir[f].recs /\ dir'[f].lrbc = dir[f].lrbc
      BY <3>2, <3>3 DEF Entries
    <3>5. dir'[f] # Absent
      BY <3>4, AbsentAssumption
    <3>6. FileOK(f)'
      <4>1. Writers(f) = {} /\ Writers(f)' = {}
        BY <3>1 DEF OpenOn, Writers
      <4>2. FileOK(f)
        BY <1>0
      <4>3. QED
        BY <2>2, <3>1, <3>4, <3>5, <4>1, <4>2 DEF FileOK, EntryCountsRecords, SizeOf
    <3>7. ASSUME NEW g \in File \ {f} PROVE FileOK(g)'
      BY <1>0, <3>1, <3>3, FileFrame DEF Writers
    <3>8. TableOK'
      BY <1>0, <3>1, <3>3, <3>5 DEF TableOK, BlockNamesFile, OneDescriptorPerFile
    <3>9. QED
      BY <3>6, <3>7, <3>8, SizeInvJoin
  <2>3. QED
    BY <2>1, <2>2
<1>23. CASE StatDevice
  BY <1>23, <1>same DEF StatDevice
<1>19. CASE UNCHANGED vars
  BY <1>19, <1>same DEF vars
<1>20. QED
  BY <1>1, <1>2, <1>3, <1>4, <1>5, <1>6, <1>7, <1>8, <1>9, <1>10, <1>11, <1>12,
     <1>13, <1>14, <1>15, <1>16, <1>17, <1>18, <1>19, <1>21, <1>22, <1>23 DEF Next, File

(***************************************************************************)
(* For every table, record size and set of files: what a slot says of its  *)
(* file, what the directory says, and the length the program gave it agree *)
(* while the file is open.                                                 *)
(***************************************************************************)
THEOREM SizesAgree ==
    ASSUME Sharing = "none", ~IOErrors, EXACT # "D"
    PROVE  Spec => []SizeInv
<1>1. Init => SlotsInv /\ SizeInv
  BY SlotsInit, SizeInit
<1>2. SlotsInv /\ SizeInv /\ [Next]_vars => SlotsInv' /\ SizeInv'
  BY SlotsNext, SizeNext
<1>3. QED
  BY <1>1, <1>2, PTL DEF Spec

(***************************************************************************)
(* A file that is not open for writing is recorded with the length the     *)
(* program gave it, so opening it again finds every byte of it and no more *)
(* (to the record, without exact sizes).                                   *)
(***************************************************************************)
THEOREM SizesAreKept ==
    ASSUME Sharing = "none", ~IOErrors, EXACT # "D"
    PROVE  Spec => []SizeKept
<1>1. SizeInv => SizeKept
  BY DEF SizeInv
<1>2. QED
  BY <1>1, SizesAgree, PTL
=============================================================================
