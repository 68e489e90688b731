------------------------------ MODULE FcbTable ------------------------------
(***************************************************************************)
(* The file-descriptor layer of the C library: the table _fcb of CP/M file *)
(* control blocks and the calls open, creat, read, write, lseek, dup,      *)
(* close, unlink, rename, stat, chmod and exit over it.  A descriptor is   *)
(* an index into the table.  Bytes are not represented here, only          *)
(* positions and sizes: what matters is which slot is whose, what is       *)
(* recorded in the directory and what the caller is told.                  *)
(*                                                                         *)
(* The BDOS and its directory are external: they are modelled by what the  *)
(* code asks of them.  A directory entry counts whole records and keeps    *)
(* the "last record byte count" exactly as close() handed it over.  The    *)
(* BDOS is that of CP/M 3, which reports extended errors and does not make *)
(* a file twice.                                                           *)
(***************************************************************************)
EXTENDS Integers, FiniteSets

CONSTANTS
    MAXFILE,    \* slots of the table (8 in the code)
    SECSIZE,    \* bytes per record (128 in the code)
    EXACT,      \* _exact: "C" not recorded, "D" bytes used, "I" bytes unused
    Users,      \* user areas; setuid() switches between them
    Names,      \* file names
    Devices,    \* the devices the program opens, by their value of `use`
    Absent,     \* the directory has no such entry
    NoFile,     \* the name of an FCB that stands for no file
    Sharing,    \* which files may have several descriptors at a time:
                \* "none", those a dup() gave one more ("dup"), or "any"
    IOErrors,   \* TRUE: a BDOS call on an existing file may fail
    MaxPos,     \* bound: positions and sizes, in bytes
    MaxIO       \* bound: bytes asked of one read() or write()

ASSUME TableAssumption ==
    /\ MAXFILE \in Nat /\ MAXFILE >= 3
    /\ SECSIZE \in Nat \ {0}
    /\ EXACT \in {"C", "D", "I"}
    /\ Users \subseteq Nat /\ 0 \in Users
    /\ Devices \subseteq 4 .. 9
    /\ Sharing \in {"none", "dup", "any"} /\ IOErrors \in BOOLEAN
    /\ MaxPos \in Nat /\ MaxIO \in Nat

File == Users \X Names

ASSUME NamesAssumption == NoFile \notin File

U_READ  == 1
U_WRITE == 2
U_RDWR  == 3
U_CON   == 4     \* the devices
U_RDR   == 5
U_PUN   == 6
U_LST   == 7
U_RSX   == 8
U_ERR   == 9
Modes   == {U_READ, U_WRITE, U_RDWR}

Fds == 0 .. MAXFILE - 1

VARIABLES
    fcb,     \* _fcb: per descriptor [use, file, rwp, fsize]
    user,    \* the BDOS's current user number
    dir,     \* external: the directory, per file Absent or [recs, lrbc, ro]
    held,    \* ghost: the descriptors the program has been given
    length,  \* ghost: per file, one past the last byte the program wrote
    last     \* ghost: the last call, what it returned and what it promises

vars == <<fcb, user, dir, held, length, last>>

(***************************************************************************)
(* Sizes.  The code masks with 0x7F, that is, takes the rest modulo a      *)
(* record.  Result is a call's name, what the manual says it returns       *)
(* (`want`), and what it returned (`ret`).                                 *)
(***************************************************************************)
Larger(a, b) == IF a > b THEN a ELSE b
Records(n)   == (n + SECSIZE - 1) \div SECSIZE
LastBytesUnmasked(n) == SECSIZE - (n % SECSIZE)            \* mutant: no "& 0x7F"
LastBytesUsed(n)     == n % SECSIZE                        \* mutant: the other convention
LastBytes(n) == IF EXACT = "D" THEN n % SECSIZE ELSE (-n) % SECSIZE
Recorded(n)  == IF EXACT = "C" THEN Records(n) * SECSIZE ELSE n   \* a size as it should be told
SizeOfRecords(e) == e.recs * SECSIZE                       \* mutant: the old BDOS's size
SizeOf(e)    == e.recs * SECSIZE - e.lrbc          \* what _fsize() computes

Result(op, want, ret) == [op |-> op, want |-> want, ret |-> ret]

\* A free slot's other fields are dead: getfcb(), setfcb() and their callers
\* write each of them before it is read again, so they are not kept.
FreeFcb      == [use |-> 0, file |-> NoFile, rwp |-> 0, fsize |-> 0]
DeviceFcb(d) == [FreeFcb EXCEPT !.use = d]

IsFree(fd)   == fcb[fd].use = 0
Full         == \A fd \in Fds : ~IsFree(fd)
FirstFree    == CHOOSE fd \in Fds : IsFree(fd) /\ \A e \in 0 .. fd - 1 : ~IsFree(e)

Writers(f)   == {fd \in Fds : fcb[fd].file = f /\ fcb[fd].use \in {U_WRITE, U_RDWR}}
OpenOn(f)    == {fd \in Fds : fcb[fd].file = f}

\* A program that does not share files has one descriptor per file at a time.
MayTouch(f)  == Sharing = "any" \/ OpenOn(f) = {}

-----------------------------------------------------------------------------
Entries == [recs : Nat, lrbc : 0 .. SECSIZE - 1, ro : BOOLEAN]

ASSUME AbsentAssumption == Absent \notin Entries

\* Entries a directory can hold before the program starts.
OldEntries ==
    {e \in [recs : 0 .. MaxPos \div SECSIZE, lrbc : 0 .. SECSIZE - 1, ro : BOOLEAN] :
        (e.recs = 0 \/ EXACT = "C") => e.lrbc = 0}

\* The static initialisation of _fcb: stdin, stdout and stderr.
StartTable == [fd \in Fds |-> IF fd < 3 THEN DeviceFcb(U_CON) ELSE FreeFcb]

Init ==
    /\ fcb = StartTable
    /\ user = 0
    /\ dir \in [File -> OldEntries \union {Absent}]
    /\ held = 0 .. 2
    /\ length = [f \in File |-> IF dir[f] = Absent THEN 0 ELSE SizeOf(dir[f])]
    /\ last = Result("start", 0, 0)

-----------------------------------------------------------------------------
(***************************************************************************)
(* open() reserves the first free slot, then fills it or gives it back.    *)
(***************************************************************************)
OpenFull ==
    /\ Full
    /\ last' = Result("open", -1, -1)
    /\ UNCHANGED <<fcb, user, dir, held, length>>

Grant(op, fd, block) ==
    /\ fcb' = [fcb EXCEPT ![fd] = block]
    /\ held' = held \union {fd}
    /\ last' = Result(op, fd, fd)

OpenDevice(d) ==
    /\ ~Full
    /\ Grant("open", FirstFree, DeviceFcb(d))
    /\ UNCHANGED <<user, dir, length>>

OpenMissingKeepsSlot(f) ==    \* mutant: no putfcb() on the way out
    /\ ~Full
    /\ dir[f] = Absent \/ IOErrors
    /\ fcb' = [fcb EXCEPT ![FirstFree] = [FreeFcb EXCEPT !.use = U_READ]]
    /\ last' = Result("open", -1, -1)
    /\ UNCHANGED <<user, dir, held, length>>

OpenMissing(f) ==
    /\ ~Full
    /\ dir[f] = Absent \/ IOErrors
    /\ fcb' = [fcb EXCEPT ![FirstFree] = FreeFcb]
    /\ last' = Result("open", -1, -1)
    /\ UNCHANGED <<user, dir, held, length>>

OpenFile(f, mode) ==
    /\ ~Full
    /\ dir[f] # Absent
    /\ MayTouch(f)
    /\ Grant("open", FirstFree,
             [use |-> mode, file |-> f, rwp |-> 0, fsize |-> SizeOf(dir[f])])
    /\ UNCHANGED <<user, dir, length>>

(***************************************************************************)
(* creat() deletes any old file of the name and makes a new one.  A        *)
(* read-only file survives the delete, and the make then fails.  The test  *)
(* of creat.c:16 for -1 never succeeds: a failed delete reads 0x00FF or    *)
(* has an extended error in the high byte.                                 *)
(***************************************************************************)
ReadOnly(f) == IF dir[f] = Absent THEN FALSE ELSE dir[f].ro
Deleted(f)  == dir[f] # Absent /\ ~ReadOnly(f)

NewEntry == [recs |-> 0, lrbc |-> 0, ro |-> FALSE]

CreatFile(f) ==
    /\ ~Full
    /\ MayTouch(f)
    /\ dir[f] = Absent \/ Deleted(f)
    /\ Grant("creat", FirstFree, [use |-> U_WRITE, file |-> f, rwp |-> 0, fsize |-> 0])
    /\ dir' = [dir EXCEPT ![f] = NewEntry]
    /\ length' = [length EXCEPT ![f] = 0]
    /\ UNCHANGED user

CreatFailsKeepsSlot(f) ==     \* mutant: the exit of creat.c:16, without putfcb()
    /\ ~Full
    /\ MayTouch(f)
    /\ ReadOnly(f) /\ UNCHANGED dir
    /\ fcb' = [fcb EXCEPT ![FirstFree] = [FreeFcb EXCEPT !.use = U_WRITE]]
    /\ last' = Result("creat", -1, -1)
    /\ UNCHANGED <<user, held, length>>

\* The make fails: the old file is still there, or the directory is full.
CreatFails(f) ==
    /\ ~Full
    /\ MayTouch(f)
    /\ \/ ReadOnly(f) /\ UNCHANGED dir
       \/ IOErrors /\ dir' = [dir EXCEPT ![f] = IF Deleted(f) THEN Absent ELSE @]
    /\ fcb' = [fcb EXCEPT ![FirstFree] = FreeFcb]
    /\ last' = Result("creat", -1, -1)
    /\ UNCHANGED <<user, held, length>>

-----------------------------------------------------------------------------
(***************************************************************************)
(* read() and write() move the part of each record the position asks for,  *)
(* until the count is used up or the BDOS refuses a record; so a transfer  *)
(* that stops early stops before its first record or at a record boundary. *)
(***************************************************************************)
Stops(pos, n) == {k \in 0 .. n : k = 0 \/ k = n \/ (pos + k) % SECSIZE = 0}

BadWrite(f) == IOErrors \/ dir[f] = Absent \/ ReadOnly(f)

WriteFile(fd, n) ==
    LET fc == fcb[fd]  f == fc.file  IN
    /\ fc.use \in {U_WRITE, U_RDWR}
    /\ fc.rwp + n <= MaxPos
    /\ \E k \in Stops(fc.rwp, n) :
        LET end == fc.rwp + k IN
        /\ k < n => BadWrite(f)
        /\ ReadOnly(f) => k = 0
        /\ fcb' = [fcb EXCEPT ![fd].rwp = end, ![fd].fsize = IF k = 0 THEN @ ELSE Larger(@, end)]
        /\ IF k = 0 \/ dir[f] = Absent
           THEN UNCHANGED <<dir, length>>
           ELSE /\ dir' = [dir EXCEPT ![f].recs = Larger(@, Records(end))]
                /\ length' = [length EXCEPT ![f] = Larger(@, end)]
        /\ last' = Result("write", n, k)
    /\ UNCHANGED <<user, held>>

\* read() shortens the request to the bytes left, in 16 unsigned bits.
Allowed(fc, n) ==
    IF n + fc.rwp > fc.fsize THEN (fc.fsize - fc.rwp) % 65536 ELSE n

\* Bytes from the position to the end of the last record the file has.
Readable(fc) ==
    IF dir[fc.file] = Absent THEN 0
    ELSE Larger(0, dir[fc.file].recs * SECSIZE - fc.rwp)

ReadFile(fd, n) ==
    LET fc == fcb[fd]
        most == IF Allowed(fc, n) < Readable(fc) THEN Allowed(fc, n) ELSE Readable(fc)
    IN
    /\ fc.use \in {U_READ, U_RDWR}
    /\ \E k \in Stops(fc.rwp, most) :
        /\ k < most => IOErrors
        /\ fcb' = [fcb EXCEPT ![fd].rwp = @ + k]
        /\ last' = Result("read", n, k)
    /\ UNCHANGED <<user, dir, held, length>>

\* A device takes all it is given, unless it is the reader; a file that is open
\* for reading takes nothing.
WriteDevice(fd, n) ==
    /\ \/ fcb[fd].use \in {U_CON, U_PUN, U_LST, U_RSX, U_ERR} /\ last' = Result("write", n, n)
       \/ fcb[fd].use \in {0, U_READ, U_RDR} /\ last' = Result("write", -1, -1)
    /\ UNCHANGED <<fcb, user, dir, held, length>>

\* The devices of input give up to a line; the others, and a file that is only
\* written, nothing.
ReadDevice(fd, n) ==
    /\ \/ fcb[fd].use \in {U_CON, U_RDR, U_RSX} /\ \E k \in 0 .. n : last' = Result("read", n, k)
       \/ fcb[fd].use \in {0, U_WRITE, U_PUN, U_LST, U_ERR} /\ last' = Result("read", -1, -1)
    /\ UNCHANGED <<fcb, user, dir, held, length>>

Base(fc, whence) ==
    CASE whence = 1 -> fc.rwp
      [] whence = 2 -> Larger(fc.rwp, fc.fsize)
      [] OTHER      -> 0

Lseek(fd, offs, whence) ==
    LET pos == Base(fcb[fd], whence) + offs IN
    /\ fcb[fd].file # NoFile
    /\ pos <= MaxPos
    /\ IF pos >= 0
       THEN fcb' = [fcb EXCEPT ![fd].rwp = pos] /\ last' = Result("lseek", pos, pos)
       ELSE UNCHANGED fcb /\ last' = Result("lseek", -1, -1)
    /\ UNCHANGED <<user, dir, held, length>>

\* dup() copies the whole block: the two descriptors share nothing afterwards.
Dup(fd) ==
    /\ fcb[fd].file # NoFile => Sharing # "none"
    /\ IF IsFree(fd) \/ Full
       THEN last' = Result("dup", -1, -1) /\ UNCHANGED <<fcb, held>>
       ELSE Grant("dup", FirstFree, fcb[fd])
    /\ UNCHANGED <<user, dir, length>>

-----------------------------------------------------------------------------
(***************************************************************************)
(* close() has a writer's entry record the byte count of the last record,  *)
(* unless _exact is 'C'; it ignores what the BDOS answers.                 *)
(***************************************************************************)
Stamp(e, fc) == IF EXACT = "C" THEN e ELSE [e EXCEPT !.lrbc = LastBytes(fc.fsize)]

IsWriter(fc) == fc.use \in {U_WRITE, U_RDWR}

Close(fd) ==
    LET fc == fcb[fd] IN
    /\ IF IsWriter(fc) /\ dir[fc.file] # Absent
       THEN \/ /\ dir' = [dir EXCEPT ![fc.file] = Stamp(@, fc)]
               /\ last' = Result("close", 0, 0)
            \/ IOErrors /\ UNCHANGED dir /\ last' = Result("close", -1, 0)
       ELSE /\ UNCHANGED dir
            /\ last' = Result("close", IF IsWriter(fc) THEN -1 ELSE 0, 0)
    /\ fcb' = [fcb EXCEPT ![fd] = FreeFcb]
    /\ held' = held \ {fd}
    /\ UNCHANGED <<user, length>>

\* unlink() hands back what the BDOS answered: 0..3, or 0xFF for a failure.
Unlink(f) ==
    /\ MayTouch(f)
    /\ \/ /\ Deleted(f)
          /\ dir' = [dir EXCEPT ![f] = Absent]
          /\ last' = Result("unlink", 0, 0)
       \/ /\ ~Deleted(f) \/ IOErrors
          /\ UNCHANGED dir
          /\ last' = Result("unlink", -1, 255)
    /\ UNCHANGED <<fcb, user, held, length>>

(***************************************************************************)
(* rename() first unlinks the new name, in the area its prefix names, then *)
(* renames in the current user area whatever the prefixes say; it takes    *)
(* every answer of the BDOS for a success.                                 *)
(***************************************************************************)
Rename(f1, f2) ==
    LET here1 == <<user, f1[2]>>
        here2 == <<user, f2[2]>>
        dir1  == [dir EXCEPT ![f2] = IF Deleted(f2) THEN Absent ELSE @]
        moves == dir1[here1] # Absent /\ dir1[here2] = Absent
    IN
    /\ \A f \in {f1, f2, here1, here2} : MayTouch(f)
    /\ f1 # f2
    /\ IF moves
       THEN /\ dir' = [dir1 EXCEPT ![here2] = dir1[here1], ![here1] = Absent]
            /\ length' = [length EXCEPT ![here2] = length[here1]]
       ELSE dir' = dir1 /\ UNCHANGED length
    /\ last' = Result("rename", IF moves /\ f1 = here1 /\ f2 = here2 THEN 0 ELSE -1, 0)
    /\ UNCHANGED <<fcb, user, held>>

\* A device can be neither unlinked nor renamed; the new name is gone by then.
UnlinkDevice ==
    /\ last' = Result("unlink", -1, -1)
    /\ UNCHANGED <<fcb, user, dir, held, length>>

RenameDevice(f2) ==
    /\ MayTouch(f2)
    /\ dir' = [dir EXCEPT ![f2] = IF Deleted(f2) THEN Absent ELSE @]
    /\ last' = Result("rename", -1, -1)
    /\ UNCHANGED <<fcb, user, held, length>>

\* stat() computes the size anew; if the entry is not found the second time, the
\* bytes of the last record are not told apart.
Stat(f) ==
    /\ \/ dir[f] # Absent /\ last' = Result("stat", Recorded(length[f]), SizeOf(dir[f]))
       \/ /\ dir[f] # Absent /\ IOErrors
          /\ last' = Result("stat", Recorded(length[f]), dir[f].recs * SECSIZE)
       \/ (dir[f] = Absent \/ IOErrors) /\ last' = Result("stat", -1, -1)
    /\ UNCHANGED <<fcb, user, dir, held, length>>

\* chmod() sets the attributes of a closed file and hands back what the BDOS
\* answered; the byte count of the last record is not touched.
Chmod(f, ro) ==
    /\ MayTouch(f)
    /\ \/ /\ dir[f] # Absent
          /\ dir' = [dir EXCEPT ![f].ro = ro]
          /\ last' = Result("chmod", 0, 0)
       \/ /\ dir[f] = Absent \/ IOErrors
          /\ UNCHANGED dir
          /\ last' = Result("chmod", -1, 255)
    /\ UNCHANGED <<fcb, user, held, length>>

\* Neither knows a device.
StatDevice ==
    /\ \E op \in {"stat", "chmod"} : last' = Result(op, -1, -1)
    /\ UNCHANGED <<fcb, user, dir, held, length>>

Setuid(u) ==
    /\ user' = u
    /\ last' = Result("setuid", u, u)
    /\ UNCHANGED <<fcb, dir, held, length>>

-----------------------------------------------------------------------------
(***************************************************************************)
(* exit() closes every slot from 0 up; of several writers of a file the    *)
(* one with the highest descriptor has the last word.  The next program    *)
(* then loads, with a table of its own.                                    *)
(***************************************************************************)
LastWriter(f) == CHOOSE fd \in Writers(f) : \A e \in Writers(f) : e <= fd

Exit ==
    /\ dir' = [f \in File |->
                 IF dir[f] = Absent \/ Writers(f) = {} THEN dir[f]
                 ELSE Stamp(dir[f], fcb[LastWriter(f)])]
    /\ fcb' = StartTable
    /\ held' = 0 .. 2
    /\ last' = Result("exit", 0, 0)
    /\ UNCHANGED <<user, length>>

Next ==
    \/ OpenFull
    \/ \E d \in Devices : OpenDevice(d)
    \/ \E u \in Users, n \in Names :
        \/ OpenMissing(<<u, n>>)
        \/ \E mode \in Modes : OpenFile(<<u, n>>, mode)
        \/ CreatFile(<<u, n>>)
        \/ CreatFails(<<u, n>>)
        \/ Unlink(<<u, n>>)
        \/ \E v \in Users, m \in Names : Rename(<<u, n>>, <<v, m>>)
        \/ RenameDevice(<<u, n>>)
        \/ Stat(<<u, n>>)
        \/ \E ro \in BOOLEAN : Chmod(<<u, n>>, ro)
    \/ \E fd \in held :
        \/ \E n \in 0 .. MaxIO :
              WriteFile(fd, n) \/ WriteDevice(fd, n) \/ ReadFile(fd, n) \/ ReadDevice(fd, n)
        \/ \E offs \in -MaxIO .. MaxPos, whence \in 0 .. 2 : Lseek(fd, offs, whence)
        \/ Dup(fd)
        \/ Close(fd)
    \/ UnlinkDevice
    \/ StatDevice
    \/ \E u \in Users : Setuid(u)
    \/ Exit

Spec == Init /\ [][Next]_vars

-----------------------------------------------------------------------------
(***************************************************************************)
(* Properties.                                                             *)
(***************************************************************************)

\* Every variable keeps its type; a block in use is a device's or a file's.
FcbType ==
    [use : 0 .. 9, file : File \union {NoFile},
     rwp : Nat, fsize : Int]

Calls ==
    {"start", "open", "creat", "read", "write", "lseek", "dup", "close",
     "unlink", "rename", "stat", "chmod", "setuid", "exit"}

Results == [op : Calls, want : Int, ret : Int]

TypeOK ==
    /\ fcb \in [Fds -> FcbType]
    /\ user \in Users
    /\ dir \in [File -> Entries \union {Absent}]
    /\ held \subseteq Fds
    /\ length \in [File -> Nat]
    /\ last \in Results

\* A slot is in use exactly when the program holds its descriptor: no failing
\* open(), creat() or dup() strands the slot getfcb() reserved for it, and no
\* descriptor the program holds can be given out a second time.
SlotsOwned == {fd \in Fds : ~IsFree(fd)} = held

\* A call that reports failure by -1 leaves the whole table as it was.
FailureKeepsTable == [][last'.ret = -1 => fcb' = fcb]_vars

\* While a file has a writer, the size in the writer's block and the record
\* count of the directory entry agree up to the last record, and with exact
\* sizes the block's size is the file's length.  This is what makes the byte
\* count that close() records the right one.
WriterMatchesDirectory ==
    \A f \in File : \A fd \in Writers(f) :
        /\ dir[f] # Absent
        /\ Records(fcb[fd].fsize) = dir[f].recs
        /\ EXACT # "C" => fcb[fd].fsize = length[f]

\* A file nobody has open for writing is recorded with the length the program
\* gave it, so that opening it again finds every byte and no more; without
\* exact sizes, with that length rounded up to a whole record.
SizeKept ==
    \A f \in File :
        dir[f] # Absent /\ Writers(f) = {} => SizeOf(dir[f]) = Recorded(length[f])

(***************************************************************************)
(* The inductive invariant behind SizeKept, of a program that shares no    *)
(* files: a block names a file exactly if it is in use for one, the file   *)
(* is there, it is nobody else's, and every entry counts the records its   *)
(* file needs.                                                             *)
(***************************************************************************)
BlockNamesFile(fd) ==
    IF fcb[fd].use \in Modes
    THEN fcb[fd].file \in File /\ dir[fcb[fd].file] # Absent
    ELSE fcb[fd].file = NoFile

OneDescriptorPerFile ==
    \A fd, e \in Fds : fcb[fd].file = fcb[e].file /\ fcb[fd].file # NoFile => fd = e

EntryCountsRecords(f) ==
    dir[f] # Absent =>
        /\ dir[f].recs = Records(length[f])
        /\ EXACT = "C" => dir[f].lrbc = 0

SizeInv ==
    /\ \A fd \in Fds : BlockNamesFile(fd)
    /\ OneDescriptorPerFile
    /\ \A f \in File : EntryCountsRecords(f)
    /\ WriterMatchesDirectory
    /\ SizeKept
=============================================================================
