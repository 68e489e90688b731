# A verification project for the zxcc-htc C library

The repository holds the run-time library of the HI-TECH C compiler for CP/M
(Z80), a few programs built with it, and PIPEMGR, a resident extension that
redirects console calls. This directory models the parts of it that keep
state, checks them with TLC and proves some of their properties with TLAPS.

## The system

| Component | State | Operations | What is hard | What makes it correct |
|---|---|---|---|---|
| File descriptors (`open.c` .. `cleanup.c`, `getfcb.c`) | the table `_fcb`: use, name, user area, position and size of each open file; the BDOS's current user area; behind it the disk directory | open, creat, read, write, lseek, dup, close, unlink, rename, setuid, exit | a slot is reserved before the call can fail; the size in the slot is a copy that close() writes to the directory byte by byte; two conventions for the size byte; 16-bit lengths | no slot is lost, a failed call changes nothing, a file is found again with the size it was given, the caller is told the truth |
| Heap (`malloc.c`, `calloc.c`, `sbrk.as`) | a circular chain of blocks in memory, a search pointer, the top of the arena | malloc, calloc, realloc, free, sbrk | the search rewrites the chain and may give up half-way; realloc() copies out of memory it has freed; sizes are 16 bits; stdio takes memory from sbrk() too | blocks do not overlap, contents survive, memory is refused only when there is none, malloc() returns |
| Buffered streams (`stdio.h`, `filbuf.c`, `flsbuf.c`, `fgetc.as`, `fputc.as`, `fseek.c`, `freopen.c`, ...) | per stream: pointer, count, flags, buffer; a pool of buffers | fopen, freopen, fclose, getc, putc, ungetc, fflush, fseek, ftell, setbuf, exit | one count serves reading and writing; the end of a text is found by reading; a flush can fail or be interrupted | bytes arrive once and in order, the reported position is the real one, lost bytes are reported |
| Signals and exit (`signal.c`, `exit.c`, `_exit.as`) | the handler for ^C | signal, the check in read() and write(), exit | the handler runs inside a write and may call exit() or longjmp() | exit flushes each byte once |
| PIPEMGR (`pipemgr/`) | the caught BDOS entry, input and output files with 128-byte buffers, flags | console calls, redirection calls, warm boot, removal | a program's calls are served out of files; the output of one program is the input of the next; end of file, append, boot and removal in any order | every byte of a redirected stream arrives once, and nothing else on the disk changes |
| BDOS/BIOS gates (`bdos.as`, `bios.as`) | errno, the error mode | the call itself | codes differ between CP/M 2 and 3 | an error is seen by the caller |
| Compiler driver (`ec.c`, `symtoas.c`) | lists of files, settings, a file of commands | one run | the commands are written before any of them has run; sources share temporary files | what is made is made of its own sources, whatever pass fails |
| Batch interpreter (`exec.as`) | the file of commands, the error status, what is done about errors | one command after another | a failure skips to a TRAP that the driver has put somewhere else | every source is tried; temporaries go |
| Chaining and overlays (`execl.as`, `ovrload.c`) | the overlay in memory | run, load | each overlay costs a file descriptor while it is opened | an overlay is loaded once |
| Huffman archiver (`encode.c` .. `huff.h`) | counts, tree, table of members, bit buffer | enhuff: pack; dehuff: list, extract | files are read twice and the archive's head is written three times; bits straddle bytes; single symbols, empty files | what comes out is what went in; an unfinished archive is not taken for one |
| Command line (`getargs.c`), qsort | little or none | one call | quotes, continued lines, wildcards, redirections | the words meant are the words passed |
| Time and dates (`time.c` .. `strftime.c`) | one static `struct tm`, one text buffer, `time_zone` | time, gmtime, localtime, mktime, asctime, ctime, strftime | BCD, days counted from 1 or 0, leap years in two ways, texts that just fit | every form tells the same moment |
| Conversions, arithmetic | none | pure functions | boundaries | results |

The components call one another: streams read and write through descriptors
and take their buffers from `sbrk()`, as the heap does; `exit()` flushes the
streams, then closes the descriptors; the descriptor calls test for ^C; the
BDOS they call may be PIPEMGR. The driver writes commands and is replaced by
the batch interpreter; the archiver's two programs share an archive.

## Modules

| Module | Models | State |
|---|---|---|
| `FcbTable` | descriptors and directory | `fcb` (the table), `user` (the BDOS's user area), `dir` (the directory, external); ghosts `held`, `length`, `last` |
| `FcbTableProofs` | theorems about `FcbTable` | |
| `Heap` | malloc, calloc, realloc, free over sbrk | `mem`, `allocp`, `alloct`, `allocx`, `memtop`, `call` (the malloc in progress); ghosts `held`, `chain`, `foreign`, `refused` |
| `HeapProofs` | theorems about `Heap` | |
| `ByteFile` | what a stream promises: bytes and a position | `bytes`, `pos`, `mode`, `text`, `buffered`, `eof`, `err`, `call` |
| `Stream` | one stdio stream over one file | `s` (the `_iobuf`, its buffer, the descriptor's position, the file); ghosts `call`, `may`, `put` |
| `StreamProofs`, `ByteFileProofs` | theorems about `Stream`; that it implements `ByteFile` | |
| `Pipe` | what a pipe promises: bytes in order and an end | `ByLines` (of the command), `sent`, `prev`, `taken`, `got`, `eof` |
| `Pipemgr` | PIPEMGR under the commands of a pipeline | `rsx` (its variables), `disk`, `line` (the commands), `room` (of the line that is read); ghosts `old` and those of `Pipe` |
| `PipemgrProofs` | theorems about `Pipemgr` | |
| `Driver` | the compiler driver and the batch interpreter | `set` (settings and lists), `turn` (the source that is next), `cmdfile`, `ip`, `status`, `errors`, `erract`, `disk`, `redfile`; ghosts `tried`, `before` |
| `DriverProofs`, `DriverBuilds` | theorems about `Driver`: the way through the command file and the temporary files; what is built | |
| `Getargs` | the command line, as operators | |
| `Huffman` | enhuff, then dehuff, over one archive | `argv`, `opt`, `flist`, `coding` (characters, tree, codes), `huf` (the archive), `member`, `out`, `disk`; ghosts `typed`, `twice` |
| `Calendar` | the clock and the time functions | `clock`, `time_zone`, `t`, `tim`, `text`; ghosts `stamp`, `shown`, `told` |
| `CalendarProofs` | theorems about `Calendar` | |
| `MCFcbTable`, `MCHeap`, `MCStream`, `MCPipemgr`, `MCDriver`, `MCHuffman`, `MCCalendar` | the instances for TLC | |

Names of variables, constants and operators are those of the source where it
has one. An operator whose comment begins "mutant:" is a plausible bug; it is
used by nothing in the specification.

### FcbTable

Each slot keeps `use`, `file`, `rwp` and `fsize`; a file is a pair of user
area and name (`fc_parse`). Bytes are not represented: reading and writing
matter by how far they get, which is a record boundary or the whole count
(`Stops`), because the code leaves its loop only before a record. The BDOS is
external: a directory entry counts records, keeps the last record byte count
as it was handed over, and has a read-only bit. It is the BDOS of CP/M 3. With
`IOErrors` any call on an existing file may fail. `Sharing` says whether a
file may have several descriptors: the documentation never promises that this
works, and the sizes are wrong when it is done (a `dup()` has a position and a
size of its own, and the last close has the last word).

`exit()` closes every slot, then the next program starts with its own table
over the same directory: a run therefore covers sequences of programs.

`stat()` computes the size of `_fsize()` again, from an entry that it looks up
twice; `chmod()` sets the read-only bit on which
the next open() depends.

Left out: passwords, the multi-user close of a file opened for reading (MP/M,
CCP/M), `isatty()` and `fcbname()`, which only read the table. A read() whose
position is past the end wraps its length (`Allowed`); a run for that would ask
for nothing else, and the sizes do not depend on it.
What close(), unlink() and rename() answer when the BDOS refuses is a constant
of the code (0, or 255 from the BDOS) where the manual promises -1; this is a
hazard without a run.

### Heap

Addresses count units of `sizeof(struct store)`, sizes are bytes in 16 bits.
A unit of memory holds a header or a datum of the program's, and a stale
header stays until it is overwritten: the bugs below need that. The loop of
malloc() is split into the steps `Merge`, `Take`, `Advance`, `Grow` and
`GiveUp`; between them nothing else runs. The program fills every block it is
given, so an overlap shows in `DataIntact`. `Bufallo` is the only other caller
of sbrk() in the library. `Retries = FALSE` is a program that stops allocating
once it was refused, as `xalloc()` of `ec.c` does. The stack is at rest: the
1024-byte margin of sbrk() is part of `Limit`.

Left out: the debugging build (`ASSERT`, `showall`) and realloc() of a block
already freed. The rounding of sizes near 65536 (`malloc.c:57` and `:80`) and
the product of `calloc()` wrap; the model has the 16 bits, and both runs keep
to small sizes.

### ByteFile and Stream

`ByteFile` is the promise: getc() gives the bytes in order, skipping carriage
returns and stopping at ^Z in a text; putc() writes at the position; fseek()
moves it; ftell() tells it; fclose() does not say 0 after a write that failed.
It reads the call and its result from the variable `call`, which both modules
share, so that results are compared as well as contents.

In `Stream` a library function is an operator from a stream to a stream, as
`fflush()` is called by `fclose()`, `fseek()` and `_ssize()`, and `fread()`
calls `fgetc()`. The refinement mapping (`Bytes`) lays the unwritten part of
the buffer over the file, and takes the position from `ftell()`. How far a
write gets (`Written`) is chosen as in `FcbTable`. `wild` says that control or
memory was lost: what follows is not modelled. The loops of `fgetc()` and
`fread()` are recursive functions (`TextByte`, `Fread`).

The program keeps to the manual (`may`): setbuf() directly after fopen(), one
character pushed back and that the one read last, a flush or a seek between
reading and writing. It moves to places inside the file, reads as text only
what is one (`IsText`: ^Z in the last record only), and flushes before
freopen(), which ignores errors. A ^C (`Interrupt`) comes once, in a write;
its handler exits or jumps, one that returns changes nothing.

fopen() of a text to append is outside the sound instance: its way through
`_ssize()` takes the branch of fgetc() that loses the return address
(`fgetc.as:62`).

Two conditions name the instances for which the properties are meant.
`OneDirection`: no update modes, no text to append, and no ^C behind a record
already written (`LateBreak`). `WholeFiles`: the last record byte count is not used
and the files found consist of whole records, as most files under CP/M do.
`MCStream` evaluates them for the sound instance; the violation runs are
instances without the first.

Left out: the table of eight streams and the pool of buffers, standard input,
output and error on the console, string streams, read errors.

### Pipe and Pipemgr

`Pipe` is the promise of a pipeline. In `Pipemgr` a command ends and the next
begins in one step (`Chain`), since nothing runs in between; inside a command
each BDOS call that PIPEMGR catches is a step. Its variables are one record
(`rsx`) changed together with the disk, because most of its routines are
called by several others (`bytin` by three services, `wrobuf` by two). Files
have real records: the exact size, the ^Z in the last record and the buffer
that is written too late or twice are what the properties are about. A command
knows PIPEMGR (its start-up code makes the initialising call) or does not, and
then reads through those of the caught console calls that it uses (`reads`).

The line input of BDOS 10 (`con10`) takes its bytes one by one in the code's
loop; here each is a step (`con10b`), with `room` for what the buffer still
holds. Nothing else runs between them. The byte that ends a line counts as
received, since its end is what the command is given of it.

A reader of lines drops a line feed behind a carriage return (`qbytin`), so
what was read for a command (`taken`) and what it was given (`got`) are two
things. `Pipe` has a step of its own for that (`Skip`), which it allows only
while a command runs that reads lines (`ByLines`, which is the command's
affair and no step of the pipe) and only there; everything else must be
received, once and in order. This is less than the documentation promises, see
"Where the code does otherwise". The operators of a command are a sequence, of
which the last of a kind counts.

`Orderly` is the condition of `Implements`: no command reads by BDOS 6, which
loses bytes (`Pipemgr_direct`), and none reads both lines and characters: BDOS
1 does not store its byte in `lastin`, so that a line feed is then dropped that
is not behind a carriage return.

`Usual` says what the properties suppose of the commands and of the disk, and
why:

- a command that knows PIPEMGR and stands behind a pipe redirects its output:
  the flags of an output are not reset when its command ends (line 1152), so
  that it would write to a new PIPEOUT.$$$;
- `<` stands in the first command, `>>` in the last (`oapp` outlives its
  command as well), and no file is read and written by one command;
- a file that is appended to has something in it (an empty one leaves the warm
  boot unhooked, line 475) and says where its text ends, by its byte count or
  by a ^Z that is not the first byte of its last record (lines 491-500);
- no PIPEIN.$$$ or PIPEOUT.$$$ is left from before, nor named by the user (the
  rename would fail and the old contents be read, line 1210).

The properties fail otherwise. `MCPipemgr` evaluates `Usual` for its
instances, and the theorems have it as a hypothesis. Left out: drive and user
prefixes, CON: and AUX:, console status and console modes, the calls for C
programs.

### Driver

Arguments, commands and files are abstract: a name is base and type, the
contents of a file are the names it was made from, a command is the pass with
what it reads and writes. `doit()` writes the commands in three steps (`Begin`,
one `Sources` per source, `Finish`); then the interpreter takes them one by one,
and every program may succeed, or fail leaving junk or what was there. Each
command that `ec.c` can write is one that `exec.as` runs (`Run`, `Control`,
`RemoveFile`); the others of `exec.as` are left out, and so is its question for
another disk, repeated until the program is found there. A command of more than
`LONG` words goes through the redirection file, as one of more than 124
characters does.

`Plain` says of which command lines the properties speak: the files that are
read, those that are made, those asked for besides (-S, -CR) and the temporary
ones are different files, each source has an object of its own, and no more
than one command is too long: `redname` has no number, so two long commands
share a file and the later contents win. `MCDriver` evaluates it for every line
of its instance, and the theorems have it as a hypothesis. -SR is not `Plain`:
it stops before the assembler and links all the same (`ec.c:250` falls into the
case of -C). `OwnSource` leaves .SYM sources out (a failed SYMTOAS is forgotten
at the TRAP behind it) and `Built` takes -A only where nothing failed (IF_NERR
skips one command of two): these are the code's, and listed as hazards.

### Getargs and Huffman

A character is a number, so that the names on a command line are also data of
the archive. `getargs` folds over the characters of the joined lines;
quotation is a bit of a character, as in the code. In `Huffman` a byte has
three bits, which makes codes longer than a byte, and every layout - header,
table, names, tree, members - is that of `huff.h` at that size. The files are
read twice, and a file may be gone the second time (`putfile` is then refused
and the program ends). qsort() is the code's partition, as the order of equal
keys decides which archive is written; the tree is built top down by splitting
where the sums come nearest. `dehuff` reads the bytes of the archive only.

Left out: drive and user prefixes, messages, arrays that overflow, an archive
without a single character (`bld` does not return), an archive that is a member
of itself beyond what the first pass sees, a file that changes between the
passes without going, and an archive cut off inside a member: `get_bit` then
ends the program (`cut`), which leaves a part of the file behind; `RoundTrip`
says that this never happens to what enhuff wrote.

An item of a line in `MCHuffman` is what is typed together with the words it
means, so that `WordsSurvive` has nothing of `getargs` in it; what a wildcard
means is looked up in the directory (`Expansion`). The name that a search finds
stands for itself: drive, user and the dot are put together from pieces in the
code. A word of which only a part is quoted has no wildcards. A quoted word that
begins with > or < is typed as well, with the meaning the code gives it: it is
a redirection (see below).

### Calendar

The clock of CP/M 3 is external (`Tick`). `time()` to `strftime()` are
operators, and actions that put their result where the program finds it. The
ghosts say of `t`, `tim` and `text` which reading of the clock, in which zone,
each stands for; the properties compare them with an independent calculation
of day numbers. A character is a digit, a letter of a name or a sign, so that
a text can be read back. What %x prints of two pointers are three digits each
that depend on where the linker put the names (`Address`): they are told apart
by name, and `MomentTold` reads nothing out of them.

Weeks are compared with a count of the Sundays and Mondays since 1 January
(`WeeksBegun`). In a year that begins on such a day the code counts from 0
where the function it implements counts from 1: `WeeksCount` leaves these years
out.

The instance keeps to 1978-2038 and to zones of at most 546 minutes, whose
seconds fit an int (`ctime.c:37`; `mktime.c:39` multiplies in long). `InTime`
states that of the constants, for the theorems; `MCCalendar` evaluates it.
The last clock of the instance reaches the last second a long can hold.

## Where the code does otherwise

Four runs show a disagreement between the code and its documentation and are
listed under "Runs" as violated. The following were met as well. The models
have them, the conditions of the properties leave them out, and the hazards of
`PROJECT.json` list them:

- `open.c:31`: in the 'D' mode close() records the bytes used and open()
  subtracts bytes unused, so that a file has another size when it is opened
  again. `SizeKept` is about the other modes.
- `malloc.c:57`, `:80`: a request that wraps with its header is answered by a
  block without room; one that wraps when it is rounded up to the grain of the
  arena may be searched for without end, growing the arena by nothing. `Frugal`
  leaves such sizes out.
- `malloc.c:87`: a search that gives up leaves `allocp` inside a merged block,
  and a program that goes on can be given blocks that overlap. `Frugal` leaves
  such programs out.
- `fgetc.as:62`: fopen() of a text to append reads its last record through a
  stream whose direction is output, and loses the return address.
  `OneDirection` leaves it out.
- `getargs.c:23-24` says that quotes protect > and <; line 177 strips the bit
  that says so before line 185 tests for them, so that a quoted word that
  begins with one is an operator, and the word behind it its file. `MCHuffman`
  types such words and counts them as redirections.
- `pipemgr.z80:974-988`: a reader of lines receives fewer bytes than were sent
  where `PIPEMGR.md:221-223` promises the same number; the byte behind a
  dropped line feed is not remembered, so that CR,LF,CR,LF has a blank line too
  many; and a reader of lines and characters in turn loses a line feed that is
  not behind a carriage return. `Pipe` allows the first two, `Orderly` leaves
  the third out.
- `strftime.c:194`: in a year that begins with the week's first day %U and %W
  are one lower than the ANSI function that line 5 names. `WeeksCount` leaves
  these years out.
- `strftime.c:211`: %x prints digits of two pointers where lines 101-103
  promise %a %b %d %Y. `Address` says so and no property reads them.
- `ctime.c:37`: beyond 546 minutes the zone's seconds wrap. `InTime` leaves
  such zones out.
- Of PIPEMGR's files and of $EXEC's skips, see `Usual` and `Plain` above.

## Runs

| Run | Checks | Shows |
|---|---|---|
| `FcbTable_exact` | TypeOK, SlotsOwned, SizeInv, SizeKept, FailureKeepsTable | exact sizes (ISX convention), no sharing, two files: slots and sizes are kept |
| `FcbTable_errors` | SlotsOwned, FailureKeepsTable | the same of slots with failing BDOS calls and shared files |
| `Heap_sound` | TypeOK, ChainLinked, RestIntact, RoomAsAsked, BusyIsOwned, SearchStartsInChain, GivesUpOnlyWhenFull, MallocReturns | two blocks, resizes, gaps, refusals |
| `Heap_realloc` | DataIntact, violated | realloc() loses the first unit when the new block ends at the old data |
| `Stream_sound` | TypeOK, BufferAgrees, WroteWhatWasPut, ReturnsToCaller, Implements | streams in one direction do what `ByteFile` says, also on a full disk |
| `Stream_update` | WroteWhatWasPut, violated | fseek() on an update stream misplaces what is put next |
| `Stream_interrupt` | WroteWhatWasPut, violated | ^C during a flush writes records twice |
| `Huffman` | TypeOK, WordsSurvive, FrequentFirst, WrittenOnce, AbortedIsRefused, RoundTrip | from the line typed to the files extracted |
| `Driver` | TypeOK, OwnSource, Built, TempsGone, EverySourceTried | compilations with leftovers on the disk, where any pass may fail |
| `Pipemgr` | TypeOK, OutputArrives, NothingElse, Implements | redirections and pipelines of up to three commands, the last reading by character or by line |
| `Pipemgr_direct` | InOrder, violated | direct console input (C=6) loses every other byte of the pipe |
| `Calendar` | TypeOK, TimeKept, MomentTold, Fits, WeeksCount | the clock, time_t, broken-down times and texts tell one moment |

Bounds. *FcbTable*: three slots (the least, as 0..2 are taken at start) reach
the full table as soon as one file is open, and closing the console makes room
for three files. Records of two or three bytes give every case of the masks:
empty, part, whole, and one record more. `MaxPos` and `MaxIO` bound positions
and counts so that a file spans two records. Names are symmetric. The view
leaves out the ghost `last`, which no guard reads. *Heap*: an arena of twelve
units (`Limit`) holds two blocks with gaps before, between and behind them; it
is grown, exhausted and cut up in every way two blocks allow. The sizes asked
for are such that two merged blocks are both enough and not enough. *Stream*:
buffers of two bytes and files of four (`MaxLen`, plus the filling of the last
record) make the buffer spill, refill and be positioned at both its ends; with
records of two bytes a write that starts inside a record stops in the middle
of the buffer. The characters are a plain one, LF, and through them CR and ^Z.
The view leaves out `call`, which no guard reads; the refinement is checked on
every transition. *Huffman*: two files of up to eight characters out of seven,
among them the ones a text treats specially, every pair of contents; one to
three arguments, plain, quoted, continued, redirected and wild, the wildcards
matching both files, one or none. *Driver*: up to
two sources of three kinds, every option that changes which commands are
written, disks without and with the files of an earlier run, every pass failing
or not. *Pipemgr*: records of three bytes, outputs of up to four (`MAXOUT`), so
that a record is exactly full, one short and one over; CR, LF and ^Z, the bytes
it treats specially, are the alphabet; the buffer of a line has two places, so
that a line ends in it, at its end or behind it. *Calendar*: the clock starts two seconds
before the end of days that end months, leap Februaries and years, and ticks
twice (`MaxTicks`); formats fit exactly, lack one place, or end in the middle.

Fairness. `Heap` assumes weak fairness of the steps of a search: malloc() is a
loop without waiting. `Driver` assumes weak fairness of its next step: driver,
interpreter and passes run to their ends one after the other, each pass being
taken to be on the disk and to end, with or without success. The other modules state no liveness.

The deadlock check is off where the system really stops: a program that was
refused memory and has freed everything, a stream that has lost control, a
driver, an archiver or a pipeline that has ended.

## Proofs

`FcbTableProofs` proves, for every table size, record size, set of names,
users and devices:

- `SlotAccounting`: `Spec => [](TypeOK /\ SlotsOwned)`, whatever fails or is
  shared. Type and slot accounting are inductive together: a held descriptor
  must be a slot of the table for `fcb[fd]` to have a type, and the first free
  slot is one the program does not hold.
- `Typing`: `Spec => []TypeOK`, a part of it.
- `FailuresAreClean`: `Spec => FailureKeepsTable`, in the same generality. An
  open() or creat() that fails gives a slot back as an empty one; that this is
  what was there needs the invariant that a free slot holds nothing
  (`FreeBlocks`).
- `SizesAgree` and `SizesAreKept`: `Spec => []SizeInv` and
  `Spec => []SizeKept` if no file is shared, the BDOS does not fail, and
  `_exact` is not 'D'. `SizeKept` speaks of files that are closed;
  the inductive invariant `SizeInv` adds what must hold while one is open: its
  slot is the only one on it, and slot size, record count and length agree
  (`WriterMatchesDirectory`), and every entry counts the records its length
  needs. The proof splits the invariant into what it says of one file
  (`FileOK`) and of the table (`TableOK`); an action touches one or two files
  and the others are framed. The arithmetic lemmas show that the number of
  records is determined by its bounds, is monotone, commutes with the larger
  of two sizes, and that records and unused bytes give the size back.

The convention is a needed assumption: in DOSPLUS mode close() writes the
bytes used in the last record where open() subtracts bytes unused, and a file
is reopened with another size (the mutant `LastBytesUsed` is that convention,
and `FcbTable_exact` refutes it).

`HeapProofs` proves, for every size of the memory, of a unit, of the grain of
the arena and of the word, and every set of blocks and requests:

- `Typing`, `Linked`, `StartsInChain`, `NothingLost`, `Roomy`, `RestKept`: each
  state invariant of the run `Heap_sound`.
- `RefusesOnlyWhenFull`: the action property `GivesUpOnlyWhenFull`.
- `NeverAstray`: the test in malloc() that a block points upwards never fails,
  so that the only refusal is the one for want of memory.

They suppose `Frugal`: the program stops once it was refused, and what it asks
for, rounded up to units and then to the grain of the arena, fits the word.
Both are needed. A search that gives up has merged blocks and leaves `allocp`
where it was, which may be inside a merged block: the next search would walk
over the program's data. And a request near the end of the word wraps
(`malloc.c:57`, `:80`, `calloc.c:14`) to a small one. `MCHeap` evaluates
`Frugal` for its instances. The theorems speak of `RestIntact`, not of
`DataIntact`, which the code violates.

The inductive invariant (`Inv`) has to speak of every state of a search, not
only of those between calls. `Bounds` and `ChainLinked` say that the chain
runs upwards from the bottom to `alloct` and that nothing but what others took
of sbrk() lies above. `Holds` and `Owned` make the busy blocks and the
program's the same; `Full` says that all units of a block, not just those asked
for, hold what was written, because realloc() copies by units. `Apart` keeps
the memory of others out of the blocks. `Searches` is the argument for
refusals: in the second round all blocks below the pointer are too short, by
themselves and merged with the next (`Short`), and stay so. `Kept` covers
realloc(), which frees the old block, searches, perhaps merging over its header,
and only then copies: until then every header of the chain keeps off the old
data but for its first unit. `Rests` says that a finished search leaves
`allocp` in the chain. The proof has one lemma per step of the search, and
before them the facts about a chain they share: the successor is unique, two
blocks do not overlap, a split or a merge changes one link.

`PipemgrProofs` proves, for every size of record and buffer, alphabet, set of
pipelines and set of disks before:

- `Refines`: `Spec => Implements`. Every step of PIPEMGR is one of `Pipe`, or
  none: an output is a `Put`, a read is a `Get` or tells the end, and the chain
  to the next command passes on what was sent.
- `Arrives`, `NothingElseChanges`, `Typing`: the state invariants of the run
  `Pipemgr`.

The hypothesis of all is `Usual`; `Refines` also has `Orderly` (see above), a
condition on the pipelines that `Neat` carries from command to command.

That a reader of lines misses only line feeds behind carriage returns needs to
know what `lastin` is: the byte read last, unless the last one was read behind
a dropped line feed, and then it is not a carriage return (`Recent`). An input
service is described once by the bytes it takes and what it returns of them
(`Yields`, `Returns`), and a line reader by `Leaves` where it leaves one out.

The inductive invariant (`Inv`) gives where a byte is at any time. For the
input (`At`): the file holds what the command before sent; the bytes read and
those left (`inlen`) make up its length; the position follows from the record
and the pointer; and what is behind the pointer in the buffer is what the file
has there. A plain command's pipe is not open before its first read (`Waits`),
and a command may have none. For the output (`Holds`): the records
written and the part of the buffer that is used are what the file held before
(`Before`) followed by `sent`, and in a file that PIPEMGR made the rest of the
buffer is ^Z, which `wrobuf` restores. Appending starts in the middle of a record that is both in
the file and in the buffer: writing it back changes nothing but the new bytes.
Between two commands (`Start`) the file of the pipe is the only one added, and
every flag that the next command reads is as it expects. `Untouched`
frames all other files, which needs that input and output differ (`Crossed`):
a file that is written is not the one whose bytes `At` counts. The proof of a
chain composes the closing of the input, the closing of the output, the rename
and the next command's first view of the file; each has a lemma of its own.

`StreamProofs` proves, for every size of record and buffer, alphabet and set of
files, whatever the disk has room for, if `OneDirection`:

- `BufferTrue` and `NothingLost`: `Spec => []BufferAgrees` and
  `Spec => []WroteWhatWasPut`;
- `ControlKept` and `Typing`: the other two state invariants of the run.

`AlwaysGood` is the inductive invariant they come from: `Good` of the stream,
of what the program may do next, and of what it has put. `Sound` is about the
buffer: in a stream that is read it holds what the file has in front of the
descriptor's position (`Reading`); in one that is written what waits and the
room behind it make up the buffer (`Writing`). `Keeps` says that what was put
is where it was put, not in the file but in the file with the buffer laid over
it (`Image`): a flush happens later than the put, and half of one must not
move what is already there. `Untouched` is what setbuf() directly after
fopen() relies on, `ReadLast` what ungetc() does: the character pushed back is
the one in front of the next. An operation is described once by what it does
to such a stream (it reads on, it puts, it moves, it opens), and these
relations compose as the functions of the library call each other. The loops
of fgetc() and fread() are followed by induction on what is left to read.

The hypothesis is needed, as the runs `Stream_update` and `Stream_interrupt`
show: an update stream seeks by what it read, and a flush that is broken off
and repeated writes twice.

`ByteFileProofs` proves `StreamIsByteFile`, `Spec => Implements`, if
`WholeFiles` too: every call is the step of `ByteFile` of the same name, with
the same result, or one that has failed and says so. It adds to the invariant
that a file that is closed or being read has whole records, and that what is
read as a text is one (`Files`); then the ^Z that `_ssize()` finds by looking
at the last record alone is the first of the file (`LastRecordIsEnd`), and
moving to the end of a text is moving to where its text ends. A file that
stops inside a record would be read up to the end of its record, and its size
be taken from the wrong place.

`CalendarProofs` proves, for every set of clocks, zones and formats that is
`InTime`, the five invariants of the run `Calendar`:

- `TimeIsKept`, `MomentIsTold`, `WeeksAreCounted`, `TextFits`, `Typing`:
  `Spec => []TimeKept` and so on.

`InTime` says that the clock's bytes are BCD digits of a time of day, that no
moment, in GMT or in its zone, is later than a long can hold, and that an int
holds the zone's seconds. The last is a limit of the code (`ctime.c:37`):
10 hours west of Greenwich the product wraps, and the local time is wrong.

The invariant (`CInv`) says what each variable stands for: `Timed` that the
time_t is its reading's moment, `Shows` that the broken-down time is what
gmtime() makes of its moment, `Tells` that a text is what strftime() or
asctime() makes of it. Every call preserves it if mktime() undoes gmtime(),
and a tick of the BCD clock is one second more (`TickIsASecond`). The properties then
are facts about the functions. The loops over years and months are functions
on numbers, for which closed forms are proved (`BeforeIs`, `LeapsIs`); they
meet the reference, the Gregorian day number that counts years from March, in
`DateIsDay`. That the year and the month that gmtime() ends its loops
with exist is the well-ordering of the numbers. A text is followed place by
place: the digits of a number of at most four places give the number back, and
each place of asctime()'s buffer is what the last put2d() left there.

`DriverProofs` and `DriverBuilds` prove, for every set of command lines, every
disk of earlier files, every limit of a command's length, and whichever passes
fail, the state invariants of the run `Driver`:

- `Typing`: `Spec => []TypeOK`. `Shape`, its inductive invariant, says how
  `doit()` lays the command file out (`Laid`): every program has a TRAP behind
  it, so that a skip finds one, a guard (IF_NERR) is followed by a program, and
  RM_EXIT is the last command and nowhere else.
- `Cleanup`: `[]TempsGone`, if `[]Plain`. For each temporary file there is a
  place where it is removed, with no program behind it that writes it and,
  for those that go whatever has failed, a TRAP between it and every program
  before it (`Sweeps`, `Reached`): a skip never passes it. `Cleaning`
  says that in front of this place the removal is still to come and that
  behind it the file is gone.
- `OwnSources` and `Linking`: `[]OwnSource` and `[]Built`, if `[]Plain`. The
  command file is a program, and the argument an outline of it: before each
  command stands what is known of the contents of files (`Leads`, `Outline`),
  in three strengths: what holds since the last TRAP unless the program before
  has failed (`sure`), what holds if nothing has failed at all (`calm`), and
  that nothing has (`guarded`, behind IF_NERR). A pass may write an object only
  where `sure` says that its input is the object's own source, and the linker a
  program only where `guarded` holds and `calm` says that every object is new.
  Outlines compose as `doit()` appends commands, one lemma per function
  (`CompileOutline`, `AssembleOutline`, `SymOutline`, `LinkedOutline`,
  `CrossOutline`), whatever the number of sources. Then $EXEC keeps `Right`:
  where it is, the note of the outline is true of the disk. After a failure
  it goes on behind a TRAP, where nothing is `sure`, and nothing is `calm`
  any more. `Building` is the invariant of the whole; of the driver it says what
  the outline has reached (`Covers`) and where an overlay begins (`Foreseen`).

Only model-checked: `Huffman` and all liveness (`MallocReturns`,
`EverySourceTried`). Liveness is out of the prover's reach, as is what the
operators of `Huffman`, which are recursive, compute for every input.

## Not modelled

- Formatted input and output, integer, long and floating arithmetic: functions
  of data without state, whose correctness is numeric and not within reach of
  an enumeration.
- The BDOS and BIOS gates, start-up code, setjmp/longjmp: register-level code;
  their effect is in the models that call them.
- Overlays and execl(): one file loaded over another. (A second call of the
  overlay in memory returns without closing the descriptor it opened,
  `ovrload.c:30`.)
- The tables of streams and buffers, streams on devices.
- Overruns of fixed arrays (the driver's 60 names, 200 words of getargs()):
  the lists of the models have no end.

## Plan

1. The eight streams, their buffers and their descriptors.
