# Virtual memory for microcontrollers: a verification development

virtmem-continued gives a small microcontroller more memory than it has: virtual
pointers reach bytes of a *pool* that lies on SPI RAM, an SD card, or a host at
the other end of a serial port, through a handful of *pages* in RAM. This
directory holds TLA+ modules for its core, the TLC runs that check them, and
TLAPS proofs of what matters most. All paths below are relative to the
repository; `base_alloc.cpp` is `src/base_alloc.cpp` and so on.

## The system

| Part | State | Operations | Right when |
|---|---|---|---|
| Page manager (`base_alloc.cpp`, `base_alloc.h`) | page buffers with start, size, dirty flag, skip and lock counts; a free and a locked list per class (small, medium, big); `nextPageToSwap` | `start`, `read`, `write`, `flush`, `clearPages`; `pullRawData`, `pushRawData`, `syncBigPage` inside | the program sees one flat memory, whatever is swapped |
| Page locks (same files) | the locked lists, `locks` of each page | `makeDataLock`, `makeFittingLock`, `releaseLock` | locked data stays where the pointer of the lock finds it; pages come back |
| Heap (same files, `alloc.h`) | headers in the virtual memory, `freePointer`, `poolFreePos` | `allocRaw`, `freeRaw`, `getMem`; `alloc`, `free`, `newClass`, `newArray` | blocks never overlap, none is lost, every search ends |
| Virtual pointers (`vptr.h`, `base_vptr.h`, `vptr_utils.h`) | the pointer and lock size of a `VPtrLock` | `*`, `->`, `lock`, `unlock` | every lock is released once |
| C overloads (`vptr_utils.hpp`) | none: loops that take two locks per piece | `memcpy`, `strncpy`, `memcmp`, ... on virtual pointers | same result as on plain memory |
| Serial link (`serial_alloc.h`, `serial_utils.*`, `extras/*.py`) | on the board: `availableMin` and the call under way; on the host: the `State` of the script, its input queue; bytes on the wires | `doStart`, `doRead`, `doWrite`, `ping`, `SerialInput`; `handleCommand`, I/O thread, input thread | a pool that keeps what was written, input in order, calls return |
| SPI RAM back ends (`spiram_alloc.h`, `spiram.*`) | the bytes, mode and address of each chip; chip select pins, FIFO, transaction | `doStart`, `doRead`, `doWrite`; `begin`, `read`, `write` of `SPISerialRam` | blocks are read back however they are cut between the chips; transfers do not disturb each other |
| SD, static and stdio back ends (`sd_alloc.h`, `static_alloc.h`, `stdio_alloc.h`) | a file or an array | `doStart`, `doRead`, `doWrite` | a block read is the block written |
| Configuration, utilities, tests, benchmark, examples | | | |

How they interact: a virtual pointer calls `read` and `write` or takes a lock; the
heap keeps its headers in the virtual memory and reaches them with `read` and
`write`; the page manager calls `doRead` and `doWrite` of its back end; the serial
back end talks to the Python script over two wires. Board code is single
threaded, without interrupts, so what is hard in the core is long sequences of
calls that leave pages, lists and counters in rare combinations. Concurrency is
in the serial link: board, I/O thread, input thread, and a port that can fail at
any byte. `PROJECT.json` lists the hazards at their lines, with the properties
that cover each of them or the reason why none does.

## Modules

| Module | Models | Needs |
|---|---|---|
| `FlatMemory` | abstract: an array of bytes with reads and writes | |
| `BaseVAlloc` | the page manager; implements `FlatMemory` | |
| `BaseVAllocProofs` | its theorems | `BaseVAlloc`, `TLAPS` |
| `PageLocks` | the lock functions and a program that holds locks; implements `FlatMemory` | extends `BaseVAlloc` |
| `PageLocksProofs` | lemmas about lists of pages, what lies below the locks, and `makeDataLock` | `PageLocks`, `BaseVAllocProofs`, `TLAPS` |
| `PageLocksTheorems` | lemmas about the other calls; the theorems about locks | extends `PageLocksProofs` |
| `HeapBlocks` | abstract: division of the pool into blocks | |
| `HeapBlocksProofs` | its theorems | `HeapBlocks`, `TLAPS` |
| `Heap` | `allocRaw`, `freeRaw`, `getMem` on the free list; implements `HeapBlocks` | |
| `HeapProofs` | its theorems | `Heap`, `TLAPS` |
| `CLibrary` | abstract: the C functions on memory and strings, one step each | |
| `COverloads` | the loops of `vptr_utils.hpp` over locked pieces; implements `CLibrary` | extends `CLibrary` |
| `COverloadsProofs` | its theorems | `COverloads`, `TLAPS` |
| `RemotePool` | abstract: a pool that keeps what is written to it | |
| `SerialLink` | board, host and wires; implements `RemotePool` | |
| `SerialLinkProofs` | its theorems | `SerialLink`, `TLAPS` |
| `SpiChips` | both SPI RAM allocators, the bus and the chips; implements `RemotePool` | |
| `SpiChipsProofs` | its theorems | `SpiChips`, `TLAPS` |
| `MCBaseVAlloc`, `MCPageLocks`, `MCHeap`, `MCCOverloads`, `MCSerialLink`, `MCSpiChips` | bounds for TLC | |

`BaseVAlloc` and `FlatMemory` are the interface the heap and the C overloads rely
on, `RemotePool` the one the page manager relies on, whether the pool is at the
end of a serial port or on SPI chips (`store` of `BaseVAlloc` is `mem` of
`RemotePool`). Its `call` has what was asked with what came of it: address, size and
bytes of a read, address and bytes of a write, so that only the block that was asked
for is an answer. `Fresh` of `RemotePool` is what a pool holds when it is started:
zeros on the host, anything on chips, which keep their power over a reset.

### Page manager

One call of the program is one step. The members of the class are variables,
`State` collects them in a record, and the private functions are operators from
such a record to the next, composed in the order of the code: `Read` is `ReadRaw`
is `Mirror` then `PullRawData`, which is `Victim`, `SyncBigPages`, `Invalidate`,
`SwapIn`, `MarkUsed`. A linked list is the sequence of its page numbers, the
buffer of a page a function on the addresses it holds. An `ASSERT` that is false
sets `failed` and nothing happens any more; on the board `ASSERT` is empty and the
code runs on, which is not modelled. A copy past the end of a buffer sets
`overrun` and ends the run in the same way.

Safety: `PagesDisjoint`, `CleanPagesMatchStore`, `SwapAlwaysPossible` (the search for
a page to swap never comes back empty), `WritesBackCurrentBytes`,
`FlushCompletes`, and `ImplementsFlatMemory`, in which the contents of an address
are those of the first locked page that holds it, else of the big page, else of
the pool.

### Page locks

`MakeDataLock` follows the search of `makeDataLock` through all locked pages with
one recursive function, whose values are records of the function's local variables
after each page (`Consider`); then `CheckedSearch`,
`MoveToSmaller`, `PageForLock` and `FillLock` (or `GrownLock` on a page that begins
there already), and `CountLock`, in the order of the code.
`MakeFittingLock` likewise. A handle of the program stands for a `VPtrLock` or for
the temporary behind `->`: address, size, page and offset of its pointer. The
program also stores and loads bytes through those pointers (`WriteLocked`,
`ReadLocked`), as long as the byte was not taken over by a newer lock.

What holds depends on what the program does, and the code does not say which
programs it is for. So the module has several programs:

- `NextOverlapping` uses `->` on blocks that are equal, apart, or overlap so that
  the newer one ends behind the older one;
- `NextFitting` uses `VPtrLock` on any blocks;
- `NextAny` does everything.

The first two use the raw functions only while a big page is free (else these
fail an assertion, as the code says they would) and make no raw write that begins
in front of a lock and runs past the buffer of its page (`base_alloc.cpp:805`).

Restrictions of the passing lock runs, each with its reason: lock sizes are below
the size of a big page (`base_alloc.cpp:407` gives a whole page back while others
may hold some of its bytes); read-only locks of `->` do not overlap others (`base_alloc.cpp:1089` drops
bytes then); a block that is locked is not locked again with a smaller size
(`base_alloc.cpp:915` fails); a handle is released before it locks again
(`VPtrLock::lock` at `vptr_utils.h:129` forgets the lock it held).

### Heap

`header` maps an address to the header that lies there. That reads and writes of
headers behave like this is what `ImplementsFlatMemory` says of the page manager;
the heap on top of the paged memory is not checked in one model yet. When a block
is given out, headers inside it are dropped, because the program may write over
them. `allocRaw` without memory returns 0: the `ASSERT(false)` at
`base_alloc.cpp:630` is taken as a message, as on the board. A search through the
list that does not come back to its start sets `failed`, which
`FreeListIsSortedCircle` excludes. The refinement `ImplementsBlocks` maps the
headers to sets of units.

### C overloads

`memcpy`, `strncpy` and `strcpy` are one loop in the code (`rawCopy`), and so are
`memcmp`, `strncmp` and `strcmp` (`rawCompare`); `memset` and `strlen` have loops of
their own. One round of a loop is one step: lock a piece of each operand, call the
C function on the pieces, release the locks. `PieceSizes` are the sizes a round may
get: one up to `getMaxLockSize` and what is left, since `makeFittingLock` may give
less than was asked for, depending on locks the program holds. What the copiers and
comparators tell the loop is `CopierAborts` and `ComparatorDone`. `CLibrary` says
what C promises of each function on a whole operand; a call may do what C allows
for its arguments (`Legal`).

Assumed: both locks of a piece can be had, and what is locked has the bytes of the
memory. The latter is what `LocksImplementFlatMemory` says; the former is up to the
program, which must not hold all pages itself. Two switches name the calls for
which the overloads do not keep the promise: `ShortStrings` (functions with a size,
whose strings end in front of the last bytes) and `FarApart` (operands whose distance is a multiple
of 65536, whose pieces have no bytes). The passing run is about all other calls;
the theorems, which do not say that a call returns, need only the first switch.

### SPI RAM

What `SPISerialRam` sends does not depend on the answers, so a call of it is a
`script` of items: drive a select pin, send a byte or a word, take an answer from
the FIFO, end the transaction. `EnterChip` and `LeaveChip` are the loop of the
allocator over its chips, and the allocator for one chip is the case of one chip.
`build` is the choice between `SPI.transfer` and `SPIFIFO`; with the latter the
hardware sends its words on its own (`Shift`). A chip is external: it takes an
instruction, an address and then data, and only in sequential mode does its address
move on.

Fault: the board is reset at any item. The chips keep their power and their place
in an instruction, and select pins float, so that any set of chips is selected
until `doStart` has driven all of them. `TransfersKeepApart` says what has to hold
between transfers and what a transfer may rely on; `ImplementsRemotePool` says that
the chips together are one pool. It does not hold of a chip of exactly 2^16 or 2^24
bytes, such as the 23LC512, to which `spiram.cpp:53` sends an address byte more than
it takes; `ChipsFit` says that there is no such chip. The passing run and two of the
theorems are about the others, `spi_square_chip` shows one that does not fit.

Left out: the build without
`VIRTMEM_SPIRAM_USENODATASWAP`, which sends bytes of words in another order; clock
speeds. After a block sent in words, `SPI.endTransaction` is not called until a
later call ends with a single byte; the property asks for it only of the build
without the FIFO.

### Serial link

The board waits inside its calls, so a call is the step that sends a command and
one step for each byte of the answer; `phase` says where it is. The host takes one
byte per step; `blockedRead` keeps the arguments it has in `host.args`. The answer
of the host is put on the wire at once. A number, four bytes in the code, is one
byte, and `CMD_START` is a small number that no command has but that data and
numbers may have. Faults: the board is reset at any moment, which may cut short
the command it is sending and leave answers on the wire, or the port is
disconnected: everything under way is lost, the script gets an exception in
the middle of a command (`processState` keeps its value), and the board is reset
when the port is opened again.

Assumed, because the code relies on it: the 75 ms of purging at the end of
`init()` are enough for the host to answer the commands sent before; the script
runs before, during and after every reset of the board.

## Runs

| Run | States | Shows |
|---|---|---|
| `paged_io` | two big pages of two bytes, pool of seven, three bytes of it varying | raw input and output implements a flat memory; the five invariants and action properties of the page manager |
| `locks_overlapping` | one small and one medium page (1 byte), two big pages (3), pool of five, two handles | page lists, lock counts, disjointness and contents under `->` |
| `locks_fitting` | one small page (1 byte), one medium (2), one big (3), pool of five, two handles | the same under `VPtrLock`, and that locked data never moves |
| `heap` | ten headers, sizes 1, 3 and 5, at most three blocks at a time | free list, blocks, division of the pool, growth, refinement of `HeapBlocks` |
| `c_overloads` | six virtual and two regular bytes of two values, pages of two bytes, sizes 0, 2 and 3 | pieces join, refinement of `CLibrary`, every call returns |
| `serial_link` | pool of two bytes, wires of six and four bytes, two typed bytes, one fault | host in step, input in order, refinement of `RemotePool`, every call returns |
| `spi_chips` | chips of seven and two bytes, FIFO of two words, blocks of 1, 2, 7 and 8 bytes, two calls, one reset; both builds | transfers keep apart, refinement of `RemotePool`, every call returns |
| `locks_write_past_page`, `heap_adjacent`, `serial_peek`, `strncmp_past_end` | as above | the divergences below |
| `spi_square_chip` | one chip of 16 bytes, the square of the four values of a byte | the fifth of them |

Bounds and why they are enough:

- *Page manager.* Pages of two bytes can overlap partly, and two of them give
  every case of the search: hit, empty, clean, dirty, skipped, one or two partial
  overlaps, a page cut by the end of the pool. The swap in turn needs both pages
  dirty, none of them passed over too often, and a third one that touches neither;
  a pool of seven has room for that, twice in a row (in a pool of five it never
  happens). The three varying addresses can be in three pages; blocks are one byte
  or a page long. `MaxCleanSkips` is 2 instead of 5; `SkipsModulus` is larger than it,
  as 256 is. The two byte values are
  interchangeable (`ByteSymmetry`).
- *Locks.* Two locks, three or four pages, one varying byte. Every class has a
  page, because `start()` puts page 0 on the free list of each
  (`base_alloc.cpp:521`) without a look at the number of pages. Locks of `->` are two
  bytes and get a big page; one that another cuts to a byte is moved to the small
  one. A lock of `VPtrLock` prefers the largest pages, so that in `locks_fitting` the
  second one is the first to get the medium page. Page contents need one byte to
  tell an old copy from a new one, and every byte is the varying one from some
  lock's point of view because locks take all positions. Handles are
  interchangeable. `locks_overlapping` passes with locks of one and two bytes in a pool of
  four as well (57,136 states), too slowly for a routine run.
  `VIEW` leaves out `call`, which no step reads; action properties are evaluated
  on every transition all the same. Deadlock is not checked, because the program
  may stop.
- *Heap.* Three blocks at a time give every neighbourhood in the list (first, between,
  last, around the end); sizes of one to three units with `MinAlloc` 3 give exact
  fits, cuts and growth; ten headers are exhausted.
- *C overloads.* Three bytes in pieces of one or two give one, two or three
  pieces, and a string that ends in the first, in the last, at a border or behind;
  six virtual bytes hold two operands with a byte between them, or a string that is
  longer than any size passed. `LockModulus` 8 is larger than every distance but
  the one of two operands of different kinds, where it does not matter.
- *SPI.* Address bytes have four values, so that the chip of seven bytes takes two
  of them and the one of two bytes takes one. Blocks of seven and eight bytes are
  more words than the FIFO holds, odd and even, and run over the end of the first
  chip; one and two bytes are the single byte and the single word. Data is the
  number of the address it is written to, so that a byte in any other place shows.
  Two calls and a reset between, in or after them: a write that is cut short, a new
  start, a read. A write, and a read of any block of it, over the border of the chips
  or behind it, are the two calls that a wrong address shows in.
- *Serial.* Two addresses tell a shifted block from the right one; data takes the
  values 0 (also `CMD_INIT`) and `CMD_START`. One fault at any moment; a smaller
  run with two (one typed byte, no prints) also passes. The buffer of the board
  holds four bytes, the longest answer and one more.

Fairness is used in three modules. In `SerialLink` the I/O thread polls for ever
(`HostReceives`, `HostTakesInput`), and the board's loops never give up (`Starting`,
`Answered`). In `COverloads` a function that was called runs on (`Work`): the board
is single threaded and no lock waits for another actor. In `SpiChips` the board
runs on (`Board`), and the hardware sends the words it was given (`Shift`). Nothing
forces the program to make a call, anyone to type, or a fault to happen.
`CallsReturn` says in each of them that the program gets every call back.

## What does not hold

Each is a run that TLC finds violated, with the lines in `PROJECT.json`:

1. `write()` copies past the end of a locked page when the block begins in front
   of it and ends behind it (`base_alloc.cpp:805`).
2. Adjacent free blocks are never combined (`base_alloc.cpp:687`, `:700`).
3. `SerialInput::peek()` on empty input never returns (`serialiohandler.py:84`).
4. `strncmp` of equal strings that end in one piece goes on with the next and
   compares what lies behind them (`vptr_utils.hpp:210`).
5. A block on an SPI RAM of exactly 2^16 or 2^24 bytes is written and read elsewhere:
   the last byte of its address is taken for data (`spiram.cpp:53`).

The same models show more when a restriction of theirs is lifted; these have no run
of their own and are listed as hazards:

- a whole big page that a lock gives back can overlap a page loaded meanwhile, and
  its bytes are then hidden (`base_alloc.cpp:407`; lock sizes up to the page);
- `releaseLock` may take the lock off another page than it was counted on
  (`base_alloc.cpp:1266`; `SpecAny`);
- locking a block again with a smaller size stops the program
  (`base_alloc.cpp:915`), the tail of a lock that is cut off and read-only locks
  that overlap lose bytes (`:1089`; `SpecAny`);
- `start()` on a port other than `Serial` never returns (`serial_utils.hpp:92`;
  `StreamIsSerial = FALSE`);
- `strncpy` stops after the piece in which the source ends and does not pad the
  pieces after it (`vptr_utils.hpp:183`; `ShortStrings = {"strncpy"}`);
- operands a multiple of 65536 bytes apart give pieces without bytes
  (`vptr_utils.hpp:65`; `FarApart = TRUE`).

## Proofs

`BaseVAllocProofs` proves, for any pool size, any number and size of pages, any
byte values and any bound on skips, every property of `paged_io` for programs that
take no locks (`SpecIO`). The inductive invariant is

    Inv == /\ State = Alloc(store, page["big"], nextPageToSwap)
           /\ nextPageToSwap \in Numbers
           /\ Consistent(store, page["big"], Contents)

The first conjunct says that all but three components of the state stay what
`start()` made them (no locks, free lists in order, nothing failed), so that the
rest is about a pool, a function of big pages and a page number. `Consistent`
relates these to the contents: each page holds exactly the bytes of its block cut
at the end of the pool, with the values of the contents, no address is in two
pages, and where no dirty page has an address the pool does. None of the checked
invariants is inductive alone: that a clean page equals the pool survives a swap
only because pages are disjoint, and pages stay disjoint only because a page holds
its whole block. Each operator has a lemma on what it does to a consistent state
(`Synced`, `Emptied`, `LoadedIn`, `SwappedIn`, `Pulled`, `Pushed`), each call a step
lemma, and `RefinementTheorem` maps every step to a step of `FlatMemory`.

The only assumptions are the named `ASSUME`s of `BaseVAlloc`, which TLC evaluates
in every run.

`HeapProofs` proves every property of the run `heap` for any pool, size of headers,
minimum of `getMem` and sizes asked for. The inductive invariant is

    Inv == /\ failed = FALSE
           /\ Laid(header, poolFreePos) /\ Aligned(poolFreePos)
           /\ poolFreePos >= First /\ poolFreePos <= End
           /\ IF freePointer = 0 THEN DOMAIN header = {} /\ DOMAIN live = {}
              ELSE Circle(header, List) /\ freePointer \in List
           /\ DOMAIN live \subseteq Nat /\ LiveHeaders \subseteq DOMAIN header \ {Base}
           /\ \A ptr \in DOMAIN live : live[ptr] # 0 and the size in its header is UnitsFor of it

`Laid` says where headers lie: a whole number of headers from the first, each block
within the pool and in front of the next header. `Circle` says that `next` leads from
every free header to the next higher one, or to `Base` from the highest. Neither is
inductive alone: a free block is put in its place in the circle only because blocks
do not overlap (its header is none of those on the list), and a block that is cut
keeps its neighbours only because the list is sorted. The argument that a search
ends is a pigeonhole: as long as `Walk` has not come back it visits a new header at
each step, so that within as many steps as there are headers it has seen all of
them (`Walk` is a recursive function; what would be an induction over its steps
is the absence of a least step that goes wrong). From there `FreeRaw` finds the gap
the block belongs in, `AllocRaw` looks at every free block before it calls `GetMem`,
and each call is described by one of `GotNothing`, `GotFree`, `GotNew` and `Freed`.
That no two neighbours are ever combined, because the code adds units to bytes
(`heap_adjacent`), is part of that proof. For `RefinementTheorem` a header at
`First + u * HeaderSize` is the set of units from `u` on, and each call is the step
of `HeapBlocks` of the same name, or changes no block. `HeapBlocksProofs` proves
that `BlocksDisjoint` and `NothingLost` hold of `HeapBlocks` for any number of
units, and `DivisionTheorem` carries its inductive step over to the headers:
`PoolDivided` says the two of the blocks that the headers describe.

`COverloadsProofs` proves `TypeOK`, `PiecesJoin` and `ImplementsCLibrary` for any
addresses, byte values, sizes, page size and width of sizes. Its hypothesis is
`StringsFill`, that is `ShortStrings = {}`, without which the third does not hold.
Lemmas join two pieces to one: copying `u` bytes and then `k` more is copying
`u + k`, and a comparison that found nothing in `u` bytes and decides in the next
`k` decides in `u + k`. The inductive invariant has two parts:

    Inv == TypeOK /\ (call # NoCall => CallInv)

`PiecesJoin` alone is not inductive: it has to be known that the call is one that C
allows, that the operands reach as far as the loop may go, and, once the loop was
left early, that what is left would change nothing (the rest of `CallInv`). Beginning
a call maps to `Begin`, returning to `Return`, and every piece to a stutter.

`SerialLinkProofs` proves the safety properties of `serial_link` for a pool of any
size, any values, wires and buffers of any size, any program that does not call
`peek()`, and any number of resets and disconnections. Whether an answer is the one
the board waits for depends on all that is still on the way to the host, so the
invariant has a witness `F`, the trace of the host: `F[k]` is the host after the
first `k` bytes of `toHost`.

    Inv(F) == Trace(host, toHost, F) /\ Basics /\ Stream /\ Protocol(F)
    IInv   == \E F : Inv(F)

`Protocol` says, for each `phase`, which of those bytes the host answers. In
`start()` only the last handshakes do, and once one was answered nothing but
handshakes is on the way, which is why the purge leaves an idle host. Between calls
none does and the last `F` waits for a command. In a call only the last byte does,
and its answer is the block of that host's pool, the pong, the count or the input
that was asked for (`InQuery`); once it was sent, what the board has, followed by
what is on the wire, is a prefix of it (`Waits`). `HostInStep` is the case of an
empty wire and is far from inductive: a reset cuts a command short, its arguments
are then taken from the handshakes of the next start, and only `Protocol` says that
the host gets through this with nothing left to send. `Stream` says where typed
bytes are: with the board, on the wire, in the second buffer or in the queue, one
behind the other. A trace exists for every sequence of bytes and is prolonged or cut
with the wire (`TraceAppend`, `TraceCut`; no least place where it goes wrong). The
lemmas `SentBare` to `SentWrite` take the host through whole commands, for data of
any length. `InputTheorem` needs

    AnswersFit == MaxTyped < BufferSize

since an Arduino drops what does not fit in its buffer, and input that is dropped is
gone: with `BufferSize = 2` and no faults TLC finds `InputInOrder` violated. For
`RefinementTheorem` the pool the program sees is the one the host will have, that is
the last `F`; sending a write is `Write`, the last byte of a block is `Read` of
the address and size in the command (`GotBlock`), and commands under way change nothing until the host is started again.

### Locks

The three modules about locks prove every property of the two lock runs, for any
pool, page sizes and page counts, any handles, lock sizes and raw blocks. `PageLocksTheorems` has the theorems:

| Theorem | Program | Says | Hypotheses |
|---|---|---|---|
| `AnyTypes` | `SpecAny` | `LocksTypeOK`, `ListsPartitionPages` | |
| `LocksTypes`, `PagesOnLists` | `SpecOverlapping` | the same, as its run checks them | |
| `OverlappingLocks` | `SpecOverlapping` | `LocksCounted`, `LockedPagesDisjoint`, `BigPagesComeBack` | `FewHandles` |
| `BytesStay` | `SpecOverlapping` | `OnlyNewLocksTakeBytes` | `FewHandles` |
| `LockedData` | `SpecFitting` | `LockedDataStays` and the three of `OverlappingLocks` | `FewHandles` |
| `OverlappingMemory` | `SpecOverlapping` | `LocksImplementFlatMemory` | `FewHandles`, `ShortLocks` |
| `FittingMemory` | `SpecFitting` | `LocksImplementFlatMemory` | `FewHandles`, `ShortLocks` |
| `OverlappingRuns` | `SpecOverlapping` | `NeverStops` | `FewHandles`, `EnoughBig` |
| `FittingRuns` | `SpecFitting` | `NeverStops` | `FewHandles`, `EnoughPages` |

The first two hypotheses are restrictions that the code has, the others say how many
locks a program may hold:

    FewHandles  == IsFiniteSet(Handles) /\ Cardinality(Handles) < LocksModulus
    ShortLocks  == \A n \in LockSizes : n < BigSize
    EnoughBig   == Cardinality(Handles) <= PageCount["big"] /\ PageSize["medium"] < PageSize["big"]
    EnoughPages == Cardinality(Handles) <= PageCount["small"] + PageCount["medium"] + PageCount["big"]

The counter of a page is 8 bits wide and wraps with the 256th lock
(`base_alloc.cpp:1137`), and a whole big page that a lock gives back may overlap one
that was loaded meanwhile (`base_alloc.cpp:407`). Both runs keep to these two, and each to
its bound on the locks.

None of the properties is inductive. The invariants, each the one before and more:

    AnyInv    == ShapeBut(State, {}) /\ held is typed
    Core      == AnyInv /\ Disjoint /\ CountedIn /\ AllBehind /\ BigInUse
    ExactInv  == Core /\ Exact          (programs that use ->)
    WithinInv == Core /\ Within         (programs that use VPtrLock)
    FlatInv   == MemInv /\ Short /\ WriteDirty

- `ShapeBut` says that a page is on one list of its class, once, and suits it: on the
  free list it has no locks, a big one holds its whole block or nothing; on the
  locked list it holds just the bytes of its block, which fits into its class.
- `Core` says that locked pages are apart, that each counts the locks held on it, and
  that the pointer of a lock points into its page, at the offset that the lock was
  given. The counter has to be right for a search to leave pages in use
  alone, and the pages have to be apart for `releaseLock` to find the page that the
  lock was counted on: it looks for a page that has the address. That is why the three
  invariants of `OverlappingLocks` are proved together, and why `SpecAny`, in which a
  newer lock may cut the page in front of an older pointer, has `AnyTypes` only.
- `Exact`: the pointer of a lock of `->` is the start of its page, and the page is not
  longer than the lock; pages that are cut keep their start. `Within`: a page has all
  bytes of each `VPtrLock` on it; nothing cuts it, because `makeFittingLock` makes the
  new lock shorter instead.
- `MemInv`: some contents below the locks agree with pool and free pages in the sense of
  `BaseVAllocProofs`, and the memory is these with the bytes of the locked pages on
  top. A locked page that is not dirty equals them, so that it may be dropped;
  `WriteDirty` says that a page with a lock for writing is dirty.

What is below the locks is the page manager with fewer pages, so `PageLocksProofs` maps
the free big pages of a state to the pages of `BaseVAllocProofs` (`View`) and takes over
`Consistent` from there. It then describes each part of `makeDataLock` by what its
caller needs: pages given back on the way (`Settled`), the search after each page it
visits (`Found`; one lemma for each of its cases), the page of a new lock
(`GotPage`), its bytes from pages cut off, pages removed and the memory below
(`FilledAs`), the whole (`MadeData`). The hard part is that the search frees and cuts
pages while it walks over them, that its second old page (`secoldlockindex`) is
grown into, and that all this changes no byte of the memory. `makeFittingLock`,
`releaseLock`, stores through pointers, and `read` and `write` next to locked pages
follow in `PageLocksTheorems`; walks are recursive functions, and what would
be an induction over their steps is again the absence of a least step that
goes wrong.

`NeverStops` needs that every assertion the code has on the way of a lock holds, and
that a page is found. For the locks of `->` the first is the hard one: the assertion on
a page that begins where the lock does (`base_alloc.cpp:915`) holds although the
search may have cut the lock before it visits that page, because what cut the lock
is a page in use, is apart from the other and so lies behind its end (`UsedPageFits`,
`SearchSound`). A page is found
since a page in use has an owner among the handles that hold a lock: with a free
handle there are fewer owners than big pages (`PageToSpare`), and a big page suits
every lock. `makeFittingLock` is content with any page, so there the pages of all
classes count: one that is not in use is on a free list, or locked and seen by the
search, which notes it in `unused` or gives it back (`FitSpotted`, `FindsClass`).
The bounds are sufficient. A program may hold more locks, when several share
a page or the blocks are small, and the theorems say nothing of those.

### SPI chips (`SpiChipsProofs`)

A call runs along a script whose length depends on the block, the chip and the FIFO, so
the proof first says what a script is. `Does(x, u, item, v)` is what an item does
in the transfer x: it leads from u to v, where a position `At(pushed, taken, low, open)`
counts the words given to the FIFO, the answers taken, and says whether the pin is low
and the transaction open.
A script is a segment (`Seg`) when it goes item by item from one position to another;
segments are put together by `\o`, by rows of items (`Each`) and by `FlattenSeq`, and so
`Begin`, `ReadChip` and `WriteChip` are segments from the start of a transfer to its
end for every block, every chip, and both ways to send. The invariant is

    ChipsInv == ApartInv /\ DataInv
    ApartInv == LoopOK /\ BusOK /\ TransferInv

`LoopOK` is about the loop over the chips and its block. `TransferInv` says that a transfer
is `Going`, with b words pushed and c answers taken, of which b - Len(tx) are sent, and
that the rest of the script is a segment from there; or that all is `Calm`. The positions
that a script visits keep pushed - taken within the FIFO, which gives the room for every
answer, and the number of the word says whether it is the last, so that the last byte of a
transfer is the one that raises its pin. `KeepApart` follows from `ApartInv` alone. A chip
that was left selected by a reset is why the first property begins with `started`:
`begin()` drives the pins one chip at a time.

`DataInv` adds what the chips hold. While a transfer is going, there is a d, the chips
when it began, such that the chip spoken to is `After(x, d, p)` for the p bytes sent:
instruction, address so far, bytes still expected, and the data with the first bytes of
the block in place; the others are as in d (`DataGoing`). The answers in `rx` and the bytes
in `buffer` are those of the block that d held there. Between transfers (`AtEase`) every
chip waits in sequential mode and all bytes are those before the call with the part
of the block that is done in place (`Stored`). One lemma has the chip take one byte
(`TakeByte`), one what it answers (`AnswerIs`), one joins the chips to one pool
(`BlockStored`): an address is on one chip only, and a chip's `AddrBytes` bytes of address
are exactly those it takes. `TypeTheorem` and
`RefinementTheorem` (the chips and their allocator implement `RemotePool`, each read
returning the bytes at its address) follow from
`ChipsInv`, for any number and sizes of chips, either build, any FIFO, and resets anywhere,
with one hypothesis:

    ChipsFit == \A k \in Chip : ChipSizes[k] \notin {Weight[2], Weight[3], Weight[4]}

A chip of such a size takes one byte of address less than it is sent, and
`spi_square_chip` shows the refinement fail. `KeepApart` does not need it.

### Left to TLC

- Liveness (`CallsReturn` in three modules) is out of reach of the prover.
- `NeverStops` of the lock runs beyond the bounds on held locks of `OverlappingRuns` and
  `FittingRuns`; both runs are within them.
- The restricted runs with a divergence: they show a counterexample.

## Plan

1. Done: page manager, locks, heap, C overloads, serial link, SPI chips, and the
   theorems above.
2. Next, composed: the heap on the paged memory; the paged memory on `RemotePool`.
3. Next, modelled: `ping()` in timed rounds; a host restarted without the board;
   sizes of the heap with their width.

## Not modelled

- *`newClass`, `newArray`, `deleteArray`.* They run constructors of the program
  through raw pointers into pages, between calls of the allocator. What these do is
  what `CleanPagesMatchStore` excludes, and the hazards say how it goes wrong
  (`alloc.h:133`, `:168`, `:190`); there is no promise left to check.
- *SD, static and stdio back ends.* A read or a write is one seek and one transfer,
  which is `store` of `BaseVAlloc`; errors are printed and ignored. The file that
  outlives the program is a hazard (`sd_alloc.h:86`).
- *Configuration and utilities.* Constants of the models, and functions without
  state.
- *Ordering and arithmetic of virtual pointers.* No state; equality, distance and
  wrapped pointers are modelled where the C overloads use them.
- Baud rates, timing in milliseconds, tracing and statistics, the pass-through
  device of the script, build files, tests, benchmarks and examples.
