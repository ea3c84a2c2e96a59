----------------------------- MODULE BaseVAlloc -----------------------------
(***************************************************************************)
(* The paged memory of base_alloc.cpp: the big pages that cache the pool,  *)
(* the rule that picks the page to swap, and raw read() and write(), which *)
(* look at the locked pages first.  Taking and releasing locks is in       *)
(* PageLocks; here the lists of locked pages are read but never filled.    *)
(*                                                                         *)
(* The program is single threaded, so a call is one step.  The members of  *)
(* the allocator are variables; the private functions of the class are     *)
(* operators from one allocator state (a record of those variables) to the *)
(* next, composed in the order of the calls.  A page list is the sequence  *)
(* of the page numbers it links, head first.  A page number is the index   *)
(* of the code plus one and 0 is its -1.  The buffer of a page is kept as  *)
(* a function on the addresses it holds: what an empty page or the rest of *)
(* a shrunk page still contains can never be seen.  On a PC ASSERT stops   *)
(* the program, here failed becomes TRUE and nothing happens any more; so  *)
(* does overrun, after which the behaviour of the code is undefined.       *)
(***************************************************************************)
EXTENDS Integers, Sequences, FiniteSets, FiniteSetsExt, SequencesExt

CONSTANTS PoolSize,       \* bytes of virtual memory; address 0 is the null pointer
          Val,            \* the values of a byte
          PageCount,      \* pages of each class
          PageSize,       \* bytes in a page of each class
          MaxCleanSkips,  \* PAGE_MAX_CLEAN_SKIPS
          SkipsModulus,   \* values of the 8-bit counter cleanSkips
          Varying,        \* a bound: the addresses at which bytes differ and change
          IOSizes         \* a bound: the sizes of the blocks read and written

Class == {"small", "medium", "big"}
Addr == 0 .. PoolSize - 1
BigSize == PageSize["big"]

ASSUME SizesAssumption ==
    /\ PoolSize \in Nat \ {0}
    /\ PageSize \in [Class -> Nat \ {0}]
    /\ PageSize["small"] <= PageSize["medium"]
    /\ PageSize["medium"] <= PageSize["big"]
(* start() makes page 0 the free one of every class. *)
ASSUME CountsAssumption == PageCount \in [Class -> Nat \ {0}]
ASSUME SkipsAssumption ==
    MaxCleanSkips \in Nat /\ SkipsModulus \in Nat /\ MaxCleanSkips < SkipsModulus

ASSUME BoundsAssumption == Varying \subseteq Addr /\ Val # {} /\ IOSizes \subseteq 1 .. BigSize

VARIABLES store,           \* what doRead() and doWrite() reach
          page,            \* LockPage of each class and page number
          free,            \* freeIndex and the next links from it
          locked,          \* lockedIndex and the next links from it
          nextPageToSwap,  \* the big page that is next in line
          failed,          \* an ASSERT of the code was false
          overrun,         \* a copy went past the end of a page's buffer
          call             \* the last call, with the block it read or wrote

allocVars == <<store, page, free, locked, nextPageToSwap, failed, overrun>>
vars == <<allocVars, call>>

(* The allocator state the operators below work on. *)
State == [store |-> store, page |-> page, free |-> free, locked |-> locked,
          nextPageToSwap |-> nextPageToSwap, failed |-> failed, overrun |-> overrun]

Becomes(s) == /\ store' = s.store
              /\ page' = s.page
              /\ free' = s.free
              /\ locked' = s.locked
              /\ nextPageToSwap' = s.nextPageToSwap
              /\ failed' = s.failed
              /\ overrun' = s.overrun

Require(s, condition) == [s EXCEPT !.failed = @ \/ ~condition]

Span(p, n) == p .. (p + n - 1)
Patch(f, d) == [a \in DOMAIN f |-> IF a \in DOMAIN d THEN d[a] ELSE f[a]]
IsBlock(p, n) == p # 0 /\ n \in 1 .. BigSize /\ Span(p, n) \subseteq Addr

(* The blocks of n bytes at p a program may have or write. *)
SomeByte == CHOOSE v \in Val : TRUE
Blocks(p, n) == {d \in [Span(p, n) -> Val] : \A a \in Span(p, n) \ Varying : d[a] = SomeByte}

-----------------------------------------------------------------------------
(* Big pages on the free list, by their position in the list.              *)

Loaded(pg) == pg.start # 0
Holds(pg, a) == a \in DOMAIN pg.data
Positions(s) == DOMAIN s.free["big"]
FreePage(s, k) == s.page["big"][s.free["big"][k]]
LoadedPositions(s) == {k \in Positions(s) : Loaded(FreePage(s, k))}
HeadOr0(list) == IF list = <<>> THEN 0 ELSE Head(list)

(* The pages of the class with f applied to those at positions K. *)
MapFree(s, K, f(_)) ==
    [s EXCEPT !.page["big"] = [i \in DOMAIN @ |->
        IF \E k \in K : s.free["big"][k] = i THEN f(@[i]) ELSE @[i]]]

(* Mutant: all pages become clean but only the first dirty one is written. *)
FirstWriterOnly(s, K, a) ==
    {k \in K : /\ FreePage(s, k).dirty /\ Holds(FreePage(s, k), a)
               /\ \A j \in K : FreePage(s, j).dirty => k <= j}
(* syncBigPage on the pages at positions K, in list order: a dirty page is *)
(* written to the pool, and where two of them hold an address the later    *)
(* one has the last word.                                                  *)
Writers(s, K, a) == {k \in K : FreePage(s, k).dirty /\ Holds(FreePage(s, k), a)}
SyncedStore(s, K) ==
    [a \in Addr |-> IF Writers(s, K, a) = {} THEN s.store[a]
                    ELSE FreePage(s, Max(Writers(s, K, a))).data[a]]
WriteBack(s, K) == [s EXCEPT !.store = SyncedStore(s, K)]
SyncBigPages(s, K) ==
    LET Clean(pg) == IF pg.dirty THEN [pg EXCEPT !.dirty = FALSE, !.cleanSkips = 0] ELSE pg
    IN  MapFree(WriteBack(s, K), K, Clean)

Invalidate(s, K) ==
    LET Empty(pg) == [pg EXCEPT !.start = 0, !.data = <<>>] IN MapFree(s, K, Empty)

(* findFreePage: the first free page that holds the whole block, or, with  *)
(* atstart, that begins at p; 0 when there is none.                        *)
FindFreePage(s, p, n, atstart) ==
    LET Fits(pg) == \/ atstart /\ pg.start = p
                    \/ ~atstart /\ pg.start <= p /\ p + n <= pg.start + pg.size
        fitting == {k \in LoadedPositions(s) : Fits(FreePage(s, k))}
    IN  IF fitting = {} THEN 0 ELSE Min(fitting)

(* Mutants: only the first, or only the last byte of the new page is       *)
(* compared with the others.                                               *)
OverlappingFirst(s, p) ==
    {k \in LoadedPositions(s) : p \in Span(FreePage(s, k).start, BigSize)}
OverlappingLast(s, p) ==
    {k \in LoadedPositions(s) : p + BigSize \in Span(FreePage(s, k).start, BigSize + 1)}

(* Pages that overlap, or touch, the page that would begin at p. *)
Overlapping(s, p) ==
    {k \in LoadedPositions(s) :
        LET first == FreePage(s, k).start
        IN  p \in Span(first, BigSize) \/ p + BigSize \in first .. first + BigSize}

SkippedOnce(pg) == [pg EXCEPT !.cleanSkips = (@ + 1) % SkipsModulus]
CountSkips(s, K) == MapFree(s, K, SkippedOnce)

(* Pages at which the search for a dirty page gives up: overlapping or     *)
(* empty ones, clean ones, and dirty ones that were passed over too often. *)
Stops(s, p) ==
    {k \in Positions(s) : \/ k \in Overlapping(s, p)
                          \/ ~Loaded(FreePage(s, k))
                          \/ ~FreePage(s, k).dirty
                          \/ SkippedOnce(FreePage(s, k)).cleanSkips >= MaxCleanSkips}

(* The dirty pages whose cleanSkips the search increments. *)
Skipped(s, p) ==
    {k \in LoadedPositions(s) \ Overlapping(s, p) :
        FreePage(s, k).dirty /\ \A j \in Stops(s, p) : k <= j}

(* The position of the page that is swapped out for the one at p.  *)
Victim(s, p) ==
    LET overlapping == Overlapping(s, p)
        empty == Positions(s) \ LoadedPositions(s)
        next == {k \in Positions(s) : s.free["big"][k] = s.nextPageToSwap}
    IN  CASE overlapping # {} -> Max(overlapping)
          [] overlapping = {} /\ empty # {} -> Max(empty)
          [] overlapping = {} /\ empty = {} /\ Stops(s, p) # {} -> Min(Stops(s, p))
          [] Stops(s, p) = {} -> IF next = {} THEN 0 ELSE Min(next)

Load(s, k, p) ==
    LET Filled(pg) == [pg EXCEPT !.start = p,
                                 !.data = [a \in Span(p, BigSize) \cap Addr |-> s.store[a]]]
    IN  MapFree(s, {k}, Filled)

(* Mutants: the queue goes on to the next page by number, or ends with the *)
(* list, instead of beginning again.                                       *)
AdvanceSwapByNumber(s, k, inTurn) ==
    [s EXCEPT !.nextPageToSwap = IF inTurn THEN @ + 1 ELSE HeadOr0(s.free["big"])]
AdvanceSwapToEnd(s, k, inTurn) ==
    [s EXCEPT !.nextPageToSwap =
        IF ~inTurn THEN HeadOr0(s.free["big"])
        ELSE IF k + 1 \in Positions(s) THEN s.free["big"][k + 1] ELSE 0]

(* A page swapped out of turn sends the queue back to the head of the list. *)
AdvanceSwap(s, k, inTurn) ==
    [s EXCEPT !.nextPageToSwap =
        IF inTurn /\ k + 1 \in Positions(s) THEN s.free["big"][k + 1] ELSE HeadOr0(s.free["big"])]

(* Mutant: only pages that overlap the new one are written to the pool. *)
SwapInOver(s, p, k) ==
    LET counted == CountSkips(s, Skipped(s, p))
        cleared == Invalidate(SyncBigPages(counted, Overlapping(s, p)), Overlapping(s, p))
    IN  Load(AdvanceSwap(cleared, k, Stops(s, p) = {}), k, p)

(* pullRawData after findFreePage failed: s with the page at position k    *)
(* swapped for the one that begins at p.                                   *)
SwapIn(s, p, k) ==
    LET counted == CountSkips(s, Skipped(s, p))
        cleared == Invalidate(SyncBigPages(counted, Overlapping(s, p)), Overlapping(s, p))
        synced  == SyncBigPages(cleared, {k} \cap LoadedPositions(cleared))
    IN  Load(AdvanceSwap(synced, k, Stops(s, p) = {}), k, p)

(* Mutant: a read makes a dirty page clean. *)
MarkUsedAsAsked(s, k, readonly) ==
    LET Used(pg) == [pg EXCEPT !.dirty = ~readonly] IN MapFree(s, {k}, Used)
MarkUsed(s, k, readonly) ==
    LET Used(pg) == [pg EXCEPT !.dirty = @ \/ ~readonly] IN MapFree(s, {k}, Used)

(* The end of pullRawData with the page at position k, or with none.       *)
UsePage(s, p, k, swap, readonly) ==
    IF k = 0 THEN [state |-> Require(s, FALSE), at |-> 0]
    ELSE [state |-> MarkUsed(IF swap THEN SwapIn(s, p, k) ELSE s, k, readonly), at |-> k]

(* pullRawData: the state in which a free page holds the block, and the    *)
(* position of that page.                                                  *)
PullRawData(s, p, n, readonly, forcestart) ==
    LET found == FindFreePage(s, p, n, forcestart)
    IN  UsePage(s, p, IF found # 0 THEN found ELSE Victim(s, p), found = 0, readonly)

Fill(s, k, d) ==
    LET Filled(pg) == [pg EXCEPT !.data = Patch(@, d)] IN MapFree(s, {k}, Filled)

(* pushRawData: the bytes d, a function on the block, put into a big page. *)
PutPulled(pull, d) == IF pull.state.failed THEN pull.state ELSE Fill(pull.state, pull.at, d)
PushRawData(s, p, n, d) == PutPulled(PullRawData(s, p, n, FALSE, FALSE), d)

-----------------------------------------------------------------------------
(* read() and write() walk the locked pages, small ones first.             *)

Tagged(s, c) == [j \in DOMAIN s.locked[c] |-> <<c, s.locked[c][j]>>]
LockedPages(s) == Tagged(s, "small") \o Tagged(s, "medium") \o Tagged(s, "big")
PageAt(s, q) == s.page[q[1]][q[2]]

LockSpan(pg) == Span(pg.start, pg.size)
Overlaps(pg, p, n) == LockSpan(pg) \cap Span(p, n) # {}

(* The positions the walk visits: it ends at a page with the whole block.  *)
Containing(s, p, n) ==
    {j \in DOMAIN LockedPages(s) : Span(p, n) \subseteq LockSpan(PageAt(s, LockedPages(s)[j]))}
Visited(s, p, n) ==
    {j \in DOMAIN LockedPages(s) :
        /\ \A k \in Containing(s, p, n) : j <= k
        /\ Overlaps(PageAt(s, LockedPages(s)[j]), p, n)}

(* Locked pages with a part of the block are copied to the big pages. *)
PushLocked(t, q) == PushRawData(t, PageAt(t, q).start, PageAt(t, q).size, PageAt(t, q).data)
Mirror(s, Q) ==
    LET order == LockedPages(s)
        after[k \in 0 .. Len(order)] ==
            IF k = 0 THEN s
            ELSE IF after[k - 1].failed \/ order[k] \notin Q THEN after[k - 1]
            ELSE PushLocked(after[k - 1], order[k])
    IN  IF Q = {} THEN s ELSE after[Len(order)]

(* read(): the state after the call and the bytes at the returned pointer, *)
(* which is into a locked page or into a big page.                         *)
ReadFrom(s, pg, p, n) == [state |-> s, data |-> Restrict(pg.data, Span(p, n))]
NothingRead(s) == [state |-> Require(s, FALSE), data |-> <<>>]
ReadPulled(pull, p, n) ==
    IF pull.state.failed THEN NothingRead(pull.state)
    ELSE ReadFrom(pull.state, FreePage(pull.state, pull.at), p, n)
ReadMirrored(s, p, n) ==
    IF s.failed THEN NothingRead(s) ELSE ReadPulled(PullRawData(s, p, n, TRUE, FALSE), p, n)

Partial(s, p, n) == {LockedPages(s)[j] : j \in Visited(s, p, n) \ Containing(s, p, n)}
ReadRaw(s, p, n) ==
    IF Containing(s, p, n) # {}
    THEN ReadFrom(Mirror(s, Partial(s, p, n)), PageAt(s, LockedPages(s)[Min(Containing(s, p, n))]), p, n)
    ELSE ReadMirrored(Mirror(s, Partial(s, p, n)), p, n)

(* A locked page that begins inside the block is given the whole rest of   *)
(* the block, which its buffer may be too small for.                       *)
OverrunsAt(s, q, p, n) ==
    p < PageAt(s, q).start /\ p + n - PageAt(s, q).start > PageSize[q[1]]

PutDirty(pg, d) == [pg EXCEPT !.dirty = TRUE, !.data = Patch(@, d)]
PutInPages(s, Q, d) ==
    [c \in Class |-> [i \in DOMAIN s.page[c] |->
        IF <<c, i>> \in Q THEN PutDirty(s.page[c][i], d) ELSE s.page[c][i]]]
PutInLocked(s, Q, p, n, d) ==
    IF Q = {} THEN s
    ELSE [s EXCEPT !.page = PutInPages(s, Q, d),
                   !.overrun = @ \/ \E q \in Q : OverrunsAt(s, q, p, n)]

(* write(): every locked page with a part of the block takes that part;    *)
(* the big pages take the block unless a locked page has all of it.        *)
WriteRaw(s, p, n, d) ==
    LET written == PutInLocked(s, {LockedPages(s)[j] : j \in Visited(s, p, n)}, p, n, d)
    IN  IF Containing(s, p, n) # {} THEN written ELSE PushRawData(written, p, n, d)

-----------------------------------------------------------------------------
NoCall == <<"none", <<>>>>
NewPage(c) == [start |-> 0, size |-> PageSize[c], locks |-> 0, cleanSkips |-> 0,
               dirty |-> FALSE, data |-> <<>>]

(* start() on a pool of any contents. *)
Init ==
    /\ store \in Blocks(0, PoolSize)
    /\ page = [c \in Class |-> [i \in 1 .. PageCount[c] |-> NewPage(c)]]
    /\ free = [c \in Class |-> [i \in 1 .. PageCount[c] |-> i]]
    /\ locked = [c \in Class |-> <<>>]
    /\ nextPageToSwap = 1
    /\ failed = FALSE
    /\ overrun = FALSE
    /\ call = NoCall

Returns(read) == Becomes(read.state) /\ call' = <<"read", read.data>>
Read(p, n) == ~failed /\ ~overrun /\ IsBlock(p, n) /\ Returns(ReadRaw(State, p, n))

Write(p, n, d) ==
    /\ ~failed /\ ~overrun /\ IsBlock(p, n)
    /\ Becomes(WriteRaw(State, p, n, d))
    /\ call' = <<"write", d>>

Flush ==
    /\ ~failed /\ ~overrun
    /\ Becomes(SyncBigPages(State, LoadedPositions(State)))
    /\ call' = NoCall

ClearPages ==
    LET all == LoadedPositions(State)
    IN  /\ ~failed /\ ~overrun
        /\ Becomes(Invalidate(SyncBigPages(State, all), all))
        /\ call' = NoCall

NextIO ==
    \/ \E p \in Addr, n \in IOSizes : Read(p, n)
    \/ \E p \in Addr, n \in IOSizes : \E d \in Blocks(p, n) : Write(p, n, d)
    \/ Flush
    \/ ClearPages

SpecIO == Init /\ [][NextIO]_vars

-----------------------------------------------------------------------------
(* Properties                                                              *)

Buffers(c) == UNION {UNION {[Span(p, n) \cap Addr -> Val] : p \in Addr} : n \in 0 .. PageSize[c]}
PageType(c) ==
    [start : Addr, size : 0 .. PageSize[c], locks : Nat,
     cleanSkips : 0 .. SkipsModulus - 1, dirty : BOOLEAN, data : Buffers(c)]

TypeOK ==
    /\ store \in [Addr -> Val]
    /\ \A c \in Class : page[c] \in [1 .. PageCount[c] -> PageType(c)]
    /\ \A c \in Class : free[c] \in Seq(1 .. PageCount[c]) /\ locked[c] \in Seq(1 .. PageCount[c])
    /\ nextPageToSwap \in 0 .. PageCount["big"]
    /\ failed \in BOOLEAN /\ overrun \in BOOLEAN

FreePages == {page["big"][free["big"][k]] : k \in DOMAIN free["big"]}

(* An address is cached by one big page at most: pullRawData clears every  *)
(* page the new one would overlap before it loads it, so that no byte can  *)
(* be changed in one page and read from another.                           *)
PagesDisjoint ==
    \A j, k \in DOMAIN free["big"] :
        j # k => \A a \in Addr : ~(/\ Holds(page["big"][free["big"][j]], a)
                                   /\ Holds(page["big"][free["big"][k]], a))

(* A page that is not dirty can be dropped: it holds what the pool holds.  *)
CleanPagesMatchStore ==
    \A pg \in FreePages : ~pg.dirty => \A a \in DOMAIN pg.data : pg.data[a] = store[a]

(* The page next in line for a swap is on the free list, so that a search  *)
(* in which nothing else turns up still finds a page: none of the calls    *)
(* runs into ASSERT(pageindex != -1).                                      *)
SwapAlwaysPossible ==
    /\ nextPageToSwap \in Range(free["big"])
    /\ ~failed

(* What the virtual memory contains, wherever each byte happens to be:     *)
(* locked pages come first, in the order read() visits them, then the free *)
(* big pages, then the pool.                                               *)
ContentsOf(s) ==
    LET order == LockedPages(s)
        inLocked(a) == {j \in DOMAIN order : Holds(PageAt(s, order[j]), a)}
        inFree(a) == {k \in Positions(s) : Holds(FreePage(s, k), a)}
    IN  [a \in Addr |-> IF inLocked(a) # {} THEN PageAt(s, order[Min(inLocked(a))]).data[a]
                        ELSE IF inFree(a) # {} THEN FreePage(s, Min(inFree(a))).data[a]
                        ELSE s.store[a]]
Contents == ContentsOf(State)

Flat == INSTANCE FlatMemory WITH mem <- Contents, MaxIO <- BigSize

(* The paged memory is a flat memory: however pages are swapped, flushed   *)
(* or cleared, read() returns what was written last to each address and    *)
(* write() changes no other byte.                                          *)
ImplementsFlatMemory == Flat!Spec

(* The pool is only written with what the memory contains: no write-back   *)
(* brings back an older value of a byte.                                   *)
WritesBackCurrentBytes == [][\A a \in Addr : store'[a] # store[a] => store'[a] = Contents[a]]_vars

(* After flush() and after clearPages() the pool alone has all the bytes.  *)
FlushCompletes == [][Flush \/ ClearPages => store' = Contents]_vars

=============================================================================
