------------------------------ MODULE PageLocks ------------------------------
(***************************************************************************)
(* Locking virtual data into pages: makeDataLock(), makeFittingLock() and  *)
(* releaseLock() of base_alloc.cpp, and the program that holds the locks   *)
(* and writes through the pointers they give it.                           *)
(*                                                                         *)
(* A handle stands for one lock the program holds (a VPtrLock, or the      *)
(* MemberWrapper of one -> expression): the address it was asked for, the  *)
(* bytes it got, and the page its pointer points into.                     *)
(***************************************************************************)
EXTENDS BaseVAlloc

CONSTANTS Handles,       \* locks the program can hold at a time
          LocksModulus,  \* values of the 8-bit counter locks
          LockSizes      \* a bound: the sizes of the blocks it locks

ASSUME LocksAssumption == LocksModulus \in Nat \ {0} /\ LockSizes \subseteq 1 .. BigSize

VARIABLE held            \* the lock behind each handle

lockVars == <<allocVars, held>>
lvars == <<vars, held>>

NoLock == [ptr |-> 0]
HeldHandles == {h \in Handles : held[h] # NoLock}

ClassOrder == <<"small", "medium", "big">>
Smaller(m, n) == IF m < n THEN m ELSE n
PageOf(s, c, i) == s.page[c][i]
SetPage(s, c, i, pg) == [s EXCEPT !.page[c][i] = pg]

(* pg when it begins at p and is n bytes long, its bytes taken from d. *)
Resized(pg, p, n, d) ==
    [pg EXCEPT !.start = p, !.size = n, !.data = [a \in Span(p, n) \cap Addr |-> d[a]]]

-----------------------------------------------------------------------------
(* The bytes below the locks.                                              *)

Holders(s, a) == {k \in Positions(s) : Holds(FreePage(s, k), a)}

(* copyRawData: the first free page that holds an address has its byte. *)
RawByte(s, a) == IF Holders(s, a) = {} THEN s.store[a] ELSE FreePage(s, Min(Holders(s, a))).data[a]

(* saveRawData: each byte goes where copyRawData would find it.  A page is *)
(* dirty afterwards if it was, or if a byte changed.                       *)
SaveRawData(s, d) ==
    LET Part(k) == {a \in DOMAIN d : Holders(s, a) # {} /\ Min(Holders(s, a)) = k}
        Position(i) == CHOOSE k \in Positions(s) : s.free["big"][k] = i
        Saved(i) ==
            LET pg == s.page["big"][i]
                part == IF i \in Range(s.free["big"]) THEN Part(Position(i)) ELSE {}
            IN  IF part = {} THEN pg
                ELSE [pg EXCEPT !.dirty = @ \/ \E a \in part : pg.data[a] # d[a],
                                !.data = Patch(@, Restrict(d, part))]
    IN  [s EXCEPT !.page["big"] = [i \in DOMAIN @ |-> Saved(i)],
                  !.store = Patch(@, Restrict(d, {a \in DOMAIN d : Holders(s, a) = {}}))]

(* Mutant: the test of the dirty flag is the wrong way round. *)
SyncLockedPageIfClean(s, c, i) == IF PageOf(s, c, i).dirty THEN s ELSE SaveRawData(s, PageOf(s, c, i).data)
SyncLockedPage(s, c, i) == IF PageOf(s, c, i).dirty THEN SaveRawData(s, PageOf(s, c, i).data) ELSE s

-----------------------------------------------------------------------------
(* Moving a page between the free and the locked list of its class.        *)

(* The page at position k of the free list becomes the head of the locked  *)
(* list.                                                                   *)
MoveToLocked(s, c, k) ==
    LET rest == RemoveAt(s.free[c], k)
        i == s.free[c][k]
    IN  IF s.failed THEN s
        ELSE [s EXCEPT !.locked[c] = <<i>> \o @,
                       !.free[c] = rest,
                       !.nextPageToSwap = IF c = "big" /\ @ = i THEN HeadOr0(rest) ELSE @]

(* Mutant: the page that was loaded is cut without being written back. *)
CutUnsynced(pull, n) == pull.state
(* A big page that was loaded for a lock is written back before it is cut. *)
SyncedToCut(pull, n) ==
    IF n < BigSize /\ pull.at # 0 THEN SyncBigPages(pull.state, {pull.at}) ELSE pull.state
LockPulled(pull, n) == MoveToLocked(SyncedToCut(pull, n), "big", pull.at)

(* lockPage: the page at the head of the free list, for a big one the page *)
(* that begins at p.                                                       *)
LockPage(s, c, p, n) ==
    IF c = "big" THEN LockPulled(PullRawData(s, p, n, TRUE, TRUE), n) ELSE MoveToLocked(s, c, 1)

(* Mutant: the head of the locked list is unlinked, whichever page it is. *)
UnlinkHead(list, i) == Tail(list)
Unlink(list, i) == RemoveAt(list, CHOOSE k \in DOMAIN list : list[k] = i)

(* freeLockedPage: small and medium pages, and big ones that were shrunk,  *)
(* pass their bytes on and end up empty (what the code leaves in a free    *)
(* small or medium page is never looked at); a whole big page stays        *)
(* loaded.  An empty page keeps its dirty flag.                            *)
FreeLockedPage(s, c, i) ==
    LET emptied == c # "big" \/ PageOf(s, c, i).size < BigSize
        synced == IF emptied THEN SyncLockedPage(s, c, i) ELSE s
        unlocked == [PageOf(s, c, i) EXCEPT !.locks = 0]
        empty == [unlocked EXCEPT !.start = 0, !.size = PageSize[c], !.data = <<>>]
    IN  [SetPage(synced, c, i, IF emptied THEN empty ELSE unlocked)
         EXCEPT !.locked[c] = Unlink(@, i),
                !.free[c] = <<i>> \o @,
                !.nextPageToSwap = IF c = "big" /\ @ = 0 THEN i ELSE @]

(* Mutant: the last lock on a page does not count. *)
InUseTwice(pg) == pg.locks > 1
InUse(pg) == pg.locks > 0
UnusedLocked(s, c) == {j \in DOMAIN s.locked[c] : ~InUse(PageOf(s, c, s.locked[c][j]))}

(* Mutant: a lock that runs into the page by one byte does not count. *)
EndOverlapsByTwo(pg, p, n) == p < pg.start /\ p + n > pg.start + 1
(* A lock that begins in front of the page runs into it, or begins inside. *)
EndOverlaps(pg, p, n) == p < pg.start /\ p + n > pg.start
BeginOverlaps(pg, p) == p > pg.start /\ p < pg.start + pg.size

(* Mutant: only the first lock on a page is counted. *)
CountFirstLock(s, c, i, ro) == SetPage(s, c, i, [PageOf(s, c, i) EXCEPT !.dirty = @ \/ ~ro, !.locks = 1])
(* The last steps of both kinds of lock, on the page that was found. *)
CountLock(s, c, i, ro) ==
    SetPage(s, c, i, [PageOf(s, c, i) EXCEPT !.dirty = @ \/ ~ro, !.locks = (@ + 1) % LocksModulus])

-----------------------------------------------------------------------------
(* makeDataLock: a lock on exactly the block, at the price of shrinking    *)
(* the locks it begins in.  The search through the locked pages, in the    *)
(* order of the lists, keeps what it knows in a record:                    *)
(*   class, size   the class of page to use and the size of the new lock   *)
(*   at            the page of that class that already begins at p         *)
(*   old, second   a page without locks to use again, of the class or of a *)
(*                 larger one                                              *)
(*   fix           the lock begins inside another                          *)
(*   shrunk, done  the size was reduced; the search is over                *)

(* Mutant: a byte more than a small page has goes into one. *)
ClassForOneMore(n) == IF n <= PageSize["small"] + 1 THEN "small"
                      ELSE IF n <= PageSize["medium"] THEN "medium" ELSE "big"
ClassFor(n) == IF n <= PageSize["small"] THEN "small"
               ELSE IF n <= PageSize["medium"] THEN "medium" ELSE "big"

(* The locked page q begins where the new lock does. *)
SameStart(f, q, pg) ==
    LET c == q[1]
        n == IF PageSize[c] < PageSize[f.class] THEN Smaller(f.size, PageSize[c]) ELSE f.size
        excess == Restrict(pg.data, {a \in DOMAIN pg.data : a >= pg.start + f.size})
        trimmed == SetPage(SaveRawData(f.state, excess), c, q[2], Resized(pg, pg.start, f.size, pg.data))
    IN  IF f.class # c /\ ~InUse(pg) THEN [f EXCEPT !.state = FreeLockedPage(@, c, q[2])]
        ELSE IF f.class # c THEN [f EXCEPT !.class = c, !.size = n, !.at = q[2], !.done = pg.size = n]
        ELSE IF pg.size <= f.size THEN [f EXCEPT !.at = q[2], !.done = pg.size = f.size]
        ELSE [f EXCEPT !.state = Require(trimmed, ~InUse(pg)), !.at = q[2], !.done = TRUE]

(* The locked page q begins elsewhere. *)
OtherStart(f, q, pg, p) ==
    IF InUse(pg)
    THEN IF EndOverlaps(pg, p, f.size) THEN [f EXCEPT !.size = pg.start - p, !.shrunk = TRUE]
         ELSE [f EXCEPT !.fix = @ \/ BeginOverlaps(pg, p)]
    ELSE IF EndOverlaps(pg, p, f.size) \/ BeginOverlaps(pg, p)
         THEN [f EXCEPT !.state = FreeLockedPage(@, q[1], q[2])]
    ELSE IF f.old # 0 THEN f
    ELSE IF f.class = q[1] THEN [f EXCEPT !.old = q[2]]
    ELSE IF f.second = <<>> /\ PageSize[f.class] < PageSize[q[1]] THEN [f EXCEPT !.second = q]
    ELSE f

Consider(f, q, p) ==
    LET pg == PageAt(f.state, q)
    IN  IF f.done \/ f.state.failed THEN f
        ELSE IF pg.start = p THEN SameStart(f, q, pg) ELSE OtherStart(f, q, pg, p)

NoneFound(s, n) ==
    [state |-> s, class |-> ClassFor(n), size |-> n, at |-> 0, old |-> 0, second |-> <<>>,
     fix |-> FALSE, shrunk |-> FALSE, done |-> FALSE]
SearchLocked(s, p, n) ==
    LET order == LockedPages(s)
        after[k \in 0 .. Len(order)] ==
            IF k = 0 THEN NoneFound(s, n) ELSE Consider(after[k - 1], order[k], p)
    IN  after[Len(order)]

(* A page that begins at the same address is big enough already, or it can *)
(* grow; and nothing is to be cut off for it.                              *)
CheckedSearch(f) ==
    [f EXCEPT !.state = Require(@, f.at = 0 \/ (~f.fix /\ f.size >= PageOf(@, f.class, f.at).size))]

(* A big page is too precious for a lock that was shrunk to the size of a  *)
(* smaller page: use a free or unlocked one of those, if there is any.     *)
MoveToSmaller(f) ==
    LET s == f.state
        usable == {c \in {"small", "medium"} :
                      f.size <= PageSize[c] /\ (s.free[c] # <<>> \/ UnusedLocked(s, c) # {})}
        c == IF "small" \in usable THEN "small" ELSE "medium"
        old == IF s.free[c] # <<>> THEN f.old ELSE s.locked[c][Min(UnusedLocked(s, c))]
    IN  IF /\ ~s.failed /\ f.shrunk /\ f.class = "big" /\ usable # {}
           /\ f.at = 0 \/ ~InUse(PageOf(s, "big", f.at))
        THEN [f EXCEPT !.class = c, !.old = old, !.at = 0,
                       !.state = IF f.at = 0 THEN @ ELSE FreeLockedPage(@, "big", f.at)]
        ELSE f

(* A free page was taken: it is now the head of the locked list. *)
Fresh(s, c) ==
    [state |-> s, class |-> c, at |-> IF s.failed THEN 0 ELSE Head(s.locked[c]), fresh |-> TRUE]
(* A page without locks is used again, its bytes passed on. *)
Reused(s, c, i) ==
    LET synced == SyncLockedPage(s, c, i)
    IN  [state |-> SetPage(synced, c, i, [PageOf(synced, c, i) EXCEPT !.dirty = FALSE]),
         class |-> c, at |-> i, fresh |-> FALSE]

(* The page of a lock that has none yet: a free one of the class, else of  *)
(* a larger class if there is no unlocked one of the class either; else    *)
(* an unlocked one.                                                        *)
PageForLock(f, p) ==
    LET s == f.state
        larger == {c \in {"medium", "big"} : PageSize[f.class] < PageSize[c] /\ s.free[c] # <<>>}
        c == IF s.free[f.class] # <<>> \/ f.old # 0 \/ larger = {} THEN f.class
             ELSE IF "medium" \in larger THEN "medium" ELSE "big"
    IN  IF s.free[c] # <<>> THEN Fresh(LockPage(s, c, p, f.size), c)
        ELSE IF f.old # 0 THEN Reused(s, c, f.old)
        ELSE IF f.second # <<>> THEN Reused(s, f.second[1], f.second[2])
        ELSE [state |-> Require(s, FALSE), class |-> c, at |-> 0, fresh |-> FALSE]

(* The new lock takes the bytes of the page it begins in, which is cut off *)
(* there, and the others from the big page it got or from below the locks. *)
FillLock(s, c, i, p, n, fresh, fix) ==
    LET cut == {q \in Range(LockedPages(s)) : fix /\ q # <<c, i>> /\ BeginOverlaps(PageAt(s, q), p)}
        Byte(a) == IF \E q \in cut : Holds(PageAt(s, q), a)
                   THEN PageAt(s, CHOOSE q \in cut : Holds(PageAt(s, q), a)).data[a]
                   ELSE IF c = "big" /\ fresh THEN PageOf(s, c, i).data[a] ELSE RawByte(s, a)
        filled == Resized(PageOf(s, c, i), p, n, [a \in Span(p, n) |-> Byte(a)])
        CutOff(pg) == Resized(pg, pg.start, p - pg.start, pg.data)
    IN  Require([s EXCEPT !.page = [d \in Class |-> [j \in DOMAIN @[d] |->
                    IF <<d, j>> = <<c, i>> THEN filled
                    ELSE IF <<d, j>> \in cut THEN CutOff(@[d][j]) ELSE @[d][j]]]],
                Cardinality(cut) <= 1)

(* A page that already begins at p gets the bytes it did not have. *)
GrownLock(s, c, i, p, n) ==
    LET old == PageOf(s, c, i)
        Byte(a) == IF Holds(old, a) THEN old.data[a] ELSE RawByte(s, a)
    IN  SetPage(s, c, i, Resized(old, p, n, [a \in Span(p, n) |-> Byte(a)]))

(* What a call returns: the state after it and the lock it gives out.  The *)
(* size is asserted by makeDataLock; makeFittingLock cuts it to fit.       *)
Stopped(s) == [state |-> s, lock |-> NoLock]
GiveLock(s, c, i, p, n, ro) ==
    IF s.failed THEN Stopped(s)
    ELSE [state |-> Require(CountLock(s, c, i, ro), n <= PageSize[c]),
          lock |-> [ptr |-> p, size |-> n, ro |-> ro, page |-> <<c, i>>,
                    offset |-> p - PageOf(s, c, i).start]]

NewLock(got, f, p, ro) ==
    IF got.state.failed THEN Stopped(got.state)
    ELSE GiveLock(FillLock(got.state, got.class, got.at, p, f.size, got.fresh, f.fix),
                  got.class, got.at, p, f.size, ro)

LockFound(f, p, ro) ==
    IF f.state.failed THEN Stopped(f.state)
    ELSE IF f.at = 0 THEN NewLock(PageForLock(f, p), f, p, ro)
    ELSE GiveLock(GrownLock(f.state, f.class, f.at, p, f.size), f.class, f.at, p, f.size, ro)

MakeDataLock(s, p, n, ro) == LockFound(MoveToSmaller(CheckedSearch(SearchLocked(s, p, n))), p, ro)

-----------------------------------------------------------------------------
(* makeFittingLock: a lock on as much of the block as can be had without   *)
(* changing any other lock, which may be part of an existing lock.         *)

ConsiderFitting(f, q, p) ==
    LET pg == PageAt(f.state, q)
    IN  IF f.at # <<>> THEN f
        ELSE IF p \in LockSpan(pg) THEN [f EXCEPT !.at = q]
        ELSE IF EndOverlaps(pg, p, f.size) /\ ~InUse(pg)
             THEN [f EXCEPT !.state = FreeLockedPage(@, q[1], q[2])]
        ELSE [f EXCEPT !.size = IF EndOverlaps(pg, p, @) THEN pg.start - p ELSE @,
                       !.unused[q[1]] = IF @ = 0 /\ ~InUse(pg) THEN q[2] ELSE @]

NoFit(s, n) ==
    [state |-> s, size |-> Smaller(n, BigSize), at |-> <<>>, unused |-> [c \in Class |-> 0]]
SearchFitting(s, p, n) ==
    LET order == LockedPages(s)
        after[k \in 0 .. Len(order)] ==
            IF k = 0 THEN NoFit(s, n) ELSE ConsiderFitting(after[k - 1], order[k], p)
    IN  after[Len(order)]

(* The largest class with a page to be had that the lock fits in, else the *)
(* largest class with a page at all, which the lock is cut to; 0 if none.  *)
FittingClass(f) ==
    LET usable == {k \in DOMAIN ClassOrder :
                      f.state.free[ClassOrder[k]] # <<>> \/ f.unused[ClassOrder[k]] # 0}
        fitting == {k \in usable : f.size <= PageSize[ClassOrder[k]]}
    IN  IF fitting # {} THEN Max(fitting) ELSE IF usable # {} THEN Max(usable) ELSE 0

(* The page that was found takes the block: a big one has it already. *)
FillFitting(got, p, n, ro) ==
    LET s == got.state
        pg == PageOf(s, got.class, got.at)
        bytes == IF got.class = "big" /\ got.fresh THEN pg.data ELSE [a \in Span(p, n) |-> RawByte(s, a)]
    IN  IF s.failed THEN Stopped(s)
        ELSE GiveLock(SetPage(s, got.class, got.at, Resized(pg, p, n, bytes)), got.class, got.at, p, n, ro)

NewFitting(f, c, n, p, ro) ==
    IF f.state.free[c] # <<>> THEN FillFitting(Fresh(LockPage(f.state, c, p, n), c), p, n, ro)
    ELSE FillFitting(Reused(f.state, c, f.unused[c]), p, n, ro)

(* The block begins in the page f.at: part of it is a second lock there. *)
ShareLock(f, p, ro) ==
    LET pg == PageAt(f.state, f.at)
    IN  GiveLock(f.state, f.at[1], f.at[2], p, Smaller(f.size, pg.start + pg.size - p), ro)

FittingFound(f, p, ro) ==
    LET c == ClassOrder[FittingClass(f)]
    IN  IF f.at # <<>> THEN ShareLock(f, p, ro)
        ELSE IF FittingClass(f) = 0 THEN Stopped(Require(f.state, FALSE))
        ELSE NewFitting(f, c, Smaller(f.size, PageSize[c]), p, ro)

MakeFittingLock(s, p, n, ro) == FittingFound(SearchFitting(s, p, n), p, ro)

(* Mutant: big pages are not given back. *)
KeepBig(s, p) == s
(* A locked big page that holds p goes back to those for input and output. *)
GiveBackBig(s, p) ==
    LET holding == {j \in DOMAIN s.locked["big"] : p \in LockSpan(PageOf(s, "big", s.locked["big"][j]))}
    IN  IF holding = {} THEN s ELSE FreeLockedPage(s, "big", s.locked["big"][Min(holding)])

(* releaseLock(p): one lock less on the first locked page that holds p. *)
ReleaseLock(s, p) ==
    LET holding == {j \in DOMAIN LockedPages(s) : p \in LockSpan(PageAt(s, LockedPages(s)[j]))}
        q == LockedPages(s)[Min(holding)]
        pg == PageAt(s, q)
        released == SetPage(s, q[1], q[2], [pg EXCEPT !.locks = @ - 1])
    IN  IF holding = {} \/ ~InUse(pg) THEN Require(s, FALSE)
        ELSE IF pg.locks > 1 THEN released ELSE GiveBackBig(released, p)

-----------------------------------------------------------------------------
(* The program.                                                            *)

InitLocks == Init /\ held = [h \in Handles |-> NoLock]

Running == ~failed /\ ~overrun

TakeLock(h, made) ==
    /\ Running /\ held[h] = NoLock
    /\ Becomes(made.state)
    /\ held' = [held EXCEPT ![h] = made.lock]
    /\ call' = NoCall

DataLock(h, p, n, ro) == IsBlock(p, n) /\ TakeLock(h, MakeDataLock(State, p, n, ro))
FittingLock(h, p, n, ro) == IsBlock(p, n) /\ TakeLock(h, MakeFittingLock(State, p, n, ro))

Release(h) ==
    /\ Running /\ held[h] # NoLock
    /\ Becomes(ReleaseLock(State, held[h].ptr))
    /\ held' = [held EXCEPT ![h] = NoLock]
    /\ call' = NoCall

PageBehind(h) == page[held[h].page[1]][held[h].page[2]]

(* The address whose byte is now where the pointer of h finds that of a. *)
Reached(h, a) == PageBehind(h).start + held[h].offset + (a - held[h].ptr)

(* The page of h still has the byte: no newer lock took it away.  A        *)
(* program uses no others, for its pointer would reach a left-over copy.   *)
StillHeld(h, a) == Reached(h, a) = a /\ Holds(PageBehind(h), a)

(* The program stores a byte through the pointer of a lock that is not     *)
(* read-only.                                                              *)
WriteLocked(h, a, d) ==
    /\ Running /\ held[h] # NoLock
    /\ ~held[h].ro /\ a \in Span(held[h].ptr, held[h].size) /\ StillHeld(h, a)
    /\ page' = [page EXCEPT ![held[h].page[1]][held[h].page[2]].data = Patch(@, d)]
    /\ call' = <<"write", d>>
    /\ UNCHANGED <<store, free, locked, nextPageToSwap, failed, overrun, held>>

(* It loads a byte through the pointer of a lock. *)
ReadLocked(h, a) ==
    /\ Running /\ held[h] # NoLock
    /\ a \in Span(held[h].ptr, held[h].size) /\ StillHeld(h, a)
    /\ call' = <<"read", [b \in {a} |-> PageBehind(h).data[a]]>>
    /\ UNCHANGED <<allocVars, held>>

RawIO == NextIO /\ UNCHANGED held
UseLocks ==
    \E h \in Handles :
        \/ Release(h)
        \/ \E a \in Addr : ReadLocked(h, a) \/ \E d \in Blocks(a, 1) : WriteLocked(h, a, d)

(* Programs differ in the locks they ask for while others are held.  But   *)
(* for those of NextAny, they use the raw functions only while a big page  *)
(* is free, and do not write past the page of a lock that begins inside    *)
(* the block written.                                                      *)
CarefulIO == free["big"] # <<>> /\ RawIO /\ ~overrun'

Separate(p, n) ==
    \A h \in HeldHandles : \/ Span(held[h].ptr, held[h].size) \cap Span(p, n) = {}
                           \/ held[h].ptr = p /\ held[h].size = n

(* The block does not end inside an older lock, and where it begins with   *)
(* an older lock it is as long.                                            *)
EndsBeyond(p, n) ==
    \A h \in HeldHandles :
        /\ p = held[h].ptr => n = held[h].size
        /\ p \in Span(held[h].ptr, held[h].size) => p + n >= held[h].ptr + held[h].size

(* One that uses ->, on structures that overlap as EndsBeyond allows or not *)
(* at all.                                                                 *)
NextOverlapping ==
    \/ CarefulIO
    \/ UseLocks
    \/ \E h \in Handles, p \in Addr, n \in LockSizes, ro \in BOOLEAN :
          EndsBeyond(p, n) /\ (ro => Separate(p, n)) /\ DataLock(h, p, n, ro)

(* One that uses VPtrLock only, on any blocks. *)
NextFitting ==
    \/ CarefulIO
    \/ UseLocks
    \/ \E h \in Handles, p \in Addr, n \in LockSizes, ro \in BOOLEAN :
          FittingLock(h, p, n, ro)

(* Any program. *)
NextAny ==
    \/ RawIO
    \/ UseLocks
    \/ \E h \in Handles, p \in Addr, n \in LockSizes, ro \in BOOLEAN :
          DataLock(h, p, n, ro) \/ FittingLock(h, p, n, ro)

SpecOverlapping == InitLocks /\ [][NextOverlapping]_lvars
SpecFitting == InitLocks /\ [][NextFitting]_lvars
SpecAny == InitLocks /\ [][NextAny]_lvars

-----------------------------------------------------------------------------
(* Properties                                                              *)

LockType == [ptr : Addr, size : 1 .. BigSize, ro : BOOLEAN,
             page : UNION {{c} \X (1 .. PageCount[c]) : c \in Class}, offset : Nat]
LocksTypeOK == TypeOK /\ held \in [Handles -> LockType \cup {NoLock}]

(* Every page is on one of the two lists of its class, once. *)
ListsPartitionPages ==
    \A c \in Class :
        /\ Range(free[c]) \cup Range(locked[c]) = 1 .. PageCount[c]
        /\ Len(free[c]) + Len(locked[c]) = PageCount[c]

(* "The data is guaranteed to stay in a memory page" (manual.md:262-264):  *)
(* as long as a lock is held its page holds the bytes that were locked,    *)
(* where its pointer expects them, and counts the lock.                    *)
LockedDataStays ==
    \A h \in HeldHandles :
        /\ \A a \in Span(held[h].ptr, held[h].size) : StillHeld(h, a)
        /\ held[h].page[2] \in Range(locked[held[h].page[1]])

(* Only a lock of that very byte takes a byte away from a lock: what raw   *)
(* input and output, releases and locks elsewhere do leaves the bytes of a *)
(* lock where its pointer finds them, in a page of the locked list.        *)
OnlyNewLocksTakeBytes ==
    [][\A h \in HeldHandles : held'[h] = held[h] =>
          /\ \A a \in Span(held[h].ptr, held[h].size) : StillHeld(h, a) =>
                \/ StillHeld(h, a)'
                \/ \E g \in Handles : /\ held[g] = NoLock /\ held'[g] # NoLock
                                      /\ a \in Span(held'[g].ptr, held'[g].size)
                                      /\ StillHeld(g, a)'
          /\ held[h].page[2] \in Range(locked'[held[h].page[1]])]_lvars

(* A page counts the locks that are held on it, and no others. *)
LocksCounted ==
    \A c \in Class : \A i \in 1 .. PageCount[c] :
        page[c][i].locks = Cardinality({h \in HeldHandles : held[h].page = <<c, i>>})

(* An address is in one locked page at most. *)
LockedPagesDisjoint ==
    \A j, k \in DOMAIN LockedPages(State) :
        j # k => LockSpan(PageAt(State, LockedPages(State)[j]))
                 \cap LockSpan(PageAt(State, LockedPages(State)[k])) = {}

(* The big pages that do input and output are not lost to locks: only      *)
(* those with a lock on them are taken off their list.                     *)
BigPagesComeBack == \A i \in Range(locked["big"]) : page["big"][i].locks > 0

(* No program that keeps to the rules runs into an ASSERT. *)
NeverStops == ~failed

(* "copy stuff that fits in page" (base_alloc.cpp:803): a write that runs   *)
(* into a locked page does not copy past the end of its buffer.            *)
WritesFitLockedPages == ~overrun

(* A program that reads and writes through its locks and through the raw   *)
(* functions at the same time sees one flat memory.                        *)
LocksImplementFlatMemory == Flat!Spec
=============================================================================
