------------------------- MODULE PageLocksTheorems -------------------------
(***************************************************************************)
(* The theorems about PageLocks, for any pool, page sizes, page counts and *)
(* handles. The invariant of any program is AnyInv: the allocator state is *)
(* well-formed (ShapeBut). With fewer handles than values of the counter   *)
(* of a page (FewHandles), Core adds that locked pages are apart, that a   *)
(* page counts the locks that are held on it and that the pointer of a     *)
(* lock is in its page. For programs that use ->, Exact adds that each     *)
(* pointer is the start of its page and that the page is not longer than   *)
(* the lock. For programs that use VPtrLock, Within adds that the page has *)
(* all bytes of the lock. FlatInv is what the refinement of FlatMemory     *)
(* needs on top: the contents, and that the page of a lock for writing is  *)
(* dirty.                                                                  *)
(*                                                                         *)
(* In order: releaseLock(), stores through a pointer, read() and write()   *)
(* next to locked pages, makeFittingLock(), each with what it does to the  *)
(* pages and to the memory; the steps; the invariants, one after the       *)
(* other, and the theorems that follow from them; at last, that no         *)
(* assertion fails while few enough locks are held.                        *)
(***************************************************************************)
EXTENDS PageLocksProofs

(* What is remembered does not depend on the numbers of locks, and a page  *)
(* may be dirty although its bytes are those below.                        *)
LEMMA LooksSame ==
  ASSUME NEW s, NEW t, Kept(s, t), \A q : IsLockedPage(t, q) <=> IsLockedPage(s, q),
         \A q : IsLockedPage(s, q) =>
            /\ PageAt(t, q).size = PageAt(s, q).size /\ PageAt(t, q).data = PageAt(s, q).data
            /\ PageAt(s, q).dirty => PageAt(t, q).dirty
  PROVE  Remembers(s, t)
<1>1. Short(s) => Short(t)
    BY DEF Short
<1>2. ASSUME NEW c, MemIs(s, c, {}) PROVE MemIs(t, c, {})
  <2>1. PICK m : Agrees(s, m) /\ MemOf(s, c, {}, m)
      BY <1>2 DEF MemIs
  <2>2. Agrees(t, m)
      BY <2>1 DEF Kept
  <2>3. \A q : IsLockedPage(t, q) => \A a \in Addr : Holds(PageAt(t, q), a) =>
            PageAt(t, q).data[a] = c[a] /\ (PageAt(t, q).dirty \/ m[a] = c[a])
      BY <2>1 DEF MemOf, Holds
  <2>4. \A a \in Addr : (\E q : IsLockedPage(t, q) /\ Holds(PageAt(t, q), a)) \/ m[a] = c[a]
      BY <2>1 DEF MemOf, Holds
  <2>5. MemOf(t, c, {}, m)
      BY <2>3, <2>4 DEF MemOf
  <2> QED BY <2>2, <2>5 DEF MemIs
<1> QED BY <1>1, <1>2 DEF Remembers

-----------------------------------------------------------------------------
(* Releasing a lock                                                        *)
OneLess(s, c, i) == SetPage(s, c, i, [s.page[c][i] EXCEPT !.locks = s.page[c][i].locks - 1])
OneLessAs(s, t, q) ==
    /\ ShapeBut(t, {}) /\ t.failed = s.failed /\ t.overrun = s.overrun /\ Remembers(s, t)
    /\ \A r : IsLockedPage(t, r) <=> IsLockedPage(s, r)
    /\ \A r : IsLockedPage(s, r) /\ r # q => PageAt(t, r) = PageAt(s, r)
    /\ PageAt(t, q).start = PageAt(s, q).start /\ PageAt(t, q).size = PageAt(s, q).size
    /\ PageAt(t, q).data = PageAt(s, q).data /\ PageAt(t, q).dirty = PageAt(s, q).dirty
    /\ \A c \in Class : \A i \in Pages1(c) :
           t.page[c][i].locks = IF <<c, i>> = q THEN s.page[c][i].locks - 1 ELSE s.page[c][i].locks
(* One lock less on a page that has some changes nothing else.             *)
LEMMA CountsDown ==
  ASSUME NEW s, ShapeBut(s, {}), NEW c \in Class, NEW i \in Pages1(c), IsLocked(s, c, i), s.page[c][i].locks > 0
  PROVE  OneLessAs(s, OneLess(s, c, i), <<c, i>>)
<1> DEFINE pg == s.page[c][i]
           rp == [pg EXCEPT !.locks = pg.locks - 1]
           t == OneLess(s, c, i)
           q == <<c, i>>
<1> SUFFICES OneLessAs(s, t, q)
    OBVIOUS
<1>1. pg \in AnyPage /\ LockedOK(pg, c)
  <2>1. <<c, i>> \notin {}
      OBVIOUS
  <2> QED BY <2>1, LockedPageIs
<1>2. /\ rp \in AnyPage /\ rp.start = pg.start /\ rp.size = pg.size /\ rp.data = pg.data /\ rp.dirty = pg.dirty
      /\ rp.locks = pg.locks - 1
  <2>1. pg.locks \in Nat /\ pg.locks > 0
      BY <1>1 DEF AnyPage
  <2>2. pg.locks - 1 \in Nat
      BY <2>1
  <2> HIDE DEF pg
  <2> QED BY <1>1, <2>2 DEF AnyPage
<1>3. LockedOK(rp, c)
    BY <1>1, <1>2 DEF LockedOK, LockSpan
<1>4. t = SetPage(s, c, i, rp)
    BY DEF OneLess
<1>5. PageAt(s, q) = pg /\ IsLockedPage(s, q)
    BY DEF PageAt, IsLockedPage
<1> HIDE DEF pg, rp, t
<1>6. ShapeBut(t, {} \ {<<c, i>>}) /\ PageSet(s, t, <<c, i>>, rp)
    BY <1>2, <1>3, <1>4, SetsLocked
<1>7. ShapeBut(t, {})
  <2>1. {} \ {<<c, i>>} = {}
      OBVIOUS
  <2> QED BY <1>6, <2>1
<1>8. /\ t.failed = s.failed /\ t.overrun = s.overrun /\ Kept(s, t)
      /\ \A r : IsLockedPage(t, r) <=> IsLockedPage(s, r)
      /\ \A r : IsLockedPage(s, r) /\ r # q => PageAt(t, r) = PageAt(s, r)
      /\ PageAt(t, q) = rp
    BY <1>6 DEF PageSet, SameButPages
<1>9. Remembers(s, t)
  <2>1. \A r : IsLockedPage(s, r) =>
            /\ PageAt(t, r).size = PageAt(s, r).size /\ PageAt(t, r).data = PageAt(s, r).data
            /\ PageAt(s, r).dirty => PageAt(t, r).dirty
      BY <1>2, <1>5, <1>8
  <2> QED BY <1>8, <2>1, LooksSame
<1>10. \A d \in Class : \A j \in Pages1(d) :
           t.page[d][j].locks = IF <<d, j>> = q THEN s.page[d][j].locks - 1 ELSE s.page[d][j].locks
  <2> SUFFICES ASSUME NEW d \in Class, NEW j \in Pages1(d)
               PROVE  t.page[d][j].locks = IF <<d, j>> = q THEN s.page[d][j].locks - 1 ELSE s.page[d][j].locks
      OBVIOUS
  <2>1. t.page[d][j].locks = IF <<d, j>> = q THEN rp.locks ELSE s.page[d][j].locks
      BY <1>6 DEF PageSet
  <2>2. <<d, j>> = q => s.page[d][j].locks - 1 = rp.locks
      BY <1>2 DEF pg, q
  <2> QED BY <2>1, <2>2
<1> QED BY <1>2, <1>5, <1>7, <1>8, <1>9, <1>10 DEF OneLessAs

(* The big page with an address that the loop of releaseLock frees.        *)
LEMMA GivesBack ==
  ASSUME NEW s, ShapeBut(s, {}), NEW p
  PROVE  \/ GiveBackBig(s, p) = s /\ \A i : IsLocked(s, "big", i) => p \notin LockSpan(PageOf(s, "big", i))
         \/ \E i \in Pages1("big") :
               /\ IsLocked(s, "big", i) /\ p \in LockSpan(PageOf(s, "big", i))
               /\ GiveBackBig(s, p) = FreeLockedPage(s, "big", i)
<1> DEFINE L == s.locked["big"]
           J == {j \in DOMAIN L : p \in LockSpan(PageOf(s, "big", L[j]))}
<1>1. GiveBackBig(s, p) = IF J = {} THEN s ELSE FreeLockedPage(s, "big", L[Min(J)])
    BY DEF GiveBackBig
<1>2. L \in Seq(1 .. PageCount["big"]) /\ DOMAIN L = 1 .. Len(L) /\ Len(L) \in Nat
  <2>1. L \in Seq(1 .. PageCount["big"])
      BY Sizes DEF ShapeBut, Split
  <2> QED BY <2>1, LenProperties
<1>3. CASE J = {}
    BY <1>1, <1>3 DEF IsLocked, On
<1>4. CASE J # {}
  <2>1. J \subseteq 1 .. Len(L)
      BY <1>2
  <2>2. Min(J) \in J
    <3>1. J \subseteq Nat
        BY <1>2, <2>1
    <3> HIDE DEF J
    <3> QED BY <1>4, <3>1, MinIsLeast
  <2>3. Min(J) \in DOMAIN L /\ p \in LockSpan(PageOf(s, "big", L[Min(J)]))
      BY <2>2
  <2>4. L[Min(J)] \in Pages1("big")
    <3> HIDE DEF J, L
    <3> QED BY <1>2, <2>3, ElementOfSeq DEF Pages1
  <2>5. IsLocked(s, "big", L[Min(J)])
      BY <2>3 DEF IsLocked, On
  <2> QED BY <1>1, <1>4, <2>3, <2>4, <2>5
<1> QED BY <1>3, <1>4

(* A lock that is on the only page with its address is released there: the *)
(* page has one lock less, and a big page that has none left is free.      *)
ReleasedAt(s, t, q) ==
    /\ t.failed = s.failed /\ Remembers(s, t)
    /\ \A r : IsLockedPage(t, r) <=> IsLockedPage(s, r) /\ ~(r = q /\ q[1] = "big" /\ PageAt(s, q).locks = 1)
    /\ \A r : IsLockedPage(s, r) /\ r # q => PageAt(t, r) = PageAt(s, r)
    /\ IsLockedPage(t, q) =>
          /\ PageAt(t, q).start = PageAt(s, q).start /\ PageAt(t, q).size = PageAt(s, q).size
          /\ PageAt(t, q).data = PageAt(s, q).data /\ PageAt(t, q).dirty = PageAt(s, q).dirty
    /\ \A c \in Class : \A i \in Pages1(c) :
           t.page[c][i].locks = IF <<c, i>> = q THEN s.page[c][i].locks - 1 ELSE s.page[c][i].locks
Released(s, t, p) ==
    \A q : IsLockedPage(s, q) /\ p \in LockSpan(PageAt(s, q)) /\ InUse(PageAt(s, q)) => ReleasedAt(s, t, q)

(* The page counts one lock less and, if big and unused, is given back.    *)
LEMMA ReleasesAt ==
  ASSUME NEW s, ShapeBut(s, {}), Disjoint(s), NEW p, NEW q, IsLockedPage(s, q), p \in LockSpan(PageAt(s, q)),
         InUse(PageAt(s, q)), NEW u, u = OneLess(s, q[1], q[2]),
         NEW t, t = IF PageAt(s, q).locks > 1 THEN u ELSE GiveBackBig(u, p)
  PROVE  ReleasedAt(s, t, q)
<1>1. /\ q[1] \in Class /\ q[2] \in Pages1(q[1]) /\ q = <<q[1], q[2]>> /\ IsLocked(s, q[1], q[2])
      /\ PageAt(s, q) = s.page[q[1]][q[2]] /\ PageAt(s, q).locks \in Nat /\ PageAt(s, q).locks > 0
    BY VisitedIs DEF InUse
<1>2. OneLessAs(s, u, q)
    BY <1>1, CountsDown
<1>3. /\ ShapeBut(u, {}) /\ u.failed = s.failed /\ Remembers(s, u)
      /\ \A r : IsLockedPage(u, r) <=> IsLockedPage(s, r)
      /\ \A r : IsLockedPage(s, r) /\ r # q => PageAt(u, r) = PageAt(s, r)
      /\ PageAt(u, q).start = PageAt(s, q).start /\ PageAt(u, q).size = PageAt(s, q).size
      /\ PageAt(u, q).data = PageAt(s, q).data /\ PageAt(u, q).dirty = PageAt(s, q).dirty
      /\ \A c \in Class : \A i \in Pages1(c) :
            u.page[c][i].locks = IF <<c, i>> = q THEN s.page[c][i].locks - 1 ELSE s.page[c][i].locks
    BY <1>2 DEF OneLessAs
<1>4. CASE PageAt(s, q).locks > 1
  <2>1. t = u /\ PageAt(s, q).locks # 1
      BY <1>1, <1>4
  <2> QED BY <1>3, <2>1 DEF ReleasedAt
<1>5. CASE ~(PageAt(s, q).locks > 1)
  <2>1. t = GiveBackBig(u, p) /\ PageAt(s, q).locks = 1
      BY <1>1, <1>5
  <2>2. ASSUME NEW r, IsLockedPage(u, r), p \in LockSpan(PageAt(u, r)) PROVE r = q
    <3>1. IsLockedPage(s, r) /\ p \in LockSpan(PageAt(s, r))
        BY <1>3, <2>2 DEF LockSpan
    <3> QED BY <3>1 DEF Disjoint, Apart
  <2>3. CASE q[1] # "big"
    <3>1. t = u
      <4> SUFFICES ASSUME NEW i \in Pages1("big"), IsLocked(u, "big", i), p \in LockSpan(PageOf(u, "big", i)) PROVE FALSE
          BY <1>3, <2>1, GivesBack
      <4>1. IsLockedPage(u, <<"big", i>>) /\ p \in LockSpan(PageAt(u, <<"big", i>>))
          BY Sizes DEF IsLockedPage, PageAt, PageOf
      <4> QED BY <2>2, <2>3, <4>1
    <3> QED BY <1>3, <2>3, <3>1 DEF ReleasedAt
  <2>4. CASE q[1] = "big"
    <3> DEFINE i == q[2]
    <3>1. IsLocked(u, "big", i) /\ p \in LockSpan(PageOf(u, "big", i)) /\ i \in Pages1("big") /\ q = <<"big", i>>
      <4>1. IsLockedPage(u, q) /\ LockSpan(PageAt(u, q)) = LockSpan(PageAt(s, q))
          BY <1>3 DEF LockSpan
      <4> QED BY <1>1, <2>4, <4>1 DEF IsLockedPage, PageAt, PageOf
    <3>2. t = FreeLockedPage(u, "big", i)
      <4>1. PICK j \in Pages1("big") : IsLocked(u, "big", j) /\ p \in LockSpan(PageOf(u, "big", j))
                                       /\ GiveBackBig(u, p) = FreeLockedPage(u, "big", j)
          BY <1>3, <3>1, GivesBack
      <4>2. IsLockedPage(u, <<"big", j>>) /\ p \in LockSpan(PageAt(u, <<"big", j>>))
          BY <4>1, Sizes DEF IsLockedPage, PageAt, PageOf
      <4>3. j = i
          BY <2>2, <3>1, <4>2
      <4> QED BY <2>1, <4>1, <4>3
    <3>3. u.page["big"][i].locks = 0
      <4>1. u.page["big"][i].locks = s.page["big"][i].locks - 1 /\ s.page["big"][i].locks = 1
          BY <1>1, <1>3, <2>1, <2>4, <3>1
      <4> QED BY <4>1
    <3>4. Freed(u, t, "big", i) /\ Remembers(u, t)
      <4> HIDE DEF i
      <4> QED BY <1>3, <3>1, <3>2, <3>3, Sizes, FreesLocked, FreesRemember
    <3>5. Remembers(s, t)
        BY <1>3, <3>4, RemembersTwice
    <3>6. /\ \A r : IsLockedPage(t, r) <=> IsLockedPage(u, r) /\ r # q
          /\ \A r : IsLockedPage(t, r) => PageAt(t, r) = PageAt(u, r)
          /\ t.failed = u.failed /\ SameLocks(u, t)
        BY <3>1, <3>4 DEF Freed, Settled
    <3>7. \A r : IsLockedPage(s, r) /\ r # q => PageAt(t, r) = PageAt(s, r)
        BY <1>3, <3>6
    <3>8. \A r : IsLockedPage(t, r) <=> IsLockedPage(s, r) /\ ~(r = q /\ q[1] = "big" /\ PageAt(s, q).locks = 1)
        BY <1>3, <2>1, <2>4, <3>6
    <3>9. \A c \in Class : \A j \in Pages1(c) :
              t.page[c][j].locks = IF <<c, j>> = q THEN s.page[c][j].locks - 1 ELSE s.page[c][j].locks
        BY <1>3, <3>6 DEF SameLocks
    <3> QED BY <1>3, <3>5, <3>6, <3>7, <3>8, <3>9 DEF ReleasedAt
  <2> QED BY <2>3, <2>4
<1> QED BY <1>4, <1>5

(* What releaseLock does, whatever address it is given.                    *)
ReleasedAs(s, t, p) == ShapeBut(t, {}) /\ t.overrun = s.overrun /\ (Disjoint(s) => Released(s, t, p))
(* It gives the page of the address up, if there is just one.              *)
LEMMA Releases ==
  ASSUME NEW s, ShapeBut(s, {}), NEW p, NEW t, t = ReleaseLock(s, p)
  PROVE  ReleasedAs(s, t, p)
<1> DEFINE order == LockedPages(s)
           J == {j \in DOMAIN order : p \in LockSpan(PageAt(s, order[j]))}
           q == order[Min(J)]
           pg == PageAt(s, q)
           u == OneLess(s, q[1], q[2])
<1>1. t = IF J = {} \/ ~InUse(pg) THEN Require(s, FALSE) ELSE IF pg.locks > 1 THEN u ELSE GiveBackBig(u, p)
    BY DEF ReleaseLock, OneLess, PageAt
<1>2. /\ DOMAIN order = 1 .. Len(order) /\ Len(order) \in Nat
      /\ \A r : On(r, order) <=> IsLockedPage(s, r)
      /\ \A j \in DOMAIN order : IsLockedPage(s, order[j])
    BY LockedPagesAre
<1>3. J # {} => Min(J) \in J
  <2>1. J \subseteq Nat
    <3> HIDE DEF order
    <3> QED BY <1>2
  <2> HIDE DEF J
  <2> QED BY <2>1, MinIsLeast
<1>4. J # {} => IsLockedPage(s, q) /\ p \in LockSpan(pg)
    BY <1>2, <1>3
<1>5. ASSUME NEW r, IsLockedPage(s, r), p \in LockSpan(PageAt(s, r)), Disjoint(s) PROVE J # {} /\ r = q
  <2>1. J # {}
      BY <1>2, <1>5 DEF On
  <2> QED BY <1>4, <1>5, <2>1 DEF Disjoint, Apart
<1> HIDE DEF J, q
<1>6. CASE J = {} \/ ~InUse(pg)
  <2>1. t = Require(s, FALSE)
      BY <1>1, <1>6
  <2>2. ShapeBut(t, {})
      BY <2>1, RequireBelow
  <2>3. t.overrun = s.overrun
      BY <2>1, RequireIs DEF ShapeBut
  <2>4. Disjoint(s) => Released(s, t, p)
      BY <1>5, <1>6 DEF Released
  <2> QED BY <2>2, <2>3, <2>4 DEF ReleasedAs
<1>7. CASE J # {} /\ InUse(pg)
  <2>1. t = IF pg.locks > 1 THEN u ELSE GiveBackBig(u, p)
      BY <1>1, <1>7
  <2>2. /\ q[1] \in Class /\ q[2] \in Pages1(q[1]) /\ q = <<q[1], q[2]>> /\ IsLocked(s, q[1], q[2])
        /\ pg = s.page[q[1]][q[2]] /\ pg.locks > 0
      BY <1>4, <1>7, VisitedIs DEF InUse
  <2>3. OneLessAs(s, u, q)
      BY <2>2, CountsDown
  <2>4. ShapeBut(u, {}) /\ u.overrun = s.overrun
      BY <2>3 DEF OneLessAs
  <2>5. ShapeBut(t, {}) /\ t.overrun = s.overrun
    <3> HIDE DEF u
    <3>1. ShapeBut(GiveBackBig(u, p), {}) /\ GiveBackBig(u, p).overrun = u.overrun
      <4>1. CASE GiveBackBig(u, p) = u
          BY <2>4, <4>1
      <4>2. CASE \E i \in Pages1("big") : IsLocked(u, "big", i) /\ GiveBackBig(u, p) = FreeLockedPage(u, "big", i)
        <5>1. PICK i \in Pages1("big") : IsLocked(u, "big", i) /\ GiveBackBig(u, p) = FreeLockedPage(u, "big", i)
            BY <4>2
        <5>2. FreedAny(u, FreeLockedPage(u, "big", i), "big", i)
            BY <2>4, <5>1, Sizes, FreesAny
        <5> QED BY <5>1, <5>2 DEF FreedAny
      <4> QED BY <2>4, <4>1, <4>2, GivesBack
    <3> QED BY <2>1, <2>4, <3>1
  <2>6. Disjoint(s) => Released(s, t, p)
    <3> SUFFICES ASSUME Disjoint(s), NEW r, IsLockedPage(s, r), p \in LockSpan(PageAt(s, r)), InUse(PageAt(s, r))
                 PROVE  ReleasedAt(s, t, r)
        BY DEF Released
    <3>1. r = q
        BY <1>5
    <3>2. ReleasedAt(s, t, q)
      <4> HIDE DEF u, pg
      <4>1. u = OneLess(s, q[1], q[2]) /\ pg = PageAt(s, q)
          BY DEF u, pg
      <4> QED BY <1>4, <1>7, <2>1, <4>1, ReleasesAt
    <3> QED BY <3>1, <3>2
  <2> QED BY <2>5, <2>6 DEF ReleasedAs
<1> QED BY <1>6, <1>7

-----------------------------------------------------------------------------
(* Writing through the pointer of a lock                                   *)
(* The same bytes are held by the page, some of them new ones.             *)
Patched(pg, r, d) ==
    /\ r.start = pg.start /\ r.size = pg.size /\ r.locks = pg.locks
    /\ DOMAIN r.data = DOMAIN pg.data
    /\ \A a \in DOMAIN pg.data : r.data[a] = IF a \in DOMAIN d THEN d[a] ELSE pg.data[a]
PutIn(pg, d) == [pg EXCEPT !.data = Patch(pg.data, d)]
PatchedOK(pg, r, d) ==
    /\ r \in AnyPage /\ Patched(pg, r, d)
    /\ \A c \in Class : (FreeOK(pg, c) => FreeOK(r, c)) /\ (LockedOK(pg, c) => LockedOK(r, c))
(* Bytes put into a page leave it well-formed.                             *)
LEMMA PatchedIs ==
  ASSUME NEW pg \in AnyPage, NEW D, NEW d \in [D -> Val]
  PROVE  /\ PatchedOK(pg, PutIn(pg, d), d) /\ PutIn(pg, d).dirty = pg.dirty
         /\ PatchedOK(pg, PutDirty(pg, d), d) /\ PutDirty(pg, d).dirty
<1> SUFFICES ASSUME NEW r \in {PutIn(pg, d), PutDirty(pg, d)}
             PROVE  PatchedOK(pg, r, d) /\ (r = PutIn(pg, d) => r.dirty = pg.dirty) /\ (r = PutDirty(pg, d) => r.dirty)
    OBVIOUS
<1>1. PICK E \in SUBSET Addr : pg.data \in [E -> Val]
    BY DEF AnyPage, Bytes
<1> DEFINE x == Patch(pg.data, d)
<1>2. x \in [E -> Val] /\ \A a \in E : x[a] = IF a \in D THEN d[a] ELSE pg.data[a]
    BY <1>1 DEF Patch
<1> HIDE DEF x
<1>3. x \in Bytes
    BY <1>2, SomeBytes
<1>4. /\ r \in AnyPage /\ r.start = pg.start /\ r.size = pg.size /\ r.locks = pg.locks /\ r.data = x
    BY <1>3 DEF AnyPage, x, PutIn, PutDirty
<1>10. (r = PutIn(pg, d) => r.dirty = pg.dirty) /\ (r = PutDirty(pg, d) => r.dirty)
    BY DEF AnyPage, PutIn, PutDirty
<1>5. Patched(pg, r, d)
    BY <1>1, <1>2, <1>4 DEF Patched
<1>6. DOMAIN pg.data = E /\ DOMAIN d = D
    BY <1>1
<1>7. ASSUME NEW S, pg.data \in [S -> Val] PROVE r.data \in [S -> Val]
  <2>1. S = E
      BY <1>6, <1>7
  <2> QED BY <1>2, <1>4, <2>1
<1>8. \A c \in Class : FreeOK(pg, c) => FreeOK(r, c)
    BY <1>4, <1>7 DEF FreeOK
<1>9. \A c \in Class : LockedOK(pg, c) => LockedOK(r, c)
    BY <1>4, <1>7 DEF LockedOK, LockSpan
<1> QED BY <1>4, <1>5, <1>8, <1>9, <1>10 DEF PatchedOK

PutBytes(s, c, i, d) == SetPage(s, c, i, PutIn(s.page[c][i], d))
WrittenAs(s, t, q, d) ==
    /\ ShapeBut(t, {}) /\ SameButPages(s, t) /\ SameLocks(s, t)
    /\ \A r : IsLockedPage(t, r) <=> IsLockedPage(s, r)
    /\ \A r : IsLockedPage(s, r) /\ r # q => PageAt(t, r) = PageAt(s, r)
    /\ IsLockedPage(s, q) => Patched(PageAt(s, q), PageAt(t, q), d) /\ PageAt(t, q).dirty = PageAt(s, q).dirty
    /\ IsLockedPage(s, q) => Kept(s, t)
(* A byte may be put into any page, a free one included.                   *)
LEMMA PutsBytes ==
  ASSUME NEW s, ShapeBut(s, {}), NEW c \in Class, NEW i \in Pages1(c), NEW D, NEW d \in [D -> Val],
         NEW t, t = PutBytes(s, c, i, d)
  PROVE  WrittenAs(s, t, <<c, i>>, d)
<1> DEFINE pg == s.page[c][i]
           q == <<c, i>>
           rp == PutIn(pg, d)
<1>1. s \in States /\ pg \in AnyPage /\ pg.dirty \in BOOLEAN
    BY StateFields DEF ShapeBut, AnyPage
<1>2. t = SetPage(s, c, i, rp)
    BY DEF PutBytes
<1>3. /\ rp \in AnyPage /\ rp.dirty = pg.dirty /\ Patched(pg, rp, d)
      /\ \A e \in Class : (FreeOK(pg, e) => FreeOK(rp, e)) /\ (LockedOK(pg, e) => LockedOK(rp, e))
    BY <1>1, PatchedIs DEF PatchedOK
<1> HIDE DEF rp
<1>4. /\ t \in States /\ SameButPages(s, t) /\ t.page[c][i] = rp
      /\ \A e \in Class : \A j \in Pages1(e) : <<e, j>> # q => t.page[e][j] = s.page[e][j]
    BY <1>1, <1>2, <1>3, SetPageIs
<1>5. /\ \A r : IsLockedPage(t, r) <=> IsLockedPage(s, r)
      /\ \A e \in Class : \A j : (IsFree(t, e, j) <=> IsFree(s, e, j)) /\ (IsLocked(t, e, j) <=> IsLocked(s, e, j))
    BY <1>4 DEF SameButPages, IsLockedPage, IsLocked, IsFree
<1>6. ShapeBut(t, {})
  <2>1. \A e \in Class : Split(t.free[e], t.locked[e], PageCount[e])
      BY <1>4 DEF ShapeBut, SameButPages
  <2>2. NextOK(t)
      BY <1>4 DEF ShapeBut, SameButPages, NextOK
  <2>3. ASSUME NEW e \in Class, NEW j \in Pages1(e), IsFree(t, e, j) PROVE FreeOK(t.page[e][j], e)
    <3>1. FreeOK(s.page[e][j], e)
        BY <1>5, <2>3 DEF ShapeBut
    <3>2. CASE <<e, j>> = q
        BY <1>3, <1>4, <3>1, <3>2
    <3>3. CASE <<e, j>> # q
        BY <1>4, <3>1, <3>3
    <3> QED BY <3>2, <3>3
  <2>4. ASSUME NEW e \in Class, NEW j \in Pages1(e), IsLocked(t, e, j) PROVE LockedOK(t.page[e][j], e)
    <3>1. LockedOK(s.page[e][j], e)
        BY <1>5, <2>4 DEF ShapeBut
    <3>2. CASE <<e, j>> = q
        BY <1>3, <1>4, <3>1, <3>2
    <3>3. CASE <<e, j>> # q
        BY <1>4, <3>1, <3>3
    <3> QED BY <3>2, <3>3
  <2> QED BY <1>4, <2>1, <2>2, <2>3, <2>4 DEF ShapeBut
<1>7. SameLocks(s, t)
  <2> SUFFICES ASSUME NEW e \in Class, NEW j \in Pages1(e) PROVE t.page[e][j].locks = s.page[e][j].locks
      BY DEF SameLocks
  <2>1. CASE <<e, j>> = q
      BY <1>3, <1>4, <2>1 DEF Patched
  <2>2. CASE <<e, j>> # q
      BY <1>4, <2>2
  <2> QED BY <2>1, <2>2
<1>8. \A r : IsLockedPage(s, r) /\ r # q => PageAt(t, r) = PageAt(s, r)
    BY <1>4 DEF IsLockedPage, PageAt
<1>9. Patched(PageAt(s, q), PageAt(t, q), d) /\ PageAt(t, q).dirty = PageAt(s, q).dirty
    BY <1>3, <1>4 DEF PageAt
<1>10. IsLockedPage(s, q) => Kept(s, t)
  <2> SUFFICES ASSUME IsLockedPage(s, q) PROVE Kept(s, t)
      OBVIOUS
  <2>1. IsLocked(s, c, i) /\ <<c, i>> \notin {}
      BY DEF IsLockedPage
  <2>2. LockedOK(rp, c)
      BY <1>3, <2>1 DEF ShapeBut
  <2>3. PageSet(s, SetPage(s, c, i, rp), <<c, i>>, rp)
      BY <1>3, <2>1, <2>2, SetsLocked
  <2> QED BY <1>2, <2>3 DEF PageSet
<1> QED BY <1>4, <1>5, <1>6, <1>7, <1>8, <1>9, <1>10 DEF WrittenAs

(* Bytes put into a dirty page that no other page has are what the memory  *)
(* contains from then on.                                                  *)
LEMMA WritesMem ==
  ASSUME NEW s, ShapeBut(s, {}), Disjoint(s), NEW t, NEW q, IsLockedPage(s, q), PageAt(s, q).dirty,
         NEW D, NEW d \in [D -> Val], D \subseteq LockSpan(PageAt(s, q)), WrittenAs(s, t, q, d),
         NEW c \in [Addr -> Val], MemIs(s, c, {})
  PROVE  MemIs(t, Patch(c, d), {})
<1> DEFINE l == Patch(c, d)
<1>1. PICK m : Agrees(s, m) /\ MemOf(s, c, {}, m)
    BY DEF MemIs
<1>2. Agrees(t, m)
    BY <1>1 DEF WrittenAs, Kept
<1>3. \A a \in Addr : l[a] = IF a \in D THEN d[a] ELSE c[a]
    BY DEF Patch
<1> HIDE DEF l
<1>4. \A r : IsLockedPage(t, r) <=> IsLockedPage(s, r)
    BY DEF WrittenAs
<1>5. \A r : IsLockedPage(s, r) => DOMAIN PageAt(s, r).data = LockSpan(PageAt(s, r))
    BY VisitedIs
<1>6. \A r : IsLockedPage(s, r) => DOMAIN PageAt(t, r).data = DOMAIN PageAt(s, r).data
    BY DEF WrittenAs, Patched
<1>7. ASSUME NEW r, IsLockedPage(t, r), NEW a \in Addr, Holds(PageAt(t, r), a)
      PROVE  PageAt(t, r).data[a] = l[a] /\ (PageAt(t, r).dirty \/ m[a] = l[a])
  <2>1. IsLockedPage(s, r) /\ Holds(PageAt(s, r), a)
      BY <1>4, <1>6, <1>7 DEF Holds
  <2>2. PageAt(s, r).data[a] = c[a] /\ (PageAt(s, r).dirty \/ m[a] = c[a])
      BY <1>1, <2>1 DEF MemOf
  <2>3. CASE r = q
    <3>1. Patched(PageAt(s, q), PageAt(t, q), d) /\ PageAt(t, q).dirty = PageAt(s, q).dirty
        BY DEF WrittenAs
    <3>2. PageAt(t, q).data[a] = IF a \in DOMAIN d THEN d[a] ELSE PageAt(s, q).data[a]
        BY <2>1, <2>3, <3>1 DEF Patched, Holds
    <3>3. DOMAIN d = D
        OBVIOUS
    <3> QED BY <1>3, <2>2, <2>3, <3>1, <3>2, <3>3
  <2>4. CASE r # q
    <3>1. PageAt(t, r) = PageAt(s, r)
        BY <2>1, <2>4 DEF WrittenAs
    <3>2. a \in LockSpan(PageAt(s, r))
        BY <1>5, <2>1 DEF Holds
    <3>3. a \notin D
        BY <2>1, <2>4, <3>2 DEF Disjoint, Apart
    <3> QED BY <1>3, <2>2, <3>1, <3>3
  <2> QED BY <2>3, <2>4
<1>8. ASSUME NEW a \in Addr, m[a] # l[a] PROVE \E r : IsLockedPage(t, r) /\ Holds(PageAt(t, r), a)
  <2>1. \E r : IsLockedPage(s, r) /\ Holds(PageAt(s, r), a)
    <3>1. CASE a \in D
        BY <1>5, <3>1 DEF Holds
    <3>2. CASE a \notin D
        BY <1>1, <1>3, <1>8, <3>2 DEF MemOf
    <3> QED BY <3>1, <3>2
  <2> QED BY <1>4, <1>6, <2>1 DEF Holds
<1>9. MemOf(t, l, {}, m)
    BY <1>7, <1>8 DEF MemOf
<1> QED BY <1>2, <1>9 DEF MemIs, l

-----------------------------------------------------------------------------
(* Raw input and output next to locked pages                               *)

(* What a call leaves of the locked pages: where they are and how long.    *)
Untouched(s, t) ==
    /\ ShapeBut(t, {}) /\ SameLocks(s, t)
    /\ \A r : IsLockedPage(t, r) <=> IsLockedPage(s, r)
    /\ \A r : IsLockedPage(s, r) => /\ PageAt(t, r).start = PageAt(s, r).start
                                    /\ PageAt(t, r).size = PageAt(s, r).size
                                    /\ PageAt(s, r).dirty => PageAt(t, r).dirty

(* What happens below the locked pages leaves them as they are.            *)
LEMMA BelowUntouched ==
  ASSUME NEW s, NEW t, ShapeBut(s, {}), Below(s, t)
  PROVE  /\ Untouched(s, t)
         /\ \A r : IsLockedPage(s, r) => PageAt(t, r) = PageAt(s, r)
<1>1. ShapeBut(t, {}) /\ t.free = s.free /\ t.locked = s.locked
    BY BelowShape DEF Below
<1>2. \A r : IsLockedPage(t, r) <=> IsLockedPage(s, r)
    BY <1>1 DEF IsLockedPage, IsLocked
<1>3. \A r : IsLockedPage(s, r) => PageAt(t, r) = PageAt(s, r)
    BY BelowLocked
<1>4. SameLocks(s, t)
  <2> SUFFICES ASSUME NEW c \in Class, NEW i \in Pages1(c) PROVE t.page[c][i].locks = s.page[c][i].locks
      BY DEF SameLocks
  <2>1. CASE c = "big" /\ IsFree(s, "big", i)
    <3>1. FreeOK(s.page[c][i], c) /\ FreeOK(t.page[c][i], c)
        BY <2>1 DEF Below, ShapeBut
    <3> QED BY <3>1 DEF FreeOK
  <2>2. CASE ~(c = "big" /\ IsFree(s, "big", i))
      BY <2>2 DEF Below
  <2> QED BY <2>1, <2>2
<1> QED BY <1>1, <1>2, <1>3, <1>4 DEF Untouched

(* Two such steps in a row are one.                                        *)
LEMMA UntouchedTwice ==
  ASSUME NEW s, NEW t, NEW u, Untouched(s, t), Untouched(t, u)
  PROVE  Untouched(s, u)
BY DEF Untouched, SameLocks

(* Copies of locked bytes below the locks change nothing.                  *)
LEMMA Overlays ==
  ASSUME NEW s, ShapeBut(s, {}), NEW t, Below(s, t), NEW c, NEW m, MemOf(s, c, {}, m), NEW Q, \A q \in Q : IsLockedPage(s, q),
         NEW l, Agrees(t, l), Overlaid(s, l, m, Q)
  PROVE  MemOf(t, c, {}, l)
<1>1. /\ \A r : IsLockedPage(t, r) <=> IsLockedPage(s, r)
      /\ \A r : IsLockedPage(s, r) => PageAt(t, r) = PageAt(s, r)
    BY BelowUntouched DEF Untouched
<1>2. \A a \in Addr : l[a] = m[a] \/ l[a] = c[a]
    BY DEF Overlaid, MemOf
<1>3. \A r : IsLockedPage(t, r) => \A a \in Addr : Holds(PageAt(t, r), a) =>
         PageAt(t, r).data[a] = c[a] /\ (PageAt(t, r).dirty \/ l[a] = c[a])
    BY <1>1, <1>2 DEF MemOf
<1>4. \A a \in Addr : (\E r : IsLockedPage(t, r) /\ Holds(PageAt(t, r), a)) \/ l[a] = c[a]
    BY <1>1, <1>2 DEF MemOf
<1> QED BY <1>3, <1>4 DEF MemOf

(* read() returns what the memory contains and changes nothing of it.      *)
ReadMem(s, r, p, n) ==
    \A c \in [Addr -> Val] : MemIs(s, c, {}) =>
        MemIs(r.state, c, {}) /\ r.data \in [Span(p, n) -> Val] /\ \A a \in Span(p, n) : r.data[a] = c[a]
ReadAs(s, r, p, n) ==
    /\ Below(s, r.state)
    /\ s.free["big"] # <<>> => r.state.failed = s.failed
    /\ s.free["big"] # <<>> /\ ~s.failed => ReadMem(s, r, p, n)

(* The walk: the pages it visits, and the first one with the whole block.  *)
LEMMA Walks ==
  ASSUME NEW s, ShapeBut(s, {}), NEW p, NEW n, NEW C, C = Containing(s, p, n), NEW V, V = Visited(s, p, n)
  PROVE  /\ \A j \in V : j \in DOMAIN LockedPages(s) /\ IsLockedPage(s, LockedPages(s)[j])
         /\ \A q \in Partial(s, p, n) : IsLockedPage(s, q)
         /\ C # {} => /\ Min(C) \in C /\ Min(C) \in DOMAIN LockedPages(s) /\ IsLockedPage(s, LockedPages(s)[Min(C)])
                      /\ Span(p, n) \subseteq LockSpan(PageAt(s, LockedPages(s)[Min(C)]))
                      /\ Overlaps(PageAt(s, LockedPages(s)[Min(C)]), p, n) => Min(C) \in V
         /\ C = {} => \A q : IsLockedPage(s, q) /\ Overlaps(PageAt(s, q), p, n) =>
                         q \in Partial(s, p, n) /\ \E j \in V : LockedPages(s)[j] = q
<1>1. /\ DOMAIN LockedPages(s) = 1 .. Len(LockedPages(s)) /\ Len(LockedPages(s)) \in Nat
      /\ \A r : On(r, LockedPages(s)) <=> IsLockedPage(s, r)
      /\ \A j \in DOMAIN LockedPages(s) : IsLockedPage(s, LockedPages(s)[j])
    BY LockedPagesAre
<1>2. \A j \in V : j \in DOMAIN LockedPages(s) /\ IsLockedPage(s, LockedPages(s)[j])
    BY <1>1 DEF Visited
<1>3. \A q \in Partial(s, p, n) : IsLockedPage(s, q)
    BY <1>2 DEF Partial
<1>4. ASSUME C # {}
      PROVE  /\ Min(C) \in C /\ Min(C) \in DOMAIN LockedPages(s) /\ IsLockedPage(s, LockedPages(s)[Min(C)])
             /\ Span(p, n) \subseteq LockSpan(PageAt(s, LockedPages(s)[Min(C)]))
             /\ Overlaps(PageAt(s, LockedPages(s)[Min(C)]), p, n) => Min(C) \in V
  <2>1. C \subseteq DOMAIN LockedPages(s)
      BY DEF Containing
  <2>2. C \subseteq Nat
      BY <1>1, <2>1
  <2>3. Min(C) \in C /\ \A j \in C : Min(C) <= j
      BY <1>4, <2>2, MinIsLeast
  <2> DEFINE x == Min(C)
  <2>4. x \in DOMAIN LockedPages(s) /\ Span(p, n) \subseteq LockSpan(PageAt(s, LockedPages(s)[x]))
      BY <2>3 DEF Containing
  <2>5. Overlaps(PageAt(s, LockedPages(s)[x]), p, n) => x \in V
      BY <2>3, <2>4 DEF Visited
  <2> QED BY <1>1, <2>3, <2>4, <2>5
<1>5. ASSUME C = {}, NEW q, IsLockedPage(s, q), Overlaps(PageAt(s, q), p, n)
      PROVE  q \in Partial(s, p, n) /\ \E j \in V : LockedPages(s)[j] = q
  <2>1. PICK j \in DOMAIN LockedPages(s) : LockedPages(s)[j] = q
      BY <1>1, <1>5 DEF On
  <2>2. j \in V
      BY <1>5, <2>1 DEF Visited
  <2> QED BY <1>5, <2>1, <2>2 DEF Partial
<1> QED BY <1>2, <1>3, <1>4, <1>5

(* A part of a function agrees with it.                                    *)
LEMMA Restricted ==
  ASSUME NEW f, NEW S, NEW c, \A a \in S : f[a] = c[a] /\ c[a] \in Val
  PROVE  Restrict(f, S) \in [S -> Val] /\ \A a \in S : Restrict(f, S)[a] = c[a]
BY DEF Restrict

(* A read from a big page, when no locked page has the whole block.        *)
LEMMA ReadsMirrored ==
  ASSUME NEW u, ShapeBut(u, {}), NEW p \in Addr \ {0}, NEW n \in 1 .. BigSize, Span(p, n) \subseteq Addr,
         NEW r, r = ReadMirrored(u, p, n)
  PROVE  /\ Below(u, r.state)
         /\ u.free["big"] # <<>> => r.state.failed = u.failed
         /\ u.free["big"] # <<>> /\ ~u.failed =>
               /\ Kept(u, r.state)
               /\ \A l : Agrees(u, l) => r.data \in [Span(p, n) -> Val] /\ \A a \in Span(p, n) : r.data[a] = l[a]
<1> DEFINE pull == PullRawData(u, p, n, TRUE, FALSE)
           v == pull.state
           k == pull.at
<1>1. u \in States /\ u.failed \in BOOLEAN
    BY StateFields DEF ShapeBut
<1>2. PulledAs(u, pull, p, n, TRUE, FALSE)
    BY Pulls
<1>3. r = IF u.failed THEN NothingRead(u) ELSE ReadPulled(pull, p, n)
    BY DEF ReadMirrored
<1> HIDE DEF pull
<1>4. /\ Below(u, v) /\ Kept(u, v)
      /\ u.free["big"] = <<>> => v.failed
      /\ u.free["big"] # <<>> => k \in Positions(u) /\ v.failed = u.failed /\ Span(p, n) \subseteq DOMAIN FreePage(v, k).data
    BY <1>2 DEF PulledAs
<1>5. ShapeBut(v, {}) /\ v \in States /\ v.failed \in BOOLEAN
    BY <1>4, BelowShape, StateFields DEF Below
<1>6. CASE u.failed
  <2>1. r.state = Require(u, FALSE)
      BY <1>3, <1>6 DEF NothingRead
  <2>2. Below(u, r.state)
      BY <2>1, RequireBelow
  <2>5. r.state.failed
      BY <1>1, <1>6, <2>1 DEF Require, States
  <2>3. r.state.failed \in BOOLEAN
      BY <2>2, StateFields DEF Below
  <2>4. r.state.failed = u.failed
      BY <1>1, <1>6, <2>3, <2>5
  <2> QED BY <1>6, <2>2, <2>4
<1>7. CASE ~u.failed /\ v.failed
  <2>1. r.state = Require(v, FALSE)
      BY <1>3, <1>7 DEF NothingRead, ReadPulled
  <2>2. Below(v, r.state)
      BY <1>5, <2>1, RequireBelow
  <2>3. u.free["big"] = <<>>
      BY <1>4, <1>7
  <2> QED BY <1>4, <2>2, <2>3, BelowTwice
<1>8. CASE ~u.failed /\ ~v.failed
  <2>1. r = [state |-> v, data |-> Restrict(FreePage(v, k).data, Span(p, n))]
      BY <1>3, <1>8 DEF ReadPulled, ReadFrom
  <2>2. r.state = v /\ r.data = Restrict(FreePage(v, k).data, Span(p, n))
      BY <2>1
  <2>3. k \in Positions(u) /\ Span(p, n) \subseteq DOMAIN FreePage(v, k).data
      BY <1>4, <1>8
  <2>4. k \in Positions(v)
      BY <1>4, <2>3 DEF Below, Positions
  <2>5. ASSUME NEW l, Agrees(u, l)
        PROVE  r.data \in [Span(p, n) -> Val] /\ \A a \in Span(p, n) : r.data[a] = l[a]
    <3>1. Agrees(v, l)
        BY <1>4, <2>5 DEF Kept
    <3>2. l \in [Addr -> Val]
        BY <2>5 DEF Agrees, Consistent
    <3>3. \A a \in Span(p, n) : FreePage(v, k).data[a] = l[a] /\ l[a] \in Val
      <4> SUFFICES ASSUME NEW a \in Span(p, n) PROVE FreePage(v, k).data[a] = l[a] /\ l[a] \in Val
          OBVIOUS
      <4>1. a \in Addr /\ k \in Holders(v, a)
          BY <2>3, <2>4 DEF Holders, Holds
      <4>2. \A j \in Holders(v, a) : FreePage(v, j).data[a] = l[a]
          BY <1>5, <3>1, <4>1, OneHolder
      <4> QED BY <3>2, <4>1, <4>2
    <3> QED BY <2>2, <3>3, Restricted
  <2> QED BY <1>4, <2>2, <2>5
<1> QED BY <1>6, <1>7, <1>8

(* read() returns the bytes of the memory.                                 *)
LEMMA Reads ==
  ASSUME NEW s, ShapeBut(s, {}), NEW p \in Addr \ {0}, NEW n \in 1 .. BigSize, Span(p, n) \subseteq Addr,
         NEW r, r = ReadRaw(s, p, n)
  PROVE  ReadAs(s, r, p, n)
<1> DEFINE C == Containing(s, p, n)
           Q == Partial(s, p, n)
           V == Visited(s, p, n)
           u == Mirror(s, Q)
           pg == PageAt(s, LockedPages(s)[Min(C)])
<1>1. /\ \A q \in Q : IsLockedPage(s, q)
      /\ C # {} => IsLockedPage(s, LockedPages(s)[Min(C)]) /\ Span(p, n) \subseteq LockSpan(pg)
      /\ C = {} => \A q : IsLockedPage(s, q) /\ Overlaps(PageAt(s, q), p, n) => q \in Q
    BY Walks
<1>2. r = IF C # {} THEN ReadFrom(u, pg, p, n) ELSE ReadMirrored(u, p, n)
    BY DEF ReadRaw
<1> HIDE DEF Q
<1>3. MirroredAs(s, u, Q)
    BY <1>1, Mirrors
<1> HIDE DEF u, C
<1>4. /\ Below(s, u) /\ ShapeBut(u, {}) /\ u.free = s.free
      /\ s.free["big"] # <<>> => u.failed = s.failed
    BY <1>3, BelowShape DEF MirroredAs, Below
<1>5. ASSUME s.free["big"] # <<>>, ~s.failed, NEW c \in [Addr -> Val], MemIs(s, c, {})
      PROVE  \E m, l : /\ Agrees(s, m) /\ MemOf(s, c, {}, m) /\ Agrees(u, l) /\ Overlaid(s, l, m, Q)
                       /\ MemOf(u, c, {}, l) /\ MemIs(u, c, {})
  <2>1. PICK m : Agrees(s, m) /\ MemOf(s, c, {}, m)
      BY <1>5 DEF MemIs
  <2>2. PICK l : Agrees(u, l) /\ Overlaid(s, l, m, Q)
      BY <1>3, <1>5, <2>1 DEF MirroredAs
  <2>3. MemOf(u, c, {}, l)
      BY <1>1, <1>4, <2>1, <2>2, Overlays
  <2> QED BY <2>1, <2>2, <2>3 DEF MemIs
<1>6. CASE C # {}
  <2>1. r.state = u /\ r.data = Restrict(pg.data, Span(p, n))
      BY <1>2, <1>6 DEF ReadFrom
  <2>2. ASSUME s.free["big"] # <<>>, ~s.failed, NEW c \in [Addr -> Val], MemIs(s, c, {})
        PROVE  MemIs(u, c, {}) /\ r.data \in [Span(p, n) -> Val] /\ \A a \in Span(p, n) : r.data[a] = c[a]
    <3>1. PICK m : MemOf(s, c, {}, m)
        BY <2>2 DEF MemIs
    <3>2. pg.data \in [LockSpan(pg) -> Val]
        BY <1>1, <1>6, VisitedIs
    <3>3. \A a \in Span(p, n) : pg.data[a] = c[a] /\ c[a] \in Val
      <4>1. \A a \in Span(p, n) : Holds(pg, a) /\ a \in Addr
          BY <1>1, <1>6, <3>2 DEF Holds
      <4> QED BY <1>1, <1>6, <3>1, <4>1 DEF MemOf
    <3> QED BY <1>5, <2>1, <2>2, <3>3, Restricted
  <2> QED BY <1>4, <2>1, <2>2 DEF ReadAs, ReadMem
<1>7. CASE C = {}
  <2>1. r = ReadMirrored(u, p, n)
      BY <1>2, <1>7
  <2>2. /\ Below(u, r.state)
        /\ u.free["big"] # <<>> => r.state.failed = u.failed
        /\ u.free["big"] # <<>> /\ ~u.failed =>
              /\ Kept(u, r.state)
              /\ \A l : Agrees(u, l) => r.data \in [Span(p, n) -> Val] /\ \A a \in Span(p, n) : r.data[a] = l[a]
      BY <1>4, <2>1, ReadsMirrored
  <2>3. Below(s, r.state)
      BY <1>4, <2>2, BelowTwice
  <2>4. ASSUME s.free["big"] # <<>>, ~s.failed, NEW c \in [Addr -> Val], MemIs(s, c, {})
        PROVE  MemIs(r.state, c, {}) /\ r.data \in [Span(p, n) -> Val] /\ \A a \in Span(p, n) : r.data[a] = c[a]
    <3>1. PICK m, l : /\ Agrees(s, m) /\ MemOf(s, c, {}, m) /\ Agrees(u, l) /\ Overlaid(s, l, m, Q)
                      /\ MemOf(u, c, {}, l) /\ MemIs(u, c, {})
        BY <1>5, <2>4
    <3>2. Kept(u, r.state) /\ r.data \in [Span(p, n) -> Val] /\ \A a \in Span(p, n) : r.data[a] = l[a]
        BY <1>4, <2>2, <2>4, <3>1
    <3>3. MemIs(r.state, c, {})
      <4>1. Agrees(r.state, l)
          BY <3>1, <3>2 DEF Kept
      <4>2. /\ \A q : IsLockedPage(r.state, q) <=> IsLockedPage(u, q)
            /\ \A q : IsLockedPage(u, q) => PageAt(r.state, q) = PageAt(u, q)
          BY <1>4, <2>2, BelowUntouched DEF Untouched
      <4>3. MemOf(r.state, c, {}, l)
          BY <3>1, <4>2 DEF MemOf
      <4> QED BY <4>1, <4>3 DEF MemIs
    <3>4. \A a \in Span(p, n) : l[a] = c[a]
      <4> SUFFICES ASSUME NEW a \in Span(p, n) PROVE l[a] = c[a]
          OBVIOUS
      <4>1. a \in Addr
          OBVIOUS
      <4>2. CASE \E q \in Q : Holds(PageAt(s, q), a)
        <5>1. PICK q \in Q : Holds(PageAt(s, q), a) /\ l[a] = PageAt(s, q).data[a]
            BY <3>1, <4>1, <4>2 DEF Overlaid
        <5> QED BY <1>1, <3>1, <4>1, <5>1 DEF MemOf
      <4>3. CASE ~\E q \in Q : Holds(PageAt(s, q), a)
        <5>1. l[a] = m[a]
            BY <3>1, <4>1, <4>3 DEF Overlaid
        <5>2. ~\E q : IsLockedPage(s, q) /\ Holds(PageAt(s, q), a)
          <6> SUFFICES ASSUME NEW q, IsLockedPage(s, q), Holds(PageAt(s, q), a) PROVE FALSE
              OBVIOUS
          <6>1. a \in LockSpan(PageAt(s, q))
              BY VisitedIs DEF Holds
          <6>2. Overlaps(PageAt(s, q), p, n)
              BY <6>1 DEF Overlaps
          <6> QED BY <1>1, <1>7, <4>3, <6>2
        <5> QED BY <3>1, <4>1, <5>1, <5>2 DEF MemOf
      <4> QED BY <4>2, <4>3
    <3> QED BY <3>2, <3>3, <3>4
  <2> QED BY <1>4, <2>2, <2>3, <2>4 DEF ReadAs, ReadMem
<1> QED BY <1>6, <1>7

(* write() to the locked pages it visits.                                  *)
PutAs(s, t, Q, d) ==
    /\ ShapeBut(t, {}) /\ t.failed = s.failed /\ t.free = s.free /\ SameLocks(s, t) /\ Kept(s, t)
    /\ \A r : IsLockedPage(t, r) <=> IsLockedPage(s, r)
    /\ \A r : IsLockedPage(s, r) /\ r \notin Q => PageAt(t, r) = PageAt(s, r)
    /\ \A r \in Q : Patched(PageAt(s, r), PageAt(t, r), d) /\ PageAt(t, r).dirty

(* The flag for an overrun is looked at by no call.                        *)
LEMMA Overruns ==
  ASSUME NEW s, ShapeBut(s, {}), NEW t \in States, t.store = s.store, t.page = s.page, t.free = s.free, t.locked = s.locked,
         t.nextPageToSwap = s.nextPageToSwap, t.failed = s.failed
  PROVE  /\ ShapeBut(t, {}) /\ Kept(s, t)
         /\ \A r : IsLockedPage(t, r) <=> IsLockedPage(s, r)
<1>1. /\ t \in States /\ t.store = s.store /\ t.page = s.page /\ t.free = s.free /\ t.locked = s.locked
      /\ t.nextPageToSwap = s.nextPageToSwap /\ t.failed = s.failed
    OBVIOUS
<1>2. ShapeBut(t, {})
    BY <1>1 DEF ShapeBut, IsFree, IsLocked, NextOK
<1>3. Kept(s, t)
    BY <1>1, SameAgrees DEF Kept
<1> QED BY <1>1, <1>2, <1>3 DEF IsLockedPage, IsLocked

(* The bytes of a write go into every page it visits, which gets dirty.    *)
LEMMA PutsInLocked ==
  ASSUME NEW s, ShapeBut(s, {}), NEW Q, \A q \in Q : IsLockedPage(s, q), NEW p, NEW n, NEW D, NEW d \in [D -> Val],
         NEW t, t = PutInLocked(s, Q, p, n, d)
  PROVE  PutAs(s, t, Q, d)
<1> DEFINE G == PutInPages(s, Q, d)
           u == SetTable(s, G)
<1>1. CASE Q = {}
  <2>1. t = s
      BY <1>1 DEF PutInLocked
  <2> QED BY <1>1, <2>1 DEF PutAs, Kept, SameLocks
<1>2. CASE Q # {}
  <2>1. s \in States /\ \A c \in Class : s.page[c] \in [Pages1(c) -> AnyPage]
      BY StateFields DEF ShapeBut
  <2>2. t = [s EXCEPT !.page = G, !.overrun = @ \/ \E q \in Q : OverrunsAt(s, q, p, n)]
      BY <1>2 DEF PutInLocked
  <2>3. \A c \in Class : \A i \in Pages1(c) :
            s.page[c][i] \in AnyPage /\ (IsLocked(s, c, i) => LockedOK(s.page[c][i], c))
      BY <2>1 DEF ShapeBut
  <2>4. ASSUME NEW c \in Class, NEW i \in Pages1(c)
        PROVE  PatchedOK(s.page[c][i], PutDirty(s.page[c][i], d), d) /\ PutDirty(s.page[c][i], d).dirty
    <3> DEFINE x == s.page[c][i]
    <3>1. x \in AnyPage
        BY <2>3
    <3> HIDE DEF x
    <3>2. PatchedOK(x, PutDirty(x, d), d) /\ PutDirty(x, d).dirty
        BY <3>1, PatchedIs
    <3> QED BY <3>2 DEF x
  <2>5. \A c \in Class : G[c] = [i \in Pages1(c) |->
            IF <<c, i>> \in Q THEN PutDirty(s.page[c][i], d) ELSE s.page[c][i]]
      BY <2>1 DEF PutInPages
  <2>6. G = [c \in Class |-> G[c]]
      BY DEF PutInPages
  <2> HIDE DEF G
  <2>7. ASSUME NEW c \in Class PROVE G[c] \in [Pages1(c) -> AnyPage]
    <3>1. \A i \in Pages1(c) : PutDirty(s.page[c][i], d) \in AnyPage
        BY <2>4 DEF PatchedOK
    <3> QED BY <2>3, <2>5, <3>1
  <2>8. \A c \in Class : \A i \in Pages1(c) :
            G[c][i] = IF <<c, i>> \in Q THEN PutDirty(s.page[c][i], d) ELSE s.page[c][i]
      BY <2>5
  <2>9. ASSUME NEW c \in Class, NEW i \in Pages1(c), ~IsLocked(s, c, i) PROVE G[c][i] = s.page[c][i]
    <3>1. <<c, i>> \notin Q
        BY <2>9 DEF IsLockedPage
    <3> QED BY <2>8, <3>1
  <2>10. ASSUME NEW c \in Class, NEW i \in Pages1(c), IsLocked(s, c, i) PROVE LockedOK(G[c][i], c)
    <3>1. LockedOK(s.page[c][i], c) /\ LockedOK(PutDirty(s.page[c][i], d), c)
        BY <2>3, <2>4, <2>10 DEF PatchedOK
    <3> QED BY <2>8, <3>1
  <2>11. TableSet(s, u, G)
      BY <2>6, <2>7, <2>9, <2>10, SetsTable
  <2>12. u \in States /\ u.store = s.store /\ u.page = G /\ u.free = s.free /\ u.locked = s.locked
         /\ u.nextPageToSwap = s.nextPageToSwap /\ u.failed = s.failed
      BY <2>11 DEF TableSet, SameButPages, ShapeBut
  <2>13. /\ ShapeBut(u, {}) /\ u.failed = s.failed /\ u.free = s.free /\ u.page = G /\ Kept(s, u)
         /\ \A r : IsLockedPage(u, r) <=> IsLockedPage(s, r)
      BY <2>11 DEF TableSet, SameButPages
  <2>19. t \in States /\ t.store = s.store /\ t.page = G /\ t.free = s.free /\ t.locked = s.locked
         /\ t.nextPageToSwap = s.nextPageToSwap /\ t.failed = s.failed
    <3>1. G \in Tables
        BY <2>12 DEF States
    <3> HIDE DEF G
    <3> QED BY <2>1, <2>2, <3>1 DEF States
  <2>14. /\ ShapeBut(t, {}) /\ t.failed = u.failed /\ t.free = u.free /\ t.page = u.page /\ Kept(u, t)
         /\ \A r : IsLockedPage(t, r) <=> IsLockedPage(u, r)
    <3> HIDE DEF u
    <3>1. /\ t \in States /\ t.store = u.store /\ t.page = u.page /\ t.free = u.free /\ t.locked = u.locked
          /\ t.nextPageToSwap = u.nextPageToSwap /\ t.failed = u.failed
        BY <2>12, <2>19
    <3> QED BY <2>13, <3>1, Overruns
  <2>15. \A r \in Q : PageAt(t, r) = PutDirty(PageAt(s, r), d) /\ r[1] \in Class /\ r[2] \in Pages1(r[1])
    <3> SUFFICES ASSUME NEW r \in Q
                 PROVE  PageAt(t, r) = PutDirty(PageAt(s, r), d) /\ r[1] \in Class /\ r[2] \in Pages1(r[1])
        OBVIOUS
    <3>1. r[1] \in Class /\ r[2] \in Pages1(r[1]) /\ r = <<r[1], r[2]>>
        BY DEF IsLockedPage
    <3>2. G[r[1]][r[2]] = PutDirty(s.page[r[1]][r[2]], d)
        BY <2>8, <3>1
    <3> QED BY <2>13, <2>14, <3>1, <3>2 DEF PageAt
  <2>16. \A r \in Q : Patched(PageAt(s, r), PageAt(t, r), d) /\ PageAt(t, r).dirty
    <3> SUFFICES ASSUME NEW r \in Q PROVE Patched(PageAt(s, r), PageAt(t, r), d) /\ PageAt(t, r).dirty
        OBVIOUS
    <3>1. PatchedOK(PageAt(s, r), PutDirty(PageAt(s, r), d), d) /\ PutDirty(PageAt(s, r), d).dirty
        BY <2>4, <2>15 DEF PageAt
    <3> QED BY <2>15, <3>1 DEF PatchedOK
  <2>17. \A r : IsLockedPage(s, r) /\ r \notin Q => PageAt(t, r) = PageAt(s, r)
    <3> SUFFICES ASSUME NEW r, IsLockedPage(s, r), r \notin Q PROVE PageAt(t, r) = PageAt(s, r)
        OBVIOUS
    <3>1. r[1] \in Class /\ r[2] \in Pages1(r[1]) /\ r = <<r[1], r[2]>>
        BY DEF IsLockedPage
    <3> QED BY <2>8, <2>13, <2>14, <3>1 DEF PageAt
  <2>18. SameLocks(s, t)
    <3> SUFFICES ASSUME NEW c \in Class, NEW i \in Pages1(c) PROVE t.page[c][i].locks = s.page[c][i].locks
        BY DEF SameLocks
    <3>1. CASE <<c, i>> \in Q
        BY <2>16, <3>1 DEF Patched, PageAt
    <3>2. CASE <<c, i>> \notin Q
        BY <2>8, <2>13, <2>14, <3>2
    <3> QED BY <3>1, <3>2
  <2> QED BY <2>13, <2>14, <2>16, <2>17, <2>18 DEF PutAs, Kept
<1> QED BY <1>1, <1>2

(* write() changes what the memory contains to the bytes it is given.      *)
WriteMem(s, t, d) == \A c \in [Addr -> Val] : MemIs(s, c, {}) => MemIs(t, Patch(c, d), {})
WriteAs(s, t, d) ==
    /\ Untouched(s, t)
    /\ s.free["big"] # <<>> => t.failed = s.failed
    /\ s.free["big"] # <<>> /\ ~s.failed /\ Disjoint(s) => WriteMem(s, t, d)
(* It does so when there is a page to use.                                 *)
LEMMA Writes ==
  ASSUME NEW s, ShapeBut(s, {}), NEW p \in Addr \ {0}, NEW n \in 1 .. BigSize, Span(p, n) \subseteq Addr,
         NEW d \in [Span(p, n) -> Val], NEW t, t = WriteRaw(s, p, n, d)
  PROVE  WriteAs(s, t, d)
<1> DEFINE C == Containing(s, p, n)
           V == Visited(s, p, n)
           Q == {LockedPages(s)[j] : j \in V}
           u == PutInLocked(s, Q, p, n, d)
           e == LockedPages(s)[Min(C)]
<1>1. /\ \A q \in Q : IsLockedPage(s, q)
      /\ C # {} => /\ IsLockedPage(s, e) /\ Span(p, n) \subseteq LockSpan(PageAt(s, e))
                   /\ Overlaps(PageAt(s, e), p, n) => e \in Q
      /\ C = {} => \A q : IsLockedPage(s, q) /\ Overlaps(PageAt(s, q), p, n) => q \in Q
    BY Walks
<1>2. t = IF C # {} THEN u ELSE PushRawData(u, p, n, d)
    BY DEF WriteRaw
<1> HIDE DEF Q, C, e
<1>3. PutAs(s, u, Q, d)
    BY <1>1, PutsInLocked
<1> HIDE DEF u
<1>4. /\ ShapeBut(u, {}) /\ u.failed = s.failed /\ u.free = s.free /\ Kept(s, u)
      /\ \A r : IsLockedPage(u, r) <=> IsLockedPage(s, r)
      /\ \A r : IsLockedPage(s, r) /\ r \notin Q => PageAt(u, r) = PageAt(s, r)
      /\ \A r \in Q : Patched(PageAt(s, r), PageAt(u, r), d) /\ PageAt(u, r).dirty
    BY <1>3 DEF PutAs
<1>5. Untouched(s, u)
  <2>1. \A r : IsLockedPage(s, r) => /\ PageAt(u, r).start = PageAt(s, r).start /\ PageAt(u, r).size = PageAt(s, r).size
                                     /\ (PageAt(s, r).dirty => PageAt(u, r).dirty)
      BY <1>4 DEF Patched
  <2> QED BY <1>3, <2>1 DEF Untouched, PutAs
<1>6. PushedAs(u, PushRawData(u, p, n, d), d)
    BY <1>4, Pushes
<1>7. Untouched(s, t)
  <2>1. CASE C # {}
      BY <1>2, <1>5, <2>1
  <2>2. CASE C = {}
    <3>1. Below(u, t)
        BY <1>2, <1>6, <2>2 DEF PushedAs
    <3> QED BY <1>4, <1>5, <3>1, BelowUntouched, UntouchedTwice
  <2> QED BY <2>1, <2>2
<1>8. s.free["big"] # <<>> => t.failed = s.failed
    BY <1>2, <1>4, <1>6 DEF PushedAs
<1>9. ASSUME s.free["big"] # <<>>, ~s.failed, Disjoint(s), NEW c \in [Addr -> Val], MemIs(s, c, {})
      PROVE  MemIs(t, Patch(c, d), {})
  <2> DEFINE l == Patch(c, d)
  <2>1. PICK m : Agrees(s, m) /\ MemOf(s, c, {}, m)
      BY <1>9 DEF MemIs
  <2>2. \A a \in Addr : l[a] = IF a \in Span(p, n) THEN d[a] ELSE c[a]
      BY DEF Patch
  <2> HIDE DEF l
  <2>3. m \in [Addr -> Val] /\ Agrees(u, m)
      BY <1>4, <2>1 DEF Kept, Agrees, Consistent
  <2>4. \A r : IsLockedPage(s, r) => DOMAIN PageAt(s, r).data = LockSpan(PageAt(s, r))
                                     /\ DOMAIN PageAt(u, r).data = LockSpan(PageAt(s, r))
    <3> SUFFICES ASSUME NEW r, IsLockedPage(s, r)
                 PROVE  DOMAIN PageAt(s, r).data = LockSpan(PageAt(s, r))
                        /\ DOMAIN PageAt(u, r).data = LockSpan(PageAt(s, r))
        OBVIOUS
    <3>1. DOMAIN PageAt(s, r).data = LockSpan(PageAt(s, r))
        BY VisitedIs
    <3>2. r \in Q => DOMAIN PageAt(u, r).data = DOMAIN PageAt(s, r).data
        BY <1>4 DEF Patched
    <3> QED BY <1>4, <3>1, <3>2
  <2>5. C # {} => e \in Q
    <3> SUFFICES ASSUME C # {} PROVE Overlaps(PageAt(s, e), p, n)
        BY <1>1
    <3>1. p \in Span(p, n)
        BY Sizes DEF Span
    <3>2. p \in LockSpan(PageAt(s, e))
        BY <1>1, <3>1
    <3> QED BY <3>1, <3>2 DEF Overlaps
  <2>6. ASSUME NEW r, IsLockedPage(s, r), r \notin Q, NEW a, a \in LockSpan(PageAt(s, r)) PROVE a \notin Span(p, n)
    <3>1. CASE C = {}
        BY <1>1, <2>6, <3>1 DEF Overlaps
    <3>2. CASE C # {}
      <4>1. IsLockedPage(s, e) /\ r # e
          BY <1>1, <2>5, <2>6, <3>2
      <4>2. a \notin LockSpan(PageAt(s, e))
          BY <1>9, <2>6, <4>1 DEF Disjoint, Apart
      <4> QED BY <1>1, <3>2, <4>2
    <3> QED BY <3>1, <3>2
  <2>7. ASSUME NEW r, IsLockedPage(u, r), NEW a \in Addr, Holds(PageAt(u, r), a)
        PROVE  PageAt(u, r).data[a] = l[a] /\ (PageAt(u, r).dirty \/ (a \notin Span(p, n) /\ m[a] = c[a]))
    <3>1. IsLockedPage(s, r) /\ a \in LockSpan(PageAt(s, r)) /\ Holds(PageAt(s, r), a)
        BY <1>4, <2>4, <2>7 DEF Holds
    <3>2. PageAt(s, r).data[a] = c[a] /\ (PageAt(s, r).dirty \/ m[a] = c[a])
        BY <2>1, <3>1 DEF MemOf
    <3>3. CASE r \in Q
      <4>1. DOMAIN d = Span(p, n)
          OBVIOUS
      <4>2. PageAt(u, r).data[a] = IF a \in DOMAIN d THEN d[a] ELSE PageAt(s, r).data[a]
          BY <1>4, <3>1, <3>3 DEF Patched, Holds
      <4> QED BY <1>4, <2>2, <3>2, <3>3, <4>1, <4>2
    <3>4. CASE r \notin Q
      <4>1. a \notin Span(p, n) /\ PageAt(u, r) = PageAt(s, r)
          BY <1>4, <2>6, <3>1, <3>4
      <4> QED BY <2>2, <3>2, <4>1
    <3> QED BY <3>3, <3>4
  <2>8. ASSUME NEW a \in Addr, ~\E r : IsLockedPage(u, r) /\ Holds(PageAt(u, r), a)
        PROVE  m[a] = c[a] /\ (C # {} => a \notin Span(p, n))
    <3>1. ~\E r : IsLockedPage(s, r) /\ Holds(PageAt(s, r), a)
        BY <1>4, <2>4, <2>8 DEF Holds
    <3>2. m[a] = c[a]
        BY <2>1, <3>1 DEF MemOf
    <3>3. C # {} => a \notin Span(p, n)
        BY <1>1, <2>4, <3>1 DEF Holds
    <3> QED BY <3>2, <3>3
  <2>9. CASE C # {}
    <3>1. MemOf(u, l, {}, m)
      <4>1. \A r : IsLockedPage(u, r) => \A a \in Addr : Holds(PageAt(u, r), a) =>
                PageAt(u, r).data[a] = l[a] /\ (PageAt(u, r).dirty \/ m[a] = l[a])
          BY <2>2, <2>7
      <4>2. \A a \in Addr : (\E r : IsLockedPage(u, r) /\ Holds(PageAt(u, r), a)) \/ m[a] = l[a]
          BY <2>2, <2>8, <2>9
      <4> QED BY <4>1, <4>2 DEF MemOf
    <3> QED BY <1>2, <2>3, <2>9, <3>1 DEF MemIs, l
  <2>10. CASE C = {}
    <3> DEFINE k == Patch(m, d)
    <3>1. \A a \in Addr : k[a] = IF a \in Span(p, n) THEN d[a] ELSE m[a]
        BY <2>3 DEF Patch
    <3>2. Below(u, t) /\ Agrees(t, k)
        BY <1>2, <1>4, <1>6, <1>9, <2>3, <2>10 DEF PushedAs
    <3> HIDE DEF k
    <3>3. /\ \A r : IsLockedPage(t, r) <=> IsLockedPage(u, r)
          /\ \A r : IsLockedPage(u, r) => PageAt(t, r) = PageAt(u, r)
        BY <1>4, <3>2, BelowUntouched DEF Untouched
    <3>4. \A r : IsLockedPage(t, r) => \A a \in Addr : Holds(PageAt(t, r), a) =>
              PageAt(t, r).data[a] = l[a] /\ (PageAt(t, r).dirty \/ k[a] = l[a])
        BY <2>2, <2>7, <3>1, <3>3
    <3>5. \A a \in Addr : (\E r : IsLockedPage(t, r) /\ Holds(PageAt(t, r), a)) \/ k[a] = l[a]
        BY <2>2, <2>8, <3>1, <3>3
    <3>6. MemOf(t, l, {}, k)
        BY <3>4, <3>5 DEF MemOf
    <3> QED BY <3>2, <3>6 DEF MemIs, l
  <2> QED BY <2>9, <2>10
<1> QED BY <1>7, <1>8, <1>9 DEF WriteAs, WriteMem

(* flush() and clearPages() change nothing of it.                          *)
EmptiedAs(s, t) == Untouched(s, t) /\ t.failed = s.failed /\ Remembers(s, t)
(* Writing the big pages back and emptying them is no change above.        *)
LEMMA Flushes ==
  ASSUME NEW s, ShapeBut(s, {}), NEW K, K = LoadedPositions(s), NEW u, u = SyncBigPages(s, K)
  PROVE  EmptiedAs(s, u) /\ EmptiedAs(s, Invalidate(u, K))
<1> DEFINE t == Invalidate(u, K)
<1>1. K \subseteq Positions(s)
    BY DEF LoadedPositions
<1>2. /\ Below(s, u) /\ u.failed = s.failed
      /\ \A i \in Numbers : u.page["big"][i] = IF i \in NumbersAt(s, K) THEN SyncedPage(s.page["big"][i]) ELSE s.page["big"][i]
    BY <1>1, Syncing
<1>3. Kept(s, u)
    BY <1>1, SyncingAgrees DEF Kept
<1>4. ShapeBut(u, {}) /\ K \subseteq Positions(u) /\ NumbersAt(u, K) = NumbersAt(s, K)
    BY <1>1, <1>2, BelowShape DEF Below, Positions, NumbersAt
<1>5. Below(u, t) /\ SameButPages(u, t)
    BY <1>4, Emptying
<1>6. Kept(u, t)
  <2> SUFFICES ASSUME NEW m, Agrees(u, m) PROVE Agrees(t, m)
      BY DEF Kept
  <2>1. \A i \in NumbersAt(u, K) : ~u.page["big"][i].dirty
    <3> SUFFICES ASSUME NEW i \in NumbersAt(u, K) PROVE ~u.page["big"][i].dirty
        OBVIOUS
    <3>1. i \in Numbers /\ i \in NumbersAt(s, K)
        BY <1>1, <1>4, FreeNumbers
    <3>2. u.page["big"][i] = SyncedPage(s.page["big"][i])
        BY <1>2, <3>1
    <3>3. s.page["big"][i] \in AnyPage
        BY <3>1, StateFields, Sizes DEF ShapeBut, Numbers, N, Pages1
    <3> QED BY <3>2, <3>3 DEF SyncedPage, AnyPage
  <2> QED BY <1>4, <2>1, EmptyingAgrees
<1> HIDE DEF t
<1>7. EmptiedAs(s, u)
    BY <1>2, <1>3, BelowUntouched, BelowRemembers DEF EmptiedAs
<1>8. Below(s, t) /\ Kept(s, t) /\ t.failed = s.failed
    BY <1>2, <1>3, <1>5, <1>6, BelowTwice, KeptTwice DEF SameButPages
<1>9. EmptiedAs(s, t)
    BY <1>8, BelowUntouched, BelowRemembers DEF EmptiedAs
<1> QED BY <1>7, <1>9 DEF t

-----------------------------------------------------------------------------
(* The search of makeFittingLock                                           *)

FitSearches == [state : States, size : Nat, at : PageIds \cup {<<>>}, unused : [Class -> Nat]]
(* What is known after the pages K: the page at holds p, the unused pages  *)
(* have no locks, and no page holds a byte of the block cut to size.       *)
FitState(s, f, n) ==
    f \in FitSearches /\ f.size \in 1 .. n /\ Settled(s, f.state) /\ Remembers(s, f.state)
FitAt(f, p, K) ==
    f.at # <<>> => f.at \in K /\ IsLockedPage(f.state, f.at) /\ p \in LockSpan(PageAt(f.state, f.at))
FitUnused(f, K) ==
    \A c \in Class : f.unused[c] # 0 =>
        /\ <<c, f.unused[c]>> \in K /\ IsLockedPage(f.state, <<c, f.unused[c]>>)
        /\ PageAt(f.state, <<c, f.unused[c]>>).locks = 0
FitClear(f, p, K) ==
    f.at = <<>> => \A q : IsLockedPage(f.state, q) /\ q \in K =>
                      \A a \in Span(p, f.size) : a \notin LockSpan(PageAt(f.state, q))
FitSpotted(f, K) ==
    f.at = <<>> => \A q : IsLockedPage(f.state, q) /\ q \in K /\ PageAt(f.state, q).locks = 0 => f.unused[q[1]] # 0
Fit(s, f, p, n, K) ==
    FitState(s, f, n) /\ FitAt(f, p, K) /\ FitUnused(f, K) /\ FitClear(f, p, K) /\ FitSpotted(f, K)

(* A walk over the locked pages: g is what the page q makes of f.          *)
FitConsidered(s, f, g, p, n, K, q) ==
    /\ Fit(s, g, p, n, K \cup {q})
    /\ \A r : IsLockedPage(f.state, r) /\ r # q => IsLockedPage(g.state, r)

(* A page that is not in use and that the block runs into is given back.   *)
LEMMA FitFrees ==
  ASSUME NEW s, NEW f, NEW p, NEW n, NEW K, Fit(s, f, p, n, K), f.at = <<>>, ShapeBut(s, {}),
         NEW q, IsLockedPage(f.state, q), q \notin K, ~InUse(PageAt(f.state, q)),
         NEW g, g = SearchFreed(f, q)
  PROVE  FitConsidered(s, f, g, p, n, K, q)
<1> DEFINE t == f.state
           u == FreeLockedPage(t, q[1], q[2])
           pg == PageAt(t, q)
<1>1. ShapeBut(t, {}) /\ Settled(s, t) /\ f \in FitSearches
    BY DEF Fit, FitState, Settled
<1>2. /\ q[1] \in Class /\ q[2] \in Pages1(q[1]) /\ q = <<q[1], q[2]>> /\ IsLocked(t, q[1], q[2])
      /\ t.page[q[1]][q[2]] = pg /\ pg.locks \in Nat
    BY <1>1, VisitedIs
<1>3. t.page[q[1]][q[2]].locks = 0
    BY <1>2 DEF InUse
<1>4. Freed(t, u, q[1], q[2]) /\ Remembers(t, u)
    BY <1>1, <1>2, <1>3, FreesLocked, FreesRemember
<1>5. g.state = u /\ g.size = f.size /\ g.at = f.at /\ g.unused = f.unused
    BY <1>1 DEF FitSearches, SearchFreed
<1> HIDE DEF t, u, pg
<1>6. /\ Settled(t, u) /\ ShapeBut(u, {}) /\ \A r : IsLockedPage(u, r) <=> IsLockedPage(t, r) /\ r # q
      /\ \A r : IsLockedPage(u, r) => PageAt(u, r) = PageAt(t, r)
    BY <1>2, <1>4 DEF Freed, Settled
<1>7. Settled(s, u)
    BY <1>1, <1>6, SettledTwice
<1>8. u \in States
    BY <1>6 DEF ShapeBut
<1>9. FitState(s, g, n)
  <2>1. Remembers(s, u)
      BY <1>4, RemembersTwice DEF Fit, FitState, t
  <2>2. g \in FitSearches
      BY <1>1, <1>8 DEF FitSearches, SearchFreed, u, t
  <2> QED BY <1>5, <1>7, <2>1, <2>2 DEF Fit, FitState
<1>10. \A r : r \in K /\ IsLockedPage(t, r) => IsLockedPage(u, r) /\ PageAt(u, r) = PageAt(t, r)
    BY <1>6
<1>11. FitAt(g, p, K \cup {q})
    BY <1>5 DEF FitAt
<1>12. FitUnused(g, K \cup {q})
    BY <1>5, <1>10 DEF Fit, FitUnused, t
<1>13. FitClear(g, p, K \cup {q})
    BY <1>5, <1>6 DEF Fit, FitClear, t
<1>14. FitSpotted(g, K \cup {q})
    BY <1>5, <1>6 DEF Fit, FitSpotted, t
<1> QED BY <1>5, <1>6, <1>9, <1>11, <1>12, <1>13, <1>14 DEF Fit, t, FitConsidered

(* The block is cut in front of a page in use that it runs into.           *)
FitPassed(f, q, pg, p) ==
    [f EXCEPT !.size = IF EndOverlaps(pg, p, @) THEN pg.start - p ELSE @,
              !.unused[q[1]] = IF @ = 0 /\ ~InUse(pg) THEN q[2] ELSE @]
(* Nothing else changes.                                                   *)
LEMMA FitPasses ==
  ASSUME NEW s, NEW f, NEW p \in Addr \ {0}, NEW n \in Nat, NEW K, Fit(s, f, p, n, K), f.at = <<>>, ShapeBut(s, {}),
         NEW q, IsLockedPage(f.state, q), q \notin K, NEW pg, pg = PageAt(f.state, q), p \notin LockSpan(pg),
         InUse(pg) \/ ~EndOverlaps(pg, p, f.size),
         NEW g, g = FitPassed(f, q, pg, p)
  PROVE  FitConsidered(s, f, g, p, n, K, q)
<1> DEFINE t == f.state
           z == IF EndOverlaps(pg, p, f.size) THEN pg.start - p ELSE f.size
           x == IF f.unused[q[1]] = 0 /\ ~InUse(pg) THEN q[2] ELSE f.unused[q[1]]
<1>1. ShapeBut(t, {}) /\ Settled(s, t) /\ f \in FitSearches /\ f.size \in 1 .. n
    BY DEF Fit, FitState, Settled
<1>2. /\ q[1] \in Class /\ q[2] \in Pages1(q[1]) /\ q = <<q[1], q[2]>> /\ q[2] \in Nat /\ q[2] # 0
      /\ pg.locks \in Nat /\ pg.start \in Nat /\ pg.size \in Nat
    BY <1>1, VisitedIs
<1>3. p \in Nat /\ f.size \in Nat /\ f.size >= 1 /\ f.size <= n
    BY <1>1, Sizes
<1>4. z \in Nat /\ z >= 1 /\ z <= f.size
    BY <1>2, <1>3 DEF EndOverlaps
<1>5. \A a \in Span(p, z) : a \notin LockSpan(pg)
  <2> SUFFICES ASSUME NEW a \in Span(p, z), a \in LockSpan(pg) PROVE FALSE
      OBVIOUS
  <2> HIDE DEF z
  <2> DEFINE b == pg.start
             m == pg.size
  <2>3. b \in Nat /\ m \in Nat /\ z \in Nat /\ p \in Nat /\ a \in p .. (p + z - 1) /\ a \in b .. (b + m - 1)
        /\ p \notin b .. (b + m - 1)
      BY <1>2, <1>3, <1>4 DEF Span, LockSpan
  <2> HIDE DEF b, m
  <2>1. a \in Nat /\ a >= p /\ a < p + z /\ a >= b /\ a < b + m
      BY <2>3
  <2>2. p < b
      BY <2>1, <2>3
  <2> USE DEF b, m, z
  <2> QED BY <1>2, <1>3, <2>1, <2>2 DEF EndOverlaps
<1>6. f.unused \in [Class -> Nat] /\ x \in Nat
    BY <1>1, <1>2 DEF FitSearches
<1>7. g = [f EXCEPT !.size = z, !.unused[q[1]] = x]
    BY DEF FitPassed
<1>8. /\ x # f.unused[q[1]] => x = q[2] /\ pg.locks = 0
      /\ f.unused[q[1]] # 0 \/ pg.locks = 0 => x # 0
    BY <1>2 DEF InUse
<1> HIDE DEF z, x
<1>9. g.state = t /\ g.size = z /\ g.at = <<>> /\ g.unused = [f.unused EXCEPT ![q[1]] = x]
    BY <1>1, <1>7 DEF FitSearches
<1>10. g \in FitSearches
  <2>1. [f.unused EXCEPT ![q[1]] = x] \in [Class -> Nat]
      BY <1>2, <1>6
  <2> QED BY <1>1, <1>4, <1>7, <2>1 DEF FitSearches
<1>11. FitState(s, g, n)
  <2>1. z \in 1 .. n
      BY <1>3, <1>4
  <2> QED BY <1>9, <1>10, <2>1 DEF Fit, FitState
<1>12. FitAt(g, p, K \cup {q})
    BY <1>9 DEF FitAt
<1>13. FitUnused(g, K \cup {q})
  <2> SUFFICES ASSUME NEW c \in Class, g.unused[c] # 0
               PROVE  /\ <<c, g.unused[c]>> \in K \cup {q} /\ IsLockedPage(t, <<c, g.unused[c]>>)
                      /\ PageAt(t, <<c, g.unused[c]>>).locks = 0
      BY <1>9 DEF FitUnused
  <2>1. CASE g.unused[c] = f.unused[c]
      BY <2>1 DEF Fit, FitUnused
  <2>2. CASE g.unused[c] # f.unused[c]
    <3>1. c = q[1] /\ g.unused[c] = x
        BY <1>6, <1>9, <2>2
    <3>2. <<c, g.unused[c]>> = q /\ pg.locks = 0
        BY <1>2, <1>8, <2>2, <3>1
    <3> QED BY <3>2
  <2> QED BY <2>1, <2>2
<1>14. FitClear(g, p, K \cup {q})
  <2> SUFFICES ASSUME NEW r, IsLockedPage(t, r), r \in K \cup {q}, NEW a \in Span(p, z)
               PROVE  a \notin LockSpan(PageAt(t, r))
      BY <1>9 DEF FitClear
  <2>1. CASE r = q
      BY <1>5, <2>1
  <2>2. CASE r # q
    <3>1. a \in Span(p, f.size)
        BY <1>3, <1>4 DEF Span
    <3> QED BY <2>2, <3>1 DEF Fit, FitClear
  <2> QED BY <2>1, <2>2
<1>15. FitSpotted(g, K \cup {q})
  <2> SUFFICES ASSUME NEW r, IsLockedPage(t, r), r \in K \cup {q}, PageAt(t, r).locks = 0
               PROVE  g.unused[r[1]] # 0
      BY <1>9 DEF FitSpotted
  <2>1. r[1] \in Class
      BY <1>1, VisitedIs
  <2>2. CASE r = q
      BY <1>2, <1>6, <1>8, <1>9, <2>2
  <2>3. CASE r # q
    <3>1. f.unused[r[1]] # 0
        BY <2>3 DEF Fit, FitSpotted
    <3> QED BY <1>2, <1>6, <1>8, <1>9, <2>1, <3>1
  <2> QED BY <2>2, <2>3
<1> QED BY <1>9, <1>11, <1>12, <1>13, <1>14, <1>15 DEF Fit, FitConsidered

(* ConsiderFitting adds the page to those visited.                         *)
LEMMA FitConsiders ==
  ASSUME NEW s, NEW f, NEW p \in Addr \ {0}, NEW n \in Nat, NEW K, Fit(s, f, p, n, K), ShapeBut(s, {}),
         NEW q, IsLockedPage(f.state, q), q \notin K
  PROVE  FitConsidered(s, f, ConsiderFitting(f, q, p), p, n, K, q)
<1> DEFINE g == ConsiderFitting(f, q, p)
           pg == PageAt(f.state, q)
<1> SUFFICES FitConsidered(s, f, g, p, n, K, q)
    OBVIOUS
<1>1. g = IF f.at # <<>> THEN f
          ELSE IF p \in LockSpan(pg) THEN [f EXCEPT !.at = q]
          ELSE IF EndOverlaps(pg, p, f.size) /\ ~InUse(pg) THEN SearchFreed(f, q)
          ELSE FitPassed(f, q, pg, p)
    BY DEF ConsiderFitting, SearchFreed, FitPassed
<1> HIDE DEF g
<1>2. CASE f.at # <<>>
  <2>1. g = f
      BY <1>1, <1>2
  <2>2. FitAt(f, p, K \cup {q}) /\ FitUnused(f, K \cup {q}) /\ FitClear(f, p, K \cup {q}) /\ FitSpotted(f, K \cup {q})
      BY <1>2 DEF Fit, FitAt, FitUnused, FitClear, FitSpotted
  <2> QED BY <2>1, <2>2 DEF Fit, FitConsidered
<1>3. CASE f.at = <<>> /\ p \in LockSpan(pg)
  <2>1. g = [f EXCEPT !.at = q]
      BY <1>1, <1>3
  <2>2. ShapeBut(f.state, {}) /\ f \in FitSearches
      BY DEF Fit, FitState, Settled
  <2>3. q \in PageIds /\ q # <<>>
    <3>1. q \in PageIds /\ q = <<q[1], q[2]>>
        BY <2>2, VisitedIs
    <3> QED BY <3>1
  <2>4. g.state = f.state /\ g.size = f.size /\ g.at = q /\ g.unused = f.unused /\ g \in FitSearches
      BY <2>1, <2>2, <2>3 DEF FitSearches
  <2>5. FitState(s, g, n)
      BY <2>4 DEF Fit, FitState
  <2>6. FitAt(g, p, K \cup {q}) /\ FitUnused(g, K \cup {q}) /\ FitClear(g, p, K \cup {q}) /\ FitSpotted(g, K \cup {q})
      BY <1>3, <2>3, <2>4 DEF Fit, FitAt, FitUnused, FitClear, FitSpotted
  <2> QED BY <2>4, <2>5, <2>6 DEF Fit, FitConsidered
<1>4. CASE f.at = <<>> /\ p \notin LockSpan(pg) /\ EndOverlaps(pg, p, f.size) /\ ~InUse(pg)
  <2>1. g = SearchFreed(f, q)
      BY <1>1, <1>4
  <2> QED BY <1>4, <2>1, FitFrees
<1>5. CASE f.at = <<>> /\ p \notin LockSpan(pg) /\ ~(EndOverlaps(pg, p, f.size) /\ ~InUse(pg))
  <2>1. g = FitPassed(f, q, pg, p)
      BY <1>1, <1>5
  <2>2. InUse(pg) \/ ~EndOverlaps(pg, p, f.size)
      BY <1>5
  <2>5. p \notin LockSpan(pg)
      BY <1>5
  <2>6. f.at = <<>>
      BY <1>5
  <2>4. pg = PageAt(f.state, q)
      OBVIOUS
  <2> HIDE DEF pg
  <2> QED BY <2>1, <2>2, <2>4, <2>5, <2>6, FitPasses
<1> QED BY <1>2, <1>3, <1>4, <1>5

IsFitting(f, s, p, b, order, n) ==
    f = [k \in 0 .. n |-> IF k = 0 THEN NoFit(s, b) ELSE ConsiderFitting(f[k - 1], order[k], p)]
(* The recursive function of the search exists.                            *)
LEMMA FittingExists ==
  ASSUME NEW s, NEW p, NEW b, NEW order, NEW n \in Nat
  PROVE  \E f : IsFitting(f, s, p, b, order, n)
<1> DEFINE G == {k \in 0 .. n : \E f : IsFitting(f, s, p, b, order, k)}
<1>1. 0 \in G
  <2> DEFINE f == [k \in 0 .. 0 |-> NoFit(s, b)]
  <2>1. f = [k \in 0 .. 0 |-> IF k = 0 THEN NoFit(s, b) ELSE ConsiderFitting(f[k - 1], order[k], p)]
      OBVIOUS
  <2> HIDE DEF f
  <2>2. IsFitting(f, s, p, b, order, 0)
      BY <2>1 DEF IsFitting
  <2> QED BY <2>2
<1>2. ASSUME NEW k \in 0 .. n, k # n, k \in G PROVE k + 1 \in G
  <2>1. PICK f : IsFitting(f, s, p, b, order, k)
      BY <1>2
  <2> DEFINE g == [j \in 0 .. k + 1 |-> IF j = k + 1 THEN ConsiderFitting(f[k], order[k + 1], p) ELSE f[j]]
             e == [j \in 0 .. k + 1 |-> IF j = 0 THEN NoFit(s, b) ELSE ConsiderFitting(g[j - 1], order[j], p)]
  <2>2. ASSUME NEW j \in 0 .. k + 1 PROVE g[j] = e[j]
    <3>1. CASE j = k + 1
      <4>1. j # 0 /\ j - 1 = k /\ k \in 0 .. k + 1 /\ k # k + 1
          BY <3>1
      <4> QED BY <3>1, <4>1
    <3>2. CASE j # k + 1
      <4>1. j \in 0 .. k /\ g[j] = f[j]
          BY <3>2
      <4>2. f[j] = IF j = 0 THEN NoFit(s, b) ELSE ConsiderFitting(f[j - 1], order[j], p)
          BY <2>1, <4>1 DEF IsFitting
      <4>3. j # 0 => j - 1 \in 0 .. k + 1 /\ g[j - 1] = f[j - 1]
          BY <4>1
      <4> QED BY <4>1, <4>2, <4>3
    <3> QED BY <3>1, <3>2
  <2>3. g = e
      BY <2>2
  <2> HIDE DEF g
  <2>4. IsFitting(g, s, p, b, order, k + 1)
      BY <2>3 DEF IsFitting
  <2>5. k + 1 \in 0 .. n
      BY <1>2
  <2> QED BY <2>4, <2>5
<1> HIDE DEF G
<1>3. n \in G
    BY <1>1, <1>2, UpTo
<1> QED BY <1>3 DEF G

(* Before the walk.                                                        *)
LEMMA StartsFitting ==
  ASSUME NEW s, ShapeBut(s, {}), NEW p, NEW n \in 1 .. BigSize
  PROVE  Fit(s, NoFit(s, n), p, n, {})
<1> DEFINE f == NoFit(s, n)
<1> SUFFICES Fit(s, f, p, n, {})
    OBVIOUS
<1>1. n \in Nat /\ n \in 1 .. n /\ Smaller(n, BigSize) = n
    BY Sizes DEF Smaller
<1>2. f = [state |-> s, size |-> n, at |-> <<>>, unused |-> [c \in Class |-> 0]]
    BY <1>1 DEF NoFit
<1> HIDE DEF f
<1>3. f.state = s /\ f.size = n /\ f.at = <<>> /\ f.unused = [c \in Class |-> 0]
    BY <1>2
<1>4. s \in States /\ [c \in Class |-> 0] \in [Class -> Nat]
    BY DEF ShapeBut
<1>5. f \in FitSearches
    BY <1>1, <1>2, <1>4 DEF FitSearches
<1>6. Below(s, s) /\ Settled(s, s) /\ Remembers(s, s)
    BY BelowSelf, BelowSettled DEF Remembers
<1>7. FitState(s, f, n)
    BY <1>1, <1>3, <1>5, <1>6 DEF FitState
<1>8. FitAt(f, p, {}) /\ FitUnused(f, {}) /\ FitClear(f, p, {}) /\ FitSpotted(f, {})
    BY <1>3 DEF FitAt, FitUnused, FitClear, FitSpotted
<1> QED BY <1>7, <1>8 DEF Fit

(* The search has seen every locked page that is left.                     *)
LEMMA FitsAll ==
  ASSUME NEW s, ShapeBut(s, {}), NEW p \in Addr \ {0}, NEW n \in 1 .. BigSize
  PROVE  Fit(s, SearchFitting(s, p, n), p, n, Every(s))
<1> DEFINE order == LockedPages(s)
           M == Len(order)
           after == CHOOSE f : IsFitting(f, s, p, n, order, M)
           W(k) == {q \in PageIds : \E j \in 1 .. k : order[j] = q}
           Left(k) == \A j \in 1 .. M : k < j => IsLockedPage(after[k].state, order[j])
           G == {k \in 0 .. M : Fit(s, after[k], p, n, W(k)) /\ Left(k)}
<1>1. M \in Nat /\ DOMAIN order = 1 .. M /\ (\A q : On(q, order) <=> IsLockedPage(s, q)) /\ Once(order)
    BY LockedPagesAre
<1>2. IsFitting(after, s, p, n, order, M)
    BY <1>1, FittingExists
<1>3. SearchFitting(s, p, n) = after[M]
    BY DEF SearchFitting, IsFitting
<1> HIDE DEF after
<1>4. after[0] = NoFit(s, n) /\ \A k \in 1 .. M : after[k] = ConsiderFitting(after[k - 1], order[k], p)
  <2>1. 0 \in 0 .. M /\ \A k \in 1 .. M : k \in 0 .. M /\ k # 0
      BY <1>1
  <2> QED BY <1>2, <2>1 DEF IsFitting
<1>5. \A j \in 1 .. M : IsLockedPage(s, order[j]) /\ order[j] \in PageIds
    BY <1>1, VisitedIs DEF On
<1>6. n \in Nat
    BY Sizes
<1>7. 0 \in G
  <2>1. W(0) = {} /\ 0 \in 0 .. M
      BY <1>1
  <2>2. Fit(s, after[0], p, n, {})
      BY <1>4, StartsFitting
  <2>3. Left(0)
    <3>1. after[0].state = s
        BY <1>4 DEF NoFit
    <3> QED BY <1>5, <3>1
  <2> QED BY <2>1, <2>2, <2>3
<1>8. ASSUME NEW k \in 0 .. M, k # M, k \in G PROVE k + 1 \in G
  <2> DEFINE f == after[k]
             g == after[k + 1]
             q == order[k + 1]
             V == W(k)
  <2>1. k + 1 \in 1 .. M /\ k + 1 \in 0 .. M /\ k + 1 - 1 = k /\ k \in Nat /\ k < k + 1
    <3> HIDE DEF G, M
    <3> QED BY <1>1, <1>8
  <2>2. g = ConsiderFitting(f, q, p)
      BY <1>4, <2>1
  <2>3. Fit(s, f, p, n, V) /\ Left(k) /\ IsLockedPage(f.state, q) /\ q \in PageIds
      BY <1>5, <1>8, <2>1
  <2>4. q \notin V
    <3> SUFFICES ASSUME NEW j \in 1 .. k, order[j] = q PROVE FALSE
        OBVIOUS
    <3>1. j \in 1 .. M /\ j # k + 1
      <4> HIDE DEF M, q
      <4> QED BY <1>1, <2>1
    <3> QED BY <1>1, <2>1, <3>1 DEF Once
  <2>5. W(k + 1) = V \cup {q}
    <3>1. \A j : j \in 1 .. k + 1 <=> j \in 1 .. k \/ j = k + 1
        BY <2>1
    <3> QED BY <2>3, <3>1
  <2>6. \A j \in 1 .. M : k + 1 < j => k < j /\ order[j] # q
    <3> SUFFICES ASSUME NEW j \in 1 .. M, k + 1 < j PROVE k < j /\ order[j] # q
        OBVIOUS
    <3>1. k < j /\ j # k + 1
      <4> HIDE DEF M, q
      <4> QED BY <1>1, <2>1
    <3> QED BY <1>1, <2>1, <3>1 DEF Once
  <2> HIDE DEF V, f, g, q
  <2>10. Fit(s, f, p, n, V) /\ IsLockedPage(f.state, q)
      BY <2>3
  <2>7. FitConsidered(s, f, g, p, n, V, q)
      BY <1>6, <2>2, <2>4, <2>10, FitConsiders
  <2>8. Left(k + 1)
    <3> SUFFICES ASSUME NEW j \in 1 .. M, k + 1 < j PROVE IsLockedPage(g.state, order[j])
        BY DEF g
    <3>1. k < j /\ order[j] # q
        BY <2>6
    <3>2. IsLockedPage(f.state, order[j])
        BY <2>3, <3>1 DEF f
    <3> QED BY <2>7, <3>1, <3>2 DEF FitConsidered
  <2>9. Fit(s, g, p, n, W(k + 1))
      BY <2>5, <2>7 DEF FitConsidered
  <2> HIDE DEF W, Left
  <2> QED BY <2>1, <2>8, <2>9 DEF g
<1>9. M \in 0 .. M /\ M \in Nat
    BY <1>1
<1> HIDE DEF G, M, order
<1>10. \A k \in 0 .. M : k # M /\ k \in G => k + 1 \in G
    BY <1>8
<1>11. \A k \in 0 .. M : k \in G
    BY <1>7, <1>9, <1>10, UpTo
<1>12. Fit(s, after[M], p, n, W(M))
  <2>1. M \in G
      BY <1>9, <1>11
  <2> QED BY <2>1 DEF G
<1>13. W(M) = Every(s)
    BY <1>1 DEF Every, On
<1> QED BY <1>3, <1>12, <1>13

-----------------------------------------------------------------------------
(* The whole of makeFittingLock                                            *)

(* It leaves the pages in use as they are, the lock is within its page,    *)
(* and the memory stays.                                                   *)
FitSame(s, t) ==
    \A r : IsLockedPage(s, r) /\ InUse(PageAt(s, r)) => PageAt(t, r).size = PageAt(s, r).size
FitWithin(t, l) == l # NoLock => \A a \in Span(l.ptr, l.size) : a \in LockSpan(PageAt(t, l.page))
FitMem(s, t, n) ==
    Short(s) /\ n < BigSize => Short(t) /\ \A c : MemIs(s, c, {}) => MemIs(t, c, {})
MadeFit(s, t, l, p, n, ro) ==
    Made(s, t, l, p, n, ro) /\ FitSame(s, t) /\ FitWithin(t, l) /\ FitMem(s, t, n) /\ (l # NoLock => ~t.failed)

(* The page q of the state w has the k bytes of the lock to be given out.  *)
FitPrepared(s, w, q, p, k, n) ==
    /\ ShapeBut(w, {}) /\ ~w.failed /\ w.overrun = s.overrun /\ SameLocks(s, w)
    /\ IsLockedPage(w, q) /\ PageAt(w, q).start <= p
    /\ \A a \in Span(p, k) : a \in LockSpan(PageAt(w, q))
    /\ \A r : IsLockedPage(w, r) /\ r # q => IsLockedPage(s, r) /\ PageAt(w, r) = PageAt(s, r)
    /\ IsLockedPage(s, q) /\ InUse(PageAt(s, q)) => PageAt(w, q) = PageAt(s, q)
    /\ Disjoint(s) => Disjoint(w)
    /\ FitMem(s, w, n)
(* A prepared page is given to the lock and counted.                       *)
LEMMA GivesFit ==
  ASSUME NEW s, ShapeBut(s, {}), NEW c \in Class, NEW i \in Pages1(c), NEW p \in Addr \ {0}, NEW n \in 1 .. BigSize,
         NEW k \in 1 .. n, NEW ro \in BOOLEAN,
         NEW w, FitPrepared(s, w, <<c, i>>, p, k, n), NEW r, r = GiveLock(w, c, i, p, k, ro)
  PROVE  MadeFit(s, r.state, r.lock, p, n, ro) /\ r.lock # NoLock
<1> DEFINE q == <<c, i>>
           b == k <= PageSize[c]
           t == r.state
           l == r.lock
           o == p - PageOf(w, c, i).start
<1>1. r = [state |-> Require(CountLock(w, c, i, ro), b),
           lock |-> [ptr |-> p, size |-> k, ro |-> ro, page |-> q, offset |-> o]]
    BY DEF GiveLock, FitPrepared
<1>2. /\ ShapeBut(w, {}) /\ ~w.failed /\ w.overrun = s.overrun /\ SameLocks(s, w)
      /\ IsLockedPage(w, q) /\ PageAt(w, q).start <= p
      /\ \A a \in Span(p, k) : a \in LockSpan(PageAt(w, q))
      /\ \A v : IsLockedPage(w, v) /\ v # q => IsLockedPage(s, v) /\ PageAt(w, v) = PageAt(s, v)
      /\ IsLockedPage(s, q) /\ InUse(PageAt(s, q)) => PageAt(w, q) = PageAt(s, q)
    BY DEF FitPrepared
<1>3. IsLocked(w, c, i) /\ PageOf(w, c, i) = PageAt(w, q) /\ b \in BOOLEAN
    BY <1>2 DEF IsLockedPage, PageAt, PageOf
<1>4. p \in Nat /\ k \in Nat /\ n \in Nat /\ k >= 1 /\ k <= n /\ n <= BigSize /\ BigSize \in Nat /\ PageSize[c] \in Nat
    BY Sizes
<1>5. PageAt(w, q).start \in Nat /\ PageAt(w, q).size \in Nat /\ PageAt(w, q).size <= PageSize[c]
    BY <1>2, VisitedIs
<1>6. p \in Span(p, k) /\ p + k - 1 \in Span(p, k)
    BY <1>4 DEF Span
<1>7. p \in LockSpan(PageAt(w, q)) /\ p + k - 1 \in LockSpan(PageAt(w, q))
    BY <1>2, <1>6
<1>8. b
    BY <1>2, <1>4, <1>5, <1>7 DEF LockSpan, Span
<1> HIDE DEF b
<1>9. o \in Nat /\ PageAt(w, q).start + o = p
    BY <1>2, <1>3, <1>4, <1>5
<1> HIDE DEF o
<1>10. CountedAs(w, t, q, ro, b)
  <2>1. t = Require(CountLock(w, c, i, ro), b)
      BY <1>1
  <2> HIDE DEF t, q
  <2>2. CountedAs(w, t, <<c, i>>, ro, b)
      BY <1>2, <1>3, <2>1, Counts
  <2> QED BY <2>2 DEF q
<1>11. l.ptr = p /\ l.size = k /\ l.ro = ro /\ l.page = q /\ l.offset = o
    BY <1>1
<1>12. l \in LockType
  <2>1. q \in LockPages
      BY DEF LockPages, Pages1
  <2>2. k \in 1 .. BigSize
      BY <1>4
  <2>3. l = [ptr |-> p, size |-> k, ro |-> ro, page |-> q, offset |-> o]
      BY <1>1
  <2> HIDE DEF l, q
  <2> QED BY <1>9, <2>1, <2>2, <2>3 DEF LockType, LockPages
<1>13. l # NoLock
  <2>1. NoLock.ptr = 0
      BY DEF NoLock
  <2> QED BY <1>11, <2>1
<1> HIDE DEF t, l
<1>14. /\ ShapeBut(t, {}) /\ t.overrun = s.overrun /\ ~t.failed /\ Kept(w, t)
       /\ \A v : IsLockedPage(t, v) <=> IsLockedPage(w, v)
       /\ \A v : IsLockedPage(w, v) /\ v # q => PageAt(t, v) = PageAt(w, v)
       /\ PageAt(t, q).start = PageAt(w, q).start /\ PageAt(t, q).size = PageAt(w, q).size
       /\ PageAt(t, q).data = PageAt(w, q).data /\ PageAt(t, q).dirty = (PageAt(w, q).dirty \/ ~ro)
    BY <1>2, <1>8, <1>10 DEF CountedAs
<1>15. \A v : IsLockedPage(w, v) =>
          /\ PageAt(t, v).start = PageAt(w, v).start /\ PageAt(t, v).size = PageAt(w, v).size
          /\ PageAt(t, v).data = PageAt(w, v).data /\ (PageAt(w, v).dirty => PageAt(t, v).dirty)
    BY <1>14
<1>16. \A v : IsLockedPage(w, v) => LockSpan(PageAt(t, v)) = LockSpan(PageAt(w, v))
    BY <1>15 DEF LockSpan
<1>17. GivenLock(t, l, p, n, ro)
    BY <1>2, <1>4, <1>7, <1>9, <1>11, <1>12, <1>14, <1>16 DEF GivenLock
<1>18. MadeLocks(s, t, l)
    BY <1>2, <1>10, <1>11, <1>13 DEF MadeLocks, CountedAs, SameLocks
<1>19. ASSUME NEW v, IsLockedPage(s, v), InUse(PageAt(s, v))
       PROVE  /\ IsLockedPage(t, v) /\ PageAt(t, v).start = PageAt(s, v).start
              /\ (PageAt(s, v).dirty => PageAt(t, v).dirty) /\ PageAt(t, v).size = PageAt(s, v).size
  <2>1. IsLockedPage(w, v)
      BY <1>2, <1>19, UsedStays
  <2>2. PageAt(w, v) = PageAt(s, v)
      BY <1>2, <1>19, <2>1
  <2> QED BY <1>14, <1>15, <2>1, <2>2
<1>20. MadeUsed(s, t) /\ FitSame(s, t)
    BY <1>19 DEF MadeUsed, FitSame
<1>21. MadeDisjoint(s, t, l)
  <2> SUFFICES ASSUME Disjoint(s)
               PROVE  Disjoint(t) /\ \A v : IsLockedPage(t, v) => IsLockedPage(s, v) \/ (l # NoLock /\ v = l.page)
      BY DEF MadeDisjoint
  <2>1. Disjoint(w)
      BY DEF FitPrepared
  <2>2. Disjoint(t)
      BY <1>14, <1>16, <2>1 DEF Disjoint, Apart
  <2> QED BY <1>2, <1>11, <1>13, <1>14, <2>2
<1>22. Made(s, t, l, p, n, ro)
    BY <1>13, <1>14, <1>17, <1>18, <1>20, <1>21 DEF Made
<1>23. FitWithin(t, l)
    BY <1>2, <1>11, <1>16 DEF FitWithin
<1>24. FitMem(s, t, n)
  <2>1. Remembers(w, t)
      BY <1>14, <1>15, LooksSame
  <2> QED BY <2>1 DEF FitMem, FitPrepared, Remembers
<1> QED BY <1>13, <1>14, <1>20, <1>22, <1>23, <1>24 DEF MadeFit, t, l

(* A second lock on the page that the block begins in.                     *)
LEMMA SharesFit ==
  ASSUME NEW s, ShapeBut(s, {}), ~s.failed, NEW p \in Addr \ {0}, NEW n \in 1 .. BigSize, NEW ro \in BOOLEAN,
         NEW f, Fit(s, f, p, n, Every(s)), f.at # <<>>, NEW r, r = ShareLock(f, p, ro)
  PROVE  MadeFit(s, r.state, r.lock, p, n, ro) /\ r.lock # NoLock
<1> DEFINE w == f.state
           q == f.at
           pg == PageAt(w, q)
           k == Smaller(f.size, pg.start + pg.size - p)
<1>1. r = GiveLock(w, q[1], q[2], p, k, ro)
    BY DEF ShareLock
<1>2. Settled(s, w) /\ Remembers(s, w) /\ f.size \in 1 .. n /\ IsLockedPage(w, q) /\ p \in LockSpan(pg)
    BY DEF Fit, FitState, FitAt
<1>3. ShapeBut(w, {}) /\ w.failed = s.failed /\ w.overrun = s.overrun /\ SameLocks(s, w)
      /\ \A v : IsLockedPage(w, v) => IsLockedPage(s, v) /\ PageAt(w, v) = PageAt(s, v)
    BY <1>2 DEF Settled
<1>4. /\ q[1] \in Class /\ q[2] \in Pages1(q[1]) /\ q = <<q[1], q[2]>>
      /\ pg.start \in Nat /\ pg.size \in Nat /\ pg.size >= 1
    BY <1>2, <1>3, VisitedIs
<1>5. p \in Nat /\ f.size \in Nat /\ f.size >= 1 /\ f.size <= n /\ n \in Nat
    BY <1>2, Sizes
<1>6. pg.start <= p /\ p < pg.start + pg.size
    BY <1>2, <1>4, <1>5 DEF LockSpan, Span
<1>7. k \in Nat /\ k >= 1 /\ k <= n /\ p + k <= pg.start + pg.size
    BY <1>4, <1>5, <1>6 DEF Smaller
<1>8. k \in 1 .. n
    BY <1>5, <1>7
<1> HIDE DEF k
<1>9. \A a \in Span(p, k) : a \in LockSpan(pg)
    BY <1>4, <1>5, <1>6, <1>7 DEF LockSpan, Span
<1>10. FitMem(s, w, n)
    BY <1>2 DEF FitMem, Remembers
<1>11. Disjoint(s) => Disjoint(w)
    BY <1>3 DEF Disjoint
<1>12. FitPrepared(s, w, q, p, k, n)
    BY <1>2, <1>3, <1>6, <1>9, <1>10, <1>11 DEF FitPrepared
<1> HIDE DEF w, q
<1>13. FitPrepared(s, w, <<q[1], q[2]>>, p, k, n)
    BY <1>4, <1>12
<1> QED BY <1>1, <1>4, <1>8, <1>13, GivesFit

(* The page q of u takes k bytes at p of the memory below the locks.       *)
FitFilled(u, c, i, p, k, fresh) ==
    SetPage(u, c, i, Resized(PageOf(u, c, i), p, k,
        IF c = "big" /\ fresh THEN PageOf(u, c, i).data ELSE [a \in Span(p, k) |-> RawByte(u, a)]))
(* A fitting lock that takes a page fills it with the bytes below.         *)
LEMMA FillsFit ==
  ASSUME NEW s, ShapeBut(s, {}), NEW f, NEW p \in Addr \ {0}, NEW n \in 1 .. BigSize, Span(p, n) \subseteq Addr,
         Fit(s, f, p, n, Every(s)), f.at = <<>>, NEW c \in Class, NEW i \in Pages1(c),
         NEW k \in 1 .. n, k <= f.size, NEW u, NEW fresh \in BOOLEAN, GotPage(f.state, u, <<c, i>>, p, k, fresh)
  PROVE  FitPrepared(s, FitFilled(u, c, i, p, k, fresh), <<c, i>>, p, k, n)
<1> DEFINE q == <<c, i>>
           z == f.state
           bytes == IF c = "big" /\ fresh THEN PageOf(u, c, i).data ELSE [a \in Span(p, k) |-> RawByte(u, a)]
           pg == Resized(PageOf(u, c, i), p, k, bytes)
           w == FitFilled(u, c, i, p, k, fresh)
<1> SUFFICES FitPrepared(s, w, q, p, k, n)
    OBVIOUS
<1>1. w = SetPage(u, c, i, pg)
    BY DEF FitFilled
<1> HIDE DEF w
<1>2. /\ ShapeBut(u, {q}) /\ ~u.failed /\ u.overrun = z.overrun /\ SameLocks(z, u)
      /\ IsLockedPage(u, q) /\ PageAt(u, q).locks = 0 /\ k <= PageSize[c]
      /\ \A r : IsLockedPage(u, r) /\ r # q => IsLockedPage(z, r) /\ PageAt(u, r) = PageAt(z, r)
      /\ GotBytes(u, q, p, k, fresh) /\ GotMem(z, u, q, p, k, fresh)
    BY DEF GotPage
<1>3. Settled(s, z) /\ Remembers(s, z) /\ f.size \in 1 .. n
    BY DEF Fit, FitState
<1>4. ShapeBut(z, {}) /\ z.failed = s.failed /\ z.overrun = s.overrun /\ SameLocks(s, z)
      /\ \A v : IsLockedPage(z, v) => IsLockedPage(s, v) /\ PageAt(z, v) = PageAt(s, v)
    BY <1>3 DEF Settled
<1>5. p \in Nat /\ k \in Nat /\ k >= 1 /\ k <= n /\ n \in Nat /\ n <= BigSize /\ f.size \in Nat /\ k <= f.size
    BY <1>3, Sizes
<1>6. \A a \in Span(p, k) : a \in Span(p, n) /\ a \in Span(p, f.size)
    BY <1>5 DEF Span
<1>7. Span(p, k) \subseteq Addr
    BY <1>6
<1>8. \A r : IsLockedPage(u, r) /\ r # q => IsLockedPage(s, r) /\ PageAt(u, r) = PageAt(s, r)
    BY <1>2, <1>4
<1>9. ASSUME NEW r, IsLockedPage(u, r), r # q, NEW a \in Span(p, k) PROVE a \notin LockSpan(PageAt(u, r))
  <2>1. IsLockedPage(z, r) /\ PageAt(u, r) = PageAt(z, r)
      BY <1>2, <1>9
  <2>2. r \in Every(s)
    <3>1. IsLockedPage(s, r)
        BY <1>4, <2>1
    <3> QED BY <3>1, VisitedIs DEF Every
  <2> QED BY <1>6, <2>1, <2>2 DEF Fit, FitClear
<1>10. PageOf(u, c, i) = PageAt(u, q) /\ PageAt(u, q) = u.page[c][i] /\ IsLocked(u, c, i)
    BY <1>2 DEF PageOf, PageAt, IsLockedPage
<1>11. PageOf(u, c, i) \in AnyPage
  <2>1. u \in States
      BY <1>2 DEF ShapeBut
  <2> QED BY <1>10, <2>1, StateFields
<1>12. \A a \in Span(p, k) : bytes[a] \in Val
  <2>1. CASE c = "big" /\ fresh
      BY <1>2, <1>7, <1>10, <2>1 DEF GotBytes
  <2>2. CASE ~(c = "big" /\ fresh)
    <3>1. \A a \in Span(p, k) : RawByte(u, a) \in Val
        BY <1>2, <1>7, RawByteIs
    <3>2. bytes = [a \in Span(p, k) |-> RawByte(u, a)]
        BY <2>2
    <3> QED BY <3>1, <3>2
  <2> QED BY <2>1, <2>2
<1>13. \A m : /\ Agrees(u, m)
              /\ c = "big" /\ fresh => \A a \in Span(p, k) \cap Addr : PageAt(u, q).data[a] = m[a]
              => \A a \in Span(p, k) : bytes[a] = m[a]
  <2> SUFFICES ASSUME NEW m, Agrees(u, m),
                      c = "big" /\ fresh => \A a \in Span(p, k) \cap Addr : PageAt(u, q).data[a] = m[a]
               PROVE  \A a \in Span(p, k) : bytes[a] = m[a]
      OBVIOUS
  <2>1. CASE c = "big" /\ fresh
      BY <1>7, <1>10, <2>1
  <2>2. CASE ~(c = "big" /\ fresh)
    <3>1. \A a \in Span(p, k) : RawByte(u, a) = m[a]
        BY <1>2, <1>7, RawByteIs
    <3>2. bytes = [a \in Span(p, k) |-> RawByte(u, a)]
        BY <2>2
    <3> QED BY <3>1, <3>2
  <2> QED BY <2>1, <2>2
<1> HIDE DEF bytes
<1>14. pg \in AnyPage /\ LockedOK(pg, c) /\ ResizedTo(PageAt(u, q), pg, p, k, bytes)
  <2>1. k \in 1 .. PageSize[c]
      BY <1>2, <1>5, Sizes
  <2> QED BY <1>7, <1>10, <1>11, <1>12, <2>1, Resizes
<1> HIDE DEF pg
<1>15. ShapeBut(w, {q} \ {q}) /\ PageSet(u, w, q, pg)
    BY <1>1, <1>2, <1>10, <1>14, SetsLocked
<1>16. {q} \ {q} = {}
    OBVIOUS
<1>17. ShapeBut(w, {})
    BY <1>15, <1>16
<1>18. /\ SameButPages(u, w) /\ Kept(u, w) /\ PageAt(w, q) = pg
       /\ \A r : IsLockedPage(w, r) <=> IsLockedPage(u, r)
       /\ \A r : IsLockedPage(u, r) /\ r # q => PageAt(w, r) = PageAt(u, r)
    BY <1>15 DEF PageSet
<1>19. pg.start = p /\ pg.size = k /\ pg.locks = 0 /\ DOMAIN pg.data = Span(p, k)
       /\ LockSpan(pg) = Span(p, k) /\ \A a \in Span(p, k) : pg.data[a] = bytes[a]
    BY <1>2, <1>14 DEF ResizedTo, LockSpan
<1>20. SameLocks(s, w)
  <2> SUFFICES ASSUME NEW d \in Class, NEW j \in Pages1(d) PROVE w.page[d][j].locks = s.page[d][j].locks
      BY DEF SameLocks
  <2>1. u.page[d][j].locks = s.page[d][j].locks
      BY <1>2, <1>4 DEF SameLocks
  <2>2. w.page[d][j].locks = IF <<d, j>> = q THEN pg.locks ELSE u.page[d][j].locks
      BY <1>15 DEF PageSet
  <2>3. CASE <<d, j>> = q
    <3>1. d = c /\ j = i
        BY <2>3
    <3> QED BY <1>2, <1>10, <1>19, <2>1, <2>2, <3>1
  <2> QED BY <2>1, <2>2, <2>3
<1>21. ~(IsLockedPage(s, q) /\ InUse(PageAt(s, q)))
  <2>1. s.page[c][i].locks = u.page[c][i].locks
      BY <1>2, <1>4 DEF SameLocks
  <2> QED BY <1>2, <1>10, <2>1 DEF InUse, PageAt
<1>22. Disjoint(s) => Disjoint(w)
  <2> SUFFICES ASSUME Disjoint(s), NEW v, NEW r, IsLockedPage(w, v), IsLockedPage(w, r), v # r
               PROVE  Apart(PageAt(w, v), PageAt(w, r))
      BY DEF Disjoint
  <2>1. CASE v # q /\ r # q
      BY <1>8, <1>18, <2>1 DEF Disjoint
  <2>2. CASE v = q /\ r # q
      BY <1>9, <1>18, <1>19, <2>2 DEF Apart
  <2>3. CASE v # q /\ r = q
      BY <1>9, <1>18, <1>19, <2>3 DEF Apart
  <2> QED BY <2>1, <2>2, <2>3
<1>23. FitMem(s, w, n)
  <2> SUFFICES ASSUME Short(s), n < BigSize
               PROVE  Short(w) /\ \A d : MemIs(s, d, {}) => MemIs(w, d, {})
      BY DEF FitMem
  <2>1. Short(z) /\ \A d : MemIs(s, d, {}) => MemIs(z, d, {})
      BY <1>3 DEF Remembers
  <2>2. Short(w)
    <3> SUFFICES ASSUME NEW r, IsLockedPage(w, r) PROVE PageAt(w, r).size < BigSize
        BY DEF Short
    <3>1. CASE r = q
        BY <1>5, <1>18, <1>19, <3>1, Sizes
    <3>2. CASE r # q
        BY <1>2, <1>18, <2>1, <3>2 DEF Short
    <3> QED BY <3>1, <3>2
  <2>3. k < BigSize
      BY <1>5, Sizes
  <2>4. ASSUME NEW d, MemIs(s, d, {}) PROVE MemIs(w, d, {})
    <3>1. PICK m : /\ Agrees(u, m) /\ MemOf(u, d, {q}, m)
                   /\ c = "big" /\ fresh => \A a \in Span(p, k) \cap Addr : PageAt(u, q).data[a] = m[a]
      <4>1. MemIs(z, d, {}) /\ Short(z) /\ GotMem(z, u, q, p, k, fresh)
          BY <1>2, <2>1, <2>4
      <4>2. q[1] = c
          OBVIOUS
      <4> HIDE DEF q, z
      <4>3. \E m : /\ Agrees(u, m) /\ MemOf(u, d, {q}, m)
                   /\ q[1] = "big" /\ fresh => \A a \in Span(p, k) \cap Addr : PageAt(u, q).data[a] = m[a]
          BY <2>3, <4>1 DEF GotMem
      <4> QED BY <4>2, <4>3
    <3>2. Agrees(w, m)
        BY <1>18, <3>1 DEF Kept
    <3>3. \A a \in Span(p, k) : bytes[a] = m[a]
        BY <1>13, <3>1
    <3>4. ASSUME NEW r, IsLockedPage(u, r), r # q, NEW a \in Span(p, k) PROVE ~Holds(PageAt(u, r), a)
      <4>1. a \notin LockSpan(PageAt(u, r))
          BY <1>9, <3>4
      <4>2. IsLockedPage(s, r) /\ PageAt(u, r) = PageAt(s, r)
          BY <1>8, <3>4
      <4>3. PageAt(s, r).data \in [LockSpan(PageAt(s, r)) -> Val]
          BY <4>2, VisitedIs
      <4> QED BY <4>1, <4>2, <4>3 DEF Holds
    <3>5. \A a \in Span(p, k) : m[a] = d[a]
        BY <1>7, <3>1, <3>4 DEF MemOf
    <3>6. ASSUME NEW r, IsLockedPage(w, r), NEW a \in Addr, Holds(PageAt(w, r), a)
          PROVE  PageAt(w, r).data[a] = d[a] /\ (PageAt(w, r).dirty \/ m[a] = d[a])
      <4>1. CASE r = q
        <5>1. a \in Span(p, k)
            BY <1>18, <1>19, <3>6, <4>1 DEF Holds
        <5> QED BY <1>18, <1>19, <3>3, <3>5, <4>1, <5>1
      <4>2. CASE r # q
        <5>1. IsLockedPage(u, r) /\ PageAt(w, r) = PageAt(u, r) /\ r \notin {q}
            BY <1>18, <3>6, <4>2
        <5> QED BY <3>1, <3>6, <5>1 DEF MemOf
      <4> QED BY <4>1, <4>2
    <3>7. ASSUME NEW a \in Addr, m[a] # d[a] PROVE \E r : IsLockedPage(w, r) /\ Holds(PageAt(w, r), a)
      <4>1. PICK r : IsLockedPage(u, r) /\ r \notin {q} /\ Holds(PageAt(u, r), a)
          BY <3>1, <3>7 DEF MemOf
      <4>2. IsLockedPage(w, r) /\ PageAt(w, r) = PageAt(u, r)
          BY <1>18, <4>1
      <4> QED BY <4>1, <4>2
    <3>8. MemOf(w, d, {}, m)
        BY <3>6, <3>7 DEF MemOf
    <3> QED BY <3>2, <3>8 DEF MemIs
  <2> QED BY <2>2, <2>4
<1>24. \A r : IsLockedPage(w, r) /\ r # q => IsLockedPage(s, r) /\ PageAt(w, r) = PageAt(s, r)
    BY <1>8, <1>18
<1>25. ~w.failed /\ w.overrun = s.overrun
    BY <1>2, <1>4, <1>18 DEF SameButPages
<1>26. IsLockedPage(w, q) /\ PageAt(w, q).start <= p /\ \A a \in Span(p, k) : a \in LockSpan(PageAt(w, q))
    BY <1>2, <1>5, <1>18, <1>19
<1> QED BY <1>17, <1>20, <1>21, <1>22, <1>23, <1>24, <1>25, <1>26 DEF FitPrepared

(* The class of page for a new lock has a page to be had.                  *)
LEMMA FittingClassIs ==
  ASSUME NEW f, NEW k, k = FittingClass(f), k # 0
  PROVE  ClassOrder[k] \in Class /\ (f.state.free[ClassOrder[k]] # <<>> \/ f.unused[ClassOrder[k]] # 0)
<1> DEFINE usable == {j \in DOMAIN ClassOrder : f.state.free[ClassOrder[j]] # <<>> \/ f.unused[ClassOrder[j]] # 0}
           fitting == {j \in usable : f.size <= PageSize[ClassOrder[j]]}
<1>1. k = IF fitting # {} THEN Max(fitting) ELSE IF usable # {} THEN Max(usable) ELSE 0
    BY DEF FittingClass
<1>2. DOMAIN ClassOrder = 1 .. 3 /\ \A j \in 1 .. 3 : ClassOrder[j] \in Class
    BY DEF ClassOrder, Class
<1>3. ASSUME NEW S, S \subseteq usable, S # {} PROVE Max(S) \in S
  <2>1. S \subseteq 1 .. 3
      BY <1>2, <1>3
  <2> HIDE DEF usable
  <2> QED BY <1>3, <2>1, MaxIsGreatest
<1>4. k \in usable
  <2>1. fitting \subseteq usable /\ usable \subseteq usable
      OBVIOUS
  <2> HIDE DEF usable, fitting
  <2> QED BY <1>1, <1>3, <2>1
<1> QED BY <1>2, <1>4

(* When there is no page, the program stops.                               *)
LEMMA StopsFit ==
  ASSUME NEW s, ShapeBut(s, {}), NEW f, NEW p, NEW n, NEW K, Fit(s, f, p, n, K), NEW ro \in BOOLEAN,
         NEW r, r = Stopped(Require(f.state, FALSE))
  PROVE  MadeFit(s, r.state, r.lock, p, n, ro)
<1> DEFINE z == f.state
           t == Require(z, FALSE)
<1>1. r.state = t /\ r.lock = NoLock
    BY DEF Stopped
<1>2. Settled(s, z) /\ Remembers(s, z) /\ ShapeBut(z, {})
    BY DEF Fit, FitState, Settled
<1>3. FALSE \in BOOLEAN /\ z \in States
    BY <1>2 DEF ShapeBut
<1>4. Below(z, t) /\ ShapeBut(t, {})
    BY <1>2, <1>3, RequireBelow
<1>5. t.store = z.store /\ t.page = z.page /\ t.free = z.free /\ t.locked = z.locked /\ t.overrun = z.overrun
      /\ t.failed = (z.failed \/ ~FALSE)
    BY <1>3, RequireIs
<1>6. t.failed
    BY <1>5
<1> HIDE DEF t
<1>7. Kept(z, t)
    BY <1>5, SameAgrees DEF Kept
<1>8. Remembers(s, t)
    BY <1>2, <1>4, <1>7, BelowRemembers, RemembersTwice
<1>9. \A q : (IsLockedPage(t, q) <=> IsLockedPage(z, q)) /\ PageAt(t, q) = PageAt(z, q)
    BY <1>5 DEF IsLockedPage, IsLocked, PageAt
<1>10. \A q : IsLockedPage(t, q) => IsLockedPage(s, q) /\ PageAt(t, q) = PageAt(s, q)
    BY <1>2, <1>9 DEF Settled
<1>11. \A q : IsLockedPage(t, q) => Narrower(PageAt(s, q), PageAt(t, q))
  <2> SUFFICES ASSUME NEW q, IsLockedPage(t, q) PROVE Narrower(PageAt(s, q), PageAt(t, q))
      OBVIOUS
  <2>1. PageAt(s, q).size \in Nat
      BY <1>10, VisitedIs
  <2> QED BY <1>10, <2>1 DEF Narrower
<1>12. SameLocks(s, t) /\ t.overrun = s.overrun
    BY <1>2, <1>5 DEF Settled, SameLocks
<1>13. \A q : IsLockedPage(s, q) /\ InUse(PageAt(s, q)) => PageAt(t, q) = PageAt(s, q)
    BY <1>2, <1>9, SettledUsed
<1>14. MadeData(s, t, NoLock, p, n, ro)
    BY <1>4, <1>6, <1>8, <1>10, <1>11, <1>12, <1>13, StopsData
<1>15. FitSame(s, t) /\ FitWithin(t, NoLock) /\ FitMem(s, t, n)
    BY <1>8, <1>13 DEF FitSame, FitWithin, FitMem, Remembers
<1> QED BY <1>1, <1>14, <1>15 DEF MadeFit, MadeData

(* What a fitting lock does to the pages, and which page it gets.          *)
LEMMA MakesFit ==
  ASSUME NEW s, ShapeBut(s, {}), ~s.failed, NEW p \in Addr \ {0}, NEW n \in 1 .. BigSize, Span(p, n) \subseteq Addr,
         NEW ro \in BOOLEAN, NEW r, r = MakeFittingLock(s, p, n, ro)
  PROVE  /\ MadeFit(s, r.state, r.lock, p, n, ro)
         /\ r.lock = NoLock => SearchFitting(s, p, n).at = <<>> /\ FittingClass(SearchFitting(s, p, n)) = 0
<1> DEFINE f == SearchFitting(s, p, n)
           m == FittingClass(f)
           c == ClassOrder[m]
           k == Smaller(f.size, PageSize[c])
           z == f.state
<1> SUFFICES MadeFit(s, r.state, r.lock, p, n, ro) /\ (r.lock = NoLock => f.at = <<>> /\ m = 0)
    OBVIOUS
<1>1. r = IF f.at # <<>> THEN ShareLock(f, p, ro)
          ELSE IF m = 0 THEN Stopped(Require(z, FALSE))
          ELSE NewFitting(f, c, k, p, ro)
    BY DEF MakeFittingLock, FittingFound
<1>2. Fit(s, f, p, n, Every(s))
    BY FitsAll
<1> HIDE DEF f
<1>3. CASE f.at # <<>>
  <2>1. r = ShareLock(f, p, ro)
      BY <1>1, <1>3
  <2> QED BY <1>2, <1>3, <2>1, SharesFit
<1>4. CASE f.at = <<>> /\ m = 0
  <2>1. r = Stopped(Require(f.state, FALSE))
      BY <1>1, <1>4
  <2> QED BY <1>2, <1>4, <2>1, StopsFit
<1>5. CASE f.at = <<>> /\ m # 0
  <2>1. r = NewFitting(f, c, k, p, ro)
      BY <1>1, <1>5
  <2>2. c \in Class /\ (z.free[c] # <<>> \/ f.unused[c] # 0)
      BY <1>5, FittingClassIs
  <2>3. ShapeBut(z, {}) /\ ~z.failed /\ f.size \in 1 .. n
      BY <1>2 DEF Fit, FitState, Settled
  <2> HIDE DEF c, m
  <2>4. k \in 1 .. n /\ k <= f.size /\ k <= PageSize[c] /\ k \in 1 .. BigSize /\ k \in Nat
    <3>1. f.size \in Nat /\ f.size >= 1 /\ f.size <= n /\ n \in Nat /\ n <= BigSize /\ BigSize \in Nat
          /\ PageSize[c] \in Nat /\ PageSize[c] >= 1
        BY <2>2, <2>3, Sizes
    <3> QED BY <3>1 DEF Smaller
  <2> HIDE DEF k
  <2>5. ASSUME NEW got, NEW i \in Pages1(c), got.class = c, got.at = i, got.fresh \in BOOLEAN,
               GotPage(z, got.state, <<c, i>>, p, k, got.fresh), r = FillFitting(got, p, k, ro)
        PROVE  MadeFit(s, r.state, r.lock, p, n, ro) /\ r.lock # NoLock
    <3> DEFINE u == got.state
               fresh == got.fresh
               w == FitFilled(u, c, i, p, k, fresh)
    <3>1. ~u.failed
        BY <2>5 DEF GotPage
    <3>2. r = GiveLock(w, c, i, p, k, ro)
        BY <2>5, <3>1 DEF FillFitting, FitFilled
    <3>3. GotPage(f.state, u, <<c, i>>, p, k, fresh) /\ fresh \in BOOLEAN
        BY <2>5
    <3>5. f.at = <<>>
        BY <1>5
    <3> HIDE DEF w, u, fresh, z
    <3>4. FitPrepared(s, w, <<c, i>>, p, k, n)
        BY <1>2, <2>2, <2>4, <2>5, <3>3, <3>5, FillsFit DEF w
    <3> QED BY <2>2, <2>4, <2>5, <3>2, <3>4, GivesFit
  <2>6. CASE z.free[c] # <<>>
    <3> DEFINE got == Fresh(LockPage(z, c, p, k), c)
    <3>1. r = FillFitting(got, p, k, ro)
        BY <2>1, <2>6 DEF NewFitting
    <3> HIDE DEF got
    <3>2. got.class = c /\ got.fresh \in BOOLEAN /\ GotPage(z, got.state, <<c, got.at>>, p, k, got.fresh)
        BY <2>2, <2>3, <2>4, <2>6, GetsFresh DEF got
    <3>3. got.at \in Pages1(c)
        BY <3>2 DEF GotPage, IsLockedPage
    <3> QED BY <2>5, <3>1, <3>2, <3>3
  <2>7. CASE z.free[c] = <<>>
    <3> DEFINE j == f.unused[c]
               got == Reused(z, c, j)
    <3>1. r = FillFitting(got, p, k, ro)
        BY <2>1, <2>7 DEF NewFitting
    <3>2. j # 0
        BY <2>2, <2>7
    <3>3. IsLockedPage(z, <<c, j>>) /\ PageAt(z, <<c, j>>).locks = 0
        BY <1>2, <2>2, <3>2 DEF Fit, FitUnused
    <3>4. j \in Pages1(c) /\ IsLocked(z, c, j) /\ z.page[c][j].locks = 0
        BY <3>3 DEF IsLockedPage, PageAt
    <3> HIDE DEF got, j, z
    <3>5. got.class = c /\ got.at = j /\ got.fresh \in BOOLEAN /\ GotPage(z, got.state, <<c, got.at>>, p, k, got.fresh)
        BY <2>2, <2>3, <2>4, <3>4, Reuses DEF got
    <3> QED BY <2>5, <3>1, <3>4, <3>5 DEF z
  <2> QED BY <2>6, <2>7
<1> QED BY <1>3, <1>4, <1>5

-----------------------------------------------------------------------------
(* The steps of the program                                                *)

(* The record has the variables as its members.                            *)
LEMMA StateIs ==
  /\ State.store = store /\ State.page = page /\ State.free = free /\ State.locked = locked
  /\ State.nextPageToSwap = nextPageToSwap /\ State.failed = failed /\ State.overrun = overrun
BY DEF State

(* A step that assigns the members of t ends in t.                         *)
LEMMA BecomesIs ==
  ASSUME NEW t \in States, Becomes(t)
  PROVE  State' = t
<1>1. t = [store |-> t.store, page |-> t.page, free |-> t.free, locked |-> t.locked,
           nextPageToSwap |-> t.nextPageToSwap, failed |-> t.failed, overrun |-> t.overrun]
    BY DEF States
<1> QED BY <1>1 DEF Becomes, State

ShapeInv == ShapeBut(State, {})
HeldOK == held \in [Handles -> LockType \cup {NoLock}]

(* Raw input and output leaves the locked pages where they are.            *)
LEMMA StepsIO ==
  ASSUME ShapeInv, NextIO
  PROVE  Untouched(State, State') /\ (State.free["big"] # <<>> => State'.failed = State.failed)
<1> DEFINE s == State
           t == State'
           K == LoadedPositions(s)
           Goal == Untouched(s, t) /\ (s.free["big"] # <<>> => t.failed = s.failed)
<1> SUFFICES Goal
    OBVIOUS
<1>1. ShapeBut(s, {})
    BY DEF ShapeInv
<1>2. ASSUME NEW u, Becomes(u), Untouched(s, u), s.free["big"] # <<>> => u.failed = s.failed PROVE Goal
  <2>1. u \in States
      BY <1>2 DEF Untouched, ShapeBut
  <2>2. t = u
      BY <1>2, <2>1, BecomesIs
  <2> QED BY <1>2, <2>2
<1> HIDE DEF s, t, Goal
<1>3. ASSUME NEW p \in Addr, NEW n, IsBlock(p, n)
      PROVE  p \in Addr \ {0} /\ n \in 1 .. BigSize /\ Span(p, n) \subseteq Addr
    BY <1>3 DEF IsBlock
<1>4. CASE \E p \in Addr, n \in IOSizes : Read(p, n)
  <2>1. PICK p \in Addr, n \in IOSizes : Read(p, n)
      BY <1>4
  <2> DEFINE r == ReadRaw(s, p, n)
  <2>2. Becomes(r.state) /\ IsBlock(p, n)
      BY <2>1 DEF Read, Returns, s
  <2>3. ReadAs(s, r, p, n)
    <3> HIDE DEF r
    <3>1. r = ReadRaw(s, p, n)
        BY DEF r
    <3> QED BY <1>1, <1>3, <2>2, <3>1, Reads
  <2> HIDE DEF r
  <2>4. Untouched(s, r.state) /\ (s.free["big"] # <<>> => r.state.failed = s.failed)
      BY <1>1, <2>3, BelowUntouched DEF ReadAs
  <2> QED BY <1>2, <2>2, <2>4
<1>5. CASE \E p \in Addr, n \in IOSizes : \E d \in Blocks(p, n) : Write(p, n, d)
  <2>1. PICK p \in Addr, n \in IOSizes : \E d \in Blocks(p, n) : Write(p, n, d)
      BY <1>5
  <2>2. PICK d \in Blocks(p, n) : Write(p, n, d)
      BY <2>1
  <2> DEFINE u == WriteRaw(s, p, n, d)
  <2>3. Becomes(u) /\ IsBlock(p, n) /\ d \in [Span(p, n) -> Val]
      BY <2>2 DEF Write, Blocks, s
  <2>4. WriteAs(s, u, d)
    <3> HIDE DEF u
    <3>1. u = WriteRaw(s, p, n, d)
        BY DEF u
    <3> QED BY <1>1, <1>3, <2>3, <3>1, Writes
  <2> HIDE DEF u
  <2> QED BY <1>2, <2>3, <2>4 DEF WriteAs
<1>6. CASE Flush \/ ClearPages
  <2> DEFINE u == SyncBigPages(s, K)
             v == Invalidate(u, K)
  <2>1. EmptiedAs(s, u) /\ EmptiedAs(s, v)
    <3> HIDE DEF u, K
    <3>1. K = LoadedPositions(s) /\ u = SyncBigPages(s, K)
        BY DEF u, K
    <3> QED BY <1>1, <3>1, Flushes
  <2>2. Becomes(u) \/ Becomes(v)
      BY <1>6 DEF Flush, ClearPages, s
  <2> HIDE DEF u, v
  <2> QED BY <1>2, <2>1, <2>2 DEF EmptiedAs
<1> QED BY <1>4, <1>5, <1>6 DEF NextIO

(* The page behind a handle.                                               *)
LEMMA HeldPage ==
  ASSUME NEW l \in LockType
  PROVE  /\ l.page[1] \in Class /\ l.page[2] \in Pages1(l.page[1]) /\ l.page = <<l.page[1], l.page[2]>>
         /\ l.ptr \in Addr /\ l.size \in 1 .. BigSize /\ l.ro \in BOOLEAN /\ l.offset \in Nat
<1>1. PICK c \in Class : l.page \in {c} \X (1 .. PageCount[c])
    BY DEF LockType
<1>2. l.page[1] = c /\ l.page[2] \in 1 .. PageCount[c] /\ l.page = <<l.page[1], l.page[2]>>
    BY <1>1
<1> QED BY <1>1, <1>2 DEF LockType, Pages1

(* A byte is stored through a lock.                                        *)
LEMMA StepsWrite ==
  ASSUME ShapeInv, HeldOK, NEW h \in Handles, NEW a \in Addr, NEW d \in Blocks(a, 1), WriteLocked(h, a, d)
  PROVE  WrittenAs(State, State', held[h].page, d)
<1> DEFINE s == State
           t == State'
           l == held[h]
           c == l.page[1]
           i == l.page[2]
           u == PutBytes(s, c, i, d)
<1> SUFFICES WrittenAs(s, t, l.page, d)
    OBVIOUS
<1>1. l \in LockType
    BY DEF WriteLocked, HeldOK
<1>2. c \in Class /\ i \in Pages1(c) /\ l.page = <<c, i>>
    BY <1>1, HeldPage
<1>3. d \in [Span(a, 1) -> Val]
    BY DEF Blocks
<1>4. WrittenAs(s, u, <<c, i>>, d)
  <2>1. ShapeBut(s, {})
      BY DEF ShapeInv
  <2>2. u = PutBytes(s, c, i, d)
      OBVIOUS
  <2> HIDE DEF u, s, c, i
  <2> QED BY <1>2, <1>3, <2>1, <2>2, PutsBytes
<1>5. u = [s EXCEPT !.page = [page EXCEPT ![c] = [page[c] EXCEPT ![i] = [page[c][i] EXCEPT !.data = Patch(page[c][i].data, d)]]]]
    BY StateIs DEF PutBytes, SetPage, PutIn
<1>6. /\ page' = [page EXCEPT ![c] = [page[c] EXCEPT ![i] = [page[c][i] EXCEPT !.data = Patch(page[c][i].data, d)]]]
      /\ store' = store /\ free' = free /\ locked' = locked /\ nextPageToSwap' = nextPageToSwap /\ failed' = failed
      /\ overrun' = overrun
    BY DEF WriteLocked
<1>7. t = u
  <2> HIDE DEF u
  <2> QED BY <1>5, <1>6 DEF State
<1> QED BY <1>2, <1>4, <1>7

(* A lock is released.                                                     *)
LEMMA StepsRelease ==
  ASSUME ShapeInv, NEW h \in Handles, Release(h)
  PROVE  ReleasedAs(State, State', held[h].ptr)
<1> DEFINE s == State
           p == held[h].ptr
           t == ReleaseLock(s, p)
<1>1. ShapeBut(s, {}) /\ Becomes(t)
    BY DEF ShapeInv, Release
<1>2. ReleasedAs(s, t, p)
  <2>1. t = ReleaseLock(s, p)
      OBVIOUS
  <2> HIDE DEF s, p, t
  <2> QED BY <1>1, <2>1, Releases
<1> HIDE DEF t, s, p
<1>3. State' = t
  <2>1. t \in States
      BY <1>2 DEF ReleasedAs, ShapeBut
  <2> QED BY <1>1, <2>1, BecomesIs
<1> QED BY <1>2, <1>3 DEF s, p

(* A lock is taken: what the call returns is the next state and the lock.  *)
LEMMA StepsData ==
  ASSUME ShapeInv, HeldOK, NEW h \in Handles, NEW p \in Addr, NEW n, NEW ro \in BOOLEAN, DataLock(h, p, n, ro)
  PROVE  /\ MadeData(State, State', held'[h], p, n, ro) /\ held' = [held EXCEPT ![h] = held'[h]] /\ held[h] = NoLock
         /\ p \in Addr \ {0} /\ n \in 1 .. BigSize /\ Span(p, n) \subseteq Addr
<1> DEFINE s == State
           r == MakeDataLock(s, p, n, ro)
<1>1. ShapeBut(s, {}) /\ ~s.failed /\ p \in Addr \ {0} /\ n \in 1 .. BigSize /\ Span(p, n) \subseteq Addr
      /\ Becomes(r.state) /\ held' = [held EXCEPT ![h] = r.lock] /\ held[h] = NoLock
    BY StateIs DEF ShapeInv, DataLock, TakeLock, Running, IsBlock
<1>2. MadeData(s, r.state, r.lock, p, n, ro)
  <2>1. r = MakeDataLock(s, p, n, ro)
      OBVIOUS
  <2> HIDE DEF s, r
  <2> QED BY <1>1, <2>1, MakesData
<1> HIDE DEF s, r
<1>3. State' = r.state
  <2>1. r.state \in States
      BY <1>2 DEF MadeData, Made, ShapeBut
  <2> QED BY <1>1, <2>1, BecomesIs
<1>4. held'[h] = r.lock
    BY <1>1 DEF HeldOK
<1> QED BY <1>1, <1>2, <1>3, <1>4 DEF s
(* A step of a fitting lock makes it, for a block in the pool.             *)
LEMMA StepsFit ==
  ASSUME ShapeInv, HeldOK, NEW h \in Handles, NEW p \in Addr, NEW n, NEW ro \in BOOLEAN, FittingLock(h, p, n, ro)
  PROVE  /\ MadeFit(State, State', held'[h], p, n, ro) /\ held' = [held EXCEPT ![h] = held'[h]] /\ held[h] = NoLock
         /\ p \in Addr \ {0} /\ n \in 1 .. BigSize /\ Span(p, n) \subseteq Addr
<1> DEFINE s == State
           r == MakeFittingLock(s, p, n, ro)
<1>1. ShapeBut(s, {}) /\ ~s.failed /\ p \in Addr \ {0} /\ n \in 1 .. BigSize /\ Span(p, n) \subseteq Addr
      /\ Becomes(r.state) /\ held' = [held EXCEPT ![h] = r.lock] /\ held[h] = NoLock
    BY StateIs DEF ShapeInv, FittingLock, TakeLock, Running, IsBlock
<1>2. MadeFit(s, r.state, r.lock, p, n, ro)
  <2>1. r = MakeFittingLock(s, p, n, ro)
      OBVIOUS
  <2> HIDE DEF s, r
  <2> QED BY <1>1, <2>1, MakesFit
<1> HIDE DEF s, r
<1>3. State' = r.state
  <2>1. r.state \in States
      BY <1>2 DEF MadeFit, Made, ShapeBut
  <2> QED BY <1>1, <2>1, BecomesIs
<1>4. held'[h] = r.lock
    BY <1>1 DEF HeldOK
<1> QED BY <1>1, <1>2, <1>3, <1>4 DEF s

(* At the start every page is free and empty.                              *)
LEMMA StartsShape ==
  ASSUME InitLocks
  PROVE  ShapeInv /\ HeldOK /\ (\A q : ~IsLockedPage(State, q)) /\ (\A h \in Handles : held[h] = NoLock)
         /\ (\A c \in Class : \A i \in Pages1(c) : State.page[c][i].locks = 0)
<1> DEFINE s == State
<1>1. /\ store \in Blocks(0, PoolSize)
      /\ page = [c \in Class |-> [i \in 1 .. PageCount[c] |-> NewPage(c)]]
      /\ free = [c \in Class |-> [i \in 1 .. PageCount[c] |-> i]]
      /\ locked = [c \in Class |-> <<>>] /\ nextPageToSwap = 1 /\ failed = FALSE /\ overrun = FALSE
      /\ held = [h \in Handles |-> NoLock]
    BY DEF InitLocks, Init
<1>2. store \in [Addr -> Val]
  <2>1. Span(0, PoolSize) = Addr
      BY Sizes DEF Span, Addr
  <2> QED BY <1>1, <2>1 DEF Blocks
<1>3. ASSUME NEW c \in Class PROVE NewPage(c) \in AnyPage /\ FreeOK(NewPage(c), c) /\ NewPage(c).locks = 0
  <2>1. 0 \in Addr /\ PageSize[c] \in Nat /\ 0 \in Nat /\ <<>> \in Bytes /\ <<>> \in [{} -> Val]
      BY Sizes, NoBytes
  <2>2. 0 \in 0 .. SkipsModulus - 1
      BY SkipsAssumption
  <2> QED BY <2>1, <2>2 DEF NewPage, AnyPage, FreeOK
<1>4. page \in Tables
  <2>1. page = [c \in Class |-> page[c]]
      BY <1>1
  <2>2. \A c \in Class : page[c] \in [Pages1(c) -> AnyPage]
      BY <1>1, <1>3 DEF Pages1
  <2> QED BY <2>1, <2>2, TableIs
<1>5. ASSUME NEW c \in Class
      PROVE  /\ free[c] \in Seq(1 .. PageCount[c]) /\ Len(free[c]) = PageCount[c] /\ DOMAIN free[c] = 1 .. PageCount[c]
             /\ \A i \in 1 .. PageCount[c] : free[c][i] = i
             /\ free[c] \in Seq(Nat)
  <2>1. PageCount[c] \in Nat
      BY Sizes
  <2>2. free[c] = [i \in 1 .. PageCount[c] |-> i]
      BY <1>1
  <2>3. free[c] \in [1 .. PageCount[c] -> 1 .. PageCount[c]] /\ free[c] \in [1 .. PageCount[c] -> Nat]
      BY <2>1, <2>2
  <2> QED BY <2>1, <2>2, <2>3, LenProperties DEF Seq
<1>6. ASSUME NEW c \in Class PROVE locked[c] = <<>> /\ Split(free[c], locked[c], PageCount[c])
  <2>1. locked[c] = <<>> /\ <<>> \in Seq(1 .. PageCount[c]) /\ Len(<<>>) = 0 /\ DOMAIN <<>> = {} /\ PageCount[c] \in Nat
      BY <1>1, Sizes
  <2>4. DOMAIN free[c] = 1 .. PageCount[c] /\ \A i \in 1 .. PageCount[c] : free[c][i] = i
      BY <1>5
  <2>5. Once(free[c])
      BY <2>4 DEF Once
  <2>6. \A i \in 1 .. PageCount[c] : On(i, free[c])
      BY <2>4 DEF On
  <2>2. Once(free[c]) /\ \A i \in 1 .. PageCount[c] : On(i, free[c])
      BY <2>5, <2>6
  <2>3. Once(<<>>) /\ \A i : ~On(i, <<>>)
      BY <2>1 DEF Once, On
  <2> QED BY <1>5, <2>1, <2>2, <2>3 DEF Split
<1>7. s \in States
  <2>1. free \in [Class -> Seq(Nat)] /\ locked \in [Class -> Seq(Nat)]
    <3>1. free = [c \in Class |-> free[c]] /\ locked = [c \in Class |-> locked[c]]
        BY <1>1
    <3>2. \A c \in Class : free[c] \in Seq(Nat) /\ locked[c] \in Seq(Nat)
      <4>1. <<>> \in Seq(Nat)
          OBVIOUS
      <4>2. \A c \in Class : free[c] \in Seq(Nat)
          BY <1>5
      <4>3. \A c \in Class : locked[c] = <<>>
          BY <1>6
      <4> QED BY <4>1, <4>2, <4>3
    <3> QED BY <3>1, <3>2
  <2> QED BY <1>1, <1>2, <1>4, <2>1 DEF State, States
<1>8. \A c \in Class : \A i \in Pages1(c) : s.page[c][i] = NewPage(c) /\ ~IsLocked(s, c, i)
    BY <1>1, <1>6, StateIs DEF IsLocked, On, Pages1
<1>9. NextOK(s)
  <2>1. 1 \in 1 .. PageCount["big"] /\ "big" \in Class
      BY CountsAssumption, Sizes
  <2>2. On(1, free["big"])
      BY <1>5, <2>1 DEF On
  <2> QED BY <1>1, <2>2, StateIs DEF NextOK
<1>10. ShapeBut(s, {})
    BY <1>3, <1>6, <1>7, <1>8, <1>9, StateIs DEF ShapeBut
<1>11. \A q : ~IsLockedPage(s, q)
    BY <1>8 DEF IsLockedPage
<1> QED BY <1>1, <1>3, <1>8, <1>10, <1>11 DEF ShapeInv, HeldOK

-----------------------------------------------------------------------------
(* Any program: the type invariant and the lists of pages                  *)

(* The invariant: every page is on one list, as the list wants it.         *)
AnyInv == ShapeInv /\ HeldOK

(* A page that suits its list has the type of its class.                   *)
LEMMA TypesPage ==
  ASSUME NEW c \in Class, NEW pg \in AnyPage, FreeOK(pg, c) \/ LockedOK(pg, c)
  PROVE  pg \in PageType(c)
<1>1. pg.start \in Addr /\ pg.locks \in Nat /\ pg.cleanSkips \in 0 .. SkipsModulus - 1 /\ pg.dirty \in BOOLEAN
    BY DEF AnyPage
<1>2. PageSize[c] \in Nat /\ PageSize[c] >= 1 /\ 0 \in Addr
    BY Sizes
<1>3. pg.size \in 0 .. PageSize[c]
  <2>1. CASE FreeOK(pg, c)
    <3>1. pg.size = PageSize[c]
        BY <2>1 DEF FreeOK
    <3> QED BY <1>2, <3>1
  <2>2. CASE LockedOK(pg, c)
    <3>1. pg.size \in 1 .. PageSize[c]
        BY <2>2 DEF LockedOK
    <3> QED BY <1>2, <3>1
  <2> QED BY <2>1, <2>2
<1>4. ASSUME NEW p \in Addr, NEW n \in 0 .. PageSize[c], pg.data \in [Span(p, n) \cap Addr -> Val]
      PROVE  pg.data \in Buffers(c)
  <2> DEFINE F(m) == UNION {[Span(x, m) \cap Addr -> Val] : x \in Addr}
  <2>1. pg.data \in F(n)
      BY <1>4
  <2>2. Buffers(c) = UNION {F(m) : m \in 0 .. PageSize[c]}
      BY DEF Buffers
  <2> HIDE DEF F
  <2> QED BY <2>1, <2>2
<1>5. CASE LockedOK(pg, c)
  <2>1. Span(pg.start, pg.size) \cap Addr = LockSpan(pg) /\ pg.data \in [LockSpan(pg) -> Val]
      BY <1>5 DEF LockedOK, LockSpan
  <2>2. pg.data \in Buffers(c)
      BY <1>1, <1>3, <1>4, <2>1
  <2> QED BY <1>1, <1>3, <2>2 DEF AnyPage, PageType
<1>6. CASE FreeOK(pg, c) /\ pg.start # 0
  <2>1. pg.data \in [Span(pg.start, PageSize[c]) \cap Addr -> Val] /\ PageSize[c] \in 0 .. PageSize[c]
      BY <1>2, <1>6 DEF FreeOK
  <2>2. pg.data \in Buffers(c)
      BY <1>1, <1>4, <2>1
  <2> QED BY <1>1, <1>3, <2>2 DEF AnyPage, PageType
<1>7. CASE FreeOK(pg, c) /\ pg.start = 0
  <2>1. pg.data \in [{} -> Val] /\ 0 \in 0 .. PageSize[c]
      BY <1>2, <1>7 DEF FreeOK
  <2>2. Span(0, 0) \cap Addr = {}
      BY DEF Span
  <2>3. pg.data \in [Span(0, 0) \cap Addr -> Val]
      BY <2>1, <2>2
  <2>4. pg.data \in Buffers(c)
      BY <1>2, <1>4, <2>1, <2>3
  <2> QED BY <1>1, <1>3, <2>4 DEF AnyPage, PageType
<1> QED BY <1>5, <1>6, <1>7
(* What the invariant says of the variables.                               *)
LEMMA TypesAny ==
  ASSUME AnyInv
  PROVE  LocksTypeOK /\ ListsPartitionPages
<1> DEFINE s == State
<1>1. ShapeBut(s, {}) /\ s \in States /\ \A c \in Class : Split(s.free[c], s.locked[c], PageCount[c])
    BY DEF AnyInv, ShapeInv, ShapeBut
<1>2. ASSUME NEW c \in Class PROVE page[c] \in [1 .. PageCount[c] -> PageType(c)]
  <2>1. s.page[c] \in [Pages1(c) -> AnyPage] /\ \A i \in Pages1(c) : s.page[c][i] \in AnyPage
      BY <1>1, StateFields
  <2>2. ASSUME NEW i \in Pages1(c) PROVE s.page[c][i] \in PageType(c)
    <3>1. <<c, i>> \notin {}
        OBVIOUS
    <3>2. IsFree(s, c, i) \/ IsLocked(s, c, i)
        BY <1>1 DEF Split, IsFree, IsLocked, Pages1
    <3>3. FreeOK(s.page[c][i], c) \/ LockedOK(s.page[c][i], c)
        BY <1>1, <3>1, <3>2 DEF ShapeBut
    <3> QED BY <2>1, <3>3, TypesPage
  <2> QED BY <2>1, <2>2, StateIs DEF Pages1
<1>3. ASSUME NEW c \in Class
      PROVE  /\ free[c] \in Seq(1 .. PageCount[c]) /\ locked[c] \in Seq(1 .. PageCount[c])
             /\ Range(free[c]) \cup Range(locked[c]) = 1 .. PageCount[c]
             /\ Len(free[c]) + Len(locked[c]) = PageCount[c]
  <2>1. Split(free[c], locked[c], PageCount[c])
      BY <1>1, StateIs
  <2>2. /\ free[c] \in Seq(1 .. PageCount[c]) /\ locked[c] \in Seq(1 .. PageCount[c])
        /\ Len(free[c]) + Len(locked[c]) = PageCount[c]
        /\ \A i \in 1 .. PageCount[c] : On(i, free[c]) <=> ~On(i, locked[c])
      BY <2>1 DEF Split
  <2>3. ASSUME NEW F \in Seq(1 .. PageCount[c])
        PROVE  (\A i : On(i, F) <=> i \in Range(F)) /\ Range(F) \subseteq 1 .. PageCount[c]
    <3>1. \A k \in DOMAIN F : F[k] \in 1 .. PageCount[c]
        BY ElementOfSeq, LenProperties
    <3> QED BY <3>1 DEF On, Range
  <2>4. \A i : i \in Range(free[c]) \cup Range(locked[c]) <=> i \in 1 .. PageCount[c]
      BY <2>2, <2>3
  <2>5. Range(free[c]) \cup Range(locked[c]) = 1 .. PageCount[c]
      BY <2>4
  <2> QED BY <2>2, <2>5
<1>4. nextPageToSwap \in 0 .. PageCount["big"]
  <2>1. NextOK(s) /\ "big" \in Class /\ PageCount["big"] \in Nat
      BY <1>1, Sizes DEF ShapeBut
  <2>2. CASE On(nextPageToSwap, free["big"])
    <3>1. nextPageToSwap \in 1 .. PageCount["big"]
        BY <1>3, <2>1, <2>2, ElementOfSeq, LenProperties DEF On
    <3> QED BY <2>1, <3>1
  <2> QED BY <2>1, <2>2, StateIs DEF NextOK
<1>5. store \in [Addr -> Val] /\ failed \in BOOLEAN /\ overrun \in BOOLEAN
    BY <1>1, StateFields, StateIs
<1> QED BY <1>2, <1>3, <1>4, <1>5 DEF LocksTypeOK, TypeOK, ListsPartitionPages, AnyInv, HeldOK

(* Every step keeps the invariant.                                         *)
LEMMA KeepsAny ==
  ASSUME AnyInv, [NextAny]_lvars
  PROVE  AnyInv'
<1> USE DEF AnyInv
<1>1. CASE RawIO
  <2>1. Untouched(State, State') /\ held' = held
      BY <1>1, StepsIO DEF RawIO
  <2> QED BY <2>1 DEF Untouched, ShapeInv, HeldOK
<1>2. CASE UNCHANGED <<allocVars, held>>
    BY <1>2 DEF ShapeInv, HeldOK, State, allocVars
<1>3. ASSUME NEW h \in Handles, Release(h) PROVE AnyInv'
  <2>1. ShapeInv'
      BY <1>3, StepsRelease DEF ReleasedAs, ShapeInv
  <2>2. held' = [held EXCEPT ![h] = NoLock]
      BY <1>3 DEF Release
  <2> QED BY <2>1, <2>2 DEF HeldOK
<1>4. ASSUME NEW h \in Handles, NEW a \in Addr, ReadLocked(h, a) PROVE AnyInv'
    BY <1>2, <1>4 DEF ReadLocked
<1>5. ASSUME NEW h \in Handles, NEW a \in Addr, NEW d \in Blocks(a, 1), WriteLocked(h, a, d) PROVE AnyInv'
  <2>1. ShapeInv'
      BY <1>5, StepsWrite DEF WrittenAs, ShapeInv
  <2>2. held' = held
      BY <1>5 DEF WriteLocked
  <2> QED BY <2>1, <2>2 DEF HeldOK
<1>6. CASE UseLocks
    BY <1>3, <1>4, <1>5, <1>6 DEF UseLocks
<1>7. ASSUME NEW h \in Handles, NEW p \in Addr, NEW n \in LockSizes, NEW ro \in BOOLEAN,
             DataLock(h, p, n, ro) \/ FittingLock(h, p, n, ro)
      PROVE  AnyInv'
  <2>1. /\ held' = [held EXCEPT ![h] = held'[h]]
        /\ Made(State, State', held'[h], p, n, ro)
    <3>1. CASE DataLock(h, p, n, ro)
        BY <3>1, StepsData DEF MadeData
    <3>2. CASE FittingLock(h, p, n, ro)
        BY <3>2, StepsFit DEF MadeFit
    <3> QED BY <1>7, <3>1, <3>2
  <2>2. ShapeInv'
      BY <2>1 DEF Made, ShapeInv
  <2>3. held'[h] \in LockType \cup {NoLock}
      BY <2>1 DEF Made, GivenLock
  <2>4. held' \in [Handles -> LockType \cup {NoLock}]
    <3> DEFINE l == held'[h]
    <3>1. l \in LockType \cup {NoLock} /\ held' = [held EXCEPT ![h] = l]
        BY <2>1, <2>3
    <3> HIDE DEF l
    <3> QED BY <3>1 DEF HeldOK
  <2> QED BY <2>2, <2>4 DEF HeldOK
<1>8. CASE UNCHANGED lvars
    BY <1>2, <1>8 DEF lvars, vars
<1> QED BY <1>1, <1>6, <1>7, <1>8 DEF NextAny

(* Whatever a program does with its locks and with raw input and output,   *)
(* the members of the allocator keep their types, and every page is on one *)
(* of the two lists of its class, once (moveToFree(), freeLockedPage()).   *)
THEOREM AnyTypes == SpecAny => [](LocksTypeOK /\ ListsPartitionPages)
<1>1. InitLocks => AnyInv
    BY StartsShape DEF AnyInv
<1>2. AnyInv /\ [NextAny]_lvars => AnyInv'
    BY KeepsAny
<1>3. AnyInv => LocksTypeOK /\ ListsPartitionPages
    BY TypesAny
<1> QED BY <1>1, <1>2, <1>3, PTL DEF SpecAny

(* The programs of the two kinds do nothing else.                          *)
LEMMA StepsAny ==
  /\ [NextOverlapping]_lvars => [NextAny]_lvars
  /\ [NextFitting]_lvars => [NextAny]_lvars
BY DEF NextOverlapping, NextFitting, NextAny, CarefulIO

(* The variables have their types in every program of overlapping locks,   *)
THEOREM LocksTypes == SpecOverlapping => []LocksTypeOK
<1>1. SpecOverlapping => SpecAny
    BY StepsAny, PTL DEF SpecOverlapping, SpecAny
<1> QED BY <1>1, AnyTypes, PTL

(* and each page is on one list of its class.                              *)
THEOREM PagesOnLists == SpecOverlapping => []ListsPartitionPages
<1>1. SpecOverlapping => SpecAny
    BY StepsAny, PTL DEF SpecOverlapping, SpecAny
<1> QED BY <1>1, AnyTypes, PTL

-----------------------------------------------------------------------------
(* What the locks that are held, H, say of the pages of s                  *)

(* There are fewer handles than values of the counter.                     *)
FewHandles == IsFiniteSet(Handles) /\ Cardinality(Handles) < LocksModulus
HeldOn(H, q) == {h \in Handles : H[h] # NoLock /\ H[h].page = q}
CountedIn(s, H) ==
    \A c \in Class : \A i \in Pages1(c) : s.page[c][i].locks = Cardinality(HeldOn(H, <<c, i>>))
BehindIn(s, l) ==
    /\ IsLockedPage(s, l.page) /\ PageAt(s, l.page).start + l.offset = l.ptr
    /\ l.ptr \in LockSpan(PageAt(s, l.page))
AllBehind(s, H) == \A h \in Handles : H[h] # NoLock => BehindIn(s, H[h])
BigInUse(s) == \A i \in Pages1("big") : IsLocked(s, "big", i) => s.page["big"][i].locks > 0
Locks == [Handles -> LockType \cup {NoLock}]
(* The common part of the invariants: locked pages are apart, a page       *)
(* counts the locks that are held on it, and the pointer of a lock is      *)
(* into its page.                                                          *)
Core(s, H) ==
    ShapeBut(s, {}) /\ H \in Locks /\ Disjoint(s) /\ CountedIn(s, H) /\ AllBehind(s, H) /\ BigInUse(s)

(* The locks on a page can be counted, and fit into the counter.           *)
LEMMA HeldFinite ==
  ASSUME FewHandles, NEW H, NEW q
  PROVE  /\ IsFiniteSet(HeldOn(H, q)) /\ Cardinality(HeldOn(H, q)) \in Nat
         /\ Cardinality(HeldOn(H, q)) <= Cardinality(Handles) /\ LocksModulus \in Nat /\ Cardinality(Handles) \in Nat
<1>1. HeldOn(H, q) \in SUBSET Handles
    BY DEF HeldOn
<1>2. IsFiniteSet(Handles) /\ LocksModulus \in Nat
    BY LocksAssumption DEF FewHandles
<1> QED BY <1>1, <1>2, FS_Subset, FS_CardinalityType

(* A page with a lock on it is in use.                                     *)
LEMMA HeldInUse ==
  ASSUME FewHandles, NEW s, NEW H, Core(s, H), NEW h \in Handles, H[h] # NoLock
  PROVE  /\ InUse(PageAt(s, H[h].page)) /\ IsLockedPage(s, H[h].page) /\ BehindIn(s, H[h]) /\ H[h] \in LockType
<1> DEFINE q == H[h].page
<1>1. IsLockedPage(s, q) /\ BehindIn(s, H[h]) /\ H[h] \in LockType
    BY DEF Core, AllBehind, BehindIn, Locks
<1>2. PageAt(s, q).locks = Cardinality(HeldOn(H, q))
    BY <1>1 DEF Core, CountedIn, IsLockedPage, PageAt
<1>3. h \in HeldOn(H, q)
    BY DEF HeldOn
<1>4. Cardinality(HeldOn(H, q)) # 0
    BY <1>3, HeldFinite, FS_EmptySet
<1> QED BY <1>1, <1>2, <1>4, HeldFinite DEF InUse

(* And a page in use has a lock on it.                                     *)
LEMMA UsedHeld ==
  ASSUME FewHandles, NEW s, NEW H, Core(s, H), NEW q, IsLockedPage(s, q), InUse(PageAt(s, q))
  PROVE  \E h \in Handles : H[h] # NoLock /\ H[h].page = q
<1>1. PageAt(s, q).locks = Cardinality(HeldOn(H, q))
    BY DEF Core, CountedIn, IsLockedPage, PageAt
<1>2. HeldOn(H, q) # {}
    BY <1>1, FS_EmptySet DEF InUse
<1> QED BY <1>2 DEF HeldOn

(* A lock is taken.                                                        *)
LEMMA TakesCore ==
  ASSUME FewHandles, NEW s, NEW H, Core(s, H), NEW h \in Handles, H[h] = NoLock, NEW t, NEW l, NEW p, NEW n, NEW ro,
         Made(s, t, l, p, n, ro), NEW G, G = [H EXCEPT ![h] = l],
         \A g \in Handles : H[g] # NoLock => H[g].ptr \in LockSpan(PageAt(t, H[g].page))
  PROVE  Core(t, G)
<1>1. ShapeBut(s, {}) /\ H \in Locks /\ Disjoint(s) /\ CountedIn(s, H) /\ AllBehind(s, H) /\ BigInUse(s)
    BY DEF Core
<1>2. ShapeBut(t, {}) /\ MadeLocks(s, t, l) /\ MadeUsed(s, t) /\ MadeDisjoint(s, t, l)
      /\ (l # NoLock => GivenLock(t, l, p, n, ro))
    BY DEF Made
<1>3. l \in LockType \cup {NoLock}
    BY <1>2 DEF GivenLock
<1>4. G \in Locks /\ G[h] = l /\ \A g \in Handles : g # h => G[g] = H[g]
    BY <1>1, <1>3 DEF Locks
<1>5. Disjoint(t) /\ \A r : IsLockedPage(t, r) => IsLockedPage(s, r) \/ (l # NoLock /\ r = l.page)
    BY <1>1, <1>2 DEF MadeDisjoint
<1>6. ASSUME NEW q
      PROVE  /\ Cardinality(HeldOn(G, q)) = IF l # NoLock /\ q = l.page THEN Cardinality(HeldOn(H, q)) + 1
                                            ELSE Cardinality(HeldOn(H, q))
             /\ l # NoLock => (Cardinality(HeldOn(H, q)) + 1) % LocksModulus = Cardinality(HeldOn(H, q)) + 1
             /\ Cardinality(HeldOn(H, q)) \in Nat
  <2>1. h \notin HeldOn(H, q) /\ IsFiniteSet(HeldOn(H, q)) /\ Cardinality(HeldOn(H, q)) \in Nat
      BY HeldFinite DEF HeldOn
  <2>2. HeldOn(G, q) = IF l # NoLock /\ q = l.page THEN HeldOn(H, q) \cup {h} ELSE HeldOn(H, q)
    <3>1. \A g : g \in HeldOn(G, q) <=> g \in HeldOn(H, q) \/ (g = h /\ l # NoLock /\ q = l.page)
        BY <1>4 DEF HeldOn
    <3>2. ASSUME l # NoLock, q = l.page PROVE HeldOn(G, q) = HeldOn(H, q) \cup {h}
      <4>1. \A g : g \in HeldOn(G, q) <=> g \in HeldOn(H, q) \cup {h}
          BY <3>1, <3>2
      <4> QED BY <4>1, Zenon
    <3>3. ~(l # NoLock /\ q = l.page) => HeldOn(G, q) = HeldOn(H, q)
        BY <3>1
    <3> QED BY <3>2, <3>3
  <2>3. Cardinality(HeldOn(H, q) \cup {h}) = Cardinality(HeldOn(H, q)) + 1 /\ IsFiniteSet(HeldOn(H, q) \cup {h})
      BY <2>1, FS_AddElement
  <2>4. Cardinality(HeldOn(H, q)) + 1 < LocksModulus
    <3>1. HeldOn(H, q) \cup {h} \in SUBSET Handles
        BY DEF HeldOn
    <3>2. Cardinality(HeldOn(H, q) \cup {h}) <= Cardinality(Handles)
        BY <3>1, FS_Subset DEF FewHandles
    <3>3. Cardinality(Handles) < LocksModulus /\ LocksModulus \in Nat /\ Cardinality(Handles) \in Nat
        BY HeldFinite DEF FewHandles
    <3> QED BY <2>1, <2>3, <3>2, <3>3
  <2>5. (Cardinality(HeldOn(H, q)) + 1) % LocksModulus = Cardinality(HeldOn(H, q)) + 1
    <3>1. LocksModulus \in Nat
        BY HeldFinite
    <3> DEFINE x == Cardinality(HeldOn(H, q))
    <3>2. x \in Nat /\ x + 1 < LocksModulus
        BY <2>1, <2>4
    <3> HIDE DEF x
    <3>3. (x + 1) % LocksModulus = x + 1
        BY <3>1, <3>2
    <3> QED BY <3>3 DEF x
  <2> QED BY <2>1, <2>2, <2>3, <2>5
<1>7. CountedIn(t, G)
  <2> SUFFICES ASSUME NEW c \in Class, NEW i \in Pages1(c)
               PROVE  t.page[c][i].locks = Cardinality(HeldOn(G, <<c, i>>))
      BY DEF CountedIn
  <2> DEFINE q == <<c, i>>
  <2>1. s.page[c][i].locks = Cardinality(HeldOn(H, q))
      BY <1>1 DEF CountedIn
  <2>2. t.page[c][i].locks = IF l # NoLock /\ q = l.page THEN (s.page[c][i].locks + 1) % LocksModulus
                             ELSE s.page[c][i].locks
      BY <1>2 DEF MadeLocks
  <2> HIDE DEF q
  <2> QED BY <1>6, <2>1, <2>2 DEF q
<1>8. AllBehind(t, G)
  <2> SUFFICES ASSUME NEW g \in Handles, G[g] # NoLock PROVE BehindIn(t, G[g])
      BY DEF AllBehind
  <2>1. CASE g = h
      BY <1>2, <1>4, <2>1 DEF GivenLock, BehindIn
  <2>2. CASE g # h
    <3>1. G[g] = H[g] /\ H[g] # NoLock
        BY <1>4, <2>2
    <3>2. InUse(PageAt(s, H[g].page)) /\ IsLockedPage(s, H[g].page) /\ BehindIn(s, H[g])
        BY <3>1, HeldInUse
    <3>3. IsLockedPage(t, H[g].page) /\ PageAt(t, H[g].page).start = PageAt(s, H[g].page).start
        BY <1>2, <3>2 DEF MadeUsed
    <3> QED BY <3>1, <3>2, <3>3 DEF BehindIn
  <2> QED BY <2>1, <2>2
<1>9. BigInUse(t)
  <2> SUFFICES ASSUME NEW i \in Pages1("big"), IsLocked(t, "big", i) PROVE t.page["big"][i].locks > 0
      BY DEF BigInUse
  <2> DEFINE q == <<"big", i>>
  <2>1. "big" \in Class /\ IsLockedPage(t, q)
      BY Sizes DEF IsLockedPage
  <2>2. t.page["big"][i].locks = Cardinality(HeldOn(G, q)) /\ s.page["big"][i].locks = Cardinality(HeldOn(H, q))
      BY <1>1, <1>7, <2>1 DEF CountedIn
  <2>3. IsLockedPage(s, q) \/ (l # NoLock /\ q = l.page)
      BY <1>5, <2>1
  <2>4. IsLockedPage(s, q) => s.page["big"][i].locks > 0
      BY <1>1 DEF BigInUse, IsLockedPage
  <2>5. Cardinality(HeldOn(H, q)) \in Nat
      BY <1>6
  <2> HIDE DEF q
  <2>6. CASE l # NoLock /\ q = l.page
    <3>1. Cardinality(HeldOn(G, q)) = Cardinality(HeldOn(H, q)) + 1
        BY <1>6, <2>6
    <3> QED BY <2>2, <2>5, <3>1
  <2>7. CASE ~(l # NoLock /\ q = l.page)
    <3>1. Cardinality(HeldOn(G, q)) = Cardinality(HeldOn(H, q))
        BY <1>6, <2>7
    <3>2. s.page["big"][i].locks > 0
        BY <2>3, <2>4, <2>7
    <3> QED BY <2>2, <3>1, <3>2
  <2> QED BY <2>6, <2>7
<1> QED BY <1>2, <1>4, <1>5, <1>7, <1>8, <1>9 DEF Core

(* A lock is released.                                                     *)
LEMMA DropsCore ==
  ASSUME FewHandles, NEW s, NEW H, Core(s, H), NEW h \in Handles, H[h] # NoLock, NEW t,
         ReleasedAs(s, t, H[h].ptr), NEW G, G = [H EXCEPT ![h] = NoLock]
  PROVE  Core(t, G) /\ ReleasedAt(s, t, H[h].page)
<1> DEFINE q == H[h].page
<1>1. ShapeBut(s, {}) /\ H \in Locks /\ Disjoint(s) /\ CountedIn(s, H) /\ AllBehind(s, H) /\ BigInUse(s)
    BY DEF Core
<1>2. InUse(PageAt(s, q)) /\ IsLockedPage(s, q) /\ BehindIn(s, H[h])
    BY HeldInUse
<1>3. ShapeBut(t, {}) /\ ReleasedAt(s, t, q)
    BY <1>1, <1>2 DEF ReleasedAs, Released, BehindIn
<1>4. /\ \A r : IsLockedPage(t, r) <=> IsLockedPage(s, r) /\ ~(r = q /\ q[1] = "big" /\ PageAt(s, q).locks = 1)
      /\ \A r : IsLockedPage(s, r) /\ r # q => PageAt(t, r) = PageAt(s, r)
      /\ IsLockedPage(t, q) => PageAt(t, q).start = PageAt(s, q).start /\ PageAt(t, q).size = PageAt(s, q).size
      /\ \A c \in Class : \A i \in Pages1(c) :
            t.page[c][i].locks = IF <<c, i>> = q THEN s.page[c][i].locks - 1 ELSE s.page[c][i].locks
    BY <1>3 DEF ReleasedAt
<1>5. \A r : IsLockedPage(t, r) => IsLockedPage(s, r) /\ PageAt(t, r).start = PageAt(s, r).start
                                   /\ PageAt(t, r).size = PageAt(s, r).size
    BY <1>4
<1>6. Disjoint(t)
    BY <1>1, <1>5 DEF Disjoint, Apart, LockSpan
<1>7. G \in Locks /\ G[h] = NoLock /\ \A g \in Handles : g # h => G[g] = H[g]
    BY <1>1 DEF Locks
<1>8. ASSUME NEW r
      PROVE  /\ Cardinality(HeldOn(G, r)) = IF r = q THEN Cardinality(HeldOn(H, r)) - 1 ELSE Cardinality(HeldOn(H, r))
             /\ Cardinality(HeldOn(H, r)) \in Nat
  <2>1. IsFiniteSet(HeldOn(H, r)) /\ Cardinality(HeldOn(H, r)) \in Nat /\ (h \in HeldOn(H, r) <=> r = q)
      BY HeldFinite DEF HeldOn
  <2>2. \A g : g \in HeldOn(G, r) <=> g \in HeldOn(H, r) /\ g # h
      BY <1>7 DEF HeldOn
  <2>3. HeldOn(G, r) = HeldOn(H, r) \ {h}
      BY <2>2
  <2> QED BY <2>1, <2>3, FS_RemoveElement
<1>9. CountedIn(t, G)
    BY <1>1, <1>4, <1>8 DEF CountedIn
<1>10. AllBehind(t, G)
  <2> SUFFICES ASSUME NEW g \in Handles, G[g] # NoLock PROVE BehindIn(t, G[g])
      BY DEF AllBehind
  <2> DEFINE r == H[g].page
  <2>1. g # h /\ G[g] = H[g] /\ H[g] # NoLock
      BY <1>7
  <2>2. IsLockedPage(s, r) /\ BehindIn(s, H[g])
      BY <2>1, HeldInUse
  <2>3. IsLockedPage(t, r)
    <3> SUFFICES ASSUME r = q PROVE PageAt(s, q).locks # 1
        BY <1>4, <2>2
    <3>1. PageAt(s, q).locks = Cardinality(HeldOn(H, q))
        BY <1>1, <1>2 DEF CountedIn, IsLockedPage, PageAt
    <3>2. g \in HeldOn(G, q)
        BY <2>1 DEF HeldOn
    <3>3. Cardinality(HeldOn(G, q)) # 0
        BY <3>2, HeldFinite, FS_EmptySet
    <3>4. Cardinality(HeldOn(G, q)) = Cardinality(HeldOn(H, q)) - 1 /\ Cardinality(HeldOn(H, q)) \in Nat
        BY <1>8
    <3> QED BY <3>1, <3>3, <3>4
  <2>4. PageAt(t, r).start = PageAt(s, r).start /\ PageAt(t, r).size = PageAt(s, r).size
      BY <1>5, <2>3
  <2> QED BY <2>1, <2>2, <2>3, <2>4 DEF BehindIn, LockSpan
<1>11. BigInUse(t)
  <2> SUFFICES ASSUME NEW i \in Pages1("big"), IsLocked(t, "big", i) PROVE t.page["big"][i].locks > 0
      BY DEF BigInUse
  <2> DEFINE r == <<"big", i>>
  <2>1. "big" \in Class /\ IsLockedPage(t, r)
      BY Sizes DEF IsLockedPage
  <2>2. IsLockedPage(s, r) /\ ~(r = q /\ PageAt(s, q).locks = 1)
      BY <1>4, <2>1
  <2>3. s.page["big"][i].locks > 0 /\ s.page["big"][i].locks = Cardinality(HeldOn(H, r))
      BY <1>1, <2>1, <2>2 DEF BigInUse, IsLockedPage, CountedIn
  <2>4. r = q => s.page["big"][i].locks # 1
      BY <2>2 DEF PageAt
  <2>5. t.page["big"][i].locks = IF r = q THEN s.page["big"][i].locks - 1 ELSE s.page["big"][i].locks
      BY <1>4, <2>1
  <2>6. Cardinality(HeldOn(H, r)) \in Nat
      BY <1>8
  <2> HIDE DEF r, q
  <2> QED BY <2>3, <2>4, <2>5, <2>6
<1> QED BY <1>3, <1>6, <1>7, <1>9, <1>10, <1>11 DEF Core

(* The other steps keep the locked pages where they are.                   *)
InPlace(s, t) ==
    /\ ShapeBut(t, {}) /\ SameLocks(s, t)
    /\ \A r : IsLockedPage(t, r) <=> IsLockedPage(s, r)
    /\ \A r : IsLockedPage(s, r) => /\ PageAt(t, r).start = PageAt(s, r).start
                                    /\ PageAt(t, r).size = PageAt(s, r).size
                                    /\ PageAt(s, r).dirty => PageAt(t, r).dirty
(* The common part outlasts a step that moves no page.                     *)
LEMMA KeepsCore ==
  ASSUME NEW s, NEW H, Core(s, H), NEW t, InPlace(s, t)
  PROVE  Core(t, H)
<1>1. ShapeBut(s, {}) /\ H \in Locks /\ Disjoint(s) /\ CountedIn(s, H) /\ AllBehind(s, H) /\ BigInUse(s)
    BY DEF Core
<1>2. Disjoint(t)
    BY <1>1 DEF InPlace, Disjoint, Apart, LockSpan
<1>3. CountedIn(t, H)
    BY <1>1 DEF InPlace, SameLocks, CountedIn
<1>4. AllBehind(t, H)
    BY <1>1 DEF InPlace, AllBehind, BehindIn, LockSpan
<1>5. BigInUse(t)
  <2> SUFFICES ASSUME NEW i \in Pages1("big"), IsLocked(t, "big", i) PROVE t.page["big"][i].locks > 0
      BY DEF BigInUse
  <2>1. "big" \in Class /\ IsLockedPage(t, <<"big", i>>)
      BY Sizes DEF IsLockedPage
  <2>2. IsLocked(s, "big", i) /\ t.page["big"][i].locks = s.page["big"][i].locks
      BY <2>1 DEF InPlace, IsLockedPage, SameLocks
  <2> QED BY <1>1, <2>2 DEF BigInUse
<1> QED BY <1>1, <1>2, <1>3, <1>4, <1>5 DEF Core, InPlace
(* Reading, writing and flushing move no page.                             *)
LEMMA StaysInPlace ==
  ASSUME NEW s, NEW t, ShapeBut(s, {})
  PROVE  /\ Untouched(s, t) => InPlace(s, t)
         /\ \A q, d : WrittenAs(s, t, q, d) => InPlace(s, t)
<1>1. Untouched(s, t) => InPlace(s, t)
    BY DEF Untouched, InPlace
<1>2. ASSUME NEW q, NEW d, WrittenAs(s, t, q, d) PROVE InPlace(s, t)
  <2>1. ASSUME NEW r, IsLockedPage(s, r)
        PROVE  /\ PageAt(t, r).start = PageAt(s, r).start /\ PageAt(t, r).size = PageAt(s, r).size
               /\ PageAt(s, r).dirty => PageAt(t, r).dirty
      BY <1>2, <2>1 DEF WrittenAs, Patched
  <2> QED BY <1>2, <2>1 DEF WrittenAs, InPlace
<1> QED BY <1>1, <1>2

-----------------------------------------------------------------------------
(* Programs that take locks with ->, and programs that take VPtrLocks      *)

(* Steps that take and release no lock.                                    *)
Quiet ==
    \/ CarefulIO
    \/ \E h \in Handles, a \in Addr : ReadLocked(h, a) \/ \E d \in Blocks(a, 1) : WriteLocked(h, a, d)
    \/ UNCHANGED lvars
(* A step that takes no lock leaves every locked page in its place.        *)
LEMMA StepsQuiet ==
  ASSUME ShapeInv, HeldOK, Quiet
  PROVE  InPlace(State, State') /\ held' = held
<1>1. ShapeBut(State, {})
    BY DEF ShapeInv
<1>2. CASE CarefulIO
  <2>1. Untouched(State, State') /\ held' = held
      BY <1>2, StepsIO DEF CarefulIO, RawIO
  <2> QED BY <1>1, <2>1, StaysInPlace
<1>3. CASE UNCHANGED <<allocVars, held>>
  <2>1. State' = State
      BY <1>3 DEF State, allocVars
  <2> QED BY <1>1, <1>3, <2>1 DEF InPlace, SameLocks
<1>4. ASSUME NEW h \in Handles, NEW a \in Addr, NEW d \in Blocks(a, 1), WriteLocked(h, a, d)
      PROVE  InPlace(State, State') /\ held' = held
  <2>1. WrittenAs(State, State', held[h].page, d)
      BY <1>4, StepsWrite
  <2>2. held' = held
      BY <1>4 DEF WriteLocked
  <2> QED BY <1>1, <2>1, <2>2, StaysInPlace
<1>5. ASSUME NEW h \in Handles, NEW a \in Addr, ReadLocked(h, a) PROVE UNCHANGED <<allocVars, held>>
    BY <1>5 DEF ReadLocked
<1>6. UNCHANGED lvars => UNCHANGED <<allocVars, held>>
    BY DEF lvars, vars
<1> QED BY <1>2, <1>3, <1>4, <1>5, <1>6 DEF Quiet

(* What such a program does: nothing with locks, a release, or a new lock. *)
LEMMA StepsKinds ==
  /\ [NextOverlapping]_lvars =>
        \/ Quiet
        \/ \E h \in Handles : Release(h)
        \/ \E h \in Handles, p \in Addr, n \in LockSizes, ro \in BOOLEAN :
              EndsBeyond(p, n) /\ (ro => Separate(p, n)) /\ DataLock(h, p, n, ro)
  /\ [NextFitting]_lvars =>
        \/ Quiet
        \/ \E h \in Handles : Release(h)
        \/ \E h \in Handles, p \in Addr, n \in LockSizes, ro \in BOOLEAN : FittingLock(h, p, n, ro)
<1>1. CarefulIO => Quiet
    BY DEF Quiet
<1>2. UseLocks => Quiet \/ \E h \in Handles : Release(h)
    BY DEF UseLocks, Quiet
<1>3. UNCHANGED lvars => Quiet
    BY DEF Quiet
<1> HIDE DEF Quiet
<1> QED BY <1>1, <1>2, <1>3 DEF NextOverlapping, NextFitting

(* No lock is held in the beginning.                                       *)
LEMMA StartsCore ==
  ASSUME InitLocks
  PROVE  Core(State, held) /\ \A h \in Handles : held[h] = NoLock
<1>1. ShapeBut(State, {}) /\ held \in Locks
    BY StartsShape DEF ShapeInv, HeldOK, Locks
<1>2. (\A q : ~IsLockedPage(State, q)) /\ (\A h \in Handles : held[h] = NoLock)
      /\ (\A c \in Class : \A i \in Pages1(c) : State.page[c][i].locks = 0)
    BY StartsShape
<1>3. Disjoint(State)
    BY <1>2 DEF Disjoint
<1>4. CountedIn(State, held)
  <2>1. \A q : HeldOn(held, q) = {}
      BY <1>2 DEF HeldOn
  <2> QED BY <1>2, <2>1, FS_EmptySet DEF CountedIn
<1>5. AllBehind(State, held)
    BY <1>2 DEF AllBehind
<1>6. BigInUse(State)
  <2> SUFFICES ASSUME NEW i \in Pages1("big"), IsLocked(State, "big", i) PROVE FALSE
      BY DEF BigInUse
  <2>1. IsLockedPage(State, <<"big", i>>)
      BY Sizes DEF IsLockedPage
  <2> QED BY <1>2, <2>1
<1> QED BY <1>1, <1>2, <1>3, <1>4, <1>5, <1>6 DEF Core

(* What the common part says of the state.                                 *)
LEMMA SaysCore ==
  ASSUME Core(State, held)
  PROVE  LocksCounted /\ LockedPagesDisjoint /\ BigPagesComeBack
<1>1. ShapeBut(State, {}) /\ held \in Locks /\ Disjoint(State) /\ CountedIn(State, held) /\ BigInUse(State)
    BY DEF Core
<1>2. LocksCounted
  <2>1. ASSUME NEW c \in Class, NEW i \in 1 .. PageCount[c]
        PROVE  page[c][i].locks = Cardinality({h \in HeldHandles : held[h].page = <<c, i>>})
    <3>1. {h \in HeldHandles : held[h].page = <<c, i>>} = HeldOn(held, <<c, i>>)
        BY DEF HeldHandles, HeldOn
    <3>2. State.page[c][i].locks = Cardinality(HeldOn(held, <<c, i>>))
        BY <1>1 DEF CountedIn, Pages1
    <3> QED BY <3>1, <3>2, StateIs
  <2> QED BY <2>1 DEF LocksCounted
<1>3. LockedPagesDisjoint
  <2> SUFFICES ASSUME NEW j \in DOMAIN LockedPages(State), NEW k \in DOMAIN LockedPages(State), j # k
               PROVE  LockSpan(PageAt(State, LockedPages(State)[j]))
                      \cap LockSpan(PageAt(State, LockedPages(State)[k])) = {}
      BY DEF LockedPagesDisjoint
  <2> DEFINE q == LockedPages(State)[j]
             r == LockedPages(State)[k]
  <2>1. IsLockedPage(State, q) /\ IsLockedPage(State, r) /\ Once(LockedPages(State))
      BY <1>1, LockedPagesAre
  <2>2. q # r
      BY <2>1 DEF Once
  <2>3. Apart(PageAt(State, q), PageAt(State, r))
      BY <1>1, <2>1, <2>2 DEF Disjoint
  <2> QED BY <2>3 DEF Apart
<1>4. BigPagesComeBack
  <2> SUFFICES ASSUME NEW i \in Range(locked["big"]) PROVE page["big"][i].locks > 0
      BY DEF BigPagesComeBack
  <2>1. "big" \in Class /\ Split(State.free["big"], State.locked["big"], PageCount["big"])
      BY <1>1, Sizes DEF ShapeBut
  <2>2. locked["big"] \in Seq(1 .. PageCount["big"])
      BY <2>1, StateIs DEF Split
  <2>3. PICK k \in DOMAIN locked["big"] : locked["big"][k] = i
      BY DEF Range
  <2>4. i \in Pages1("big")
      BY <2>2, <2>3, ElementOfSeq, LenProperties DEF Pages1
  <2>5. IsLocked(State, "big", i)
      BY <2>3, StateIs DEF IsLocked, On
  <2> QED BY <1>1, <2>4, <2>5, StateIs DEF BigInUse
<1> QED BY <1>2, <1>3, <1>4

(* The lock that makeDataLock() gives out is on the bytes of its page, and *)
(* other locks on that page are as long, or were longer.                   *)
Exact(s, H) ==
    \A h \in Handles : H[h] # NoLock => H[h].offset = 0 /\ PageAt(s, H[h].page).size <= H[h].size
ExactInv == Core(State, held) /\ Exact(State, held)

(* The pointers of the locks that are held are the starts of their pages.  *)
LEMMA StartsExact ==
  ASSUME FewHandles, NEW s, NEW H, Core(s, H), Exact(s, H), NEW h \in Handles, H[h] # NoLock
  PROVE  LET pg == PageAt(s, H[h].page)
         IN  /\ pg.start = H[h].ptr /\ pg.size <= H[h].size /\ pg.start \in Nat /\ pg.size \in Nat /\ H[h].size \in Nat
             /\ InUse(pg) /\ IsLockedPage(s, H[h].page) /\ H[h] \in LockType /\ LockedOK(pg, H[h].page[1])
<1> DEFINE q == H[h].page
           pg == PageAt(s, q)
<1>1. InUse(pg) /\ IsLockedPage(s, q) /\ pg.start + H[h].offset = H[h].ptr /\ H[h] \in LockType
    BY HeldInUse DEF BehindIn
<1>2. H[h].offset = 0 /\ pg.size <= H[h].size
    BY DEF Exact
<1>3. LockedOK(pg, q[1])
    BY <1>1, VisitedIs DEF Core
<1>4. pg.start \in Nat /\ pg.size \in Nat /\ H[h].size \in Nat
  <2>1. ShapeBut(s, {}) /\ H[h].size \in 1 .. BigSize
      BY <1>1, HeldPage DEF Core
  <2> QED BY <1>1, <2>1, VisitedIs, Sizes
<1>5. pg.start = H[h].ptr
    BY <1>1, <1>2, <1>4
<1> QED BY <1>1, <1>2, <1>3, <1>4, <1>5

(* What EndsBeyond asks of the blocks that are held holds of the pages.    *)
LEMMA EndsBeyondPages ==
  ASSUME FewHandles, ExactInv, NEW p \in Addr, NEW n \in 1 .. BigSize, EndsBeyond(p, n)
  PROVE  Fits(State, p, n) /\ Covers(State, p, n)
<1> DEFINE s == State
<1>1. ASSUME NEW r, IsLockedPage(s, r), InUse(PageAt(s, r))
      PROVE  /\ PageAt(s, r).start = p => PageAt(s, r).size <= n
             /\ BeginOverlaps(PageAt(s, r), p) => PageAt(s, r).start + PageAt(s, r).size <= p + n
  <2> DEFINE pg == PageAt(s, r)
  <2>1. PICK h \in Handles : held[h] # NoLock /\ held[h].page = r
      BY <1>1, UsedHeld DEF ExactInv
  <2> DEFINE b == held[h].ptr
             m == held[h].size
  <2>2. pg.start = b /\ pg.size <= m /\ pg.start \in Nat /\ pg.size \in Nat /\ m \in Nat
      BY <2>1, StartsExact DEF ExactInv
  <2>3. h \in HeldHandles
      BY <2>1 DEF HeldHandles
  <2>4. (p = b => n = m) /\ (p \in Span(b, m) => p + n >= b + m)
      BY <2>3 DEF EndsBeyond
  <2>5. p \in Nat /\ n \in Nat
      BY Sizes
  <2> HIDE DEF b, m, pg
  <2>6. pg.start = p => pg.size <= n
      BY <2>2, <2>4, <2>5
  <2>7. ASSUME BeginOverlaps(pg, p) PROVE pg.start + pg.size <= p + n
    <3>1. p > pg.start /\ p < pg.start + pg.size
        BY <2>7 DEF BeginOverlaps
    <3>2. p \in Span(b, m)
        BY <2>2, <2>5, <3>1 DEF Span
    <3> QED BY <2>2, <2>4, <2>5, <3>2
  <2> QED BY <2>6, <2>7 DEF pg
<1> QED BY <1>1 DEF Fits, Covers

(* A new lock of makeDataLock() keeps the invariant.                       *)
LEMMA TakesExact ==
  ASSUME FewHandles, ExactInv, NEW h \in Handles, NEW p \in Addr, NEW n, NEW ro \in BOOLEAN,
         EndsBeyond(p, n), DataLock(h, p, n, ro)
  PROVE  ExactInv'
<1> DEFINE s == State
           t == State'
           l == held'[h]
<1>1. ShapeInv /\ HeldOK
    BY DEF ExactInv, Core, ShapeInv, HeldOK, Locks
<1>2. /\ MadeData(s, t, l, p, n, ro) /\ held' = [held EXCEPT ![h] = l] /\ held[h] = NoLock
      /\ p \in Addr \ {0} /\ n \in 1 .. BigSize
    BY <1>1, StepsData
<1>3. Core(s, held) /\ Exact(s, held) /\ held \in Locks
    BY DEF ExactInv, Core
<1>4. \A g \in Handles : g # h => held'[g] = held[g]
    BY <1>2, <1>3 DEF Locks
<1>5. Made(s, t, l, p, n, ro) /\ DataSize(s, t, l) /\ MadeUsed(s, t) /\ ShapeBut(t, {})
      /\ (l # NoLock => GivenLock(t, l, p, n, ro))
    BY <1>2 DEF MadeData, Made
<1>6. ASSUME NEW g \in Handles, held[g] # NoLock
      PROVE  /\ held[g].ptr \in LockSpan(PageAt(t, held[g].page))
             /\ held[g].offset = 0 /\ PageAt(t, held[g].page).size <= held[g].size
  <2> DEFINE r == held[g].page
  <2>1. /\ PageAt(s, r).start = held[g].ptr /\ PageAt(s, r).size <= held[g].size /\ held[g].size \in Nat
        /\ PageAt(s, r).size \in Nat /\ InUse(PageAt(s, r)) /\ IsLockedPage(s, r) /\ held[g] \in LockType
      BY <1>3, <1>6, StartsExact
  <2>2. IsLockedPage(t, r) /\ PageAt(t, r).start = held[g].ptr
      BY <1>5, <2>1 DEF MadeUsed
  <2>4. PageAt(t, r).start \in Nat /\ PageAt(t, r).size \in Nat /\ PageAt(t, r).size >= 1
      BY <1>5, <2>2, VisitedIs
  <2>5. held[g].ptr \in LockSpan(PageAt(t, r))
      BY <2>2, <2>4 DEF LockSpan, Span
  <2>6. CASE PageAt(t, r).size <= PageAt(s, r).size
      BY <1>3, <1>6, <2>1, <2>4, <2>5, <2>6 DEF Exact
  <2>7. CASE l # NoLock /\ r = l.page
    <3>1. PageAt(t, r).start + l.offset = p /\ l.offset = 0 /\ PageAt(t, r).size = l.size /\ l.size <= n
        BY <1>5, <2>7 DEF GivenLock, DataSize
    <3>2. p = held[g].ptr
        BY <2>2, <2>4, <3>1
    <3>3. g \in HeldHandles
        BY <1>6 DEF HeldHandles
    <3>4. n = held[g].size
        BY <3>2, <3>3 DEF EndsBeyond
    <3> QED BY <1>3, <1>6, <2>5, <3>1, <3>4 DEF Exact
  <2> QED BY <1>5, <2>1, <2>6, <2>7 DEF DataSize
<1>7. Core(t, held')
    BY <1>2, <1>3, <1>5, <1>6, TakesCore
<1>8. Exact(t, held')
  <2> SUFFICES ASSUME NEW g \in Handles, held'[g] # NoLock
               PROVE  held'[g].offset = 0 /\ PageAt(t, held'[g].page).size <= held'[g].size
      BY DEF Exact
  <2>1. CASE g = h
    <3>1. l # NoLock /\ l.offset = 0 /\ PageAt(t, l.page).size = l.size /\ l \in LockType
        BY <1>5, <2>1 DEF DataSize, GivenLock
    <3>2. l.size \in 1 .. BigSize
        BY <3>1, HeldPage
    <3> QED BY <2>1, <3>1, <3>2, Sizes
  <2>2. CASE g # h
      BY <1>4, <1>6, <2>2
  <2> QED BY <2>1, <2>2
<1> QED BY <1>7, <1>8 DEF ExactInv

(* Every step of such a program keeps the invariant.                       *)
LEMMA KeepsExact ==
  ASSUME FewHandles, ExactInv, [NextOverlapping]_lvars
  PROVE  ExactInv'
<1>1. ShapeInv /\ HeldOK /\ Core(State, held) /\ Exact(State, held)
    BY DEF ExactInv, Core, ShapeInv, HeldOK, Locks
<1>2. CASE Quiet
  <2>1. InPlace(State, State') /\ held' = held
      BY <1>1, <1>2, StepsQuiet
  <2>2. Core(State', held)
      BY <1>1, <2>1, KeepsCore
  <2>3. \A h \in Handles : held[h] # NoLock => IsLockedPage(State, held[h].page)
      BY <1>1 DEF Core, AllBehind, BehindIn
  <2>4. Exact(State', held)
      BY <1>1, <2>1, <2>3 DEF Exact, InPlace
  <2> QED BY <2>1, <2>2, <2>4 DEF ExactInv
<1>3. ASSUME NEW h \in Handles, Release(h) PROVE ExactInv'
  <2> DEFINE G == [held EXCEPT ![h] = NoLock]
  <2>1. held' = G /\ held[h] # NoLock
      BY <1>3 DEF Release
  <2>2. ReleasedAs(State, State', held[h].ptr)
      BY <1>1, <1>3, StepsRelease
  <2>3. Core(State', G) /\ ReleasedAt(State, State', held[h].page)
      BY <1>1, <2>1, <2>2, DropsCore
  <2>4. ASSUME NEW g \in Handles, G[g] # NoLock
        PROVE  G[g].offset = 0 /\ PageAt(State', G[g].page).size <= G[g].size
    <3>1. G[g] = held[g] /\ held[g] # NoLock
        BY <1>1, <2>4 DEF Core, Locks
    <3>2. IsLockedPage(State, held[g].page) /\ held[g].offset = 0
          /\ PageAt(State, held[g].page).size <= held[g].size
        BY <1>1, <3>1 DEF Core, AllBehind, BehindIn, Exact
    <3>3. IsLockedPage(State', held[g].page)
        BY <2>3, <2>4, <3>1 DEF Core, AllBehind, BehindIn
    <3>4. PageAt(State', held[g].page).size = PageAt(State, held[g].page).size
        BY <2>3, <3>2, <3>3 DEF ReleasedAt
    <3> QED BY <3>1, <3>2, <3>4
  <2>5. Exact(State', G)
      BY <2>4 DEF Exact
  <2> QED BY <2>1, <2>3, <2>5 DEF ExactInv
<1>4. ASSUME NEW h \in Handles, NEW p \in Addr, NEW n \in LockSizes, NEW ro \in BOOLEAN,
             EndsBeyond(p, n), DataLock(h, p, n, ro)
      PROVE  ExactInv'
    BY <1>4, TakesExact
<1> QED BY <1>2, <1>3, <1>4, StepsKinds

(* The pointer of a lock finds the byte of an address when its page still  *)
(* covers the address.                                                     *)
StillIs == \A h \in Handles : held[h] # NoLock => \A a \in Nat : StillHeld(h, a) <=> a \in LockSpan(PageAt(State, held[h].page))
(* StillHeld says just that.                                               *)
LEMMA StillFound == Core(State, held) => StillIs
<1> SUFFICES ASSUME Core(State, held), NEW h \in Handles, held[h] # NoLock, NEW a \in Nat
             PROVE  StillHeld(h, a) <=> a \in LockSpan(PageAt(State, held[h].page))
    BY DEF StillIs
<1> DEFINE q == held[h].page
           pg == PageAt(State, q)
           b == pg.start
           o == held[h].offset
<1>1. ShapeBut(State, {}) /\ IsLockedPage(State, q) /\ b + o = held[h].ptr /\ held[h] \in LockType
    BY DEF Core, AllBehind, BehindIn, Locks
<1>2. pg.data \in [LockSpan(pg) -> Val] /\ b \in Nat
    BY <1>1, VisitedIs
<1>3. o \in Nat
    BY <1>1, HeldPage
<1>4. PageBehind(h) = pg
    BY StateIs DEF PageBehind, PageAt
<1>5. b + o + (a - (b + o)) = a
    BY <1>2, <1>3
<1>6. Reached(h, a) = a
    BY <1>1, <1>4, <1>5 DEF Reached
<1>7. Holds(pg, a) <=> a \in LockSpan(pg)
    BY <1>2 DEF Holds
<1> QED BY <1>4, <1>6, <1>7 DEF StillHeld

(* A lock stays in a page of the locked list.                              *)
LockedOn == \A h \in Handles : held[h] # NoLock => held[h].page[2] \in Range(locked[held[h].page[1]])
(* So says the common part of the invariants.                              *)
LEMMA StillLocked == Core(State, held) => LockedOn
<1> SUFFICES ASSUME Core(State, held), NEW h \in Handles, held[h] # NoLock
             PROVE  held[h].page[2] \in Range(locked[held[h].page[1]])
    BY DEF LockedOn
<1>1. IsLockedPage(State, held[h].page)
    BY DEF Core, AllBehind, BehindIn
<1> QED BY <1>1, StateIs DEF IsLockedPage, IsLocked, On, Range

(* As long as there are fewer handles than values of the counter locks,    *)
(* what the counter of a page counts is the locks that are held on it; the *)
(* searches of makeDataLock() leave no byte in two locked pages; and big   *)
(* pages return to input and output with their last lock (releaseLock()).  *)
THEOREM OverlappingLocks ==
  ASSUME FewHandles
  PROVE  SpecOverlapping => [](LocksCounted /\ LockedPagesDisjoint /\ BigPagesComeBack)
<1>1. InitLocks => ExactInv
    BY StartsCore DEF ExactInv, Exact
<1>2. ExactInv /\ [NextOverlapping]_lvars => ExactInv'
    BY KeepsExact
<1>3. ExactInv => LocksCounted /\ LockedPagesDisjoint /\ BigPagesComeBack
    BY SaysCore DEF ExactInv
<1> QED BY <1>1, <1>2, <1>3, PTL DEF SpecOverlapping

(* What a step does to the bytes of a lock that is held before and after.  *)
KeptBytes(h) ==
    held'[h] = held[h] =>
        /\ \A a \in Span(held[h].ptr, held[h].size) : StillHeld(h, a) =>
              \/ StillHeld(h, a)'
              \/ \E g \in Handles : /\ held[g] = NoLock /\ held'[g] # NoLock
                                    /\ a \in Span(held'[g].ptr, held'[g].size)
                                    /\ StillHeld(g, a)'
        /\ held[h].page[2] \in Range(locked'[held[h].page[1]])
(* Every byte a lock had it has, or a lock that was just taken.            *)
LEMMA StepsKeepBytes ==
  ASSUME FewHandles, ExactInv, [NextOverlapping]_lvars, NEW h \in HeldHandles
  PROVE  KeptBytes(h)
<1> DEFINE s == State
           t == State'
           r == held[h].page
<1>1. Core(s, held) /\ Exact(s, held) /\ ShapeInv /\ HeldOK /\ ShapeBut(s, {})
    BY DEF ExactInv, Core, ShapeInv, HeldOK, Locks
<1>2. ExactInv'
    BY KeepsExact
<1>3. Core(t, held') /\ Exact(t, held')
    BY <1>2 DEF ExactInv
<1>4. StillIs /\ StillIs' /\ LockedOn'
  <2>1. Core(State, held)'
      BY <1>3
  <2> QED BY <1>1, <2>1, StillFound, StillLocked, PTL
<1>5. h \in Handles /\ held[h] # NoLock
    BY DEF HeldHandles
<1>6. /\ PageAt(s, r).start = held[h].ptr /\ PageAt(s, r).size <= held[h].size
      /\ InUse(PageAt(s, r)) /\ IsLockedPage(s, r) /\ held[h] \in LockType
    BY <1>1, <1>5, StartsExact
<1>7. LockSpan(PageAt(s, r)) \subseteq Nat
    BY <1>1, <1>6, VisitedIs, Sizes
<1> SUFFICES ASSUME held'[h] = held[h]
             PROVE  /\ \A a \in Span(held[h].ptr, held[h].size) : StillHeld(h, a) =>
                          \/ StillHeld(h, a)'
                          \/ \E g \in Handles : /\ held[g] = NoLock /\ held'[g] # NoLock
                                                /\ a \in Span(held'[g].ptr, held'[g].size)
                                                /\ StillHeld(g, a)'
                    /\ held[h].page[2] \in Range(locked'[held[h].page[1]])
    BY DEF KeptBytes
<1>8. held[h].page[2] \in Range(locked'[held[h].page[1]])
    BY <1>4, <1>5 DEF LockedOn
<1>9. Span(held[h].ptr, held[h].size) \subseteq Nat
  <2>1. held[h].ptr \in Nat /\ held[h].size \in Nat
      BY <1>6, HeldPage, Sizes
  <2> QED BY <2>1 DEF Span
<1>10. ASSUME NEW a \in Nat
       PROVE  /\ StillHeld(h, a) <=> a \in LockSpan(PageAt(s, r))
              /\ StillHeld(h, a)' <=> a \in LockSpan(PageAt(t, r))
  <2>1. StillHeld(h, a) <=> a \in LockSpan(PageAt(s, r))
      BY <1>4, <1>5 DEF StillIs
  <2>2. StillHeld(h, a)' <=> a \in LockSpan(PageAt(t, r))
      BY <1>4, <1>5 DEF StillIs
  <2> QED BY <2>1, <2>2
<1>11. CASE \A a \in LockSpan(PageAt(s, r)) : a \in LockSpan(PageAt(t, r))
    BY <1>8, <1>9, <1>10, <1>11
<1>12. CASE Quiet
  <2>1. InPlace(s, t)
      BY <1>1, <1>12, StepsQuiet
  <2>2. LockSpan(PageAt(t, r)) = LockSpan(PageAt(s, r))
      BY <1>6, <2>1 DEF InPlace, LockSpan
  <2> QED BY <1>11, <2>2
<1>13. ASSUME NEW g \in Handles, Release(g)
       PROVE  \A a \in LockSpan(PageAt(s, r)) : a \in LockSpan(PageAt(t, r))
  <2>1. held' = [held EXCEPT ![g] = NoLock] /\ held[g] # NoLock
      BY <1>13 DEF Release
  <2>2. ReleasedAs(s, t, held[g].ptr)
      BY <1>1, <1>13, StepsRelease
  <2>3. ReleasedAt(s, t, held[g].page)
      BY <1>1, <2>1, <2>2, DropsCore
  <2>4. IsLockedPage(t, r)
      BY <1>3, <1>5 DEF Core, AllBehind, BehindIn
  <2>5. PageAt(t, r).start = PageAt(s, r).start /\ PageAt(t, r).size = PageAt(s, r).size
      BY <1>6, <2>3, <2>4 DEF ReleasedAt
  <2> QED BY <2>5 DEF LockSpan
<1>14. ASSUME NEW g \in Handles, NEW p \in Addr, NEW n \in LockSizes, NEW ro \in BOOLEAN,
              EndsBeyond(p, n), DataLock(g, p, n, ro), NEW a \in LockSpan(PageAt(s, r))
       PROVE  \/ a \in LockSpan(PageAt(t, r))
              \/ /\ held[g] = NoLock /\ held'[g] # NoLock
                 /\ a \in Span(held'[g].ptr, held'[g].size) /\ StillHeld(g, a)'
  <2> DEFINE l == held'[g]
  <2>1. /\ MadeData(s, t, l, p, n, ro) /\ held[g] = NoLock /\ n \in 1 .. BigSize
      BY <1>1, <1>14, StepsData
  <2>2. Fits(s, p, n) /\ Covers(s, p, n) /\ Disjoint(s)
      BY <1>1, <1>14, <2>1, EndsBeyondPages DEF Core
  <2>3. a \in LockSpan(PageAt(t, r)) \/ (l # NoLock /\ a \in Span(p, l.size))
      BY <1>6, <2>1, <2>2 DEF MadeData, DataUsed
  <2>4. ASSUME l # NoLock, a \in Span(p, l.size) PROVE a \in Span(l.ptr, l.size) /\ StillHeld(g, a)'
    <3>1. l.ptr = p /\ PageAt(t, l.page).size = l.size
        BY <2>1, <2>4 DEF MadeData, Made, GivenLock, DataSize
    <3>2. PageAt(t, l.page).start = p
        BY <1>3, <2>4, <3>1, StartsExact
    <3>3. a \in LockSpan(PageAt(t, l.page))
        BY <2>4, <3>1, <3>2 DEF LockSpan
    <3>4. a \in Nat
        BY <1>7
    <3> QED BY <1>4, <2>4, <3>1, <3>3, <3>4 DEF StillIs
  <2> QED BY <2>1, <2>3, <2>4
<1>15. ASSUME NEW g \in Handles, NEW p \in Addr, NEW n \in LockSizes, NEW ro \in BOOLEAN,
              EndsBeyond(p, n), DataLock(g, p, n, ro), NEW a \in Span(held[h].ptr, held[h].size), StillHeld(h, a)
       PROVE  \/ StillHeld(h, a)'
              \/ \E f \in Handles : /\ held[f] = NoLock /\ held'[f] # NoLock
                                    /\ a \in Span(held'[f].ptr, held'[f].size)
                                    /\ StillHeld(f, a)'
  <2>1. a \in Nat /\ a \in LockSpan(PageAt(s, r))
      BY <1>9, <1>10, <1>15
  <2> QED BY <1>10, <1>14, <1>15, <2>1
<1> QED BY <1>8, <1>11, <1>12, <1>13, <1>15, StepsKinds

(* The promise of ->: raw input and output, releases and locks elsewhere   *)
(* leave the bytes of a lock where its pointer finds them; a byte leaves   *)
(* its page only for that of a new lock of the byte (makeDataLock()).      *)
THEOREM BytesStay ==
  ASSUME FewHandles
  PROVE  SpecOverlapping => OnlyNewLocksTakeBytes
<1>1. InitLocks => ExactInv
    BY StartsCore DEF ExactInv, Exact
<1>2. ExactInv /\ [NextOverlapping]_lvars => ExactInv'
    BY KeepsExact
<1>3. ExactInv /\ [NextOverlapping]_lvars =>
          \A h \in HeldHandles : held'[h] = held[h] =>
              /\ \A a \in Span(held[h].ptr, held[h].size) : StillHeld(h, a) =>
                    \/ StillHeld(h, a)'
                    \/ \E g \in Handles : /\ held[g] = NoLock /\ held'[g] # NoLock
                                          /\ a \in Span(held'[g].ptr, held'[g].size)
                                          /\ StillHeld(g, a)'
              /\ held[h].page[2] \in Range(locked'[held[h].page[1]])
    BY StepsKeepBytes DEF KeptBytes
<1> QED BY <1>1, <1>2, <1>3, PTL DEF SpecOverlapping, OnlyNewLocksTakeBytes

(* A lock that makeFittingLock() gave out has all of its bytes in its page *)
(* for good.                                                               *)
Within(s, H) == \A h \in Handles : H[h] # NoLock => FitWithin(s, H[h])
WithinInv == Core(State, held) /\ Within(State, held)

(* A new lock of makeFittingLock() keeps the invariant.                    *)
LEMMA TakesWithin ==
  ASSUME FewHandles, WithinInv, NEW h \in Handles, NEW p \in Addr, NEW n, NEW ro \in BOOLEAN, FittingLock(h, p, n, ro)
  PROVE  WithinInv'
<1> DEFINE s == State
           t == State'
           l == held'[h]
<1>1. ShapeInv /\ HeldOK
    BY DEF WithinInv, Core, ShapeInv, HeldOK, Locks
<1>2. MadeFit(s, t, l, p, n, ro) /\ held' = [held EXCEPT ![h] = l] /\ held[h] = NoLock
    BY <1>1, StepsFit
<1>3. Core(s, held) /\ Within(s, held) /\ held \in Locks
    BY DEF WithinInv, Core
<1>4. \A g \in Handles : g # h => held'[g] = held[g]
    BY <1>2, <1>3 DEF Locks
<1>5. Made(s, t, l, p, n, ro) /\ FitSame(s, t) /\ FitWithin(t, l) /\ MadeUsed(s, t)
    BY <1>2 DEF MadeFit, Made
<1>6. ASSUME NEW g \in Handles, held[g] # NoLock
      PROVE  LockSpan(PageAt(t, held[g].page)) = LockSpan(PageAt(s, held[g].page))
  <2> DEFINE r == held[g].page
  <2>1. InUse(PageAt(s, r)) /\ IsLockedPage(s, r)
      BY <1>3, <1>6, HeldInUse
  <2>2. PageAt(t, r).start = PageAt(s, r).start /\ PageAt(t, r).size = PageAt(s, r).size
      BY <1>5, <2>1 DEF MadeUsed, FitSame
  <2> QED BY <2>2 DEF LockSpan
<1>7. \A g \in Handles : held[g] # NoLock => held[g].ptr \in LockSpan(PageAt(t, held[g].page))
    BY <1>3, <1>6 DEF Core, AllBehind, BehindIn
<1>8. Core(t, held')
    BY <1>2, <1>3, <1>5, <1>7, TakesCore
<1>9. ASSUME NEW g \in Handles, held'[g] # NoLock PROVE FitWithin(t, held'[g])
  <2>1. CASE g = h
      BY <1>5, <2>1
  <2>2. CASE g # h
      BY <1>3, <1>4, <1>6, <1>9, <2>2 DEF Within, FitWithin
  <2> QED BY <2>1, <2>2
<1> QED BY <1>8, <1>9 DEF WithinInv, Within

(* Every step of such a program keeps the invariant.                       *)
LEMMA KeepsWithin ==
  ASSUME FewHandles, WithinInv, [NextFitting]_lvars
  PROVE  WithinInv'
<1>1. ShapeInv /\ HeldOK /\ Core(State, held) /\ Within(State, held)
    BY DEF WithinInv, Core, ShapeInv, HeldOK, Locks
<1>2. \A h \in Handles : held[h] # NoLock => IsLockedPage(State, held[h].page)
    BY <1>1 DEF Core, AllBehind, BehindIn
<1>3. CASE Quiet
  <2>1. InPlace(State, State') /\ held' = held
      BY <1>1, <1>3, StepsQuiet
  <2>2. Core(State', held)
      BY <1>1, <2>1, KeepsCore
  <2>3. Within(State', held)
      BY <1>1, <1>2, <2>1 DEF Within, FitWithin, InPlace, LockSpan
  <2> QED BY <2>1, <2>2, <2>3 DEF WithinInv
<1>4. ASSUME NEW h \in Handles, Release(h) PROVE WithinInv'
  <2> DEFINE G == [held EXCEPT ![h] = NoLock]
  <2>1. held' = G /\ held[h] # NoLock
      BY <1>4 DEF Release
  <2>2. ReleasedAs(State, State', held[h].ptr)
      BY <1>1, <1>4, StepsRelease
  <2>3. Core(State', G) /\ ReleasedAt(State, State', held[h].page)
      BY <1>1, <2>1, <2>2, DropsCore
  <2>4. ASSUME NEW g \in Handles, G[g] # NoLock PROVE FitWithin(State', G[g])
    <3>1. G[g] = held[g] /\ held[g] # NoLock
        BY <1>1, <2>4 DEF Core, Locks
    <3>2. IsLockedPage(State, held[g].page) /\ FitWithin(State, held[g])
        BY <1>1, <1>2, <3>1 DEF Within
    <3>3. IsLockedPage(State', held[g].page)
        BY <2>3, <2>4, <3>1 DEF Core, AllBehind, BehindIn
    <3>4. PageAt(State', held[g].page).size = PageAt(State, held[g].page).size
          /\ PageAt(State', held[g].page).start = PageAt(State, held[g].page).start
        BY <2>3, <3>2, <3>3 DEF ReleasedAt
    <3> QED BY <3>1, <3>2, <3>4 DEF FitWithin, LockSpan
  <2>5. Within(State', G)
      BY <2>4 DEF Within
  <2> QED BY <2>1, <2>3, <2>5 DEF WithinInv
<1>5. ASSUME NEW h \in Handles, NEW p \in Addr, NEW n \in LockSizes, NEW ro \in BOOLEAN, FittingLock(h, p, n, ro)
      PROVE  WithinInv'
    BY <1>5, TakesWithin
<1> QED BY <1>3, <1>4, <1>5, StepsKinds

(* All bytes of the locks are where their pointers find them.              *)
LEMMA SaysWithin ==
  ASSUME FewHandles, WithinInv
  PROVE  LockedDataStays
<1>1. Core(State, held) /\ Within(State, held) /\ StillIs /\ LockedOn
    BY StillFound, StillLocked DEF WithinInv
<1>2. ASSUME NEW h \in HeldHandles, NEW a \in Span(held[h].ptr, held[h].size) PROVE StillHeld(h, a)
  <2>1. h \in Handles /\ held[h] # NoLock
      BY DEF HeldHandles
  <2>2. a \in LockSpan(PageAt(State, held[h].page))
      BY <1>1, <1>2, <2>1 DEF Within, FitWithin
  <2>3. LockSpan(PageAt(State, held[h].page)) \subseteq Nat
      BY <1>1, <2>1, HeldInUse, VisitedIs, Sizes DEF Core
  <2> QED BY <1>1, <2>1, <2>2, <2>3 DEF StillIs
<1>3. ASSUME NEW h \in HeldHandles PROVE held[h].page[2] \in Range(locked[held[h].page[1]])
    BY <1>1 DEF HeldHandles, LockedOn
<1> QED BY <1>2, <1>3 DEF LockedDataStays

(* "The data is guaranteed to stay in a memory page" (manual.md:262-264):  *)
(* whatever raw input and output, releases and other VPtrLocks do, a       *)
(* VPtrLock keeps every byte that makeFittingLock() gave it, and its page  *)
(* counts it.                                                              *)
THEOREM LockedData ==
  ASSUME FewHandles
  PROVE  SpecFitting => [](LockedDataStays /\ LocksCounted /\ LockedPagesDisjoint /\ BigPagesComeBack)
<1>1. InitLocks => WithinInv
    BY StartsCore DEF WithinInv, Within
<1>2. WithinInv /\ [NextFitting]_lvars => WithinInv'
    BY KeepsWithin
<1>3. WithinInv => LockedDataStays /\ LocksCounted /\ LockedPagesDisjoint /\ BigPagesComeBack
    BY SaysWithin, SaysCore DEF WithinInv
<1> QED BY <1>1, <1>2, <1>3, PTL DEF SpecFitting

-----------------------------------------------------------------------------
(* The contents of the memory                                              *)

(* What read() would find is the contents below and in the locked pages.   *)
LEMMA ContentsAre ==
  ASSUME NEW s, ShapeBut(s, {}), NEW c \in [Addr -> Val], MemIs(s, c, {})
  PROVE  c = ContentsOf(s)
<1> DEFINE order == LockedPages(s)
           inLocked(a) == {j \in DOMAIN order : Holds(PageAt(s, order[j]), a)}
           inFree(a) == {k \in Positions(s) : Holds(FreePage(s, k), a)}
           byte(a) == IF inLocked(a) # {} THEN PageAt(s, order[Min(inLocked(a))]).data[a]
                      ELSE IF inFree(a) # {} THEN FreePage(s, Min(inFree(a))).data[a]
                      ELSE s.store[a]
<1>1. PICK m : Agrees(s, m) /\ MemOf(s, c, {}, m)
    BY DEF MemIs
<1>2. /\ Len(order) \in Nat /\ DOMAIN order = 1 .. Len(order)
      /\ \A q : On(q, order) <=> IsLockedPage(s, q)
      /\ \A j \in DOMAIN order : IsLockedPage(s, order[j])
    BY LockedPagesAre
<1>3. /\ Positions(s) \subseteq Nat
      /\ \A k \in Positions(s) : s.free["big"][k] \in Numbers /\ IsFree(s, "big", s.free["big"][k])
      /\ \A i : IsFree(s, "big", i) => \E k \in Positions(s) : s.free["big"][k] = i
  <2>1. Positions(s) \subseteq Positions(s)
      OBVIOUS
  <2> QED BY <2>1, FreeNumbers
<1>4. ASSUME NEW a \in Addr, inLocked(a) # {} PROVE byte(a) = c[a]
  <2> DEFINE j == Min(inLocked(a))
  <2>1. inLocked(a) \subseteq Nat
      BY <1>2
  <2>2. j \in inLocked(a)
      BY <1>4, <2>1, MinIsLeast
  <2>3. IsLockedPage(s, order[j]) /\ Holds(PageAt(s, order[j]), a)
      BY <1>2, <2>2
  <2>4. PageAt(s, order[j]).data[a] = c[a]
      BY <1>1, <2>3 DEF MemOf
  <2> QED BY <1>4, <2>4
<1>5. ASSUME NEW a \in Addr, inLocked(a) = {} PROVE m[a] = c[a]
  <2>1. ASSUME NEW q, IsLockedPage(s, q) PROVE ~Holds(PageAt(s, q), a)
      BY <1>2, <1>5, <2>1 DEF On
  <2> QED BY <1>1, <2>1 DEF MemOf
<1>6. ASSUME NEW a \in Addr, inLocked(a) = {}, inFree(a) # {} PROVE byte(a) = c[a]
  <2> DEFINE k == Min(inFree(a))
             i == s.free["big"][k]
  <2>1. inFree(a) \subseteq Nat
      BY <1>3
  <2>2. k \in inFree(a)
      BY <1>6, <2>1, MinIsLeast
  <2>3. i \in Numbers /\ IsFree(s, "big", i) /\ Holds(s.page["big"][i], a)
      BY <1>3, <2>2 DEF FreePage
  <2>4. View(s)[i] = s.page["big"][i]
      BY <2>3, ViewIs
  <2>5. s.page["big"][i].data[a] = m[a]
    <3>1. \A v \in Numbers : \A b \in Addr : Holds(View(s)[v], b) => View(s)[v].data[b] = m[b]
        BY <1>1 DEF Agrees, Consistent
    <3> QED BY <2>3, <2>4, <3>1
  <2>6. FreePage(s, k).data[a] = m[a]
      BY <2>5 DEF FreePage
  <2> QED BY <1>5, <1>6, <2>6
<1>7. ASSUME NEW a \in Addr, inLocked(a) = {}, inFree(a) = {} PROVE byte(a) = c[a]
  <2>1. ASSUME NEW i \in Numbers PROVE ~Holds(View(s)[i], a)
    <3>1. CASE IsFree(s, "big", i)
      <4>1. PICK k \in Positions(s) : s.free["big"][k] = i
          BY <1>3, <3>1
      <4>2. ~Holds(s.page["big"][i], a)
          BY <1>7, <4>1 DEF FreePage
      <4> QED BY <3>1, <4>2, ViewIs
    <3>2. CASE ~IsFree(s, "big", i)
        BY <3>2, ViewIs
    <3> QED BY <3>1, <3>2
  <2>2. s.store[a] = m[a]
      BY <1>1, <2>1 DEF Agrees, Consistent
  <2> QED BY <1>5, <1>7, <2>2
<1>8. \A a \in Addr : byte(a) = c[a]
    BY <1>4, <1>6, <1>7
<1>9. ContentsOf(s) = [a \in Addr |-> byte(a)]
    BY DEF ContentsOf
<1> HIDE DEF byte
<1> QED BY <1>8, <1>9

(* In the beginning the memory contains what the pool does.                *)
LEMMA StartsMem ==
  ASSUME InitLocks
  PROVE  store \in [Addr -> Val] /\ MemIs(State, store, {})
<1> DEFINE s == State
           V == View(s)
<1>1. ShapeBut(s, {}) /\ \A q : ~IsLockedPage(s, q)
    BY StartsShape DEF ShapeInv
<1>2. s.store = store /\ store \in [Addr -> Val]
  <2>1. s \in States
      BY <1>1 DEF ShapeBut
  <2> QED BY <2>1, StateFields, StateIs
<1>3. /\ V \in [Numbers -> BigPage] /\ \A i \in Numbers : V[i].data \in [HeldBy(V[i]) -> Val]
    BY <1>1, ViewIs
<1>4. ASSUME NEW i \in Numbers PROVE V[i] = NewPage("big")
  <2>1. s.page["big"][i] = NewPage("big")
    <3>1. page = [c \in Class |-> [j \in 1 .. PageCount[c] |-> NewPage(c)]]
        BY DEF InitLocks, Init
    <3>2. "big" \in Class /\ i \in 1 .. PageCount["big"]
        BY Sizes DEF Numbers, N
    <3> QED BY <3>1, <3>2, StateIs
  <2> QED BY <2>1 DEF View, Blank
<1>5. \A i \in Numbers : ~V[i].dirty /\ \A a \in Addr : ~Holds(V[i], a)
    BY <1>4 DEF NewPage, Holds
<1>6. Agrees(s, store)
  <2> HIDE DEF V
  <2>1. Consistent(s.store, V, store)
      BY <1>2, <1>3, <1>5 DEF Consistent
  <2> QED BY <2>1 DEF Agrees, V
<1>7. MemOf(s, store, {}, store)
    BY <1>1 DEF MemOf
<1> QED BY <1>2, <1>6, <1>7 DEF MemIs

(* A step that reads or writes c as a flat memory would be read or written. *)
FlatMove(c) ==
    \/ call' = NoCall /\ MemIs(State', c, {})
    \/ \E p \in Addr, n \in 1 .. BigSize : IsBlock(p, n) /\ \E d \in [Span(p, n) -> Val] :
          \/ call' = <<"read", d>> /\ (\A a \in Span(p, n) : d[a] = c[a]) /\ MemIs(State', c, {})
          \/ call' = <<"write", d>> /\ MemIs(State', Patch(c, d), {})
MemInv == Contents \in [Addr -> Val] /\ MemIs(State, Contents, {})

(* Such a step of the contents is one of the abstract specification.       *)
LEMMA MovesFlat ==
  ASSUME MemInv, FlatMove(Contents), ShapeInv'
  PROVE  MemInv' /\ Flat!Next
<1> DEFINE c == Contents
<1>1. c \in [Addr -> Val]
    BY DEF MemInv
<1>2. ASSUME NEW m \in [Addr -> Val], MemIs(State', m, {}) PROVE Contents' = m /\ MemInv'
  <2>1. ShapeBut(State', {})
      BY DEF ShapeInv
  <2>2. m = ContentsOf(State')
      BY <1>2, <2>1, ContentsAre
  <2>3. Contents' = m
      BY <2>2 DEF Contents
  <2> QED BY <1>2, <2>3 DEF MemInv
<1>3. CASE call' = NoCall /\ MemIs(State', c, {})
  <2>1. Contents' = c /\ MemInv'
      BY <1>1, <1>2, <1>3
  <2>2. Flat!Other
      BY <1>3, <2>1 DEF Flat!Other, NoCall, Flat!NoCall
  <2> QED BY <2>1, <2>2 DEF Flat!Next
<1>4. ASSUME NEW p \in Addr, NEW n \in 1 .. BigSize, IsBlock(p, n), NEW d \in [Span(p, n) -> Val],
             \/ call' = <<"read", d>> /\ (\A a \in Span(p, n) : d[a] = c[a]) /\ MemIs(State', c, {})
             \/ call' = <<"write", d>> /\ MemIs(State', Patch(c, d), {})
      PROVE  MemInv' /\ Flat!Next
  <2>1. Span(p, n) = Flat!Span(p, n) /\ Flat!IsBlock(p, n)
      BY <1>4 DEF Span, Flat!Span, IsBlock, Flat!IsBlock
  <2>2. d \in [Flat!Span(p, n) -> Val]
      BY <2>1
  <2>3. CASE call' = <<"read", d>> /\ (\A a \in Span(p, n) : d[a] = c[a]) /\ MemIs(State', c, {})
    <3>1. Contents' = c /\ MemInv'
        BY <1>1, <1>2, <2>3
    <3>2. Flat!Read(p, n, d)
        BY <2>1, <2>3, <3>1 DEF Flat!Read
    <3> QED BY <2>2, <3>1, <3>2 DEF Flat!Next
  <2>4. CASE call' = <<"write", d>> /\ MemIs(State', Patch(c, d), {})
    <3>1. Patch(c, d) \in [Addr -> Val]
      <4>1. Patch(c, d) = [a \in Addr |-> IF a \in Span(p, n) THEN d[a] ELSE c[a]]
          BY <1>1 DEF Patch
      <4>2. \A a \in Addr : (IF a \in Span(p, n) THEN d[a] ELSE c[a]) \in Val
          BY <1>1
      <4> QED BY <4>1, <4>2
    <3>2. Contents' = Patch(c, d) /\ MemInv'
        BY <1>2, <2>4, <3>1
    <3>3. Patch(c, d) = Flat!Patch(c, d)
        BY DEF Patch, Flat!Patch
    <3>4. Flat!Write(p, n, d)
        BY <2>1, <2>4, <3>2, <3>3 DEF Flat!Write
    <3> QED BY <2>2, <3>2, <3>4 DEF Flat!Next
  <2> QED BY <1>4, <2>3, <2>4
<1> QED BY <1>3, <1>4 DEF FlatMove

(* Raw input and output does so while a big page is free.                  *)
LEMMA MovesIO ==
  ASSUME ShapeInv, Disjoint(State), Short(State), State.free["big"] # <<>>, NextIO,
         NEW c \in [Addr -> Val], MemIs(State, c, {})
  PROVE  FlatMove(c)
<1> DEFINE s == State
           t == State'
           K == LoadedPositions(s)
<1>1. ShapeBut(s, {})
    BY DEF ShapeInv
<1>2. ASSUME NEW u, Becomes(u), ShapeBut(u, {}) PROVE t = u
  <2>1. u \in States
      BY <1>2 DEF ShapeBut
  <2> QED BY <1>2, <2>1, BecomesIs
<1>3. ASSUME NEW p \in Addr, NEW n, IsBlock(p, n)
      PROVE  p \in Addr \ {0} /\ n \in 1 .. BigSize /\ Span(p, n) \subseteq Addr
    BY <1>3 DEF IsBlock
<1>4. ASSUME NEW p \in Addr, NEW n \in IOSizes, Read(p, n) PROVE FlatMove(c)
  <2> DEFINE r == ReadRaw(s, p, n)
             u == r.state
             d == r.data
  <2>1. Becomes(u) /\ IsBlock(p, n) /\ ~failed /\ call' = <<"read", d>>
      BY <1>4 DEF Read, Returns
  <2>2. ReadAs(s, r, p, n)
    <3>1. r = ReadRaw(s, p, n)
        OBVIOUS
    <3> HIDE DEF r, s
    <3> QED BY <1>1, <1>3, <2>1, <3>1, Reads
  <2>3. ~s.failed
      BY <2>1, StateIs
  <2>4. ReadMem(s, r, p, n) /\ Below(s, u)
      BY <2>2, <2>3 DEF ReadAs
  <2>5. MemIs(u, c, {}) /\ d \in [Span(p, n) -> Val] /\ \A a \in Span(p, n) : d[a] = c[a]
      BY <2>4 DEF ReadMem
  <2>6. t = u
    <3>1. ShapeBut(u, {})
        BY <1>1, <2>4, BelowShape
    <3> HIDE DEF u
    <3> QED BY <1>2, <2>1, <3>1
  <2>7. p \in Addr /\ n \in 1 .. BigSize
      BY <1>3, <2>1
  <2> HIDE DEF d, u
  <2> QED BY <2>1, <2>5, <2>6, <2>7 DEF FlatMove
<1>5. ASSUME NEW p \in Addr, NEW n \in IOSizes, NEW d \in Blocks(p, n), Write(p, n, d) PROVE FlatMove(c)
  <2> DEFINE u == WriteRaw(s, p, n, d)
  <2>1. Becomes(u) /\ IsBlock(p, n) /\ d \in [Span(p, n) -> Val] /\ ~failed /\ call' = <<"write", d>>
      BY <1>5 DEF Write, Blocks
  <2>2. WriteAs(s, u, d)
    <3>1. u = WriteRaw(s, p, n, d)
        OBVIOUS
    <3> HIDE DEF u, s
    <3> QED BY <1>1, <1>3, <2>1, <3>1, Writes
  <2>3. ~s.failed
      BY <2>1, StateIs
  <2>4. WriteMem(s, u, d) /\ Untouched(s, u)
      BY <2>2, <2>3 DEF WriteAs
  <2>5. MemIs(u, Patch(c, d), {})
      BY <2>4 DEF WriteMem
  <2>6. t = u
    <3> HIDE DEF u
    <3> QED BY <1>2, <2>1, <2>4 DEF Untouched
  <2>7. p \in Addr /\ n \in 1 .. BigSize
      BY <1>3, <2>1
  <2> HIDE DEF u
  <2> QED BY <2>1, <2>5, <2>6, <2>7 DEF FlatMove
<1>6. CASE Flush \/ ClearPages
  <2> DEFINE u == SyncBigPages(s, K)
             v == Invalidate(u, K)
  <2>1. EmptiedAs(s, u) /\ EmptiedAs(s, v)
    <3>1. K = LoadedPositions(s) /\ u = SyncBigPages(s, K) /\ v = Invalidate(u, K)
        OBVIOUS
    <3> HIDE DEF u, v, K, s
    <3> QED BY <1>1, <3>1, Flushes
  <2>2. Becomes(u) \/ Becomes(v)
      BY <1>6 DEF Flush, ClearPages
  <2>3. call' = NoCall
      BY <1>6 DEF Flush, ClearPages
  <2> HIDE DEF u, v
  <2>4. ASSUME NEW w, Becomes(w), EmptiedAs(s, w) PROVE MemIs(t, c, {})
    <3>1. t = w
        BY <1>2, <2>4 DEF EmptiedAs, Untouched
    <3> QED BY <2>4, <3>1 DEF EmptiedAs, Remembers
  <2> QED BY <2>1, <2>2, <2>3, <2>4 DEF FlatMove
<1> QED BY <1>4, <1>5, <1>6 DEF NextIO

(* The page of a lock that is not read-only is dirty.                      *)
WriteDirty(s, H) == \A h \in Handles : H[h] # NoLock => H[h].ro \/ PageAt(s, H[h].page).dirty
FlatInv == MemInv /\ Short(State) /\ WriteDirty(State, held)

(* A byte is loaded or stored through a lock.                              *)
LEMMA MovesBytes ==
  ASSUME Core(State, held), MemInv, WriteDirty(State, held), NEW h \in Handles, NEW a \in Addr,
         ReadLocked(h, a) \/ \E d \in Blocks(a, 1) : WriteLocked(h, a, d)
  PROVE  FlatMove(Contents)
<1> DEFINE q == held[h].page
           pg == PageAt(State, q)
           c == Contents
<1>1. ShapeInv /\ HeldOK /\ ShapeBut(State, {}) /\ Disjoint(State) /\ c \in [Addr -> Val] /\ MemIs(State, c, {})
    BY DEF Core, ShapeInv, HeldOK, Locks, MemInv
<1>2. held[h] # NoLock /\ StillHeld(h, a)
    BY DEF ReadLocked, WriteLocked
<1>3. IsLockedPage(State, q) /\ PageBehind(h) = pg
    BY <1>2, StateIs DEF Core, AllBehind, BehindIn, PageBehind, PageAt
<1>4. Holds(pg, a) /\ a \in LockSpan(pg) /\ pg.start # 0 /\ pg.start \in Nat /\ pg.size \in Nat
  <2>1. Holds(pg, a)
      BY <1>2, <1>3 DEF StillHeld
  <2>2. pg.data \in [LockSpan(pg) -> Val] /\ pg.start # 0 /\ pg.start \in Nat /\ pg.size \in Nat
      BY <1>1, <1>3, VisitedIs
  <2> QED BY <2>1, <2>2 DEF Holds
<1>5. IsBlock(a, 1) /\ Span(a, 1) = {a} /\ 1 \in 1 .. BigSize
  <2>1. a \in Nat /\ BigSize \in Nat /\ BigSize >= 1
      BY Sizes
  <2>2. a # 0
    <3> DEFINE b == pg.start
               m == pg.size
    <3>1. a \in b .. b + m - 1 /\ b \in Nat /\ b # 0
        BY <1>4 DEF LockSpan, Span
    <3> HIDE DEF b, m
    <3> QED BY <2>1, <3>1
  <2>3. Span(a, 1) = {a}
      BY <2>1 DEF Span
  <2> QED BY <2>1, <2>2, <2>3 DEF IsBlock
<1>6. CASE ReadLocked(h, a)
  <2> DEFINE d == [b \in {a} |-> PageBehind(h).data[a]]
  <2>1. call' = <<"read", d>> /\ State' = State
      BY <1>6 DEF ReadLocked, allocVars, State
  <2>2. pg.data[a] = c[a]
      BY <1>1, <1>3, <1>4 DEF MemIs, MemOf
  <2>3. d[a] = c[a] /\ d \in [Span(a, 1) -> Val]
      BY <1>1, <1>3, <1>5, <2>2
  <2>4. MemIs(State', c, {})
      BY <1>1, <2>1
  <2> HIDE DEF d, c
  <2>5. \A b \in Span(a, 1) : d[b] = c[b]
      BY <1>5, <2>3
  <2> QED BY <1>5, <2>1, <2>3, <2>4, <2>5 DEF FlatMove, c
<1>7. ASSUME NEW d \in Blocks(a, 1), WriteLocked(h, a, d) PROVE FlatMove(c)
  <2>1. WrittenAs(State, State', q, d)
      BY <1>1, <1>7, StepsWrite
  <2>2. call' = <<"write", d>> /\ d \in [Span(a, 1) -> Val] /\ ~held[h].ro
      BY <1>7 DEF WriteLocked, Blocks
  <2>3. pg.dirty
      BY <1>2, <2>2 DEF WriteDirty
  <2>4. Span(a, 1) \subseteq LockSpan(pg)
      BY <1>4, <1>5
  <2>5. MemIs(State', Patch(c, d), {})
    <3> HIDE DEF c, q
    <3> QED BY <1>1, <1>3, <2>1, <2>2, <2>3, <2>4, WritesMem
  <2> HIDE DEF c
  <2> QED BY <1>5, <2>2, <2>5 DEF FlatMove
<1> QED BY <1>6, <1>7

(* What a step does to the memory and the dirty pages: it reads or writes  *)
(* as from a flat memory, or nothing changes at all.                       *)
FlatStep == (FlatMove(Contents) \/ UNCHANGED lvars) /\ Short(State') /\ WriteDirty(State', held')
(* Steps that take and release no lock.                                    *)
LEMMA QuietFlat ==
  ASSUME Core(State, held), FlatInv, Quiet
  PROVE  FlatStep
<1>1. ShapeInv /\ HeldOK /\ Disjoint(State) /\ Contents \in [Addr -> Val] /\ MemIs(State, Contents, {})
      /\ MemInv /\ Short(State) /\ WriteDirty(State, held)
    BY DEF Core, ShapeInv, HeldOK, Locks, FlatInv, MemInv
<1>2. InPlace(State, State') /\ held' = held
    BY <1>1, StepsQuiet
<1>3. Short(State')
    BY <1>1, <1>2 DEF InPlace, Short
<1>4. WriteDirty(State', held')
  <2>1. \A h \in Handles : held[h] # NoLock => IsLockedPage(State, held[h].page)
      BY DEF Core, AllBehind, BehindIn
  <2> QED BY <1>1, <1>2, <2>1 DEF InPlace, WriteDirty
<1>5. CASE CarefulIO
  <2>1. FlatMove(Contents)
      BY <1>1, <1>5, MovesIO, StateIs DEF CarefulIO, RawIO
  <2> QED BY <1>3, <1>4, <2>1 DEF FlatStep
<1>6. ASSUME NEW h \in Handles, NEW a \in Addr, ReadLocked(h, a) \/ \E d \in Blocks(a, 1) : WriteLocked(h, a, d)
      PROVE  FlatStep
  <2>1. FlatMove(Contents)
      BY <1>1, <1>6, MovesBytes
  <2> QED BY <1>3, <1>4, <2>1 DEF FlatStep
<1>7. CASE UNCHANGED lvars
    BY <1>3, <1>4, <1>7 DEF FlatStep
<1> QED BY <1>5, <1>6, <1>7 DEF Quiet

(* A lock is released.                                                     *)
LEMMA ReleaseFlat ==
  ASSUME FewHandles, Core(State, held), FlatInv, NEW h \in Handles, Release(h)
  PROVE  FlatStep
<1> DEFINE G == [held EXCEPT ![h] = NoLock]
<1>1. ShapeInv /\ held \in Locks /\ MemIs(State, Contents, {}) /\ Short(State) /\ WriteDirty(State, held)
    BY DEF Core, ShapeInv, FlatInv, MemInv
<1>2. held' = G /\ held[h] # NoLock /\ call' = NoCall
    BY DEF Release
<1>3. ReleasedAs(State, State', held[h].ptr)
    BY <1>1, StepsRelease
<1>4. Core(State', G) /\ ReleasedAt(State, State', held[h].page)
    BY <1>2, <1>3, DropsCore
<1>5. MemIs(State', Contents, {}) /\ Short(State')
    BY <1>1, <1>4 DEF ReleasedAt, Remembers
<1>6. ASSUME NEW g \in Handles, G[g] # NoLock PROVE G[g].ro \/ PageAt(State', G[g].page).dirty
  <2>1. G[g] = held[g] /\ held[g] # NoLock
      BY <1>1, <1>6 DEF Locks
  <2>2. IsLockedPage(State, held[g].page) /\ IsLockedPage(State', held[g].page)
      BY <1>4, <1>6, <2>1 DEF Core, AllBehind, BehindIn
  <2>3. PageAt(State', held[g].page).dirty = PageAt(State, held[g].page).dirty
      BY <1>4, <2>2 DEF ReleasedAt
  <2> QED BY <1>1, <2>1, <2>3 DEF WriteDirty
<1>7. WriteDirty(State', G)
    BY <1>6 DEF WriteDirty
<1>8. FlatMove(Contents)
    BY <1>2, <1>5 DEF FlatMove
<1> QED BY <1>2, <1>5, <1>7, <1>8 DEF FlatStep

(* A lock is taken, and the call leaves the memory as it was.              *)
LEMMA TakesFlat ==
  ASSUME FewHandles, Core(State, held), FlatInv, NEW h \in Handles, NEW p, NEW n, NEW ro,
         Made(State, State', held'[h], p, n, ro), held' = [held EXCEPT ![h] = held'[h]],
         Short(State'), MemIs(State', Contents, {}), call' = NoCall
  PROVE  FlatStep
<1> DEFINE l == held'[h]
<1>1. held \in Locks /\ WriteDirty(State, held)
    BY DEF Core, FlatInv
<1>2. \A g \in Handles : g # h => held'[g] = held[g]
    BY <1>1 DEF Locks
<1>3. MadeUsed(State, State') /\ (l # NoLock => GivenLock(State', l, p, n, ro))
    BY DEF Made
<1>4. ASSUME NEW g \in Handles, held'[g] # NoLock PROVE held'[g].ro \/ PageAt(State', held'[g].page).dirty
  <2>1. CASE g = h
      BY <1>3, <1>4, <2>1 DEF GivenLock
  <2>2. CASE g # h
    <3>1. held'[g] = held[g] /\ held[g] # NoLock
        BY <1>2, <1>4, <2>2
    <3>2. InUse(PageAt(State, held[g].page)) /\ IsLockedPage(State, held[g].page)
        BY <3>1, HeldInUse
    <3> QED BY <1>1, <1>3, <3>1, <3>2 DEF MadeUsed, WriteDirty
  <2> QED BY <2>1, <2>2
<1>5. WriteDirty(State', held')
    BY <1>4 DEF WriteDirty
<1>6. FlatMove(Contents)
    BY DEF FlatMove
<1> QED BY <1>5, <1>6 DEF FlatStep

(* Either way the memory goes on as the flat memory can.                   *)
LEMMA StepsFlat ==
  ASSUME FlatInv, ShapeInv', FlatStep
  PROVE  FlatInv' /\ [Flat!Next]_(Flat!flatVars)
<1>1. MemInv /\ Short(State') /\ WriteDirty(State', held')
    BY DEF FlatInv, FlatStep
<1>2. CASE FlatMove(Contents)
  <2>1. MemInv' /\ Flat!Next
      BY <1>1, <1>2, MovesFlat
  <2> QED BY <1>1, <2>1 DEF FlatInv
<1>3. CASE UNCHANGED lvars
  <2>1. State' = State /\ call' = call
      BY <1>3 DEF lvars, vars, allocVars, State
  <2>2. Contents' = Contents
      BY <2>1 DEF Contents
  <2>3. MemInv' /\ UNCHANGED Flat!flatVars
      BY <1>1, <2>1, <2>2 DEF MemInv, Flat!flatVars
  <2> QED BY <1>1, <2>3 DEF FlatInv
<1> QED BY <1>2, <1>3 DEF FlatStep

(* In the beginning the memory contains what the pool does.                *)
LEMMA StartsFlat ==
  ASSUME InitLocks
  PROVE  FlatInv /\ Flat!Init
<1>1. ShapeBut(State, {}) /\ (\A q : ~IsLockedPage(State, q)) /\ (\A h \in Handles : held[h] = NoLock)
    BY StartsShape DEF ShapeInv
<1>2. store \in [Addr -> Val] /\ MemIs(State, store, {})
    BY StartsMem
<1>3. Contents = store
    BY <1>1, <1>2, ContentsAre DEF Contents
<1>4. Flat!Init
    BY <1>2, <1>3 DEF InitLocks, Init, Flat!Init, NoCall, Flat!NoCall
<1> QED BY <1>1, <1>2, <1>3, <1>4 DEF FlatInv, MemInv, Short, WriteDirty

(* No lock is as large as a big page: a whole big page that a lock gives   *)
(* back keeps its bytes, which another one may have loaded meanwhile.      *)
ShortLocks == \A n \in LockSizes : n < BigSize

(* A read-only lock does not begin inside another one, when it is apart    *)
(* from the blocks that are held or the same as they are.                  *)
LEMMA SeparatePages ==
  ASSUME FewHandles, ExactInv, NEW p \in Addr, NEW n \in 1 .. BigSize, Separate(p, n)
  PROVE  ~Inside(State, p)
<1> SUFFICES ASSUME NEW r, IsLockedPage(State, r), InUse(PageAt(State, r)), BeginOverlaps(PageAt(State, r), p)
             PROVE  FALSE
    BY DEF Inside
<1> DEFINE pg == PageAt(State, r)
<1>1. PICK h \in Handles : held[h] # NoLock /\ held[h].page = r
    BY UsedHeld DEF ExactInv
<1> DEFINE b == held[h].ptr
           m == held[h].size
<1>2. pg.start = b /\ pg.size <= m /\ pg.start \in Nat /\ pg.size \in Nat /\ m \in Nat
    BY <1>1, StartsExact DEF ExactInv
<1>3. Span(b, m) \cap Span(p, n) = {} \/ (b = p /\ m = n)
    BY <1>1 DEF Separate, HeldHandles
<1>4. p > pg.start /\ p < pg.start + pg.size
    BY DEF BeginOverlaps
<1>5. p \in Nat /\ n \in Nat /\ n >= 1
    BY Sizes
<1> HIDE DEF b, m, pg
<1>6. p \in Span(b, m) /\ p \in Span(p, n) /\ b # p
    BY <1>2, <1>4, <1>5 DEF Span
<1> QED BY <1>3, <1>6

(* Every step of a program that uses -> is one of the flat memory.         *)
LEMMA OverlappingFlat ==
  ASSUME FewHandles, ShortLocks, ExactInv, FlatInv, [NextOverlapping]_lvars
  PROVE  FlatStep
<1>1. Core(State, held) /\ ShapeInv /\ HeldOK /\ Disjoint(State)
    BY DEF ExactInv, Core, ShapeInv, HeldOK, Locks
<1>2. CASE Quiet
    BY <1>1, <1>2, QuietFlat
<1>3. ASSUME NEW h \in Handles, Release(h) PROVE FlatStep
    BY <1>1, <1>3, ReleaseFlat
<1>4. ASSUME NEW h \in Handles, NEW p \in Addr, NEW n \in LockSizes, NEW ro \in BOOLEAN,
             EndsBeyond(p, n), ro => Separate(p, n), DataLock(h, p, n, ro)
      PROVE  FlatStep
  <2>1. /\ MadeData(State, State', held'[h], p, n, ro) /\ held' = [held EXCEPT ![h] = held'[h]] /\ n \in 1 .. BigSize
      BY <1>1, <1>4, StepsData
  <2>2. Covers(State, p, n) /\ (ro => ~Inside(State, p))
      BY <1>4, <2>1, EndsBeyondPages, SeparatePages
  <2>3. n < BigSize /\ Short(State) /\ MemIs(State, Contents, {})
      BY DEF ShortLocks, FlatInv, MemInv
  <2>4. Short(State') /\ MemIs(State', Contents, {})
      BY <1>1, <2>1, <2>2, <2>3 DEF MadeData, DataMem
  <2>5. Made(State, State', held'[h], p, n, ro) /\ call' = NoCall
      BY <1>4, <2>1 DEF MadeData, DataLock, TakeLock
  <2> QED BY <1>1, <2>1, <2>4, <2>5, TakesFlat
<1> QED BY <1>2, <1>3, <1>4, StepsKinds

(* And every step of one that uses VPtrLock only.                          *)
LEMMA FittingFlat ==
  ASSUME FewHandles, ShortLocks, WithinInv, FlatInv, [NextFitting]_lvars
  PROVE  FlatStep
<1>1. Core(State, held) /\ ShapeInv /\ HeldOK
    BY DEF WithinInv, Core, ShapeInv, HeldOK, Locks
<1>2. CASE Quiet
    BY <1>1, <1>2, QuietFlat
<1>3. ASSUME NEW h \in Handles, Release(h) PROVE FlatStep
    BY <1>1, <1>3, ReleaseFlat
<1>4. ASSUME NEW h \in Handles, NEW p \in Addr, NEW n \in LockSizes, NEW ro \in BOOLEAN, FittingLock(h, p, n, ro)
      PROVE  FlatStep
  <2>1. MadeFit(State, State', held'[h], p, n, ro) /\ held' = [held EXCEPT ![h] = held'[h]]
      BY <1>1, <1>4, StepsFit
  <2>2. n < BigSize /\ Short(State) /\ MemIs(State, Contents, {})
      BY DEF ShortLocks, FlatInv, MemInv
  <2>3. Short(State') /\ MemIs(State', Contents, {})
      BY <2>1, <2>2 DEF MadeFit, FitMem
  <2>4. Made(State, State', held'[h], p, n, ro) /\ call' = NoCall
      BY <1>4, <2>1 DEF MadeFit, FittingLock, TakeLock
  <2> QED BY <1>1, <2>1, <2>3, <2>4, TakesFlat
<1> QED BY <1>2, <1>3, <1>4, StepsKinds

(* The whole of paging with locks is a flat memory: what is stored through *)
(* a lock is what the raw functions read and the other way round, and      *)
(* neither a lock nor its release changes a byte.  For programs that use   *)
(* ->, ...                                                                 *)
THEOREM OverlappingMemory ==
  ASSUME FewHandles, ShortLocks
  PROVE  SpecOverlapping => LocksImplementFlatMemory
<1> DEFINE I == ExactInv /\ FlatInv
<1>1. InitLocks => I /\ Flat!Init
    BY StartsFlat, StartsCore DEF ExactInv, Exact
<1>2. I /\ [NextOverlapping]_lvars => I' /\ [Flat!Next]_(Flat!flatVars)
  <2> SUFFICES ASSUME I, [NextOverlapping]_lvars PROVE I' /\ [Flat!Next]_(Flat!flatVars)
      OBVIOUS
  <2>1. ExactInv' /\ FlatStep
      BY KeepsExact, OverlappingFlat
  <2>2. ShapeInv'
      BY <2>1 DEF ExactInv, Core, ShapeInv
  <2> QED BY <2>1, <2>2, StepsFlat
<1> HIDE DEF I
<1> QED BY <1>1, <1>2, PTL DEF SpecOverlapping, LocksImplementFlatMemory, Flat!Spec

(* ... and for those that use VPtrLock.                                    *)
THEOREM FittingMemory ==
  ASSUME FewHandles, ShortLocks
  PROVE  SpecFitting => LocksImplementFlatMemory
<1> DEFINE I == WithinInv /\ FlatInv
<1>1. InitLocks => I /\ Flat!Init
    BY StartsFlat, StartsCore DEF WithinInv, Within
<1>2. I /\ [NextFitting]_lvars => I' /\ [Flat!Next]_(Flat!flatVars)
  <2> SUFFICES ASSUME I, [NextFitting]_lvars PROVE I' /\ [Flat!Next]_(Flat!flatVars)
      OBVIOUS
  <2>1. WithinInv' /\ FlatStep
      BY KeepsWithin, FittingFlat
  <2>2. ShapeInv'
      BY <2>1 DEF WithinInv, Core, ShapeInv
  <2> QED BY <2>1, <2>2, StepsFlat
<1> HIDE DEF I
<1> QED BY <1>1, <1>2, PTL DEF SpecFitting, LocksImplementFlatMemory, Flat!Spec

-----------------------------------------------------------------------------
(* Programs that never run into an assertion                               *)

(* The search has not failed, and the page it found that begins where the  *)
(* lock does can become as large as the lock.                              *)
Sound(f) == ~f.state.failed /\ (f.at # 0 => PageAt(f.state, <<f.class, f.at>>).size <= f.size)
(* A page in use where the new lock begins is no longer than what is left  *)
(* of the new lock: whatever cut that off lies beyond the page.            *)
LEMMA UsedPageFits ==
  ASSUME NEW s, ShapeBut(s, {}), Disjoint(s), NEW p \in Addr \ {0}, NEW n \in Nat, Fits(s, p, n),
         NEW f, NEW K, Found(s, f, p, n, K), ~f.done,
         NEW q, IsLockedPage(f.state, q), q \notin K, NEW pg, pg = PageAt(f.state, q), pg.start = p, InUse(pg)
  PROVE  pg.size <= f.size
<1> DEFINE t == f.state
<1>1. ShapeBut(t, {}) /\ Settled(s, t) /\ f \in Searches
    BY DEF Found, FoundState, FoundSize
<1>2. pg.size \in Nat /\ pg.size >= 1 /\ p \in LockSpan(pg) /\ p \in Nat /\ f.size \in Nat /\ f.size >= 1
    BY <1>1, VisitedIs DEF Found, FoundSize
<1>3. IsLockedPage(s, q) /\ PageAt(s, q) = pg
    BY <1>1 DEF Settled
<1>4. f.at = 0
  <2> SUFFICES ASSUME f.at # 0 PROVE FALSE
      OBVIOUS
  <2> DEFINE r == <<f.class, f.at>>
  <2>1. r # q /\ IsLockedPage(t, r) /\ PageAt(t, r).start = p
      BY DEF Found, FoundPages
  <2> HIDE DEF r
  <2>2. p \in LockSpan(PageAt(t, r))
      BY <1>1, <2>1, VisitedIs
  <2>3. IsLockedPage(s, r) /\ PageAt(s, r) = PageAt(t, r)
      BY <1>1, <2>1 DEF Settled
  <2> QED BY <1>2, <1>3, <2>1, <2>2, <2>3 DEF Disjoint, Apart
<1>5. \/ f.size = n
      \/ \E r : IsLockedPage(s, r) /\ InUse(PageAt(s, r)) /\ PageAt(s, r).start = p + f.size
    BY <1>4 DEF Found, FoundEnd
<1>6. CASE f.size = n
    BY <1>3, <1>6 DEF Fits
<1>7. CASE \E r : IsLockedPage(s, r) /\ InUse(PageAt(s, r)) /\ PageAt(s, r).start = p + f.size
  <2>1. PICK r : IsLockedPage(s, r) /\ PageAt(s, r).start = p + f.size
      BY <1>7
  <2>2. r # q
      BY <1>2, <1>3, <2>1
  <2>3. p + f.size \in LockSpan(PageAt(s, r))
      BY <2>1, VisitedIs
  <2>4. p + f.size \notin LockSpan(pg)
      BY <1>3, <2>1, <2>2, <2>3 DEF Disjoint, Apart
  <2> HIDE DEF t
  <2> QED BY <1>2, <2>4 DEF LockSpan, Span
<1> QED BY <1>5, <1>6, <1>7

(* A page that is visited does not make the search fail.                   *)
LEMMA ConsidersSound ==
  ASSUME NEW s, ShapeBut(s, {}), Disjoint(s), NEW p \in Addr \ {0}, NEW n \in Nat, Fits(s, p, n),
         NEW f, NEW K, Found(s, f, p, n, K), Sound(f),
         NEW q, IsLockedPage(f.state, q), q \notin K
  PROVE  Sound(Consider(f, q, p))
<1> DEFINE t == f.state
           c == q[1]
           i == q[2]
           pg == PageAt(t, q)
           g == Consider(f, q, p)
<1> SUFFICES Sound(g)
    OBVIOUS
<1>1. f \in Searches /\ f.size \in Nat /\ f.size >= 1 /\ ShapeBut(t, {}) /\ ~t.failed /\ f.at \in Nat /\ f.class \in Class
      /\ PageSize[f.class] \in Nat
  <2>1. f \in Searches /\ ShapeBut(t, {}) /\ ~t.failed /\ f.size \in 1 .. n
      BY DEF Found, FoundState, FoundSize, Sound
  <2> QED BY <2>1, Sizes DEF Searches
<1>2. /\ c \in Class /\ i \in Pages1(c) /\ q = <<c, i>> /\ IsLocked(t, c, i) /\ i \in Nat /\ i # 0
      /\ t.page[c][i] = pg /\ pg.locks \in Nat /\ pg.size \in Nat /\ pg.size >= 1 /\ pg.start \in Nat
      /\ pg.size <= PageSize[c] /\ PageSize[c] \in Nat /\ pg.start \in LockSpan(pg)
    BY <1>1, VisitedIs, Sizes
<1>3. g = IF f.done \/ t.failed THEN f
          ELSE IF pg.start = p THEN SameStart(f, q, pg) ELSE OtherStart(f, q, pg, p)
    BY DEF Consider
<1> HIDE DEF g
<1>4. f.at # 0 => /\ <<f.class, f.at>> # q /\ IsLockedPage(t, <<f.class, f.at>>) /\ PageAt(t, <<f.class, f.at>>).start = p
                  /\ PageAt(t, <<f.class, f.at>>).size <= f.size
    BY DEF Found, FoundPages, Sound
<1>5. CASE f.done
    BY <1>3, <1>5
<1> HIDE DEF t, pg, c, i
<1>6. CASE ~f.done /\ g = SearchFreed(f, q) /\ ~InUse(pg)
  <2> DEFINE u == FreeLockedPage(t, c, i)
  <2>1. FreedAny(t, u, c, i)
      BY <1>1, <1>2, FreesAny
  <2> HIDE DEF u
  <2>2. ~u.failed
      BY <1>1, <2>1 DEF FreedAny
  <2>3. \A r : IsLockedPage(t, r) /\ r # q => PageAt(u, r) = PageAt(t, r)
      BY <1>2, <2>1 DEF FreedAny
  <2>4. g.state = u /\ g.class = f.class /\ g.at = f.at /\ g.size = f.size
      BY <1>1, <1>6 DEF SearchFreed, Searches, u, t, c, i
  <2> QED BY <1>4, <2>2, <2>3, <2>4 DEF Sound
<1>7. CASE ~f.done /\ pg.start = p /\ ~(f.class # c /\ ~InUse(pg))
  <2>1. g = SameStart(f, q, pg)
      BY <1>1, <1>3, <1>7
  <2>2. InUse(pg) => pg.size <= f.size
      BY <1>7, UsedPageFits DEF t, pg
  <2>3. CASE f.class # c
    <3> DEFINE m == IF PageSize[c] < PageSize[f.class] THEN Smaller(f.size, PageSize[c]) ELSE f.size
    <3>1. g = [f EXCEPT !.class = c, !.size = m, !.at = i, !.done = pg.size = m]
        BY <1>7, <2>1, <2>3 DEF SameStart, c, i
    <3>2. pg.size <= m
        BY <1>1, <1>2, <1>7, <2>2, <2>3 DEF Smaller
    <3> HIDE DEF m
    <3>3. g.state = t /\ g.class = c /\ g.at = i /\ g.size = m
        BY <1>1, <3>1 DEF Searches, t
    <3> QED BY <1>1, <1>2, <3>2, <3>3 DEF Sound, pg
  <2>4. CASE f.class = c /\ pg.size <= f.size
    <3>1. g = [f EXCEPT !.at = i, !.done = pg.size = f.size]
        BY <2>1, <2>4 DEF SameStart, c, i
    <3>2. g.state = t /\ g.class = c /\ g.at = i /\ g.size = f.size
        BY <1>1, <2>4, <3>1 DEF Searches, t
    <3> QED BY <1>1, <1>2, <2>4, <3>2 DEF Sound, pg
  <2>5. CASE f.class = c /\ ~(pg.size <= f.size)
    <3> DEFINE w == Trimming(t, c, i, f.size)
               u == Require(w, TRUE)
    <3>1. ~InUse(pg)
        BY <2>2, <2>5
    <3>2. TrimmedTo(t, w, q, f.size)
        BY <1>1, <1>2, <2>5, Trims
    <3>3. g = [f EXCEPT !.state = u, !.at = i, !.done = TRUE]
        BY <1>2, <2>1, <2>5, <3>1 DEF SameStart, Trimming, c, i, t
    <3> HIDE DEF w
    <3>4. w \in States /\ ~w.failed /\ PageAt(w, q).size = f.size
        BY <1>1, <3>2 DEF TrimmedTo, ShapeBut
    <3>5. ~u.failed /\ u.page = w.page
        BY <3>4, RequireIs
    <3> HIDE DEF u
    <3>6. g.state = u /\ g.class = c /\ g.at = i /\ g.size = f.size
        BY <1>1, <2>5, <3>3 DEF Searches
    <3> QED BY <1>1, <1>2, <3>4, <3>5, <3>6 DEF Sound, PageAt
  <2> QED BY <2>3, <2>4, <2>5
<1>8. CASE ~f.done /\ pg.start # p /\ (InUse(pg) \/ ~(EndOverlaps(pg, p, f.size) \/ BeginOverlaps(pg, p)))
  <2>1. g = OtherStart(f, q, pg, p)
      BY <1>1, <1>3, <1>8
  <2>2. g.state = t /\ g.class = f.class /\ g.at = f.at
      BY <1>1, <1>8, <2>1 DEF OtherStart, Searches, t
  <2>3. CASE InUse(pg) /\ EndOverlaps(pg, p, f.size)
    <3>1. g.size = pg.start - p
        BY <1>1, <2>1, <2>3 DEF OtherStart, Searches
    <3>2. ASSUME f.at # 0 PROVE PageAt(t, <<f.class, f.at>>).size <= pg.start - p
      <4> DEFINE r == <<f.class, f.at>>
                 x == PageAt(t, r)
      <4>1. r # q /\ IsLockedPage(t, r) /\ x.start = p
          BY <1>4, <3>2
      <4>2. x.size \in Nat /\ p \in Nat
          BY <1>1, <4>1, VisitedIs
      <4>3. pg.start \notin LockSpan(x)
        <5>1. Settled(s, t)
            BY <1>8 DEF Found, FoundState, t
        <5> HIDE DEF r
        <5>2. IsLockedPage(s, r) /\ PageAt(s, r) = x /\ IsLockedPage(s, q) /\ PageAt(s, q) = pg
            BY <4>1, <5>1 DEF Settled, pg, t
        <5> QED BY <1>2, <4>1, <5>2 DEF Disjoint, Apart
      <4> HIDE DEF x
      <4>4. p < pg.start
          BY <2>3 DEF EndOverlaps
      <4>5. x.size <= pg.start - p
          BY <1>2, <4>1, <4>2, <4>3, <4>4 DEF LockSpan, Span
      <4> QED BY <4>5 DEF x
    <3> QED BY <1>1, <2>2, <3>1, <3>2 DEF Sound
  <2>4. CASE ~(InUse(pg) /\ EndOverlaps(pg, p, f.size))
    <3>1. g.size = f.size
        BY <1>1, <1>8, <2>1, <2>4 DEF OtherStart, Searches
    <3> QED BY <1>1, <1>4, <2>2, <3>1 DEF Sound
  <2> QED BY <2>3, <2>4
<1>9. CASE ~f.done /\ pg.start = p /\ f.class # c /\ ~InUse(pg)
  <2>1. g = SearchFreed(f, q)
      BY <1>1, <1>3, <1>9 DEF SameStart, SearchFreed, c, i
  <2> QED BY <1>6, <1>9, <2>1
<1>10. CASE ~f.done /\ pg.start # p /\ ~InUse(pg) /\ (EndOverlaps(pg, p, f.size) \/ BeginOverlaps(pg, p))
  <2>1. g = SearchFreed(f, q)
      BY <1>1, <1>3, <1>10 DEF OtherStart, SearchFreed
  <2> QED BY <1>6, <1>10, <2>1
<1> QED BY <1>5, <1>7, <1>8, <1>9, <1>10

(* The walk over the locked pages does not fail.                           *)
LEMMA SearchSound ==
  ASSUME NEW s, ShapeBut(s, {}), Disjoint(s), ~s.failed, NEW p \in Addr \ {0}, NEW n \in 1 .. BigSize, Fits(s, p, n)
  PROVE  Sound(SearchLocked(s, p, n))
<1> DEFINE order == LockedPages(s)
           N1 == Len(order)
           after == CHOOSE f : IsSearch(f, s, p, n, order, N1)
           W(k) == {q \in PageIds : \E j \in 1 .. k : order[j] = q}
           Left(k) == \A j \in 1 .. N1 : k < j => IsLockedPage(after[k].state, order[j])
           G == {k \in 0 .. N1 : Found(s, after[k], p, n, W(k)) /\ Sound(after[k]) /\ Left(k)}
<1>1. N1 \in Nat /\ DOMAIN order = 1 .. N1 /\ (\A q : On(q, order) <=> IsLockedPage(s, q)) /\ Once(order)
    BY LockedPagesAre
<1>2. IsSearch(after, s, p, n, order, N1)
    BY <1>1, SearchExists
<1>3. SearchLocked(s, p, n) = after[N1]
    BY DEF SearchLocked, IsSearch
<1> HIDE DEF after
<1>4. after[0] = NoneFound(s, n) /\ \A k \in 1 .. N1 : after[k] = Consider(after[k - 1], order[k], p)
  <2>1. 0 \in 0 .. N1 /\ \A k \in 1 .. N1 : k \in 0 .. N1 /\ k # 0
      BY <1>1
  <2> QED BY <1>2, <2>1 DEF IsSearch
<1>5. \A j \in 1 .. N1 : IsLockedPage(s, order[j]) /\ order[j] \in PageIds
    BY <1>1, VisitedIs DEF On
<1>6. n \in Nat
    BY Sizes
<1>7. 0 \in G
  <2>1. W(0) = {} /\ 0 \in 0 .. N1
      BY <1>1
  <2>2. Found(s, after[0], p, n, {})
      BY <1>4, StartsSearch
  <2>3. after[0].state = s /\ after[0].at = 0
      BY <1>4 DEF NoneFound
  <2>4. Left(0) /\ Sound(after[0])
      BY <1>5, <2>3 DEF Sound
  <2> QED BY <2>1, <2>2, <2>4
<1>8. ASSUME NEW k \in 0 .. N1, k # N1, k \in G PROVE k + 1 \in G
  <2> DEFINE f == after[k]
             g == after[k + 1]
             q == order[k + 1]
             V == W(k)
  <2>1. k + 1 \in 1 .. N1 /\ k + 1 \in 0 .. N1 /\ k + 1 - 1 = k /\ k \in Nat /\ k < k + 1
    <3> HIDE DEF G, N1
    <3> QED BY <1>1, <1>8
  <2>2. g = Consider(f, q, p)
      BY <1>4, <2>1
  <2>3. Found(s, f, p, n, V) /\ Sound(f) /\ Left(k) /\ IsLockedPage(f.state, q) /\ q \in PageIds
      BY <1>5, <1>8, <2>1
  <2>4. q \notin V
    <3> SUFFICES ASSUME NEW j \in 1 .. k, order[j] = q PROVE FALSE
        OBVIOUS
    <3>1. j \in 1 .. N1 /\ j # k + 1
      <4> HIDE DEF N1, q
      <4> QED BY <1>1, <2>1
    <3> QED BY <1>1, <2>1, <3>1 DEF Once
  <2>5. W(k + 1) = V \cup {q}
    <3>1. \A j : j \in 1 .. k + 1 <=> j \in 1 .. k \/ j = k + 1
        BY <2>1
    <3> QED BY <2>3, <3>1
  <2>6. \A j \in 1 .. N1 : k + 1 < j => k < j /\ order[j] # q
    <3> SUFFICES ASSUME NEW j \in 1 .. N1, k + 1 < j PROVE k < j /\ order[j] # q
        OBVIOUS
    <3>1. k < j /\ j # k + 1
      <4> HIDE DEF N1, q
      <4> QED BY <1>1, <2>1
    <3> QED BY <1>1, <2>1, <3>1 DEF Once
  <2> HIDE DEF V, f, g, q
  <2>10. Found(s, f, p, n, V) /\ Sound(f) /\ IsLockedPage(f.state, q)
      BY <2>3
  <2>7. Considered(s, f, g, p, n, V, q)
      BY <1>6, <2>2, <2>4, <2>10, Considers
  <2>11. Sound(g)
      BY <1>6, <2>2, <2>4, <2>10, ConsidersSound
  <2>8. Left(k + 1)
    <3> SUFFICES ASSUME NEW j \in 1 .. N1, k + 1 < j PROVE IsLockedPage(g.state, order[j])
        BY DEF g
    <3>1. k < j /\ order[j] # q
        BY <2>6
    <3>2. IsLockedPage(f.state, order[j])
        BY <2>3, <3>1 DEF f
    <3> QED BY <2>7, <3>1, <3>2 DEF Considered
  <2>9. Found(s, g, p, n, W(k + 1))
      BY <2>5, <2>7 DEF Considered
  <2> HIDE DEF W, Left
  <2> QED BY <2>1, <2>8, <2>9, <2>11 DEF g
<1>9. N1 \in 0 .. N1 /\ N1 \in Nat
    BY <1>1
<1> HIDE DEF G, N1, order
<1>10. \A k \in 0 .. N1 : k # N1 /\ k \in G => k + 1 \in G
    BY <1>8
<1>11. \A k \in 0 .. N1 : k \in G
    BY <1>7, <1>9, <1>10, UpTo
<1>12. N1 \in G
    BY <1>9, <1>11
<1> QED BY <1>3, <1>12 DEF G

(* Nor do the assertion after it and the move to a smaller page.           *)
LEMMA SearchSucceeds ==
  ASSUME NEW s, ShapeBut(s, {}), Disjoint(s), ~s.failed, NEW p \in Addr \ {0}, NEW n \in 1 .. BigSize, Fits(s, p, n),
         NEW f, f = MoveToSmaller(CheckedSearch(SearchLocked(s, p, n)))
  PROVE  ~f.state.failed
<1> DEFINE e == SearchLocked(s, p, n)
           q == <<e.class, e.at>>
           g == CheckedSearch(e)
<1>1. n \in Nat /\ Found(s, e, p, n, Every(s)) /\ Sound(e)
    BY SearchesAll, SearchSound, Sizes
<1> HIDE DEF e
<1>2. Ready(s, g, p, n)
    BY <1>1, Checks
<1>3. ShapeBut(e.state, {}) /\ e.state \in States /\ ~e.state.failed /\ e \in Searches
    BY <1>1 DEF Found, FoundState, FoundSize, Sound, ShapeBut
<1>4. e.at # 0 => ~e.fix /\ e.size >= PageOf(e.state, e.class, e.at).size
  <2> SUFFICES ASSUME e.at # 0 PROVE ~e.fix /\ e.size >= PageAt(e.state, q).size
      BY DEF PageOf, PageAt
  <2>1. IsLockedPage(e.state, q) /\ PageAt(e.state, q).start = p /\ PageAt(e.state, q).size <= e.size
      BY <1>1 DEF Found, FoundPages, Sound
  <2> HIDE DEF q
  <2>2. PageAt(e.state, q).size \in Nat /\ e.size \in Nat
      BY <1>3, <2>1, VisitedIs DEF Searches
  <2>3. IsLockedPage(s, q) /\ PageAt(s, q).start = p
      BY <1>1, <2>1 DEF Found, FoundState, Narrower
  <2>4. ASSUME e.fix PROVE FALSE
    <3>1. PICK r : IsLockedPage(s, r) /\ BeginOverlaps(PageAt(s, r), p)
        BY <1>1, <2>4 DEF Found, FoundFix
    <3>2. p \in LockSpan(PageAt(s, q))
        BY <2>3, VisitedIs
    <3>3. p \in LockSpan(PageAt(s, r)) /\ r # q
      <4> DEFINE x == PageAt(s, r)
      <4>1. x.start \in Nat /\ x.size \in Nat /\ p \in Nat /\ p > x.start /\ p < x.start + x.size
          BY <3>1, VisitedIs, Sizes DEF BeginOverlaps
      <4>2. x.start # p
          BY <4>1
      <4>3. p \in LockSpan(x)
        <5> HIDE DEF x
        <5> QED BY <4>1 DEF LockSpan, Span
      <4> QED BY <2>3, <4>2, <4>3
    <3> QED BY <2>3, <3>1, <3>2, <3>3 DEF Disjoint, Apart
  <2> QED BY <2>1, <2>2, <2>4
<1>5. ~g.state.failed
  <2> DEFINE b == e.at = 0 \/ (~e.fix /\ e.size >= PageOf(e.state, e.class, e.at).size)
  <2>1. g = [e EXCEPT !.state = Require(e.state, b)]
      BY DEF CheckedSearch
  <2>2. b
      BY <1>4
  <2> HIDE DEF b, g
  <2>3. ~Require(e.state, b).failed
      BY <1>3, <2>2, RequireIs
  <2> QED BY <1>3, <2>1, <2>3 DEF Searches
<1>6. f = MoveToSmaller(g)
    BY DEF e
<1> HIDE DEF g
<1>7. ShapeBut(g.state, {}) /\ g \in Searches /\ ReadyPages(g, p)
    BY <1>2, <1>5 DEF Ready, ReadyState, FoundSize
<1> DEFINE u == FreeLockedPage(g.state, "big", g.at)
<1>8. f.state = g.state \/ (f.state = u /\ g.at # 0 /\ g.class = "big")
    BY <1>6, <1>7 DEF MoveToSmaller, Searches
<1> HIDE DEF u
<1>9. ASSUME g.at # 0, g.class = "big" PROVE ~u.failed
  <2>1. IsLockedPage(g.state, <<"big", g.at>>)
      BY <1>7, <1>9 DEF ReadyPages
  <2>2. "big" \in Class /\ g.at \in Pages1("big") /\ IsLocked(g.state, "big", g.at)
      BY <2>1 DEF IsLockedPage
  <2>3. FreedAny(g.state, u, "big", g.at)
      BY <1>7, <2>2, FreesAny DEF u
  <2> QED BY <1>5, <2>3 DEF FreedAny
<1> QED BY <1>5, <1>8, <1>9


(* A page that was found and filled is given out when the lock fits in it. *)
LEMMA GivesLock ==
  ASSUME NEW w, ShapeBut(w, {}), ~w.failed, NEW c, NEW i, IsLockedPage(w, <<c, i>>), NEW p, NEW k, k <= PageSize[c],
         NEW ro \in BOOLEAN
  PROVE  ~GiveLock(w, c, i, p, k, ro).state.failed
<1> DEFINE t == Require(CountLock(w, c, i, ro), TRUE)
<1>1. c \in Class /\ i \in Pages1(c) /\ IsLocked(w, c, i)
    BY DEF IsLockedPage
<1>2. GiveLock(w, c, i, p, k, ro).state = t
    BY DEF GiveLock
<1> HIDE DEF t
<1>3. CountedAs(w, t, <<c, i>>, ro, TRUE)
  <2>1. t = Require(CountLock(w, c, i, ro), TRUE)
      BY DEF t
  <2> QED BY <1>1, <2>1, Counts
<1> QED BY <1>2, <1>3 DEF CountedAs

(* A big page that is not locked.                                          *)
BigToSpare(s) == \E i \in Pages1("big") : ~IsLocked(s, "big", i)
(* What is not locked is on the free list.                                 *)
LEMMA SparesBig ==
  ASSUME NEW s, ShapeBut(s, {}), BigToSpare(s)
  PROVE  s.free["big"] # <<>>
<1>1. PICK i \in Pages1("big") : ~IsLocked(s, "big", i)
    BY DEF BigToSpare
<1>2. Split(s.free["big"], s.locked["big"], PageCount["big"])
    BY Sizes DEF ShapeBut
<1>3. On(i, s.free["big"])
    BY <1>1, <1>2 DEF Split, IsLocked, Pages1
<1> QED BY <1>3 DEF On

(* While a big page is left every lock gets a page.                        *)
LEMMA PageLeft ==
  ASSUME NEW s, NEW f, NEW p \in Addr \ {0}, NEW n \in 1 .. BigSize, Ready(s, f, p, n), ~f.state.failed, f.at = 0,
         f.state.free["big"] # <<>>, PageSize["medium"] < BigSize
  PROVE  ~PageForLock(f, p).state.failed
<1> DEFINE t == f.state
           larger == {c \in {"medium", "big"} : PageSize[f.class] < PageSize[c] /\ t.free[c] # <<>>}
           c == IF t.free[f.class] # <<>> \/ f.old # 0 \/ larger = {} THEN f.class
                ELSE IF "medium" \in larger THEN "medium" ELSE "big"
           got == PageForLock(f, p)
<1> SUFFICES ~got.state.failed
    OBVIOUS
<1>1. t.free[c] # <<>> => got = Fresh(LockPage(t, c, p, f.size), c)
    BY DEF PageForLock
<1>2. t.free[c] = <<>> /\ f.old # 0 => got = Reused(t, c, f.old)
    BY DEF PageForLock
<1> HIDE DEF got
<1>3. /\ ShapeBut(t, {}) /\ ~t.failed /\ f \in Searches /\ f.size \in 1 .. n /\ f.size <= PageSize[f.class]
      /\ ReadyPages(f, p)
    BY DEF Ready, ReadyState, FoundSize
<1>4. f.class \in Class /\ f.size \in Nat /\ f.size \in 1 .. BigSize /\ f.old \in Nat
    BY <1>3, Sizes DEF Searches
<1>5. c \in Class /\ f.size <= PageSize[c] /\ (c = f.class \/ t.free[c] # <<>>)
  <2>1. c = f.class \/ c \in larger
      OBVIOUS
  <2>2. ASSUME c \in larger PROVE c \in Class /\ f.size <= PageSize[c] /\ t.free[c] # <<>>
    <3>1. c \in Class /\ PageSize[f.class] < PageSize[c] /\ t.free[c] # <<>>
        BY <2>2 DEF Class
    <3> QED BY <1>3, <1>4, <3>1, Sizes
  <2> HIDE DEF c, larger
  <2> QED BY <1>3, <1>4, <2>1, <2>2
<1>6. t.free[c] # <<>> \/ (f.old # 0 /\ c = f.class /\ t.free[f.class] = <<>>)
  <2>1. f.class # "big" => PageSize[f.class] < PageSize["big"]
      BY <1>4, SizesAssumption, Sizes DEF Class
  <2>2. f.class = "big" \/ "big" \in larger
      BY <1>4, <2>1
  <2> QED BY <2>2
<1> HIDE DEF c, larger
<1>7. CASE t.free[c] # <<>>
  <2>1. got = Fresh(LockPage(t, c, p, f.size), c)
      BY <1>1, <1>7
  <2>2. GotPage(t, got.state, <<c, got.at>>, p, f.size, got.fresh)
      BY <1>3, <1>4, <1>5, <1>7, <2>1, GetsFresh
  <2> QED BY <2>2 DEF GotPage
<1>8. CASE t.free[c] = <<>> /\ f.old # 0 /\ c = f.class
  <2>1. got = Reused(t, c, f.old)
      BY <1>2, <1>8
  <2>2. IsLockedPage(t, <<c, f.old>>) /\ PageAt(t, <<c, f.old>>).locks = 0
      BY <1>3, <1>8 DEF ReadyPages
  <2>3. f.old \in Pages1(c) /\ IsLocked(t, c, f.old) /\ t.page[c][f.old].locks = 0
      BY <2>2 DEF IsLockedPage, PageAt
  <2> DEFINE i == f.old
             k == f.size
  <2>4. ShapeBut(t, {}) /\ ~t.failed /\ k \in Nat /\ k <= PageSize[c] /\ got = Reused(t, c, i) /\ c \in Class
        /\ i \in Pages1(c) /\ IsLocked(t, c, i) /\ t.page[c][i].locks = 0
      BY <1>3, <1>4, <1>5, <2>1, <2>3
  <2> HIDE DEF t, i, k
  <2>5. GotPage(t, got.state, <<c, got.at>>, p, k, got.fresh)
      BY <2>4, Reuses
  <2> QED BY <2>5 DEF GotPage
<1> QED BY <1>6, <1>7, <1>8

(* makeDataLock runs into none of its assertions.                          *)
LEMMA DataSucceeds ==
  ASSUME NEW s, ShapeBut(s, {}), Disjoint(s), ~s.failed, NEW p \in Addr \ {0}, NEW n \in 1 .. BigSize, Span(p, n) \subseteq Addr,
         Fits(s, p, n), BigToSpare(s), PageSize["medium"] < BigSize, NEW ro \in BOOLEAN, NEW r, r = MakeDataLock(s, p, n, ro)
  PROVE  ~r.state.failed
<1> DEFINE f == MoveToSmaller(CheckedSearch(SearchLocked(s, p, n)))
           e == f.state
           c == f.class
           k == f.size
           got == PageForLock(f, p)
           u == got.state
<1>1. Ready(s, f, p, n) /\ ~e.failed
    BY SearchReady, SearchSucceeds
<1>2. r = LockFound(f, p, ro)
    BY DEF MakeDataLock
<1> HIDE DEF f
<1>3. /\ ShapeBut(e, {}) /\ SameLocks(s, e) /\ \A q : IsLockedPage(e, q) => IsLockedPage(s, q)
      /\ f \in Searches /\ k \in 1 .. n /\ k <= PageSize[c] /\ ReadyPages(f, p)
    BY <1>1 DEF Ready, ReadyState, FoundSize
<1>4. c \in Class /\ k \in Nat /\ f.fix \in BOOLEAN /\ f.at \in Nat /\ n \in Nat
    BY <1>3, Sizes DEF Searches
<1>5. Span(p, k) \subseteq Addr
  <2>1. k \in Nat /\ n \in Nat /\ k <= n /\ p \in Nat
      BY <1>3, <1>4, Sizes
  <2>2. Span(p, k) \subseteq Span(p, n)
    <3> HIDE DEF k
    <3> QED BY <2>1 DEF Span
  <2> QED BY <2>2
<1>6. CASE f.at = 0
  <2>1. e.free["big"] # <<>>
    <3>1. PICK i \in Pages1("big") : ~IsLocked(s, "big", i)
        BY DEF BigToSpare
    <3>2. "big" \in Class
        BY Sizes
    <3>3. ~IsLocked(e, "big", i)
      <4> SUFFICES ASSUME IsLocked(e, "big", i) PROVE FALSE
          OBVIOUS
      <4>1. IsLockedPage(e, <<"big", i>>)
          BY <3>2 DEF IsLockedPage
      <4>2. IsLockedPage(s, <<"big", i>>)
          BY <1>3, <4>1
      <4> QED BY <3>1, <4>2 DEF IsLockedPage
    <3> QED BY <1>3, <3>3, SparesBig DEF BigToSpare
  <2>2. ~u.failed
      BY <1>1, <1>6, <2>1, PageLeft
  <2>3. GotFor(e, got, p, k)
      BY <1>1, <1>6, Gets
  <2> DEFINE d == got.class
             i == got.at
             q == <<d, i>>
             w == FillLock(u, d, i, p, k, got.fresh, f.fix)
  <2>4. GotPage(e, u, q, p, k, got.fresh) /\ d \in Class /\ got.fresh \in BOOLEAN
      BY <2>2, <2>3 DEF GotFor
  <2>5. r = GiveLock(w, d, i, p, k, ro)
      BY <1>1, <1>2, <1>6, <2>2 DEF LockFound, NewLock
  <2>6. ShapeBut(u, {q}) /\ IsLockedPage(u, q) /\ k <= PageSize[d] /\ GotBytes(u, q, p, k, got.fresh)
      BY <2>4 DEF GotPage
  <2>7. d \in Class /\ i \in Pages1(d)
      BY <2>6 DEF IsLockedPage
  <2>8. k \in 1 .. PageSize[d]
    <3>1. PageSize[d] \in Nat
        BY <2>4, Sizes
    <3> QED BY <1>3, <1>4, <2>6, <3>1
  <2>9. FilledAs(u, w, q, p, k, got.fresh, f.fix)
    <3> HIDE DEF u, d, i, k
    <3> QED BY <1>4, <1>5, <2>4, <2>6, <2>7, <2>8, Fills
  <2> HIDE DEF w, q
  <2>10. Prepared(s, w, q, p, k, n, f.fix)
    <3> HIDE DEF u, got
    <3> QED BY <1>1, <1>6, <2>4, <2>9, PreparesNew
  <2>11. ShapeBut(w, {}) /\ ~w.failed /\ IsLockedPage(w, <<d, i>>)
      BY <2>10 DEF Prepared, PreparedPages, q
  <2> HIDE DEF d, i, k
  <2> QED BY <2>5, <2>6, <2>11, GivesLock
<1>7. CASE f.at # 0
  <2> DEFINE i == f.at
             w == GrownLock(e, c, i, p, k)
  <2>1. r = GiveLock(w, c, i, p, k, ro)
      BY <1>1, <1>2, <1>7 DEF LockFound
  <2>2. Prepared(s, w, <<c, i>>, p, k, n, f.fix)
      BY <1>1, <1>7, PreparesGrown
  <2> HIDE DEF w, c, i, k
  <2>3. ShapeBut(w, {}) /\ ~w.failed /\ IsLockedPage(w, <<c, i>>)
      BY <2>2 DEF Prepared, PreparedPages
  <2> QED BY <1>3, <2>1, <2>3, GivesLock
<1> QED BY <1>6, <1>7

(* Of as many pages as there are handles one is not in use while a handle  *)
(* is free.                                                                *)
LEMMA PageToSpare ==
  ASSUME FewHandles, NEW s, NEW H, Core(s, H), NEW h \in Handles, H[h] = NoLock,
         NEW S, IsFiniteSet(S), Cardinality(Handles) <= Cardinality(S), S \subseteq PageIds
  PROVE  \E q \in S : PageAt(s, q).locks = 0
<1> SUFFICES ASSUME \A q \in S : PageAt(s, q).locks # 0 PROVE FALSE
    OBVIOUS
<1> DEFINE T == Handles \ {h}
           owner == [q \in S |-> CHOOSE g : g \in HeldOn(H, q)]
<1>1. ASSUME NEW q \in S PROVE owner[q] \in HeldOn(H, q)
  <2>1. PICK c \in Class : q \in {c} \X Pages1(c)
      BY DEF PageIds
  <2>2. q = <<c, q[2]>> /\ q[2] \in Pages1(c)
      BY <2>1
  <2>3. Cardinality(HeldOn(H, q)) # 0
      BY <2>2 DEF Core, CountedIn, PageAt
  <2>4. HeldOn(H, q) # {}
      BY <2>3, FS_EmptySet
  <2> QED BY <2>4
<1>2. owner \in [S -> T]
    BY <1>1 DEF HeldOn
<1>3. IsFiniteSet(T) /\ Cardinality(T) < Cardinality(S)
  <2>1. IsFiniteSet(Handles) /\ IsFiniteSet(T) /\ Cardinality(T) = Cardinality(Handles) - 1
      BY FS_RemoveElement DEF FewHandles
  <2>2. Cardinality(Handles) \in Nat /\ Cardinality(S) \in Nat
      BY <2>1, FS_CardinalityType
  <2> QED BY <2>1, <2>2
<1> HIDE DEF owner, T
<1>4. \E x, y \in S : x # y /\ owner[x] = owner[y]
    BY <1>2, <1>3, FS_PigeonHole
<1>5. PICK x \in S, y \in S : x # y /\ owner[x] = owner[y]
    BY <1>4
<1> QED BY <1>1, <1>5 DEF HeldOn

(* A free handle leaves a big page that is not locked.                     *)
LEMMA BigPageToSpare ==
  ASSUME FewHandles, Cardinality(Handles) <= PageCount["big"], NEW s, NEW H, Core(s, H), NEW h \in Handles, H[h] = NoLock
  PROVE  BigToSpare(s)
<1> DEFINE S == {"big"} \X Pages1("big")
<1>1. PageCount["big"] \in Nat /\ "big" \in Class
    BY Sizes
<1>2. IsFiniteSet(Pages1("big")) /\ Cardinality(Pages1("big")) = PageCount["big"]
    BY <1>1, FS_Interval DEF Pages1
<1>3. IsFiniteSet({"big"}) /\ Cardinality({"big"}) = 1
    BY FS_Singleton
<1>4. IsFiniteSet(S) /\ Cardinality(S) = 1 * PageCount["big"]
    BY <1>2, <1>3, FS_Product
<1>5. Cardinality(Handles) <= Cardinality(S) /\ S \subseteq PageIds
    BY <1>1, <1>4 DEF PageIds
<1> HIDE DEF S
<1>6. PICK q \in S : PageAt(s, q).locks = 0
    BY <1>4, <1>5, PageToSpare
<1>7. q[2] \in Pages1("big") /\ s.page["big"][q[2]].locks = 0
    BY <1>6 DEF S, PageAt
<1> QED BY <1>7 DEF Core, BigInUse, BigToSpare

(* Reading and writing do not fail while a big page is free.               *)
LEMMA QuietSucceeds ==
  ASSUME ShapeInv, HeldOK, Quiet
  PROVE  failed' = failed
<1>1. CASE CarefulIO
    BY <1>1, StepsIO DEF CarefulIO, RawIO, State
<1>2. CASE \E h \in Handles, a \in Addr : ReadLocked(h, a) \/ \E d \in Blocks(a, 1) : WriteLocked(h, a, d)
    BY <1>2 DEF ReadLocked, WriteLocked, allocVars
<1>3. CASE UNCHANGED lvars
    BY <1>3 DEF lvars, vars, allocVars
<1> QED BY <1>1, <1>2, <1>3 DEF Quiet

(* Nor does the release of a lock.                                         *)
LEMMA ReleaseSucceeds ==
  ASSUME FewHandles, Core(State, held), NEW h \in Handles, Release(h)
  PROVE  failed' = failed
<1>1. ShapeInv
    BY DEF Core, ShapeInv
<1>2. ReleasedAs(State, State', held[h].ptr) /\ held[h] # NoLock
    BY <1>1, StepsRelease DEF Release
<1>3. ReleasedAt(State, State', held[h].page)
    BY <1>2, DropsCore
<1> QED BY <1>3 DEF ReleasedAt, State

(* As many big pages as there are handles, and no smaller page as large.   *)
EnoughBig == Cardinality(Handles) <= PageCount["big"] /\ PageSize["medium"] < PageSize["big"]
(* Then no new lock fails.                                                 *)
LEMMA TakeSucceeds ==
  ASSUME FewHandles, EnoughBig, ExactInv, NEW h \in Handles, NEW p \in Addr, NEW n, NEW ro \in BOOLEAN,
         EndsBeyond(p, n), DataLock(h, p, n, ro)
  PROVE  ~failed'
<1> DEFINE s == State
           r == MakeDataLock(s, p, n, ro)
<1>1. ShapeBut(s, {}) /\ ~s.failed /\ p \in Addr \ {0} /\ n \in 1 .. BigSize /\ Span(p, n) \subseteq Addr
      /\ Becomes(r.state) /\ held[h] = NoLock
    BY StateIs DEF ExactInv, Core, DataLock, TakeLock, Running, IsBlock
<1>2. Core(s, held) /\ Disjoint(s)
    BY DEF ExactInv, Core
<1>3. Fits(s, p, n)
    BY <1>1, EndsBeyondPages
<1>4. BigToSpare(s)
    BY <1>1, <1>2, BigPageToSpare DEF EnoughBig
<1>5. PageSize["medium"] < BigSize
    BY DEF EnoughBig, BigSize
<1>6. ~r.state.failed
  <2>1. r = MakeDataLock(s, p, n, ro)
      OBVIOUS
  <2> HIDE DEF s, r
  <2> QED BY <1>1, <1>2, <1>3, <1>4, <1>5, <2>1, DataSucceeds
<1> QED BY <1>1, <1>6 DEF Becomes

(* A program that uses -> on blocks that overlap as EndsBeyond allows and  *)
(* that holds at most as many locks as there are big pages never runs into *)
(* an assertion of the allocator: each lock finds its page, no release     *)
(* meets a page without locks, and input and output always find a big page *)
(* to swap.                                                                *)
THEOREM OverlappingRuns ==
  ASSUME FewHandles, EnoughBig
  PROVE  SpecOverlapping => []NeverStops
<1> DEFINE I == ExactInv /\ ~failed
<1>1. InitLocks => I
    BY StartsCore DEF ExactInv, Exact, InitLocks, Init
<1>2. ASSUME I, [NextOverlapping]_lvars PROVE I'
  <2>1. ExactInv'
      BY <1>2, KeepsExact
  <2>2. ShapeInv /\ HeldOK /\ Core(State, held)
      BY <1>2 DEF ExactInv, Core, ShapeInv, HeldOK, Locks
  <2>3. CASE Quiet
      BY <1>2, <2>1, <2>2, <2>3, QuietSucceeds
  <2>4. ASSUME NEW h \in Handles, Release(h) PROVE I'
      BY <1>2, <2>1, <2>2, <2>4, ReleaseSucceeds
  <2>5. ASSUME NEW h \in Handles, NEW p \in Addr, NEW n \in LockSizes, NEW ro \in BOOLEAN,
               EndsBeyond(p, n), DataLock(h, p, n, ro)
        PROVE  I'
      BY <1>2, <2>1, <2>5, TakeSucceeds
  <2> QED BY <1>2, <2>3, <2>4, <2>5, StepsKinds
<1>3. I => NeverStops
    BY DEF NeverStops
<1> QED BY <1>1, <1>2, <1>3, PTL DEF SpecOverlapping


-----------------------------------------------------------------------------
(* As many pages, of all classes, as there are handles.                    *)
EnoughPages == Cardinality(Handles) <= PageCount["small"] + PageCount["medium"] + PageCount["big"]

(* The pages of a class can be counted.                                    *)
LEMMA ClassPages ==
  ASSUME NEW c \in Class
  PROVE  /\ PageCount[c] \in Nat
         /\ IsFiniteSet({c} \X Pages1(c)) /\ Cardinality({c} \X Pages1(c)) = PageCount[c]
<1>1. PageCount[c] \in Nat
    BY Sizes
<1>2. IsFiniteSet(Pages1(c)) /\ Cardinality(Pages1(c)) = PageCount[c]
    BY <1>1, FS_Interval DEF Pages1
<1>3. IsFiniteSet({c}) /\ Cardinality({c}) = 1
    BY FS_Singleton
<1>4. IsFiniteSet({c} \X Pages1(c)) /\ Cardinality({c} \X Pages1(c)) = 1 * PageCount[c]
    BY <1>2, <1>3, FS_Product
<1> QED BY <1>1, <1>4

(* So can all pages.                                                       *)
LEMMA AllPages ==
  IsFiniteSet(PageIds) /\ Cardinality(PageIds) = PageCount["small"] + PageCount["medium"] + PageCount["big"]
<1> DEFINE S == {"small"} \X Pages1("small")
           T == {"medium"} \X Pages1("medium")
           U == {"big"} \X Pages1("big")
<1>1. "small" \in Class /\ "medium" \in Class /\ "big" \in Class
    BY DEF Class
<1>2. /\ IsFiniteSet(S) /\ Cardinality(S) = PageCount["small"] /\ PageCount["small"] \in Nat
      /\ IsFiniteSet(T) /\ Cardinality(T) = PageCount["medium"] /\ PageCount["medium"] \in Nat
      /\ IsFiniteSet(U) /\ Cardinality(U) = PageCount["big"] /\ PageCount["big"] \in Nat
    BY <1>1, ClassPages
<1>3. S \cap T = {} /\ (S \cup T) \cap U = {}
    OBVIOUS
<1>4. PageIds = (S \cup T) \cup U
    BY DEF PageIds, Class
<1> HIDE DEF S, T, U
<1>5. Cardinality({}) = 0
    BY FS_EmptySet
<1>6. IsFiniteSet(S \cup T) /\ Cardinality(S \cup T) = Cardinality(S) + Cardinality(T)
  <2>1. IsFiniteSet(S \cup T) /\ Cardinality(S \cup T) = Cardinality(S) + Cardinality(T) - Cardinality(S \cap T)
      BY <1>2, FS_Union
  <2>2. Cardinality(S \cap T) = 0
      BY <1>3, <1>5
  <2> QED BY <1>2, <2>1, <2>2
<1>7. IsFiniteSet(PageIds) /\ Cardinality(PageIds) = Cardinality(S \cup T) + Cardinality(U)
  <2>1. /\ IsFiniteSet((S \cup T) \cup U)
        /\ Cardinality((S \cup T) \cup U) = Cardinality(S \cup T) + Cardinality(U) - Cardinality((S \cup T) \cap U)
      BY <1>2, <1>6, FS_Union
  <2>2. Cardinality((S \cup T) \cap U) = 0
      BY <1>3, <1>5
  <2>3. Cardinality(S \cup T) \in Nat
      BY <1>2, <1>6
  <2> QED BY <1>2, <1>4, <2>1, <2>2, <2>3
<1> QED BY <1>2, <1>6, <1>7

(* A search that found no page the lock begins in has one for it, when one *)
(* page is not in use: the page is free, or on the way and was noted.      *)
LEMMA FindsClass ==
  ASSUME NEW s, ShapeBut(s, {}), NEW f, NEW p, NEW n, Fit(s, f, p, n, Every(s)), f.at = <<>>,
         NEW q \in PageIds, PageAt(s, q).locks = 0
  PROVE  FittingClass(f) # 0
<1> DEFINE z == f.state
           usable == {j \in DOMAIN ClassOrder : z.free[ClassOrder[j]] # <<>> \/ f.unused[ClassOrder[j]] # 0}
           fitting == {j \in usable : f.size <= PageSize[ClassOrder[j]]}
<1>1. Settled(s, z) /\ ShapeBut(z, {})
    BY DEF Fit, FitState, Settled
<1>2. PICK c \in Class : q \in {c} \X Pages1(c)
    BY DEF PageIds
<1>3. q = <<c, q[2]>> /\ q[1] = c /\ q[2] \in Pages1(c)
    BY <1>2
<1>4. z.free[c] # <<>> \/ f.unused[c] # 0
  <2>1. CASE IsLockedPage(z, q)
    <3>1. IsLockedPage(s, q) /\ PageAt(z, q) = PageAt(s, q)
        BY <1>1, <2>1 DEF Settled
    <3>2. q \in Every(s)
        BY <3>1 DEF Every
    <3>3. PageAt(z, q).locks = 0
        BY <3>1
    <3> QED BY <1>3, <2>1, <3>2, <3>3 DEF Fit, FitSpotted
  <2>2. CASE ~IsLockedPage(z, q)
    <3>1. Split(z.free[c], z.locked[c], PageCount[c])
        BY <1>1 DEF ShapeBut
    <3>2. On(q[2], z.free[c]) \/ On(q[2], z.locked[c])
        BY <1>3, <3>1 DEF Split, Pages1
    <3>3. ~On(q[2], z.locked[c])
        BY <1>3, <2>2 DEF IsLockedPage, IsLocked
    <3> QED BY <3>2, <3>3 DEF On
  <2> QED BY <2>1, <2>2
<1>5. DOMAIN ClassOrder = 1 .. 3 /\ \E j \in 1 .. 3 : ClassOrder[j] = c
    BY DEF ClassOrder, Class
<1>6. usable # {} /\ usable \subseteq 1 .. 3 /\ fitting \subseteq 1 .. 3
    BY <1>4, <1>5
<1>7. FittingClass(f) = IF fitting # {} THEN Max(fitting) ELSE IF usable # {} THEN Max(usable) ELSE 0
    BY DEF FittingClass
<1> HIDE DEF usable, fitting
<1>8. \A S : S \subseteq 1 .. 3 /\ S # {} => Max(S) \in S
  <2>1. 3 \in Nat
      OBVIOUS
  <2> QED BY <2>1, MaxIsGreatest
<1>9. \A x : x \in 1 .. 3 => x # 0
    OBVIOUS
<1> QED BY <1>6, <1>7, <1>8, <1>9


(* Then no new lock of makeFittingLock() fails.                            *)
LEMMA FittingSucceeds ==
  ASSUME FewHandles, EnoughPages, Core(State, held), NEW h \in Handles, NEW p \in Addr, NEW n, NEW ro \in BOOLEAN,
         FittingLock(h, p, n, ro)
  PROVE  ~failed'
<1> DEFINE s == State
           r == MakeFittingLock(s, p, n, ro)
           f == SearchFitting(s, p, n)
<1>1. ShapeBut(s, {}) /\ ~s.failed /\ p \in Addr \ {0} /\ n \in 1 .. BigSize /\ Span(p, n) \subseteq Addr
      /\ Becomes(r.state) /\ held[h] = NoLock
    BY StateIs DEF Core, FittingLock, TakeLock, Running, IsBlock
<1>2. PICK q \in PageIds : PageAt(s, q).locks = 0
  <2>1. PageIds \subseteq PageIds
      OBVIOUS
  <2> QED BY <1>1, <2>1, AllPages, PageToSpare DEF EnoughPages
<1>3. r = MakeFittingLock(s, p, n, ro) /\ f = SearchFitting(s, p, n) /\ Core(s, held)
    OBVIOUS
<1> HIDE DEF s, r, f
<1>4. /\ MadeFit(s, r.state, r.lock, p, n, ro)
      /\ r.lock = NoLock => f.at = <<>> /\ FittingClass(f) = 0
    BY <1>1, <1>3, MakesFit
<1>5. Fit(s, f, p, n, Every(s))
    BY <1>1, <1>3, FitsAll
<1>6. r.lock # NoLock
    BY <1>1, <1>2, <1>4, <1>5, FindsClass
<1>7. ~r.state.failed
    BY <1>4, <1>6 DEF MadeFit
<1> QED BY <1>1, <1>7 DEF Becomes

(* A program that uses VPtrLock only, on any blocks, and that holds at     *)
(* most as many locks as there are pages never runs into an assertion.     *)
THEOREM FittingRuns ==
  ASSUME FewHandles, EnoughPages
  PROVE  SpecFitting => []NeverStops
<1> DEFINE I == WithinInv /\ ~failed
<1>1. InitLocks => I
    BY StartsCore DEF WithinInv, Within, InitLocks, Init
<1>2. ASSUME I, [NextFitting]_lvars PROVE I'
  <2>1. WithinInv'
      BY <1>2, KeepsWithin
  <2>2. ShapeInv /\ HeldOK /\ Core(State, held)
      BY <1>2 DEF WithinInv, Core, ShapeInv, HeldOK, Locks
  <2>3. CASE Quiet
      BY <1>2, <2>1, <2>2, <2>3, QuietSucceeds
  <2>4. ASSUME NEW h \in Handles, Release(h) PROVE I'
      BY <1>2, <2>1, <2>2, <2>4, ReleaseSucceeds
  <2>5. ASSUME NEW h \in Handles, NEW p \in Addr, NEW n \in LockSizes, NEW ro \in BOOLEAN, FittingLock(h, p, n, ro)
        PROVE  I'
      BY <2>1, <2>2, <2>5, FittingSucceeds
  <2> QED BY <1>2, <2>3, <2>4, <2>5, StepsKinds
<1>3. I => NeverStops
    BY DEF NeverStops
<1> QED BY <1>1, <1>2, <1>3, PTL DEF SpecFitting

=============================================================================
