-------------------------- MODULE COverloadsProofs --------------------------
(***************************************************************************)
(* Proofs about COverloads, for any memory, page size and sizes of locks.  *)
(* The lemmas join two pieces of each function to one; the invariant says  *)
(* how far a call has come.                                                *)
(***************************************************************************)
EXTENDS COverloads, TLAPS, WellFoundedInduction

Bytes == [Addr -> Val]

-----------------------------------------------------------------------------
(* A nonempty set of naturals has a least element. *)
LEMMA Least ==
  ASSUME NEW S \in SUBSET Nat, S # {}
  PROVE  \E x \in S : \A y \in S : x <= y
<1>1. PICK x \in S : \A y \in S : ~(<<y, x>> \in OpToRel(<, Nat))
    BY NatLessThanWellFounded, WFMin
<1>2. \A y \in S : ~(y < x)
    BY <1>1 DEF OpToRel
<1> QED BY <1>2

(* Addresses are numbers.                                                  *)
LEMMA AddrNat == Addr \subseteq Nat
BY AddressAssumption DEF Addr

(* memcpy of u bytes and then of k more is memcpy of u + k bytes.        *)
LEMMA MemCpyJoins ==
  ASSUME NEW b \in Bytes, NEW p \in Nat, NEW q \in Nat,
         NEW u \in Nat, NEW k \in Nat, Span(q, u + k) \subseteq Addr,
         Disjoint(p, u + k, q, u + k)
  PROVE  MemCpy(MemCpy(b, p, q, u), p + u, q + u, k) = MemCpy(b, p, q, u + k)
<1> DEFINE m == MemCpy(b, p, q, u)
<1>1. DOMAIN b = Addr /\ DOMAIN m = Addr
    BY DEF Bytes, MemCpy
<1>2. \A a \in Addr : m[a] = IF a \in Span(p, u) THEN b[q + (a - p)] ELSE b[a]
    BY <1>1 DEF MemCpy
<1> HIDE DEF m
<1>3. ASSUME NEW a \in Addr
      PROVE  (IF a \in Span(p + u, k) THEN m[(q + u) + (a - (p + u))] ELSE m[a])
           = (IF a \in Span(p, u + k) THEN b[q + (a - p)] ELSE b[a])
  <2> a \in Nat
      BY AddrNat
  <2>1. CASE a \in Span(p + u, k)
    <3>1. a - p \in Nat /\ a - p < u + k /\ a \in Span(p, u + k)
        BY <2>1 DEF Span
    <3>2. (q + u) + (a - (p + u)) = q + (a - p)
        BY <3>1
    <3>3. q + (a - p) \in Addr
        BY <3>1 DEF Span
    <3>4. ~(q + (a - p) \in Span(p, u + k))
        BY <3>1 DEF Disjoint, Span
    <3>5. ~(q + (a - p) \in Span(p, u))
        BY <3>4 DEF Span
    <3> QED BY <2>1, <3>1, <3>2, <3>3, <3>5, <1>2
  <2>2. CASE ~(a \in Span(p + u, k))
    <3>1. a \in Span(p, u + k) <=> a \in Span(p, u)
        BY <2>2 DEF Span
    <3> QED BY <2>2, <3>1, <1>2
  <2> QED BY <2>1, <2>2
<1> QED BY <1>1, <1>3 DEF MemCpy, m

(* The copy is made of bytes of the memory. *)
LEMMA MemCpyType ==
  ASSUME NEW b \in Bytes, NEW p \in Nat, NEW q \in Nat, NEW n \in Nat, Span(q, n) \subseteq Addr
  PROVE  MemCpy(b, p, q, n) \in Bytes
<1>1. ASSUME NEW a \in Addr, a \in Span(p, n) PROVE q + (a - p) \in Addr
    BY <1>1, AddrNat DEF Span
<1> QED BY <1>1 DEF Bytes, MemCpy

(* Where the source has no end, strncpy is memcpy. *)
LEMMA StrNCpyIsMemCpy ==
  ASSUME NEW b \in Bytes, NEW p \in Nat, NEW q \in Nat, NEW n \in Nat, InString(b, q, n - 1)
  PROVE  StrNCpy(b, p, q, n) = MemCpy(b, p, q, n)
<1>1. ASSUME NEW a \in Addr, a \in Span(p, n) PROVE InString(b, q, a - p)
    BY <1>1, AddrNat DEF Span, InString
<1> QED BY <1>1 DEF Bytes, MemCpy, StrNCpy

(* memset of u bytes and then of k more is memset of u + k bytes. *)
LEMMA MemSetJoins ==
  ASSUME NEW b \in Bytes, NEW p \in Nat, NEW c \in Val, NEW u \in Nat, NEW k \in Nat
  PROVE  /\ MemSet(MemSet(b, p, c, u), p + u, c, k) = MemSet(b, p, c, u + k)
         /\ MemSet(b, p, c, u) \in Bytes
<1>1. \A a \in Addr : a \in Span(p, u + k) <=> a \in Span(p, u) \/ a \in Span(p + u, k)
    BY AddrNat DEF Span
<1> QED BY <1>1 DEF Bytes, MemSet

(* The string at q ends within w bytes of memory, which do not meet the    *)
(* bytes at p.                                                             *)
EndsWithin(b, p, q, w) ==
    /\ Span(q, w) \subseteq Addr /\ Disjoint(p, w, q, w)
    /\ \E j \in Nat : j < w /\ b[q + j] = 0
StringApart(b, p, q) == \E w \in Nat : EndsWithin(b, p, q, w)

(* A copied string leaves a memory.                                        *)
LEMMA StrCpyType ==
  ASSUME NEW b \in Bytes, NEW p \in Nat, NEW q \in Nat, NEW n \in Nat, StringApart(b, p, q)
  PROVE  StrCpy(b, p, q, n) \in Bytes
<1>0. PICK w \in Nat, j \in Nat : Span(q, w) \subseteq Addr /\ j < w /\ b[q + j] = 0
    BY DEF StringApart, EndsWithin
<1>1. ASSUME NEW a \in Addr, a \in Span(p, n), InString(b, q, a - p) PROVE q + (a - p) \in Addr
  <2>1. a - p \in Nat
      BY <1>1, AddrNat DEF Span
  <2>2. ~(j < a - p)
      BY <2>1, <1>0, <1>1 DEF InString
  <2> QED BY <2>1, <2>2, <1>0 DEF Span
<1> QED BY <1>1 DEF Bytes, StrCpy

(* A copy of a string that has not met its end in u bytes goes on as if it *)
(* began with the next byte.                                               *)
LEMMA StrCpyJoins ==
  ASSUME NEW b \in Bytes, NEW p \in Nat, NEW q \in Nat, NEW u \in Nat, NEW k \in Nat,
         StringApart(b, p, q), InString(b, q, u)
  PROVE  StrCpy(StrCpy(b, p, q, u), p + u, q + u, k) = StrCpy(b, p, q, u + k)
<1> DEFINE m == StrCpy(b, p, q, u)
<1>0. PICK w \in Nat, j \in Nat :
        Span(q, w) \subseteq Addr /\ Disjoint(p, w, q, w) /\ j < w /\ b[q + j] = 0
    BY DEF StringApart, EndsWithin
<1>1. DOMAIN b = Addr /\ DOMAIN m = Addr
    BY DEF Bytes, StrCpy
<1>2. u <= j
    BY <1>0 DEF InString
<1>3. \A a \in Addr : m[a] = IF a \in Span(p, u) THEN b[q + (a - p)] ELSE b[a]
  <2>1. ASSUME NEW a \in Addr, a \in Span(p, u) PROVE InString(b, q, a - p)
      BY <2>1, AddrNat DEF Span, InString
  <2> QED BY <1>1, <2>1 DEF StrCpy
<1> HIDE DEF m
<1>4. \A i \in Nat : i < w => q + i \in Addr /\ m[q + i] = b[q + i]
  <2>1. ASSUME NEW i \in Nat, i < w PROVE q + i \in Addr /\ ~(q + i \in Span(p, u))
      BY <2>1, <1>0, <1>2 DEF Span, Disjoint
  <2> QED BY <2>1, <1>3
<1>5. ASSUME NEW x \in Nat PROVE InString(m, q + u, x) <=> InString(b, q, u + x)
  <2>1. CASE u + x <= j
    <3>1. \A i \in 0 .. x - 1 : m[(q + u) + i] = b[q + (u + i)]
        BY <2>1, <1>0, <1>4
    <3>2. InString(b, q, u + x) => InString(m, q + u, x)
        BY <3>1 DEF InString
    <3>3. ASSUME InString(m, q + u, x), NEW i \in 0 .. (u + x) - 1 PROVE b[q + i] # 0
      <4>1. CASE i < u
          BY <4>1 DEF InString
      <4>2. CASE i >= u
        <5>1. i - u \in 0 .. x - 1 /\ u + (i - u) = i
            BY <4>2
        <5>2. m[(q + u) + (i - u)] # 0
            BY <3>3, <5>1 DEF InString
        <5> QED BY <5>1, <5>2, <3>1
      <4> QED BY <4>1, <4>2
    <3>4. InString(m, q + u, x) => InString(b, q, u + x)
        BY <3>3 DEF InString
    <3> QED BY <3>2, <3>4
  <2>2. CASE u + x > j
    <3>1. ~InString(b, q, u + x)
        BY <2>2, <1>0 DEF InString
    <3>2. j - u \in 0 .. x - 1 /\ (q + u) + (j - u) = q + j
        BY <2>2, <1>2
    <3>3. m[(q + u) + (j - u)] = 0
        BY <3>2, <1>0, <1>4
    <3> QED BY <3>1, <3>2, <3>3 DEF InString
  <2> QED BY <2>1, <2>2
<1>6. ASSUME NEW a \in Addr
      PROVE  (IF a \in Span(p + u, k) /\ InString(m, q + u, a - (p + u))
                THEN m[(q + u) + (a - (p + u))] ELSE m[a])
           = (IF a \in Span(p, u + k) /\ InString(b, q, a - p) THEN b[q + (a - p)] ELSE b[a])
  <2> a \in Nat
      BY AddrNat
  <2>1. CASE a \in Span(p + u, k)
    <3>1. a - (p + u) \in Nat /\ u + (a - (p + u)) = a - p /\ a \in Span(p, u + k)
        BY <2>1 DEF Span
    <3>2. InString(m, q + u, a - (p + u)) <=> InString(b, q, a - p)
        BY <3>1, <1>5
    <3>3. m[a] = b[a]
        BY <2>1, <1>3 DEF Span
    <3>4. CASE InString(b, q, a - p)
      <4>1. a - p \in Nat /\ ~(j < a - p)
          BY <3>1, <3>4, <1>0 DEF InString
      <4>2. m[q + (a - p)] = b[q + (a - p)]
          BY <4>1, <1>0, <1>4
      <4>3. (q + u) + (a - (p + u)) = q + (a - p)
          BY <3>1
      <4> QED BY <2>1, <3>1, <3>2, <3>4, <4>2, <4>3
    <3>5. CASE ~InString(b, q, a - p)
        BY <3>2, <3>3, <3>5
    <3> QED BY <3>4, <3>5
  <2>2. CASE ~(a \in Span(p + u, k))
    <3>1. a \in Span(p, u + k) <=> a \in Span(p, u)
        BY <2>2 DEF Span
    <3>2. a \in Span(p, u) => InString(b, q, a - p)
        BY DEF Span, InString
    <3> QED BY <2>2, <3>1, <3>2, <1>3
  <2> QED BY <2>1, <2>2
<1> QED BY <1>1, <1>6 DEF StrCpy, m

-----------------------------------------------------------------------------
(* The fields of a call.                                                   *)
LEMMA CallFields ==
  ASSUME NEW c \in Call
  PROVE  /\ c.fn \in Function /\ c.p \in Nat /\ c.q \in Nat /\ c.n \in Nat /\ c.c \in Val
         /\ c.p \in Addr /\ c.q \in Addr /\ c.n \in 0 .. MaxSize
         /\ c # NoCall
         /\ c.fn \in Endless => c.n = MaxSize
         /\ c.fn \in {"memset", "strlen"} => c.p = c.q
<1>1. c.fn \in Function /\ c.p \in Addr /\ c.q \in Addr /\ c.n \in Sizes \cup {MaxSize} /\ c.c \in Val
    BY DEF Call
<1>2. c.n \in 0 .. MaxSize
  <2>1. MaxSize \in Nat /\ MaxSize \in 0 .. MaxSize /\ Sizes \subseteq 0 .. MaxSize
      BY SizeAssumption
  <2> QED BY <1>1, <2>1
<1>3. c # NoCall
    BY <1>1 DEF Function, NoCall, Copying, Comparing
<1>5. /\ c.fn \in Endless => c.n = MaxSize
      /\ c.fn \in {"memset", "strlen"} => c.p = c.q
    BY DEF Call
<1>6. c.p \in Nat /\ c.q \in Nat
    BY <1>1, AddrNat
<1>7. c.n \in Nat
    BY <1>2, SizeAssumption
<1> QED BY <1>1, <1>2, <1>3, <1>5, <1>6, <1>7

(* The call c for its first u bytes, and for the k bytes after them.       *)
DoneTo(c, u) == [c EXCEPT !.n = u]
PieceFrom(c, u, k) == [c EXCEPT !.p = @ + u, !.q = @ + u, !.n = k]

(* The call for a piece.                                                   *)
LEMMA PieceFields ==
  ASSUME NEW c \in Call, NEW u, NEW k
  PROVE  /\ PieceFrom(c, u, k).fn = c.fn /\ PieceFrom(c, u, k).c = c.c
         /\ PieceFrom(c, u, k).p = c.p + u /\ PieceFrom(c, u, k).q = c.q + u
         /\ PieceFrom(c, u, k).n = k
BY DEF Call, PieceFrom

(* The call for all that is done.                                          *)
LEMMA DoneFields ==
  ASSUME NEW c \in Call, NEW u
  PROVE  /\ DoneTo(c, u).fn = c.fn /\ DoneTo(c, u).c = c.c
         /\ DoneTo(c, u).p = c.p /\ DoneTo(c, u).q = c.q
         /\ DoneTo(c, u).n = u
BY DEF Call, DoneTo

(* What each function does to the memory.                                  *)
LEMMA EffectIs ==
  ASSUME NEW m, NEW c
  PROVE  /\ c.fn = "memcpy" => Effect(m, c) = MemCpy(m, c.p, c.q, c.n)
         /\ c.fn = "strncpy" => Effect(m, c) = StrNCpy(m, c.p, c.q, c.n)
         /\ c.fn = "strcpy" => Effect(m, c) = StrCpy(m, c.p, c.q, c.n)
         /\ c.fn = "memset" => Effect(m, c) = MemSet(m, c.p, c.c, c.n)
         /\ c.fn \in Comparing \cup {"strlen"} => Effect(m, c) = m
BY DEF Effect, Comparing

(* When the loop of each function goes on.                                 *)
LEMMA GoesOnIs ==
  ASSUME NEW b, NEW c, NEW u
  PROVE  /\ c.fn \in {"strncpy", "strcpy"} => (GoesOn(b, c, u) <=> InString(b, c.q, u))
         /\ c.fn = "memcmp" => (GoesOn(b, c, u) <=> \A j \in 0 .. u - 1 : ~Decides(b, c.p, c.q, j, FALSE))
         /\ c.fn \in {"strncmp", "strcmp"}
               => (GoesOn(b, c, u) <=> \A j \in 0 .. u - 1 : ~Decides(b, c.p, c.q, j, TRUE))
         /\ c.fn = "strlen" => (GoesOn(b, c, u) <=> InString(b, c.p, u))
         /\ c.fn \in {"memcpy", "memset"} => GoesOn(b, c, u)
<1>1. c.fn \in {"strncpy", "strcpy"} => (GoesOn(b, c, u) <=> InString(b, c.q, u))
    BY DEF GoesOn, Comparing
<1>2. c.fn = "memcmp" => (GoesOn(b, c, u) <=> \A j \in 0 .. u - 1 : ~Decides(b, c.p, c.q, j, FALSE))
    BY DEF GoesOn, Comparing
<1>3. c.fn \in {"strncmp", "strcmp"}
        => (GoesOn(b, c, u) <=> \A j \in 0 .. u - 1 : ~Decides(b, c.p, c.q, j, TRUE))
    BY DEF GoesOn, Comparing
<1>4. c.fn = "strlen" => (GoesOn(b, c, u) <=> InString(b, c.p, u))
    BY DEF GoesOn, Comparing
<1>5. c.fn \in {"memcpy", "memset"} => GoesOn(b, c, u)
    BY DEF GoesOn, Comparing
<1> QED BY <1>1, <1>2, <1>3, <1>4, <1>5

(* What each function returns.                                             *)
LEMMA IsResultIs ==
  ASSUME NEW m, NEW c, NEW r
  PROVE  /\ c.fn = "memcmp" => (IsResult(m, c, r) <=> Compares(m, c.p, c.q, c.n, FALSE, r))
         /\ c.fn \in {"strncmp", "strcmp"} => (IsResult(m, c, r) <=> Compares(m, c.p, c.q, c.n, TRUE, r))
         /\ c.fn = "strlen" => (IsResult(m, c, r) <=> r >= 0 /\ InString(m, c.p, r) /\ m[c.p + r] = 0)
         /\ c.fn \in Copying \cup {"memset"} => (IsResult(m, c, r) <=> r = 0)
BY DEF IsResult, Copying

-----------------------------------------------------------------------------
(* What may be asked for, of each function. *)
StringsFill == ShortStrings = {}

(* What C asks of the operands of memcpy and strncpy.                      *)
LEMMA LegalCopy ==
  ASSUME NEW b \in Bytes, NEW c \in SupportedCalls(b), StringsFill, c.fn \in {"memcpy", "strncpy"},
         c.p # c.q \/ c.fn = "strncpy"
  PROVE  /\ Span(c.q, c.n) \subseteq Addr
         /\ Disjoint(c.p, c.n, c.q, c.n)
         /\ c.fn = "strncpy" => InString(b, c.q, c.n - 1)
<1>0. c \in Call
    BY DEF SupportedCalls, LegalCalls
<1>1. PICK k \in 0 .. c.n : /\ InOne(c.q, k) /\ Enough(b, c, k)
                           /\ Disjoint(c.p, Written(c, k), c.q, k)
    BY DEF SupportedCalls, LegalCalls, Legal, Copying
<1>2. c.fn = "strncpy" => InString(b, c.q, c.n - 1)
    BY DEF SupportedCalls, StringsLast, StringsFill
<1>3. k = c.n
  <2>1. CASE c.fn = "memcpy"
      BY <1>1, <2>1 DEF Enough
  <2>2. CASE c.fn = "strncpy"
    <3>1. ASSUME NEW j \in 0 .. k - 1, b[c.q + j] = 0, k # c.n PROVE FALSE
        BY <3>1, <1>0, <1>2, <2>2, CallFields DEF InString
    <3> QED BY <1>1, <2>2, <3>1 DEF Enough
  <2> QED BY <2>1, <2>2
<1>4. Written(c, k) = c.n
    BY <1>3 DEF Written
<1> QED BY <1>1, <1>2, <1>3, <1>4 DEF InOne, Addr

(* And of those of strcpy.                                                 *)
LEMMA LegalStrCpy ==
  ASSUME NEW b \in Bytes, NEW c \in SupportedCalls(b), c.fn = "strcpy"
  PROVE  StringApart(b, c.p, c.q)
<1>0. c \in Call /\ c.n = MaxSize /\ MaxSize \in Nat /\ c.q \in Addr
    BY CallFields, SizeAssumption DEF SupportedCalls, LegalCalls, Endless
<1>1. PICK k \in 0 .. c.n : /\ InOne(c.q, k) /\ Enough(b, c, k)
                           /\ Disjoint(c.p, k, c.q, k)
    BY DEF SupportedCalls, LegalCalls, Legal, Copying, Written
<1>2. k # c.n
    BY <1>0, <1>1, SizeAssumption
<1>3. PICK j \in 0 .. k - 1 : b[c.q + j] = 0
    BY <1>1, <1>2 DEF Enough
<1>4. k \in Nat /\ j \in Nat /\ j < k
    BY <1>0
<1>5. EndsWithin(b, c.p, c.q, k)
    BY <1>1, <1>3, <1>4 DEF EndsWithin, InOne, Addr
<1> QED BY <1>4, <1>5 DEF StringApart

(* And of that of strlen.                                                  *)
LEMMA LegalStrLen ==
  ASSUME NEW b \in Bytes, NEW c \in SupportedCalls(b), c.fn = "strlen"
  PROVE  \E j \in 0 .. c.n - 1 : b[c.p + j] = 0
<1>0. c \in Call /\ c.n = MaxSize /\ MaxSize \in Nat /\ c.q \in Addr /\ c.p = c.q
    BY CallFields, SizeAssumption DEF SupportedCalls, LegalCalls, Endless
<1>1. PICK k \in 0 .. c.n : InOne(c.q, k) /\ Enough(b, c, k)
    BY DEF SupportedCalls, LegalCalls, Legal
<1>2. k # c.n
    BY <1>0, <1>1, SizeAssumption
<1> QED BY <1>0, <1>1, <1>2 DEF Enough

(* Strings whose end is passed differ in front of it.                      *)
LEMMA LegalStrNCmp ==
  ASSUME NEW b \in Bytes, NEW c \in SupportedCalls(b), StringsFill, c.fn = "strncmp",
         NEW j \in Nat, j < c.n - 1, b[c.p + j] = 0, b[c.q + j] = 0
  PROVE  \E i \in 0 .. j - 1 : b[c.p + i] # b[c.q + i]
<1>1. StringsLast(b, c)
    BY DEF SupportedCalls, StringsFill
<1>2. c.n \in Nat /\ j \in 0 .. c.n - 2
    BY CallFields DEF SupportedCalls, LegalCalls
<1> QED BY <1>1, <1>2 DEF StringsLast

(* A call the overloads are for is a call.                                 *)
LEMMA SupportedIsCall ==
  ASSUME NEW b, NEW c \in SupportedCalls(b)
  PROVE  c \in Call
BY DEF SupportedCalls, LegalCalls

-----------------------------------------------------------------------------
(* A comparison of equal operands finds nothing, wherever it ends. *)
LEMMA ComparesSelf ==
  ASSUME NEW b \in Bytes, NEW p \in Nat, NEW n \in Nat, NEW strings \in BOOLEAN
  PROVE  Compares(b, p, p, n, strings, 0)
<1> DEFINE S == {k \in 0 .. n - 1 : Decides(b, p, p, k, strings)}
<1>1. CASE S = {}
    BY <1>1 DEF Compares
<1>2. CASE S # {}
  <2>1. PICK k \in S : \A y \in S : k <= y
    <3>1. S \in SUBSET Nat
        OBVIOUS
    <3> QED BY <1>2, <3>1, Least
  <2>2. k \in 0 .. n - 1 /\ Decides(b, p, p, k, strings)
      BY <2>1
  <2>3. \A j \in 0 .. k - 1 : ~Decides(b, p, p, j, strings)
      BY <2>1
  <2>4. Sign(b[p + k], b[p + k]) = 0
    <3>1. b[p + k] = 0
        BY <2>2 DEF Decides
    <3> QED BY <3>1 DEF Sign
  <2> QED BY <2>2, <2>3, <2>4 DEF Compares
<1> QED BY <1>1, <1>2

(* A comparison that found nothing in u bytes and compares k more.         *)
Undecided(b, p, q, u, strings) == \A j \in 0 .. u - 1 : ~Decides(b, p, q, j, strings)
DecidedAt(b, p, q, i, strings, r) ==
    /\ Decides(b, p, q, i, strings) /\ Undecided(b, p, q, i, strings)
    /\ r = Sign(b[p + i], b[q + i])
DecidedFrom(b, p, q, u, k, strings, r) ==
    \E i \in Nat : u <= i /\ i < u + k /\ DecidedAt(b, p, q, i, strings, r)

(* Comparing u bytes and then k more is comparing all of them.             *)
LEMMA ComparesJoins ==
  ASSUME NEW b \in Bytes, NEW p \in Nat, NEW q \in Nat, NEW u \in Nat, NEW k \in Nat,
         NEW n \in Nat, u + k <= n, NEW strings \in BOOLEAN, NEW r,
         Undecided(b, p, q, u, strings),
         Compares(b, p + u, q + u, k, strings, r)
  PROVE  \/ r = 0 /\ Undecided(b, p, q, u + k, strings)
         \/ Compares(b, p, q, n, strings, r) /\ DecidedFrom(b, p, q, u, k, strings, r)
<1> USE DEF Undecided
<1>1. \A i \in Nat : Decides(b, p + u, q + u, i, strings) <=> Decides(b, p, q, u + i, strings)
  <2>1. \A i \in Nat : (p + u) + i = p + (u + i) /\ (q + u) + i = q + (u + i)
      OBVIOUS
  <2> QED BY <2>1 DEF Decides
<1>2. ASSUME NEW i \in Nat, \A j \in 0 .. i - 1 : ~Decides(b, p + u, q + u, j, strings)
      PROVE  \A j \in 0 .. (u + i) - 1 : ~Decides(b, p, q, j, strings)
  <2> SUFFICES ASSUME NEW j \in 0 .. (u + i) - 1 PROVE ~Decides(b, p, q, j, strings)
      OBVIOUS
  <2>1. CASE j < u
      BY <2>1
  <2>2. CASE j >= u
    <3>1. j - u \in 0 .. i - 1 /\ j - u \in Nat /\ u + (j - u) = j
        BY <2>2
    <3>2. Decides(b, p + u, q + u, j - u, strings) <=> Decides(b, p, q, u + (j - u), strings)
        BY <3>1, <1>1
    <3> QED BY <1>2, <3>1, <3>2
  <2> QED BY <2>1, <2>2
<1>3. CASE r = 0 /\ \A i \in 0 .. k - 1 : ~Decides(b, p + u, q + u, i, strings)
    BY <1>2, <1>3
<1>4. CASE \E i \in 0 .. k - 1 : /\ \A j \in 0 .. i - 1 : ~Decides(b, p + u, q + u, j, strings)
                                 /\ Decides(b, p + u, q + u, i, strings)
                                 /\ r = Sign(b[(p + u) + i], b[(q + u) + i])
  <2>1. PICK i \in 0 .. k - 1 : /\ \A j \in 0 .. i - 1 : ~Decides(b, p + u, q + u, j, strings)
                                /\ Decides(b, p + u, q + u, i, strings)
                                /\ r = Sign(b[(p + u) + i], b[(q + u) + i])
      BY <1>4
  <2>2. i \in Nat /\ (p + u) + i = p + (u + i) /\ (q + u) + i = q + (u + i)
      OBVIOUS
  <2>3. /\ \A j \in 0 .. (u + i) - 1 : ~Decides(b, p, q, j, strings)
        /\ Decides(b, p, q, u + i, strings)
        /\ r = Sign(b[p + (u + i)], b[q + (u + i)])
      BY <2>1, <2>2, <1>1, <1>2
  <2>4. u + i \in 0 .. n - 1 /\ u + i \in Nat /\ u <= u + i /\ u + i < u + k
      BY <2>2
  <2>5. Compares(b, p, q, n, strings, r)
      BY <2>3, <2>4 DEF Compares
  <2> QED BY <2>3, <2>4, <2>5 DEF DecidedFrom, DecidedAt
<1> QED BY <1>3, <1>4 DEF Compares

(* Bytes that compare equal are equal. *)
LEMMA SignZero ==
  ASSUME NEW v \in Nat, NEW w \in Nat
  PROVE  /\ Sign(v, w) = 0 => v = w
         /\ Sign(v, w) \in -1 .. 1
BY DEF Sign

-----------------------------------------------------------------------------
(* The next piece is not empty where bytes are copied.                     *)
LEMMA PieceSize ==
  ASSUME TypeOK, call # NoCall, at < call.n, NEW k \in PieceSizes
  PROVE  /\ k \in Nat /\ at + k \in Nat /\ at + k <= call.n
         /\ call.fn \notin Comparing => k > 0
<1>1. call \in Call /\ at \in Nat /\ call.n \in Nat /\ call.p \in Nat /\ call.q \in Nat
    BY CallFields, SizeAssumption DEF TypeOK
<1>2. Distance(call) \in Nat
    BY <1>1, SizeAssumption DEF Distance
<1>3. PageBytes(call.p) \in Nat \ {0} /\ PageBytes(call.q) \in Nat \ {0}
  <2>1. PageSize \in Nat \ {0} /\ LockModulus - 1 \in Nat \ {0}
      BY SizeAssumption
  <2> QED BY <2>1 DEF PageBytes
<1>4. /\ MaxLockSize(call) \in Nat
      /\ call.fn \notin Comparing => MaxLockSize(call) > 0
    BY <1>2, <1>3 DEF MaxLockSize, SameType, Smaller
<1>5. call.n - at \in Nat /\ call.n - at > 0
    BY <1>1
<1>6. k \in Nat /\ k <= call.n - at /\ (call.fn \notin Comparing => k > 0)
    BY <1>4, <1>5 DEF PieceSizes, Smaller
<1> QED BY <1>1, <1>6

-----------------------------------------------------------------------------
(* One more piece of each copying function: the memory is b with the first *)
(* u bytes of the call c done.                                             *)
LEMMA MemCpyStep ==
  ASSUME NEW b \in Bytes, NEW c \in SupportedCalls(b), StringsFill, c.fn = "memcpy", c.p # c.q,
         NEW u \in Nat, NEW k \in Nat, u + k <= c.n,
         NEW m, m = Effect(b, DoneTo(c, u))
  PROVE  /\ Effect(m, PieceFrom(c, u, k)) = Effect(b, DoneTo(c, u + k))
         /\ Effect(m, PieceFrom(c, u, k)) \in Bytes
<1>1. c \in Call /\ c.p \in Nat /\ c.q \in Nat /\ c.n \in Nat
    BY SupportedIsCall, CallFields
<1>2. Span(c.q, u + k) \subseteq Addr /\ Disjoint(c.p, u + k, c.q, u + k)
  <2>1. Span(c.q, c.n) \subseteq Addr /\ Disjoint(c.p, c.n, c.q, c.n)
      BY LegalCopy
  <2>2. Span(c.q, u + k) \subseteq Span(c.q, c.n) /\ Span(c.p, u + k) \subseteq Span(c.p, c.n)
      BY <1>1 DEF Span
  <2> QED BY <2>1, <2>2 DEF Disjoint
<1>3. Effect(b, DoneTo(c, u)) = MemCpy(b, c.p, c.q, u)
    BY <1>1, DoneFields, EffectIs
<1>4. Effect(b, DoneTo(c, u + k)) = MemCpy(b, c.p, c.q, u + k)
    BY <1>1, DoneFields, EffectIs
<1>5. Effect(m, PieceFrom(c, u, k)) = MemCpy(m, c.p + u, c.q + u, k)
    BY <1>1, PieceFields, EffectIs
<1>6. MemCpy(m, c.p + u, c.q + u, k) = MemCpy(b, c.p, c.q, u + k)
    BY <1>1, <1>2, <1>3, MemCpyJoins
<1>7. MemCpy(b, c.p, c.q, u + k) \in Bytes
    BY <1>1, <1>2, MemCpyType
<1> QED BY <1>4, <1>5, <1>6, <1>7

(* One piece more of strncpy.                                              *)
LEMMA StrNCpyStep ==
  ASSUME NEW b \in Bytes, NEW c \in SupportedCalls(b), StringsFill, c.fn = "strncpy",
         NEW u \in Nat, NEW k \in Nat \ {0}, u + k <= c.n,
         NEW m, m = Effect(b, DoneTo(c, u))
  PROVE  /\ Effect(m, PieceFrom(c, u, k)) = Effect(b, DoneTo(c, u + k))
         /\ Effect(m, PieceFrom(c, u, k)) \in Bytes
         /\ LET x == Effect(m, PieceFrom(c, u, k))[(c.p + u) + k - 1]
            IN  /\ x = 0 => u + k = c.n
                /\ x # 0 => InString(b, c.q, u + k)
<1>1. c \in Call /\ c.p \in Nat /\ c.q \in Nat /\ c.n \in Nat
    BY SupportedIsCall, CallFields
<1>2. /\ Span(c.q, c.n) \subseteq Addr /\ Disjoint(c.p, c.n, c.q, c.n)
      /\ InString(b, c.q, c.n - 1)
    BY LegalCopy
<1>3. Span(c.q, u + k) \subseteq Addr /\ Disjoint(c.p, u + k, c.q, u + k)
  <2>1. Span(c.q, u + k) \subseteq Span(c.q, c.n) /\ Span(c.p, u + k) \subseteq Span(c.p, c.n)
      BY <1>1 DEF Span
  <2> QED BY <1>2, <2>1 DEF Disjoint
<1>4. m = MemCpy(b, c.p, c.q, u)
  <2>1. m = StrNCpy(b, c.p, c.q, u)
      BY <1>1, DoneFields, EffectIs
  <2>2. InString(b, c.q, u - 1)
      BY <1>1, <1>2 DEF InString
  <2> QED BY <1>1, <2>1, <2>2, StrNCpyIsMemCpy
<1>5. Effect(b, DoneTo(c, u + k)) = MemCpy(b, c.p, c.q, u + k)
  <2>1. Effect(b, DoneTo(c, u + k)) = StrNCpy(b, c.p, c.q, u + k)
      BY <1>1, DoneFields, EffectIs
  <2>2. InString(b, c.q, (u + k) - 1)
      BY <1>1, <1>2 DEF InString
  <2> QED BY <1>1, <2>1, <2>2, StrNCpyIsMemCpy
<1>6. m \in Bytes
  <2>1. Span(c.q, u) \subseteq Addr
      BY <1>1, <1>3 DEF Span
  <2> QED BY <1>1, <1>4, <2>1, MemCpyType
<1>7. \A i \in Nat : i < c.n => c.q + i \in Addr /\ m[c.q + i] = b[c.q + i]
  <2>1. ASSUME NEW i \in Nat, i < c.n PROVE c.q + i \in Addr /\ ~(c.q + i \in Span(c.p, u))
      BY <2>1, <1>1, <1>2 DEF Span, Disjoint
  <2>2. \A a \in Addr : m[a] = IF a \in Span(c.p, u) THEN b[c.q + (a - c.p)] ELSE b[a]
      BY <1>4 DEF MemCpy, Bytes
  <2> QED BY <2>1, <2>2
<1>8. Effect(m, PieceFrom(c, u, k)) = MemCpy(m, c.p + u, c.q + u, k)
  <2>1. Effect(m, PieceFrom(c, u, k)) = StrNCpy(m, c.p + u, c.q + u, k)
      BY <1>1, PieceFields, EffectIs
  <2>2. ASSUME NEW i \in 0 .. (k - 1) - 1 PROVE m[(c.q + u) + i] # 0
    <3>1. u + i \in Nat /\ u + i < c.n - 1 /\ (c.q + u) + i = c.q + (u + i)
        BY <1>1
    <3>2. m[c.q + (u + i)] = b[c.q + (u + i)]
        BY <3>1, <1>1, <1>7
    <3>3. b[c.q + (u + i)] # 0
        BY <3>1, <1>1, <1>2 DEF InString
    <3> QED BY <3>1, <3>2, <3>3
  <2>3. InString(m, c.q + u, k - 1)
      BY <2>2 DEF InString
  <2> QED BY <1>1, <1>6, <2>1, <2>3, StrNCpyIsMemCpy
<1>9. MemCpy(m, c.p + u, c.q + u, k) = MemCpy(b, c.p, c.q, u + k)
    BY <1>1, <1>3, <1>4, MemCpyJoins
<1>10. MemCpy(b, c.p, c.q, u + k) \in Bytes
    BY <1>1, <1>3, MemCpyType
<1> DEFINE x == MemCpy(b, c.p, c.q, u + k)[(c.p + u) + k - 1]
<1>11. x = b[c.q + ((u + k) - 1)] \/ (c.p + u) + k - 1 \notin Addr
  <2>1. /\ (c.p + u) + k - 1 \in Span(c.p, u + k)
        /\ c.q + (((c.p + u) + k - 1) - c.p) = c.q + ((u + k) - 1)
      BY <1>1 DEF Span
  <2> QED BY <2>1 DEF MemCpy, Bytes
<1>12. (c.p + u) + k - 1 \in Addr
  <2>1. Span(c.p, c.n) \subseteq Addr
      BY <1>1 DEF SupportedCalls, LegalCalls, Legal, Written, InOne, Addr
  <2> QED BY <1>1, <2>1 DEF Span
<1>13. x = 0 => u + k = c.n
  <2> SUFFICES ASSUME u + k < c.n PROVE b[c.q + ((u + k) - 1)] # 0
      BY <1>1, <1>11, <1>12
  <2> QED BY <1>1, <1>2 DEF InString
<1>14. x # 0 => InString(b, c.q, u + k)
  <2> SUFFICES ASSUME x # 0, NEW i \in 0 .. (u + k) - 1 PROVE b[c.q + i] # 0
      BY DEF InString
  <2>1. CASE i = (u + k) - 1
      BY <2>1, <1>11, <1>12
  <2>2. CASE i # (u + k) - 1
      BY <2>2, <1>1, <1>2 DEF InString
  <2> QED BY <2>1, <2>2
<1> QED BY <1>5, <1>8, <1>9, <1>10, <1>13, <1>14

(* One piece more of strcpy.                                               *)
LEMMA StrCpyStep ==
  ASSUME NEW b \in Bytes, NEW c \in SupportedCalls(b), c.fn = "strcpy",
         NEW u \in Nat, NEW k \in Nat \ {0}, u + k <= c.n, InString(b, c.q, u),
         NEW m, m = Effect(b, DoneTo(c, u))
  PROVE  /\ Effect(m, PieceFrom(c, u, k)) = Effect(b, DoneTo(c, u + k))
         /\ Effect(m, PieceFrom(c, u, k)) \in Bytes
         /\ (\E j \in 0 .. k - 1 : m[(c.q + u) + j] = 0)
               => Effect(b, DoneTo(c, u + k)) = Effect(b, c)
         /\ ~(\E j \in 0 .. k - 1 : m[(c.q + u) + j] = 0) => InString(b, c.q, u + k)
<1>1. c \in Call /\ c.p \in Nat /\ c.q \in Nat /\ c.n \in Nat
    BY SupportedIsCall, CallFields
<1>2. PICK w \in Nat, z \in Nat : /\ Span(c.q, w) \subseteq Addr /\ Disjoint(c.p, w, c.q, w)
                                 /\ z < w /\ b[c.q + z] = 0
    BY LegalStrCpy DEF StringApart, EndsWithin
<1>3. m = StrCpy(b, c.p, c.q, u)
    BY <1>1, DoneFields, EffectIs
<1>4. Effect(b, DoneTo(c, u + k)) = StrCpy(b, c.p, c.q, u + k)
    BY <1>1, DoneFields, EffectIs
<1>5. Effect(m, PieceFrom(c, u, k)) = StrCpy(m, c.p + u, c.q + u, k)
    BY <1>1, PieceFields, EffectIs
<1>6. Effect(b, c) = StrCpy(b, c.p, c.q, c.n)
    BY EffectIs
<1>7. StrCpy(m, c.p + u, c.q + u, k) = StrCpy(b, c.p, c.q, u + k)
  <2>1. k \in Nat
      OBVIOUS
  <2>2. StrCpy(StrCpy(b, c.p, c.q, u), c.p + u, c.q + u, k) = StrCpy(b, c.p, c.q, u + k)
      BY <1>1, <2>1, LegalStrCpy, StrCpyJoins
  <2> QED BY <1>3, <2>2
<1>8. StrCpy(b, c.p, c.q, u + k) \in Bytes
  <2>1. u + k \in Nat
      OBVIOUS
  <2> QED BY <1>1, <2>1, LegalStrCpy, StrCpyType
<1>9. u <= z
    BY <1>2 DEF InString
<1>10. \A i \in Nat : i < w => m[c.q + i] = b[c.q + i]
  <2>1. ASSUME NEW i \in Nat, i < w PROVE c.q + i \in Addr /\ ~(c.q + i \in Span(c.p, u))
      BY <2>1, <1>1, <1>2, <1>9 DEF Span, Disjoint
  <2>2. \A a \in Addr : ~(a \in Span(c.p, u)) => m[a] = b[a]
      BY <1>3 DEF StrCpy, Bytes
  <2> QED BY <2>1, <2>2
<1>11. ASSUME NEW j \in 0 .. k - 1, m[(c.q + u) + j] = 0
       PROVE  \E i \in Nat : i < u + k /\ b[c.q + i] = 0
  <2>1. u + j \in Nat /\ (c.q + u) + j = c.q + (u + j) /\ u + j < u + k
      BY <1>1
  <2>2. CASE u + j < w
      BY <2>1, <2>2, <1>10, <1>11
  <2>3. CASE u + j >= w
      BY <2>1, <2>3, <1>2
  <2> QED BY <2>1, <2>2, <2>3
<1>12. ASSUME NEW i \in Nat, i < u + k, b[c.q + i] = 0
       PROVE  StrCpy(b, c.p, c.q, u + k) = StrCpy(b, c.p, c.q, c.n)
  <2>1. ASSUME NEW a \in Addr
        PROVE  a \in Span(c.p, u + k) /\ InString(b, c.q, a - c.p)
               <=> a \in Span(c.p, c.n) /\ InString(b, c.q, a - c.p)
    <3>1. InString(b, c.q, a - c.p) => ~(i < a - c.p)
        BY <1>12, <1>1, AddrNat DEF InString
    <3> QED BY <3>1, <1>12, <1>1, AddrNat DEF Span
  <2> QED BY <2>1 DEF StrCpy, Bytes
<1>13. ASSUME \A j \in 0 .. k - 1 : m[(c.q + u) + j] # 0
       PROVE  InString(b, c.q, u + k)
  <2> SUFFICES ASSUME NEW i \in 0 .. (u + k) - 1, b[c.q + i] = 0 PROVE FALSE
      BY DEF InString
  <2>1. i >= u
      BY DEF InString
  <2>2. \A j \in Nat : u <= j /\ j < u + k => m[c.q + j] # 0
    <3>1. ASSUME NEW j \in Nat, u <= j, j < u + k PROVE m[c.q + j] # 0
      <4>1. j - u \in 0 .. k - 1 /\ (c.q + u) + (j - u) = c.q + j
          BY <3>1, <1>1
      <4> QED BY <4>1, <1>13
    <3> QED BY <3>1
  <2>3. CASE i < w
      BY <2>1, <2>2, <2>3, <1>10
  <2>4. CASE i >= w
      BY <2>1, <2>2, <2>4, <1>2, <1>9, <1>10
  <2> QED BY <2>3, <2>4
<1> QED BY <1>4, <1>5, <1>6, <1>7, <1>8, <1>11, <1>12, <1>13

(* One piece more of memset.                                               *)
LEMMA MemSetStep ==
  ASSUME NEW b \in Bytes, NEW c \in Call, c.fn = "memset",
         NEW u \in Nat, NEW k \in Nat,
         NEW m, m = Effect(b, DoneTo(c, u))
  PROVE  /\ Effect(m, PieceFrom(c, u, k)) = Effect(b, DoneTo(c, u + k))
         /\ Effect(m, PieceFrom(c, u, k)) \in Bytes
<1>1. c.p \in Nat /\ c.c \in Val
    BY CallFields
<1>2. m = MemSet(b, c.p, c.c, u)
    BY DoneFields, EffectIs
<1>3. Effect(b, DoneTo(c, u + k)) = MemSet(b, c.p, c.c, u + k)
    BY DoneFields, EffectIs
<1>4. Effect(m, PieceFrom(c, u, k)) = MemSet(m, c.p + u, c.c, k)
    BY PieceFields, EffectIs
<1>5. u + k \in Nat
    OBVIOUS
<1> QED BY <1>1, <1>2, <1>3, <1>4, <1>5, MemSetJoins

-----------------------------------------------------------------------------
(* The invariant: a call that runs has done its first bytes, and one that  *)
(* is about to return has done all C would do.                             *)
Over == stop \/ at = call.n
CallInv ==
    /\ call \in SupportedCalls(before)
    /\ at <= call.n
    /\ PtrEqual(call) => stop
    /\ call.fn \notin Comparing \cup {"strlen"} => result = 0
    /\ mem = Effect(before, DoneTo(call, at))
    /\ ~Over => GoesOn(before, call, at)
    /\ Over => mem = Effect(before, call) /\ IsResult(before, call, result)
Inv == TypeOK /\ (call # NoCall => CallInv)

(* No call is none of the calls.                                           *)
LEMMA NoCallIsNone == NoCall \notin Call
BY CallFields

(* In the beginning there is no call.                                      *)
LEMMA InitInv == StringsFill /\ InitOverloads => Inv
<1> SUFFICES ASSUME InitOverloads PROVE Inv
    OBVIOUS
<1>1. mem \in [Addr -> Val] /\ before = mem /\ call = NoCall /\ result = 0 /\ at = 0 /\ stop = FALSE
    BY DEF InitOverloads, Init
<1>2. 0 \in 0 .. MaxSize /\ 0 \in -1 .. MaxSize
    BY SizeAssumption
<1> QED BY <1>1, <1>2 DEF Inv, TypeOK

(* Nothing done is no effect. *)
LEMMA NothingDone ==
  ASSUME NEW b \in Bytes, NEW c \in Call
  PROVE  Effect(b, DoneTo(c, 0)) = b
<1>1. c.p \in Nat /\ c.q \in Nat /\ c.fn \in Function /\ DOMAIN b = Addr
    BY CallFields DEF Bytes
<1>2. b = [a \in Addr |-> b[a]]
    BY DEF Bytes
<1>3. \A a \in Addr : a \notin Span(c.p, 0)
    BY <1>1 DEF Span
<1>4. CASE c.fn = "memcpy"
  <2>1. Effect(b, DoneTo(c, 0)) = MemCpy(b, c.p, c.q, 0)
      BY <1>4, DoneFields, EffectIs
  <2> QED BY <2>1, <1>1, <1>2, <1>3 DEF MemCpy
<1>5. CASE c.fn = "strncpy"
  <2>1. Effect(b, DoneTo(c, 0)) = StrNCpy(b, c.p, c.q, 0)
      BY <1>5, DoneFields, EffectIs
  <2> QED BY <2>1, <1>1, <1>2, <1>3 DEF StrNCpy
<1>6. CASE c.fn = "strcpy"
  <2>1. Effect(b, DoneTo(c, 0)) = StrCpy(b, c.p, c.q, 0)
      BY <1>6, DoneFields, EffectIs
  <2> QED BY <2>1, <1>1, <1>2, <1>3 DEF StrCpy
<1>7. CASE c.fn = "memset"
  <2>1. Effect(b, DoneTo(c, 0)) = MemSet(b, c.p, c.c, 0)
      BY <1>7, DoneFields, EffectIs
  <2> QED BY <2>1, <1>1, <1>2, <1>3 DEF MemSet
<1>8. CASE c.fn \in Comparing \cup {"strlen"}
    BY <1>8, DoneFields, EffectIs
<1> QED BY <1>1, <1>4, <1>5, <1>6, <1>7, <1>8 DEF Function, Copying

(* The program calls a function.                                           *)
LEMMA BeginInv == ASSUME StringsFill, Inv, BeginCall PROVE Inv'
<1>1. /\ call = NoCall /\ call' \in SupportedCalls(mem) /\ result' = 0 /\ mem' = mem
      /\ at' = 0 /\ stop' = PtrEqual(call') /\ before' = mem
    BY DEF BeginCall, Begin
<1> DEFINE c == call'
<1>2. c \in Call /\ c \in SupportedCalls(mem)
    BY <1>1, SupportedIsCall
<1>3. mem \in Bytes
    BY DEF Inv, TypeOK, Bytes
<1>4. /\ c.fn \in Function /\ c.p \in Nat /\ c.q \in Nat /\ c.n \in Nat /\ c.n \in 0 .. MaxSize
      /\ c.fn \in Endless => c.n = MaxSize
    BY <1>2, CallFields
<1>5. TypeOK'
  <2>1. 0 \in 0 .. MaxSize /\ 0 \in -1 .. MaxSize
      BY SizeAssumption
  <2>2. stop' \in BOOLEAN
      BY <1>1 DEF PtrEqual
  <2> QED BY <1>1, <1>2, <1>3, <2>1, <2>2 DEF TypeOK, Bytes
<1> HIDE DEF c
<1>6. Effect(mem, DoneTo(c, 0)) = mem
    BY <1>2, <1>3, NothingDone
<1>7. GoesOn(mem, c, 0)
  <2>1. InString(mem, c.q, 0) /\ InString(mem, c.p, 0)
      BY DEF InString
  <2>2. \A j \in 0 .. 0 - 1 : ~Decides(mem, c.p, c.q, j, TRUE) /\ ~Decides(mem, c.p, c.q, j, FALSE)
      OBVIOUS
  <2>3. CASE c.fn \in Comparing
      BY <2>2, <2>3, GoesOnIs DEF Comparing
  <2>4. CASE c.fn \notin Comparing
      BY <2>1, <2>4, <1>4, GoesOnIs DEF Function, Copying
  <2> QED BY <2>3, <2>4
<1>8. ASSUME PtrEqual(c) \/ c.n = 0 PROVE mem = Effect(mem, c) /\ IsResult(mem, c, 0)
  <2>1. CASE c.n = 0
    <3>1. c = DoneTo(c, 0)
        BY <2>1, <1>2 DEF DoneTo, Call
    <3>2. c.fn \notin Endless
      <4>1. ~InOne(c.p, MaxSize)
          BY <1>2, CallFields, SizeAssumption
      <4>2. MaxSize # 0
          BY <4>1, <1>4 DEF InOne, Span
      <4> QED BY <4>2, <2>1, <1>4
    <3>3. CASE c.fn \in Comparing
      <4>1. \A strings \in BOOLEAN : Compares(mem, c.p, c.q, c.n, strings, 0)
          BY <2>1 DEF Compares
      <4> QED BY <4>1, <3>1, <3>3, <1>6, IsResultIs DEF Comparing
    <3>4. CASE c.fn \notin Comparing
        BY <3>1, <3>2, <3>4, <1>4, <1>6, IsResultIs DEF Function, Endless
    <3> QED BY <3>3, <3>4
  <2>2. CASE c.n # 0
    <3>1. c.p = c.q /\ c.fn \in Copying \cup Comparing
        BY <1>8, <2>2 DEF PtrEqual
    <3>2. CASE c.fn = "memcpy"
      <4>1. \A a \in Addr : c.p + (a - c.p) = a
          BY <1>4, AddrNat
      <4>2. MemCpy(mem, c.p, c.p, c.n) = mem
          BY <4>1, <1>3 DEF MemCpy, Bytes
      <4> QED BY <4>2, <3>1, <3>2, EffectIs, IsResultIs DEF Copying
    <3>3. CASE c.fn \in {"strncpy", "strcpy"}
      <4>1. PICK k \in 0 .. c.n : /\ InOne(c.q, k) /\ Enough(mem, c, k)
                                /\ Disjoint(c.p, Written(c, k), c.q, k)
          BY <1>2, <3>3 DEF SupportedCalls, LegalCalls, Legal, Copying
      <4>2. k \in Nat /\ k <= Written(c, k) /\ Written(c, k) \in Nat
          BY <1>4 DEF Written
      <4>3. k = 0
        <5>1. k # 0 => c.p \in Span(c.p, Written(c, k)) /\ c.p \in Span(c.q, k)
            BY <4>2, <3>1, <1>4 DEF Span
        <5> QED BY <5>1, <4>1 DEF Disjoint
      <4>4. k = c.n
          BY <4>1, <4>3, <3>3 DEF Enough
      <4> QED BY <4>3, <4>4, <2>2
    <3>4. CASE c.fn \in Comparing
      <4>1. \A strings \in BOOLEAN : Compares(mem, c.p, c.q, c.n, strings, 0)
          BY <1>3, <1>4, <3>1, ComparesSelf
      <4> QED BY <4>1, <3>4, EffectIs, IsResultIs DEF Comparing
    <3> QED BY <3>1, <3>2, <3>3, <3>4 DEF Copying
  <2> QED BY <2>1, <2>2
<1>9. CallInv'
    BY <1>1, <1>2, <1>4, <1>6, <1>7, <1>8 DEF CallInv, Over, c
<1> QED BY <1>5, <1>9 DEF Inv

(* What holds while a call runs. *)
LEMMA Running ==
  ASSUME Inv, call # NoCall
  PROVE  /\ call \in SupportedCalls(before) /\ call \in Call
         /\ before \in Bytes /\ mem \in Bytes
         /\ at \in Nat /\ call.n \in Nat /\ at <= call.n /\ call.n \in 0 .. MaxSize
         /\ call.p \in Nat /\ call.q \in Nat /\ call.fn \in Function
         /\ CallInv
<1>1. CallInv /\ call \in Call
    BY NoCallIsNone DEF Inv, TypeOK
<1>2. at \in Nat
    BY SizeAssumption DEF Inv, TypeOK
<1> QED BY <1>1, <1>2, CallFields DEF CallInv, Inv, TypeOK, Bytes

(* A piece is copied or set.                                               *)
LEMMA CopyInv == ASSUME StringsFill, Inv, CopyPiece PROVE Inv'
<1>1. PICK k \in PieceSizes : /\ mem' = Effect(mem, Piece(k))
                              /\ at' = at + k
                              /\ stop' = CopierAborts(Piece(k), mem')
    BY DEF CopyPiece
<1>2. /\ call' = call /\ result' = result /\ before' = before
      /\ call.fn \in Copying \cup {"memset"} /\ ~stop /\ at < call.n
    BY DEF CopyPiece, Looping
<1>3. call # NoCall
    BY <1>2 DEF Copying, NoCall
<1>4. /\ call \in SupportedCalls(before) /\ call \in Call
      /\ before \in Bytes /\ mem \in Bytes
      /\ at \in Nat /\ call.n \in Nat /\ at <= call.n /\ call.n \in 0 .. MaxSize
      /\ call.p \in Nat /\ call.q \in Nat
      /\ CallInv
    BY <1>3, Running
<1>5. k \in Nat /\ at + k \in Nat /\ at + k <= call.n /\ k \in Nat \ {0}
  <2>1. TypeOK
      BY DEF Inv
  <2>2. call.fn \notin Comparing
      BY <1>2 DEF Copying, Comparing
  <2> QED BY <2>1, <2>2, <1>2, <1>3, PieceSize
<1> DEFINE d == PieceFrom(call, at, k)
<1>6. /\ Piece(k) = d
      /\ d.fn = call.fn /\ d.p = call.p + at /\ d.q = call.q + at /\ d.n = k
    BY <1>4, PieceFields DEF Piece, PieceFrom
<1> HIDE DEF d
<1>7. mem = Effect(before, DoneTo(call, at)) /\ GoesOn(before, call, at) /\ result = 0 /\ ~PtrEqual(call)
  <2>1. call.fn \notin Comparing \cup {"strlen"}
      BY <1>2 DEF Copying, Comparing
  <2> QED BY <2>1, <1>2, <1>4 DEF CallInv, Over
<1>8. mem' = Effect(mem, d) /\ stop' = CopierAborts(d, mem')
    BY <1>1, <1>6
<1>9. /\ mem' \in Bytes
      /\ mem' = Effect(before, DoneTo(call, at + k))
      /\ stop' \in BOOLEAN
      /\ stop' => mem' = Effect(before, call)
      /\ ~stop' => GoesOn(before, call, at + k)
  <2>1. CASE call.fn = "memcpy"
    <3>1. call.p # call.q
        BY <1>7, <2>1 DEF PtrEqual, Copying
    <3>2. mem' \in Bytes /\ mem' = Effect(before, DoneTo(call, at + k))
        BY <1>4, <1>5, <1>7, <1>8, <2>1, <3>1, MemCpyStep DEF d
    <3>3. stop' = FALSE /\ GoesOn(before, call, at + k)
        BY <1>2, <1>6, <1>8, <2>1, GoesOnIs DEF CopierAborts
    <3> QED BY <3>2, <3>3
  <2>2. CASE call.fn = "strncpy"
    <3> DEFINE x == mem'[(call.p + at) + k - 1]
    <3>1. /\ mem' \in Bytes /\ mem' = Effect(before, DoneTo(call, at + k))
          /\ x = 0 => at + k = call.n
          /\ x # 0 => InString(before, call.q, at + k)
        BY <1>4, <1>5, <1>7, <1>8, <2>2, StrNCpyStep DEF d
    <3>2. stop' = (x = 0)
      <4>1. d.fn = "strncpy" /\ d.n # 0 /\ d.p + d.n - 1 = (call.p + at) + k - 1
          BY <1>5, <1>6, <2>2
      <4>2. CopierAborts(d, mem') = (d.n = 0 \/ mem'[d.p + d.n - 1] = 0)
          BY <4>1 DEF CopierAborts
      <4> QED BY <1>8, <4>1, <4>2
    <3>3. at + k = call.n => DoneTo(call, at + k) = call
        BY <1>4 DEF DoneTo, Call
    <3>4. ~stop' => GoesOn(before, call, at + k)
        BY <2>2, <3>1, <3>2, GoesOnIs
    <3> QED BY <3>1, <3>2, <3>3, <3>4
  <2>3. CASE call.fn = "strcpy"
    <3> DEFINE E == \E j \in 0 .. k - 1 : mem[(call.q + at) + j] = 0
    <3>1. InString(before, call.q, at)
        BY <1>7, <2>3, GoesOnIs
    <3>2. /\ mem' \in Bytes /\ mem' = Effect(before, DoneTo(call, at + k))
          /\ E => Effect(before, DoneTo(call, at + k)) = Effect(before, call)
          /\ ~E => InString(before, call.q, at + k)
        BY <1>4, <1>5, <1>7, <1>8, <2>3, <3>1, StrCpyStep DEF d
    <3>3. stop' = E
      <4>1. d.fn = "strcpy" /\ d.n = k /\ k # 0 /\ d.q = call.q + at
          BY <1>5, <1>6, <2>3
      <4>2. CopierAborts(d, mem') = (d.n = 0 \/ \E j \in 0 .. d.n - 1 : mem[d.q + j] = 0)
          BY <4>1 DEF CopierAborts
      <4> QED BY <1>8, <4>1, <4>2
    <3>4. ~stop' => GoesOn(before, call, at + k)
        BY <2>3, <3>2, <3>3, GoesOnIs
    <3> QED BY <3>2, <3>3, <3>4
  <2>4. CASE call.fn = "memset"
    <3>1. mem' \in Bytes /\ mem' = Effect(before, DoneTo(call, at + k))
        BY <1>4, <1>5, <1>7, <1>8, <2>4, MemSetStep DEF d
    <3>2. stop' = FALSE /\ GoesOn(before, call, at + k)
        BY <1>2, <1>6, <1>8, <2>4, GoesOnIs DEF CopierAborts
    <3> QED BY <3>1, <3>2
  <2> QED BY <1>2, <2>1, <2>2, <2>3, <2>4 DEF Copying
<1>10. at + k = call.n => mem' = Effect(before, call)
  <2>1. at + k = call.n => DoneTo(call, at + k) = call
      BY <1>4 DEF DoneTo, Call
  <2> QED BY <2>1, <1>9
<1>11. IsResult(before, call, result)
    BY <1>2, <1>7, IsResultIs
<1>12. CallInv'
  <2>1. (PtrEqual(call) => stop)'
      BY <1>2, <1>7 DEF PtrEqual
  <2> QED BY <1>1, <1>2, <1>4, <1>5, <1>7, <1>9, <1>10, <1>11, <2>1 DEF CallInv, Over
<1>13. TypeOK'
  <2>1. at + k \in 0 .. MaxSize
      BY <1>4, <1>5, SizeAssumption
  <2> QED BY <1>1, <1>2, <1>9, <2>1 DEF Inv, TypeOK, Bytes
<1> QED BY <1>12, <1>13 DEF Inv

(* What a comparison looks at is memory. *)
LEMMA LegalCompare ==
  ASSUME NEW b \in Bytes, NEW c \in SupportedCalls(b), c.fn \in Comparing,
         NEW i \in Nat, i < c.n,
         \A j \in 0 .. i - 1 : ~Decides(b, c.p, c.q, j, c.fn # "memcmp")
  PROVE  b[c.p + i] \in Nat /\ b[c.q + i] \in Nat
<1>0. c.p \in Nat /\ c.q \in Nat /\ c.n \in Nat
    BY SupportedIsCall, CallFields
<1>1. PICK k \in 0 .. c.n : InOne(c.q, k) /\ InOne(c.p, Written(c, k)) /\ Enough(b, c, k)
    BY DEF SupportedCalls, LegalCalls, Legal
<1>2. Written(c, k) = k
    BY DEF Written, Comparing
<1>3. i < k
  <2>1. CASE k = c.n
      BY <2>1
  <2>2. CASE c.fn \in {"strncmp", "strcmp"} /\ \E j \in 0 .. k - 1 : Decides(b, c.p, c.q, j, TRUE)
    <3>1. PICK j \in 0 .. k - 1 : Decides(b, c.p, c.q, j, TRUE)
        BY <2>2
    <3>2. ~(j \in 0 .. i - 1)
        BY <3>1, <2>2
    <3> QED BY <3>2
  <2> QED BY <1>1, <2>1, <2>2 DEF Enough, Comparing
<1>4. c.p + i \in Span(c.p, k) /\ c.q + i \in Span(c.q, k)
    BY <1>0, <1>3 DEF Span
<1>5. c.p + i \in Addr /\ c.q + i \in Addr
    BY <1>1, <1>2, <1>4 DEF InOne, Addr
<1> QED BY <1>5, ValueAssumption DEF Bytes

(* One more piece of a comparison that found nothing in u bytes.           *)
LEMMA CompareStep ==
  ASSUME NEW b \in Bytes, NEW c \in SupportedCalls(b), StringsFill, c.fn \in Comparing,
         NEW u \in Nat, NEW k \in Nat, u + k <= c.n, GoesOn(b, c, u),
         NEW r \in Results(b, PieceFrom(c, u, k)),
         NEW e, e <=> c.fn = "strcmp" /\ r = 0 /\ \E j \in 0 .. k - 1 : b[(c.p + u) + j] = 0
  PROVE  /\ r # 0 \/ e \/ u + k = c.n => IsResult(b, c, r)
         /\ ~(r # 0 \/ e \/ u + k = c.n) => GoesOn(b, c, u + k)
<1> DEFINE s == c.fn # "memcmp"
           D(i) == Decides(b, c.p, c.q, i, s)
<1>0. c \in Call /\ c.p \in Nat /\ c.q \in Nat /\ c.n \in Nat
    BY SupportedIsCall, CallFields
<1>1. \A i \in 0 .. u - 1 : ~D(i)
    BY GoesOnIs DEF Comparing
<1>2. \A n \in Nat : (\A i \in 0 .. n - 1 : ~D(i)) => GoesOn(b, c, n)
    BY GoesOnIs DEF Comparing
<1>3. IsResult(b, c, r) <=> Compares(b, c.p, c.q, c.n, s, r)
    BY IsResultIs DEF Comparing
<1>4. Compares(b, c.p + u, c.q + u, k, s, r)
  <2>1. IsResult(b, PieceFrom(c, u, k), r)
      BY DEF Results
  <2> DEFINE d == PieceFrom(c, u, k)
  <2>2. d.fn = c.fn /\ d.p = c.p + u /\ d.q = c.q + u /\ d.n = k
      BY <1>0, PieceFields
  <2> HIDE DEF d
  <2>3. CASE c.fn = "memcmp"
      BY <2>1, <2>2, <2>3, IsResultIs DEF d
  <2>4. CASE c.fn \in {"strncmp", "strcmp"}
      BY <2>1, <2>2, <2>4, IsResultIs DEF d
  <2> QED BY <2>3, <2>4 DEF Comparing
<1>5. s \in BOOLEAN
    OBVIOUS
<1> HIDE DEF s
<1>6. \/ r = 0 /\ Undecided(b, c.p, c.q, u + k, s)
      \/ Compares(b, c.p, c.q, c.n, s, r) /\ DecidedFrom(b, c.p, c.q, u, k, s, r)
  <2>1. Undecided(b, c.p, c.q, u, s)
      BY <1>1 DEF Undecided
  <2> QED BY <2>1, <1>0, <1>4, <1>5, ComparesJoins, ZenonT(60)
<1>7. ASSUME r = 0, Undecided(b, c.p, c.q, u + k, s)
      PROVE  /\ r # 0 \/ e \/ u + k = c.n => IsResult(b, c, r)
             /\ GoesOn(b, c, u + k)
  <2>0. \A i \in 0 .. (u + k) - 1 : ~D(i)
      BY <1>7 DEF Undecided
  <2>1. ~e
    <3>1. ASSUME NEW j \in 0 .. k - 1, b[(c.p + u) + j] = 0, c.fn = "strcmp" PROVE FALSE
      <4>1. u + j \in 0 .. (u + k) - 1 /\ (c.p + u) + j = c.p + (u + j)
          BY <1>0
      <4>2. b[c.p + (u + j)] = 0
          BY <3>1, <4>1
      <4>3. s
          BY <3>1 DEF s
      <4>4. D(u + j)
          BY <4>2, <4>3 DEF Decides
      <4> QED BY <2>0, <4>1, <4>4
    <3> QED BY <3>1
  <2>2. u + k = c.n => Compares(b, c.p, c.q, c.n, s, r)
      BY <1>7, <2>0 DEF Compares
  <2>3. GoesOn(b, c, u + k)
      BY <1>2, <2>0
  <2> QED BY <1>3, <1>7, <2>1, <2>2, <2>3
<1>8. ASSUME DecidedFrom(b, c.p, c.q, u, k, s, r)
      PROVE  r # 0 \/ e \/ u + k = c.n
  <2>0. PICK i \in Nat : /\ u <= i /\ i < u + k /\ D(i)
                        /\ Undecided(b, c.p, c.q, i, s)
                        /\ r = Sign(b[c.p + i], b[c.q + i])
      BY <1>8 DEF DecidedFrom, DecidedAt
  <2> SUFFICES ASSUME r = 0, u + k # c.n PROVE e
      OBVIOUS
  <2>1. b[c.p + i] = b[c.q + i]
    <3>1. i < c.n
        BY <1>0, <2>0
    <3>2. b[c.p + i] \in Nat /\ b[c.q + i] \in Nat
        BY <3>1, <2>0, LegalCompare DEF s, Undecided
    <3> QED BY <3>2, <2>0, SignZero
  <2>2. s /\ b[c.p + i] = 0 /\ b[c.q + i] = 0
      BY <2>1, <2>0 DEF Decides
  <2>3. CASE c.fn = "strncmp"
    <3>1. i < c.n - 1
        BY <1>0, <2>0
    <3>2. PICK j \in 0 .. i - 1 : b[c.p + j] # b[c.q + j]
        BY <2>2, <2>3, <3>1, LegalStrNCmp
    <3> QED BY <3>2, <2>0 DEF Decides, Undecided
  <2>4. CASE c.fn = "strcmp"
    <3>1. i - u \in 0 .. k - 1 /\ (c.p + u) + (i - u) = c.p + i
        BY <1>0, <2>0
    <3>2. b[(c.p + u) + (i - u)] = 0
        BY <3>1, <2>2
    <3> QED BY <2>4, <3>1, <3>2
  <2> QED BY <2>2, <2>3, <2>4 DEF s, Comparing
<1> QED BY <1>3, <1>6, <1>7, <1>8

(* A piece is compared.                                                    *)
LEMMA CompareInv == ASSUME StringsFill, Inv, ComparePiece PROVE Inv'
<1>0. PICK k \in PieceSizes : \E r \in Results(mem, Piece(k)) :
        /\ result' = r
        /\ at' = at + k
        /\ stop' = (r # 0 \/ ComparatorDone(Piece(k), r))
    BY DEF ComparePiece
<1>1. PICK r \in Results(mem, Piece(k)) :
        /\ result' = r
        /\ at' = at + k
        /\ stop' = (r # 0 \/ ComparatorDone(Piece(k), r))
    BY <1>0
<1>2. /\ call' = call /\ mem' = mem /\ before' = before
      /\ call.fn \in Comparing /\ ~stop /\ at < call.n
    BY DEF ComparePiece, Looping
<1>3. call # NoCall
    BY <1>2 DEF Comparing, NoCall
<1>4. /\ call \in SupportedCalls(before) /\ call \in Call
      /\ before \in Bytes /\ mem \in Bytes
      /\ at \in Nat /\ call.n \in Nat /\ at <= call.n /\ call.n \in 0 .. MaxSize
      /\ call.p \in Nat /\ call.q \in Nat
      /\ CallInv
    BY <1>3, Running
<1>5. k \in Nat /\ at + k \in Nat /\ at + k <= call.n
  <2>1. TypeOK
      BY DEF Inv
  <2> QED BY <2>1, <1>2, <1>3, PieceSize
<1> DEFINE d == PieceFrom(call, at, k)
<1>6. Piece(k) = d /\ d.fn = call.fn /\ d.p = call.p + at /\ d.n = k
    BY <1>4, PieceFields DEF Piece, PieceFrom
<1>7. \A u : Effect(before, DoneTo(call, u)) = before
    BY <1>2, <1>4, DoneFields, EffectIs
<1>8. Effect(before, call) = before
    BY <1>2, EffectIs
<1>9. mem = before /\ GoesOn(before, call, at) /\ ~PtrEqual(call)
    BY <1>2, <1>4, <1>7 DEF CallInv, Over
<1> DEFINE e == call.fn = "strcmp" /\ r = 0 /\ \E j \in 0 .. k - 1 : before[(call.p + at) + j] = 0
<1>10. ComparatorDone(Piece(k), r) = e
  <2>1. ComparatorDone(d, r) = (d.fn = "strcmp" /\ r = 0 /\ \E j \in 0 .. d.n - 1 : mem[d.p + j] = 0)
      BY DEF ComparatorDone
  <2> QED BY <2>1, <1>6, <1>9
<1>11. stop' = (r # 0 \/ e)
    BY <1>1, <1>10
<1>12. r \in Results(before, PieceFrom(call, at, k))
    BY <1>6, <1>9
<1>13. /\ r # 0 \/ e \/ at + k = call.n => IsResult(before, call, r)
       /\ ~(r # 0 \/ e \/ at + k = call.n) => GoesOn(before, call, at + k)
  <2> HIDE DEF d
  <2>1. e <=> call.fn = "strcmp" /\ r = 0 /\ \E j \in 0 .. k - 1 : before[(call.p + at) + j] = 0
      OBVIOUS
  <2> HIDE DEF e
  <2> QED BY <2>1, <1>2, <1>4, <1>5, <1>9, <1>12, CompareStep
<1> HIDE DEF d, e
<1>14. CallInv'
  <2>1. (PtrEqual(call) => stop)'
      BY <1>2, <1>9 DEF PtrEqual
  <2>2. Over' <=> (r # 0 \/ e \/ at + k = call.n)
      BY <1>1, <1>2, <1>11 DEF Over
  <2>3. (Over => mem = Effect(before, call) /\ IsResult(before, call, result))'
      BY <2>2, <1>1, <1>2, <1>8, <1>9, <1>13
  <2>4. (~Over => GoesOn(before, call, at))'
      BY <2>2, <1>1, <1>2, <1>13
  <2>5. (mem = Effect(before, DoneTo(call, at)))'
      BY <1>1, <1>2, <1>7, <1>9
  <2> QED BY <1>1, <1>2, <1>4, <1>5, <2>1, <2>3, <2>4, <2>5 DEF CallInv
<1>15. TypeOK'
  <2>1. at + k \in 0 .. MaxSize
      BY <1>4, <1>5, SizeAssumption
  <2>2. r \in -1 .. MaxSize
      BY DEF Results
  <2>3. stop' \in BOOLEAN
      BY <1>11 DEF e
  <2> QED BY <1>1, <1>2, <2>1, <2>2, <2>3 DEF Inv, TypeOK
<1> QED BY <1>14, <1>15 DEF Inv

(* strlen counts a byte.                                                   *)
LEMMA CountInv == ASSUME StringsFill, Inv, CountByte PROVE Inv'
<1>1. /\ call' = call /\ mem' = mem /\ before' = before
      /\ call.fn = "strlen" /\ ~stop /\ at < call.n
      /\ stop' = (mem[call.p + at] = 0)
      /\ at' = (IF stop' THEN at ELSE at + 1)
      /\ result' = at
    BY DEF CountByte, Looping
<1>2. call # NoCall
    BY <1>1 DEF NoCall
<1>3. /\ call \in SupportedCalls(before) /\ call \in Call
      /\ before \in Bytes /\ mem \in Bytes
      /\ at \in Nat /\ call.n \in Nat /\ at <= call.n /\ call.n \in 0 .. MaxSize
      /\ call.p \in Nat /\ call.q \in Nat
      /\ CallInv
    BY <1>2, Running
<1>4. (\A u : Effect(before, DoneTo(call, u)) = before) /\ Effect(before, call) = before
    BY <1>1, <1>3, DoneFields, EffectIs
<1>5. mem = before /\ GoesOn(before, call, at) /\ ~PtrEqual(call)
    BY <1>1, <1>3, <1>4 DEF CallInv, Over
<1>6. InString(before, call.p, at)
    BY <1>1, <1>5, GoesOnIs
<1>7. ASSUME ~stop' PROVE at' = at + 1 /\ at + 1 < call.n /\ InString(before, call.p, at + 1)
  <2>1. before[call.p + at] # 0
      BY <1>1, <1>5, <1>7
  <2>2. InString(before, call.p, at + 1)
      BY <1>3, <1>6, <2>1 DEF InString
  <2>3. PICK j \in 0 .. call.n - 1 : before[call.p + j] = 0
      BY <1>1, <1>3, LegalStrLen
  <2>4. at + 1 # call.n
      BY <2>2, <2>3 DEF InString
  <2>5. at + 1 < call.n
      BY <1>1, <1>3, <2>4
  <2> QED BY <1>1, <1>7, <2>2, <2>5
<1>8. ASSUME stop' PROVE at' = at /\ IsResult(before, call, at)
  <2>1. mem[call.p + at] = 0 /\ at' = at
      BY <1>1, <1>8
  <2>2. before[call.p + at] = 0
      BY <2>1, <1>5
  <2>3. at >= 0
      BY <1>3
  <2> QED BY <1>1, <1>6, <2>1, <2>2, <2>3, IsResultIs
<1>9. stop' \in BOOLEAN
    BY <1>1
<1>10. at' \in Nat /\ at' <= call.n
    BY <1>3, <1>7, <1>8
<1>11. Over' => stop'
  <2>1. ~stop' => at' # call.n
      BY <1>3, <1>7
  <2> QED BY <2>1, <1>1 DEF Over
<1>12. CallInv'
  <2>1. (PtrEqual(call) => stop)'
      BY <1>1, <1>5 DEF PtrEqual
  <2>2. (Over => mem = Effect(before, call) /\ IsResult(before, call, result))'
      BY <1>1, <1>4, <1>5, <1>8, <1>11
  <2>3. (~Over => GoesOn(before, call, at))'
    <3>1. ~stop' => GoesOn(before, call, at + 1)
        BY <1>1, <1>7, GoesOnIs
    <3> QED BY <3>1, <1>1, <1>7 DEF Over
  <2>4. (mem = Effect(before, DoneTo(call, at)))'
      BY <1>1, <1>4, <1>5
  <2> QED BY <1>1, <1>3, <1>10, <2>1, <2>2, <2>3, <2>4 DEF CallInv
<1>13. TypeOK'
  <2>1. at' \in 0 .. MaxSize /\ at \in -1 .. MaxSize
      BY <1>3, <1>10, SizeAssumption
  <2> QED BY <1>1, <1>9, <2>1 DEF Inv, TypeOK
<1> QED BY <1>12, <1>13 DEF Inv

(* The call returns.                                                       *)
LEMMA ReturnInv == ASSUME Inv, ReturnCall PROVE Inv'
<1>1. call' = NoCall /\ at' = 0 /\ stop' = FALSE /\ before' = mem /\ mem' = mem /\ result' = result
    BY DEF ReturnCall
<1>2. 0 \in 0 .. MaxSize
    BY SizeAssumption
<1> QED BY <1>1, <1>2 DEF Inv, TypeOK

(* Every step keeps the invariant.                                         *)
LEMMA NextInv == ASSUME StringsFill, Inv, [NextOverloads]_vars PROVE Inv'
<1>1. CASE BeginCall
    BY <1>1, BeginInv
<1>2. CASE CopyPiece
    BY <1>2, CopyInv
<1>3. CASE ComparePiece
    BY <1>3, CompareInv
<1>4. CASE CountByte
    BY <1>4, CountInv
<1>5. CASE ReturnCall
    BY <1>5, ReturnInv
<1>6. CASE UNCHANGED vars
    BY <1>6 DEF vars, Inv, TypeOK, CallInv, Over
<1> QED BY <1>1, <1>2, <1>3, <1>4, <1>5, <1>6 DEF NextOverloads, Work

-----------------------------------------------------------------------------
(* However the operands are cut into pieces, a call keeps its count within *)
(* its size and its result within what the function can return.            *)
THEOREM TypeTheorem == ASSUME StringsFill PROVE SpecOverloads => []TypeOK
<1>1. Inv => TypeOK
    BY DEF Inv
<1>2. InitOverloads => Inv
    BY InitInv
<1>3. Inv /\ [NextOverloads]_vars => Inv'
    BY NextInv
<1> QED BY <1>1, <1>2, <1>3, PTL DEF SpecOverloads

(* While a function runs, what it did is what C would have done with the   *)
(* bytes so far, and it goes on only where C would (rawCopy, rawCompare).  *)
THEOREM PiecesJoinTheorem == ASSUME StringsFill PROVE SpecOverloads => []PiecesJoin
<1>1. Inv => PiecesJoin
  <2> SUFFICES ASSUME Inv, call # NoCall
               PROVE  mem = Effect(before, DoneSoFar) /\ (~stop /\ at < call.n => GoesOn(before, call, at))
      BY DEF PiecesJoin
  <2>1. CallInv /\ at \in Nat /\ call.n \in Nat
      BY Running
  <2>2. mem = Effect(before, DoneSoFar)
      BY <2>1 DEF CallInv, DoneTo, DoneSoFar
  <2> QED BY <2>1, <2>2 DEF CallInv, Over
<1>2. InitOverloads => Inv
    BY InitInv
<1>3. Inv /\ [NextOverloads]_vars => Inv'
    BY NextInv
<1> QED BY <1>1, <1>2, <1>3, PTL DEF SpecOverloads

-----------------------------------------------------------------------------
(* The operators of the instance are those of the module it refines.       *)
LEMMA SameEffect == ASSUME NEW m, NEW c PROVE C!Effect(m, c) = Effect(m, c)
<1>1. \A p, q, n : C!MemCpy(m, p, q, n) = MemCpy(m, p, q, n)
    BY DEF C!MemCpy, MemCpy, C!Span, Span
<1>2. \A p, q, n : C!StrNCpy(m, p, q, n) = StrNCpy(m, p, q, n)
    BY DEF C!StrNCpy, StrNCpy, C!Span, Span, C!InString, InString
<1>3. \A p, q, n : C!StrCpy(m, p, q, n) = StrCpy(m, p, q, n)
    BY DEF C!StrCpy, StrCpy, C!Span, Span, C!InString, InString
<1>4. \A p, v, n : C!MemSet(m, p, v, n) = MemSet(m, p, v, n)
    BY DEF C!MemSet, MemSet, C!Span, Span
<1> QED BY <1>1, <1>2, <1>3, <1>4 DEF C!Effect, Effect

(* The results of the overloads are those of the C functions.              *)
LEMMA SameResults == ASSUME NEW m, NEW c PROVE C!Results(m, c) = Results(m, c)
<1>1. \A p, q, k, strings : C!Decides(m, p, q, k, strings) = Decides(m, p, q, k, strings)
    BY DEF C!Decides, Decides
<1>2. \A p, q, n, strings, r : C!Compares(m, p, q, n, strings, r) = Compares(m, p, q, n, strings, r)
    BY DEF C!Compares, Compares, C!Decides, Decides, C!Sign, Sign
<1>3. ASSUME NEW r PROVE C!IsResult(m, c, r) <=> IsResult(m, c, r)
  <2>1. \A strings : C!Compares(m, c.p, c.q, c.n, strings, r) = Compares(m, c.p, c.q, c.n, strings, r)
      BY <1>2
  <2>2. CASE c.fn = "memcmp"
    <3>1. C!IsResult(m, c, r) = C!Compares(m, c.p, c.q, c.n, FALSE, r)
        BY <2>2 DEF C!IsResult
    <3> QED BY <2>1, <2>2, <3>1, IsResultIs
  <2>3. CASE c.fn \in {"strncmp", "strcmp"}
    <3>1. C!IsResult(m, c, r) = C!Compares(m, c.p, c.q, c.n, TRUE, r)
        BY <2>3 DEF C!IsResult
    <3> QED BY <2>1, <2>3, <3>1, IsResultIs
  <2>4. CASE c.fn \notin {"memcmp", "strncmp", "strcmp"}
      BY <2>4 DEF C!IsResult, IsResult, C!InString, InString
  <2> QED BY <2>2, <2>3, <2>4
<1> QED BY <1>3 DEF C!Results, Results

(* And so are the calls.                                                   *)
LEMMA SameCalls == ASSUME NEW m PROVE C!LegalCalls(m) = LegalCalls(m)
<1>1. C!Call = Call
    BY DEF C!Call, Call, C!Function, Function, C!Copying, Copying, C!Comparing, Comparing,
           C!Addr, Addr, C!Endless, Endless
<1>2. ASSUME NEW c PROVE C!Legal(m, c) = Legal(m, c)
    BY DEF C!Legal, Legal, C!InOne, InOne, C!Written, Written, C!Enough, Enough, C!Decides, Decides,
           C!Disjoint, Disjoint, C!Span, Span, C!Copying, Copying
<1> QED BY <1>1, <1>2 DEF C!LegalCalls, LegalCalls

(* A call on virtual pointers has the effect and the result of the C       *)
(* function of its name: the overloads implement the abstract library.     *)
THEOREM OverloadsRefineTheorem == ASSUME StringsFill PROVE SpecOverloads => ImplementsCLibrary
<1>1. InitOverloads => C!Init
    BY DEF InitOverloads, Init, C!Init, C!NoCall, NoCall, C!Addr, Addr
<1>2. Inv /\ [NextOverloads]_vars => [C!Next]_(C!cVars)
  <2> SUFFICES ASSUME Inv, [NextOverloads]_vars PROVE [C!Next]_(C!cVars)
      OBVIOUS
  <2>1. CASE BeginCall
    <3>1. /\ call = NoCall /\ call' \in SupportedCalls(mem) /\ result' = 0 /\ mem' = mem
          /\ before' = mem
        BY <2>1 DEF BeginCall, Begin
    <3>2. call' # NoCall /\ call' \in LegalCalls(mem)
        BY <3>1, SupportedIsCall, NoCallIsNone DEF SupportedCalls
    <3>3. C!Begin
        BY <3>1, <3>2, SameCalls DEF C!Begin, C!NoCall, NoCall
    <3> QED BY <3>3 DEF C!Next
  <2>2. CASE CopyPiece \/ ComparePiece \/ CountByte
    <3>1. call' = call /\ before' = before /\ call # NoCall
        BY <2>2 DEF CopyPiece, ComparePiece, CountByte, Looping, NoCall, Copying, Comparing
    <3> QED BY <3>1 DEF C!cVars
  <2>3. CASE ReturnCall
    <3>1. call # NoCall /\ call' = NoCall /\ mem' = mem /\ result' = result /\ Over
        BY <2>3 DEF ReturnCall, Over
    <3>2. mem = Effect(before, call) /\ IsResult(before, call, result) /\ result \in -1 .. MaxSize
      <4>1. CallInv /\ TypeOK
          BY <3>1, Running DEF Inv
      <4> QED BY <4>1, <3>1 DEF CallInv, TypeOK
    <3>3. result \in Results(before, call)
        BY <3>2 DEF Results
    <3>4. C!Return
        BY <3>1, <3>2, <3>3, SameEffect, SameResults DEF C!Return, C!NoCall, NoCall
    <3> QED BY <3>4 DEF C!Next
  <2>4. CASE UNCHANGED vars
      BY <2>4 DEF vars, C!cVars
  <2> QED BY <2>1, <2>2, <2>3, <2>4 DEF NextOverloads, Work
<1>3. InitOverloads => Inv
    BY InitInv
<1>4. Inv /\ [NextOverloads]_vars => Inv'
    BY NextInv
<1> QED BY <1>1, <1>2, <1>3, <1>4, PTL DEF SpecOverloads, ImplementsCLibrary, C!Spec
=============================================================================
