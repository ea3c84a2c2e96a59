--------------------------- MODULE SpiChipsProofs ---------------------------
EXTENDS SpiChips, TLAPS, WellFoundedInduction

(* Induction up to n, for a set of numbers.                                *)
LEMMA UpTo ==
  ASSUME NEW n \in Nat, NEW G, 0 \in G, \A k \in 0 .. n : k # n /\ k \in G => k + 1 \in G
  PROVE  \A k \in 0 .. n : k \in G
<1> DEFINE Out == {k \in 0 .. n : k \notin G}
<1> SUFFICES ASSUME Out # {} PROVE FALSE
    OBVIOUS
<1>1. Out \subseteq Nat
    OBVIOUS
<1> HIDE DEF Out
<1>2. PICK m \in Out : \A y \in Out : ~(<<y, m>> \in OpToRel(<, Nat))
    BY <1>1, NatLessThanWellFounded, WFMin
<1>3. \A y \in Out : ~(y < m)
    BY <1>1, <1>2 DEF OpToRel
<1> USE DEF Out
<1>4. m \in 0 .. n /\ m # 0
    BY <1>3
<1>5. m - 1 \in 0 .. n /\ m - 1 # n /\ m - 1 + 1 = m /\ m - 1 < m
    BY <1>4
<1>6. m - 1 \in G
    BY <1>3, <1>5
<1> QED BY <1>3, <1>5, <1>6

-----------------------------------------------------------------------------
(* What the script does                                                    *)

(* A transfer x: build, chip and its size, the first byte it is sent, the  *)
(* number of bytes of the address, the address, the data, and whether the  *)
(* answers are kept.                                                       *)
Transfers == [build : {"plain", "fifo"}, chip : Nat, size : Nat, code : Nat, n : 0 .. 4, address : Nat,
              data : Seq(Nat), keep : BOOLEAN]
AddressByte(x, m) == (x.address \div Weight[x.n - m + 1]) % ByteBase
StreamByte(x, m) ==
    IF m = 1 THEN x.code ELSE IF m <= 1 + x.n THEN AddressByte(x, m - 1) ELSE x.data[m - 1 - x.n]
Total(x) == 1 + x.n + Len(x.data)
(* The first words have one byte, the others two.                          *)
Single(x) == IF x.build = "plain" \/ Len(x.data) = 1 THEN Total(x) ELSE (1 + x.n) + (Len(x.data) % 2)
LastWord(x) == Single(x) + ((Total(x) - Single(x)) \div 2)
(* The bytes of the first j words. *)
Off(x, j) == IF j <= Single(x) THEN j ELSE 2 * j - Single(x)
WordAt(x, j) == Send([m \in 1 .. Off(x, j) - Off(x, j - 1) |-> StreamByte(x, Off(x, j - 1) + m)],
                     j # LastWord(x), x.keep /\ Off(x, j - 1) >= 1 + x.n)

(* How far a script is: words that were pushed, answers taken, whether the *)
(* chip is deselected (1) or the transfer has begun (2), and open.         *)
At(b, c, l, o) == [pushed |-> b, taken |-> c, low |-> l, open |-> o]
Does(x, u, item, v) ==
    \/ x.build = "plain" /\ item = High(x.chip) /\ u.pushed = 0 /\ u.taken = 0 /\ u.low = 0 /\ v = At(0, 0, 1, u.open)
    \/ /\ item = Low(x.chip) /\ u.pushed = 0 /\ u.taken = 0 /\ (u.low = 1 \/ (x.build = "fifo" /\ u.low = 0))
       /\ v = At(0, 0, 2, TRUE)
    \/ /\ u.low = 2 /\ u.pushed < LastWord(x) /\ item = WordAt(x, u.pushed + 1)
       /\ v = At(u.pushed + 1, IF x.build = "plain" THEN u.pushed + 1 ELSE u.taken, 2, u.open)
       /\ v.pushed - v.taken <= FifoSize
    \/ /\ u.low = 2 /\ x.build = "fifo" /\ u.taken < u.pushed /\ item = Receive(WordAt(x, u.taken + 1).keep)
       /\ v = At(u.pushed, u.taken + 1, 2, u.open)
    \/ /\ u.low = 2 /\ item = EndTransaction /\ u.pushed = LastWord(x) /\ u.taken = LastWord(x)
       /\ v = At(u.pushed, u.taken, 2, FALSE)
Item == [do : {"high", "low"}, chip : Nat] \cup [do : {"send"}, bytes : Seq(Nat), more : BOOLEAN, keep : BOOLEAN]
        \cup [do : {"receive"}, keep : BOOLEAN] \cup [do : {"end"}]
Seg(x, s, u, v) ==
    s \in Seq(Item) /\ \E G : G[0] = u /\ G[Len(s)] = v /\ \A j \in 1 .. Len(s) : Does(x, G[j - 1], s[j], G[j])

(* A script of nothing, of one item,                                       *)
LEMMA SegNone ==
  ASSUME NEW x, NEW u
  PROVE  Seg(x, <<>>, u, u)
<1> DEFINE G == [j \in {0} |-> u]
<1>1. G[0] = u /\ Len(<<>>) = 0 /\ <<>> \in Seq(Item)
    OBVIOUS
<1> HIDE DEF G
<1> QED BY <1>1 DEF Seg
(* A script of one item. *)
LEMMA SegItem ==
  ASSUME NEW x, NEW u, NEW v, NEW item \in Item, Does(x, u, item, v)
  PROVE  Seg(x, <<item>>, u, v)
<1> DEFINE G == [j \in {0, 1} |-> IF j = 0 THEN u ELSE v]
           s == <<item>>
<1>1. G[0] = u /\ G[1] = v /\ Len(s) = 1 /\ s \in Seq(Item) /\ s[1] = item
    OBVIOUS
<1> HIDE DEF G, s
<1>2. \A j \in 1 .. Len(s) : Does(x, G[j - 1], s[j], G[j])
  <2> SUFFICES ASSUME NEW j \in 1 .. Len(s) PROVE Does(x, G[j - 1], s[j], G[j])
      OBVIOUS
  <2>1. j = 1 /\ j - 1 = 0
      BY <1>1
  <2> QED BY <1>1, <2>1
<1>3. Seg(x, s, u, v)
    BY <1>1, <1>2 DEF Seg
<1> QED BY <1>3 DEF s
(* and of one part after the other.                                        *)
LEMMA SegJoin ==
  ASSUME NEW x, NEW s, NEW t, NEW u, NEW v, NEW w, Seg(x, s, u, v), Seg(x, t, v, w)
  PROVE  Seg(x, s \o t, u, w)
<1>1. s \in Seq(Item) /\ t \in Seq(Item)
    BY DEF Seg
<1>2. PICK F : F[0] = u /\ F[Len(s)] = v /\ \A j \in 1 .. Len(s) : Does(x, F[j - 1], s[j], F[j])
    BY DEF Seg
<1>3. PICK H : H[0] = v /\ H[Len(t)] = w /\ \A j \in 1 .. Len(t) : Does(x, H[j - 1], t[j], H[j])
    BY DEF Seg
<1> DEFINE m == Len(s)
           n == Len(t)
           r == s \o t
           G == [j \in 0 .. m + n |-> IF j <= m THEN F[j] ELSE H[j - m]]
<1>4. m \in Nat /\ n \in Nat /\ r \in Seq(Item) /\ Len(r) = m + n
      /\ (\A j \in 1 .. m : r[j] = s[j]) /\ \A j \in m + 1 .. m + n : r[j] = t[j - m]
    BY <1>1
<1>5. m = Len(s) /\ n = Len(t)
    OBVIOUS
<1> HIDE DEF m, n, r
<1>6. G[0] = u /\ G[m + n] = w
  <2>1. 0 \in 0 .. m + n /\ m + n \in 0 .. m + n /\ 0 <= m /\ (m + n <= m => n = 0) /\ m + n - m = n
      BY <1>4
  <2>2. F[0] = u /\ F[m] = v /\ H[0] = v /\ H[n] = w
      BY <1>2, <1>3, <1>5
  <2>3. G[0] = u
      BY <2>1, <2>2
  <2>4. CASE m + n <= m
    <3>1. n = 0 /\ m + n = m
        BY <1>4, <2>1, <2>4
    <3>2. G[m + n] = F[m + n]
        BY <2>1, <2>4
    <3>3. v = w
        BY <2>2, <3>1
    <3> QED BY <2>2, <2>3, <3>1, <3>2, <3>3
  <2>5. CASE ~(m + n <= m)
    <3>1. G[m + n] = H[(m + n) - m]
        BY <2>1, <2>5
    <3>2. (m + n) - m = n
        BY <1>4
    <3>3. H[(m + n) - m] = w
        BY <2>2, <3>2
    <3> QED BY <2>3, <3>1, <3>3
  <2> QED BY <2>4, <2>5
<1>7. ASSUME NEW j \in 1 .. m + n PROVE Does(x, G[j - 1], r[j], G[j])
  <2>1. CASE j <= m
    <3>1. j \in 1 .. m /\ j - 1 \in 0 .. m + n /\ j \in 0 .. m + n /\ j - 1 <= m
        BY <1>4, <2>1
    <3>2. G[j - 1] = F[j - 1] /\ G[j] = F[j]
        BY <2>1, <3>1
    <3> HIDE DEF G
    <3> QED BY <1>2, <1>4, <1>5, <3>1, <3>2
  <2>2. CASE ~(j <= m)
    <3>1. j - m \in 1 .. n /\ j \in m + 1 .. m + n /\ j - 1 \in 0 .. m + n /\ j \in 0 .. m + n /\ j - m - 1 = j - 1 - m
          /\ (j - 1 <= m => j - 1 = m /\ j - 1 - m = 0)
        BY <1>4, <2>2
    <3>2. G[j - 1] = H[j - m - 1]
        BY <1>2, <1>3, <1>5, <3>1
    <3>3. G[j] = H[j - m]
        BY <2>2, <3>1
    <3> HIDE DEF G
    <3> QED BY <1>3, <1>4, <1>5, <3>1, <3>2, <3>3
  <2> QED BY <2>1, <2>2
<1> HIDE DEF G
<1>8. Seg(x, r, u, w)
    BY <1>4, <1>6, <1>7 DEF Seg
<1> QED BY <1>8 DEF r
(* The first item is done, and the others are left.                        *)
LEMMA SegHead ==
  ASSUME NEW x, NEW s, NEW u, NEW w, Seg(x, s, u, w), s # <<>>
  PROVE  \E v : Does(x, u, Head(s), v) /\ Seg(x, Tail(s), v, w)
<1>1. PICK F : F[0] = u /\ F[Len(s)] = w /\ \A j \in 1 .. Len(s) : Does(x, F[j - 1], s[j], F[j])
    BY DEF Seg
<1> DEFINE m == Len(s) - 1
           t == Tail(s)
           G == [j \in 0 .. m |-> F[j + 1]]
<1>2. s \in Seq(Item)
    BY DEF Seg
<1>3. m \in Nat /\ Len(s) = m + 1 /\ t \in Seq(Item) /\ Len(t) = m /\ Head(s) = s[1] /\ \A j \in 1 .. m : t[j] = s[j + 1]
    BY <1>2
<1> HIDE DEF m, t
<1>4. 1 \in 1 .. Len(s) /\ 1 - 1 = 0
    BY <1>3
<1>5. Does(x, u, Head(s), F[1])
    BY <1>1, <1>3, <1>4
<1>6. G[0] = F[1] /\ G[Len(t)] = w
    BY <1>1, <1>3
<1>7. ASSUME NEW j \in 1 .. Len(t) PROVE Does(x, G[j - 1], t[j], G[j])
  <2>1. j + 1 \in 1 .. Len(s) /\ j + 1 - 1 = j /\ j - 1 \in 0 .. m /\ j \in 0 .. m /\ j - 1 + 1 = j /\ j \in 1 .. m
      BY <1>3
  <2>2. G[j - 1] = F[j] /\ G[j] = F[j + 1]
      BY <2>1
  <2>3. Does(x, F[j + 1 - 1], s[j + 1], F[j + 1])
      BY <1>1, <2>1
  <2> HIDE DEF G
  <2> QED BY <1>3, <2>1, <2>2, <2>3
<1> HIDE DEF G
<1>8. Seg(x, t, F[1], w)
    BY <1>3, <1>6, <1>7 DEF Seg
<1> QED BY <1>5, <1>8 DEF t

(* The function in FlattenSeq.                                             *)
Glue(s, t) == s \o t
IsFlat(f, ss, n) == f = [j \in 1 .. n |-> IF j = 1 THEN ss[j] ELSE Glue(f[j - 1], ss[j])]
(* It exists.                                                              *)
LEMMA FlatExists ==
  ASSUME NEW ss, NEW n \in Nat
  PROVE  \E f : IsFlat(f, ss, n)
<1> DEFINE G == {k \in 0 .. n : \E f : IsFlat(f, ss, k)}
<1>1. 0 \in G
  <2> DEFINE f == [j \in 1 .. 0 |-> 0]
  <2>1. f = [j \in 1 .. 0 |-> IF j = 1 THEN ss[j] ELSE Glue(f[j - 1], ss[j])]
      OBVIOUS
  <2> HIDE DEF f
  <2>2. IsFlat(f, ss, 0)
      BY <2>1 DEF IsFlat
  <2> QED BY <2>2
<1>2. ASSUME NEW k \in 0 .. n, k # n, k \in G PROVE k + 1 \in G
  <2>1. PICK f : IsFlat(f, ss, k)
      BY <1>2
  <2> DEFINE g == [j \in 1 .. k + 1 |-> IF j <= k THEN f[j] ELSE IF k = 0 THEN ss[j] ELSE Glue(f[k], ss[j])]
             e == [j \in 1 .. k + 1 |-> IF j = 1 THEN ss[j] ELSE Glue(g[j - 1], ss[j])]
  <2>2. ASSUME NEW j \in 1 .. k + 1 PROVE g[j] = e[j]
    <3>1. CASE j = k + 1
      <4>1. ~(j <= k) /\ j - 1 = k /\ (j = 1 <=> k = 0) /\ (k # 0 => k \in 1 .. k + 1 /\ k <= k)
          BY <3>1
      <4> QED BY <3>1, <4>1
    <3>2. CASE j # k + 1
      <4>1. j \in 1 .. k /\ j <= k /\ g[j] = f[j]
          BY <3>2
      <4>2. f[j] = IF j = 1 THEN ss[j] ELSE Glue(f[j - 1], ss[j])
          BY <2>1, <4>1 DEF IsFlat
      <4>3. j # 1 => j - 1 \in 1 .. k + 1 /\ g[j - 1] = f[j - 1]
          BY <4>1
      <4> QED BY <4>1, <4>2, <4>3
    <3> QED BY <3>1, <3>2
  <2>3. g = e
      BY <2>2
  <2> HIDE DEF g
  <2>4. IsFlat(g, ss, k + 1)
      BY <2>3 DEF IsFlat
  <2>5. k + 1 \in 0 .. n
      BY <1>2
  <2> QED BY <2>4, <2>5
<1> HIDE DEF G
<1>3. n \in G
    BY <1>1, <1>2, UpTo
<1> QED BY <1>3 DEF G

(* A script put together from a sequence of parts.                         *)
LEMMA SegFlat ==
  ASSUME NEW x, NEW n \in Nat, NEW ss \in Seq(Seq(Item)), Len(ss) = n, NEW P,
         \A j \in 1 .. n : Seg(x, ss[j], P[j - 1], P[j])
  PROVE  Seg(x, FlattenSeq(ss), P[0], P[n])
<1>1. CASE n = 0
  <2>1. ss = <<>>
      BY <1>1
  <2>2. FlattenSeq(ss) = <<>>
      BY <2>1 DEF FlattenSeq
  <2> QED BY <1>1, <2>2, SegNone
<1>2. CASE n # 0
  <2> DEFINE f == CHOOSE f : IsFlat(f, ss, n)
             G == {k \in 0 .. n : k # 0 => Seg(x, f[k], P[0], P[k])}
  <2>1. IsFlat(f, ss, n)
      BY FlatExists
  <2>2. FlattenSeq(ss) = f[n]
      BY <1>2 DEF FlattenSeq, IsFlat, Glue
  <2> HIDE DEF f
  <2>3. 0 \in G
      OBVIOUS
  <2>4. ASSUME NEW k \in 0 .. n, k # n, k \in G PROVE k + 1 \in G
    <3>1. k + 1 \in 0 .. n /\ k + 1 \in 1 .. n /\ k + 1 - 1 = k /\ (k + 1 = 1 <=> k = 0)
        BY <2>4
    <3>2. f[k + 1] = IF k = 0 THEN ss[k + 1] ELSE Glue(f[k], ss[k + 1])
      <4> HIDE DEF G
      <4>1. f[k + 1] = IF k + 1 = 1 THEN ss[k + 1] ELSE Glue(f[k + 1 - 1], ss[k + 1])
          BY <2>1, <3>1 DEF IsFlat
      <4> QED BY <3>1, <4>1
    <3>3. Seg(x, ss[k + 1], P[k], P[k + 1])
        BY <3>1
    <3>4. CASE k = 0
        BY <3>1, <3>2, <3>3, <3>4
    <3>5. CASE k # 0
        BY <2>4, <3>1, <3>2, <3>3, <3>5, SegJoin DEF Glue
    <3> QED BY <3>4, <3>5
  <2> HIDE DEF G
  <2>7. \A k \in 0 .. n : k # n /\ k \in G => k + 1 \in G
      BY <2>4
  <2>8. \A k \in 0 .. n : k \in G
      BY <2>3, <2>7, UpTo
  <2>5. n \in G
    <3> HIDE DEF G
    <3>1. n \in 0 .. n
        OBVIOUS
    <3> QED BY <2>8, <3>1
  <2>6. Seg(x, f[n], P[0], P[n])
      BY <1>2, <2>5 DEF G
  <2> QED BY <2>2, <2>6
<1> QED BY <1>1, <1>2

-----------------------------------------------------------------------------
(* Words                                                                   *)

(* Quotients and rests.                                                    *)
LEMMA Quotient ==
  ASSUME NEW a \in Nat, NEW w \in Nat \ {0}
  PROVE  /\ a \div w \in Nat /\ a % w \in 0 .. w - 1 /\ w * (a \div w) \in Nat
         /\ a = w * (a \div w) + (a % w)
<1>1. a \div w \in Nat /\ a % w \in 0 .. w - 1
    OBVIOUS
<1>2. w * (a \div w) \in Nat
    BY <1>1
<1>3. a % w = a - w * (a \div w)
    OBVIOUS
<1> QED BY <1>1, <1>2, <1>3
(* Division by two. *)
LEMMA Halves ==
  ASSUME NEW p \in Nat
  PROVE  p \div 2 \in Nat /\ p % 2 \in {0, 1} /\ p = 2 * (p \div 2) + (p % 2) /\ (2 * p) \div 2 = p
<1>1. (2 * p) \div 2 = p
    OBVIOUS
<1>2. p \div 2 \in Nat /\ p % 2 \in 0 .. 2 - 1 /\ p = 2 * (p \div 2) + (p % 2)
    BY Quotient
<1> QED BY <1>1, <1>2

TransferOK(x) == x \in Transfers /\ Len(x.data) >= 1

(* How many words there are, and of how many bytes.                        *)
LEMMA Words ==
  ASSUME NEW x, TransferOK(x)
  PROVE  /\ Total(x) \in Nat /\ Single(x) \in Nat /\ LastWord(x) \in Nat
         /\ x.n \in Nat /\ Single(x) >= 1 + x.n /\ LastWord(x) >= Single(x) /\ LastWord(x) >= 2
         /\ Total(x) = Single(x) + 2 * (LastWord(x) - Single(x)) /\ Total(x) >= 2 + x.n
         /\ x.build = "plain" => LastWord(x) = Single(x)
<1> DEFINE n == x.n
           p == Len(x.data)
           t == Total(x)
           w == Single(x)
           e == LastWord(x)
<1>1. n \in Nat /\ p \in Nat /\ p >= 1
    BY DEF TransferOK, Transfers
<1>2. t = 1 + n + p
    BY DEF Total
<1>3. w = IF x.build = "plain" \/ p = 1 THEN t ELSE (1 + n) + (p % 2)
    BY DEF Single
<1>4. e = w + ((t - w) \div 2)
    BY DEF LastWord
<1> SUFFICES /\ t \in Nat /\ w \in Nat /\ e \in Nat /\ n \in Nat /\ w >= 1 + n /\ e >= w /\ e >= 2
             /\ t = w + 2 * (e - w) /\ t >= 2 + n /\ (x.build = "plain" => e = w)
    OBVIOUS
<1> HIDE DEF n, p, t, w, e
<1>5. t \in Nat /\ t >= 2 + n
    BY <1>1, <1>2
<1>6. p \div 2 \in Nat /\ p % 2 \in {0, 1} /\ p = 2 * (p \div 2) + (p % 2)
    BY <1>1, Halves
<1>7. CASE w = t
  <2>1. (t - w) \div 2 = 0
      BY <1>5, <1>7
  <2>2. e = t
      BY <1>4, <1>5, <1>7, <2>1
  <2>3. w + 2 * (e - w) = t
      BY <1>5, <1>7, <2>2
  <2> QED BY <1>1, <1>5, <1>7, <2>2, <2>3
<1>8. CASE w # t
  <2>1. w = 1 + n + (p % 2) /\ x.build # "plain" /\ p # 1
      BY <1>1, <1>3, <1>6, <1>8
  <2>2. w \in Nat /\ t - w = 2 * (p \div 2)
      BY <1>1, <1>2, <1>6, <2>1
  <2>3. (t - w) \div 2 = p \div 2
      BY <1>6, <2>2, Halves
  <2>4. e = w + (p \div 2)
      BY <1>4, <2>3
  <2> QED BY <1>1, <1>5, <1>6, <2>1, <2>2, <2>4
<1> QED BY <1>7, <1>8

(* The words cut the bytes of a transfer without a gap. *)
LEMMA Offs ==
  ASSUME NEW x, TransferOK(x), NEW j \in 0 .. LastWord(x)
  PROVE  /\ Off(x, j) \in 0 .. Total(x) /\ Off(x, 0) = 0 /\ Off(x, LastWord(x)) = Total(x)
         /\ j < LastWord(x) => Off(x, j) < Total(x)
         /\ j >= 1 => Off(x, j) >= 1
         /\ j < LastWord(x) => Off(x, j + 1) - Off(x, j) = IF j < Single(x) THEN 1 ELSE 2
BY Words DEF Off

(* Every byte of a transfer is a number. *)
LEMMA StreamNat ==
  ASSUME NEW x, TransferOK(x), NEW m \in 1 .. Total(x)
  PROVE  StreamByte(x, m) \in Nat
<1>1. x.n \in 0 .. 4 /\ x.code \in Nat /\ x.data \in Seq(Nat) /\ x.address \in Nat /\ Len(x.data) \in Nat
    BY DEF TransferOK, Transfers
<1>2. ByteBase \in Nat \ {0}
    BY ChipAssumption
<1>3. CASE m = 1
    BY <1>1, <1>3 DEF StreamByte
<1>4. CASE m # 1 /\ m <= 1 + x.n
  <2> DEFINE k == x.n - (m - 1) + 1
             W == Weight[k]
  <2>1. k \in 1 .. 4
      BY <1>1, <1>4
  <2> HIDE DEF k
  <2>2. W \in Nat \ {0}
    <3>1. \A p, q \in Nat \ {0} : p * q \in Nat \ {0}
        OBVIOUS
    <3>2. ByteBase * ByteBase \in Nat \ {0} /\ ByteBase * ByteBase * ByteBase \in Nat \ {0}
        BY <1>2, <3>1
    <3> QED BY <1>2, <2>1, <3>2 DEF Weight
  <2> HIDE DEF W
  <2>3. x.address \div W \in Nat
      BY <1>1, <2>2, Quotient
  <2>4. (x.address \div W) % ByteBase \in Nat
      BY <1>2, <2>3, Quotient
  <2> QED BY <1>1, <1>4, <2>4 DEF StreamByte, AddressByte, W, k
<1>5. CASE m > 1 + x.n
  <2>1. m # 1 /\ ~(m <= 1 + x.n) /\ m - 1 - x.n \in 1 .. Len(x.data)
    <3> DEFINE d == Len(x.data)
               k == x.n
    <3>1. Total(x) = 1 + k + d /\ d \in Nat /\ k \in Nat /\ m > 1 + k
        BY <1>1, <1>5 DEF Total
    <3>2. Total(x) \in Nat
        BY <3>1
    <3> HIDE DEF d, k
    <3>3. m # 1 /\ ~(m <= 1 + k) /\ m - 1 - k \in 1 .. d
        BY <3>1, <3>2
    <3> QED BY <3>3 DEF d, k
  <2>2. x.data[m - 1 - x.n] \in Nat
      BY <1>1, <2>1
  <2> QED BY <2>1, <2>2 DEF StreamByte
<1> QED BY <1>1, <1>3, <1>4, <1>5

(* What a word is made of. *)
LEMMA WordFields ==
  ASSUME NEW x, TransferOK(x), NEW j \in 1 .. LastWord(x)
  PROVE  /\ WordAt(x, j) \in Item /\ WordAt(x, j).do = "send" /\ WordAt(x, j).keep \in BOOLEAN
         /\ WordAt(x, j).more = (j # LastWord(x))
         /\ Len(WordAt(x, j).bytes) = Off(x, j) - Off(x, j - 1)
         /\ Off(x, j) - Off(x, j - 1) = IF j <= Single(x) THEN 1 ELSE 2
         /\ \A m \in 1 .. Off(x, j) - Off(x, j - 1) : WordAt(x, j).bytes[m] = StreamByte(x, Off(x, j - 1) + m)
         /\ WordAt(x, j).keep = (x.keep /\ Off(x, j - 1) >= 1 + x.n)
<1>1. LastWord(x) \in Nat /\ Total(x) \in Nat /\ Single(x) \in Nat /\ x.keep \in BOOLEAN
    BY Words DEF TransferOK, Transfers
<1>2. j - 1 \in 0 .. LastWord(x) /\ j \in 0 .. LastWord(x) /\ j - 1 < LastWord(x) /\ j - 1 + 1 = j
    BY <1>1
<1> DEFINE q == Off(x, j) - Off(x, j - 1)
<1>3. Off(x, j - 1) \in 0 .. Total(x) /\ Off(x, j) \in 0 .. Total(x) /\ q \in {1, 2} /\ q = IF j <= Single(x) THEN 1 ELSE 2
    BY <1>1, <1>2, Offs
<1>4. ASSUME NEW m \in 1 .. q PROVE StreamByte(x, Off(x, j - 1) + m) \in Nat
  <2>1. Off(x, j - 1) + m \in 1 .. Total(x)
      BY <1>1, <1>3
  <2> QED BY <2>1, StreamNat
<1> DEFINE bs == [m \in 1 .. q |-> StreamByte(x, Off(x, j - 1) + m)]
<1>5. bs \in Seq(Nat) /\ Len(bs) = q
  <2>1. q \in Nat /\ bs \in [1 .. q -> Nat]
      BY <1>3, <1>4
  <2> HIDE DEF bs, q
  <2> QED BY <2>1
<1>6. WordAt(x, j) = [do |-> "send", bytes |-> bs, more |-> (j # LastWord(x)), keep |-> (x.keep /\ Off(x, j - 1) >= 1 + x.n)]
    BY DEF WordAt, Send
<1>7. \A m \in 1 .. q : bs[m] = StreamByte(x, Off(x, j - 1) + m)
    OBVIOUS
<1>8. q = Off(x, j) - Off(x, j - 1)
    OBVIOUS
<1>9. WordAt(x, j) \in Item
    BY <1>1, <1>5, <1>6 DEF Item
<1> DEFINE word == WordAt(x, j)
<1> HIDE DEF bs, q, word
<1>10. word.do = "send" /\ word.bytes = bs /\ word.more = (j # LastWord(x)) /\ word.keep = (x.keep /\ Off(x, j - 1) >= 1 + x.n)
    BY <1>6 DEF word
<1>11. word.keep \in BOOLEAN
    BY <1>10, <1>1
<1> QED BY <1>3, <1>5, <1>7, <1>8, <1>9, <1>10, <1>11 DEF word

-----------------------------------------------------------------------------
(* What each part of a script does                                         *)

(* x is a transfer of this build.                                          *)
Ours(x) == TransferOK(x) /\ x.build = build /\ build \in {"plain", "fifo"}
(* All bytes up to the m-th have been sent and answered.                   *)
Past(x, m) == At(m, m, 2, m # LastWord(x))

(* sendByteMore and sendByteNoMore                                         *)
LEMMA ByteSeg ==
  ASSUME NEW x, Ours(x), NEW m \in 1 .. Single(x), NEW keep,
         keep = (x.keep /\ m - 1 >= 1 + x.n)
  PROVE  Seg(x, SendByte(StreamByte(x, m), m # LastWord(x), keep), At(m - 1, m - 1, 2, TRUE), Past(x, m))
<1> DEFINE more == m # LastWord(x)
           b == StreamByte(x, m)
           rec == IF build = "fifo" THEN <<Receive(keep)>> ELSE <<>>
           fin == IF more THEN <<>> ELSE <<EndTransaction>>
<1>1. TransferOK(x) /\ Single(x) \in Nat /\ LastWord(x) \in Nat /\ LastWord(x) >= Single(x) /\ FifoSize \in Nat \ {0}
      /\ x.keep \in BOOLEAN
    BY Words, ChipAssumption DEF Ours, TransferOK, Transfers
<1>2. m \in 1 .. LastWord(x) /\ m - 1 < LastWord(x) /\ m - 1 + 1 = m /\ m \in Nat /\ m - 1 \in Nat /\ m - (m - 1) = 1
      /\ m - m = 0
    BY <1>1
<1>3. Off(x, m) = m /\ Off(x, m - 1) = m - 1
    BY <1>1 DEF Off
<1>4. WordAt(x, m) = Send(<<b>>, more, keep)
  <2>1. Off(x, m) - Off(x, m - 1) = 1
      BY <1>2, <1>3
  <2>2. [q \in 1 .. 1 |-> StreamByte(x, m - 1 + q)] = <<b>>
      BY <1>2
  <2>3. [q \in 1 .. Off(x, m) - Off(x, m - 1) |-> StreamByte(x, Off(x, m - 1) + q)] = <<b>>
      BY <1>3, <2>1, <2>2
  <2> HIDE DEF b
  <2> QED BY <1>3, <2>3 DEF WordAt
<1>5. WordAt(x, m) \in Item /\ WordAt(x, m).keep = keep /\ keep \in BOOLEAN
    BY <1>1, <1>2, <1>3, WordFields
<1> DEFINE mid == At(m, IF build = "plain" THEN m ELSE m - 1, 2, TRUE)
<1>6. Seg(x, <<Send(<<b>>, more, keep)>>, At(m - 1, m - 1, 2, TRUE), mid)
  <2>1. Does(x, At(m - 1, m - 1, 2, TRUE), WordAt(x, m), mid)
    <3>1. x.build = build
        BY DEF Ours
    <3> QED BY <1>1, <1>2, <3>1 DEF Does, At
  <2> QED BY <1>4, <1>5, <2>1, SegItem
<1>7. Seg(x, rec, mid, At(m, m, 2, TRUE))
  <2>1. CASE build = "plain"
      BY <2>1, SegNone
  <2>2. CASE build = "fifo"
    <3>1. x.build = "fifo"
        BY <2>2 DEF Ours
    <3>2. Does(x, At(m, m - 1, 2, TRUE), Receive(keep), At(m, m, 2, TRUE))
        BY <1>2, <1>5, <3>1 DEF Does, At
    <3>3. Receive(keep) \in Item
        BY <1>5 DEF Receive, Item
    <3>4. Seg(x, <<Receive(keep)>>, At(m, m - 1, 2, TRUE), At(m, m, 2, TRUE))
        BY <3>2, <3>3, SegItem
    <3> QED BY <2>2, <3>4
  <2> QED BY <2>1, <2>2 DEF Ours
<1>8. Seg(x, fin, At(m, m, 2, TRUE), Past(x, m))
  <2>1. CASE more
      BY <2>1, SegNone DEF Past
  <2>2. CASE ~more
    <3>1. Does(x, At(m, m, 2, TRUE), EndTransaction, At(m, m, 2, FALSE))
        BY <2>2 DEF Does, At
    <3>2. EndTransaction \in Item
        BY DEF EndTransaction, Item
    <3> QED BY <2>2, <3>1, <3>2, SegItem DEF Past
  <2> QED BY <2>1, <2>2
<1>9. SendByte(b, more, keep) = (<<Send(<<b>>, more, keep)>> \o rec) \o fin
    BY DEF SendByte
<1> HIDE DEF rec, fin, mid
<1>10. Seg(x, <<Send(<<b>>, more, keep)>> \o rec, At(m - 1, m - 1, 2, TRUE), At(m, m, 2, TRUE))
    BY <1>6, <1>7, SegJoin
<1>11. Seg(x, (<<Send(<<b>>, more, keep)>> \o rec) \o fin, At(m - 1, m - 1, 2, TRUE), Past(x, m))
    BY <1>8, <1>10, SegJoin
<1> QED BY <1>9, <1>11

(* A row of bytes, after the m-th.                                         *)
LEMMA BytesSeg ==
  ASSUME NEW x, Ours(x), NEW m \in Nat, NEW bytes \in Seq(Nat), NEW keep, NEW last, m + Len(bytes) <= Single(x),
         m < LastWord(x),
         \A j \in 1 .. Len(bytes) : /\ bytes[j] = StreamByte(x, m + j)
                                    /\ (j # last) = (m + j # LastWord(x))
                                    /\ keep = (x.keep /\ (m + j) - 1 >= 1 + x.n)
  PROVE  Seg(x, SendBytes(bytes, keep, last), Past(x, m), Past(x, m + Len(bytes)))
<1> DEFINE n == Len(bytes)
           P == [j \in 0 .. n |-> Past(x, m + j)]
           ss == Each(LAMBDA j : SendByte(bytes[j], j # last, keep), 1, n)
<1>1. n \in Nat /\ TransferOK(x) /\ Single(x) \in Nat /\ LastWord(x) \in Nat /\ LastWord(x) >= Single(x)
    BY Words DEF Ours
<1>2. ss = [j \in 1 .. n |-> SendByte(bytes[j], j # last, keep)]
  <2>1. n - 1 + 1 = n /\ \A j \in 1 .. n : 1 + j - 1 = j
      BY <1>1
  <2> HIDE DEF n
  <2> QED BY <2>1 DEF Each
<1>3. ASSUME NEW j \in 1 .. n PROVE Seg(x, ss[j], P[j - 1], P[j])
  <2>1. m + j \in 1 .. Single(x) /\ (m + j) - 1 = m + (j - 1) /\ j - 1 \in 0 .. n /\ j \in 0 .. n
        /\ m + (j - 1) # LastWord(x)
      BY <1>1
  <2>2. ss[j] = SendByte(StreamByte(x, m + j), m + j # LastWord(x), keep)
      BY <1>2
  <2>3. Seg(x, SendByte(StreamByte(x, m + j), m + j # LastWord(x), keep), At((m + j) - 1, (m + j) - 1, 2, TRUE), Past(x, m + j))
    <3>1. keep = (x.keep /\ (m + j) - 1 >= 1 + x.n)
        OBVIOUS
    <3> HIDE DEF P, ss, n
    <3> DEFINE k == m + j
    <3>2. k \in 1 .. Single(x) /\ keep = (x.keep /\ k - 1 >= 1 + x.n)
        BY <2>1, <3>1
    <3> HIDE DEF k
    <3>3. Seg(x, SendByte(StreamByte(x, k), k # LastWord(x), keep), At(k - 1, k - 1, 2, TRUE), Past(x, k))
        BY <3>2, ByteSeg
    <3> QED BY <3>3 DEF k
  <2>4. P[j - 1] = At((m + j) - 1, (m + j) - 1, 2, TRUE) /\ P[j] = Past(x, m + j)
      BY <2>1 DEF Past
  <2> HIDE DEF P, ss
  <2> QED BY <2>2, <2>3, <2>4
<1>4. ss \in Seq(Seq(Item)) /\ Len(ss) = n
  <2>1. \A j \in 1 .. n : ss[j] \in Seq(Item)
      BY <1>3 DEF Seg
  <2>2. ss \in [1 .. n -> Seq(Item)]
    <3> DEFINE e(j) == SendByte(bytes[j], j # last, keep)
    <3>1. ss = [j \in 1 .. n |-> e(j)]
        BY <1>2
    <3>2. \A j \in 1 .. n : e(j) \in Seq(Item)
        BY <2>1, <3>1
    <3> HIDE DEF e, ss, n
    <3> QED BY <3>1, <3>2
  <2> HIDE DEF ss, n
  <2> QED BY <1>1, <2>2
<1>5. P[0] = Past(x, m) /\ P[n] = Past(x, m + n)
  <2>1. 0 \in 0 .. n /\ n \in 0 .. n /\ m + 0 = m
      BY <1>1
  <2> QED BY <2>1
<1>6. SendBytes(bytes, keep, last) = FlattenSeq(ss)
    BY DEF SendBytes
<1>7. n = Len(bytes)
    OBVIOUS
<1> HIDE DEF P, ss, n
<1>8. Seg(x, FlattenSeq(ss), P[0], P[n])
    BY <1>1, <1>3, <1>4, SegFlat
<1> QED BY <1>5, <1>6, <1>7, <1>8

(* The script of a word and the answer to it. *)
LEMMA Pair ==
  ASSUME NEW a, NEW r
  PROVE  <<a>> \o <<r>> = <<a, r>>
<1> DEFINE A == {a, r}
           s == <<a>> \o <<r>>
           t == <<a, r>>
<1>1. <<a>> \in Seq(A) /\ <<r>> \in Seq(A) /\ t \in Seq(A) /\ Len(<<a>>) = 1 /\ Len(<<r>>) = 1
    OBVIOUS
<1>2. s \in Seq(A) /\ Len(s) = 2 /\ s[1] = a /\ s[2] = r
    BY <1>1
<1>3. Len(t) = 2 /\ t[1] = a /\ t[2] = r
    OBVIOUS
<1>4. \A j \in 1 .. 2 : s[j] = t[j]
    BY <1>2, <1>3
<1> HIDE DEF s, t, A
<1>5. s = t
    BY <1>1, <1>2, <1>3, <1>4
<1> QED BY <1>5 DEF s, t

(* A row of items.                                                         *)
LEMMA RowSeg ==
  ASSUME NEW x, NEW n \in Nat, NEW s \in [1 .. n -> Item], NEW P,
         \A j \in 1 .. n : Does(x, P[j - 1], s[j], P[j])
  PROVE  Seg(x, s, P[0], P[n])
<1>1. s \in Seq(Item) /\ Len(s) = n
    OBVIOUS
<1> QED BY <1>1 DEF Seg

(* The words of an even number of bytes.                                   *)
LEMMA FifoWord ==
  ASSUME NEW x, Ours(x), NEW bytes \in Seq(Nat), NEW keep, keep = x.keep, Len(bytes) = 2 * (LastWord(x) - Single(x)),
         \A q \in 1 .. Len(bytes) : bytes[q] = StreamByte(x, Single(x) + q),
         NEW j \in 1 .. LastWord(x) - Single(x)
  PROVE  /\ WordAt(x, Single(x) + j) = Send(SubSeq(bytes, 2 * j - 1, 2 * j), j # LastWord(x) - Single(x), keep)
         /\ WordAt(x, Single(x) + j) \in Item /\ WordAt(x, Single(x) + j).keep = keep /\ keep \in BOOLEAN
<1> DEFINE S == Single(x)
           W == LastWord(x)
           k == S + j
<1>1. TransferOK(x) /\ S \in Nat /\ W \in Nat /\ W >= S /\ x.keep \in BOOLEAN /\ x.n \in Nat /\ S >= 1 + x.n
      /\ j \in 1 .. W - S /\ Len(bytes) = 2 * (W - S)
    BY Words DEF Ours, TransferOK, Transfers
<1>10. S = Single(x) /\ W = LastWord(x)
    OBVIOUS
<1> HIDE DEF S, W
<1>2. k \in 1 .. W /\ k - 1 \in Nat /\ j \in Nat /\ ~(k <= S) /\ (k - 1 <= S => j = 1) /\ (k # W <=> j # W - S)
    BY <1>1
<1>3. Off(x, k) = S + 2 * j /\ Off(x, k - 1) = S + 2 * (j - 1) /\ Off(x, k) - Off(x, k - 1) = 2
  <2>1. Off(x, k) = 2 * k - S /\ Off(x, k - 1) = IF k - 1 <= S THEN k - 1 ELSE 2 * (k - 1) - S
    <3> HIDE DEF k
    <3> QED BY <1>2, <1>10 DEF Off
  <2>2. 2 * k - S = S + 2 * j /\ 2 * (k - 1) - S = S + 2 * (j - 1) /\ (k - 1 <= S => k - 1 = S + 2 * (j - 1))
      BY <1>1, <1>2
  <2> HIDE DEF k
  <2>3. Off(x, k) = S + 2 * j /\ Off(x, k - 1) = S + 2 * (j - 1)
      BY <2>1, <2>2
  <2>4. (S + 2 * j) - (S + 2 * (j - 1)) = 2
      BY <1>1, <1>2
  <2> QED BY <2>3, <2>4
<1>4. Off(x, k - 1) >= 1 + x.n
  <2>1. S + 2 * (j - 1) >= 1 + x.n
      BY <1>1, <1>2
  <2> QED BY <1>3, <2>1
<1> DEFINE bs == SubSeq(bytes, 2 * j - 1, 2 * j)
           ts == [q \in 1 .. 2 |-> StreamByte(x, Off(x, k - 1) + q)]
<1>5. bs = ts
  <2>1. 2 * j - 1 \in 1 .. Len(bytes) /\ 2 * j \in 1 .. Len(bytes)
      BY <1>1, <1>2
  <2>2. bs = [q \in 1 .. 2 |-> bytes[2 * (j - 1) + q]]
    <3>1. 2 * j - (2 * j - 1) + 1 = 2 /\ \A q \in 1 .. 2 : (2 * j - 1) + q - 1 = 2 * (j - 1) + q
        BY <1>2
    <3>2. bs = [q \in 1 .. 2 * j - (2 * j - 1) + 1 |-> bytes[(2 * j - 1) + q - 1]]
        BY <2>1 DEF SubSeq
    <3> HIDE DEF bs
    <3> QED BY <3>1, <3>2
  <2>3. ASSUME NEW q \in 1 .. 2 PROVE bytes[2 * (j - 1) + q] = StreamByte(x, Off(x, k - 1) + q)
    <3> DEFINE r == 2 * (j - 1) + q
    <3>1. r \in 1 .. Len(bytes) /\ S + r = Off(x, k - 1) + q
      <4>1. S + r = S + 2 * (j - 1) + q /\ r \in 1 .. Len(bytes)
          BY <1>1, <1>2, <2>1
      <4> HIDE DEF k, r
      <4> QED BY <1>3, <4>1
    <3>2. bytes[r] = StreamByte(x, S + r)
        BY <1>10, <3>1
    <3> QED BY <3>1, <3>2
  <2> HIDE DEF bs
  <2> QED BY <2>2, <2>3
<1>6. WordAt(x, k) = Send([q \in 1 .. Off(x, k) - Off(x, k - 1) |-> StreamByte(x, Off(x, k - 1) + q)],
                          k # W, x.keep /\ Off(x, k - 1) >= 1 + x.n)
    BY <1>10 DEF WordAt
<1>7. WordAt(x, k) = Send(bs, j # W - S, keep)
  <2>1. (k # W) = (j # W - S) /\ (x.keep /\ Off(x, k - 1) >= 1 + x.n) = keep
      BY <1>1, <1>2, <1>4
  <2> HIDE DEF bs, k, S, W
  <2> QED BY <1>3, <1>5, <1>6, <2>1
<1>8. WordAt(x, k) \in Item
    BY <1>1, <1>2, <1>10, WordFields
<1>9. WordAt(x, k).keep = keep
    BY <1>7 DEF Send
<1> QED BY <1>1, <1>7, <1>8, <1>9, <1>10

(* ThroughFifo sends the words, and at no time more than the FIFO takes. *)
LEMMA FifoSeg ==
  ASSUME NEW x, Ours(x), build = "fifo", NEW bytes \in Seq(Nat), NEW keep, keep = x.keep, Single(x) < LastWord(x),
         Len(bytes) = 2 * (LastWord(x) - Single(x)),
         \A q \in 1 .. Len(bytes) : bytes[q] = StreamByte(x, Single(x) + q)
  PROVE  Seg(x, ThroughFifo(bytes, keep), Past(x, Single(x)), At(LastWord(x), LastWord(x), 2, TRUE))
<1> DEFINE S == Single(x)
           W == LastWord(x)
           words == Len(bytes) \div 2
           fill == IF words > FifoSize THEN FifoSize - 1 ELSE 0
           Word(j) == Send(SubSeq(bytes, 2 * j - 1, 2 * j), j # words, keep)
           first == Each(Word, 1, fill)
           pairs == Each(LAMBDA j : <<Word(j), Receive(keep)>>, fill + 1, words)
           final == Each(LAMBDA j : Receive(keep), 1, fill)
<1>1. TransferOK(x) /\ S \in Nat /\ W \in Nat /\ S < W /\ FifoSize \in Nat /\ FifoSize >= 1
      /\ keep \in BOOLEAN /\ x.build = "fifo"
    BY Words, ChipAssumption DEF Ours, TransferOK, Transfers
<1>2. words = W - S
  <2>1. W - S \in Nat /\ words = (2 * (W - S)) \div 2
      BY <1>1
  <2> HIDE DEF S, W, words
  <2> QED BY <2>1, Halves
<1>3. words \in Nat /\ fill \in 0 .. words /\ fill \in Nat /\ fill <= FifoSize - 1 /\ S + words = W
  <2>1. fill = IF words > FifoSize THEN FifoSize - 1 ELSE 0
      OBVIOUS
  <2> HIDE DEF S, W, words, fill
  <2> QED BY <1>1, <1>2, <2>1
<1>4. ASSUME NEW j \in 1 .. words
      PROVE  /\ WordAt(x, S + j) = Word(j) /\ Word(j) \in Item /\ WordAt(x, S + j).keep = keep
  <2>1. /\ WordAt(x, S + j) = Send(SubSeq(bytes, 2 * j - 1, 2 * j), j # W - S, keep)
        /\ WordAt(x, S + j) \in Item /\ WordAt(x, S + j).keep = keep
    <3>1. j \in 1 .. LastWord(x) - Single(x)
        BY <1>2
    <3> HIDE DEF words
    <3> QED BY <3>1, FifoWord
  <2>2. Word(j) = Send(SubSeq(bytes, 2 * j - 1, 2 * j), j # W - S, keep)
      BY <1>2
  <2> HIDE DEF Word, S, W, words
  <2> QED BY <2>1, <2>2
<1>5. Receive(keep) \in Item
    BY <1>1 DEF Receive, Item
<1>6. ThroughFifo(bytes, keep) = (first \o FlattenSeq(pairs)) \o final
    BY DEF ThroughFifo
<1>7. first = [j \in 1 .. fill |-> Word(j)]
  <2>1. fill - 1 + 1 = fill /\ \A j \in 1 .. fill : 1 + j - 1 = j
      BY <1>3
  <2> HIDE DEF fill, Word
  <2> QED BY <2>1 DEF Each
<1>8. pairs = [j \in 1 .. words - fill |-> <<Word(fill + j), Receive(keep)>>]
  <2>1. words - (fill + 1) + 1 = words - fill /\ \A j \in 1 .. words - fill : (fill + 1) + j - 1 = fill + j
      BY <1>3
  <2> HIDE DEF fill, Word, words
  <2> QED BY <2>1 DEF Each
<1>9. final = [j \in 1 .. fill |-> Receive(keep)]
  <2>1. fill - 1 + 1 = fill
      BY <1>3
  <2> HIDE DEF fill
  <2> QED BY <2>1 DEF Each
<1> HIDE DEF S, W, words, fill, Word, first, pairs, final
<1>10. Seg(x, first, At(S, S, 2, TRUE), At(S + fill, S, 2, TRUE))
  <2> DEFINE P == [j \in 0 .. fill |-> At(S + j, S, 2, TRUE)]
  <2>1. first \in [1 .. fill -> Item]
    <3>1. \A j \in 1 .. fill : Word(j) \in Item
        BY <1>3, <1>4
    <3> QED BY <1>7, <3>1
  <2>2. ASSUME NEW j \in 1 .. fill PROVE Does(x, P[j - 1], first[j], P[j])
    <3>1. j \in 1 .. words /\ j - 1 \in 0 .. fill /\ j \in 0 .. fill /\ S + (j - 1) < W /\ S + (j - 1) + 1 = S + j
          /\ (S + j) - S <= FifoSize
        BY <1>1, <1>3
    <3>2. first[j] = WordAt(x, S + j)
        BY <1>4, <1>7, <3>1
    <3>3. P[j - 1] = At(S + (j - 1), S, 2, TRUE) /\ P[j] = At(S + j, S, 2, TRUE)
        BY <3>1
    <3>4. Does(x, At(S + (j - 1), S, 2, TRUE), WordAt(x, S + j), At(S + j, S, 2, TRUE))
        BY <1>1, <3>1 DEF Does, At, W
    <3> QED BY <3>2, <3>3, <3>4
  <2>3. P[0] = At(S, S, 2, TRUE) /\ P[fill] = At(S + fill, S, 2, TRUE)
    <3>1. S + 0 = S /\ 0 \in 0 .. fill /\ fill \in 0 .. fill
        BY <1>1, <1>3
    <3> QED BY <3>1
  <2> HIDE DEF P
  <2>4. Seg(x, first, P[0], P[fill])
      BY <1>3, <2>1, <2>2, RowSeg
  <2> QED BY <2>3, <2>4
<1>11. Seg(x, FlattenSeq(pairs), At(S + fill, S, 2, TRUE), At(W, W - fill, 2, TRUE))
  <2> DEFINE n == words - fill
             P == [j \in 0 .. n |-> At(S + fill + j, S + j, 2, TRUE)]
  <2>1. n \in Nat
      BY <1>3
  <2>2. ASSUME NEW j \in 1 .. n PROVE Seg(x, pairs[j], P[j - 1], P[j])
    <3> DEFINE k == fill + j
               mid == At(S + k, S + (j - 1), 2, TRUE)
    <3>1. k \in 1 .. words /\ j - 1 \in 0 .. n /\ j \in 0 .. n /\ S + (k - 1) < W /\ S + (k - 1) + 1 = S + k
          /\ S + (j - 1) < S + k /\ S + (j - 1) + 1 = S + j /\ (S + k) - (S + (j - 1)) <= FifoSize /\ j \in 1 .. words
        BY <1>1, <1>3
    <3>2. pairs[j] = <<WordAt(x, S + k), Receive(keep)>>
        BY <1>4, <1>8, <3>1
    <3>3. P[j - 1] = At(S + (k - 1), S + (j - 1), 2, TRUE) /\ P[j] = At(S + k, S + j, 2, TRUE)
      <4>1. S + fill + (j - 1) = S + (k - 1) /\ S + fill + j = S + k
          BY <1>1, <1>3
      <4> HIDE DEF k
      <4> QED BY <3>1, <4>1
    <3> HIDE DEF P, n, k
    <3>4. Does(x, At(S + (k - 1), S + (j - 1), 2, TRUE), WordAt(x, S + k), mid)
        BY <1>1, <3>1 DEF Does, At, W
    <3>5. Does(x, mid, Receive(keep), At(S + k, S + j, 2, TRUE))
      <4>1. WordAt(x, S + j).keep = keep
          BY <1>4, <3>1
      <4> QED BY <1>1, <3>1, <4>1 DEF Does, At
    <3>6. WordAt(x, S + k) \in Item
        BY <1>4, <3>1
    <3> HIDE DEF mid
    <3>7. Seg(x, <<WordAt(x, S + k)>>, P[j - 1], mid)
        BY <3>3, <3>4, <3>6, SegItem
    <3>8. Seg(x, <<Receive(keep)>>, mid, P[j])
        BY <1>5, <3>3, <3>5, SegItem
    <3>9. Seg(x, <<WordAt(x, S + k)>> \o <<Receive(keep)>>, P[j - 1], P[j])
        BY <3>7, <3>8, SegJoin
    <3>10. <<WordAt(x, S + k)>> \o <<Receive(keep)>> = <<WordAt(x, S + k), Receive(keep)>>
        BY Pair
    <3> QED BY <3>2, <3>9, <3>10
  <2>3. pairs \in Seq(Seq(Item)) /\ Len(pairs) = n
    <3>1. \A j \in 1 .. n : pairs[j] \in Seq(Item)
        BY <2>2 DEF Seg
    <3> DEFINE e(j) == <<Word(fill + j), Receive(keep)>>
    <3>2. pairs = [j \in 1 .. n |-> e(j)]
        BY <1>8
    <3>3. \A j \in 1 .. n : e(j) \in Seq(Item)
        BY <3>1, <3>2
    <3> HIDE DEF e, n
    <3>4. pairs \in [1 .. n -> Seq(Item)]
        BY <3>2, <3>3
    <3> QED BY <2>1, <3>4
  <2>4. P[0] = At(S + fill, S, 2, TRUE) /\ P[n] = At(W, W - fill, 2, TRUE)
    <3>1. S + 0 = S /\ S + fill + 0 = S + fill /\ 0 \in 0 .. n /\ n \in 0 .. n /\ S + fill + n = W /\ S + n = W - fill
        BY <1>1, <1>3
    <3> HIDE DEF n
    <3> QED BY <3>1
  <2> HIDE DEF P, n
  <2>5. Seg(x, FlattenSeq(pairs), P[0], P[n])
      BY <2>1, <2>2, <2>3, SegFlat
  <2> QED BY <2>4, <2>5
<1>12. Seg(x, final, At(W, W - fill, 2, TRUE), At(W, W, 2, TRUE))
  <2> DEFINE P == [j \in 0 .. fill |-> At(W, (W - fill) + j, 2, TRUE)]
  <2>1. final \in [1 .. fill -> Item]
      BY <1>5, <1>9
  <2>2. ASSUME NEW j \in 1 .. fill PROVE Does(x, P[j - 1], final[j], P[j])
    <3> DEFINE k == (words - fill) + j
    <3>1. k \in 1 .. words /\ j - 1 \in 0 .. fill /\ j \in 0 .. fill /\ (W - fill) + (j - 1) < W
          /\ ((W - fill) + (j - 1)) + 1 = (W - fill) + j /\ S + k = (W - fill) + j
        BY <1>1, <1>3
    <3>2. WordAt(x, (W - fill) + j).keep = keep
        BY <1>4, <3>1
    <3>3. P[j - 1] = At(W, (W - fill) + (j - 1), 2, TRUE) /\ P[j] = At(W, (W - fill) + j, 2, TRUE)
        BY <3>1
    <3>4. final[j] = Receive(keep)
        BY <1>9
    <3>5. Does(x, At(W, (W - fill) + (j - 1), 2, TRUE), Receive(keep), At(W, (W - fill) + j, 2, TRUE))
        BY <1>1, <3>1, <3>2 DEF Does, At
    <3> QED BY <3>3, <3>4, <3>5
  <2>3. P[0] = At(W, W - fill, 2, TRUE) /\ P[fill] = At(W, W, 2, TRUE)
    <3>1. (W - fill) + 0 = W - fill /\ (W - fill) + fill = W /\ 0 \in 0 .. fill /\ fill \in 0 .. fill
        BY <1>1, <1>3
    <3> QED BY <3>1
  <2> HIDE DEF P
  <2>4. Seg(x, final, P[0], P[fill])
      BY <1>3, <2>1, <2>2, RowSeg
  <2> QED BY <2>3, <2>4
<1>13. Seg(x, first \o FlattenSeq(pairs), At(S, S, 2, TRUE), At(W, W - fill, 2, TRUE))
    BY <1>10, <1>11, SegJoin
<1>14. Seg(x, (first \o FlattenSeq(pairs)) \o final, At(S, S, 2, TRUE), At(W, W, 2, TRUE))
    BY <1>12, <1>13, SegJoin
<1>15. Past(x, S) = At(S, S, 2, TRUE)
  <2>1. S # LastWord(x)
      BY <1>1 DEF W
  <2> QED BY <2>1 DEF Past
<1> QED BY <1>6, <1>14, <1>15 DEF S, W

-----------------------------------------------------------------------------
(* The scripts                                                             *)

(* A transfer of chip k, the one of read() and write(), and that of begin(). *)
BlockTransfer(k, code, address, data, keep) ==
    [build |-> build, chip |-> k, size |-> ChipSizes[k], code |-> code, n |-> AddrBytes(ChipSizes[k]),
     address |-> address, data |-> data, keep |-> keep]
ReadTransfer(k, address, size) == BlockTransfer(k, Read, address, [j \in 1 .. size |-> Dummy], TRUE)
WriteTransfer(k, address, data) == BlockTransfer(k, Write, address, data, FALSE)
BeginTransfer(k) ==
    [build |-> build, chip |-> k, size |-> ChipSizes[k], code |-> WriteMode, n |-> 0,
     address |-> 0, data |-> <<SequentialMode>>, keep |-> FALSE]
(* A script ends with everything sent and answered.                        *)
Finish(x) == At(LastWord(x), LastWord(x), 2, Single(x) # LastWord(x))

(* initTransfer                                                            *)
LEMMA InitSeg ==
  ASSUME NEW x, Ours(x), NEW l, l = 1 \/ (build = "fifo" /\ l = 0), NEW o
  PROVE  Seg(x, InitTransfer(x.chip, x.code), At(0, 0, l, o), Past(x, 1))
<1>1. /\ x.chip \in Nat /\ LastWord(x) \in Nat /\ LastWord(x) >= 2 /\ 1 \in 1 .. Single(x) /\ x.n \in Nat
      /\ x.build = build
    BY Words DEF Ours, TransferOK, Transfers
<1>2. Does(x, At(0, 0, l, o), Low(x.chip), At(0, 0, 2, TRUE))
    BY <1>1 DEF Does, At
<1>3. Low(x.chip) \in Item
    BY <1>1 DEF Low, Item
<1>4. Seg(x, <<Low(x.chip)>>, At(0, 0, l, o), At(0, 0, 2, TRUE))
    BY <1>2, <1>3, SegItem
<1>5. FALSE = (x.keep /\ 1 - 1 >= 1 + x.n)
    BY <1>1
<1>6. Seg(x, SendByte(StreamByte(x, 1), 1 # LastWord(x), FALSE), At(1 - 1, 1 - 1, 2, TRUE), Past(x, 1))
    BY <1>1, <1>5, ByteSeg
<1>7. StreamByte(x, 1) = x.code /\ (1 # LastWord(x)) = TRUE /\ 1 - 1 = 0
    BY <1>1 DEF StreamByte
<1>8. Seg(x, SendByte(x.code, TRUE, FALSE), At(0, 0, 2, TRUE), Past(x, 1))
    BY <1>6, <1>7
<1>9. Seg(x, <<Low(x.chip)>> \o SendByte(x.code, TRUE, FALSE), At(0, 0, l, o), Past(x, 1))
    BY <1>4, <1>8, SegJoin
<1> QED BY <1>9 DEF InitTransfer

(* sendAddress                                                             *)
LEMMA AddressSeg ==
  ASSUME NEW x, Ours(x), x.n = AddrBytes(ChipSizes[x.chip])
  PROVE  Seg(x, SendAddress(x.chip, x.address), Past(x, 1), Past(x, 1 + x.n))
<1> DEFINE n == AddrBytes(ChipSizes[x.chip])
           W == LastWord(x)
           S == Single(x)
           bytes == [j \in 1 .. n |-> (x.address \div Weight[n - j + 1]) % ByteBase]
<1>9. n = x.n
    OBVIOUS
<1>1. /\ n \in Nat /\ W \in Nat /\ S \in Nat /\ S >= 1 + n /\ W >= S /\ Total(x) = S + 2 * (W - S) /\ Total(x) >= 2 + n
      /\ TransferOK(x)
    BY Words DEF Ours
<1>2. 1 + n < W
  <2> DEFINE t == Total(x)
  <2>1. t = S + 2 * (W - S) /\ t >= 2 + n
      BY <1>1
  <2> HIDE DEF t, S, W, n
  <2> QED BY <1>1, <2>1
<1>3. SendAddress(x.chip, x.address) = SendBytes(bytes, FALSE, 0)
  <2>1. n - 1 + 1 = n /\ \A j \in 1 .. n : 1 + j - 1 = j
      BY <1>1
  <2>2. bytes = Each(LAMBDA j : (x.address \div Weight[n - j + 1]) % ByteBase, 1, n)
    <3> HIDE DEF n
    <3> QED BY <2>1 DEF Each
  <2> HIDE DEF bytes
  <2> QED BY <2>2 DEF SendAddress
<1>4. ASSUME NEW j \in 1 .. n PROVE bytes[j] = StreamByte(x, 1 + j) /\ bytes[j] \in Nat
  <2>1. 1 + j # 1 /\ 1 + j <= 1 + x.n /\ (1 + j) - 1 = j /\ 1 + j \in 1 .. Total(x)
    <3> DEFINE t == Total(x)
    <3>1. t \in Nat /\ t >= 2 + n /\ n \in Nat
        BY <1>1, Words
    <3> HIDE DEF n, t
    <3>2. 1 + j # 1 /\ 1 + j <= 1 + n /\ (1 + j) - 1 = j /\ 1 + j \in 1 .. t
        BY <3>1
    <3> QED BY <1>9, <3>2 DEF t
  <2>2. StreamByte(x, 1 + j) = AddressByte(x, j)
      BY <2>1 DEF StreamByte
  <2>3. bytes[j] = AddressByte(x, j)
      BY <1>9 DEF AddressByte
  <2>4. StreamByte(x, 1 + j) \in Nat
      BY <1>1, <2>1, StreamNat
  <2> QED BY <2>2, <2>3, <2>4
<1>5. bytes \in Seq(Nat) /\ Len(bytes) = n
  <2>1. bytes \in [1 .. n -> Nat]
    <3> DEFINE e(j) == (x.address \div Weight[n - j + 1]) % ByteBase
    <3>1. \A j \in 1 .. n : bytes[j] \in Nat
        BY <1>4
    <3>2. bytes = [j \in 1 .. n |-> e(j)]
        OBVIOUS
    <3>3. \A j \in 1 .. n : e(j) \in Nat
        BY <3>1
    <3> HIDE DEF e, bytes, n
    <3> QED BY <3>2, <3>3
  <2>2. n \in Nat
      BY <1>1
  <2> HIDE DEF bytes, n
  <2> QED BY <2>1, <2>2
<1>6. \A j \in 1 .. n : /\ bytes[j] = StreamByte(x, 1 + j)
                        /\ (j # 0) = (1 + j # W)
                        /\ FALSE = (x.keep /\ (1 + j) - 1 >= 1 + x.n)
  <2> SUFFICES ASSUME NEW j \in 1 .. n
               PROVE  bytes[j] = StreamByte(x, 1 + j) /\ (j # 0) = (1 + j # W) /\ FALSE = (x.keep /\ (1 + j) - 1 >= 1 + n)
      BY <1>9
  <2>1. bytes[j] = StreamByte(x, 1 + j)
      BY <1>4
  <2> HIDE DEF bytes, n, W
  <2>2. j # 0 /\ 1 + j # W /\ ~((1 + j) - 1 >= 1 + n)
      BY <1>1, <1>2
  <2> QED BY <2>1, <2>2
<1>7. 1 + Len(bytes) <= S /\ 1 < W /\ 1 \in Nat
  <2> HIDE DEF bytes, n, W, S
  <2> QED BY <1>1, <1>2, <1>5
<1> HIDE DEF bytes
<1>8. Seg(x, SendBytes(bytes, FALSE, 0), Past(x, 1), Past(x, 1 + Len(bytes)))
    BY <1>5, <1>6, <1>7, BytesSeg
<1> QED BY <1>3, <1>5, <1>8, <1>9

(* The data.                                                               *)
LEMMA DataSeg ==
  ASSUME NEW x, Ours(x)
  PROVE  Seg(x, Data(x.data, x.keep), Past(x, 1 + x.n), Finish(x))
<1> DEFINE n == x.n
           W == LastWord(x)
           S == Single(x)
           t == Total(x)
           d == x.data
           p == Len(d)
           m == 1 + n
<1>1. /\ n \in Nat /\ W \in Nat /\ S \in Nat /\ S >= 1 + n /\ W >= S /\ t = S + 2 * (W - S)
      /\ TransferOK(x) /\ x.build = build /\ build \in {"plain", "fifo"}
    BY Words DEF Ours
<1>2. d \in Seq(Nat) /\ p \in Nat /\ p >= 1 /\ t = m + p
    BY DEF Ours, TransferOK, Transfers, Total
<1>3. S = IF build = "plain" \/ p = 1 THEN t ELSE (1 + n) + (p % 2)
    BY <1>1 DEF Single
<1>4. ASSUME NEW j \in 1 .. p PROVE d[j] = StreamByte(x, m + j)
  <2>1. ~(m + j = 1) /\ ~(m + j <= 1 + n) /\ (m + j) - 1 - n = j
    <3> HIDE DEF n, p
    <3> QED BY <1>1, <1>2
  <2> QED BY <2>1 DEF StreamByte
<1>5. p \div 2 \in Nat /\ p % 2 \in {0, 1} /\ p = 2 * (p \div 2) + (p % 2)
  <2> HIDE DEF p
  <2> QED BY <1>2, Halves
<1>6. m < W
  <2> HIDE DEF t, S, W, n, p
  <2> QED BY <1>1, <1>2
<1>7. S = W => Finish(x) = Past(x, W)
    BY DEF Finish, Past
<1>8. S # W => Finish(x) = At(W, W, 2, TRUE)
    BY DEF Finish
<1>9. S = Single(x) /\ W = LastWord(x) /\ p = Len(d) /\ n = x.n /\ d = x.data
    OBVIOUS
<1>14. m = 1 + n /\ m \in Nat
    BY <1>1
<1> HIDE DEF n, W, S, t, d, p, m
<1>10. CASE build = "plain"
  <2>1. S = t /\ W = S /\ m + p = S /\ m + p = W /\ m \in Nat
      BY <1>1, <1>2, <1>3, <1>10 DEF m
  <2>2. \A j \in 1 .. p : /\ d[j] = StreamByte(x, m + j)
                          /\ (j # p) = (m + j # W)
                          /\ x.keep = (x.keep /\ (m + j) - 1 >= 1 + x.n)
    <3> SUFFICES ASSUME NEW j \in 1 .. p
                 PROVE  d[j] = StreamByte(x, m + j) /\ (j # p) = (m + j # W) /\ x.keep = (x.keep /\ (m + j) - 1 >= 1 + n)
        BY <1>9
    <3>1. (j # p) = (m + j # W) /\ (m + j) - 1 >= 1 + n
        BY <1>1, <1>2, <2>1 DEF m
    <3>2. x.keep \in BOOLEAN
        BY DEF Ours, TransferOK, Transfers
    <3> QED BY <1>4, <3>1, <3>2
  <2>3. m + p <= Single(x) /\ m < LastWord(x)
      BY <1>1, <1>6, <1>9, <2>1
  <2>4. Seg(x, SendBytes(d, x.keep, p), Past(x, m), Past(x, m + p))
      BY <1>2, <1>9, <2>1, <2>2, <2>3, BytesSeg
  <2>5. Data(d, x.keep) = SendBytes(d, x.keep, p)
      BY <1>9, <1>10 DEF Data
  <2> QED BY <1>7, <1>9, <2>1, <2>4, <2>5 DEF m
<1>11. CASE build = "fifo" /\ p = 1
  <2>1. S = t /\ W = S /\ m + 1 = S /\ m + 1 \in 1 .. S /\ (m + 1) - 1 = m
      BY <1>1, <1>2, <1>3, <1>11 DEF m
  <2>2. x.keep = (x.keep /\ (m + 1) - 1 >= 1 + n)
    <3>1. m >= 1 + n
        BY <1>1 DEF m
    <3>2. x.keep \in BOOLEAN
        BY DEF Ours, TransferOK, Transfers
    <3> QED BY <2>1, <3>1, <3>2
  <2>3. Seg(x, SendByte(StreamByte(x, m + 1), m + 1 # LastWord(x), x.keep), At((m + 1) - 1, (m + 1) - 1, 2, TRUE), Past(x, m + 1))
    <3> DEFINE k == m + 1
    <3>1. k \in 1 .. Single(x) /\ x.keep = (x.keep /\ k - 1 >= 1 + x.n)
        BY <1>9, <2>1, <2>2
    <3> HIDE DEF k
    <3>2. Seg(x, SendByte(StreamByte(x, k), k # LastWord(x), x.keep), At(k - 1, k - 1, 2, TRUE), Past(x, k))
        BY <3>1, ByteSeg
    <3> QED BY <3>2 DEF k
  <2>4. d[1] = StreamByte(x, m + 1) /\ (m + 1 # LastWord(x)) = FALSE
      BY <1>4, <1>9, <1>11, <2>1
  <2>8. p % 2 # 0 /\ p = 1
    <3> QED BY <1>11
  <2>5. Data(d, x.keep) = SendByte(d[1], FALSE, x.keep)
      BY <1>9, <1>11, <2>8 DEF Data
  <2>6. At((m + 1) - 1, (m + 1) - 1, 2, TRUE) = Past(x, m)
    <3>1. (m # LastWord(x)) = TRUE
        BY <1>1, <1>6, <1>9, <1>14
    <3> QED BY <2>1, <3>1 DEF Past
  <2>7. Seg(x, SendByte(d[1], FALSE, x.keep), Past(x, m), Past(x, m + 1))
      BY <2>3, <2>4, <2>6
  <2> QED BY <1>7, <1>9, <2>1, <2>5, <2>7 DEF m
<1>12. CASE build = "fifo" /\ p # 1 /\ p % 2 = 1
  <2> DEFINE r == Tail(d)
  <2>1. S = m + 1 /\ m + 1 \in 1 .. S /\ (m + 1) - 1 = m /\ S < W /\ p - 1 = 2 * (W - S)
      BY <1>1, <1>2, <1>3, <1>5, <1>12 DEF m
  <2>2. x.keep = (x.keep /\ (m + 1) - 1 >= 1 + n)
    <3>1. m >= 1 + n
        BY <1>1 DEF m
    <3>2. x.keep \in BOOLEAN
        BY DEF Ours, TransferOK, Transfers
    <3> QED BY <2>1, <3>1, <3>2
  <2>3. Seg(x, SendByte(StreamByte(x, m + 1), m + 1 # LastWord(x), x.keep), At((m + 1) - 1, (m + 1) - 1, 2, TRUE), Past(x, m + 1))
    <3> DEFINE k == m + 1
    <3>1. k \in 1 .. Single(x) /\ x.keep = (x.keep /\ k - 1 >= 1 + x.n)
        BY <1>9, <2>1, <2>2
    <3> HIDE DEF k
    <3>2. Seg(x, SendByte(StreamByte(x, k), k # LastWord(x), x.keep), At(k - 1, k - 1, 2, TRUE), Past(x, k))
        BY <3>1, ByteSeg
    <3> QED BY <3>2 DEF k
  <2>4. d[1] = StreamByte(x, m + 1)
      BY <1>2, <1>4
  <2>5. (m + 1 # LastWord(x)) = TRUE
      BY <1>1, <1>9, <2>1
  <2>6. At((m + 1) - 1, (m + 1) - 1, 2, TRUE) = Past(x, m)
    <3>1. (m # LastWord(x)) = TRUE
        BY <1>1, <1>6, <1>9, <1>14
    <3> QED BY <2>1, <3>1 DEF Past
  <2>7. Seg(x, SendByte(d[1], TRUE, x.keep), Past(x, m), Past(x, S))
      BY <2>1, <2>3, <2>4, <2>5, <2>6
  <2>8. r \in Seq(Nat) /\ Len(r) = p - 1 /\ \A q \in 1 .. Len(r) : r[q] = d[q + 1]
    <3>1. d # <<>>
        BY <1>2, <1>9
    <3> QED BY <1>2, <1>9, <3>1
  <2>9. \A q \in 1 .. Len(r) : r[q] = StreamByte(x, S + q)
    <3> SUFFICES ASSUME NEW q \in 1 .. Len(r) PROVE r[q] = StreamByte(x, S + q)
        OBVIOUS
    <3>1. q + 1 \in 1 .. p /\ m + (q + 1) = S + q
      <4> HIDE DEF r
      <4> QED BY <1>1, <1>2, <2>1, <2>8 DEF m
    <3>2. r[q] = d[q + 1]
        BY <2>8
    <3> QED BY <1>4, <3>1, <3>2
  <2> HIDE DEF r
  <2>10. Seg(x, ThroughFifo(r, x.keep), Past(x, S), At(W, W, 2, TRUE))
    <3>1. Single(x) < LastWord(x) /\ Len(r) = 2 * (LastWord(x) - Single(x))
        BY <1>9, <2>1, <2>8
    <3>2. \A q \in 1 .. Len(r) : r[q] = StreamByte(x, Single(x) + q)
        BY <1>9, <2>9
    <3> QED BY <1>9, <1>12, <2>8, <3>1, <3>2, FifoSeg
  <2>11. Seg(x, SendByte(d[1], TRUE, x.keep) \o ThroughFifo(r, x.keep), Past(x, m), At(W, W, 2, TRUE))
      BY <2>7, <2>10, SegJoin
  <2>12. Data(d, x.keep) = SendByte(d[1], TRUE, x.keep) \o ThroughFifo(r, x.keep)
    <3>1. build # "plain" /\ p % 2 # 0 /\ p # 1
        BY <1>12
    <3> QED BY <1>9, <3>1 DEF Data, r
  <2>13. S # W
      BY <1>1, <2>1
  <2> QED BY <1>8, <1>9, <1>14, <2>11, <2>12, <2>13
<1>13. CASE build = "fifo" /\ p # 1 /\ p % 2 = 0
  <2>1. S = m /\ S < W /\ p = 2 * (W - S)
      BY <1>1, <1>2, <1>3, <1>5, <1>13 DEF m
  <2>2. Seg(x, ThroughFifo(d, x.keep), Past(x, S), At(W, W, 2, TRUE))
    <3>1. Single(x) < LastWord(x) /\ Len(d) = 2 * (LastWord(x) - Single(x))
        BY <1>9, <2>1
    <3>2. \A q \in 1 .. Len(d) : d[q] = StreamByte(x, Single(x) + q)
        BY <1>4, <1>9, <2>1
    <3> QED BY <1>2, <1>13, <3>1, <3>2, <1>9, FifoSeg
  <2>3. Data(d, x.keep) = ThroughFifo(d, x.keep)
      BY <1>9, <1>13 DEF Data
  <2>4. S # W /\ S = m
      BY <1>1, <2>1
  <2> QED BY <1>8, <1>9, <1>14, <2>2, <2>3, <2>4
<1> QED BY <1>1, <1>5, <1>10, <1>11, <1>12, <1>13

(* read() and write()                                                      *)
LEMMA BlockSeg ==
  ASSUME NEW x, Ours(x), x.n = AddrBytes(ChipSizes[x.chip]), NEW l, l = 1 \/ (build = "fifo" /\ l = 0), NEW o
  PROVE  Seg(x, (InitTransfer(x.chip, x.code) \o SendAddress(x.chip, x.address)) \o Data(x.data, x.keep),
             At(0, 0, l, o), Finish(x))
<1>1. Seg(x, InitTransfer(x.chip, x.code), At(0, 0, l, o), Past(x, 1))
    BY InitSeg
<1>2. Seg(x, SendAddress(x.chip, x.address), Past(x, 1), Past(x, 1 + x.n))
    BY AddressSeg
<1>3. Seg(x, Data(x.data, x.keep), Past(x, 1 + x.n), Finish(x))
    BY DataSeg
<1>4. Seg(x, InitTransfer(x.chip, x.code) \o SendAddress(x.chip, x.address), At(0, 0, l, o), Past(x, 1 + x.n))
    BY <1>1, <1>2, SegJoin
<1> QED BY <1>3, <1>4, SegJoin

(* begin()                                                                 *)
LEMMA BeginSeg ==
  ASSUME NEW k \in Nat, NEW x, x = BeginTransfer(k), Ours(x), NEW o
  PROVE  Seg(x, Begin(k), At(0, 0, 0, o), Finish(x))
<1> DEFINE head == IF build = "plain" THEN <<High(k)>> ELSE <<>>
           l == IF build = "plain" THEN 1 ELSE 0
<1>1. x.chip = k /\ x.code = WriteMode /\ x.n = 0 /\ x.data = <<SequentialMode>> /\ x.keep = FALSE /\ x.build = build
    BY DEF BeginTransfer
<1>2. Total(x) = 2 /\ Single(x) = 2 /\ LastWord(x) = 2
  <2>1. Len(x.data) = 1
      BY <1>1
  <2>2. Total(x) = 2 /\ Single(x) = 2
      BY <1>1, <2>1 DEF Total, Single
  <2>3. 2 - 2 = 2 * 0 /\ (2 * 0) \div 2 = 0
      BY Halves
  <2>4. LastWord(x) = 2 + 0
      BY <2>2, <2>3 DEF LastWord
  <2> QED BY <2>2, <2>4
<1>3. Seg(x, head, At(0, 0, 0, o), At(0, 0, l, o))
  <2>1. CASE build = "plain"
    <3>1. Does(x, At(0, 0, 0, o), High(k), At(0, 0, 1, o))
        BY <1>1, <2>1 DEF Does, At
    <3>2. High(k) \in Item
        BY DEF High, Item
    <3> QED BY <2>1, <3>1, <3>2, SegItem
  <2>2. CASE build # "plain"
      BY <2>2, SegNone
  <2> QED BY <2>1, <2>2
<1>4. Seg(x, InitTransfer(k, WriteMode), At(0, 0, l, o), Past(x, 1))
  <2>1. l = 1 \/ (build = "fifo" /\ l = 0)
      BY DEF Ours
  <2> HIDE DEF l
  <2> QED BY <1>1, <2>1, InitSeg
<1>5. Seg(x, SendByte(SequentialMode, FALSE, FALSE), Past(x, 1), Finish(x))
  <2>1. 2 \in 1 .. Single(x) /\ FALSE = (x.keep /\ 2 - 1 >= 1 + x.n)
      BY <1>1, <1>2
  <2>2. Seg(x, SendByte(StreamByte(x, 2), 2 # LastWord(x), FALSE), At(2 - 1, 2 - 1, 2, TRUE), Past(x, 2))
      BY <2>1, ByteSeg
  <2>3. StreamByte(x, 2) = SequentialMode
    <3>1. ~(2 <= 1 + 0) /\ 2 - 1 - 0 = 1
        OBVIOUS
    <3> QED BY <1>1, <3>1 DEF StreamByte
  <2>4. (2 # LastWord(x)) = FALSE /\ (1 # LastWord(x)) = TRUE /\ 2 - 1 = 1
      BY <1>2
  <2>5. Past(x, 2) = Finish(x) /\ At(1, 1, 2, TRUE) = Past(x, 1)
    <3>1. (Single(x) # LastWord(x)) = FALSE
        BY <1>2
    <3> QED BY <1>2, <2>4, <3>1 DEF Past, Finish
  <2> QED BY <2>2, <2>3, <2>4, <2>5
<1>6. Begin(k) = (head \o InitTransfer(k, WriteMode)) \o SendByte(SequentialMode, FALSE, FALSE)
    BY DEF Begin
<1> HIDE DEF head, l
<1>7. Seg(x, head \o InitTransfer(k, WriteMode), At(0, 0, 0, o), Past(x, 1))
    BY <1>3, <1>4, SegJoin
<1> QED BY <1>5, <1>6, <1>7, SegJoin

-----------------------------------------------------------------------------
(* Addresses                                                               *)

(* What the bytes of an address count. *)
LEMMA Weights ==
  /\ ByteBase \in Nat \ {0, 1}
  /\ \A j \in 1 .. 4 : Weight[j] \in Nat \ {0}
  /\ Weight[1] = 1 /\ Weight[2] = ByteBase /\ Weight[2] <= Weight[3] /\ Weight[3] <= Weight[4]
  /\ \A j \in 1 .. 3 : Weight[j + 1] = Weight[j] * ByteBase
<1> DEFINE B == ByteBase
           C == B * B
           D == B * B * B
<1>1. B \in Nat \ {0, 1}
    BY ChipAssumption
<1>2. \A p, q \in Nat \ {0} : p * q \in Nat \ {0} /\ p <= p * q
    OBVIOUS
<1>3. C \in Nat \ {0} /\ B <= C
    BY <1>1, <1>2
<1>4. D \in Nat \ {0} /\ C <= D
    BY <1>1, <1>2, <1>3
<1>5. Weight[1] = 1 /\ Weight[2] = B /\ Weight[3] = C /\ Weight[4] = D /\ 1 * B = B
    BY <1>1 DEF Weight
<1>6. C = B * B /\ D = C * B /\ B = ByteBase
    OBVIOUS
<1> HIDE DEF B, C, D
<1>7. ASSUME NEW j \in 1 .. 3 PROVE Weight[j + 1] = Weight[j] * B
  <2>1. CASE j = 1
      BY <1>5, <2>1
  <2>2. CASE j = 2
      BY <1>5, <1>6, <2>2
  <2>3. CASE j = 3
      BY <1>5, <1>6, <2>3
  <2> QED BY <2>1, <2>2, <2>3
<1>8. ASSUME NEW j \in 1 .. 4 PROVE Weight[j] \in Nat \ {0}
    BY <1>1, <1>3, <1>4, <1>5
<1> QED BY <1>1, <1>3, <1>4, <1>5, <1>6, <1>7, <1>8

(* A chip takes up to four bytes of address, and the library sends enough. *)
LEMMA AddressSize ==
  ASSUME NEW k \in Chip
  PROVE  /\ ChipSizes[k] \in Nat \ {0} /\ AddrBytes(ChipSizes[k]) \in 1 .. 4
         /\ ChipAddrBytes(ChipSizes[k]) \in 1 .. 4
         /\ ChipSizes[k] <= Weight[AddrBytes(ChipSizes[k])] * ByteBase
         /\ ChipsFit => ChipAddrBytes(ChipSizes[k]) = AddrBytes(ChipSizes[k])
<1> DEFINE s == ChipSizes[k]
           A == Weight[2]
           C == Weight[3]
           D == Weight[4]
           fits == s # A /\ s # C /\ s # D
<1>1. s \in Nat \ {0} /\ s < ByteBase * D /\ (ChipsFit => fits)
  <2>1. s \in Nat \ {0}
      BY ChipAssumption DEF Chip
  <2> QED BY <2>1, ChipAssumption DEF ChipsFit
<1>2. A \in Nat \ {0} /\ C \in Nat \ {0} /\ D \in Nat \ {0} /\ A <= C /\ C <= D /\ Weight[1] = 1
      /\ ByteBase \in Nat \ {0} /\ A = Weight[1] * ByteBase /\ C = A * ByteBase /\ D = C * ByteBase
      /\ ByteBase * D = D * ByteBase
  <2>1. Weight[1 + 1] = Weight[1] * ByteBase /\ Weight[2 + 1] = Weight[2] * ByteBase /\ Weight[3 + 1] = Weight[3] * ByteBase
      BY Weights
  <2>2. ByteBase * D = D * ByteBase
      BY Weights
  <2> QED BY <2>1, <2>2, Weights
<1>3. AddrBytes(s) = One(s >= 1) + One(s >= A) + One(s >= C) + One(s >= D)
    BY <1>2 DEF AddrBytes
<1>4. ChipAddrBytes(s) = 1 + One(s > A) + One(s > C) + One(s > D)
    BY DEF ChipAddrBytes
<1> HIDE DEF s, A, C, D
<1>9. ChipAddrBytes(s) \in 1 .. 4 /\ (fits => ChipAddrBytes(s) = AddrBytes(s))
    BY <1>1, <1>2, <1>3, <1>4 DEF One
<1> HIDE DEF fits
<1>5. CASE s < A
  <2>1. AddrBytes(s) = 1
      BY <1>1, <1>2, <1>3, <1>5 DEF One
  <2>2. s <= Weight[1] * ByteBase
      BY <1>1, <1>2, <1>5
  <2> QED BY <1>1, <1>9, <2>1, <2>2 DEF s
<1>6. CASE s >= A /\ s < C
  <2>1. AddrBytes(s) = 2
      BY <1>1, <1>2, <1>3, <1>6 DEF One
  <2>2. s <= Weight[2] * ByteBase
      BY <1>1, <1>2, <1>6 DEF A
  <2> QED BY <1>1, <1>9, <2>1, <2>2 DEF s
<1>7. CASE s >= C /\ s < D
  <2>1. AddrBytes(s) = 3
      BY <1>1, <1>2, <1>3, <1>7 DEF One
  <2>2. s <= Weight[3] * ByteBase
      BY <1>1, <1>2, <1>7 DEF C
  <2> QED BY <1>1, <1>9, <2>1, <2>2 DEF s
<1>8. CASE s >= D
  <2>1. AddrBytes(s) = 4
      BY <1>1, <1>2, <1>3, <1>8 DEF One
  <2>2. s <= Weight[4] * ByteBase
      BY <1>1, <1>2, <1>8 DEF D
  <2> QED BY <1>1, <1>9, <2>1, <2>2 DEF s
<1> QED BY <1>1, <1>2, <1>5, <1>6, <1>7, <1>8

(* A byte is added to an address.                                          *)
LEMMA NextDigit ==
  ASSUME NEW a \in Nat, NEW j \in 1 .. 3
  PROVE  (a \div Weight[j + 1]) * ByteBase + ((a \div Weight[j]) % ByteBase) = a \div Weight[j]
<1> DEFINE w == Weight[j]
           B == ByteBase
           q == a \div w
<1>1. w \in Nat \ {0} /\ B \in Nat \ {0} /\ Weight[j + 1] = w * B
    BY Weights
<1> HIDE DEF w, B
<1>2. q \in Nat
    BY <1>1, Quotient
<1>3. q \div B = a \div (w * B)
    BY <1>1
<1> HIDE DEF q
<1>4. q \div B \in Nat /\ q = B * (q \div B) + (q % B)
    BY <1>1, <1>2, Quotient
<1>5. B * (q \div B) = (q \div B) * B
    BY <1>1, <1>4
<1>6. q = (q \div B) * B + (q % B)
    BY <1>4, <1>5
<1> QED BY <1>1, <1>3, <1>6 DEF q, w, B
(* The first byte of an address is all there is above it. *)
LEMMA FirstDigit ==
  ASSUME NEW a \in Nat, NEW w \in Nat \ {0}, a < w * ByteBase
  PROVE  (a \div w) % ByteBase = a \div w
<1> DEFINE B == ByteBase
           q == a \div w
<1>1. B \in Nat \ {0}
    BY Weights
<1>2. q \in Nat /\ w * q \in Nat /\ a >= w * q
    BY Quotient
<1>5. a < w * B
    OBVIOUS
<1> HIDE DEF B, q
<1>3. q < B
  <2> SUFFICES ASSUME q >= B PROVE FALSE
      BY <1>1, <1>2
  <2>1. w * q >= w * B
    <3>1. PICK d \in Nat : q = B + d
      <4>1. q - B \in Nat /\ q = B + (q - B)
          BY <1>1, <1>2
      <4> QED BY <4>1
    <3>2. w * q = w * B + w * d /\ w * d \in Nat /\ w * B \in Nat
        BY <1>1, <3>1
    <3> QED BY <3>2
  <2>2. w * B \in Nat
      BY <1>1
  <2> QED BY <1>2, <1>5, <2>1, <2>2
<1>4. q % B = q
    BY <1>1, <1>2, <1>3
<1> QED BY <1>4 DEF B, q

-----------------------------------------------------------------------------
(* A chip during a transfer                                                *)

Cell == Byte \cup {WriteMode, SequentialMode}
ChipState(k) == [data : [1 .. ChipSizes[k] -> Cell], sequential : BOOLEAN, selected : BOOLEAN, instr : Nat,
                 need : 0 .. ChipAddrBytes(ChipSizes[k]), pos : Nat]
Quiet(c) == ~c.selected /\ c.instr = NoInstruction /\ c.need = 0 /\ c.pos = 0

(* The transfers there are.                                                *)
BlockOK(x) ==
    /\ x.code \in {Read, Write} /\ x.n = AddrBytes(x.size) /\ x.address + Len(x.data) <= x.size
    /\ x.data \in Seq(Cell) /\ x.keep = (x.code = Read)
BeginOK(x) == x.code = WriteMode /\ x.n = 0 /\ x.data = <<SequentialMode>> /\ x.keep = FALSE /\ x.address = 0
Known(x) == TransferOK(x) /\ x.chip \in Chip /\ x.size = ChipSizes[x.chip] /\ (BlockOK(x) \/ BeginOK(x))

(* The chip after p bytes of x, which began when it was c.                 *)
DataAfter(x, c, p) ==
    [a \in 1 .. x.size |-> IF x.code = Write /\ x.address < a /\ a <= x.address + (p - 1 - x.n)
                           THEN x.data[a - x.address] ELSE c.data[a]]
PosAfter(x, p) ==
    IF p <= 1 \/ x.code = WriteMode THEN 0
    ELSE IF p <= 1 + x.n THEN x.address \div Weight[x.n - p + 2]
    ELSE (x.address + (p - 1 - x.n)) % x.size
NeedAfter(x, p) == IF 1 <= p /\ p <= x.n THEN 1 + x.n - p ELSE 0
Busy(data, sequential, instr, need, pos) ==
    [data |-> data, sequential |-> sequential, selected |-> TRUE, instr |-> instr, need |-> need, pos |-> pos]
InstrAfter(x, p) == IF p = 0 THEN NoInstruction ELSE x.code
SequentialAfter(x, c, p) == c.sequential \/ (x.code = WriteMode /\ p = 2)
After(x, c, p) ==
    Busy(DataAfter(x, c, p), SequentialAfter(x, c, p), InstrAfter(x, p), NeedAfter(x, p), PosAfter(x, p))
(* The chip that x may begin with.                                         *)
Fit(x, c) == c \in ChipState(x.chip) /\ Quiet(c) /\ (x.code # WriteMode => c.sequential)

(* What the proofs use of a transfer. *)
LEMMA KnownFacts ==
  ASSUME NEW x, Known(x)
  PROVE  /\ x.chip \in Chip /\ x.size = ChipSizes[x.chip] /\ x.size \in Nat \ {0} /\ x.address \in Nat
         /\ x.n \in 0 .. 4 /\ Len(x.data) \in Nat /\ Len(x.data) >= 1 /\ Total(x) = 1 + x.n + Len(x.data)
         /\ x.address + Len(x.data) <= x.size \/ x.code = WriteMode
         /\ x.code \in {Read, Write} => /\ x.n = AddrBytes(x.size) /\ x.n \in 1 .. 4
                                        /\ x.address + Len(x.data) <= x.size
                                        /\ x.size <= Weight[x.n] * ByteBase
         /\ x.code = WriteMode => x.n = 0 /\ Total(x) = 2 /\ x.data = <<SequentialMode>>
         /\ x.code \in {Read, Write, WriteMode} /\ \A a \in 1 .. Len(x.data) : x.data[a] \in Cell
<1>1. x.n \in 0 .. 4 /\ Len(x.data) \in Nat /\ Len(x.data) >= 1 /\ Total(x) = 1 + x.n + Len(x.data) /\ x.address \in Nat
    BY DEF Known, TransferOK, Transfers, Total
<1>2. x.chip \in Chip /\ x.size = ChipSizes[x.chip]
    BY DEF Known
<1>3. /\ x.size \in Nat \ {0} /\ AddrBytes(x.size) \in 1 .. 4
      /\ x.size <= Weight[AddrBytes(x.size)] * ByteBase
    BY <1>2, AddressSize
<1>4. CASE BlockOK(x)
  <2>1. x.code \in {Read, Write} /\ x.code # WriteMode
      BY <1>4 DEF BlockOK, Read, Write, WriteMode
  <2>2. x.n = AddrBytes(x.size) /\ x.n \in 1 .. 4 /\ x.size <= Weight[x.n] * ByteBase /\ x.address + Len(x.data) <= x.size
      BY <1>3, <1>4 DEF BlockOK
  <2>3. \A a \in 1 .. Len(x.data) : x.data[a] \in Cell
      BY <1>4 DEF BlockOK
  <2> QED BY <1>1, <1>2, <1>3, <2>1, <2>2, <2>3
<1>5. CASE BeginOK(x)
  <2>1. x.code = WriteMode /\ x.code \notin {Read, Write}
      BY <1>5 DEF BeginOK, Read, Write, WriteMode
  <2>2. x.n = 0 /\ x.data = <<SequentialMode>> /\ Len(x.data) = 1
      BY <1>5 DEF BeginOK
  <2>3. Total(x) = 2
      BY <1>1, <2>2
  <2>4. \A a \in 1 .. Len(x.data) : x.data[a] \in Cell
      BY <2>2 DEF Cell
  <2> QED BY <1>1, <1>2, <1>3, <2>1, <2>2, <2>3, <2>4
<1> QED BY <1>4, <1>5 DEF Known

(* When the chips fit, their library sends the address bytes they take.    *)
LEMMA AddressTaken ==
  ASSUME ChipsFit, NEW x, Known(x), x.code \in {Read, Write}
  PROVE  x.n = ChipAddrBytes(x.size)
<1>1. x.n = AddrBytes(x.size) /\ x.chip \in Chip /\ x.size = ChipSizes[x.chip]
    BY KnownFacts
<1> QED BY <1>1, AddressSize

(* What may change in a busy chip.                                         *)
SetInstr(s, h, m) == [s EXCEPT !.instr = h, !.need = m]
SetMode(s, r) == [s EXCEPT !.sequential = r]
SetAddress(s, m, o) == [s EXCEPT !.need = m, !.pos = o]
SetData(s, o, e) == [s EXCEPT !.pos = o, !.data = e]
(* A busy chip with an instruction is one; so for its other fields below. *)
LEMMA TakesInstr ==
  ASSUME NEW d, NEW q, NEW j, NEW n, NEW p, NEW h, NEW m
  PROVE  SetInstr(Busy(d, q, j, n, p), h, m) = Busy(d, q, h, m, p)
<1> DEFINE A == {d}
           B == {q}
           D == {j, h}
           E == {n, m}
           F == {p}
           s == Busy(d, q, j, n, p)
           R == [data : A, sequential : B, selected : BOOLEAN, instr : D, need : E, pos : F]
           t == [s EXCEPT !.instr = h, !.need = m]
           u == Busy(d, q, h, m, p)
<1>1. d \in A /\ q \in B /\ TRUE \in BOOLEAN /\ h \in D /\ m \in E /\ p \in F
      /\ d \in A /\ q \in B /\ TRUE \in BOOLEAN /\ j \in D /\ n \in E /\ p \in F
    OBVIOUS
<1> HIDE DEF A, B, D, E, F
<1>2. s \in R /\ s.data = d /\ s.sequential = q /\ s.selected = TRUE /\ s.instr = j /\ s.need = n /\ s.pos = p
    BY <1>1 DEF Busy
<1> HIDE DEF s
<1>3. t \in R /\ t.data = d /\ t.sequential = q /\ t.selected = TRUE /\ t.instr = h /\ t.need = m /\ t.pos = p
    BY <1>1, <1>2
<1>4. u \in R /\ u.data = d /\ u.sequential = q /\ u.selected = TRUE /\ u.instr = h /\ u.need = m /\ u.pos = p
    BY <1>1 DEF Busy
<1> HIDE DEF t, u
<1>5. t = u
    BY <1>3, <1>4
<1> QED BY <1>5 DEF t, u, s, SetInstr
(* The same for the mode. *)
LEMMA TakesMode ==
  ASSUME NEW d, NEW q, NEW j, NEW n, NEW p, NEW r
  PROVE  SetMode(Busy(d, q, j, n, p), r) = Busy(d, r, j, n, p)
<1> DEFINE A == {d}
           B == {q, r}
           D == {j}
           E == {n}
           F == {p}
           s == Busy(d, q, j, n, p)
           R == [data : A, sequential : B, selected : BOOLEAN, instr : D, need : E, pos : F]
           t == [s EXCEPT !.sequential = r]
           u == Busy(d, r, j, n, p)
<1>1. d \in A /\ r \in B /\ TRUE \in BOOLEAN /\ j \in D /\ n \in E /\ p \in F
      /\ d \in A /\ q \in B /\ TRUE \in BOOLEAN /\ j \in D /\ n \in E /\ p \in F
    OBVIOUS
<1> HIDE DEF A, B, D, E, F
<1>2. s \in R /\ s.data = d /\ s.sequential = q /\ s.selected = TRUE /\ s.instr = j /\ s.need = n /\ s.pos = p
    BY <1>1 DEF Busy
<1> HIDE DEF s
<1>3. t \in R /\ t.data = d /\ t.sequential = r /\ t.selected = TRUE /\ t.instr = j /\ t.need = n /\ t.pos = p
    BY <1>1, <1>2
<1>4. u \in R /\ u.data = d /\ u.sequential = r /\ u.selected = TRUE /\ u.instr = j /\ u.need = n /\ u.pos = p
    BY <1>1 DEF Busy
<1> HIDE DEF t, u
<1>5. t = u
    BY <1>3, <1>4
<1> QED BY <1>5 DEF t, u, s, SetMode
(* The same for the address. *)
LEMMA TakesAddress ==
  ASSUME NEW d, NEW q, NEW j, NEW n, NEW p, NEW m, NEW o
  PROVE  SetAddress(Busy(d, q, j, n, p), m, o) = Busy(d, q, j, m, o)
<1> DEFINE A == {d}
           B == {q}
           D == {j}
           E == {n, m}
           F == {p, o}
           s == Busy(d, q, j, n, p)
           R == [data : A, sequential : B, selected : BOOLEAN, instr : D, need : E, pos : F]
           t == [s EXCEPT !.need = m, !.pos = o]
           u == Busy(d, q, j, m, o)
<1>1. d \in A /\ q \in B /\ TRUE \in BOOLEAN /\ j \in D /\ m \in E /\ o \in F
      /\ d \in A /\ q \in B /\ TRUE \in BOOLEAN /\ j \in D /\ n \in E /\ p \in F
    OBVIOUS
<1> HIDE DEF A, B, D, E, F
<1>2. s \in R /\ s.data = d /\ s.sequential = q /\ s.selected = TRUE /\ s.instr = j /\ s.need = n /\ s.pos = p
    BY <1>1 DEF Busy
<1> HIDE DEF s
<1>3. t \in R /\ t.data = d /\ t.sequential = q /\ t.selected = TRUE /\ t.instr = j /\ t.need = m /\ t.pos = o
    BY <1>1, <1>2
<1>4. u \in R /\ u.data = d /\ u.sequential = q /\ u.selected = TRUE /\ u.instr = j /\ u.need = m /\ u.pos = o
    BY <1>1 DEF Busy
<1> HIDE DEF t, u
<1>5. t = u
    BY <1>3, <1>4
<1> QED BY <1>5 DEF t, u, s, SetAddress
(* The same for the data. *)
LEMMA TakesData ==
  ASSUME NEW d, NEW q, NEW j, NEW n, NEW p, NEW o, NEW e
  PROVE  SetData(Busy(d, q, j, n, p), o, e) = Busy(e, q, j, n, o)
<1> DEFINE A == {d, e}
           B == {q}
           D == {j}
           E == {n}
           F == {p, o}
           s == Busy(d, q, j, n, p)
           R == [data : A, sequential : B, selected : BOOLEAN, instr : D, need : E, pos : F]
           t == [s EXCEPT !.pos = o, !.data = e]
           u == Busy(e, q, j, n, o)
<1>1. e \in A /\ q \in B /\ TRUE \in BOOLEAN /\ j \in D /\ n \in E /\ o \in F
      /\ d \in A /\ q \in B /\ TRUE \in BOOLEAN /\ j \in D /\ n \in E /\ p \in F
    OBVIOUS
<1> HIDE DEF A, B, D, E, F
<1>2. s \in R /\ s.data = d /\ s.sequential = q /\ s.selected = TRUE /\ s.instr = j /\ s.need = n /\ s.pos = p
    BY <1>1 DEF Busy
<1> HIDE DEF s
<1>3. t \in R /\ t.data = e /\ t.sequential = q /\ t.selected = TRUE /\ t.instr = j /\ t.need = n /\ t.pos = o
    BY <1>1, <1>2
<1>4. u \in R /\ u.data = e /\ u.sequential = q /\ u.selected = TRUE /\ u.instr = j /\ u.need = n /\ u.pos = o
    BY <1>1 DEF Busy
<1> HIDE DEF t, u
<1>5. t = u
    BY <1>3, <1>4
<1> QED BY <1>5 DEF t, u, s, SetData

(* The chip takes the next byte.                                           *)
LEMMA TakeByte ==
  ASSUME ChipsFit, NEW x, Known(x), NEW c, Fit(x, c), NEW p \in 0 .. Total(x) - 1
  PROVE  Take(After(x, c, p), x.size, StreamByte(x, p + 1)) = After(x, c, p + 1)
<1> DEFINE s == After(x, c, p)
           b == StreamByte(x, p + 1)
           n == x.n
           d == Len(x.data)
           size == x.size
           at == 1 + (s.pos % size)
           t == Total(x)
<1>1. /\ size \in Nat \ {0} /\ x.address \in Nat /\ n \in 0 .. 4 /\ d \in Nat /\ d >= 1 /\ t = 1 + n + d /\ p \in 0 .. t - 1
      /\ x.code \in {Read, Write} => n = ChipAddrBytes(size) /\ n \in 1 .. 4 /\ x.address + d <= size /\ size <= Weight[n] * ByteBase
      /\ x.code = WriteMode => n = 0 /\ t = 2 /\ x.data = <<SequentialMode>>
      /\ x.code \in {Read, Write, WriteMode}
    BY KnownFacts, AddressTaken
<1>2. Read = 3 /\ Write = 2 /\ WriteMode = 1 /\ NoInstruction = 0
    BY DEF Read, Write, WriteMode, NoInstruction
<1>3. /\ s.selected = TRUE /\ s.instr = IF p = 0 THEN NoInstruction ELSE x.code
      /\ s.need = NeedAfter(x, p) /\ s.pos = PosAfter(x, p) /\ s.data = DataAfter(x, c, p)
      /\ s.sequential = (c.sequential \/ (x.code = WriteMode /\ p = 2))
    BY DEF After, Busy, InstrAfter, SequentialAfter
<1>10. s = Busy(DataAfter(x, c, p), SequentialAfter(x, c, p), InstrAfter(x, p), NeedAfter(x, p), PosAfter(x, p))
    BY DEF After
<1>4. Take(s, size, b) =
        IF s.instr = NoInstruction
        THEN [s EXCEPT !.instr = b, !.need = IF b \in {Read, Write} THEN ChipAddrBytes(size) ELSE 0]
        ELSE IF s.instr = WriteMode THEN [s EXCEPT !.sequential = (b = SequentialMode)]
        ELSE IF s.need > 0 THEN [s EXCEPT !.need = s.need - 1, !.pos = s.pos * ByteBase + b]
        ELSE [s EXCEPT !.pos = IF s.sequential THEN at % size ELSE s.pos,
                       !.data = IF s.instr = Write THEN [s.data EXCEPT ![at] = b] ELSE s.data]
    BY <1>3 DEF Take
<1>5. c.sequential \in BOOLEAN /\ (x.code # WriteMode => c.sequential) /\ c.data \in [1 .. size -> Cell]
    BY KnownFacts DEF Fit, ChipState
<1> HIDE DEF n, d, t, size
<1>6. CASE p = 0
  <2>1. b = x.code
      BY <1>6 DEF StreamByte
  <2>2. Take(s, size, b) = [s EXCEPT !.instr = b, !.need = IF b \in {Read, Write} THEN ChipAddrBytes(size) ELSE 0]
      BY <1>3, <1>4, <1>6
  <2>3. (IF b \in {Read, Write} THEN ChipAddrBytes(size) ELSE 0) = NeedAfter(x, 1)
    <3>1. NeedAfter(x, 1) = IF 1 <= n THEN 1 + n - 1 ELSE 0
        BY DEF NeedAfter, n
    <3> HIDE DEF b
    <3> QED BY <1>1, <1>2, <2>1, <3>1
  <2>4. PosAfter(x, 0) = 0 /\ PosAfter(x, 1) = 0
      BY DEF PosAfter
  <2>5. DataAfter(x, c, 0) = DataAfter(x, c, 1)
    <3>1. \A a \in 1 .. size : ~(x.address < a /\ a <= x.address + (0 - 1 - n)) /\ ~(x.address < a /\ a <= x.address + (1 - 1 - n))
        BY <1>1
    <3> QED BY <3>1 DEF DataAfter, n, size
  <2>6. (c.sequential \/ (x.code = WriteMode /\ p = 2)) = (c.sequential \/ (x.code = WriteMode /\ 1 = 2))
      BY <1>6
  <2> HIDE DEF b
  <2>7. [s EXCEPT !.instr = b, !.need = NeedAfter(x, 1)] = After(x, c, 1)
    <3>1. After(x, c, 1) = Busy(DataAfter(x, c, 1), SequentialAfter(x, c, 1), x.code, NeedAfter(x, 1), PosAfter(x, 1))
        BY DEF After, InstrAfter
    <3> HIDE DEF s
    <3>2. [s EXCEPT !.instr = b, !.need = NeedAfter(x, 1)]
            = Busy(DataAfter(x, c, p), SequentialAfter(x, c, p), b, NeedAfter(x, 1), PosAfter(x, p))
      <4>1. SetInstr(s, b, NeedAfter(x, 1))
              = Busy(DataAfter(x, c, p), SequentialAfter(x, c, p), b, NeedAfter(x, 1), PosAfter(x, p))
          BY <1>10, TakesInstr
      <4> QED BY <4>1 DEF SetInstr
    <3>3. SequentialAfter(x, c, p) = SequentialAfter(x, c, 1)
        BY <2>6 DEF SequentialAfter
    <3> QED BY <1>6, <2>1, <2>4, <2>5, <3>1, <3>2, <3>3
  <2>8. p + 1 = 1
      BY <1>6
  <2> QED BY <2>2, <2>3, <2>7, <2>8 DEF b, size
<1>7. CASE p # 0 /\ x.code = WriteMode
  <2>1. p = 1 /\ p + 1 = 2 /\ n = 0
      BY <1>1, <1>7
  <2>2. b = SequentialMode
    <3>1. ~(2 = 1) /\ ~(2 <= 1 + 0) /\ 2 - 1 - 0 = 1
        OBVIOUS
    <3>2. b = x.data[1]
        BY <2>1, <3>1 DEF StreamByte, n
    <3>3. x.data = <<SequentialMode>>
        BY <1>1, <1>7
    <3> QED BY <3>2, <3>3
  <2>3. Take(s, size, b) = [s EXCEPT !.sequential = TRUE]
    <3>1. s.instr = WriteMode /\ ~(s.instr = NoInstruction) /\ (b = SequentialMode) = TRUE
        BY <1>2, <1>3, <1>7, <2>2
    <3> HIDE DEF s, b
    <3> QED BY <1>4, <3>1
  <2>4. DataAfter(x, c, 1) = DataAfter(x, c, 2) /\ NeedAfter(x, 1) = 0 /\ NeedAfter(x, 2) = 0 /\ PosAfter(x, 1) = 0 /\ PosAfter(x, 2) = 0
      BY <1>2, <1>7, <2>1 DEF DataAfter, NeedAfter, PosAfter, n
  <2>5. After(x, c, 2) = [s EXCEPT !.sequential = TRUE]
    <3>1. After(x, c, 2) = Busy(DataAfter(x, c, 2), SequentialAfter(x, c, 2), x.code, NeedAfter(x, 2), PosAfter(x, 2))
        BY DEF After, InstrAfter
    <3>2. SequentialAfter(x, c, 2) = TRUE
        BY <1>7 DEF SequentialAfter
    <3> HIDE DEF s
    <3>3. [s EXCEPT !.sequential = TRUE] = Busy(DataAfter(x, c, p), TRUE, x.code, NeedAfter(x, p), PosAfter(x, p))
      <4>1. InstrAfter(x, p) = x.code
          BY <1>7 DEF InstrAfter
      <4> DEFINE yes == TRUE
      <4> HIDE DEF yes
      <4>2. SetMode(s, yes) = Busy(DataAfter(x, c, p), yes, x.code, NeedAfter(x, p), PosAfter(x, p))
          BY <1>10, <4>1, TakesMode
      <4> USE DEF yes
      <4> QED BY <4>2 DEF SetMode
    <3> QED BY <2>1, <2>4, <3>1, <3>2, <3>3
  <2> QED BY <2>1, <2>3, <2>5 DEF size
<1>8. CASE p # 0 /\ x.code # WriteMode /\ p <= n
  <2>1. x.code \in {Read, Write} /\ p \in Nat /\ p >= 1 /\ p + 1 # 1 /\ p + 1 <= 1 + n /\ n \in 1 .. 4
      BY <1>1, <1>8
  <2>2. s.need = 1 + n - p /\ s.need > 0 /\ s.need - 1 = NeedAfter(x, p + 1)
    <3>1. NeedAfter(x, p) = 1 + n - p /\ NeedAfter(x, p + 1) = IF p + 1 <= n THEN 1 + n - (p + 1) ELSE 0
        BY <1>8, <2>1 DEF NeedAfter, n
    <3> QED BY <1>3, <1>8, <2>1, <3>1
  <2>3. b = (x.address \div Weight[n - p + 1]) % ByteBase
    <3>1. b = AddressByte(x, (p + 1) - 1)
        BY <2>1 DEF StreamByte, n
    <3>2. (p + 1) - 1 = p
        BY <2>1
    <3> QED BY <3>1, <3>2 DEF AddressByte, n
  <2>4. Take(s, size, b) = [s EXCEPT !.need = s.need - 1, !.pos = s.pos * ByteBase + b]
      BY <1>2, <1>3, <1>4, <1>8, <2>1, <2>2
  <2>5. PosAfter(x, p + 1) = x.address \div Weight[n - p + 1]
    <3>1. n - (p + 1) + 2 = n - p + 1 /\ ~(p + 1 <= 1)
        BY <2>1
    <3> QED BY <1>8, <2>1, <3>1 DEF PosAfter, n
  <2>6. s.pos * ByteBase + b = PosAfter(x, p + 1)
    <3>1. CASE p = 1
      <4>1. s.pos = 0 /\ n - p + 1 = n /\ 0 * ByteBase = 0
          BY <1>3, <2>1, <3>1, Weights DEF PosAfter
      <4>2. Weight[n] \in Nat \ {0} /\ x.address < Weight[n] * ByteBase
        <5> DEFINE W == Weight[n] * ByteBase
        <5>1. Weight[n] \in Nat \ {0} /\ ByteBase \in Nat
            BY <2>1, Weights
        <5>2. W \in Nat
            BY <5>1
        <5>3. x.address + d <= size /\ size <= W
            BY <1>1, <2>1
        <5> HIDE DEF W
        <5>4. x.address < W
            BY <1>1, <5>2, <5>3
        <5> QED BY <5>1, <5>4 DEF W
      <4>3. b = x.address \div Weight[n]
          BY <1>1, <2>3, <4>1, <4>2, FirstDigit
      <4>4. x.address \div Weight[n] \in Nat
          BY <1>1, <4>2, Quotient
      <4> HIDE DEF s, b
      <4> QED BY <2>5, <4>1, <4>3, <4>4
    <3>2. CASE p # 1
      <4> DEFINE j == n - p + 1
      <4>1. j \in 1 .. 3 /\ n - p + 2 = j + 1
          BY <1>8, <2>1, <3>2
      <4>2. s.pos = x.address \div Weight[j + 1]
        <5>1. ~(p <= 1) /\ p <= 1 + n
            BY <1>8, <2>1, <3>2
        <5> HIDE DEF j
        <5> QED BY <1>3, <1>8, <4>1, <5>1 DEF PosAfter, n
      <4>3. b = (x.address \div Weight[j]) % ByteBase
          BY <2>3
      <4> HIDE DEF j
      <4>4. (x.address \div Weight[j + 1]) * ByteBase + ((x.address \div Weight[j]) % ByteBase) = x.address \div Weight[j]
          BY <1>1, <4>1, NextDigit
      <4> QED BY <2>5, <4>2, <4>3, <4>4 DEF j
    <3> QED BY <3>1, <3>2
  <2>7. DataAfter(x, c, p) = DataAfter(x, c, p + 1)
    <3>1. \A a \in 1 .. size : ~(x.address < a /\ a <= x.address + (p - 1 - n)) /\ ~(x.address < a /\ a <= x.address + ((p + 1) - 1 - n))
        BY <1>1, <1>8, <2>1
    <3> QED BY <3>1 DEF DataAfter, n, size
  <2>8. After(x, c, p + 1) = [s EXCEPT !.need = NeedAfter(x, p + 1), !.pos = PosAfter(x, p + 1)]
    <3>1. InstrAfter(x, p) = x.code /\ InstrAfter(x, p + 1) = x.code /\ SequentialAfter(x, c, p + 1) = SequentialAfter(x, c, p)
        BY <1>8, <2>1 DEF InstrAfter, SequentialAfter
    <3>2. After(x, c, p + 1) = Busy(DataAfter(x, c, p + 1), SequentialAfter(x, c, p + 1), InstrAfter(x, p + 1),
                                   NeedAfter(x, p + 1), PosAfter(x, p + 1))
        BY DEF After
    <3> HIDE DEF s
    <3>3. [s EXCEPT !.need = NeedAfter(x, p + 1), !.pos = PosAfter(x, p + 1)]
            = Busy(DataAfter(x, c, p), SequentialAfter(x, c, p), x.code,
                   NeedAfter(x, p + 1), PosAfter(x, p + 1))
      <4>1. SetAddress(s, NeedAfter(x, p + 1), PosAfter(x, p + 1))
              = Busy(DataAfter(x, c, p), SequentialAfter(x, c, p), x.code, NeedAfter(x, p + 1), PosAfter(x, p + 1))
          BY <1>10, <3>1, TakesAddress
      <4> QED BY <4>1 DEF SetAddress
    <3> QED BY <2>7, <3>1, <3>2, <3>3
  <2> HIDE DEF s, b
  <2> QED BY <2>2, <2>4, <2>6, <2>8 DEF s, b, size
<1>9. CASE p # 0 /\ x.code # WriteMode /\ p > n
  <2> DEFINE e == p - 1 - n
             q == x.address + e
  <2>1. x.code \in {Read, Write} /\ p \in Nat /\ e \in 0 .. d - 1 /\ q \in Nat /\ q < size /\ (p + 1) - 1 - n = e + 1 /\ e \in Nat
      BY <1>1, <1>9
  <2>2. s.pos = q
    <3>1. CASE p = 1 + n
      <4>1. e = 0 /\ q = x.address /\ n - p + 2 = 1 /\ n >= 1 /\ ~(p <= 1)
        <5>1. n \in 1 .. 4
            BY <1>1, <2>1
        <5>2. p = 1 + n => p - 1 - n = 0 /\ n - p + 2 = 1 /\ n >= 1 /\ ~(p <= 1) /\ x.address + (p - 1 - n) = x.address
            BY <1>1, <2>1, <5>1
        <5> QED BY <3>1, <5>2
      <4>2. x.address \div 1 = x.address
          BY <1>1
      <4> HIDE DEF e, q
      <4> QED BY <1>3, <1>9, <3>1, <4>1, <4>2, Weights DEF PosAfter, n
    <3>2. CASE p # 1 + n
      <4>1. ~(p <= 1) /\ ~(p <= 1 + n)
          BY <1>1, <1>9, <2>1, <3>2
      <4>2. s.pos = q % size
          BY <1>3, <1>9, <4>1 DEF PosAfter, n, size
      <4> HIDE DEF e, q
      <4>3. q % size = q
          BY <1>1, <2>1
      <4> QED BY <4>2, <4>3
    <3> QED BY <3>1, <3>2
  <2>3. at = 1 + q /\ s.need = 0 /\ s.sequential = TRUE /\ s.instr = x.code
    <3>1. NeedAfter(x, p) = 0
        BY <1>1, <1>9, <2>1 DEF NeedAfter, n
    <3>2. q % size = q
      <4> HIDE DEF e, q
      <4> QED BY <1>1, <2>1
    <3> HIDE DEF e, q, s
    <3> QED BY <1>3, <1>5, <1>9, <2>2, <3>1, <3>2
  <2>4. b = x.data[e + 1]
      BY <1>1, <1>9, <2>1 DEF StreamByte, n
  <2>5. Take(s, size, b) = [s EXCEPT !.pos = (1 + q) % size, !.data = IF x.code = Write THEN [s.data EXCEPT ![1 + q] = b] ELSE s.data]
    <3>1. ~(x.code = NoInstruction) /\ ~(x.code = WriteMode) /\ ~(0 > 0)
        BY <1>2, <2>1
    <3> HIDE DEF e, q, s, b, at
    <3> QED BY <1>4, <2>3, <3>1
  <2>6. PosAfter(x, p + 1) = (1 + q) % size
    <3>1. ~(p + 1 <= 1) /\ ~(p + 1 <= 1 + n) /\ x.address + ((p + 1) - 1 - n) = 1 + q
        BY <1>1, <1>9, <2>1
    <3> HIDE DEF e, q
    <3> QED BY <1>9, <3>1 DEF PosAfter, n, size
  <2>7. DataAfter(x, c, p + 1) = IF x.code = Write THEN [s.data EXCEPT ![1 + q] = b] ELSE s.data
    <3>1. CASE x.code # Write
        BY <1>3, <3>1 DEF DataAfter
    <3>2. CASE x.code = Write
      <4> DEFINE f == DataAfter(x, c, p + 1)
                 g == [s.data EXCEPT ![1 + q] = b]
      <4>1. s.data = [a \in 1 .. size |-> IF x.address < a /\ a <= q THEN x.data[a - x.address] ELSE c.data[a]]
          BY <1>3, <3>2 DEF DataAfter, size, n
      <4>2. f = [a \in 1 .. size |-> IF x.address < a /\ a <= 1 + q THEN x.data[a - x.address] ELSE c.data[a]]
        <5>1. x.address + ((p + 1) - 1 - n) = 1 + q
            BY <1>1, <2>1
        <5> HIDE DEF q
        <5> QED BY <3>2, <5>1 DEF DataAfter, size, n
      <4>3. ASSUME NEW a \in 1 .. size PROVE f[a] = g[a]
        <5>1. CASE a = 1 + q
          <6>1. x.address < a /\ a <= 1 + q /\ a - x.address = e + 1
              BY <1>1, <2>1, <5>1
          <6>2. g[a] = b
              BY <4>1, <5>1
          <6> HIDE DEF e, q, g, f, b
          <6> QED BY <2>4, <4>2, <6>1, <6>2
        <5>2. CASE a # 1 + q
          <6>1. (a <= 1 + q) <=> (a <= q)
              BY <1>1, <2>1, <5>2
          <6>2. g[a] = s.data[a]
              BY <4>1, <5>2
          <6> HIDE DEF e, q, g, f, b, s
          <6> QED BY <4>1, <4>2, <6>1, <6>2
        <5> QED BY <5>1, <5>2
      <4>4. g = [a \in 1 .. size |-> g[a]] /\ f = [a \in 1 .. size |-> f[a]]
        <5> HIDE DEF s, q, b
        <5> QED BY <4>1, <4>2
      <4> HIDE DEF f, g
      <4>5. f = g
          BY <4>3, <4>4
      <4> QED BY <3>2, <4>5 DEF f, g
    <3> QED BY <3>1, <3>2
  <2>8. NeedAfter(x, p + 1) = 0 /\ s.need = 0 /\ p + 1 # 0
      BY <1>1, <1>9, <2>1, <2>3 DEF NeedAfter, n
  <2>9. After(x, c, p + 1) = [s EXCEPT !.pos = PosAfter(x, p + 1), !.data = DataAfter(x, c, p + 1)]
    <3>1. SequentialAfter(x, c, p + 1) = SequentialAfter(x, c, p)
        BY <1>9 DEF SequentialAfter
    <3>2. NeedAfter(x, p + 1) = NeedAfter(x, p)
        BY <1>3, <2>8
    <3>3. After(x, c, p + 1) = Busy(DataAfter(x, c, p + 1), SequentialAfter(x, c, p + 1), InstrAfter(x, p + 1),
                                   NeedAfter(x, p + 1), PosAfter(x, p + 1))
        BY DEF After
    <3>4. InstrAfter(x, p) = InstrAfter(x, p + 1)
        BY <1>9, <2>8 DEF InstrAfter
    <3> HIDE DEF s
    <3>5. [s EXCEPT !.pos = PosAfter(x, p + 1), !.data = DataAfter(x, c, p + 1)]
            = Busy(DataAfter(x, c, p + 1), SequentialAfter(x, c, p),
                   InstrAfter(x, p), NeedAfter(x, p), PosAfter(x, p + 1))
      <4>1. SetData(s, PosAfter(x, p + 1), DataAfter(x, c, p + 1))
              = Busy(DataAfter(x, c, p + 1), SequentialAfter(x, c, p), InstrAfter(x, p), NeedAfter(x, p), PosAfter(x, p + 1))
          BY <1>10, TakesData
      <4> QED BY <4>1 DEF SetData
    <3> QED BY <3>1, <3>2, <3>3, <3>4, <3>5
  <2> HIDE DEF s, b, q
  <2> QED BY <2>5, <2>6, <2>7, <2>9 DEF s, b, size
<1> QED BY <1>1, <1>6, <1>7, <1>8, <1>9

-----------------------------------------------------------------------------
(* The ends of the chips                                                   *)

IsEnds(f, n) == f = [k \in 0 .. n |-> IF k = 0 THEN 0 ELSE f[k - 1] + ChipSizes[k]]
(* The function in EndPtr exists.                                          *)
LEMMA EndsExist ==
  ASSUME NEW n \in Nat
  PROVE  \E f : IsEnds(f, n)
<1> DEFINE G == {k \in 0 .. n : \E f : IsEnds(f, k)}
<1>1. 0 \in G
  <2> DEFINE f == [j \in 0 .. 0 |-> 0]
  <2>1. f = [j \in 0 .. 0 |-> IF j = 0 THEN 0 ELSE f[j - 1] + ChipSizes[j]]
      OBVIOUS
  <2> HIDE DEF f
  <2>2. IsEnds(f, 0)
      BY <2>1 DEF IsEnds
  <2> QED BY <2>2
<1>2. ASSUME NEW k \in 0 .. n, k # n, k \in G PROVE k + 1 \in G
  <2>1. PICK f : IsEnds(f, k)
      BY <1>2
  <2> DEFINE g == [j \in 0 .. k + 1 |-> IF j <= k THEN f[j] ELSE f[k] + ChipSizes[j]]
             e == [j \in 0 .. k + 1 |-> IF j = 0 THEN 0 ELSE g[j - 1] + ChipSizes[j]]
  <2>2. ASSUME NEW j \in 0 .. k + 1 PROVE g[j] = e[j]
    <3>1. CASE j = k + 1
      <4>1. ~(j <= k) /\ j - 1 = k /\ j # 0 /\ k \in 0 .. k + 1 /\ k <= k
          BY <3>1
      <4> QED BY <3>1, <4>1
    <3>2. CASE j # k + 1
      <4>1. j \in 0 .. k /\ j <= k /\ g[j] = f[j]
          BY <3>2
      <4>2. f[j] = IF j = 0 THEN 0 ELSE f[j - 1] + ChipSizes[j]
          BY <2>1, <4>1 DEF IsEnds
      <4>3. j # 0 => j - 1 \in 0 .. k + 1 /\ g[j - 1] = f[j - 1]
          BY <4>1
      <4> QED BY <4>1, <4>2, <4>3
    <3> QED BY <3>1, <3>2
  <2>3. g = e
      BY <2>2
  <2> HIDE DEF g
  <2>4. IsEnds(g, k + 1)
      BY <2>3 DEF IsEnds
  <2>5. k + 1 \in 0 .. n
      BY <1>2
  <2> QED BY <2>4, <2>5
<1> HIDE DEF G
<1>4. \A k \in 0 .. n : k # n /\ k \in G => k + 1 \in G
    BY <1>2
<1>3. n \in G
    BY <1>1, <1>4, UpTo
<1> QED BY <1>3 DEF G

(* Each chip begins where the one before it ends.                          *)
LEMMA Ends ==
  /\ N \in Nat /\ N >= 1 /\ Chip = 1 .. N
  /\ EndPtr(0) = 0 /\ \A k \in Chip : EndPtr(k) = EndPtr(k - 1) + ChipSizes[k] /\ ChipSizes[k] \in Nat \ {0}
<1>1. N \in Nat /\ N >= 1 /\ Chip = 1 .. N /\ \A k \in Chip : ChipSizes[k] \in Nat \ {0}
    BY ChipAssumption DEF N, Chip
<1> DEFINE f == CHOOSE f : IsEnds(f, N)
<1>2. IsEnds(f, N)
    BY <1>1, EndsExist
<1>3. \A k \in 0 .. N : EndPtr(k) = f[k]
    BY DEF EndPtr, IsEnds
<1> HIDE DEF f
<1>4. \A k \in 0 .. N : f[k] = IF k = 0 THEN 0 ELSE f[k - 1] + ChipSizes[k]
    BY <1>2 DEF IsEnds
<1>5. EndPtr(0) = 0
    BY <1>1, <1>3, <1>4
<1>6. ASSUME NEW k \in Chip PROVE EndPtr(k) = EndPtr(k - 1) + ChipSizes[k]
  <2>1. k \in 0 .. N /\ k - 1 \in 0 .. N /\ k # 0
      BY <1>1
  <2> QED BY <1>3, <1>4, <2>1
<1> QED BY <1>1, <1>5, <1>6

(* And in ascending order.                                                 *)
LEMMA EndsUp ==
  /\ \A k \in 0 .. N : EndPtr(k) \in Nat /\ EndPtr(k) <= PoolSize
  /\ \A j, k \in 0 .. N : j <= k => EndPtr(j) <= EndPtr(k)
<1>1. N \in Nat /\ Chip = 1 .. N /\ EndPtr(0) = 0
      /\ \A k \in Chip : EndPtr(k) = EndPtr(k - 1) + ChipSizes[k] /\ ChipSizes[k] \in Nat \ {0}
    BY Ends
<1>2. \A k \in 0 .. N : EndPtr(k) \in Nat
  <2> DEFINE G == {k \in 0 .. N : EndPtr(k) \in Nat}
  <2>1. 0 \in G
      BY <1>1
  <2>2. ASSUME NEW k \in 0 .. N, k # N, k \in G PROVE k + 1 \in G
    <3>1. k + 1 \in Chip /\ (k + 1) - 1 = k /\ k + 1 \in 0 .. N
        BY <1>1, <2>2
    <3>2. EndPtr(k + 1) = EndPtr(k) + ChipSizes[k + 1] /\ ChipSizes[k + 1] \in Nat
      <4>1. EndPtr(k + 1) = EndPtr((k + 1) - 1) + ChipSizes[k + 1] /\ ChipSizes[k + 1] \in Nat
          BY <1>1, <3>1
      <4> QED BY <3>1, <4>1
    <3> QED BY <2>2, <3>1, <3>2
  <2> HIDE DEF G
  <2>3. \A k \in 0 .. N : k # N /\ k \in G => k + 1 \in G
      BY <2>2
  <2>4. \A k \in 0 .. N : k \in G
      BY <1>1, <2>1, <2>3, UpTo
  <2> QED BY <2>4 DEF G
<1>3. ASSUME NEW j \in 0 .. N PROVE \A k \in 0 .. N : j <= k => EndPtr(j) <= EndPtr(k)
  <2> DEFINE G == {k \in 0 .. N : j <= k => EndPtr(j) <= EndPtr(k)}
  <2>1. 0 \in G
    <3>1. 0 <= 0 /\ (j <= 0 => j = 0) /\ 0 \in 0 .. N
        BY <1>1, <1>3
    <3> QED BY <1>1, <3>1
  <2>2. ASSUME NEW k \in 0 .. N, k # N, k \in G PROVE k + 1 \in G
    <3>1. k + 1 \in Chip /\ (k + 1) - 1 = k /\ k + 1 \in 0 .. N
        BY <1>1, <2>2
    <3>2. EndPtr(k + 1) = EndPtr(k) + ChipSizes[k + 1] /\ ChipSizes[k + 1] \in Nat
      <4>1. EndPtr(k + 1) = EndPtr((k + 1) - 1) + ChipSizes[k + 1] /\ ChipSizes[k + 1] \in Nat
          BY <1>1, <3>1
      <4> QED BY <3>1, <4>1
    <3>3. EndPtr(k) \in Nat /\ EndPtr(j) \in Nat /\ EndPtr(k + 1) \in Nat
        BY <1>2, <3>1
    <3>4. CASE j <= k
        BY <2>2, <3>1, <3>2, <3>3, <3>4
    <3>5. CASE ~(j <= k)
      <4>1. j <= k + 1 => j = k + 1
          BY <3>5
      <4> QED BY <3>1, <3>3, <4>1
    <3> QED BY <3>4, <3>5
  <2> HIDE DEF G
  <2>3. \A k \in 0 .. N : k # N /\ k \in G => k + 1 \in G
      BY <2>2
  <2>4. \A k \in 0 .. N : k \in G
      BY <1>1, <2>1, <2>3, UpTo
  <2> QED BY <2>4 DEF G
<1>4. ASSUME NEW k \in 0 .. N PROVE EndPtr(k) <= PoolSize
  <2>1. k <= N /\ N \in 0 .. N
      BY <1>1
  <2> QED BY <1>3, <2>1 DEF PoolSize
<1> QED BY <1>2, <1>3, <1>4

-----------------------------------------------------------------------------
(* The bus                                                                 *)

RawChip(k) == [data : [1 .. ChipSizes[k] -> Nat], sequential : BOOLEAN, selected : BOOLEAN, instr : Nat, need : Nat, pos : Nat]
RawChips == {cs \in [Chip -> UNION {RawChip(k) : k \in Chip}] : \A k \in Chip : cs[k] \in RawChip(k)}
Start(cs) == [chips |-> cs, got |-> <<>>]

(* A word of one byte.                                                     *)
LEMMA ExchangeOne ==
  ASSUME NEW cs, NEW bytes, Len(bytes) = 1
  PROVE  ExchangeAll(cs, bytes) = Exchange(Start(cs), bytes[1])
<1> DEFINE Is(f) == f = [j \in 0 .. 1 |-> IF j = 0 THEN Start(cs) ELSE Exchange(f[j - 1], bytes[j])]
           a == CHOOSE f : Is(f)
           g == [j \in 0 .. 1 |-> IF j = 0 THEN Start(cs) ELSE Exchange(Start(cs), bytes[1])]
<1>1. Is(g)
    OBVIOUS
<1>2. Is(a)
    BY <1>1
<1>3. ExchangeAll(cs, bytes) = a[1]
    BY DEF ExchangeAll, Start
<1> HIDE DEF a, g
<1>4. a[0] = Start(cs) /\ a[1] = Exchange(a[0], bytes[1])
    BY <1>2
<1> QED BY <1>3, <1>4

(* And of two.                                                             *)
LEMMA ExchangeTwo ==
  ASSUME NEW cs, NEW bytes, Len(bytes) = 2
  PROVE  ExchangeAll(cs, bytes) = Exchange(Exchange(Start(cs), bytes[1]), bytes[2])
<1> DEFINE Is(f) == f = [j \in 0 .. 2 |-> IF j = 0 THEN Start(cs) ELSE Exchange(f[j - 1], bytes[j])]
           a == CHOOSE f : Is(f)
           first == Exchange(Start(cs), bytes[1])
           second == Exchange(first, bytes[2])
           g == [j \in 0 .. 2 |-> IF j = 0 THEN Start(cs) ELSE IF j = 1 THEN first ELSE second]
<1>1. Is(g)
  <2> HIDE DEF first
  <2>1. g[0] = Start(cs) /\ g[1] = first /\ first = Exchange(Start(cs), bytes[1]) /\ second = Exchange(first, bytes[2])
      BY DEF first
  <2> HIDE DEF second
  <2>2. ASSUME NEW j \in 0 .. 2 PROVE g[j] = IF j = 0 THEN Start(cs) ELSE Exchange(g[j - 1], bytes[j])
      BY <2>1
  <2>3. g = [j \in 0 .. 2 |-> g[j]]
      OBVIOUS
  <2> HIDE DEF g
  <2> QED BY <2>2, <2>3
<1>2. Is(a)
    BY <1>1
<1>3. ExchangeAll(cs, bytes) = a[2]
    BY DEF ExchangeAll, Start
<1> HIDE DEF a, g
<1>4. a[0] = Start(cs) /\ a[1] = Exchange(a[0], bytes[1]) /\ a[2] = Exchange(a[1], bytes[2])
    BY <1>2
<1> QED BY <1>3, <1>4

(* What a byte on the bus leaves of a chip.                                *)
LEMMA TakeRaw ==
  ASSUME NEW k \in Chip, NEW c \in RawChip(k), NEW b \in Nat
  PROVE  Take(c, ChipSizes[k], b) \in RawChip(k) /\ Take(c, ChipSizes[k], b).selected = c.selected
<1> DEFINE size == ChipSizes[k]
           at == 1 + (c.pos % size)
<1>1. size \in Nat \ {0} /\ ByteBase \in Nat
    BY AddressSize, Weights
<1>2. /\ c.data \in [1 .. size -> Nat] /\ c.sequential \in BOOLEAN /\ c.selected \in BOOLEAN /\ c.instr \in Nat
      /\ c.need \in Nat /\ c.pos \in Nat
    BY DEF RawChip
<1>3. c.pos % size \in 0 .. size - 1
    BY <1>1, <1>2, Quotient
<1>4. at \in 1 .. size /\ at \in Nat
    BY <1>1, <1>3
<1>5. CASE ~c.selected
    BY <1>5 DEF Take
<1>6. CASE c.selected /\ c.instr = NoInstruction
  <2> DEFINE n == IF b \in {Read, Write} THEN ChipAddrBytes(size) ELSE 0
             r == [c EXCEPT !.instr = b, !.need = n]
  <2>1. ChipAddrBytes(size) \in Nat
      BY DEF ChipAddrBytes, One
  <2>2. n \in Nat
      BY <2>1
  <2>3. Take(c, ChipSizes[k], b) = r
      BY <1>6 DEF Take
  <2> HIDE DEF n
  <2>4. r \in RawChip(k) /\ r.selected = c.selected
      BY <2>2 DEF RawChip
  <2> QED BY <2>3, <2>4
<1>7. CASE c.selected /\ c.instr # NoInstruction /\ c.instr = WriteMode
  <2> DEFINE q == (b = SequentialMode)
             r == [c EXCEPT !.sequential = q]
  <2>1. q \in BOOLEAN
      OBVIOUS
  <2>3. Take(c, ChipSizes[k], b) = r
      BY <1>7 DEF Take
  <2> HIDE DEF q
  <2>4. r \in RawChip(k) /\ r.selected = c.selected
      BY <2>1 DEF RawChip
  <2> QED BY <2>3, <2>4
<1>8. CASE c.selected /\ c.instr # NoInstruction /\ c.instr # WriteMode /\ c.need > 0
  <2> DEFINE n == c.need - 1
             o == c.pos * ByteBase + b
             r == [c EXCEPT !.need = n, !.pos = o]
  <2>1. n \in Nat
      BY <1>2, <1>8
  <2>2. o \in Nat
      BY <1>1, <1>2
  <2>3. Take(c, ChipSizes[k], b) = r
      BY <1>8 DEF Take
  <2> HIDE DEF n, o
  <2>4. r \in RawChip(k) /\ r.selected = c.selected
      BY <2>1, <2>2 DEF RawChip
  <2> QED BY <2>3, <2>4
<1>9. CASE c.selected /\ c.instr # NoInstruction /\ c.instr # WriteMode /\ ~(c.need > 0)
  <2> DEFINE o == IF c.sequential THEN at % size ELSE c.pos
             e == IF c.instr = Write THEN [c.data EXCEPT ![at] = b] ELSE c.data
             r == [c EXCEPT !.pos = o, !.data = e]
  <2>1. o \in Nat
    <3> HIDE DEF at
    <3>1. at % size \in Nat
        BY <1>1, <1>4
    <3> QED BY <1>2, <3>1
  <2>2. e \in [1 .. size -> Nat]
    <3> HIDE DEF at
    <3> QED BY <1>2, <1>4
  <2>3. Take(c, ChipSizes[k], b) = r
      BY <1>9 DEF Take
  <2> HIDE DEF o, e
  <2>4. r \in RawChip(k) /\ r.selected = c.selected
      BY <2>1, <2>2 DEF RawChip
  <2> QED BY <2>3, <2>4
<1> QED BY <1>5, <1>6, <1>7, <1>8, <1>9

(* And the select pin.                                                     *)
LEMMA PinRaw ==
  ASSUME NEW k, NEW c \in RawChip(k)
  PROVE  /\ Selected(c) \in RawChip(k) /\ Selected(c).selected = TRUE
         /\ Deselected(c) \in RawChip(k) /\ Deselected(c).selected = FALSE
<1>1. Selected(c) \in RawChip(k) /\ Selected(c).selected = TRUE
    BY DEF RawChip, Selected
<1>2. Deselected(c) \in RawChip(k) /\ Deselected(c).selected = FALSE
    BY DEF RawChip, Deselected, NoInstruction
<1> QED BY <1>1, <1>2

Same(cs, ds) == \A k \in Chip : ds[k].selected = cs[k].selected

(* A byte on the bus changes neither the kind of a chip nor which are selected. *)
LEMMA ExchangeRaw ==
  ASSUME NEW y, y.chips \in RawChips, NEW b \in Nat
  PROVE  Exchange(y, b).chips \in RawChips /\ Same(y.chips, Exchange(y, b).chips)
<1> DEFINE ds == [k \in Chip |-> Take(y.chips[k], ChipSizes[k], b)]
<1>1. Exchange(y, b).chips = ds
    BY DEF Exchange
<1>2. ASSUME NEW k \in Chip PROVE ds[k] \in RawChip(k) /\ ds[k].selected = y.chips[k].selected
  <2>1. y.chips[k] \in RawChip(k)
      BY DEF RawChips
  <2> QED BY <2>1, TakeRaw
<1>3. ds \in [Chip -> UNION {RawChip(k) : k \in Chip}]
  <2>1. \A k \in Chip : ds[k] \in UNION {RawChip(j) : j \in Chip}
      BY <1>2
  <2>2. ds = [k \in Chip |-> ds[k]]
      OBVIOUS
  <2> HIDE DEF ds
  <2> QED BY <2>1, <2>2
<1> HIDE DEF ds
<1>4. ds \in RawChips
    BY <1>2, <1>3 DEF RawChips
<1>5. Same(y.chips, ds)
    BY <1>2 DEF Same
<1> QED BY <1>1, <1>4, <1>5

(* A word on the bus leaves the select pins alone.                         *)
LEMMA WordRaw ==
  ASSUME NEW cs \in RawChips, NEW bytes \in Seq(Nat), Len(bytes) \in {1, 2}
  PROVE  ExchangeAll(cs, bytes).chips \in RawChips /\ Same(cs, ExchangeAll(cs, bytes).chips)
<1>1. Start(cs).chips = cs
    BY DEF Start
<1> DEFINE first == Exchange(Start(cs), bytes[1])
<1>2. first.chips \in RawChips /\ Same(cs, first.chips)
  <2>1. bytes[1] \in Nat
      OBVIOUS
  <2> QED BY <1>1, <2>1, ExchangeRaw
<1>3. CASE Len(bytes) = 1
    BY <1>2, <1>3, ExchangeOne
<1>4. CASE Len(bytes) = 2
  <2> HIDE DEF first
  <2>0. 2 \in 1 .. Len(bytes)
      BY <1>4
  <2>1. bytes[2] \in Nat
      BY <2>0
  <2>2. Exchange(first, bytes[2]).chips \in RawChips /\ Same(first.chips, Exchange(first, bytes[2]).chips)
      BY <1>2, <2>1, ExchangeRaw
  <2>3. Same(cs, Exchange(first, bytes[2]).chips)
      BY <1>2, <2>2 DEF Same
  <2> QED BY <1>4, <2>2, <2>3, ExchangeTwo DEF first
<1> QED BY <1>3, <1>4

(* And driving one of them leaves the others.                              *)
LEMMA DriveRaw ==
  ASSUME NEW cs \in RawChips, NEW k \in Chip, NEW d \in RawChip(k)
  PROVE  /\ [cs EXCEPT ![k] = d] \in RawChips /\ [cs EXCEPT ![k] = d][k] = d
         /\ \A j \in Chip : j # k => [cs EXCEPT ![k] = d][j] = cs[j]
<1> DEFINE ds == [cs EXCEPT ![k] = d]
<1>1. cs \in [Chip -> UNION {RawChip(j) : j \in Chip}] /\ \A j \in Chip : cs[j] \in RawChip(j)
    BY DEF RawChips
<1>2. ds[k] = d /\ \A j \in Chip : j # k => ds[j] = cs[j]
    BY <1>1
<1>3. ds \in [Chip -> UNION {RawChip(j) : j \in Chip}]
    BY <1>1
<1> HIDE DEF ds
<1>4. \A j \in Chip : ds[j] \in RawChip(j)
    BY <1>1, <1>2
<1>5. ds \in RawChips
    BY <1>3, <1>4 DEF RawChips
<1> QED BY <1>2, <1>5 DEF ds

-----------------------------------------------------------------------------
(* The invariant                                                           *)

(* The transfer the board is at, and whether it is at one.                 *)
Now ==
    IF op.kind = "start" THEN BeginTransfer(i - 1)
    ELSE IF op.kind = "read" THEN ReadTransfer(i, op.offset - StartPtr(i), sz)
    ELSE WriteTransfer(i, op.offset - StartPtr(i), SubSeq(op.data, 1, sz))
Active == (op.kind = "start" /\ i > 1) \/ sz > 0

(* The loop has found the chip of the next byte, and how many it takes.    *)
Entered ==
    /\ op.kind \in {"read", "write"} /\ i \in Chip /\ StartPtr(i) <= op.offset /\ op.offset < EndPtr(i)
    /\ sz = Smaller(op.size, ChipSizes[i] - (op.offset - StartPtr(i)))
Ops == [kind : {"none", "start", "read", "write"}, offset : Nat, size : Nat, data : Seq(Byte)]
LoopOK ==
    /\ build \in {"plain", "fifo"} /\ started \in BOOLEAN /\ op \in Ops /\ i \in Nat /\ sz \in Nat
    /\ op.kind # "none" => i \in 1 .. N + 1
    /\ op.kind = "start" => ~started
    /\ op.kind \in {"read", "write"} => started /\ op.size >= 1
    /\ op.kind = "write" => Len(op.data) = op.size
    /\ sz > 0 => Entered
BusOK == pin \in Chip /\ open \in BOOLEAN /\ chips \in RawChips

(* b words were pushed and c answers taken; the pin is down when l is 2.   *)
Held(x, e, l) == e < LastWord(x) /\ IF x.build = "plain" THEN l = 2 ELSE e > 0
Lone(x) == \A k \in Chip : (started \/ k < x.chip) /\ k # x.chip => chips[k].selected = FALSE
Going(x, b, c, l) ==
    /\ b \in 0 .. LastWord(x) /\ c \in Nat /\ l \in 0 .. 2 /\ b - c <= FifoSize
    /\ Seg(x, script, At(b, c, l, open), Finish(x))
    /\ tx \in Seq(Item) /\ rx \in Seq(Seq(Nat)) /\ Len(tx) + Len(rx) = b - c
    /\ \A j \in 1 .. Len(tx) : tx[j] = WordAt(x, (b - Len(tx)) + j)
    /\ x.build = "plain" => tx = <<>> /\ rx = <<>>
    /\ IF l = 2 THEN pin = x.chip ELSE b = 0
    /\ Lone(x)
    /\ IF l = 0 THEN ~started ELSE chips[x.chip].selected = Held(x, b - Len(tx), l)
Calm ==
    /\ script = <<>> /\ tx = <<>> /\ rx = <<>>
    /\ started => \A k \in Chip : chips[k].selected = FALSE
    /\ build = "plain" => open = FALSE
TransferInv == IF Active THEN \E x, b, c, l : x = Now /\ Going(x, b, c, l) ELSE Calm
ApartInv == LoopOK /\ BusOK /\ TransferInv

(* The bytes of a transfer are bytes.                                      *)
LEMMA Bytes ==
  Byte \subseteq Cell /\ Cell \subseteq Nat /\ Dummy \in Byte /\ Dummy \in Nat /\ PoolSize \in Nat
  /\ WriteMode \in Cell /\ SequentialMode \in Cell
<1>1. PoolSize \in Nat
  <2>1. N \in 0 .. N
      BY Ends
  <2> QED BY <2>1, EndsUp DEF PoolSize
<1> QED BY <1>1 DEF Byte, Cell, Val, Dummy, WriteMode, SequentialMode

(* Bytes of a block are such that a chip may hold, and numbers. *)
LEMMA BlockBytes ==
  ASSUME NEW data \in Seq(Byte)
  PROVE  data \in Seq(Cell) /\ data \in Seq(Nat)
<1>1. \A j \in 1 .. Len(data) : data[j] \in Byte
    OBVIOUS
<1>2. \A j \in 1 .. Len(data) : data[j] \in Cell /\ data[j] \in Nat
    BY <1>1, Bytes
<1>3. Len(data) \in Nat /\ data = [j \in 1 .. Len(data) |-> data[j]]
    OBVIOUS
<1> QED BY <1>2, <1>3

(* How much of a block a chip takes.                                       *)
LEMMA Fits ==
  ASSUME op \in Ops, i \in Chip, StartPtr(i) <= op.offset, op.offset < EndPtr(i), op.size >= 1,
         NEW most, most = Smaller(op.size, ChipSizes[i] - (op.offset - StartPtr(i)))
  PROVE  /\ op.offset - StartPtr(i) \in Nat /\ most \in Nat \ {0} /\ most <= op.size
         /\ (op.offset - StartPtr(i)) + most <= ChipSizes[i]
<1>2. ChipSizes[i] \in Nat /\ EndPtr(i) = StartPtr(i) + ChipSizes[i] /\ StartPtr(i) \in Nat
  <2>1. i - 1 \in 0 .. N
      BY Ends
  <2> QED BY <2>1, Ends, EndsUp DEF StartPtr
<1>3. op.offset \in Nat /\ op.size \in Nat
    BY DEF Ops
<1> DEFINE o == op.offset
           s == op.size
           p == StartPtr(i)
           m == ChipSizes[i]
<1> HIDE DEF o, s, p, m
<1>4. p <= o /\ o < p + m /\ p \in Nat /\ m \in Nat /\ o \in Nat /\ s \in Nat /\ s >= 1 /\ most = Smaller(s, m - (o - p))
    BY <1>2, <1>3 DEF o, p, m, s
<1>5. o - p \in Nat /\ most \in Nat \ {0} /\ most <= s /\ (o - p) + most <= m
    BY <1>4 DEF Smaller
<1> QED BY <1>5 DEF o, p, m, s

(* The transfer of a block is one the board can make. *)
LEMMA BlockKnown ==
  ASSUME LoopOK, NEW k \in Chip, NEW code \in {Read, Write}, NEW address \in Nat, NEW data \in Seq(Byte), Len(data) >= 1,
         address + Len(data) <= ChipSizes[k], NEW keep, keep = (code = Read)
  PROVE  Known(BlockTransfer(k, code, address, data, keep)) /\ Ours(BlockTransfer(k, code, address, data, keep))
<1> DEFINE x == BlockTransfer(k, code, address, data, keep)
<1>1. /\ x.build = build /\ x.chip = k /\ x.size = ChipSizes[k] /\ x.code = code /\ x.n = AddrBytes(ChipSizes[k])
      /\ x.address = address /\ x.data = data /\ x.keep = keep
    BY DEF BlockTransfer
<1>2. data \in Seq(Cell) /\ data \in Seq(Nat)
    BY BlockBytes
<1>3. k \in Nat /\ ChipSizes[k] \in Nat /\ code \in Nat /\ AddrBytes(ChipSizes[k]) \in 0 .. 4 /\ keep \in BOOLEAN
  <2>1. k \in Nat
      BY Ends
  <2>2. keep \in BOOLEAN
      OBVIOUS
  <2>3. ChipSizes[k] \in Nat /\ AddrBytes(ChipSizes[k]) \in 0 .. 4
      BY AddressSize
  <2> QED BY <2>1, <2>2, <2>3 DEF Read, Write
<1>4. x \in Transfers
    BY <1>2, <1>3 DEF Transfers, BlockTransfer, LoopOK
<1> HIDE DEF x
<1>5. TransferOK(x)
    BY <1>1, <1>4 DEF TransferOK
<1>6. BlockOK(x)
    BY <1>1, <1>2 DEF BlockOK
<1> QED BY <1>1, <1>5, <1>6 DEF x, Known, Ours, LoopOK

(* So is that of begin(), *)
LEMMA BeginKnown ==
  ASSUME LoopOK, NEW k \in Chip
  PROVE  Known(BeginTransfer(k)) /\ Ours(BeginTransfer(k)) /\ BeginTransfer(k).chip = k
<1> DEFINE x == BeginTransfer(k)
<1>1. /\ x.build = build /\ x.chip = k /\ x.size = ChipSizes[k] /\ x.code = WriteMode /\ x.n = 0
      /\ x.address = 0 /\ x.data = <<SequentialMode>> /\ x.keep = FALSE
    BY DEF BeginTransfer
<1>3. k \in Nat /\ ChipSizes[k] \in Nat /\ WriteMode \in Nat /\ SequentialMode \in Nat
  <2>1. k \in Nat
      BY Ends
  <2> QED BY <2>1, AddressSize, Bytes
<1>2. <<SequentialMode>> \in Seq(Nat) /\ Len(<<SequentialMode>>) = 1
    BY <1>3
<1>4. x \in Transfers
    BY <1>2, <1>3 DEF Transfers, BeginTransfer, LoopOK
<1> HIDE DEF x
<1>5. TransferOK(x)
    BY <1>1, <1>2, <1>4 DEF TransferOK
<1>6. BeginOK(x)
    BY <1>1 DEF BeginOK
<1> QED BY <1>1, <1>5, <1>6 DEF x, Known, Ours, LoopOK

(* of read() *)
LEMMA ReadKnown ==
  ASSUME LoopOK, NEW k \in Chip, NEW p \in Nat, NEW m \in Nat \ {0}, p + m <= ChipSizes[k]
  PROVE  Known(ReadTransfer(k, p, m)) /\ Ours(ReadTransfer(k, p, m))
<1> DEFINE data == [j \in 1 .. m |-> Dummy]
           yes == TRUE
<1>1. data \in Seq(Byte) /\ Len(data) = m /\ Len(data) >= 1
    BY Bytes
<1>2. Read \in {Read, Write} /\ yes = (Read = Read)
    OBVIOUS
<1> HIDE DEF data, yes
<1>3. Known(BlockTransfer(k, Read, p, data, yes)) /\ Ours(BlockTransfer(k, Read, p, data, yes))
    BY <1>1, <1>2, BlockKnown
<1>4. ReadTransfer(k, p, m) = BlockTransfer(k, Read, p, data, yes)
    BY DEF ReadTransfer, data, yes
<1> QED BY <1>3, <1>4

(* and of write(). *)
LEMMA WriteKnown ==
  ASSUME LoopOK, NEW k \in Chip, NEW p \in Nat, NEW data \in Seq(Byte), Len(data) >= 1, p + Len(data) <= ChipSizes[k]
  PROVE  Known(WriteTransfer(k, p, data)) /\ Ours(WriteTransfer(k, p, data))
<1> DEFINE no == FALSE
<1>2. Write \in {Read, Write} /\ no = (Write = Read)
    BY DEF Read, Write
<1> HIDE DEF no
<1>3. Known(BlockTransfer(k, Write, p, data, no)) /\ Ours(BlockTransfer(k, Write, p, data, no))
    BY <1>2, BlockKnown
<1>4. WriteTransfer(k, p, data) = BlockTransfer(k, Write, p, data, no)
    BY DEF WriteTransfer, no
<1> QED BY <1>3, <1>4

(* The transfer for a chip of a block.                                     *)
BlockNow(most) ==
    IF op.kind = "read" THEN ReadTransfer(i, op.offset - StartPtr(i), most)
    ELSE WriteTransfer(i, op.offset - StartPtr(i), SubSeq(op.data, 1, most))
(* The transfer of the piece that lies on this chip. *)
LEMMA BlockNowKnown ==
  ASSUME LoopOK, op.kind \in {"read", "write"}, i \in Chip, StartPtr(i) <= op.offset, op.offset < EndPtr(i),
         NEW most, most = Smaller(op.size, ChipSizes[i] - (op.offset - StartPtr(i)))
  PROVE  /\ Known(BlockNow(most)) /\ Ours(BlockNow(most)) /\ BlockNow(most).chip = i
         /\ BlockNow(most).n = AddrBytes(ChipSizes[i])
         /\ most \in Nat \ {0} /\ most <= op.size
<1> DEFINE p == op.offset - StartPtr(i)
<1>1. op \in Ops /\ op.size >= 1
    BY DEF LoopOK
<1>2. p \in Nat /\ most \in Nat \ {0} /\ most <= op.size /\ p + most <= ChipSizes[i]
    BY <1>1, Fits
<1> HIDE DEF p
<1>3. CASE op.kind = "read"
  <2>1. Known(ReadTransfer(i, p, most)) /\ Ours(ReadTransfer(i, p, most))
      BY <1>2, ReadKnown
  <2>2. BlockNow(most) = ReadTransfer(i, p, most)
      BY <1>3 DEF BlockNow, p
  <2>3. ReadTransfer(i, p, most).chip = i /\ ReadTransfer(i, p, most).n = AddrBytes(ChipSizes[i])
      BY DEF ReadTransfer, BlockTransfer
  <2> QED BY <1>2, <2>1, <2>2, <2>3
<1>4. CASE op.kind = "write"
  <2> DEFINE data == SubSeq(op.data, 1, most)
  <2>1. data \in Seq(Byte) /\ Len(data) = most /\ Len(data) >= 1
    <3>1. op.data \in Seq(Byte) /\ Len(op.data) = op.size /\ op.size \in Nat
        BY <1>4 DEF LoopOK, Ops
    <3> QED BY <1>2, <3>1
  <2>2. BlockNow(most) = WriteTransfer(i, p, data)
      BY <1>4 DEF BlockNow, p
  <2> HIDE DEF data
  <2>3. Known(WriteTransfer(i, p, data)) /\ Ours(WriteTransfer(i, p, data))
      BY <1>2, <2>1, WriteKnown
  <2>4. WriteTransfer(i, p, data).chip = i /\ WriteTransfer(i, p, data).n = AddrBytes(ChipSizes[i])
      BY DEF WriteTransfer, BlockTransfer
  <2> QED BY <1>2, <2>2, <2>3, <2>4
<1> QED BY <1>3, <1>4

(* The board is at a transfer it can make.                                 *)
LEMMA NowKnown ==
  ASSUME LoopOK, Active
  PROVE  /\ Known(Now) /\ Ours(Now)
         /\ Now.chip = (IF op.kind = "start" THEN i - 1 ELSE i) /\ Now.chip \in Chip
         /\ op.kind = "start" => sz = 0 /\ i > 1
<1>1. CASE op.kind = "start"
  <2>1. sz = 0 /\ i > 1 /\ i \in 1 .. N + 1
      BY <1>1 DEF LoopOK, Entered, Active
  <2>2. i - 1 \in Chip
      BY <2>1, Ends
  <2> QED BY <1>1, <2>1, <2>2, BeginKnown DEF Now
<1>2. CASE op.kind # "start"
  <2>1. sz > 0
      BY <1>2 DEF Active
  <2>2. op.kind \in {"read", "write"} /\ i \in Chip /\ StartPtr(i) <= op.offset /\ op.offset < EndPtr(i)
        /\ sz = Smaller(op.size, ChipSizes[i] - (op.offset - StartPtr(i)))
      BY <2>1 DEF LoopOK, Entered
  <2>3. Now = BlockNow(sz)
      BY <1>2 DEF Now, BlockNow
  <2> QED BY <1>2, <2>2, <2>3, BlockNowKnown
<1> QED BY <1>1, <1>2

-----------------------------------------------------------------------------
(* What comes next in a transfer.                                          *)

Does1(x, u, item, v) ==
    x.build = "plain" /\ item = High(x.chip) /\ u.pushed = 0 /\ u.taken = 0 /\ u.low = 0 /\ v = At(0, 0, 1, u.open)
Does2(x, u, item, v) ==
    /\ item = Low(x.chip) /\ u.pushed = 0 /\ u.taken = 0 /\ (u.low = 1 \/ (x.build = "fifo" /\ u.low = 0))
    /\ v = At(0, 0, 2, TRUE)
Does3(x, u, item, v) ==
    /\ u.low = 2 /\ u.pushed < LastWord(x) /\ item = WordAt(x, u.pushed + 1)
    /\ v = At(u.pushed + 1, IF x.build = "plain" THEN u.pushed + 1 ELSE u.taken, 2, u.open)
    /\ v.pushed - v.taken <= FifoSize
Does4(x, u, item, v) ==
    /\ u.low = 2 /\ x.build = "fifo" /\ u.taken < u.pushed /\ item = Receive(WordAt(x, u.taken + 1).keep)
    /\ v = At(u.pushed, u.taken + 1, 2, u.open)
Does5(x, u, item, v) ==
    /\ u.low = 2 /\ item = EndTransaction /\ u.pushed = LastWord(x) /\ u.taken = LastWord(x)
    /\ v = At(u.pushed, u.taken, 2, FALSE)

(* An item is told by what it does.                                        *)
LEMMA Kinds ==
  ASSUME NEW x, TransferOK(x), NEW u, NEW item, NEW v, Does(x, u, item, v)
  PROVE  /\ Does1(x, u, item, v) \/ Does2(x, u, item, v) \/ Does3(x, u, item, v) \/ Does4(x, u, item, v) \/ Does5(x, u, item, v)
         /\ item.do = "high" => Does1(x, u, item, v)
         /\ item.do = "low" => Does2(x, u, item, v)
         /\ item.do = "send" => Does3(x, u, item, v)
         /\ item.do = "receive" => Does4(x, u, item, v)
         /\ item.do = "end" => Does5(x, u, item, v)
<1>1. Does1(x, u, item, v) \/ Does2(x, u, item, v) \/ Does3(x, u, item, v) \/ Does4(x, u, item, v) \/ Does5(x, u, item, v)
    BY DEF Does, Does1, Does2, Does3, Does4, Does5
<1>2. Does1(x, u, item, v) => item.do = "high"
    BY DEF Does1, High
<1>3. Does2(x, u, item, v) => item.do = "low"
    BY DEF Does2, Low
<1>4. Does3(x, u, item, v) => item.do = "send"
    BY DEF Does3, WordAt, Send
<1>5. Does4(x, u, item, v) => item.do = "receive"
    BY DEF Does4, Receive
<1>6. Does5(x, u, item, v) => item.do = "end"
    BY DEF Does5, EndTransaction
<1> QED BY <1>1, <1>2, <1>3, <1>4, <1>5, <1>6

(* The fields of a position in a script. *)
LEMMA Fields ==
  ASSUME NEW b, NEW c, NEW l, NEW o
  PROVE  At(b, c, l, o).pushed = b /\ At(b, c, l, o).taken = c /\ At(b, c, l, o).low = l /\ At(b, c, l, o).open = o
BY DEF At

(* The script of a transfer that has not ended.                            *)
NextAt(x, b, c, l, v) ==
    Does(x, At(b, c, l, open), Head(script), v) /\ Seg(x, Tail(script), v, Finish(x))
(* An item of the script moves the transfer on. *)
LEMMA NextItem ==
  ASSUME NEW x, NEW b, NEW c, NEW l, Going(x, b, c, l), script # <<>>
  PROVE  \E v : NextAt(x, b, c, l, v)
<1>1. Seg(x, script, At(b, c, l, open), Finish(x))
    BY DEF Going
<1>2. PICK v : Does(x, At(b, c, l, open), Head(script), v) /\ Seg(x, Tail(script), v, Finish(x))
    BY <1>1, SegHead
<1> QED BY <1>2 DEF NextAt

(* And of one that has.                                                    *)
LEMMA Ended ==
  ASSUME NEW x, TransferOK(x), NEW b, NEW c, NEW l, Going(x, b, c, l), script = <<>>
  PROVE  /\ b = LastWord(x) /\ c = LastWord(x) /\ l \in {2} /\ tx = <<>> /\ rx = <<>>
         /\ x.build = "plain" => open = FALSE
         /\ chips[x.chip].selected = FALSE
<1>1. Seg(x, <<>>, At(b, c, l, open), Finish(x))
    BY DEF Going
<1>2. At(b, c, l, open) = Finish(x)
  <2>1. PICK G : G[0] = At(b, c, l, open) /\ G[Len(<<>>)] = Finish(x)
      BY <1>1 DEF Seg
  <2>2. Len(<<>>) = 0
      OBVIOUS
  <2> QED BY <2>1, <2>2
<1>3. b = LastWord(x) /\ c = LastWord(x) /\ l = 2 /\ open = (Single(x) # LastWord(x))
  <2> DEFINE o == (Single(x) # LastWord(x))
  <2>1. At(b, c, l, open) = At(LastWord(x), LastWord(x), 2, o)
      BY <1>2 DEF Finish
  <2> HIDE DEF o
  <2>2. b = LastWord(x) /\ c = LastWord(x) /\ l = 2 /\ open = o
      BY <2>1, Fields
  <2> QED BY <2>2 DEF o
<1>4. LastWord(x) \in Nat /\ (x.build = "plain" => LastWord(x) = Single(x))
    BY Words
<1>5. tx \in Seq(Item) /\ rx \in Seq(Seq(Nat)) /\ Len(tx) + Len(rx) = b - c
    BY DEF Going
<1>6. Len(tx) = 0 /\ Len(rx) = 0
    BY <1>3, <1>4, <1>5
<1>7. tx = <<>> /\ rx = <<>>
    BY <1>5, <1>6
<1>8. chips[x.chip].selected = Held(x, b - Len(tx), l)
    BY <1>3 DEF Going
<1>9. ~(b - Len(tx) < LastWord(x))
    BY <1>3, <1>4, <1>6
<1>10. Held(x, b - Len(tx), l) = FALSE
    BY <1>9 DEF Held
<1> QED BY <1>3, <1>4, <1>7, <1>8, <1>10

-----------------------------------------------------------------------------
(* The steps of a transfer                                                 *)

(* What Going says of a transfer, in numbers that can be computed with.    *)
LEMMA GoingFacts ==
  ASSUME NEW x, TransferOK(x), NEW b, NEW c, NEW l, Going(x, b, c, l)
  PROVE  /\ LastWord(x) \in Nat /\ b \in Nat /\ b <= LastWord(x) /\ c \in Nat /\ l \in 0 .. 2
         /\ Len(tx) \in Nat /\ Len(rx) \in Nat /\ Len(tx) + Len(rx) = b - c /\ FifoSize \in Nat \ {0}
         /\ tx \in Seq(Item) /\ rx \in Seq(Seq(Nat))
<1>1. LastWord(x) \in Nat
    BY Words
<1>2. FifoSize \in Nat \ {0}
    BY ChipAssumption
<1>3. b \in 0 .. LastWord(x) /\ c \in Nat /\ l \in 0 .. 2 /\ tx \in Seq(Item) /\ rx \in Seq(Seq(Nat)) /\ Len(tx) + Len(rx) = b - c
    BY DEF Going
<1>4. Len(tx) \in Nat /\ Len(rx) \in Nat
    BY <1>3
<1> QED BY <1>1, <1>2, <1>3, <1>4

(* A word enters the FIFO.                                                 *)
LEMMA PushGoes ==
  ASSUME NEW x, TransferOK(x), x.build = build, NEW b, NEW c, NEW l, BusOK, Going(x, b, c, l), PushWord
  PROVE  Going(x, b + 1, c, l)' /\ BusOK'
<1>1. /\ build = "fifo" /\ script # <<>> /\ Head(script).do = "send" /\ script' = Tail(script)
      /\ tx' = Append(tx, Head(script)) /\ UNCHANGED <<build, chips, pin, rx, open, started>>
    BY DEF PushWord, Doing
<1>2. PICK v : Does(x, At(b, c, l, open), Head(script), v) /\ Seg(x, Tail(script), v, Finish(x))
    BY <1>1, NextItem DEF NextAt
<1>3. Does3(x, At(b, c, l, open), Head(script), v)
    BY <1>1, <1>2, Kinds
<1>4. x.build # "plain"
    BY <1>1
<1>5. l = 2 /\ b < LastWord(x) /\ Head(script) = WordAt(x, b + 1) /\ v = At(b + 1, c, 2, open) /\ (b + 1) - c <= FifoSize
    BY <1>3, <1>4, Fields DEF Does3
<1>6. /\ LastWord(x) \in Nat /\ b \in Nat /\ b <= LastWord(x) /\ c \in Nat
      /\ Len(tx) \in Nat /\ Len(rx) \in Nat /\ Len(tx) + Len(rx) = b - c
      /\ tx \in Seq(Item) /\ rx \in Seq(Seq(Nat))
    BY GoingFacts
<1>7. b + 1 \in 1 .. LastWord(x)
    BY <1>5, <1>6
<1>8. WordAt(x, b + 1) \in Item
    BY <1>7, WordFields
<1>9. tx' \in Seq(Item) /\ Len(tx') = Len(tx) + 1 /\ tx' = Append(tx, WordAt(x, b + 1))
    BY <1>1, <1>5, <1>6, <1>8
<1>10. (b + 1) - Len(tx') = b - Len(tx) /\ Len(tx') + Len(rx') = (b + 1) - c /\ rx' \in Seq(Seq(Nat))
  <2> DEFINE m == Len(tx)
             n == Len(rx)
             m1 == Len(tx')
  <2>1. rx' = rx /\ rx \in Seq(Seq(Nat))
      BY <1>1, <1>6
  <2>2. m1 = m + 1 /\ m \in Nat /\ n \in Nat /\ m + n = b - c /\ b \in Nat /\ c \in Nat
      BY <1>6, <1>9
  <2> HIDE DEF m, n, m1
  <2>3. (b + 1) - m1 = b - m /\ m1 + n = (b + 1) - c
      BY <2>2
  <2> QED BY <2>1, <2>3 DEF m, n, m1
<1>11. \A j \in 1 .. Len(tx') : tx'[j] = WordAt(x, ((b + 1) - Len(tx')) + j)
  <2>1. \A j \in 1 .. Len(tx) : tx[j] = WordAt(x, (b - Len(tx)) + j)
      BY DEF Going
  <2>2. SUFFICES ASSUME NEW j \in 1 .. Len(tx') PROVE tx'[j] = WordAt(x, (b - Len(tx)) + j)
      BY <1>10
  <2>3. CASE j = Len(tx) + 1
    <3>1. (b - Len(tx)) + j = b + 1
        BY <1>6, <2>3
    <3>2. tx'[j] = WordAt(x, b + 1)
        BY <1>6, <1>9, <2>3
    <3> QED BY <3>1, <3>2
  <2>4. CASE j # Len(tx) + 1
    <3>1. j \in 1 .. Len(tx)
        BY <1>6, <1>9, <2>4
    <3>2. tx'[j] = tx[j]
        BY <1>6, <1>9, <3>1
    <3> QED BY <2>1, <3>1, <3>2
  <2> QED BY <2>3, <2>4
<1>12. Seg(x, script', At(b + 1, c, l, open'), Finish(x))
    BY <1>1, <1>2, <1>5
<1>13. pin' = x.chip /\ Lone(x)' /\ chips'[x.chip].selected = Held(x, b - Len(tx), l)
  <2>1. pin = x.chip /\ Lone(x) /\ chips[x.chip].selected = Held(x, b - Len(tx), l)
      BY <1>5 DEF Going
  <2>2. chips' = chips /\ started' = started /\ pin' = pin
      BY <1>1
  <2> QED BY <2>1, <2>2 DEF Lone
<1>14. BusOK'
    BY <1>1, <1>12 DEF BusOK
<1>15. Going(x, b + 1, c, l)'
  <2> DEFINE e == b - Len(tx)
  <2>1. (b + 1) - Len(tx') = e
      BY <1>10
  <2>2. l \in 0 .. 2 /\ b + 1 \in 0 .. LastWord(x)
      BY <1>5, <1>6
  <2>3. \A j \in 1 .. Len(tx') : tx'[j] = WordAt(x, e + j)
      BY <1>11, <2>1
  <2>4. chips'[x.chip].selected = Held(x, e, l)
      BY <1>13
  <2> HIDE DEF e
  <2> QED BY <1>4, <1>5, <1>6, <1>9, <1>10, <1>12, <1>13, <2>1, <2>2, <2>3, <2>4 DEF Going
<1> QED BY <1>14, <1>15

(* An answer is taken.                                                     *)
LEMMA PopGoes ==
  ASSUME NEW x, TransferOK(x), x.build = build, NEW b, NEW c, NEW l, BusOK, Going(x, b, c, l), PopWord
  PROVE  Going(x, b, c + 1, l)' /\ BusOK'
<1>1. /\ script # <<>> /\ Head(script).do = "receive" /\ script' = Tail(script) /\ rx # <<>>
      /\ rx' = Tail(rx) /\ UNCHANGED <<build, chips, pin, tx, open, started>>
    BY DEF PopWord, Doing
<1>2. PICK v : Does(x, At(b, c, l, open), Head(script), v) /\ Seg(x, Tail(script), v, Finish(x))
    BY <1>1, NextItem DEF NextAt
<1>3. Does4(x, At(b, c, l, open), Head(script), v)
    BY <1>1, <1>2, Kinds
<1>4. l = 2 /\ x.build # "plain" /\ v = At(b, c + 1, 2, open)
    BY <1>3, Fields DEF Does4
<1>6. /\ LastWord(x) \in Nat /\ b \in Nat /\ b <= LastWord(x) /\ c \in Nat
      /\ Len(tx) \in Nat /\ Len(rx) \in Nat /\ Len(tx) + Len(rx) = b - c /\ FifoSize \in Nat
      /\ tx \in Seq(Item) /\ rx \in Seq(Seq(Nat))
    BY GoingFacts
<1>7. rx' \in Seq(Seq(Nat)) /\ Len(rx') = Len(rx) - 1
    BY <1>1, <1>6
<1>8. Len(tx') + Len(rx') = b - (c + 1) /\ b - (c + 1) <= FifoSize /\ tx' = tx
  <2> DEFINE m == Len(tx)
             n == Len(rx)
             n1 == Len(rx')
  <2>1. tx' = tx /\ b - c <= FifoSize
      BY <1>1 DEF Going
  <2>2. n1 = n - 1 /\ m \in Nat /\ n \in Nat /\ m + n = b - c /\ b \in Nat /\ c \in Nat /\ FifoSize \in Nat
      BY <1>6, <1>7
  <2> HIDE DEF m, n, n1
  <2>3. m + n1 = b - (c + 1) /\ b - (c + 1) <= FifoSize
      BY <2>1, <2>2
  <2> QED BY <2>1, <2>3 DEF m, n, n1
<1>9. Seg(x, script', At(b, c + 1, l, open'), Finish(x))
    BY <1>1, <1>2, <1>4
<1>10. pin' = x.chip /\ Lone(x)' /\ chips'[x.chip].selected = Held(x, b - Len(tx), l)
  <2>1. pin = x.chip /\ Lone(x) /\ chips[x.chip].selected = Held(x, b - Len(tx), l)
      BY <1>4 DEF Going
  <2>2. chips' = chips /\ started' = started /\ pin' = pin
      BY <1>1
  <2> QED BY <2>1, <2>2 DEF Lone
<1>11. BusOK'
    BY <1>1 DEF BusOK
<1>12. Going(x, b, c + 1, l)'
  <2>1. c + 1 \in Nat /\ b \in 0 .. LastWord(x) /\ l \in 0 .. 2 /\ tx' \in Seq(Item)
      BY <1>4, <1>6, <1>8
  <2>2. \A j \in 1 .. Len(tx') : tx'[j] = WordAt(x, (b - Len(tx')) + j)
      BY <1>8 DEF Going
  <2>3. chips'[x.chip].selected = Held(x, b - Len(tx'), l)
      BY <1>8, <1>10
  <2> QED BY <1>4, <1>7, <1>8, <1>9, <1>10, <2>1, <2>2, <2>3 DEF Going
<1> QED BY <1>11, <1>12

(* The transaction ends.                                                   *)
LEMMA EndGoes ==
  ASSUME NEW x, TransferOK(x), x.build = build, NEW b, NEW c, NEW l, BusOK, Going(x, b, c, l), CloseTransaction
  PROVE  Going(x, b, c, l)' /\ BusOK'
<1>1. /\ script # <<>> /\ Head(script).do = "end" /\ script' = Tail(script)
      /\ open' = FALSE /\ UNCHANGED <<build, chips, pin, tx, rx, started>>
    BY DEF CloseTransaction, Doing
<1>2. PICK v : Does(x, At(b, c, l, open), Head(script), v) /\ Seg(x, Tail(script), v, Finish(x))
    BY <1>1, NextItem DEF NextAt
<1>3. Does5(x, At(b, c, l, open), Head(script), v)
    BY <1>1, <1>2, Kinds
<1>4. l = 2 /\ v = At(b, c, 2, FALSE)
  <2> DEFINE u == At(b, c, l, open)
  <2>1. u.pushed = b /\ u.taken = c /\ u.low = l
      BY Fields
  <2>2. u.low = 2 /\ v = At(u.pushed, u.taken, 2, FALSE)
      BY <1>3 DEF Does5
  <2> HIDE DEF u
  <2> QED BY <2>1, <2>2, Zenon
<1>9. Seg(x, script', At(b, c, l, open'), Finish(x))
  <2>1. v = At(b, c, l, open')
      BY <1>1, <1>4
  <2> QED BY <1>1, <1>2, <2>1
<1>11. BusOK'
    BY <1>1 DEF BusOK
<1>12. Going(x, b, c, l)'
  <2>1. Lone(x)'
      BY <1>1 DEF Going, Lone
  <2> QED BY <1>1, <1>4, <1>9, <2>1 DEF Going
<1> QED BY <1>11, <1>12

(* A word is exchanged byte by byte.                                       *)
LEMMA TransferGoes ==
  ASSUME NEW x, TransferOK(x), x.build = build, x.chip \in Chip, NEW b, NEW c, NEW l, BusOK, Going(x, b, c, l), Transfer
  PROVE  Going(x, b + 1, b + 1, l)' /\ BusOK'
<1> DEFINE w == Head(script)
           y == ExchangeAll(chips, w.bytes).chips
<1>1. /\ build = "plain" /\ script # <<>> /\ w.do = "send" /\ script' = Tail(script)
      /\ chips' = IF w.more THEN y ELSE [y EXCEPT ![pin] = Deselected(@)]
      /\ UNCHANGED <<build, pin, tx, rx, open, started>>
    BY DEF Transfer, Doing
<1>2. PICK v : Does(x, At(b, c, l, open), Head(script), v) /\ Seg(x, Tail(script), v, Finish(x))
    BY <1>1, NextItem DEF NextAt
<1>3. Does3(x, At(b, c, l, open), Head(script), v)
    BY <1>1, <1>2, Kinds
<1>5. l = 2 /\ b < LastWord(x) /\ w = WordAt(x, b + 1) /\ v = At(b + 1, b + 1, 2, open)
    BY <1>1, <1>3, Fields DEF Does3
<1>6. LastWord(x) \in Nat /\ b \in Nat /\ FifoSize \in Nat
    BY GoingFacts
<1>7. tx = <<>> /\ rx = <<>> /\ Len(<<>>) = 0
    BY <1>1 DEF Going
<1>8. w \in Item /\ w.bytes \in Seq(Nat) /\ Len(w.bytes) \in {1, 2} /\ w.more = (b + 1 # LastWord(x))
  <2>1. b + 1 \in 1 .. LastWord(x)
      BY <1>5, <1>6
  <2> HIDE DEF w
  <2>2. w \in Item /\ w.do = "send" /\ w.more = (b + 1 # LastWord(x)) /\ Len(w.bytes) \in {1, 2}
      BY <1>5, <2>1, WordFields
  <2>3. w.bytes \in Seq(Nat)
      BY <2>2 DEF Item
  <2> QED BY <2>2, <2>3
<1> HIDE DEF w
<1>9. y \in RawChips /\ Same(chips, y)
    BY <1>8, WordRaw DEF BusOK
<1>10. pin = x.chip /\ Lone(x) /\ chips[x.chip].selected = Held(x, b - 0, l)
    BY <1>5, <1>7 DEF Going
<1> HIDE DEF y
<1>11. /\ chips' \in RawChips /\ \A k \in Chip : k # x.chip => chips'[k].selected = chips[k].selected
       /\ chips'[x.chip].selected = (b + 1 < LastWord(x))
  <2>1. CASE w.more
    <3>1. b + 1 # LastWord(x) /\ chips' = y
        BY <1>1, <1>8, <2>1
    <3>2. chips[x.chip].selected = TRUE
      <4>1. b - 0 < LastWord(x) /\ x.build = "plain"
          BY <1>1, <1>5, <1>6
      <4>2. Held(x, b - 0, l) = TRUE
          BY <1>5, <4>1 DEF Held
      <4> QED BY <1>10, <4>2
    <3>3. chips'[x.chip].selected = TRUE
        BY <1>9, <3>1, <3>2 DEF Same
    <3>4. (b + 1 < LastWord(x)) = TRUE
        BY <1>5, <1>6, <3>1
    <3> QED BY <1>9, <3>1, <3>3, <3>4 DEF Same
  <2>2. CASE ~w.more
    <3> DEFINE d == Deselected(y[pin])
    <3>1. b + 1 = LastWord(x) /\ chips' = [y EXCEPT ![pin] = d]
        BY <1>1, <1>8, <2>2
    <3>2. d \in RawChip(pin) /\ d.selected = FALSE /\ pin \in Chip
      <4>1. y[pin] \in RawChip(pin)
          BY <1>9, <1>10 DEF RawChips
      <4> QED BY <1>10, <4>1, PinRaw
    <3> HIDE DEF d
    <3>3. chips' \in RawChips /\ chips'[pin] = d /\ \A k \in Chip : k # pin => chips'[k] = y[k]
      <4> DEFINE z == [y EXCEPT ![pin] = d]
      <4>1. z \in RawChips /\ z[pin] = d /\ \A k \in Chip : k # pin => z[k] = y[k]
          BY <1>9, <3>2, DriveRaw
      <4> QED BY <3>1, <4>1
    <3>4. (b + 1 < LastWord(x)) = FALSE
        BY <1>6, <3>1
    <3> QED BY <1>9, <1>10, <3>2, <3>3, <3>4 DEF Same
  <2> QED BY <2>1, <2>2
<1>12. BusOK'
    BY <1>1, <1>11 DEF BusOK
<1>13. Seg(x, script', At(b + 1, b + 1, l, open'), Finish(x))
    BY <1>1, <1>2, <1>5
<1>14. Going(x, b + 1, b + 1, l)'
  <2>1. Lone(x)'
      BY <1>1, <1>10, <1>11 DEF Lone
  <2>2. Held(x, (b + 1) - 0, l) = (b + 1 < LastWord(x)) /\ (b + 1) - 0 = b + 1
      BY <1>1, <1>5, <1>6 DEF Held
  <2>3. b + 1 \in 0 .. LastWord(x) /\ b + 1 \in Nat /\ (b + 1) - (b + 1) = 0 /\ 0 <= FifoSize /\ 0 + 0 = 0 /\ l \in 0 .. 2
      BY <1>5, <1>6
  <2>4. tx' = <<>> /\ rx' = <<>> /\ <<>> \in Seq(Item) /\ <<>> \in Seq(Seq(Nat)) /\ 1 .. 0 = {}
      BY <1>1, <1>7
  <2>5. chips'[x.chip].selected = Held(x, (b + 1) - 0, l)
      BY <1>11, <2>2
  <2>6. \A j \in 1 .. Len(tx') : tx'[j] = WordAt(x, ((b + 1) - Len(tx')) + j)
      BY <2>4
  <2> QED BY <1>1, <1>5, <1>7, <1>10, <1>13, <2>1, <2>3, <2>4, <2>5, <2>6 DEF Going
<1> QED BY <1>12, <1>14

(* A chip is selected, or the pins are set up.                             *)
LEMMA DriveGoes ==
  ASSUME NEW x, TransferOK(x), x.build = build, x.build \in {"plain", "fifo"}, x.chip \in Chip, NEW b, NEW c, NEW l,
         BusOK, Going(x, b, c, l), DrivePin
  PROVE  BusOK' /\ \E m \in {1, 2} : m = (IF Head(script).do = "high" THEN 1 ELSE 2) /\ Going(x, 0, 0, m)'
<1> DEFINE w == Head(script)
<1>1. /\ script # <<>> /\ script' = Tail(script) /\ pin' = w.chip
      /\ open' = (open \/ w.do = "low") /\ UNCHANGED <<build, tx, rx, started>>
      /\ \/ w.do = "high" /\ chips' = [chips EXCEPT ![w.chip] = Deselected(@)]
         \/ w.do = "low" /\ chips' = [chips EXCEPT ![w.chip] = IF build = "plain" THEN Selected(@) ELSE Deselected(@)]
    BY DEF DrivePin, Doing
<1>2. PICK v : Does(x, At(b, c, l, open), Head(script), v) /\ Seg(x, Tail(script), v, Finish(x))
    BY <1>1, NextItem DEF NextAt
<1>3. LastWord(x) \in Nat /\ LastWord(x) > 0 /\ FifoSize \in Nat
  <2>1. LastWord(x) \in Nat /\ LastWord(x) >= 2
      BY Words
  <2> QED BY <2>1, GoingFacts
<1>0. PICK m \in {1, 2} : m = IF w.do = "high" THEN 1 ELSE 2
    OBVIOUS
<1> DEFINE d == IF w.do = "low" /\ build = "plain" THEN Selected(chips[x.chip]) ELSE Deselected(chips[x.chip])
<1>4. b = 0 /\ c = 0 /\ w.chip = x.chip /\ v = At(0, 0, m, open') /\ open' \in BOOLEAN
      /\ chips' = [chips EXCEPT ![x.chip] = d] /\ (w.do = "high" => x.build = "plain")
  <2> HIDE DEF w
  <2>1. CASE w.do = "high"
    <3>1. Does1(x, At(b, c, l, open), w, v)
        BY <1>2, <2>1, Kinds DEF w
    <3>2. b = 0 /\ c = 0 /\ w = High(x.chip) /\ v = At(0, 0, 1, open) /\ x.build = "plain"
        BY <3>1, Fields DEF Does1
    <3>3. open' = open
      <4>1. open \in BOOLEAN
          BY DEF BusOK
      <4> QED BY <1>1, <2>1, <4>1
    <3>4. w.chip = x.chip
        BY <3>2 DEF High
    <3>5. chips' = [chips EXCEPT ![x.chip] = Deselected(chips[x.chip])]
        BY <1>1, <2>1, <3>4
    <3> QED BY <1>0, <2>1, <3>2, <3>3, <3>4, <3>5 DEF BusOK
  <2>2. CASE w.do = "low"
    <3>1. Does2(x, At(b, c, l, open), w, v)
        BY <1>2, <2>2, Kinds DEF w
    <3>2. b = 0 /\ c = 0 /\ w = Low(x.chip)
        BY <3>1, Fields DEF Does2
    <3>3. v = At(0, 0, 2, TRUE)
        BY <3>1 DEF Does2
    <3>4. open' = TRUE
        BY <1>1, <2>2
    <3>5. w.chip = x.chip
        BY <3>2 DEF Low
    <3>6. chips' = [chips EXCEPT ![x.chip] = IF build = "plain" THEN Selected(chips[x.chip]) ELSE Deselected(chips[x.chip])]
        BY <1>1, <2>2, <3>5
    <3>7. v = At(0, 0, 2, open')
        BY <3>3, <3>4, Zenon
    <3> QED BY <1>0, <2>2, <3>2, <3>4, <3>5, <3>6, <3>7
  <2> QED BY <1>1, <2>1, <2>2
<1>5. m \in {1, 2} /\ (m = 2 <=> w.do # "high")
    BY <1>0
<1>6. d \in RawChip(x.chip) /\ d.selected = (w.do = "low" /\ build = "plain")
  <2>1. chips[x.chip] \in RawChip(x.chip)
      BY DEF BusOK, RawChips
  <2> QED BY <2>1, PinRaw
<1>7. w.do = "low" <=> m = 2
    BY <1>1, <1>5
<1> HIDE DEF d, w
<1>8. chips' \in RawChips /\ chips'[x.chip] = d /\ \A k \in Chip : k # x.chip => chips'[k] = chips[k]
  <2> DEFINE z == [chips EXCEPT ![x.chip] = d]
  <2>1. z \in RawChips /\ z[x.chip] = d /\ \A k \in Chip : k # x.chip => z[k] = chips[k]
      BY <1>6, DriveRaw DEF BusOK
  <2> QED BY <1>4, <2>1
<1>9. BusOK'
    BY <1>1, <1>4, <1>8 DEF BusOK
<1>10. tx = <<>> /\ rx = <<>>
  <2>1. tx \in Seq(Item) /\ rx \in Seq(Seq(Nat)) /\ Len(tx) + Len(rx) = 0
      BY <1>4 DEF Going
  <2>2. Len(tx) = 0 /\ Len(rx) = 0
      BY <2>1
  <2> QED BY <2>1, <2>2
<1>11. Lone(x)'
  <2>1. Lone(x)
      BY DEF Going
  <2> QED BY <1>1, <1>8, <2>1 DEF Lone
<1>12. Seg(x, script', At(0, 0, m, open'), Finish(x))
    BY <1>1, <1>2, <1>4
<1>13. chips'[x.chip].selected = Held(x, 0 - 0, m)
  <2>1. 0 - 0 < LastWord(x) /\ ~(0 - 0 > 0)
      BY <1>3
  <2>2. CASE x.build = "plain"
    <3>1. Held(x, 0 - 0, m) = (m = 2)
        BY <2>1, <2>2 DEF Held
    <3> QED BY <1>6, <1>7, <1>8, <2>2, <3>1
  <2>3. CASE x.build # "plain"
    <3>1. Held(x, 0 - 0, m) = FALSE
        BY <2>1, <2>3 DEF Held
    <3> QED BY <1>6, <1>8, <2>3, <3>1
  <2> QED BY <2>2, <2>3
<1>14. Going(x, 0, 0, m)'
  <2>1. tx' = <<>> /\ rx' = <<>> /\ Len(<<>>) = 0 /\ <<>> \in Seq(Item) /\ <<>> \in Seq(Seq(Nat)) /\ 1 .. 0 = {}
      BY <1>1, <1>10
  <2>2. 0 \in 0 .. LastWord(x) /\ 0 \in Nat /\ m \in 0 .. 2 /\ 0 - 0 <= FifoSize /\ 0 + 0 = 0 - 0 /\ m # 0
      BY <1>3, <1>5
  <2>3. pin' = x.chip
      BY <1>1, <1>4
  <2>4. chips'[x.chip].selected = Held(x, 0 - Len(tx'), m)
      BY <1>13, <2>1
  <2>5. \A j \in 1 .. Len(tx') : tx'[j] = WordAt(x, (0 - Len(tx')) + j)
      BY <2>1
  <2> QED BY <1>11, <1>12, <2>1, <2>2, <2>3, <2>4, <2>5 DEF Going
<1> QED BY <1>0, <1>5, <1>9, <1>14 DEF w

(* What the board gets are bytes.                                          *)
LEMMA GotRaw ==
  ASSUME NEW y, y.chips \in RawChips, y.got \in Seq(Nat), NEW b \in Nat
  PROVE  Exchange(y, b).got \in Seq(Nat) /\ Len(Exchange(y, b).got) = Len(y.got) + 1
<1> DEFINE talking == {k \in Chip : y.chips[k].selected}
           h == CHOOSE k \in talking : TRUE
           a == IF \E k \in Chip : talking = {k} THEN Answer(y.chips[h], ChipSizes[h]) ELSE Dummy
<1>1. Exchange(y, b).got = Append(y.got, a)
    BY DEF Exchange
<1>2. a \in Nat
  <2>1. CASE \E k \in Chip : talking = {k}
    <3>1. h \in talking
        BY <2>1
    <3>2. h \in Chip
        BY <3>1
    <3> HIDE DEF h
    <3>3. y.chips[h] \in RawChip(h) /\ ChipSizes[h] \in Nat \ {0}
        BY <3>2, AddressSize DEF RawChips
    <3> DEFINE c == y.chips[h]
               size == ChipSizes[h]
               at == 1 + (c.pos % size)
    <3>4. c.data \in [1 .. size -> Nat] /\ c.pos \in Nat /\ size \in Nat \ {0}
        BY <3>3 DEF RawChip
    <3> HIDE DEF c, size
    <3>5. at \in 1 .. size
      <4>1. c.pos % size \in 0 .. size - 1
          BY <3>4, Quotient
      <4> QED BY <3>4, <4>1
    <3>6. c.data[at] \in Nat
      <4> HIDE DEF at
      <4> QED BY <3>4, <3>5
    <3>7. Answer(c, size) \in Nat
        BY <3>6, Bytes DEF Answer
    <3> HIDE DEF talking
    <3>8. a = Answer(c, size)
        BY <2>1 DEF c, size
    <3> QED BY <3>7, <3>8
  <2>2. CASE ~ \E k \in Chip : talking = {k}
    <3> HIDE DEF talking
    <3> QED BY <2>2, Bytes
  <2> QED BY <2>1, <2>2
<1> HIDE DEF a
<1> QED BY <1>1, <1>2

(* The answers to a word are numbers. *)
LEMMA WordGot ==
  ASSUME NEW cs \in RawChips, NEW bytes \in Seq(Nat), Len(bytes) \in {1, 2}
  PROVE  ExchangeAll(cs, bytes).got \in Seq(Nat)
<1> DEFINE first == Exchange(Start(cs), bytes[1])
<1>1. Start(cs).chips = cs /\ Start(cs).got \in Seq(Nat)
    BY DEF Start
<1>2. first.chips \in RawChips /\ first.got \in Seq(Nat)
  <2>1. bytes[1] \in Nat
      OBVIOUS
  <2> QED BY <1>1, <2>1, ExchangeRaw, GotRaw
<1>3. CASE Len(bytes) = 1
    BY <1>2, <1>3, ExchangeOne
<1>4. CASE Len(bytes) = 2
  <2> HIDE DEF first
  <2>0. 2 \in 1 .. Len(bytes)
      BY <1>4
  <2>1. bytes[2] \in Nat
      BY <2>0
  <2>2. Exchange(first, bytes[2]).got \in Seq(Nat)
      BY <1>2, <2>1, GotRaw
  <2> QED BY <1>4, <2>2, ExchangeTwo DEF first
<1> QED BY <1>3, <1>4

(* The next word of the FIFO is the next of the transfer, and its answer   *)
(* finds room.                                                             *)
LEMMA ShiftFacts ==
  ASSUME NEW x, TransferOK(x), NEW b, NEW c, NEW l, Going(x, b, c, l), tx # <<>>, NEW e, e = b - Len(tx)
  PROVE  /\ l = 2 /\ pin = x.chip /\ x.build # "plain" /\ b - c <= FifoSize
         /\ e \in Nat /\ e + 1 \in 1 .. LastWord(x) /\ Head(tx) = WordAt(x, e + 1) /\ Len(rx) < FifoSize
         /\ Len(tx) >= 1 /\ Len(Tail(tx)) = Len(tx) - 1 /\ Tail(tx) \in Seq(Item)
         /\ b - Len(Tail(tx)) = e + 1 /\ Len(Tail(tx)) + (Len(rx) + 1) = b - c /\ e + 1 = c + (Len(rx) + 1)
<1> DEFINE w == Head(tx)
           ts == Tail(tx)
<1>2. /\ LastWord(x) \in Nat /\ b \in Nat /\ b <= LastWord(x) /\ c \in Nat
      /\ Len(tx) \in Nat /\ Len(rx) \in Nat /\ Len(tx) + Len(rx) = b - c /\ FifoSize \in Nat
      /\ tx \in Seq(Item) /\ rx \in Seq(Seq(Nat))
    BY GoingFacts
<1>3. Len(tx) >= 1 /\ Len(ts) = Len(tx) - 1 /\ ts \in Seq(Item) /\ w = tx[1]
    BY <1>2
<1>4. l = 2 /\ pin = x.chip /\ x.build # "plain" /\ b - c <= FifoSize
    BY <1>2, <1>3 DEF Going
<1>5. e \in Nat /\ e + 1 \in 1 .. LastWord(x) /\ w = WordAt(x, e + 1) /\ Len(rx) < FifoSize
      /\ b - Len(ts) = e + 1 /\ Len(ts) + (Len(rx) + 1) = b - c /\ e + 1 = c + (Len(rx) + 1)
  <2>1. \A j \in 1 .. Len(tx) : tx[j] = WordAt(x, e + j)
      BY DEF Going
  <2>2. w = WordAt(x, e + 1)
      BY <1>3, <2>1
  <2> DEFINE m == Len(tx)
             n == Len(rx)
             m1 == Len(ts)
  <2>3. m \in Nat /\ n \in Nat /\ m >= 1 /\ m1 = m - 1 /\ m + n = b - c /\ b - c <= FifoSize /\ e = b - m
        /\ b \in Nat /\ c \in Nat /\ FifoSize \in Nat /\ b <= LastWord(x) /\ LastWord(x) \in Nat
      BY <1>2, <1>3, <1>4
  <2> HIDE DEF m, n, m1, w
  <2>4. e \in Nat /\ e + 1 \in 1 .. LastWord(x) /\ n < FifoSize /\ b - m1 = e + 1 /\ m1 + (n + 1) = b - c
        /\ e + 1 = c + (n + 1)
      BY <2>3
  <2> QED BY <2>2, <2>4 DEF m, n, m1
<1> QED BY <1>3, <1>4, <1>5

(* The FIFO sends a word.                                                  *)
LEMMA ShiftGoes ==
  ASSUME NEW x, TransferOK(x), x.build = build, x.chip \in Chip, NEW b, NEW c, NEW l, BusOK, Going(x, b, c, l), Shift
  PROVE  Going(x, b, c, l)' /\ BusOK'
<1> DEFINE w == Head(tx)
           cs == [chips EXCEPT ![pin] = Selected(@)]
           y == ExchangeAll(cs, w.bytes)
           e == b - Len(tx)
<1>1. /\ tx # <<>> /\ tx' = Tail(tx)
      /\ chips' = IF w.more THEN y.chips ELSE [y.chips EXCEPT ![pin] = Deselected(@)]
      /\ rx' = IF Len(rx) < FifoSize THEN Append(rx, y.got) ELSE rx
      /\ UNCHANGED <<build, pin, open, started, script>>
    BY DEF Shift
<1>2. /\ LastWord(x) \in Nat /\ b \in Nat /\ b <= LastWord(x) /\ c \in Nat
      /\ Len(tx) \in Nat /\ Len(rx) \in Nat /\ Len(tx) + Len(rx) = b - c /\ FifoSize \in Nat
      /\ tx \in Seq(Item) /\ rx \in Seq(Seq(Nat))
    BY GoingFacts
<1>10. /\ l = 2 /\ pin = x.chip /\ x.build # "plain" /\ b - c <= FifoSize
       /\ e \in Nat /\ e + 1 \in 1 .. LastWord(x) /\ Head(tx) = WordAt(x, e + 1) /\ Len(rx) < FifoSize
       /\ Len(tx) >= 1 /\ Len(Tail(tx)) = Len(tx) - 1 /\ Tail(tx) \in Seq(Item)
       /\ b - Len(Tail(tx)) = e + 1 /\ Len(Tail(tx)) + (Len(rx) + 1) = b - c
    BY <1>1, ShiftFacts
<1>3. Len(tx) >= 1 /\ Len(tx') = Len(tx) - 1 /\ tx' \in Seq(Item)
    BY <1>1, <1>10
<1>4. l = 2 /\ pin = x.chip /\ x.build # "plain" /\ b - c <= FifoSize
    BY <1>10
<1>5. e \in Nat /\ e + 1 \in 1 .. LastWord(x) /\ w = WordAt(x, e + 1) /\ Len(rx) < FifoSize
      /\ b - Len(tx') = e + 1 /\ Len(tx') + (Len(rx) + 1) = b - c
    BY <1>1, <1>10
<1> HIDE DEF e
<1>8. w \in Item /\ w.bytes \in Seq(Nat) /\ Len(w.bytes) \in {1, 2} /\ w.more = (e + 1 # LastWord(x))
  <2> HIDE DEF w
  <2>2. w \in Item /\ w.do = "send" /\ w.more = (e + 1 # LastWord(x)) /\ Len(w.bytes) \in {1, 2}
      BY <1>5, WordFields
  <2>3. w.bytes \in Seq(Nat)
      BY <2>2 DEF Item
  <2> QED BY <2>2, <2>3
<1> HIDE DEF w
<1>6. cs \in RawChips /\ cs[x.chip].selected = TRUE /\ \A k \in Chip : k # x.chip => cs[k] = chips[k]
  <2> DEFINE d == Selected(chips[pin])
  <2>1. d \in RawChip(pin) /\ d.selected = TRUE /\ pin \in Chip /\ chips \in RawChips
    <3>1. chips[pin] \in RawChip(pin)
        BY DEF BusOK, RawChips
    <3> QED BY <3>1, PinRaw DEF BusOK
  <2>2. cs = [chips EXCEPT ![pin] = d]
      OBVIOUS
  <2> HIDE DEF d, cs
  <2> DEFINE z == [chips EXCEPT ![pin] = d]
  <2>3. z \in RawChips /\ z[pin] = d /\ \A k \in Chip : k # pin => z[k] = chips[k]
      BY <2>1, DriveRaw
  <2> QED BY <1>4, <2>1, <2>2, <2>3
<1> HIDE DEF cs
<1>7. y.chips \in RawChips /\ Same(cs, y.chips) /\ y.got \in Seq(Nat)
    BY <1>6, <1>8, WordRaw, WordGot
<1> HIDE DEF y
<1>11. /\ chips' \in RawChips /\ \A k \in Chip : k # x.chip => chips'[k].selected = chips[k].selected
       /\ chips'[x.chip].selected = (e + 1 < LastWord(x))
  <2>1. CASE w.more
    <3>1. e + 1 # LastWord(x) /\ chips' = y.chips
        BY <1>1, <1>8, <2>1
    <3>3. chips'[x.chip].selected = TRUE
        BY <1>6, <1>7, <3>1 DEF Same
    <3>4. (e + 1 < LastWord(x)) = TRUE
        BY <1>2, <1>5, <3>1
    <3>5. ASSUME NEW k \in Chip, k # x.chip PROVE chips'[k].selected = chips[k].selected
        BY <1>6, <1>7, <3>1, <3>5 DEF Same
    <3> QED BY <1>7, <3>1, <3>3, <3>4, <3>5
  <2>2. CASE ~w.more
    <3> DEFINE d == Deselected(y.chips[pin])
               ds == y.chips
    <3>1. e + 1 = LastWord(x) /\ chips' = [ds EXCEPT ![pin] = d]
        BY <1>1, <1>8, <2>2
    <3>2. d \in RawChip(pin) /\ d.selected = FALSE /\ pin \in Chip /\ ds \in RawChips
      <4>1. ds[pin] \in RawChip(pin) /\ pin \in Chip
          BY <1>4, <1>7 DEF RawChips
      <4> QED BY <1>7, <4>1, PinRaw
    <3>5. Same(cs, ds)
        BY <1>7
    <3> HIDE DEF d, ds
    <3>3. chips' \in RawChips /\ chips'[pin] = d /\ \A k \in Chip : k # pin => chips'[k] = ds[k]
      <4> DEFINE z == [ds EXCEPT ![pin] = d]
      <4>1. z \in RawChips /\ z[pin] = d /\ \A k \in Chip : k # pin => z[k] = ds[k]
          BY <3>2, DriveRaw
      <4> QED BY <3>1, <4>1
    <3>4. (e + 1 < LastWord(x)) = FALSE
        BY <1>2, <1>5, <3>1
    <3>6. ASSUME NEW k \in Chip, k # x.chip PROVE chips'[k].selected = chips[k].selected
        BY <1>4, <1>6, <3>3, <3>5, <3>6 DEF Same
    <3> QED BY <1>4, <3>2, <3>3, <3>4, <3>6
  <2> QED BY <2>1, <2>2
<1>12. BusOK'
    BY <1>1, <1>11 DEF BusOK
<1>13. rx' \in Seq(Seq(Nat)) /\ Len(tx') + Len(rx') = b - c
  <2>1. rx' = Append(rx, y.got)
      BY <1>1, <1>5
  <2>2. rx' \in Seq(Seq(Nat)) /\ Len(rx') = Len(rx) + 1
      BY <1>2, <1>7, <2>1
  <2> QED BY <1>5, <2>2
<1>14. Going(x, b, c, l)'
  <2>1. Lone(x)'
    <3>1. Lone(x)
        BY DEF Going
    <3> QED BY <1>1, <1>11, <3>1 DEF Lone
  <2>2. Held(x, e + 1, l) = (e + 1 < LastWord(x))
      BY <1>4, <1>5 DEF Held
  <2>3. chips'[x.chip].selected = Held(x, b - Len(tx'), l)
      BY <1>5, <1>11, <2>2
  <2>4. \A j \in 1 .. Len(tx') : tx'[j] = WordAt(x, (b - Len(tx')) + j)
    <3>1. \A j \in 1 .. Len(tx) : tx[j] = WordAt(x, e + j)
        BY DEF Going, e
    <3>2. SUFFICES ASSUME NEW j \in 1 .. Len(tx') PROVE tx'[j] = WordAt(x, (e + 1) + j)
        BY <1>5
    <3>3. j + 1 \in 1 .. Len(tx) /\ (e + 1) + j = e + (j + 1)
      <4>1. j \in Nat /\ j >= 1 /\ j <= Len(tx) - 1
          BY <1>2, <1>3, <3>2
      <4> QED BY <1>2, <1>5, <4>1
    <3>4. tx'[j] = tx[j + 1]
        BY <1>1, <1>2, <3>2
    <3> QED BY <3>1, <3>3, <3>4
  <2>5. Seg(x, script', At(b, c, l, open'), Finish(x))
      BY <1>1 DEF Going
  <2>6. b \in 0 .. LastWord(x) /\ l \in 0 .. 2 /\ pin' = x.chip
      BY <1>1, <1>2, <1>4
  <2> QED BY <1>2, <1>3, <1>4, <1>13, <2>1, <2>3, <2>4, <2>5, <2>6 DEF Going
<1> QED BY <1>12, <1>14

-----------------------------------------------------------------------------
(* The steps of the system                                                 *)

(* What the loop leaves alone.                                             *)
LEMMA LoopStays ==
  ASSUME LoopOK, UNCHANGED <<build, started, loop>>
  PROVE  LoopOK' /\ Now' = Now /\ Active' = Active
<1>1. build' = build /\ started' = started /\ op' = op /\ i' = i /\ sz' = sz
    BY DEF loop
<1>2. LoopOK'
    BY <1>1 DEF LoopOK, Entered
<1>3. Now' = Now
    BY <1>1 DEF Now, BeginTransfer, ReadTransfer, WriteTransfer, BlockTransfer
<1>4. Active' = Active
    BY <1>1 DEF Active
<1> QED BY <1>2, <1>3, <1>4

Moves == DrivePin \/ CloseTransaction \/ Transfer \/ PushWord \/ PopWord \/ Shift

(* A step of a transfer.                                                   *)
LEMMA MoveKeeps ==
  ASSUME ApartInv, Moves
  PROVE  ApartInv'
<1>1. LoopOK /\ BusOK /\ TransferInv
    BY DEF ApartInv
<1>2. UNCHANGED <<build, started, loop>>
    BY DEF Moves, DrivePin, CloseTransaction, Transfer, PushWord, PopWord, Shift
<1>3. LoopOK' /\ Now' = Now /\ Active' = Active
    BY <1>1, <1>2, LoopStays
<1>4. script # <<>> \/ tx # <<>>
    BY DEF Moves, DrivePin, CloseTransaction, Transfer, PushWord, PopWord, Shift, Doing
<1>5. Active
    BY <1>1, <1>4 DEF TransferInv, Calm
<1>6. PICK x, b, c, l : x = Now /\ Going(x, b, c, l)
    BY <1>1, <1>5 DEF TransferInv
<1>7. TransferOK(x) /\ x.build = build /\ x.build \in {"plain", "fifo"} /\ x.chip \in Chip
    BY <1>1, <1>5, <1>6, NowKnown DEF Ours
<1>8. BusOK' /\ \E d, e, m : Going(x, d, e, m)'
  <2>1. CASE DrivePin
      BY <1>1, <1>6, <1>7, <2>1, DriveGoes
  <2>2. CASE CloseTransaction
      BY <1>1, <1>6, <1>7, <2>2, EndGoes
  <2>3. CASE Transfer
      BY <1>1, <1>6, <1>7, <2>3, TransferGoes
  <2>4. CASE PushWord
      BY <1>1, <1>6, <1>7, <2>4, PushGoes
  <2>5. CASE PopWord
      BY <1>1, <1>6, <1>7, <2>5, PopGoes
  <2>6. CASE Shift
      BY <1>1, <1>6, <1>7, <2>6, ShiftGoes
  <2> QED BY <2>1, <2>2, <2>3, <2>4, <2>5, <2>6 DEF Moves
<1>9. x = Now'
    BY <1>3, <1>6
<1>10. TransferInv'
    BY <1>3, <1>5, <1>8, <1>9 DEF TransferInv
<1> QED BY <1>3, <1>8, <1>10 DEF ApartInv

(* Between two transfers.                                                  *)
LEMMA AtRest ==
  ASSUME ApartInv, script = <<>>
  PROVE  /\ tx = <<>> /\ rx = <<>> /\ (build = "plain" => open = FALSE)
         /\ started => \A k \in Chip : chips[k].selected = FALSE
         /\ op.kind = "start" => \A k \in Chip : k < i => chips[k].selected = FALSE
<1>1. LoopOK /\ BusOK /\ TransferInv
    BY DEF ApartInv
<1>2. CASE Active
  <2>1. PICK x, b, c, l : x = Now /\ Going(x, b, c, l)
      BY <1>1, <1>2 DEF TransferInv
  <2>2. TransferOK(x) /\ x.build = build /\ x.chip \in Chip /\ x.chip = IF op.kind = "start" THEN i - 1 ELSE i
      BY <1>1, <1>2, <2>1, NowKnown DEF Ours
  <2>3. tx = <<>> /\ rx = <<>> /\ (x.build = "plain" => open = FALSE) /\ chips[x.chip].selected = FALSE
      BY <2>1, <2>2, Ended
  <2>4. Lone(x)
      BY <2>1 DEF Going
  <2>5. started => \A k \in Chip : chips[k].selected = FALSE
      BY <2>3, <2>4 DEF Lone
  <2>6. ASSUME op.kind = "start", NEW k \in Chip, k < i PROVE chips[k].selected = FALSE
    <3>1. x.chip = i - 1 /\ i \in Nat /\ k \in Nat
        BY <1>1, <2>2, <2>6, Ends DEF LoopOK
    <3>2. k # x.chip => k < x.chip
        BY <2>6, <3>1
    <3> QED BY <2>3, <2>4, <3>2 DEF Lone
  <2> QED BY <2>2, <2>3, <2>5, <2>6
<1>3. CASE ~Active
  <2>1. Calm
      BY <1>1, <1>3 DEF TransferInv
  <2>2. ASSUME op.kind = "start", NEW k \in Chip, k < i PROVE FALSE
    <3>1. ~(i > 1) /\ i \in Nat /\ k \in Nat /\ k >= 1
        BY <1>1, <1>3, <2>2, Ends DEF Active, LoopOK
    <3> QED BY <2>2, <3>1
  <2> QED BY <2>1, <2>2 DEF Calm
<1> QED BY <1>2, <1>3

(* A call begins.                                                          *)
LEMMA CallKeeps ==
  ASSUME ApartInv, op.kind = "none", NEW new \in Ops, op' = new, i' = 1,
         new.kind = "start" => ~started, new.kind \in {"read", "write"} => started /\ new.size >= 1,
         new.kind = "write" => Len(new.data) = new.size,
         UNCHANGED <<build, bus, started, sz, script>>
  PROVE  ApartInv'
<1>1. LoopOK /\ BusOK /\ TransferInv
    BY DEF ApartInv
<1>2. sz = 0
    BY <1>1 DEF LoopOK, Entered
<1>3. ~Active /\ Calm
    BY <1>1, <1>2 DEF Active, TransferInv
<1>4. UNCHANGED <<build, chips, pin, tx, rx, open, started, sz, script>>
    BY DEF bus
<1>5. ~Active'
    BY <1>2, <1>4 DEF Active
<1>6. Calm'
    BY <1>3, <1>4 DEF Calm
<1>7. BusOK'
    BY <1>1, <1>4 DEF BusOK
<1>8. LoopOK'
  <2>1. 1 \in 1 .. N + 1 /\ 1 \in Nat
      BY Ends
  <2> QED BY <1>1, <1>2, <1>4, <2>1 DEF LoopOK
<1> QED BY <1>5, <1>6, <1>7, <1>8 DEF ApartInv, TransferInv

(* The page manager calls. *)
LEMMA CallsKeep ==
  ASSUME ApartInv, DoStart \/ DoRead \/ DoWrite
  PROVE  ApartInv'
<1>1. CASE DoStart
  <2> DEFINE new == [kind |-> "start", offset |-> 0, size |-> 0, data |-> <<>>]
  <2>1. ~started /\ op.kind = "none" /\ op' = new /\ i' = 1 /\ UNCHANGED <<build, bus, started, sz, script>>
      BY <1>1 DEF DoStart, BeginCall
  <2>2. new \in Ops /\ new.kind = "start"
      BY DEF Ops
  <2> HIDE DEF new
  <2> QED BY <2>1, <2>2, CallKeeps
<1>2. CASE DoRead
  <2>1. PICK offset \in 0 .. PoolSize - 1, size \in Sizes : Block(offset, size) /\ BeginCall("read", offset, size, <<>>)
      BY <1>2 DEF DoRead
  <2> DEFINE new == [kind |-> "read", offset |-> offset, size |-> size, data |-> <<>>]
  <2>2. started /\ op.kind = "none" /\ op' = new /\ i' = 1 /\ UNCHANGED <<build, bus, started, sz, script>>
      BY <2>1 DEF Block, BeginCall
  <2>3. new \in Ops /\ new.kind = "read" /\ new.size >= 1
      BY BoundAssumption, Bytes DEF Ops
  <2> HIDE DEF new
  <2> QED BY <2>2, <2>3, CallKeeps
<1>3. CASE DoWrite
  <2>1. PICK offset \in 0 .. PoolSize - 1, size \in Sizes :
            Block(offset, size) /\ BeginCall("write", offset, size, [j \in 1 .. size |-> offset + j])
      BY <1>3 DEF DoWrite
  <2> DEFINE data == [j \in 1 .. size |-> offset + j]
             new == [kind |-> "write", offset |-> offset, size |-> size, data |-> data]
  <2>2. started /\ op.kind = "none" /\ op' = new /\ i' = 1 /\ UNCHANGED <<build, bus, started, sz, script>>
        /\ offset + size <= PoolSize
      BY <2>1 DEF Block, BeginCall
  <2>3. size \in Nat /\ size >= 1 /\ offset \in Nat /\ PoolSize \in Nat
      BY BoundAssumption, Bytes
  <2>4. data \in Seq(Byte) /\ Len(data) = size
    <3>1. \A j \in 1 .. size : offset + j \in Byte
        BY <2>2, <2>3 DEF Byte, Val
    <3> QED BY <2>3, <3>1
  <2> HIDE DEF data
  <2>5. new \in Ops /\ new.kind = "write" /\ new.size >= 1 /\ Len(new.data) = new.size
      BY <2>3, <2>4 DEF Ops
  <2> HIDE DEF new
  <2> QED BY <2>2, <2>5, CallKeeps
<1> QED BY <1>1, <1>2, <1>3

(* The transfer of a chip that is deselected, about to begin.              *)
LEMMA AboutTo ==
  ASSUME NEW x, TransferOK(x), NEW l \in {0, 1}, Seg(x, script', At(0, 0, l, open'), Finish(x)), tx' = <<>>, rx' = <<>>,
         Lone(x)', IF l = 0 THEN ~started' ELSE chips'[x.chip].selected = FALSE
  PROVE  Going(x, 0, 0, l)'
<1>1. tx' \in Seq(Item) /\ rx' \in Seq(Seq(Nat)) /\ Len(tx') = 0 /\ Len(rx') = 0
    OBVIOUS
<1>2. LastWord(x) \in Nat /\ FifoSize \in Nat
    BY Words, ChipAssumption
<1>3. \A j \in 1 .. Len(tx') : tx'[j] = WordAt(x, (0 - Len(tx')) + j)
    BY <1>1
<1>4. l # 0 => chips'[x.chip].selected = Held(x, 0 - Len(tx'), l)
  <2>1. Held(x, 0 - Len(tx'), l) = FALSE
      BY <1>1 DEF Held
  <2> QED BY <2>1
<1>5. 0 \in 0 .. LastWord(x) /\ l \in 0 .. 2 /\ 0 - 0 <= FifoSize /\ 0 + 0 = 0 - 0 /\ l # 2
    BY <1>2
<1> QED BY <1>1, <1>3, <1>4, <1>5 DEF Going

(* The loop of doStart goes on to chip i.                                  *)
LEMMA StartChipKeeps ==
  ASSUME ApartInv, StartChip
  PROVE  /\ ApartInv' /\ Active' /\ i \in Chip
         /\ \E x : x = Now' /\ Known(x) /\ BeginOK(x) /\ x.chip = i /\ Going(x, 0, 0, 0)'
<1>1. LoopOK /\ BusOK /\ TransferInv
    BY DEF ApartInv
<1>2. /\ op.kind = "start" /\ script = <<>> /\ i <= N /\ script' = Begin(i) /\ i' = i + 1
      /\ UNCHANGED <<build, chips, pin, tx, rx, open, started, op, sz>>
    BY DEF StartChip, AtLoop, bus
<1>3. i \in Chip /\ i \in Nat /\ i + 1 \in 1 .. N + 1 /\ ~started /\ sz = 0 /\ i + 1 > 1 /\ (i + 1) - 1 = i /\ i \in 1 .. N
  <2>1. i \in 1 .. N + 1 /\ ~started /\ sz = 0
      BY <1>1, <1>2 DEF LoopOK, Entered
  <2> QED BY <1>2, <2>1, Ends
<1>4. PICK x : x = BeginTransfer(i)
    OBVIOUS
<1>5. Known(x) /\ Ours(x) /\ x.chip = i /\ TransferOK(x)
    BY <1>1, <1>3, <1>4, BeginKnown DEF Ours
<1>6. Seg(x, script', At(0, 0, 0, open'), Finish(x))
    BY <1>2, <1>3, <1>4, <1>5, BeginSeg
<1>7. tx' = <<>> /\ rx' = <<>> /\ \A k \in Chip : k < i => chips[k].selected = FALSE
    BY <1>2, AtRest
<1>8. Lone(x)'
    BY <1>2, <1>3, <1>5, <1>7 DEF Lone
<1>9. Going(x, 0, 0, 0)'
    BY <1>2, <1>3, <1>5, <1>6, <1>7, <1>8, AboutTo
<1>10. Now' = x /\ Active'
  <2>1. op'.kind = "start" /\ i' - 1 = i /\ i' > 1
      BY <1>2, <1>3
  <2>2. Now' = [build |-> build', chip |-> i' - 1, size |-> ChipSizes[i' - 1], code |-> WriteMode, n |-> 0,
                address |-> 0, data |-> <<SequentialMode>>, keep |-> FALSE]
      BY <2>1 DEF Now, BeginTransfer
  <2>3. Now' = BeginTransfer(i)
      BY <1>2, <2>1, <2>2 DEF BeginTransfer
  <2> QED BY <1>4, <2>1, <2>3 DEF Active
<1>11. TransferInv'
    BY <1>9, <1>10 DEF TransferInv
<1>12. LoopOK'
    BY <1>1, <1>2, <1>3 DEF LoopOK, Entered
<1>13. BusOK'
    BY <1>1, <1>2 DEF BusOK
<1>14. BeginOK(x)
    BY <1>4 DEF BeginTransfer, BeginOK
<1> QED BY <1>3, <1>5, <1>9, <1>10, <1>11, <1>12, <1>13, <1>14 DEF ApartInv

(* The loop of doRead and doWrite enters chip i, or goes on.               *)
LEMMA EnterChipKeeps ==
  ASSUME ApartInv, EnterChip
  PROVE  /\ ApartInv' /\ i \in Chip
         /\ StartPtr(i) <= op.offset /\ op.offset < EndPtr(i)
              => Active' /\ \E x : x = Now' /\ Known(x) /\ x.chip = i /\ BlockOK(x) /\ Going(x, 0, 0, 1)'
         /\ ~(StartPtr(i) <= op.offset /\ op.offset < EndPtr(i)) => ~Active' /\ i' = i + 1
<1>1. LoopOK /\ BusOK /\ TransferInv
    BY DEF ApartInv
<1> DEFINE p == op.offset - StartPtr(i)
           most == Smaller(op.size, ChipSizes[i] - p)
<1>2. /\ op.kind \in {"read", "write"} /\ script = <<>> /\ i <= N /\ sz = 0
      /\ UNCHANGED <<build, chips, pin, tx, rx, open, started, op>>
      /\ IF op.offset >= StartPtr(i) /\ op.offset < EndPtr(i)
         THEN /\ sz' = most /\ i' = i
              /\ script' = IF op.kind = "read" THEN ReadChip(i, p, most) ELSE WriteChip(i, p, SubSeq(op.data, 1, most))
         ELSE i' = i + 1 /\ UNCHANGED <<sz, script>>
    BY DEF EnterChip, AtLoop, bus
<1>3. i \in Chip /\ i \in Nat /\ i + 1 \in 1 .. N + 1 /\ i \in 1 .. N + 1 /\ started
  <2>1. i \in 1 .. N + 1 /\ started
      BY <1>1, <1>2 DEF LoopOK
  <2> QED BY <1>2, <2>1, Ends
<1>4. tx' = <<>> /\ rx' = <<>> /\ (build = "plain" => open = FALSE) /\ \A k \in Chip : chips'[k].selected = FALSE
  <2>1. \A k \in Chip : chips[k].selected = FALSE
      BY <1>2, <1>3, AtRest
  <2> QED BY <1>2, <2>1, AtRest
<1>5. BusOK'
    BY <1>1, <1>2 DEF BusOK
<1>6. CASE StartPtr(i) <= op.offset /\ op.offset < EndPtr(i)
  <2>0. StartPtr(i) \in Nat /\ op.offset \in Nat
    <3>1. i - 1 \in 0 .. N
        BY <1>3, Ends
    <3> QED BY <1>1, <3>1, EndsUp DEF StartPtr, LoopOK, Ops
  <2>1. /\ sz' = most /\ i' = i
        /\ script' = IF op.kind = "read" THEN ReadChip(i, p, most) ELSE WriteChip(i, p, SubSeq(op.data, 1, most))
    <3>1. op.offset >= StartPtr(i)
        BY <1>6, <2>0
    <3> QED BY <1>2, <1>6, <3>1
  <2>2. PICK x : x = BlockNow(most)
      OBVIOUS
  <2>3. Known(x) /\ Ours(x) /\ TransferOK(x) /\ x.chip = i /\ x.n = AddrBytes(ChipSizes[x.chip]) /\ most \in Nat \ {0}
      BY <1>1, <1>2, <1>3, <1>6, <2>2, BlockNowKnown DEF Ours
  <2>4. script' = (InitTransfer(x.chip, x.code) \o SendAddress(x.chip, x.address)) \o Data(x.data, x.keep)
    <3>1. CASE op.kind = "read"
        BY <2>1, <2>2, <3>1 DEF BlockNow, ReadTransfer, BlockTransfer, ReadChip
    <3>2. CASE op.kind # "read"
        BY <2>1, <2>2, <3>2 DEF BlockNow, WriteTransfer, BlockTransfer, WriteChip
    <3> QED BY <3>1, <3>2
  <2>5. Seg(x, script', At(0, 0, 1, open'), Finish(x))
      BY <2>3, <2>4, BlockSeg
  <2>6. Lone(x)'
      BY <1>4 DEF Lone
  <2>7. Going(x, 0, 0, 1)'
    <3>1. 1 \in {0, 1} /\ IF 1 = 0 THEN ~started' ELSE chips'[x.chip].selected = FALSE
        BY <1>3, <1>4, <2>3
    <3> QED BY <1>4, <2>3, <2>5, <2>6, <3>1, AboutTo
  <2>8. Now' = x /\ Active'
    <3>1. op' = op /\ build' = build /\ i' = i /\ sz' = most /\ op.kind # "start"
        BY <1>2, <2>1
    <3>2. Now' = BlockNow(most)
        BY <3>1 DEF Now, BlockNow, ReadTransfer, WriteTransfer, BlockTransfer
    <3>3. sz' > 0
        BY <2>3, <3>1
    <3> QED BY <2>2, <3>2, <3>3 DEF Active
  <2>9. TransferInv'
      BY <2>7, <2>8 DEF TransferInv
  <2>10. LoopOK'
    <3>1. Entered'
        BY <1>2, <1>3, <1>6, <2>1 DEF Entered
    <3>2. sz' \in Nat
        BY <2>1, <2>3
    <3> QED BY <1>1, <1>2, <1>3, <2>1, <3>1, <3>2 DEF LoopOK
  <2>11. BlockOK(x)
    <3>1. x.code \in {Read, Write}
        BY <2>2 DEF BlockNow, ReadTransfer, WriteTransfer, BlockTransfer
    <3>2. x.code # WriteMode
        BY <3>1 DEF Read, Write, WriteMode
    <3> QED BY <2>3, <3>2 DEF Known, BeginOK
  <2> QED BY <1>3, <1>5, <1>6, <2>3, <2>7, <2>8, <2>9, <2>10, <2>11 DEF ApartInv
<1>7. CASE ~(StartPtr(i) <= op.offset /\ op.offset < EndPtr(i))
  <2>1. i' = i + 1 /\ sz' = 0 /\ script' = <<>>
    <3>1. StartPtr(i) \in Nat /\ op.offset \in Nat
      <4>1. i - 1 \in 0 .. N
          BY <1>3, Ends
      <4> QED BY <1>1, <4>1, EndsUp DEF StartPtr, LoopOK, Ops
    <3>2. ~(op.offset >= StartPtr(i) /\ op.offset < EndPtr(i))
        BY <1>7, <3>1
    <3> QED BY <1>2, <3>2
  <2>2. ~Active' /\ Calm'
      BY <1>2, <1>4, <2>1 DEF Active, Calm
  <2>3. LoopOK'
      BY <1>1, <1>2, <1>3, <2>1 DEF LoopOK
  <2> QED BY <1>3, <1>5, <1>7, <2>1, <2>2, <2>3 DEF ApartInv, TransferInv
<1> QED BY <1>6, <1>7

(* The loop goes on to the next chip. *)
LEMMA LeaveChipKeeps ==
  ASSUME ApartInv, LeaveChip
  PROVE  ApartInv'
<1>1. LoopOK /\ BusOK /\ TransferInv
    BY DEF ApartInv
<1>2. /\ script = <<>> /\ sz > 0 /\ sz' = 0
      /\ IF sz = op.size THEN i' = N + 1 /\ op' = op
         ELSE /\ op' = [op EXCEPT !.size = @ - sz, !.offset = @ + sz, !.data = SubSeq(@, sz + 1, Len(@))]
              /\ i' = i + 1
      /\ UNCHANGED <<build, chips, pin, tx, rx, open, started, script>>
    BY DEF LeaveChip, AtLoop, bus
<1>3. op.kind \in {"read", "write"} /\ i \in Chip /\ op \in Ops /\ started /\ op.size >= 1
      /\ (op.kind = "write" => Len(op.data) = op.size) /\ StartPtr(i) <= op.offset /\ op.offset < EndPtr(i)
      /\ sz = Smaller(op.size, ChipSizes[i] - (op.offset - StartPtr(i)))
    BY <1>1, <1>2 DEF LoopOK, Entered
<1>4. sz \in Nat \ {0} /\ sz <= op.size
    BY <1>3, Fits
<1>5. Calm' /\ ~Active' /\ BusOK'
  <2>1. tx = <<>> /\ rx = <<>> /\ (build = "plain" => open = FALSE) /\ \A k \in Chip : chips[k].selected = FALSE
      BY <1>2, <1>3, AtRest
  <2>2. op'.kind = op.kind
      BY <1>2, <1>3 DEF Ops
  <2> QED BY <1>1, <1>2, <1>3, <2>1, <2>2 DEF Calm, Active, BusOK
<1>6. LoopOK'
  <2>1. i' \in 1 .. N + 1 /\ i' \in Nat
      BY <1>2, <1>3, Ends
  <2>2. CASE sz = op.size
      BY <1>1, <1>2, <1>3, <2>1, <2>2 DEF LoopOK
  <2>3. CASE sz # op.size
    <3> DEFINE s == op.size - sz
               o == op.offset + sz
               d == SubSeq(op.data, sz + 1, Len(op.data))
    <3>1. op' = [op EXCEPT !.size = s, !.offset = o, !.data = d]
        BY <1>2, <2>3
    <3>2. s \in Nat /\ s >= 1 /\ o \in Nat
        BY <1>3, <1>4, <2>3 DEF Ops
    <3>3. d \in Seq(Byte) /\ (op.kind = "write" => Len(d) = s)
      <4>1. op.data \in Seq(Byte) /\ Len(op.data) \in Nat
          BY <1>3 DEF Ops
      <4>2. d \in Seq(Byte)
          BY <1>4, <4>1
      <4>3. ASSUME op.kind = "write" PROVE Len(d) = s
        <5>1. Len(op.data) = op.size /\ sz + 1 <= op.size + 1 /\ op.size \in Nat
            BY <1>3, <1>4, <4>1, <4>3
        <5> QED BY <1>4, <4>1, <5>1
      <4> QED BY <4>2, <4>3
    <3> HIDE DEF s, o, d
    <3>4. op' \in Ops /\ op'.kind = op.kind /\ op'.size = s /\ op'.data = d
        BY <1>3, <3>1, <3>2, <3>3 DEF Ops
    <3> QED BY <1>1, <1>2, <1>3, <2>1, <3>2, <3>3, <3>4 DEF LoopOK
  <2> QED BY <2>2, <2>3
<1> QED BY <1>5, <1>6 DEF ApartInv, TransferInv

(* The call returns. *)
LEMMA ReturnKeeps ==
  ASSUME ApartInv, Return
  PROVE  ApartInv'
<1>1. LoopOK /\ BusOK /\ TransferInv
    BY DEF ApartInv
<1>2. /\ op.kind # "none" /\ script = <<>> /\ i = N + 1 /\ op' = NoOp /\ i' = 0 /\ started' = TRUE
      /\ UNCHANGED <<build, chips, pin, tx, rx, open, sz, script>>
    BY DEF Return, bus
<1>3. sz = 0
  <2>1. i \notin Chip
      BY <1>2, Ends
  <2> QED BY <1>1, <2>1 DEF LoopOK, Entered
<1>4. \A k \in Chip : chips[k].selected = FALSE
  <2>1. CASE op.kind = "start"
    <3>1. \A k \in Chip : k < i
        BY <1>2, Ends
    <3>2. \A k \in Chip : k < i => chips[k].selected = FALSE
        BY <1>2, <2>1, AtRest
    <3> QED BY <3>1, <3>2
  <2>2. CASE op.kind # "start"
    <3>1. started
        BY <1>1, <1>2, <2>2 DEF LoopOK, Ops
    <3> QED BY <1>2, <3>1, AtRest
  <2> QED BY <2>1, <2>2
<1>5. tx = <<>> /\ rx = <<>> /\ (build = "plain" => open = FALSE)
    BY <1>2, AtRest
<1>6. NoOp \in Ops /\ NoOp.kind = "none"
    BY DEF NoOp, Ops
<1>7. Calm' /\ ~Active' /\ BusOK'
    BY <1>1, <1>2, <1>3, <1>4, <1>5, <1>6 DEF Calm, Active, BusOK
<1>8. LoopOK'
    BY <1>1, <1>2, <1>3, <1>6 DEF LoopOK
<1> QED BY <1>7, <1>8 DEF ApartInv, TransferInv

(* The board is reset. *)
LEMMA ResetKeeps ==
  ASSUME ApartInv, Reset
  PROVE  ApartInv'
<1>1. LoopOK /\ BusOK
    BY DEF ApartInv
<1>2. /\ pin' = 1 /\ tx' = <<>> /\ rx' = <<>> /\ open' = FALSE /\ started' = FALSE
      /\ op' = NoOp /\ i' = 0 /\ sz' = 0 /\ script' = <<>> /\ build' = build
    BY DEF Reset
<1>3. PICK floating \in SUBSET Chip :
          chips' = [k \in Chip |-> IF k \in floating THEN Selected(chips[k]) ELSE Deselected(chips[k])]
    BY DEF Reset
<1>4. chips' \in RawChips
  <2>1. ASSUME NEW k \in Chip PROVE chips'[k] \in RawChip(k)
    <3>1. chips[k] \in RawChip(k)
        BY <1>1 DEF BusOK, RawChips
    <3> QED BY <1>3, <3>1, PinRaw
  <2>2. chips' = [k \in Chip |-> chips'[k]]
      BY <1>3
  <2> QED BY <2>1, <2>2 DEF RawChips
<1>5. NoOp \in Ops /\ NoOp.kind = "none"
    BY DEF NoOp, Ops
<1>6. Calm' /\ ~Active' /\ BusOK'
  <2>1. 1 \in Chip
      BY Ends
  <2>2. BusOK'
      BY <1>2, <1>4, <2>1 DEF BusOK
  <2>3. Calm'
      BY <1>2 DEF Calm
  <2>4. op'.kind = "none" /\ sz' = 0
      BY <1>2, <1>5
  <2>5. ~Active'
      BY <2>4 DEF Active
  <2> QED BY <2>2, <2>3, <2>5
<1>7. LoopOK'
  <2>1. op'.kind = "none" /\ op' \in Ops /\ sz' = 0 /\ i' = 0 /\ started' = FALSE /\ build' \in {"plain", "fifo"}
      BY <1>1, <1>2, <1>5 DEF LoopOK
  <2>2. op'.kind \notin {"start", "read", "write"}
      BY <2>1
  <2>3. started' \in BOOLEAN
      BY <2>1
  <2>4. sz' \in Nat /\ i' \in Nat
      BY <2>1
  <2>5. ~(sz' > 0)
      BY <2>4, <2>1
  <2> QED BY <2>1, <2>2, <2>3, <2>4, <2>5 DEF LoopOK
<1> QED BY <1>6, <1>7 DEF ApartInv, TransferInv

(* Nothing is under way at first. *)
LEMMA InitKeeps ==
  ASSUME Init
  PROVE  ApartInv
<1>1. /\ build \in {"plain", "fifo"} /\ \A k \in Chip : chips[k] \in PowerOn(k)
      /\ chips \in [Chip -> UNION {PowerOn(k) : k \in Chip}]
      /\ pin = 1 /\ tx = <<>> /\ rx = <<>> /\ open = FALSE /\ started = FALSE /\ op = NoOp /\ i = 0 /\ sz = 0 /\ script = <<>>
    BY DEF Init
<1>2. chips \in RawChips
  <2>1. ASSUME NEW k \in Chip PROVE chips[k] \in RawChip(k)
    <3>1. chips[k] \in PowerOn(k)
        BY <1>1
    <3> QED BY <3>1 DEF PowerOn, RawChip, NoInstruction
  <2>2. chips = [k \in Chip |-> chips[k]]
      BY <1>1
  <2> QED BY <2>1, <2>2 DEF RawChips
<1>3. NoOp \in Ops /\ NoOp.kind = "none"
    BY DEF NoOp, Ops
<1>4. 1 \in Chip
    BY Ends
<1>5. Calm /\ ~Active /\ BusOK
  <2>1. op.kind = "none" /\ sz = 0
      BY <1>1, <1>3
  <2>2. ~Active
      BY <2>1 DEF Active
  <2>3. Calm
      BY <1>1 DEF Calm
  <2>4. BusOK
      BY <1>1, <1>2, <1>4 DEF BusOK
  <2> QED BY <2>2, <2>3, <2>4
<1>6. LoopOK
  <2>1. op.kind = "none" /\ op \in Ops /\ sz = 0 /\ i = 0 /\ started = FALSE /\ build \in {"plain", "fifo"}
      BY <1>1, <1>3
  <2>2. op.kind \notin {"start", "read", "write"}
      BY <2>1
  <2>3. started \in BOOLEAN
      BY <2>1
  <2>4. sz \in Nat /\ i \in Nat
      BY <2>1
  <2>5. ~(sz > 0)
      BY <2>4, <2>1
  <2> QED BY <2>1, <2>2, <2>3, <2>4, <2>5 DEF LoopOK
<1> QED BY <1>5, <1>6 DEF ApartInv, TransferInv

(* Nothing happens. *)
LEMMA StutterKeeps ==
  ASSUME ApartInv, UNCHANGED vars
  PROVE  ApartInv'
<1>1. UNCHANGED <<build, started, loop>> /\ UNCHANGED <<chips, pin, tx, rx, open, script>>
    BY DEF vars, bus
<1>2. LoopOK /\ BusOK /\ TransferInv
    BY DEF ApartInv
<1>3. LoopOK' /\ Now' = Now /\ Active' = Active
    BY <1>1, <1>2, LoopStays
<1>4. BusOK'
    BY <1>1, <1>2 DEF BusOK
<1>5. TransferInv'
  <2>1. CASE Active
    <3>1. PICK x, b, c, l : x = Now /\ Going(x, b, c, l)
        BY <1>2, <2>1 DEF TransferInv
    <3>2. Going(x, b, c, l)'
        BY <1>1, <3>1 DEF Going, Lone
    <3>3. x = Now'
        BY <1>3, <3>1
    <3> QED BY <1>3, <2>1, <3>2, <3>3 DEF TransferInv
  <2>2. CASE ~Active
      BY <1>1, <1>2, <1>3, <2>2 DEF TransferInv, Calm
  <2> QED BY <2>1, <2>2
<1> QED BY <1>3, <1>4, <1>5 DEF ApartInv

(* Every step keeps it. *)
LEMMA ApartStep ==
  ASSUME ApartInv, [Next]_vars
  PROVE  ApartInv'
<1>1. CASE DoStart \/ DoRead \/ DoWrite
    BY <1>1, CallsKeep
<1>2. CASE Board
  <2>1. CASE StartChip
      BY <2>1, StartChipKeeps
  <2>2. CASE EnterChip
      BY <2>2, EnterChipKeeps
  <2>3. CASE LeaveChip
      BY <2>3, LeaveChipKeeps
  <2>4. CASE Return
      BY <2>4, ReturnKeeps
  <2>5. CASE DrivePin \/ CloseTransaction \/ Transfer \/ PushWord \/ PopWord
      BY <2>5, MoveKeeps DEF Moves
  <2> QED BY <1>2, <2>1, <2>2, <2>3, <2>4, <2>5 DEF Board
<1>3. CASE Shift
    BY <1>3, MoveKeeps DEF Moves
<1>4. CASE Reset
    BY <1>4, ResetKeeps
<1>5. CASE UNCHANGED vars
    BY <1>5, StutterKeeps
<1> QED BY <1>1, <1>2, <1>3, <1>4, <1>5 DEF Next

(* The invariant is what the transfers have to keep.                       *)
LEMMA ApartMeans ==
  ASSUME ApartInv
  PROVE  TransfersKeepApart
<1>1. LoopOK /\ BusOK /\ TransferInv
    BY DEF ApartInv
<1>2. ASSUME started, NEW j \in Chip, NEW k \in Chip, chips[j].selected, chips[k].selected PROVE j = k
  <2>1. CASE Active
    <3>1. PICK x, b, c, l : x = Now /\ Going(x, b, c, l)
        BY <1>1, <2>1 DEF TransferInv
    <3>2. Lone(x)
        BY <3>1 DEF Going
    <3>3. j = x.chip /\ k = x.chip
        BY <1>2, <3>2 DEF Lone
    <3> QED BY <3>3
  <2>2. CASE ~Active
      BY <1>1, <1>2, <2>2 DEF TransferInv, Calm
  <2> QED BY <2>1, <2>2
<1>3. Len(tx) + Len(rx) <= FifoSize
  <2>1. CASE Active
    <3>1. PICK x, b, c, l : x = Now /\ Going(x, b, c, l)
        BY <1>1, <2>1 DEF TransferInv
    <3> QED BY <3>1 DEF Going
  <2>2. CASE ~Active
    <3>1. tx = <<>> /\ rx = <<>>
        BY <1>1, <2>2 DEF TransferInv, Calm
    <3>2. Len(<<>>) = 0 /\ FifoSize \in Nat
        BY ChipAssumption
    <3> QED BY <3>1, <3>2
  <2> QED BY <2>1, <2>2
<1>4. script = <<>> => tx = <<>> /\ rx = <<>>
    BY AtRest
<1>5. ASSUME op.kind = "none" PROVE (started => \A k \in Chip : ~chips[k].selected) /\ (build = "plain" => ~open)
  <2>1. ~Active
      BY <1>1, <1>5 DEF Active, LoopOK, Entered
  <2> QED BY <1>1, <2>1 DEF TransferInv, Calm
<1> QED BY <1>2, <1>3, <1>4, <1>5 DEF TransfersKeepApart

(* Transfers stay out of each other's way: once the allocator has started  *)
(* at most one chip is selected, and between two calls none; every answer  *)
(* has room in the FIFO; nothing is left in it when SPISerialRam returns.  *)
THEOREM KeepApart == Spec => []TransfersKeepApart
<1>1. Init => ApartInv
    BY InitKeeps
<1>2. ApartInv /\ [Next]_vars => ApartInv'
    BY ApartStep
<1>3. ApartInv => TransfersKeepApart
    BY ApartMeans
<1> QED BY <1>1, <1>2, <1>3, PTL DEF Spec

-----------------------------------------------------------------------------
(* What a transfer does to the chips                                       *)

ChipStates == {cs \in [Chip -> UNION {ChipState(k) : k \in Chip}] : \A k \in Chip : cs[k] \in ChipState(k)}

(* A chip that takes any byte that may be stored stays one.                *)
LEMMA TakeState ==
  ASSUME NEW k \in Chip, NEW c \in ChipState(k), NEW b \in Cell
  PROVE  Take(c, ChipSizes[k], b) \in ChipState(k)
<1> DEFINE size == ChipSizes[k]
           at == 1 + (c.pos % size)
           top == ChipAddrBytes(size)
<1>1. size \in Nat \ {0} /\ ByteBase \in Nat /\ b \in Nat /\ top \in Nat
  <2>1. top \in 1 .. 4
      BY AddressSize
  <2> QED BY <2>1, AddressSize, Weights, Bytes
<1>2. /\ c.data \in [1 .. size -> Cell] /\ c.sequential \in BOOLEAN /\ c.selected \in BOOLEAN /\ c.instr \in Nat
      /\ c.need \in 0 .. top /\ c.pos \in Nat
    BY DEF ChipState
<1>3. c.pos % size \in 0 .. size - 1
    BY <1>1, <1>2, Quotient
<1>4. at \in 1 .. size /\ at \in Nat
    BY <1>1, <1>3
<1>5. CASE ~c.selected
    BY <1>5 DEF Take
<1>6. CASE c.selected /\ c.instr = NoInstruction
  <2> DEFINE n == IF b \in {Read, Write} THEN top ELSE 0
             r == [c EXCEPT !.instr = b, !.need = n]
  <2>2. n \in 0 .. top
      BY <1>1
  <2>3. Take(c, ChipSizes[k], b) = r
      BY <1>6 DEF Take
  <2> HIDE DEF n
  <2>4. r \in ChipState(k)
      BY <1>1, <2>2 DEF ChipState
  <2> QED BY <2>3, <2>4
<1>7. CASE c.selected /\ c.instr # NoInstruction /\ c.instr = WriteMode
  <2> DEFINE q == (b = SequentialMode)
             r == [c EXCEPT !.sequential = q]
  <2>1. q \in BOOLEAN
      OBVIOUS
  <2>3. Take(c, ChipSizes[k], b) = r
      BY <1>7 DEF Take
  <2> HIDE DEF q
  <2>4. r \in ChipState(k)
      BY <2>1 DEF ChipState
  <2> QED BY <2>3, <2>4
<1>8. CASE c.selected /\ c.instr # NoInstruction /\ c.instr # WriteMode /\ c.need > 0
  <2> DEFINE n == c.need - 1
             o == c.pos * ByteBase + b
             r == [c EXCEPT !.need = n, !.pos = o]
  <2>1. n \in 0 .. top
      BY <1>1, <1>2, <1>8
  <2>2. o \in Nat
      BY <1>1, <1>2
  <2>3. Take(c, ChipSizes[k], b) = r
      BY <1>8 DEF Take
  <2> HIDE DEF n, o
  <2>4. r \in ChipState(k)
      BY <2>1, <2>2 DEF ChipState
  <2> QED BY <2>3, <2>4
<1>9. CASE c.selected /\ c.instr # NoInstruction /\ c.instr # WriteMode /\ ~(c.need > 0)
  <2> DEFINE o == IF c.sequential THEN at % size ELSE c.pos
             e == IF c.instr = Write THEN [c.data EXCEPT ![at] = b] ELSE c.data
             r == [c EXCEPT !.pos = o, !.data = e]
  <2>1. o \in Nat
    <3> HIDE DEF at
    <3>1. at % size \in Nat
        BY <1>1, <1>4
    <3> QED BY <1>2, <3>1
  <2>2. e \in [1 .. size -> Cell]
    <3> HIDE DEF at
    <3> QED BY <1>2, <1>4
  <2>3. Take(c, ChipSizes[k], b) = r
      BY <1>9 DEF Take
  <2> HIDE DEF o, e
  <2>4. r \in ChipState(k)
      BY <2>1, <2>2 DEF ChipState
  <2> QED BY <2>3, <2>4
<1> QED BY <1>5, <1>6, <1>7, <1>8, <1>9

(* And so does one whose select pin is driven.                             *)
LEMMA PinState ==
  ASSUME NEW k, NEW c \in ChipState(k), 0 \in 0 .. ChipAddrBytes(ChipSizes[k])
  PROVE  /\ Selected(c) \in ChipState(k) /\ Deselected(c) \in ChipState(k)
         /\ Deselected(c).data = c.data /\ Deselected(c).sequential = c.sequential /\ Quiet(Deselected(c))
<1>1. Selected(c) \in ChipState(k)
    BY DEF ChipState, Selected
<1>2. Deselected(c) \in ChipState(k) /\ Deselected(c).data = c.data /\ Deselected(c).sequential = c.sequential
    BY DEF ChipState, Deselected, NoInstruction
<1>3. Quiet(Deselected(c))
    BY DEF ChipState, Deselected, NoInstruction, Quiet
<1> QED BY <1>1, <1>2, <1>3

(* What is left when the pin is raised after p bytes.                      *)
Left(x, c, p) ==
    [data |-> DataAfter(x, c, p), sequential |-> SequentialAfter(x, c, p), selected |-> FALSE,
     instr |-> NoInstruction, need |-> 0, pos |-> 0]

(* The pin is raised after p bytes. *)
LEMMA Raise ==
  ASSUME NEW x, NEW c, NEW p
  PROVE  Deselected(After(x, c, p)) = Left(x, c, p)
<1> DEFINE d == DataAfter(x, c, p)
           q == SequentialAfter(x, c, p)
           j == InstrAfter(x, p)
           n == NeedAfter(x, p)
           o == PosAfter(x, p)
           R == [data : {d}, sequential : {q}, selected : BOOLEAN, instr : {j, NoInstruction}, need : {n, 0}, pos : {o, 0}]
           s == After(x, c, p)
           t == Deselected(s)
           u == Left(x, c, p)
<1>1. s = Busy(d, q, j, n, o)
    BY DEF After
<1> HIDE DEF d, q, j, n, o
<1>2. Busy(d, q, j, n, o) \in R
    BY DEF Busy
<1>3. u = [data |-> d, sequential |-> q, selected |-> FALSE, instr |-> NoInstruction, need |-> 0, pos |-> 0]
    BY DEF Left, d, q
<1> HIDE DEF s, u
<1>4. t \in R /\ t.data = d /\ t.sequential = q /\ t.selected = FALSE /\ t.instr = NoInstruction /\ t.need = 0 /\ t.pos = 0
    BY <1>1, <1>2 DEF Deselected, Busy
<1>5. u \in R /\ u.data = d /\ u.sequential = q /\ u.selected = FALSE /\ u.instr = NoInstruction /\ u.need = 0 /\ u.pos = 0
    BY <1>3
<1> HIDE DEF t
<1>6. t = u
    BY <1>4, <1>5
<1> QED BY <1>6 DEF t, s, u

(* And when it is pulled low before the first.                             *)
LEMMA Lower ==
  ASSUME NEW x, Known(x), NEW c, Fit(x, c)
  PROVE  Selected(c) = After(x, c, 0) /\ Deselected(c) = c /\ c.selected = FALSE
<1> DEFINE k == x.chip
           s == After(x, c, 0)
           t == Selected(c)
           R == ChipState(k)
<1>1. c \in R /\ c.selected = FALSE /\ c.instr = NoInstruction /\ c.need = 0 /\ c.pos = 0 /\ c.data \in [1 .. ChipSizes[k] -> Cell]
      /\ c.sequential \in BOOLEAN
    BY DEF Fit, Quiet, ChipState
<1>2. x.size = ChipSizes[k] /\ x.address \in Nat /\ x.n \in Nat /\ k \in Chip
    BY KnownFacts
<1>3. DataAfter(x, c, 0) = c.data
  <2>1. \A a \in 1 .. x.size : ~(x.address < a /\ a <= x.address + (0 - 1 - x.n))
    <3> DEFINE ad == x.address
               n == x.n
    <3>1. ad \in Nat /\ n \in Nat /\ ChipSizes[k] \in Nat
        BY <1>2, AddressSize
    <3> HIDE DEF ad, n, k
    <3>2. \A a \in 1 .. ChipSizes[k] : ~(ad < a /\ a <= ad + (0 - 1 - n))
        BY <3>1
    <3> QED BY <1>2, <3>2 DEF ad, n, k
  <2>2. DataAfter(x, c, 0) = [a \in 1 .. x.size |-> c.data[a]]
      BY <2>1 DEF DataAfter
  <2> QED BY <1>1, <1>2, <2>2
<1>4. NeedAfter(x, 0) = 0 /\ PosAfter(x, 0) = 0 /\ InstrAfter(x, 0) = NoInstruction
    BY DEF NeedAfter, PosAfter, InstrAfter
<1>5. SequentialAfter(x, c, 0) = c.sequential
    BY <1>1 DEF SequentialAfter
<1>6. s = Busy(c.data, c.sequential, NoInstruction, 0, 0)
    BY <1>3, <1>4, <1>5 DEF After
<1>7. s \in [data : {c.data}, sequential : BOOLEAN, selected : BOOLEAN, instr : {NoInstruction}, need : {0}, pos : {0}]
      /\ s.data = c.data /\ s.sequential = c.sequential /\ s.selected = TRUE /\ s.instr = NoInstruction /\ s.need = 0 /\ s.pos = 0
  <2> DEFINE d == c.data
             q == c.sequential
  <2>1. s = Busy(d, q, NoInstruction, 0, 0) /\ q \in BOOLEAN
      BY <1>1, <1>6
  <2> HIDE DEF d, q, s
  <2>2. s \in [data : {d}, sequential : BOOLEAN, selected : BOOLEAN, instr : {NoInstruction}, need : {0}, pos : {0}]
        /\ s.data = d /\ s.sequential = q /\ s.selected = TRUE /\ s.instr = NoInstruction /\ s.need = 0 /\ s.pos = 0
      BY <2>1 DEF Busy
  <2> QED BY <2>2 DEF d, q
<1>8. t \in [data : {c.data}, sequential : BOOLEAN, selected : BOOLEAN, instr : {NoInstruction}, need : {0}, pos : {0}]
      /\ t.data = c.data /\ t.sequential = c.sequential /\ t.selected = TRUE /\ t.instr = NoInstruction /\ t.need = 0 /\ t.pos = 0
    BY <1>1 DEF Selected, ChipState
<1> HIDE DEF s, t
<1>9. s = t
    BY <1>7, <1>8
<1>10. Deselected(c) = c
  <2> DEFINE z == Deselected(c)
  <2>1. z \in R /\ z.data = c.data /\ z.sequential = c.sequential /\ z.selected = FALSE /\ z.instr = NoInstruction /\ z.need = 0 /\ z.pos = 0
      BY <1>1 DEF Deselected, ChipState, NoInstruction
  <2> HIDE DEF z
  <2>2. z = c
      BY <1>1, <2>1 DEF ChipState
  <2> QED BY <2>2 DEF z
<1> QED BY <1>1, <1>9, <1>10 DEF s, t

(* In the middle and at the end the chip is one.                           *)
LEMMA AfterState ==
  ASSUME ChipsFit, NEW x, Known(x), NEW c, Fit(x, c), NEW p \in 0 .. Total(x)
  PROVE  /\ After(x, c, p) \in ChipState(x.chip) /\ After(x, c, p).selected = TRUE
         /\ Left(x, c, p) \in ChipState(x.chip) /\ Quiet(Left(x, c, p)) /\ Left(x, c, p).selected = FALSE
<1> DEFINE k == x.chip
           size == ChipSizes[k]
           d == DataAfter(x, c, p)
           q == SequentialAfter(x, c, p)
           j == InstrAfter(x, p)
           n == NeedAfter(x, p)
           o == PosAfter(x, p)
           m == x.n
           ad == x.address
           t == Total(x)
           len == Len(x.data)
<1>1. /\ k \in Chip /\ x.size = size /\ size \in Nat \ {0} /\ ad \in Nat /\ m \in 0 .. 4 /\ len \in Nat /\ t = 1 + m + len
      /\ x.code \in {Read, Write} => m = ChipAddrBytes(size)
      /\ x.code = WriteMode => m = 0
      /\ x.code \in {Read, Write, WriteMode} /\ \A a \in 1 .. len : x.data[a] \in Cell
    BY KnownFacts, AddressTaken
<1>2. c.data \in [1 .. size -> Cell] /\ c.sequential \in BOOLEAN
    BY DEF Fit, ChipState
<1>3. p \in Nat /\ p <= t
    BY <1>1
<1>4. d \in [1 .. size -> Cell]
  <2> DEFINE new(a) == x.address < a /\ a <= x.address + (p - 1 - x.n)
  <2>1. ASSUME NEW a \in 1 .. size, new(a) PROVE a - x.address \in 1 .. len
    <3> HIDE DEF t, len
    <3> QED BY <1>1, <1>3, <2>1
  <2>2. d = [a \in 1 .. size |-> IF x.code = Write /\ new(a) THEN x.data[a - x.address] ELSE c.data[a]]
      BY <1>1 DEF DataAfter
  <2> HIDE DEF new
  <2>3. \A a \in 1 .. size : (IF x.code = Write /\ new(a) THEN x.data[a - x.address] ELSE c.data[a]) \in Cell
      BY <1>1, <1>2, <2>1
  <2> QED BY <2>2, <2>3
<1>5. q \in BOOLEAN
    BY DEF SequentialAfter
<1>6. j \in Nat
    BY <1>1 DEF InstrAfter, NoInstruction, Read, Write, WriteMode
<1>7. n \in 0 .. ChipAddrBytes(size)
  <2>1. ChipAddrBytes(size) \in 1 .. 4
      BY <1>1, AddressSize
  <2>2. CASE x.code = WriteMode
    <3>1. n = 0
        BY <1>1, <1>3, <2>2 DEF NeedAfter
    <3> QED BY <2>1, <3>1
  <2>3. CASE x.code \in {Read, Write}
    <3>1. n \in 0 .. m
        BY <1>1, <1>3 DEF NeedAfter
    <3> QED BY <1>1, <2>3, <3>1
  <2> QED BY <1>1, <2>2, <2>3
<1>8. o \in Nat
  <2>1. CASE p <= 1 \/ x.code = WriteMode
      BY <2>1 DEF PosAfter
  <2>2. CASE ~(p <= 1 \/ x.code = WriteMode) /\ p <= 1 + m
    <3>1. m - p + 2 \in 1 .. 4
        BY <1>1, <1>3, <2>2
    <3>2. Weight[m - p + 2] \in Nat \ {0}
      <4> HIDE DEF m
      <4> QED BY <3>1, Weights
    <3>3. ad \div Weight[m - p + 2] \in Nat
        BY <1>1, <3>2, Quotient
    <3> QED BY <2>2, <3>3 DEF PosAfter
  <2>3. CASE ~(p <= 1 \/ x.code = WriteMode) /\ ~(p <= 1 + m)
    <3>1. p - 1 - m \in Nat
        BY <1>1, <1>3, <2>3
    <3>2. ad + (p - 1 - m) \in Nat
      <4> HIDE DEF m, ad
      <4> QED BY <1>1, <3>1
    <3>3. (ad + (p - 1 - m)) % size \in Nat
      <4> DEFINE u == ad + (p - 1 - m)
      <4>0. u \in Nat
          BY <3>2
      <4> HIDE DEF u, size
      <4>1. u % size \in 0 .. size - 1
          BY <1>1, <4>0, Quotient
      <4>2. u % size \in Nat
          BY <1>1, <4>1
      <4> QED BY <4>2 DEF u
    <3> QED BY <1>1, <2>3, <3>3 DEF PosAfter
  <2> QED BY <2>1, <2>2, <2>3
<1> HIDE DEF d, q, j, n, o, k
<1>9. Busy(d, q, j, n, o) \in ChipState(k) /\ Busy(d, q, j, n, o).selected = TRUE
  <2>1. ChipAddrBytes(size) \in 1 .. 4
      BY <1>1, AddressSize DEF k
  <2> QED BY <1>4, <1>5, <1>6, <1>7, <1>8 DEF Busy, ChipState
<1>10. After(x, c, p) = Busy(d, q, j, n, o)
    BY DEF After, d, q, j, n, o
<1>11. 0 \in 0 .. ChipAddrBytes(ChipSizes[k])
  <2>1. ChipAddrBytes(size) \in 1 .. 4
      BY <1>1, AddressSize DEF k
  <2> QED BY <2>1
<1>12. Left(x, c, p) \in ChipState(k) /\ Quiet(Left(x, c, p)) /\ Left(x, c, p).selected = FALSE
  <2> DEFINE s == After(x, c, p)
  <2>1. s \in ChipState(k)
      BY <1>9, <1>10
  <2>2. Deselected(s) = Left(x, c, p)
      BY Raise
  <2> HIDE DEF s
  <2>3. Deselected(s) \in ChipState(k) /\ Quiet(Deselected(s))
      BY <1>11, <2>1, PinState
  <2>4. Deselected(s).selected = FALSE
      BY <2>3 DEF Quiet
  <2> QED BY <2>2, <2>3, <2>4
<1> QED BY <1>9, <1>10, <1>12 DEF k

(* The address of a byte on its chip. *)
LEMMA Rest ==
  ASSUME NEW u \in Nat, NEW s \in Nat \ {0}, u < s
  PROVE  u % s = u
OBVIOUS

(* What it answers to byte q.                                              *)
Reply(x, c, q) ==
    IF x.code = Read /\ q > 1 + x.n THEN c.data[x.address + (q - 1 - x.n)] ELSE Dummy
(* What a chip answers is the byte at that place of the block. *)
LEMMA AnswerIs ==
  ASSUME NEW x, Known(x), NEW c, Fit(x, c), NEW p \in 0 .. Total(x) - 1
  PROVE  Answer(After(x, c, p), x.size) = Reply(x, c, p + 1)
<1> DEFINE s == After(x, c, p)
           m == x.n
           ad == x.address
           t == Total(x)
           len == Len(x.data)
           size == x.size
<1>1. /\ size \in Nat \ {0} /\ ad \in Nat /\ m \in 0 .. 4 /\ len \in Nat /\ t = 1 + m + len
      /\ x.code \in {Read, Write} => ad + len <= size
    BY KnownFacts
<1>2. p \in Nat /\ p < t
    BY <1>1
<1>3. s.data = DataAfter(x, c, p) /\ s.instr = InstrAfter(x, p) /\ s.need = NeedAfter(x, p) /\ s.pos = PosAfter(x, p)
    BY DEF After, Busy
<1> HIDE DEF s
<1>4. CASE ~(x.code = Read /\ p + 1 > 1 + m)
  <2>1. ~(s.instr = Read /\ s.need = 0)
    <3>1. CASE x.code # Read
        BY <1>3, <3>1 DEF InstrAfter, NoInstruction, Read
    <3>2. CASE x.code = Read
      <4>1. p <= m
          BY <1>1, <1>2, <1>4, <3>2
      <4>2. CASE p = 0
          BY <1>3, <4>2 DEF InstrAfter, NoInstruction, Read
      <4>3. CASE p # 0
        <5>1. 1 <= p /\ 1 + m - p # 0
            BY <1>1, <1>2, <4>1, <4>3
        <5> QED BY <1>3, <4>1, <5>1 DEF NeedAfter
      <4> QED BY <4>2, <4>3
    <3> QED BY <3>1, <3>2
  <2> QED BY <1>4, <2>1 DEF Answer, Reply, s
<1>5. CASE x.code = Read /\ p + 1 > 1 + m
  <2> DEFINE u == ad + (p - 1 - m)
  <2>1. /\ p >= 1 + m /\ u \in Nat /\ u < size /\ 1 + u = ad + ((p + 1) - 1 - m) /\ u + 1 \in 1 .. size /\ p # 0
        /\ ~(p <= m) /\ p - 1 - m \in Nat
    <3>1. ad + len <= size
        BY <1>1, <1>5
    <3> HIDE DEF ad, len, size, t, m
    <3> QED BY <1>1, <1>2, <1>5, <3>1
  <2>2. s.instr = Read /\ s.need = 0
      BY <1>3, <1>5, <2>1 DEF InstrAfter, NeedAfter
  <2>3. s.data = [a \in 1 .. size |-> c.data[a]]
      BY <1>3, <1>5 DEF DataAfter, Read, Write
  <2>4. s.pos % size = u
    <3>1. CASE p = 1 + m
      <4>1. m >= 1
          BY <1>5, KnownFacts
      <4>2. u = ad /\ m - p + 2 = 1 /\ ~(p <= 1) /\ p <= 1 + m
        <5>1. p - 1 - m = 0 /\ m - p + 2 = 1 /\ ~(p <= 1) /\ p <= 1 + m
            BY <1>1, <3>1, <4>1
        <5> HIDE DEF ad, m
        <5> QED BY <1>1, <5>1
      <4>3. ad \div 1 = ad
          BY <1>1
      <4>4. s.pos = ad
        <5>1. Weight[1] = 1 /\ ~(x.code = WriteMode)
            BY <1>5, Weights DEF Read, WriteMode
        <5> HIDE DEF u
        <5> QED BY <1>3, <4>2, <4>3, <5>1 DEF PosAfter
      <4> HIDE DEF u, ad, size
      <4>5. u % size = u
          BY <1>1, <2>1, Rest
      <4> QED BY <4>2, <4>4, <4>5
    <3>2. CASE p # 1 + m
      <4>1. ~(p <= 1) /\ ~(p <= 1 + m)
        <5> HIDE DEF u, ad, m, size
        <5> QED BY <1>1, <1>2, <2>1, <3>2
      <4>2. ~(x.code = WriteMode)
          BY <1>5 DEF Read, WriteMode
      <4>3. s.pos = u % size
          BY <1>3, <4>1, <4>2 DEF PosAfter
      <4> HIDE DEF u, ad, size
      <4>4. u % size = u
          BY <1>1, <2>1, Rest
      <4> QED BY <4>3, <4>4
    <3> QED BY <3>1, <3>2
  <2>5. Answer(s, size) = c.data[1 + u]
    <3> HIDE DEF u, size
    <3> QED BY <1>1, <2>1, <2>2, <2>3, <2>4 DEF Answer
  <2>6. Reply(x, c, p + 1) = c.data[1 + u]
    <3> HIDE DEF u
    <3> QED BY <1>5, <2>1 DEF Reply
  <2> QED BY <2>5, <2>6 DEF s
<1> QED BY <1>4, <1>5

(* The chips and the answers are as after byte p of x; those in still are  *)
(* as in cs.                                                               *)
BytesDone(x, c, p, cs, still, z) ==
    z.chips \in ChipStates /\ z.chips[x.chip] = After(x, c, p) /\ \A k \in still : z.chips[k] = cs[k]

(* All other chips are not selected; when they are set up, some may be.    *)
Bystanders(x, cs, still) ==
    still \subseteq Chip /\ (\A k \in still : cs[k].selected = FALSE) /\ (BeginOK(x) \/ still = Chip \ {x.chip})

(* What a byte on the bus does to the chip of x and to the others: those   *)
(* in still are not selected.                                              *)
LEMMA ByteData ==
  ASSUME ChipsFit, NEW x, Known(x), NEW c, Fit(x, c), NEW p \in 0 .. Total(x) - 1, NEW y, y.chips \in ChipStates,
         y.chips[x.chip] = After(x, c, p), NEW still, Bystanders(x, y.chips, still), NEW z, z = Exchange(y, StreamByte(x, p + 1))
  PROVE  /\ BytesDone(x, c, p + 1, y.chips, still, z)
         /\ still = Chip \ {x.chip} => z.got = Append(y.got, Reply(x, c, p + 1))
<1> DEFINE b == StreamByte(x, p + 1)
           ds == [k \in Chip |-> Take(y.chips[k], ChipSizes[k], b)]
           g == x.chip
<1>0. still \subseteq Chip /\ (\A k \in still : y.chips[k].selected = FALSE) /\ (BeginOK(x) \/ still = Chip \ {g})
    BY DEF Bystanders
<1>1. z.chips = ds
    BY DEF Exchange
<1>2. g \in Chip /\ x.size = ChipSizes[g] /\ Total(x) \in Nat /\ p \in 0 .. Total(x) /\ p + 1 \in 0 .. Total(x)
  <2>1. Total(x) \in Nat /\ g \in Chip /\ x.size = ChipSizes[g]
      BY Words, KnownFacts DEF Known
  <2> QED BY <2>1
<1>3. y.chips[g] = After(x, c, p) /\ y.chips[g].selected = TRUE
  <2>1. After(x, c, p).selected = TRUE
      BY <1>2, AfterState
  <2> QED BY <2>1
<1>4. ds[g] = After(x, c, p + 1)
    BY <1>2, <1>3, TakeByte
<1>5. ASSUME NEW k \in still PROVE ds[k] = y.chips[k]
    BY <1>0 DEF Take
<1>6. ASSUME NEW k \in Chip PROVE ds[k] \in ChipState(k)
  <2>1. CASE k = g
    <3>1. After(x, c, p + 1) \in ChipState(g)
        BY <1>2, AfterState
    <3> QED BY <1>4, <2>1, <3>1
  <2>2. CASE k # g /\ BeginOK(x)
    <3>1. b \in Cell
      <4>1. p = 0 \/ p = 1
          BY <2>2, KnownFacts DEF BeginOK
      <4>2. CASE p = 0
        <5>1. b = WriteMode
            BY <2>2, <4>2 DEF StreamByte, BeginOK
        <5> QED BY <5>1, Bytes
      <4>3. CASE p = 1
        <5>1. b = SequentialMode
            BY <2>2, <4>3 DEF StreamByte, BeginOK
        <5> QED BY <5>1, Bytes
      <4> QED BY <4>1, <4>2, <4>3
    <3>2. y.chips[k] \in ChipState(k)
        BY DEF ChipStates
    <3> HIDE DEF b
    <3> QED BY <3>1, <3>2, TakeState
  <2>3. CASE k # g /\ still = Chip \ {g}
    <3>1. y.chips[k] \in ChipState(k)
        BY DEF ChipStates
    <3>2. ds[k] = y.chips[k]
        BY <1>5, <2>3
    <3> QED BY <3>1, <3>2
  <2> QED BY <1>0, <2>1, <2>2, <2>3
<1>7. ds \in ChipStates
  <2>1. \A k \in Chip : ds[k] \in UNION {ChipState(j) : j \in Chip}
      BY <1>6
  <2>2. ds = [k \in Chip |-> ds[k]]
      OBVIOUS
  <2> HIDE DEF ds
  <2>3. ds \in [Chip -> UNION {ChipState(j) : j \in Chip}]
      BY <2>1, <2>2
  <2> QED BY <1>6, <2>3 DEF ChipStates
<1>8. ASSUME still = Chip \ {g} PROVE z.got = Append(y.got, Reply(x, c, p + 1))
  <2> DEFINE talking == {k \in Chip : y.chips[k].selected}
             a == IF \E k \in Chip : talking = {k}
                  THEN LET k == CHOOSE k \in talking : TRUE IN Answer(y.chips[k], ChipSizes[k])
                  ELSE Dummy
  <2>1. talking = {g}
      BY <1>0, <1>2, <1>3, <1>8
  <2>2. z.got = Append(y.got, a)
      BY DEF Exchange
  <2>3. a = Answer(y.chips[g], ChipSizes[g])
    <3> HIDE DEF talking
    <3>1. (CHOOSE k \in talking : TRUE) = g
        BY <2>1
    <3> QED BY <1>2, <2>1, <3>1
  <2>4. Answer(y.chips[g], ChipSizes[g]) = Reply(x, c, p + 1)
      BY <1>2, <1>3, AnswerIs
  <2> HIDE DEF a
  <2> QED BY <2>2, <2>3, <2>4
<1> QED BY <1>1, <1>4, <1>5, <1>7, <1>8 DEF BytesDone

(* And what a word does.                                                   *)
Replies(x, c, j) == [m \in 1 .. Off(x, j) - Off(x, j - 1) |-> Reply(x, c, Off(x, j - 1) + m)]
(* The same for a word of one or two bytes. *)
LEMMA WordData ==
  ASSUME ChipsFit, NEW x, Known(x), NEW c, Fit(x, c), NEW j \in 1 .. LastWord(x), NEW cs \in ChipStates,
         cs[x.chip] = After(x, c, Off(x, j - 1)), NEW still, Bystanders(x, cs, still), NEW r, r = ExchangeAll(cs, WordAt(x, j).bytes)
  PROVE  /\ BytesDone(x, c, Off(x, j), cs, still, r)
         /\ still = Chip \ {x.chip} => r.got = Replies(x, c, j)
<1> DEFINE o == Off(x, j - 1)
           q == Off(x, j)
           t == Total(x)
           bytes == WordAt(x, j).bytes
           y == Start(cs)
           z == Exchange(y, bytes[1])
           alone == (still = Chip \ {x.chip})
<1>1. TransferOK(x) /\ LastWord(x) \in Nat /\ t \in Nat
    BY Words DEF Known
<1>2. o \in 0 .. t /\ q \in 0 .. t /\ Len(bytes) = q - o /\ q - o \in {1, 2}
      /\ \A m \in 1 .. q - o : bytes[m] = StreamByte(x, o + m)
  <2>1. j \in 0 .. LastWord(x) /\ j - 1 \in 0 .. LastWord(x)
      BY <1>1
  <2>2. o \in 0 .. t /\ q \in 0 .. t
      BY <1>1, <2>1, Offs
  <2>3. Len(bytes) = q - o /\ q - o \in {1, 2} /\ \A m \in 1 .. q - o : bytes[m] = StreamByte(x, o + m)
      BY <1>1, WordFields
  <2> QED BY <2>2, <2>3
<1>3. Replies(x, c, j) = [m \in 1 .. q - o |-> Reply(x, c, o + m)]
    BY DEF Replies
<1> HIDE DEF o, q, bytes
<1>4. y.chips = cs /\ y.got = <<>> /\ bytes[1] = StreamByte(x, o + 1) /\ o \in 0 .. t - 1
    BY <1>1, <1>2 DEF Start
<1>5. cs[x.chip] = After(x, c, o)
    BY DEF o
<1> HIDE DEF y
<1>6. BytesDone(x, c, o + 1, cs, still, z) /\ (alone => z.got = Append(<<>>, Reply(x, c, o + 1)))
  <2>1. z = Exchange(y, StreamByte(x, o + 1)) /\ y.chips \in ChipStates /\ y.chips[x.chip] = After(x, c, o)
        /\ Bystanders(x, y.chips, still)
      BY <1>4, <1>5
  <2> HIDE DEF z
  <2>2. BytesDone(x, c, o + 1, y.chips, still, z) /\ (still = Chip \ {x.chip} => z.got = Append(y.got, Reply(x, c, o + 1)))
      BY <1>4, <2>1, ByteData
  <2> QED BY <1>4, <2>2
<1>7. r = ExchangeAll(cs, bytes)
    BY DEF bytes
<1>8. CASE q - o = 1
  <2>1. r = z
      BY <1>2, <1>7, <1>8, ExchangeOne DEF y
  <2>2. q = o + 1
      BY <1>1, <1>2, <1>8
  <2>3. Replies(x, c, j) = Append(<<>>, Reply(x, c, o + 1))
      BY <1>3, <1>8
  <2> HIDE DEF z
  <2> QED BY <1>6, <2>1, <2>2, <2>3 DEF q
<1>9. CASE q - o = 2
  <2>1. r = Exchange(z, bytes[2])
      BY <1>2, <1>7, <1>9, ExchangeTwo DEF y
  <2>2. q = (o + 1) + 1 /\ o + 1 \in 0 .. t - 1 /\ bytes[2] = StreamByte(x, (o + 1) + 1) /\ o + 2 = (o + 1) + 1
      BY <1>1, <1>2, <1>9
  <2> HIDE DEF z
  <2>3. z.chips \in ChipStates /\ z.chips[x.chip] = After(x, c, o + 1) /\ \A k \in still : z.chips[k] = cs[k]
      BY <1>6 DEF BytesDone
  <2>4. Bystanders(x, z.chips, still) /\ r = Exchange(z, StreamByte(x, (o + 1) + 1))
      BY <2>1, <2>2, <2>3 DEF Bystanders
  <2>5. /\ BytesDone(x, c, (o + 1) + 1, z.chips, still, r)
        /\ still = Chip \ {x.chip} => r.got = Append(z.got, Reply(x, c, (o + 1) + 1))
    <3> DEFINE p == o + 1
    <3>1. p \in 0 .. Total(x) - 1 /\ z.chips \in ChipStates /\ z.chips[x.chip] = After(x, c, p)
        BY <2>2, <2>3
    <3>2. Bystanders(x, z.chips, still) /\ r = Exchange(z, StreamByte(x, p + 1))
        BY <2>4
    <3> HIDE DEF p
    <3>3. /\ BytesDone(x, c, p + 1, z.chips, still, r)
          /\ still = Chip \ {x.chip} => r.got = Append(z.got, Reply(x, c, p + 1))
        BY <3>1, <3>2, ByteData
    <3> QED BY <3>3 DEF p
  <2>6. Replies(x, c, j) = Append(Append(<<>>, Reply(x, c, o + 1)), Reply(x, c, o + 2))
      BY <1>3, <1>9
  <2>7. BytesDone(x, c, q, cs, still, r)
      BY <2>2, <2>3, <2>5 DEF BytesDone
  <2> QED BY <1>6, <2>2, <2>5, <2>6, <2>7 DEF q, alone
<1> QED BY <1>2, <1>8, <1>9

-----------------------------------------------------------------------------
(* The data of a transfer: d is what the chips were before it              *)

Ready(c) == Quiet(c) /\ c.sequential
(* The other chips.                                                        *)
Around(x, cs, d) ==
    /\ \A k \in Chip : k # x.chip /\ (started \/ k < x.chip) => Ready(cs[k])
    /\ started => \A k \in Chip : k # x.chip => cs[k] = d[k]
(* The chip of x when e words of it have been sent.                        *)
Mid(x, c, e, l) ==
    IF Held(x, e, l) THEN After(x, c, Off(x, e)) ELSE IF e = LastWord(x) THEN Left(x, c, Total(x)) ELSE c
ChipsAt(x, d, e, l) ==
    /\ chips \in ChipStates /\ d \in ChipStates /\ Around(x, chips, d)
    /\ l # 0 => Fit(x, d[x.chip]) /\ chips[x.chip] = Mid(x, d[x.chip], e, l)

(* One chip becomes another.                                               *)
LEMMA DriveState ==
  ASSUME NEW cs \in ChipStates, NEW k \in Chip, NEW c \in ChipState(k)
  PROVE  /\ [cs EXCEPT ![k] = c] \in ChipStates /\ [cs EXCEPT ![k] = c][k] = c
         /\ \A j \in Chip : j # k => [cs EXCEPT ![k] = c][j] = cs[j]
<1> DEFINE ds == [cs EXCEPT ![k] = c]
<1>1. cs \in [Chip -> UNION {ChipState(j) : j \in Chip}] /\ \A j \in Chip : cs[j] \in ChipState(j)
    BY DEF ChipStates
<1>2. ds[k] = c /\ \A j \in Chip : j # k => ds[j] = cs[j]
    BY <1>1
<1>3. ds \in [Chip -> UNION {ChipState(j) : j \in Chip}]
    BY <1>1
<1> HIDE DEF ds
<1>4. \A j \in Chip : ds[j] \in ChipState(j)
    BY <1>1, <1>2
<1>5. ds \in ChipStates
    BY <1>3, <1>4 DEF ChipStates
<1> QED BY <1>2, <1>5 DEF ds

(* The next word is on the bus; new are the chips after it.                *)
WordSent(x, e, cs, got, new) ==
    LET r == ExchangeAll(cs, WordAt(x, e + 1).bytes)
    IN  new = (IF WordAt(x, e + 1).more THEN r.chips ELSE [r.chips EXCEPT ![x.chip] = Deselected(@)]) /\ got = r.got
(* Afterwards the pin is raised, if it was the last word. *)
LEMMA WordChips ==
  ASSUME ChipsFit, NEW x, Known(x), ~started => BeginOK(x), NEW d, Fit(x, d[x.chip]), NEW e \in 0 .. LastWord(x) - 1,
         NEW cs \in ChipStates, cs[x.chip] = After(x, d[x.chip], Off(x, e)), Around(x, cs, d),
         NEW got, NEW new, WordSent(x, e, cs, got, new)
  PROVE  /\ new \in ChipStates /\ Around(x, new, d)
         /\ new[x.chip] = IF e + 1 = LastWord(x) THEN Left(x, d[x.chip], Total(x)) ELSE After(x, d[x.chip], Off(x, e + 1))
         /\ started => got = Replies(x, d[x.chip], e + 1)
<1> DEFINE g == x.chip
           c == d[g]
           j == e + 1
           still == {k \in Chip : k # g /\ (started \/ k < g)}
           q == Off(x, j)
           r == ExchangeAll(cs, WordAt(x, j).bytes)
<1>0. new = (IF WordAt(x, j).more THEN r.chips ELSE [r.chips EXCEPT ![x.chip] = Deselected(@)]) /\ got = r.got
    BY DEF WordSent
<1>1. TransferOK(x) /\ LastWord(x) \in Nat /\ e \in Nat /\ j \in 1 .. LastWord(x) /\ j - 1 = e /\ g \in Chip /\ Total(x) \in Nat
  <2>1. TransferOK(x) /\ LastWord(x) \in Nat /\ Total(x) \in Nat /\ g \in Chip
      BY Words, KnownFacts DEF Known
  <2> QED BY <2>1
<1>2. WordAt(x, j).more = (j # LastWord(x))
    BY <1>1, WordFields
<1>3. cs[g] = After(x, c, Off(x, j - 1)) /\ r = ExchangeAll(cs, WordAt(x, j).bytes)
    BY <1>1
<1>4. Bystanders(x, cs, still) /\ (started => still = Chip \ {x.chip})
  <2>1. \A k \in still : cs[k].selected = FALSE
      BY DEF Around, Ready, Quiet
  <2>2. started => still = Chip \ {x.chip}
      OBVIOUS
  <2>3. still \subseteq Chip
      OBVIOUS
  <2> HIDE DEF still
  <2> QED BY <2>1, <2>2, <2>3 DEF Bystanders
<1>5. \A k \in Chip : k # g /\ (started \/ k < g) => k \in still
    OBVIOUS
<1> HIDE DEF still, c, j, r
<1>6. BytesDone(x, c, Off(x, j), cs, still, r) /\ (still = Chip \ {x.chip} => r.got = Replies(x, c, j))
    BY <1>1, <1>3, <1>4, WordData DEF c
<1>7. r.chips \in ChipStates /\ r.chips[g] = After(x, c, q) /\ \A k \in still : r.chips[k] = cs[k]
    BY <1>6 DEF BytesDone
<1>8. CASE j # LastWord(x)
  <2>1. new = r.chips
      BY <1>0, <1>2, <1>8 DEF j
  <2>2. Around(x, new, d)
      BY <1>4, <1>5, <1>7, <2>1 DEF Around
  <2> QED BY <1>0, <1>4, <1>6, <1>7, <1>8, <2>1, <2>2 DEF c, j
<1>9. CASE j = LastWord(x)
  <2> DEFINE s == r.chips[g]
             f == Deselected(s)
  <2>1. new = [r.chips EXCEPT ![g] = f]
      BY <1>0, <1>2, <1>9 DEF j
  <2>2. q = Total(x) /\ q \in 0 .. Total(x)
      BY <1>1, <1>9, Offs
  <2>3. f = Left(x, c, Total(x))
      BY <1>7, <2>2, Raise
  <2>4. f \in ChipState(g)
      BY <2>2, <2>3, AfterState DEF c
  <2> HIDE DEF f
  <2>5. new \in ChipStates /\ new[g] = f /\ \A k \in Chip : k # g => new[k] = r.chips[k]
      BY <1>1, <1>7, <2>1, <2>4, DriveState
  <2>6. Around(x, new, d)
      BY <1>4, <1>5, <1>7, <2>5 DEF Around
  <2> QED BY <1>0, <1>4, <1>6, <1>9, <2>3, <2>5, <2>6 DEF c, j
<1> QED BY <1>8, <1>9

-----------------------------------------------------------------------------
(* All bytes of the chips                                                  *)

(* An address is on one chip.                                              *)
LEMMA ChipOf ==
  ASSUME NEW a \in 1 .. PoolSize
  PROVE  \E k \in Chip : StartPtr(k) < a /\ a <= EndPtr(k)
<1> SUFFICES ASSUME \A k \in Chip : ~(StartPtr(k) < a /\ a <= EndPtr(k)) PROVE FALSE
    OBVIOUS
<1> DEFINE G == {k \in 0 .. N : EndPtr(k) < a}
<1>1. N \in Nat /\ Chip = 1 .. N /\ EndPtr(0) = 0 /\ \A k \in 0 .. N : EndPtr(k) \in Nat
    BY Ends, EndsUp
<1>2. PoolSize \in Nat /\ a \in Nat /\ a >= 1 /\ a <= PoolSize
    BY Bytes
<1>3. 0 \in G
    BY <1>1, <1>2
<1>4. \A k \in 0 .. N : k # N /\ k \in G => k + 1 \in G
  <2> SUFFICES ASSUME NEW k \in 0 .. N, k # N, EndPtr(k) < a PROVE k + 1 \in 0 .. N /\ EndPtr(k + 1) < a
      OBVIOUS
  <2>1. k + 1 \in Chip /\ k + 1 \in 0 .. N /\ (k + 1) - 1 = k
      BY <1>1
  <2>2. StartPtr(k + 1) = EndPtr(k)
      BY <2>1 DEF StartPtr
  <2>3. ~(a <= EndPtr(k + 1)) /\ EndPtr(k + 1) \in Nat
      BY <1>1, <2>1, <2>2
  <2> QED BY <1>2, <2>1, <2>3
<1> HIDE DEF G
<1>5. \A k \in 0 .. N : k \in G
    BY <1>1, <1>3, <1>4, UpTo
<1>6. N \in 0 .. N
    BY <1>1
<1>7. EndPtr(N) < a
    BY <1>5, <1>6 DEF G
<1> QED BY <1>2, <1>7 DEF PoolSize

(* No byte lies on two chips. *)
LEMMA OneChip ==
  ASSUME NEW a \in Nat, NEW j \in Chip, NEW k \in Chip, StartPtr(j) < a, a <= EndPtr(j), StartPtr(k) < a, a <= EndPtr(k)
  PROVE  j = k
<1>1. N \in Nat /\ Chip = 1 .. N /\ \A g \in 0 .. N : EndPtr(g) \in Nat
    BY Ends, EndsUp
<1>2. ASSUME NEW g \in Chip, NEW h \in Chip, g < h, StartPtr(h) < a, a <= EndPtr(g) PROVE FALSE
  <2>1. g \in 0 .. N /\ h - 1 \in 0 .. N /\ g <= h - 1
      BY <1>1, <1>2
  <2>2. EndPtr(g) <= EndPtr(h - 1) /\ EndPtr(g) \in Nat /\ EndPtr(h - 1) \in Nat
      BY <1>1, <2>1, EndsUp
  <2> QED BY <1>2, <2>2 DEF StartPtr
<1>3. ~(j < k) /\ ~(k < j)
    BY <1>2
<1> QED BY <1>1, <1>3

(* Where the bytes of a chip lie among those of all. *)
LEMMA ContentsAt ==
  ASSUME NEW cs, NEW k \in Chip, NEW a \in 1 .. ChipSizes[k]
  PROVE  /\ StartPtr(k) \in Nat /\ StartPtr(k) + a \in 1 .. PoolSize /\ StartPtr(k) < StartPtr(k) + a
         /\ StartPtr(k) + a <= EndPtr(k) /\ EndPtr(k) = StartPtr(k) + ChipSizes[k] /\ EndPtr(k) <= PoolSize
         /\ Contents(cs)[StartPtr(k) + a] = cs[k].data[a]
<1> DEFINE s == StartPtr(k)
           g == s + a
           h == CHOOSE j \in Chip : StartPtr(j) < g /\ g <= EndPtr(j)
<1>1. N \in Nat /\ k \in 1 .. N /\ k - 1 \in 0 .. N /\ k \in 0 .. N /\ ChipSizes[k] \in Nat \ {0}
      /\ EndPtr(k) = EndPtr(k - 1) + ChipSizes[k]
    BY Ends
<1>2. EndPtr(k - 1) \in Nat /\ EndPtr(k) \in Nat /\ EndPtr(k) <= PoolSize /\ PoolSize \in Nat
    BY <1>1, EndsUp, Bytes
<1>3. s \in Nat /\ g \in Nat /\ s < g /\ g <= EndPtr(k) /\ g \in 1 .. PoolSize /\ EndPtr(k) = s + ChipSizes[k] /\ g - s = a
  <2>1. s = EndPtr(k - 1)
      BY DEF StartPtr
  <2> HIDE DEF s
  <2> QED BY <1>1, <1>2, <2>1
<1> HIDE DEF s, g
<1>4. h \in Chip /\ StartPtr(h) < g /\ g <= EndPtr(h)
    BY <1>3 DEF s
<1>5. h = k
    BY <1>3, <1>4, OneChip DEF s
<1>6. Contents(cs)[g] = cs[h].data[g - StartPtr(h)]
    BY <1>3 DEF Contents
<1> QED BY <1>2, <1>3, <1>5, <1>6 DEF s, g

(* So bytes with a property of their own are all of them.                  *)
LEMMA AllBytes ==
  ASSUME NEW P, \A k \in Chip : \A a \in 1 .. ChipSizes[k] : StartPtr(k) + a \in P
  PROVE  \A a \in 1 .. PoolSize : a \in P
<1> TAKE a \in 1 .. PoolSize
<1>1. PICK k \in Chip : StartPtr(k) < a /\ a <= EndPtr(k)
    BY ChipOf
<1>2. 1 \in 1 .. ChipSizes[k]
    BY Ends
<1>3. StartPtr(k) \in Nat /\ EndPtr(k) = StartPtr(k) + ChipSizes[k] /\ ChipSizes[k] \in Nat
    BY <1>2, ContentsAt, Ends
<1>4. a - StartPtr(k) \in 1 .. ChipSizes[k] /\ StartPtr(k) + (a - StartPtr(k)) = a
    BY <1>1, <1>3
<1> QED BY <1>4

(* All bytes are bytes. *)
LEMMA ContentsState ==
  ASSUME NEW cs \in ChipStates
  PROVE  Contents(cs) \in [1 .. PoolSize -> Cell] /\ Contents(cs) = [a \in 1 .. PoolSize |-> Contents(cs)[a]]
<1> DEFINE P == {a \in 1 .. PoolSize : Contents(cs)[a] \in Cell}
<1>1. ASSUME NEW k \in Chip, NEW a \in 1 .. ChipSizes[k] PROVE StartPtr(k) + a \in P
  <2>1. cs[k].data[a] \in Cell
      BY DEF ChipStates, ChipState
  <2> QED BY <2>1, ContentsAt
<1> HIDE DEF P
<1>2. \A a \in 1 .. PoolSize : a \in P
    BY <1>1, AllBytes
<1>3. \A a \in 1 .. PoolSize : Contents(cs)[a] \in Cell
    BY <1>2 DEF P
<1>4. Contents(cs) = [a \in 1 .. PoolSize |-> Contents(cs)[a]]
    BY DEF Contents
<1> QED BY <1>3, <1>4

-----------------------------------------------------------------------------
(* The block of the call                                                   *)

(* n bytes from the beginning of the block, as they were before the call.  *)
Part(n) == [a \in 1 .. n |-> before[asked.offset + a]]
(* How many of the answers to the first c words are kept.                  *)
Kept(x, c) == IF x.keep /\ Off(x, c) > 1 + x.n THEN Off(x, c) - 1 - x.n ELSE 0
BufferIs(n) == buffer = IF op.kind = "read" THEN Part(n) ELSE <<>>
BufferAt(x, c) == BufferIs((op.offset - asked.offset) + Kept(x, c))
(* The bytes of all chips when a write has come to the address o.          *)
Stored(o) ==
    [a \in 1 .. PoolSize |-> IF op.kind = "write" /\ asked.offset < a /\ a <= o THEN a ELSE before[a]]
BytesAt(d) == started => Contents(d) = Stored(op.offset)
AnswersAt(x, d, c) == started => \A j \in 1 .. Len(rx) : rx[j] = Replies(x, d[x.chip], c + j)

DataGoing(x, b, c, l, d) ==
    ChipsAt(x, d, b - Len(tx), l) /\ AnswersAt(x, d, c) /\ BufferAt(x, c) /\ BytesAt(d)

(* The answers to the data of a read are kept, and no other.               *)
LEMMA KeptNext ==
  ASSUME NEW x, Known(x), NEW j \in 1 .. LastWord(x)
  PROVE  /\ Kept(x, j - 1) \in Nat /\ Kept(x, j) \in Nat /\ Kept(x, j) <= Len(x.data)
         /\ WordAt(x, j).keep =>
              /\ x.code = Read /\ x.code # WriteMode /\ Off(x, j - 1) = 1 + x.n + Kept(x, j - 1) /\ Kept(x, j) = Off(x, j) - 1 - x.n
              /\ Off(x, j) - Off(x, j - 1) \in Nat /\ Kept(x, j) = Kept(x, j - 1) + (Off(x, j) - Off(x, j - 1))
         /\ ~WordAt(x, j).keep => Kept(x, j) = Kept(x, j - 1)
<1> DEFINE o == Off(x, j - 1)
           q == Off(x, j)
           n == x.n
           t == Total(x)
           s == Single(x)
           len == Len(x.data)
           keep == WordAt(x, j).keep
<1>1. TransferOK(x) /\ LastWord(x) \in Nat /\ t \in Nat /\ s \in Nat /\ s >= 1 + n
    BY Words DEF Known
<1>2. n \in Nat /\ len \in Nat /\ t = 1 + n + len
    BY KnownFacts
<1>3. j - 1 \in 0 .. LastWord(x) /\ j \in 0 .. LastWord(x) /\ j - 1 < LastWord(x) /\ j \in Nat
    BY <1>1
<1>4. o \in 0 .. t /\ q \in 0 .. t
    BY <1>1, <1>3, Offs
<1>5. q - o = IF j <= s THEN 1 ELSE 2
    BY <1>1, WordFields
<1>6. keep = (x.keep /\ o >= 1 + n)
    BY <1>1, WordFields
<1>7. ASSUME x.keep PROVE x.code = Read /\ x.code # WriteMode
  <2>1. CASE BlockOK(x)
    <3>1. x.keep = (x.code = Read)
        BY <2>1 DEF BlockOK
    <3>2. x.code = Read
        BY <1>7, <3>1, Zenon
    <3> QED BY <3>2 DEF Read, WriteMode
  <2>2. CASE BeginOK(x)
      BY <1>7, <2>2 DEF BeginOK
  <2> QED BY <2>1, <2>2 DEF Known
<1>8. o = IF j - 1 <= s THEN j - 1 ELSE 2 * (j - 1) - s
    BY DEF Off
<1>9. Kept(x, j - 1) = (IF x.keep /\ o > 1 + n THEN o - 1 - n ELSE 0) /\ Kept(x, j) = IF x.keep /\ q > 1 + n THEN q - 1 - n ELSE 0
    BY DEF Kept
<1> HIDE DEF o, q, n, t, s, len, keep
<1>10. Kept(x, j - 1) \in Nat /\ Kept(x, j) \in Nat /\ Kept(x, j) <= len
    BY <1>2, <1>4, <1>9
<1>11. CASE keep
  <2>1. x.keep /\ o >= 1 + n /\ q - o \in {1, 2}
      BY <1>5, <1>6, <1>11
  <2>2. Kept(x, j - 1) = o - 1 - n /\ Kept(x, j) = q - 1 - n
      BY <1>2, <1>4, <1>9, <2>1
  <2>3. o = 1 + n + Kept(x, j - 1) /\ q - o \in Nat /\ Kept(x, j) = Kept(x, j - 1) + (q - o)
      BY <1>2, <1>4, <2>1, <2>2
  <2>4. x.code = Read /\ x.code # WriteMode
      BY <1>7, <2>1
  <2> QED BY <1>10, <1>11, <2>2, <2>3, <2>4 DEF o, q, n, len, keep
<1>12. CASE ~keep
  <2>1. CASE ~x.keep
      BY <1>9, <1>10, <1>12, <2>1 DEF len, keep
  <2>2. CASE x.keep
    <3>1. ~(o >= 1 + n)
        BY <1>6, <1>12, <2>2
    <3>2. j <= s
        BY <1>1, <1>2, <1>3, <1>8, <3>1
    <3>3. ~(q > 1 + n) /\ ~(o > 1 + n)
        BY <1>2, <1>4, <1>5, <3>1, <3>2
    <3> QED BY <1>9, <1>10, <1>12, <3>3 DEF len, keep
  <2> QED BY <2>1, <2>2
<1> QED BY <1>11, <1>12

(* The block that x is about, when a block is read or written.             *)
About(x) ==
    started => /\ BlockOK(x) /\ x.address = op.offset - StartPtr(x.chip) /\ (x.code = Read <=> op.kind = "read")
               /\ op.kind \in {"read", "write"}
               /\ asked.offset \in Nat /\ op.offset \in Nat /\ asked.offset <= op.offset /\ before = [a \in 1 .. PoolSize |-> before[a]]

(* The answers to a word go to the end of the buffer.                      *)
LEMMA Appended ==
  ASSUME NEW x, Known(x), About(x), started, NEW j \in 1 .. LastWord(x), WordAt(x, j).keep, NEW d \in ChipStates,
         BufferAt(x, j - 1), BytesAt(d)
  PROVE  op.kind = "read"
         /\ buffer \o Replies(x, d[x.chip], j) = Part((op.offset - asked.offset) + Kept(x, j))
<1> DEFINE k == x.chip
           o == Off(x, j - 1)
           w == Off(x, j) - Off(x, j - 1)
           u == Kept(x, j - 1)
           m == op.offset - asked.offset
           ad == x.address
           s == StartPtr(k)
           len == Len(x.data)
           R == Replies(x, d[k], j)
           n == x.n
<1>1. /\ x.code = Read /\ x.code # WriteMode /\ o = 1 + n + u /\ w \in Nat /\ Kept(x, j) = u + w /\ u + w <= len /\ u \in Nat
    BY KeptNext
<1>2. ad = op.offset - s /\ op.kind = "read" /\ op.offset \in Nat /\ asked.offset \in Nat /\ m \in Nat
    BY <1>1 DEF About
<1>3. k \in Chip /\ ChipSizes[k] \in Nat \ {0} /\ ad \in Nat /\ n \in Nat /\ ad + len <= ChipSizes[k] /\ len \in Nat
    BY <1>1, KnownFacts
<1>4. Contents(d) = before
  <2>1. op.kind # "write" /\ before = [a \in 1 .. PoolSize |-> before[a]]
      BY <1>2 DEF About
  <2> QED BY <2>1 DEF BytesAt, Stored
<1>5. buffer = [a \in 1 .. m + u |-> before[asked.offset + a]]
    BY <1>2 DEF BufferAt, BufferIs, Part
<1>6. R = [q \in 1 .. w |-> Reply(x, d[k], o + q)]
    BY DEF Replies
<1> HIDE DEF k, o, w, u, R, len
<1>7. ASSUME NEW q \in 1 .. w PROVE Reply(x, d[k], o + q) = before[asked.offset + ((m + u) + q)]
  <2> DEFINE g == ad + ((o + q) - 1 - n)
  <2>1. /\ o + q > 1 + n /\ g = ad + (u + q) /\ g \in 1 .. ChipSizes[k]
    <3> HIDE DEF ad, n
    <3> QED BY <1>1, <1>3
  <2>2. Reply(x, d[k], o + q) = d[k].data[g]
      BY <1>1, <2>1 DEF Reply
  <2> HIDE DEF g
  <2>3. s \in Nat /\ Contents(d)[s + g] = d[k].data[g]
      BY <1>3, <2>1, ContentsAt
  <2>4. s + g = asked.offset + ((m + u) + q)
    <3>1. q \in Nat
        BY <1>1
    <3> HIDE DEF s
    <3> QED BY <1>1, <1>2, <1>3, <2>1, <2>3, <3>1
  <2> QED BY <1>4, <2>2, <2>3, <2>4
<1> DEFINE mu == m + u
           A == asked.offset
<1>8. buffer = [a \in 1 .. mu |-> before[A + a]] /\ R = [q \in 1 .. w |-> before[A + (mu + q)]] /\ mu \in Nat /\ A \in Nat
      /\ m + Kept(x, j) = mu + w
  <2>1. buffer = [a \in 1 .. mu |-> before[A + a]]
      BY <1>5
  <2>2. R = [q \in 1 .. w |-> before[A + (mu + q)]]
      BY <1>6, <1>7
  <2>3. mu \in Nat /\ A \in Nat /\ m + Kept(x, j) = mu + w
    <3> HIDE DEF m
    <3> QED BY <1>1, <1>2
  <2> QED BY <2>1, <2>2, <2>3
<1> HIDE DEF mu, A
<1>9. buffer \o R = [a \in 1 .. mu + w |-> before[A + a]]
  <2> DEFINE L == buffer \o R
             T == [a \in 1 .. mu + w |-> before[A + a]]
  <2>0. w \in Nat /\ Len(buffer) = mu /\ Len(R) = w /\ buffer = [a \in 1 .. mu |-> buffer[a]] /\ R = [a \in 1 .. w |-> R[a]]
      BY <1>1, <1>8
  <2>1. L = [a \in 1 .. mu + w |-> IF a <= mu THEN buffer[a] ELSE R[a - mu]]
    <3> DEFINE V == {before[a] : a \in Nat}
    <3>1. (\A a \in 1 .. mu : buffer[a] \in V) /\ \A a \in 1 .. w : R[a] \in V
        BY <1>8, <2>0
    <3> HIDE DEF V
    <3>0. mu \in Nat /\ w \in Nat /\ buffer = [a \in 1 .. mu |-> buffer[a]] /\ R = [a \in 1 .. w |-> R[a]]
        BY <1>8, <2>0
    <3>2. buffer \in Seq(V) /\ R \in Seq(V)
      <4>1. buffer \in [1 .. mu -> V] /\ R \in [1 .. w -> V]
          BY <3>0, <3>1
      <4> QED BY <3>0, <4>1
    <3>3. L \in Seq(V) /\ Len(L) = mu + w /\ (\A a \in 1 .. mu : L[a] = buffer[a]) /\ \A a \in mu + 1 .. mu + w : L[a] = R[a - mu]
        BY <1>8, <2>0, <3>2
    <3> HIDE DEF L
    <3>4. \A a \in 1 .. mu + w : L[a] = IF a <= mu THEN buffer[a] ELSE R[a - mu]
      <4> TAKE a \in 1 .. mu + w
      <4>1. a <= mu => a \in 1 .. mu
          BY <1>8, <2>0
      <4>2. ~(a <= mu) => a \in mu + 1 .. mu + w
          BY <1>8, <2>0
      <4> QED BY <3>3, <4>1, <4>2
    <3>5. L = [a \in 1 .. mu + w |-> L[a]]
        BY <1>8, <2>0, <3>3
    <3> QED BY <3>4, <3>5
  <2>2. ASSUME NEW a \in 1 .. mu + w PROVE (IF a <= mu THEN buffer[a] ELSE R[a - mu]) = before[A + a]
    <3>1. CASE a <= mu
      <4>1. a \in 1 .. mu
          BY <1>8, <2>0, <3>1
      <4> QED BY <1>8, <3>1, <4>1
    <3>2. CASE ~(a <= mu)
      <4>1. a - mu \in 1 .. w /\ mu + (a - mu) = a
          BY <1>8, <2>0, <3>2
      <4> QED BY <1>8, <3>2, <4>1
    <3> QED BY <3>1, <3>2
  <2> QED BY <2>1, <2>2
<1> QED BY <1>2, <1>8, <1>9 DEF Part, A, R, k

-----------------------------------------------------------------------------
(* The moves of a transfer, and its data                                   *)

(* A step that moves no byte leaves the chips as they are, *)
LEMMA ChipsStay ==
  ASSUME NEW x, NEW d, NEW l, NEW b, NEW f, ChipsAt(x, d, b - Len(tx), l), f - Len(tx') = b - Len(tx), UNCHANGED <<chips, started>>
  PROVE  ChipsAt(x, d, f - Len(tx), l)'
<1>1. PICK e : e = b - Len(tx)
    OBVIOUS
<1>2. ChipsAt(x, d, e, l)'
    BY <1>1 DEF ChipsAt, Around
<1>3. f - Len(tx') = e
    BY <1>1
<1> QED BY <1>2, <1>3 DEF ChipsAt

(* what they held when the transfer began, *)
LEMMA BytesStay ==
  ASSUME NEW d, BytesAt(d), UNCHANGED <<started, loop>>
  PROVE  BytesAt(d)'
BY DEF BytesAt, Stored, loop

(* and what was read. *)
LEMMA BufferStays ==
  ASSUME NEW x, NEW c, BufferAt(x, c), UNCHANGED <<buffer, loop>>, NEW f, Kept(x, f) = Kept(x, c)
  PROVE  BufferAt(x, f)'
BY DEF BufferAt, BufferIs, Part, loop

(* PushWord *)
LEMMA PushData ==
  ASSUME NEW x, TransferOK(x), NEW b, NEW c, NEW l, NEW d, Going(x, b, c, l), DataGoing(x, b, c, l, d), PushWord
  PROVE  DataGoing(x, b + 1, c, l, d)'
<1>1. tx' = Append(tx, Head(script)) /\ UNCHANGED <<chips, rx, buffer, started, loop>>
    BY DEF PushWord
<1>2. tx \in Seq(Item) /\ Len(tx) \in Nat /\ b \in Nat
    BY GoingFacts
<1>3. (b + 1) - Len(tx') = b - Len(tx)
  <2>1. Len(tx') = Len(tx) + 1
      BY <1>1, <1>2
  <2> QED BY <1>2, <2>1
<1>4. ChipsAt(x, d, (b + 1) - Len(tx), l)'
    BY <1>1, <1>3, ChipsStay DEF DataGoing
<1>5. AnswersAt(x, d, c)'
    BY <1>1 DEF DataGoing, AnswersAt
<1>6. BufferAt(x, c)' /\ BytesAt(d)'
    BY <1>1, BufferStays, BytesStay DEF DataGoing
<1> QED BY <1>4, <1>5, <1>6 DEF DataGoing

(* CloseTransaction *)
LEMMA EndData ==
  ASSUME NEW x, TransferOK(x), NEW b, NEW c, NEW l, NEW d, Going(x, b, c, l), DataGoing(x, b, c, l, d), CloseTransaction
  PROVE  DataGoing(x, b, c, l, d)'
<1>1. UNCHANGED <<tx, chips, rx, buffer, started, loop>>
    BY DEF CloseTransaction
<1>4. ChipsAt(x, d, b - Len(tx), l)'
    BY <1>1, ChipsStay DEF DataGoing
<1>5. AnswersAt(x, d, c)'
    BY <1>1 DEF DataGoing, AnswersAt
<1>6. BufferAt(x, c)' /\ BytesAt(d)'
    BY <1>1, BufferStays, BytesStay DEF DataGoing
<1> QED BY <1>4, <1>5, <1>6 DEF DataGoing

(* PopWord *)
LEMMA PopData ==
  ASSUME NEW x, Known(x), About(x), NEW b, NEW c, NEW l, NEW d, Going(x, b, c, l), DataGoing(x, b, c, l, d), PopWord,
         ~started => BeginOK(x)
  PROVE  DataGoing(x, b, c + 1, l, d)'
<1> DEFINE w == Head(script)
           k == x.chip
<1>0. TransferOK(x)
    BY DEF Known
<1>1. /\ script # <<>> /\ w.do = "receive" /\ rx # <<>> /\ rx' = Tail(rx)
      /\ buffer' = (IF w.keep THEN buffer \o Head(rx) ELSE buffer)
      /\ UNCHANGED <<tx, chips, started, loop>>
    BY DEF PopWord, Doing, Keep
<1>2. PICK v : Does(x, At(b, c, l, open), Head(script), v) /\ Seg(x, Tail(script), v, Finish(x))
    BY <1>1, NextItem DEF NextAt
<1>3. c < b /\ w = Receive(WordAt(x, c + 1).keep)
  <2>1. Does4(x, At(b, c, l, open), Head(script), v)
      BY <1>0, <1>1, <1>2, Kinds
  <2> QED BY <2>1, Fields DEF Does4
<1>4. /\ LastWord(x) \in Nat /\ b \in Nat /\ b <= LastWord(x) /\ c \in Nat /\ c + 1 \in 1 .. LastWord(x) /\ (c + 1) - 1 = c
      /\ rx \in Seq(Seq(Nat)) /\ Len(rx) \in Nat
  <2>1. LastWord(x) \in Nat /\ b \in Nat /\ b <= LastWord(x) /\ c \in Nat /\ rx \in Seq(Seq(Nat)) /\ Len(rx) \in Nat
      BY <1>0, GoingFacts
  <2> QED BY <1>3, <2>1
<1>5. w.keep = WordAt(x, c + 1).keep
    BY <1>3 DEF Receive
<1> HIDE DEF w
<1>6. ChipsAt(x, d, b - Len(tx), l) /\ AnswersAt(x, d, c) /\ BufferAt(x, c) /\ BytesAt(d)
    BY DEF DataGoing
<1>7. ChipsAt(x, d, b - Len(tx), l)'
    BY <1>1, <1>6, ChipsStay
<1>8. BytesAt(d)'
    BY <1>1, <1>6, BytesStay
<1>9. 1 \in 1 .. Len(rx) /\ Head(rx) = rx[1] /\ Len(rx') = Len(rx) - 1 /\ \A j \in 1 .. Len(rx') : rx'[j] = rx[j + 1]
    BY <1>1, <1>4
<1>10. AnswersAt(x, d, c + 1)'
  <2>1. ASSUME started, NEW j \in 1 .. Len(rx') PROVE rx'[j] = Replies(x, d[k], (c + 1) + j)
    <3>1. j + 1 \in 1 .. Len(rx) /\ c + (j + 1) = (c + 1) + j
        BY <1>4, <1>9
    <3>2. rx[j + 1] = Replies(x, d[k], c + (j + 1))
        BY <1>6, <2>1, <3>1 DEF AnswersAt
    <3> QED BY <1>9, <3>1, <3>2
  <2> QED BY <1>1, <2>1 DEF AnswersAt
<1>11. BufferAt(x, c + 1)'
  <2>1. CASE ~w.keep
    <3>1. Kept(x, c + 1) = Kept(x, c)
        BY <1>4, <1>5, <2>1, KeptNext
    <3>2. buffer' = buffer
        BY <1>1, <2>1
    <3> QED BY <1>1, <1>6, <3>1, <3>2, BufferStays
  <2>2. CASE w.keep
    <3>1. started
      <4>1. x.code # WriteMode
          BY <1>4, <1>5, <2>2, KeptNext
      <4> QED BY <4>1 DEF BeginOK
    <3>2. Head(rx) = Replies(x, d[k], c + 1)
        BY <1>6, <1>9, <3>1 DEF AnswersAt
    <3>3. d \in ChipStates /\ BufferAt(x, (c + 1) - 1) /\ WordAt(x, c + 1).keep
        BY <1>4, <1>5, <1>6, <2>2 DEF ChipsAt
    <3>4. op.kind = "read" /\ buffer \o Replies(x, d[k], c + 1) = Part((op.offset - asked.offset) + Kept(x, c + 1))
        BY <1>4, <1>6, <3>1, <3>3, Appended
    <3>5. buffer' = Part((op.offset - asked.offset) + Kept(x, c + 1))
        BY <1>1, <2>2, <3>2, <3>4
    <3>6. op' = op /\ asked' = asked /\ before' = before
        BY <1>1 DEF loop
    <3> QED BY <3>4, <3>5, <3>6 DEF BufferAt, BufferIs, Part
  <2> QED BY <2>1, <2>2
<1> QED BY <1>7, <1>8, <1>10, <1>11 DEF DataGoing

(* Transfer *)
LEMMA TransferData ==
  ASSUME ChipsFit, NEW x, Known(x), x.build = build, About(x), NEW b, NEW c, NEW l, NEW d, Going(x, b, c, l), DataGoing(x, b, c, l, d),
         Transfer, ~started => BeginOK(x)
  PROVE  DataGoing(x, b + 1, b + 1, l, d)'
<1> DEFINE w == Head(script)
           k == x.chip
           r == ExchangeAll(chips, w.bytes)
<1>0. TransferOK(x)
    BY DEF Known
<1>1. /\ build = "plain" /\ script # <<>> /\ w.do = "send"
      /\ chips' = IF w.more THEN r.chips ELSE [r.chips EXCEPT ![pin] = Deselected(@)]
      /\ buffer' = (IF w.keep THEN buffer \o r.got ELSE buffer)
      /\ UNCHANGED <<tx, rx, started, loop>>
    BY DEF Transfer, Doing, Keep
<1>2. PICK v : Does(x, At(b, c, l, open), Head(script), v) /\ Seg(x, Tail(script), v, Finish(x))
    BY <1>1, NextItem DEF NextAt
<1>3. l = 2 /\ b < LastWord(x) /\ w = WordAt(x, b + 1)
  <2>1. Does3(x, At(b, c, l, open), Head(script), v)
      BY <1>0, <1>1, <1>2, Kinds
  <2> QED BY <2>1, Fields DEF Does3
<1>4. LastWord(x) \in Nat /\ b \in Nat /\ b + 1 \in 1 .. LastWord(x) /\ (b + 1) - 1 = b /\ b \in 0 .. LastWord(x) - 1 /\ c \in Nat
  <2>1. LastWord(x) \in Nat /\ b \in Nat /\ c \in Nat
      BY <1>0, GoingFacts
  <2> QED BY <1>3, <2>1
<1>5. tx = <<>> /\ rx = <<>> /\ Len(<<>>) = 0 /\ pin = k /\ 0 + 0 = b - c
    BY <1>1, <1>3 DEF Going
<1>6. c = b /\ b - Len(tx) = b /\ (b + 1) - Len(tx') = b + 1 /\ 1 .. Len(rx') = {}
    BY <1>1, <1>4, <1>5
<1>7. ChipsAt(x, d, b, l) /\ BufferAt(x, b) /\ BytesAt(d)
    BY <1>6 DEF DataGoing
<1>8. Held(x, b, l)
    BY <1>1, <1>3 DEF Held
<1>9. d \in ChipStates /\ Fit(x, d[k]) /\ chips \in ChipStates /\ chips[k] = After(x, d[k], Off(x, b)) /\ Around(x, chips, d)
    BY <1>3, <1>7, <1>8 DEF ChipsAt, Mid
<1>10. WordSent(x, b, chips, r.got, chips')
    BY <1>1, <1>3, <1>5 DEF WordSent
<1> HIDE DEF r, w
<1>11. /\ chips' \in ChipStates /\ Around(x, chips', d)
       /\ chips'[k] = IF b + 1 = LastWord(x) THEN Left(x, d[k], Total(x)) ELSE After(x, d[k], Off(x, b + 1))
       /\ started => r.got = Replies(x, d[k], b + 1)
    BY <1>4, <1>9, <1>10, WordChips
<1>12. ChipsAt(x, d, b + 1, l)'
  <2>1. Around(x, chips, d)'
      BY <1>1, <1>11 DEF Around
  <2>2. Held(x, b + 1, l) <=> b + 1 # LastWord(x)
      BY <1>1, <1>3, <1>4 DEF Held
  <2>3. chips'[k] = Mid(x, d[k], b + 1, l)
      BY <1>11, <2>2 DEF Mid
  <2> QED BY <1>9, <1>11, <2>1, <2>3 DEF ChipsAt
<1>13. ChipsAt(x, d, (b + 1) - Len(tx), l)'
  <2>1. PICK e : e = b + 1
      OBVIOUS
  <2>2. ChipsAt(x, d, e, l)' /\ (b + 1) - Len(tx') = e
      BY <1>6, <1>12, <2>1
  <2> QED BY <2>2 DEF ChipsAt
<1>14. BytesAt(d)'
    BY <1>1, <1>7, BytesStay
<1>15. AnswersAt(x, d, b + 1)'
    BY <1>6 DEF AnswersAt
<1>16. BufferAt(x, b + 1)'
  <2>1. CASE ~w.keep
    <3>1. Kept(x, b + 1) = Kept(x, b)
        BY <1>3, <1>4, <2>1, KeptNext
    <3>2. buffer' = buffer
        BY <1>1, <2>1
    <3> QED BY <1>1, <1>7, <3>1, <3>2, BufferStays
  <2>2. CASE w.keep
    <3>1. started
      <4>1. x.code # WriteMode
          BY <1>3, <1>4, <2>2, KeptNext
      <4> QED BY <4>1 DEF BeginOK
    <3>2. BufferAt(x, (b + 1) - 1) /\ WordAt(x, b + 1).keep
        BY <1>3, <1>4, <1>7, <2>2
    <3>3. op.kind = "read" /\ buffer \o Replies(x, d[k], b + 1) = Part((op.offset - asked.offset) + Kept(x, b + 1))
        BY <1>4, <1>7, <1>9, <3>1, <3>2, Appended
    <3>4. buffer' = Part((op.offset - asked.offset) + Kept(x, b + 1))
        BY <1>1, <1>11, <2>2, <3>1, <3>3
    <3>5. op' = op /\ asked' = asked /\ before' = before
        BY <1>1 DEF loop
    <3> QED BY <3>3, <3>4, <3>5 DEF BufferAt, BufferIs, Part
  <2> QED BY <2>1, <2>2
<1> QED BY <1>13, <1>14, <1>15, <1>16 DEF DataGoing

(* Shift *)
LEMMA ShiftData ==
  ASSUME ChipsFit, NEW x, Known(x), x.build = build, NEW b, NEW c, NEW l, NEW d, Going(x, b, c, l), DataGoing(x, b, c, l, d),
         Shift, ~started => BeginOK(x)
  PROVE  DataGoing(x, b, c, l, d)'
<1> DEFINE w == Head(tx)
           k == x.chip
           cs == [chips EXCEPT ![pin] = Selected(@)]
           r == ExchangeAll(cs, w.bytes)
<1>0. TransferOK(x) /\ k \in Chip
    BY KnownFacts DEF Known
<1>1. /\ tx # <<>> /\ tx' = Tail(tx)
      /\ chips' = IF w.more THEN r.chips ELSE [r.chips EXCEPT ![pin] = Deselected(@)]
      /\ rx' = IF Len(rx) < FifoSize THEN Append(rx, r.got) ELSE rx
      /\ UNCHANGED <<buffer, started, loop>>
    BY DEF Shift
<1>2. PICK e : e = b - Len(tx)
    OBVIOUS
<1>3. /\ l = 2 /\ pin = k /\ x.build # "plain" /\ e \in Nat /\ e + 1 \in 1 .. LastWord(x) /\ w = WordAt(x, e + 1)
      /\ Len(rx) < FifoSize /\ b - Len(tx') = e + 1 /\ e + 1 = c + (Len(rx) + 1)
    BY <1>0, <1>1, <1>2, ShiftFacts
<1>4. LastWord(x) \in Nat /\ e \in 0 .. LastWord(x) - 1 /\ rx \in Seq(Seq(Nat)) /\ Len(rx) \in Nat /\ c \in Nat
  <2>1. LastWord(x) \in Nat /\ rx \in Seq(Seq(Nat)) /\ Len(rx) \in Nat /\ c \in Nat
      BY <1>0, GoingFacts
  <2> QED BY <1>3, <2>1
<1>7. ChipsAt(x, d, e, l) /\ AnswersAt(x, d, c) /\ BufferAt(x, c) /\ BytesAt(d)
    BY <1>2 DEF DataGoing
<1>8. d \in ChipStates /\ Fit(x, d[k]) /\ chips \in ChipStates /\ chips[k] = Mid(x, d[k], e, l) /\ Around(x, chips, d)
    BY <1>3, <1>7 DEF ChipsAt
<1>9. Selected(chips[k]) = After(x, d[k], Off(x, e)) /\ Selected(chips[k]) \in ChipState(k)
  <2>1. Off(x, e) \in 0 .. Total(x) /\ Off(x, 0) = 0
      BY <1>0, <1>4, Offs
  <2>2. After(x, d[k], Off(x, e)) \in ChipState(k) /\ After(x, d[k], Off(x, e)).selected = TRUE
      BY <1>8, <2>1, AfterState
  <2>3. CASE e = 0
    <3>1. chips[k] = d[k]
        BY <1>3, <1>4, <1>8, <2>3 DEF Mid, Held
    <3>2. Selected(d[k]) = After(x, d[k], 0)
        BY <1>8, Lower
    <3> QED BY <2>1, <2>2, <2>3, <3>1, <3>2
  <2>4. CASE e # 0
    <3>1. Held(x, e, l)
        BY <1>3, <1>4, <2>4 DEF Held
    <3>2. chips[k] = After(x, d[k], Off(x, e))
        BY <1>8, <3>1 DEF Mid
    <3> DEFINE s == After(x, d[k], Off(x, e))
    <3>3. s \in ChipState(k) /\ s.selected = TRUE
        BY <2>2
    <3> HIDE DEF s
    <3>4. Selected(s) = s
        BY <3>3 DEF Selected, ChipState
    <3> QED BY <3>2, <3>3, <3>4 DEF s
  <2> QED BY <2>3, <2>4
<1>10. cs \in ChipStates /\ cs[k] = After(x, d[k], Off(x, e)) /\ Around(x, cs, d)
  <2> DEFINE s == Selected(chips[k])
             z == [chips EXCEPT ![k] = s]
  <2>1. cs = z
      BY <1>3
  <2>2. s \in ChipState(k)
      BY <1>9
  <2> HIDE DEF s, cs
  <2>3. z \in ChipStates /\ z[k] = s /\ \A j \in Chip : j # k => z[j] = chips[j]
      BY <1>0, <1>8, <2>2, DriveState
  <2> HIDE DEF z
  <2>4. Around(x, z, d)
      BY <1>8, <2>3 DEF Around
  <2> QED BY <1>9, <2>1, <2>3, <2>4 DEF s
<1>11. WordSent(x, e, cs, r.got, chips')
    BY <1>1, <1>3 DEF WordSent
<1> HIDE DEF r, w, cs
<1>12. /\ chips' \in ChipStates /\ Around(x, chips', d)
       /\ chips'[k] = IF e + 1 = LastWord(x) THEN Left(x, d[k], Total(x)) ELSE After(x, d[k], Off(x, e + 1))
       /\ started => r.got = Replies(x, d[k], e + 1)
    BY <1>4, <1>8, <1>10, <1>11, WordChips
<1>13. ChipsAt(x, d, e + 1, l)'
  <2>1. Around(x, chips, d)'
      BY <1>1, <1>12 DEF Around
  <2>2. Held(x, e + 1, l) <=> e + 1 # LastWord(x)
      BY <1>3, <1>4 DEF Held
  <2>3. chips'[k] = Mid(x, d[k], e + 1, l)
      BY <1>12, <2>2 DEF Mid
  <2> QED BY <1>8, <1>12, <2>1, <2>3 DEF ChipsAt
<1>14. ChipsAt(x, d, b - Len(tx), l)'
  <2>1. PICK f : f = e + 1
      OBVIOUS
  <2>2. ChipsAt(x, d, f, l)' /\ b - Len(tx') = f
      BY <1>3, <1>13, <2>1
  <2> QED BY <2>2 DEF ChipsAt
<1>15. BytesAt(d)' /\ BufferAt(x, c)'
    BY <1>1, <1>7, BytesStay, BufferStays
<1>16. AnswersAt(x, d, c)'
  <2>1. rx' = Append(rx, r.got)
      BY <1>1, <1>3
  <2> DEFINE n == Len(rx)
  <2>2. Len(rx') = n + 1 /\ rx'[n + 1] = r.got /\ \A j \in 1 .. n : rx'[j] = rx[j]
      BY <1>4, <2>1
  <2>3. n \in Nat /\ e + 1 = c + (n + 1)
      BY <1>3, <1>4
  <2>4. ASSUME started, NEW j \in 1 .. n + 1 PROVE rx'[j] = Replies(x, d[k], c + j)
    <3>1. CASE j = n + 1
        BY <1>12, <2>2, <2>3, <2>4, <3>1
    <3>2. CASE j # n + 1
      <4>1. j \in 1 .. n
          BY <2>3, <3>2
      <4> QED BY <1>7, <2>2, <2>4, <4>1 DEF AnswersAt
    <3> QED BY <3>1, <3>2
  <2> QED BY <1>1, <2>2, <2>4 DEF AnswersAt
<1> QED BY <1>14, <1>15, <1>16 DEF DataGoing

(* DrivePin *)
LEMMA DriveData ==
  ASSUME NEW x, Known(x), x.build = build, build \in {"plain", "fifo"}, NEW b, NEW c, NEW l, NEW d, Going(x, b, c, l),
         DataGoing(x, b, c, l, d), DrivePin, ~started => BeginOK(x), NEW m, m = IF Head(script).do = "high" THEN 1 ELSE 2
  PROVE  \E f : DataGoing(x, 0, 0, m, f)'
<1> DEFINE w == Head(script)
           k == x.chip
           s == IF w.do = "low" /\ build = "plain" THEN Selected(chips[k]) ELSE Deselected(chips[k])
<1>0. TransferOK(x) /\ k \in Chip
    BY KnownFacts DEF Known
<1>1. /\ script # <<>> /\ UNCHANGED <<build, tx, rx, buffer, started, loop>>
      /\ \/ w.do = "high" /\ chips' = [chips EXCEPT ![w.chip] = Deselected(@)]
         \/ w.do = "low" /\ chips' = [chips EXCEPT ![w.chip] = IF build = "plain" THEN Selected(@) ELSE Deselected(@)]
    BY DEF DrivePin, Doing
<1>2. PICK v : Does(x, At(b, c, l, open), Head(script), v) /\ Seg(x, Tail(script), v, Finish(x))
    BY <1>1, NextItem DEF NextAt
<1>3. /\ b = 0 /\ c = 0 /\ w.chip = k
      /\ w.do = "high" => l = 0 /\ build = "plain"
      /\ w.do = "low" => l = 1 \/ (build = "fifo" /\ l = 0)
  <2>1. CASE w.do = "high"
    <3>1. Does1(x, At(b, c, l, open), w, v)
        BY <1>0, <1>2, <2>1, Kinds
    <3>2. b = 0 /\ c = 0 /\ w = High(k) /\ l = 0 /\ x.build = "plain"
        BY <3>1, Fields DEF Does1
    <3> QED BY <2>1, <3>2 DEF High
  <2>2. CASE w.do = "low"
    <3>1. Does2(x, At(b, c, l, open), w, v)
        BY <1>0, <1>2, <2>2, Kinds
    <3>2. b = 0 /\ c = 0 /\ w = Low(k) /\ (l = 1 \/ (x.build = "fifo" /\ l = 0))
        BY <3>1, Fields DEF Does2
    <3> QED BY <2>2, <3>2 DEF Low
  <2> QED BY <1>1, <2>1, <2>2
<1>4. chips' = [chips EXCEPT ![k] = s]
    BY <1>1, <1>3
<1>5. tx = <<>> /\ rx = <<>> /\ Len(<<>>) = 0
  <2>1. tx \in Seq(Item) /\ rx \in Seq(Seq(Nat)) /\ Len(tx) + Len(rx) = 0
      BY <1>3 DEF Going
  <2>2. Len(tx) = 0 /\ Len(rx) = 0
      BY <2>1
  <2> QED BY <2>1, <2>2
<1>6. 0 - Len(tx) = 0 /\ 0 - Len(tx') = 0 /\ LastWord(x) \in Nat /\ LastWord(x) >= 2 /\ Off(x, 0) = 0
  <2>1. LastWord(x) \in Nat /\ LastWord(x) >= 2
      BY <1>0, Words
  <2>2. Off(x, 0) = 0
      BY <1>0, <2>1, Offs
  <2>3. Len(tx) = 0 /\ Len(tx') = 0
      BY <1>1, <1>5
  <2>4. 0 - Len(tx) = 0 /\ 0 - Len(tx') = 0
      BY <2>3
  <2> QED BY <2>1, <2>2, <2>4
<1>7. ChipsAt(x, d, 0, l) /\ BufferAt(x, 0) /\ BytesAt(d)
    BY <1>3, <1>6 DEF DataGoing
<1>8. d \in ChipStates /\ chips \in ChipStates /\ Around(x, chips, d) /\ (l # 0 => Fit(x, d[k]) /\ chips[k] = Mid(x, d[k], 0, l))
    BY <1>7 DEF ChipsAt
<1>9. chips[k] \in ChipState(k) /\ 0 \in 0 .. ChipAddrBytes(ChipSizes[k])
  <2>1. ChipAddrBytes(ChipSizes[k]) \in 1 .. 4
      BY <1>0, AddressSize
  <2> QED BY <1>0, <1>8, <2>1 DEF ChipStates
<1>10. s \in ChipState(k)
    BY <1>9, PinState
<1>11. w.do \in {"high", "low"} /\ m \in {1, 2} /\ (m = 2 <=> w.do = "low")
    BY <1>1
<1> HIDE DEF w
<1>12. \E f : f \in ChipStates /\ Fit(x, f[k]) /\ s = Mid(x, f[k], 0, m) /\ (started => f = d)
  <2>1. CASE l = 0
    <3> DEFINE z == Deselected(chips[k])
               f == [d EXCEPT ![k] = z]
    <3>1. ~started
        BY <2>1 DEF Going
    <3>2. s = z
        BY <1>3, <1>11, <2>1
    <3>3. z \in ChipState(k) /\ Quiet(z)
        BY <1>9, PinState
    <3> HIDE DEF z, s
    <3>4. f \in ChipStates /\ f[k] = z
        BY <1>0, <1>8, <3>3, DriveState
    <3>5. Fit(x, f[k])
        BY <3>1, <3>3, <3>4 DEF Fit, BeginOK
    <3>6. ~Held(x, 0, m) /\ 0 # LastWord(x)
      <4>1. build = "plain" => m # 2
          BY <1>3, <1>11, <2>1
      <4> QED BY <1>6, <4>1 DEF Held
    <3> HIDE DEF f
    <3>7. s = Mid(x, f[k], 0, m)
        BY <3>2, <3>4, <3>6 DEF Mid
    <3> QED BY <3>1, <3>4, <3>5, <3>7
  <2>2. CASE l # 0
    <3>1. w.do = "low" /\ l = 1 /\ m = 2
        BY <1>3, <1>11, <2>2
    <3>2. chips[k] = d[k] /\ Fit(x, d[k])
      <4>1. ~Held(x, 0, l) /\ 0 # LastWord(x)
          BY <1>6, <3>1 DEF Held
      <4> QED BY <1>8, <2>2, <4>1 DEF Mid
    <3>3. Selected(d[k]) = After(x, d[k], 0) /\ Deselected(d[k]) = d[k]
        BY <3>2, Lower
    <3>4. CASE build = "plain"
      <4>1. s = After(x, d[k], 0)
          BY <3>1, <3>2, <3>3, <3>4
      <4>2. Held(x, 0, m)
          BY <1>6, <3>1, <3>4 DEF Held
      <4>3. s = Mid(x, d[k], 0, m)
          BY <1>6, <4>1, <4>2 DEF Mid
      <4> QED BY <1>8, <3>2, <4>3
    <3>5. CASE build # "plain"
      <4>1. s = d[k]
          BY <3>1, <3>2, <3>3, <3>5
      <4>2. ~Held(x, 0, m) /\ 0 # LastWord(x)
          BY <1>6, <3>5 DEF Held
      <4>3. s = Mid(x, d[k], 0, m)
          BY <4>1, <4>2 DEF Mid
      <4> QED BY <1>8, <3>2, <4>3
    <3> QED BY <3>4, <3>5
  <2> QED BY <2>1, <2>2
<1>13. PICK f : f \in ChipStates /\ Fit(x, f[k]) /\ s = Mid(x, f[k], 0, m) /\ (started => f = d)
    BY <1>12
<1> HIDE DEF s
<1>14. chips' \in ChipStates /\ chips'[k] = s /\ \A j \in Chip : j # k => chips'[j] = chips[j]
  <2> DEFINE z == [chips EXCEPT ![k] = s]
  <2>1. z \in ChipStates /\ z[k] = s /\ \A j \in Chip : j # k => z[j] = chips[j]
      BY <1>0, <1>8, <1>10, DriveState
  <2> HIDE DEF z
  <2> QED BY <1>4, <2>1 DEF z
<1>15. ChipsAt(x, f, 0, m)'
  <2>1. Around(x, chips, f)'
      BY <1>1, <1>8, <1>13, <1>14 DEF Around
  <2> QED BY <1>13, <1>14, <2>1 DEF ChipsAt
<1>16. ChipsAt(x, f, 0 - Len(tx), m)'
  <2>1. PICK e : e = 0
      OBVIOUS
  <2>2. ChipsAt(x, f, e, m)' /\ 0 - Len(tx') = e
      BY <1>6, <1>15, <2>1
  <2> QED BY <2>2 DEF ChipsAt
<1>17. BytesAt(f)'
  <2>1. started' = started
      BY <1>1
  <2>2. CASE started
      BY <1>1, <1>7, <1>13, <2>2, BytesStay
  <2>3. CASE ~started
      BY <2>1, <2>3 DEF BytesAt
  <2> QED BY <2>2, <2>3
<1>18. BufferAt(x, 0)'
    BY <1>1, <1>7, BufferStays
<1>19. AnswersAt(x, f, 0)'
  <2>1. 1 .. Len(rx') = {}
      BY <1>1, <1>5
  <2> QED BY <2>1 DEF AnswersAt
<1> QED BY <1>16, <1>17, <1>18, <1>19 DEF DataGoing

(* The bytes that a write stores are the marks of their addresses. *)
Marks(o, n) == [j \in 1 .. n |-> o + j]
(* The call: what is left of it ends where the block ends, and the loop is *)
(* not past the chip where it goes on.                                     *)
BlockLeft ==
    /\ asked.offset \in Nat /\ asked.size \in Nat \ {0} /\ asked.offset <= op.offset
    /\ op.offset + op.size = asked.offset + asked.size /\ op.offset + op.size <= PoolSize
    /\ before \in [1 .. PoolSize -> Cell] /\ (i <= N => StartPtr(i) <= op.offset)
OpOK ==
    /\ op.kind = "none" => op = NoOp /\ i = 0
    /\ op.kind = "start" => op.offset = 0 /\ op.size = 0 /\ asked.offset = 0
    /\ op.kind \in {"read", "write"} => BlockLeft
    /\ op.kind = "write" => op.data = Marks(op.offset, op.size) /\ asked.data = Marks(asked.offset, asked.size)
(* How far the block was exchanged, between two transfers. *)
DoneTo == IF i = N + 1 THEN asked.offset + asked.size ELSE op.offset
AtEase ==
    /\ chips \in ChipStates /\ (started => \A k \in Chip : Ready(chips[k]))
    /\ op.kind \in {"read", "write"} => Contents(chips) = Stored(DoneTo) /\ BufferIs(DoneTo - asked.offset)
    /\ op.kind \notin {"read", "write"} => buffer = <<>>
DataInv ==
    OpOK /\ IF Active THEN \E x, b, c, l, d : x = Now /\ Going(x, b, c, l) /\ DataGoing(x, b, c, l, d) ELSE AtEase

-----------------------------------------------------------------------------
(* The transfer under way, and what it means for the call.                 *)

OfBlock(x) ==
    /\ op.kind \in {"read", "write"} /\ started /\ x.chip = i /\ i \in Chip /\ BlockOK(x) /\ x.address = op.offset - StartPtr(i)
    /\ Len(x.data) = sz /\ sz \in Nat \ {0} /\ sz <= op.size /\ StartPtr(i) <= op.offset /\ op.offset + sz <= EndPtr(i)
    /\ (x.code = Read <=> op.kind = "read") /\ (op.kind = "write" => \A a \in 1 .. sz : x.data[a] = op.offset + a)
(* What the transfer under way has to do with the call. *)
LEMMA NowAbout ==
  ASSUME LoopOK, OpOK, Active, NEW x, x = Now
  PROVE  /\ Known(x) /\ x.build = build /\ build \in {"plain", "fifo"} /\ About(x) /\ (~started => BeginOK(x))
         /\ op.kind = "start" => x.chip = i - 1 /\ BeginOK(x) /\ ~started
         /\ op.kind # "start" => OfBlock(x)
<1>1. Known(x) /\ x.build = build /\ build \in {"plain", "fifo"} /\ x.chip = (IF op.kind = "start" THEN i - 1 ELSE i)
      /\ x.chip \in Chip
    BY NowKnown DEF Ours
<1>2. CASE op.kind = "start"
  <2>1. ~started
      BY <1>2 DEF LoopOK
  <2>2. BeginOK(x)
      BY <1>2 DEF Now, BeginTransfer, BeginOK
  <2> QED BY <1>1, <1>2, <2>1, <2>2 DEF About
<1>3. CASE op.kind # "start"
  <2>1. sz > 0 /\ sz \in Nat
      BY <1>3 DEF Active, LoopOK
  <2>2. op.kind \in {"read", "write"} /\ i \in Chip /\ StartPtr(i) <= op.offset /\ op.offset < EndPtr(i)
        /\ sz = Smaller(op.size, ChipSizes[i] - (op.offset - StartPtr(i)))
      BY <2>1 DEF LoopOK, Entered
  <2>3. started /\ op.size >= 1 /\ op \in Ops /\ BlockLeft
      BY <2>2 DEF LoopOK, OpOK
  <2>4. sz <= op.size /\ (op.offset - StartPtr(i)) + sz <= ChipSizes[i]
      BY <2>2, <2>3, Fits
  <2>5. op.offset + sz <= EndPtr(i)
    <3>1. EndPtr(i) = EndPtr(i - 1) + ChipSizes[i] /\ ChipSizes[i] \in Nat
        BY <2>2, Ends
    <3>2. EndPtr(i - 1) \in Nat /\ op.offset \in Nat
      <4>1. i \in 1 .. N /\ N \in Nat
          BY <2>2, Ends
      <4>2. i - 1 \in 0 .. N
          BY <4>1
      <4> QED BY <2>3, <4>2, EndsUp DEF Ops
    <3> QED BY <2>1, <2>4, <3>1, <3>2 DEF StartPtr
  <2>6. x = BlockNow(sz)
      BY <1>3 DEF Now, BlockNow
  <2>7. ASSUME op.kind = "read" PROVE OfBlock(x)
    <3>1. x.code = Read /\ x.address = op.offset - StartPtr(i) /\ x.data = [j \in 1 .. sz |-> Dummy]
        BY <2>6, <2>7 DEF BlockNow, ReadTransfer, BlockTransfer
    <3>2. Len(x.data) = sz
        BY <2>1, <3>1
    <3>3. BlockOK(x)
        BY <1>1, <3>1 DEF Known, BeginOK, Read, WriteMode
    <3>4. x.chip = i /\ (x.code = Read <=> op.kind = "read")
        BY <1>1, <1>3, <2>7, <3>1
    <3>5. op.kind # "write" /\ sz \in Nat \ {0}
        BY <2>1, <2>7
    <3> QED BY <2>2, <2>3, <2>4, <2>5, <3>1, <3>2, <3>3, <3>4, <3>5 DEF OfBlock
  <2>8. ASSUME op.kind = "write" PROVE OfBlock(x)
    <3> DEFINE marks == SubSeq(op.data, 1, sz)
    <3>0. x = WriteTransfer(i, op.offset - StartPtr(i), marks)
        BY <2>6, <2>8 DEF BlockNow
    <3> HIDE DEF marks
    <3>1. x.code = Write /\ x.address = op.offset - StartPtr(i) /\ x.data = marks
        BY <3>0 DEF WriteTransfer, BlockTransfer
    <3>2. op.data \in Seq(Byte) /\ Len(op.data) = op.size /\ op.size \in Nat
        BY <2>8 DEF LoopOK, Ops
    <3>3. Len(x.data) = sz /\ \A a \in 1 .. sz : x.data[a] = op.data[a]
        BY <2>1, <2>4, <3>1, <3>2 DEF marks
    <3>4. \A a \in 1 .. op.size : op.data[a] = op.offset + a
        BY <2>8 DEF OpOK, Marks
    <3>5. \A a \in 1 .. sz : x.data[a] = op.offset + a
        BY <2>1, <2>4, <3>2, <3>3, <3>4
    <3>6. BlockOK(x)
        BY <1>1, <3>1 DEF Known, BeginOK, Write, WriteMode
    <3>7. x.code # Read
        BY <3>1 DEF Read, Write
    <3>8. x.chip = i /\ (x.code = Read <=> op.kind = "read")
        BY <1>1, <1>3, <2>8, <3>7
    <3>9. sz \in Nat \ {0}
        BY <2>1
    <3> QED BY <2>2, <2>3, <2>4, <2>5, <3>1, <3>3, <3>5, <3>6, <3>8, <3>9 DEF OfBlock
  <2>9. OfBlock(x)
      BY <2>2, <2>7, <2>8
  <2>10. About(x)
    <3>1. op.offset \in Nat /\ asked.offset \in Nat /\ asked.offset <= op.offset /\ before = [a \in 1 .. PoolSize |-> before[a]]
        BY <2>3 DEF BlockLeft, Ops
    <3> QED BY <2>9, <3>1 DEF About, OfBlock
  <2> QED BY <1>1, <1>3, <2>3, <2>9, <2>10
<1> QED BY <1>2, <1>3

(* The last byte of a transfer has been exchanged.                         *)
DoneAt(x, d) ==
    /\ chips \in ChipStates /\ d \in ChipStates /\ Around(x, chips, d) /\ Fit(x, d[x.chip])
    /\ chips[x.chip] = Left(x, d[x.chip], Total(x)) /\ BytesAt(d)
(* When the script is done every byte was exchanged. *)
LEMMA Finished ==
  ASSUME ChipsFit, NEW x, Known(x), NEW b, NEW c, NEW l, NEW d, Going(x, b, c, l), DataGoing(x, b, c, l, d), script = <<>>
  PROVE  /\ DoneAt(x, d) /\ Ready(chips[x.chip])
         /\ BufferIs((op.offset - asked.offset) + (IF x.keep THEN Len(x.data) ELSE 0))
<1>0. TransferOK(x) /\ x.chip \in Chip
    BY KnownFacts DEF Known
<1>1. b = LastWord(x) /\ c = LastWord(x) /\ l = 2 /\ tx = <<>>
  <2>1. b = LastWord(x) /\ c = LastWord(x) /\ l \in {2} /\ tx = <<>>
      BY <1>0, Ended
  <2> QED BY <2>1
<1>2. /\ LastWord(x) \in Nat /\ Off(x, LastWord(x)) = Total(x) /\ Total(x) = 1 + x.n + Len(x.data)
      /\ x.n \in Nat /\ Len(x.data) \in Nat /\ Len(x.data) >= 1
  <2>1. LastWord(x) \in Nat
      BY <1>0, Words
  <2>2. Off(x, LastWord(x)) = Total(x)
      BY <1>0, <2>1, Offs
  <2> QED BY <2>1, <2>2, KnownFacts
<1>3. ChipsAt(x, d, LastWord(x), 2) /\ BufferAt(x, LastWord(x)) /\ BytesAt(d)
  <2>1. b - Len(tx) = LastWord(x)
      BY <1>1, <1>2
  <2> QED BY <1>1, <2>1 DEF DataGoing
<1>4. chips[x.chip] = Left(x, d[x.chip], Total(x))
  <2>1. ~Held(x, LastWord(x), 2)
      BY <1>2 DEF Held
  <2> QED BY <1>3, <2>1 DEF ChipsAt, Mid
<1>5. DoneAt(x, d)
    BY <1>3, <1>4 DEF DoneAt, ChipsAt
<1>6. Ready(chips[x.chip])
  <2>1. Fit(x, d[x.chip]) /\ Total(x) \in 0 .. Total(x)
      BY <1>2, <1>5 DEF DoneAt
  <2>2. Quiet(Left(x, d[x.chip], Total(x)))
      BY <2>1, AfterState
  <2>3. d[x.chip].sequential \in BOOLEAN
      BY <2>1 DEF Fit, ChipState
  <2>4. d[x.chip].sequential \/ (x.code = WriteMode /\ Total(x) = 2)
      BY <2>1, KnownFacts DEF Fit
  <2>5. Left(x, d[x.chip], Total(x)).sequential = SequentialAfter(x, d[x.chip], Total(x))
      BY DEF Left
  <2>6. SequentialAfter(x, d[x.chip], Total(x))
      BY <2>4 DEF SequentialAfter
  <2>7. Left(x, d[x.chip], Total(x)).sequential
      BY <2>5, <2>6
  <2> QED BY <1>4, <2>2, <2>7 DEF Ready
<1>7. Kept(x, LastWord(x)) = IF x.keep THEN Len(x.data) ELSE 0
  <2>1. Off(x, LastWord(x)) > 1 + x.n /\ Off(x, LastWord(x)) - 1 - x.n = Len(x.data)
      BY <1>2
  <2> QED BY <2>1 DEF Kept
<1> QED BY <1>3, <1>5, <1>6, <1>7 DEF BufferAt

(* The bytes that a chip took are those of the block.                      *)
LEMMA BlockStored ==
  ASSUME NEW x, Known(x), OfBlock(x), NEW d, DoneAt(x, d), op.offset \in Nat, asked.offset \in Nat, asked.offset <= op.offset,
         before \in [1 .. PoolSize -> Cell]
  PROVE  Contents(chips) = Stored(op.offset + sz)
<1> DEFINE P == {a \in 1 .. PoolSize : Contents(chips)[a] = Stored(op.offset + sz)[a]}
<1>1. /\ started /\ x.chip = i /\ i \in Chip /\ x.address = op.offset - StartPtr(i) /\ x.size = ChipSizes[i]
      /\ Len(x.data) = sz /\ sz \in Nat \ {0} /\ StartPtr(i) <= op.offset /\ op.offset + sz <= EndPtr(i)
      /\ op.kind \in {"read", "write"} /\ x.code \in {Read, Write} /\ (x.code = Read <=> op.kind = "read") /\ StartPtr(i) \in Nat
      /\ (op.kind = "write" => \A a \in 1 .. sz : x.data[a] = op.offset + a)
  <2>1. x.code \in {Read, Write}
      BY DEF OfBlock, BlockOK
  <2>2. x.size = ChipSizes[x.chip]
      BY KnownFacts
  <2>3. i \in Chip
      BY DEF OfBlock
  <2>4. 1 \in 1 .. ChipSizes[i]
      BY <2>3, Ends
  <2>5. StartPtr(i) \in Nat
      BY <2>3, <2>4, ContentsAt
  <2> QED BY <2>1, <2>2, <2>5 DEF OfBlock
<1>2. /\ chips \in ChipStates /\ d \in ChipStates /\ chips[i].data = DataAfter(x, d[i], Total(x))
      /\ \A k \in Chip : k # i => chips[k] = d[k]
    BY <1>1 DEF DoneAt, Around, Left
<1>3. Contents(d) = Stored(op.offset)
    BY <1>1 DEF DoneAt, BytesAt
<1>4. ASSUME NEW k \in Chip, NEW a \in 1 .. ChipSizes[k] PROVE StartPtr(k) + a \in P
  <2> DEFINE q == StartPtr(k) + a
  <2>1. /\ StartPtr(k) \in Nat /\ q \in 1 .. PoolSize /\ StartPtr(k) < q /\ q <= EndPtr(k) /\ a \in Nat
        /\ Contents(chips)[q] = chips[k].data[a] /\ Contents(d)[q] = d[k].data[a]
      BY ContentsAt, Ends
  <2>2. Stored(op.offset)[q] = (IF op.kind = "write" /\ asked.offset < q /\ q <= op.offset THEN q ELSE before[q])
      BY <2>1 DEF Stored
  <2>3. Stored(op.offset + sz)[q] = (IF op.kind = "write" /\ asked.offset < q /\ q <= op.offset + sz THEN q ELSE before[q])
      BY <2>1 DEF Stored
  <2>4. CASE k = i
    <3>1. chips[k].data[a] = IF x.code = Write /\ x.address < a /\ a <= x.address + (Total(x) - 1 - x.n)
                             THEN x.data[a - x.address] ELSE d[k].data[a]
        BY <1>1, <1>2, <2>4 DEF DataAfter
    <3>2. Total(x) - 1 - x.n = sz
      <4>1. Total(x) = 1 + x.n + Len(x.data) /\ x.n \in 0 .. 4
          BY KnownFacts
      <4> QED BY <1>1, <4>1
    <3>3. (x.address < a <=> op.offset < q) /\ (a <= x.address + sz <=> q <= op.offset + sz)
        BY <1>1, <2>1, <2>4
    <3>4. CASE op.kind = "write" /\ op.offset < q /\ q <= op.offset + sz
      <4>1. x.code = Write
          BY <1>1, <3>4
      <4>2. a - x.address \in 1 .. sz /\ op.offset + (a - x.address) = q
          BY <1>1, <2>1, <2>4, <3>4
      <4>3. x.data[a - x.address] = q
          BY <1>1, <3>4, <4>2
      <4>4. chips[k].data[a] = q
          BY <3>1, <3>2, <3>3, <3>4, <4>1, <4>3
      <4>5. asked.offset < q
          BY <2>1, <3>4
      <4>6. Stored(op.offset + sz)[q] = q
          BY <2>3, <3>4, <4>5
      <4> QED BY <2>1, <4>4, <4>6
    <3>5. CASE ~(op.kind = "write" /\ op.offset < q /\ q <= op.offset + sz)
      <4>1. ~(x.code = Write /\ x.address < a /\ a <= x.address + sz)
        <5>1. x.code = Write => op.kind = "write"
            BY <1>1 DEF Read, Write
        <5> QED BY <3>3, <3>5, <5>1
      <4>2. chips[k].data[a] = d[k].data[a]
          BY <3>1, <3>2, <4>1
      <4>3. op.kind = "write" => (q <= op.offset + sz <=> q <= op.offset)
          BY <1>1, <2>1, <3>5
      <4>4. Stored(op.offset + sz)[q] = Stored(op.offset)[q]
          BY <2>2, <2>3, <4>3
      <4> QED BY <1>3, <2>1, <4>2, <4>4
    <3> QED BY <3>4, <3>5
  <2>5. CASE k # i
    <3>1. chips[k].data[a] = d[k].data[a]
        BY <1>2, <2>5
    <3>2. ~(op.offset < q /\ q <= op.offset + sz)
      <4>1. SUFFICES ASSUME op.offset < q, q <= op.offset + sz PROVE FALSE
          OBVIOUS
      <4>2. EndPtr(i) \in Nat
        <5>1. i \in Chip /\ StartPtr(i) \in Nat
            BY <1>1
        <5>2. EndPtr(i) = EndPtr(i - 1) + ChipSizes[i] /\ ChipSizes[i] \in Nat
            BY <5>1, Ends
        <5> QED BY <5>1, <5>2 DEF StartPtr
      <4>3. StartPtr(i) < q /\ q <= EndPtr(i) /\ q \in Nat
          BY <1>1, <2>1, <4>1, <4>2
      <4>4. k = i
          BY <1>1, <2>1, <4>3, OneChip
      <4> QED BY <2>5, <4>4
    <3>3. q <= op.offset + sz <=> q <= op.offset
        BY <1>1, <2>1, <3>2
    <3>4. Stored(op.offset + sz)[q] = Stored(op.offset)[q]
        BY <2>2, <2>3, <3>3
    <3> QED BY <1>3, <2>1, <3>1, <3>4
  <2> QED BY <2>4, <2>5
<1>5. \A a \in 1 .. PoolSize : a \in P
  <2> HIDE DEF P
  <2>1. \A k \in Chip : \A a \in 1 .. ChipSizes[k] : StartPtr(k) + a \in P
      BY <1>4
  <2> QED BY <2>1, AllBytes
<1>6. \A a \in 1 .. PoolSize : Contents(chips)[a] = Stored(op.offset + sz)[a]
    BY <1>5
<1>7. Contents(chips) = [a \in 1 .. PoolSize |-> Contents(chips)[a]]
    BY <1>2, ContentsState
<1>8. Stored(op.offset + sz) = [a \in 1 .. PoolSize |-> Stored(op.offset + sz)[a]]
    BY DEF Stored
<1> QED BY <1>6, <1>7, <1>8

(* How far the block was exchanged, when the script is done.               *)
Reached == IF sz > 0 THEN op.offset + sz ELSE DoneTo
AllReady == \A k \in Chip : Ready(chips[k])
(* The chips and the buffer between two transfers. *)
LEMMA RestData ==
  ASSUME ChipsFit, ApartInv, DataInv, script = <<>>
  PROVE  /\ chips \in ChipStates
         /\ op.kind = "start" => ~started /\ sz = 0 /\ buffer = <<>> /\ \A k \in Chip : k < i => Ready(chips[k])
         /\ op.kind = "none" => sz = 0 /\ buffer = <<>> /\ (started => AllReady)
         /\ op.kind \in {"read", "write"} => /\ started /\ AllReady /\ BlockLeft
                                             /\ Contents(chips) = Stored(Reached) /\ BufferIs(Reached - asked.offset)
<1>1. LoopOK /\ OpOK /\ sz \in Nat /\ i \in Nat
    BY DEF ApartInv, DataInv, LoopOK
<1>2. op.kind \in {"none", "start", "read", "write"} /\ (op.kind \in {"none", "start"} => sz = 0)
  <2>1. op.kind \in {"none", "start", "read", "write"}
      BY <1>1 DEF LoopOK, Ops
  <2>2. sz > 0 => op.kind \in {"read", "write"}
      BY <1>1 DEF LoopOK, Entered
  <2> QED BY <1>1, <2>1, <2>2
<1>3. CASE Active
  <2>1. PICK x, b, c, l, d : x = Now /\ Going(x, b, c, l) /\ DataGoing(x, b, c, l, d)
      BY <1>3 DEF DataInv
  <2>2. /\ Known(x) /\ (op.kind = "start" => x.chip = i - 1 /\ BeginOK(x) /\ ~started)
        /\ (op.kind # "start" => OfBlock(x))
      BY <1>1, <1>3, <2>1, NowAbout
  <2>3. /\ DoneAt(x, d) /\ Ready(chips[x.chip])
        /\ BufferIs((op.offset - asked.offset) + (IF x.keep THEN Len(x.data) ELSE 0))
      BY <2>1, <2>2, Finished
  <2>4. chips \in ChipStates
      BY <2>3 DEF DoneAt
  <2>5. CASE op.kind = "start"
    <3>1. \A k \in Chip : k < i => Ready(chips[k])
      <4>1. ASSUME NEW k \in Chip, k < i PROVE Ready(chips[k])
        <5>1. x.chip = i - 1 /\ k \in Nat
            BY <2>2, <2>5, Ends
        <5>2. k = x.chip \/ k < x.chip
            BY <1>1, <4>1, <5>1
        <5>3. k # x.chip => Ready(chips[k])
            BY <2>3, <5>2 DEF DoneAt, Around
        <5> QED BY <2>3, <5>3
      <4> QED BY <4>1
    <3>2. buffer = <<>>
        BY <2>3, <2>5 DEF BufferIs
    <3> QED BY <1>2, <2>2, <2>4, <2>5, <3>1, <3>2
  <2>6. CASE op.kind # "start"
    <3>1. OfBlock(x)
        BY <2>2, <2>6
    <3>2. op.kind \in {"read", "write"} /\ started /\ sz > 0 /\ BlockLeft /\ sz \in Nat
        BY <1>1, <3>1 DEF OfBlock, OpOK
    <3>3. AllReady
        BY <2>3, <3>2 DEF DoneAt, Around, AllReady
    <3>4. /\ op.offset \in Nat /\ asked.offset \in Nat /\ asked.offset <= op.offset
          /\ before \in [1 .. PoolSize -> Cell]
        BY <1>1, <3>2 DEF BlockLeft, LoopOK, Ops
    <3>5. Contents(chips) = Stored(op.offset + sz)
        BY <2>2, <2>3, <3>1, <3>4, BlockStored
    <3>6. BufferIs((op.offset + sz) - asked.offset)
      <4>1. CASE op.kind = "read"
        <5>1. x.keep
            BY <3>1, <4>1 DEF OfBlock, BlockOK
        <5>2. Len(x.data) = sz
            BY <3>1 DEF OfBlock
        <5>3. BufferIs((op.offset - asked.offset) + sz)
            BY <2>3, <5>1, <5>2
        <5>4. (op.offset - asked.offset) + sz = (op.offset + sz) - asked.offset
            BY <3>2, <3>4
        <5> QED BY <5>3, <5>4
      <4>2. CASE op.kind # "read"
          BY <2>3, <4>2 DEF BufferIs
      <4> QED BY <4>1, <4>2
    <3>7. Reached = op.offset + sz
        BY <3>2 DEF Reached
    <3> QED BY <2>4, <2>6, <3>2, <3>3, <3>5, <3>6, <3>7
  <2> QED BY <2>5, <2>6
<1>4. CASE ~Active
  <2>1. AtEase /\ sz = 0 /\ Reached = DoneTo
    <3>1. sz = 0
        BY <1>1, <1>4 DEF Active
    <3> QED BY <1>4, <3>1 DEF DataInv, Reached
  <2>2. CASE op.kind = "start"
    <3>1. ~started /\ i = 1
      <4>1. i >= 1 /\ ~(i > 1)
          BY <1>1, <1>4, <2>2 DEF Active, LoopOK
      <4> QED BY <1>1, <2>2, <4>1 DEF LoopOK
    <3>2. \A k \in Chip : ~(k < i)
        BY <3>1, Ends
    <3> QED BY <2>1, <2>2, <3>1, <3>2 DEF AtEase
  <2>3. CASE op.kind = "none"
      BY <2>1, <2>3 DEF AtEase, AllReady
  <2>4. CASE op.kind \in {"read", "write"}
    <3>1. started /\ BlockLeft
        BY <1>1, <2>4 DEF LoopOK, OpOK
    <3>2. AllReady
        BY <2>1, <3>1 DEF AtEase, AllReady
    <3>3. chips \in ChipStates /\ Contents(chips) = Stored(Reached) /\ BufferIs(Reached - asked.offset)
        BY <2>1, <2>4 DEF AtEase
    <3> QED BY <2>4, <3>1, <3>2, <3>3
  <2> QED BY <1>2, <2>2, <2>3, <2>4
<1> QED BY <1>3, <1>4

(* The steps of a transfer. *)
LEMMA MoveData ==
  ASSUME ChipsFit, ApartInv, DataInv, Moves
  PROVE  DataInv'
<1>1. LoopOK /\ BusOK /\ OpOK
    BY DEF ApartInv, DataInv
<1>2. UNCHANGED <<build, started, loop>>
    BY DEF Moves, DrivePin, CloseTransaction, Transfer, PushWord, PopWord, Shift
<1>3. Now' = Now /\ Active' = Active
    BY <1>1, <1>2, LoopStays
<1>4. OpOK'
    BY <1>1, <1>2 DEF OpOK, BlockLeft, loop
<1>5. Active
  <2>1. CASE ~Active
    <3>1. script = <<>> /\ tx = <<>>
        BY <2>1 DEF ApartInv, TransferInv, Calm
    <3> QED BY <3>1 DEF Moves, DrivePin, CloseTransaction, Transfer, PushWord, PopWord, Shift, Doing
  <2> QED BY <2>1
<1>6. PICK x, b, c, l, d : x = Now /\ Going(x, b, c, l) /\ DataGoing(x, b, c, l, d)
    BY <1>5 DEF DataInv
<1>7. /\ Known(x) /\ x.build = build /\ build \in {"plain", "fifo"} /\ About(x) /\ (~started => BeginOK(x))
    BY <1>1, <1>5, <1>6, NowAbout
<1>8. TransferOK(x) /\ x.chip \in Chip /\ x.build \in {"plain", "fifo"}
    BY <1>7, KnownFacts DEF Known
<1>9. \E e, f, m, g : Going(x, e, f, m)' /\ DataGoing(x, e, f, m, g)'
  <2>1. CASE DrivePin
    <3>1. PICK m \in {1, 2} : m = (IF Head(script).do = "high" THEN 1 ELSE 2) /\ Going(x, 0, 0, m)'
        BY <1>1, <1>6, <1>7, <1>8, <2>1, DriveGoes
    <3>2. \E g : DataGoing(x, 0, 0, m, g)'
        BY <1>6, <1>7, <2>1, <3>1, DriveData
    <3> QED BY <3>1, <3>2
  <2>2. CASE CloseTransaction
    <3>1. Going(x, b, c, l)'
        BY <1>1, <1>6, <1>7, <1>8, <2>2, EndGoes
    <3>2. DataGoing(x, b, c, l, d)'
        BY <1>6, <1>8, <2>2, EndData
    <3> QED BY <3>1, <3>2
  <2>3. CASE Transfer
    <3>1. Going(x, b + 1, b + 1, l)'
        BY <1>1, <1>6, <1>7, <1>8, <2>3, TransferGoes
    <3>2. DataGoing(x, b + 1, b + 1, l, d)'
        BY <1>6, <1>7, <2>3, TransferData
    <3> QED BY <3>1, <3>2
  <2>4. CASE PushWord
    <3>1. Going(x, b + 1, c, l)'
        BY <1>1, <1>6, <1>7, <1>8, <2>4, PushGoes
    <3>2. DataGoing(x, b + 1, c, l, d)'
        BY <1>6, <1>8, <2>4, PushData
    <3> QED BY <3>1, <3>2
  <2>5. CASE PopWord
    <3>1. Going(x, b, c + 1, l)'
        BY <1>1, <1>6, <1>7, <1>8, <2>5, PopGoes
    <3>2. DataGoing(x, b, c + 1, l, d)'
        BY <1>6, <1>7, <2>5, PopData
    <3> QED BY <3>1, <3>2
  <2>6. CASE Shift
    <3>1. Going(x, b, c, l)'
        BY <1>1, <1>6, <1>7, <1>8, <2>6, ShiftGoes
    <3>2. DataGoing(x, b, c, l, d)'
        BY <1>6, <1>7, <2>6, ShiftData
    <3> QED BY <3>1, <3>2
  <2> QED BY <2>1, <2>2, <2>3, <2>4, <2>5, <2>6 DEF Moves
<1>10. Active' /\ x = Now'
    BY <1>3, <1>5, <1>6
<1> QED BY <1>4, <1>9, <1>10 DEF DataInv

(* The loop of doStart. *)
LEMMA StartChipData ==
  ASSUME ChipsFit, ApartInv, DataInv, StartChip
  PROVE  DataInv'
<1>1. /\ op.kind = "start" /\ script = <<>> /\ i' = i + 1
      /\ UNCHANGED <<build, chips, tx, rx, started, op, sz, before, asked, buffer>>
    BY DEF StartChip, AtLoop, bus
<1>2. chips \in ChipStates /\ ~started /\ buffer = <<>> /\ \A k \in Chip : k < i => Ready(chips[k])
    BY <1>1, RestData
<1>3. tx = <<>> /\ rx = <<>>
    BY <1>1, AtRest
<1>4. Active' /\ \E x : x = Now' /\ Known(x) /\ BeginOK(x) /\ x.chip = i /\ Going(x, 0, 0, 0)'
    BY StartChipKeeps
<1>5. PICK x : x = Now' /\ Known(x) /\ BeginOK(x) /\ x.chip = i /\ Going(x, 0, 0, 0)'
    BY <1>4
<1>6. PICK d : d = chips
    OBVIOUS
<1>7. ChipsAt(x, d, 0 - Len(tx), 0)'
    BY <1>1, <1>2, <1>5, <1>6 DEF ChipsAt, Around
<1>8. AnswersAt(x, d, 0)' /\ BytesAt(d)'
    BY <1>1, <1>2 DEF AnswersAt, BytesAt
<1>9. BufferAt(x, 0)'
    BY <1>1, <1>2 DEF BufferAt, BufferIs
<1>10. DataGoing(x, 0, 0, 0, d)'
    BY <1>7, <1>8, <1>9 DEF DataGoing
<1>11. OpOK'
    BY <1>1 DEF DataInv, OpOK
<1> QED BY <1>4, <1>5, <1>10, <1>11 DEF DataInv

(* The loop of doRead and doWrite, up to the call of SPISerialRam. *)
LEMMA EnterChipData ==
  ASSUME ChipsFit, ApartInv, DataInv, EnterChip
  PROVE  DataInv'
<1>1. /\ op.kind \in {"read", "write"} /\ op.kind # "start" /\ op.kind # "none" /\ script = <<>> /\ i <= N /\ sz = 0
      /\ UNCHANGED <<build, chips, tx, rx, started, op, before, asked, buffer>>
    BY DEF EnterChip, AtLoop, bus
<1>2. /\ chips \in ChipStates /\ started /\ AllReady /\ BlockLeft
      /\ Contents(chips) = Stored(Reached) /\ BufferIs(Reached - asked.offset)
    BY <1>1, RestData
<1>3. tx = <<>> /\ rx = <<>>
    BY <1>1, AtRest
<1>4. /\ i \in Chip /\ op \in Ops /\ op.size >= 1 /\ op.offset \in Nat /\ op.size \in Nat /\ N \in Nat /\ i \in 1 .. N
      /\ asked.offset \in Nat
  <2>1. i \in Chip
      BY EnterChipKeeps
  <2>2. op \in Ops /\ op.size >= 1
      BY <1>1 DEF ApartInv, LoopOK
  <2> QED BY <1>2, <2>1, <2>2, Ends DEF Ops, BlockLeft
<1>5. Reached = op.offset
    BY <1>1, <1>4 DEF Reached, DoneTo
<1>6. /\ op.kind = "write" => op.data = Marks(op.offset, op.size) /\ asked.data = Marks(asked.offset, asked.size)
    BY DEF DataInv, OpOK
<1>7. CASE StartPtr(i) <= op.offset /\ op.offset < EndPtr(i)
  <2>1. Active' /\ \E x : x = Now' /\ Known(x) /\ x.chip = i /\ BlockOK(x) /\ Going(x, 0, 0, 1)'
      BY <1>7, EnterChipKeeps
  <2>2. PICK x : x = Now' /\ Known(x) /\ x.chip = i /\ BlockOK(x) /\ Going(x, 0, 0, 1)'
      BY <2>1
  <2>3. PICK d : d = chips
      OBVIOUS
  <2>4. PICK e : e = 0
      OBVIOUS
  <2>5. TransferOK(x) /\ LastWord(x) \in Nat /\ LastWord(x) >= 2 /\ Off(x, 0) = 0 /\ x.n \in Nat
    <3>1. TransferOK(x)
        BY <2>2 DEF Known
    <3>2. LastWord(x) \in Nat /\ LastWord(x) >= 2 /\ x.n \in Nat
        BY <3>1, Words
    <3>3. 0 \in 0 .. LastWord(x)
        BY <3>2
    <3>4. Off(x, 0) = 0
        BY <3>1, <3>3, Offs
    <3> QED BY <3>1, <3>2, <3>4
  <2>6. ~Held(x, e, 1) /\ e # LastWord(x)
      BY <2>4, <2>5 DEF Held
  <2>7. Fit(x, chips[i])
    <3>1. chips[i] \in ChipState(i) /\ Ready(chips[i])
        BY <1>2, <1>4 DEF ChipStates, AllReady
    <3> QED BY <2>2, <3>1 DEF Fit, Ready
  <2>8. ChipsAt(x, d, e, 1)'
    <3>1. Around(x, chips, d)'
        BY <1>1, <1>2, <2>3 DEF Around, AllReady
    <3>2. chips' = chips
        BY <1>1
    <3>3. chips'[x.chip] = Mid(x, d[x.chip], e, 1)
        BY <2>3, <2>6, <3>2 DEF Mid
    <3> QED BY <1>2, <2>2, <2>3, <2>7, <3>1, <3>2, <3>3 DEF ChipsAt
  <2>9. ChipsAt(x, d, 0 - Len(tx), 1)'
    <3>1. 0 - Len(tx') = e
      <4>1. tx' = <<>> /\ Len(<<>>) = 0
          BY <1>1, <1>3
      <4>2. Len(tx') = 0
          BY <4>1
      <4> QED BY <2>4, <4>2
    <3> QED BY <2>8, <3>1 DEF ChipsAt
  <2>10. AnswersAt(x, d, 0)'
    <3>1. 1 .. Len(rx') = {}
        BY <1>1, <1>3
    <3> QED BY <3>1 DEF AnswersAt
  <2>11. BytesAt(d)'
      BY <1>1, <1>2, <1>5, <2>3 DEF BytesAt, Stored
  <2>12. BufferAt(x, 0)'
    <3>1. Kept(x, 0) = 0
        BY <2>5 DEF Kept
    <3>2. (op.offset - asked.offset) + Kept(x, 0) = Reached - asked.offset
        BY <1>4, <1>5, <3>1
    <3>3. BufferAt(x, 0)
        BY <1>2, <3>2 DEF BufferAt
    <3>4. op' = op /\ asked' = asked /\ before' = before /\ buffer' = buffer
        BY <1>1
    <3> QED BY <3>3, <3>4 DEF BufferAt, BufferIs, Part
  <2>13. DataGoing(x, 0, 0, 1, d)'
      BY <2>9, <2>10, <2>11, <2>12 DEF DataGoing
  <2>14. i' = i
      BY <1>7 DEF EnterChip
  <2>15. OpOK'
      BY <1>1, <1>2, <1>6, <2>14 DEF OpOK, BlockLeft
  <2> QED BY <2>1, <2>2, <2>13, <2>15 DEF DataInv
<1>8. CASE ~(StartPtr(i) <= op.offset /\ op.offset < EndPtr(i))
  <2>1. ~Active' /\ i' = i + 1
      BY <1>8, EnterChipKeeps
  <2>2. EndPtr(i) <= op.offset /\ i # N
    <3>1. StartPtr(i) <= op.offset /\ op.offset + op.size <= PoolSize
        BY <1>1, <1>2 DEF BlockLeft
    <3>2. EndPtr(i) \in Nat /\ PoolSize = EndPtr(N)
        BY <1>4, EndsUp DEF PoolSize
    <3>3. EndPtr(i) <= op.offset
        BY <1>4, <1>8, <3>1, <3>2
    <3>4. i # N
        BY <1>4, <3>1, <3>2, <3>3
    <3> QED BY <3>3, <3>4
  <2>3. i' # N + 1 /\ StartPtr(i') = EndPtr(i)
    <3>1. (i + 1) - 1 = i
        BY <1>4
    <3> QED BY <1>4, <2>1, <2>2, <3>1 DEF StartPtr
  <2>4. BlockLeft'
      BY <1>1, <1>2, <2>2, <2>3 DEF BlockLeft
  <2>5. OpOK'
      BY <1>1, <1>6, <2>4 DEF OpOK
  <2>6. DoneTo' = op.offset
      BY <1>1, <2>3 DEF DoneTo
  <2>7. Contents(chips') = Stored(DoneTo)'
      BY <1>1, <1>2, <1>5, <2>6 DEF Stored
  <2>8. BufferIs(DoneTo - asked.offset)'
    <3>1. op' = op /\ asked' = asked /\ before' = before /\ buffer' = buffer /\ DoneTo' = Reached
        BY <1>1, <1>5, <2>6
    <3> QED BY <1>2, <3>1 DEF BufferIs, Part
  <2>9. AtEase'
      BY <1>1, <1>2, <2>7, <2>8 DEF AtEase, AllReady
  <2> QED BY <2>1, <2>5, <2>9 DEF DataInv
<1> QED BY <1>7, <1>8

(* And after it: the next chip begins where this one ends. *)
LEMMA LeaveChipData ==
  ASSUME ChipsFit, ApartInv, DataInv, LeaveChip
  PROVE  DataInv'
<1>1. /\ op.kind # "none" /\ script = <<>> /\ i <= N /\ sz > 0 /\ sz' = 0
      /\ UNCHANGED <<build, chips, started, before, asked, buffer>>
      /\ IF sz = op.size THEN i' = N + 1 /\ UNCHANGED op
         ELSE /\ op' = [op EXCEPT !.size = @ - sz, !.offset = @ + sz, !.data = SubSeq(@, sz + 1, Len(@))]
              /\ i' = i + 1
    BY DEF LeaveChip, AtLoop, bus
<1>2. /\ op \in Ops /\ i \in Chip /\ i \in 1 .. N /\ N \in Nat /\ sz \in Nat \ {0} /\ Entered /\ op.kind \in {"read", "write"}
      /\ op.offset \in Nat /\ op.size \in Nat /\ op.size >= 1 /\ (op.kind = "write" => Len(op.data) = op.size)
  <2>1. Entered /\ op \in Ops /\ sz \in Nat
      BY <1>1 DEF ApartInv, LoopOK
  <2>2. op.kind \in {"read", "write"} /\ i \in Chip
      BY <2>1 DEF Entered
  <2>3. op.size >= 1 /\ (op.kind = "write" => Len(op.data) = op.size)
      BY <2>2 DEF ApartInv, LoopOK
  <2> QED BY <1>1, <2>1, <2>2, <2>3, Ends DEF Ops
<1>3. /\ chips \in ChipStates /\ started /\ AllReady /\ BlockLeft
      /\ Contents(chips) = Stored(Reached) /\ BufferIs(Reached - asked.offset)
    BY <1>1, <1>2, RestData
<1>4. Reached = op.offset + sz /\ asked.offset \in Nat /\ asked.size \in Nat \ {0}
      /\ op.offset + op.size = asked.offset + asked.size /\ op.offset + op.size <= PoolSize /\ asked.offset <= op.offset
    BY <1>1, <1>3 DEF Reached, BlockLeft
<1>5. /\ op.kind = "write" => op.data = Marks(op.offset, op.size) /\ asked.data = Marks(asked.offset, asked.size)
    BY DEF DataInv, OpOK
<1>6. OpOK' /\ DoneTo' = op.offset + sz /\ op'.kind = op.kind
  <2>1. CASE sz = op.size
    <3>1. i' = N + 1 /\ op' = op /\ asked' = asked
        BY <1>1, <2>1
    <3>2. OpOK'
      <4>1. BlockLeft'
          BY <1>1, <1>2, <1>3, <3>1 DEF BlockLeft
      <4> QED BY <1>2, <1>5, <3>1, <4>1 DEF OpOK
    <3>3. DoneTo' = op.offset + sz
        BY <1>4, <2>1, <3>1 DEF DoneTo
    <3> QED BY <3>1, <3>2, <3>3
  <2>2. CASE sz # op.size
    <3> DEFINE rest == SubSeq(op.data, sz + 1, Len(op.data))
    <3>0. op' = [op EXCEPT !.size = @ - sz, !.offset = @ + sz, !.data = rest] /\ i' = i + 1 /\ asked' = asked /\ before' = before
        BY <1>1, <2>2
    <3>1. op'.kind = op.kind /\ op'.offset = op.offset + sz /\ op'.size = op.size - sz /\ op'.data = rest
      <4> HIDE DEF rest
      <4> QED BY <1>2, <3>0 DEF Ops
    <3>2. op.offset + sz = EndPtr(i) /\ sz < op.size /\ EndPtr(i) \in Nat
      <4>1. /\ StartPtr(i) <= op.offset /\ op.offset < EndPtr(i) /\ sz = Smaller(op.size, ChipSizes[i] - (op.offset - StartPtr(i)))
          BY <1>2 DEF Entered
      <4>2. EndPtr(i) = StartPtr(i) + ChipSizes[i] /\ ChipSizes[i] \in Nat \ {0}
          BY <1>2, Ends DEF StartPtr
      <4>3. EndPtr(i) \in Nat /\ StartPtr(i) \in Nat
          BY <1>2, EndsUp DEF StartPtr
      <4>4. sz = ChipSizes[i] - (op.offset - StartPtr(i))
          BY <2>2, <4>1 DEF Smaller
      <4>5. sz <= op.size
          BY <1>2, <4>1, <4>2, <4>3, Fits
      <4> QED BY <1>2, <2>2, <4>2, <4>3, <4>4, <4>5
    <3>3. i # N
      <4>1. PoolSize = EndPtr(N)
          BY DEF PoolSize
      <4> QED BY <1>2, <1>4, <3>2, <4>1
    <3>4. i' # N + 1 /\ StartPtr(i') = op'.offset
      <4>1. (i + 1) - 1 = i
          BY <1>2
      <4> QED BY <1>2, <3>0, <3>1, <3>2, <3>3, <4>1 DEF StartPtr
    <3>5. (StartPtr(i) <= op.offset)'
      <4>1. op'.offset \in Nat
          BY <1>2, <3>1
      <4>2. op'.offset <= op'.offset
          BY <4>1
      <4> QED BY <3>4, <4>2
    <3>6. BlockLeft'
      <4>1. asked.offset <= op'.offset /\ op'.offset + op'.size = op.offset + op.size
        <5>1. asked.offset <= op.offset + sz /\ (op.offset + sz) + (op.size - sz) = op.offset + op.size
            BY <1>2, <1>4
        <5> QED BY <3>1, <5>1
      <4>2. op'.offset + op'.size = asked'.offset + asked'.size /\ op'.offset + op'.size <= PoolSize
          BY <1>4, <3>0, <4>1
      <4> QED BY <1>3, <1>4, <3>0, <3>5, <4>1, <4>2 DEF BlockLeft
    <3>7. op.kind = "write" => op'.data = Marks(op'.offset, op'.size)
      <4>1. SUFFICES ASSUME op.kind = "write" PROVE rest = Marks(op'.offset, op'.size)
          BY <3>1
      <4>2. op.data \in Seq(Byte) /\ Len(op.data) = op.size
          BY <1>2, <4>1 DEF Ops
      <4>3. \A a \in 1 .. op.size : op.data[a] = op.offset + a
          BY <1>5, <4>1 DEF Marks
      <4>4. rest \in Seq(Byte) /\ Len(rest) = op.size - sz /\ \A a \in 1 .. op.size - sz : rest[a] = op.data[sz + a]
        <5>1. rest = SubSeq(op.data, sz + 1, op.size) /\ sz + 1 \in 1 .. op.size + 1
            BY <1>2, <3>2, <4>2
        <5>2. Len(rest) = op.size - sz
            BY <1>2, <3>2, <4>2, <5>1
        <5>3. \A a \in 1 .. op.size - sz : rest[a] = op.data[(sz + 1) + a - 1] /\ (sz + 1) + a - 1 = sz + a
            BY <1>2, <3>2, <4>2, <5>1
        <5>4. rest \in Seq(Byte)
            BY <1>2, <3>2, <4>2, <5>1
        <5> QED BY <5>2, <5>3, <5>4
      <4>5. \A a \in 1 .. op.size - sz : rest[a] = (op.offset + sz) + a
        <5>1. ASSUME NEW a \in 1 .. op.size - sz PROVE rest[a] = (op.offset + sz) + a
          <6>1. sz + a \in 1 .. op.size
              BY <1>2, <3>2
          <6>2. rest[a] = op.data[sz + a] /\ op.data[sz + a] = op.offset + (sz + a)
              BY <4>3, <4>4, <6>1
          <6>3. op.offset + (sz + a) = (op.offset + sz) + a
              BY <1>2
          <6> HIDE DEF rest
          <6> QED BY <6>2, <6>3
        <5> QED BY <5>1
      <4>6. rest = [a \in 1 .. op.size - sz |-> rest[a]]
        <5> HIDE DEF rest
        <5> QED BY <4>4
      <4> HIDE DEF rest
      <4> QED BY <3>1, <4>5, <4>6 DEF Marks
    <3>8. DoneTo' = op.offset + sz
        BY <3>1, <3>4 DEF DoneTo
    <3>9. OpOK'
        BY <1>2, <1>5, <3>0, <3>1, <3>6, <3>7 DEF OpOK
    <3> QED BY <3>1, <3>8, <3>9
  <2> QED BY <2>1, <2>2
<1>7. ~Active'
    BY <1>1, <1>2, <1>6 DEF Active
<1>8. Contents(chips') = Stored(DoneTo)'
    BY <1>1, <1>3, <1>4, <1>6 DEF Stored
<1>9. BufferIs(DoneTo - asked.offset)'
  <2>1. op'.kind = op.kind /\ asked' = asked /\ before' = before /\ buffer' = buffer /\ DoneTo' = Reached
      BY <1>1, <1>4, <1>6
  <2> QED BY <1>3, <2>1 DEF BufferIs, Part
<1>10. AtEase'
    BY <1>1, <1>2, <1>3, <1>6, <1>8, <1>9 DEF AtEase, AllReady
<1> QED BY <1>6, <1>7, <1>10 DEF DataInv

(* A call begins: nothing of its block is exchanged yet. *)
CallOK(new) ==
    \/ new.kind = "start" /\ new.offset = 0 /\ new.size = 0
    \/ /\ new.kind \in {"read", "write"} /\ started /\ new.offset \in Nat /\ new.size \in Nat \ {0}
       /\ new.offset + new.size <= PoolSize /\ (new.kind = "write" => new.data = Marks(new.offset, new.size))
Called(new) ==
    /\ op' = new /\ i' = 1 /\ buffer' = <<>> /\ before' = Contents(chips) /\ asked' = op'
    /\ UNCHANGED <<bus, started, sz>>
(* A call begins. *)
LEMMA CallData ==
  ASSUME ApartInv, DataInv, op.kind = "none", NEW new, CallOK(new), Called(new)
  PROVE  DataInv'
<1>1. /\ op' = new /\ i' = 1 /\ buffer' = <<>> /\ before' = Contents(chips) /\ asked' = new
      /\ chips' = chips /\ started' = started /\ sz' = sz
    BY DEF Called, bus
<1>2. sz = 0 /\ ~Active
    BY DEF ApartInv, LoopOK, Entered, Active
<1>3. chips \in ChipStates /\ (started => \A k \in Chip : Ready(chips[k]))
    BY <1>2 DEF DataInv, AtEase
<1>4. ~Active'
    BY <1>1, <1>2 DEF Active
<1>5. Contents(chips) \in [1 .. PoolSize -> Cell]
    BY <1>3, ContentsState
<1>6. N \in Nat /\ N >= 1 /\ 1 # N + 1 /\ EndPtr(0) = 0 /\ 1 - 1 = 0
    BY Ends
<1>7. CASE new.kind = "start" /\ new.offset = 0 /\ new.size = 0
  <2>1. OpOK'
      BY <1>1, <1>7 DEF OpOK
  <2>2. AtEase'
      BY <1>1, <1>3, <1>7 DEF AtEase
  <2> QED BY <1>4, <2>1, <2>2 DEF DataInv
<1>8. CASE /\ new.kind \in {"read", "write"} /\ started /\ new.offset \in Nat /\ new.size \in Nat \ {0}
           /\ new.offset + new.size <= PoolSize /\ (new.kind = "write" => new.data = Marks(new.offset, new.size))
  <2>1. BlockLeft'
    <3>1. (StartPtr(i) <= op.offset)'
        BY <1>1, <1>6, <1>8 DEF StartPtr
    <3> QED BY <1>1, <1>5, <1>8, <3>1 DEF BlockLeft
  <2>2. OpOK'
      BY <1>1, <1>8, <2>1 DEF OpOK
  <2>3. DoneTo' = new.offset
      BY <1>1, <1>6 DEF DoneTo
  <2>4. Contents(chips') = Stored(DoneTo)'
    <3>1. Contents(chips) = [a \in 1 .. PoolSize |-> Contents(chips)[a]]
        BY <1>3, ContentsState
    <3>2. \A a \in 1 .. PoolSize : ~(new.offset < a /\ a <= new.offset)
        BY <1>8
    <3>3. Stored(DoneTo)' = [a \in 1 .. PoolSize |-> IF new.kind = "write" /\ new.offset < a /\ a <= new.offset THEN a
                                                     ELSE Contents(chips)[a]]
        BY <1>1, <2>3 DEF Stored
    <3>4. Stored(DoneTo)' = [a \in 1 .. PoolSize |-> Contents(chips)[a]]
        BY <3>2, <3>3
    <3> QED BY <1>1, <3>1, <3>4
  <2>5. BufferIs(DoneTo - asked.offset)'
    <3>1. 1 .. (new.offset - new.offset) = {}
        BY <1>8
    <3>2. Part(DoneTo - asked.offset)' = <<>>
        BY <1>1, <2>3, <3>1 DEF Part
    <3> QED BY <1>1, <3>2 DEF BufferIs
  <2>6. AtEase'
      BY <1>1, <1>3, <1>8, <2>4, <2>5 DEF AtEase
  <2> QED BY <1>4, <2>2, <2>6 DEF DataInv
<1> QED BY <1>7, <1>8 DEF CallOK

(* The three calls. *)
LEMMA CallsData ==
  ASSUME ApartInv, DataInv, DoStart \/ DoRead \/ DoWrite
  PROVE  DataInv'
<1>1. CASE DoStart
  <2> DEFINE new == [kind |-> "start", offset |-> 0, size |-> 0, data |-> <<>>]
  <2>1. op.kind = "none" /\ Called(new)
      BY <1>1 DEF DoStart, BeginCall, Called
  <2>2. CallOK(new)
      BY DEF CallOK
  <2> HIDE DEF new
  <2> QED BY <2>1, <2>2, CallData
<1>2. CASE DoRead
  <2>1. PICK offset \in 0 .. PoolSize - 1, size \in Sizes : Block(offset, size) /\ BeginCall("read", offset, size, <<>>)
      BY <1>2 DEF DoRead
  <2> DEFINE new == [kind |-> "read", offset |-> offset, size |-> size, data |-> <<>>]
  <2>2. started /\ offset + size <= PoolSize /\ op.kind = "none" /\ Called(new)
      BY <2>1 DEF Block, BeginCall, Called
  <2>3. size \in Nat \ {0} /\ offset \in Nat
      BY BoundAssumption, Bytes
  <2>4. CallOK(new)
      BY <2>2, <2>3 DEF CallOK
  <2> HIDE DEF new
  <2> QED BY <2>2, <2>4, CallData
<1>3. CASE DoWrite
  <2>1. PICK offset \in 0 .. PoolSize - 1, size \in Sizes :
            Block(offset, size) /\ BeginCall("write", offset, size, [j \in 1 .. size |-> offset + j])
      BY <1>3 DEF DoWrite
  <2> DEFINE new == [kind |-> "write", offset |-> offset, size |-> size, data |-> Marks(offset, size)]
  <2>2. started /\ offset + size <= PoolSize /\ op.kind = "none" /\ Called(new)
      BY <2>1 DEF Block, BeginCall, Called, Marks
  <2>3. size \in Nat \ {0} /\ offset \in Nat
      BY BoundAssumption, Bytes
  <2>4. CallOK(new)
      BY <2>2, <2>3 DEF CallOK
  <2> HIDE DEF new
  <2> QED BY <2>2, <2>4, CallData
<1> QED BY <1>1, <1>2, <1>3

(* The call returns: every chip is ready for the next. *)
LEMMA ReturnData ==
  ASSUME ChipsFit, ApartInv, DataInv, Return
  PROVE  DataInv'
<1>1. /\ op.kind # "none" /\ script = <<>> /\ i = N + 1 /\ op' = NoOp /\ i' = 0 /\ started' = TRUE /\ buffer' = <<>>
      /\ UNCHANGED <<chips, sz>>
    BY DEF Return, bus
<1>2. sz = 0
  <2>1. i \notin Chip
      BY <1>1, Ends
  <2> QED BY <2>1 DEF ApartInv, LoopOK, Entered
<1>3. op.kind \in {"start", "read", "write"}
    BY <1>1 DEF ApartInv, LoopOK, Ops
<1>4. chips \in ChipStates /\ AllReady
  <2>1. CASE op.kind = "start"
    <3>1. \A k \in Chip : k < i
        BY <1>1, Ends
    <3> QED BY <1>1, <2>1, <3>1, RestData DEF AllReady
  <2>2. CASE op.kind \in {"read", "write"}
      BY <1>1, <2>2, RestData
  <2> QED BY <1>3, <2>1, <2>2
<1>5. op'.kind = "none" /\ op' = NoOp
    BY <1>1 DEF NoOp
<1>6. ~Active' /\ OpOK'
    BY <1>1, <1>2, <1>5 DEF Active, OpOK
<1>7. AtEase'
    BY <1>1, <1>4, <1>5 DEF AtEase, AllReady
<1> QED BY <1>6, <1>7 DEF DataInv

(* The chips are chips, in the middle of a transfer or not. *)
LEMMA ChipsTyped ==
  ASSUME DataInv
  PROVE  chips \in ChipStates
<1>1. CASE Active
    BY <1>1 DEF DataInv, DataGoing, ChipsAt
<1>2. CASE ~Active
    BY <1>2 DEF DataInv, AtEase
<1> QED BY <1>1, <1>2

(* The board is reset: any chips may be selected, but they keep their bytes. *)
LEMMA ResetData ==
  ASSUME ApartInv, DataInv, Reset
  PROVE  DataInv'
<1>1. started' = FALSE /\ op' = NoOp /\ i' = 0 /\ sz' = 0 /\ buffer' = <<>>
    BY DEF Reset
<1>2. PICK floating \in SUBSET Chip :
          chips' = [k \in Chip |-> IF k \in floating THEN Selected(chips[k]) ELSE Deselected(chips[k])]
    BY DEF Reset
<1>3. chips \in ChipStates
    BY ChipsTyped
<1>4. chips' \in ChipStates
  <2>1. ASSUME NEW k \in Chip PROVE chips'[k] \in ChipState(k)
    <3>1. chips[k] \in ChipState(k)
        BY <1>3 DEF ChipStates
    <3>2. 0 \in 0 .. ChipAddrBytes(ChipSizes[k])
        BY AddressSize
    <3> QED BY <1>2, <3>1, <3>2, PinState
  <2>2. chips' = [k \in Chip |-> chips'[k]]
      BY <1>2
  <2> QED BY <2>1, <2>2 DEF ChipStates
<1>5. op'.kind = "none"
    BY <1>1 DEF NoOp
<1>6. ~Active' /\ OpOK'
    BY <1>1, <1>5 DEF Active, OpOK
<1>7. AtEase'
    BY <1>1, <1>4, <1>5 DEF AtEase
<1> QED BY <1>6, <1>7 DEF DataInv

(* At first the chips hold zeros, and are in any mode. *)
LEMMA InitData ==
  ASSUME Init
  PROVE  DataInv
<1>1. /\ \A k \in Chip : chips[k] \in PowerOn(k)
      /\ chips \in [Chip -> UNION {PowerOn(k) : k \in Chip}]
      /\ started = FALSE /\ op = NoOp /\ i = 0 /\ sz = 0 /\ buffer = <<>>
    BY DEF Init
<1>2. chips \in ChipStates
  <2>1. ASSUME NEW k \in Chip PROVE chips[k] \in ChipState(k)
    <3>1. chips[k] \in PowerOn(k)
        BY <1>1
    <3>2. 0 \in 0 .. ChipAddrBytes(ChipSizes[k]) /\ 0 \in Cell
      <4>1. 0 \in Cell
          BY Bytes DEF Cell, Byte, Val
      <4> QED BY <4>1, AddressSize
    <3>3. [j \in 1 .. ChipSizes[k] |-> 0] \in [1 .. ChipSizes[k] -> Cell]
        BY <3>2
    <3> QED BY <3>1, <3>2, <3>3 DEF PowerOn, ChipState, NoInstruction
  <2>2. chips = [k \in Chip |-> chips[k]]
      BY <1>1
  <2> QED BY <2>1, <2>2 DEF ChipStates
<1>3. op.kind = "none"
    BY <1>1 DEF NoOp
<1>4. ~Active /\ OpOK
    BY <1>1, <1>3 DEF Active, OpOK
<1>5. AtEase
    BY <1>1, <1>2, <1>3 DEF AtEase
<1> QED BY <1>4, <1>5 DEF DataInv

(* Nothing happens. *)
LEMMA StutterData ==
  ASSUME ApartInv, DataInv, UNCHANGED vars
  PROVE  DataInv'
<1>1. UNCHANGED <<build, started, loop>> /\ UNCHANGED <<chips, pin, tx, rx, open, script, buffer, started, loop>>
    BY DEF vars, bus
<1>2. LoopOK /\ OpOK
    BY DEF ApartInv, DataInv
<1>3. Now' = Now /\ Active' = Active
    BY <1>1, <1>2, LoopStays
<1>4. OpOK'
    BY <1>1, <1>2 DEF OpOK, BlockLeft, loop
<1>5. CASE Active
  <2>1. PICK x, b, c, l, d : x = Now /\ Going(x, b, c, l) /\ DataGoing(x, b, c, l, d)
      BY <1>5 DEF DataInv
  <2>2. Going(x, b, c, l)'
      BY <1>1, <2>1 DEF Going, Lone
  <2>3. DataGoing(x, b, c, l, d)'
      BY <1>1, <2>1 DEF DataGoing, ChipsAt, Around, AnswersAt, BufferAt, BufferIs, Part, BytesAt, Stored, loop
  <2>4. x = Now'
      BY <1>3, <2>1
  <2> QED BY <1>3, <1>4, <1>5, <2>2, <2>3, <2>4 DEF DataInv
<1>6. CASE ~Active
  <2>1. AtEase
      BY <1>6 DEF DataInv
  <2>2. AtEase'
      BY <1>1, <2>1 DEF AtEase, DoneTo, Stored, BufferIs, Part, loop
  <2> QED BY <1>3, <1>4, <1>6, <2>2 DEF DataInv
<1> QED BY <1>5, <1>6

ChipsInv == ApartInv /\ DataInv
(* Every step keeps the invariant. *)
LEMMA ChipsStep ==
  ASSUME ChipsFit, ChipsInv, [Next]_vars
  PROVE  ChipsInv'
<1>1. ApartInv /\ DataInv
    BY DEF ChipsInv
<1>2. ApartInv'
    BY <1>1, ApartStep
<1>3. DataInv'
  <2>1. CASE DoStart \/ DoRead \/ DoWrite
      BY <1>1, <2>1, CallsData
  <2>2. CASE StartChip
      BY <1>1, <2>2, StartChipData
  <2>3. CASE EnterChip
      BY <1>1, <2>3, EnterChipData
  <2>4. CASE LeaveChip
      BY <1>1, <2>4, LeaveChipData
  <2>5. CASE Return
      BY <1>1, <2>5, ReturnData
  <2>6. CASE Moves
      BY <1>1, <2>6, MoveData
  <2>7. CASE Reset
      BY <1>1, <2>7, ResetData
  <2>8. CASE UNCHANGED vars
      BY <1>1, <2>8, StutterData
  <2> QED BY <2>1, <2>2, <2>3, <2>4, <2>5, <2>6, <2>7, <2>8 DEF Next, Board, Moves
<1> QED BY <1>2, <1>3 DEF ChipsInv

-----------------------------------------------------------------------------
(* What the invariant means: types.                                        *)

(* No more is read than the block has bytes. *)
LEMMA BufferFits ==
  ASSUME ChipsInv
  PROVE  Len(buffer) <= PoolSize
<1>0. LoopOK /\ OpOK /\ DataInv /\ PoolSize \in Nat
    BY Bytes DEF ChipsInv, ApartInv, DataInv
<1>1. ASSUME NEW n \in Nat, n <= PoolSize, BufferIs(n) PROVE Len(buffer) <= PoolSize
  <2>1. Len(Part(n)) = n /\ Len(<<>>) = 0
      BY <1>1 DEF Part
  <2> QED BY <1>0, <1>1, <2>1 DEF BufferIs
<1>2. op.kind # "read" /\ buffer = <<>> => Len(buffer) <= PoolSize
    BY <1>0
<1>3. CASE Active
  <2>1. PICK x, b, c, l, d : x = Now /\ Going(x, b, c, l) /\ DataGoing(x, b, c, l, d)
      BY <1>0, <1>3 DEF DataInv
  <2>2. Known(x) /\ (op.kind # "start" => OfBlock(x))
      BY <1>0, <1>3, <2>1, NowAbout
  <2>3. BufferAt(x, c)
      BY <2>1 DEF DataGoing
  <2>4. CASE op.kind = "read"
    <3>1. OfBlock(x) /\ BlockLeft
        BY <1>0, <2>2, <2>4 DEF OpOK
    <3>2. /\ op.offset \in Nat /\ op.size \in Nat /\ asked.offset \in Nat /\ asked.offset <= op.offset
          /\ op.offset + op.size <= PoolSize /\ Len(x.data) <= op.size /\ Len(x.data) \in Nat
        BY <1>0, <3>1 DEF OfBlock, BlockLeft, LoopOK, Ops
    <3>3. c \in 0 .. LastWord(x) /\ LastWord(x) \in Nat /\ LastWord(x) >= 2
      <4>1. TransferOK(x)
          BY <2>2 DEF Known
      <4> QED BY <2>1, <4>1, GoingFacts, Words
    <3>4. Kept(x, c) \in Nat /\ Kept(x, c) <= Len(x.data)
      <4>1. CASE c = 0
        <5>1. Off(x, 0) = 0 /\ x.n \in 0 .. 4
            BY <2>2, <3>3, Offs, KnownFacts DEF Known
        <5> QED BY <3>2, <4>1, <5>1 DEF Kept
      <4>2. CASE c # 0
        <5>1. c \in 1 .. LastWord(x)
            BY <3>3, <4>2
        <5> QED BY <2>2, <5>1, KeptNext
      <4> QED BY <4>1, <4>2
    <3>5. (op.offset - asked.offset) + Kept(x, c) \in Nat /\ (op.offset - asked.offset) + Kept(x, c) <= PoolSize
      <4>1. PICK h \in Nat : h = Kept(x, c)
          BY <3>4
      <4>2. h <= op.size
          BY <3>2, <3>4, <4>1
      <4>3. (op.offset - asked.offset) + h \in Nat /\ (op.offset - asked.offset) + h <= PoolSize
          BY <1>0, <3>2, <4>2
      <4> QED BY <4>1, <4>3
    <3>6. PICK n \in Nat : n = (op.offset - asked.offset) + Kept(x, c)
        BY <3>5
    <3>7. n <= PoolSize /\ BufferIs(n)
        BY <2>3, <3>5, <3>6 DEF BufferAt
    <3> QED BY <1>1, <3>7
  <2>5. CASE op.kind # "read"
      BY <1>2, <2>3, <2>5 DEF BufferAt, BufferIs
  <2> QED BY <2>4, <2>5
<1>4. CASE ~Active
  <2>1. AtEase
      BY <1>0, <1>4 DEF DataInv
  <2>2. CASE op.kind = "read"
    <3>1. BlockLeft /\ BufferIs(DoneTo - asked.offset)
        BY <1>0, <2>1, <2>2 DEF OpOK, AtEase
    <3>2. /\ op.offset \in Nat /\ op.size \in Nat /\ asked.offset \in Nat /\ asked.size \in Nat /\ asked.offset <= op.offset
          /\ op.offset + op.size = asked.offset + asked.size /\ op.offset + op.size <= PoolSize
        BY <1>0, <3>1 DEF BlockLeft, LoopOK, Ops
    <3>3. DoneTo - asked.offset \in Nat /\ DoneTo - asked.offset <= PoolSize
        BY <1>0, <3>2 DEF DoneTo
    <3> QED BY <1>1, <3>1, <3>3
  <2>3. CASE op.kind # "read"
      BY <1>2, <2>1, <2>3 DEF AtEase, BufferIs
  <2> QED BY <2>2, <2>3
<1> QED BY <1>3, <1>4

(* The invariant has the types of TypeOK. *)
LEMMA ChipsTypes ==
  ASSUME ChipsInv
  PROVE  TypeOK
<1>0. LoopOK /\ BusOK /\ OpOK /\ DataInv /\ PoolSize \in Nat
    BY Bytes DEF ChipsInv, ApartInv, DataInv
<1>1. build \in {"plain", "fifo"} /\ pin \in Chip /\ started \in BOOLEAN
    BY <1>0 DEF LoopOK, BusOK
<1>2. ASSUME NEW k \in Chip
      PROVE  /\ chips[k].data \in [1 .. ChipSizes[k] -> Byte \cup {WriteMode, SequentialMode}]
             /\ chips[k].sequential \in BOOLEAN /\ chips[k].selected \in BOOLEAN
             /\ chips[k].need \in 0 .. ChipAddrBytes(ChipSizes[k])
  <2>1. chips[k] \in ChipState(k)
      BY <1>0, ChipsTyped DEF ChipStates
  <2> QED BY <2>1 DEF ChipState, Cell
<1>3. op.kind \in {"none", "start", "read", "write"} /\ op.offset \in Nat /\ op.size \in Nat /\ op.offset + op.size <= PoolSize
  <2>1. op.kind \in {"none", "start", "read", "write"} /\ op.offset \in Nat /\ op.size \in Nat
      BY <1>0 DEF LoopOK, Ops
  <2>2. CASE op.kind \in {"none", "start"}
    <3>1. op.offset = 0 /\ op.size = 0
        BY <1>0, <2>2 DEF OpOK, NoOp
    <3> QED BY <1>0, <2>1, <3>1
  <2>3. CASE op.kind \in {"read", "write"}
      BY <1>0, <2>1, <2>3 DEF OpOK, BlockLeft
  <2> QED BY <2>1, <2>2, <2>3
<1>4. op.offset \in 0 .. PoolSize /\ op.size \in 0 .. PoolSize
    BY <1>0, <1>3
<1>5. i \in 0 .. N + 1
  <2>1. N \in Nat /\ i \in Nat
      BY <1>0, Ends DEF LoopOK
  <2>2. CASE op.kind = "none"
    <3>1. i = 0
        BY <1>0, <2>2 DEF OpOK
    <3> QED BY <2>1, <3>1
  <2>3. CASE op.kind # "none"
    <3>1. i \in 1 .. N + 1
        BY <1>0, <2>3 DEF LoopOK
    <3> QED BY <2>1, <3>1
  <2> QED BY <2>2, <2>3
<1>6. sz \in 0 .. Smaller(op.size, PoolSize)
  <2>1. sz \in Nat
      BY <1>0 DEF LoopOK
  <2>2. sz <= op.size
    <3>1. CASE sz = 0
        BY <1>3, <3>1
    <3>2. CASE sz # 0
      <4>1. Active /\ op.kind # "start"
        <5>1. sz > 0
            BY <2>1, <3>2
        <5> QED BY <1>0, <5>1 DEF Active, LoopOK, Entered
      <4>2. PICK x : x = Now
          OBVIOUS
      <4>3. OfBlock(x)
          BY <1>0, <4>1, <4>2, NowAbout
      <4> QED BY <4>3 DEF OfBlock
    <3> QED BY <3>1, <3>2
  <2> QED BY <1>0, <1>4, <2>1, <2>2 DEF Smaller
<1>7. Len(buffer) <= PoolSize
    BY BufferFits
<1> QED BY <1>1, <1>2, <1>3, <1>4, <1>5, <1>6, <1>7 DEF TypeOK

(* The state has its types: a chip holds bytes and counts no more address  *)
(* bytes than it has, the call stays within the pool, the loop within the  *)
(* chips, and a call never reads more than the pool holds.                 *)
THEOREM TypeTheorem ==
  ASSUME ChipsFit
  PROVE  Spec => []TypeOK
<1>1. Init => ChipsInv
    BY InitKeeps, InitData DEF ChipsInv
<1>2. ChipsInv /\ [Next]_vars => ChipsInv'
    BY ChipsStep
<1>3. ChipsInv => TypeOK
    BY ChipsTypes
<1> QED BY <1>1, <1>2, <1>3, PTL DEF Spec

-----------------------------------------------------------------------------
(* The refinement                                                          *)

(* The pool that the page manager sees. *)
Memory == IF ~started THEN <<>> ELSE IF op.kind = "none" THEN Contents(chips) ELSE before

(* A part of the pool. *)
LEMMA Slice ==
  ASSUME NEW m \in [1 .. PoolSize -> Cell], NEW p \in Nat, NEW n \in Nat \ {0}, p + n <= PoolSize
  PROVE  /\ Len(m) = PoolSize /\ m # <<>>
         /\ SubSeq(m, p + 1, p + n) = [a \in 1 .. n |-> m[p + a]]
<1>0. PoolSize \in Nat
    BY Bytes
<1>1. m \in Seq(Cell) /\ Len(m) = PoolSize
    BY <1>0
<1>2. m # <<>>
  <2>1. Len(<<>>) = 0 /\ PoolSize # 0
      BY <1>0
  <2> QED BY <1>1, <2>1
<1>3. SubSeq(m, p + 1, p + n) = [a \in 1 .. n |-> m[p + a]]
  <2> DEFINE s == SubSeq(m, p + 1, p + n)
  <2>1. s \in Seq(Cell) /\ Len(s) = n
      BY <1>0, <1>1
  <2>2. \A a \in 1 .. n : s[a] = m[(p + 1) + a - 1] /\ (p + 1) + a - 1 = p + a
      BY <1>0, <1>1
  <2>3. \A a \in 1 .. n : s[a] = m[p + a]
      BY <2>2
  <2> HIDE DEF s
  <2>4. s = [a \in 1 .. n |-> s[a]]
      BY <2>1
  <2>5. s = [a \in 1 .. n |-> m[p + a]]
      BY <2>3, <2>4
  <2> QED BY <2>5 DEF s
<1> QED BY <1>1, <1>2, <1>3

(* A call that returns has read or written exactly its block. *)
LEMMA ReturnImplements ==
  ASSUME ChipsFit, ChipsInv, Return
  PROVE  Pool!Next
<1>0. ApartInv /\ DataInv /\ OpOK /\ LoopOK /\ PoolSize \in Nat /\ NoCall = Pool!NoCall
    BY Bytes DEF ChipsInv, DataInv, ApartInv, NoCall, Pool!NoCall
<1>1. /\ op.kind # "none" /\ script = <<>> /\ i = N + 1 /\ op' = NoOp /\ started' = TRUE /\ chips' = chips
      /\ call' = CASE op.kind = "read"  -> <<"read", asked.offset, asked.size, buffer>>
                   [] op.kind = "write" -> <<"write", asked.offset, asked.data>>
                   [] OTHER -> NoCall
    BY DEF Return, bus
<1>2. op'.kind = "none" /\ op.kind \in {"start", "read", "write"} /\ sz = 0
  <2>1. i \notin Chip
      BY <1>1, Ends
  <2>2. sz = 0
      BY <1>0, <2>1 DEF LoopOK, Entered
  <2> QED BY <1>0, <1>1, <2>2 DEF LoopOK, Ops, NoOp
<1>3. Memory' = Contents(chips)
    BY <1>1, <1>2 DEF Memory
<1>4. chips \in ChipStates
    BY <1>0, ChipsTyped
<1>5. Contents(chips) \in [1 .. PoolSize -> Cell]
    BY <1>4, ContentsState
<1>6. CASE op.kind = "start"
  <2>1. Memory = <<>>
      BY <1>0, <1>6 DEF Memory, LoopOK
  <2>2. call' = NoCall
      BY <1>1, <1>6
  <2>3. Memory' \in [1 .. PoolSize -> Byte \cup {WriteMode, SequentialMode}]
      BY <1>3, <1>5 DEF Cell
  <2>4. Pool!Start
      BY <1>0, <2>1, <2>2, <2>3 DEF Pool!Start, Memory
  <2> QED BY <2>4 DEF Pool!Next
<1>7. CASE op.kind \in {"read", "write"}
  <2> DEFINE p == asked.offset
             n == asked.size
  <2>1. started /\ BlockLeft /\ Contents(chips) = Stored(Reached) /\ BufferIs(Reached - asked.offset)
      BY <1>0, <1>1, <1>7, RestData
  <2>2. p \in Nat /\ n \in Nat \ {0} /\ p + n <= PoolSize /\ before \in [1 .. PoolSize -> Cell] /\ (p + n) - p = n
    <3>1. p \in Nat /\ n \in Nat \ {0} /\ before \in [1 .. PoolSize -> Cell] /\ p + n <= PoolSize
        BY <2>1 DEF BlockLeft
    <3> QED BY <3>1
  <2>3. Reached = p + n
      BY <1>1, <1>2 DEF Reached, DoneTo
  <2>4. Memory = before
      BY <1>1, <2>1 DEF Memory
  <2> DEFINE m == Contents(chips)
  <2>5. m \in [1 .. PoolSize -> Cell] /\ m = Stored(p + n) /\ Memory' = m
      BY <1>3, <1>5, <2>1, <2>3
  <2>6. p \in 0 .. PoolSize /\ n \in 1 .. PoolSize /\ Pool!IsBlock(p, n)
      BY <1>0, <2>2 DEF Pool!IsBlock
  <2>7. BufferIs(n)
      BY <2>1, <2>2, <2>3
  <2> HIDE DEF p, n, m
  <2>8. before # <<>> /\ Len(m) = PoolSize /\ SubSeq(before, p + 1, p + n) = [a \in 1 .. n |-> before[p + a]]
        /\ SubSeq(m, p + 1, p + n) = [a \in 1 .. n |-> m[p + a]]
      BY <2>2, <2>5, Slice
  <2>9. CASE op.kind = "read"
    <3>1. m = before
      <4>1. m = [a \in 1 .. PoolSize |-> before[a]]
          BY <2>5, <2>9 DEF Stored
      <4> QED BY <2>2, <4>1
    <3>2. buffer = SubSeq(before, p + 1, p + n)
        BY <2>7, <2>8, <2>9 DEF BufferIs, Part, p
    <3>3. call' = <<"read", p, n, buffer>>
        BY <1>1, <2>9 DEF p, n
    <3>4. Pool!Read(p, n)
        BY <2>4, <2>5, <2>6, <2>8, <3>1, <3>2, <3>3 DEF Pool!Read, Memory
    <3> QED BY <2>6, <3>4 DEF Pool!Next
  <2>10. CASE op.kind = "write"
    <3>1. call' = <<"write", p, asked.data>>
        BY <1>1, <2>10 DEF p
    <3>2. \A a \in 1 .. PoolSize : m[a] = IF p < a /\ a <= p + n THEN a ELSE before[a]
        BY <2>5, <2>10 DEF Stored, p
    <3>3. asked.data = [a \in 1 .. n |-> p + a]
        BY <1>0, <2>10 DEF OpOK, Marks, p, n
    <3>4. asked.data = SubSeq(m, p + 1, p + n)
      <4>1. ASSUME NEW a \in 1 .. n PROVE m[p + a] = p + a
        <5>1. p + a \in 1 .. PoolSize /\ p < p + a /\ p + a <= p + n
            BY <1>0, <2>2 DEF p, n
        <5> QED BY <3>2, <5>1
      <4> QED BY <2>8, <3>3, <4>1
    <3>5. \A a \in 1 .. PoolSize : IF a - p \in 1 .. n THEN m[a] \in Val ELSE m[a] = before[a]
      <4>1. ASSUME NEW a \in 1 .. PoolSize PROVE IF a - p \in 1 .. n THEN m[a] \in Val ELSE m[a] = before[a]
        <5>1. a - p \in 1 .. n <=> p < a /\ a <= p + n
            BY <1>0, <2>6 DEF p, n
        <5>2. a \in Val
            BY <1>0 DEF Val
        <5> QED BY <3>2, <5>1, <5>2
      <4> QED BY <4>1
    <3>6. Pool!Write(p, n)
        BY <2>4, <2>5, <2>6, <2>8, <3>1, <3>4, <3>5 DEF Pool!Write, Memory
    <3> QED BY <2>6, <3>6 DEF Pool!Next
  <2> QED BY <1>7, <2>9, <2>10
<1> QED BY <1>2, <1>6, <1>7

(* In the middle of a call the pool is the one before it.                  *)
LEMMA MemoryStays ==
  ASSUME ChipsInv, StartChip \/ EnterChip \/ LeaveChip \/ Moves
  PROVE  Memory' = Memory /\ call' = call
<1>1. started' = started /\ before' = before /\ call' = call
    BY DEF StartChip, EnterChip, LeaveChip, Moves, DrivePin, CloseTransaction, Transfer, PushWord, PopWord, Shift, loop
<1>2. op.kind # "none"
  <2>1. CASE StartChip \/ EnterChip \/ LeaveChip
      BY <2>1 DEF StartChip, EnterChip, LeaveChip, AtLoop
  <2>2. CASE Moves
    <3>1. Active
      <4>1. CASE ~Active
        <5>1. script = <<>> /\ tx = <<>>
            BY <4>1 DEF ChipsInv, ApartInv, TransferInv, Calm
        <5> QED BY <2>2, <5>1 DEF Moves, DrivePin, CloseTransaction, Transfer, PushWord, PopWord, Shift, Doing
      <4> QED BY <4>1
    <3> QED BY <3>1 DEF Active, ChipsInv, ApartInv, LoopOK, Entered
  <2> QED BY <2>1, <2>2
<1>3. op'.kind = op.kind
  <2>1. op \in Ops
      BY DEF ChipsInv, ApartInv, LoopOK
  <2>2. CASE LeaveChip
    <3>1. CASE op' = op
        BY <3>1
    <3>2. CASE op' # op
      <4> DEFINE rest == SubSeq(op.data, sz + 1, Len(op.data))
      <4>1. op' = [op EXCEPT !.size = @ - sz, !.offset = @ + sz, !.data = rest]
          BY <2>2, <3>2 DEF LeaveChip
      <4> HIDE DEF rest
      <4> QED BY <2>1, <4>1 DEF Ops
    <3> QED BY <3>1, <3>2
  <2>3. CASE StartChip \/ EnterChip \/ Moves
      BY <2>3 DEF StartChip, EnterChip, Moves, DrivePin, CloseTransaction, Transfer, PushWord, PopWord, Shift, loop
  <2> QED BY <2>2, <2>3
<1> QED BY <1>1, <1>2, <1>3 DEF Memory

(* The chips are one pool: what the calls of the page manager write is kept*)
(* until the board is reset, whichever chips a block is cut over and however*)
(* its bytes are sent, no other byte changes, and a read returns the bytes *)
(* at the address and of the size it asks for: if no chip is as large as a *)
(* power of 256, whose address is sent with a byte too many.               *)
THEOREM RefinementTheorem ==
  ASSUME ChipsFit
  PROVE  Spec => ImplementsRemotePool
<1>1. Init => Pool!Init
    BY DEF Init, Pool!Init, NoCall, Pool!NoCall
<1>2. ChipsInv /\ [Next]_vars => [Pool!Next]_Pool!remoteVars
  <2> SUFFICES ASSUME ChipsInv, [Next]_vars
               PROVE  Pool!Next \/ UNCHANGED Pool!remoteVars
      OBVIOUS
  <2>0. NoCall = Pool!NoCall
      BY DEF NoCall, Pool!NoCall
  <2>1. ASSUME Memory' = Memory, call' = NoCall PROVE Pool!Next
      BY <2>0, <2>1 DEF Pool!Next, Pool!Other, Memory
  <2>2. CASE DoStart \/ DoRead \/ DoWrite
    <3>1. op.kind = "none" /\ op'.kind # "none" /\ before' = Contents(chips) /\ call' = NoCall /\ started' = started
        BY <2>2 DEF DoStart, DoRead, DoWrite, BeginCall
    <3>2. Memory' = Memory
        BY <3>1 DEF Memory
    <3> QED BY <2>1, <3>1, <3>2
  <2>3. CASE StartChip \/ EnterChip \/ LeaveChip \/ Moves
    <3>1. Memory' = Memory /\ call' = call
        BY <2>3, MemoryStays
    <3> QED BY <3>1 DEF Pool!remoteVars, Memory
  <2>4. CASE Return
      BY <2>4, ReturnImplements
  <2>5. CASE Reset
    <3>1. Memory' = <<>> /\ call' = NoCall
        BY <2>5 DEF Reset, Memory
    <3> QED BY <2>0, <3>1 DEF Pool!Next, Pool!Reset, Memory
  <2>6. CASE UNCHANGED vars
    <3>1. Memory' = Memory /\ call' = call
        BY <2>6 DEF vars, bus, loop, Memory
    <3> QED BY <3>1 DEF Pool!remoteVars, Memory
  <2> QED BY <2>2, <2>3, <2>4, <2>5, <2>6 DEF Next, Board, Moves
<1>3. Init => ChipsInv
    BY InitKeeps, InitData DEF ChipsInv
<1>4. ChipsInv /\ [Next]_vars => ChipsInv'
    BY ChipsStep
<1> QED BY <1>1, <1>2, <1>3, <1>4, PTL DEF Spec, Pool!Spec, ImplementsRemotePool

=============================================================================
