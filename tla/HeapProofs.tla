----------------------------- MODULE HeapProofs -----------------------------
(***************************************************************************)
(* Theorems about Heap, for every memory size, task set and request size,  *)
(* with callers that do not free twice and direct calls that are not       *)
(* interrupted: the free and the held blocks always partition the heap, so *)
(* no byte is lost or handed out twice, and the heap implements MemPool.   *)
(***************************************************************************)
EXTENDS Heap, FiniteSetTheorems, SequenceTheorems, TLAPS

-----------------------------------------------------------------------------
(* What the allocator's operations do to a free list.  A list is judged by *)
(* the bytes it covers: allocation takes exactly the bytes of the block it *)
(* serves, release adds exactly those of the block given back, and either  *)
(* leaves a list in address order whose blocks are aligned, inside the     *)
(* heap and never touch.                                                   *)

Block == [at : Nat, size : Nat]

Placed(b) == b.at % ALIGN = 0 /\ BASE <= b.at /\ End(b) <= RAM_END

(* A free list as the code keeps it. *)
GoodList(f) ==
  /\ f \in Seq(Block)
  /\ \A i \in 1..Len(f) : Placed(f[i])
  /\ \A i, j \in 1..Len(f) : i < j => End(f[i]) < f[j].at

Covered(f, x) == \E i \in 1..Len(f) : Covers(f[i], x)

-----------------------------------------------------------------------------
(* Arithmetic. *)

LEMMA BaseFacts == BASE \in Nat /\ BASE % 8 = 0 /\ BASE + 16 < RAM_END /\ RAM_END \in Nat
<1>1. IMAGE_END \in Nat /\ RAM_END \in Nat /\ RAM_END > BASE + 16
  BY HeapAssumption DEF HeaderSize
<1>2. CASE IMAGE_END % 8 = 0
  BY <1>1, <1>2 DEF BASE, ALIGN
<1>3. CASE IMAGE_END % 8 # 0
  BY <1>1, <1>3 DEF BASE, ALIGN
<1>. QED BY <1>2, <1>3

LEMMA SmallMod ==
  ASSUME NEW m \in Nat, NEW x \in Nat, x < m
  PROVE  x % m = x
OBVIOUS

(* Any size is rounded up to a multiple of 8, unless that wraps. *)
LEMMA RoundedFacts ==
  ASSUME NEW n \in 1..(U32MOD - 1)
  PROVE  /\ Rounded(n) \in Nat /\ Rounded(n) % 8 = 0
         /\ Rounded(n) >= (IF Wraps(n) THEN 0 ELSE n)
<1> DEFINE r == n % 8
           u == IF r = 0 THEN n ELSE n + 8 - r
<1>1. U32MOD \in Nat /\ U32MOD % 8 = 0 /\ n \in Nat /\ n >= 1 /\ n <= U32MOD - 1
  BY HeapAssumption DEF ALIGN
<1>2. u \in Nat /\ u >= n /\ u % 8 = 0 /\ u <= U32MOD
  BY <1>1
<1>3. Rounded(n) = u % U32MOD
  BY DEF Rounded, ALIGN
<1>4. ~Wraps(n) => u < U32MOD
  BY <1>1 DEF Wraps, ALIGN
<1>. HIDE DEF u
<1>5. CASE u < U32MOD
  <2>1. u % U32MOD = u
    BY <1>1, <1>2, <1>5, SmallMod
  <2>. QED BY <1>1, <1>2, <1>3, <2>1
<1>6. CASE u = U32MOD
  <2>1. u % U32MOD = 0
    BY <1>1, <1>6
  <2>. QED BY <1>2, <1>3, <1>4, <1>6, <2>1
<1>. QED BY <1>1, <1>2, <1>5, <1>6

(* A set of numbers that is not empty has a least element, and Min is it. *)
LEMMA MinFacts ==
  ASSUME NEW S, S \subseteq Nat, S # {}
  PROVE  Min(S) \in S /\ \A y \in S : Min(S) <= y
<1>1. IsWellFoundedOn(OpToRel(<, Nat), Nat)
  BY NatLessThanWellFounded
<1>2. PICK x \in S : \A y \in S : ~(<< y, x >> \in OpToRel(<, Nat))
  BY <1>1, WFMin
<1>3. \A y \in S : ~(y < x)
  BY <1>2 DEF OpToRel
<1>4. \A y \in S : x <= y
  BY <1>3
<1>. QED BY <1>4, Zenon DEF Min

-----------------------------------------------------------------------------
(* A list in which the blocks from p + 1 to q - 1 give way to those of h. *)

Splice(f, p, q, h) == SubSeq(f, 1, p) \o h \o SubSeq(f, q, Len(f))

LEMMA SpliceFacts ==
  ASSUME NEW f \in Seq(Block), NEW h \in Seq(Block),
         NEW p \in 0..Len(f), NEW q \in 1..(Len(f) + 1)
  PROVE  /\ Splice(f, p, q, h) \in Seq(Block)
         /\ Len(Splice(f, p, q, h)) = p + Len(h) + Len(f) + 1 - q
         /\ \A i \in 1..p : Splice(f, p, q, h)[i] = f[i]
         /\ \A i \in 1..Len(h) : Splice(f, p, q, h)[p + i] = h[i]
         /\ \A i \in q..Len(f) : Splice(f, p, q, h)[p + Len(h) + i + 1 - q] = f[i]
<1> DEFINE s == SubSeq(f, 1, p)
           t == SubSeq(f, q, Len(f))
           m == Len(h)
           n == Len(f)
<1>1. n \in Nat /\ m \in Nat
  BY LenProperties
<1>2. \A i \in 1..n : f[i] \in Block
  BY ElementOfSeq
<1>3. /\ s \in Seq(Block)
      /\ Len(s) = p
      /\ \A i \in 1..p : s[i] = f[i]
  <2>1. /\ s \in Seq(Block)
        /\ Len(s) = IF 1 <= p THEN p - 1 + 1 ELSE 0
        /\ \A i \in 1..(p - 1 + 1) : s[i] = f[1 + i - 1]
    BY <1>1, <1>2, SubSeqProperties
  <2>. QED BY <1>1, <2>1
<1>4. /\ t \in Seq(Block)
      /\ Len(t) = n + 1 - q
      /\ \A i \in q..n : t[i + 1 - q] = f[i]
  <2>1. /\ t \in Seq(Block)
        /\ Len(t) = IF q <= n THEN n - q + 1 ELSE 0
        /\ \A i \in 1..(n - q + 1) : t[i] = f[q + i - 1]
    BY <1>1, <1>2, SubSeqProperties
  <2>2. ASSUME NEW i \in q..n PROVE t[i + 1 - q] = f[i]
    <3>1. i + 1 - q \in 1..(n - q + 1) /\ q + (i + 1 - q) - 1 = i
      BY <1>1
    <3>. HIDE DEF t, n
    <3>. QED BY <2>1, <3>1, Zenon
  <2>. QED BY <1>1, <2>1, <2>2
<1> HIDE DEF s, t, m, n
<1> DEFINE sh == s \o h
           g == sh \o t
<1>5. /\ sh \in Seq(Block)
      /\ Len(sh) = p + m
      /\ \A i \in 1..(p + m) : sh[i] = IF i <= p THEN s[i] ELSE h[i - p]
  <2>1. /\ sh \in Seq(Block)
        /\ Len(sh) = Len(s) + Len(h)
        /\ \A i \in 1..(Len(s) + Len(h)) : sh[i] = IF i <= Len(s) THEN s[i] ELSE h[i - Len(s)]
    BY <1>3, ConcatProperties
  <2>. QED BY <1>3, <2>1 DEF m
<1> HIDE DEF sh
<1>6. /\ g \in Seq(Block)
      /\ Len(g) = p + m + (n + 1 - q)
      /\ \A i \in 1..(p + m + (n + 1 - q)) :
           g[i] = IF i <= p + m THEN sh[i] ELSE t[i - (p + m)]
  <2>1. /\ g \in Seq(Block)
        /\ Len(g) = Len(sh) + Len(t)
        /\ \A i \in 1..(Len(sh) + Len(t)) : g[i] = IF i <= Len(sh) THEN sh[i] ELSE t[i - Len(sh)]
    BY <1>4, <1>5, ConcatProperties
  <2>. QED BY <1>4, <1>5, <2>1
<1>7. Splice(f, p, q, h) = g
  BY Zenon DEF Splice, s, t, sh, n
<1> HIDE DEF g
<1>8. ASSUME NEW i \in 1..p PROVE g[i] = f[i]
  <2>1. i \in 1..(p + m + (n + 1 - q)) /\ i <= p + m /\ i \in 1..(p + m) /\ i <= p
    BY <1>1 DEF n
  <2>. QED BY <1>3, <1>5, <1>6, <2>1
<1>9. ASSUME NEW i \in 1..m PROVE g[p + i] = h[i]
  <2> DEFINE k == p + i
  <2>1. /\ k \in 1..(p + m + (n + 1 - q)) /\ k <= p + m /\ k \in 1..(p + m)
        /\ ~(k <= p) /\ k - p = i
    BY <1>1 DEF n
  <2>. HIDE DEF k
  <2>2. g[k] = sh[k] /\ sh[k] = h[k - p]
    BY <1>5, <1>6, <2>1
  <2>3. g[k] = h[i]
    BY <2>1, <2>2
  <2>. QED BY <2>3 DEF k
<1>10. ASSUME NEW i \in q..n PROVE g[p + m + i + 1 - q] = f[i]
  <2> DEFINE k == p + m + i + 1 - q
  <2>1. /\ k \in 1..(p + m + (n + 1 - q)) /\ ~(k <= p + m)
        /\ k - (p + m) = i + 1 - q
    BY <1>1 DEF n
  <2>. HIDE DEF k
  <2>2. g[k] = t[k - (p + m)]
    BY <1>6, <2>1
  <2>3. g[k] = f[i]
    BY <1>4, <2>1, <2>2
  <2>. QED BY <2>3 DEF k
<1>11. p + m + (n + 1 - q) = p + m + n + 1 - q
  BY <1>1 DEF n
<1>. QED BY <1>6, <1>7, <1>8, <1>9, <1>10, <1>11 DEF m, n

(* A list stays good if what replaces its middle fits between its ends. *)
LEMMA SpliceGood ==
  ASSUME NEW f, GoodList(f), NEW h \in Seq(Block),
         NEW p \in 0..Len(f), NEW q \in 1..(Len(f) + 1), p < q,
         \A i \in 1..Len(h) : Placed(h[i]),
         \A i, j \in 1..Len(h) : i < j => End(h[i]) < h[j].at,
         \A i \in 1..p, j \in 1..Len(h) : End(f[i]) < h[j].at,
         \A i \in 1..Len(h), j \in q..Len(f) : End(h[i]) < f[j].at
  PROVE  /\ GoodList(Splice(f, p, q, h))
         /\ \A x : Covered(Splice(f, p, q, h), x) <=>
                     \/ \E i \in 1..p : Covers(f[i], x)
                     \/ \E i \in q..Len(f) : Covers(f[i], x)
                     \/ Covered(h, x)
<1> DEFINE g == Splice(f, p, q, h)
           m == Len(h)
           n == Len(f)
<1>1. f \in Seq(Block) /\ n \in Nat /\ m \in Nat
  BY LenProperties DEF GoodList
<1>2. /\ g \in Seq(Block)
      /\ Len(g) = p + m + n + 1 - q
      /\ \A i \in 1..p : g[i] = f[i]
      /\ \A i \in 1..m : g[p + i] = h[i]
      /\ \A i \in q..n : g[p + m + i + 1 - q] = f[i]
  BY <1>1, SpliceFacts
<1> HIDE DEF g, m, n
<1>3. ASSUME NEW k \in 1..Len(g)
      PROVE  \/ k \in 1..p /\ g[k] = f[k]
             \/ k - p \in 1..m /\ g[k] = h[k - p]
             \/ k + q - p - m - 1 \in q..n /\ g[k] = f[k + q - p - m - 1]
  <2>1. CASE k <= p
    BY <1>1, <1>2, <2>1 DEF n
  <2>2. CASE p < k /\ k <= p + m
    <3>1. k - p \in 1..m /\ p + (k - p) = k
      BY <1>1, <2>2 DEF n
    <3>. QED BY <1>2, <3>1, Zenon
  <2>3. CASE p + m < k
    <3>1. /\ k + q - p - m - 1 \in q..n
          /\ p + m + (k + q - p - m - 1) + 1 - q = k
      BY <1>1, <1>2, <2>3 DEF n
    <3>. QED BY <1>2, <3>1, Zenon
  <2>. QED BY <1>1, <1>2, <2>1, <2>2, <2>3 DEF n
<1>4. \A i \in 1..n : Placed(f[i])
  BY DEF GoodList, n
<1>5. \A i, j \in 1..n : i < j => End(f[i]) < f[j].at
  BY DEF GoodList, n
<1>6. /\ \A i \in 1..m : Placed(h[i])
      /\ \A i, j \in 1..m : i < j => End(h[i]) < h[j].at
      /\ \A i \in 1..p, j \in 1..m : End(f[i]) < h[j].at
      /\ \A i \in 1..m, j \in q..n : End(h[i]) < f[j].at
  BY DEF m, n
<1>7. p \in Nat /\ q \in Nat /\ p < q /\ 1 <= q /\ p <= n /\ q <= n + 1
  BY <1>1 DEF n
<1>8. 1..p \subseteq 1..n /\ q..n \subseteq 1..n
  BY <1>1, <1>7
<1>9. ASSUME NEW k \in 1..Len(g) PROVE Placed(g[k])
  BY <1>3, <1>4, <1>6, <1>8, Zenon
<1>10. ASSUME NEW k \in 1..Len(g), NEW l \in 1..Len(g), k < l
       PROVE  End(g[k]) < g[l].at
  <2> DEFINE kk == k + q - p - m - 1
             ll == l + q - p - m - 1
  <2>0. k \in Int /\ l \in Int
    BY <1>1, <1>2, <1>7
  <2>1. CASE k \in 1..p /\ g[k] = f[k]
    <3>1. CASE l \in 1..p /\ g[l] = f[l]
      BY <1>5, <1>8, <1>10, <2>1, <3>1, Zenon
    <3>2. CASE l - p \in 1..m /\ g[l] = h[l - p]
      BY <1>6, <2>1, <3>2, Zenon
    <3>3. CASE ll \in q..n /\ g[l] = f[ll]
      <4>1. k < ll
        BY <1>1, <1>7, <2>1, <3>3
      <4>. QED BY <1>5, <1>8, <2>1, <3>3, <4>1, Zenon
    <3>. QED BY <1>3, <3>1, <3>2, <3>3
  <2>2. CASE k - p \in 1..m /\ g[k] = h[k - p]
    <3>1. CASE l \in 1..p
      BY <1>1, <1>7, <1>10, <2>0, <2>2, <3>1
    <3>2. CASE l - p \in 1..m /\ g[l] = h[l - p]
      <4>1. k - p < l - p
        BY <1>7, <1>10, <2>0
      <4>. QED BY <1>6, <2>2, <3>2, <4>1, Zenon
    <3>3. CASE ll \in q..n /\ g[l] = f[ll]
      BY <1>6, <2>2, <3>3, Zenon
    <3>. QED BY <1>3, <3>1, <3>2, <3>3
  <2>3. CASE kk \in q..n /\ g[k] = f[kk]
    <3>1. CASE l \in 1..p
      BY <1>1, <1>7, <1>10, <2>0, <2>3, <3>1
    <3>2. CASE l - p \in 1..m
      BY <1>1, <1>7, <1>10, <2>0, <2>3, <3>2
    <3>3. CASE ll \in q..n /\ g[l] = f[ll]
      <4>1. kk < ll
        BY <1>1, <1>7, <1>10, <2>0
      <4>. QED BY <1>5, <1>8, <2>3, <3>3, <4>1, Zenon
    <3>. QED BY <1>3, <3>1, <3>2, <3>3
  <2>. QED BY <1>3, <2>1, <2>2, <2>3
<1>11. GoodList(g)
  BY <1>2, <1>9, <1>10 DEF GoodList
<1>12. ASSUME NEW x
       PROVE  Covered(g, x) <=> \/ \E i \in 1..p : Covers(f[i], x)
                                \/ \E i \in q..n : Covers(f[i], x)
                                \/ \E i \in 1..m : Covers(h[i], x)
  <2>1. ASSUME NEW k \in 1..Len(g), Covers(g[k], x)
        PROVE  \/ \E i \in 1..p : Covers(f[i], x)
               \/ \E i \in q..n : Covers(f[i], x)
               \/ \E i \in 1..m : Covers(h[i], x)
    BY <1>3, <2>1, Zenon
  <2>2. ASSUME NEW i \in 1..p, Covers(f[i], x) PROVE Covered(g, x)
    <3>1. i \in 1..Len(g)
      BY <1>1, <1>2, <1>7
    <3>. QED BY <1>2, <2>2, <3>1, Zenon DEF Covered
  <2>3. ASSUME NEW i \in 1..m, Covers(h[i], x) PROVE Covered(g, x)
    <3>1. p + i \in 1..Len(g)
      BY <1>1, <1>2, <1>7
    <3>. QED BY <1>2, <2>3, <3>1, Zenon DEF Covered
  <2>4. ASSUME NEW i \in q..n, Covers(f[i], x) PROVE Covered(g, x)
    <3>1. p + m + i + 1 - q \in 1..Len(g)
      BY <1>1, <1>2, <1>7
    <3>. QED BY <1>2, <2>4, <3>1, Zenon DEF Covered
  <2>. QED BY <2>1, <2>2, <2>3, <2>4, Zenon DEF Covered
<1>. QED BY <1>11, <1>12 DEF g, m, n, Covered

-----------------------------------------------------------------------------
(* Allocation. *)

LEMMA FreeBlock ==
  ASSUME NEW f, GoodList(f), NEW i \in 1..Len(f)
  PROVE  /\ f[i].at \in Nat /\ f[i].size \in Nat /\ f[i] = [at |-> f[i].at, size |-> f[i].size]
         /\ f[i].at % 8 = 0 /\ BASE <= f[i].at /\ f[i].at + 16 + f[i].size <= RAM_END
         /\ End(f[i]) = f[i].at + 16 + f[i].size /\ End(f[i]) \in Nat
<1>1. f[i] \in Block
  BY ElementOfSeq DEF GoodList
<1>2. Placed(f[i])
  BY DEF GoodList
<1>. QED BY <1>1, <1>2 DEF Block, Placed, End, HeaderSize, ALIGN

(* No byte is in two free blocks. *)
LEMMA OneFreeBlock ==
  ASSUME NEW f, GoodList(f), NEW i \in 1..Len(f), NEW j \in 1..Len(f), NEW x \in Int,
         Covers(f[i], x), Covers(f[j], x)
  PROVE  i = j
<1>1. SUFFICES ASSUME NEW k \in 1..Len(f), NEW l \in 1..Len(f), k < l,
                      Covers(f[k], x), Covers(f[l], x)
               PROVE  FALSE
  <2>1. Len(f) \in Nat
    BY LenProperties DEF GoodList
  <2>. QED BY <1>1, <2>1
<1>2. End(f[k]) < f[l].at
  BY <1>1 DEF GoodList
<1>3. End(f[k]) \in Nat /\ f[l].at \in Nat
  BY FreeBlock, Zenon
<1>. QED BY <1>1, <1>2, <1>3 DEF Covers

LEMMA FirstFitFacts ==
  ASSUME NEW f, GoodList(f), NEW n \in Nat
  PROVE  /\ FirstFit(f, n) # 0 => FirstFit(f, n) \in 1..Len(f) /\ f[FirstFit(f, n)].size >= n
         /\ FirstFit(f, n) = 0 => \A i \in 1..Len(f) : f[i].size < n
<1> DEFINE fit == {i \in DOMAIN f : Fits(f[i], n)}
<1>1. DOMAIN f = 1..Len(f) /\ Len(f) \in Nat
  BY LenProperties DEF GoodList
<1>2. FirstFit(f, n) = IF fit = {} THEN 0 ELSE Min(fit)
  BY Zenon DEF FirstFit
<1>3. fit \subseteq Nat /\ \A i \in fit : i # 0 /\ i \in 1..Len(f) /\ f[i].size >= n
  BY <1>1 DEF Fits
<1>4. ASSUME fit = {}, NEW i \in 1..Len(f) PROVE f[i].size < n
  <2>1. ~(f[i].size >= n)
    BY <1>1, <1>4 DEF Fits
  <2>2. f[i].size \in Nat
    BY FreeBlock, Zenon
  <2>. QED BY <2>1, <2>2
<1>5. ASSUME fit # {} PROVE Min(fit) \in fit
  BY <1>3, <1>5, MinFacts, Zenon
<1>. HIDE DEF fit
<1>6. CASE fit = {}
  BY <1>2, <1>4, <1>6
<1>7. CASE fit # {}
  BY <1>2, <1>3, <1>5, <1>7
<1>. QED BY <1>6, <1>7

(* n bytes out of block i: the caller's bytes leave the list, no others do. *)
LEMMA TakeFacts ==
  ASSUME NEW f, GoodList(f), NEW i \in 1..Len(f),
         NEW n \in Nat, n % 8 = 0, f[i].size >= n
  PROVE  /\ GoodList(Without(f, i, n))
         /\ Served(f, i, n) \in Block /\ Placed(Served(f, i, n))
         /\ Served(f, i, n).size >= n
         /\ \A x \in Int :
              /\ Covered(f, x) <=> Covered(Without(f, i, n), x) \/ Covers(Served(f, i, n), x)
              /\ ~(Covered(Without(f, i, n), x) /\ Covers(Served(f, i, n), x))
<1> DEFINE b == f[i]
           s == Served(f, i, n)
           g == Without(f, i, n)
           l == Len(f)
<1>1. f \in Seq(Block) /\ l \in Nat
  BY LenProperties DEF GoodList
<1>2. /\ b.at \in Nat /\ b.size \in Nat /\ b = [at |-> b.at, size |-> b.size]
      /\ b.at % 8 = 0 /\ BASE <= b.at /\ b.at + 16 + b.size <= RAM_END
      /\ End(b) = b.at + 16 + b.size
  BY FreeBlock
<1>3. ASSUME NEW j \in 1..l
      PROVE  f[j].at \in Nat /\ End(f[j]) \in Nat /\ f[j] \in Block /\ Placed(f[j])
  <2>1. f[j].at \in Nat /\ End(f[j]) \in Nat
    BY FreeBlock, Zenon
  <2>2. f[j] \in Block
    BY ElementOfSeq DEF GoodList
  <2>. QED BY <2>1, <2>2 DEF GoodList
<1>4. \A j, k \in 1..l : j < k => End(f[j]) < f[k].at
  BY DEF GoodList
<1>5. CASE Splits(b, n)
  <2> DEFINE r == Remainder(b, n)
  <2>1. n + 24 <= b.size
    BY <1>5 DEF Splits, HeaderSize, ALIGN
  <2>2. s = [at |-> b.at, size |-> n]
    BY <1>2, <1>5 DEF Served
  <2>3. r = [at |-> b.at + 16 + n, size |-> b.size - n - 16]
    BY DEF Remainder, HeaderSize
  <2>4. s \in Block /\ Placed(s) /\ s.size >= n
    BY <1>2, <2>1, <2>2, BaseFacts, SMTT(30) DEF Block, Placed, End, HeaderSize, ALIGN
  <2>5. r \in Block /\ Placed(r) /\ End(r) = End(b) /\ r.at > b.at
    <3>1. r.at = b.at + 16 + n /\ r.size = b.size - n - 16
      BY <2>3
    <3>2. r.at \in Nat /\ r.size \in Nat /\ r.at > b.at
      BY <1>2, <2>1, <3>1, SMTT(30)
    <3>3. r.at % 8 = 0
      <4>. HIDE DEF b, r
      <4>. QED BY <1>2, <3>1, SMTT(30)
    <3>4. r \in Block
      BY <2>3, <3>1, <3>2 DEF Block
    <3>5. End(r) = End(b)
      <4>1. End(r) = r.at + 16 + r.size
        BY DEF End, HeaderSize
      <4>. HIDE DEF r, b
      <4>. QED BY <1>2, <3>1, <4>1
    <3>6. BASE <= r.at /\ End(r) <= RAM_END
      <4>. HIDE DEF r, b
      <4>. QED BY <1>2, <3>2, <3>5, BaseFacts, SMTT(30)
    <3>. HIDE DEF r, b
    <3>. QED BY <3>2, <3>3, <3>4, <3>5, <3>6 DEF Placed, ALIGN
  <2>6. g = [f EXCEPT ![i] = r]
    BY <1>5, Zenon DEF Without
  <2>7. g \in Seq(Block) /\ Len(g) = l /\ \A j \in 1..l : g[j] = IF j = i THEN r ELSE f[j]
    BY <1>1, <2>5, <2>6, ExceptSeq
  <2>8. \A x \in Int : /\ Covers(b, x) <=> Covers(r, x) \/ Covers(s, x)
                       /\ ~(Covers(r, x) /\ Covers(s, x))
    BY <1>2, <2>1, <2>2, <2>3, SMTT(30) DEF Covers, End, HeaderSize
  <2> HIDE DEF r, s, g, l
  <2>9. ASSUME NEW j \in 1..Len(g) PROVE Placed(g[j])
    BY <1>3, <2>5, <2>7
  <2>10. ASSUME NEW j \in 1..Len(g), NEW k \in 1..Len(g), j < k
         PROVE  End(g[j]) < g[k].at
    <3>1. End(f[j]) < f[k].at /\ f[k].at \in Nat /\ End(f[j]) \in Nat
      BY <1>3, <1>4, <2>7, <2>10
    <3>2. End(g[j]) = End(f[j])
      BY <2>5, <2>7
    <3>3. g[k].at >= f[k].at /\ g[k].at \in Nat
      <4>1. r.at \in Nat /\ b.at \in Nat
        BY <1>2, <2>5 DEF Block
      <4>2. g[k] = IF k = i THEN r ELSE f[k]
        BY <2>7
      <4>. QED BY <2>5, <3>1, <4>1, <4>2
    <3>. QED BY <3>1, <3>2, <3>3
  <2>11. GoodList(g)
    BY <2>7, <2>9, <2>10 DEF GoodList
  <2>12. ASSUME NEW x \in Int
         PROVE  /\ Covered(f, x) <=> Covered(g, x) \/ Covers(s, x)
                /\ ~(Covered(g, x) /\ Covers(s, x))
    <3>1. ASSUME Covered(f, x) PROVE Covered(g, x) \/ Covers(s, x)
      <4>1. PICK j \in 1..l : Covers(f[j], x)
        BY <3>1 DEF Covered, l
      <4>. QED BY <2>7, <2>8, <4>1 DEF Covered
    <3>2. ASSUME Covered(g, x) PROVE Covered(f, x) /\ ~Covers(s, x)
      <4>1. PICK j \in 1..l : Covers(g[j], x)
        BY <2>7, <3>2 DEF Covered
      <4>2. Covers(f[j], x)
        BY <2>7, <2>8, <4>1
      <4>3. CASE j = i
        BY <2>7, <2>8, <4>1, <4>2, <4>3 DEF Covered, l
      <4>4. CASE j # i
        <5>1. ~Covers(b, x)
          BY <4>2, <4>4, OneFreeBlock DEF l
        <5>. QED BY <2>8, <4>2, <5>1 DEF Covered, l
      <4>. QED BY <4>3, <4>4
    <3>3. ASSUME Covers(s, x) PROVE Covered(f, x)
      BY <2>8, <3>3 DEF Covered
    <3>. QED BY <3>1, <3>2, <3>3
  <2>. QED BY <2>4, <2>11, <2>12 DEF s, g
<1>6. CASE ~Splits(b, n)
  <2>1. s = b
    BY <1>2, <1>6 DEF Served
  <2>2. g = Splice(f, i - 1, i + 1, << >>)
    <3>1. g = SubSeq(f, 1, i - 1) \o SubSeq(f, i + 1, Len(f))
      BY <1>6, Zenon DEF Without, RemoveAt
    <3>2. SubSeq(f, 1, i - 1) \in Seq(Block)
      BY <1>1, <1>3, SubSeqProperties
    <3>3. SubSeq(f, 1, i - 1) \o << >> = SubSeq(f, 1, i - 1)
      BY <3>2, ConcatEmptySeq
    <3>. QED BY <3>1, <3>3, Zenon DEF Splice
  <2>3. << >> \in Seq(Block) /\ Len(<< >>) = 0
    OBVIOUS
  <2>4. /\ GoodList(g)
        /\ \A x : Covered(g, x) <=> \/ \E j \in 1..(i - 1) : Covers(f[j], x)
                                    \/ \E j \in (i + 1)..l : Covers(f[j], x)
                                    \/ Covered(<< >>, x)
    <3>1. i - 1 \in 0..l /\ i + 1 \in 1..(l + 1) /\ i - 1 < i + 1
      BY <1>1
    <3>2. \A j : j \notin 1..Len(<< >>)
      BY <2>3
    <3>. HIDE DEF g
    <3>. QED BY <2>2, <2>3, <3>1, <3>2, SpliceGood
  <2>5. \A x : Covered(g, x) <=> \E j \in 1..l : j # i /\ Covers(f[j], x)
    <3>1. \A x : ~Covered(<< >>, x)
      BY <2>3 DEF Covered
    <3>. HIDE DEF g
    <3>2. 1..l = {j \in 1..(i - 1) : TRUE} \cup {i} \cup {j \in (i + 1)..l : TRUE}
      BY <1>1
    <3>3. i \notin 1..(i - 1) /\ i \notin (i + 1)..l
      BY <1>1
    <3>. QED BY <2>4, <3>1, <3>2, <3>3, Zenon
  <2>6. \A x \in Int : /\ Covered(f, x) <=> Covered(g, x) \/ Covers(b, x)
                       /\ ~(Covered(g, x) /\ Covers(b, x))
    <3>. HIDE DEF g
    <3>. QED BY <2>5, OneFreeBlock DEF Covered
  <2>. QED BY <1>2, <1>3, <2>1, <2>4, <2>6
<1>. QED BY <1>5, <1>6

(* A block is split if the rest can be one. *)
LEMMA ServedSize ==
  ASSUME NEW f, NEW i, NEW n \in Nat, f[i] \in Block, f[i].size >= n
  PROVE  Served(f, i, n).size >= n /\ Served(f, i, n).size < n + HeaderSize + ALIGN
<1>1. f[i].size \in Nat /\ f[i] = [at |-> f[i].at, size |-> f[i].size]
  BY DEF Block
<1>2. CASE Splits(f[i], n)
  <2>1. Served(f, i, n).size = n
    BY <1>1, <1>2 DEF Served
  <2>. QED BY <2>1 DEF HeaderSize, ALIGN
<1>3. CASE ~Splits(f[i], n)
  <2>1. Served(f, i, n).size = f[i].size
    BY <1>1, <1>3 DEF Served
  <2>. QED BY <1>1, <1>3, <2>1 DEF Splits, HeaderSize, ALIGN
<1>. QED BY <1>2, <1>3

(* What a request that can be served does. *)
LEMMA AllocFacts ==
  ASSUME NEW f, GoodList(f), NEW n \in 1..(U32MOD - 1), CanAlloc(f, n)
  PROVE  /\ GoodList(AfterAlloc(f, n))
         /\ AllocOf(f, n) \in Block /\ Placed(AllocOf(f, n))
         /\ Suits(AllocOf(f, n).size, n)
         /\ \A x \in Int :
              /\ Covered(f, x) <=> Covered(AfterAlloc(f, n), x) \/ Covers(AllocOf(f, n), x)
              /\ ~(Covered(AfterAlloc(f, n), x) /\ Covers(AllocOf(f, n), x))
<1> DEFINE m == Rounded(n)
           i == FirstFit(f, m)
<1>1. m \in Nat /\ m >= (IF Wraps(n) THEN 0 ELSE n) /\ m % 8 = 0
  BY RoundedFacts
<1>2. i # 0
  BY DEF CanAlloc
<1>3. i \in 1..Len(f) /\ f[i].size >= m
  <2>. HIDE DEF m
  <2>. QED BY <1>1, <1>2, FirstFitFacts, Zenon
<1>4. AllocOf(f, n) = Served(f, i, m) /\ AfterAlloc(f, n) = Without(f, i, m)
  BY Zenon DEF AllocOf, AfterAlloc
<1>. HIDE DEF m, i
<1>5. /\ GoodList(Without(f, i, m))
      /\ Served(f, i, m) \in Block /\ Placed(Served(f, i, m))
      /\ \A x \in Int :
           /\ Covered(f, x) <=> Covered(Without(f, i, m), x) \/ Covers(Served(f, i, m), x)
           /\ ~(Covered(Without(f, i, m), x) /\ Covers(Served(f, i, m), x))
  BY <1>1, <1>3, TakeFacts
<1>6. Served(f, i, m).size >= m /\ Served(f, i, m).size < m + HeaderSize + ALIGN
  <2>1. f[i] \in Block
    BY <1>3, ElementOfSeq DEF GoodList
  <2>. QED BY <1>1, <1>3, <2>1, ServedSize
<1>7. Suits(Served(f, i, m).size, n)
  <2>1. Served(f, i, m).size \in Nat /\ n \in Nat
    BY <1>5, HeapAssumption DEF Block
  <2>2. Rounded(n) = m
    BY DEF m
  <2>. QED BY <1>1, <1>6, <2>1, <2>2 DEF Suits
<1>. QED BY <1>4, <1>5, <1>6, <1>7, Zenon

-----------------------------------------------------------------------------
(* Release. *)

(* One block between the first p blocks and those from q on. *)
LEMMA PutFacts ==
  ASSUME NEW f, GoodList(f), NEW c \in Block, Placed(c),
         NEW p \in 0..Len(f), NEW q \in 1..(Len(f) + 1), p < q,
         \A i \in 1..p : End(f[i]) < c.at,
         \A i \in q..Len(f) : End(c) < f[i].at
  PROVE  /\ GoodList(Splice(f, p, q, << c >>))
         /\ \A x : Covered(Splice(f, p, q, << c >>), x) <=>
                     \/ \E i \in 1..p : Covers(f[i], x)
                     \/ \E i \in q..Len(f) : Covers(f[i], x)
                     \/ Covers(c, x)
<1> DEFINE h == << c >>
<1>1. h \in Seq(Block) /\ Len(h) = 1 /\ h[1] = c
  OBVIOUS
<1>2. \A i : i \in 1..Len(h) <=> i = 1
  BY <1>1
<1>3. \A x : Covered(h, x) <=> Covers(c, x)
  <2>. HIDE DEF h
  <2>. QED BY <1>1, <1>2, Zenon DEF Covered
<1>. HIDE DEF h
<1>4. /\ \A i \in 1..Len(h) : Placed(h[i])
      /\ \A i \in 1..p, j \in 1..Len(h) : End(f[i]) < h[j].at
      /\ \A i \in 1..Len(h), j \in q..Len(f) : End(h[i]) < f[j].at
  BY <1>1, <1>2, Zenon
<1>5. \A i, j \in 1..Len(h) : i < j => End(h[i]) < h[j].at
  BY <1>1
<1>6. /\ GoodList(Splice(f, p, q, h))
      /\ \A x : Covered(Splice(f, p, q, h), x) <=>
                     \/ \E i \in 1..p : Covers(f[i], x)
                     \/ \E i \in q..Len(f) : Covers(f[i], x)
                     \/ Covered(h, x)
  BY <1>1, <1>4, <1>5, SpliceGood
<1>. QED BY <1>3, <1>6, Zenon DEF h

(* Two blocks of which the second begins where the first ends. *)
LEMMA JoinFacts ==
  ASSUME NEW a \in Block, NEW c \in Block, Placed(a), Placed(c), End(a) = c.at
  PROVE  /\ Joined(a, c) \in Block /\ Placed(Joined(a, c))
         /\ Joined(a, c).at = a.at /\ End(Joined(a, c)) = End(c)
         /\ \A x \in Int : Covers(Joined(a, c), x) <=> Covers(a, x) \/ Covers(c, x)
<1> DEFINE j == Joined(a, c)
<1>1. a.at \in Nat /\ a.size \in Nat /\ c.at \in Nat /\ c.size \in Nat
  BY DEF Block
<1>2. j = [at |-> a.at, size |-> a.size + c.size + 16]
  BY DEF Joined, HeaderSize, Block
<1>3. j.at = a.at /\ j.size = a.size + c.size + 16
  BY <1>2
<1>4. j \in Block
  BY <1>1, <1>2 DEF Block
<1>. HIDE DEF j
<1>5. /\ End(a) = a.at + 16 + a.size
      /\ End(c) = c.at + 16 + c.size
      /\ End(j) = j.at + 16 + j.size
  BY DEF End, HeaderSize
<1>6. End(j) = End(c)
  <2>1. c.at = a.at + 16 + a.size
    BY <1>5
  <2>2. a.at + 16 + (a.size + c.size + 16) = (a.at + 16 + a.size) + 16 + c.size
    BY <1>1
  <2>3. End(j) = a.at + 16 + (a.size + c.size + 16)
    BY <1>3, <1>5, Zenon
  <2>4. End(c) = (a.at + 16 + a.size) + 16 + c.size
    BY <1>5, <2>1, Zenon
  <2>. QED BY <2>2, <2>3, <2>4, Zenon
<1>7. Placed(j)
  BY <1>3, <1>6 DEF Placed
<1>8. \A x \in Int : Covers(j, x) <=> Covers(a, x) \/ Covers(c, x)
  BY <1>1, <1>3, <1>5, <1>6 DEF Covers
<1>. QED BY <1>3, <1>4, <1>6, <1>7, <1>8 DEF j

(* A block that shares no byte with the list lies between its blocks. *)
Clear(f, b) == \A x \in Int : ~(Covers(b, x) /\ Covered(f, x))

LEMMA BlockFacts ==
  ASSUME NEW b \in Block
  PROVE  /\ b.at \in Nat /\ b.size \in Nat /\ End(b) = b.at + 16 + b.size /\ End(b) \in Nat
         /\ End(b) > b.at
BY DEF Block, End, HeaderSize

LEMMA ApartFacts ==
  ASSUME NEW f, GoodList(f), NEW b \in Block, Clear(f, b), NEW i \in 1..Len(f)
  PROVE  End(f[i]) <= b.at \/ End(b) <= f[i].at
<1>1. f[i] \in Block
  BY ElementOfSeq DEF GoodList
<1>2. f[i].at \in Nat /\ End(f[i]) \in Nat /\ End(f[i]) > f[i].at
  BY <1>1, BlockFacts, Zenon
<1>3. b.at \in Nat /\ End(b) \in Nat /\ End(b) > b.at
  BY BlockFacts, Zenon
<1>4. ~(Covers(b, b.at) /\ Covers(f[i], b.at)) /\ ~(Covers(b, f[i].at) /\ Covers(f[i], f[i].at))
  BY <1>2, <1>3 DEF Clear, Covered
<1>. QED BY <1>2, <1>3, <1>4 DEF Covers

(* Where the walk from HEAD ends: behind the last block below b, or, if no  *)
(* block is above or touching, at the end of the list.                      *)
LEMMA WalkFacts ==
  ASSUME NEW f, GoodList(f), NEW b \in Block, Clear(f, b), f # << >>, ~(b.at < f[1].at)
  PROVE  LET i == WalkEnd(f, b) IN
         /\ i = 0 => \A j \in 1..Len(f) : End(f[j]) < b.at
         /\ i # 0 => /\ i \in 1..Len(f) /\ f[i].at < b.at /\ End(f[i]) <= b.at
                     /\ i < Len(f) => End(b) <= f[i + 1].at
<1> DEFINE stops == {i \in DOMAIN f : \/ f[i].at = b.at
                                      \/ Upward(f, i, b)
                                      \/ Downward(f, i, b)
                                      \/ i < Len(f) /\ b.at < f[i + 1].at}
           n == Len(f)
           w == WalkEnd(f, b)
<1>1. f \in Seq(Block) /\ n \in Nat /\ n >= 1 /\ DOMAIN f = 1..n
  <2>1. f \in Seq(Block)
    BY DEF GoodList
  <2>. QED BY <2>1, EmptySeq, LenProperties
<1>2. ASSUME NEW j \in 1..n
      PROVE  f[j].at \in Nat /\ End(f[j]) \in Nat /\ End(f[j]) > f[j].at
  <2>1. f[j] \in Block
    BY ElementOfSeq DEF GoodList
  <2>. QED BY <2>1, BlockFacts, Zenon
<1>3. b.at \in Nat /\ End(b) \in Nat /\ End(b) > b.at
  BY BlockFacts, Zenon
<1>4. ASSUME NEW j \in 1..n
      PROVE  End(f[j]) <= b.at \/ End(b) <= f[j].at
  BY ApartFacts, Zenon
<1>5. w = IF stops = {} THEN 0 ELSE Min(stops)
  BY Zenon DEF WalkEnd
<1>6. \A j \in 1..n : j \notin stops =>
        /\ f[j].at # b.at
        /\ End(f[j]) # b.at
        /\ j < n => ~(b.at < f[j + 1].at)
  BY <1>1 DEF Upward, Downward
<1>7. \A j \in stops : /\ j \in 1..n
                       /\ \/ f[j].at = b.at
                          \/ j < n /\ End(b) = f[j + 1].at
                          \/ End(f[j]) = b.at
                          \/ j < n /\ b.at < f[j + 1].at
  BY <1>1 DEF Upward, Downward
<1>8. stops # {} => Min(stops) \in stops /\ \A j \in stops : Min(stops) <= j
  <2>1. stops \subseteq Nat
    BY <1>1
  <2>. HIDE DEF stops
  <2>. QED BY <2>1, MinFacts
<1>9. \A j, k \in 1..n : j < k => End(f[j]) < f[k].at
  BY DEF GoodList
<1>. HIDE DEF stops, w, n
<1>10. f[1].at <= b.at /\ f[1].at # b.at
  <2>1. 1 \in 1..n
    BY <1>1
  <2>2. f[1].at \in Nat /\ End(f[1]) \in Nat /\ End(f[1]) > f[1].at
    BY <1>2, <2>1, Zenon
  <2>3. End(f[1]) <= b.at \/ End(b) <= f[1].at
    BY <1>4, <2>1, Zenon
  <2>. QED BY <1>3, <2>2, <2>3
(* A block whose predecessor is no stop is below b. *)
<1>11. ASSUME NEW j \in 1..n, j = 1 \/ (j - 1 \in 1..n /\ j - 1 \notin stops)
       PROVE  f[j].at < b.at /\ End(f[j]) <= b.at
  <2>1. f[j].at \in Nat /\ End(f[j]) \in Nat /\ End(f[j]) > f[j].at
    BY <1>2
  <2>2. ~(b.at < f[j].at)
    <3>1. CASE j = 1
      BY <3>1
    <3>2. CASE j - 1 \in 1..n /\ j - 1 \notin stops
      <4>1. j - 1 < n /\ (j - 1) + 1 = j
        BY <1>1, <3>2
      <4>. QED BY <1>6, <3>2, <4>1, Zenon
    <3>. QED BY <1>11, <3>1, <3>2
  <2>3. End(f[j]) <= b.at \/ End(b) <= f[j].at
    BY <1>4
  <2>. QED BY <1>3, <2>1, <2>2, <2>3
<1>12. ASSUME w = 0, NEW j \in 1..n PROVE End(f[j]) < b.at
  <2>1. stops = {}
    <3>1. 0 \notin 1..n
      BY <1>1
    <3>. QED BY <1>5, <1>7, <1>8, <1>12, <3>1, Zenon
  <2>2. j = 1 \/ j - 1 \in 1..n
    BY <1>1
  <2>3. End(f[j]) <= b.at /\ End(f[j]) # b.at
    BY <1>6, <1>11, <2>1, <2>2
  <2>. QED BY <1>2, <1>3, <2>3
<1>13. ASSUME w # 0
       PROVE  /\ w \in 1..n /\ f[w].at < b.at /\ End(f[w]) <= b.at
              /\ w < n => End(b) <= f[w + 1].at
  <2>1. w \in stops /\ w \in 1..n /\ \A j \in stops : w <= j
    BY <1>5, <1>7, <1>8, <1>13
  <2>2. w = 1 \/ (w - 1 \in 1..n /\ w - 1 \notin stops)
    BY <1>1, <2>1
  <2>3. f[w].at < b.at /\ End(f[w]) <= b.at
    BY <1>11, <2>1, <2>2
  <2>4. ASSUME w < n PROVE End(b) <= f[w + 1].at
    <3>1. w + 1 \in 1..n /\ w < w + 1
      BY <1>1, <2>1, <2>4
    <3>2. f[w + 1].at \in Nat /\ End(f[w + 1]) \in Nat /\ End(f[w + 1]) > f[w + 1].at
      BY <1>2, <3>1, Zenon
    <3>3. End(f[w + 1]) <= b.at \/ End(b) <= f[w + 1].at
      BY <1>4, <3>1, Zenon
    <3>4. End(f[w]) < f[w + 1].at
      BY <1>9, <2>1, <3>1
    <3>5. f[w].at \in Nat /\ End(f[w]) \in Nat
      BY <1>2, <2>1
    <3>6. \/ f[w].at = b.at
          \/ w < n /\ End(b) = f[w + 1].at
          \/ End(f[w]) = b.at
          \/ w < n /\ b.at < f[w + 1].at
      BY <1>7, <2>1
    <3>. QED BY <1>3, <2>3, <3>2, <3>3, <3>4, <3>5, <3>6
  <2>. QED BY <2>1, <2>3, <2>4
<1>. QED BY <1>12, <1>13 DEF w, n

LEMMA TwoOf ==
  ASSUME NEW a \in Block, NEW c \in Block
  PROVE  << a >> \o << c >> = << a, c >>
<1> DEFINE s == << a >>
           t == << c >>
           u == << a, c >>
<1>1. s \in Seq(Block) /\ Len(s) = 1 /\ s[1] = a
  OBVIOUS
<1>2. t \in Seq(Block) /\ Len(t) = 1 /\ t[1] = c
  OBVIOUS
<1>3. u \in Seq(Block) /\ Len(u) = 2 /\ u[1] = a /\ u[2] = c
  OBVIOUS
<1>. HIDE DEF s, t, u
<1>4. /\ s \o t \in Seq(Block)
      /\ Len(s \o t) = Len(s) + Len(t)
      /\ \A i \in 1..(Len(s) + Len(t)) : (s \o t)[i] = IF i <= Len(s) THEN s[i] ELSE t[i - Len(s)]
  BY <1>1, <1>2, ConcatProperties
<1>5. Len(s \o t) = 2 /\ (s \o t)[1] = a /\ (s \o t)[2] = c
  BY <1>1, <1>2, <1>4
<1>6. \A i \in 1..2 : i = 1 \/ i = 2
  OBVIOUS
<1>7. s \o t = u
  BY <1>3, <1>4, <1>5, <1>6, SeqEqual
<1>. QED BY <1>7 DEF s, t, u

(* b linked behind block i, with the coalescing the code does. *)
LEMMA BehindFacts ==
  ASSUME NEW f, GoodList(f), NEW b \in Block, Placed(b),
         NEW i \in 1..Len(f), End(f[i]) <= b.at,
         i < Len(f) => End(b) <= f[i + 1].at
  PROVE  /\ GoodList(LinkedBehind(f, i, b))
         /\ \A x \in Int : Covered(LinkedBehind(f, i, b), x) <=> Covered(f, x) \/ Covers(b, x)
<1> DEFINE n    == Len(f)
           up   == Upward(f, i, b)
           down == Downward(f, i, b)
           c    == IF up THEN Joined(b, f[i + 1]) ELSE b
           d    == IF down THEN Joined(f[i], c) ELSE c
           p    == IF down THEN i - 1 ELSE i
           q    == i + (IF up THEN 2 ELSE 1)
           g    == LinkedBehind(f, i, b)
<1>1. f \in Seq(Block) /\ n \in Nat /\ i \in Nat /\ 1 <= i /\ i <= n
  BY LenProperties DEF GoodList
<1>2. /\ \A j \in 1..n : /\ f[j] \in Block /\ Placed(f[j]) /\ f[j].at \in Nat
                         /\ End(f[j]) \in Nat /\ End(f[j]) > f[j].at
  <2>1. ASSUME NEW j \in 1..n
        PROVE  f[j] \in Block /\ Placed(f[j])
    BY ElementOfSeq DEF GoodList
  <2>. QED BY <2>1, BlockFacts, Zenon
<1>3. \A j, k \in 1..n : j < k => End(f[j]) < f[k].at
  BY DEF GoodList
<1>4. b.at \in Nat /\ End(b) \in Nat /\ End(b) > b.at
  BY BlockFacts, Zenon
<1>5. up <=> i < n /\ End(b) = f[i + 1].at
  BY DEF Upward
<1>6. down <=> End(f[i]) = b.at
  BY DEF Downward
<1>7. i < n => i + 1 \in 1..n
  BY <1>1
(* c: b with the block above it, if that one touches. *)
<1>8. /\ c \in Block /\ Placed(c) /\ c.at = b.at
      /\ End(c) = IF up THEN End(f[i + 1]) ELSE End(b)
      /\ \A x \in Int : Covers(c, x) <=> Covers(b, x) \/ (up /\ Covers(f[i + 1], x))
  <2>1. CASE up
    <3>1. f[i + 1] \in Block /\ Placed(f[i + 1]) /\ End(b) = f[i + 1].at
      BY <1>2, <1>5, <1>7, <2>1, Zenon
    <3>2. c = Joined(b, f[i + 1])
      BY <2>1, Zenon
    <3>. HIDE DEF c, up
    <3>. QED BY <2>1, <3>1, <3>2, JoinFacts
  <2>2. CASE ~up
    BY <2>2, Zenon
  <2>. QED BY <2>1, <2>2
<1>. HIDE DEF c, up, down, n
(* d: that with the block below it, if that one touches. *)
<1>9. /\ d \in Block /\ Placed(d)
      /\ d.at = IF down THEN f[i].at ELSE b.at
      /\ End(d) = End(c)
      /\ \A x \in Int : Covers(d, x) <=> Covers(c, x) \/ (down /\ Covers(f[i], x))
  <2>1. CASE down
    <3>1. f[i] \in Block /\ Placed(f[i]) /\ End(f[i]) = c.at
      BY <1>2, <1>6, <1>8, <2>1 DEF n
    <3>2. d = Joined(f[i], c)
      BY <2>1, Zenon
    <3>. HIDE DEF d
    <3>. QED BY <1>8, <2>1, <3>1, <3>2, JoinFacts
  <2>2. CASE ~down
    BY <1>8, <2>2, Zenon
  <2>. QED BY <2>1, <2>2
<1>10. g = Splice(f, p, q, << d >>)
  <2> DEFINE s == SubSeq(f, 1, i - 1)
             t == SubSeq(f, q, n)
             here == IF down THEN << d >> ELSE << f[i], c >>
  <2>1. g = s \o here \o t
    BY Zenon DEF LinkedBehind, c, up, down, n
  <2>2. CASE down
    BY <2>1, <2>2, Zenon DEF Splice, n
  <2>3. CASE ~down
    <3>1. s \in Seq(Block)
      BY <1>1, <1>2, SubSeqProperties
    <3>2. d = c /\ p = i
      BY <2>3, Zenon
    <3>3. SubSeq(f, 1, i) = s \o << f[i] >>
      <4>1. 1 \in 1..n /\ i \in 1..n
        BY <1>1
      <4>. QED BY <1>1, <4>1, SubSeqRecursiveSecond DEF n
    <3>4. << f[i] >> \in Seq(Block) /\ << c >> \in Seq(Block)
      BY <1>1, <1>2, <1>8
    <3>5. (s \o << f[i] >>) \o << c >> = s \o (<< f[i] >> \o << c >>)
      <4>. HIDE DEF s
      <4>. QED BY <3>1, <3>4, ConcatAssociative
    <3>6. << f[i] >> \o << c >> = << f[i], c >>
      <4>1. f[i] \in Block
        BY <1>1, <1>2
      <4>. QED BY <1>8, <4>1, TwoOf, Zenon
    <3>7. here = << f[i], c >>
      BY <2>3, Zenon
    <3>. HIDE DEF s, t, d, p, q, here
    <3>8. g = (SubSeq(f, 1, i) \o << d >>) \o t
      BY <2>1, <3>2, <3>3, <3>5, <3>6, <3>7, Zenon
    <3>. QED BY <3>2, <3>8, Zenon DEF Splice, t, n
  <2>. QED BY <2>2, <2>3
<1>11. /\ p \in 0..n /\ q \in 1..(n + 1) /\ p < q
  BY <1>1, <1>5
<1>. HIDE DEF d
<1>12. ASSUME NEW j \in 1..p PROVE End(f[j]) < d.at
  <2>1. j \in 1..n /\ i \in 1..n
    BY <1>1
  <2>2. f[i].at \in Nat /\ End(f[j]) \in Nat /\ End(f[i]) \in Nat /\ End(f[i]) > f[i].at
    BY <1>2, <2>1
  <2>3. CASE down
    <3>1. j < i
      BY <1>1, <2>3
    <3>. QED BY <1>3, <1>9, <2>1, <2>3, <3>1
  <2>4. CASE ~down
    <3>1. End(f[i]) < b.at
      BY <1>4, <1>6, <2>2, <2>4
    <3>2. j = i \/ j < i
      BY <1>1, <2>4
    <3>3. End(f[j]) <= End(f[i])
      BY <1>3, <2>1, <2>2, <3>2
    <3>. QED BY <1>4, <1>9, <2>2, <2>4, <3>1, <3>3
  <2>. QED BY <2>3, <2>4
<1>13. ASSUME NEW j \in q..n PROVE End(d) < f[j].at
  <2>1. i < n /\ i + 1 \in 1..n /\ j \in 1..n /\ i + 1 <= j
    BY <1>1
  <2>2. /\ f[i + 1].at \in Nat /\ End(f[i + 1]) \in Nat /\ End(f[i + 1]) > f[i + 1].at
        /\ f[j].at \in Nat /\ End(f[j]) \in Nat
    BY <1>2, <2>1, Zenon
  <2>3. CASE up
    <3>1. i + 1 < j
      BY <1>1, <2>1, <2>3
    <3>2. End(f[i + 1]) < f[j].at
      BY <1>3, <2>1, <3>1
    <3>. QED BY <1>8, <1>9, <2>3, <3>2
  <2>4. CASE ~up
    <3>1. End(b) < f[i + 1].at
      BY <1>4, <1>5, <2>1, <2>2, <2>4 DEF n
    <3>2. i + 1 = j \/ i + 1 < j
      BY <1>1, <2>1
    <3>3. f[i + 1].at <= f[j].at
      <4>1. CASE i + 1 = j
        BY <2>2, <4>1
      <4>2. CASE i + 1 < j
        <5>1. End(f[i + 1]) < f[j].at
          BY <1>3, <2>1, <4>2
        <5>. QED BY <2>2, <5>1
      <4>. QED BY <3>2, <4>1, <4>2
    <3>. QED BY <1>4, <1>8, <1>9, <2>2, <2>4, <3>1, <3>3
  <2>. QED BY <2>3, <2>4
<1>. HIDE DEF g
<1>14. /\ GoodList(g)
       /\ \A x : Covered(g, x) <=> \/ \E j \in 1..p : Covers(f[j], x)
                                   \/ \E j \in q..n : Covers(f[j], x)
                                   \/ Covers(d, x)
  <2>. HIDE DEF p, q
  <2>. QED BY <1>9, <1>10, <1>11, <1>12, <1>13, PutFacts DEF n
<1>15. /\ \A j \in 1..n : j \in 1..p \/ j \in q..n \/ (up /\ j = i + 1) \/ (down /\ j = i)
       /\ 1..p \subseteq 1..n /\ q..n \subseteq 1..n /\ i \in 1..n /\ (up => i + 1 \in 1..n)
  BY <1>1, <1>5
<1>16. ASSUME NEW x \in Int
       PROVE  Covered(g, x) <=> Covered(f, x) \/ Covers(b, x)
  <2>1. Covers(d, x) <=> \/ Covers(b, x)
                         \/ up /\ Covers(f[i + 1], x)
                         \/ down /\ Covers(f[i], x)
    BY <1>8, <1>9
  <2>2. Covered(f, x) <=> \/ \E j \in 1..p : Covers(f[j], x)
                          \/ \E j \in q..n : Covers(f[j], x)
                          \/ up /\ Covers(f[i + 1], x)
                          \/ down /\ Covers(f[i], x)
    <3>. HIDE DEF p, q
    <3>. QED BY <1>15, Zenon DEF Covered, n
  <2>. HIDE DEF p, q
  <2>. QED BY <1>14, <2>1, <2>2, Zenon
<1>. QED BY <1>14, <1>16 DEF g

(* b linked in front of HEAD, with the coalescing the code does. *)
LEMMA FirstFacts ==
  ASSUME NEW f, GoodList(f), NEW b \in Block, Placed(b), Clear(f, b),
         f # << >>, b.at < f[1].at
  PROVE  /\ GoodList(LinkedFirst(f, b))
         /\ \A x \in Int : Covered(LinkedFirst(f, b), x) <=> Covered(f, x) \/ Covers(b, x)
<1> DEFINE n == Len(f)
           g == LinkedFirst(f, b)
<1>1. f \in Seq(Block) /\ n \in Nat /\ n >= 1
  <2>1. f \in Seq(Block)
    BY DEF GoodList
  <2>. QED BY <2>1, EmptySeq, LenProperties
<1>2. \A j \in 1..n : /\ f[j] \in Block /\ Placed(f[j]) /\ f[j].at \in Nat
                      /\ End(f[j]) \in Nat /\ End(f[j]) > f[j].at
  <2>1. ASSUME NEW j \in 1..n
        PROVE  f[j] \in Block /\ Placed(f[j])
    BY ElementOfSeq DEF GoodList
  <2>. QED BY <2>1, BlockFacts, Zenon
<1>3. \A j, k \in 1..n : j < k => End(f[j]) < f[k].at
  BY DEF GoodList
<1>4. b.at \in Nat /\ End(b) \in Nat /\ End(b) > b.at
  BY BlockFacts, Zenon
<1>5. 1 \in 1..n /\ \A j : j \notin 1..0
  BY <1>1
<1>6. End(b) <= f[1].at
  <2>1. End(f[1]) <= b.at \/ End(b) <= f[1].at
    BY <1>5, ApartFacts, Zenon
  <2>2. f[1].at \in Nat /\ End(f[1]) \in Nat /\ End(f[1]) > f[1].at
    BY <1>2, <1>5
  <2>. QED BY <1>4, <2>1, <2>2
<1>7. ASSUME NEW j \in 2..n PROVE j \in 1..n /\ End(f[1]) < f[j].at /\ f[1].at < f[j].at
  <2>1. j \in 1..n /\ 1 < j
    BY <1>1
  <2>2. End(f[1]) < f[j].at
    BY <1>3, <1>5, <2>1
  <2>. QED BY <1>2, <1>5, <2>1, <2>2
<1>8. SubSeq(f, 1, 0) = << >>
  BY SubSeqEmpty
<1>9. ASSUME NEW d \in Block PROVE << >> \o << d >> = << d >>
  <2>1. << d >> \in Seq(Block)
    OBVIOUS
  <2>. QED BY <2>1, ConcatEmptySeq
<1>10. CASE End(b) = f[1].at
  <2> DEFINE d == Joined(b, f[1])
  <2>1. /\ d \in Block /\ Placed(d) /\ d.at = b.at /\ End(d) = End(f[1])
        /\ \A x \in Int : Covers(d, x) <=> Covers(b, x) \/ Covers(f[1], x)
    BY <1>2, <1>5, <1>10, JoinFacts
  <2>2. Tail(f) = SubSeq(f, 2, n)
    BY <1>1, TailIsSubSeq
  <2>3. g = << d >> \o Tail(f)
    BY <1>10, Zenon DEF LinkedFirst
  <2>. HIDE DEF d
  <2>4. g = Splice(f, 0, 2, << d >>)
    BY <1>8, <1>9, <2>1, <2>2, <2>3, Zenon DEF Splice, n
  <2>5. /\ GoodList(g)
        /\ \A x : Covered(g, x) <=> \/ \E j \in 1..0 : Covers(f[j], x)
                                    \/ \E j \in 2..n : Covers(f[j], x)
                                    \/ Covers(d, x)
    <3>1. 0 \in 0..n /\ 2 \in 1..(n + 1) /\ 0 < 2
      BY <1>1
    <3>2. \A j \in 1..0 : End(f[j]) < d.at
      BY <1>5
    <3>3. \A j \in 2..n : End(d) < f[j].at
      BY <1>7, <2>1
    <3>. HIDE DEF g
    <3>. QED BY <2>1, <2>4, <3>1, <3>2, <3>3, PutFacts DEF n
  <2>6. \A j : j \in 1..n <=> j = 1 \/ j \in 2..n
    BY <1>1
  <2>7. ASSUME NEW x \in Int PROVE Covered(g, x) <=> Covered(f, x) \/ Covers(b, x)
    <3>. HIDE DEF g
    <3>. QED BY <1>5, <2>1, <2>5, <2>6, Zenon DEF Covered, n
  <2>. QED BY <2>5, <2>7
<1>11. CASE End(b) # f[1].at
  <2>1. g = << b >> \o f
    BY <1>11, Zenon DEF LinkedFirst
  <2>2. g = Splice(f, 0, 1, << b >>)
    <3>1. SubSeq(f, 1, n) = f
      BY <1>1, SubSeqFull
    <3>. QED BY <1>8, <1>9, <2>1, <3>1, Zenon DEF Splice, n
  <2>3. End(b) < f[1].at
    BY <1>2, <1>4, <1>5, <1>6, <1>11
  <2>4. /\ GoodList(g)
        /\ \A x : Covered(g, x) <=> \/ \E j \in 1..0 : Covers(f[j], x)
                                    \/ \E j \in 1..n : Covers(f[j], x)
                                    \/ Covers(b, x)
    <3>1. 0 \in 0..n /\ 1 \in 1..(n + 1) /\ 0 < 1
      BY <1>1
    <3>2. \A j \in 1..0 : End(f[j]) < b.at
      BY <1>5
    <3>3. ASSUME NEW j \in 1..n PROVE End(b) < f[j].at
      <4>1. f[1].at \in Nat /\ f[j].at \in Nat
        BY <1>2, <1>5
      <4>2. j = 1 \/ j \in 2..n
        BY <1>1
      <4>3. f[1].at <= f[j].at
        BY <1>7, <4>1, <4>2
      <4>. QED BY <1>4, <2>3, <4>1, <4>3
    <3>. HIDE DEF g
    <3>. QED BY <2>2, <3>1, <3>2, <3>3, PutFacts DEF n
  <2>5. ASSUME NEW x \in Int PROVE Covered(g, x) <=> Covered(f, x) \/ Covers(b, x)
    <3>. HIDE DEF g
    <3>. QED BY <1>5, <2>4, Zenon DEF Covered, n
  <2>. QED BY <2>4, <2>5
<1>. QED BY <1>10, <1>11

(* Release: a block that shares no byte with the list is taken in, unless it *)
(* lies behind the last free block and does not touch it.                    *)
LEMMA WithBlockFacts ==
  ASSUME NEW f, GoodList(f), NEW b \in Block, Placed(b), Clear(f, b)
  PROVE  /\ Accepts(f, b) =>
              /\ GoodList(WithBlock(f, b))
              /\ \A x \in Int : Covered(WithBlock(f, b), x) <=> Covered(f, x) \/ Covers(b, x)
         /\ ~Accepts(f, b) => \A i \in 1..Len(f) : End(f[i]) < b.at
<1> DEFINE g == WithBlock(f, b)
           i == WalkEnd(f, b)
<1>1. /\ Covers(b, b.at) /\ ~Covered(f, b.at) /\ b.at \in Int
  BY BlockFacts DEF Covers, Clear
(* A list with one byte more is another list. *)
<1>2. ASSUME \A x \in Int : Covered(g, x) <=> Covered(f, x) \/ Covers(b, x)
      PROVE  Accepts(f, b)
  <2>1. Covered(g, b.at)
    BY <1>1, <1>2
  <2>2. g # f
    <3>. HIDE DEF g
    <3>. QED BY <1>1, <2>1
  <2>. QED BY <2>2, Zenon DEF Accepts
<1>3. CASE f # << >> /\ b.at < f[1].at
  <2>1. g = LinkedFirst(f, b)
    BY <1>3, Zenon DEF WithBlock
  <2>2. /\ GoodList(g)
        /\ \A x \in Int : Covered(g, x) <=> Covered(f, x) \/ Covers(b, x)
    <3>. HIDE DEF g
    <3>. QED BY <1>3, <2>1, FirstFacts
  <2>. QED BY <1>2, <2>2, Zenon
<1>4. CASE f = << >>
  <2>1. \A j : j \notin 1..Len(f)
    BY <1>4
  <2>2. DOMAIN f = {}
    BY <1>4
  <2>3. i = 0
    BY <2>2, Zenon DEF WalkEnd
  <2>4. g = f
    BY <1>4, <2>3, Zenon DEF WithBlock
  <2>. QED BY <2>1, <2>4, Zenon DEF Accepts
<1>5. CASE f # << >> /\ ~(b.at < f[1].at)
  <2>1. /\ i = 0 => \A j \in 1..Len(f) : End(f[j]) < b.at
        /\ i # 0 => /\ i \in 1..Len(f) /\ f[i].at < b.at /\ End(f[i]) <= b.at
                    /\ i < Len(f) => End(b) <= f[i + 1].at
    BY <1>5, WalkFacts
  <2>2. CASE i = 0
    <3>1. g = f
      BY <1>5, <2>2, Zenon DEF WithBlock
    <3>. QED BY <2>1, <2>2, <3>1, Zenon DEF Accepts
  <2>3. CASE i # 0
    <3>1. f[i].at # b.at
      <4>1. f[i].at \in Nat
        BY <2>1, <2>3, FreeBlock, Zenon
      <4>. QED BY <1>1, <2>1, <2>3, <4>1
    <3>2. g = LinkedBehind(f, i, b)
      BY <1>5, <2>3, <3>1, Zenon DEF WithBlock
    <3>3. /\ GoodList(g)
          /\ \A x \in Int : Covered(g, x) <=> Covered(f, x) \/ Covers(b, x)
      <4>. HIDE DEF g, i
      <4>. QED BY <2>1, <2>3, <3>2, BehindFacts
    <3>. QED BY <1>2, <3>3, Zenon
  <2>. QED BY <2>2, <2>3
<1>. QED BY <1>3, <1>4, <1>5

-----------------------------------------------------------------------------
(* The heap. *)

(* The calls the code mishandles are not made. *)
Careful == Defects \subseteq Avoid

HeldBlock == [at : Nat, size : Nat, tid : Tasks, asked : Nat, use : Use]

(* Every byte of the heap is in a free block or in a held one, and in only  *)
(* one: f is the free list and hs are the held blocks.                      *)
NoneTwice(f, hs) ==
  \A b \in hs : \A x \in Int : Covers(b, x) =>
    ~Covered(f, x) /\ \A c \in hs : Covers(c, x) => c = b

NoneLost(f, hs) ==
  \A x \in BASE..(RAM_END - 1) : Covered(f, x) \/ \E b \in hs : Covers(b, x)

Good(f, hs) ==
  /\ GoodList(f)
  /\ hs \subseteq HeldBlock
  /\ \A b \in hs : Placed(b) /\ Suits(b.size, b.asked)
  /\ NoneTwice(f, hs)
  /\ NoneLost(f, hs)

(* Every message has a node and a text of its own. *)
MailHeld ==
  /\ \A m \in mail : /\ m.node \in held /\ m.node.use = "node"
                     /\ m.text \in held /\ m.text.use = "text"
  /\ \A m, l \in mail : m.node = l.node \/ m.text = l.text => m = l

(* What a direct call has found is still what it would find. *)
FoundFits ==
  found # NoCall =>
    /\ found.asked \in Requests
    /\ CanAlloc(free, found.asked)
    /\ found.block = free[FirstFit(free, Rounded(found.asked))]

HeapInv == Good(free, held) /\ MailHeld /\ FoundFits

-----------------------------------------------------------------------------
(* One allocation, one release. *)

LEMMA HeldFacts ==
  ASSUME NEW f, NEW hs, Good(f, hs), NEW b \in hs
  PROVE  /\ b \in HeldBlock /\ Placed(b) /\ Suits(b.size, b.asked)
         /\ b.at \in Nat /\ b.size \in Nat /\ End(b) = b.at + 16 + b.size /\ End(b) \in Nat
         /\ End(b) > b.at
<1>1. b \in HeldBlock /\ Placed(b) /\ Suits(b.size, b.asked)
  BY DEF Good
<1>2. b.at \in Nat /\ b.size \in Nat
  BY <1>1 DEF HeldBlock
<1>3. End(b) = b.at + 16 + b.size
  BY DEF End, HeaderSize
<1>. QED BY <1>1, <1>2, <1>3

(* A block that the heap gives away, o, out of a list that loses its bytes. *)
LEMMA GoodMore ==
  ASSUME NEW f, NEW hs, Good(f, hs), NEW g, GoodList(g),
         NEW o \in HeldBlock, Placed(o), Suits(o.size, o.asked),
         \A x \in Int : /\ Covered(f, x) <=> Covered(g, x) \/ Covers(o, x)
                        /\ ~(Covered(g, x) /\ Covers(o, x))
  PROVE  Good(g, hs \cup {o}) /\ o \notin hs
<1>1. NoneTwice(f, hs) /\ NoneLost(f, hs)
  BY DEF Good
<1>2. o \notin hs
  <2>1. o.at \in Int /\ Covers(o, o.at)
    BY DEF HeldBlock, Covers, End, HeaderSize
  <2>. QED BY <1>1, <2>1 DEF NoneTwice
<1>3. ASSUME NEW b \in hs \cup {o}, NEW x \in Int, Covers(b, x)
      PROVE  ~Covered(g, x) /\ \A c \in hs \cup {o} : Covers(c, x) => c = b
  <2>1. CASE b \in hs
    <3>1. ~Covered(f, x) /\ \A c \in hs : Covers(c, x) => c = b
      BY <1>1, <1>3, <2>1 DEF NoneTwice
    <3>. QED BY <3>1
  <2>2. CASE b = o
    <3>1. Covered(f, x) /\ ~Covered(g, x)
      BY <1>3, <2>2
    <3>2. \A c \in hs : ~Covers(c, x)
      BY <1>1, <3>1 DEF NoneTwice
    <3>. QED BY <2>2, <3>1, <3>2
  <2>. QED BY <2>1, <2>2
<1>4. ASSUME NEW x \in BASE..(RAM_END - 1)
      PROVE  Covered(g, x) \/ \E b \in hs \cup {o} : Covers(b, x)
  <2>1. x \in Int
    BY BaseFacts
  <2>. QED BY <1>1, <2>1 DEF NoneLost
<1>5. hs \cup {o} \subseteq HeldBlock
  BY DEF Good
<1>6. \A b \in hs \cup {o} : Placed(b) /\ Suits(b.size, b.asked)
  BY DEF Good
<1>7. NoneTwice(g, hs \cup {o})
  BY <1>3, Zenon DEF NoneTwice
<1>8. NoneLost(g, hs \cup {o})
  BY <1>4, Zenon DEF NoneLost
<1>. QED BY <1>2, <1>5, <1>6, <1>7, <1>8 DEF Good

(* What Alloc gives, if it can. *)
LEMMA AllocGood ==
  ASSUME NEW h, Good(h.free, h.held), NEW t \in Tasks, NEW use \in Use,
         NEW n \in 1..(U32MOD - 1), CanAlloc(h.free, n)
  PROVE  LET o == Owned(AllocOf(h.free, n), t, n, use)
             k == Alloc(h, t, n, use)
         IN  /\ Good(k.free, k.held)
             /\ k.held = h.held \cup {o}
             /\ o \notin h.held /\ o.use = use
<1> DEFINE f == h.free
           a == AllocOf(f, n)
           o == Owned(a, t, n, use)
           k == Alloc(h, t, n, use)
           g == AfterAlloc(f, n)
<1>1. k.free = g /\ k.held = h.held \cup {o}
  BY DEF Alloc
<1>2. /\ GoodList(g) /\ a \in Block /\ Placed(a) /\ Suits(a.size, n)
      /\ \A x \in Int : /\ Covered(f, x) <=> Covered(g, x) \/ Covers(a, x)
                        /\ ~(Covered(g, x) /\ Covers(a, x))
  <2>1. GoodList(f)
    BY DEF Good
  <2>. QED BY <2>1, AllocFacts
<1>. HIDE DEF a, g, k, f
<1>3. /\ o.at = a.at /\ o.size = a.size /\ o.asked = n /\ o.use = use
  BY DEF Owned
<1>4. o \in HeldBlock
  <2>1. n \in Nat
    BY HeapAssumption
  <2>2. a.at \in Nat /\ a.size \in Nat
    BY <1>2 DEF Block
  <2>. QED BY <2>1, <2>2 DEF Owned, HeldBlock
<1>5. Placed(o) /\ Suits(o.size, o.asked) /\ \A x : Covers(o, x) <=> Covers(a, x)
  <2>. HIDE DEF o
  <2>. QED BY <1>2, <1>3 DEF Placed, Covers, End
<1>. HIDE DEF o
<1>6. Good(g, h.held \cup {o}) /\ o \notin h.held
  BY <1>2, <1>4, <1>5, GoodMore DEF f
<1>. QED BY <1>1, <1>3, <1>6, Zenon DEF f, a, o, k

(* Release takes in the block, or loses it but not its bytes. *)
Lost(b) == [b EXCEPT !.use = "lost"]

LEMMA ReleaseGood ==
  ASSUME NEW h, Good(h.free, h.held), NEW b \in h.held
  PROVE  LET k == Release(h, b)
         IN  /\ Good(k.free, k.held)
             /\ h.held \ {b} \subseteq k.held
             /\ k.held \subseteq (h.held \ {b}) \cup {Lost(b)}
<1> DEFINE f  == h.free
           hs == h.held
           c  == Header(b)
           k  == Release(h, b)
           ks == (hs \ {b}) \cup {Lost(b)}
<1>0. h.free = f /\ h.held = hs
  OBVIOUS
<1>1. /\ GoodList(f) /\ hs \subseteq HeldBlock /\ NoneTwice(f, hs) /\ NoneLost(f, hs)
      /\ \A d \in hs : Placed(d) /\ Suits(d.size, d.asked)
  BY DEF Good
<1>2. b \in HeldBlock /\ b.at \in Nat /\ b.size \in Nat /\ Placed(b)
  BY HeldFacts
<1>3. c.at = b.at /\ c.size = b.size /\ c \in Block
  BY <1>2 DEF Header, Block
<1>. HIDE DEF f, hs, c
<1>4. Placed(c) /\ \A x : Covers(c, x) <=> Covers(b, x)
  BY <1>2, <1>3 DEF Placed, Covers, End
<1>5. Clear(f, c)
  BY <1>1, <1>4 DEF Clear, NoneTwice, hs
<1>6. /\ Accepts(f, c) =>
           /\ GoodList(WithBlock(f, c))
           /\ \A x \in Int : Covered(WithBlock(f, c), x) <=> Covered(f, x) \/ Covers(c, x)
  BY <1>1, <1>3, <1>4, <1>5, WithBlockFacts
<1>7. CASE Accepts(f, c)
  <2> DEFINE g == WithBlock(f, c)
  <2>1. k.free = g /\ k.held = hs \ {b}
    BY <1>7 DEF Release, f, hs, c
  <2>2. GoodList(g) /\ \A x \in Int : Covered(g, x) <=> Covered(f, x) \/ Covers(b, x)
    BY <1>4, <1>6, <1>7
  <2>. HIDE DEF g, k
  <2>3. NoneTwice(g, hs \ {b})
    <3>1. ASSUME NEW d \in hs \ {b}, NEW x \in Int, Covers(d, x)
          PROVE  ~Covered(g, x) /\ \A e \in hs \ {b} : Covers(e, x) => e = d
      BY <1>1, <2>2, <3>1 DEF NoneTwice, hs
    <3>. QED BY <3>1, Zenon DEF NoneTwice
  <2>4. NoneLost(g, hs \ {b})
    <3>1. ASSUME NEW x \in BASE..(RAM_END - 1)
          PROVE  Covered(g, x) \/ \E d \in hs \ {b} : Covers(d, x)
      <4>1. x \in Int
        BY BaseFacts
      <4>. QED BY <1>1, <2>2, <4>1 DEF NoneLost
    <3>. QED BY <3>1, Zenon DEF NoneLost
  <2>5. Good(g, hs \ {b})
    BY <1>1, <2>2, <2>3, <2>4 DEF Good
  <2>. QED BY <1>0, <2>1, <2>5, Zenon DEF k, f, hs
<1>8. CASE ~Accepts(f, c)
  <2>1. k.free = f /\ k.held = ks
    BY <1>8 DEF Release, f, hs, c, Lost
  <2>2. /\ Lost(b) \in HeldBlock /\ Lost(b).at = b.at /\ Lost(b).size = b.size
        /\ Lost(b).asked = b.asked
    BY <1>2 DEF HeldBlock, Lost, Use
  <2>. HIDE DEF k
  <2>3. /\ Placed(Lost(b)) /\ Suits(Lost(b).size, Lost(b).asked)
        /\ \A x : Covers(Lost(b), x) <=> Covers(b, x)
    BY <1>1, <2>2 DEF Placed, Covers, End, hs
  <2>4. NoneTwice(f, ks)
    <3>1. ASSUME NEW d \in ks, NEW x \in Int, Covers(d, x)
          PROVE  ~Covered(f, x) /\ \A e \in ks : Covers(e, x) => e = d
      BY <1>1, <2>3, <3>1 DEF NoneTwice, hs
    <3>. QED BY <3>1, Zenon DEF NoneTwice
  <2>5. NoneLost(f, ks)
    <3>1. ASSUME NEW x \in BASE..(RAM_END - 1)
          PROVE  Covered(f, x) \/ \E d \in ks : Covers(d, x)
      BY <1>1, <2>3 DEF NoneLost
    <3>. QED BY <3>1, Zenon DEF NoneLost
  <2>6. Good(f, ks)
    <3>1. ks \subseteq HeldBlock /\ \A d \in ks : Placed(d) /\ Suits(d.size, d.asked)
      BY <1>1, <2>2, <2>3
    <3>. HIDE DEF ks
    <3>. QED BY <1>1, <2>4, <2>5, <3>1 DEF Good
  <2>. QED BY <1>0, <2>1, <2>6, Zenon DEF k, f, hs
<1>. QED BY <1>7, <1>8

-----------------------------------------------------------------------------
(* The state. *)

LEMMA SizeFacts ==
  /\ \A n \in Requests : n \in 1..(U32MOD - 1)
  /\ StackSize \in 1..(U32MOD - 1) /\ TextLen \in 1..(U32MOD - 1)
  /\ KeyLen \in 1..(U32MOD - 1) /\ NodeSize \in 1..(U32MOD - 1)
  /\ TID_KCD \in Tasks
BY HeapUseAssumption, Zenon

LEMMA UseFacts ==
  {"data", "stack", "node", "text", "key"} \subseteq Use
BY DEF Use

(* One free block and nothing held. *)
LEMMA InitGood == Init => HeapInv
<1> SUFFICES ASSUME Init PROVE HeapInv
  OBVIOUS
<1> DEFINE b == [at |-> BASE, size |-> RAM_END - BASE - 16]
<1>1. free = << b >> /\ held = {} /\ mail = {} /\ found = NoCall
  BY DEF Init, k_mem_init, HeaderSize
<1>2. /\ b.at = BASE /\ b.size = RAM_END - BASE - 16 /\ b \in Block
      /\ End(b) = RAM_END /\ b.at % 8 = 0
  BY BaseFacts DEF Block, End, HeaderSize
<1>3. Placed(b)
  <2>. HIDE DEF b
  <2>. QED BY <1>2, BaseFacts DEF Placed, ALIGN
<1>. HIDE DEF b
<1>4. free \in Seq(Block) /\ Len(free) = 1 /\ free[1] = b
  BY <1>1, <1>2
<1>5. \A i : i \in 1..Len(free) => i = 1
  BY <1>4
<1>6. \A i, j \in 1..Len(free) : ~(i < j)
  BY <1>5
<1>7. GoodList(free)
  BY <1>3, <1>4, <1>5, <1>6, Zenon DEF GoodList
<1>8. ASSUME NEW x \in BASE..(RAM_END - 1) PROVE Covered(free, x)
  <2>1. Covers(b, x)
    BY <1>2, BaseFacts DEF Covers
  <2>2. 1 \in 1..Len(free)
    BY <1>4
  <2>. QED BY <1>4, <2>1, <2>2, Zenon DEF Covered
<1>9. Good(free, held)
  BY <1>1, <1>7, <1>8 DEF Good, NoneTwice, NoneLost
<1>. QED BY <1>1, <1>9 DEF HeapInv, MailHeld, FoundFits

(* An allocation from the state. *)
LEMMA AllocStep ==
  ASSUME Good(free, held), NEW t \in Tasks, NEW n \in 1..(U32MOD - 1), NEW use \in Use,
         CanAlloc(free, n), Becomes(Alloc(Heap, t, n, use))
  PROVE  /\ Good(free', held')
         /\ held \subseteq held'
<1>1. Heap.free = free /\ Heap.held = held
  BY DEF Heap
<1>. HIDE DEF Heap
<1>2. LET o == Owned(AllocOf(Heap.free, n), t, n, use)
          k == Alloc(Heap, t, n, use)
      IN  /\ Good(k.free, k.held)
          /\ k.held = Heap.held \cup {o}
  <2>1. Good(Heap.free, Heap.held) /\ CanAlloc(Heap.free, n)
    BY <1>1
  <2>. QED BY <2>1, AllocGood
<1>. QED BY <1>1, <1>2 DEF Becomes

(* A release into the state of a block that no message uses. *)
LEMMA ReleaseStep ==
  ASSUME Good(free, held), NEW b \in held, Becomes(Release(Heap, b))
  PROVE  /\ Good(free', held')
         /\ held \ {b} \subseteq held' /\ held' \subseteq (held \ {b}) \cup {Lost(b)}
<1>1. Heap.free = free /\ Heap.held = held
  BY DEF Heap
<1>. HIDE DEF Heap
<1>2. LET k == Release(Heap, b)
      IN  /\ Good(k.free, k.held)
          /\ Heap.held \ {b} \subseteq k.held
          /\ k.held \subseteq (Heap.held \ {b}) \cup {Lost(b)}
  BY <1>1, ReleaseGood, Zenon
<1>. QED BY <1>1, <1>2, Zenon DEF Becomes

(* The messages keep their blocks as long as these stay held. *)
LEMMA MailFrame ==
  ASSUME MailHeld, UNCHANGED mail,
         \A b \in held : b.use \in {"node", "text"} => b \in held'
  PROVE  MailHeld'
BY DEF MailHeld

(* No call is under way when another runs. *)
LEMMA Alone ==
  ASSUME Careful, MayRun, UNCHANGED found
  PROVE  FoundFits'
BY DEF Careful, Defects, MayRun, FoundFits

(* What a send adds to a heap h. *)
LEMMA SendGood ==
  ASSUME NEW h, Good(h.free, h.held), NEW t \in Tasks, NEW n \in 1..(U32MOD - 1),
         RoomToSend(h, t, n)
  PROVE  LET k == WithText(h, t, n)
             m == NewMail(h, k)
         IN  /\ Good(k.free, k.held)
             /\ k.held = h.held \cup {m.node, m.text}
             /\ m.node \notin h.held /\ m.text \notin h.held
             /\ m.node.use = "node" /\ m.text.use = "text"
<1> DEFINE g == WithNode(h, t)
           k == WithText(h, t, n)
           m == NewMail(h, k)
           u == Owned(AllocOf(h.free, NodeSize), t, NodeSize, "node")
           v == Owned(AllocOf(g.free, n), t, n, "text")
<1>1. /\ Good(g.free, g.held)
      /\ g.held = h.held \cup {u} /\ u \notin h.held /\ u.use = "node"
  <2>1. CanAlloc(h.free, NodeSize)
    BY DEF RoomToSend
  <2>2. NodeSize \in 1..(U32MOD - 1) /\ "node" \in Use
    BY SizeFacts, UseFacts
  <2>3. LET k1 == Alloc(h, t, NodeSize, "node")
        IN  /\ Good(k1.free, k1.held)
            /\ k1.held = h.held \cup {u}
            /\ u \notin h.held /\ u.use = "node"
    BY <2>1, <2>2, AllocGood
  <2>. QED BY <2>3, Zenon DEF WithNode
<1>2. /\ Good(k.free, k.held)
      /\ k.held = g.held \cup {v} /\ v \notin g.held /\ v.use = "text"
  <2>1. CanAlloc(g.free, n)
    BY Zenon DEF RoomToSend
  <2>2. "text" \in Use
    BY UseFacts
  <2>. HIDE DEF g
  <2>3. LET k1 == Alloc(g, t, n, "text")
        IN  /\ Good(k1.free, k1.held)
            /\ k1.held = g.held \cup {v}
            /\ v \notin g.held /\ v.use = "text"
    BY <1>1, <2>1, <2>2, AllocGood, ZenonT(40)
  <2>. QED BY <2>3, Zenon DEF WithText, g
<1>. HIDE DEF g, k, u, v
<1>3. k.held = h.held \cup {u, v} /\ v \notin h.held
  BY <1>1, <1>2
<1>4. k.held \ h.held = {u, v}
  BY <1>1, <1>3
<1>5. m.node = u /\ m.text = v
  <2>1. /\ m.node = CHOOSE b \in {u, v} : b.use = "node"
        /\ m.text = CHOOSE b \in {u, v} : b.use = "text"
    BY <1>4 DEF NewMail
  <2>2. \A b \in {u, v} : (b.use = "node" <=> b = u) /\ (b.use = "text" <=> b = v)
    BY <1>1, <1>2
  <2>. QED BY <2>1, <2>2
<1>. HIDE DEF m
<1>. QED BY <1>1, <1>2, <1>3, <1>5, Zenon DEF k, m

(* One message more, with blocks that are new. *)
LEMMA MailMore ==
  ASSUME MailHeld, NEW m, m.node \in held' \ held, m.text \in held' \ held,
         m.node.use = "node", m.text.use = "text", mail' = mail \cup {m},
         \A b \in held : b.use \in {"node", "text"} => b \in held'
  PROVE  MailHeld'
<1>1. \A l \in mail : l.node \in held /\ l.text \in held
  BY DEF MailHeld
<1>2. \A l \in mail : l.node # m.node /\ l.text # m.text
  BY <1>1
<1>. QED BY <1>1, <1>2 DEF MailHeld

-----------------------------------------------------------------------------
(* The actions. *)

LEMMA AllocCallGood ==
  ASSUME HeapInv, Careful, MayRun, NEW t \in Tasks, NEW n \in 1..(U32MOD - 1),
         NEW use \in Use, CanAlloc(free, n), Becomes(Alloc(Heap, t, n, use)),
         UNCHANGED << mail, found >>
  PROVE  HeapInv'
<1>1. Good(free', held') /\ held \subseteq held'
  BY AllocStep DEF HeapInv
<1>2. MailHeld'
  BY <1>1, MailFrame DEF HeapInv
<1>3. FoundFits'
  BY Alone
<1>. QED BY <1>1, <1>2, <1>3 DEF HeapInv

LEMMA ReleaseCallGood ==
  ASSUME HeapInv, Careful, MayRun, NEW b \in held, b.use \notin {"node", "text"},
         Becomes(Release(Heap, b)), UNCHANGED << mail, found >>
  PROVE  HeapInv'
<1>1. Good(free', held') /\ held \ {b} \subseteq held'
  BY ReleaseStep DEF HeapInv
<1>2. MailHeld'
  BY <1>1, MailFrame DEF HeapInv
<1>3. FoundFits'
  BY Alone
<1>. QED BY <1>1, <1>2, <1>3 DEF HeapInv

(* The second of two frees is refused, if it is not one of the mishandled. *)
LEMMA FreeTwiceIsRelease ==
  ASSUME Careful, NEW t, NEW b, FreeTwice(t, b)
  PROVE  /\ MayRun /\ b \in held /\ b.use = "data"
         /\ Becomes(Release(Heap, b)) /\ UNCHANGED << mail, found >>
<1> DEFINE once  == WithBlock(free, Header(b))
           twice == WithBlock(once, StaleHeader(once, Header(b)))
<1>1. /\ MayRun /\ b \in held /\ b.use = "data" /\ Accepts(free, Header(b))
      /\ "double_free" \in Avoid => twice = once
      /\ Becomes([free |-> twice, held |-> held \ {b}])
      /\ UNCHANGED << mail, found >>
  BY Zenon DEF FreeTwice
<1>2. twice = once
  BY <1>1 DEF Careful, Defects
<1>3. Release(Heap, b) = [free |-> once, held |-> held \ {b}]
  BY <1>1 DEF Release, Heap
<1>. HIDE DEF once, twice
<1>. QED BY <1>1, <1>2, <1>3

LEMMA SendCallGood ==
  ASSUME HeapInv, Careful, NEW t \in Tasks, k_send_msg(t)
  PROVE  HeapInv' /\ held \subseteq held'
<1> DEFINE k == WithText(Heap, t, TextLen)
           m == NewMail(Heap, k)
<1>1. /\ MayRun /\ RoomToSend(Heap, t, TextLen) /\ Becomes(k)
      /\ mail' = mail \cup {m} /\ UNCHANGED found
  BY Zenon DEF k_send_msg
<1>2. Heap.free = free /\ Heap.held = held
  BY DEF Heap
<1>. HIDE DEF Heap
<1>3. /\ Good(k.free, k.held)
      /\ k.held = Heap.held \cup {m.node, m.text}
      /\ m.node \notin Heap.held /\ m.text \notin Heap.held
      /\ m.node.use = "node" /\ m.text.use = "text"
  <2>1. Good(Heap.free, Heap.held) /\ TextLen \in 1..(U32MOD - 1)
    BY <1>2, SizeFacts DEF HeapInv
  <2>. QED BY <1>1, <2>1, SendGood
<1>. HIDE DEF k, m
<1>4. Good(free', held') /\ held' = held \cup {m.node, m.text}
  BY <1>1, <1>2, <1>3 DEF Becomes
<1>5. MailHeld'
  BY <1>1, <1>2, <1>3, <1>4, MailMore DEF HeapInv
<1>6. FoundFits'
  BY <1>1, Alone
<1>. QED BY <1>4, <1>5, <1>6 DEF HeapInv

(* The allocations of the handler, with the message refused or sent. *)
LEMMA IrqGood ==
  ASSUME HeapInv, Careful, NEW t \in Tasks, IrqChar(t)
  PROVE  HeapInv' /\ held \subseteq held'
<1> DEFINE h1 == Alloc(Heap, t, KeyLen, "key")
           h2 == WithText(h1, t, KeyLen)
           m  == NewMail(h1, h2)
<1>1. /\ MayRun /\ CanAlloc(free, KeyLen) /\ UNCHANGED found
      /\ \/ Becomes(h1) /\ UNCHANGED mail
         \/ RoomToSend(h1, t, KeyLen) /\ Becomes(h2) /\ mail' = mail \cup {m}
  BY Zenon DEF IrqChar
<1>2. Heap.free = free /\ Heap.held = held
  BY DEF Heap
<1>3. KeyLen \in 1..(U32MOD - 1) /\ "key" \in Use
  BY SizeFacts, UseFacts
<1>. HIDE DEF Heap
<1>4. PICK o : /\ Good(h1.free, h1.held)
               /\ h1.held = held \cup {o}
               /\ o \notin held /\ o.use = "key"
  <2>1. Good(Heap.free, Heap.held) /\ CanAlloc(Heap.free, KeyLen)
    BY <1>1, <1>2 DEF HeapInv
  <2>. QED BY <1>2, <1>3, <2>1, AllocGood
<1>. HIDE DEF h1
<1>5. CASE Becomes(h1) /\ UNCHANGED mail
  <2>1. Good(free', held') /\ held \subseteq held'
    BY <1>4, <1>5 DEF Becomes
  <2>2. MailHeld'
    BY <1>5, <2>1, MailFrame DEF HeapInv
  <2>3. FoundFits'
    BY <1>1, Alone
  <2>. QED BY <2>1, <2>2, <2>3 DEF HeapInv
<1>6. CASE RoomToSend(h1, t, KeyLen) /\ Becomes(h2) /\ mail' = mail \cup {m}
  <2>1. /\ Good(h2.free, h2.held)
        /\ h2.held = h1.held \cup {m.node, m.text}
        /\ m.node \notin h1.held /\ m.text \notin h1.held
        /\ m.node.use = "node" /\ m.text.use = "text"
    BY <1>3, <1>4, <1>6, SendGood
  <2>. HIDE DEF h2, m
  <2>2. Good(free', held') /\ held' = h2.held
    BY <1>6, <2>1 DEF Becomes
  <2>3. held \subseteq held' /\ m.node \in held' \ held /\ m.text \in held' \ held
    BY <1>4, <2>1, <2>2
  <2>4. MailHeld'
    BY <1>6, <2>1, <2>3, MailMore DEF HeapInv
  <2>5. FoundFits'
    BY <1>1, Alone
  <2>. QED BY <2>2, <2>3, <2>4, <2>5 DEF HeapInv
<1>. QED BY <1>1, <1>5, <1>6

(* Text, then node: both leave, nothing that another message has does. *)
LEMMA DeleteGood ==
  ASSUME HeapInv, Careful, NEW m, deallocate_msg(m)
  PROVE  HeapInv' /\ held' \subseteq held \cup {Lost(m.text), Lost(m.node)}
<1> DEFINE k1 == Release(Heap, m.text)
           k2 == Release(k1, m.node)
<1>1. /\ MayRun /\ m \in mail /\ Becomes(k2) /\ mail' = mail \ {m} /\ UNCHANGED found
  BY Zenon DEF deallocate_msg
<1>2. Heap.free = free /\ Heap.held = held
  BY DEF Heap
<1>. HIDE DEF Heap
<1>3. /\ m.node \in held /\ m.node.use = "node" /\ m.text \in held /\ m.text.use = "text"
      /\ m.node # m.text
  BY <1>1 DEF HeapInv, MailHeld
<1>4. /\ Good(k1.free, k1.held)
      /\ held \ {m.text} \subseteq k1.held
      /\ k1.held \subseteq (held \ {m.text}) \cup {Lost(m.text)}
  <2>1. Good(Heap.free, Heap.held) /\ m.text \in Heap.held
    BY <1>2, <1>3 DEF HeapInv
  <2>2. /\ Good(k1.free, k1.held)
        /\ Heap.held \ {m.text} \subseteq k1.held
        /\ k1.held \subseteq (Heap.held \ {m.text}) \cup {Lost(m.text)}
    BY <2>1, ReleaseGood
  <2>. HIDE DEF k1
  <2>. QED BY <1>2, <2>2
<1>. HIDE DEF k1
<1>5. /\ Good(k2.free, k2.held)
      /\ k1.held \ {m.node} \subseteq k2.held
      /\ k2.held \subseteq (k1.held \ {m.node}) \cup {Lost(m.node)}
  <2>1. m.node \in k1.held
    BY <1>3, <1>4
  <2>. QED BY <1>4, <2>1, ReleaseGood
<1>. HIDE DEF k2
<1>6. /\ Good(free', held') /\ held \ {m.text, m.node} \subseteq held'
      /\ held' \subseteq held \cup {Lost(m.text), Lost(m.node)}
  BY <1>1, <1>4, <1>5 DEF Becomes
<1>7. MailHeld'
  <2>1. ASSUME NEW l \in mail \ {m}
        PROVE  l.node \notin {m.text, m.node} /\ l.text \notin {m.text, m.node}
    BY <1>1, <1>3 DEF HeapInv, MailHeld
  <2>. QED BY <1>1, <1>6, <2>1 DEF HeapInv, MailHeld
<1>8. FoundFits'
  BY <1>1, Alone
<1>. QED BY <1>6, <1>7, <1>8 DEF HeapInv

(* The second step of a direct call takes what it would find now. *)
LEMMA TakeIsAlloc ==
  ASSUME HeapInv, DirectTake
  PROVE  /\ found.asked \in Requests /\ CanAlloc(free, found.asked)
         /\ Becomes(Alloc(Heap, TID_KCD, found.asked, "data"))
         /\ UNCHANGED mail /\ found' = NoCall
<1> DEFINE b == found.block
           n == Rounded(found.asked)
           i == FirstFit(free, n)
           here == {j \in DOMAIN free : free[j].at = b.at}
<1>1. /\ found # NoCall
      /\ free' = IF here = {} THEN free ELSE Without(free, Min(here), n)
      /\ held' = held \cup {Owned(Served(<< b >>, 1, n), TID_KCD, found.asked, "data")}
      /\ found' = NoCall
      /\ UNCHANGED mail
  BY Zenon DEF DirectTake
<1>2. found.asked \in Requests /\ CanAlloc(free, found.asked) /\ b = free[i]
  BY <1>1, Zenon DEF HeapInv, FoundFits
<1>3. GoodList(free)
  BY DEF HeapInv, Good
<1>4. i \in 1..Len(free)
  <2>1. n \in Nat /\ i # 0
    BY <1>2, SizeFacts, RoundedFacts DEF CanAlloc
  <2>. HIDE DEF n
  <2>. QED BY <1>3, <2>1, FirstFitFacts, Zenon
<1>5. DOMAIN free = 1..Len(free) /\ Len(free) \in Nat
  BY <1>3, LenProperties DEF GoodList
<1>6. here = {i}
  <2>1. ASSUME NEW j \in 1..Len(free), free[j].at = free[i].at PROVE j = i
    <3>1. free[i].at \in Nat /\ End(free[i]) \in Nat /\ free[i].at < End(free[i])
      <4>1. /\ free[i].at \in Nat /\ End(free[i]) \in Nat /\ free[i].size \in Nat
            /\ End(free[i]) = free[i].at + 16 + free[i].size
        BY <1>3, <1>4, FreeBlock
      <4>. QED BY <4>1
    <3>2. free[j].at \in Nat /\ End(free[j]) \in Nat /\ free[j].at < End(free[j])
      <4>1. /\ free[j].at \in Nat /\ End(free[j]) \in Nat /\ free[j].size \in Nat
            /\ End(free[j]) = free[j].at + 16 + free[j].size
        BY <1>3, FreeBlock
      <4>. QED BY <4>1
    <3>3. Covers(free[i], free[i].at) /\ Covers(free[j], free[i].at) /\ free[i].at \in Int
      BY <2>1, <3>1, <3>2 DEF Covers
    <3>. QED BY <1>3, <1>4, <3>3, OneFreeBlock
  <2>. HIDE DEF i
  <2>. QED BY <1>2, <1>4, <1>5, <2>1
<1>7. Min(here) = i
  <2>1. here \subseteq Nat /\ here # {}
    BY <1>4, <1>5, <1>6
  <2>. HIDE DEF here, i
  <2>2. Min(here) \in here
    BY <2>1, MinFacts
  <2>. QED BY <1>6, <2>2
<1>8. << b >>[1] = free[i]
  BY <1>2
<1>9. Served(<< b >>, 1, n) = Served(free, i, n)
  <2>. HIDE DEF b, n, i
  <2>. QED BY <1>8, Zenon DEF Served
<1>10. free' = AfterAlloc(free, found.asked)
  <2>1. here # {}
    BY <1>6
  <2>. HIDE DEF here
  <2>. QED BY <1>1, <1>7, <2>1, Zenon DEF AfterAlloc
<1>11. AllocOf(free, found.asked) = Served(free, i, n)
  BY Zenon DEF AllocOf
<1>. HIDE DEF b, n, i, here
<1>12. held' = held \cup {Owned(AllocOf(free, found.asked), TID_KCD, found.asked, "data")}
  BY <1>1, <1>9, <1>11
<1>13. Becomes(Alloc(Heap, TID_KCD, found.asked, "data"))
  BY <1>10, <1>12 DEF Becomes, Alloc, Heap
<1>. QED BY <1>1, <1>2, <1>13

LEMMA TakeGood ==
  ASSUME HeapInv, DirectTake
  PROVE  HeapInv' /\ held \subseteq held'
<1>1. /\ found.asked \in Requests /\ CanAlloc(free, found.asked)
      /\ Becomes(Alloc(Heap, TID_KCD, found.asked, "data"))
      /\ UNCHANGED mail /\ found' = NoCall
  BY TakeIsAlloc
<1>2. found.asked \in 1..(U32MOD - 1) /\ TID_KCD \in Tasks /\ "data" \in Use
  BY <1>1, SizeFacts, UseFacts
<1>3. Good(free', held') /\ held \subseteq held'
  BY <1>1, <1>2, AllocStep DEF HeapInv
<1>4. MailHeld'
  BY <1>1, <1>3, MailFrame DEF HeapInv
<1>5. FoundFits'
  BY <1>1 DEF FoundFits
<1>. QED BY <1>3, <1>4, <1>5 DEF HeapInv

LEMMA ScanGood ==
  ASSUME HeapInv, NEW n \in Requests, DirectScan(n)
  PROVE  HeapInv' /\ held' = held
<1>1. /\ CanAlloc(free, n)
      /\ found' = [block |-> free[FirstFit(free, Rounded(n))], asked |-> n]
      /\ UNCHANGED << free, held, mail >>
  BY Zenon DEF DirectScan
<1>2. found'.asked = n /\ found'.block = free[FirstFit(free, Rounded(n))]
  BY <1>1
<1>3. FoundFits'
  <2>1. /\ found'.asked \in Requests
        /\ CanAlloc(free', found'.asked)
        /\ found'.block = free'[FirstFit(free', Rounded(found'.asked))]
    BY <1>1, <1>2
  <2>. QED BY <2>1, Zenon DEF FoundFits
<1>4. Good(free', held') /\ MailHeld'
  BY <1>1 DEF HeapInv, MailHeld
<1>. QED BY <1>1, <1>3, <1>4 DEF HeapInv

LEMMA HeapStep ==
  ASSUME HeapInv, Careful, [Next]_vars
  PROVE  HeapInv'
<1>1. ASSUME NEW t \in Tasks, NEW n \in Requests, k_mem_alloc(t, n) PROVE HeapInv'
  <2>1. n \in 1..(U32MOD - 1) /\ "data" \in Use
    BY SizeFacts, UseFacts
  <2>. QED BY <1>1, <2>1, AllocCallGood DEF k_mem_alloc
<1>2. ASSUME NEW t \in Tasks, NEW b \in held, k_mem_dealloc(t, b) PROVE HeapInv'
  BY <1>2, ReleaseCallGood DEF k_mem_dealloc
<1>3. ASSUME NEW t \in Tasks, NEW b \in held, FreeTwice(t, b) PROVE HeapInv'
  <2>1. /\ MayRun /\ b.use = "data"
        /\ Becomes(Release(Heap, b)) /\ UNCHANGED << mail, found >>
    BY <1>3, FreeTwiceIsRelease
  <2>. QED BY <2>1, ReleaseCallGood
<1>4. ASSUME NEW t \in Tasks, k_alloc_p_stack(t) PROVE HeapInv'
  <2>1. StackSize \in 1..(U32MOD - 1) /\ "stack" \in Use
    BY SizeFacts, UseFacts
  <2>. QED BY <1>4, <2>1, AllocCallGood DEF k_alloc_p_stack
<1>5. ASSUME NEW b \in held, FreeStack(b) PROVE HeapInv'
  BY <1>5, ReleaseCallGood DEF FreeStack
<1>6. ASSUME NEW t \in Tasks, k_send_msg(t) PROVE HeapInv'
  BY <1>6, SendCallGood
<1>7. ASSUME NEW t \in Tasks, IrqChar(t) PROVE HeapInv'
  BY <1>7, IrqGood
<1>8. ASSUME NEW m \in mail, deallocate_msg(m) PROVE HeapInv'
  BY <1>8, DeleteGood
<1>9. ASSUME NEW n \in Requests, DirectScan(n) PROVE HeapInv'
  BY <1>9, ScanGood
<1>10. CASE DirectTake
  BY <1>10, TakeGood
<1>11. CASE UNCHANGED vars
  BY <1>11 DEF vars, HeapInv, MailHeld, FoundFits
<1>12. ASSUME NEW b \in held, IrqFree(b) PROVE HeapInv'
  BY <1>12, ReleaseCallGood DEF IrqFree
<1>. QED BY <1>1, <1>2, <1>3, <1>4, <1>5, <1>6, <1>7, <1>8, <1>9, <1>10, <1>11, <1>12 DEF Next

(* The free and the held blocks partition the heap after any sequence of    *)
(* allocations, releases, messages and direct calls (k_mem.c).              *)
THEOREM HeapInvariant == ASSUME Careful PROVE Spec => []HeapInv
<1>1. Init => HeapInv
  BY InitGood
<1>2. HeapInv /\ [Next]_vars => HeapInv'
  BY HeapStep
<1>. QED BY <1>1, <1>2, PTL DEF Spec

-----------------------------------------------------------------------------
(* What follows from it. *)

LEMMA TilingFromInv == HeapInv => Tiling
<1> SUFFICES ASSUME HeapInv, NEW x \in BASE..(RAM_END - 1) PROVE Covering(x) = 1
  BY DEF Tiling
<1> DEFINE inFree == {i \in DOMAIN free : Covers(free[i], x)}
           inHeld == {b \in held : Covers(b, x)}
<1>1. GoodList(free) /\ NoneTwice(free, held) /\ NoneLost(free, held)
  BY DEF HeapInv, Good
<1>2. DOMAIN free = 1..Len(free) /\ x \in Int
  BY <1>1, LenProperties, BaseFacts DEF GoodList
<1>3. Covering(x) = Cardinality(inFree) + Cardinality(inHeld)
  BY Zenon DEF Covering
<1>4. CASE Covered(free, x)
  <2>1. PICK i \in 1..Len(free) : Covers(free[i], x)
    BY <1>4 DEF Covered
  <2>2. \A j \in 1..Len(free) : Covers(free[j], x) => j = i
    BY <1>1, <1>2, <2>1, OneFreeBlock
  <2>3. inFree = {i}
    BY <1>2, <2>1, <2>2
  <2>4. inHeld = {}
    BY <1>1, <1>2, <1>4 DEF NoneTwice
  <2>5. Cardinality(inFree) = 1 /\ Cardinality(inHeld) = 0
    BY <2>3, <2>4, FS_Singleton, FS_EmptySet
  <2>. QED BY <1>3, <2>5
<1>5. CASE ~Covered(free, x)
  <2>1. PICK b \in held : Covers(b, x)
    BY <1>1, <1>5 DEF NoneLost
  <2>2. inHeld = {b}
    BY <1>1, <1>2, <2>1 DEF NoneTwice
  <2>3. inFree = {}
    BY <1>2, <1>5 DEF Covered
  <2>4. Cardinality(inFree) = 0 /\ Cardinality(inHeld) = 1
    BY <2>2, <2>3, FS_Singleton, FS_EmptySet
  <2>. QED BY <1>3, <2>4
<1>. QED BY <1>4, <1>5

LEMMA CoalescedFromInv == HeapInv => Coalesced
<1> SUFFICES ASSUME HeapInv, NEW i \in 1..(Len(free) - 1)
             PROVE  End(free[i]) < free[i + 1].at
  BY DEF Coalesced
<1>1. GoodList(free) /\ Len(free) \in Nat
  BY LenProperties DEF HeapInv, Good, GoodList
<1>2. i \in 1..Len(free) /\ i + 1 \in 1..Len(free) /\ i < i + 1
  BY <1>1
<1>. QED BY <1>1, <1>2 DEF GoodList

(* A gap between the held blocks lies in one free block. *)
LEMMA GapIsFree ==
  ASSUME HeapInv, NEW lo \in Int, NEW hi \in Int, lo < hi, Gap(lo, hi)
  PROVE  \E i \in 1..Len(free) : free[i].at <= lo /\ hi <= End(free[i])
<1>1. GoodList(free) /\ NoneLost(free, held) /\ Len(free) \in Nat
  BY LenProperties DEF HeapInv, Good, GoodList
<1>2. BASE <= lo /\ hi <= RAM_END /\ BASE \in Int /\ RAM_END \in Int
  BY BaseFacts DEF Gap
<1>3. ASSUME NEW x \in lo..(hi - 1) PROVE Covered(free, x)
  <2>1. x \in BASE..(RAM_END - 1)
    BY <1>2
  <2>2. ASSUME NEW b \in held PROVE ~Covers(b, x)
    <3>1. hi <= b.at \/ End(b) <= lo
      BY DEF Gap
    <3>2. b.at \in Nat /\ End(b) \in Nat
      BY HeldFacts DEF HeapInv
    <3>. QED BY <3>1, <3>2 DEF Covers
  <2>. QED BY <1>1, <2>1, <2>2 DEF NoneLost
<1>4. PICK i \in 1..Len(free) : Covers(free[i], lo)
  <2>1. lo \in lo..(hi - 1)
    OBVIOUS
  <2>. QED BY <1>3, <2>1 DEF Covered
<1>5. free[i].at \in Nat /\ End(free[i]) \in Nat /\ free[i].at <= lo /\ lo < End(free[i])
  BY <1>1, <1>4, FreeBlock DEF Covers
<1>6. ASSUME End(free[i]) < hi PROVE FALSE
  <2>1. End(free[i]) \in lo..(hi - 1)
    BY <1>5, <1>6
  <2>2. PICK j \in 1..Len(free) : Covers(free[j], End(free[i]))
    BY <1>3, <2>1 DEF Covered
  <2>3. free[j].at \in Nat /\ End(free[j]) \in Nat
    BY <1>1, FreeBlock, Zenon
  <2>4. free[j].at <= End(free[i]) /\ End(free[i]) < End(free[j])
    BY <2>2 DEF Covers
  <2>5. i = j \/ i < j \/ j < i
    BY <1>1
  <2>6. ~(i < j)
    <3>1. i < j => End(free[i]) < free[j].at
      BY <1>1 DEF GoodList
    <3>. QED BY <1>5, <2>3, <2>4, <3>1
  <2>7. ~(j < i)
    <3>1. j < i => End(free[j]) < free[i].at
      BY <1>1 DEF GoodList
    <3>. QED BY <1>5, <2>3, <2>4, <3>1
  <2>. QED BY <1>5, <2>4, <2>5, <2>6, <2>7
<1>. QED BY <1>5, <1>6

LEMMA NullFromInv == HeapInv => NullOnlyWhenFull
<1> SUFFICES ASSUME HeapInv, NEW n \in Requests, ~CanAlloc(free, n),
                    NEW lo \in {BASE} \cup {End(b) : b \in held},
                    Gap(lo, lo + HeaderSize + Rounded(n))
             PROVE  FALSE
  BY Zenon DEF NullOnlyWhenFull
<1> DEFINE m == Rounded(n)
           hi == lo + 16 + m
<1>1. n \in Nat /\ n # 0 /\ m \in Nat
  <2>1. n \in 1..(U32MOD - 1)
    BY SizeFacts
  <2>2. m \in Nat
    BY <2>1, RoundedFacts
  <2>3. n \in Nat /\ n # 0
    BY <2>1, HeapAssumption DEF ALIGN
  <2>. QED BY <2>2, <2>3
<1>2. lo \in Nat
  <2>1. \A b \in held : End(b) \in Nat
    BY HeldFacts DEF HeapInv
  <2>. QED BY <2>1, BaseFacts
<1>3. GoodList(free)
  BY DEF HeapInv, Good
<1>4. \A i \in 1..Len(free) : free[i].size < m
  <2>1. FirstFit(free, m) = 0
    BY <1>1, Zenon DEF CanAlloc
  <2>. HIDE DEF m
  <2>. QED BY <1>1, <1>3, <2>1, FirstFitFacts
<1>5. Gap(lo, hi)
  BY DEF HeaderSize
<1>. HIDE DEF m
<1>6. PICK i \in 1..Len(free) : free[i].at <= lo /\ hi <= End(free[i])
  <2>1. hi \in Int /\ lo \in Int /\ lo < hi
    BY <1>1, <1>2
  <2>. HIDE DEF hi
  <2>. QED BY <1>5, <2>1, GapIsFree
<1>7. free[i].at \in Nat /\ free[i].size \in Nat /\ End(free[i]) = free[i].at + 16 + free[i].size
  BY <1>3, FreeBlock
<1>8. free[i].size < m
  BY <1>4
<1>. QED BY <1>1, <1>2, <1>6, <1>7, <1>8

LEMMA AskedFromInv == HeapInv => AskedFor
<1> SUFFICES ASSUME HeapInv, NEW b \in held
             PROVE  Payload(b) % ALIGN = 0 /\ Suits(b.size, b.asked)
  BY DEF AskedFor
<1>1. Placed(b) /\ Suits(b.size, b.asked) /\ b.at \in Nat
  BY HeldFacts DEF HeapInv
<1>2. b.at % 8 = 0
  BY <1>1 DEF Placed, ALIGN
<1>3. (b.at + 16) % 8 = 0
  BY <1>1, <1>2
<1>. QED BY <1>1, <1>3 DEF Payload, HeaderSize, ALIGN

LEMMA RefusedFromInv == HeapInv => RefusedOnlyAtTheEnd
<1> SUFFICES ASSUME HeapInv, NEW b \in held, ~Accepts(free, Header(b)),
                    NEW i \in DOMAIN free
             PROVE  End(free[i]) < b.at
  BY DEF RefusedOnlyAtTheEnd
<1> DEFINE c == Header(b)
<1>1. GoodList(free) /\ NoneTwice(free, held)
  BY DEF HeapInv, Good
<1>2. i \in 1..Len(free)
  BY <1>1, LenProperties DEF GoodList
<1>3. Placed(b) /\ b.at \in Nat /\ b.size \in Nat
  BY HeldFacts DEF HeapInv
<1>4. c.at = b.at /\ c.size = b.size /\ c \in Block
  BY <1>3 DEF Header, Block
<1>. HIDE DEF c
<1>5. Placed(c) /\ \A x : Covers(c, x) <=> Covers(b, x)
  BY <1>3, <1>4 DEF Placed, Covers, End
<1>6. Clear(free, c)
  BY <1>1, <1>5 DEF Clear, NoneTwice
<1>7. \A j \in 1..Len(free) : End(free[j]) < c.at
  <2>1. ~Accepts(free, c)
    BY DEF c
  <2>. QED BY <1>1, <1>4, <1>5, <1>6, <2>1, WithBlockFacts
<1>. QED BY <1>2, <1>4, <1>7

(* k_mem_alloc and k_mem_dealloc keep the heap tiled: splitting, coalescing  *)
(* and refused calls put no byte in two blocks, free or held, nor in none.   *)
THEOREM TilingHolds == ASSUME Careful PROVE Spec => []Tiling
BY HeapInvariant, TilingFromInv, PTL

(* Whatever k_mem_dealloc was given, in whatever order, the free list is in *)
(* address order and no two of its blocks touch.                            *)
THEOREM CoalescedHolds == ASSUME Careful PROVE Spec => []Coalesced
BY HeapInvariant, CoalescedFromInv, PTL

(* k_mem_alloc returns NULL only if no gap has room for the request.       *)
THEOREM NullOnlyWhenFullHolds == ASSUME Careful PROVE Spec => []NullOnlyWhenFull
BY HeapInvariant, NullFromInv, PTL

(* k_mem_alloc gives what was asked for, aligned, and less than a block more, *)
(* but for a request whose rounding wraps to 0, to which it gives no byte    *)
(* for sure.                                                                *)
THEOREM AskedForHolds == ASSUME Careful PROVE Spec => []AskedFor
BY HeapInvariant, AskedFromInv, PTL

(* k_mem_dealloc refuses a block that is held only if it lies behind the    *)
(* last free block and does not touch it.                                   *)
THEOREM RefusedOnlyAtTheEndHolds == ASSUME Careful PROVE Spec => []RefusedOnlyAtTheEnd
BY HeapInvariant, RefusedFromInv, PTL

-----------------------------------------------------------------------------
(* The heap implements the pool. *)

Areas(hs) == {[lo |-> b.at, hi |-> End(b)] : b \in hs}

(* The areas of two blocks have no byte in common. *)
LEMMA AreasApart ==
  ASSUME NEW f, NEW hs, Good(f, hs), NEW b \in hs, NEW c \in hs, b # c
  PROVE  End(b) <= c.at \/ End(c) <= b.at
<1>1. /\ b.at \in Nat /\ End(b) \in Nat /\ b.at < End(b)
      /\ c.at \in Nat /\ End(c) \in Nat /\ c.at < End(c)
  BY HeldFacts
<1>2. NoneTwice(f, hs)
  BY DEF Good
<1>3. /\ ~(Covers(b, b.at) /\ Covers(c, b.at))
      /\ ~(Covers(b, c.at) /\ Covers(c, c.at))
  BY <1>1, <1>2 DEF NoneTwice
<1>. QED BY <1>1, <1>3 DEF Covers

(* A step that only adds areas hands them out. *)
LEMMA MoreIsHandOut ==
  ASSUME Good(free', held'), Areas(held) \subseteq Areas(held')
  PROVE  Pool!HandOut
<1>1. ASSUME NEW b \in held', NEW a, a = [lo |-> b.at, hi |-> End(b)]
      PROVE  /\ Pool!InPool(a)
             /\ \A c \in Areas(held') \ {a} : Pool!Apart(a, c)
  <2>1. /\ Placed(b) /\ b.at < End(b) /\ a.lo = b.at /\ a.hi = End(b)
    BY <1>1, HeldFacts
  <2>2. Pool!InPool(a)
    BY <2>1 DEF Placed, Pool!InPool
  <2>3. ASSUME NEW c \in Areas(held') \ {a} PROVE Pool!Apart(a, c)
    <3>1. PICK d \in held' : c = [lo |-> d.at, hi |-> End(d)]
      BY DEF Areas
    <3>2. d # b
      BY <1>1, <3>1
    <3>3. End(b) <= d.at \/ End(d) <= b.at
      BY <3>2, AreasApart
    <3>. QED BY <2>1, <3>1, <3>3 DEF Pool!Apart
  <2>. QED BY <2>2, <2>3
<1>2. ASSUME NEW a \in Areas(held')
      PROVE  /\ Pool!InPool(a)
             /\ \A c \in Areas(held') \ {a} : Pool!Apart(a, c)
  BY <1>1 DEF Areas
<1>. QED BY <1>2 DEF Pool!HandOut, Areas

LEMMA LostArea ==
  ASSUME NEW b \in HeldBlock
  PROVE  Lost(b).at = b.at /\ End(Lost(b)) = End(b)
BY DEF HeldBlock, Lost, End, HeaderSize

(* A step that releases some of the held blocks, or loses them, gives areas *)
(* back, or changes none.                                                   *)
LEMMA FewerIsGiveBack ==
  ASSUME HeapInv, \A b \in held' : b \in held \/ \E c \in held : b = Lost(c)
  PROVE  Pool!GiveBack
<1>1. ASSUME NEW b \in held'
      PROVE  \E c \in held : [lo |-> b.at, hi |-> End(b)] = [lo |-> c.at, hi |-> End(c)]
  BY <1>1, HeldFacts, LostArea DEF HeapInv
<1>. QED BY <1>1 DEF Pool!GiveBack

LEMMA HeldMore == held \subseteq held' => Areas(held) \subseteq Areas(held')
BY DEF Areas

LEMMA PoolStep ==
  ASSUME HeapInv, Careful, [Next]_vars
  PROVE  Pool!Next \/ UNCHANGED held
<1>0. HeapInv' /\ Good(free', held')
  <2>1. HeapInv'
    BY HeapStep
  <2>. QED BY <2>1 DEF HeapInv
<1>1. ASSUME held \subseteq held' PROVE Pool!Next
  BY <1>0, <1>1, HeldMore, MoreIsHandOut DEF Pool!Next
<1>2. ASSUME \A b \in held' : b \in held \/ \E c \in held : b = Lost(c) PROVE Pool!Next
  BY <1>2, FewerIsGiveBack DEF Pool!Next
<1>3. ASSUME NEW b \in held, Becomes(Release(Heap, b)) PROVE Pool!Next
  <2>1. held' \subseteq (held \ {b}) \cup {Lost(b)}
    BY <1>3, ReleaseStep DEF HeapInv
  <2>. QED BY <1>2, <2>1
<1>4. ASSUME NEW t \in Tasks, NEW n \in 1..(U32MOD - 1), NEW use \in Use,
             CanAlloc(free, n), Becomes(Alloc(Heap, t, n, use))
      PROVE  Pool!Next
  <2>1. held \subseteq held'
    BY <1>4, AllocStep DEF HeapInv
  <2>. QED BY <1>1, <2>1
<1>5. ASSUME NEW t \in Tasks, NEW n \in Requests, k_mem_alloc(t, n) PROVE Pool!Next
  BY <1>4, <1>5, SizeFacts, UseFacts DEF k_mem_alloc
<1>6. ASSUME NEW t \in Tasks, k_alloc_p_stack(t) PROVE Pool!Next
  BY <1>4, <1>6, SizeFacts, UseFacts DEF k_alloc_p_stack
<1>7. ASSUME NEW t \in Tasks, NEW b \in held, k_mem_dealloc(t, b) PROVE Pool!Next
  BY <1>3, <1>7 DEF k_mem_dealloc
<1>8. ASSUME NEW t \in Tasks, NEW b \in held, FreeTwice(t, b) PROVE Pool!Next
  <2>1. Becomes(Release(Heap, b))
    BY <1>8, FreeTwiceIsRelease
  <2>. QED BY <1>3, <2>1
<1>9. ASSUME NEW b \in held, FreeStack(b) PROVE Pool!Next
  BY <1>3, <1>9 DEF FreeStack
<1>10. ASSUME NEW t \in Tasks, k_send_msg(t) PROVE Pool!Next
  BY <1>1, <1>10, SendCallGood
<1>11. ASSUME NEW t \in Tasks, IrqChar(t) PROVE Pool!Next
  BY <1>1, <1>11, IrqGood
<1>12. ASSUME NEW m \in mail, deallocate_msg(m) PROVE Pool!Next
  <2>1. held' \subseteq held \cup {Lost(m.text), Lost(m.node)}
    BY <1>12, DeleteGood
  <2>2. m.text \in held /\ m.node \in held
    BY DEF HeapInv, MailHeld
  <2>. QED BY <1>2, <2>1, <2>2
<1>13. ASSUME NEW n \in Requests, DirectScan(n) PROVE UNCHANGED held
  BY <1>13 DEF DirectScan
<1>14. CASE DirectTake
  BY <1>1, <1>14, TakeGood
<1>15. CASE UNCHANGED vars
  BY <1>15 DEF vars
<1>16. ASSUME NEW b \in held, IrqFree(b) PROVE Pool!Next
  BY <1>3, <1>16 DEF IrqFree
<1>. QED BY <1>5, <1>6, <1>7, <1>8, <1>9, <1>10, <1>11, <1>12, <1>13, <1>14, <1>15, <1>16 DEF Next

(* Tasks, messages and interrupts share the heap as if it were the pool:    *)
(* what one of them holds is nobody else's until it is given back.          *)
THEOREM PoolRefined == ASSUME Careful PROVE Spec => PoolImplemented
<1>1. Init => Pool!Init
  BY DEF Init, Pool!Init
<1>2. HeapInv /\ [Next]_vars => [Pool!Next]_({[lo |-> b.at, hi |-> End(b)] : b \in held})
  BY PoolStep
<1>. QED BY <1>1, <1>2, HeapInvariant, PTL DEF Spec, PoolImplemented, Pool!Spec

=============================================================================
