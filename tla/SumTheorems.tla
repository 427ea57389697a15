---------------------------- MODULE SumTheorems ----------------------------
(***************************************************************************)
(* What a sum over a finite set, SumFunctionOnSet, is: the recursion that  *)
(* defines it has a solution, every element can be split off, and the sum  *)
(* over a sequence follows Append and Tail.  The induction is on sets of   *)
(* numbers, whose least element WFMin provides.                            *)
(***************************************************************************)
EXTENDS Integers, Sequences, Functions, FiniteSetTheorems, SequenceTheorems, TLAPS

(* A set of numbers that holds 0 and the successor of its elements is Nat. *)
LEMMA NatInSet ==
  ASSUME NEW T, 0 \in T, \A n \in Nat : n \in T => n + 1 \in T
  PROVE  Nat \subseteq T
<1> DEFINE Out == Nat \ T
<1>1. SUFFICES ASSUME Out # {} PROVE FALSE
  BY Zenon
<1>2. IsWellFoundedOn(OpToRel(<, Nat), Nat) /\ Out \subseteq Nat
  BY NatLessThanWellFounded
<1>3. PICK n \in Out : \A m \in Out : ~(<< m, n >> \in OpToRel(<, Nat))
  <2>. HIDE DEF Out
  <2>. QED BY <1>1, <1>2, WFMin
<1>4. \A m \in Out : ~(m < n)
  BY <1>3 DEF OpToRel
<1>5. n # 0 /\ n \in Nat
  OBVIOUS
<1>6. n - 1 \in Nat /\ n - 1 \notin Out
  BY <1>4, <1>5
<1>7. n \in T
  BY <1>5, <1>6
<1>. QED BY <1>7

(* A family of sets that holds the empty set and, with a subset of S, the   *)
(* subset with one more element of S, holds S.                              *)
LEMMA FiniteInSet ==
  ASSUME NEW S, IsFiniteSet(S), NEW F,
         {} \in F,
         \A T \in SUBSET S, x \in S : T \in F /\ x \notin T => T \cup {x} \in F
  PROVE  S \in F
<1> DEFINE N == {n \in Nat : \A T \in SUBSET S : Cardinality(T) = n => T \in F}
<1>0. \A T \in SUBSET S : IsFiniteSet(T) /\ Cardinality(T) \in Nat
  BY FS_Subset, FS_CardinalityType
<1>1. 0 \in N
  BY <1>0, FS_EmptySet
<1>2. ASSUME NEW n \in Nat, n \in N PROVE n + 1 \in N
  <2>1. ASSUME NEW T \in SUBSET S, Cardinality(T) = n + 1 PROVE T \in F
    <3>1. T # {}
      <4>1. n + 1 # 0
        OBVIOUS
      <4>. QED BY <2>1, <4>1, FS_EmptySet, Zenon
    <3>2. PICK x \in T : TRUE
      BY <3>1
    <3>3. Cardinality(T \ {x}) = n
      <4>1. Cardinality(T \ {x}) = Cardinality(T) - 1
        BY <1>0, <3>2, FS_RemoveElement, Zenon
      <4>. QED BY <2>1, <4>1
    <3>4. T \ {x} \in F
      BY <1>2, <3>3
    <3>5. (T \ {x}) \cup {x} = T
      BY <3>2
    <3>. QED BY <3>4, <3>5
  <2>. QED BY <2>1
<1>3. Nat \subseteq N
  <2>. HIDE DEF N
  <2>. QED BY <1>1, <1>2, NatInSet
<1>. QED BY <1>0, <1>3

-----------------------------------------------------------------------------
(* The recursion. *)

(* One step of it: the sum over U, given sums over its subsets. *)
SumStep(w, it, U) ==
  IF U = {} THEN 0 ELSE w[CHOOSE x \in U : TRUE] + it[U \ {CHOOSE x \in U : TRUE}]

SumsOf(w, it, D) == it = [U \in SUBSET D |-> SumStep(w, it, U)]

LEMMA SumDefinition ==
  ASSUME NEW w, NEW D
  PROVE  SumFunctionOnSet(w, D) = (CHOOSE it : SumsOf(w, it, D))[D]
BY Zenon DEF SumFunctionOnSet, FoldFunctionOnSet, MapThenFoldSet, SumsOf, SumStep

LEMMA SumsExist ==
  ASSUME NEW w, NEW D, IsFiniteSet(D)
  PROVE  \E it : SumsOf(w, it, D)
<1> DEFINE Upto(it, n) ==
             /\ it = [U \in SUBSET D |-> it[U]]
             /\ \A U \in SUBSET D : Cardinality(U) <= n => it[U] = SumStep(w, it, U)
           N == {n \in Nat : \E it : Upto(it, n)}
<1>0. \A T \in SUBSET D : IsFiniteSet(T) /\ Cardinality(T) \in Nat
  BY FS_Subset, FS_CardinalityType
<1>1. 0 \in N
  <2>1. \A U \in SUBSET D : Cardinality(U) <= 0 => U = {}
    BY <1>0, FS_EmptySet
  <2>2. Upto([U \in SUBSET D |-> 0], 0)
    BY <2>1 DEF SumStep
  <2>. QED BY <2>2
<1>2. ASSUME NEW n \in Nat, n \in N PROVE n + 1 \in N
  <2>1. PICK it : Upto(it, n)
    BY <1>2
  <2> DEFINE up == [U \in SUBSET D |-> SumStep(w, it, U)]
  <2>2. ASSUME NEW U \in SUBSET D, Cardinality(U) <= n + 1, U # {}
        PROVE  up[U] = SumStep(w, up, U)
    <3> DEFINE x == CHOOSE x \in U : TRUE
               R == U \ {x}
    <3>1. x \in U
      BY <2>2
    <3>. HIDE DEF x
    <3>2. R \in SUBSET D /\ Cardinality(R) = Cardinality(U) - 1
      <4>1. Cardinality(R) = Cardinality(U) - 1
        BY <1>0, <3>1, FS_RemoveElement, Zenon
      <4>. QED BY <4>1
    <3>3. Cardinality(R) <= n
      BY <1>0, <2>2, <3>2
    <3>4. up[R] = it[R]
      <4>1. it[R] = SumStep(w, it, R)
        BY <2>1, <3>2, <3>3
      <4>. QED BY <3>2, <4>1
    <3>5. up[U] = w[x] + it[R]
      BY <2>2 DEF SumStep, x
    <3>. QED BY <2>2, <3>4, <3>5 DEF SumStep, x
  <2>3. up[{}] = SumStep(w, up, {})
    BY DEF SumStep
  <2>4. Upto(up, n + 1)
    <3>. HIDE DEF up
    <3>1. up = [U \in SUBSET D |-> up[U]]
      BY DEF up
    <3>. QED BY <2>2, <2>3, <3>1
  <2>5. \E f : Upto(f, n + 1)
    <3>. HIDE DEF up, Upto
    <3>. QED BY <2>4, Zenon
  <2>6. n + 1 \in Nat
    OBVIOUS
  <2>. HIDE DEF Upto
  <2>. QED BY <2>5, <2>6
<1>3. Cardinality(D) \in N
  <2>. HIDE DEF N
  <2>. QED BY <1>0, <1>1, <1>2, NatInSet
<1>4. PICK it : Upto(it, Cardinality(D))
  BY <1>3
<1>5. \A U \in SUBSET D : Cardinality(U) <= Cardinality(D)
  BY FS_Subset
<1>6. it = [U \in SUBSET D |-> SumStep(w, it, U)]
  BY <1>4, <1>5
<1>. QED BY <1>6 DEF SumsOf

(* Sums over D are sums over each of its subsets.  *)
LEMMA SumsAgree ==
  ASSUME NEW w, NEW D, IsFiniteSet(D), NEW it, SumsOf(w, it, D), NEW T \in SUBSET D
  PROVE  SumFunctionOnSet(w, T) = it[T]
<1>0. IsFiniteSet(T)
  BY FS_Subset
<1>1. PICK jt : jt = (CHOOSE f : SumsOf(w, f, T)) /\ SumsOf(w, jt, T)
  BY <1>0, SumsExist, Zenon
<1> DEFINE F == {U \in SUBSET T : \A V \in SUBSET U : jt[V] = it[V]}
           N == {n \in Nat : \A U \in SUBSET T : Cardinality(U) = n => jt[U] = it[U]}
<1>2. \A U \in SUBSET T : IsFiniteSet(U) /\ Cardinality(U) \in Nat
  BY <1>0, FS_Subset, FS_CardinalityType
<1>3. \A U \in SUBSET T : jt[U] = SumStep(w, jt, U) /\ it[U] = SumStep(w, it, U)
  BY <1>1 DEF SumsOf
<1>4. 0 \in N
  BY <1>2, <1>3, FS_EmptySet DEF SumStep
<1>5. ASSUME NEW n \in Nat, n \in N PROVE n + 1 \in N
  <2>1. ASSUME NEW U \in SUBSET T, Cardinality(U) = n + 1 PROVE jt[U] = it[U]
    <3> DEFINE x == CHOOSE x \in U : TRUE
               R == U \ {x}
    <3>1. U # {}
      <4>1. n + 1 # 0
        OBVIOUS
      <4>. QED BY <2>1, <4>1, FS_EmptySet, Zenon
    <3>2. x \in U
      BY <3>1
    <3>3. Cardinality(R) = n
      <4>1. Cardinality(R) = Cardinality(U) - 1
        <5>. HIDE DEF x
        <5>. QED BY <1>2, <3>2, FS_RemoveElement, Zenon
      <4>. QED BY <2>1, <4>1
    <3>4. jt[R] = it[R]
      BY <1>5, <3>3
    <3>. QED BY <1>3, <3>1, <3>4 DEF SumStep
  <2>. QED BY <2>1
<1>6. Nat \subseteq N
  <2>. HIDE DEF N
  <2>. QED BY <1>4, <1>5, NatInSet
<1>7. jt[T] = it[T]
  BY <1>2, <1>6
<1>. QED BY <1>1, <1>7, SumDefinition

LEMMA SumEmpty == ASSUME NEW w PROVE SumFunctionOnSet(w, {}) = 0
<1>1. PICK it : SumsOf(w, it, {})
  BY FS_EmptySet, SumsExist
<1>2. SumFunctionOnSet(w, {}) = it[{}]
  BY <1>1, FS_EmptySet, SumsAgree
<1>. QED BY <1>1, <1>2 DEF SumsOf, SumStep

(* The element that the recursion chooses is split off. *)
LEMMA SumChoice ==
  ASSUME NEW w, NEW D, IsFiniteSet(D), D # {}
  PROVE  \E x \in D : SumFunctionOnSet(w, D) = w[x] + SumFunctionOnSet(w, D \ {x})
<1>1. PICK it : SumsOf(w, it, D)
  BY SumsExist
<1> DEFINE x == CHOOSE x \in D : TRUE
<1>2. x \in D
  OBVIOUS
<1>3. it[D] = w[x] + it[D \ {x}]
  BY <1>1 DEF SumsOf, SumStep
<1>. HIDE DEF x
<1>4. SumFunctionOnSet(w, D) = it[D] /\ SumFunctionOnSet(w, D \ {x}) = it[D \ {x}]
  BY <1>1, SumsAgree
<1>. QED BY <1>2, <1>3, <1>4

LEMMA SumType ==
  ASSUME NEW D, IsFiniteSet(D), NEW w, \A x \in D : w[x] \in Int
  PROVE  SumFunctionOnSet(w, D) \in Int
<1> DEFINE N == {n \in Nat : \A U \in SUBSET D :
                    Cardinality(U) = n => SumFunctionOnSet(w, U) \in Int}
<1>2. \A U \in SUBSET D : IsFiniteSet(U) /\ Cardinality(U) \in Nat
  BY FS_Subset, FS_CardinalityType
<1>4. 0 \in N
  BY <1>2, FS_EmptySet, SumEmpty
<1>5. ASSUME NEW n \in Nat, n \in N PROVE n + 1 \in N
  <2>1. ASSUME NEW U \in SUBSET D, Cardinality(U) = n + 1
        PROVE  SumFunctionOnSet(w, U) \in Int
    <3>1. U # {}
      <4>1. n + 1 # 0
        OBVIOUS
      <4>. QED BY <2>1, <4>1, FS_EmptySet, Zenon
    <3>2. PICK x \in U : SumFunctionOnSet(w, U) = w[x] + SumFunctionOnSet(w, U \ {x})
      BY <1>2, <3>1, SumChoice
    <3>3. Cardinality(U \ {x}) = Cardinality(U) - 1
      BY <1>2, <3>2, FS_RemoveElement, Zenon
    <3>4. SumFunctionOnSet(w, U \ {x}) \in Int
      BY <1>5, <2>1, <3>3
    <3>. QED BY <3>2, <3>4
  <2>. QED BY <2>1
<1>6. Nat \subseteq N
  <2>. HIDE DEF N
  <2>. QED BY <1>4, <1>5, NatInSet
<1>. QED BY <1>2, <1>6

LEMMA SumNat ==
  ASSUME NEW D, IsFiniteSet(D), NEW w, \A x \in D : w[x] \in Nat
  PROVE  SumFunctionOnSet(w, D) \in Nat
<1> DEFINE N == {n \in Nat : \A U \in SUBSET D :
                    Cardinality(U) = n => SumFunctionOnSet(w, U) \in Nat}
<1>2. \A U \in SUBSET D : IsFiniteSet(U) /\ Cardinality(U) \in Nat
  BY FS_Subset, FS_CardinalityType
<1>4. 0 \in N
  BY <1>2, FS_EmptySet, SumEmpty
<1>5. ASSUME NEW n \in Nat, n \in N PROVE n + 1 \in N
  <2>1. ASSUME NEW U \in SUBSET D, Cardinality(U) = n + 1
        PROVE  SumFunctionOnSet(w, U) \in Nat
    <3>1. U # {}
      <4>1. n + 1 # 0
        OBVIOUS
      <4>. QED BY <2>1, <4>1, FS_EmptySet, Zenon
    <3>2. PICK x \in U : SumFunctionOnSet(w, U) = w[x] + SumFunctionOnSet(w, U \ {x})
      BY <1>2, <3>1, SumChoice
    <3>3. Cardinality(U \ {x}) = Cardinality(U) - 1
      BY <1>2, <3>2, FS_RemoveElement, Zenon
    <3>4. SumFunctionOnSet(w, U \ {x}) \in Nat
      BY <1>5, <2>1, <3>3
    <3>. QED BY <3>2, <3>4
  <2>. QED BY <2>1
<1>6. Nat \subseteq N
  <2>. HIDE DEF N
  <2>. QED BY <1>4, <1>5, NatInSet
<1>. QED BY <1>2, <1>6

(* Every element can be split off: the order does not matter. *)
LEMMA SumRemove ==
  ASSUME NEW D, IsFiniteSet(D), NEW w, \A x \in D : w[x] \in Int, NEW x \in D
  PROVE  SumFunctionOnSet(w, D) = w[x] + SumFunctionOnSet(w, D \ {x})
<1> DEFINE Sum(U) == SumFunctionOnSet(w, U)
           N == {n \in Nat : \A U \in SUBSET D : \A y \in U :
                    Cardinality(U) = n => Sum(U) = w[y] + Sum(U \ {y})}
<1>1. \A U \in SUBSET D : IsFiniteSet(U) /\ Cardinality(U) \in Nat
  BY FS_Subset, FS_CardinalityType
<1>2. \A U \in SUBSET D : Sum(U) \in Int
  BY <1>1, SumType
<1>3. 0 \in N
  BY <1>1, FS_EmptySet
<1>4. ASSUME NEW n \in Nat, n \in N PROVE n + 1 \in N
  <2>1. ASSUME NEW U \in SUBSET D, NEW y \in U, Cardinality(U) = n + 1
        PROVE  Sum(U) = w[y] + Sum(U \ {y})
    <3>1. PICK c \in U : Sum(U) = w[c] + Sum(U \ {c})
      BY <1>1, SumChoice
    <3>2. \A z \in U : Cardinality(U \ {z}) = n
      <4>1. \A z \in U : Cardinality(U \ {z}) = Cardinality(U) - 1
        BY <1>1, FS_RemoveElement, Zenon
      <4>. QED BY <2>1, <4>1
    <3>. HIDE DEF Sum
    <3>3. CASE c = y
      BY <3>1, <3>3
    <3>4. CASE c # y
      <4>1. Sum(U \ {c}) = w[y] + Sum((U \ {c}) \ {y})
        BY <1>4, <3>2, <3>4
      <4>2. Sum(U \ {y}) = w[c] + Sum((U \ {y}) \ {c})
        BY <1>4, <3>2, <3>4
      <4>3. (U \ {y}) \ {c} = (U \ {c}) \ {y}
        OBVIOUS
      <4>4. Sum((U \ {c}) \ {y}) \in Int /\ w[y] \in Int /\ w[c] \in Int
        BY <1>2
      <4>5. w[c] + (w[y] + Sum((U \ {c}) \ {y})) = w[y] + (w[c] + Sum((U \ {c}) \ {y}))
        BY <4>4
      <4>. QED BY <3>1, <4>1, <4>2, <4>3, <4>5, Zenon
    <3>. QED BY <3>3, <3>4
  <2>. QED BY <2>1
<1>5. Nat \subseteq N
  <2>. HIDE DEF N
  <2>. QED BY <1>3, <1>4, NatInSet
<1>. QED BY <1>1, <1>5

LEMMA SumCong ==
  ASSUME NEW D, IsFiniteSet(D), NEW v, NEW w, \A x \in D : v[x] = w[x] /\ w[x] \in Int
  PROVE  SumFunctionOnSet(v, D) = SumFunctionOnSet(w, D)
<1> DEFINE F == {U \in SUBSET D : SumFunctionOnSet(v, U) = SumFunctionOnSet(w, U)}
<1>1. {} \in F
  BY SumEmpty
<1>2. ASSUME NEW U \in SUBSET D, NEW x \in D, U \in F, x \notin U
      PROVE  U \cup {x} \in F
  <2> DEFINE X == U \cup {x}
  <2>1. X \in SUBSET D /\ x \in X /\ X \ {x} = U
    BY <1>2
  <2>2. IsFiniteSet(X)
    BY <2>1, FS_Subset
  <2>. HIDE DEF X
  <2>3. /\ SumFunctionOnSet(v, X) = v[x] + SumFunctionOnSet(v, X \ {x})
        /\ SumFunctionOnSet(w, X) = w[x] + SumFunctionOnSet(w, X \ {x})
    BY <2>1, <2>2, SumRemove
  <2>4. SumFunctionOnSet(v, X) = SumFunctionOnSet(w, X)
    BY <1>2, <2>1, <2>3
  <2>. QED BY <2>1, <2>4 DEF X
<1>3. D \in F
  <2>. HIDE DEF F
  <2>. QED BY <1>1, <1>2, FiniteInSet
<1>. QED BY <1>3

LEMMA SumZero ==
  ASSUME NEW D, IsFiniteSet(D), NEW w, \A x \in D : w[x] = 0
  PROVE  SumFunctionOnSet(w, D) = 0
<1> DEFINE F == {U \in SUBSET D : SumFunctionOnSet(w, U) = 0}
<1>1. {} \in F
  BY SumEmpty
<1>2. ASSUME NEW U \in SUBSET D, NEW x \in D, U \in F, x \notin U
      PROVE  U \cup {x} \in F
  <2> DEFINE X == U \cup {x}
  <2>1. X \in SUBSET D /\ x \in X /\ X \ {x} = U
    BY <1>2
  <2>2. IsFiniteSet(X)
    BY <2>1, FS_Subset
  <2>. HIDE DEF X
  <2>3. SumFunctionOnSet(w, X) = w[x] + SumFunctionOnSet(w, X \ {x})
    BY <2>1, <2>2, SumRemove
  <2>4. SumFunctionOnSet(w, X) = 0
    BY <1>2, <2>1, <2>3
  <2>. QED BY <2>1, <2>4 DEF X
<1>3. D \in F
  <2>. HIDE DEF F
  <2>. QED BY <1>1, <1>2, FiniteInSet
<1>. QED BY <1>3

-----------------------------------------------------------------------------
(* Functions and sequences. *)

LEMMA SumFunctionType ==
  ASSUME NEW D, IsFiniteSet(D), NEW w \in [D -> Int]
  PROVE  SumFunction(w) \in Int
BY SumType DEF SumFunction

(* A sum after one value has changed. *)
LEMMA SumExcept ==
  ASSUME NEW D, IsFiniteSet(D), NEW v \in [D -> Int], NEW w \in [D -> Int], NEW x \in D,
         \A y \in D \ {x} : v[y] = w[y]
  PROVE  SumFunction(v) = SumFunction(w) - w[x] + v[x]
<1>0. DOMAIN v = D /\ DOMAIN w = D /\ IsFiniteSet(D \ {x})
  BY FS_RemoveElement
<1>1. /\ SumFunctionOnSet(v, D) = v[x] + SumFunctionOnSet(v, D \ {x})
      /\ SumFunctionOnSet(w, D) = w[x] + SumFunctionOnSet(w, D \ {x})
  BY SumRemove
<1>2. SumFunctionOnSet(v, D \ {x}) = SumFunctionOnSet(w, D \ {x})
  BY <1>0, SumCong
<1>3. SumFunctionOnSet(w, D \ {x}) \in Int
  BY <1>0, SumType
<1>4. v[x] \in Int /\ w[x] \in Int
  OBVIOUS
<1>. QED BY <1>0, <1>1, <1>2, <1>3, <1>4 DEF SumFunction

LEMMA SumSeqType ==
  ASSUME NEW s \in Seq(Int)
  PROVE  SumFunction(s) \in Int
<1>1. s \in [1..Len(s) -> Int] /\ Len(s) \in Nat
  BY LenProperties
<1>. QED BY <1>1, FS_Interval, SumFunctionType

LEMMA EmptyInt ==
  << >> \in Seq(Int) /\ \A s \in Seq(Int) : Len(s) \in Nat /\ (s = << >> <=> Len(s) = 0)
<1>1. << >> \in Seq(Int) /\ Len(<< >>) = 0
  BY EmptySeq
<1>2. \A s \in Seq(Int) : s # << >> => Len(s) \in Nat \ {0}
  BY EmptySeq, Zenon
<1>. QED BY <1>1, <1>2, LenProperties

LEMMA SumEmptySeq == SumFunction(<< >>) = 0
<1>1. DOMAIN << >> = {}
  OBVIOUS
<1>. QED BY <1>1, SumEmpty DEF SumFunction

LEMMA SumAppend ==
  ASSUME NEW s \in Seq(Int), NEW e \in Int
  PROVE  SumFunction(Append(s, e)) = SumFunction(s) + e
<1> DEFINE a == Append(s, e)
           n == Len(s)
<1>1. n \in Nat /\ s \in [1..n -> Int] /\ DOMAIN s = 1..n
  BY LenProperties
<1>2. /\ a \in Seq(Int) /\ Len(a) = n + 1
      /\ \A i \in 1..n : a[i] = s[i]
      /\ a[n + 1] = e
  BY AppendProperties
<1>. HIDE DEF a
<1>3. DOMAIN a = 1..(n + 1) /\ \A i \in 1..(n + 1) : a[i] \in Int
  BY <1>2, LenProperties, ElementOfSeq
<1>. HIDE DEF n
<1>4. IsFiniteSet(1..(n + 1)) /\ IsFiniteSet(1..n)
  <2>1. n + 1 \in Int /\ n \in Int /\ 1 \in Int
    BY <1>1
  <2>. QED BY <2>1, FS_Interval, Zenon
<1>5. n + 1 \in 1..(n + 1) /\ (1..(n + 1)) \ {n + 1} = 1..n
  BY <1>1
<1>6. SumFunctionOnSet(a, 1..(n + 1)) = a[n + 1] + SumFunctionOnSet(a, 1..n)
  <2> DEFINE D == 1..(n + 1)
             x == n + 1
  <2>1. IsFiniteSet(D) /\ x \in D /\ D \ {x} = 1..n /\ \A i \in D : a[i] \in Int
    BY <1>3, <1>4, <1>5
  <2>. HIDE DEF D, x
  <2>2. SumFunctionOnSet(a, D) = a[x] + SumFunctionOnSet(a, D \ {x})
    BY <2>1, SumRemove
  <2>. QED BY <2>1, <2>2 DEF D, x
<1>7. SumFunctionOnSet(a, 1..n) = SumFunctionOnSet(s, 1..n)
  <2>1. \A i \in 1..n : a[i] = s[i] /\ s[i] \in Int
    BY <1>1, <1>2
  <2>. QED BY <1>4, <2>1, SumCong
<1>8. SumFunctionOnSet(s, 1..n) \in Int
  <2>1. \A i \in 1..n : s[i] \in Int
    BY <1>1
  <2>. QED BY <1>4, <2>1, SumType
<1>9. SumFunction(s) = SumFunctionOnSet(s, 1..n)
  BY <1>1 DEF SumFunction
<1>10. SumFunction(a) = SumFunctionOnSet(a, 1..(n + 1))
  BY <1>3 DEF SumFunction
<1>. QED BY <1>2, <1>6, <1>7, <1>8, <1>9, <1>10 DEF a

(* Every sequence that is not empty is a first element and a rest, and the  *)
(* sum over the rest is what the first leaves.                              *)
LEMMA SumTail ==
  ASSUME NEW s \in Seq(Int), s # << >>
  PROVE  SumFunction(Tail(s)) = SumFunction(s) - Head(s)
<1> DEFINE N == {n \in Nat : \A t \in Seq(Int) :
                    Len(t) = n + 1 => SumFunction(Tail(t)) = SumFunction(t) - Head(t)}
<1>1. 0 \in N
  <2>. SUFFICES ASSUME NEW t \in Seq(Int), Len(t) = 1
                PROVE  SumFunction(Tail(t)) = SumFunction(t) - Head(t)
    OBVIOUS
  <2>1. t # << >> /\ << >> \in Seq(Int)
    BY EmptyInt, SMTT(30)
  <2>2. PICK r \in Seq(Int), e \in Int : t = Append(r, e)
    BY <2>1, SequenceEmptyOrAppend
  <2>3. r = << >>
    <3>1. Len(t) = Len(r) + 1
      BY <2>2, AppendProperties
    <3>2. Len(r) = 0
      <4>1. Len(r) \in Nat
        BY EmptyInt
      <4>2. \A m \in Nat : m + 1 = 1 => m = 0
        OBVIOUS
      <4>3. Len(r) + 1 = 1
        BY <3>1, Zenon
      <4>. QED BY <4>1, <4>2, <4>3, Zenon
    <3>. QED BY <3>2, EmptyInt
  <2>4. Head(t) = e /\ Tail(t) = << >>
    BY <2>1, <2>2, <2>3, HeadTailAppend
  <2>5. SumFunction(t) = 0 + e
    BY <2>1, <2>2, <2>3, SumAppend, SumEmptySeq
  <2>6. SumFunction(Tail(t)) = 0
    BY <2>4, SumEmptySeq, Zenon
  <2>. QED BY <2>4, <2>5, <2>6
<1>2. ASSUME NEW n \in Nat, n \in N PROVE n + 1 \in N
  <2>. SUFFICES ASSUME NEW t \in Seq(Int), Len(t) = (n + 1) + 1
                PROVE  SumFunction(Tail(t)) = SumFunction(t) - Head(t)
    OBVIOUS
  <2>1. t # << >>
    BY EmptySeq
  <2>2. PICK r \in Seq(Int), e \in Int : t = Append(r, e)
    BY <2>1, SequenceEmptyOrAppend
  <2>3. Len(r) = n + 1 /\ r # << >>
    BY <2>2, AppendProperties, EmptySeq
  <2>4. Head(t) = Head(r) /\ Tail(t) = Append(Tail(r), e)
    BY <2>2, <2>3, HeadTailAppend
  <2>5. Tail(r) \in Seq(Int) /\ Head(r) \in Int
    BY <2>3, HeadTailProperties
  <2>6. SumFunction(Tail(r)) = SumFunction(r) - Head(r)
    BY <1>2, <2>3
  <2>7. SumFunction(Tail(t)) = SumFunction(Tail(r)) + e
    BY <2>4, <2>5, SumAppend
  <2>8. SumFunction(t) = SumFunction(r) + e
    BY <2>2, SumAppend
  <2>9. SumFunction(r) \in Int
    BY SumSeqType
  <2>. QED BY <2>4, <2>5, <2>6, <2>7, <2>8, <2>9
<1>3. Nat \subseteq N
  <2>. HIDE DEF N
  <2>. QED BY <1>1, <1>2, NatInSet
<1>4. Len(s) - 1 \in N
  BY <1>3, EmptySeq, SMTT(30)
<1>. QED BY <1>4, EmptySeq

=============================================================================
