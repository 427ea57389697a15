-------------------------- MODULE ReadyQueueProofs --------------------------
(***************************************************************************)
(* What the operators of ReadyQueue keep, for every number of levels and   *)
(* every set of tids.                                                      *)
(***************************************************************************)
EXTENDS ReadyQueue, SequenceTheorems, WellFoundedInduction, TLAPS

(* A non-empty set of naturals has a least element. *)
LEMMA LeastNatural ==
  ASSUME NEW S \in SUBSET Nat, S # {}
  PROVE  \E n \in S : \A m \in S : n <= m
<1>1. IsWellFoundedOn(OpToRel(<, Nat), Nat)
  BY NatLessThanWellFounded
<1>2. PICK n \in S : \A m \in S : ~(<< m, n >> \in OpToRel(<, Nat))
  BY <1>1, WFMin
<1>3. \A m \in S : << m, n >> \in OpToRel(<, Nat) <=> m < n
  BY DEF OpToRel
<1>4. \A m \in S : n <= m
  <2>. TAKE m \in S
  <2>1. m \in Nat /\ n \in Nat /\ ~(m < n)
    BY <1>2, <1>3
  <2>. QED BY <2>1
<1>. QED BY <1>4

(* Removing an element of a sequence: length and elements. *)
LEMMA RemoveAtFacts ==
  ASSUME NEW T, NEW s \in Seq(T), NEW i \in 1..Len(s)
  PROVE  /\ RemoveAt(s, i) \in Seq(T)
         /\ Len(RemoveAt(s, i)) = Len(s) - 1
         /\ \A k \in 1..(i - 1) : RemoveAt(s, i)[k] = s[k]
         /\ \A k \in i..(Len(s) - 1) : RemoveAt(s, i)[k] = s[k + 1]
<1> DEFINE a == SubSeq(s, 1, i - 1)
           b == SubSeq(s, i + 1, Len(s))
<1>0. Len(s) \in Nat /\ i \in Nat /\ \A k \in 1..Len(s) : s[k] \in T
  BY LenProperties, ElementOfSeq
<1>1. a \in Seq(T) /\ Len(a) = i - 1 /\ \A k \in 1..(i - 1) : a[k] = s[k]
  BY <1>0, SubSeqProperties
<1>2. b \in Seq(T) /\ Len(b) = Len(s) - i /\ \A k \in 1..(Len(s) - i) : b[k] = s[i + k]
  BY <1>0, SubSeqProperties
<1>3. RemoveAt(s, i) = a \o b
  BY DEF RemoveAt
<1>. HIDE DEF a, b
<1>4. /\ a \o b \in Seq(T)
      /\ Len(a \o b) = Len(s) - 1
      /\ \A k \in 1..(Len(s) - 1) :
           (a \o b)[k] = IF k <= i - 1 THEN a[k] ELSE b[k - (i - 1)]
  BY <1>0, <1>1, <1>2, ConcatProperties
<1>5. \A k \in 1..(i - 1) : (a \o b)[k] = s[k]
  BY <1>0, <1>1, <1>4
<1>6. \A k \in i..(Len(s) - 1) : (a \o b)[k] = s[k + 1]
  <2>. TAKE k \in i..(Len(s) - 1)
  <2>0. k \in 1..(Len(s) - 1) /\ ~(k <= i - 1)
    BY <1>0
  <2>1. (a \o b)[k] = b[k - (i - 1)]
    BY <2>0, <1>4
  <2>2. k - (i - 1) \in 1..(Len(s) - i) /\ i + (k - (i - 1)) = k + 1
    BY <1>0
  <2>. QED BY <1>2, <2>1, <2>2
<1>. QED BY <1>3, <1>4, <1>5, <1>6

-----------------------------------------------------------------------------
(* Types *)

LEMMA InsertType ==
  ASSUME NEW T, NEW q \in ReadyQueues(T), NEW p \in Prio, NEW t \in T
  PROVE  insert_into_tasks(q, p, t) \in ReadyQueues(T)
<1>1. update_highest_priority(q, p) \in ReadyQueues(T)
  BY DEF update_highest_priority, ReadyQueues
<1>2. \A r \in ReadyQueues(T) : enqueue(r, p, t) \in ReadyQueues(T)
  <2>. TAKE r \in ReadyQueues(T)
  <2>1. r.tasks[p] \in Seq(T)
    BY DEF ReadyQueues
  <2>2. Append(r.tasks[p], t) \in Seq(T)
    BY <2>1, AppendProperties
  <2>. QED BY <2>2 DEF enqueue, ReadyQueues
<1>. QED BY <1>1, <1>2 DEF insert_into_tasks

(* The scan finds the nearest non-empty level below the one served, or *)
(* stays where it is.                                                   *)
LEMMA NextLevelFacts ==
  ASSUME NEW T, NEW q \in ReadyQueues(T)
  PROVE  /\ NextLevel(q) \in Prio
         /\ \/ /\ \A l \in Levels(q) : l <= q.highest_priority
               /\ NextLevel(q) = q.highest_priority
            \/ /\ NextLevel(q) \in Levels(q)
               /\ NextLevel(q) > q.highest_priority
               /\ \A l \in Levels(q) : l > q.highest_priority => NextLevel(q) <= l
<1> DEFINE below == {l \in Levels(q) : l > q.highest_priority}
<1>0. Prio \subseteq Nat /\ Levels(q) \subseteq Prio /\ q.highest_priority \in Prio
  BY PrioAssumption DEF Prio, Levels, ReadyQueues
<1>1. CASE below = {}
  <2>1. NextLevel(q) = q.highest_priority
    BY <1>1 DEF NextLevel
  <2>2. \A l \in Levels(q) : l <= q.highest_priority
    <3>. TAKE l \in Levels(q)
    <3>1. l \in Nat /\ q.highest_priority \in Nat /\ ~(l > q.highest_priority)
      BY <1>0, <1>1
    <3>. QED BY <3>1
  <2>. QED BY <1>0, <2>1, <2>2
<1>2. CASE below # {}
  <2>1. \E n \in below : \A m \in below : n <= m
    BY <1>0, <1>2, LeastNatural
  <2>2. NextLevel(q) \in below /\ \A m \in below : NextLevel(q) <= m
    BY <1>2, <2>1 DEF NextLevel
  <2>. QED BY <1>0, <2>2
<1>. QED BY <1>1, <1>2

LEMMA RetrieveType ==
  ASSUME NEW T, NEW q \in ReadyQueues(T)
  PROVE  /\ retrieve_from_tasks(q) \in ReadyQueues(T)
         /\ Retrieved(q) \in T \cup {NoTask}
<1>0. q.highest_priority \in Prio /\ Top(q) \in Seq(T)
  BY DEF Top, ReadyQueues
<1>1. dequeue(q) \in ReadyQueues(T)
  <2>1. CASE Top(q) = << >>
    BY <2>1 DEF dequeue
  <2>2. CASE Top(q) # << >>
    <3>1. Tail(Top(q)) \in Seq(T)
      BY <1>0, <2>2, HeadTailProperties
    <3>. QED BY <1>0, <2>2, <3>1 DEF dequeue, ReadyQueues, Top
  <2>. QED BY <2>1, <2>2
<1>2. \A r \in ReadyQueues(T) : Rescan(r) \in ReadyQueues(T)
  <2>. TAKE r \in ReadyQueues(T)
  <2>1. NextLevel(r) \in Prio
    BY NextLevelFacts
  <2>. QED BY <2>1 DEF Rescan, ReadyQueues
<1>3. Retrieved(q) \in T \cup {NoTask}
  BY <1>0, HeadTailProperties DEF Retrieved
<1>. QED BY <1>1, <1>2, <1>3 DEF retrieve_from_tasks

(* remove_node takes out the first occurrence. *)
LEMMA RemoveNodeFacts ==
  ASSUME NEW T, NEW q \in ReadyQueues(T), NEW l \in Prio, NEW t, LinkedAt(q, l, t)
  PROVE  \E i \in DOMAIN q.tasks[l] :
           /\ q.tasks[l][i] = t
           /\ remove_node(q, l, t) = [q EXCEPT !.tasks[l] = RemoveAt(q.tasks[l], i)]
<1> DEFINE s == q.tasks[l]
           P == {i \in DOMAIN s : s[i] = t}
           first(i) == s[i] = t /\ \A j \in DOMAIN s : s[j] = t => i <= j
<1>1. s \in Seq(T) /\ DOMAIN s = 1..Len(s) /\ Len(s) \in Nat
  BY LenProperties DEF ReadyQueues
<1>2. P \in SUBSET Nat /\ P # {}
  BY <1>1 DEF LinkedAt, ToSet
<1>3. \E i \in DOMAIN s : first(i)
  BY <1>2, LeastNatural
<1>4. PICK i \in DOMAIN s : i = (CHOOSE k \in DOMAIN s : first(k)) /\ first(i)
  BY <1>3
<1>5. remove_node(q, l, t) = [q EXCEPT !.tasks[l] = RemoveAt(s, i)]
  BY <1>4 DEF remove_node
<1>. QED BY <1>4, <1>5

LEMMA RemoveNodeType ==
  ASSUME NEW T, NEW q \in ReadyQueues(T), NEW l \in Prio, NEW t, LinkedAt(q, l, t)
  PROVE  remove_node(q, l, t) \in ReadyQueues(T)
<1>1. PICK i \in DOMAIN q.tasks[l] :
        remove_node(q, l, t) = [q EXCEPT !.tasks[l] = RemoveAt(q.tasks[l], i)]
  BY RemoveNodeFacts
<1>2. q.tasks[l] \in Seq(T) /\ i \in 1..Len(q.tasks[l])
  BY LenProperties DEF ReadyQueues
<1>3. RemoveAt(q.tasks[l], i) \in Seq(T)
  BY <1>2, RemoveAtFacts
<1>. QED BY <1>1, <1>3 DEF ReadyQueues

-----------------------------------------------------------------------------
(* Lists as sets *)

LEMMA SetOfSeq ==
  ASSUME NEW T, NEW s \in Seq(T)
  PROVE  /\ DOMAIN s = 1..Len(s) /\ Len(s) \in Nat
         /\ ToSet(s) = {s[i] : i \in 1..Len(s)}
         /\ s = << >> <=> ToSet(s) = {}
<1>1. DOMAIN s = 1..Len(s) /\ Len(s) \in Nat
  BY LenProperties
<1>2. s = << >> <=> Len(s) = 0
  BY <1>1, EmptySeq
<1>3. ToSet(s) = {s[i] : i \in 1..Len(s)}
  BY <1>1 DEF ToSet
<1>4. Len(s) # 0 => 1 \in 1..Len(s)
  BY <1>1
<1>. QED BY <1>1, <1>2, <1>3, <1>4

LEMMA AppendSet ==
  ASSUME NEW T, NEW s \in Seq(T), NEW t \in T, IsInjective(s), t \notin ToSet(s)
  PROVE  IsInjective(Append(s, t)) /\ ToSet(Append(s, t)) = ToSet(s) \cup {t}
<1> DEFINE a == Append(s, t)
<1>1. /\ Len(s) \in Nat /\ DOMAIN s = 1..Len(s) /\ DOMAIN a = 1..(Len(s) + 1)
      /\ a[Len(s) + 1] = t /\ \A i \in 1..Len(s) : a[i] = s[i]
      /\ ToSet(s) = {s[i] : i \in 1..Len(s)}
  BY AppendProperties, LenProperties, SetOfSeq
<1>. HIDE DEF a
<1>2. 1..(Len(s) + 1) = 1..Len(s) \cup {Len(s) + 1} /\ Len(s) + 1 \notin 1..Len(s)
  BY <1>1
<1>3. \A i \in 1..Len(s) : a[i] # t
  BY <1>1
<1>4. IsInjective(a)
  BY <1>1, <1>2, <1>3 DEF IsInjective
<1>5. ToSet(a) = ToSet(s) \cup {t}
  BY <1>1, <1>2 DEF ToSet
<1>. QED BY <1>4, <1>5 DEF a

LEMMA TailSet ==
  ASSUME NEW T, NEW s \in Seq(T), IsInjective(s), s # << >>
  PROVE  /\ Head(s) \in ToSet(s)
         /\ IsInjective(Tail(s))
         /\ ToSet(Tail(s)) = ToSet(s) \ {Head(s)}
<1> DEFINE u == Tail(s)
<1>1. /\ Len(s) \in Nat /\ Len(s) > 0
      /\ DOMAIN s = 1..Len(s) /\ DOMAIN u = 1..(Len(s) - 1)
      /\ Head(s) = s[1] /\ \A i \in 1..(Len(s) - 1) : u[i] = s[i + 1]
  BY HeadTailProperties, LenProperties, EmptySeq
<1>. HIDE DEF u
<1>2. Head(s) \in ToSet(s)
  BY <1>1 DEF ToSet
<1>3. \A i, j \in 1..Len(s) : s[i] = s[j] => i = j
  BY <1>1 DEF IsInjective
<1>4. IsInjective(u)
  <2>. SUFFICES ASSUME NEW i \in 1..(Len(s) - 1), NEW j \in 1..(Len(s) - 1), u[i] = u[j]
                PROVE  i = j
    BY <1>1 DEF IsInjective
  <2>1. i + 1 \in 1..Len(s) /\ j + 1 \in 1..Len(s) /\ s[i + 1] = s[j + 1]
    BY <1>1
  <2>. QED BY <1>3, <2>1
<1>5. ToSet(u) \subseteq ToSet(s) \ {Head(s)}
  <2>. SUFFICES ASSUME NEW i \in 1..(Len(s) - 1) PROVE u[i] \in ToSet(s) \ {Head(s)}
    BY <1>1 DEF ToSet
  <2>1. i + 1 \in 1..Len(s) /\ 1 \in 1..Len(s) /\ i + 1 # 1 /\ u[i] = s[i + 1]
    BY <1>1
  <2>. QED BY <1>1, <1>3, <2>1 DEF ToSet
<1>6. ToSet(s) \ {Head(s)} \subseteq ToSet(u)
  <2>. SUFFICES ASSUME NEW i \in 1..Len(s), s[i] # s[1] PROVE s[i] \in ToSet(u)
    BY <1>1 DEF ToSet
  <2>1. i - 1 \in 1..(Len(s) - 1) /\ (i - 1) + 1 = i
    BY <1>1
  <2>2. u[i - 1] = s[i]
    BY <1>1, <2>1
  <2>. QED BY <1>1, <2>1, <2>2 DEF ToSet
<1>. QED BY <1>2, <1>4, <1>5, <1>6 DEF u

LEMMA RemoveAtSet ==
  ASSUME NEW T, NEW s \in Seq(T), IsInjective(s), NEW i \in 1..Len(s)
  PROVE  /\ IsInjective(RemoveAt(s, i))
         /\ ToSet(RemoveAt(s, i)) = ToSet(s) \ {s[i]}
<1> DEFINE r == RemoveAt(s, i)
           from(k) == IF k < i THEN k ELSE k + 1
<1>1. /\ Len(s) \in Nat /\ i \in Nat /\ DOMAIN s = 1..Len(s)
      /\ r \in Seq(T) /\ Len(r) = Len(s) - 1
      /\ \A k \in 1..(i - 1) : r[k] = s[k]
      /\ \A k \in i..(Len(s) - 1) : r[k] = s[k + 1]
  BY RemoveAtFacts, LenProperties
<1>2. DOMAIN r = 1..(Len(s) - 1)
  BY <1>1, LenProperties
<1>. HIDE DEF r
<1>3. \A k \in 1..(Len(s) - 1) : from(k) \in 1..Len(s) /\ from(k) # i /\ r[k] = s[from(k)]
  <2>. TAKE k \in 1..(Len(s) - 1)
  <2>1. CASE k < i
    <3>1. k \in 1..(i - 1) /\ k \in 1..Len(s) /\ k # i
      BY <1>1, <2>1
    <3>. QED BY <1>1, <2>1, <3>1
  <2>2. CASE ~(k < i)
    <3>1. k \in i..(Len(s) - 1) /\ k + 1 \in 1..Len(s) /\ k + 1 # i
      BY <1>1, <2>2
    <3>. QED BY <1>1, <2>2, <3>1
  <2>. QED BY <2>1, <2>2
<1>4. \A j, k \in 1..Len(s) : s[j] = s[k] => j = k
  BY <1>1 DEF IsInjective
<1>5. IsInjective(r)
  <2>. SUFFICES ASSUME NEW j \in 1..(Len(s) - 1), NEW k \in 1..(Len(s) - 1), r[j] = r[k]
                PROVE  j = k
    BY <1>2 DEF IsInjective
  <2>1. from(j) = from(k)
    BY <1>3, <1>4
  <2>. QED BY <1>1, <2>1
<1>6. ToSet(r) \subseteq ToSet(s) \ {s[i]}
  <2>. SUFFICES ASSUME NEW k \in 1..(Len(s) - 1) PROVE r[k] \in ToSet(s) \ {s[i]}
    BY <1>2 DEF ToSet
  <2>1. from(k) \in 1..Len(s) /\ from(k) # i /\ r[k] = s[from(k)]
    BY <1>3
  <2>. HIDE DEF from
  <2>. QED BY <1>1, <1>4, <2>1 DEF ToSet
<1>7. ToSet(s) \ {s[i]} \subseteq ToSet(r)
  <2>. SUFFICES ASSUME NEW k \in 1..Len(s), k # i PROVE s[k] \in ToSet(r)
    BY <1>1 DEF ToSet
  <2>1. CASE k < i
    <3>1. k \in 1..(i - 1) /\ k \in 1..(Len(s) - 1)
      BY <1>1, <2>1
    <3>2. r[k] = s[k]
      BY <1>1, <3>1
    <3>. QED BY <1>2, <3>1, <3>2 DEF ToSet
  <2>2. CASE ~(k < i)
    <3>1. k - 1 \in i..(Len(s) - 1) /\ k - 1 \in 1..(Len(s) - 1) /\ (k - 1) + 1 = k
      BY <1>1, <2>2
    <3>2. r[k - 1] = s[k]
      BY <1>1, <3>1
    <3>. QED BY <1>2, <3>1, <3>2 DEF ToSet
  <2>. QED BY <2>1, <2>2
<1>. QED BY <1>5, <1>6, <1>7 DEF r

-----------------------------------------------------------------------------
(* The operations of the queue *)

LEMMA LevelsFacts ==
  ASSUME NEW T, NEW q \in ReadyQueues(T)
  PROVE  /\ Prio \subseteq Nat /\ q.highest_priority \in Prio
         /\ \A l \in Prio : q.tasks[l] \in Seq(T)
         /\ \A l \in Prio : l \in Levels(q) <=> q.tasks[l] # << >>
         /\ \A l \in Prio : l \in Levels(q) <=> ToSet(q.tasks[l]) # {}
<1>1. Prio \subseteq Nat
  BY PrioAssumption DEF Prio
<1>2. q.highest_priority \in Prio /\ \A l \in Prio : q.tasks[l] \in Seq(T)
  BY DEF ReadyQueues
<1>3. \A l \in Prio : q.tasks[l] # << >> <=> ToSet(q.tasks[l]) # {}
  BY <1>2, SetOfSeq
<1>. QED BY <1>1, <1>2, <1>3 DEF Levels

(* Exact lists link no task twice. *)
LEMMA LinksOnce ==
  ASSUME NEW T, NEW q \in ReadyQueues(T), NEW R, NEW pr, Links(q, R, pr)
  PROVE  LinkedOnce(q)
<1>. SUFFICES ASSUME NEW l \in Prio, NEW m \in Prio,
                     NEW i \in DOMAIN q.tasks[l], NEW j \in DOMAIN q.tasks[m],
                     q.tasks[l][i] = q.tasks[m][j]
              PROVE  l = m /\ i = j
  BY DEF LinkedOnce
<1>1. q.tasks[l][i] \in ToSet(q.tasks[l]) /\ q.tasks[m][j] \in ToSet(q.tasks[m])
  BY DEF ToSet
<1>2. l = m
  BY <1>1 DEF Links
<1>3. IsInjective(q.tasks[l])
  BY DEF Links
<1>. QED BY <1>2, <1>3 DEF IsInjective

(* insert_into_tasks links one more task. *)
LEMMA InsertLinks ==
  ASSUME NEW T, NEW q \in ReadyQueues(T), NEW R, NEW pr, Links(q, R, pr),
         NEW t \in T \ R, NEW p \in Prio, pr[t] = p
  PROVE  Links(insert_into_tasks(q, p, t), R \cup {t}, pr)
<1> DEFINE n == insert_into_tasks(q, p, t)
<1>1. n.tasks = [q.tasks EXCEPT ![p] = Append(q.tasks[p], t)]
  BY DEF insert_into_tasks, enqueue, update_highest_priority, ReadyQueues
<1>2. n.tasks[p] = Append(q.tasks[p], t) /\ \A l \in Prio : l # p => n.tasks[l] = q.tasks[l]
  BY <1>1 DEF ReadyQueues
<1>3. \A l \in Prio : IsInjective(q.tasks[l]) /\ ToSet(q.tasks[l]) = {u \in R : pr[u] = l}
  BY DEF Links
<1>4. IsInjective(n.tasks[p]) /\ ToSet(n.tasks[p]) = {u \in R : pr[u] = p} \cup {t}
  <2>1. q.tasks[p] \in Seq(T) /\ t \in T /\ t \notin ToSet(q.tasks[p])
    BY <1>3 DEF ReadyQueues
  <2>. QED BY <1>2, <1>3, <2>1, AppendSet
<1>. HIDE DEF n
<1>5. \A l \in Prio : /\ IsInjective(n.tasks[l])
                      /\ ToSet(n.tasks[l]) = {u \in R \cup {t} : pr[u] = l}
  <2>. TAKE l \in Prio
  <2>1. CASE l = p
    BY <1>4, <2>1
  <2>2. CASE l # p
    BY <1>2, <1>3, <2>2
  <2>. QED BY <2>1, <2>2
<1>. QED BY <1>5 DEF Links, n

(* It keeps highest_priority exact, unless the queue is empty and           *)
(* highest_priority was left on a more urgent level than the task's.        *)
LEMMA InsertTop ==
  ASSUME NEW T, NEW q \in ReadyQueues(T), NEW t \in T, NEW p \in Prio,
         \A l \in Levels(q) : q.highest_priority <= l,
         q.highest_priority \in Levels(q) \/ p <= q.highest_priority
  PROVE  LET n == insert_into_tasks(q, p, t)
         IN  /\ TopExact(n) /\ Levels(n) = Levels(q) \cup {p}
             /\ n.highest_priority =
                  IF q.highest_priority > p THEN p ELSE q.highest_priority
<1> DEFINE n == insert_into_tasks(q, p, t)
<1>1. /\ n.tasks = [q.tasks EXCEPT ![p] = Append(q.tasks[p], t)]
      /\ n.highest_priority = IF q.highest_priority > p THEN p ELSE q.highest_priority
  BY DEF insert_into_tasks, enqueue, update_highest_priority, ReadyQueues
<1>2. n.tasks[p] = Append(q.tasks[p], t) /\ \A l \in Prio : l # p => n.tasks[l] = q.tasks[l]
  BY <1>1 DEF ReadyQueues
<1>3. n.tasks[p] # << >>
  <2>1. q.tasks[p] \in Seq(T)
    BY DEF ReadyQueues
  <2>2. Append(q.tasks[p], t) \in Seq(T) /\ Len(Append(q.tasks[p], t)) = Len(q.tasks[p]) + 1
        /\ Len(q.tasks[p]) \in Nat
    BY <2>1, AppendProperties, LenProperties
  <2>. QED BY <1>2, <2>2, EmptySeq
<1>. HIDE DEF n
<1>4. Levels(n) = Levels(q) \cup {p}
  BY <1>2, <1>3 DEF Levels
<1>5. Prio \subseteq Nat /\ q.highest_priority \in Prio /\ Levels(q) \subseteq Prio
  BY LevelsFacts DEF Levels
<1>6. \A l \in Levels(n) : n.highest_priority <= l
  <2>. TAKE l \in Levels(n)
  <2>1. l \in Nat /\ p \in Nat /\ q.highest_priority \in Nat
    BY <1>4, <1>5
  <2>2. l = p \/ q.highest_priority <= l
    BY <1>4
  <2>. QED BY <1>1, <2>1, <2>2
<1>7. n.highest_priority \in Levels(n)
  <2>1. p \in Nat /\ q.highest_priority \in Nat
    BY <1>5
  <2>. QED BY <1>1, <1>4, <2>1
<1>. QED BY <1>1, <1>4, <1>6, <1>7 DEF TopExact, n

(* retrieve_from_tasks unlinks the head of the level served, and no other. *)
LEMMA RetrieveLinks ==
  ASSUME NEW T, NEW q \in ReadyQueues(T), NEW R, NEW pr, Links(q, R, pr), Top(q) # << >>
  PROVE  /\ Retrieved(q) \in R /\ pr[Retrieved(q)] = q.highest_priority
         /\ Links(retrieve_from_tasks(q), R \ {Retrieved(q)}, pr)
<1> DEFINE n == retrieve_from_tasks(q)
           h == q.highest_priority
           t == Retrieved(q)
<1>1. h \in Prio /\ q.tasks[h] \in Seq(T) /\ q.tasks[h] # << >> /\ t = Head(q.tasks[h])
  BY LevelsFacts DEF Top, Retrieved
<1>2. n.tasks = [q.tasks EXCEPT ![h] = Tail(q.tasks[h])]
  BY <1>1 DEF retrieve_from_tasks, Rescan, dequeue, Top, ReadyQueues
<1>3. n.tasks[h] = Tail(q.tasks[h]) /\ \A l \in Prio : l # h => n.tasks[l] = q.tasks[l]
  BY <1>1, <1>2 DEF ReadyQueues
<1>4. \A l \in Prio : IsInjective(q.tasks[l]) /\ ToSet(q.tasks[l]) = {u \in R : pr[u] = l}
  BY DEF Links
<1>5. /\ t \in {u \in R : pr[u] = h}
      /\ IsInjective(n.tasks[h])
      /\ ToSet(n.tasks[h]) = {u \in R : pr[u] = h} \ {t}
  BY <1>1, <1>3, <1>4, TailSet
<1>. HIDE DEF n, h, t
<1>6. \A l \in Prio : /\ IsInjective(n.tasks[l])
                      /\ ToSet(n.tasks[l]) = {u \in R \ {t} : pr[u] = l}
  <2>. TAKE l \in Prio
  <2>1. CASE l = h
    BY <1>5, <2>1
  <2>2. CASE l # h
    BY <1>3, <1>4, <1>5, <2>2
  <2>. QED BY <2>1, <2>2
<1>. QED BY <1>5, <1>6 DEF Links, n, h, t

(* It keeps highest_priority exact, and never moves it to a more urgent level. *)
LEMMA RetrieveTop ==
  ASSUME NEW T, NEW q \in ReadyQueues(T), TopExact(q)
  PROVE  LET n == retrieve_from_tasks(q)
         IN  /\ TopExact(n) /\ Levels(n) \subseteq Levels(q)
             /\ n.highest_priority >= q.highest_priority
             /\ Levels(n) = {} => n.highest_priority = q.highest_priority
<1> DEFINE h == q.highest_priority
           d == dequeue(q)
           n == Rescan(d)
<1>1. /\ Prio \subseteq Nat /\ h \in Prio /\ Levels(q) \subseteq Prio
      /\ \A l \in Levels(q) : h <= l
  BY LevelsFacts DEF TopExact, Levels
<1>2. /\ d \in [tasks : [Prio -> Seq(T)], highest_priority : {h}]
      /\ \A l \in Prio : l # h => d.tasks[l] = q.tasks[l]
      /\ q.tasks[h] = << >> => d.tasks[h] = << >>
  <2>1. CASE Top(q) = << >>
    BY <2>1 DEF dequeue, Top, ReadyQueues
  <2>2. CASE Top(q) # << >>
    <3>1. q.tasks[h] \in Seq(T) /\ Tail(q.tasks[h]) \in Seq(T)
      BY <1>1, <2>2, HeadTailProperties DEF Top, ReadyQueues
    <3>. QED BY <1>1, <2>2, <3>1 DEF dequeue, Top, ReadyQueues
  <2>. QED BY <2>1, <2>2
<1>3. d \in ReadyQueues(T) /\ d.highest_priority = h
  BY <1>1, <1>2 DEF ReadyQueues
<1>. HIDE DEF d, h
<1>4. Levels(d) \subseteq Levels(q)
  BY <1>2 DEF Levels
<1>5. CASE d.tasks[h] # << >>
  <2>1. n = d /\ h \in Levels(d)
    BY <1>1, <1>3, <1>5 DEF Rescan, Top, Levels
  <2>2. h <= h
    BY <1>1
  <2>. QED BY <1>1, <1>3, <1>4, <2>1, <2>2 DEF TopExact, retrieve_from_tasks, d, h
<1>6. CASE d.tasks[h] = << >>
  <2>1. n = [d EXCEPT !.highest_priority = NextLevel(d)]
    BY <1>3, <1>6 DEF Rescan, Top
  <2>2. n.highest_priority = NextLevel(d) /\ n.tasks = d.tasks
    BY <1>3, <2>1 DEF ReadyQueues
  <2>3. Levels(n) = Levels(d) /\ h \notin Levels(d)
    BY <1>6, <2>2 DEF Levels
  <2>4. \A l \in Levels(d) : l \in Nat /\ h \in Nat /\ l > h
    <3>. TAKE l \in Levels(d)
    <3>1. l \in Nat /\ h \in Nat /\ h <= l /\ l # h
      BY <1>1, <1>4, <2>3
    <3>. QED BY <3>1
  <2>5. CASE \A l \in Levels(d) : l <= d.highest_priority
    <3>1. Levels(d) = {}
      BY <1>3, <2>4, <2>5
    <3>2. NextLevel(d) = h /\ h >= h
      BY <1>1, <1>3, <3>1, NextLevelFacts
    <3>. QED BY <1>4, <2>2, <2>3, <3>1, <3>2 DEF TopExact, retrieve_from_tasks, d, h
  <2>6. CASE ~(\A l \in Levels(d) : l <= d.highest_priority)
    <3>1. /\ NextLevel(d) \in Levels(d) /\ NextLevel(d) > h
          /\ \A l \in Levels(d) : NextLevel(d) <= l
      BY <1>3, <2>4, <2>6, NextLevelFacts
    <3>2. NextLevel(d) >= h
      BY <2>4, <3>1
    <3>. QED BY <1>4, <2>2, <2>3, <3>1, <3>2 DEF TopExact, retrieve_from_tasks, d, h
  <2>. QED BY <2>5, <2>6
<1>. QED BY <1>5, <1>6

(* remove_node shortens its level by one and touches nothing else. *)
LEMMA RemoveKeeps ==
  ASSUME NEW T, NEW q \in ReadyQueues(T), NEW t, NEW l \in Prio, LinkedAt(q, l, t)
  PROVE  /\ remove_node(q, l, t).highest_priority = q.highest_priority
         /\ Len(remove_node(q, l, t).tasks[l]) = Len(q.tasks[l]) - 1
         /\ \A m \in Prio : m # l => remove_node(q, l, t).tasks[m] = q.tasks[m]
<1> DEFINE n == remove_node(q, l, t)
<1>1. PICK i \in DOMAIN q.tasks[l] :
        q.tasks[l][i] = t /\ n = [q EXCEPT !.tasks[l] = RemoveAt(q.tasks[l], i)]
  BY RemoveNodeFacts
<1>2. q.tasks[l] \in Seq(T) /\ i \in 1..Len(q.tasks[l])
  BY LenProperties DEF ReadyQueues
<1>. HIDE DEF n
<1>3. /\ n.tasks[l] = RemoveAt(q.tasks[l], i)
      /\ n.highest_priority = q.highest_priority
      /\ \A m \in Prio : m # l => n.tasks[m] = q.tasks[m]
  BY <1>1 DEF ReadyQueues
<1>4. Len(n.tasks[l]) = Len(q.tasks[l]) - 1
  BY <1>2, <1>3, RemoveAtFacts
<1>. QED BY <1>3, <1>4 DEF n

(* remove_node unlinks its task, and no other. *)
LEMMA RemoveLinks ==
  ASSUME NEW T, NEW q \in ReadyQueues(T), NEW R, NEW pr, Links(q, R, pr),
         NEW t \in R, NEW l \in Prio, pr[t] = l
  PROVE  Links(remove_node(q, l, t), R \ {t}, pr)
<1> DEFINE n == remove_node(q, l, t)
<1>1. \A m \in Prio : IsInjective(q.tasks[m]) /\ ToSet(q.tasks[m]) = {u \in R : pr[u] = m}
  BY DEF Links
<1>2. LinkedAt(q, l, t)
  BY <1>1 DEF LinkedAt
<1>3. PICK i \in DOMAIN q.tasks[l] :
        q.tasks[l][i] = t /\ n = [q EXCEPT !.tasks[l] = RemoveAt(q.tasks[l], i)]
  BY <1>2, RemoveNodeFacts
<1>4. q.tasks[l] \in Seq(T) /\ i \in 1..Len(q.tasks[l])
  BY LenProperties DEF ReadyQueues
<1>. HIDE DEF n
<1>5. n.tasks[l] = RemoveAt(q.tasks[l], i) /\ \A m \in Prio : m # l => n.tasks[m] = q.tasks[m]
  BY <1>3 DEF ReadyQueues
<1>6. IsInjective(n.tasks[l]) /\ ToSet(n.tasks[l]) = {u \in R : pr[u] = l} \ {t}
  BY <1>1, <1>3, <1>4, <1>5, RemoveAtSet
<1>7. \A m \in Prio : /\ IsInjective(n.tasks[m])
                      /\ ToSet(n.tasks[m]) = {u \in R \ {t} : pr[u] = m}
  <2>. TAKE m \in Prio
  <2>1. CASE m = l
    BY <1>6, <2>1
  <2>2. CASE m # l
    BY <1>1, <1>5, <2>2
  <2>. QED BY <2>1, <2>2
<1>. QED BY <1>7 DEF Links, n

-----------------------------------------------------------------------------
(* The order of the lists *)

(* What is behind a task of a list is linked, and so is what is ahead of it. *)
LEMMA AheadLinked ==
  ASSUME NEW q, NEW l, NEW a, NEW b, Ahead(q, l, a, b)
  PROVE  LinkedAt(q, l, a) /\ LinkedAt(q, l, b)
BY DEF Ahead, LinkedAt, ToSet

(* No task is ahead of itself on an exact list. *)
LEMMA AheadOther ==
  ASSUME NEW T, NEW q \in ReadyQueues(T), NEW R, NEW pr, Links(q, R, pr),
         NEW l \in Prio, NEW a, NEW b, Ahead(q, l, a, b)
  PROVE  a # b
<1>1. PICK i, j \in DOMAIN q.tasks[l] : i < j /\ q.tasks[l][i] = a /\ q.tasks[l][j] = b
  BY DEF Ahead
<1>2. DOMAIN q.tasks[l] \subseteq Int
  BY LenProperties DEF ReadyQueues
<1>3. i # j
  BY <1>1, <1>2
<1>. QED BY <1>1, <1>3 DEF Links, IsInjective

(* insert_into_tasks links t last on level p, and moves nobody. *)
LEMMA InsertOrder ==
  ASSUME NEW T, NEW q \in ReadyQueues(T), NEW p \in Prio, NEW t \in T
  PROVE  LET n == insert_into_tasks(q, p, t)
         IN  /\ \A l \in Prio : \A a, b : Ahead(q, l, a, b) => Ahead(n, l, a, b)
             /\ \A l \in Prio : \A a, b : b # t /\ Ahead(n, l, a, b) => Ahead(q, l, a, b)
             /\ \A a : LinkedAt(q, p, a) => Ahead(n, p, a, t)
<1> DEFINE n == insert_into_tasks(q, p, t)
           s == q.tasks[p]
           k == Len(s)
<1>1. n.tasks = [q.tasks EXCEPT ![p] = Append(s, t)]
  BY DEF insert_into_tasks, enqueue, update_highest_priority, ReadyQueues
<1>2. n.tasks[p] = Append(s, t) /\ \A l \in Prio : l # p => n.tasks[l] = q.tasks[l]
  BY <1>1 DEF ReadyQueues
<1>3. /\ k \in Nat /\ DOMAIN s = 1..k /\ DOMAIN n.tasks[p] = 1..(k + 1)
      /\ n.tasks[p][k + 1] = t /\ \A i \in 1..k : n.tasks[p][i] = s[i]
  <2>1. s \in Seq(T)
    BY DEF ReadyQueues
  <2>. QED BY <1>2, <2>1, AppendProperties, LenProperties
<1>. HIDE DEF n, k
<1>4. ASSUME NEW l \in Prio, NEW a, NEW b, Ahead(q, l, a, b)
      PROVE  Ahead(n, l, a, b)
  <2>1. CASE l = p
    <3>1. PICK i, j \in 1..k : i < j /\ s[i] = a /\ s[j] = b
      BY <1>3, <1>4, <2>1 DEF Ahead
    <3>2. i \in 1..(k + 1) /\ j \in 1..(k + 1) /\ n.tasks[p][i] = a /\ n.tasks[p][j] = b
      BY <1>3, <3>1
    <3>. QED BY <1>3, <2>1, <3>1, <3>2 DEF Ahead
  <2>2. CASE l # p
    BY <1>2, <1>4, <2>2 DEF Ahead
  <2>. QED BY <2>1, <2>2
<1>5. ASSUME NEW l \in Prio, NEW a, NEW b, b # t, Ahead(n, l, a, b)
      PROVE  Ahead(q, l, a, b)
  <2>1. CASE l = p
    <3>1. PICK i, j \in 1..(k + 1) : i < j /\ n.tasks[p][i] = a /\ n.tasks[p][j] = b
      BY <1>3, <1>5, <2>1 DEF Ahead
    <3>2. j # k + 1
      BY <1>3, <1>5, <3>1
    <3>3. i \in 1..k /\ j \in 1..k
      BY <1>3, <3>1, <3>2
    <3>. QED BY <1>3, <2>1, <3>1, <3>3 DEF Ahead
  <2>2. CASE l # p
    BY <1>2, <1>5, <2>2 DEF Ahead
  <2>. QED BY <2>1, <2>2
<1>6. ASSUME NEW a, LinkedAt(q, p, a)
      PROVE  Ahead(n, p, a, t)
  <2>1. PICK i \in 1..k : s[i] = a
    BY <1>3, <1>6 DEF LinkedAt, ToSet
  <2>2. i \in 1..(k + 1) /\ k + 1 \in 1..(k + 1) /\ i < k + 1 /\ n.tasks[p][i] = a
    BY <1>3, <2>1
  <2>. QED BY <1>3, <2>2 DEF Ahead
<1>. QED BY <1>4, <1>5, <1>6 DEF n

(* retrieve_from_tasks moves nobody, and nobody is ahead of its task. *)
LEMMA RetrieveOrder ==
  ASSUME NEW T, NEW q \in ReadyQueues(T)
  PROVE  /\ \A l \in Prio : \A a, b :
              Ahead(retrieve_from_tasks(q), l, a, b) => Ahead(q, l, a, b)
         /\ \A R, pr, a : Links(q, R, pr) /\ Top(q) # << >> =>
              ~Ahead(q, q.highest_priority, a, Retrieved(q))
<1> DEFINE n == retrieve_from_tasks(q)
           h == q.highest_priority
           s == q.tasks[h]
           k == Len(s)
<1>1. h \in Prio /\ s \in Seq(T) /\ DOMAIN s = 1..k /\ k \in Nat
  BY LevelsFacts, LenProperties
<1>2. CASE Top(q) = << >>
  <2>1. n.tasks = q.tasks
    BY <1>2 DEF retrieve_from_tasks, Rescan, dequeue, ReadyQueues
  <2>2. \A l \in Prio : \A a, b : Ahead(n, l, a, b) => Ahead(q, l, a, b)
    BY <2>1 DEF Ahead
  <2>. QED BY <1>2, <2>2
<1>3. CASE Top(q) # << >>
  <2>0. s # << >>
    BY <1>3 DEF Top
  <2>1. n.tasks = [q.tasks EXCEPT ![h] = Tail(s)]
    BY <1>1, <1>3 DEF retrieve_from_tasks, Rescan, dequeue, Top, ReadyQueues
  <2>2. n.tasks[h] = Tail(s) /\ \A l \in Prio : l # h => n.tasks[l] = q.tasks[l]
    BY <1>1, <2>1 DEF ReadyQueues
  <2>3. /\ k > 0 /\ Retrieved(q) = s[1] /\ DOMAIN n.tasks[h] = 1..(k - 1)
        /\ \A i \in 1..(k - 1) : n.tasks[h][i] = s[i + 1]
    <3>1. /\ Len(Tail(s)) = k - 1 /\ Tail(s) \in Seq(T) /\ k > 0 /\ Head(s) = s[1]
          /\ \A i \in 1..(k - 1) : Tail(s)[i] = s[i + 1]
      BY <1>1, <2>0, HeadTailProperties, EmptySeq
    <3>. QED BY <1>3, <2>2, <3>1, LenProperties DEF Retrieved, Top
  <2>. HIDE DEF n, k
  <2>4. ASSUME NEW l \in Prio, NEW a, NEW b, Ahead(n, l, a, b)
        PROVE  Ahead(q, l, a, b)
    <3>1. CASE l = h
      <4>1. PICK i, j \in 1..(k - 1) : i < j /\ n.tasks[h][i] = a /\ n.tasks[h][j] = b
        BY <2>3, <2>4, <3>1 DEF Ahead
      <4>2. k \in Nat /\ i \in Nat /\ j \in Nat
        BY <1>1 DEF k
      <4>3. i + 1 \in 1..k /\ j + 1 \in 1..k /\ i + 1 < j + 1
        BY <4>1, <4>2
      <4>4. s[i + 1] = a /\ s[j + 1] = b
        BY <2>3, <4>1
      <4>. QED BY <1>1, <3>1, <4>3, <4>4 DEF Ahead
    <3>2. CASE l # h
      BY <2>2, <2>4, <3>2 DEF Ahead
    <3>. QED BY <3>1, <3>2
  <2>5. ASSUME NEW R, NEW pr, Links(q, R, pr), NEW a, Ahead(q, h, a, Retrieved(q))
        PROVE  FALSE
    <3>1. PICK i, j \in 1..k : i < j /\ s[i] = a /\ s[j] = s[1]
      BY <1>1, <2>3, <2>5 DEF Ahead
    <3>2. 1 \in 1..k /\ j # 1
      BY <1>1, <3>1
    <3>. QED BY <1>1, <2>5, <3>1, <3>2 DEF Links, IsInjective
  <2>. QED BY <2>4, <2>5 DEF n
<1>. QED BY <1>2, <1>3

(* remove_node moves nobody. *)
LEMMA RemoveOrder ==
  ASSUME NEW T, NEW q \in ReadyQueues(T), NEW t, NEW l \in Prio, LinkedAt(q, l, t)
  PROVE  LET n == remove_node(q, l, t)
         IN  /\ \A m \in Prio : \A a, b : Ahead(n, m, a, b) => Ahead(q, m, a, b)
             /\ \A m \in Prio : \A a, b :
                  a # t /\ b # t /\ Ahead(q, m, a, b) => Ahead(n, m, a, b)
<1> DEFINE n == remove_node(q, l, t)
           s == q.tasks[l]
           k == Len(s)
<1>1. PICK c \in DOMAIN s : s[c] = t /\ n = [q EXCEPT !.tasks[l] = RemoveAt(s, c)]
  BY RemoveNodeFacts
<1>2. s \in Seq(T) /\ k \in Nat /\ DOMAIN s = 1..k /\ c \in 1..k
  BY LenProperties DEF ReadyQueues
<1>. HIDE DEF n
<1>3. n.tasks[l] = RemoveAt(s, c) /\ \A m \in Prio : m # l => n.tasks[m] = q.tasks[m]
  BY <1>1 DEF ReadyQueues
<1>4. /\ DOMAIN n.tasks[l] = 1..(k - 1)
      /\ \A i \in 1..(c - 1) : n.tasks[l][i] = s[i]
      /\ \A i \in c..(k - 1) : n.tasks[l][i] = s[i + 1]
  BY <1>2, <1>3, RemoveAtFacts, LenProperties, SMTT(30)
<1> DEFINE from(i) == IF i < c THEN i ELSE i + 1
           to(i)   == IF i < c THEN i ELSE i - 1
<1>. HIDE DEF k
<1>5. \A i \in 1..(k - 1) : from(i) \in 1..k /\ n.tasks[l][i] = s[from(i)]
  <2>. TAKE i \in 1..(k - 1)
  <2>1. CASE i < c
    <3>1. i \in 1..(c - 1) /\ i \in 1..k
      BY <1>2, <2>1
    <3>. QED BY <1>4, <2>1, <3>1
  <2>2. CASE ~(i < c)
    <3>1. i \in c..(k - 1) /\ i + 1 \in 1..k
      BY <1>2, <2>2
    <3>. QED BY <1>4, <2>2, <3>1
  <2>. QED BY <2>1, <2>2
<1>6. \A i \in 1..k : i # c => to(i) \in 1..(k - 1) /\ n.tasks[l][to(i)] = s[i]
  <2>. TAKE i \in 1..k
  <2>. HAVE i # c
  <2>1. CASE i < c
    <3>1. i \in 1..(c - 1) /\ i \in 1..(k - 1)
      BY <1>2, <2>1
    <3>. QED BY <1>4, <2>1, <3>1
  <2>2. CASE ~(i < c)
    <3>1. i - 1 \in c..(k - 1) /\ i - 1 \in 1..(k - 1) /\ (i - 1) + 1 = i
      BY <1>2, <2>2
    <3>. QED BY <1>4, <2>2, <3>1
  <2>. QED BY <2>1, <2>2
<1>7. ASSUME NEW m \in Prio, NEW a, NEW b, Ahead(n, m, a, b)
      PROVE  Ahead(q, m, a, b)
  <2>1. CASE m = l
    <3>1. PICK i, j \in 1..(k - 1) : i < j /\ n.tasks[l][i] = a /\ n.tasks[l][j] = b
      BY <1>4, <1>7, <2>1 DEF Ahead
    <3>2. from(i) < from(j)
      BY <1>2, <3>1
    <3>3. from(i) \in 1..k /\ from(j) \in 1..k /\ s[from(i)] = a /\ s[from(j)] = b
      BY <1>5, <3>1
    <3>. HIDE DEF from
    <3>. QED BY <1>2, <2>1, <3>2, <3>3 DEF Ahead
  <2>2. CASE m # l
    BY <1>3, <1>7, <2>2 DEF Ahead
  <2>. QED BY <2>1, <2>2
<1>8. ASSUME NEW m \in Prio, NEW a, NEW b, a # t, b # t, Ahead(q, m, a, b)
      PROVE  Ahead(n, m, a, b)
  <2>1. CASE m = l
    <3>1. PICK i, j \in 1..k : i < j /\ s[i] = a /\ s[j] = b
      BY <1>2, <1>8, <2>1 DEF Ahead
    <3>2. i # c /\ j # c
      BY <1>1, <1>8, <3>1
    <3>3. to(i) < to(j)
      BY <1>2, <3>1, <3>2
    <3>4. /\ to(i) \in 1..(k - 1) /\ to(j) \in 1..(k - 1)
          /\ n.tasks[l][to(i)] = a /\ n.tasks[l][to(j)] = b
      BY <1>6, <3>1, <3>2
    <3>. HIDE DEF to
    <3>. QED BY <1>4, <2>1, <3>3, <3>4 DEF Ahead
  <2>2. CASE m # l
    BY <1>3, <1>8, <2>2 DEF Ahead
  <2>. QED BY <2>1, <2>2
<1>. QED BY <1>7, <1>8 DEF n

=============================================================================
