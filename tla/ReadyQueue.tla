----------------------------- MODULE ReadyQueue -----------------------------
(***************************************************************************)
(* The ready queue of kernel/k_task.c: tasks[], one singly linked list of  *)
(* TCBs per priority level, and highest_priority, the level the scheduler  *)
(* serves next.  Level 0 is the most urgent, PRIO_NULL the least.          *)
(*                                                                         *)
(* A list is the sequence of the tids it links, head first.  A TCB has one *)
(* next pointer, so the sequences stand for the pointers as long as no TCB *)
(* is linked twice (LinkedOnce); the modules that use this one give no     *)
(* meaning to a queue beyond that point.                                   *)
(***************************************************************************)
EXTENDS Integers, SequencesExt

CONSTANT PRIO_NULL      \* least urgent level, reserved for the null task

ASSUME PrioAssumption == PRIO_NULL \in Nat /\ PRIO_NULL >= 2

NoTask == -1            \* the NULL TCB pointer

Prio     == 0..PRIO_NULL
UserPrio == 1..(PRIO_NULL - 1)      \* neither PRIO_RT (0) nor PRIO_NULL

(* A queue of the given tids is a record of this set. *)
ReadyQueues(T) == [tasks : [Prio -> Seq(T)], highest_priority : Prio]

EmptyQueue == [tasks |-> [l \in Prio |-> << >>], highest_priority |-> PRIO_NULL]

-----------------------------------------------------------------------------

Top(q) == q.tasks[q.highest_priority]

Levels(q) == {l \in Prio : q.tasks[l] # << >>}

LinkedAt(q, l, t) == t \in ToSet(q.tasks[l])

LinkedOnce(q) ==
  \A l, m \in Prio : \A i \in DOMAIN q.tasks[l], j \in DOMAIN q.tasks[m] :
    q.tasks[l][i] = q.tasks[m][j] => l = m /\ i = j

(* The lists hold exactly the tasks of R, each once, t on level pr[t]. *)
Links(q, R, pr) ==
  \A l \in Prio : /\ IsInjective(q.tasks[l])
                   /\ ToSet(q.tasks[l]) = {t \in R : pr[t] = l}

(* highest_priority is the most urgent level that has a task. *)
TopExact(q) ==
  /\ \A l \in Levels(q) : q.highest_priority <= l
  /\ Levels(q) # {} => q.highest_priority \in Levels(q)

(* a is ahead of b on level l. *)
Ahead(q, l, a, b) ==
  \E i, j \in DOMAIN q.tasks[l] :
    i < j /\ q.tasks[l][i] = a /\ q.tasks[l][j] = b

-----------------------------------------------------------------------------

update_highest_priority(q, p) ==
  IF q.highest_priority > p THEN [q EXCEPT !.highest_priority = p] ELSE q

(* Faulty variants, named in PROJECT.json, that the properties must reject: *)
(* link at the head; never rescan; unlink the head whoever it is.           *)
enqueue_at_head(q, p, t)  == [q EXCEPT !.tasks[p] = << t >> \o @]
Rescan_never(q)           == q
remove_node_head(q, l, t) == [q EXCEPT !.tasks[l] = Tail(@)]

enqueue(q, p, t) == [q EXCEPT !.tasks[p] = Append(@, t)]

(* Link t at the tail of level p; the caller sets the state to READY. *)
insert_into_tasks(q, p, t) == enqueue(update_highest_priority(q, p), p, t)

dequeue(q) ==
  IF Top(q) = << >> THEN q
  ELSE [q EXCEPT !.tasks[q.highest_priority] = Tail(@)]

(* The scan for the next non-empty level.  It looks only below the level    *)
(* just served and leaves highest_priority alone when it finds nothing.     *)
NextLevel(q) ==
  LET below == {l \in Levels(q) : l > q.highest_priority}
  IN  IF below = {} THEN q.highest_priority
      ELSE CHOOSE l \in below : \A m \in below : l <= m

Rescan(q) ==
  IF Top(q) = << >> THEN [q EXCEPT !.highest_priority = NextLevel(q)] ELSE q

(* retrieve_from_tasks: the TCB it returns, and the queue it leaves. *)
Retrieved(q) == IF Top(q) = << >> THEN NoTask ELSE Head(Top(q))

retrieve_from_tasks(q) == Rescan(dequeue(q))

(* remove_node on level l, where t is linked. *)
remove_node(q, l, t) ==
  LET s == q.tasks[l]
      i == CHOOSE i \in DOMAIN s :
             s[i] = t /\ \A j \in DOMAIN s : s[j] = t => i <= j
  IN  [q EXCEPT !.tasks[l] = RemoveAt(s, i)]

=============================================================================
