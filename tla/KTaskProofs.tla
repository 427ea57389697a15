---------------------------- MODULE KTaskProofs -----------------------------
(***************************************************************************)
(* Theorems about KTask, for every number of tasks and levels: its types,  *)
(* for every boot table and whatever the callers do; its safety invariants *)
(* and the order of service, for a boot table of two tasks or more, when   *)
(* the callers avoid the calls that the kernel mishandles (WellUsed).      *)
(* SchedInv is the inductive invariant.                                    *)
(***************************************************************************)
EXTENDS KTask, ReadyQueueProofs, FiniteSetTheorems

-----------------------------------------------------------------------------
(* Type correctness, whatever the callers do. *)

LEMMA ConstantFacts ==
  /\ MAX_TASKS \in Nat /\ MAX_TASKS >= 3 /\ U32MOD \in Nat /\ U32MOD > 2 * MAX_TASKS
  /\ TID_NULL \in Tid /\ TID_KCD \in Tid /\ TID_KCD # TID_NULL /\ NoTask \notin Tid
  /\ PRIO_NULL \in Prio /\ 0 \in Prio /\ Prio \subseteq Nat
  /\ UserPrio \subseteq Prio /\ \A p \in UserPrio : p # PRIO_NULL /\ p < PRIO_NULL
  /\ Len(BootTasks) \in Nat /\ Len(BootTasks) < MAX_TASKS
  /\ \A i \in 1..Len(BootTasks) : BootTasks[i] \in BootTask
<1>1. /\ MAX_TASKS \in Nat /\ MAX_TASKS >= 3 /\ U32MOD \in Nat /\ U32MOD > 2 * MAX_TASKS
      /\ BootTasks \in Seq(BootTask) /\ Len(BootTasks) < MAX_TASKS
  BY TaskAssumption
<1>2. Len(BootTasks) \in Nat /\ \A i \in 1..Len(BootTasks) : BootTasks[i] \in BootTask
  BY <1>1, LenProperties, ElementOfSeq
<1>3. /\ TID_NULL \in Tid /\ TID_KCD \in Tid /\ TID_KCD # TID_NULL /\ NoTask \notin Tid
  BY <1>1 DEF TID_NULL, TID_KCD, Tid, NoTask
<1>4. /\ PRIO_NULL \in Prio /\ 0 \in Prio /\ Prio \subseteq Nat
      /\ UserPrio \subseteq Prio /\ \A p \in UserPrio : p # PRIO_NULL /\ p < PRIO_NULL
  BY PrioAssumption DEF Prio, UserPrio
<1>. QED BY <1>1, <1>2, <1>3, <1>4

LEMMA NewTcbType ==
  ASSUME NEW entry \in {"kcd_task", "user"}, NEW p \in UserPrio, NEW priv \in BOOLEAN
  PROVE  NewTcb(entry, p, priv) \in Tcb
BY ConstantFacts DEF NewTcb, Tcb, State, Entry

(* Handing out a TID and taking one back. *)
LEMMA PoolType ==
  ASSUME TypeOK, NEW entry
  PROVE  /\ TidFor(entry) \in Tid
         /\ PoolWithout(entry) \in Seq(Tid)
         /\ Len(PoolWithout(entry)) <= MAX_TASKS - 1
         /\ \A t \in Tid : add_tid(t) \in Seq(Tid) /\ Len(add_tid(t)) <= MAX_TASKS - 1
<1> DEFINE pool == available_tid_queue
<1>1. pool \in Seq(Tid) /\ Len(pool) \in Nat /\ Len(pool) <= MAX_TASKS - 1
  BY LenProperties DEF TypeOK
<1>2. pool # << >> => /\ Head(pool) \in Tid /\ Tail(pool) \in Seq(Tid)
                      /\ Len(Tail(pool)) = Len(pool) - 1
  BY <1>1, HeadTailProperties
<1>3. \A t \in Tid : Append(pool, t) \in Seq(Tid) /\ Len(Append(pool, t)) = Len(pool) + 1
  BY <1>1, AppendProperties
<1>4. TidFor(entry) \in Tid
  BY <1>2, ConstantFacts DEF TidFor, get_next_tid
<1>5. PoolWithout(entry) \in Seq(Tid) /\ Len(PoolWithout(entry)) <= MAX_TASKS - 1
  BY <1>1, <1>2, ConstantFacts DEF PoolWithout
<1>6. \A t \in Tid : add_tid(t) \in Seq(Tid) /\ Len(add_tid(t)) <= MAX_TASKS - 1
  BY <1>1, <1>3, ConstantFacts DEF add_tid
<1>. QED BY <1>4, <1>5, <1>6

(* k_tsk_run_new keeps the types of what it is given. *)
LEMMA RunNewType ==
  ASSUME gp_current_task \in Tid,
         NEW s \in [Tid -> Tcb], NEW q \in ReadyQueues(Tid), NEW y \in BOOLEAN,
         k_tsk_run_new(s, q, y)
  PROVE  /\ gp_current_task' \in Tid
         /\ g_tcbs' \in [Tid -> Tcb]
         /\ rq' \in ReadyQueues(Tid)
         /\ yield_flag' \in BOOLEAN
         /\ wild' \in BOOLEAN
<1>1. /\ retrieve_from_tasks(q) \in ReadyQueues(Tid)
      /\ Retrieved(q) \in Tid \cup {NoTask}
  BY RetrieveType
<1>2. \A t \in Tid, st \in State : \A u \in [Tid -> Tcb] :
        [u EXCEPT ![t].state = st] \in [Tid -> Tcb]
  BY DEF Tcb
<1>3. \A n \in Tid \cup {NoTask}, u \in [Tid -> Tcb] :
        SwitchTo(n, u) => gp_current_task' \in Tid /\ g_tcbs' \in [Tid -> Tcb]
  BY <1>2 DEF SwitchTo, State
<1>4. wild' \in BOOLEAN
  BY DEF k_tsk_run_new
<1>5. CASE /\ GivesUp(s)
           /\ rq' = retrieve_from_tasks(q)
           /\ yield_flag' = y
           /\ SwitchTo(Retrieved(q), s)
  BY <1>1, <1>3, <1>4, <1>5
<1>6. CASE /\ Displaced(s, q, y)
           /\ rq' = insert_into_tasks(retrieve_from_tasks(q),
                                      s[gp_current_task].prio, gp_current_task)
           /\ yield_flag' = FALSE
           /\ SwitchTo(Retrieved(q), [s EXCEPT ![gp_current_task].state = "READY"])
  <2>1. s[gp_current_task].prio \in Prio
    BY DEF Tcb
  <2>2. rq' \in ReadyQueues(Tid)
    BY <1>1, <1>6, <2>1, InsertType
  <2>3. [s EXCEPT ![gp_current_task].state = "READY"] \in [Tid -> Tcb]
    BY <1>2 DEF State
  <2>. QED BY <1>1, <1>3, <1>4, <1>6, <2>2, <2>3
<1>7. CASE /\ rq' = q
           /\ yield_flag' = y
           /\ SwitchTo(gp_current_task, s)
  BY <1>3, <1>4, <1>7
<1>. QED BY <1>5, <1>6, <1>7 DEF k_tsk_run_new

(* Arithmetic modulo 2^32 stays in range. *)
LEMMA WrapType ==
  ASSUME NEW n \in 0..(U32MOD - 1)
  PROVE  /\ (n + 1) % U32MOD \in 0..(U32MOD - 1)
         /\ (n + U32MOD - 1) % U32MOD \in 0..(U32MOD - 1)
BY ConstantFacts

(* The updates of g_tcbs keep its type. *)
LEMMA TcbType ==
  ASSUME g_tcbs \in [Tid -> Tcb]
  PROVE  /\ \A t \in Tid : g_tcbs[t] \in Tcb /\ g_tcbs[t].prio \in Prio
         /\ \A t \in Tid, st \in State : [g_tcbs EXCEPT ![t].state = st] \in [Tid -> Tcb]
         /\ \A t \in Tid, p \in UserPrio : [g_tcbs EXCEPT ![t].prio = p] \in [Tid -> Tcb]
         /\ \A t \in Tid, p \in UserPrio :
              [g_tcbs EXCEPT ![t].prio = p, ![t].state = "READY"] \in [Tid -> Tcb]
         /\ \A t \in Tid, u \in Tcb : [g_tcbs EXCEPT ![t] = u] \in [Tid -> Tcb]
<1>1. \A t \in Tid : g_tcbs[t] \in Tcb /\ g_tcbs[t].prio \in Prio
  BY DEF Tcb
<1>2. \A t \in Tid, st \in State : [g_tcbs EXCEPT ![t].state = st] \in [Tid -> Tcb]
  BY DEF Tcb
<1>3. \A t \in Tid, p \in UserPrio : [g_tcbs EXCEPT ![t].prio = p] \in [Tid -> Tcb]
  BY ConstantFacts DEF Tcb
<1>4. \A t \in Tid, p \in UserPrio :
        [g_tcbs EXCEPT ![t].prio = p, ![t].state = "READY"] \in [Tid -> Tcb]
  BY ConstantFacts DEF Tcb, State
<1>5. \A t \in Tid, u \in Tcb : [g_tcbs EXCEPT ![t] = u] \in [Tid -> Tcb]
  OBVIOUS
<1>. QED BY <1>1, <1>2, <1>3, <1>4, <1>5

(* A call that ends in k_tsk_run_new and leaves the pool and the counters   *)
(* alone keeps TypeOK.                                                      *)
LEMMA CallType ==
  ASSUME TypeOK,
         NEW s \in [Tid -> Tcb], NEW q \in ReadyQueues(Tid), NEW y \in BOOLEAN,
         k_tsk_run_new(s, q, y),
         available_tid_queue' \in Seq(Tid), Len(available_tid_queue') <= MAX_TASKS - 1,
         g_num_active_tasks' \in 0..(U32MOD - 1), booted' = booted
  PROVE  TypeOK'
BY RunNewType DEF TypeOK

LEMMA TypeStep ==
  ASSUME TypeOK, [Next]_vars
  PROVE  TypeOK'
<1>. DEFINE me == gp_current_task
<1>0. /\ me \in Tid /\ g_tcbs \in [Tid -> Tcb] /\ rq \in ReadyQueues(Tid)
      /\ yield_flag \in BOOLEAN /\ wild \in BOOLEAN
      /\ available_tid_queue \in Seq(Tid) /\ Len(available_tid_queue) <= MAX_TASKS - 1
      /\ g_num_active_tasks \in 0..(U32MOD - 1) /\ booted \in 0..Len(BootTasks)
  BY DEF TypeOK
<1>1. CASE k_tsk_init
  <2> DEFINE b == BootTasks[booted + 1]
             t == TidFor(b.entry)
  <2>1. booted + 1 \in 1..Len(BootTasks) /\ b \in BootTask
    BY <1>0, <1>1, ConstantFacts DEF k_tsk_init
  <2>2. t \in Tid /\ NewTcb(b.entry, b.prio, b.priv) \in Tcb /\ b.prio \in Prio
    <3>1. /\ b.entry \in {"kcd_task", "user"} /\ b.prio \in UserPrio /\ b.prio \in Prio
          /\ b.priv \in BOOLEAN
      BY <2>1, ConstantFacts DEF BootTask
    <3>. QED BY <3>1, PoolType, NewTcbType
  <2>3. g_tcbs' \in [Tid -> Tcb]
    BY <1>0, <1>1, <2>2, TcbType DEF k_tsk_init
  <2>4. rq' \in ReadyQueues(Tid)
    BY <1>0, <1>1, <2>2, InsertType DEF k_tsk_init
  <2>5. available_tid_queue' \in Seq(Tid) /\ Len(available_tid_queue') <= MAX_TASKS - 1
    BY <1>1, PoolType DEF k_tsk_init
  <2>6. g_num_active_tasks' \in 0..(U32MOD - 1)
    BY <1>0, <1>1, WrapType DEF k_tsk_init
  <2>7. booted' \in 0..Len(BootTasks)
    BY <1>0, <1>1, <2>1, ConstantFacts DEF k_tsk_init
  <2>. QED BY <1>0, <1>1, <2>3, <2>4, <2>5, <2>6, <2>7 DEF k_tsk_init, TypeOK
<1>2. CASE k_tsk_yield
  BY <1>0, <1>2, CallType DEF k_tsk_yield
<1>3. ASSUME NEW entry \in {"kcd_task", "user"}, NEW p \in UserPrio, k_tsk_create(entry, p)
      PROVE  TypeOK'
  <2> DEFINE t == TidFor(entry)
             s == [g_tcbs EXCEPT ![t] = NewTcb(entry, p, FALSE)]
             q == insert_into_tasks(rq, p, t)
  <2>1. t \in Tid /\ s \in [Tid -> Tcb]
    BY <1>0, PoolType, NewTcbType, TcbType
  <2>2. q \in ReadyQueues(Tid)
    BY <1>0, <2>1, InsertType, ConstantFacts
  <2>3. available_tid_queue' \in Seq(Tid) /\ Len(available_tid_queue') <= MAX_TASKS - 1
    BY <1>3, PoolType DEF k_tsk_create
  <2>4. k_tsk_run_new(s, q, yield_flag) /\ UNCHANGED << g_num_active_tasks, booted >>
    BY <1>3 DEF k_tsk_create
  <2>. QED BY <1>0, <2>1, <2>2, <2>3, <2>4, CallType
<1>4. CASE k_tsk_exit
  <2>1. [g_tcbs EXCEPT ![me].state = "DORMANT"] \in [Tid -> Tcb]
    BY <1>0, TcbType DEF State
  <2>2. available_tid_queue' \in Seq(Tid) /\ Len(available_tid_queue') <= MAX_TASKS - 1
    BY <1>0, <1>4, PoolType DEF k_tsk_exit
  <2>3. g_num_active_tasks' \in 0..(U32MOD - 1)
    BY <1>0, <1>4, WrapType DEF k_tsk_exit
  <2>. QED BY <1>0, <1>4, <2>1, <2>2, <2>3, CallType DEF k_tsk_exit
<1>5. ASSUME NEW t \in Tid, NEW p \in UserPrio, k_tsk_set_prio(t, p)
      PROVE  TypeOK'
  <2>1. CASE SetPrioBlocked(t, p)
    BY <1>0, <2>1, TcbType DEF SetPrioBlocked, TypeOK
  <2>2. CASE SetPrioLowerSelf(p)
    <3>1. [g_tcbs EXCEPT ![me].prio = p] \in [Tid -> Tcb]
      BY <1>0, TcbType
    <3>. QED BY <1>0, <2>2, <3>1, CallType DEF SetPrioLowerSelf
  <2>3. CASE SetPrioRaiseSelf(p)
    <3>1. update_highest_priority(rq, p) \in ReadyQueues(Tid)
      BY <1>0, ConstantFacts DEF update_highest_priority, ReadyQueues
    <3>. QED BY <1>0, <2>3, <3>1, TcbType DEF SetPrioRaiseSelf, TypeOK
  <2>4. CASE SetPrioReady(t, p)
    <3> DEFINE l == g_tcbs[t].prio
               s == [g_tcbs EXCEPT ![t].prio = p, ![t].state = "READY"]
               q == remove_node(rq, l, t)
    <3>1. s \in [Tid -> Tcb] /\ l \in Prio
      BY <1>0, TcbType
    <3>2. q \in ReadyQueues(Tid)
      BY <1>0, <2>4, <3>1, RemoveNodeType DEF SetPrioReady
    <3>3. insert_into_tasks(q, p, t) \in ReadyQueues(Tid)
      BY <3>2, InsertType, ConstantFacts
    <3>4. /\ k_tsk_run_new(s, insert_into_tasks(q, p, t), yield_flag)
          /\ UNCHANGED << available_tid_queue, g_num_active_tasks, booted >>
      BY <2>4 DEF SetPrioReady
    <3>. QED BY <1>0, <3>1, <3>3, <3>4, CallType
  <2>5. CASE SetPrioUnlinked(t)
    BY <1>0, <2>5 DEF SetPrioUnlinked, TypeOK
  <2>. QED BY <1>5, <2>1, <2>2, <2>3, <2>4, <2>5 DEF k_tsk_set_prio
<1>6. CASE k_recv_msg
  <2>1. [g_tcbs EXCEPT ![me].state = "BLK_MSG"] \in [Tid -> Tcb]
    BY <1>0, TcbType DEF State
  <2>. QED BY <1>0, <1>6, <2>1, CallType DEF k_recv_msg
<1>7. ASSUME NEW t \in Tid, k_send_msg(t)
      PROVE  TypeOK'
  <2>1. /\ [g_tcbs EXCEPT ![t].state = "READY"] \in [Tid -> Tcb]
        /\ g_tcbs[t].prio \in Prio
    BY <1>0, TcbType DEF State
  <2>2. insert_into_tasks(rq, g_tcbs[t].prio, t) \in ReadyQueues(Tid)
    BY <1>0, <2>1, InsertType
  <2>. QED BY <1>0, <1>7, <2>1, <2>2, CallType DEF k_send_msg
<1>8. CASE c_IRQ_Handler
  BY <1>0, <1>8, CallType DEF c_IRQ_Handler
<1>9. CASE UNCHANGED vars
  BY <1>0, <1>9 DEF vars, TypeOK
<1>. QED BY <1>1, <1>2, <1>3, <1>4, <1>5, <1>6, <1>7, <1>8, <1>9 DEF Next

LEMMA TypeInit == Init => TypeOK
<1>. SUFFICES ASSUME Init PROVE TypeOK
  OBVIOUS
<1>1. gp_current_task \in Tid /\ g_tcbs \in [Tid -> Tcb]
  BY ConstantFacts DEF Init, Tcb, State, Entry
<1>2. rq \in ReadyQueues(Tid)
  BY ConstantFacts, EmptySeq DEF Init, EmptyQueue, ReadyQueues
<1>3. available_tid_queue \in Seq(Tid) /\ Len(available_tid_queue) = MAX_TASKS - 2
  <2>1. MAX_TASKS - 2 \in Nat /\ 1..(MAX_TASKS - 2) \subseteq Tid
    BY ConstantFacts DEF Tid
  <2>. QED BY <2>1, IsASeq DEF Init
<1>4. g_num_active_tasks \in 0..(U32MOD - 1) /\ booted \in 0..Len(BootTasks)
  BY ConstantFacts DEF Init
<1>5. Len(available_tid_queue) <= MAX_TASKS - 1
  BY <1>3, ConstantFacts
<1>. QED BY <1>1, <1>2, <1>3, <1>4, <1>5 DEF Init, TypeOK

(* The types, and the bound on the TID pool, hold for any callers.  The pool *)
(* is the array available_tid_queue of k_task.c: add_tid stays inside it.    *)
THEOREM TypeCorrect == Spec => []TypeOK
<1>1. Init => TypeOK
  BY TypeInit
<1>2. TypeOK /\ [Next]_vars => TypeOK'
  BY TypeStep
<1>. QED BY <1>1, <1>2, PTL DEF Spec

-----------------------------------------------------------------------------
(* The invariant's parts, as predicates of the TCBs s and the queue q that *)
(* a call hands to k_tsk_run_new.                                          *)

ReadyIn(s) == {t \in Tid : s[t].state = "READY"}
PriosIn(s) == [t \in Tid |-> s[t].prio]

Dormant(s) == {t \in Tid \ {TID_NULL, TID_KCD} : s[t].state = "DORMANT"}

Apart(s) ==
  /\ s[TID_NULL].entry = "task_null"
  /\ s[TID_NULL].prio = PRIO_NULL
  /\ \A t \in Tid \ {TID_NULL} :
       /\ s[t].entry # "task_null"
       /\ s[t].state # "DORMANT" => s[t].prio \in UserPrio

Queued(s, q) ==
  /\ s \in [Tid -> Tcb]
  /\ q \in ReadyQueues(Tid)
  /\ Links(q, ReadyIn(s), PriosIn(s))
  /\ TopExact(q)

(* What a call of a task, not of the null task, hands over. *)
Prepared(s, q) ==
  /\ Queued(s, q)
  /\ Apart(s)
  /\ \A t \in Tid : s[t].state = "RUNNING" => t = gp_current_task
  /\ s[TID_NULL].state = "READY"
  /\ s[gp_current_task].state # "READY"

(* The state after a switch. *)
Switched ==
  /\ Queued(g_tcbs, rq)
  /\ Apart(g_tcbs)
  /\ gp_current_task \in Tid
  /\ \A t \in Tid : g_tcbs[t].state = "RUNNING" => t = gp_current_task
  /\ gp_current_task # TID_NULL =>
       /\ g_tcbs[gp_current_task].state = "RUNNING"
       /\ g_tcbs[TID_NULL].state = "READY"
       /\ g_tcbs[gp_current_task].prio <= rq.highest_priority
  /\ gp_current_task = TID_NULL =>
       /\ ReadyIn(g_tcbs) \subseteq {TID_NULL}
       /\ rq.highest_priority = PRIO_NULL
       /\ g_tcbs[TID_NULL].state \in {"READY", "RUNNING"}
  /\ ~wild

-----------------------------------------------------------------------------
(* Facts about a linked queue. *)

(* Links depends on the priorities of the linked tasks only. *)
LEMMA LinksPrios ==
  ASSUME NEW q, NEW R, NEW pr, NEW pp, Links(q, R, pr), \A t \in R : pp[t] = pr[t]
  PROVE  Links(q, R, pp)
<1>1. \A l \in Prio : {t \in R : pp[t] = l} = {t \in R : pr[t] = l}
  OBVIOUS
<1>. QED BY <1>1 DEF Links

(* A linked task's level is in use, highest_priority is no less urgent, and *)
(* the list that it names is not empty.                                     *)
LEMMA LinkedLevel ==
  ASSUME NEW T, NEW q \in ReadyQueues(T), NEW R, NEW pr, Links(q, R, pr),
         NEW t \in R, pr[t] \in Prio
  PROVE  /\ pr[t] \in Levels(q)
         /\ TopExact(q) => /\ q.highest_priority <= pr[t]
                           /\ q.highest_priority \in Levels(q)
                           /\ Top(q) # << >>
<1>1. t \in ToSet(q.tasks[pr[t]])
  BY DEF Links
<1>2. pr[t] \in Levels(q)
  BY <1>1, LevelsFacts
<1>3. q.highest_priority \in Levels(q) => Top(q) # << >>
  BY DEF Levels, Top
<1>. QED BY <1>2, <1>3 DEF TopExact

(* Levels in use hold linked tasks. *)
LEMMA LevelLinked ==
  ASSUME NEW T, NEW q \in ReadyQueues(T), NEW R, NEW pr, Links(q, R, pr), NEW l \in Levels(q)
  PROVE  \E t \in R : pr[t] = l
<1>1. l \in Prio /\ ToSet(q.tasks[l]) # {}
  BY LevelsFacts DEF Levels
<1>. QED BY <1>1 DEF Links

(* A task that becomes READY and is linked at its level. *)
LEMMA InsertQueued ==
  ASSUME NEW q \in ReadyQueues(Tid), NEW R, NEW pr, Links(q, R, pr), TopExact(q),
         NEW s \in [Tid -> Tcb], NEW t \in Tid \ R,
         ReadyIn(s) = R \cup {t}, \A u \in R : s[u].prio = pr[u] /\ u \in Tid,
         q.highest_priority \in Levels(q) \/ s[t].prio <= q.highest_priority
  PROVE  Queued(s, insert_into_tasks(q, s[t].prio, t))
<1> DEFINE p == s[t].prio
<1>1. p \in Prio
  BY DEF Tcb
<1>2. \A u \in R : PriosIn(s)[u] = pr[u]
  BY DEF PriosIn
<1>3. Links(q, R, PriosIn(s))
  BY <1>2, LinksPrios
<1>4. PriosIn(s)[t] = p
  BY DEF PriosIn
<1>5. Links(insert_into_tasks(q, p, t), R \cup {t}, PriosIn(s))
  BY <1>1, <1>3, <1>4, InsertLinks
<1>6. TopExact(insert_into_tasks(q, p, t))
  <2>1. \A l \in Levels(q) : q.highest_priority <= l
    BY DEF TopExact
  <2>. QED BY <1>1, <2>1, InsertTop
<1>7. insert_into_tasks(q, p, t) \in ReadyQueues(Tid)
  BY <1>1, InsertType
<1>. QED BY <1>5, <1>6, <1>7 DEF Queued

-----------------------------------------------------------------------------
(* k_tsk_run_new on what a call hands over. *)

(* The head of the queue is taken by the CPU. *)
LEMMA TakeHead ==
  ASSUME NEW s, NEW q, Queued(s, q), NEW r \in ReadyIn(s)
  PROVE  LET n == Retrieved(q)
             z == retrieve_from_tasks(q)
         IN  /\ n \in ReadyIn(s) /\ s[n].prio = q.highest_priority
             /\ z \in ReadyQueues(Tid)
             /\ Links(z, ReadyIn(s) \ {n}, PriosIn(s))
             /\ TopExact(z)
             /\ z.highest_priority >= q.highest_priority
             /\ \A t \in ReadyIn(s) : q.highest_priority <= s[t].prio
<1> DEFINE n == Retrieved(q)
           z == retrieve_from_tasks(q)
<1>0. /\ q \in ReadyQueues(Tid) /\ Links(q, ReadyIn(s), PriosIn(s)) /\ TopExact(q)
      /\ \A t \in ReadyIn(s) : t \in Tid /\ PriosIn(s)[t] = s[t].prio /\ s[t].prio \in Prio
  BY DEF Queued, ReadyIn, PriosIn, Tcb
<1>1. \A t \in ReadyIn(s) : q.highest_priority <= s[t].prio /\ Top(q) # << >>
  BY <1>0, LinkedLevel
<1>2. /\ n \in ReadyIn(s) /\ PriosIn(s)[n] = q.highest_priority
      /\ Links(z, ReadyIn(s) \ {n}, PriosIn(s))
  BY <1>0, <1>1, RetrieveLinks
<1>3. z \in ReadyQueues(Tid)
  BY <1>0, RetrieveType
<1>4. TopExact(z) /\ z.highest_priority >= q.highest_priority
  BY <1>0, RetrieveTop
<1>. QED BY <1>0, <1>1, <1>2, <1>3, <1>4

(* What every branch shows of the TCBs and the queue it leaves. *)
LEMMA SwitchedFrom ==
  ASSUME gp_current_task' \in Tid, Queued(g_tcbs', rq'), Apart(g_tcbs'),
         \A t \in Tid : g_tcbs'[t].state = "RUNNING" => t = gp_current_task',
         gp_current_task' # TID_NULL =>
           /\ g_tcbs'[gp_current_task'].state = "RUNNING"
           /\ g_tcbs'[TID_NULL].state = "READY"
           /\ g_tcbs'[gp_current_task'].prio <= rq'.highest_priority,
         gp_current_task' = TID_NULL =>
           /\ ReadyIn(g_tcbs') \subseteq {TID_NULL}
           /\ rq'.highest_priority = PRIO_NULL
           /\ g_tcbs'[TID_NULL].state \in {"READY", "RUNNING"},
         NEW s, NEW q, NEW y, k_tsk_run_new(s, q, y),
         s[gp_current_task'].state # "BLK_MSG"
  PROVE  Switched'
<1>1. LinkedOnce(rq')
  <2>1. rq' \in ReadyQueues(Tid) /\ Links(rq', ReadyIn(g_tcbs'), PriosIn(g_tcbs'))
    BY DEF Queued
  <2>. QED BY <2>1, LinksOnce
<1>2. ~wild'
  BY <1>1 DEF k_tsk_run_new
<1>. QED BY <1>2 DEF Switched, Queued, Apart

(* A caller that gives the CPU up. *)
LEMMA GiveUpSwitch ==
  ASSUME gp_current_task \in Tid \ {TID_NULL}, NEW s, NEW q, NEW y, Prepared(s, q),
         k_tsk_run_new(s, q, y), GivesUp(s)
  PROVE  Switched' /\ Dormant(g_tcbs') = Dormant(s)
<1> DEFINE n == Retrieved(q)
           R == ReadyIn(s)
<1>0. /\ s \in [Tid -> Tcb] /\ Queued(s, q) /\ Apart(s) /\ TID_NULL \in R
      /\ q \in ReadyQueues(Tid) /\ q.highest_priority \in Prio
      /\ \A t \in Tid : s[t].prio \in Prio
  BY ConstantFacts DEF Prepared, Queued, ReadyIn, ReadyQueues, Tcb
<1>1. /\ n \in R /\ s[n].prio = q.highest_priority
      /\ rq' \in ReadyQueues(Tid) /\ Links(rq', R \ {n}, PriosIn(s)) /\ TopExact(rq')
      /\ rq'.highest_priority >= q.highest_priority
      /\ \A t \in R : q.highest_priority <= s[t].prio
  BY <1>0, TakeHead DEF k_tsk_run_new
<1>2. n \in Tid /\ n # gp_current_task /\ s[n].state = "READY" /\ n # NoTask
  BY <1>1, ConstantFacts DEF Prepared, ReadyIn
<1>3. gp_current_task' = n /\ g_tcbs' = [s EXCEPT ![n].state = "RUNNING"]
  BY <1>2 DEF k_tsk_run_new, SwitchTo
<1>4. /\ g_tcbs' \in [Tid -> Tcb]
      /\ \A t \in Tid : /\ g_tcbs'[t].prio = s[t].prio
                        /\ g_tcbs'[t].entry = s[t].entry
                        /\ g_tcbs'[t].state = IF t = n THEN "RUNNING" ELSE s[t].state
  BY <1>0, <1>2, <1>3 DEF Tcb, State
<1>5. Queued(g_tcbs', rq')
  <2>1. PriosIn(g_tcbs') = PriosIn(s) /\ ReadyIn(g_tcbs') = R \ {n}
    BY <1>4 DEF PriosIn, ReadyIn
  <2>. QED BY <1>1, <1>4, <2>1 DEF Queued
<1>6. Apart(g_tcbs')
  BY <1>0, <1>2, <1>4, ConstantFacts DEF Apart
<1>7. \A t \in Tid : g_tcbs'[t].state = "RUNNING" => t = n
  BY <1>4 DEF Prepared, GivesUp
<1>8. ASSUME n # TID_NULL
      PROVE  /\ g_tcbs'[n].state = "RUNNING"
             /\ g_tcbs'[TID_NULL].state = "READY"
             /\ g_tcbs'[n].prio <= rq'.highest_priority
  <2>1. rq'.highest_priority \in Prio
    BY <1>1 DEF ReadyQueues
  <2>. QED BY <1>0, <1>1, <1>2, <1>4, <1>8, <2>1, ConstantFacts DEF ReadyIn
<1>9. ASSUME n = TID_NULL
      PROVE  /\ ReadyIn(g_tcbs') \subseteq {TID_NULL}
             /\ rq'.highest_priority = PRIO_NULL
             /\ g_tcbs'[TID_NULL].state \in {"READY", "RUNNING"}
  <2>1. q.highest_priority = PRIO_NULL
    BY <1>0, <1>1, <1>9 DEF Apart
  <2>2. rq'.highest_priority = PRIO_NULL
    <3>1. rq'.highest_priority \in Prio
      BY <1>1 DEF ReadyQueues
    <3>. QED BY <1>1, <2>1, <3>1, PrioAssumption DEF Prio
  <2>3. \A t \in R : t = TID_NULL
    <3>. SUFFICES ASSUME NEW t \in R, t # TID_NULL PROVE FALSE
      OBVIOUS
    <3>1. s[t].prio \in UserPrio
      BY <1>0 DEF Apart, ReadyIn
    <3>2. s[t].prio >= PRIO_NULL
      BY <1>1, <2>1
    <3>. QED BY <3>1, <3>2, PrioAssumption DEF UserPrio
  <2>4. ReadyIn(g_tcbs') \subseteq R
    BY <1>4 DEF ReadyIn
  <2>. QED BY <1>2, <1>4, <1>9, <2>2, <2>3, <2>4
<1>10. Dormant(g_tcbs') = Dormant(s)
  BY <1>2, <1>4 DEF Dormant
<1>11. Switched'
  BY <1>2, <1>3, <1>5, <1>6, <1>7, <1>8, <1>9, SwitchedFrom
<1>. QED BY <1>10, <1>11

(* A caller that is displaced: it goes to the tail of its level. *)
LEMMA DisplaceSwitch ==
  ASSUME gp_current_task \in Tid \ {TID_NULL}, NEW s, NEW q, NEW y, Prepared(s, q),
         k_tsk_run_new(s, q, y), ~GivesUp(s), Displaced(s, q, y)
  PROVE  Switched' /\ Dormant(g_tcbs') = Dormant(s)
<1> DEFINE me == gp_current_task
           n  == Retrieved(q)
           z  == retrieve_from_tasks(q)
           R  == ReadyIn(s)
           p  == s[me].prio
<1>0. /\ s \in [Tid -> Tcb] /\ Queued(s, q) /\ Apart(s) /\ TID_NULL \in R
      /\ q \in ReadyQueues(Tid) /\ q.highest_priority \in Prio
      /\ \A t \in Tid : s[t].prio \in Prio /\ s[t].state \in State
  BY ConstantFacts DEF Prepared, Queued, ReadyIn, ReadyQueues, Tcb
<1>1. /\ n \in R /\ s[n].prio = q.highest_priority
      /\ z \in ReadyQueues(Tid) /\ Links(z, R \ {n}, PriosIn(s)) /\ TopExact(z)
      /\ z.highest_priority >= q.highest_priority
  BY <1>0, TakeHead
<1>2. s[me].state = "RUNNING" /\ me \notin R
  BY <1>0 DEF GivesUp, State, Prepared, ReadyIn
<1>3. p \in UserPrio /\ q.highest_priority <= p
  <2>1. p \in Nat /\ q.highest_priority \in Nat
    BY <1>0, ConstantFacts
  <2>2. p = q.highest_priority \/ p > q.highest_priority
    BY Zenon DEF Displaced
  <2>3. p \in UserPrio
    BY <1>0, <1>2 DEF Apart
  <2>. QED BY <2>1, <2>2, <2>3
<1>4. n \in Tid /\ n # me /\ s[n].state = "READY" /\ n # NoTask /\ n # TID_NULL
  <2>1. s[TID_NULL].prio = PRIO_NULL
    BY <1>0 DEF Apart
  <2>2. n # TID_NULL
    BY <1>0, <1>1, <1>3, <2>1, PrioAssumption DEF UserPrio, Prio
  <2>. QED BY <1>1, <1>2, <2>2, ConstantFacts DEF ReadyIn
<1>5. /\ rq' = insert_into_tasks(z, p, me)
      /\ gp_current_task' = n
      /\ g_tcbs' = [s EXCEPT ![me].state = "READY", ![n].state = "RUNNING"]
  BY <1>4 DEF k_tsk_run_new, SwitchTo
<1>6. /\ g_tcbs' \in [Tid -> Tcb]
      /\ \A t \in Tid : /\ g_tcbs'[t].prio = s[t].prio
                        /\ g_tcbs'[t].entry = s[t].entry
                        /\ g_tcbs'[t].state = IF t = n THEN "RUNNING" ELSE
                                              IF t = me THEN "READY" ELSE s[t].state
  BY <1>0, <1>4, <1>5 DEF Tcb, State
<1>7. z.highest_priority \in Levels(z)
  <2>1. TID_NULL \in R \ {n} /\ PriosIn(s)[TID_NULL] \in Prio
    BY <1>0, <1>4, ConstantFacts DEF PriosIn
  <2>. QED BY <1>1, <2>1, LinkedLevel
<1>8. Queued(g_tcbs', rq')
  <2>1. ReadyIn(g_tcbs') = (R \ {n}) \cup {me}
    BY <1>2, <1>4, <1>6 DEF ReadyIn
  <2>2. \A u \in R \ {n} : g_tcbs'[u].prio = PriosIn(s)[u] /\ u \in Tid
    BY <1>6 DEF PriosIn, ReadyIn
  <2>3. me \in Tid \ (R \ {n}) /\ g_tcbs'[me].prio = p
    BY <1>2, <1>6
  <2>4. Queued(g_tcbs', insert_into_tasks(z, g_tcbs'[me].prio, me))
    BY <1>1, <1>6, <1>7, <2>1, <2>2, <2>3, InsertQueued
  <2>. QED BY <1>5, <2>3, <2>4
<1>9. Apart(g_tcbs')
  BY <1>0, <1>2, <1>4, <1>6, ConstantFacts DEF Apart
<1>10. \A t \in Tid : g_tcbs'[t].state = "RUNNING" => t = n
  BY <1>6 DEF Prepared
<1>11. /\ g_tcbs'[n].state = "RUNNING"
       /\ g_tcbs'[TID_NULL].state = "READY"
       /\ g_tcbs'[n].prio <= rq'.highest_priority
  <2>1. rq'.highest_priority = IF z.highest_priority > p THEN p ELSE z.highest_priority
    <3>1. \A l \in Levels(z) : z.highest_priority <= l
      BY <1>1 DEF TopExact
    <3>2. p \in Prio /\ me \in Tid
      BY <1>0
    <3>. QED BY <1>1, <1>5, <1>7, <3>1, <3>2, InsertTop
  <2>2. g_tcbs'[n].prio <= rq'.highest_priority
    <3>1. z.highest_priority \in Prio
      BY <1>1 DEF ReadyQueues
    <3>. QED BY <1>0, <1>1, <1>3, <1>4, <1>6, <2>1, <3>1, ConstantFacts
  <2>. QED BY <1>0, <1>4, <1>6, <2>2, ConstantFacts DEF ReadyIn
<1>12. Dormant(g_tcbs') = Dormant(s)
  BY <1>2, <1>4, <1>6 DEF Dormant
<1>13. Switched'
  BY <1>4, <1>5, <1>8, <1>9, <1>10, <1>11, SwitchedFrom
<1>. QED BY <1>12, <1>13

(* A caller that keeps the CPU. *)
LEMMA StaySwitch ==
  ASSUME gp_current_task \in Tid \ {TID_NULL}, NEW s, NEW q, NEW y \in BOOLEAN,
         Prepared(s, q), k_tsk_run_new(s, q, y), ~GivesUp(s), ~Displaced(s, q, y)
  PROVE  Switched' /\ Dormant(g_tcbs') = Dormant(s)
<1> DEFINE me == gp_current_task
<1>1. gp_current_task' = me /\ g_tcbs' = s /\ rq' = q
  BY DEF k_tsk_run_new, SwitchTo
<1>2. /\ s[me].state = "RUNNING"
      /\ Queued(s, q) /\ Apart(s) /\ s[TID_NULL].state = "READY"
      /\ \A t \in Tid : s[t].state = "RUNNING" => t = me
  BY DEF Prepared, Queued, GivesUp, Tcb, State
<1>3. s[me].prio <= q.highest_priority
  <2>1. s[me].prio \in Prio /\ q.highest_priority \in Prio
    BY <1>2 DEF Queued, Tcb, ReadyQueues
  <2>2. s[me].prio \in Nat /\ q.highest_priority \in Nat
    BY <2>1, ConstantFacts
  <2>3. ~(s[me].prio > q.highest_priority)
    BY Zenon DEF Displaced
  <2>. QED BY <2>2, <2>3
<1>4. Switched'
  BY <1>1, <1>2, <1>3, SwitchedFrom
<1>. QED BY <1>1, <1>4

(* Whatever a task's call hands over, the scheduler leaves the task states, *)
(* the lists and highest_priority in order.                                 *)
LEMMA TaskSwitch ==
  ASSUME gp_current_task \in Tid \ {TID_NULL}, NEW s, NEW q, NEW y \in BOOLEAN,
         Prepared(s, q), k_tsk_run_new(s, q, y)
  PROVE  Switched' /\ Dormant(g_tcbs') = Dormant(s)
BY GiveUpSwitch, DisplaceSwitch, StaySwitch

-----------------------------------------------------------------------------
(* SchedInv in these terms. *)

PoolIs(pool, T) == IsInjective(pool) /\ ToSet(pool) = T

LEMMA InvParts ==
  ASSUME SchedInv
  PROVE  /\ TypeOK /\ gp_current_task \in Tid
         /\ Queued(g_tcbs, rq) /\ Apart(g_tcbs)
         /\ \A t \in Tid : g_tcbs[t].state = "RUNNING" => t = gp_current_task
         /\ PoolIs(available_tid_queue, Dormant(g_tcbs))
         /\ gp_current_task # TID_NULL =>
              /\ booted = Len(BootTasks)
              /\ g_tcbs[gp_current_task].state = "RUNNING"
              /\ g_tcbs[TID_NULL].state = "READY"
              /\ Prepared(g_tcbs, rq)
<1>1. /\ TypeOK /\ gp_current_task \in Tid
      /\ \A t \in Tid : g_tcbs[t].state = "RUNNING" => t = gp_current_task
  BY DEF SchedInv, TypeOK
<1>2. Queued(g_tcbs, rq)
  <2>1. Links(rq, ReadyIn(g_tcbs), PriosIn(g_tcbs))
    BY DEF SchedInv, ReadyListExact, IsReady, PrioOf, ReadyIn, PriosIn
  <2>. QED BY <1>1, <2>1 DEF SchedInv, TypeOK, HighestPriorityExact, Queued
<1>3. Apart(g_tcbs)
  BY DEF SchedInv, NullApart, PrioOf, Apart
<1>4. PoolIs(available_tid_queue, Dormant(g_tcbs))
  BY DEF SchedInv, TidPoolExact, PoolIs, Dormant
<1>5. gp_current_task # TID_NULL =>
        /\ booted = Len(BootTasks)
        /\ g_tcbs[gp_current_task].state = "RUNNING"
        /\ g_tcbs[TID_NULL].state = "READY"
  BY DEF SchedInv, TaskCurrent, IsReady
<1>. QED BY <1>1, <1>2, <1>3, <1>4, <1>5 DEF Prepared

(* The invariant after a switch. *)
LEMMA InvAfter ==
  ASSUME TypeOK', Switched', booted' = Len(BootTasks),
         PoolIs(available_tid_queue', Dormant(g_tcbs'))
  PROVE  SchedInv'
<1>1. ReadyListExact' /\ HighestPriorityExact'
  <2>1. Links(rq', ReadyIn(g_tcbs'), PriosIn(g_tcbs')) /\ TopExact(rq')
    BY DEF Switched, Queued
  <2>. QED BY <2>1 DEF ReadyListExact, HighestPriorityExact, IsReady, PrioOf, ReadyIn, PriosIn
<1>2. NullApart'
  BY DEF Switched, Apart, NullApart, PrioOf
<1>3. (gp_current_task # TID_NULL => TaskCurrent)'
  BY DEF Switched, TaskCurrent, IsReady, PrioOf
<1>4. (gp_current_task = TID_NULL => NullCurrent)'
  BY DEF Switched, NullCurrent, ReadyIn, IsReady
<1>5. TidPoolExact'
  BY DEF PoolIs, Dormant, TidPoolExact
<1>6. BootRoom'
  <2>1. ~(booted' < Len(BootTasks))
    BY ConstantFacts
  <2>. QED BY <2>1 DEF BootRoom
<1>7. ~wild' /\ \A t \in Tid : g_tcbs'[t].state = "RUNNING" => t = gp_current_task'
  BY DEF Switched
<1>. QED BY <1>1, <1>2, <1>3, <1>4, <1>5, <1>6, <1>7 DEF SchedInv

(* A task's call hands s and q to the scheduler. *)
Hands(s, q) ==
  /\ gp_current_task \in Tid \ {TID_NULL}
  /\ Prepared(s, q)
  /\ \E y \in BOOLEAN : k_tsk_run_new(s, q, y)
  /\ booted' = booted
  /\ PoolIs(available_tid_queue', Dormant(s))

(* It keeps the invariant, since what it hands over is prepared. *)
LEMMA CallSafe ==
  ASSUME SchedInv, NEW s, NEW q, Hands(s, q)
  PROVE  Switched' /\ (TypeOK' => SchedInv')
<1>1. gp_current_task \in Tid \ {TID_NULL} /\ booted' = Len(BootTasks)
  BY InvParts DEF Hands
<1>2. Switched' /\ Dormant(g_tcbs') = Dormant(s)
  BY <1>1, TaskSwitch DEF Hands
<1>. QED BY <1>1, <1>2, InvAfter DEF Hands

(* The null task's yield: the first one dispatches a boot task, the others *)
(* find nothing else READY.                                                *)
LEMMA NullSwitch ==
  ASSUME SchedInv, Len(BootTasks) >= 2, gp_current_task = TID_NULL, booted = Len(BootTasks),
         k_tsk_run_new(g_tcbs, rq, TRUE)
  PROVE  Switched' /\ Dormant(g_tcbs') = Dormant(g_tcbs)
<1> DEFINE n == Retrieved(rq)
           z == retrieve_from_tasks(rq)
           R == ReadyIn(g_tcbs)
           h == rq.highest_priority
           u == [g_tcbs EXCEPT ![TID_NULL].state = "READY"]
<1>0. /\ g_tcbs \in [Tid -> Tcb] /\ rq \in ReadyQueues(Tid) /\ h \in Prio /\ h <= PRIO_NULL
      /\ Queued(g_tcbs, rq) /\ Apart(g_tcbs) /\ g_tcbs[TID_NULL].prio = PRIO_NULL
      /\ \A t \in Tid : g_tcbs[t].state = "RUNNING" => t = TID_NULL
      /\ Links(rq, R, PriosIn(g_tcbs)) /\ TopExact(rq)
  BY InvParts, PrioAssumption DEF Queued, ReadyQueues, Apart, Prio
<1>1. \/ g_tcbs[TID_NULL].state = "RUNNING" /\ \E a, b \in R : a # b
      \/ R \subseteq {TID_NULL} /\ h = PRIO_NULL /\ g_tcbs[TID_NULL].state \in {"READY", "RUNNING"}
  <2>1. NullCurrent /\ booted >= 2
    BY DEF SchedInv
  <2>2. booted # 0 /\ booted # 1
    BY <2>1, ConstantFacts
  <2>. QED BY <2>1, <2>2 DEF NullCurrent, ReadyIn, IsReady
<1>2. ~GivesUp(g_tcbs) /\ Displaced(g_tcbs, rq, TRUE)
  <2>1. ~GivesUp(g_tcbs)
    BY <1>1 DEF GivesUp
  <2>2. h = PRIO_NULL \/ PRIO_NULL > h
    BY <1>0, PrioAssumption DEF Prio
  <2>. QED BY <1>0, <2>1, <2>2 DEF Displaced
<1>3. rq' = insert_into_tasks(z, PRIO_NULL, TID_NULL) /\ SwitchTo(n, u)
  BY <1>0, <1>2 DEF k_tsk_run_new
<1>4. /\ u \in [Tid -> Tcb] /\ u[TID_NULL].prio = PRIO_NULL
      /\ \A t \in Tid : /\ u[t].prio = g_tcbs[t].prio
                        /\ u[t].entry = g_tcbs[t].entry
                        /\ u[t].state = IF t = TID_NULL THEN "READY" ELSE g_tcbs[t].state
  BY <1>0, ConstantFacts DEF Tcb, State
<1>. HIDE DEF u
<1>5. CASE g_tcbs[TID_NULL].state = "RUNNING" /\ \E a, b \in R : a # b
  <2>1. /\ n \in R /\ g_tcbs[n].prio = h
        /\ z \in ReadyQueues(Tid) /\ Links(z, R \ {n}, PriosIn(g_tcbs)) /\ TopExact(z)
        /\ z.highest_priority >= h
    BY <1>0, <1>5, TakeHead
  <2>2. n \in Tid /\ n # TID_NULL /\ n # NoTask /\ TID_NULL \notin R /\ g_tcbs[n].state = "READY"
    BY <1>5, <2>1, ConstantFacts DEF ReadyIn
  <2>3. gp_current_task' = n /\ g_tcbs' = [u EXCEPT ![n].state = "RUNNING"]
    BY <1>3, <2>2 DEF SwitchTo
  <2>4. /\ g_tcbs' \in [Tid -> Tcb]
        /\ \A t \in Tid : /\ g_tcbs'[t].prio = g_tcbs[t].prio
                          /\ g_tcbs'[t].entry = g_tcbs[t].entry
                          /\ g_tcbs'[t].state = IF t = n THEN "RUNNING" ELSE
                                                IF t = TID_NULL THEN "READY" ELSE g_tcbs[t].state
    BY <1>4, <2>2, <2>3 DEF Tcb, State
  <2>5. z.highest_priority \in Levels(z)
    <3>1. PICK t \in R \ {n} : TRUE
      BY <1>5
    <3>2. PriosIn(g_tcbs)[t] \in Prio
      BY <1>0, <3>1 DEF PriosIn, ReadyIn, Tcb
    <3>. QED BY <2>1, <3>1, <3>2, LinkedLevel
  <2>6. Queued(g_tcbs', rq')
    <3>1. ReadyIn(g_tcbs') = (R \ {n}) \cup {TID_NULL}
      BY <2>2, <2>4, ConstantFacts DEF ReadyIn
    <3>2. \A t \in R \ {n} : g_tcbs'[t].prio = PriosIn(g_tcbs)[t] /\ t \in Tid
      BY <2>4 DEF PriosIn, ReadyIn
    <3>3. TID_NULL \in Tid \ (R \ {n}) /\ g_tcbs'[TID_NULL].prio = PRIO_NULL
      BY <1>0, <2>2, <2>4, ConstantFacts
    <3>4. Queued(g_tcbs', insert_into_tasks(z, g_tcbs'[TID_NULL].prio, TID_NULL))
      BY <2>1, <2>4, <2>5, <3>1, <3>2, <3>3, InsertQueued
    <3>. QED BY <1>3, <3>3, <3>4
  <2>7. Apart(g_tcbs')
    BY <1>0, <2>2, <2>4, ConstantFacts DEF Apart
  <2>8. \A t \in Tid : g_tcbs'[t].state = "RUNNING" => t = n
    BY <1>0, <2>4
  <2>9. g_tcbs'[n].prio <= rq'.highest_priority
    <3>1. rq'.highest_priority =
            IF z.highest_priority > PRIO_NULL THEN PRIO_NULL ELSE z.highest_priority
      <4>1. \A l \in Levels(z) : z.highest_priority <= l
        BY <2>1 DEF TopExact
      <4>. QED BY <1>3, <2>1, <2>5, <4>1, ConstantFacts, InsertTop
    <3>2. z.highest_priority \in Prio
      BY <2>1 DEF ReadyQueues
    <3>. QED BY <1>0, <2>1, <2>2, <2>4, <3>1, <3>2, ConstantFacts
  <2>10. Switched'
    <3>1. g_tcbs[gp_current_task'].state # "BLK_MSG" /\ gp_current_task' # TID_NULL
      BY <2>2, <2>3
    <3>2. g_tcbs'[n].state = "RUNNING" /\ g_tcbs'[TID_NULL].state = "READY"
      BY <2>2, <2>4, ConstantFacts
    <3>. QED BY <2>2, <2>3, <2>6, <2>7, <2>8, <2>9, <3>1, <3>2, SwitchedFrom
  <2>11. Dormant(g_tcbs') = Dormant(g_tcbs)
    BY <2>2, <2>4 DEF Dormant
  <2>. QED BY <2>10, <2>11
<1>6. CASE /\ R \subseteq {TID_NULL} /\ h = PRIO_NULL
           /\ g_tcbs[TID_NULL].state \in {"READY", "RUNNING"}
  <2>1. /\ n \in {NoTask, TID_NULL}
        /\ z \in ReadyQueues(Tid) /\ Links(z, {}, PriosIn(g_tcbs)) /\ TopExact(z)
        /\ z.highest_priority = PRIO_NULL
    <3>1. CASE R = {}
      <4>1. Levels(rq) = {}
        BY <1>0, <3>1, LevelLinked
      <4>2. Top(rq) = << >>
        BY <1>0, <4>1 DEF Levels, Top
      <4>3. NextLevel(rq) = h
        BY <4>1 DEF NextLevel
      <4>4. z = rq
        BY <1>0, <4>2, <4>3 DEF retrieve_from_tasks, dequeue, Rescan, ReadyQueues
      <4>. QED BY <1>0, <1>6, <3>1, <4>2, <4>4 DEF Retrieved
    <3>2. CASE R # {}
      <4>1. R = {TID_NULL}
        BY <1>6, <3>2
      <4>2. /\ n \in R /\ z \in ReadyQueues(Tid) /\ Links(z, R \ {n}, PriosIn(g_tcbs))
            /\ TopExact(z) /\ z.highest_priority >= h
        BY <1>0, <4>1, TakeHead
      <4>3. z.highest_priority = PRIO_NULL
        <5>1. z.highest_priority \in Prio
          BY <4>2 DEF ReadyQueues
        <5>. QED BY <1>6, <4>2, <5>1, PrioAssumption DEF Prio
      <4>4. R \ {n} = {}
        BY <4>1, <4>2
      <4>. QED BY <4>1, <4>2, <4>3, <4>4
    <3>. QED BY <3>1, <3>2
  <2>2. gp_current_task' = TID_NULL /\ g_tcbs' = u
    BY <1>3, <2>1 DEF SwitchTo
  <2>3. ReadyIn(u) = {TID_NULL}
    BY <1>4, <1>6, ConstantFacts DEF ReadyIn
  <2>4. Queued(u, rq')
    <3>1. Queued(u, insert_into_tasks(z, u[TID_NULL].prio, TID_NULL))
      <4>1. ReadyIn(u) = {} \cup {TID_NULL} /\ TID_NULL \in Tid \ {}
        BY <2>3, ConstantFacts
      <4>2. u[TID_NULL].prio <= z.highest_priority
        BY <1>4, <2>1, ConstantFacts
      <4>. QED BY <1>4, <2>1, <4>1, <4>2, InsertQueued
    <3>. QED BY <1>3, <1>4, <3>1
  <2>5. rq'.highest_priority = PRIO_NULL
    BY <1>3, <2>1, ConstantFacts
       DEF insert_into_tasks, enqueue, update_highest_priority, ReadyQueues
  <2>6. Apart(u) /\ \A t \in Tid : u[t].state = "RUNNING" => t = TID_NULL
    BY <1>0, <1>4, ConstantFacts DEF Apart
  <2>7. Switched'
    <3>1. g_tcbs[gp_current_task'].state # "BLK_MSG"
      BY <1>6, <2>2
    <3>2. u[TID_NULL].state \in {"READY", "RUNNING"}
      BY <1>4, ConstantFacts
    <3>. QED BY <2>2, <2>3, <2>4, <2>5, <2>6, <3>1, <3>2, ConstantFacts, SwitchedFrom
  <2>8. Dormant(u) = Dormant(g_tcbs)
    BY <1>4 DEF Dormant
  <2>. QED BY <2>2, <2>7, <2>8
<1>. QED BY <1>1, <1>5, <1>6

-----------------------------------------------------------------------------
(* The TID pool. *)

(* It holds distinct TIDs, none of the null or the KCD task: it never fills. *)
LEMMA PoolRoom ==
  ASSUME NEW pool \in Seq(Tid), NEW s, PoolIs(pool, Dormant(s))
  PROVE  Len(pool) <= MAX_TASKS - 2
<1> DEFINE free == 1..(MAX_TASKS - 2)
<1>1. Len(pool) \in Nat /\ DOMAIN pool = 1..Len(pool) /\ ToSet(pool) = {pool[i] : i \in 1..Len(pool)}
  BY SetOfSeq
<1>2. \A i \in 1..Len(pool) : pool[i] \in free
  <2>1. \A i \in 1..Len(pool) : pool[i] \in Tid \ {TID_NULL, TID_KCD}
    BY <1>1 DEF PoolIs, Dormant
  <2>2. Tid \ {TID_NULL, TID_KCD} \subseteq free
    BY ConstantFacts DEF Tid, TID_NULL, TID_KCD
  <2>. QED BY <2>1, <2>2
<1>3. pool \in Injection(1..Len(pool), free)
  <2>1. pool \in [1..Len(pool) -> free]
    BY <1>1, <1>2, SeqDef
  <2>. QED BY <2>1 DEF Injection, PoolIs
<1>4. IsFiniteSet(free) /\ Cardinality(free) = MAX_TASKS - 2
  <2>1. 1 \in Int /\ MAX_TASKS - 2 \in Int /\ ~(1 > MAX_TASKS - 2)
    BY ConstantFacts
  <2>2. /\ IsFiniteSet(free)
        /\ Cardinality(free) = IF 1 > MAX_TASKS - 2 THEN 0 ELSE MAX_TASKS - 2 - 1 + 1
    BY <2>1, FS_Interval
  <2>. QED BY <2>1, <2>2
<1>5. Cardinality(1..Len(pool)) = Len(pool)
  <2>1. IsFiniteSet(1..Len(pool)) /\ Cardinality(1..Len(pool)) =
           IF 1 > Len(pool) THEN 0 ELSE Len(pool) - 1 + 1
    BY <1>1, FS_Interval
  <2>. QED BY <1>1, <2>1
<1>6. Cardinality(1..Len(pool)) <= Cardinality(free)
  BY <1>3, <1>4, FS_Injection
<1>. QED BY <1>4, <1>5, <1>6

(* The TID for a new task is a DORMANT task's, and leaves the pool. *)
LEMMA TakeTid ==
  ASSUME SchedInv, NEW entry,
         entry = "kcd_task" => g_tcbs[TID_KCD].state = "DORMANT",
         entry = "kcd_task" \/ available_tid_queue # << >>,
         NEW s, \A t \in Tid \ {TidFor(entry)} : s[t].state = g_tcbs[t].state,
         s[TidFor(entry)].state = "READY"
  PROVE  /\ TidFor(entry) \in Tid \ {TID_NULL}
         /\ g_tcbs[TidFor(entry)].state = "DORMANT"
         /\ PoolIs(PoolWithout(entry), Dormant(s))
         /\ Len(PoolWithout(entry)) >= Len(available_tid_queue) - 1
         /\ entry = "kcd_task" => PoolWithout(entry) = available_tid_queue
         /\ entry # "kcd_task" => TidFor(entry) # TID_KCD
<1> DEFINE pool == available_tid_queue
           t == TidFor(entry)
<1>0. pool \in Seq(Tid) /\ PoolIs(pool, Dormant(g_tcbs)) /\ Len(pool) \in Nat
  BY InvParts, LenProperties DEF TypeOK
<1>1. CASE entry = "kcd_task"
  <2>1. t = TID_KCD /\ PoolWithout(entry) = pool
    BY <1>1 DEF TidFor, PoolWithout
  <2>2. Dormant(s) = Dormant(g_tcbs)
    BY <2>1 DEF Dormant
  <2>. QED BY <1>0, <1>1, <2>1, <2>2, ConstantFacts
<1>2. CASE entry # "kcd_task"
  <2>1. pool # << >> /\ t = Head(pool) /\ PoolWithout(entry) = Tail(pool)
    BY <1>2 DEF TidFor, get_next_tid, PoolWithout
  <2>2. /\ t \in Dormant(g_tcbs)
        /\ IsInjective(Tail(pool)) /\ ToSet(Tail(pool)) = Dormant(g_tcbs) \ {t}
    BY <1>0, <2>1, TailSet DEF PoolIs
  <2>3. Len(Tail(pool)) = Len(pool) - 1
    BY <1>0, <2>1, HeadTailProperties
  <2>4. Dormant(s) = Dormant(g_tcbs) \ {t}
    BY <2>2 DEF Dormant
  <2>5. PoolIs(PoolWithout(entry), Dormant(s))
    BY <2>1, <2>2, <2>4 DEF PoolIs
  <2>6. t \in Tid \ {TID_NULL, TID_KCD} /\ g_tcbs[t].state = "DORMANT"
    BY <2>2 DEF Dormant
  <2>7. Len(PoolWithout(entry)) >= Len(pool) - 1
    BY <1>0, <2>1, <2>3
  <2>. QED BY <1>2, <2>5, <2>6, <2>7
<1>. QED BY <1>1, <1>2

(* The TID of a task that exits returns to the pool, the KCD task's does not. *)
LEMMA ReturnTid ==
  ASSUME SchedInv, NEW t \in Tid \ {TID_NULL}, g_tcbs[t].state # "DORMANT",
         NEW s, \A u \in Tid \ {t} : s[u].state = g_tcbs[u].state, s[t].state = "DORMANT"
  PROVE  PoolIs(add_tid(t), Dormant(s))
<1> DEFINE pool == available_tid_queue
<1>0. pool \in Seq(Tid) /\ PoolIs(pool, Dormant(g_tcbs)) /\ Len(pool) \in Nat
  BY InvParts, LenProperties DEF TypeOK
<1>1. CASE t = TID_KCD
  <2>1. Dormant(s) = Dormant(g_tcbs)
    BY <1>1 DEF Dormant
  <2>. QED BY <1>0, <1>1, <2>1 DEF add_tid
<1>2. CASE t # TID_KCD
  <2>1. Len(pool) <= MAX_TASKS - 2
    BY <1>0, PoolRoom
  <2>2. add_tid(t) = Append(pool, t)
    BY <1>0, <1>2, <2>1, ConstantFacts DEF add_tid
  <2>3. t \notin ToSet(pool)
    BY <1>0 DEF PoolIs, Dormant
  <2>4. IsInjective(Append(pool, t)) /\ ToSet(Append(pool, t)) = ToSet(pool) \cup {t}
    BY <1>0, <2>3, AppendSet DEF PoolIs
  <2>5. Dormant(s) = Dormant(g_tcbs) \cup {t}
    BY <1>2 DEF Dormant
  <2>. QED BY <1>0, <2>2, <2>4, <2>5 DEF PoolIs
<1>. QED BY <1>1, <1>2

-----------------------------------------------------------------------------
(* The calls, one lemma each. *)

LEMMA StateChange ==
  ASSUME g_tcbs \in [Tid -> Tcb], NEW t \in Tid, NEW st \in State
  PROVE  LET s == [g_tcbs EXCEPT ![t].state = st]
         IN  /\ s \in [Tid -> Tcb] /\ \A u \in Tid \ {t} : s[u] = g_tcbs[u]
             /\ s[t].state = st /\ s[t].entry = g_tcbs[t].entry /\ s[t].prio = g_tcbs[t].prio
<1> DEFINE s == [g_tcbs EXCEPT ![t].state = st]
<1>1. s \in [Tid -> Tcb]
  BY TcbType
<1>2. \A u \in Tid \ {t} : s[u] = g_tcbs[u]
  OBVIOUS
<1>3. s[t].state = st /\ s[t].entry = g_tcbs[t].entry /\ s[t].prio = g_tcbs[t].prio
  BY DEF Tcb
<1>. QED BY <1>1, <1>2, <1>3

(* Calls the kernel does not mishandle. *)
Creatable(entry) ==
  /\ entry = "kcd_task" => g_tcbs[TID_KCD].state = "DORMANT"
  /\ entry = "kcd_task" \/ available_tid_queue # << >>

Settable(t, p) ==
  /\ t = gp_current_task => p >= rq.highest_priority
  /\ t # gp_current_task /\ g_tcbs[t].state # "BLK_MSG" =>
       LinkedAt(rq, g_tcbs[t].prio, t) /\ ~Drains(t, p)

CarefulNext ==
  \/ k_tsk_init
  \/ k_tsk_yield
  \/ \E entry \in {"kcd_task", "user"}, p \in UserPrio : Creatable(entry) /\ k_tsk_create(entry, p)
  \/ k_tsk_exit
  \/ \E t \in Tid, p \in UserPrio : Settable(t, p) /\ k_tsk_set_prio(t, p)
  \/ k_recv_msg
  \/ \E t \in Tid : k_send_msg(t)
  \/ c_IRQ_Handler

LEMMA CreatableWhenUsedWell ==
  ASSUME WellUsed, NEW entry \in {"kcd_task", "user"}, NEW p \in UserPrio, k_tsk_create(entry, p)
  PROVE  Creatable(entry)
BY DEF k_tsk_create, WellUsed, Defects, Creatable

LEMMA SettableWhenUsedWell ==
  ASSUME SchedInv, WellUsed, NEW t \in Tid, NEW p \in UserPrio, k_tsk_set_prio(t, p)
  PROVE  Settable(t, p)
<1>0. /\ gp_current_task # TID_NULL /\ g_tcbs[gp_current_task].state = "RUNNING"
  BY InvParts DEF k_tsk_set_prio, SetPrioBlocked, SetPrioLowerSelf, SetPrioRaiseSelf,
                  SetPrioReady, SetPrioUnlinked, MaySetPrio, TaskRuns, Apart
<1>1. ~SetPrioRaiseSelf(p) /\ ~SetPrioUnlinked(t)
  BY DEF SetPrioRaiseSelf, SetPrioUnlinked, WellUsed, Defects
<1>2. CASE SetPrioBlocked(t, p)
  BY <1>0, <1>2 DEF SetPrioBlocked, Settable
<1>3. CASE t = gp_current_task /\ SetPrioLowerSelf(p)
  BY <1>3 DEF SetPrioLowerSelf, Settable
<1>4. CASE SetPrioReady(t, p)
  BY <1>4 DEF SetPrioReady, Settable, WellUsed, Defects
<1>. QED BY <1>1, <1>2, <1>3, <1>4 DEF k_tsk_set_prio

LEMMA SettableKinds ==
  ASSUME SchedInv, NEW t \in Tid, NEW p \in UserPrio, Settable(t, p)
  PROVE  (t = gp_current_task => ~SetPrioRaiseSelf(p)) /\ ~SetPrioUnlinked(t)
<1>1. rq.highest_priority \in Nat /\ p \in Nat
  BY ConstantFacts, InvParts DEF Queued, ReadyQueues, UserPrio, Prio
<1>. QED BY <1>1 DEF SetPrioRaiseSelf, SetPrioUnlinked, Settable

LEMMA CarefulWhenUsedWell ==
  ASSUME SchedInv, WellUsed, Next
  PROVE  CarefulNext
BY CreatableWhenUsedWell, SettableWhenUsedWell DEF Next, CarefulNext

LEMMA CreateHands ==
  ASSUME SchedInv, NEW entry \in {"kcd_task", "user"}, NEW p \in UserPrio,
         Creatable(entry), k_tsk_create(entry, p)
  PROVE  \E t \in Tid \ ReadyIn(g_tcbs) : \E s : Hands(s, insert_into_tasks(rq, p, t))
<1> DEFINE t == TidFor(entry)
           s == [g_tcbs EXCEPT ![t] = NewTcb(entry, p, FALSE)]
           q == insert_into_tasks(rq, p, t)
           R == ReadyIn(g_tcbs)
<1>0. /\ gp_current_task # TID_NULL /\ gp_current_task \in Tid
      /\ g_tcbs \in [Tid -> Tcb] /\ Prepared(g_tcbs, rq) /\ Queued(g_tcbs, rq) /\ Apart(g_tcbs)
      /\ g_tcbs[gp_current_task].state = "RUNNING"
  <2>1. gp_current_task # TID_NULL
    BY InvParts DEF k_tsk_create, TaskRuns, Apart
  <2>. QED BY <2>1, InvParts DEF Queued
<1>1. /\ entry = "kcd_task" => g_tcbs[TID_KCD].state = "DORMANT"
      /\ entry = "kcd_task" \/ available_tid_queue # << >>
  BY DEF Creatable
<1>2. t \in Tid /\ NewTcb(entry, p, FALSE) \in Tcb
  BY InvParts, PoolType, NewTcbType
<1>3. /\ s \in [Tid -> Tcb] /\ s[t] = NewTcb(entry, p, FALSE)
      /\ \A u \in Tid \ {t} : s[u] = g_tcbs[u]
      /\ s[t].prio = p /\ s[t].state = "READY" /\ s[t].entry = entry
  BY <1>0, <1>2 DEF NewTcb
<1>. HIDE DEF s
<1>4. /\ t # TID_NULL /\ g_tcbs[t].state = "DORMANT"
      /\ PoolIs(PoolWithout(entry), Dormant(s))
  BY <1>1, <1>3, TakeTid
<1>5. Queued(s, q)
  <2>1. ReadyIn(s) = R \cup {t} /\ t \in Tid \ R
    BY <1>2, <1>3, <1>4 DEF ReadyIn
  <2>2. \A u \in R : s[u].prio = PriosIn(g_tcbs)[u] /\ u \in Tid
    BY <1>3, <2>1 DEF ReadyIn, PriosIn
  <2>3. /\ rq \in ReadyQueues(Tid) /\ Links(rq, R, PriosIn(g_tcbs)) /\ TopExact(rq)
        /\ rq.highest_priority \in Levels(rq)
    <3>1. TID_NULL \in R /\ PriosIn(g_tcbs)[TID_NULL] \in Prio
      BY <1>0, ConstantFacts DEF Prepared, ReadyIn, PriosIn, Tcb
    <3>. QED BY <1>0, <3>1, LinkedLevel DEF Queued
  <2>. QED BY <1>3, <2>1, <2>2, <2>3, InsertQueued, ZenonT(40)
<1>6. Prepared(s, q)
  <2>1. Apart(s)
    BY <1>0, <1>3, <1>4, ConstantFacts DEF Apart
  <2>2. s[TID_NULL] = g_tcbs[TID_NULL] /\ s[gp_current_task] = g_tcbs[gp_current_task]
    BY <1>0, <1>3, <1>4, ConstantFacts
  <2>3. \A u \in Tid : s[u].state = "RUNNING" => u = gp_current_task
    BY <1>0, <1>3 DEF Prepared
  <2>. QED BY <1>0, <1>5, <2>1, <2>2, <2>3 DEF Prepared
<1>7. /\ k_tsk_run_new(s, q, yield_flag) /\ booted' = booted
      /\ PoolIs(available_tid_queue', Dormant(s)) /\ yield_flag \in BOOLEAN
  BY <1>4, InvParts DEF k_tsk_create, s, TypeOK
<1>8. t \in Tid \ R
  BY <1>2, <1>4 DEF ReadyIn
<1>. QED BY <1>0, <1>6, <1>7, <1>8 DEF Hands

(* The caller's own TCB changes: it exits, blocks or changes its level. *)
LEMMA OwnTcb ==
  ASSUME SchedInv, gp_current_task # TID_NULL,
         NEW s \in [Tid -> Tcb], \A u \in Tid \ {gp_current_task} : s[u] = g_tcbs[u],
         s[gp_current_task].state # "READY",
         s[gp_current_task].entry = g_tcbs[gp_current_task].entry,
         s[gp_current_task].prio \in UserPrio \cup {g_tcbs[gp_current_task].prio}
  PROVE  Prepared(s, rq)
<1> DEFINE me == gp_current_task
<1>0. /\ me \in Tid /\ Queued(g_tcbs, rq) /\ Apart(g_tcbs) /\ Prepared(g_tcbs, rq)
      /\ g_tcbs[me].state = "RUNNING"
  BY InvParts
<1>1. ReadyIn(s) = ReadyIn(g_tcbs)
  BY <1>0 DEF ReadyIn
<1>2. Links(rq, ReadyIn(s), PriosIn(s))
  <2>1. \A t \in ReadyIn(s) : PriosIn(s)[t] = PriosIn(g_tcbs)[t]
    BY <1>0 DEF ReadyIn, PriosIn
  <2>. QED BY <1>0, <1>1, <2>1, LinksPrios DEF Queued
<1>3. Queued(s, rq)
  BY <1>0, <1>2 DEF Queued
<1>4. Apart(s)
  <2>1. g_tcbs[me].prio \in UserPrio
    BY <1>0 DEF Apart
  <2>. QED BY <1>0, <2>1, ConstantFacts DEF Apart
<1>5. s[TID_NULL].state = "READY"
  BY <1>0, ConstantFacts DEF Prepared
<1>6. \A t \in Tid : s[t].state = "RUNNING" => t = me
  BY <1>0 DEF Prepared
<1>. QED BY <1>3, <1>4, <1>5, <1>6 DEF Prepared

LEMMA ExitHands ==
  ASSUME SchedInv, k_tsk_exit
  PROVE  \E s : Hands(s, rq)
<1> DEFINE me == gp_current_task
           s  == [g_tcbs EXCEPT ![me].state = "DORMANT"]
<1>0. /\ me \in Tid \ {TID_NULL} /\ g_tcbs \in [Tid -> Tcb]
      /\ g_tcbs[me].state = "RUNNING"
  BY InvParts DEF k_tsk_exit, TaskRuns, Apart, TypeOK
<1>1. /\ s \in [Tid -> Tcb] /\ \A u \in Tid \ {me} : s[u] = g_tcbs[u]
      /\ s[me].state = "DORMANT" /\ s[me].entry = g_tcbs[me].entry
      /\ s[me].prio = g_tcbs[me].prio
  BY <1>0, StateChange DEF State
<1>. HIDE DEF s
<1>2. Prepared(s, rq)
  BY <1>0, <1>1, OwnTcb
<1>3. PoolIs(add_tid(me), Dormant(s))
  <2>1. \A u \in Tid \ {me} : s[u].state = g_tcbs[u].state
    BY <1>1
  <2>. QED BY <1>0, <1>1, <2>1, ReturnTid
<1>4. /\ k_tsk_run_new(s, rq, yield_flag) /\ booted' = booted
      /\ available_tid_queue' = add_tid(me) /\ yield_flag \in BOOLEAN
  BY InvParts DEF k_tsk_exit, s, TypeOK
<1>. QED BY <1>0, <1>2, <1>3, <1>4 DEF Hands

LEMMA RecvHands ==
  ASSUME SchedInv, k_recv_msg
  PROVE  \E s : Hands(s, rq)
<1> DEFINE me == gp_current_task
           s  == [g_tcbs EXCEPT ![me].state = "BLK_MSG"]
<1>0. /\ me \in Tid \ {TID_NULL} /\ g_tcbs \in [Tid -> Tcb]
      /\ g_tcbs[me].state = "RUNNING"
  BY InvParts DEF k_recv_msg, TaskRuns, Apart, TypeOK
<1>1. /\ s \in [Tid -> Tcb] /\ \A u \in Tid \ {me} : s[u] = g_tcbs[u]
      /\ s[me].state = "BLK_MSG" /\ s[me].entry = g_tcbs[me].entry
      /\ s[me].prio = g_tcbs[me].prio
  BY <1>0, StateChange DEF State
<1>. HIDE DEF s
<1>2. Prepared(s, rq)
  BY <1>0, <1>1, OwnTcb
<1>3. Dormant(s) = Dormant(g_tcbs)
  BY <1>0, <1>1 DEF Dormant
<1>4. /\ k_tsk_run_new(s, rq, yield_flag) /\ booted' = booted
      /\ PoolIs(available_tid_queue', Dormant(s)) /\ yield_flag \in BOOLEAN
  BY <1>3, InvParts DEF k_recv_msg, s, TypeOK
<1>. QED BY <1>0, <1>2, <1>4 DEF Hands

LEMMA SendHands ==
  ASSUME SchedInv, NEW t \in Tid, k_send_msg(t)
  PROVE  /\ t \notin ReadyIn(g_tcbs) /\ g_tcbs[t].prio \in Prio
         /\ \E s : Hands(s, insert_into_tasks(rq, g_tcbs[t].prio, t))
<1> DEFINE me == gp_current_task
           s  == [g_tcbs EXCEPT ![t].state = "READY"]
           p  == g_tcbs[t].prio
           q  == insert_into_tasks(rq, p, t)
           R  == ReadyIn(g_tcbs)
<1>0. /\ me \in Tid \ {TID_NULL} /\ g_tcbs \in [Tid -> Tcb]
      /\ g_tcbs[me].state = "RUNNING" /\ g_tcbs[TID_NULL].state = "READY"
      /\ g_tcbs[t].state = "BLK_MSG" /\ t # me /\ t # TID_NULL
      /\ Prepared(g_tcbs, rq) /\ Queued(g_tcbs, rq) /\ Apart(g_tcbs)
  <2>1. me \in Tid \ {TID_NULL} /\ g_tcbs[t].state = "BLK_MSG"
    BY InvParts DEF k_send_msg, TaskRuns, Apart
  <2>2. g_tcbs[me].state = "RUNNING" /\ g_tcbs[TID_NULL].state = "READY"
    BY <2>1, InvParts
  <2>. QED BY <2>1, <2>2, InvParts DEF TypeOK
<1>1. /\ s \in [Tid -> Tcb] /\ \A u \in Tid \ {t} : s[u] = g_tcbs[u]
      /\ s[t].state = "READY" /\ s[t].entry = g_tcbs[t].entry /\ s[t].prio = p
  BY <1>0, StateChange DEF State
<1>. HIDE DEF s
<1>2. Queued(s, q)
  <2>1. ReadyIn(s) = R \cup {t} /\ t \in Tid \ R
    BY <1>0, <1>1 DEF ReadyIn
  <2>2. \A u \in R : s[u].prio = PriosIn(g_tcbs)[u] /\ u \in Tid
    BY <1>1, <2>1 DEF ReadyIn, PriosIn
  <2>3. /\ rq \in ReadyQueues(Tid) /\ Links(rq, R, PriosIn(g_tcbs)) /\ TopExact(rq)
        /\ rq.highest_priority \in Levels(rq)
    <3>1. TID_NULL \in R /\ PriosIn(g_tcbs)[TID_NULL] \in Prio
      BY <1>0, ConstantFacts DEF ReadyIn, PriosIn, Tcb
    <3>. QED BY <1>0, <3>1, LinkedLevel DEF Queued
  <2>. QED BY <1>1, <2>1, <2>2, <2>3, InsertQueued
<1>3. Apart(s)
  BY <1>0, <1>1, ConstantFacts DEF Apart
<1>4. Prepared(s, q)
  <2>1. \A u \in Tid : s[u].state = "RUNNING" => u = me
    BY <1>0, <1>1 DEF Prepared
  <2>. QED BY <1>0, <1>1, <1>2, <1>3, <2>1, ConstantFacts DEF Prepared
<1>5. Dormant(s) = Dormant(g_tcbs)
  BY <1>0, <1>1 DEF Dormant
<1>6. /\ k_tsk_run_new(s, q, yield_flag) /\ booted' = booted
      /\ PoolIs(available_tid_queue', Dormant(s)) /\ yield_flag \in BOOLEAN
  BY <1>5, InvParts DEF k_send_msg, s, TypeOK
<1>7. t \notin R /\ p \in Prio
  BY <1>0 DEF ReadyIn, Tcb
<1>. QED BY <1>0, <1>4, <1>6, <1>7 DEF Hands

LEMMA SetPrioBlockedSafe ==
  ASSUME SchedInv, TypeOK', NEW t \in Tid, NEW p \in UserPrio, SetPrioBlocked(t, p)
  PROVE  SchedInv'
<1>0. /\ gp_current_task \in Tid \ {TID_NULL} /\ g_tcbs \in [Tid -> Tcb]
      /\ Prepared(g_tcbs, rq) /\ Queued(g_tcbs, rq) /\ Apart(g_tcbs)
      /\ g_tcbs[gp_current_task].state = "RUNNING" /\ g_tcbs[TID_NULL].state = "READY"
      /\ g_tcbs[gp_current_task].prio <= rq.highest_priority
      /\ booted = Len(BootTasks) /\ ~wild
      /\ PoolIs(available_tid_queue, Dormant(g_tcbs))
  <2>1. gp_current_task # TID_NULL
    BY InvParts DEF SetPrioBlocked, MaySetPrio, TaskRuns, Apart
  <2>2. g_tcbs[gp_current_task].prio <= rq.highest_priority /\ ~wild
    BY <2>1 DEF SchedInv, TaskCurrent, PrioOf
  <2>. QED BY <2>1, <2>2, InvParts DEF TypeOK
<1>1. /\ t # TID_NULL /\ g_tcbs[t].state = "BLK_MSG" /\ t # gp_current_task
      /\ g_tcbs' = [g_tcbs EXCEPT ![t].prio = p]
      /\ UNCHANGED << gp_current_task, rq, available_tid_queue, booted, wild >>
  BY <1>0 DEF SetPrioBlocked, MaySetPrio
<1>2. /\ g_tcbs' \in [Tid -> Tcb] /\ \A u \in Tid \ {t} : g_tcbs'[u] = g_tcbs[u]
      /\ g_tcbs'[t].state = "BLK_MSG" /\ g_tcbs'[t].entry = g_tcbs[t].entry
      /\ g_tcbs'[t].prio = p
  <2>1. g_tcbs' \in [Tid -> Tcb]
    BY <1>0, <1>1, TcbType
  <2>. QED BY <1>0, <1>1, <2>1 DEF Tcb
<1>3. Queued(g_tcbs', rq')
  <2>1. ReadyIn(g_tcbs') = ReadyIn(g_tcbs)
    BY <1>1, <1>2 DEF ReadyIn
  <2>2. \A u \in ReadyIn(g_tcbs) : PriosIn(g_tcbs')[u] = PriosIn(g_tcbs)[u]
    BY <1>1, <1>2 DEF ReadyIn, PriosIn
  <2>3. Links(rq, ReadyIn(g_tcbs'), PriosIn(g_tcbs'))
    BY <1>0, <2>1, <2>2, LinksPrios DEF Queued
  <2>. QED BY <1>0, <1>1, <1>2, <2>3 DEF Queued
<1>4. Apart(g_tcbs')
  BY <1>0, <1>1, <1>2, ConstantFacts DEF Apart
<1>5. Switched'
  <2>1. g_tcbs'[gp_current_task] = g_tcbs[gp_current_task] /\ g_tcbs'[TID_NULL] = g_tcbs[TID_NULL]
    BY <1>0, <1>1, <1>2, ConstantFacts
  <2>2. \A u \in Tid : g_tcbs'[u].state = "RUNNING" => u = gp_current_task
    BY <1>0, <1>2 DEF Prepared
  <2>3. gp_current_task' \in Tid /\ gp_current_task' # TID_NULL /\ ~wild'
    BY <1>0, <1>1
  <2>. QED BY <1>0, <1>1, <1>3, <1>4, <2>1, <2>2, <2>3 DEF Switched, Queued, Apart
<1>6. Dormant(g_tcbs') = Dormant(g_tcbs)
  BY <1>1, <1>2 DEF Dormant
<1>. QED BY <1>0, <1>1, <1>5, <1>6, InvAfter

LEMMA LowerSelfHands ==
  ASSUME SchedInv, NEW p \in UserPrio, SetPrioLowerSelf(p)
  PROVE  \E s : Hands(s, rq)
<1> DEFINE me == gp_current_task
           s  == [g_tcbs EXCEPT ![me].prio = p]
<1>0. /\ me \in Tid \ {TID_NULL} /\ g_tcbs \in [Tid -> Tcb]
      /\ g_tcbs[me].state = "RUNNING"
  BY InvParts DEF SetPrioLowerSelf, MaySetPrio, TaskRuns, Apart, TypeOK
<1>1. /\ s \in [Tid -> Tcb] /\ \A u \in Tid \ {me} : s[u] = g_tcbs[u]
      /\ s[me].state = "RUNNING" /\ s[me].entry = g_tcbs[me].entry /\ s[me].prio = p
  <2>1. s \in [Tid -> Tcb]
    BY <1>0, TcbType
  <2>. QED BY <1>0, <2>1 DEF Tcb
<1>. HIDE DEF s
<1>2. Prepared(s, rq)
  BY <1>0, <1>1, OwnTcb
<1>3. Dormant(s) = Dormant(g_tcbs)
  BY <1>0, <1>1 DEF Dormant
<1>4. /\ k_tsk_run_new(s, rq, TRUE) /\ booted' = booted
      /\ PoolIs(available_tid_queue', Dormant(s))
  BY <1>3, InvParts DEF SetPrioLowerSelf, s
<1>. QED BY <1>0, <1>2, <1>4 DEF Hands

(* A READY task moves to the tail of its new level.  drain_top is the case *)
(* in which highest_priority would name the list it has left empty.        *)
LEMMA SetPrioReadyHands ==
  ASSUME SchedInv, NEW t \in Tid, NEW p \in UserPrio, SetPrioReady(t, p), ~Drains(t, p)
  PROVE  LET l == g_tcbs[t].prio
             s == [g_tcbs EXCEPT ![t].prio = p, ![t].state = "READY"]
         IN  /\ l \in Prio /\ LinkedAt(rq, l, t) /\ remove_node(rq, l, t) \in ReadyQueues(Tid)
             /\ s[t].prio = p
             /\ Hands(s, insert_into_tasks(remove_node(rq, l, t), p, t))
<1> DEFINE me == gp_current_task
           l == g_tcbs[t].prio
           s == [g_tcbs EXCEPT ![t].prio = p, ![t].state = "READY"]
           z == remove_node(rq, l, t)
           q == insert_into_tasks(z, p, t)
           R == ReadyIn(g_tcbs)
<1>0. /\ me \in Tid \ {TID_NULL} /\ g_tcbs \in [Tid -> Tcb]
      /\ g_tcbs[me].state = "RUNNING" /\ g_tcbs[TID_NULL].state = "READY"
      /\ rq \in ReadyQueues(Tid) /\ Links(rq, R, PriosIn(g_tcbs)) /\ TopExact(rq)
      /\ Prepared(g_tcbs, rq) /\ Apart(g_tcbs)
  <2>1. me \in Tid \ {TID_NULL}
    BY InvParts DEF SetPrioReady, MaySetPrio, TaskRuns, Apart
  <2>. QED BY <2>1, InvParts DEF Queued
<1>1. /\ t # TID_NULL /\ t # me /\ LinkedAt(rq, l, t) /\ ~Drains(t, p)
      /\ k_tsk_run_new(s, q, yield_flag)
      /\ UNCHANGED << available_tid_queue, booted >>
  BY DEF SetPrioReady, MaySetPrio
<1>2. l \in Prio /\ p \in Prio /\ t \in R /\ PriosIn(g_tcbs)[t] = l
  <2>1. l \in Prio /\ p \in Prio
    BY <1>0, ConstantFacts DEF Tcb
  <2>. QED BY <1>0, <1>1, <2>1 DEF LinkedAt, Links, PriosIn
<1>3. /\ s \in [Tid -> Tcb] /\ \A u \in Tid \ {t} : s[u] = g_tcbs[u]
      /\ s[t].state = "READY" /\ s[t].entry = g_tcbs[t].entry /\ s[t].prio = p
  <2>1. s \in [Tid -> Tcb]
    BY <1>0, TcbType
  <2>. QED BY <1>0, <2>1 DEF Tcb
<1>. HIDE DEF s
<1>4. /\ Links(z, R \ {t}, PriosIn(g_tcbs)) /\ z \in ReadyQueues(Tid)
      /\ z.highest_priority = rq.highest_priority
      /\ Len(z.tasks[l]) = Len(rq.tasks[l]) - 1
      /\ \A m \in Prio : m # l => z.tasks[m] = rq.tasks[m]
  <2>1. z \in ReadyQueues(Tid)
    BY <1>0, <1>1, <1>2, RemoveNodeType
  <2>2. /\ Links(z, R \ {t}, PriosIn(g_tcbs))
        /\ z.highest_priority = rq.highest_priority
        /\ Len(z.tasks[l]) = Len(rq.tasks[l]) - 1
        /\ \A m \in Prio : m # l => z.tasks[m] = rq.tasks[m]
    <3>. HIDE DEF l, R
    <3>1. Links(z, R \ {t}, PriosIn(g_tcbs))
      BY <1>0, <1>2, RemoveLinks
    <3>2. LinkedAt(rq, l, t)
      BY <1>1 DEF l
    <3>. QED BY <1>0, <1>2, <3>1, <3>2, RemoveKeeps
  <2>. QED BY <2>1, <2>2
<1>5. \A m \in Levels(z) : m \in Levels(rq)
  <2>. SUFFICES ASSUME NEW m \in Levels(z) PROVE m \in Levels(rq)
    OBVIOUS
  <2>1. m \in Prio /\ z.tasks[m] # << >>
    BY DEF Levels
  <2>2. CASE m # l
    BY <1>4, <2>1, <2>2 DEF Levels
  <2>3. CASE m = l
    BY <1>0, <1>2, <2>3, LinkedLevel
  <2>. QED BY <2>2, <2>3
<1>6. z.highest_priority \in Levels(z) \/ p <= z.highest_priority
  <2> DEFINE h == rq.highest_priority
  <2>1. h \in Prio /\ h \in Levels(rq)
    BY <1>0, <1>2, LinkedLevel DEF ReadyQueues
  <2>2. CASE h # l
    BY <1>4, <2>1, <2>2 DEF Levels
  <2>3. CASE h = l /\ ~(l < p)
    <3>1. l \in Nat /\ p \in Nat
      BY <1>2, ConstantFacts
    <3>2. p <= l
      BY <2>3, <3>1
    <3>. QED BY <1>4, <2>3, <3>2
  <2>4. CASE h = l /\ l < p
    <3>1. Len(rq.tasks[l]) # 1
      BY <1>1, <2>4 DEF Drains
    <3>2. Len(z.tasks[l]) # 0
      <4>1. Len(rq.tasks[l]) \in Nat
        BY <1>0, <1>2, LenProperties DEF ReadyQueues
      <4>. QED BY <1>4, <3>1, <4>1
    <3>3. z.tasks[l] # << >>
      BY <3>2, EmptySeq
    <3>. QED BY <1>2, <1>4, <2>4, <3>3 DEF Levels
  <2>. QED BY <2>2, <2>3, <2>4
<1>7. Links(q, R, PriosIn(s))
  <2>1. \A u \in R \ {t} : PriosIn(s)[u] = PriosIn(g_tcbs)[u]
    BY <1>3 DEF ReadyIn, PriosIn
  <2>2. Links(z, R \ {t}, PriosIn(s))
    BY <1>4, <2>1, LinksPrios
  <2>3. PriosIn(s)[t] = p /\ t \in Tid \ (R \ {t})
    BY <1>3 DEF PriosIn
  <2>4. Links(q, (R \ {t}) \cup {t}, PriosIn(s))
    BY <1>2, <1>4, <2>2, <2>3, InsertLinks
  <2>5. (R \ {t}) \cup {t} = R
    BY <1>2
  <2>. QED BY <2>4, <2>5
<1>8. TopExact(q)
  <2>1. \A m \in Levels(z) : z.highest_priority <= m
    BY <1>0, <1>4, <1>5 DEF TopExact
  <2>. QED BY <1>2, <1>4, <1>6, <2>1, InsertTop
<1>9. Queued(s, q)
  <2>1. ReadyIn(s) = R
    BY <1>2, <1>3 DEF ReadyIn
  <2>2. q \in ReadyQueues(Tid)
    BY <1>2, <1>4, InsertType
  <2>. QED BY <1>3, <1>7, <1>8, <2>1, <2>2 DEF Queued
<1>10. Apart(s)
  BY <1>0, <1>1, <1>3, ConstantFacts DEF Apart
<1>11. Prepared(s, q)
  <2>1. \A u \in Tid : s[u].state = "RUNNING" => u = me
    BY <1>0, <1>3 DEF Prepared
  <2>. QED BY <1>0, <1>1, <1>3, <1>9, <1>10, <2>1, ConstantFacts DEF Prepared
<1>12. Dormant(s) = Dormant(g_tcbs)
  BY <1>2, <1>3 DEF Dormant, ReadyIn
<1>13. /\ k_tsk_run_new(s, q, yield_flag) /\ booted' = booted
       /\ PoolIs(available_tid_queue', Dormant(s)) /\ yield_flag \in BOOLEAN
  BY <1>1, <1>12, InvParts DEF s, TypeOK
<1>14. Hands(s, q)
  BY <1>0, <1>11, <1>13 DEF Hands
<1>. QED BY <1>1, <1>2, <1>3, <1>4, <1>14 DEF s

LEMMA SetPrioSafe ==
  ASSUME SchedInv, TypeOK', NEW t \in Tid, NEW p \in UserPrio,
         Settable(t, p), k_tsk_set_prio(t, p)
  PROVE  SchedInv'
<1>1. (t = gp_current_task => ~SetPrioRaiseSelf(p)) /\ ~SetPrioUnlinked(t)
  BY SettableKinds
<1>2. CASE SetPrioLowerSelf(p)
  BY <1>2, LowerSelfHands, CallSafe
<1>3. CASE SetPrioReady(t, p)
  BY <1>3, SetPrioReadyHands, CallSafe DEF SetPrioReady, Settable
<1>. QED BY <1>1, <1>2, <1>3, SetPrioBlockedSafe DEF k_tsk_set_prio

-----------------------------------------------------------------------------
(* k_tsk_init: the pool never runs dry, so no boot task gets TID 0. *)

LEMMA BootTidLeft ==
  ASSUME SchedInv, booted < Len(BootTasks), NEW entry, entry = BootTasks[booted + 1].entry
  PROVE  /\ entry = "kcd_task" => g_tcbs[TID_KCD].state = "DORMANT"
         /\ entry = "kcd_task" \/ available_tid_queue # << >>
<1> DEFINE k == booted + 1
           pool == available_tid_queue
<1>0. /\ BootRoom /\ booted \in Nat /\ Len(BootTasks) \in Nat /\ Len(pool) \in Nat
      /\ DOMAIN BootTasks = 1..Len(BootTasks) /\ k \in DOMAIN BootTasks /\ k \notin 1..booted
  <2>1. booted \in Nat /\ Len(pool) \in Nat
    BY LenProperties, ConstantFacts DEF SchedInv, TypeOK
  <2>2. DOMAIN BootTasks = 1..Len(BootTasks)
    BY TaskAssumption, LenProperties
  <2>. QED BY <2>1, <2>2, ConstantFacts DEF SchedInv
<1>1. IsKcd(k) <=> entry = "kcd_task"
  BY DEF IsKcd
<1>2. CASE entry = "kcd_task"
  <2>1. ~ \E i \in 1..booted : IsKcd(i)
    BY <1>0, <1>1, <1>2, TaskAssumption
  <2>. QED BY <1>0, <1>2, <2>1 DEF BootRoom
<1>3. CASE entry # "kcd_task"
  <2>1. CASE \E i \in 1..booted : IsKcd(i)
    <3>1. Len(pool) >= MAX_TASKS - 1 - booted
      BY <1>0, <2>1 DEF BootRoom
    <3>2. Len(pool) # 0
      BY <1>0, <3>1, ConstantFacts
    <3>. QED BY <1>3, <3>2, EmptySeq
  <2>2. CASE ~ \E i \in 1..booted : IsKcd(i)
    <3>1. Len(BootTasks) # MAX_TASKS - 1 \/ booted + 1 < Len(BootTasks)
      <4>. SUFFICES ASSUME Len(BootTasks) = MAX_TASKS - 1, ~(k < Len(BootTasks)) PROVE FALSE
        OBVIOUS
      <4>1. PICK i \in DOMAIN BootTasks : IsKcd(i)
        BY TaskAssumption
      <4>2. i # k /\ i \in 1..booted
        BY <1>0, <1>1, <1>3, <4>1
      <4>. QED BY <2>2, <4>1, <4>2
    <3>2. Len(pool) >= MAX_TASKS - 2 - booted
      BY <1>0 DEF BootRoom
    <3>3. Len(pool) # 0
      BY <1>0, <3>1, <3>2, ConstantFacts
    <3>. QED BY <1>3, <3>3, EmptySeq
  <2>. QED BY <2>1, <2>2
<1>. QED BY <1>2, <1>3

(* One boot task more keeps room for the rest. *)
LEMMA BootRoomKept ==
  ASSUME SchedInv, booted < Len(BootTasks), booted' = booted + 1,
         gp_current_task' = gp_current_task,
         NEW entry, entry = BootTasks[booted + 1].entry,
         available_tid_queue' \in Seq(Tid),
         Len(available_tid_queue') >= Len(available_tid_queue) - 1,
         entry = "kcd_task" => available_tid_queue' = available_tid_queue,
         entry # "kcd_task" => g_tcbs'[TID_KCD].state = g_tcbs[TID_KCD].state
  PROVE  BootRoom'
<1> DEFINE k == booted + 1
           pool == available_tid_queue
<1>0. /\ gp_current_task = TID_NULL /\ Len(pool) >= MAX_TASKS - 2 - booted
      /\ ~(\E i \in 1..booted : IsKcd(i)) => g_tcbs[TID_KCD].state = "DORMANT"
      /\ (\E i \in 1..booted : IsKcd(i)) => Len(pool) >= MAX_TASKS - 1 - booted
  BY DEF SchedInv, BootRoom
<1>1. booted \in Nat /\ Len(pool) \in Nat /\ Len(pool') \in Nat /\ MAX_TASKS \in Nat
  BY LenProperties, ConstantFacts DEF SchedInv, TypeOK
<1>2. IsKcd(k) <=> entry = "kcd_task"
  BY DEF IsKcd
<1>3. Len(pool') >= MAX_TASKS - 2 - booted'
  BY <1>0, <1>1
<1>4. ASSUME NEW i \in 1..booted', IsKcd(i)
      PROVE  Len(pool') >= MAX_TASKS - 1 - booted'
  <2>1. CASE i = k
    BY <1>0, <1>1, <1>2, <1>4, <2>1
  <2>2. CASE i # k
    <3>1. i \in 1..booted
      BY <1>1, <1>4, <2>2
    <3>2. Len(pool) >= MAX_TASKS - 1 - booted
      BY <1>0, <1>4, <3>1
    <3>. QED BY <1>1, <3>2
  <2>. QED BY <2>1, <2>2
<1>5. ~(\E i \in 1..booted' : IsKcd(i)) => g_tcbs'[TID_KCD].state = "DORMANT"
  <2>. SUFFICES ASSUME ~ \E i \in 1..booted' : IsKcd(i) PROVE g_tcbs'[TID_KCD].state = "DORMANT"
    OBVIOUS
  <2>1. k \in 1..booted' /\ \A i \in 1..booted : i \in 1..booted'
    BY <1>1
  <2>. QED BY <1>0, <1>2, <2>1
<1>. QED BY <1>0, <1>3, <1>4, <1>5 DEF BootRoom

LEMMA BootSafe ==
  ASSUME SchedInv, TypeOK', k_tsk_init
  PROVE  SchedInv'
<1> DEFINE b == BootTasks[booted + 1]
           entry == b.entry
           t == TidFor(entry)
           R == ReadyIn(g_tcbs)
<1>0. /\ booted \in Nat /\ booted < Len(BootTasks) /\ booted' = booted + 1
      /\ gp_current_task = TID_NULL /\ gp_current_task' = TID_NULL /\ wild' = FALSE
      /\ g_tcbs \in [Tid -> Tcb] /\ b \in BootTask
  <2>1. booted \in Nat /\ booted + 1 \in 1..Len(BootTasks)
    BY ConstantFacts DEF k_tsk_init, SchedInv, TypeOK
  <2>. QED BY <2>1, ConstantFacts DEF k_tsk_init, SchedInv, BootRoom, TypeOK
<1>1. entry \in {"kcd_task", "user"} /\ b.prio \in UserPrio /\ b.priv \in BOOLEAN
  BY <1>0 DEF BootTask
<1>2. /\ rq \in ReadyQueues(Tid) /\ Links(rq, R, PriosIn(g_tcbs)) /\ TopExact(rq)
      /\ Apart(g_tcbs) /\ \A u \in Tid : g_tcbs[u].state = "RUNNING" => u = TID_NULL
  BY <1>0, InvParts DEF Queued
<1>3. /\ g_tcbs[TID_NULL].state = "RUNNING"
      /\ \/ booted = 0 /\ R = {} /\ rq.highest_priority = PRIO_NULL
         \/ booted >= 1 /\ \E a \in R : TRUE
  BY <1>0 DEF SchedInv, NullCurrent, ReadyIn, IsReady
<1>4. /\ g_tcbs' = [g_tcbs EXCEPT ![t] = NewTcb(entry, b.prio, b.priv)]
      /\ rq' = insert_into_tasks(rq, b.prio, t)
      /\ available_tid_queue' = PoolWithout(entry)
  BY DEF k_tsk_init
<1>5. t \in Tid
  BY PoolType DEF SchedInv
<1>. HIDE DEF entry, t
<1>6. /\ g_tcbs' \in [Tid -> Tcb] /\ \A u \in Tid \ {t} : g_tcbs'[u] = g_tcbs[u]
      /\ g_tcbs'[t].state = "READY" /\ g_tcbs'[t].entry = entry /\ g_tcbs'[t].prio = b.prio
  <2>1. g_tcbs' \in [Tid -> Tcb]
    BY DEF TypeOK
  <2>. QED BY <1>0, <1>4, <1>5, <2>1 DEF NewTcb
<1>7. /\ t \in Tid \ {TID_NULL} /\ g_tcbs[t].state = "DORMANT"
      /\ PoolIs(available_tid_queue', Dormant(g_tcbs'))
      /\ Len(available_tid_queue') >= Len(available_tid_queue) - 1
      /\ entry = "kcd_task" => available_tid_queue' = available_tid_queue
      /\ entry # "kcd_task" => t # TID_KCD
  <2>1. /\ entry = "kcd_task" => g_tcbs[TID_KCD].state = "DORMANT"
        /\ entry = "kcd_task" \/ available_tid_queue # << >>
    BY <1>0, BootTidLeft DEF entry
  <2>2. /\ \A u \in Tid \ {TidFor(entry)} : g_tcbs'[u].state = g_tcbs[u].state
        /\ g_tcbs'[TidFor(entry)].state = "READY"
    BY <1>6 DEF t
  <2>. QED BY <1>4, <2>1, <2>2, TakeTid DEF t
<1>8. ReadyIn(g_tcbs') = R \cup {t} /\ t \notin R
  BY <1>6, <1>7 DEF ReadyIn
<1>9. Queued(g_tcbs', rq')
  <2>1. \A u \in R : g_tcbs'[u].prio = PriosIn(g_tcbs)[u] /\ u \in Tid
    BY <1>6, <1>8 DEF ReadyIn, PriosIn
  <2>2. rq.highest_priority \in Levels(rq) \/ g_tcbs'[t].prio <= rq.highest_priority
    <3>1. CASE R = {} /\ rq.highest_priority = PRIO_NULL
      <4>1. b.prio < PRIO_NULL /\ b.prio \in Nat /\ PRIO_NULL \in Nat
        BY <1>1, ConstantFacts
      <4>. QED BY <1>6, <3>1, <4>1
    <3>2. CASE \E a \in R : TRUE
      <4>1. PICK a \in R : TRUE
        BY <3>2
      <4>2. PriosIn(g_tcbs)[a] \in Prio
        BY <1>0, <4>1 DEF PriosIn, ReadyIn, Tcb
      <4>. QED BY <1>2, <4>1, <4>2, LinkedLevel
    <3>. QED BY <1>3, <3>1, <3>2
  <2>3. Queued(g_tcbs', insert_into_tasks(rq, g_tcbs'[t].prio, t))
    BY <1>2, <1>6, <1>7, <1>8, <2>1, <2>2, InsertQueued
  <2>. QED BY <1>4, <1>6, <2>3
<1>10. Apart(g_tcbs')
  BY <1>1, <1>2, <1>6, <1>7, ConstantFacts DEF Apart
<1>11. NullCurrent'
  <2>1. g_tcbs'[TID_NULL].state = "RUNNING"
    BY <1>3, <1>6, <1>7, ConstantFacts
  <2>2. CASE booted = 0 /\ R = {}
    <3>1. booted' = 1 /\ ReadyIn(g_tcbs') = {t}
      BY <1>0, <1>8, <2>2
    <3>. QED BY <2>1, <3>1 DEF NullCurrent, ReadyIn, IsReady
  <2>3. CASE booted >= 1 /\ \E a \in R : TRUE
    <3>1. booted' >= 2
      BY <1>0, <2>3
    <3>2. \E a, c \in ReadyIn(g_tcbs') : a # c
      BY <1>8, <2>3
    <3>. QED BY <2>1, <3>1, <3>2 DEF NullCurrent, ReadyIn, IsReady
  <2>. QED BY <1>3, <2>2, <2>3
<1>12. BootRoom'
  <2>1. available_tid_queue' \in Seq(Tid)
    BY DEF TypeOK
  <2>2. entry # "kcd_task" => g_tcbs'[TID_KCD].state = g_tcbs[TID_KCD].state
    BY <1>6, <1>7, ConstantFacts
  <2>. QED BY <1>0, <1>7, <2>1, <2>2, BootRoomKept DEF entry
<1>13. ReadyListExact' /\ HighestPriorityExact' /\ NullApart' /\ TidPoolExact'
  BY <1>7, <1>9, <1>10
  DEF ReadyListExact, HighestPriorityExact, NullApart, TidPoolExact, Queued, Apart,
      PoolIs, Dormant, ReadyIn, PriosIn, IsReady, PrioOf
<1>14. \A u \in Tid : g_tcbs'[u].state = "RUNNING" => u = gp_current_task'
  BY <1>0, <1>2, <1>6
<1>. QED BY <1>0, <1>11, <1>12, <1>13, <1>14 DEF SchedInv

LEMMA YieldHands ==
  ASSUME SchedInv, k_tsk_yield, gp_current_task # TID_NULL
  PROVE  \E s : Hands(s, rq)
BY InvParts DEF k_tsk_yield, Hands

LEMMA YieldSafe ==
  ASSUME SchedInv, Len(BootTasks) >= 2, TypeOK', k_tsk_yield
  PROVE  SchedInv'
<1>0. /\ k_tsk_run_new(g_tcbs, rq, TRUE) /\ booted = Len(BootTasks) /\ booted' = booted
      /\ available_tid_queue' = available_tid_queue
  BY DEF k_tsk_yield, Up
<1>1. CASE gp_current_task # TID_NULL
  BY <1>1, YieldHands, CallSafe
<1>2. CASE gp_current_task = TID_NULL
  <2>1. Switched' /\ Dormant(g_tcbs') = Dormant(g_tcbs)
    BY <1>0, <1>2, NullSwitch
  <2>2. PoolIs(available_tid_queue', Dormant(g_tcbs'))
    BY <1>0, <2>1, InvParts
  <2>. QED BY <1>0, <2>1, <2>2, InvAfter
<1>. QED BY <1>1, <1>2

LEMMA IrqHands ==
  ASSUME SchedInv, c_IRQ_Handler
  PROVE  \E s : Hands(s, rq)
<1>1. /\ k_tsk_run_new(g_tcbs, rq, yield_flag) /\ booted' = booted
      /\ available_tid_queue' = available_tid_queue
      /\ gp_current_task # TID_NULL /\ yield_flag \in BOOLEAN
  BY InvParts DEF c_IRQ_Handler, TaskRuns, Apart, TypeOK
<1>. QED BY <1>1, InvParts DEF Hands

-----------------------------------------------------------------------------
(* The invariant. *)

LEMMA InvInit ==
  ASSUME Init
  PROVE  SchedInv
<1>1. TypeOK
  BY TypeInit
<1>2. /\ gp_current_task = TID_NULL /\ booted = 0 /\ wild = FALSE /\ rq = EmptyQueue
      /\ g_tcbs[TID_NULL].state = "RUNNING" /\ g_tcbs[TID_NULL].prio = PRIO_NULL
      /\ g_tcbs[TID_NULL].entry = "task_null"
      /\ \A t \in Tid \ {TID_NULL} : g_tcbs[t].state = "DORMANT" /\ g_tcbs[t].entry = "none"
  BY ConstantFacts DEF Init
<1>3. \A t \in Tid : ~IsReady(t)
  BY <1>2 DEF IsReady
<1>4. \A l \in Prio : rq.tasks[l] = << >>
  BY <1>2 DEF EmptyQueue
<1>5. ReadyListExact
  <2>1. \A l \in Prio : IsInjective(rq.tasks[l]) /\ ToSet(rq.tasks[l]) = {}
    BY <1>4, EmptySeq DEF IsInjective, ToSet
  <2>. QED BY <1>3, <2>1 DEF ReadyListExact, Links
<1>6. HighestPriorityExact
  BY <1>4 DEF HighestPriorityExact, TopExact, Levels
<1>7. NullApart
  BY <1>2 DEF NullApart, PrioOf
<1>8. NullCurrent
  BY <1>2, <1>3 DEF NullCurrent, EmptyQueue
<1>9. TidPoolExact
  <2>1. available_tid_queue = [i \in 1..(MAX_TASKS - 2) |-> i]
    BY DEF Init
  <2>2. ToSet(available_tid_queue) = 1..(MAX_TASKS - 2)
    BY <2>1 DEF ToSet
  <2>3. Tid \ {TID_NULL, TID_KCD} = 1..(MAX_TASKS - 2)
    BY ConstantFacts DEF Tid, TID_NULL, TID_KCD
  <2>4. {t \in Tid \ {TID_NULL, TID_KCD} : g_tcbs[t].state = "DORMANT"}
          = Tid \ {TID_NULL, TID_KCD}
    BY <1>2
  <2>5. IsInjective(available_tid_queue)
    BY <2>1 DEF IsInjective
  <2>. QED BY <2>2, <2>3, <2>4, <2>5 DEF TidPoolExact
<1>10. BootRoom
  <2>1. ~ \E i \in 1..booted : IsKcd(i)
    BY <1>2
  <2>2. Len(available_tid_queue) = MAX_TASKS - 2
    BY ConstantFacts, LenProperties DEF Init
  <2>. QED BY <1>2, <2>1, <2>2, ConstantFacts DEF BootRoom
<1>11. \A t \in Tid : g_tcbs[t].state = "RUNNING" => t = gp_current_task
  BY <1>2
<1>. QED BY <1>1, <1>2, <1>5, <1>6, <1>7, <1>8, <1>9, <1>10, <1>11 DEF SchedInv

LEMMA CarefulStep ==
  ASSUME SchedInv, Len(BootTasks) >= 2, [CarefulNext]_vars
  PROVE  SchedInv'
<1>1. TypeOK'
  BY TypeStep DEF SchedInv, CarefulNext, Next
<1>2. CASE k_tsk_init
  BY <1>1, <1>2, BootSafe
<1>3. CASE k_tsk_yield
  BY <1>1, <1>3, YieldSafe
<1>4. ASSUME NEW entry \in {"kcd_task", "user"}, NEW p \in UserPrio,
             Creatable(entry), k_tsk_create(entry, p)
      PROVE  SchedInv'
  BY <1>1, <1>4, CreateHands, CallSafe
<1>5. CASE k_tsk_exit
  BY <1>1, <1>5, ExitHands, CallSafe
<1>6. ASSUME NEW t \in Tid, NEW p \in UserPrio, Settable(t, p), k_tsk_set_prio(t, p)
      PROVE  SchedInv'
  BY <1>1, <1>6, SetPrioSafe
<1>7. CASE k_recv_msg
  BY <1>1, <1>7, RecvHands, CallSafe
<1>8. ASSUME NEW t \in Tid, k_send_msg(t)
      PROVE  SchedInv'
  BY <1>1, <1>8, SendHands, CallSafe
<1>9. CASE c_IRQ_Handler
  BY <1>1, <1>9, IrqHands, CallSafe
<1>10. CASE UNCHANGED vars
  BY <1>10
  DEF vars, SchedInv, TypeOK, ReadyListExact, HighestPriorityExact, NullApart, TaskCurrent,
      NullCurrent, TidPoolExact, BootRoom, IsReady, PrioOf
<1>. QED BY <1>2, <1>3, <1>4, <1>5, <1>6, <1>7, <1>8, <1>9, <1>10 DEF CarefulNext

LEMMA InvStep ==
  ASSUME SchedInv, WellUsed, [Next]_vars
  PROVE  SchedInv'
BY CarefulStep, CarefulWhenUsedWell DEF WellUsed

(* The inductive invariant of the scheduler, for callers that avoid the calls *)
(* of Defects and a boot table of two tasks or more.                          *)
THEOREM SchedInvariant == ASSUME WellUsed PROVE Spec => []SchedInv
<1>1. Init => SchedInv
  BY InvInit
<1>2. SchedInv /\ [Next]_vars => SchedInv'
  BY InvStep
<1>. QED BY <1>1, <1>2, PTL DEF Spec

-----------------------------------------------------------------------------
(* What follows from it. *)

(* A task is on the list of its priority exactly while it is READY, and on *)
(* it once: no sequence of calls loses, duplicates or misplaces a task.    *)
THEOREM ReadyListCorrect == ASSUME WellUsed PROVE Spec => []ReadyListExact
<1>1. SchedInv => ReadyListExact
  BY DEF SchedInv
<1>. QED BY <1>1, SchedInvariant, PTL

(* highest_priority never goes stale: it is always the top non-empty level. *)
THEOREM HighestPriorityCorrect == ASSUME WellUsed PROVE Spec => []HighestPriorityExact
<1>1. SchedInv => HighestPriorityExact
  BY DEF SchedInv
<1>. QED BY <1>1, SchedInvariant, PTL

LEMMA StrictPriorityFromInv ==
  ASSUME SchedInv
  PROVE  StrictPriority
<1>. SUFFICES ASSUME TaskRuns, NEW t \in Tid, IsReady(t)
              PROVE  PrioOf(gp_current_task) <= PrioOf(t)
  BY DEF StrictPriority
<1>1. gp_current_task # TID_NULL /\ gp_current_task \in Tid
  BY InvParts DEF TaskRuns, Apart
<1>2. PrioOf(gp_current_task) <= rq.highest_priority
  BY <1>1 DEF SchedInv, TaskCurrent
<1>3. /\ g_tcbs \in [Tid -> Tcb] /\ rq \in ReadyQueues(Tid) /\ TopExact(rq)
      /\ Links(rq, ReadyIn(g_tcbs), PriosIn(g_tcbs))
  BY InvParts DEF Queued
<1>4. t \in ReadyIn(g_tcbs) /\ PriosIn(g_tcbs)[t] = PrioOf(t)
  BY DEF ReadyIn, PriosIn, IsReady, PrioOf
<1>5. PrioOf(t) \in Prio /\ PrioOf(gp_current_task) \in Prio /\ rq.highest_priority \in Prio
  BY <1>1, <1>3 DEF PrioOf, Tcb, ReadyQueues
<1>6. rq.highest_priority <= PrioOf(t)
  BY <1>3, <1>4, <1>5, LinkedLevel
<1>. DEFINE c == PrioOf(gp_current_task)
            h == rq.highest_priority
            p == PrioOf(t)
<1>7. c \in Nat /\ h \in Nat /\ p \in Nat
  BY <1>5, ConstantFacts
<1>8. c <= h /\ h <= p
  BY <1>2, <1>6
<1>. HIDE DEF c, h, p
<1>9. c <= p
  BY <1>7, <1>8
<1>. QED BY <1>9 DEF c, p

(* Preemption is immediate: when a call or an interrupt returns to a task, no *)
(* READY task is more urgent than it.                                         *)
THEOREM StrictPriorityHolds == ASSUME WellUsed PROVE Spec => []StrictPriority
<1>1. SchedInv => StrictPriority
  BY StrictPriorityFromInv
<1>. QED BY <1>1, SchedInvariant, PTL

(* gp_current_task and the RUNNING state agree: exactly one task has the CPU. *)
THEOREM CurrentRunsHolds == ASSUME WellUsed PROVE Spec => []CurrentRuns
<1>1. SchedInv => CurrentRuns
  <2>. SUFFICES ASSUME SchedInv PROVE CurrentRuns
    OBVIOUS
  <2>1. CASE gp_current_task # TID_NULL
    BY <2>1 DEF SchedInv, TaskCurrent, CurrentRuns
  <2>2. CASE gp_current_task = TID_NULL
    <3>1. g_tcbs[TID_NULL].state \in {"READY", "RUNNING"}
      BY <2>2 DEF SchedInv, NullCurrent
    <3>. QED BY <2>2, <3>1 DEF SchedInv, CurrentRuns, IsReady
  <2>. QED BY <2>1, <2>2
<1>. QED BY <1>1, SchedInvariant, PTL

(* The TID pool is exact across every sequence of creations and exits: no *)
(* TID leaks, and no live task's TID is handed out again.                 *)
THEOREM TidPoolCorrect == ASSUME WellUsed PROVE Spec => []TidPoolExact
<1>1. SchedInv => TidPoolExact
  BY DEF SchedInv
<1>. QED BY <1>1, SchedInvariant, PTL

(* No call dereferences a NULL TCB or message, or links a TCB twice. *)
THEOREM NeverWildHolds == ASSUME WellUsed PROVE Spec => []NeverWild
<1>1. SchedInv => NeverWild
  BY DEF SchedInv, NeverWild
<1>. QED BY <1>1, SchedInvariant, PTL

-----------------------------------------------------------------------------
(* The order in which tasks are served.                                     *)

(* What a step does to the current task and the queue: nothing, a boot task *)
(* is linked, the null task yields, or a task's call hands over the queue   *)
(* as it is, with one more task, or with a task requeued by set_prio.       *)
LEMMA StepKinds ==
  ASSUME SchedInv, Len(BootTasks) >= 2, [CarefulNext]_vars
  PROVE  \/ gp_current_task' = gp_current_task /\ rq' = rq
         \/ /\ gp_current_task' = gp_current_task
            /\ \E t \in Tid \ ReadyIn(g_tcbs), p \in Prio : rq' = insert_into_tasks(rq, p, t)
         \/ /\ gp_current_task = TID_NULL /\ booted = Len(BootTasks)
            /\ k_tsk_run_new(g_tcbs, rq, TRUE)
         \/ \E s : Hands(s, rq)
         \/ \E t \in Tid \ ReadyIn(g_tcbs), p \in Prio : \E s :
              Hands(s, insert_into_tasks(rq, p, t))
         \/ \E t \in Tid, p \in UserPrio : SetPrioReady(t, p) /\ ~Drains(t, p)
<1>1. CASE k_tsk_init
  <2> DEFINE entry == BootTasks[booted + 1].entry
             t == TidFor(entry)
             p == BootTasks[booted + 1].prio
             s == [g_tcbs EXCEPT ![t].state = "READY"]
  <2>1. booted < Len(BootTasks) /\ rq' = insert_into_tasks(rq, p, t)
        /\ gp_current_task' = gp_current_task
    BY <1>1 DEF k_tsk_init
  <2>2. g_tcbs \in [Tid -> Tcb] /\ t \in Tid
    BY InvParts, PoolType DEF TypeOK
  <2>3. p \in Prio
    <3>1. booted + 1 \in 1..Len(BootTasks)
      BY <2>1, InvParts, ConstantFacts DEF TypeOK
    <3>. QED BY <3>1, ConstantFacts DEF BootTask
  <2>4. s[t].state = "READY" /\ \A u \in Tid \ {t} : s[u].state = g_tcbs[u].state
    BY <2>2 DEF Tcb
  <2>5. g_tcbs[t].state = "DORMANT"
    <3>1. /\ entry = "kcd_task" => g_tcbs[TID_KCD].state = "DORMANT"
          /\ entry = "kcd_task" \/ available_tid_queue # << >>
      BY <2>1, BootTidLeft
    <3>. HIDE DEF entry, s
    <3>. QED BY <2>4, <3>1, TakeTid
  <2>6. t \in Tid \ ReadyIn(g_tcbs)
    BY <2>2, <2>5 DEF ReadyIn
  <2>. QED BY <2>1, <2>3, <2>6
<1>2. CASE k_tsk_yield
  <2>1. CASE gp_current_task = TID_NULL
    BY <1>2, <2>1 DEF k_tsk_yield, Up
  <2>2. CASE gp_current_task # TID_NULL
    BY <1>2, <2>2, YieldHands
  <2>. QED BY <2>1, <2>2
<1>3. ASSUME NEW entry \in {"kcd_task", "user"}, NEW p \in UserPrio,
             Creatable(entry), k_tsk_create(entry, p)
      PROVE  \E t \in Tid \ ReadyIn(g_tcbs), l \in Prio : \E s : Hands(s, insert_into_tasks(rq, l, t))
  BY <1>3, CreateHands, ConstantFacts
<1>4. CASE k_tsk_exit
  BY <1>4, ExitHands
<1>5. ASSUME NEW t \in Tid, NEW p \in UserPrio, Settable(t, p), k_tsk_set_prio(t, p)
      PROVE  \/ gp_current_task' = gp_current_task /\ rq' = rq
             \/ \E s : Hands(s, rq)
             \/ SetPrioReady(t, p) /\ ~Drains(t, p)
  <2>1. (t = gp_current_task => ~SetPrioRaiseSelf(p)) /\ ~SetPrioUnlinked(t)
    BY <1>5, SettableKinds
  <2>2. CASE SetPrioLowerSelf(p)
    BY <2>2, LowerSelfHands
  <2>3. CASE SetPrioBlocked(t, p)
    BY <2>3 DEF SetPrioBlocked
  <2>4. CASE SetPrioReady(t, p)
    BY <1>5, <2>4 DEF SetPrioReady, Settable
  <2>. QED BY <1>5, <2>1, <2>2, <2>3, <2>4 DEF k_tsk_set_prio
<1>6. CASE k_recv_msg
  BY <1>6, RecvHands
<1>7. ASSUME NEW t \in Tid, k_send_msg(t)
      PROVE  \E u \in Tid \ ReadyIn(g_tcbs), l \in Prio : \E s : Hands(s, insert_into_tasks(rq, l, u))
  <2>1. /\ t \in Tid \ ReadyIn(g_tcbs) /\ g_tcbs[t].prio \in Prio
        /\ \E s : Hands(s, insert_into_tasks(rq, g_tcbs[t].prio, t))
    BY <1>7, SendHands
  <2>. QED BY <2>1
<1>8. CASE c_IRQ_Handler
  BY <1>8, IrqHands
<1>9. CASE UNCHANGED vars
  BY <1>9 DEF vars
<1>. QED BY <1>1, <1>2, <1>3, <1>4, <1>5, <1>6, <1>7, <1>8, <1>9 DEF CarefulNext

(* The scheduler moves nobody but the task it displaces. *)
LEMMA RunNewOrder ==
  ASSUME gp_current_task \in Tid, NEW s \in [Tid -> Tcb], NEW q \in ReadyQueues(Tid), NEW y,
         k_tsk_run_new(s, q, y), NEW l \in Prio, NEW a, NEW b,
         b # gp_current_task, Ahead(rq', l, a, b)
  PROVE  Ahead(q, l, a, b)
<1> DEFINE z == retrieve_from_tasks(q)
           p == s[gp_current_task].prio
<1>1. z \in ReadyQueues(Tid) /\ p \in Prio
  BY RetrieveType DEF Tcb
<1>2. rq' = z \/ rq' = insert_into_tasks(z, p, gp_current_task) \/ rq' = q
  BY DEF k_tsk_run_new
<1>3. Ahead(z, l, a, b) => Ahead(q, l, a, b)
  BY RetrieveOrder
<1>. HIDE DEF z, p
<1>4. Ahead(insert_into_tasks(z, p, gp_current_task), l, a, b) => Ahead(z, l, a, b)
  BY <1>1, InsertOrder
<1>. QED BY <1>2, <1>3, <1>4

(* The task it switches to is the first of the top level of q. *)
LEMMA RunNewDispatch ==
  ASSUME gp_current_task \in Tid, NEW s, NEW q, NEW y, Queued(s, q),
         k_tsk_run_new(s, q, y), gp_current_task' # gp_current_task
  PROVE  /\ gp_current_task' \in ReadyIn(s)
         /\ g_tcbs'[gp_current_task'].prio = q.highest_priority
         /\ s[gp_current_task'].prio = q.highest_priority
         /\ \A a : ~Ahead(q, q.highest_priority, a, gp_current_task')
<1> DEFINE n == Retrieved(q)
           u == [s EXCEPT ![gp_current_task].state = "READY"]
<1>0. s \in [Tid -> Tcb] /\ q \in ReadyQueues(Tid) /\ Links(q, ReadyIn(s), PriosIn(s))
  BY DEF Queued
<1>1. gp_current_task' = n /\ n # NoTask /\ (SwitchTo(n, s) \/ SwitchTo(n, u))
  BY DEF k_tsk_run_new, SwitchTo
<1>2. Top(q) # << >>
  BY <1>1 DEF Retrieved
<1>3. n \in ReadyIn(s) /\ PriosIn(s)[n] = q.highest_priority
  BY <1>0, <1>2, RetrieveLinks
<1>4. n \in Tid /\ s[n].prio = q.highest_priority
  BY <1>3 DEF ReadyIn, PriosIn
<1>5. \A a : ~Ahead(q, q.highest_priority, a, n)
  BY <1>0, <1>2, RetrieveOrder
<1>6. g_tcbs'[n].prio = s[n].prio
  <2>1. u \in [Tid -> Tcb] /\ u[n].prio = s[n].prio
    BY <1>0, <1>4 DEF Tcb, State
  <2>2. g_tcbs' = [s EXCEPT ![n].state = "RUNNING"] \/ g_tcbs' = [u EXCEPT ![n].state = "RUNNING"]
    BY <1>1 DEF SwitchTo
  <2>. HIDE DEF u, n
  <2>. QED BY <1>0, <1>4, <2>1, <2>2 DEF Tcb
<1>. QED BY <1>1, <1>3, <1>4, <1>5, <1>6

(* No READY task is more urgent than the one a switch leaves current. *)
LEMMA SwitchedFirst ==
  ASSUME Switched', NEW t \in ReadyIn(g_tcbs')
  PROVE  g_tcbs'[gp_current_task'].prio <= g_tcbs'[t].prio
<1> DEFINE c == g_tcbs'[gp_current_task'].prio
           h == rq'.highest_priority
           p == g_tcbs'[t].prio
<1>1. /\ Queued(g_tcbs', rq') /\ gp_current_task' \in Tid
  BY DEF Switched, Queued
<1>2. /\ g_tcbs' \in [Tid -> Tcb] /\ rq' \in ReadyQueues(Tid) /\ TopExact(rq')
      /\ Links(rq', ReadyIn(g_tcbs'), PriosIn(g_tcbs'))
      /\ t \in Tid /\ PriosIn(g_tcbs')[t] = p
  BY <1>1 DEF Queued, ReadyIn, PriosIn
<1>3. c \in Nat /\ h \in Nat /\ p \in Nat /\ p \in Prio
  <2>1. c \in Prio /\ h \in Prio /\ p \in Prio
    BY <1>1, <1>2 DEF Tcb, ReadyQueues
  <2>. QED BY <2>1, ConstantFacts
<1>4. h <= p
  BY <1>2, <1>3, LinkedLevel
<1>5. CASE gp_current_task' # TID_NULL
  <2>1. c <= h
    BY <1>5 DEF Switched
  <2>. HIDE DEF c, h, p
  <2>2. c <= p
    BY <1>3, <1>4, <2>1
  <2>. QED BY <2>2 DEF c, p
<1>6. CASE gp_current_task' = TID_NULL
  <2>1. t = gp_current_task'
    BY <1>6 DEF Switched
  <2>. QED BY <1>3, <2>1
<1>. QED BY <1>5, <1>6

(* A call of a task keeps the order of its queue q, but for the caller. *)
LEMMA HandsOrder ==
  ASSUME SchedInv, NEW s, NEW q, Hands(s, q), NEW l \in Prio, NEW a, NEW b \in ReadyIn(g_tcbs),
         Ahead(rq', l, a, b)
  PROVE  Ahead(q, l, a, b)
<1>1. PICK y \in BOOLEAN : k_tsk_run_new(s, q, y)
  BY DEF Hands
<1>2. /\ gp_current_task \in Tid /\ s \in [Tid -> Tcb] /\ q \in ReadyQueues(Tid)
      /\ gp_current_task # TID_NULL
  BY DEF Hands, Prepared, Queued
<1>3. b # gp_current_task
  <2>1. g_tcbs[gp_current_task].state = "RUNNING"
    BY <1>2, InvParts
  <2>. QED BY <2>1 DEF ReadyIn
<1>. QED BY <1>1, <1>2, <1>3, RunNewOrder

(* The task that a call dispatches was first in line, unless set_prio has *)
(* just moved the task that was ahead of it.                              *)
LEMMA HandsDispatch ==
  ASSUME SchedInv, NEW s, NEW q, Hands(s, q), gp_current_task' # gp_current_task
  PROVE  /\ Switched'
         /\ gp_current_task' \in ReadyIn(s)
         /\ g_tcbs'[gp_current_task'].prio \in Prio
         /\ s[gp_current_task'].prio = g_tcbs'[gp_current_task'].prio
         /\ \A a : ~Ahead(q, g_tcbs'[gp_current_task'].prio, a, gp_current_task')
<1>1. PICK y \in BOOLEAN : k_tsk_run_new(s, q, y)
  BY DEF Hands
<1>2. gp_current_task \in Tid /\ Queued(s, q) /\ q.highest_priority \in Prio
  BY DEF Hands, Prepared, Queued, ReadyQueues
<1>3. Switched'
  BY CallSafe
<1>. QED BY <1>1, <1>2, <1>3, RunNewDispatch

(* The null task's yield: it was the last of its level, and alone on it. *)
LEMMA NullYieldOrder ==
  ASSUME SchedInv, Len(BootTasks) >= 2, gp_current_task = TID_NULL, booted = Len(BootTasks),
         k_tsk_run_new(g_tcbs, rq, TRUE), NEW l \in Prio, NEW a \in Tid,
         NEW b \in ReadyIn(g_tcbs), Ahead(rq', l, a, b)
  PROVE  Ahead(rq, l, a, b)
<1>0. /\ gp_current_task \in Tid /\ g_tcbs \in [Tid -> Tcb] /\ rq \in ReadyQueues(Tid)
      /\ Queued(g_tcbs, rq)
  BY InvParts DEF Queued
<1>1. CASE b # TID_NULL
  BY <1>0, <1>1, RunNewOrder
<1>2. CASE b = TID_NULL
  <2>1. g_tcbs[TID_NULL].state = "READY"
    BY <1>2 DEF ReadyIn
  <2>2. ReadyIn(g_tcbs) \subseteq {TID_NULL}
    BY <2>1 DEF SchedInv, NullCurrent, ReadyIn, IsReady
  <2>3. Switched'
    BY NullSwitch
  <2>4. gp_current_task' = TID_NULL
    <3>. SUFFICES ASSUME gp_current_task' # gp_current_task PROVE FALSE
      OBVIOUS
    <3>1. gp_current_task' \in ReadyIn(g_tcbs)
      BY <1>0, RunNewDispatch
    <3>. QED BY <2>2, <3>1
  <2>5. /\ rq' \in ReadyQueues(Tid) /\ Links(rq', ReadyIn(g_tcbs'), PriosIn(g_tcbs'))
        /\ ReadyIn(g_tcbs') \subseteq {TID_NULL}
    BY <2>3, <2>4 DEF Switched, Queued
  <2>6. a = TID_NULL
    BY <2>5, AheadLinked DEF LinkedAt, Links
  <2>7. a # b
    BY <2>5, AheadOther
  <2>. QED BY <1>2, <2>6, <2>7
<1>. QED BY <1>1, <1>2

LEMMA FifoStep ==
  ASSUME SchedInv, Len(BootTasks) >= 2, [CarefulNext]_vars, NEW l \in Prio, NEW a \in Tid, NEW b \in Tid,
         LinkedAt(rq, l, b), Ahead(rq', l, a, b)
  PROVE  Ahead(rq, l, a, b) \/ k_tsk_set_prio(b, l)
<1>0. rq \in ReadyQueues(Tid) /\ Links(rq, ReadyIn(g_tcbs), PriosIn(g_tcbs))
  BY InvParts DEF Queued
<1>1. b \in ReadyIn(g_tcbs)
  BY <1>0 DEF Links, LinkedAt
<1>2. CASE rq' = rq
  BY <1>2
<1>3. ASSUME NEW t \in Tid \ ReadyIn(g_tcbs), NEW p \in Prio, rq' = insert_into_tasks(rq, p, t)
      PROVE  Ahead(rq, l, a, b)
  BY <1>0, <1>1, <1>3, InsertOrder
<1>4. CASE /\ gp_current_task = TID_NULL /\ booted = Len(BootTasks)
           /\ k_tsk_run_new(g_tcbs, rq, TRUE)
  BY <1>1, <1>4, NullYieldOrder
<1>5. ASSUME NEW s, Hands(s, rq)
      PROVE  Ahead(rq, l, a, b)
  BY <1>1, <1>5, HandsOrder
<1>6. ASSUME NEW t \in Tid \ ReadyIn(g_tcbs), NEW p \in Prio, NEW s,
             Hands(s, insert_into_tasks(rq, p, t))
      PROVE  Ahead(rq, l, a, b)
  <2>1. Ahead(insert_into_tasks(rq, p, t), l, a, b)
    BY <1>1, <1>6, HandsOrder
  <2>. QED BY <1>0, <1>1, <2>1, InsertOrder
<1>7. ASSUME NEW t \in Tid, NEW p \in UserPrio, SetPrioReady(t, p), ~Drains(t, p)
      PROVE  Ahead(rq, l, a, b) \/ k_tsk_set_prio(b, l)
  <2> DEFINE k == g_tcbs[t].prio
             s == [g_tcbs EXCEPT ![t].prio = p, ![t].state = "READY"]
             z == remove_node(rq, k, t)
             q == insert_into_tasks(z, p, t)
  <2>1. /\ k \in Prio /\ LinkedAt(rq, k, t) /\ z \in ReadyQueues(Tid) /\ s[t].prio = p
        /\ Hands(s, q) /\ p \in Prio
    BY <1>7, SetPrioReadyHands, ConstantFacts
  <2>. HIDE DEF k, s
  <2>2. Ahead(q, l, a, b)
    BY <1>1, <2>1, HandsOrder
  <2>3. CASE b # t
    <3>1. Ahead(z, l, a, b)
      BY <2>1, <2>2, <2>3, InsertOrder
    <3>. QED BY <1>0, <2>1, <3>1, RemoveOrder
  <2>4. CASE b = t
    <3>1. LinkedAt(q, l, t)
      BY <2>2, <2>4, AheadLinked
    <3>2. Links(q, ReadyIn(s), PriosIn(s))
      BY <2>1 DEF Hands, Prepared, Queued
    <3>. HIDE DEF q
    <3>3. l = p
      BY <2>1, <3>1, <3>2 DEF LinkedAt, Links, PriosIn
    <3>. QED BY <1>7, <2>4, <3>3 DEF k_tsk_set_prio
  <2>. QED BY <2>3, <2>4
<1>. QED BY <1>2, <1>3, <1>4, <1>5, <1>6, <1>7, StepKinds

LEMMA DispatchStep ==
  ASSUME SchedInv, Len(BootTasks) >= 2, [CarefulNext]_vars, gp_current_task' # gp_current_task,
         NEW t \in Tid, g_tcbs'[t].state = "READY"
  PROVE  LET p == g_tcbs'[gp_current_task'].prio
         IN  /\ p <= g_tcbs'[t].prio
             /\ Ahead(rq, p, t, gp_current_task') => \E l \in UserPrio : k_tsk_set_prio(t, l)
<1> DEFINE n == gp_current_task'
           p == g_tcbs'[n].prio
<1>0. /\ rq \in ReadyQueues(Tid) /\ Links(rq, ReadyIn(g_tcbs), PriosIn(g_tcbs))
      /\ Queued(g_tcbs, rq) /\ gp_current_task \in Tid
  BY InvParts DEF Queued
<1>1. t \in ReadyIn(g_tcbs')
  BY DEF ReadyIn
<1>4. CASE /\ gp_current_task = TID_NULL /\ booted = Len(BootTasks)
           /\ k_tsk_run_new(g_tcbs, rq, TRUE)
  <2>1. Switched'
    BY <1>4, NullSwitch
  <2>2. ~Ahead(rq, p, t, n)
    BY <1>0, <1>4, RunNewDispatch
  <2>. QED BY <1>1, <2>1, <2>2, SwitchedFirst
<1>5. ASSUME NEW s, Hands(s, rq)
      PROVE  p <= g_tcbs'[t].prio /\ ~Ahead(rq, p, t, n)
  BY <1>1, <1>5, HandsDispatch, SwitchedFirst
<1>6. ASSUME NEW u \in Tid \ ReadyIn(g_tcbs), NEW m \in Prio, NEW s,
             Hands(s, insert_into_tasks(rq, m, u))
      PROVE  p <= g_tcbs'[t].prio /\ ~Ahead(rq, p, t, n)
  <2>1. Switched' /\ p \in Prio /\ ~Ahead(insert_into_tasks(rq, m, u), p, t, n)
    BY <1>6, HandsDispatch
  <2>2. p <= g_tcbs'[t].prio
    BY <1>1, <2>1, SwitchedFirst
  <2>. HIDE DEF n, p
  <2>3. ~Ahead(rq, p, t, n)
    BY <1>0, <2>1, InsertOrder
  <2>. QED BY <2>2, <2>3
<1>7. ASSUME NEW u \in Tid, NEW m \in UserPrio, SetPrioReady(u, m), ~Drains(u, m)
      PROVE  /\ p <= g_tcbs'[t].prio
             /\ Ahead(rq, p, t, n) => \E l \in UserPrio : k_tsk_set_prio(t, l)
  <2> DEFINE k == g_tcbs[u].prio
             s == [g_tcbs EXCEPT ![u].prio = m, ![u].state = "READY"]
             z == remove_node(rq, k, u)
             q == insert_into_tasks(z, m, u)
  <2>1. /\ k \in Prio /\ LinkedAt(rq, k, u) /\ z \in ReadyQueues(Tid) /\ s[u].prio = m
        /\ Hands(s, q) /\ m \in Prio
    BY <1>7, SetPrioReadyHands, ConstantFacts
  <2>. HIDE DEF k, s
  <2>2. Switched' /\ p \in Prio /\ s[n].prio = p /\ ~Ahead(q, p, t, n)
    BY <2>1, HandsDispatch
  <2>3. p <= g_tcbs'[t].prio
    BY <1>1, <2>2, SwitchedFirst
  <2>. HIDE DEF n, p
  <2>4. ~Ahead(z, p, t, n)
    BY <2>1, <2>2, InsertOrder
  <2>5. CASE t = u
    BY <1>7, <2>3, <2>5 DEF k_tsk_set_prio
  <2>6. CASE t # u /\ n # u
    <3>1. ~Ahead(rq, p, t, n)
      BY <1>0, <2>1, <2>2, <2>4, <2>6, RemoveOrder
    <3>. QED BY <2>3, <3>1
  <2>7. CASE t # u /\ n = u
    <3>. SUFFICES ASSUME Ahead(rq, p, t, n) PROVE FALSE
      BY <2>3
    <3>1. LinkedAt(rq, p, t) /\ LinkedAt(rq, p, u) /\ p = m
      BY <2>1, <2>2, <2>7, AheadLinked
    <3>2. t \in ReadyIn(g_tcbs) /\ u \in ReadyIn(g_tcbs)
          /\ PriosIn(g_tcbs)[t] = p /\ PriosIn(g_tcbs)[u] = p
      BY <1>0, <2>2, <3>1 DEF LinkedAt, Links
    <3>3. k = p
      BY <3>2 DEF PriosIn, k
    <3>4. LinkedAt(z, p, t)
      <4>1. Links(z, ReadyIn(g_tcbs) \ {u}, PriosIn(g_tcbs))
        BY <1>0, <2>1, <3>2, <3>3, RemoveLinks
      <4>. HIDE DEF z
      <4>. QED BY <2>2, <2>7, <3>2, <4>1 DEF LinkedAt, Links
    <3>. HIDE DEF z
    <3>5. Ahead(q, p, t, u)
      BY <2>1, <3>1, <3>4, InsertOrder
    <3>. QED BY <2>2, <2>7, <3>5
  <2>. QED BY <2>5, <2>6, <2>7
<1>. QED BY <1>4, <1>5, <1>6, <1>7, StepKinds

(* Service within a level is first come, first served: whatever the tasks and *)
(* the interrupts do, nobody overtakes a task that was linked before it,      *)
(* except by a set_prio that requeues the one that is overtaken.              *)
THEOREM FifoLevelsHolds == ASSUME WellUsed PROVE Spec => FifoLevels
<1>1. SchedInv /\ [Next]_vars
        => [ \A l \in Prio, a, b \in Tid :
               LinkedAt(rq, l, b) /\ LinkedAt(rq', l, b) /\ Ahead(rq', l, a, b)
                 => Ahead(rq, l, a, b) \/ k_tsk_set_prio(b, l) ]_vars
  BY FifoStep, CarefulWhenUsedWell DEF WellUsed
<1>. QED BY <1>1, SchedInvariant, PTL DEF Spec, FifoLevels

(* Every switch, of a call or of an interrupt, goes to the first task of the *)
(* most urgent level in use.                                                 *)
THEOREM DispatchIsFirstHolds == ASSUME WellUsed PROVE Spec => DispatchIsFirst
<1>1. SchedInv /\ [Next]_vars
        => [ gp_current_task' # gp_current_task =>
               LET p == g_tcbs'[gp_current_task'].prio
               IN  \A t \in Tid : g_tcbs'[t].state = "READY" =>
                     /\ p <= g_tcbs'[t].prio
                     /\ Ahead(rq, p, t, gp_current_task') =>
                          \E l \in UserPrio : k_tsk_set_prio(t, l) ]_vars
  BY DispatchStep, CarefulWhenUsedWell DEF WellUsed
<1>. QED BY <1>1, SchedInvariant, PTL DEF Spec, DispatchIsFirst

=============================================================================
