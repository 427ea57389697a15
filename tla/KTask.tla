------------------------------- MODULE KTask --------------------------------
(***************************************************************************)
(* Task management and the scheduler of the kernel, kernel/k_task.c, with  *)
(* the two places where other files change a task's state: k_recv_msg      *)
(* blocks the caller and k_send_msg readies the receiver (k_msg.c), and    *)
(* the tail of the UART interrupt handler (HAL_CA.c).                      *)
(*                                                                         *)
(* One step is one kernel call, or one interrupt, from entry to the        *)
(* context switch that ends it: an SVC runs with interrupts masked.  Calls *)
(* that return RTX_ERR before they change anything are stuttering steps.   *)
(***************************************************************************)
EXTENDS ReadyQueue

CONSTANTS
  MAX_TASKS,    \* size of g_tcbs
  BootTasks,    \* the RTX_TASK_INFO array handed to k_tsk_init
  U32MOD,       \* 2^32 in the code: g_num_active_tasks is a U32
  Avoid         \* the mishandled calls that callers never make

TID_NULL == 0
TID_KCD  == MAX_TASKS - 1
Tid      == 0..(MAX_TASKS - 1)

State == {"DORMANT", "READY", "RUNNING", "BLK_MSG"}
Entry == {"none", "task_null", "kcd_task", "user"}
Tcb   == [prio : Prio, state : State, priv : BOOLEAN, entry : Entry]

BootTask == [prio : UserPrio, priv : BOOLEAN, entry : {"kcd_task", "user"}]
IsKcd(i) == BootTasks[i].entry = "kcd_task"

(* Calls the code accepts and then mishandles.  A run or a theorem names in *)
(* Avoid the ones its callers do not make:                                  *)
(*   no_tid     create when no TID is left                                  *)
(*   kcd_twice  create kcd_task while the KCD task is alive                 *)
(*   self_raise set_prio of the caller to above every READY task            *)
(*   drain_top  set_prio of the last task of the top level to below it      *)
(*   not_ready  set_prio of a task that is on no list                       *)
Defects == {"no_tid", "kcd_twice", "self_raise", "drain_top", "not_ready"}

(* There is a TCB for every boot task: the pool never runs dry in k_tsk_init *)
(* and at most one boot task is the KCD task.                                *)
ASSUME TaskAssumption ==
  /\ MAX_TASKS \in Nat /\ MAX_TASKS >= 3
  /\ U32MOD \in Nat /\ U32MOD > 2 * MAX_TASKS
  /\ BootTasks \in Seq(BootTask)
  /\ Len(BootTasks) < MAX_TASKS
  /\ Len(BootTasks) = MAX_TASKS - 1 => \E i \in DOMAIN BootTasks : IsKcd(i)
  /\ \A i, j \in DOMAIN BootTasks : IsKcd(i) /\ IsKcd(j) => i = j
  /\ Avoid \subseteq Defects

VARIABLES
  gp_current_task,      \* tid of the current task
  g_tcbs,               \* the TCBs
  rq,                   \* tasks[] and highest_priority
  yield_flag,
  available_tid_queue,  \* the TID pool, oldest first
  g_num_active_tasks,
  booted,               \* how many boot tasks k_tsk_init has set up
  wild                  \* a NULL TCB or message was dereferenced, or a TCB
                        \* was linked twice: nothing is modelled after that

vars == << gp_current_task, g_tcbs, rq, yield_flag, available_tid_queue,
           g_num_active_tasks, booted, wild >>

-----------------------------------------------------------------------------
(* Start-up: main runs as the null task, with interrupts masked. *)

Init ==
  /\ gp_current_task = TID_NULL
  /\ g_tcbs = [t \in Tid |->
       IF t = TID_NULL
       THEN [prio |-> PRIO_NULL, state |-> "RUNNING", priv |-> TRUE, entry |-> "task_null"]
       ELSE [prio |-> 0, state |-> "DORMANT", priv |-> FALSE, entry |-> "none"]]
  /\ rq = EmptyQueue
  /\ yield_flag = FALSE
  /\ available_tid_queue = [i \in 1..(MAX_TASKS - 2) |-> i]
  /\ g_num_active_tasks = 1
  /\ booted = 0
  /\ wild = FALSE

NewTcb(entry, p, priv) ==
  [prio |-> p, state |-> "READY", priv |-> priv, entry |-> entry]

(* get_next_tid answers 0, the null task's TID, when the pool is empty.  *)
(* kcd_task has a TID of its own.                                        *)
get_next_tid ==
  IF available_tid_queue = << >> THEN TID_NULL ELSE Head(available_tid_queue)

TidFor(entry) == IF entry = "kcd_task" THEN TID_KCD ELSE get_next_tid

PoolWithout(entry) ==
  IF entry = "kcd_task" \/ available_tid_queue = << >>
  THEN available_tid_queue
  ELSE Tail(available_tid_queue)

(* One iteration of the loop of k_tsk_init over the boot tasks. *)
k_tsk_init ==
  /\ ~wild
  /\ booted < Len(BootTasks)
  /\ LET b == BootTasks[booted + 1]
         t == TidFor(b.entry)
     IN  /\ g_tcbs' = [g_tcbs EXCEPT ![t] = NewTcb(b.entry, b.prio, b.priv)]
         /\ rq' = insert_into_tasks(rq, b.prio, t)
         /\ available_tid_queue' = PoolWithout(b.entry)
  /\ g_num_active_tasks' = (g_num_active_tasks + 1) % U32MOD
  /\ booted' = booted + 1
  /\ UNCHANGED << gp_current_task, yield_flag, wild >>

-----------------------------------------------------------------------------
(* The scheduler.  s, q and y are the TCBs, the queue and the flag that the *)
(* calling operation has prepared.                                          *)

(* Faulty variants, as in ReadyQueue: a state that GivesUp forgets, a        *)
(* scheduler that does not preempt, a yield that displaces for anybody.      *)
GivesUp_only_blocked(s) == s[gp_current_task].state = "BLK_MSG"
GivesUp_only_exited(s)  == s[gp_current_task].state = "DORMANT"
Displaced_by_yield(s, q, y)   == y /\ s[gp_current_task].prio >= q.highest_priority
Displaced_by_anybody(s, q, y) == y \/ s[gp_current_task].prio > q.highest_priority

GivesUp(s) == s[gp_current_task].state \in {"DORMANT", "BLK_MSG"}

Displaced(s, q, y) ==
  LET p == s[gp_current_task].prio
  IN  \/ y /\ p = q.highest_priority
      \/ p > q.highest_priority

(* k_tsk_run_new after scheduler() has answered n: NULL leaves the old task *)
(* current, and so does the old task itself.                                *)
SwitchTo(n, s) ==
  IF n \in {NoTask, gp_current_task}
  THEN gp_current_task' = gp_current_task /\ g_tcbs' = s
  ELSE gp_current_task' = n /\ g_tcbs' = [s EXCEPT ![n].state = "RUNNING"]

k_tsk_run_new(s, q, y) ==
  /\ \/ /\ GivesUp(s)
        /\ rq' = retrieve_from_tasks(q)
        /\ yield_flag' = y
        /\ SwitchTo(Retrieved(q), s)
     \/ /\ ~GivesUp(s)
        /\ Displaced(s, q, y)
        /\ rq' = insert_into_tasks(retrieve_from_tasks(q),
                                   s[gp_current_task].prio, gp_current_task)
        /\ yield_flag' = FALSE
        /\ SwitchTo(Retrieved(q), [s EXCEPT ![gp_current_task].state = "READY"])
     \/ /\ ~GivesUp(s)
        /\ ~Displaced(s, q, y)
        /\ rq' = q
        /\ yield_flag' = y
        /\ SwitchTo(gp_current_task, s)
  \* a task still in BLK_MSG goes on in k_recv_msg without a message
  /\ wild' = (s[gp_current_task'].state = "BLK_MSG" \/ ~LinkedOnce(rq'))

-----------------------------------------------------------------------------
(* The kernel calls.  The null task makes no call but k_tsk_yield, and runs *)
(* with interrupts masked; every other task runs with them enabled.         *)

Up       == ~wild /\ booted = Len(BootTasks)
TaskRuns == Up /\ g_tcbs[gp_current_task].entry # "task_null"

k_tsk_yield ==
  /\ Up
  /\ k_tsk_run_new(g_tcbs, rq, TRUE)
  /\ UNCHANGED << available_tid_queue, g_num_active_tasks, booted >>

(* g_num_active_tasks is tested and not incremented. *)
k_tsk_create(entry, p) ==
  /\ TaskRuns
  /\ g_num_active_tasks < MAX_TASKS
  /\ "no_tid" \in Avoid => entry = "kcd_task" \/ available_tid_queue # << >>
  /\ "kcd_twice" \in Avoid /\ entry = "kcd_task" => g_tcbs[TID_KCD].state = "DORMANT"
  /\ LET t == TidFor(entry)
     IN  k_tsk_run_new([g_tcbs EXCEPT ![t] = NewTcb(entry, p, FALSE)],
                       insert_into_tasks(rq, p, t), yield_flag)
  /\ available_tid_queue' = PoolWithout(entry)
  /\ UNCHANGED << g_num_active_tasks, booted >>

(* Faulty variants: the KCD task's TID goes to the pool; no test for room. *)
add_tid_of_kcd(t) ==
  IF Len(available_tid_queue) = MAX_TASKS - 1
  THEN available_tid_queue
  ELSE Append(available_tid_queue, t)
add_tid_no_room(t) ==
  IF t = TID_KCD THEN available_tid_queue ELSE Append(available_tid_queue, t)

add_tid(t) ==
  IF t = TID_KCD \/ Len(available_tid_queue) = MAX_TASKS - 1
  THEN available_tid_queue
  ELSE Append(available_tid_queue, t)

k_tsk_exit ==
  /\ TaskRuns
  /\ k_tsk_run_new([g_tcbs EXCEPT ![gp_current_task].state = "DORMANT"], rq, yield_flag)
  /\ available_tid_queue' = add_tid(gp_current_task)
  /\ g_num_active_tasks' = (g_num_active_tasks + U32MOD - 1) % U32MOD
  /\ UNCHANGED booted

(* The caller sleeps in k_recv_msg: it has a mailbox, and it is empty. *)
k_recv_msg ==
  /\ TaskRuns
  /\ k_tsk_run_new([g_tcbs EXCEPT ![gp_current_task].state = "BLK_MSG"], rq, yield_flag)
  /\ UNCHANGED << available_tid_queue, g_num_active_tasks, booted >>

(* k_send_msg to a task that sleeps in k_recv_msg, from a task or from the *)
(* UART interrupt handler.                                                 *)
k_send_msg(t) ==
  /\ TaskRuns
  /\ g_tcbs[t].state = "BLK_MSG"
  /\ k_tsk_run_new([g_tcbs EXCEPT ![t].state = "READY"],
                   insert_into_tasks(rq, g_tcbs[t].prio, t), yield_flag)
  /\ UNCHANGED << available_tid_queue, g_num_active_tasks, booted >>

(* The interrupt handler ends in k_tsk_run_new. *)
c_IRQ_Handler ==
  /\ TaskRuns
  /\ k_tsk_run_new(g_tcbs, rq, yield_flag)
  /\ UNCHANGED << available_tid_queue, g_num_active_tasks, booted >>

-----------------------------------------------------------------------------
(* k_tsk_set_prio, by the branch it takes. *)

MaySetPrio(t) ==
  /\ TaskRuns
  /\ t # TID_NULL
  /\ g_tcbs[t].priv => g_tcbs[gp_current_task].priv

SetPrioBlocked(t, p) ==
  /\ MaySetPrio(t)
  /\ g_tcbs[t].state = "BLK_MSG"
  /\ g_tcbs' = [g_tcbs EXCEPT ![t].prio = p]
  /\ UNCHANGED << gp_current_task, rq, yield_flag, available_tid_queue,
                  g_num_active_tasks, booted, wild >>

SetPrioLowerSelf(p) ==
  /\ MaySetPrio(gp_current_task)
  /\ p >= rq.highest_priority
  /\ k_tsk_run_new([g_tcbs EXCEPT ![gp_current_task].prio = p], rq, TRUE)
  /\ UNCHANGED << available_tid_queue, g_num_active_tasks, booted >>

(* highest_priority moves to a level on which nothing is linked. *)
SetPrioRaiseSelf(p) ==
  /\ MaySetPrio(gp_current_task)
  /\ p < rq.highest_priority
  /\ "self_raise" \notin Avoid
  /\ g_tcbs' = [g_tcbs EXCEPT ![gp_current_task].prio = p]
  /\ rq' = update_highest_priority(rq, p)
  /\ UNCHANGED << gp_current_task, yield_flag, available_tid_queue,
                  g_num_active_tasks, booted, wild >>

Drains(t, p) ==
  LET l == g_tcbs[t].prio
  IN  l = rq.highest_priority /\ l < p /\ Len(rq.tasks[l]) = 1

(* remove_node leaves highest_priority as it was. *)
SetPrioReady(t, p) ==
  LET l == g_tcbs[t].prio
      s == [g_tcbs EXCEPT ![t].prio = p, ![t].state = "READY"]
      q == remove_node(rq, l, t)
  IN  /\ MaySetPrio(t)
      /\ t # gp_current_task
      /\ g_tcbs[t].state # "BLK_MSG"
      /\ LinkedAt(rq, l, t)
      /\ "drain_top" \in Avoid => ~Drains(t, p)
      /\ k_tsk_run_new(s, insert_into_tasks(q, p, t), yield_flag)
      /\ UNCHANGED << available_tid_queue, g_num_active_tasks, booted >>

(* remove_node answers NULL, which k_tsk_set_prio dereferences. *)
SetPrioUnlinked(t) ==
  /\ MaySetPrio(t)
  /\ t # gp_current_task
  /\ g_tcbs[t].state # "BLK_MSG"
  /\ ~LinkedAt(rq, g_tcbs[t].prio, t)
  /\ "not_ready" \notin Avoid
  /\ wild' = TRUE
  /\ UNCHANGED << gp_current_task, g_tcbs, rq, yield_flag, available_tid_queue,
                  g_num_active_tasks, booted >>

k_tsk_set_prio(t, p) ==
  \/ SetPrioBlocked(t, p)
  \/ t = gp_current_task /\ SetPrioLowerSelf(p)
  \/ t = gp_current_task /\ SetPrioRaiseSelf(p)
  \/ SetPrioReady(t, p)
  \/ SetPrioUnlinked(t)

-----------------------------------------------------------------------------

Next ==
  \/ k_tsk_init
  \/ k_tsk_yield
  \/ \E entry \in {"kcd_task", "user"}, p \in UserPrio : k_tsk_create(entry, p)
  \/ k_tsk_exit
  \/ \E t \in Tid, p \in UserPrio : k_tsk_set_prio(t, p)
  \/ k_recv_msg
  \/ \E t \in Tid : k_send_msg(t)
  \/ c_IRQ_Handler

Spec == Init /\ [][Next]_vars

(* A task that holds the CPU eventually leaves it to its equals: it yields, *)
(* blocks or exits.  The tasks of app/ loop around tsk_yield or recv_msg.   *)
CpuGivenUp == k_tsk_yield \/ k_recv_msg \/ k_tsk_exit

FairSpec == Spec /\ WF_vars(CpuGivenUp)

-----------------------------------------------------------------------------
(* Properties.  The state of a task and its place in the queue.             *)

PrioOf(t)  == g_tcbs[t].prio
IsReady(t) == g_tcbs[t].state = "READY"

(* Every variable keeps its type, whatever the callers do.  The bound on the *)
(* pool is the array's: add_tid never writes past available_tid_queue.       *)
TypeOK ==
  /\ gp_current_task \in Tid
  /\ g_tcbs \in [Tid -> Tcb]
  /\ rq \in ReadyQueues(Tid)
  /\ yield_flag \in BOOLEAN
  /\ available_tid_queue \in Seq(Tid)
  /\ Len(available_tid_queue) <= MAX_TASKS - 1
  /\ g_num_active_tasks \in 0..(U32MOD - 1)
  /\ booted \in 0..Len(BootTasks)
  /\ wild \in BOOLEAN

(* The lists hold exactly the READY tasks, each once and on the list of its *)
(* own priority: no call loses a task, links it twice or leaves it behind   *)
(* on a level it no longer has.                                             *)
ReadyListExact == Links(rq, {t \in Tid : IsReady(t)}, [t \in Tid |-> PrioOf(t)])

(* highest_priority is the most urgent level that has a task: the scheduler *)
(* never serves an empty list while a task is READY.                        *)
HighestPriorityExact == TopExact(rq)

(* No READY task is more urgent than the task that runs. *)
StrictPriority ==
  TaskRuns => \A t \in Tid : IsReady(t) => PrioOf(gp_current_task) <= PrioOf(t)

(* The current task, and no other, is RUNNING: a task that exited or blocked *)
(* has lost the CPU for good or until its message.  (The idle null task      *)
(* links itself while it runs, and is READY.)                                *)
CurrentRuns ==
  ~wild =>
    /\ \A t \in Tid : g_tcbs[t].state = "RUNNING" => t = gp_current_task
    /\ \/ g_tcbs[gp_current_task].state = "RUNNING"
       \/ gp_current_task = TID_NULL /\ IsReady(TID_NULL)

(* The pool holds the TIDs of the DORMANT tasks, each once: no TID is lost, *)
(* and none is handed out while its task lives.                             *)
TidPoolExact ==
  /\ IsInjective(available_tid_queue)
  /\ ToSet(available_tid_queue) =
       {t \in Tid \ {TID_NULL, TID_KCD} : g_tcbs[t].state = "DORMANT"}

(* No call dereferences NULL or links a TCB that is already linked. *)
NeverWild == ~wild

(* First come, first served within a level: a task is never overtaken by one *)
(* that was behind it or has just been linked, unless set_prio requeues it.  *)
FifoLevels ==
  [][ \A l \in Prio, a, b \in Tid :
        LinkedAt(rq, l, b) /\ LinkedAt(rq', l, b) /\ Ahead(rq', l, a, b)
          => Ahead(rq, l, a, b) \/ k_tsk_set_prio(b, l) ]_vars

(* The task switched in is the first in line: none that stays READY is more *)
(* urgent, or was ahead of it on its level, unless set_prio requeues it.    *)
DispatchIsFirst ==
  [][ gp_current_task' # gp_current_task =>
        LET p == g_tcbs'[gp_current_task'].prio
        IN  \A t \in Tid : g_tcbs'[t].state = "READY" =>
              /\ p <= g_tcbs'[t].prio
              /\ Ahead(rq, p, t, gp_current_task') =>
                   \E l \in UserPrio : k_tsk_set_prio(t, l) ]_vars

(* Equals share the CPU: a READY task as urgent as the running one runs, or *)
(* the two stop being equals, unless set_prio keeps requeueing it.          *)
RoundRobin ==
  \A t \in Tid \ {TID_NULL} :
    \/ []<><< IsReady(t) /\ IsReady(t)' /\ k_tsk_set_prio(t, PrioOf(t)') >>_vars
    \/ TaskRuns /\ IsReady(t) /\ PrioOf(t) = PrioOf(gp_current_task)
         ~> gp_current_task = t \/ PrioOf(t) # PrioOf(gp_current_task)

-----------------------------------------------------------------------------
(* The invariant behind them, inductive when the callers avoid every defect *)
(* and there are two boot tasks.                                            *)

WellUsed == Defects \subseteq Avoid /\ Len(BootTasks) >= 2

(* The null task keeps its TCB and its level, which no other task shares. *)
NullApart ==
  /\ g_tcbs[TID_NULL].entry = "task_null"
  /\ PrioOf(TID_NULL) = PRIO_NULL
  /\ \A t \in Tid \ {TID_NULL} :
       /\ g_tcbs[t].entry # "task_null"
       /\ g_tcbs[t].state # "DORMANT" => PrioOf(t) \in UserPrio

(* A task runs: the null task is linked, so there is always a next task. *)
TaskCurrent ==
  /\ booted = Len(BootTasks)
  /\ g_tcbs[gp_current_task].state = "RUNNING"
  /\ IsReady(TID_NULL)
  /\ PrioOf(gp_current_task) <= rq.highest_priority

(* The null task runs before its first k_tsk_yield, the boot tasks waiting, *)
(* or later, when nothing else is READY; it then links itself.              *)
NullCurrent ==
  LET ready == {t \in Tid : IsReady(t)}
  IN  \/ /\ g_tcbs[TID_NULL].state = "RUNNING"
         /\ \/ booted = 0 /\ ready = {} /\ rq.highest_priority = PRIO_NULL
            \/ booted = 1 /\ \E a \in ready : ready = {a}
            \/ booted >= 2 /\ \E a, b \in ready : a # b
      \/ /\ booted = Len(BootTasks)
         /\ ready \subseteq {TID_NULL} /\ rq.highest_priority = PRIO_NULL
         /\ g_tcbs[TID_NULL].state \in {"READY", "RUNNING"}

(* k_tsk_init: a TID is left for every boot task still to be set up, *)
(* the KCD task's among them.                                        *)
BootRoom ==
  booted < Len(BootTasks) =>
    /\ gp_current_task = TID_NULL
    /\ Len(available_tid_queue) >= MAX_TASKS - 2 - booted
    /\ IF \E i \in 1..booted : IsKcd(i)
       THEN Len(available_tid_queue) >= MAX_TASKS - 1 - booted
       ELSE g_tcbs[TID_KCD].state = "DORMANT"

SchedInv ==
  /\ TypeOK
  /\ ~wild
  /\ ReadyListExact
  /\ HighestPriorityExact
  /\ NullApart
  /\ \A t \in Tid : g_tcbs[t].state = "RUNNING" => t = gp_current_task
  /\ gp_current_task # TID_NULL => TaskCurrent
  /\ gp_current_task = TID_NULL => NullCurrent
  /\ TidPoolExact
  /\ BootRoom

-----------------------------------------------------------------------------
(* What the documentation says and the code does not do. *)

(* common.h:93, DORMANT is the terminated task state: a DORMANT task does not *)
(* run.                                                                       *)
ExitIsFinal == g_tcbs[gp_current_task].state # "DORMANT"

(* common.h:77, TID_NULL is the pre-defined Task ID for the null task: no *)
(* other task gets its TCB.                                               *)
NullTcbIntact == g_tcbs[TID_NULL].entry = "task_null"

(* common.h:72, strict-priority, FCFS scheduling: a task that does not yield, *)
(* lower itself, block or exit keeps the CPU from tasks no more urgent.       *)
KeepsCpuFromEquals ==
  [][ gp_current_task' # gp_current_task /\ g_tcbs'[gp_current_task].state = "READY"
        => \/ g_tcbs'[gp_current_task'].prio < g_tcbs'[gp_current_task].prio
           \/ k_tsk_yield
           \/ \E p \in UserPrio : SetPrioLowerSelf(p) ]_vars

=============================================================================
