# Verification of the RTX kernel

TLA+ models of the preemptive kernel in `src/RTX/src`, checked by TLC and, where
noted, proved by TLAPS for every value of the constants.

## 1. The system

The program is a real-time executive for one core of the DE1-SoC: tasks with
255 priority levels, mailboxes, a first-fit heap, a UART interrupt that turns
characters into messages, and a keyboard command decoder (KCD) task.

| Component | State it keeps | Operations | What makes it correct |
|---|---|---|---|
| Ready queue (`k_task.c:161-266`) | `tasks[]` (a linked list per level), `highest_priority` | `insert_into_tasks`, `retrieve_from_tasks`, `remove_node`, `update_highest_priority` | the lists hold exactly the READY tasks, each once, on its own level; `highest_priority` is the most urgent level in use; FIFO within a level |
| Task management, scheduler (`k_task.c`) | `g_tcbs`, `gp_current_task`, `yield_flag`, the TID pool, `g_num_active_tasks` | `k_tsk_init`, `_create`, `_exit`, `_yield`, `_set_prio`, `scheduler`, `k_tsk_run_new` | strict priority; one task runs; a task that exits or blocks loses the CPU; TIDs are neither lost nor given out twice; equals share the CPU |
| Mailboxes (`k_msg.c`) | a bounded message list per task, `interrupt_flag` | `k_mbx_create`, `k_send_msg`, `k_recv_msg`, `k_recv_msg_nb`, `free_mailbox` | messages arrive once and in order; the size account matches the list; a blocked task has an empty mailbox; the sender is named rightly |
| Allocator (`k_mem.c`) | the free list from `HEAD`, a control block before each block | `k_mem_init`, `_alloc`, `_dealloc`, `_count_extfrag` | blocks never overlap; free and allocated blocks tile the heap; what is freed can be allocated again |
| Context switch, exceptions (`HAL_CA.c`, `k_tsk_switch`) | kernel stacks, CPSR, the GIC | `SVC_Handler`, `IRQ_Handler`, `c_IRQ_Handler` | a kernel call is atomic; every acknowledged interrupt is ended |
| KCD task (`app/kcd_task.c`) | command table, input buffer | registration, a key, a command line | a command goes to the task that registered it, once |
| Null task, boot (`main_svc_cw.c`, `k_rtx_init.c`) | – | `main`, `task_null`, `k_rtx_init` | there is always a task to run |
| Tests (`app/ae*.c`) | – | boot tables and test tasks | they show which calls are meant to be legal |
| Board support (`board/`) | device registers | GIC, timer, UART, printf, start-up | vendor code, not part of the kernel's logic |

How they interact: a task enters the kernel by SVC (interrupts masked until the
task is left) or, if privileged, by a direct call. Every call that changes a
task's state ends in `k_tsk_run_new`, which asks `scheduler` for the next task
and switches stacks. `k_send_msg` readies a blocked receiver and may preempt its
caller; the UART handler calls it for the KCD task. `k_tsk_create` and
`k_tsk_exit` allocate and free the task's stack and mailbox.

What is hard: the order of dequeue, rescan and insert in the scheduler; what
`yield_flag` and `highest_priority` say after a call that did not switch; the
null task, linked only after it has first been displaced; calls whose callers
the kernel trusts (a TID that is DORMANT, an empty TID pool, a second KCD task);
interrupts between a direct call's writes; allocation failure in the middle of a
send; what `kcd_task` still has in its buffer from an earlier line. `PROJECT.json` lists each hazard at its line with the property that
covers it.

## 2. Plan

Done, in this order: the scheduler (`ReadyQueue`, `KTask`) and its proofs; the
allocator (`FreeList`, `Heap`) with its abstract specification (`MemPool`) and
its own tests (`HeapTests`); mailboxes and the UART handler (`KMsg`), on the
calls of `KTask`; the KCD task (`Kcd`) and, with everything below it,
TEST 2 (`Test2`); then the order of service, the accounts of the mailboxes and
the allocator as theorems; then TEST 2: that it keeps the kernel in order, that
it passes, and what the commands are that are sent.

```
 Test2 --> KMsg --> KTask --> ReadyQueue        HeapTests --> FreeList
   \--> Kcd                                     Heap      --> FreeList
                                                Heap  ==implements==>  MemPool
```

Left, in this order:

1. `TaskList`: the linked lists pointer by pointer and the TID ring buffer, shown
   to implement `ReadyQueue`'s sequences and `KTask`'s pool.
2. TEST 3's `utask1` and `utask2` (a task that fills the mailbox of another it
   has set to the lowest priority) on `KMsg`.

## 3. Modules

**`ReadyQueue`** – operators only. A queue is a record of the lists and
`highest_priority`; a list is the sequence of the TIDs it links, head first.
That abstraction is right only while no TCB is linked twice (a TCB has one
`next`); `LinkedOnce` says so, and `KTask` stops (`wild`) when it is broken.
`insert_into_tasks`, `dequeue`, `retrieve_from_tasks` (`Rescan`, `Retrieved`),
`remove_node` and `update_highest_priority` are the functions of `k_task.c`.
`Links` and `TopExact` are the two halves of the queue's invariant.

**`KTask`** – tasks and scheduler.

| TLA+ | code |
|---|---|
| `gp_current_task`, `g_tcbs`, `rq`, `yield_flag`, `available_tid_queue`, `g_num_active_tasks` | the globals of those names; `rq` is `tasks[]` and `highest_priority`; the TID ring buffer is the sequence of its entries |
| `booted` | the loop index of `k_tsk_init` |
| `wild` | a NULL TCB or message has been dereferenced, or a TCB linked twice: nothing is modelled after that |
| `k_tsk_init` | one iteration of the loop over the boot tasks |
| `k_tsk_yield`, `k_tsk_create`, `k_tsk_exit`, `k_tsk_set_prio` | the calls; `k_tsk_set_prio` is the disjunction of its branches |
| `k_recv_msg`, `k_send_msg` | the paths of `k_msg.c` that change a task's state: the caller blocks; the receiver was blocked |
| `c_IRQ_Handler` | the call of `k_tsk_run_new` at its end |
| `k_tsk_run_new(s, q, y)` | `k_tsk_run_new` and `scheduler` on the TCBs, queue and flag the caller has prepared |

A step is one kernel call from entry to the context switch: an SVC runs with
interrupts masked. Calls that return `RTX_ERR` at a guard change nothing and are
stuttering steps. Not in the model: stacks and registers, `u_stack_*`,
mailboxes, the allocations of `k_tsk_create_new` and `k_tsk_exit`, the range
test of `k_tsk_set_prio` (inputs are drawn from the legal levels), and the guard
that refuses levels 0 and 255 in `k_tsk_create`. The null task makes no call but
`k_tsk_yield`, and while it runs interrupts stay masked (`k_rtx_init.c:57`; its
saved CPSR has them masked too), so `TaskRuns` guards every other action.

`Avoid` names the calls that the code accepts and mishandles (`no_tid`,
`kcd_twice`, `self_raise`, `drain_top`, `not_ready`). A run or a theorem that
assumes them away says so there. Two have a run that shows what they do,
`ktask_self_raise` and `ktask_no_tid`; the other three have none: they are
actions of the model, which `ktask_any_caller` takes for the types only.

**`MC_KTask`** – the boot tables of the instances.

**`KMsg`** – mailboxes and the UART handler, over `KTask`.

| TLA+ | code |
|---|---|
| `mbx` | the `MailBox` of each task: `max_size`, `curr_size`, the list; a task without one has `max = 0`. Of a message the model keeps length, type, data, the sender the code records (`sender`) and, for the property only, who really sent it (`from`) |
| `kctx` | what the kernel stack of a task that is switched out remembers: that it is in `k_recv_msg` (`recv`, `recv_null`), in the loop of `c_IRQ_Handler` (`irq`) or behind its `k_send_msg` (`irq_sent`) |
| `rx`, `irq_active` | the receiver of the UART; an interrupt acknowledged and not yet ended |
| `interrupt_flag` | the global of that name |
| `blocks` | how many heap blocks mailboxes, messages and the handler hold |
| `nb`, `refused` | history, for the properties: `recv_msg_nb` has been used on the mailbox; a character has been refused |
| `k_mbx_create`, `send_msg`, `recv_msg_nb`, `tsk_exit` | the calls, each one step |
| `RecvAtOnce`, `RecvSleep`, `RecvWoken`, `RecvWokenNull` | `k_recv_msg` with a message waiting; up to the switch with none; what is left of it, with and without a buffer |
| `UartIrq`, `IrqChar`, `IrqFree`, `IrqEnd` | `c_IRQ_Handler`: acknowledge; one character, allocated and sent; its buffer freed; the end of the interrupt and `k_tsk_run_new` |

`k_send_msg` wakes the receiver with `KTask`'s `k_send_msg`; if that preempts the
handler, its task stands at `irq_sent` until it is switched in. `SIZEMOD` is the
width of `size_t`. Allocations succeed.

**`FreeList`** – operators of `k_mem.c` on byte addresses. The list is the
sequence of its blocks from `HEAD`; a block is its address and its size, the
header (16 bytes) in front of it. Rounding wraps on a `size_t`. `WithBlock` is
`k_mem_dealloc`'s walk, `WalkEnd` where it stops: at the block itself, at one
that touches, at the last one below; off the end is `RTX_ERR`. The round-up of a
request just below 2^32 gives 0, and such a request is served (section 6).

**`Heap`** – the heap under everybody who uses it: `k_mem_alloc` and
`k_mem_dealloc` by their owners, stacks at create and exit, the node and the text
of messages, the UART handler's buffer, with its send accepted or refused and its
free later (`IrqChar`, `IrqFree`). `held` is the set of the allocated
blocks with owner, request and use. Kernel calls are atomic; the direct call of
`kcd_task` is two steps (`DirectScan`, `DirectTake`). `Avoid` names two calls
that the code mishandles and that callers are assumed not to make: `interrupted`
(something runs between the two steps: two callers then get one block) and
`double_free` (a block freed twice in a row that had been merged downwards
with a free block behind it). No run shows what these two do. A block of the
kernel whose free is refused stays in `held` as `lost`: it is in no other block, and
nobody can free it.

**`MemPool`** – what an allocator promises: disjoint areas inside the pool are
handed out and given back. `Heap` implements it with `held` as the areas,
headers included.

**`HeapTests`** – the test functions of TEST 1 as scripts: allocate, free,
compare. A failed check ends a test with the frees its code makes there, or is
only reported, as in the code.

**`Kcd`** – the data of `kcd_task` (`cmd_ids`, `input_buf`, `tail`) and what one
message does to it; operators only.

**`Test2`** – TEST 2: `kcd_task`, `utask1`, `utask2`, `utask3`, the null task, the
handler and a person. `pc` is where a task stands in its own code; a step goes
from one kernel call, or access to `turn`, to the next; an interrupt can come
between any two. The branches on failed `mbx_create` and `mem_alloc` are left out
(memory suffices), and the right lines are what the prompts ask for; the prompt
of the code asks for `%dGROUP`, while utask2 compares with `dGTA`
(`ae_usr_tasks.c:590`, `545`): the script has the latter, without which the test
cannot pass. A person who is not `hasty` waits for the prompts, and may mistype
one line: junk (`BeginJunk`) or a bare one, an Enter with nothing or only `%`
before it (`BeginBare`). The two are kept apart because a bare line is a command:
`kcd_task` never clears `input_buf`, and finds the letter of the line before there
(section 6). A hasty person types up to `Haste` lines ahead. `LinesAssumption`
gives the script; of the junk it asks that a line is not bare, ends with Enter, is
no command of the test (`NoCommandOfTest`) and is not longer than `JUNK_SIZE`,
what the KCD task's mailbox has room for next to a line of the script.

`kcd_task` calls `k_mem_alloc` as a plain function, with interrupts enabled, twice
behind `mbx_create` and once for every command. `pc` stands at `alloc` and at `send`
in these calls (`Allocating`). A character that comes there may fall between the walk
and the writes of the allocator, as in `Heap`, and then two callers get one block:
`IrqTears` puts the KCD task at `torn`, after which nothing is modelled. It may as
well do no harm, and then the handler runs as elsewhere. `SizesAssumption` and
`Test2Assumption` are what the tasks ask of the kernel and the boot table of
`ae.c`: the order of the four priorities, not their values.

**`MC_KMsg`, `MC_Test2`** – the boot tables, the script and the junk of the
instances.

**`ReadyQueueProofs`, `KTaskProofs`, `SumTheorems`, `KMsgProofs`, `HeapProofs`,
`Test2Proofs`, `Test2PassProofs`, `Test2CommandProofs`** – section 5.

## 4. Runs

| Run | Shows | Instance |
|---|---|---|
| `ktask_core` | the nine properties below, callers avoiding every defect | 5 TCBs (null, KCD, three more), levels 0..4, boot table of TEST 3; 99 523 states |
| `ktask_any_caller` | `TypeOK` for any callers | 3 TCBs, levels 0..2, one privileged boot task; 54 365 states |
| `ktask_self_raise` | violation of `StrictPriority` | `self_raise` allowed |
| `ktask_single_boot` | violation of `ExitIsFinal` | one boot task, as TEST 1 |
| `ktask_no_tid` | violation of `NullTcbIntact` | `no_tid` allowed |
| `ktask_stale_yield` | violation of `KeepsCpuFromEquals` | every defect avoided |
| `kmsg` | `NoLostWakeup`, `AccountExact`, `SenderNamed`, `BlocksExact`, `HandlerSurvives` | 3 TCBs, a mailbox of 34 and messages of 18 bytes (one fits), one character in the receiver; 282 286 states |
| `heap` | `Tiling`, `Coalesced`, `NullOnlyWhenFull`, `AskedFor`, `RefusedOnlyAtTheEnd`; `Heap` implements `MemPool` | 127 bytes from an unaligned image end, two callers, requests of 1, 30 and 250 bytes, of which the last wraps; 739 280 states |
| `heap_stack` | violation of `StackInItsBlock` | as `heap` |
| `heap_tests` | `TestsPass`, `PassedMeansRestored` | TEST 1 on heaps that end at eleven addresses from 150 to 20 000; 1 233 states |
| `test2` | `PassIfObeyed`, `KernelSound`, `CommandsAsTyped`, `StaleTextNotSent`, `KeyboardAlive`, `TestFinishes` | the boot table of `ae.c`, six lines of script, five of junk, the two bare ones, `input_buf` of 6; 123 768 states |
| `test2_bare` | violation of `InputCommands` | as `test2` |

Properties of `ktask_core`: `ReadyListExact` (the lists are the READY tasks),
`HighestPriorityExact`, `StrictPriority`, `CurrentRuns` (one task RUNNING, the
current one), `TidPoolExact`, `NeverWild`; the action properties `FifoLevels`
(no overtaking on a level) and `DispatchIsFirst` (the task switched in is the
first of the most urgent). Both except the task that a `set_prio` of this very
step requeues. `RoundRobin`, under `FairSpec`, says that an equal gets the CPU.

Bounds. Three levels for users, one above and the null level below give the
scheduler every relation of three priorities: a task can be moved past the level
that is served, and `Rescan` has levels to skip. Two user levels are too few: they
hide the case that the exception of `DispatchIsFirst` is for (section 5). Three
ordinary TIDs and the KCD task allow three tasks on one level and one on
another, an exit followed by the reuse of its TID, and a pool that is empty,
full or in between. `U32MOD` stands for 2^32: it is above twice
`MAX_TASKS`, so that the wrap of `g_num_active_tasks` below 0 still gives a number that
`k_tsk_create` refuses. No other counter is unbounded.

In `kmsg`, 34 bytes is the header of a mailbox and one message of 18: the second
is refused; a KEY_IN message of 9 fits twice. A user task and
the KCD task, on two levels, send to each other and to themselves; either can exit,
and the one that is left can create the other again. More tasks at once are in
`test2`. `MaxNb` bounds the polling
receives on one mailbox, because each one moves `curr_size` further off.

In `heap`, the memory holds up to five blocks with their headers,
so that every order of free and held neighbours, a
rest that is too small to split off and a full heap occur; 1 and 30 both need
rounding, to 8 and 32. `U32MOD` is 256, so that 250 is rounded up to 0. `RAM_END` is not a multiple of 8, and neither is
the image's end. `heap_tests` puts the end on both sides of what the ten blocks
of `heap_leakage_test` need (14 256 is that need, 14 280 with room to split).

In `test2`, `input_buf` has 6 characters instead of 64, so that the five lines of
junk reach both sides of its end; `Haste` of 3 lines fills a mailbox that has
room for one command, so that commands are refused. `RxDepth` is 1: a person
types more slowly than the handler reads.

`CHECK_DEADLOCK FALSE` appears where callers reach `wild` states, after which
nothing is modelled, in the runs that end in a violation, in `heap` (once the
last byte is allocated `HEAD` is NULL, and the code refuses every free from then
on: nothing can happen any more), in `heap_tests`
(the tests end) and in `test2` (the KCD task may be in its `wild` state, or the
heap torn).

Fairness. `FairSpec` is weak fairness of `CpuGivenUp`: whichever task runs
eventually yields, blocks in `recv_msg` or exits. The kernel has no time slice,
so it depends on its tasks for this: it is an assumption on tasks. Those of `app/`
mostly loop around `tsk_yield` or `recv_msg`, but utask2 of TEST 2 spins on `turn`
(`ae_usr_tasks.c:553`), and there `Test2` has the spin and assumes no more than the
processor. Nothing is assumed of any particular call, of creation or of
interrupts. `RoundRobin` excepts a task that `set_prio` requeues for ever.
`Test2` has weak fairness of `Cpu` (the processor executes the current task, in
its own code or in the kernel), of `Interrupt` (a pending interrupt is taken if
it stays possible: a level-triggered GIC line) and, of the person, of
`BeginScript` and `Press` (who is asked for a line types it, and ends the lines
begun). Junk, bare lines and typing ahead are never forced. No fairness is assumed of the
choice between tasks: the scheduler makes it.

What the properties of the newer runs say:

- `NoLostWakeup`: a task sleeps in `k_recv_msg` exactly as long as its mailbox is
  empty. `AccountExact`: `curr_size` is what the list weighs, within `max_size`.
  `SenderNamed`: the recorded sender is the real one unless the UART has had a
  character refused. `BlocksExact`: no block is leaked or freed twice.
  `HandlerSurvives`: an interrupt in progress has one handler, in a task that can
  still be scheduled.
- `Tiling`: every byte is in exactly one block. `Coalesced`: no two free blocks
  touch. `NullOnlyWhenFull`: NULL only if no gap has room. `AskedFor`: alignment,
  and the size asked for, except for a request whose rounding wraps (`Wraps`). `RefusedOnlyAtTheEnd`: RTX_ERR for a rightful free only for a block
  behind the last free one that does not touch it (that free does lose the
  block, for the code's walk has no case for it; with an empty free list this is so
  for every block).
- `TestsPass`, `PassedMeansRestored`: the allocator's tests pass with room for
  them; and if they report nothing, the heap is as before, however small.
- `PassIfObeyed`: 11 of 11 and no crash for a person who answers the prompts and
  types no bare line, whatever the interleaving, with one exception: a key of a
  line of junk, typed while a line of the test is handled, can tear the heap. Who
  types the lines of the test alone, when asked, cannot. `KernelSound`: also for a
  hasty one and with bare lines, the kernel's invariants hold, until an
  interrupted allocation tears the heap or until the one call of the test that the
  kernel mishandles (section 7). `CommandsAsTyped`: also for a hasty one, without
  bare lines and until the heap is torn, the commands sent are lines typed, in
  order, none twice. `StaleTextNotSent`: a bare line sends at most one command, and
  that is empty, so that no text of an earlier line is sent again.
  `KeyboardAlive`: characters are read and interrupts ended, for ever (or the KCD
  task has crashed, see section 7). `TestFinishes`: the test of a person who is not
  hasty comes to its end, unless a bare line or a torn heap spoils it.

## 5. Proofs

TLAPS checks these for every `MAX_TASKS` of 3 or more, every number of levels,
every boot table that fits (`TaskAssumption`, `PrioAssumption`), mailboxes and
messages of all sizes up to half of `SIZEMOD` (`MsgAssumption`), every pool, every
request from 1 byte to the greatest `size_t` (those that wrap included), every junk
that `LinesAssumption` admits, and behaviours of any length.

| Theorem | Says | Assumes |
|---|---|---|
| `TypeCorrect` | `Spec => []TypeOK`; the TID pool stays inside its array | nothing of the callers |
| `SchedInvariant` | `Spec => []SchedInv` | `WellUsed` |
| `ReadyListCorrect`, `HighestPriorityCorrect`, `StrictPriorityHolds`, `CurrentRunsHolds`, `TidPoolCorrect`, `NeverWildHolds` | the six invariants of `ktask_core` | `WellUsed` |
| `MsgSchedInvariant` | `MsgSpec => []SchedInv` | `WellUsed` |
| `MsgInvariant` | `MsgSpec => []MsgInv` | `WellUsed` |
| `NoLostWakeupHolds`, `SenderNamedHolds`, `HandlerSurvivesHolds`, `AccountExactHolds`, `BlocksExactHolds` | the five invariants of `kmsg` | `WellUsed` |
| `FifoLevelsHolds`, `DispatchIsFirstHolds` | the two action properties of `ktask_core` | `WellUsed` |
| `MsgOrderHolds` | the same of `MsgSpec` | `WellUsed` |
| `HeapInvariant` | `Spec => []HeapInv` of `Heap` | `Careful` |
| `TilingHolds`, `CoalescedHolds`, `NullOnlyWhenFullHolds`, `AskedForHolds`, `RefusedOnlyAtTheEndHolds` | the five invariants of `heap` | `Careful` |
| `PoolRefined` | `Heap` implements `MemPool` | `Careful` |
| `KernelSoundHolds` | `Test2Spec => []KernelSound` | the script and the boot table |
| `Test2OrderHolds` | the two action properties of `ktask_core`, in TEST 2 | the script and the boot table |
| `PassIfObeyedHolds` | `Test2Spec => []PassIfObeyed` | the script and the boot table |
| `CommandsAsTypedHolds` | `Test2Spec => []CommandsAsTyped` | the script and the boot table |

`WellUsed` says that callers avoid the five calls of `Defects` and that the boot
table has two tasks or more. Section 6 shows why it is needed: without it the
code breaks the invariants. `Careful` says the same of the heap's users: they
avoid `interrupted` and `double_free`. The theorems about `Test2` are about given
callers, and show that these avoid `Defects`; they do not avoid `interrupted`, and
what an interrupted allocation spoils is excepted in the properties (`Torn`). What the
theorems assume are the three named assumptions of `Test2`.

The six invariants are not inductive one by one. `SchedInv` adds what the code
relies on without saying so:

- `TaskCurrent`: while a task runs, the null task is linked. So the list the
  scheduler serves is never empty, and `retrieve_from_tasks` never answers NULL.
  Also, `highest_priority` is no more urgent than the running task.
- `NullCurrent`: the null task runs in two situations only, before its first
  yield (it is linked nowhere, and two boot tasks wait: with one, the rescan
  finds nothing and leaves `highest_priority` stale) and when nothing else is
  READY (it then displaces itself, and is READY while it runs).
- `NullApart`: nobody else has the level or the TCB of the null task.
- `BootRoom`: the pool holds a TID for every boot task still to come.

The argument, in `KTaskProofs`: a call hands TCBs and a queue to `k_tsk_run_new`
that satisfy `Prepared`; whichever branch the scheduler takes (`GiveUpSwitch`,
`DisplaceSwitch`, `StaySwitch`, for the null task `NullSwitch`), the state after
it satisfies `Switched`; `InvAfter` turns that into `SchedInv'`. One lemma per
action (`CreateHands`, `SendHands` ...) shows that it prepares its arguments. `drain_top` is needed in
`SetPrioReadyHands` alone, `no_tid` and `kcd_twice` in `CreateHands`. The facts
about the lists are in `ReadyQueueProofs`: what `insert_into_tasks`,
`retrieve_from_tasks` and `remove_node` do to `Links` and `TopExact`.

`KMsgProofs` builds on that. An action of `KMsg` makes one call of `KTask` or none
(`SpecOfCalls`), by the way it is written. So `SchedInv` holds in `KMsg` too
(`MsgSchedInvariant`), and may be assumed at both ends of a step. `MsgInv` is inductive relative to it: the types of the new variables,
`NoLostWakeup`, `SenderInv` (what `interrupt_flag` can be: up only in a state
in which a character has been refused) and `HandlerInv` (`irq_active` exactly while one
task stands in the handler; such a task is READY or RUNNING, never asleep,
because only its own `k_recv_msg` could block it). The lemmas `RecvStates`,
`SendStates`, `ExitStates` ... say once what each call of `KTask` does to the
states of tasks; `WakeFrame` says that `k_tsk_run_new` blocks nobody.

The order of service. `StepKinds` reduces a step to what it does to the queue:
nothing; one task linked that was not READY; the null task's yield; a task's
call that hands over the queue as it was, with such a task, or with one that
`set_prio` requeues. `InsertOrder`, `RetrieveOrder` and `RemoveOrder` say that
none of the queue's operations changes the order of two tasks it does not move,
that insertion is behind everybody and that nobody is ahead of the task
retrieved. The rest is who the moved tasks are: the caller is RUNNING and on no
list; a woken or new task neither; the null task, when it requeues itself, is
alone. `DispatchIsFirst` was first stated with a narrower exception, for a
`set_prio` that requeues the task on the level it already has. That holds on two
user levels and is false on three: a task yields, displaces nobody and leaves
`yield_flag` up, then blocks or exits; a less urgent task is dispatched and runs
with the flag up among its equals; its `set_prio` moves the first of them to a
still less urgent level, and the call, because of the stale flag, dispatches the
second, which was behind. TLC shows this with `PRIO_NULL = 4`, hence the bound
of `ktask_core`.

The accounts. `AccountExact` and `BlocksExact` are sums, over the messages of
a mailbox and over the tasks; the community modules define them by a fold. The
prover has no induction over an operator, but it has well-founded minimality
over sets: `SumTheorems` takes the set of the sizes for which a fact fails, picks
its least element and refutes it. So it shows what a sum becomes when an element
is appended, dropped or changed, which is all that the calls do. The account
also needs that `curr_size` cannot wrap: `k_send_msg` compares it with `max_size`
after an addition in `size_t`. The proof failed for sizes up to `SIZEMOD`, where
a message that wraps the sum is accepted, so `MsgAssumption` bounds the sizes by
half of it, 2^31 in the code, more than the board has memory.

The allocator. `HeapInv` is inductive: the free list is sorted, in the pool, and
no two of its blocks touch (`GoodList`); every held block lies in the pool, has
an aligned address and suits its request (`Suits`); no byte is in two
blocks (`NoneTwice`) and every byte is in one (`NoneLost`); a message's two
blocks and the blocks of a scan in progress are what their owners take them for
(`MailHeld`, `FoundFits`). It speaks of bytes, as ranges, and not of `Covering`'s
cardinalities, because then a split or a merge is a fact about intervals.
The first part of `HeapProofs` has the facts about the list, whatever its length: `TakeFacts`
(first fit takes the first block that fits, whole or split, and leaves the rest
good), `PutFacts` and `JoinFacts` (linking a block between its neighbours, and
merging with none, one or both), `WalkFacts` (where the walk of `k_mem_dealloc`
stops, and that it refuses only behind the last block). Each replaces a stretch
of the list by another, which `Splice` treats once. `Tiling` follows from
`NoneTwice` and `NoneLost`, `NullOnlyWhenFull` from `NoneLost` and `GoodList`: a gap
between held blocks is free, so it lies in one free block, since free blocks do
not touch. `PoolRefined` maps each call to `HandOut` or `GiveBack`.

TEST 2 keeps the kernel in order (`Test2Proofs`). Most of its steps are steps of
`MsgSpec` that `WellUsed` admits, and there `MsgInvariant` applies as it stands;
what has to be shown is that the tasks avoid `Defects`, and that nothing but
`IrqTears`, which ends the behaviour, leaves those steps. They create no task, and
`set_prio` is called once, by utask2 on utask1. The kernel is sound until then
if utask1 is asleep or has gone, never READY and never the caller. It is so by
the boot table: utask1 is more urgent than utask2, so utask2 runs only while
utask1 sleeps (`U1Waits`). If it sleeps, the call only changes the
priority of a blocked task; if it has gone, the call uses a NULL TCB and `wild`
holds from then on. `Test2OrderHolds` follows from the same invariant.

TEST 2 passes (`Test2PassProofs`). The invariant follows the keys. A key typed is at
exactly one place of its way: in the receiver, with the handler, in the mailbox
of the KCD task, in `kcd_buf`, or in `input_buf` (`Way`, `OnTheWay`); what is on
the way, read from the far end, is a prefix of a line typed and then what is
left of it. A line typed is being typed, is being sent, has been sent and waits in
a mailbox, or has been received, or is junk (`Accounted`), and the number of
prompts says which line of the script is next. The argument needs that
registrations and keys do not mix: the KCD task is the most urgent, so it sleeps on an empty
mailbox whenever another task acts (`KcdAsleep`), and a registration finds no key before it. It
needs that nothing is refused: one line of junk and one of the script fit into
the KCD task's mailbox, one command fits into that of utask1 or utask2. And it needs that
each command goes to who waits for it: the command table follows the
registrations that have been made. At the end utask1 waits for utask2's report
when its priority is set (`StaysSound`), so that even this call is handled, and
the count it prints is 11. Where a person types ahead each of these breaks:
hence the hypothesis `~user.hasty`. A bare line breaks the last: hence `~user.bare`.
The heap can be torn only while `kcd_task` stands in a direct allocation. At the start
nobody has been prompted and nothing typed; before a command is sent the line is
complete, so that a key on its way is one of another line, and for who waits for
the prompts that is a line of junk (`TearNeedsJunk`).

The commands are lines typed, in order, each at most once (`Test2CommandProofs`),
as long as nobody types a bare line and the heap is not torn, also where a person types ahead, keys are lost, lines are refused or the test
crashes. For who does what the test asks for, a line is answered before the next is
begun: the commands sent are the first `Answered` lines, those received and the
one that waits in a mailbox. A command is sent when it is the next line
(`NextLineWanted`, `KcdSendAnswers`), and no other step takes an answer back
(`AnsweredRest`). For a hasty person, who types nothing but the script, all keys are
one stream, `KeysOf(user.line)`, and `Reading(m, s)` says where in it `kcd_task` is:
`m` lines are done with, `input_buf` holds what follows the first `s` keys, and the
buffer of the handler, the mailbox, the receiver and the keyboard hold the rest in
order. Keys can be lost in one way only: while `kcd_task` has no mailbox the handler
drops them (`IrqRefusedStreams`), so that its first line may be the end of a line,
which has no `%` and is thrown away. Later nothing is lost, because the mailbox
has room for all the keys of the script (`ScriptHasRoom`). So a line that starts
with `%` is a line of the script from its beginning, and one that is sent is sent
as it was typed (`TextRead`), after those before it.
When the test crashes the KCD task sends no more (`CrashIsFinal`).

Only model-checked: the tests `TestsPass` and `PassedMeansRestored` of the
allocator, which are recursive computations on given sizes; `StaleTextNotSent`; and
the liveness
properties `RoundRobin`, `KeyboardAlive` and `TestFinishes`, since liveness under
fairness is out of the prover's reach.

## 6. Findings

- `ktask_self_raise`: a task that sets its own priority to any level above
  every READY task's, even the level it has, moves `highest_priority` to an
  empty list. Its next yield dequeues NULL and links the running task.
- `ktask_single_boot`: with one boot task the rescan after the first dispatch
  finds nothing, `highest_priority` stays on an empty level, and a task that
  exits or blocks is put back on the CPU.
- `ktask_no_tid`: `tsk_create` with an empty TID pool builds the task in the
  null task's TCB.
- `ktask_stale_yield`: a yield that displaced nobody leaves `yield_flag` up, and
  a later call or interrupt takes the CPU from a task for an equal.
- `heap_stack`: the user stack pointer of a new task is the low end of the block
  allocated for its stack, which then grows down over the blocks below.
- `test2_bare`: after `%cGTA` a bare Enter, or `%` and Enter, sends a message
  without text to the task that has registered `c`, because `kcd_task` tests an
  `input_buf` that nothing clears. utask1 or utask2 takes it for the line it waits
  for, and a check of the test fails.

Two more things the models have as the code does, seen in writing them, each
without a run of its own:

- A request of 2^32 - 7 bytes or more passes `k_mem_alloc`'s test for size 0, is
  then rounded up to 0 and served with a block of 0 bytes (`k_mem.c:134-145`). No
  caller gets what it asked for in that case: `AskedFor` says so (`Wraps`).
- `g_num_active_tasks` is not the number of tasks that are not DORMANT, which is
  what `k_task.c:72` calls it: `k_tsk_create` does not increment it, `k_tsk_exit`
  decrements it, below 0 in the end, and from then on `k_tsk_create` refuses.

## 7. Not modelled

- TEST 0 (prints and yields; its calls are all in `ktask_core`) and the testers
  of `ae_priv_tasks.c`, which no task calls; TEST 3, whose boot table starts one
  task that sends one message; its `utask1` and `utask2` are in no boot table and
  wait in the plan.
- Allocation failure inside `k_send_msg`, `kcd_task` and `k_tsk_create_new`: the
  code writes through NULL, and nothing meaningful can be said after that.
- What is copied where: `k_recv_msg_nb` stores the sender in its own parameter
  and may copy past the caller's buffer; the model has no buffers of callers.
- Interrupts in the middle of a privileged task's direct kernel calls. Two tasks
  that are not privileged call the allocator directly too: `kcd_task`, whose
  allocations can be interrupted in `Heap` and `Test2`, and utask1 of TEST 1, whose
  calls are atomic in `HeapTests`: no KCD task is booted there, so that the handler's
  characters are only allocated, refused and freed, but these too could come
  between two writes.
- What a torn heap does in `Test2`: the model stops there (`Torn`), and the properties
  except it.
- The buffers that `kcd_task` allocates for commands and never frees: memory is
  taken to suffice.
- Two blank cases of a hasty person in `Test2`: a registration whose sender came
  out as `TID_UART_IRQ` makes `kcd_task` index `g_tcbs` with 255, and a
  `tsk_set_prio` of `utask1` after its exit uses a NULL TCB. The model stops
  there (`wild`), and `KeyboardAlive` excuses it. Apart from an interrupted
  allocation the second is the only call of TEST 2 that the kernel mishandles
  (`KernelSoundHolds`).
- The timer branches of `c_IRQ_Handler`, which print and touch no kernel state;
  drivers, start-up code, `printf` and the SVC wrappers.
- `k_tsk_ls`, `k_tsk_create_rt`, `k_tsk_done_rt`, `k_tsk_suspend` and `k_mbx_ls`
  are stubs. README.md:22 of the sources speaks of priority-based message
  handling; mailboxes are first come, first served, and the models have that.
