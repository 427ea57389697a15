-------------------------------- MODULE KMsg --------------------------------
(***************************************************************************)
(* Mailboxes, kernel/k_msg.c, and the UART interrupt handler that sends to *)
(* one, c_IRQ_Handler of kernel/HAL_CA.c, on top of the scheduler.         *)
(*                                                                         *)
(* A kernel call is one step, as in KTask, unless it switches tasks in its *)
(* middle: k_recv_msg that finds its mailbox empty, and the handler when   *)
(* its message wakes the KCD task, go on when their task is switched in    *)
(* again.  kctx says where each task stands; a task that is inside the     *)
(* kernel runs with interrupts masked.  Calls that return RTX_ERR before   *)
(* they change anything are stuttering steps.                              *)
(***************************************************************************)
EXTENDS KTask

CONSTANTS
  SIZEMOD,      \* 2^32, like U32MOD, which also bounds g_num_active_tasks
  MbxSizes,     \* the sizes tasks ask for
  Lengths,      \* the lengths of the messages of tasks
  Keys,         \* the characters that are typed
  RxDepth,      \* bound: characters waiting in the receiver of the UART
  MaxNb         \* bound: successful recv_msg_nb on one mailbox

MailBoxSize     == 16       \* sizeof(MailBox)
MessageNodeSize == 12       \* sizeof(MessageNode)
HdrSize         == 8        \* sizeof(RTX_MSG_HDR)
MIN_MSG_SIZE    == 1
MIN_MBX_SIZE    == 1
TID_UART_IRQ    == 255      \* not a task: interrupt_flag stands for it

(* Sizes and lengths are below 2^31: more than the memory of the board. *)
ASSUME MsgAssumption ==
  /\ SIZEMOD \in Nat /\ SIZEMOD > 2 * MailBoxSize
  /\ MbxSizes \cup Lengths \subseteq 0..(SIZEMOD \div 2 - 1)
  /\ RxDepth \in Nat \ {0} /\ MaxNb \in Nat
  /\ MAX_TASKS <= TID_UART_IRQ

VARIABLES
  mbx,              \* the mailboxes of the tasks
  kctx,             \* where a task stands in the kernel
  interrupt_flag,
  rx,               \* the characters the UART has received
  irq_active,       \* an interrupt is acknowledged and not ended: no other
                    \* one is delivered
  blocks,           \* heap blocks that this file and the handler hold
  refused           \* a message of the handler has been refused

ipc     == << mbx, kctx, interrupt_flag, rx, irq_active, blocks, refused >>
msgvars == << vars, ipc >>

(* NULL has no room.  nb counts what recv_msg_nb took since the creation. *)
NoMailbox    == [max |-> 0, curr |-> 0, msgs |-> << >>, nb |-> 0]
NewMailbox(n) == [NoMailbox EXCEPT !.max = n, !.curr = MailBoxSize]

(* user: running user code, or about to; recv: asleep in k_recv_msg, or      *)
(* woken and not yet run; recv_null: the same with buf = NULL; irq: at the  *)
(* head of the loop of the handler; irq_sent: behind its k_send_msg.        *)
KCtx == {"user", "recv", "recv_null", "irq", "irq_sent"}

MsgInit ==
  /\ Init
  /\ mbx = [t \in Tid |-> NoMailbox]
  /\ kctx = [t \in Tid |-> "user"]
  /\ interrupt_flag = FALSE
  /\ rx = << >>
  /\ irq_active = FALSE
  /\ blocks = 0
  /\ refused = FALSE

Current    == gp_current_task
Stands(at) == kctx[Current] = at
HasMbx(t)  == mbx[t].max # 0
IsEmpty(t) == mbx[t].msgs = << >>

Message(len, type, data) == [length |-> len, type |-> type, data |-> data]

-----------------------------------------------------------------------------
(* k_msg.c. *)

k_mbx_create(size) ==
  /\ TaskRuns /\ Stands("user")
  /\ size >= MIN_MBX_SIZE
  /\ ~HasMbx(Current)
  /\ mbx' = [mbx EXCEPT ![Current] = NewMailbox(size)]
  /\ blocks' = blocks + 1
  /\ UNCHANGED << vars, kctx, interrupt_flag, rx, irq_active, refused >>

(* Faulty variants: interrupt_flag is never reset; a receiver that sleeps is *)
(* not woken, or is linked and the CPU not given up; a message leaves with  *)
(* its length still counted; a mailbox is freed without its messages; the   *)
(* interrupt is not ended.                                                  *)
FlagAfterSend_kept(flag) == flag
Woken_never(t) == FALSE
Wake_no_switch(t) ==
  /\ g_tcbs' = [g_tcbs EXCEPT ![t].state = "READY"]
  /\ rq' = insert_into_tasks(rq, g_tcbs[t].prio, t)
  /\ UNCHANGED << gp_current_task, yield_flag, available_tid_queue,
                  g_num_active_tasks, booted, wild >>
Reduced_not(curr, n) == curr
BlocksOfMailbox_alone(b) == 1
AfterEnd_missing == TRUE

(* The sum is taken on a size_t. *)
Accepts(t, len) ==
  /\ g_tcbs[t].state # "DORMANT"
  /\ HasMbx(t)
  /\ len >= MIN_MSG_SIZE
  /\ (mbx[t].curr + len) % SIZEMOD <= mbx[t].max

FlagAfterSend(flag) == FALSE

Woken(t) == g_tcbs[t].state = "BLK_MSG"
Wake(t)  == k_send_msg(t)

(* The kernel's part of an accepted message, with interrupt_flag at flag;   *)
(* from is who really sends it.  Both allocations, MessageNode and text,    *)
(* succeed.                                                                *)
Deliver(t, m, flag, from) ==
  /\ mbx' = [mbx EXCEPT
       ![t].msgs = Append(@, [m |-> m, from |-> from,
                              sender |-> IF flag THEN TID_UART_IRQ ELSE Current]),
       ![t].curr = (@ + m.length) % SIZEMOD]
  /\ interrupt_flag' = FlagAfterSend(flag)
  /\ IF Woken(t) THEN Wake(t) ELSE UNCHANGED vars

send_msg(t, m) ==
  /\ TaskRuns /\ Stands("user")
  /\ Accepts(t, m.length)
  /\ Deliver(t, m, interrupt_flag, Current)
  /\ blocks' = blocks + 2
  /\ UNCHANGED << kctx, rx, irq_active, refused >>

(* dequeue_m and deallocate_msg.  A message longer than the caller's buffer *)
(* is freed like the others, with RTX_ERR.                                 *)
FirstOf(t) == Head(mbx[t].msgs)

Reduced(curr, n) == (curr + SIZEMOD - n) % SIZEMOD

TakeFirst(n, nb) ==
  /\ mbx' = [mbx EXCEPT ![Current].msgs = Tail(@),
                        ![Current].curr = Reduced(@, n),
                        ![Current].nb = @ + nb]
  /\ blocks' = blocks - 2

RecvAtOnce ==
  /\ TaskRuns /\ Stands("user")
  /\ ~IsEmpty(Current)
  /\ TakeFirst(FirstOf(Current).m.length, 0)
  /\ UNCHANGED << vars, kctx, interrupt_flag, rx, irq_active, refused >>

RecvSleep(at) ==
  /\ TaskRuns /\ Stands("user")
  /\ HasMbx(Current) /\ IsEmpty(Current)
  /\ kctx' = [kctx EXCEPT ![Current] = at]
  /\ k_recv_msg
  /\ UNCHANGED << mbx, interrupt_flag, rx, irq_active, blocks, refused >>

(* The rest of k_recv_msg, when the task is switched in. *)
RecvWoken ==
  /\ Stands("recv")
  /\ TakeFirst(FirstOf(Current).m.length, 0)
  /\ kctx' = [kctx EXCEPT ![Current] = "user"]
  /\ UNCHANGED << vars, interrupt_flag, rx, irq_active, refused >>

(* With buf = NULL the message stays. *)
RecvWokenNull ==
  /\ Stands("recv_null")
  /\ kctx' = [kctx EXCEPT ![Current] = "user"]
  /\ UNCHANGED << vars, mbx, interrupt_flag, rx, irq_active, blocks, refused >>

(* k_recv_msg_nb takes more off curr_size than k_send_msg has added. *)
recv_msg_nb ==
  /\ TaskRuns /\ Stands("user")
  /\ ~IsEmpty(Current)
  /\ mbx[Current].nb < MaxNb
  /\ TakeFirst(FirstOf(Current).m.length + MessageNodeSize, 1)
  /\ UNCHANGED << vars, kctx, interrupt_flag, rx, irq_active, refused >>

-----------------------------------------------------------------------------
(* k_task.c, where it concerns mailboxes. *)

BlocksOfMailbox(b) == 1 + 2 * Len(b.msgs)

(* free_mailbox.  The dangling pointer of the DORMANT task is not used: see *)
(* Accepts; k_tsk_create_new sets it to NULL.                               *)
tsk_exit ==
  /\ Stands("user")
  /\ k_tsk_exit
  /\ IF HasMbx(Current)
     THEN /\ mbx' = [mbx EXCEPT ![Current] = NoMailbox]
          /\ blocks' = blocks - BlocksOfMailbox(mbx[Current])
     ELSE UNCHANGED << mbx, blocks >>
  /\ UNCHANGED << kctx, interrupt_flag, rx, irq_active, refused >>

(* The calls that do not touch mailboxes. *)
OtherCall ==
  /\ Stands("user")
  /\ \/ k_tsk_init
     \/ k_tsk_yield
     \/ \E entry \in {"kcd_task", "user"}, p \in UserPrio : k_tsk_create(entry, p)
     \/ \E t \in Tid, p \in UserPrio : k_tsk_set_prio(t, p)
  /\ UNCHANGED ipc

-----------------------------------------------------------------------------
(* The UART and its interrupt. *)

KeyTyped(c) ==
  /\ Len(rx) < RxDepth
  /\ rx' = Append(rx, c)
  /\ UNCHANGED << vars, mbx, kctx, interrupt_flag, irq_active, blocks, refused >>

(* IRQ_Handler and GIC_AckPending, out of the user code of the current task. *)
UartIrq ==
  /\ TaskRuns /\ Stands("user")
  /\ ~irq_active /\ rx # << >>
  /\ irq_active' = TRUE
  /\ kctx' = [kctx EXCEPT ![Current] = "irq"]
  /\ UNCHANGED << vars, mbx, interrupt_flag, rx, blocks, refused >>

(* One iteration: a buffer is allocated and sent.  A refused message leaves *)
(* interrupt_flag set.                                                     *)
IrqChar ==
  /\ Stands("irq") /\ rx # << >>
  /\ LET m == Message(HdrSize + 1, "KEY_IN", << Head(rx) >>)
     IN  IF Accepts(TID_KCD, m.length)
         THEN /\ Deliver(TID_KCD, m, TRUE, TID_UART_IRQ)
              /\ blocks' = blocks + 3
              /\ UNCHANGED refused
         ELSE /\ interrupt_flag' = TRUE
              /\ blocks' = blocks + 1
              /\ refused' = TRUE
              /\ UNCHANGED << vars, mbx >>
  /\ rx' = Tail(rx)
  /\ kctx' = [kctx EXCEPT ![Current] = "irq_sent"]
  /\ UNCHANGED irq_active

IrqFree ==
  /\ Stands("irq_sent")
  /\ blocks' = blocks - 1
  /\ kctx' = [kctx EXCEPT ![Current] = "irq"]
  /\ UNCHANGED << vars, mbx, interrupt_flag, rx, irq_active, refused >>

(* GIC_EndInterrupt, then k_tsk_run_new. *)
AfterEnd == FALSE

IrqEnd ==
  /\ Stands("irq") /\ rx = << >>
  /\ irq_active' = AfterEnd
  /\ kctx' = [kctx EXCEPT ![Current] = "user"]
  /\ c_IRQ_Handler
  /\ UNCHANGED << mbx, interrupt_flag, rx, blocks, refused >>

-----------------------------------------------------------------------------

MsgNext ==
  \/ \E n \in MbxSizes : k_mbx_create(n)
  \/ \E t \in Tid, n \in Lengths : send_msg(t, Message(n, "DEFAULT", << >>))
  \/ RecvAtOnce
  \/ \E at \in {"recv", "recv_null"} : RecvSleep(at)
  \/ RecvWoken
  \/ RecvWokenNull
  \/ recv_msg_nb
  \/ tsk_exit
  \/ OtherCall
  \/ \E c \in Keys : KeyTyped(c)
  \/ UartIrq
  \/ IrqChar
  \/ IrqFree
  \/ IrqEnd

MsgSpec == MsgInit /\ [][MsgNext]_msgvars

-----------------------------------------------------------------------------
(* Properties. *)

Asleep(t)    == g_tcbs[t].state = "BLK_MSG"
Receiving(t) == kctx[t] \in {"recv", "recv_null"}
Handling(t)  == kctx[t] \in {"irq", "irq_sent"}

(* A task sleeps in k_recv_msg exactly as long as its mailbox is empty: no   *)
(* message, of a task or of the handler, arrives without waking it, and when *)
(* it goes on a message is there.                                           *)
NoLostWakeup ==
  \A t \in Tid :
    /\ Asleep(t) => Receiving(t)
    /\ Receiving(t) => HasMbx(t) /\ (Asleep(t) <=> IsEmpty(t))

(* curr_size is the header and the messages that wait, within the size the  *)
(* mailbox was created with, as long as recv_msg_nb is not used on it.      *)
LengthsOf(msgs) == [i \in DOMAIN msgs |-> msgs[i].m.length]

AccountExact ==
  \A t \in Tid :
    HasMbx(t) /\ mbx[t].nb = 0 =>
      /\ mbx[t].curr = MailBoxSize + SumFunction(LengthsOf(mbx[t].msgs))
      /\ ~IsEmpty(t) => mbx[t].curr <= mbx[t].max

(* recv_msg names the sender, unless a character has ever been refused: then *)
(* the next message of a task passes for one of the UART.                   *)
SenderNamed ==
  \A t \in Tid : \A x \in ToSet(mbx[t].msgs) :
    x.sender # x.from => refused /\ x.sender = TID_UART_IRQ

(* The heap blocks in use are the mailboxes, two for each message that waits *)
(* and the buffer of the handler: receiving, refusing and exiting leak none. *)
BlocksIn(b) == IF b.max = 0 THEN 0 ELSE 1 + 2 * Len(b.msgs)

BlocksExact ==
  blocks = SumFunction([t \in Tid |-> BlocksIn(mbx[t])])
             + Cardinality({t \in Tid : kctx[t] = "irq_sent"})

(* An interrupt that is not ended has a handler that can still end it: one   *)
(* task is inside it, and it is READY or running, whatever the tasks that   *)
(* were switched in before it have done.                                    *)
HandlerSurvives ==
  /\ irq_active => Cardinality({t \in Tid : Handling(t)}) = 1
  /\ \A t \in Tid : Handling(t) =>
       irq_active /\ g_tcbs[t].state \in {"READY", "RUNNING"}

=============================================================================
