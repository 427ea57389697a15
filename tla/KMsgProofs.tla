----------------------------- MODULE KMsgProofs -----------------------------
(***************************************************************************)
(* Theorems about KMsg, for every number of tasks, boot table, mailbox and *)
(* message size: mailboxes and interrupts refine KTask, so SchedInv holds  *)
(* of them too; with it no wake-up is lost and an interrupt that is not    *)
(* ended always has a handler to end it.                                   *)
(***************************************************************************)
EXTENDS KMsg, KTaskProofs, SumTheorems

-----------------------------------------------------------------------------
(* Every step is a step of KTask, or leaves the tasks and queues alone. *)

LEMMA DeliverRefines ==
  ASSUME NEW t \in Tid, NEW m, NEW flag, NEW from, Deliver(t, m, flag, from)
  PROVE  k_send_msg(t) \/ UNCHANGED vars
BY DEF Deliver, Wake

(* The steps of programs that send messages of their own and make no call   *)
(* that the kernel mishandles: those of MsgNext when it is used well, and    *)
(* those of the programs of app/.                                           *)
Sender   == Tid \cup {TID_UART_IRQ}
Length   == Lengths \cup {HdrSize + 1}
RtxMsg   == [length : Length, type : {"DEFAULT", "KCD_REG", "KEY_IN"}, data : Seq(Keys \cup Nat)]

CarefulCall ==
  /\ Stands("user")
  /\ \/ k_tsk_init
     \/ k_tsk_yield
     \/ \E entry \in {"kcd_task", "user"}, p \in UserPrio : Creatable(entry) /\ k_tsk_create(entry, p)
     \/ \E t \in Tid, p \in UserPrio : Settable(t, p) /\ k_tsk_set_prio(t, p)
  /\ UNCHANGED ipc

MsgStep ==
  \/ \E n \in MbxSizes : k_mbx_create(n)
  \/ \E t \in Tid, m \in RtxMsg : send_msg(t, m)
  \/ RecvAtOnce
  \/ \E at \in {"recv", "recv_null"} : RecvSleep(at)
  \/ RecvWoken
  \/ RecvWokenNull
  \/ recv_msg_nb
  \/ tsk_exit
  \/ CarefulCall
  \/ \E c \in Keys : KeyTyped(c)
  \/ UartIrq
  \/ IrqChar
  \/ IrqFree
  \/ IrqEnd

LEMMA MessageType ==
  /\ \A n \in Lengths : Message(n, "DEFAULT", << >>) \in RtxMsg
  /\ \A c \in Keys : Message(HdrSize + 1, "KEY_IN", << c >>) \in RtxMsg
<1>1. << >> \in Seq(Keys \cup Nat) /\ \A c \in Keys : << c >> \in Seq(Keys \cup Nat)
  BY EmptySeq
<1>. QED BY <1>1 DEF Message, RtxMsg, Length

LEMMA StepWhenUsedWell ==
  ASSUME SchedInv, WellUsed, MsgNext
  PROVE  MsgStep
<1>1. ASSUME NEW t \in Tid, NEW n \in Lengths, send_msg(t, Message(n, "DEFAULT", << >>))
      PROVE  MsgStep
  BY <1>1, MessageType DEF MsgStep
<1>2. CASE OtherCall
  <2>1. CarefulCall
    BY <1>2, CreatableWhenUsedWell, SettableWhenUsedWell DEF OtherCall, CarefulCall
  <2>. QED BY <2>1 DEF MsgStep
<1>. QED BY <1>1, <1>2 DEF MsgNext, MsgStep

LEMMA StepIsCareful ==
  ASSUME [MsgStep]_msgvars
  PROVE  [CarefulNext]_vars
<1>1. ASSUME NEW n \in MbxSizes, k_mbx_create(n) PROVE UNCHANGED vars
  BY <1>1 DEF k_mbx_create
<1>2. ASSUME NEW t \in Tid, NEW m \in RtxMsg, send_msg(t, m)
      PROVE  [CarefulNext]_vars
  BY <1>2, DeliverRefines DEF send_msg, CarefulNext
<1>3. CASE RecvAtOnce \/ RecvWoken \/ RecvWokenNull \/ recv_msg_nb \/ UartIrq \/ IrqFree
  BY <1>3 DEF RecvAtOnce, RecvWoken, RecvWokenNull, recv_msg_nb, UartIrq, IrqFree
<1>4. ASSUME NEW at, RecvSleep(at) PROVE [CarefulNext]_vars
  BY <1>4 DEF RecvSleep, CarefulNext
<1>5. CASE tsk_exit
  BY <1>5 DEF tsk_exit, CarefulNext
<1>6. CASE CarefulCall
  BY <1>6 DEF CarefulCall, CarefulNext
<1>7. ASSUME NEW c \in Keys, KeyTyped(c) PROVE UNCHANGED vars
  BY <1>7 DEF KeyTyped
<1>8. CASE IrqChar
  <2>1. k_send_msg(TID_KCD) \/ UNCHANGED vars
    BY <1>8, DeliverRefines, ConstantFacts DEF IrqChar
  <2>. QED BY <2>1, ConstantFacts DEF CarefulNext
<1>9. CASE IrqEnd
  BY <1>9 DEF IrqEnd, CarefulNext
<1>10. CASE UNCHANGED msgvars
  BY <1>10 DEF msgvars
<1>. QED BY <1>1, <1>2, <1>3, <1>4, <1>5, <1>6, <1>7, <1>8, <1>9, <1>10 DEF MsgStep

LEMMA StepRefines ==
  ASSUME [MsgNext]_msgvars
  PROVE  [Next]_vars
<1>1. ASSUME NEW n \in MbxSizes, k_mbx_create(n) PROVE UNCHANGED vars
  BY <1>1 DEF k_mbx_create
<1>2. ASSUME NEW t \in Tid, NEW n \in Lengths, send_msg(t, Message(n, "DEFAULT", << >>))
      PROVE  [Next]_vars
  BY <1>2, DeliverRefines DEF send_msg, Next
<1>3. CASE RecvAtOnce \/ RecvWoken \/ RecvWokenNull \/ recv_msg_nb \/ UartIrq \/ IrqFree
  BY <1>3 DEF RecvAtOnce, RecvWoken, RecvWokenNull, recv_msg_nb, UartIrq, IrqFree
<1>4. ASSUME NEW at, RecvSleep(at) PROVE [Next]_vars
  BY <1>4 DEF RecvSleep, Next
<1>5. CASE tsk_exit
  BY <1>5 DEF tsk_exit, Next
<1>6. CASE OtherCall
  BY <1>6 DEF OtherCall, Next
<1>7. ASSUME NEW c \in Keys, KeyTyped(c) PROVE UNCHANGED vars
  BY <1>7 DEF KeyTyped
<1>8. CASE IrqChar
  <2>1. k_send_msg(TID_KCD) \/ UNCHANGED vars
    BY <1>8, DeliverRefines, ConstantFacts DEF IrqChar
  <2>. QED BY <2>1, ConstantFacts DEF Next
<1>9. CASE IrqEnd
  BY <1>9 DEF IrqEnd, Next
<1>10. CASE UNCHANGED msgvars
  BY <1>10 DEF msgvars
<1>. QED BY <1>1, <1>2, <1>3, <1>4, <1>5, <1>6, <1>7, <1>8, <1>9, <1>10 DEF MsgNext

(* By construction: each step is a call of KTask, or none. *)
LEMMA SpecOfCalls == MsgSpec => Spec
<1>1. MsgInit => Init
  BY DEF MsgInit
<1>2. [MsgNext]_msgvars => [Next]_vars
  BY StepRefines
<1>. QED BY <1>1, <1>2, PTL DEF MsgSpec, Spec

(* The scheduler's invariant, in the presence of mailboxes and interrupts. *)
THEOREM MsgSchedInvariant == ASSUME WellUsed PROVE MsgSpec => []SchedInv
<1>. QED BY SpecOfCalls, SchedInvariant, PTL

(* Nor do mailboxes and interrupts disturb the order in which tasks are *)
(* served: a message that wakes a task puts it last, and the handler's  *)
(* switches go to the first in line.                                    *)
THEOREM MsgOrderHolds == ASSUME WellUsed PROVE MsgSpec => FifoLevels /\ DispatchIsFirst
<1>. QED BY SpecOfCalls, FifoLevelsHolds, DispatchIsFirstHolds, PTL

-----------------------------------------------------------------------------
(* The types of the mailboxes and of the contexts, and what curr_size and a *)
(* letter may hold.  The sums are taken modulo SIZEMOD.                     *)

Letter   == [m : RtxMsg, from : Sender, sender : Sender]
Mailbox  == [max : Nat, curr : 0..(SIZEMOD - 1), msgs : Seq(Letter), nb : Nat]

MsgTypeOK ==
  /\ mbx \in [Tid -> Mailbox]
  /\ kctx \in [Tid -> KCtx]
  /\ interrupt_flag \in BOOLEAN
  /\ refused \in BOOLEAN
  /\ rx \in Seq(Keys)

LEMMA SizeFacts ==
  /\ SIZEMOD \in Nat /\ SIZEMOD > 32
  /\ MbxSizes \subseteq Nat
  /\ \A n \in Length : n \in Nat /\ 2 * n <= SIZEMOD + 18
  /\ \A c \in 0..(SIZEMOD - 1), n \in Length :
       /\ (c + n) % SIZEMOD \in 0..(SIZEMOD - 1)
       /\ Reduced(c, n) \in 0..(SIZEMOD - 1)
       /\ Reduced(c, n + MessageNodeSize) \in 0..(SIZEMOD - 1)
  /\ \A t \in Tid : t # TID_UART_IRQ
<1>1. SIZEMOD \in Nat /\ SIZEMOD > 32 /\ MbxSizes \cup Lengths \subseteq 0..(SIZEMOD \div 2 - 1)
  BY MsgAssumption DEF MailBoxSize
<1>2. SIZEMOD \div 2 \in Nat /\ 2 * (SIZEMOD \div 2) <= SIZEMOD
  BY <1>1
<1>3. \A n \in Length : n \in Nat /\ 2 * n <= SIZEMOD + 18
  BY <1>1, <1>2 DEF Length, HdrSize
<1>4. \A i \in Int : i % SIZEMOD \in 0..(SIZEMOD - 1)
  BY <1>1
<1>5. \A c \in 0..(SIZEMOD - 1), n \in Length :
        /\ (c + n) % SIZEMOD \in 0..(SIZEMOD - 1)
        /\ Reduced(c, n) \in 0..(SIZEMOD - 1)
        /\ Reduced(c, n + MessageNodeSize) \in 0..(SIZEMOD - 1)
  BY <1>1, <1>3, <1>4 DEF Reduced, MessageNodeSize
<1>6. \A t \in Tid : t # TID_UART_IRQ
  BY MsgAssumption, ConstantFacts DEF TID_UART_IRQ, Tid
<1>7. MbxSizes \subseteq Nat
  BY <1>1, <1>2
<1>. QED BY <1>1, <1>3, <1>5, <1>6, <1>7

(* What the kernel does to one mailbox. *)
LEMMA MailboxType ==
  ASSUME NEW b \in Mailbox
  PROVE  /\ NoMailbox \in Mailbox /\ NoMailbox.max = 0 /\ NoMailbox.msgs = << >>
         /\ \A n \in MbxSizes : /\ NewMailbox(n) \in Mailbox /\ NewMailbox(n).max = n
                                /\ NewMailbox(n).msgs = << >>
         /\ \A x \in Letter :
              LET c == [b EXCEPT !.msgs = Append(@, x), !.curr = (@ + x.m.length) % SIZEMOD]
              IN  /\ c \in Mailbox /\ c.max = b.max
                  /\ c.msgs = Append(b.msgs, x) /\ c.msgs # << >>
         /\ \A n \in Length, k \in {0, MessageNodeSize}, nb \in Nat :
              b.msgs # << >> =>
                [b EXCEPT !.msgs = Tail(@), !.curr = Reduced(@, n + k), !.nb = @ + nb]
                  \in Mailbox
<1>1. NoMailbox \in Mailbox /\ NoMailbox.max = 0 /\ NoMailbox.msgs = << >>
  BY SizeFacts, EmptySeq DEF NoMailbox, Mailbox
<1>2. ASSUME NEW n \in MbxSizes
      PROVE  NewMailbox(n) \in Mailbox /\ NewMailbox(n).max = n /\ NewMailbox(n).msgs = << >>
  <2>1. n \in Nat /\ MailBoxSize \in 0..(SIZEMOD - 1)
    BY SizeFacts DEF MailBoxSize
  <2>. QED BY <1>1, <2>1 DEF NewMailbox, NoMailbox, Mailbox
<1>3. /\ b.curr \in 0..(SIZEMOD - 1) /\ b.msgs \in Seq(Letter) /\ b.nb \in Nat
      /\ DOMAIN b = {"max", "curr", "msgs", "nb"}
  BY DEF Mailbox
<1>4. ASSUME NEW x \in Letter
      PROVE  LET c == [b EXCEPT !.msgs = Append(@, x), !.curr = (@ + x.m.length) % SIZEMOD]
             IN  /\ c \in Mailbox /\ c.max = b.max
                 /\ c.msgs = Append(b.msgs, x) /\ c.msgs # << >>
  <2>1. Append(b.msgs, x) \in Seq(Letter) /\ Append(b.msgs, x) # << >>
    BY <1>3, AppendProperties
  <2>2. (b.curr + x.m.length) % SIZEMOD \in 0..(SIZEMOD - 1)
    BY <1>3, SizeFacts DEF Letter, RtxMsg
  <2>. QED BY <1>3, <2>1, <2>2 DEF Mailbox
<1>5. ASSUME NEW n \in Length, NEW k \in {0, MessageNodeSize}, NEW nb \in Nat, b.msgs # << >>
      PROVE  [b EXCEPT !.msgs = Tail(@), !.curr = Reduced(@, n + k), !.nb = @ + nb]
               \in Mailbox
  <2>1. Tail(b.msgs) \in Seq(Letter)
    BY <1>3, <1>5, HeadTailProperties
  <2>2. n + 0 = n
    BY SizeFacts
  <2>3. Reduced(b.curr, n + k) \in 0..(SIZEMOD - 1)
    BY <1>3, <2>2, SizeFacts
  <2>4. b.nb + nb \in Nat
    BY <1>3
  <2>5. b.max \in Nat
    BY DEF Mailbox
  <2> DEFINE cc == Reduced(b.curr, n + k)
             ms == Tail(b.msgs)
             nn == b.nb + nb
  <2>. HIDE DEF cc, ms, nn
  <2>6. [b EXCEPT !.msgs = ms, !.curr = cc, !.nb = nn] \in Mailbox
    BY <1>3, <2>1, <2>3, <2>4, <2>5 DEF Mailbox, cc, ms, nn
  <2>. QED BY <2>6 DEF cc, ms, nn
<1>. QED BY <1>1, <1>2, <1>4, <1>5

(* An accepted message has a mailbox to go to. *)
LEMMA DeliverType ==
  ASSUME MsgTypeOK, NEW t \in Tid, NEW m \in RtxMsg, NEW flag \in BOOLEAN, NEW from \in Sender,
         Current \in Tid, Deliver(t, m, flag, from)
  PROVE  LET x == [m |-> m, from |-> from, sender |-> IF flag THEN TID_UART_IRQ ELSE Current]
         IN  /\ x \in Letter
             /\ mbx' \in [Tid -> Mailbox]
             /\ \A u \in Tid \ {t} : mbx'[u] = mbx[u]
             /\ mbx'[t].max = mbx[t].max /\ mbx'[t].msgs # << >>
             /\ mbx'[t].msgs = Append(mbx[t].msgs, x)
             /\ interrupt_flag' = FALSE
<1> DEFINE x == [m |-> m, from |-> from, sender |-> IF flag THEN TID_UART_IRQ ELSE Current]
           c == [mbx[t] EXCEPT !.msgs = Append(@, x), !.curr = (@ + x.m.length) % SIZEMOD]
<1>1. x \in Letter
  BY DEF Letter, Sender
<1>2. mbx \in [Tid -> Mailbox] /\ mbx[t] \in Mailbox /\ x.m = m
  BY DEF MsgTypeOK
<1>3. mbx' = [mbx EXCEPT ![t] = c] /\ interrupt_flag' = FALSE
  BY <1>2 DEF Deliver, FlagAfterSend
<1>. HIDE DEF x
<1>4. c \in Mailbox /\ c.max = mbx[t].max /\ c.msgs = Append(mbx[t].msgs, x) /\ c.msgs # << >>
  <2>1. PICK b \in Mailbox : b = mbx[t]
    BY <1>2
  <2>. QED BY <1>1, <2>1, MailboxType
<1>. HIDE DEF c
<1>5. mbx' \in [Tid -> Mailbox] /\ mbx'[t] = c /\ \A u \in Tid \ {t} : mbx'[u] = mbx[u]
  BY <1>2, <1>3, <1>4
<1>. QED BY <1>1, <1>3, <1>4, <1>5 DEF x

(* Taking the first message. *)
LEMMA TakeType ==
  ASSUME MsgTypeOK, Current \in Tid, ~IsEmpty(Current),
         NEW k \in {0, MessageNodeSize}, NEW nb \in Nat,
         TakeFirst(FirstOf(Current).m.length + k, nb)
  PROVE  /\ mbx' \in [Tid -> Mailbox]
         /\ \A u \in Tid \ {Current} : mbx'[u] = mbx[u]
         /\ mbx'[Current].max = mbx[Current].max
         /\ mbx'[Current].msgs = Tail(mbx[Current].msgs)
<1> DEFINE b == mbx[Current]
           n == FirstOf(Current).m.length
           c == [b EXCEPT !.msgs = Tail(@), !.curr = Reduced(@, n + k), !.nb = @ + nb]
<1>1. mbx \in [Tid -> Mailbox] /\ b \in Mailbox /\ b.msgs # << >> /\ b.msgs \in Seq(Letter)
  BY DEF MsgTypeOK, IsEmpty, Mailbox
<1>2. Head(b.msgs) \in Letter
  BY <1>1, HeadTailProperties
<1>3. n \in Length
  BY <1>2 DEF FirstOf, Letter, RtxMsg
<1>. HIDE DEF n
<1>4. c \in Mailbox
  BY <1>1, <1>3, MailboxType
<1>5. c.max = b.max /\ c.msgs = Tail(b.msgs)
  BY <1>1 DEF Mailbox
<1>6. mbx' = [mbx EXCEPT ![Current] = c]
  BY DEF TakeFirst, n
<1>. HIDE DEF c
<1>7. mbx' \in [Tid -> Mailbox] /\ mbx'[Current] = c /\ \A u \in Tid \ {Current} : mbx'[u] = mbx[u]
  BY <1>1, <1>4, <1>6
<1>. QED BY <1>5, <1>7

-----------------------------------------------------------------------------
(* What the calls of KTask do to the states of the tasks. *)

Blocked(s, t) == s[t].state = "BLK_MSG"
Alive(s, t)   == s[t].state \in {"READY", "RUNNING"}

(* A switch that is not wild blocks nobody, frees nobody and ends nobody. *)
LEMMA RunNewStates ==
  ASSUME gp_current_task \in Tid, NEW s \in [Tid -> Tcb], NEW q \in ReadyQueues(Tid), NEW y,
         k_tsk_run_new(s, q, y), ~wild'
  PROVE  \A t \in Tid : /\ Blocked(g_tcbs', t) <=> Blocked(s, t)
                        /\ Alive(s, t) => Alive(g_tcbs', t)
<1> DEFINE me == gp_current_task
           n  == Retrieved(q)
           d  == [s EXCEPT ![me].state = "READY"]
<1>1. n \in Tid \cup {NoTask} /\ NoTask \notin Tid
  BY RetrieveType, ConstantFacts
<1>2. s[gp_current_task'].state # "BLK_MSG"
  BY DEF k_tsk_run_new
<1>3. \A u \in [Tid -> Tcb], k \in Tid :
        /\ \A t \in Tid \ {k} : [u EXCEPT ![k].state = "RUNNING"][t] = u[t]
        /\ [u EXCEPT ![k].state = "RUNNING"][k].state = "RUNNING"
  BY DEF Tcb
<1>4. ASSUME NEW u \in [Tid -> Tcb], NEW k \in Tid \cup {NoTask}, SwitchTo(k, u),
             u[gp_current_task'].state # "BLK_MSG"
      PROVE  \A t \in Tid : /\ Blocked(g_tcbs', t) <=> Blocked(u, t)
                            /\ Alive(u, t) => Alive(g_tcbs', t)
  <2>1. CASE k \in {NoTask, gp_current_task}
    BY <1>4, <2>1 DEF SwitchTo
  <2>2. CASE k \notin {NoTask, gp_current_task}
    <3>1. k \in Tid /\ gp_current_task' = k /\ g_tcbs' = [u EXCEPT ![k].state = "RUNNING"]
      BY <1>4, <2>2 DEF SwitchTo
    <3>2. u[k].state # "BLK_MSG"
      BY <1>4, <3>1
    <3>3. /\ \A t \in Tid \ {k} : g_tcbs'[t] = u[t]
          /\ g_tcbs'[k].state = "RUNNING"
      BY <1>3, <3>1
    <3>. QED BY <3>2, <3>3 DEF Blocked, Alive
  <2>. QED BY <2>1, <2>2
<1>5. CASE GivesUp(s)
  BY <1>1, <1>2, <1>4, <1>5 DEF k_tsk_run_new
<1>6. CASE ~GivesUp(s) /\ Displaced(s, q, y)
  <2>1. /\ d \in [Tid -> Tcb] /\ d[me].state = "READY"
        /\ \A t \in Tid \ {me} : d[t] = s[t]
    BY DEF Tcb, State
  <2>2. s[me].state \notin {"DORMANT", "BLK_MSG"}
    BY <1>6 DEF GivesUp
  <2>3. SwitchTo(n, d)
    BY <1>6 DEF k_tsk_run_new
  <2>4. d[gp_current_task'].state # "BLK_MSG"
    <3>1. gp_current_task' \in Tid
      BY <1>1, <2>3 DEF SwitchTo
    <3>. QED BY <1>2, <2>1, <3>1
  <2>5. \A t \in Tid : /\ Blocked(g_tcbs', t) <=> Blocked(d, t)
                       /\ Alive(d, t) => Alive(g_tcbs', t)
    BY <1>1, <1>4, <2>1, <2>3, <2>4
  <2>6. \A t \in Tid : /\ Blocked(d, t) <=> Blocked(s, t)
                       /\ Alive(s, t) => Alive(d, t)
    BY <2>1, <2>2 DEF Blocked, Alive
  <2>. QED BY <2>5, <2>6
<1>7. CASE ~GivesUp(s) /\ ~Displaced(s, q, y)
  BY <1>2, <1>4, <1>7 DEF k_tsk_run_new
<1>. QED BY <1>5, <1>6, <1>7

(* The current task is awake, and is not the null task when a task runs. *)
LEMMA CurrentFacts ==
  ASSUME SchedInv
  PROVE  /\ gp_current_task \in Tid
         /\ ~Blocked(g_tcbs, gp_current_task)
         /\ TaskRuns => gp_current_task # TID_NULL /\ Alive(g_tcbs, gp_current_task)
<1>1. gp_current_task \in Tid /\ Apart(g_tcbs)
  BY InvParts
<1>2. gp_current_task # TID_NULL => g_tcbs[gp_current_task].state = "RUNNING"
  BY InvParts
<1>3. gp_current_task = TID_NULL => g_tcbs[TID_NULL].state \in {"READY", "RUNNING"}
  BY DEF SchedInv, NullCurrent
<1>4. TaskRuns => gp_current_task # TID_NULL
  BY <1>1 DEF TaskRuns, Apart
<1>. QED BY <1>1, <1>2, <1>3, <1>4 DEF Blocked, Alive

LEMMA RecvStates ==
  ASSUME SchedInv, SchedInv', k_recv_msg
  PROVE  \A t \in Tid :
           /\ Blocked(g_tcbs', t) <=> Blocked(g_tcbs, t) \/ t = gp_current_task
           /\ t # gp_current_task /\ Alive(g_tcbs, t) => Alive(g_tcbs', t)
<1> DEFINE s == [g_tcbs EXCEPT ![gp_current_task].state = "BLK_MSG"]
<1>1. gp_current_task \in Tid /\ g_tcbs \in [Tid -> Tcb] /\ rq \in ReadyQueues(Tid)
  BY DEF SchedInv, TypeOK
<1>2. /\ s \in [Tid -> Tcb] /\ s[gp_current_task].state = "BLK_MSG"
      /\ \A u \in Tid \ {gp_current_task} : s[u] = g_tcbs[u]
  BY <1>1, StateChange DEF State
<1>3. k_tsk_run_new(s, rq, yield_flag) /\ ~wild'
  BY DEF k_recv_msg, SchedInv
<1>4. \A t \in Tid : /\ Blocked(g_tcbs', t) <=> Blocked(s, t)
                     /\ Alive(s, t) => Alive(g_tcbs', t)
  BY <1>1, <1>2, <1>3, RunNewStates
<1>. QED BY <1>2, <1>4 DEF Blocked, Alive

LEMMA SendStates ==
  ASSUME SchedInv, SchedInv', NEW r \in Tid, k_send_msg(r)
  PROVE  \A t \in Tid : /\ Blocked(g_tcbs', t) <=> Blocked(g_tcbs, t) /\ t # r
                        /\ Alive(g_tcbs, t) => Alive(g_tcbs', t)
<1> DEFINE s == [g_tcbs EXCEPT ![r].state = "READY"]
           q == insert_into_tasks(rq, g_tcbs[r].prio, r)
<1>1. gp_current_task \in Tid /\ g_tcbs \in [Tid -> Tcb] /\ rq \in ReadyQueues(Tid)
  BY DEF SchedInv, TypeOK
<1>2. /\ s \in [Tid -> Tcb] /\ s[r].state = "READY"
      /\ \A u \in Tid \ {r} : s[u] = g_tcbs[u]
  BY <1>1, StateChange DEF State
<1>3. q \in ReadyQueues(Tid)
  BY <1>1, InsertType DEF Tcb
<1>4. k_tsk_run_new(s, q, yield_flag) /\ ~wild' 
  BY DEF k_send_msg, SchedInv
<1>5. \A t \in Tid : /\ Blocked(g_tcbs', t) <=> Blocked(s, t)
                     /\ Alive(s, t) => Alive(g_tcbs', t)
  BY <1>1, <1>2, <1>3, <1>4, RunNewStates
<1>. QED BY <1>2, <1>5 DEF Blocked, Alive

LEMMA ExitStates ==
  ASSUME SchedInv, SchedInv', k_tsk_exit
  PROVE  \A t \in Tid :
           /\ Blocked(g_tcbs', t) <=> Blocked(g_tcbs, t)
           /\ t # gp_current_task /\ Alive(g_tcbs, t) => Alive(g_tcbs', t)
<1> DEFINE s == [g_tcbs EXCEPT ![gp_current_task].state = "DORMANT"]
<1>1. gp_current_task \in Tid /\ g_tcbs \in [Tid -> Tcb] /\ rq \in ReadyQueues(Tid)
  BY DEF SchedInv, TypeOK
<1>2. /\ s \in [Tid -> Tcb] /\ s[gp_current_task].state = "DORMANT"
      /\ \A u \in Tid \ {gp_current_task} : s[u] = g_tcbs[u]
  BY <1>1, StateChange DEF State
<1>3. k_tsk_run_new(s, rq, yield_flag) /\ ~wild'
  BY DEF k_tsk_exit, SchedInv
<1>4. \A t \in Tid : /\ Blocked(g_tcbs', t) <=> Blocked(s, t)
                     /\ Alive(s, t) => Alive(g_tcbs', t)
  BY <1>1, <1>2, <1>3, RunNewStates
<1>. QED BY <1>2, <1>4, CurrentFacts DEF Blocked, Alive

(* A call keeps the sleepers asleep, and whoever is READY or RUNNING stays so. *)
SameStates == \A t \in Tid : /\ Blocked(g_tcbs', t) <=> Blocked(g_tcbs, t)
                             /\ Alive(g_tcbs, t) => Alive(g_tcbs', t)

LEMMA BootStates ==
  ASSUME SchedInv, k_tsk_init
  PROVE  SameStates
<1> DEFINE b == BootTasks[booted + 1]
           t == TidFor(b.entry)
           s == [g_tcbs EXCEPT ![t] = NewTcb(b.entry, b.prio, b.priv)]
<1>1. g_tcbs' = s /\ booted < Len(BootTasks)
  BY DEF k_tsk_init
<1>2. b.entry = "kcd_task" => g_tcbs[TID_KCD].state = "DORMANT"
  BY <1>1, BootTidLeft
<1>3. b.entry = "kcd_task" \/ available_tid_queue # << >>
  BY <1>1, BootTidLeft
<1>4. t \in Tid /\ g_tcbs \in [Tid -> Tcb]
  BY PoolType DEF SchedInv, TypeOK
<1>. HIDE DEF b
<1>5. /\ \A u \in Tid \ {t} : s[u] = g_tcbs[u]
      /\ s[t].state = "READY"
  BY <1>4 DEF NewTcb
<1>6. g_tcbs[t].state = "DORMANT"
  BY <1>2, <1>3, <1>5, TakeTid
<1>. QED BY <1>1, <1>5, <1>6 DEF SameStates, Blocked, Alive

LEMMA CreateStates ==
  ASSUME SchedInv, SchedInv',
         NEW entry \in {"kcd_task", "user"}, NEW p \in UserPrio,
         Creatable(entry), k_tsk_create(entry, p)
  PROVE  SameStates
<1> DEFINE t == TidFor(entry)
           s == [g_tcbs EXCEPT ![t] = NewTcb(entry, p, FALSE)]
           q == insert_into_tasks(rq, p, t)
<1>1. /\ t \in Tid /\ gp_current_task \in Tid
      /\ g_tcbs \in [Tid -> Tcb] /\ rq \in ReadyQueues(Tid)
  BY PoolType DEF SchedInv, TypeOK
<1>2. s \in [Tid -> Tcb] /\ q \in ReadyQueues(Tid)
  BY <1>1, NewTcbType, TcbType, InsertType, ConstantFacts
<1>3. k_tsk_run_new(s, q, yield_flag) /\ ~wild'
  BY DEF k_tsk_create, SchedInv
<1>4. /\ entry = "kcd_task" => g_tcbs[TID_KCD].state = "DORMANT"
      /\ entry = "kcd_task" \/ available_tid_queue # << >>
  BY DEF Creatable
<1>5. /\ \A u \in Tid \ {t} : s[u] = g_tcbs[u]
      /\ s[t].state = "READY"
  BY <1>1 DEF NewTcb
<1>6. g_tcbs[t].state = "DORMANT"
  BY <1>4, <1>5, TakeTid
<1>7. \A u \in Tid : /\ Blocked(g_tcbs', u) <=> Blocked(s, u)
                     /\ Alive(s, u) => Alive(g_tcbs', u)
  BY <1>1, <1>2, <1>3, RunNewStates
<1>. QED BY <1>5, <1>6, <1>7 DEF SameStates, Blocked, Alive

LEMMA SetPrioStates ==
  ASSUME SchedInv, SchedInv', NEW t \in Tid, NEW p \in UserPrio, k_tsk_set_prio(t, p)
  PROVE  SameStates
<1>0. /\ gp_current_task \in Tid /\ g_tcbs \in [Tid -> Tcb] /\ rq \in ReadyQueues(Tid)
      /\ yield_flag \in BOOLEAN /\ ~wild'
  BY DEF SchedInv, TypeOK
<1>1. \A k \in Tid : [g_tcbs EXCEPT ![k].prio = p] \in [Tid -> Tcb]
  BY <1>0, TcbType
<1>2. \A k, u \in Tid : [g_tcbs EXCEPT ![k].prio = p][u].state = g_tcbs[u].state
  BY <1>0 DEF Tcb
<1>3. CASE SetPrioBlocked(t, p)
  BY <1>2, <1>3 DEF SetPrioBlocked, SameStates, Blocked, Alive
<1>4. CASE SetPrioLowerSelf(p)
  <2> DEFINE s == [g_tcbs EXCEPT ![gp_current_task].prio = p]
  <2>1. k_tsk_run_new(s, rq, TRUE)
    BY <1>4 DEF SetPrioLowerSelf
  <2>2. s \in [Tid -> Tcb]
    BY <1>0, <1>1
  <2>3. \A u \in Tid : s[u].state = g_tcbs[u].state
    BY <1>0, <1>2
  <2>. HIDE DEF s
  <2>4. \A u \in Tid : /\ Blocked(g_tcbs', u) <=> Blocked(s, u)
                       /\ Alive(s, u) => Alive(g_tcbs', u)
    BY <1>0, <2>1, <2>2, RunNewStates
  <2>. QED BY <2>3, <2>4 DEF SameStates, Blocked, Alive
<1>5. CASE SetPrioRaiseSelf(p)
  BY <1>0, <1>2, <1>5 DEF SetPrioRaiseSelf, SameStates, Blocked, Alive
<1>6. CASE SetPrioReady(t, p)
  <2> DEFINE l == g_tcbs[t].prio
             s == [g_tcbs EXCEPT ![t].prio = p, ![t].state = "READY"]
             q == insert_into_tasks(remove_node(rq, l, t), p, t)
  <2>1. k_tsk_run_new(s, q, yield_flag) /\ ~Blocked(g_tcbs, t)
    BY <1>6 DEF SetPrioReady, Blocked
  <2>2. s \in [Tid -> Tcb] /\ l \in Prio
    BY <1>0, TcbType
  <2>3. LinkedAt(rq, l, t)
    BY <1>6 DEF SetPrioReady
  <2>4. remove_node(rq, l, t) \in ReadyQueues(Tid)
    BY <1>0, <2>2, <2>3, RemoveNodeType
  <2>5. q \in ReadyQueues(Tid)
    BY <2>4, InsertType, ConstantFacts
  <2>6. /\ \A u \in Tid \ {t} : s[u] = g_tcbs[u]
        /\ s[t].state = "READY"
    BY <1>0 DEF Tcb
  <2>. HIDE DEF s, q
  <2>7. \A u \in Tid : /\ Blocked(g_tcbs', u) <=> Blocked(s, u)
                       /\ Alive(s, u) => Alive(g_tcbs', u)
    BY <1>0, <2>1, <2>2, <2>5, RunNewStates
  <2>. QED BY <2>1, <2>6, <2>7 DEF SameStates, Blocked, Alive
<1>7. CASE SetPrioUnlinked(t)
  BY <1>7 DEF SetPrioUnlinked, SameStates
<1>. QED BY <1>3, <1>4, <1>5, <1>6, <1>7 DEF k_tsk_set_prio

LEMMA OtherStates ==
  ASSUME SchedInv, SchedInv', CarefulCall \/ c_IRQ_Handler \/ UNCHANGED vars
  PROVE  SameStates
<1>1. /\ gp_current_task \in Tid /\ g_tcbs \in [Tid -> Tcb] /\ rq \in ReadyQueues(Tid) /\ ~wild'
  BY DEF SchedInv, TypeOK
<1>2. ASSUME NEW y, k_tsk_run_new(g_tcbs, rq, y) PROVE SameStates
  BY <1>1, <1>2, RunNewStates DEF SameStates
<1>3. CASE k_tsk_init
  BY <1>3, BootStates
<1>4. CASE k_tsk_yield \/ c_IRQ_Handler
  BY <1>2, <1>4 DEF k_tsk_yield, c_IRQ_Handler
<1>5. CASE UNCHANGED vars
  BY <1>5 DEF vars, SameStates
<1>. QED BY <1>3, <1>4, <1>5, CreateStates, SetPrioStates DEF CarefulCall

-----------------------------------------------------------------------------
(* The invariant of mailboxes and interrupts.  SchedInv is assumed of both *)
(* ends of every step.                                                     *)

SenderInv == (interrupt_flag => refused) /\ SenderNamed

HandlerInv ==
  /\ irq_active => \E t \in Tid : \A u \in Tid : Handling(u) <=> u = t
  /\ \A t \in Tid : Handling(t) => irq_active /\ Alive(g_tcbs, t)

MsgInv == MsgTypeOK /\ NoLostWakeup /\ SenderInv /\ HandlerInv

(* The length of the first message of a mailbox that has one. *)
LEMMA FirstLength ==
  ASSUME MsgTypeOK, Current \in Tid, ~IsEmpty(Current)
  PROVE  /\ FirstOf(Current).m.length \in Length
         /\ FirstOf(Current).m.length + 0 = FirstOf(Current).m.length
<1>1. mbx[Current].msgs \in Seq(Letter) /\ mbx[Current].msgs # << >>
  BY DEF MsgTypeOK, Mailbox, IsEmpty
<1>2. Head(mbx[Current].msgs) \in Letter
  BY <1>1, HeadTailProperties
<1>3. FirstOf(Current).m.length \in Length
  BY <1>2 DEF FirstOf, Letter, RtxMsg
<1>. QED BY <1>3, SizeFacts

(* A task that is back from its sleep finds a message. *)
LEMMA MessageThere ==
  ASSUME SchedInv, MsgTypeOK, NoLostWakeup, RecvWoken
  PROVE  ~IsEmpty(Current) /\ Current \in Tid /\ TakeFirst(FirstOf(Current).m.length + 0, 0)
<1>1. Current \in Tid /\ ~Asleep(Current)
  BY CurrentFacts DEF Current, Asleep, Blocked
<1>2. Receiving(Current)
  BY DEF RecvWoken, Stands, Receiving
<1>3. ~IsEmpty(Current)
  BY <1>1, <1>2 DEF NoLostWakeup
<1>. QED BY <1>1, <1>3, FirstLength DEF RecvWoken

LEMMA MsgTypeKept ==
  ASSUME SchedInv, MsgInv, MsgStep
  PROVE  MsgTypeOK'
<1>0. /\ mbx \in [Tid -> Mailbox] /\ kctx \in [Tid -> KCtx] /\ rx \in Seq(Keys)
      /\ interrupt_flag \in BOOLEAN /\ refused \in BOOLEAN
      /\ Current \in Tid /\ mbx[Current] \in Mailbox
  BY CurrentFacts DEF MsgInv, MsgTypeOK, Current
<1>1. ASSUME NEW n \in MbxSizes, k_mbx_create(n) PROVE MsgTypeOK'
  <2>1. NewMailbox(n) \in Mailbox
    BY <1>0, MailboxType
  <2>. QED BY <1>0, <1>1, <2>1 DEF k_mbx_create, MsgTypeOK
<1>2. ASSUME NEW t \in Tid, NEW m \in RtxMsg, send_msg(t, m)
      PROVE  MsgTypeOK'
  <2>1. Deliver(t, m, interrupt_flag, Current)
    BY <1>2 DEF send_msg
  <2>2. mbx' \in [Tid -> Mailbox] /\ interrupt_flag' = FALSE
    BY <1>0, <2>1, MessageType, DeliverType DEF MsgInv, Sender
  <2>. QED BY <1>0, <1>2, <2>2 DEF send_msg, MsgTypeOK
<1>3. CASE RecvAtOnce
  <2>1. TakeFirst(FirstOf(Current).m.length + 0, 0) /\ ~IsEmpty(Current)
    BY <1>0, <1>3, FirstLength DEF RecvAtOnce, MsgInv
  <2>2. mbx' \in [Tid -> Mailbox]
    BY <1>0, <2>1, TakeType DEF MsgInv
  <2>. QED BY <1>0, <1>3, <2>2 DEF RecvAtOnce, MsgTypeOK
<1>4. ASSUME NEW at \in {"recv", "recv_null"}, RecvSleep(at) PROVE MsgTypeOK'
  BY <1>0, <1>4 DEF RecvSleep, MsgTypeOK, KCtx
<1>5. CASE RecvWoken
  <2>1. mbx' \in [Tid -> Mailbox]
    BY <1>0, <1>5, MessageThere, TakeType DEF MsgInv
  <2>. QED BY <1>0, <1>5, <2>1 DEF RecvWoken, MsgTypeOK, KCtx
<1>6. CASE RecvWokenNull
  BY <1>0, <1>6 DEF RecvWokenNull, MsgTypeOK, KCtx
<1>7. CASE recv_msg_nb
  <2>1. mbx' \in [Tid -> Mailbox]
    BY <1>0, <1>7, TakeType DEF MsgInv, recv_msg_nb, MessageNodeSize
  <2>. QED BY <1>0, <1>7, <2>1 DEF recv_msg_nb, MsgTypeOK
<1>8. CASE tsk_exit
  <2>1. NoMailbox \in Mailbox
    BY <1>0, MailboxType
  <2>. QED BY <1>0, <1>8, <2>1 DEF tsk_exit, MsgTypeOK
<1>9. CASE CarefulCall
  BY <1>0, <1>9 DEF CarefulCall, ipc, MsgTypeOK
<1>10. ASSUME NEW c \in Keys, KeyTyped(c) PROVE MsgTypeOK'
  <2>1. rx' \in Seq(Keys)
    BY <1>0, <1>10, AppendProperties DEF KeyTyped
  <2>. QED BY <1>0, <1>10, <2>1 DEF KeyTyped, MsgTypeOK
<1>11. CASE UartIrq \/ IrqFree \/ IrqEnd
  BY <1>0, <1>11 DEF UartIrq, IrqFree, IrqEnd, MsgTypeOK, KCtx
<1>12. CASE IrqChar
  <2> DEFINE m == Message(HdrSize + 1, "KEY_IN", << Head(rx) >>)
  <2>1. Head(rx) \in Keys /\ Tail(rx) \in Seq(Keys)
    BY <1>0, <1>12, HeadTailProperties DEF IrqChar
  <2>2. m \in RtxMsg
    BY <2>1, MessageType
  <2>3. mbx' \in [Tid -> Mailbox] /\ interrupt_flag' \in BOOLEAN /\ refused' \in BOOLEAN
    <3>1. CASE Deliver(TID_KCD, m, TRUE, TID_UART_IRQ) /\ UNCHANGED refused
      BY <1>0, <2>2, <3>1, DeliverType, ConstantFacts DEF MsgInv, Sender
    <3>2. CASE interrupt_flag' = TRUE /\ refused' = TRUE /\ UNCHANGED mbx
      BY <1>0, <3>2
    <3>. QED BY <1>12, <3>1, <3>2 DEF IrqChar
  <2>. QED BY <1>0, <1>12, <2>1, <2>3 DEF IrqChar, MsgTypeOK, KCtx
<1>. QED BY <1>1, <1>2, <1>3, <1>4, <1>5, <1>6, <1>7, <1>8, <1>9, <1>10, <1>11, <1>12 DEF MsgStep

-----------------------------------------------------------------------------
(* No wake-up is lost. *)

(* A step that touches the mailbox, the context and the sleep of one task. *)
LEMMA WakeFrame ==
  ASSUME NoLostWakeup, NEW c \in Tid,
         \A t \in Tid \ {c} : /\ mbx'[t] = mbx[t]
                              /\ kctx'[t] = kctx[t]
                              /\ Blocked(g_tcbs', t) <=> Blocked(g_tcbs, t),
         Blocked(g_tcbs', c) => kctx'[c] \in {"recv", "recv_null"},
         kctx'[c] \in {"recv", "recv_null"} =>
           /\ mbx'[c].max # 0
           /\ Blocked(g_tcbs', c) <=> mbx'[c].msgs = << >>
  PROVE  NoLostWakeup'
BY DEF NoLostWakeup, Asleep, Receiving, HasMbx, IsEmpty, Blocked

(* A message goes to a sleeper, who is woken, or to somebody who is awake. *)
LEMMA DeliverWakes ==
  ASSUME SchedInv, SchedInv', MsgInv, NEW t \in Tid, NEW m \in RtxMsg, NEW flag \in BOOLEAN,
         NEW from \in Sender, Deliver(t, m, flag, from)
  PROVE  /\ mbx'[t].max = mbx[t].max /\ mbx'[t].msgs # << >> /\ ~Blocked(g_tcbs', t)
         /\ \A u \in Tid \ {t} : /\ mbx'[u] = mbx[u]
                                 /\ Blocked(g_tcbs', u) <=> Blocked(g_tcbs, u)
         /\ \A u \in Tid : Alive(g_tcbs, u) => Alive(g_tcbs', u)
<1>1. /\ mbx'[t].max = mbx[t].max /\ mbx'[t].msgs # << >>
      /\ \A u \in Tid \ {t} : mbx'[u] = mbx[u]
  BY CurrentFacts, DeliverType DEF MsgInv, Current
<1>2. CASE Blocked(g_tcbs, t)
  <2>1. k_send_msg(t)
    BY <1>2 DEF Deliver, Woken, Wake, Blocked
  <2>. QED BY <1>1, <2>1, SendStates
<1>3. CASE ~Blocked(g_tcbs, t)
  <2>1. g_tcbs' = g_tcbs
    BY <1>3 DEF Deliver, Woken, Blocked, vars
  <2>. QED BY <1>1, <1>3, <2>1
<1>. QED BY <1>2, <1>3

LEMMA WakeKept ==
  ASSUME SchedInv, SchedInv', MsgInv, MsgStep
  PROVE  NoLostWakeup'
<1>0. /\ mbx \in [Tid -> Mailbox] /\ kctx \in [Tid -> KCtx] /\ rx \in Seq(Keys)
      /\ Current \in Tid /\ ~Blocked(g_tcbs, Current) /\ NoLostWakeup /\ MsgTypeOK
      /\ interrupt_flag \in BOOLEAN
  BY CurrentFacts DEF MsgInv, MsgTypeOK, Current
<1>1. \A t \in Tid : UNCHANGED vars => (Blocked(g_tcbs', t) <=> Blocked(g_tcbs, t))
  BY DEF vars
<1>2. ASSUME NEW n \in MbxSizes, k_mbx_create(n) PROVE NoLostWakeup'
  <2>1. \A t \in Tid \ {Current} : mbx'[t] = mbx[t]
    BY <1>0, <1>2 DEF k_mbx_create
  <2>2. kctx' = kctx /\ kctx[Current] = "user" /\ UNCHANGED vars
    BY <1>2 DEF k_mbx_create, Stands
  <2>. QED BY <1>0, <1>1, <2>1, <2>2, WakeFrame
<1>3. ASSUME NEW t \in Tid, NEW m \in RtxMsg, send_msg(t, m)
      PROVE  NoLostWakeup'
  <2>1. /\ Deliver(t, m, interrupt_flag, Current)
        /\ kctx' = kctx /\ HasMbx(t)
    BY <1>3 DEF send_msg, Accepts
  <2>2. /\ mbx'[t].max = mbx[t].max /\ mbx'[t].msgs # << >> /\ ~Blocked(g_tcbs', t)
        /\ \A u \in Tid \ {t} : /\ mbx'[u] = mbx[u]
                                /\ Blocked(g_tcbs', u) <=> Blocked(g_tcbs, u)
    BY <1>0, <2>1, MessageType, DeliverWakes DEF Sender
  <2>. QED BY <1>0, <2>1, <2>2, WakeFrame DEF HasMbx
<1>4. ASSUME NEW n, NEW nb, TakeFirst(n, nb), UNCHANGED vars,
             kctx'[Current] = "user", \A t \in Tid \ {Current} : kctx'[t] = kctx[t]
      PROVE  NoLostWakeup'
  <2>1. \A t \in Tid \ {Current} : mbx'[t] = mbx[t]
    BY <1>0, <1>4 DEF TakeFirst
  <2>. QED BY <1>0, <1>1, <1>4, <2>1, WakeFrame
<1>5. CASE RecvAtOnce \/ recv_msg_nb
  BY <1>4, <1>5 DEF RecvAtOnce, recv_msg_nb, Stands
<1>6. CASE RecvWoken
  <2>1. kctx'[Current] = "user" /\ \A t \in Tid \ {Current} : kctx'[t] = kctx[t]
    BY <1>0, <1>6 DEF RecvWoken
  <2>. QED BY <1>4, <1>6, <2>1 DEF RecvWoken
<1>7. ASSUME NEW at \in {"recv", "recv_null"}, RecvSleep(at) PROVE NoLostWakeup'
  <2>1. /\ kctx'[Current] = at /\ \A t \in Tid \ {Current} : kctx'[t] = kctx[t]
        /\ mbx' = mbx /\ mbx[Current].max # 0 /\ mbx[Current].msgs = << >>
    BY <1>0, <1>7 DEF RecvSleep, HasMbx, IsEmpty
  <2>2. \A t \in Tid : Blocked(g_tcbs', t) <=> Blocked(g_tcbs, t) \/ t = Current
    BY <1>7, RecvStates DEF RecvSleep, Current
  <2>. QED BY <1>0, <2>1, <2>2, WakeFrame
<1>8. ASSUME kctx'[Current] \notin {"recv", "recv_null"}, mbx' = mbx, SameStates,
             \A t \in Tid \ {Current} : kctx'[t] = kctx[t]
      PROVE  NoLostWakeup'
  BY <1>0, <1>8, WakeFrame DEF SameStates
<1>9. CASE RecvWokenNull \/ UartIrq \/ IrqFree \/ IrqEnd
  <2>1. /\ kctx'[Current] \in {"user", "irq"} /\ mbx' = mbx
        /\ \A t \in Tid \ {Current} : kctx'[t] = kctx[t]
    BY <1>0, <1>9 DEF RecvWokenNull, UartIrq, IrqFree, IrqEnd
  <2>2. c_IRQ_Handler \/ UNCHANGED vars
    BY <1>9 DEF RecvWokenNull, UartIrq, IrqFree, IrqEnd
  <2>3. SameStates
    BY <2>2, OtherStates
  <2>. QED BY <1>8, <2>1, <2>3
<1>10. CASE tsk_exit
  <2>1. /\ kctx' = kctx /\ kctx[Current] = "user"
        /\ \A t \in Tid \ {Current} : mbx'[t] = mbx[t]
    BY <1>0, <1>10 DEF tsk_exit, Stands
  <2>2. \A t \in Tid : Blocked(g_tcbs', t) <=> Blocked(g_tcbs, t)
    BY <1>10, ExitStates DEF tsk_exit
  <2>. QED BY <1>0, <2>1, <2>2, WakeFrame
<1>11. CASE CarefulCall
  BY <1>8, <1>11, OtherStates DEF CarefulCall, ipc, Stands
<1>12. ASSUME NEW c \in Keys, KeyTyped(c) PROVE NoLostWakeup'
  <2>1. kctx' = kctx /\ mbx' = mbx /\ UNCHANGED vars
    BY <1>12 DEF KeyTyped
  <2>. QED BY <1>0, <1>1, <2>1, WakeFrame DEF NoLostWakeup, Asleep, Receiving, HasMbx, IsEmpty, Blocked
<1>13. CASE IrqChar
  <2> DEFINE m == Message(HdrSize + 1, "KEY_IN", << Head(rx) >>)
  <2>1. \A t \in Tid : Receiving(t)' <=> Receiving(t)
    BY <1>0, <1>13 DEF IrqChar, Stands, Receiving
  <2>2. CASE Deliver(TID_KCD, m, TRUE, TID_UART_IRQ) /\ HasMbx(TID_KCD)
    <3>1. m \in RtxMsg
      BY <1>0, <1>13, MessageType, HeadTailProperties DEF IrqChar
    <3>2. /\ mbx'[TID_KCD].max = mbx[TID_KCD].max /\ mbx'[TID_KCD].msgs # << >>
          /\ ~Blocked(g_tcbs', TID_KCD)
          /\ \A u \in Tid \ {TID_KCD} : /\ mbx'[u] = mbx[u]
                                        /\ Blocked(g_tcbs', u) <=> Blocked(g_tcbs, u)
      BY <2>2, <3>1, DeliverWakes, ConstantFacts DEF Sender
    <3>. QED BY <1>0, <2>1, <2>2, <3>2
         DEF NoLostWakeup, Asleep, Receiving, HasMbx, IsEmpty, Blocked
  <2>3. CASE UNCHANGED << vars, mbx >>
    BY <1>0, <1>1, <2>1, <2>3 DEF NoLostWakeup, Asleep, HasMbx, IsEmpty, Blocked
  <2>. QED BY <1>13, <2>2, <2>3 DEF IrqChar, Accepts
<1>. QED BY <1>2, <1>3, <1>5, <1>6, <1>7, <1>9, <1>10, <1>11, <1>12, <1>13 DEF MsgStep

-----------------------------------------------------------------------------
(* The sender of a message. *)

LEMMA AppendToSet ==
  ASSUME NEW T, NEW q \in Seq(T), NEW x \in T
  PROVE  ToSet(Append(q, x)) = ToSet(q) \cup {x}
<1>1. /\ DOMAIN q = 1..Len(q) /\ Len(q) \in Nat
      /\ Append(q, x) \in Seq(T) /\ Len(Append(q, x)) = Len(q) + 1
      /\ \A i \in 1..Len(q) : Append(q, x)[i] = q[i]
      /\ Append(q, x)[Len(q) + 1] = x
  BY LenProperties, AppendProperties
<1>2. DOMAIN Append(q, x) = 1..(Len(q) + 1)
  BY <1>1, LenProperties
<1>. QED BY <1>1, <1>2 DEF ToSet

LEMMA TailToSet ==
  ASSUME NEW T, NEW q \in Seq(T), q # << >>
  PROVE  ToSet(Tail(q)) \subseteq ToSet(q)
<1>1. /\ DOMAIN q = 1..Len(q) /\ Len(q) \in Nat \ {0}
      /\ Tail(q) \in Seq(T) /\ Len(Tail(q)) = Len(q) - 1
      /\ \A i \in 1..Len(Tail(q)) : Tail(q)[i] = q[i + 1]
  BY LenProperties, HeadTailProperties, EmptySeq
<1>2. DOMAIN Tail(q) = 1..(Len(q) - 1)
  BY <1>1, LenProperties
<1>. QED BY <1>1, <1>2 DEF ToSet

LEMMA SenderKept ==
  ASSUME SchedInv, MsgInv, MsgStep
  PROVE  SenderInv'
<1>0. /\ mbx \in [Tid -> Mailbox] /\ rx \in Seq(Keys) /\ interrupt_flag \in BOOLEAN
      /\ Current \in Tid /\ MsgTypeOK /\ (interrupt_flag => refused)
      /\ \A t \in Tid : mbx[t].msgs \in Seq(Letter)
      /\ \A t \in Tid : \A x \in ToSet(mbx[t].msgs) :
           x.sender # x.from => refused /\ x.sender = TID_UART_IRQ
  BY CurrentFacts DEF MsgInv, MsgTypeOK, SenderInv, SenderNamed, Current, Mailbox
<1>1. ASSUME refused => refused', interrupt_flag' => refused',
             \A t \in Tid : \A x \in ToSet(mbx'[t].msgs) :
               \/ x \in ToSet(mbx[t].msgs)
               \/ x.sender # x.from => refused' /\ x.sender = TID_UART_IRQ
      PROVE  SenderInv'
  BY <1>0, <1>1 DEF SenderInv, SenderNamed
<1>2. \A q \in Seq(Letter), x \in Letter : ToSet(Append(q, x)) = ToSet(q) \cup {x}
  BY AppendToSet
<1>3. \A q \in Seq(Letter) : q # << >> => ToSet(Tail(q)) \subseteq ToSet(q)
  BY TailToSet
<1>4. ASSUME NEW t \in Tid, NEW m \in RtxMsg, NEW flag \in BOOLEAN, NEW from \in Sender,
             Deliver(t, m, flag, from), refused' = refused,
             flag => refused \/ from = TID_UART_IRQ, ~flag => from = Current
      PROVE  SenderInv'
  <2> DEFINE x == [m |-> m, from |-> from, sender |-> IF flag THEN TID_UART_IRQ ELSE Current]
  <2>1. /\ x \in Letter /\ interrupt_flag' = FALSE /\ \A u \in Tid \ {t} : mbx'[u] = mbx[u]
        /\ mbx'[t].msgs = Append(mbx[t].msgs, x)
    BY <1>0, <1>4, DeliverType
  <2>2. x.sender # x.from => refused' /\ x.sender = TID_UART_IRQ
    BY <1>4
  <2>. HIDE DEF x
  <2>3. ToSet(mbx'[t].msgs) = ToSet(mbx[t].msgs) \cup {x}
    BY <1>0, <1>2, <2>1
  <2>. QED BY <1>1, <1>4, <2>1, <2>2, <2>3
<1>5. ASSUME NEW t \in Tid, NEW m \in RtxMsg, send_msg(t, m)
      PROVE  SenderInv'
  <2>1. /\ Deliver(t, m, interrupt_flag, Current)
        /\ refused' = refused
    BY <1>5 DEF send_msg
  <2>. QED BY <1>0, <1>4, <2>1, MessageType DEF Sender
<1>6. CASE IrqChar
  <2> DEFINE m == Message(HdrSize + 1, "KEY_IN", << Head(rx) >>)
  <2>1. CASE Deliver(TID_KCD, m, TRUE, TID_UART_IRQ) /\ UNCHANGED refused
    <3>1. m \in RtxMsg
      BY <1>0, <1>6, MessageType, HeadTailProperties DEF IrqChar
    <3>. QED BY <1>4, <2>1, <3>1, ConstantFacts DEF Sender
  <2>2. CASE refused' = TRUE /\ UNCHANGED mbx
    BY <1>1, <2>2
  <2>. QED BY <1>6, <2>1, <2>2 DEF IrqChar
<1>7. ASSUME NEW n, NEW nb, TakeFirst(n, nb), ~IsEmpty(Current),
             refused' = refused, interrupt_flag' = interrupt_flag
      PROVE  SenderInv'
  <2>1. /\ \A u \in Tid \ {Current} : mbx'[u] = mbx[u]
        /\ mbx'[Current].msgs = Tail(mbx[Current].msgs)
    BY <1>0, <1>7 DEF TakeFirst, Mailbox
  <2>2. \A u \in Tid : ToSet(mbx'[u].msgs) \subseteq ToSet(mbx[u].msgs)
    BY <1>0, <1>3, <1>7, <2>1 DEF IsEmpty
  <2>. QED BY <1>0, <1>1, <1>7, <2>2
<1>8. CASE RecvAtOnce \/ recv_msg_nb
  BY <1>7, <1>8 DEF RecvAtOnce, recv_msg_nb
<1>9. CASE RecvWoken
  BY <1>0, <1>7, <1>9, MessageThere DEF RecvWoken, MsgInv
<1>10. ASSUME NEW b, b.msgs = << >>, mbx' = [mbx EXCEPT ![Current] = b],
              refused' = refused, interrupt_flag' = interrupt_flag
       PROVE  SenderInv'
  <2>1. \A u \in Tid : mbx'[u] = mbx[u] \/ mbx'[u].msgs = << >>
    BY <1>0, <1>10
  <2>2. ToSet(<< >>) = {}
    BY DEF ToSet
  <2>. QED BY <1>0, <1>1, <1>10, <2>1, <2>2
<1>11. ASSUME NEW n \in MbxSizes, k_mbx_create(n) PROVE SenderInv'
  BY <1>0, <1>10, <1>11, MailboxType DEF k_mbx_create
<1>12. ASSUME UNCHANGED << mbx, interrupt_flag, refused >> PROVE SenderInv'
  BY <1>0, <1>1, <1>12
<1>13. CASE tsk_exit
  <2>1. CASE mbx' = [mbx EXCEPT ![Current] = NoMailbox]
    BY <1>0, <1>10, <1>13, <2>1, MailboxType DEF tsk_exit
  <2>2. CASE mbx' = mbx
    BY <1>12, <1>13, <2>2 DEF tsk_exit
  <2>. QED BY <1>13, <2>1, <2>2 DEF tsk_exit
<1>14. ASSUME \/ \E at \in {"recv", "recv_null"} : RecvSleep(at)
              \/ RecvWokenNull \/ CarefulCall \/ UartIrq \/ IrqFree \/ IrqEnd
              \/ \E c \in Keys : KeyTyped(c)
       PROVE  SenderInv'
  BY <1>12, <1>14 DEF RecvSleep, RecvWokenNull, CarefulCall, ipc, UartIrq, IrqFree, IrqEnd, KeyTyped
<1>. QED BY <1>5, <1>6, <1>8, <1>9, <1>11, <1>13, <1>14 DEF MsgStep

-----------------------------------------------------------------------------
(* The interrupt handler. *)

(* Only the current task, between its calls, enters the handler; it leaves  *)
(* it, when it has the CPU again, with the end of the interrupt.            *)
LEMMA HandlerKept ==
  ASSUME SchedInv, SchedInv', MsgInv, MsgStep
  PROVE  HandlerInv'
<1>0. /\ kctx \in [Tid -> KCtx] /\ rx \in Seq(Keys) /\ interrupt_flag \in BOOLEAN
      /\ Current \in Tid /\ HandlerInv
      /\ TaskRuns => Alive(g_tcbs, Current)
  BY CurrentFacts DEF MsgInv, MsgTypeOK, Current
<1>1. ASSUME \A t \in Tid : Handling(t)' <=> Handling(t), irq_active' = irq_active,
             \A t \in Tid : Handling(t) /\ Alive(g_tcbs, t) => Alive(g_tcbs', t)
      PROVE  HandlerInv'
  BY <1>0, <1>1 DEF HandlerInv
<1>2. UNCHANGED vars => \A t \in Tid : Alive(g_tcbs, t) => Alive(g_tcbs', t)
  BY DEF vars
<1>3. ASSUME UNCHANGED << vars, kctx, irq_active >> PROVE HandlerInv'
  BY <1>1, <1>2, <1>3 DEF Handling
<1>4. CASE \/ \E n \in MbxSizes : k_mbx_create(n)
           \/ RecvAtOnce \/ recv_msg_nb
           \/ \E c \in Keys : KeyTyped(c)
  BY <1>3, <1>4 DEF k_mbx_create, RecvAtOnce, recv_msg_nb, KeyTyped
<1>5. ASSUME NEW t \in Tid, NEW m \in RtxMsg, send_msg(t, m)
      PROVE  HandlerInv'
  <2>1. /\ Deliver(t, m, interrupt_flag, Current)
        /\ kctx' = kctx /\ irq_active' = irq_active
    BY <1>5 DEF send_msg
  <2>2. \A u \in Tid : Alive(g_tcbs, u) => Alive(g_tcbs', u)
    BY <1>0, <2>1, MessageType, DeliverWakes DEF Sender
  <2>. QED BY <1>1, <2>1, <2>2 DEF Handling
<1>6. ASSUME NEW at \in {"recv", "recv_null"}, RecvSleep(at) PROVE HandlerInv'
  <2>1. /\ \A t \in Tid : Handling(t)' <=> Handling(t)
        /\ ~Handling(Current) /\ irq_active' = irq_active
    BY <1>0, <1>6 DEF RecvSleep, Stands, Handling
  <2>2. \A t \in Tid : t # Current /\ Alive(g_tcbs, t) => Alive(g_tcbs', t)
    BY <1>6, RecvStates DEF RecvSleep, Current
  <2>. QED BY <1>1, <2>1, <2>2
<1>7. CASE RecvWoken \/ RecvWokenNull
  <2>1. /\ \A t \in Tid : Handling(t)' <=> Handling(t)
        /\ irq_active' = irq_active /\ UNCHANGED vars
    BY <1>0, <1>7 DEF RecvWoken, RecvWokenNull, Stands, Handling
  <2>. QED BY <1>1, <1>2, <2>1
<1>8. CASE tsk_exit
  <2>1. kctx' = kctx /\ ~Handling(Current) /\ irq_active' = irq_active
    BY <1>8 DEF tsk_exit, Stands, Handling
  <2>2. \A t \in Tid : t # Current /\ Alive(g_tcbs, t) => Alive(g_tcbs', t)
    BY <1>8, ExitStates DEF tsk_exit, Current
  <2>. QED BY <1>1, <2>1, <2>2 DEF Handling
<1>9. CASE CarefulCall
  BY <1>1, <1>9, OtherStates DEF CarefulCall, ipc, Handling, SameStates
<1>10. CASE UartIrq
  <2>1. /\ irq_active' = TRUE /\ ~irq_active /\ Alive(g_tcbs', Current)
        /\ kctx' = [kctx EXCEPT ![Current] = "irq"]
    BY <1>0, <1>2, <1>10 DEF UartIrq
  <2>2. \A t \in Tid : ~Handling(t)
    BY <1>0, <2>1 DEF HandlerInv
  <2>3. \A t \in Tid : Handling(t)' <=> t = Current
    BY <1>0, <2>1, <2>2 DEF Handling
  <2>. QED BY <1>0, <2>1, <2>3 DEF HandlerInv
<1>11. CASE IrqChar
  <2> DEFINE m == Message(HdrSize + 1, "KEY_IN", << Head(rx) >>)
  <2>1. (\A t \in Tid : Handling(t)' <=> Handling(t)) /\ irq_active' = irq_active
    BY <1>0, <1>11 DEF IrqChar, Stands, Handling
  <2>2. CASE Deliver(TID_KCD, m, TRUE, TID_UART_IRQ)
    <3>1. m \in RtxMsg
      BY <1>0, <1>11, MessageType, HeadTailProperties DEF IrqChar
    <3>2. \A u \in Tid : Alive(g_tcbs, u) => Alive(g_tcbs', u)
      BY <2>2, <3>1, DeliverWakes, ConstantFacts DEF Sender, MsgInv
    <3>. QED BY <1>1, <2>1, <3>2
  <2>3. CASE UNCHANGED vars
    BY <1>1, <1>2, <2>1, <2>3
  <2>. QED BY <1>11, <2>2, <2>3 DEF IrqChar
<1>12. CASE IrqFree
  <2>1. /\ \A t \in Tid : Handling(t)' <=> Handling(t)
        /\ irq_active' = irq_active /\ UNCHANGED vars
    BY <1>0, <1>12 DEF IrqFree, Stands, Handling
  <2>. QED BY <1>1, <1>2, <2>1
<1>13. CASE IrqEnd
  <2>1. /\ irq_active' = FALSE /\ Handling(Current)
        /\ kctx' = [kctx EXCEPT ![Current] = "user"]
    BY <1>13 DEF IrqEnd, AfterEnd, Stands, Handling
  <2>2. \A t \in Tid : Handling(t) => t = Current
    BY <1>0, <2>1 DEF HandlerInv
  <2>3. \A t \in Tid : ~Handling(t)'
    BY <1>0, <2>1, <2>2 DEF Handling
  <2>. QED BY <2>1, <2>3 DEF HandlerInv
<1>. QED BY <1>4, <1>5, <1>6, <1>7, <1>8, <1>9, <1>10, <1>11, <1>12, <1>13 DEF MsgStep

-----------------------------------------------------------------------------
(* The invariant and what follows from it. *)

LEMMA MsgInvInit ==
  ASSUME MsgInit
  PROVE  MsgInv
<1>1. /\ mbx = [t \in Tid |-> NoMailbox] /\ kctx = [t \in Tid |-> "user"]
      /\ interrupt_flag = FALSE /\ rx = << >> /\ irq_active = FALSE /\ refused = FALSE
      /\ NoMailbox \in Mailbox /\ NoMailbox.msgs = << >>
  <2>1. NoMailbox \in Mailbox /\ NoMailbox.msgs = << >>
    BY SizeFacts, EmptySeq DEF NoMailbox, Mailbox
  <2>. QED BY <2>1 DEF MsgInit
<1>2. MsgTypeOK
  BY <1>1, EmptySeq DEF MsgTypeOK, KCtx
<1>3. \A t \in Tid : ~Asleep(t)
  BY ConstantFacts DEF MsgInit, Init, Asleep
<1>4. NoLostWakeup
  BY <1>1, <1>3 DEF NoLostWakeup, Receiving
<1>5. SenderInv
  <2>1. ToSet(<< >>) = {}
    BY DEF ToSet
  <2>. QED BY <1>1, <2>1 DEF SenderInv, SenderNamed
<1>6. HandlerInv
  BY <1>1 DEF HandlerInv, Handling
<1>. QED BY <1>2, <1>4, <1>5, <1>6 DEF MsgInv

LEMMA MsgInvStep ==
  ASSUME SchedInv, SchedInv', MsgInv, [MsgStep]_msgvars
  PROVE  MsgInv'
<1>1. CASE MsgStep
  BY <1>1, MsgTypeKept, WakeKept, SenderKept, HandlerKept DEF MsgInv
<1>2. CASE UNCHANGED msgvars
  BY <1>2 DEF msgvars, ipc, vars, MsgInv, MsgTypeOK, NoLostWakeup, SenderInv, SenderNamed,
              HandlerInv, Asleep, Receiving, HasMbx, IsEmpty, Handling, Alive
<1>. QED BY <1>1, <1>2

(* The invariant of mailboxes and interrupts, on top of the scheduler's. *)
THEOREM MsgInvariant == ASSUME WellUsed PROVE MsgSpec => []MsgInv
<1>1. MsgInit => MsgInv
  BY MsgInvInit
<1>2. SchedInv /\ SchedInv' /\ MsgInv /\ [MsgNext]_msgvars => MsgInv'
  BY MsgInvStep, StepWhenUsedWell
<1>. QED BY <1>1, <1>2, MsgSchedInvariant, PTL DEF MsgSpec

(* A task sleeps in k_recv_msg exactly as long as its mailbox is empty: every *)
(* message that k_send_msg accepts, of a task or of the handler, wakes it.    *)
THEOREM NoLostWakeupHolds == ASSUME WellUsed PROVE MsgSpec => []NoLostWakeup
<1>1. MsgInv => NoLostWakeup
  BY DEF MsgInv
<1>. QED BY <1>1, MsgInvariant, PTL

(* k_send_msg names the sender until a character of the UART is refused, and *)
(* after that the worst it does is to name the UART.                         *)
THEOREM SenderNamedHolds == ASSUME WellUsed PROVE MsgSpec => []SenderNamed
<1>1. MsgInv => SenderNamed
  BY DEF MsgInv, SenderInv
<1>. QED BY <1>1, MsgInvariant, PTL

LEMMA HandlerSurvivesFromInv ==
  ASSUME MsgInv
  PROVE  HandlerSurvives
<1>1. ASSUME irq_active PROVE Cardinality({t \in Tid : Handling(t)}) = 1
  <2>1. PICK t \in Tid : \A u \in Tid : Handling(u) <=> u = t
    BY <1>1 DEF MsgInv, HandlerInv
  <2>2. {u \in Tid : Handling(u)} = {t}
    BY <2>1
  <2>. QED BY <2>2, FS_Singleton
<1>2. \A t \in Tid : Handling(t) => irq_active /\ g_tcbs[t].state \in {"READY", "RUNNING"}
  BY DEF MsgInv, HandlerInv, Alive
<1>. QED BY <1>1, <1>2 DEF HandlerSurvives

(* c_IRQ_Handler may switch tasks before it ends the interrupt: the one task  *)
(* that is inside it stays READY or RUNNING, so that it can still end it.    *)
THEOREM HandlerSurvivesHolds == ASSUME WellUsed PROVE MsgSpec => []HandlerSurvives
<1>1. MsgInv => HandlerSurvives
  BY HandlerSurvivesFromInv
<1>. QED BY <1>1, MsgInvariant, PTL

-----------------------------------------------------------------------------
(* The accounts: curr_size of a mailbox and the blocks in use. *)

Sized(b) == b.max \in {0} \cup MbxSizes /\ (b.max = 0 => b.msgs = << >>)

Exact(b) ==
  b.max # 0 /\ b.nb = 0 =>
    /\ b.curr = MailBoxSize + SumFunction(LengthsOf(b.msgs))
    /\ b.msgs # << >> => b.curr <= b.max

AccountInv == \A t \in Tid : Sized(mbx[t]) /\ Exact(mbx[t])

(* No account and no sum of an account and a length reaches SIZEMOD. *)
LEMMA SizeBounds ==
  /\ \A n \in MbxSizes : n + MailBoxSize < SIZEMOD
  /\ \A n \in Length : n + MailBoxSize < SIZEMOD
  /\ \A n \in MbxSizes, k \in Length : n + k < SIZEMOD
<1>1. SIZEMOD \in Nat /\ SIZEMOD > 32 /\ MbxSizes \cup Lengths \subseteq 0..(SIZEMOD \div 2 - 1)
  BY MsgAssumption DEF MailBoxSize
<1>2. SIZEMOD \div 2 \in Nat /\ 2 * (SIZEMOD \div 2) <= SIZEMOD /\ SIZEMOD \div 2 >= 16
  BY <1>1
<1>. QED BY <1>1, <1>2 DEF Length, HdrSize, MailBoxSize

LEMMA LengthsType ==
  ASSUME NEW s \in Seq(Letter)
  PROVE  /\ LengthsOf(s) \in Seq(Int)
         /\ \A i \in DOMAIN LengthsOf(s) : LengthsOf(s)[i] \in Nat
         /\ SumFunction(LengthsOf(s)) \in Nat
<1>1. Len(s) \in Nat /\ DOMAIN s = 1..Len(s) /\ \A i \in 1..Len(s) : s[i] \in Letter
  BY LenProperties, ElementOfSeq
<1>2. \A x \in Letter : x.m.length \in Nat
  BY SizeFacts DEF Letter, RtxMsg
<1> DEFINE w == LengthsOf(s)
<1>3. DOMAIN w = 1..Len(s) /\ \A i \in 1..Len(s) : w[i] \in Nat /\ w[i] \in Int
  BY <1>1, <1>2 DEF LengthsOf
<1>4. w \in Seq(Int)
  <2>1. w = [i \in 1..Len(s) |-> w[i]]
    BY <1>1 DEF LengthsOf
  <2>2. w \in [1..Len(s) -> Int]
    <3>. HIDE DEF w
    <3>. QED BY <1>3, <2>1
  <2>. QED BY <1>1, <2>2, SeqDef
<1>5. SumFunction(w) \in Nat
  <2>1. IsFiniteSet(1..Len(s))
    BY <1>1, FS_Interval
  <2>. HIDE DEF w
  <2>. QED BY <1>3, <2>1, SumNat DEF SumFunction
<1>. QED BY <1>3, <1>4, <1>5

LEMMA LengthsOfAppend ==
  ASSUME NEW s \in Seq(Letter), NEW x \in Letter
  PROVE  SumFunction(LengthsOf(Append(s, x))) = SumFunction(LengthsOf(s)) + x.m.length
<1> DEFINE a == LengthsOf(Append(s, x))
           b == Append(LengthsOf(s), x.m.length)
<1>1. /\ Append(s, x) \in Seq(Letter) /\ Len(Append(s, x)) = Len(s) + 1
      /\ \A i \in 1..Len(s) : Append(s, x)[i] = s[i]
      /\ Append(s, x)[Len(s) + 1] = x
  BY AppendProperties
<1>2. /\ Len(s) \in Nat /\ DOMAIN s = 1..Len(s) /\ DOMAIN Append(s, x) = 1..(Len(s) + 1)
      /\ x.m.length \in Int
  BY <1>1, LenProperties, SizeFacts DEF Letter, RtxMsg
<1>3. LengthsOf(s) \in Seq(Int) /\ a \in Seq(Int) /\ b \in Seq(Int)
  BY <1>1, <1>2, LengthsType, AppendProperties
<1>4. Len(LengthsOf(s)) = Len(s) /\ Len(a) = Len(s) + 1 /\ Len(b) = Len(s) + 1
  <2>1. DOMAIN LengthsOf(s) = 1..Len(s) /\ DOMAIN a = 1..(Len(s) + 1)
    BY <1>2 DEF LengthsOf
  <2>2. Len(LengthsOf(s)) = Len(s) /\ Len(a) = Len(s) + 1
    <3>. HIDE DEF a
    <3>. QED BY <1>2, <1>3, <2>1, LenProperties
  <2>. QED BY <1>2, <1>3, <2>2, AppendProperties
<1>5. \A i \in 1..Len(a) : a[i] = b[i]
  <2>1. ASSUME NEW i \in 1..Len(s) PROVE a[i] = b[i]
    <3>1. a[i] = s[i].m.length
      BY <1>1, <1>2 DEF LengthsOf
    <3>2. LengthsOf(s)[i] = s[i].m.length
      BY <1>2 DEF LengthsOf
    <3>3. b[i] = LengthsOf(s)[i]
      BY <1>2, <1>3, <1>4, AppendProperties
    <3>. QED BY <3>1, <3>2, <3>3
  <2>2. a[Len(s) + 1] = x.m.length
    BY <1>1, <1>2 DEF LengthsOf
  <2>3. b[Len(s) + 1] = x.m.length
    BY <1>2, <1>3, <1>4, AppendProperties
  <2>. QED BY <1>2, <1>4, <2>1, <2>2, <2>3
<1>6. a = b
  <2>. HIDE DEF a, b
  <2>. QED BY <1>3, <1>4, <1>5, SeqEqual
<1>. QED BY <1>2, <1>3, <1>6, SumAppend

LEMMA SameLength ==
  ASSUME NEW s \in Seq(Int), NEW n \in Nat, DOMAIN s = 1..n
  PROVE  Len(s) = n
<1>1. Len(s) \in Nat /\ DOMAIN s = 1..Len(s)
  BY LenProperties
<1>2. \A j \in Nat : j \in 1..n <=> j \in 1..Len(s)
  BY <1>1
<1>3. ~(n < Len(s)) /\ ~(Len(s) < n)
  BY <1>1, <1>2
<1>. QED BY <1>1, <1>3

LEMMA LengthsOfTail ==
  ASSUME NEW s \in Seq(Letter), s # << >>
  PROVE  SumFunction(LengthsOf(Tail(s))) = SumFunction(LengthsOf(s)) - Head(s).m.length
<1> DEFINE a == LengthsOf(Tail(s))
           b == Tail(LengthsOf(s))
<1>1. /\ Tail(s) \in Seq(Letter) /\ Len(Tail(s)) = Len(s) - 1
      /\ \A i \in 1..Len(Tail(s)) : Tail(s)[i] = s[i + 1]
      /\ Head(s) = s[1]
  BY HeadTailProperties
<1>2. Len(s) \in Nat \ {0} /\ DOMAIN s = 1..Len(s) /\ DOMAIN Tail(s) = 1..(Len(s) - 1)
  BY <1>1, LenProperties, EmptySeq
<1>3. LengthsOf(s) \in Seq(Int) /\ a \in Seq(Int)
  BY <1>1, LengthsType
<1>4. DOMAIN LengthsOf(s) = 1..Len(s) /\ DOMAIN a = 1..(Len(s) - 1)
  BY <1>2 DEF LengthsOf
<1>5. Len(LengthsOf(s)) = Len(s) /\ Len(a) = Len(s) - 1 /\ LengthsOf(s) # << >>
  <2>1. Len(LengthsOf(s)) = Len(s) /\ Len(a) = Len(s) - 1
    <3>1. Len(s) - 1 \in Nat
      BY <1>2
    <3>. HIDE DEF a
    <3>. QED BY <1>2, <1>3, <1>4, <3>1, SameLength
  <2>. QED BY <1>2, <1>3, <2>1, EmptyInt
<1>6. b \in Seq(Int) /\ Len(b) = Len(s) - 1 /\ \A i \in 1..Len(b) : b[i] = LengthsOf(s)[i + 1]
  BY <1>3, <1>5, HeadTailProperties
<1>7. \A i \in 1..Len(a) : a[i] = b[i]
  <2>. SUFFICES ASSUME NEW i \in 1..Len(a) PROVE a[i] = b[i]
    OBVIOUS
  <2>1. i \in 1..(Len(s) - 1) /\ i + 1 \in 1..Len(s)
    BY <1>2, <1>5
  <2>2. a[i] = s[i + 1].m.length
    BY <1>1, <1>2, <2>1 DEF LengthsOf
  <2>3. LengthsOf(s)[i + 1] = s[i + 1].m.length
    BY <1>2, <2>1 DEF LengthsOf
  <2>. QED BY <1>6, <2>1, <2>2, <2>3
<1>8. a = b
  <2>. HIDE DEF a, b
  <2>. QED BY <1>3, <1>5, <1>6, <1>7, SeqEqual
<1>9. Head(LengthsOf(s)) = Head(s).m.length
  BY <1>1, <1>2 DEF LengthsOf
<1>. QED BY <1>3, <1>5, <1>8, <1>9, SumTail

(* A message that is accepted. *)
LEMMA AppendAccount ==
  ASSUME NEW b \in Mailbox, Sized(b), Exact(b), b.max # 0, NEW x \in Letter,
         (b.curr + x.m.length) % SIZEMOD <= b.max
  PROVE  LET c == [b EXCEPT !.msgs = Append(@, x), !.curr = (@ + x.m.length) % SIZEMOD]
         IN  Sized(c) /\ Exact(c)
<1> DEFINE n == x.m.length
           c == [b EXCEPT !.msgs = Append(@, x), !.curr = (@ + n) % SIZEMOD]
<1>1. /\ b.msgs \in Seq(Letter) /\ b.curr \in 0..(SIZEMOD - 1) /\ b.max \in MbxSizes
      /\ DOMAIN b = {"max", "curr", "msgs", "nb"}
  BY DEF Mailbox, Sized
<1>2. n \in Length /\ n \in Nat
  BY SizeFacts DEF Letter, RtxMsg
<1>. HIDE DEF n
<1>3. c.max = b.max /\ c.nb = b.nb /\ c.msgs = Append(b.msgs, x) /\ c.curr = (b.curr + n) % SIZEMOD
  BY <1>1
<1>. HIDE DEF c
<1>4. ASSUME b.nb = 0
      PROVE  c.curr = MailBoxSize + SumFunction(LengthsOf(c.msgs)) /\ c.curr <= c.max
  <2>1. b.curr = MailBoxSize + SumFunction(LengthsOf(b.msgs))
    BY <1>4 DEF Exact
  <2>2. SumFunction(LengthsOf(c.msgs)) = SumFunction(LengthsOf(b.msgs)) + n
    BY <1>1, <1>3, LengthsOfAppend DEF n
  <2>3. SumFunction(LengthsOf(b.msgs)) \in Nat
    BY <1>1, LengthsType
  <2>4. b.curr + n < SIZEMOD
    <3>1. CASE b.msgs = << >>
      <4>1. SumFunction(LengthsOf(b.msgs)) = 0
        <5>1. LengthsOf(<< >>) = << >>
          BY DEF LengthsOf
        <5>. QED BY <3>1, <5>1, SumEmptySeq, Zenon
      <4>. QED BY <1>2, <2>1, <4>1, SizeBounds DEF MailBoxSize
    <3>2. CASE b.msgs # << >>
      <4>1. b.curr <= b.max
        BY <1>4, <3>2 DEF Exact
      <4>2. b.max + n < SIZEMOD /\ b.max \in Nat
        BY <1>1, <1>2, SizeBounds, SizeFacts
      <4>. QED BY <1>1, <1>2, <4>1, <4>2, SizeFacts
    <3>. QED BY <3>1, <3>2
  <2>5. (b.curr + n) % SIZEMOD = b.curr + n
    <3>1. SIZEMOD \in Nat /\ SIZEMOD > 32
      BY SizeFacts
    <3>2. b.curr + n \in 0..(SIZEMOD - 1)
      BY <1>1, <1>2, <2>4, <3>1
    <3>3. \A m \in 0..(SIZEMOD - 1) : m % SIZEMOD = m
      BY <3>1
    <3>. QED BY <3>2, <3>3, Zenon
  <2>6. (b.curr + n) % SIZEMOD <= b.max
    BY DEF n
  <2>7. c.curr = (MailBoxSize + SumFunction(LengthsOf(b.msgs))) + n
    BY <1>3, <2>1, <2>5, Zenon
  <2>8. c.curr = MailBoxSize + SumFunction(LengthsOf(c.msgs))
    BY <1>2, <2>2, <2>3, <2>7 DEF MailBoxSize
  <2>. QED BY <1>3, <2>6, <2>8, Zenon
<1>5. Sized(c)
  BY <1>3 DEF Sized
<1>6. Exact(c)
  BY <1>3, <1>4 DEF Exact
<1>. QED BY <1>5, <1>6 DEF c, n

(* A message that is taken, by recv_msg (k = 0) or by recv_msg_nb. *)
LEMMA TakeAccount ==
  ASSUME NEW b \in Mailbox, Sized(b), Exact(b), b.msgs # << >>,
         NEW k \in {0, MessageNodeSize}, NEW nb \in Nat, k # 0 => nb # 0
  PROVE  LET c == [b EXCEPT !.msgs = Tail(@), !.curr = Reduced(@, Head(b.msgs).m.length + k),
                            !.nb = @ + nb]
         IN  Sized(c) /\ Exact(c)
<1> DEFINE n == Head(b.msgs).m.length
           c == [b EXCEPT !.msgs = Tail(@), !.curr = Reduced(@, n + k), !.nb = @ + nb]
<1>1. /\ b.msgs \in Seq(Letter) /\ b.curr \in 0..(SIZEMOD - 1) /\ b.max \in MbxSizes
      /\ b.nb \in Nat /\ DOMAIN b = {"max", "curr", "msgs", "nb"} /\ b.max # 0
  BY DEF Mailbox, Sized
<1>2. n \in Length /\ n \in Nat
  <2>1. Head(b.msgs) \in Letter
    BY <1>1, HeadTailProperties
  <2>. QED BY <2>1, SizeFacts DEF Letter, RtxMsg
<1>3. c.max = b.max /\ c.nb = b.nb + nb /\ c.msgs = Tail(b.msgs) /\ c.curr = Reduced(b.curr, n + k)
  BY <1>1
<1>. HIDE DEF c, n
<1>4. ASSUME c.nb = 0
      PROVE  c.curr = MailBoxSize + SumFunction(LengthsOf(c.msgs)) /\ c.curr <= c.max
  <2>1. b.nb = 0 /\ k = 0
    BY <1>1, <1>3, <1>4
  <2>2. b.curr = MailBoxSize + SumFunction(LengthsOf(b.msgs)) /\ b.curr <= b.max
    BY <1>1, <2>1 DEF Exact
  <2>3. SumFunction(LengthsOf(c.msgs)) = SumFunction(LengthsOf(b.msgs)) - n
    BY <1>1, <1>3, LengthsOfTail DEF n
  <2>4. SumFunction(LengthsOf(b.msgs)) \in Nat /\ SumFunction(LengthsOf(c.msgs)) \in Nat
    <3>1. c.msgs \in Seq(Letter)
      BY <1>1, <1>3, HeadTailProperties
    <3>. QED BY <1>1, <3>1, LengthsType
  <2>5. b.curr >= n
    BY <1>2, <2>2, <2>3, <2>4 DEF MailBoxSize
  <2>6. (b.curr + SIZEMOD - n) % SIZEMOD = b.curr - n
    <3>0. SIZEMOD \in Nat /\ SIZEMOD > 32
      BY SizeFacts
    <3>1. \A m \in 0..(SIZEMOD - 1) : (m + SIZEMOD) % SIZEMOD = m
      BY <3>0
    <3>2. b.curr - n \in 0..(SIZEMOD - 1)
      BY <1>1, <1>2, <2>5, <3>0
    <3>3. b.curr + SIZEMOD - n = (b.curr - n) + SIZEMOD
      BY <1>1, <1>2, <3>0
    <3>. QED BY <3>1, <3>2, <3>3, Zenon
  <2>7. c.curr = b.curr - n
    <3>1. n + k = n
      BY <1>2, <2>1
    <3>. QED BY <1>3, <2>6, <3>1 DEF Reduced
  <2>8. b.max \in Nat
    BY <1>1, SizeFacts
  <2>9. c.curr = MailBoxSize + SumFunction(LengthsOf(c.msgs))
    BY <1>2, <2>2, <2>3, <2>4, <2>7 DEF MailBoxSize
  <2>10. c.curr <= c.max
    BY <1>1, <1>2, <1>3, <2>2, <2>7, <2>8
  <2>. QED BY <2>9, <2>10
<1>5. Sized(c)
  BY <1>1, <1>3 DEF Sized
<1>6. Exact(c)
  BY <1>4 DEF Exact
<1>. QED BY <1>5, <1>6 DEF c, n

LEMMA AccountFrame ==
  ASSUME AccountInv, MsgTypeOK, NEW t \in Tid, NEW c, mbx' = [mbx EXCEPT ![t] = c],
         Sized(c), Exact(c)
  PROVE  AccountInv'
BY DEF AccountInv, MsgTypeOK

LEMMA DeliverAccount ==
  ASSUME MsgTypeOK, AccountInv, NEW t \in Tid, NEW m \in RtxMsg, NEW flag \in BOOLEAN,
         NEW from \in Sender, Current \in Tid, Accepts(t, m.length), Deliver(t, m, flag, from)
  PROVE  AccountInv'
<1> DEFINE x == [m |-> m, from |-> from, sender |-> IF flag THEN TID_UART_IRQ ELSE Current]
           c == [mbx[t] EXCEPT !.msgs = Append(@, x), !.curr = (@ + x.m.length) % SIZEMOD]
<1>1. x \in Letter /\ x.m = m
  BY DEF Letter, Sender
<1>2. mbx \in [Tid -> Mailbox] /\ mbx[t] \in Mailbox /\ Sized(mbx[t]) /\ Exact(mbx[t])
  BY DEF MsgTypeOK, AccountInv
<1>3. mbx[t].max # 0 /\ (mbx[t].curr + x.m.length) % SIZEMOD <= mbx[t].max
  BY <1>1 DEF Accepts, HasMbx
<1>4. mbx' = [mbx EXCEPT ![t] = c]
  BY <1>1, <1>2 DEF Deliver
<1>. HIDE DEF x
<1>5. Sized(c) /\ Exact(c)
  <2>1. PICK b \in Mailbox : b = mbx[t]
    BY <1>2
  <2>. QED BY <1>1, <1>2, <1>3, <2>1, AppendAccount
<1>. HIDE DEF c
<1>. QED BY <1>4, <1>5, AccountFrame

LEMMA TakeFirstAccount ==
  ASSUME MsgTypeOK, AccountInv, Current \in Tid, ~IsEmpty(Current),
         NEW k \in {0, MessageNodeSize}, NEW nb \in Nat, k # 0 => nb # 0,
         TakeFirst(FirstOf(Current).m.length + k, nb)
  PROVE  AccountInv'
<1> DEFINE n == FirstOf(Current).m.length
           c == [mbx[Current] EXCEPT !.msgs = Tail(@), !.curr = Reduced(@, n + k), !.nb = @ + nb]
<1>1. /\ mbx \in [Tid -> Mailbox] /\ mbx[Current] \in Mailbox /\ mbx[Current].msgs # << >>
      /\ Sized(mbx[Current]) /\ Exact(mbx[Current])
  BY DEF MsgTypeOK, IsEmpty, AccountInv
<1>2. mbx' = [mbx EXCEPT ![Current] = c]
  BY DEF TakeFirst
<1>3. Sized(c) /\ Exact(c)
  <2>1. PICK b \in Mailbox : b = mbx[Current]
    BY <1>1
  <2>2. n = Head(b.msgs).m.length
    BY <2>1 DEF FirstOf
  <2>. HIDE DEF n
  <2>. QED BY <1>1, <2>1, <2>2, TakeAccount
<1>. HIDE DEF c, n
<1>. QED BY <1>2, <1>3, AccountFrame

LEMMA AccountStep ==
  ASSUME SchedInv, MsgInv, AccountInv, [MsgStep]_msgvars
  PROVE  AccountInv'
<1>0. MsgTypeOK /\ NoLostWakeup /\ Current \in Tid /\ rx \in Seq(Keys) /\ interrupt_flag \in BOOLEAN
  BY CurrentFacts DEF MsgInv, MsgTypeOK, Current
<1>1. ASSUME UNCHANGED mbx PROVE AccountInv'
  BY <1>1 DEF AccountInv
<1>2. ASSUME NEW n \in MbxSizes, k_mbx_create(n) PROVE AccountInv'
  <2>1. n \in Nat /\ n # 0
    BY <1>2, SizeFacts DEF k_mbx_create, MIN_MBX_SIZE
  <2>2. NewMailbox(n).max = n /\ NewMailbox(n).msgs = << >> /\ NewMailbox(n).curr = MailBoxSize
    BY DEF NewMailbox, NoMailbox
  <2>3. SumFunction(LengthsOf(<< >>)) = 0
    <3>1. LengthsOf(<< >>) = << >>
      BY DEF LengthsOf
    <3>. QED BY <3>1, SumEmptySeq, Zenon
  <2>4. Sized(NewMailbox(n)) /\ Exact(NewMailbox(n))
    BY <2>1, <2>2, <2>3 DEF Sized, Exact, MailBoxSize
  <2>5. mbx' = [mbx EXCEPT ![Current] = NewMailbox(n)]
    BY <1>2 DEF k_mbx_create
  <2>. QED BY <1>0, <2>4, <2>5, AccountFrame
<1>3. ASSUME NEW t \in Tid, NEW m \in RtxMsg, send_msg(t, m)
      PROVE  AccountInv'
  <2>1. Accepts(t, m.length) /\ Deliver(t, m, interrupt_flag, Current)
    BY <1>3 DEF send_msg
  <2>. QED BY <1>0, <2>1, DeliverAccount DEF Sender
<1>4. CASE RecvAtOnce
  <2>1. TakeFirst(FirstOf(Current).m.length + 0, 0) /\ ~IsEmpty(Current)
    BY <1>0, <1>4, FirstLength DEF RecvAtOnce
  <2>. QED BY <1>0, <2>1, TakeFirstAccount
<1>5. CASE RecvWoken
  BY <1>0, <1>5, MessageThere, TakeFirstAccount
<1>6. CASE recv_msg_nb
  BY <1>0, <1>6, TakeFirstAccount DEF recv_msg_nb, MessageNodeSize
<1>7. CASE tsk_exit
  <2>1. CASE mbx' = [mbx EXCEPT ![Current] = NoMailbox]
    <3>1. Sized(NoMailbox) /\ Exact(NoMailbox)
      BY DEF Sized, Exact, NoMailbox
    <3>. QED BY <1>0, <2>1, <3>1, AccountFrame
  <2>. QED BY <1>1, <1>7, <2>1 DEF tsk_exit
<1>8. CASE IrqChar
  <2> DEFINE m == Message(HdrSize + 1, "KEY_IN", << Head(rx) >>)
  <2>1. m \in RtxMsg
    <3>1. Head(rx) \in Keys
      BY <1>0, <1>8, HeadTailProperties DEF IrqChar
    <3>. QED BY <3>1, MessageType
  <2>2. CASE Accepts(TID_KCD, m.length) /\ Deliver(TID_KCD, m, TRUE, TID_UART_IRQ)
    <3>. HIDE DEF m
    <3>. QED BY <1>0, <2>1, <2>2, DeliverAccount, ConstantFacts DEF Sender
  <2>. QED BY <1>1, <1>8, <2>2 DEF IrqChar
<1>9. CASE \/ \E at \in {"recv", "recv_null"} : RecvSleep(at)
           \/ RecvWokenNull \/ CarefulCall \/ (\E c \in Keys : KeyTyped(c))
           \/ UartIrq \/ IrqFree \/ IrqEnd \/ UNCHANGED msgvars
  BY <1>1, <1>9 DEF RecvSleep, RecvWokenNull, CarefulCall, KeyTyped, UartIrq, IrqFree, IrqEnd,
                    msgvars, ipc
<1>. QED BY <1>2, <1>3, <1>4, <1>5, <1>6, <1>7, <1>8, <1>9 DEF MsgStep

LEMMA AccountInit == ASSUME MsgInit PROVE AccountInv
<1>1. Sized(NoMailbox) /\ Exact(NoMailbox)
  BY DEF Sized, Exact, NoMailbox
<1>. QED BY <1>1 DEF MsgInit, AccountInv

LEMMA AccountInvariant == ASSUME WellUsed PROVE MsgSpec => []AccountInv
<1>1. MsgInit => AccountInv
  BY AccountInit
<1>2. SchedInv /\ MsgInv /\ AccountInv /\ [MsgNext]_msgvars => AccountInv'
  BY AccountStep, StepWhenUsedWell
<1>. QED BY <1>1, <1>2, MsgSchedInvariant, MsgInvariant, PTL DEF MsgSpec

(* curr_size never drifts from the messages that wait: no sequence of sends, *)
(* refusals, blocking receives, exits and new mailboxes loses or keeps a     *)
(* byte of it, and a mailbox never holds more than it was created for.       *)
THEOREM AccountExactHolds == ASSUME WellUsed PROVE MsgSpec => []AccountExact
<1>1. AccountInv => AccountExact
  BY DEF AccountInv, Exact, AccountExact, HasMbx, IsEmpty
<1>. QED BY <1>1, AccountInvariant, PTL

-----------------------------------------------------------------------------
(* The blocks in use. *)

BlocksOf == [t \in Tid |-> BlocksIn(mbx[t])]
Buffers  == {t \in Tid : kctx[t] = "irq_sent"}

LEMMA TidFinite == IsFiniteSet(Tid)
BY TaskAssumption, FS_Interval DEF Tid

LEMMA BlocksType ==
  ASSUME NEW b \in Mailbox
  PROVE  BlocksIn(b) \in Int
<1>1. b.msgs \in Seq(Letter)
  BY DEF Mailbox
<1>2. Len(b.msgs) \in Nat
  BY <1>1, LenProperties
<1>. QED BY <1>2 DEF BlocksIn

LEMMA BlocksSum == ASSUME MsgTypeOK PROVE SumFunction(BlocksOf) \in Int
<1>1. BlocksOf \in [Tid -> Int]
  BY BlocksType DEF BlocksOf, MsgTypeOK
<1>. QED BY <1>1, TidFinite, SumFunctionType

(* One mailbox changes. *)
LEMMA BlocksFrame ==
  ASSUME MsgTypeOK, NEW t \in Tid, mbx' \in [Tid -> Mailbox],
         \A u \in Tid \ {t} : mbx'[u] = mbx[u]
  PROVE  /\ SumFunction(BlocksOf) \in Int
         /\ SumFunction(BlocksOf') =
              SumFunction(BlocksOf) - BlocksIn(mbx[t]) + BlocksIn(mbx'[t])
<1>1. mbx \in [Tid -> Mailbox]
  BY DEF MsgTypeOK
<1>2. BlocksOf \in [Tid -> Int] /\ BlocksOf' \in [Tid -> Int]
  BY <1>1, BlocksType DEF BlocksOf
<1>3. \A u \in Tid : BlocksOf[u] = BlocksIn(mbx[u]) /\ BlocksOf'[u] = BlocksIn(mbx'[u])
  BY DEF BlocksOf
<1>4. PICK v \in [Tid -> Int], w \in [Tid -> Int] : v = BlocksOf' /\ w = BlocksOf
  BY <1>2
<1>5. \A u \in Tid \ {t} : v[u] = w[u]
  BY <1>3, <1>4
<1>6. SumFunction(v) = SumFunction(w) - w[t] + v[t] /\ SumFunction(w) \in Int
  BY <1>5, TidFinite, SumExcept, SumFunctionType
<1>. QED BY <1>3, <1>4, <1>6

(* What a message brings and takes. *)
LEMMA DeliverBlocks ==
  ASSUME MsgTypeOK, NEW t \in Tid, NEW m \in RtxMsg, NEW flag \in BOOLEAN, NEW from \in Sender,
         Current \in Tid, Accepts(t, m.length), Deliver(t, m, flag, from)
  PROVE  /\ SumFunction(BlocksOf) \in Int
         /\ SumFunction(BlocksOf') = SumFunction(BlocksOf) + 2
<1> DEFINE x == [m |-> m, from |-> from, sender |-> IF flag THEN TID_UART_IRQ ELSE Current]
<1>1. /\ x \in Letter /\ mbx' \in [Tid -> Mailbox]
      /\ \A u \in Tid \ {t} : mbx'[u] = mbx[u]
      /\ mbx'[t].max = mbx[t].max /\ mbx'[t].msgs = Append(mbx[t].msgs, x)
  BY DeliverType
<1>. HIDE DEF x
<1>2. mbx[t].msgs \in Seq(Letter) /\ mbx[t].max # 0
  BY DEF MsgTypeOK, Mailbox, Accepts, HasMbx
<1>3. Len(mbx'[t].msgs) = Len(mbx[t].msgs) + 1 /\ Len(mbx[t].msgs) \in Nat
  BY <1>1, <1>2, AppendProperties, LenProperties
<1>4. BlocksIn(mbx'[t]) = BlocksIn(mbx[t]) + 2 /\ BlocksIn(mbx[t]) \in Int
  BY <1>1, <1>2, <1>3 DEF BlocksIn
<1>. QED BY <1>1, <1>4, BlocksFrame

LEMMA TakeBlocks ==
  ASSUME MsgTypeOK, AccountInv, Current \in Tid, ~IsEmpty(Current),
         NEW k \in {0, MessageNodeSize}, NEW nb \in Nat,
         TakeFirst(FirstOf(Current).m.length + k, nb)
  PROVE  /\ SumFunction(BlocksOf) \in Int
         /\ SumFunction(BlocksOf') = SumFunction(BlocksOf) - 2
<1>1. /\ mbx' \in [Tid -> Mailbox]
      /\ \A u \in Tid \ {Current} : mbx'[u] = mbx[u]
      /\ mbx'[Current].max = mbx[Current].max
      /\ mbx'[Current].msgs = Tail(mbx[Current].msgs)
  BY TakeType
<1>2. /\ mbx[Current].msgs \in Seq(Letter) /\ mbx[Current].msgs # << >>
      /\ mbx[Current].max # 0
  BY DEF MsgTypeOK, Mailbox, IsEmpty, AccountInv, Sized
<1>3. Len(mbx'[Current].msgs) = Len(mbx[Current].msgs) - 1 /\ Len(mbx[Current].msgs) \in Nat
  BY <1>1, <1>2, HeadTailProperties, LenProperties
<1>4. BlocksIn(mbx'[Current]) = BlocksIn(mbx[Current]) - 2 /\ BlocksIn(mbx[Current]) \in Int
  BY <1>1, <1>2, <1>3 DEF BlocksIn
<1>. QED BY <1>1, <1>4, BlocksFrame

(* Tasks that go to sleep or on in the kernel, without a buffer. *)
LEMMA BuffersFrame ==
  ASSUME MsgTypeOK, NEW c, kctx' = [kctx EXCEPT ![Current] = c], c # "irq_sent",
         kctx[Current] # "irq_sent"
  PROVE  Buffers' = Buffers
BY DEF Buffers, MsgTypeOK

LEMMA BuffersCount == IsFiniteSet(Buffers) /\ Cardinality(Buffers) \in Nat
<1>1. Buffers \in SUBSET Tid
  BY DEF Buffers
<1>. QED BY <1>1, TidFinite, FS_Subset, FS_CardinalityType

LEMMA BlocksStep ==
  ASSUME SchedInv, MsgInv, AccountInv, BlocksExact, [MsgStep]_msgvars
  PROVE  BlocksExact'
<1>0. /\ MsgTypeOK /\ NoLostWakeup /\ Current \in Tid /\ rx \in Seq(Keys)
      /\ interrupt_flag \in BOOLEAN /\ mbx \in [Tid -> Mailbox] /\ kctx \in [Tid -> KCtx]
  BY CurrentFacts DEF MsgInv, MsgTypeOK, Current
<1>a. /\ blocks = SumFunction(BlocksOf) + Cardinality(Buffers)
      /\ BlocksExact' <=> blocks' = SumFunction(BlocksOf') + Cardinality(Buffers')
  BY DEF BlocksExact, BlocksOf, Buffers
<1>b. SumFunction(BlocksOf) \in Int /\ Cardinality(Buffers) \in Nat /\ IsFiniteSet(Buffers)
  BY <1>0, BlocksSum, BuffersCount
<1>. HIDE DEF BlocksExact
<1>1. ASSUME UNCHANGED << mbx, kctx, blocks >> PROVE BlocksExact'
  BY <1>1, <1>a DEF BlocksOf, Buffers
<1>c. UNCHANGED kctx => Buffers' = Buffers
  BY DEF Buffers
<1>d. UNCHANGED mbx => BlocksOf' = BlocksOf
  BY DEF BlocksOf
<1>2. ASSUME NEW n \in MbxSizes, k_mbx_create(n) PROVE BlocksExact'
  <2>1. NewMailbox(n) \in Mailbox /\ NewMailbox(n).max = n /\ NewMailbox(n).msgs = << >>
    BY <1>0, MailboxType
  <2>2. n # 0 /\ mbx[Current].max = 0
    <3>1. n \in Nat
      BY SizeFacts
    <3>. QED BY <1>2, <3>1 DEF k_mbx_create, MIN_MBX_SIZE, HasMbx
  <2>3. mbx' = [mbx EXCEPT ![Current] = NewMailbox(n)]
    BY <1>2 DEF k_mbx_create
  <2>. HIDE DEF NewMailbox
  <2>4. /\ mbx' \in [Tid -> Mailbox] /\ mbx'[Current] = NewMailbox(n)
        /\ \A u \in Tid \ {Current} : mbx'[u] = mbx[u]
    BY <1>0, <2>1, <2>3
  <2>5. BlocksIn(mbx[Current]) = 0 /\ BlocksIn(mbx'[Current]) = 1
    BY <2>1, <2>2, <2>4 DEF BlocksIn
  <2>6. SumFunction(BlocksOf') = SumFunction(BlocksOf) + 1
    BY <1>0, <1>b, <2>4, <2>5, BlocksFrame
  <2>7. blocks' = blocks + 1 /\ Buffers' = Buffers
    BY <1>2, <1>c DEF k_mbx_create
  <2>. QED BY <1>a, <1>b, <2>6, <2>7
<1>3. ASSUME NEW t \in Tid, NEW m \in RtxMsg, send_msg(t, m)
      PROVE  BlocksExact'
  <2>1. Accepts(t, m.length) /\ Deliver(t, m, interrupt_flag, Current)
    BY <1>3 DEF send_msg
  <2>2. blocks' = blocks + 2 /\ Buffers' = Buffers
    BY <1>3, <1>c DEF send_msg
  <2>3. SumFunction(BlocksOf') = SumFunction(BlocksOf) + 2
    BY <1>0, <2>1, DeliverBlocks DEF Sender
  <2>. QED BY <1>a, <1>b, <2>2, <2>3
<1>4. ASSUME ~IsEmpty(Current), NEW k \in {0, MessageNodeSize}, NEW nb \in Nat,
             TakeFirst(FirstOf(Current).m.length + k, nb), Buffers' = Buffers
      PROVE  BlocksExact'
  <2>1. SumFunction(BlocksOf') = SumFunction(BlocksOf) - 2
    BY <1>0, <1>4, TakeBlocks
  <2>2. blocks' = blocks - 2
    BY <1>4 DEF TakeFirst
  <2>. QED BY <1>4, <1>a, <1>b, <2>1, <2>2
<1>5. CASE RecvAtOnce
  <2>1. /\ TakeFirst(FirstOf(Current).m.length + 0, 0) /\ ~IsEmpty(Current)
        /\ Buffers' = Buffers
    BY <1>0, <1>5, <1>c, FirstLength DEF RecvAtOnce
  <2>. QED BY <1>4, <2>1
<1>6. CASE RecvWoken
  <2>1. Buffers' = Buffers
    BY <1>0, <1>6, BuffersFrame DEF RecvWoken, Stands
  <2>2. ~IsEmpty(Current) /\ TakeFirst(FirstOf(Current).m.length + 0, 0)
    BY <1>0, <1>6, MessageThere
  <2>. QED BY <1>4, <2>1, <2>2
<1>7. CASE recv_msg_nb
  <2>1. Buffers' = Buffers
    BY <1>7, <1>c DEF recv_msg_nb
  <2>2. /\ ~IsEmpty(Current)
        /\ TakeFirst(FirstOf(Current).m.length + MessageNodeSize, 1)
    BY <1>7 DEF recv_msg_nb
  <2>. QED BY <1>4, <2>1, <2>2
<1>8. CASE tsk_exit
  <2>1. Buffers' = Buffers /\ UNCHANGED kctx
    BY <1>8, <1>c DEF tsk_exit
  <2>2. CASE HasMbx(Current)
    <3>1. /\ mbx' = [mbx EXCEPT ![Current] = NoMailbox]
          /\ blocks' = blocks - BlocksOfMailbox(mbx[Current])
      BY <1>8, <2>2 DEF tsk_exit
    <3>2. NoMailbox \in Mailbox /\ NoMailbox.max = 0
      BY <1>0, MailboxType
    <3>. HIDE DEF NoMailbox
    <3>3. /\ mbx' \in [Tid -> Mailbox] /\ mbx'[Current] = NoMailbox
          /\ \A u \in Tid \ {Current} : mbx'[u] = mbx[u]
      BY <1>0, <3>1, <3>2
    <3>4. BlocksIn(mbx'[Current]) = 0 /\ BlocksIn(mbx[Current]) = BlocksOfMailbox(mbx[Current])
      BY <2>2, <3>2, <3>3 DEF BlocksIn, HasMbx, BlocksOfMailbox
    <3>5. BlocksIn(mbx[Current]) \in Int
      BY <1>0, BlocksType
    <3>6. SumFunction(BlocksOf') = SumFunction(BlocksOf) - BlocksIn(mbx[Current])
      BY <1>0, <1>b, <3>3, <3>4, <3>5, BlocksFrame
    <3>. QED BY <1>a, <1>b, <2>1, <3>1, <3>4, <3>5, <3>6
  <2>3. CASE ~HasMbx(Current)
    BY <1>1, <1>8, <2>1, <2>3 DEF tsk_exit
  <2>. QED BY <2>2, <2>3
<1>9. CASE IrqChar
  <2> DEFINE m == Message(HdrSize + 1, "KEY_IN", << Head(rx) >>)
  <2>1. m \in RtxMsg
    <3>1. Head(rx) \in Keys
      BY <1>0, <1>9, HeadTailProperties DEF IrqChar
    <3>. QED BY <3>1, MessageType
  <2>2. Cardinality(Buffers') = Cardinality(Buffers) + 1
    <3>1. Buffers' = Buffers \cup {Current} /\ Current \notin Buffers
      BY <1>0, <1>9 DEF IrqChar, Stands, Buffers
    <3>. QED BY <1>b, <3>1, FS_AddElement
  <2>3. CASE Accepts(TID_KCD, m.length) /\ Deliver(TID_KCD, m, TRUE, TID_UART_IRQ) /\ blocks' = blocks + 3
    <3>. HIDE DEF m
    <3>1. SumFunction(BlocksOf') = SumFunction(BlocksOf) + 2
      BY <1>0, <2>1, <2>3, DeliverBlocks, ConstantFacts DEF Sender
    <3>. QED BY <1>a, <1>b, <2>2, <2>3, <3>1
  <2>4. CASE blocks' = blocks + 1 /\ UNCHANGED mbx
    BY <1>a, <1>b, <1>d, <2>2, <2>4
  <2>. QED BY <1>9, <2>3, <2>4 DEF IrqChar
<1>10. CASE IrqFree
  <2>1. Cardinality(Buffers') = Cardinality(Buffers) - 1
    <3>1. Buffers' = Buffers \ {Current} /\ Current \in Buffers
      BY <1>0, <1>10 DEF IrqFree, Stands, Buffers
    <3>. QED BY <1>b, <3>1, FS_RemoveElement
  <2>2. blocks' = blocks - 1 /\ BlocksOf' = BlocksOf
    BY <1>10, <1>d DEF IrqFree
  <2>. QED BY <1>a, <1>b, <2>1, <2>2
<1>11. ASSUME UNCHANGED << mbx, blocks >>, NEW c, kctx' = [kctx EXCEPT ![Current] = c],
              c # "irq_sent", kctx[Current] # "irq_sent"
       PROVE  BlocksExact'
  BY <1>0, <1>11, <1>a, <1>d, BuffersFrame
<1>12. ASSUME NEW at \in {"recv", "recv_null"}, RecvSleep(at) PROVE BlocksExact'
  BY <1>11, <1>12 DEF RecvSleep, Stands
<1>13. CASE RecvWokenNull
  BY <1>11, <1>13 DEF RecvWokenNull, Stands
<1>14. CASE UartIrq
  BY <1>11, <1>14 DEF UartIrq, Stands
<1>15. CASE IrqEnd
  BY <1>11, <1>15 DEF IrqEnd, Stands
<1>16. CASE CarefulCall \/ (\E c \in Keys : KeyTyped(c)) \/ UNCHANGED msgvars
  BY <1>1, <1>16 DEF CarefulCall, KeyTyped, msgvars, ipc
<1>. QED BY <1>2, <1>3, <1>5, <1>6, <1>7, <1>8, <1>9, <1>10, <1>12, <1>13, <1>14, <1>15, <1>16
         DEF MsgStep

LEMMA BlocksInit == ASSUME MsgInit PROVE BlocksExact
<1>1. \A t \in Tid : BlocksOf[t] = 0
  BY DEF MsgInit, BlocksOf, BlocksIn, NoMailbox
<1>2. DOMAIN BlocksOf = Tid
  BY DEF BlocksOf
<1>3. SumFunction(BlocksOf) = 0
  BY <1>1, <1>2, TidFinite, SumZero DEF SumFunction
<1>4. Buffers = {}
  BY DEF MsgInit, Buffers
<1>5. Cardinality(Buffers) = 0
  BY <1>4, FS_EmptySet
<1>6. blocks = 0
  BY DEF MsgInit
<1>. QED BY <1>3, <1>5, <1>6 DEF BlocksExact, BlocksOf, Buffers

(* The kernel frees what it allocates for messages: at every moment the      *)
(* blocks in use are those of the mailboxes, of the messages that wait in    *)
(* them and of the handler's buffer, whoever exits or is refused meanwhile.  *)
THEOREM BlocksExactHolds == ASSUME WellUsed PROVE MsgSpec => []BlocksExact
<1>1. MsgInit => BlocksExact
  BY BlocksInit
<1>2. SchedInv /\ MsgInv /\ AccountInv /\ BlocksExact /\ [MsgNext]_msgvars => BlocksExact'
  BY BlocksStep, StepWhenUsedWell
<1>. QED BY <1>1, <1>2, MsgSchedInvariant, MsgInvariant, AccountInvariant, PTL DEF MsgSpec

=============================================================================
