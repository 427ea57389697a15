----------------------------- MODULE Test2Proofs -----------------------------
(***************************************************************************)
(* TEST 2 and the kernel.  InvA is inductive: until utask2 sets the        *)
(* priority of a utask1 that has gone, the kernel is sound (Sound), each    *)
(* task stands where its code can stand, and the tasks of the boot table   *)
(* are alive with the priorities it gives them.  The step that may tear the *)
(* heap is sound as far as it is modelled, and no step follows it.  The callers' good conduct, *)
(* which KTaskProofs and KMsgProofs assume, is proved here of the tasks of  *)
(* the test: every step is a step of MsgStep, or the call that crashes.     *)
(***************************************************************************)
EXTENDS Test2, KMsgProofs

PcNames == {"entry", "alloc", "create", "register", "register_c", "register_d", "prompt", "recv",
            "handle", "send", "wild", "torn", "turn", "result", "set_prio", "report", "exit", "gone"}

Users  == {U1, U2}
Tasks  == {U1, U2, U3, TID_KCD}
BootOf(t) == IF t = TID_KCD THEN 3 ELSE IF t = U3 THEN 4 ELSE t

KcdState ==
  [cmd_ids : [Char -> {NoCommand} \cup Sender],
   input_buf : [0..(INPUT_SIZE - 1) -> Char],
   tail : Nat]

AppOK ==
  /\ u2 \in [i : Nat, sflag : Nat, length : {0} \cup Length]
  /\ kcd \in KcdState
  /\ kcd_buf.tid \in {0} \cup Sender
  /\ user.left \in Seq(Char)
  /\ user.line \in Nat
  /\ pc[TID_KCD] = "send" => Receiver(kcd) \in Tid

BootInv ==
  /\ booted < 4 =>
       /\ gp_current_task = TID_NULL
       /\ \A t \in Tid : kctx[t] = "user" /\ pc[t] = "entry"
       /\ available_tid_queue =
            IF booted = 0 THEN << U1, U2, U3 >> ELSE IF booted = 1 THEN << U2, U3 >> ELSE << U3 >>
  /\ \A t \in Tasks : BootOf(t) <= booted =>
       /\ pc[t] # "gone" => g_tcbs[t].state # "DORMANT"
       /\ \/ g_tcbs[t].prio = BootTasks[BootOf(t)].prio
          \/ t = U1 /\ g_tcbs[t].prio = LOWEST /\ pc[U2] \in {"report", "exit", "gone"}

CtxInv ==
  /\ \A t \in Tid : /\ kctx[t] # "recv_null"
                    /\ kctx[t] = "recv" => pc[t] \in {"recv", "result"}
  /\ pc[TID_KCD] \in {"entry", "alloc", "recv", "handle", "send", "wild", "torn"}

Sound == SchedInv /\ MsgInv /\ AccountInv /\ BlocksExact /\ AppOK /\ BootInv /\ CtxInv

InvA == /\ pc \in [Tid -> PcNames]
        /\ IF wild THEN pc[U1] = "gone" /\ g_tcbs[U1].state = "DORMANT" ELSE Sound

-----------------------------------------------------------------------------
(* The constants. *)

LEMMA Fixed ==
  /\ MAX_TASKS = 5 /\ TID_NULL = 0 /\ TID_KCD = 4 /\ Tid = 0..4
  /\ U1 = 1 /\ U2 = 2 /\ U3 = 3 /\ NoCommand = 0
  /\ Len(BootTasks) = 4 /\ BootTasks[3].entry = "kcd_task"
  /\ \A i \in {1, 2, 4} : BootTasks[i].entry = "user"
  /\ \A i \in 1..4 : BootTasks[i].prio \in UserPrio /\ BootTasks[i].prio \in Nat
  /\ BootTasks[3].prio < BootTasks[1].prio
  /\ BootTasks[1].prio < BootTasks[2].prio
  /\ BootTasks[2].prio < BootTasks[4].prio
  /\ BootTasks[4].prio = LOWEST
<1>1. /\ MAX_TASKS = 5 /\ TID_NULL = 0 /\ TID_KCD = 4 /\ Tid = 0..4
      /\ U1 = 1 /\ U2 = 2 /\ U3 = 3 /\ NoCommand = 0
  BY Test2Assumption DEF TID_NULL, TID_KCD, Tid, U1, U2, U3, NoCommand
<1>2. /\ Len(BootTasks) = 4 /\ BootTasks[3].entry = "kcd_task"
      /\ \A i \in {1, 2, 4} : BootTasks[i].entry = "user"
      /\ BootTasks[3].prio < BootTasks[1].prio
      /\ BootTasks[1].prio < BootTasks[2].prio
      /\ BootTasks[2].prio < BootTasks[4].prio
      /\ BootTasks[4].prio = LOWEST
  BY Test2Assumption DEF IsKcd
<1>3. \A i \in 1..4 : BootTasks[i].prio \in UserPrio
  BY <1>2, ConstantFacts DEF BootTask
<1>. QED BY <1>1, <1>2, <1>3, ConstantFacts

-----------------------------------------------------------------------------
(* What the kernel leaves alone: the priorities of the tasks, and that a    *)
(* task is alive.                                                           *)

LEMMA RunNewPrios ==
  ASSUME gp_current_task \in Tid, NEW s \in [Tid -> Tcb], NEW q \in ReadyQueues(Tid), NEW y,
         k_tsk_run_new(s, q, y)
  PROVE  \A t \in Tid : g_tcbs'[t].prio = s[t].prio
<1> DEFINE me == gp_current_task
           n  == Retrieved(q)
           d  == [s EXCEPT ![me].state = "READY"]
<1>1. n \in Tid \cup {NoTask}
  BY RetrieveType, ConstantFacts
<1>2. d \in [Tid -> Tcb] /\ \A t \in Tid : d[t].prio = s[t].prio
  BY DEF Tcb, State
<1>3. ASSUME NEW u \in [Tid -> Tcb], NEW k \in Tid \cup {NoTask}, SwitchTo(k, u)
      PROVE  \A t \in Tid : g_tcbs'[t].prio = u[t].prio
  <2>1. CASE g_tcbs' = u
    BY <2>1
  <2>2. CASE k \in Tid /\ g_tcbs' = [u EXCEPT ![k].state = "RUNNING"]
    BY <2>2 DEF Tcb
  <2>. QED BY <1>3, <2>1, <2>2 DEF SwitchTo
<1>4. SwitchTo(n, s) \/ SwitchTo(n, d) \/ SwitchTo(me, s)
  BY DEF k_tsk_run_new
<1>. HIDE DEF n, d
<1>. QED BY <1>1, <1>2, <1>3, <1>4

IsAlive(s, t) == s[t].state # "DORMANT"

LEMMA RunNewKeeps ==
  ASSUME SchedInv, SchedInv', NEW s \in [Tid -> Tcb], NEW q \in ReadyQueues(Tid), NEW y,
         k_tsk_run_new(s, q, y)
  PROVE  \A t \in Tid : /\ g_tcbs'[t].prio = s[t].prio
                        /\ IsAlive(s, t) => IsAlive(g_tcbs', t)
<1>1. gp_current_task \in Tid /\ ~wild'
  BY DEF SchedInv, TypeOK
<1>2. \A t \in Tid : g_tcbs'[t].prio = s[t].prio
  BY <1>1, RunNewPrios
<1>3. \A t \in Tid : /\ Blocked(g_tcbs', t) <=> Blocked(s, t)
                     /\ Alive(s, t) => Alive(g_tcbs', t)
  BY <1>1, RunNewStates
<1>4. \A t \in Tid : IsAlive(s, t) => Alive(s, t) \/ Blocked(s, t)
  BY DEF IsAlive, Alive, Blocked, Tcb, State
<1>. QED BY <1>2, <1>3, <1>4 DEF IsAlive, Alive, Blocked

(* The tasks of T keep their priority, and stay alive. *)
Keeps(T) ==
  \A t \in T : /\ g_tcbs'[t].prio = g_tcbs[t].prio
               /\ IsAlive(g_tcbs, t) => IsAlive(g_tcbs', t)

LEMMA CallKeeps ==
  ASSUME SchedInv, SchedInv',
         \/ k_tsk_yield \/ c_IRQ_Handler \/ k_recv_msg \/ UNCHANGED vars
         \/ \E t \in Tid : k_send_msg(t)
  PROVE  booted' = booted /\ Keeps(Tid)
<1>0. /\ gp_current_task \in Tid /\ g_tcbs \in [Tid -> Tcb] /\ rq \in ReadyQueues(Tid)
  BY DEF SchedInv, TypeOK
<1>1. ASSUME NEW y, k_tsk_run_new(g_tcbs, rq, y) PROVE Keeps(Tid)
  BY <1>0, <1>1, RunNewKeeps DEF Keeps
<1>2. CASE k_tsk_yield \/ c_IRQ_Handler
  BY <1>1, <1>2 DEF k_tsk_yield, c_IRQ_Handler
<1>3. CASE k_recv_msg
  <2> DEFINE s == [g_tcbs EXCEPT ![gp_current_task].state = "BLK_MSG"]
  <2>1. s \in [Tid -> Tcb] /\ \A t \in Tid : s[t].prio = g_tcbs[t].prio
    BY <1>0, StateChange DEF Tcb, State
  <2>2. \A t \in Tid : IsAlive(g_tcbs, t) => IsAlive(s, t)
    BY <1>0, StateChange DEF IsAlive, State
  <2>3. k_tsk_run_new(s, rq, yield_flag) /\ booted' = booted
    BY <1>3 DEF k_recv_msg
  <2>. HIDE DEF s
  <2>. QED BY <1>0, <2>1, <2>2, <2>3, RunNewKeeps DEF Keeps
<1>4. ASSUME NEW r \in Tid, k_send_msg(r) PROVE booted' = booted /\ Keeps(Tid)
  <2> DEFINE s == [g_tcbs EXCEPT ![r].state = "READY"]
             q == insert_into_tasks(rq, g_tcbs[r].prio, r)
  <2>1. s \in [Tid -> Tcb] /\ \A t \in Tid : s[t].prio = g_tcbs[t].prio
    BY <1>0, StateChange, SMTT(30) DEF Tcb, State
  <2>2. \A t \in Tid : IsAlive(g_tcbs, t) => IsAlive(s, t)
    BY <1>0, StateChange DEF IsAlive, State
  <2>3. k_tsk_run_new(s, q, yield_flag) /\ booted' = booted
    BY <1>4 DEF k_send_msg
  <2>4. q \in ReadyQueues(Tid)
    BY <1>0, InsertType DEF Tcb
  <2>. HIDE DEF s, q
  <2>. QED BY <2>1, <2>2, <2>3, <2>4, RunNewKeeps DEF Keeps
<1>5. CASE UNCHANGED vars
  BY <1>5 DEF vars, Keeps
<1>. QED BY <1>2, <1>3, <1>4, <1>5 DEF k_tsk_yield, c_IRQ_Handler

LEMMA ExitKeeps ==
  ASSUME SchedInv, SchedInv', k_tsk_exit
  PROVE  /\ booted' = booted /\ Keeps(Tid \ {gp_current_task})
         /\ g_tcbs'[gp_current_task].prio = g_tcbs[gp_current_task].prio
<1> DEFINE s == [g_tcbs EXCEPT ![gp_current_task].state = "DORMANT"]
<1>0. /\ gp_current_task \in Tid /\ g_tcbs \in [Tid -> Tcb] /\ rq \in ReadyQueues(Tid)
  BY DEF SchedInv, TypeOK
<1>1. s \in [Tid -> Tcb] /\ \A t \in Tid : s[t].prio = g_tcbs[t].prio
  BY <1>0, StateChange DEF Tcb, State
<1>2. \A t \in Tid \ {gp_current_task} : IsAlive(g_tcbs, t) => IsAlive(s, t)
  BY <1>0, StateChange DEF IsAlive, State
<1>3. k_tsk_run_new(s, rq, yield_flag) /\ booted' = booted
  BY DEF k_tsk_exit
<1>. HIDE DEF s
<1>. QED BY <1>0, <1>1, <1>2, <1>3, RunNewKeeps DEF Keeps

LEMMA SetPrioKeeps ==
  ASSUME SchedInv, SchedInv', NEW t \in Tid, NEW p \in UserPrio, k_tsk_set_prio(t, p),
         t # gp_current_task
  PROVE  /\ booted' = booted /\ Keeps(Tid \ {t})
         /\ g_tcbs'[t].prio = p
         /\ IsAlive(g_tcbs, t) => IsAlive(g_tcbs', t)
<1>0. /\ gp_current_task \in Tid /\ g_tcbs \in [Tid -> Tcb] /\ rq \in ReadyQueues(Tid) /\ ~wild'
  BY DEF SchedInv, TypeOK
<1>1. CASE SetPrioBlocked(t, p)
  BY <1>0, <1>1 DEF SetPrioBlocked, Keeps, IsAlive, Tcb
<1>2. CASE SetPrioReady(t, p)
  <2> DEFINE l == g_tcbs[t].prio
             s == [g_tcbs EXCEPT ![t].prio = p, ![t].state = "READY"]
             q == insert_into_tasks(remove_node(rq, l, t), p, t)
  <2>1. s \in [Tid -> Tcb] /\ l \in Prio
    BY <1>0, TcbType
  <2>2. k_tsk_run_new(s, q, yield_flag) /\ LinkedAt(rq, l, t) /\ booted' = booted
    BY <1>2 DEF SetPrioReady
  <2>3. q \in ReadyQueues(Tid)
    <3>1. remove_node(rq, l, t) \in ReadyQueues(Tid)
      BY <1>0, <2>1, <2>2, RemoveNodeType
    <3>. QED BY <3>1, InsertType, ConstantFacts
  <2>4. /\ \A u \in Tid \ {t} : s[u] = g_tcbs[u]
        /\ s[t].prio = p /\ s[t].state = "READY"
    BY <1>0 DEF Tcb
  <2>. HIDE DEF s, q, l
  <2>5. \A u \in Tid : g_tcbs'[u].prio = s[u].prio /\ (IsAlive(s, u) => IsAlive(g_tcbs', u))
    BY <2>1, <2>2, <2>3, RunNewKeeps
  <2>. QED BY <2>2, <2>4, <2>5 DEF Keeps, IsAlive
<1>3. CASE SetPrioUnlinked(t)
  BY <1>0, <1>3 DEF SetPrioUnlinked
<1>. QED BY <1>1, <1>2, <1>3 DEF k_tsk_set_prio

-----------------------------------------------------------------------------
(* What the tasks do next, one line for each outcome of a call. *)

Taken(t, at) ==
  /\ Current = t /\ pc[t] = at
  /\ RecvAtOnce \/ RecvWoken

Sleeps(t, at) == At(t, at) /\ RecvSleep("recv") /\ UNCHANGED app

LEMMA KcdRecvCases ==
  ASSUME KcdRecv
  PROVE  LET x == FirstOf(TID_KCD)
         IN  \/ Sleeps(TID_KCD, "recv")
             \/ /\ Taken(TID_KCD, "recv")
                /\ kcd_buf' = [m |-> IF x.m.length > KCD_MSG THEN kcd_buf.m ELSE x.m,
                               tid |-> x.sender]
                /\ Goto(TID_KCD, "handle")
                /\ UNCHANGED << u1, u2, kcd, turn, prompts, commands, score >>
BY DEF KcdRecv, Recv, Sleeps, Taken, At

LEMMA U1RecvCases ==
  ASSUME U1Recv
  PROVE  LET x == FirstOf(U1)
         IN  \/ Sleeps(U1, "recv")
             \/ /\ Taken(U1, "recv")
                /\ U1Becomes([i |-> u1.i + 1,
                              eflag |-> u1.eflag + (IF RightCommand(x, TheC) THEN 0 ELSE 1)],
                             IF u1.i + 1 < 2 THEN "prompt" ELSE "turn")
BY DEF U1Recv, Recv, Sleeps, Taken, At

LEMMA U1ResultCases ==
  ASSUME U1Result
  PROVE  \/ Sleeps(U1, "result")
         \/ /\ Taken(U1, "result")
            /\ U1Becomes([u1 EXCEPT !.eflag = @ + Missed(FirstOf(U1))], "exit")
BY DEF U1Result, Recv, Sleeps, Taken, At

LEMMA U2RecvCases ==
  ASSUME U2Recv
  PROVE  LET x == FirstOf(U2)
             u == [u2 EXCEPT !.i = @ + 1,
                             !.length = IF x.m.length > USER_MSG THEN @ ELSE x.m.length]
         IN  \/ Sleeps(U2, "recv")
             \/ /\ Taken(U2, "recv")
                /\ U2Becomes(IF RightCommand(x, IF u2.i % 2 = 0 THEN TheC ELSE TheD)
                             THEN Passed(u) ELSE u,
                             IF u2.i + 1 < 4 THEN "prompt" ELSE "set_prio")
BY DEF U2Recv, Recv, Sleeps, Taken, At

-----------------------------------------------------------------------------
(* The kernel under the tasks of the test.  A call of theirs is a step of   *)
(* KMsg that the kernel does not mishandle.                                 *)

Kernel == SchedInv /\ MsgInv /\ AccountInv /\ BlocksExact

LEMMA KernelKept ==
  ASSUME Kernel, [MsgStep]_msgvars
  PROVE  Kernel'
<1>1. SchedInv'
  BY StepIsCareful, CarefulStep, Fixed DEF Kernel
<1>. QED BY <1>1, MsgInvStep, AccountStep, BlocksStep DEF Kernel

LEMMA KernelStart ==
  ASSUME MsgInit
  PROVE  Kernel
<1>1. SchedInv
  BY InvInit, Fixed DEF MsgInit
<1>. QED BY <1>1, MsgInvInit, AccountInit, BlocksInit DEF Kernel

(* The calls that set no priority and end no task. *)
PlainCall ==
  \/ k_tsk_yield \/ c_IRQ_Handler \/ k_recv_msg \/ UNCHANGED vars
  \/ \E t \in Tid : k_send_msg(t)

AppCall ==
  \/ \E n \in MbxSizes : k_mbx_create(n)
  \/ \E t \in Tid, m \in RtxMsg : send_msg(t, m)
  \/ RecvAtOnce \/ RecvSleep("recv") \/ RecvWoken
  \/ UNCHANGED msgvars

LEMMA AppCallPlain ==
  ASSUME AppCall
  PROVE  PlainCall /\ [MsgStep]_msgvars
<1>1. [MsgStep]_msgvars
  BY DEF AppCall, MsgStep
<1>2. ASSUME NEW t \in Tid, NEW m \in RtxMsg, send_msg(t, m) PROVE PlainCall
  BY <1>2, DeliverRefines DEF send_msg, PlainCall
<1>3. ASSUME NEW n \in MbxSizes, k_mbx_create(n) PROVE PlainCall
  BY <1>3 DEF k_mbx_create, PlainCall
<1>4. CASE RecvAtOnce \/ RecvWoken
  BY <1>1, <1>4 DEF RecvAtOnce, RecvWoken, PlainCall
<1>6. CASE RecvSleep("recv")
  BY <1>1, <1>6 DEF RecvSleep, PlainCall
<1>5. CASE UNCHANGED msgvars
  BY <1>5 DEF msgvars, PlainCall
<1>. QED BY <1>1, <1>2, <1>3, <1>4, <1>5, <1>6 DEF AppCall

(* The interrupt, and what the handler does. *)
IrqCall == UartIrq \/ IrqChar \/ IrqFree \/ IrqEnd

LEMMA IrqCallPlain ==
  ASSUME IrqCall
  PROVE  PlainCall /\ [MsgStep]_msgvars
<1>1. [MsgStep]_msgvars
  BY DEF IrqCall, MsgStep
<1>2. CASE IrqChar
  <2>1. k_send_msg(TID_KCD) \/ UNCHANGED vars
    BY <1>2, DeliverRefines, ConstantFacts DEF IrqChar
  <2>. QED BY <1>1, <2>1, ConstantFacts DEF PlainCall
<1>3. CASE UartIrq \/ IrqFree \/ IrqEnd
  <2>1. c_IRQ_Handler \/ UNCHANGED vars
    BY <1>3 DEF UartIrq, IrqFree, IrqEnd
  <2>. QED BY <1>1, <2>1 DEF PlainCall
<1>. QED BY <1>1, <1>2, <1>3 DEF IrqCall

LEMMA YieldPlain ==
  ASSUME k_tsk_yield, UNCHANGED ipc, Stands("user")
  PROVE  PlainCall /\ [MsgStep]_msgvars
BY DEF PlainCall, MsgStep, CarefulCall

(* The messages of the test are messages of the kernel's model. *)
LEMMA MessagesFit ==
  /\ \A c \in {"c", "d"} : Registration(c) \in RtxMsg
  /\ \A k \in KcdState : /\ Limit(k) \in 0..INPUT_SIZE
                         /\ Text(k) \in Seq(Char)
                         /\ Command(k) \in RtxMsg
  /\ \A u : u.length \in Length /\ u.sflag \in Nat => Report(u) \in RtxMsg
<1>1. /\ INPUT_SIZE \in Nat /\ INPUT_SIZE >= 2 /\ Keys = Char /\ {"c", "d"} \subseteq Char
      /\ 1..(HdrSize + INPUT_SIZE) \subseteq Lengths
  BY KcdAssumption, LinesAssumption, SizesAssumption
<1>2. \A c \in {"c", "d"} : Registration(c) \in RtxMsg
  <2>1. \A c \in Char : << c >> \in Seq(Keys \cup Nat)
    BY <1>1
  <2>. QED BY <1>1, <2>1 DEF Registration, Message, RtxMsg, Length
<1>3. ASSUME NEW k \in KcdState
      PROVE  Limit(k) \in 0..INPUT_SIZE /\ Text(k) \in Seq(Char) /\ Command(k) \in RtxMsg
  <2>1. k.tail \in Nat /\ k.input_buf \in [0..(INPUT_SIZE - 1) -> Char]
    BY DEF KcdState
  <2>2. Limit(k) \in 0..INPUT_SIZE
    BY <1>1, <2>1 DEF Limit
  <2>3. Text(k) \in Seq(Char)
    <3>1. CASE Limit(k) = 0
      <4>1. Text(k) \in [1..0 -> Char]
        BY <3>1 DEF Text
      <4>. QED BY <4>1
    <3>2. CASE Limit(k) # 0
      <4>1. Limit(k) - 1 \in Nat
        BY <2>2, <3>2, <1>1
      <4>2. \A i \in 1..(Limit(k) - 1) : k.input_buf[i] \in Char
        BY <2>1, <2>2, <1>1
      <4>3. Text(k) \in [1..(Limit(k) - 1) -> Char]
        BY <4>2 DEF Text
      <4>. QED BY <4>1, <4>3
    <3>. QED BY <3>1, <3>2
  <2>4. Text(k) \in Seq(Keys \cup Nat)
    BY <1>1, <2>3
  <2>5. HDR + Limit(k) - 1 \in Length
    BY <1>1, <2>2 DEF Length, HDR, HdrSize
  <2>. QED BY <2>2, <2>3, <2>4, <2>5 DEF Command, RtxMsg
<1>4. ASSUME NEW u, u.length \in Length, u.sflag \in Nat
      PROVE  Report(u) \in RtxMsg
  <2>1. << >> \in Seq(Keys \cup Nat) /\ << u.sflag >> \in Seq(Keys \cup Nat)
    BY <1>4
  <2>. QED BY <1>4, <2>1 DEF Report, Message, RtxMsg
<1>. QED BY <1>2, <1>3, <1>4

(* Between two calls, or two accesses to what the tasks share. *)
Doing(t) ==
  /\ Current = t
  /\ \/ RecvWoken
     \/ /\ TaskRuns /\ Stands("user")
        /\ \/ \E n \in MbxSizes : k_mbx_create(n)
           \/ \E r \in Tid, m \in RtxMsg : send_msg(r, m)
           \/ RecvAtOnce
           \/ UNCHANGED msgvars

LEMMA DoingIsCall ==
  ASSUME NEW t, Doing(t)
  PROVE  AppCall
BY DEF Doing, AppCall

KcdPc == {"alloc", "recv", "handle", "send", "wild"}

LEMMA KcdMoves ==
  ASSUME Sound, KcdStep
  PROVE  \/ Sleeps(TID_KCD, "recv")
         \/ Doing(TID_KCD) /\ \E to \in KcdPc : Goto(TID_KCD, to)
<1>1. CASE KcdCreate
  BY <1>1, SizesAssumption DEF KcdCreate, KcdBecomes, At, Doing, KcdPc
<1>2. CASE KcdRecv
  BY <1>2, KcdRecvCases DEF Taken, Doing, KcdPc, At, RecvAtOnce
<1>3. CASE KcdAlloc \/ KcdRegister \/ KcdStore \/ KcdLine
  BY <1>3 DEF KcdAlloc, KcdRegister, KcdStore, KcdLine, KcdBecomes, KeyIs, Received, At, Doing, KcdPc
<1>4. CASE KcdSend
  <2>1. Receiver(kcd) \in Tid /\ Command(kcd) \in RtxMsg
    BY <1>4, MessagesFit DEF KcdSend, At, Sound, AppOK
  <2>. QED BY <1>4, <2>1 DEF KcdSend, Send, At, Doing, KcdPc
<1>. QED BY <1>1, <1>2, <1>3, <1>4 DEF KcdStep

U1Pc == {"register", "prompt", "recv", "turn", "result", "exit"}

LEMMA U1Moves ==
  ASSUME Sound, U1Step, ~U1Exit
  PROVE  \/ Sleeps(U1, "recv") \/ Sleeps(U1, "result")
         \/ Doing(U1) /\ pc[U1] # "gone" /\ \E to \in U1Pc : Goto(U1, to)
<1>1. CASE U1Create
  BY <1>1, SizesAssumption DEF U1Create, U1Becomes, At, Doing, U1Pc
<1>2. CASE U1Register
  <2>1. TID_KCD \in Tid /\ Registration("c") \in RtxMsg
    BY Fixed, MessagesFit
  <2>. QED BY <1>2, <2>1 DEF U1Register, U1Becomes, Send, At, Doing, U1Pc
<1>3. CASE U1Recv
  BY <1>3, U1RecvCases DEF Taken, U1Becomes, Doing, U1Pc, RecvAtOnce
<1>4. CASE U1Result
  BY <1>4, U1ResultCases DEF Taken, U1Becomes, Doing, U1Pc, RecvAtOnce
<1>5. CASE Prompt(U1) \/ U1Turn
  BY <1>5 DEF Prompt, U1Turn, At, Doing, U1Pc, msgvars
<1>. QED BY <1>1, <1>2, <1>3, <1>4, <1>5 DEF U1Step

U2Pc   == {"create", "register_c", "register_d", "prompt", "recv", "set_prio", "exit"}
U2Late == {"report", "exit", "gone"}

LEMMA U2Moves ==
  ASSUME Sound, U2Step, ~U2Exit, ~U2SetPrio
  PROVE  \/ Sleeps(U2, "recv")
         \/ Doing(U2) /\ pc[U2] = "entry" /\ UNCHANGED pc
         \/ /\ Doing(U2) /\ pc[U2] # "gone"
            /\ \E to \in U2Pc : Goto(U2, to) /\ (pc[U2] \in U2Late => to \in U2Late)
<1>1. CASE U2Spin
  BY <1>1 DEF U2Spin, U2Becomes, app, At, Doing, U2Pc, U2Late
<1>2. CASE U2Create
  BY <1>2, SizesAssumption DEF U2Create, U2Becomes, At, Doing, U2Pc, U2Late
<1>3. CASE U2RegisterC \/ U2RegisterD
  <2>1. TID_KCD \in Tid /\ Registration("c") \in RtxMsg /\ Registration("d") \in RtxMsg
    BY Fixed, MessagesFit
  <2>2. CASE U2RegisterC
    BY <2>1, <2>2 DEF U2RegisterC, U2Becomes, Send, At, Doing, U2Pc, U2Late
  <2>3. CASE U2RegisterD
    BY <2>1, <2>3 DEF U2RegisterD, U2Becomes, Send, At, Doing, U2Pc, U2Late
  <2>. QED BY <1>3, <2>2, <2>3
<1>4. CASE U2Recv
  BY <1>4, U2RecvCases DEF Taken, U2Becomes, Doing, U2Pc, U2Late, RecvAtOnce
<1>5. CASE Prompt(U2)
  BY <1>5 DEF Prompt, At, Doing, U2Pc, U2Late, msgvars
<1>6. CASE U2Report
  <2> DEFINE m == Report(u2)
  <2>1. u2.length \in {0} \cup Length /\ u2.sflag \in Nat /\ m.length = u2.length
    BY DEF Sound, AppOK, Report, Message
  <2>2. Accepts(U1, m.length) => m \in RtxMsg
    <3>1. Accepts(U1, m.length) => m.length # 0
      BY <2>1 DEF Accepts, MIN_MSG_SIZE
    <3>. QED BY <2>1, <3>1, MessagesFit
  <2>3. U1 \in Tid
    BY Fixed
  <2>. HIDE DEF m
  <2>4. Send(U1, m, U2Becomes(u2, "exit"), U2Becomes(u2, "exit")) /\ At(U2, "report")
    BY <1>6 DEF U2Report, m
  <2>. QED BY <2>2, <2>3, <2>4 DEF Send, send_msg, U2Becomes, At, Doing, U2Pc, U2Late
<1>. QED BY <1>1, <1>2, <1>3, <1>4, <1>5, <1>6 DEF U2Step

(* What such a step does to the contexts, and to what each task has done. *)
LEMMA DoingContexts ==
  ASSUME Sound, NEW t \in Tid, Doing(t)
  PROVE  /\ kctx'[t] = "user" /\ \A u \in Tid \ {t} : kctx'[u] = kctx[u]
         /\ booted = 4 /\ ~wild
<1>1. kctx \in [Tid -> KCtx] /\ ~wild
  BY DEF Sound, MsgInv, MsgTypeOK, SchedInv
<1>2. CASE RecvWoken
  <2>1. kctx[t] = "recv" /\ kctx' = [kctx EXCEPT ![t] = "user"]
    BY <1>2 DEF Doing, RecvWoken, Stands
  <2>2. booted \in 0..4 /\ (booted < 4 => kctx[t] = "user")
    BY Fixed DEF Sound, BootInv, SchedInv, TypeOK
  <2>. QED BY <1>1, <2>1, <2>2
<1>3. CASE TaskRuns /\ Stands("user") /\ ~RecvWoken
  <2>1. UNCHANGED kctx
    BY <1>3 DEF Doing, k_mbx_create, send_msg, RecvAtOnce, msgvars, ipc
  <2>2. kctx[t] = "user" /\ booted = 4
    BY <1>3, Fixed DEF Doing, Stands, TaskRuns, Up
  <2>. QED BY <1>1, <2>1, <2>2
<1>. QED BY <1>2, <1>3 DEF Doing

LEMMA SleepContexts ==
  ASSUME Sound, NEW t \in Tid, NEW at \in {"recv", "result"}, Sleeps(t, at)
  PROVE  /\ kctx'[t] = "recv" /\ \A u \in Tid \ {t} : kctx'[u] = kctx[u]
         /\ booted = 4 /\ ~wild /\ pc' = pc /\ pc[t] = at /\ AppCall
<1>1. kctx \in [Tid -> KCtx] /\ ~wild
  BY DEF Sound, MsgInv, MsgTypeOK, SchedInv
<1>2. kctx' = [kctx EXCEPT ![t] = "recv"] /\ booted = 4
  BY Fixed DEF Sleeps, At, RecvSleep, TaskRuns, Up
<1>. QED BY <1>1, <1>2 DEF Sleeps, At, app, AppCall

LEMMA IrqContexts ==
  ASSUME Sound, IrqCall
  PROVE  /\ \A u \in Tid : kctx'[u] \in {kctx[u], "user", "irq", "irq_sent"}
         /\ booted = 4 /\ ~wild
<1>1. kctx \in [Tid -> KCtx] /\ ~wild /\ Current \in Tid
  BY DEF Sound, MsgInv, MsgTypeOK, SchedInv, TypeOK, Current
<1>2. PICK c \in {"user", "irq", "irq_sent"} : kctx' = [kctx EXCEPT ![Current] = c]
  BY DEF IrqCall, UartIrq, IrqChar, IrqFree, IrqEnd
<1>3. booted = 4
  <2>1. CASE UartIrq
    BY <2>1, Fixed DEF UartIrq, TaskRuns, Up
  <2>2. CASE ~UartIrq
    <3>1. kctx[Current] # "user"
      BY <2>2 DEF IrqCall, IrqChar, IrqFree, IrqEnd, Stands
    <3>2. booted \in 0..4 /\ (booted < 4 => kctx[Current] = "user")
      BY <1>1, Fixed DEF Sound, BootInv, SchedInv, TypeOK
    <3>. QED BY <3>1, <3>2
  <2>. QED BY <2>1, <2>2
<1>. QED BY <1>1, <1>2, <1>3

(* A plain call, after the boot: nobody's priority changes, and nobody ends. *)
LEMMA BootInvKept ==
  ASSUME Sound, SchedInv', booted = 4, PlainCall,
         \A t \in Tid : pc[t] = "gone" => pc'[t] = "gone",
         pc[U2] \in U2Late => pc'[U2] \in U2Late
  PROVE  BootInv'
<1>1. booted' = 4 /\ Keeps(Tid)
  BY CallKeeps DEF Sound, PlainCall
<1>2. Tasks \subseteq Tid
  BY Fixed DEF Tasks
<1>3. \A t \in Tasks : BootOf(t) \in 1..4
  BY Fixed DEF BootOf, Tasks
<1>4. ASSUME NEW t \in Tasks
      PROVE  /\ pc'[t] # "gone" => g_tcbs'[t].state # "DORMANT"
             /\ \/ g_tcbs'[t].prio = BootTasks[BootOf(t)].prio
                \/ t = U1 /\ g_tcbs'[t].prio = LOWEST /\ pc'[U2] \in U2Late
  <2>1. /\ pc[t] # "gone" => g_tcbs[t].state # "DORMANT"
        /\ \/ g_tcbs[t].prio = BootTasks[BootOf(t)].prio
           \/ t = U1 /\ g_tcbs[t].prio = LOWEST /\ pc[U2] \in U2Late
    BY <1>3 DEF Sound, BootInv, U2Late
  <2>. QED BY <1>1, <1>2, <2>1 DEF Keeps, IsAlive
<1>. QED BY <1>1, <1>4 DEF BootInv, U2Late

(* A task that takes a message has one to take. *)
LEMMA TakenLetter ==
  ASSUME Sound, NEW t, NEW at, Taken(t, at)
  PROVE  /\ t \in Tid /\ ~IsEmpty(t) /\ FirstOf(t) \in Letter
         /\ Doing(t) /\ booted = 4
<1>1. t = Current /\ Current \in Tid
  BY CurrentFacts DEF Taken, Sound, Current
<1>2. ~IsEmpty(t)
  BY <1>1, MessageThere DEF Taken, RecvAtOnce, Sound, MsgInv
<1>3. mbx[t].msgs \in Seq(Letter) /\ mbx[t].msgs # << >>
  BY <1>1, <1>2 DEF Sound, MsgInv, MsgTypeOK, Mailbox, IsEmpty
<1>4. FirstOf(t) \in Letter
  BY <1>3, HeadTailProperties DEF FirstOf
<1>5. Doing(t)
  BY <1>1 DEF Taken, Doing, RecvAtOnce
<1>. QED BY <1>1, <1>2, <1>4, <1>5, DoingContexts

PcOK == pc \in [Tid -> PcNames]

(* The data of the tasks. *)
LEMMA KcdAppOK ==
  ASSUME Sound, PcOK, KcdStep, UNCHANGED user
  PROVE  AppOK'
<1>0. /\ AppOK /\ kcd \in KcdState /\ kcd_buf.tid \in {0} \cup Sender /\ TID_KCD \in Tid
      /\ INPUT_SIZE \in Nat /\ INPUT_SIZE >= 2
  BY Fixed, KcdAssumption DEF Sound, AppOK
<1>1. ASSUME UNCHANGED << u2, kcd, kcd_buf >>, pc'[TID_KCD] # "send" PROVE AppOK'
  BY <1>0, <1>1 DEF AppOK
<1>2. ASSUME kcd' \in KcdState, pc'[TID_KCD] # "send", UNCHANGED << u2, kcd_buf >>
      PROVE  AppOK'
  BY <1>0, <1>2 DEF AppOK
<1>3. CASE KcdCreate \/ KcdAlloc
  BY <1>0, <1>1, <1>3 DEF KcdCreate, KcdAlloc, KcdBecomes, Goto, PcOK
<1>4. CASE KcdRecv
  <2>1. CASE Sleeps(TID_KCD, "recv")
    BY <1>0, <1>1, <2>1 DEF Sleeps, At, app
  <2>2. CASE ~Sleeps(TID_KCD, "recv")
    <3>1. /\ Taken(TID_KCD, "recv") /\ Goto(TID_KCD, "handle")
          /\ kcd_buf'.tid = FirstOf(TID_KCD).sender /\ UNCHANGED << u2, kcd >>
      BY <1>4, <2>2, KcdRecvCases
    <3>2. kcd_buf'.tid \in Sender
      BY <3>1, TakenLetter DEF Letter
    <3>. QED BY <1>0, <3>1, <3>2 DEF AppOK, Goto, PcOK
  <2>. QED BY <2>1, <2>2
<1>5. CASE KcdRegister
  <2>1. Register(kcd, kcd_buf.m, kcd_buf.tid) \in KcdState
    <3>1. kcd.cmd_ids \in [Char -> {NoCommand} \cup Sender] /\ kcd_buf.tid \in {NoCommand} \cup Sender
      BY <1>0 DEF KcdState, NoCommand
    <3> DEFINE c == kcd_buf.m.data[1]
    <3>2. [kcd EXCEPT !.cmd_ids[c] = kcd_buf.tid] \in KcdState
      BY <1>0, <3>1 DEF KcdState
    <3>. QED BY <1>0, <3>2 DEF Register
  <2>. QED BY <1>0, <1>2, <1>5, <2>1 DEF KcdRegister, KcdBecomes, Goto, PcOK
<1>6. CASE KcdStore
  <2>1. PICK c \in Char : KcdBecomes(Store(kcd, c), "recv")
    BY <1>6 DEF KcdStore
  <2>2. Store(kcd, c) \in KcdState
    <3>1. kcd.tail \in Nat /\ kcd.input_buf \in [0..(INPUT_SIZE - 1) -> Char]
      BY <1>0 DEF KcdState
    <3>2. ASSUME NEW I, NEW b \in [I -> Char], NEW n
          PROVE  [b EXCEPT ![n] = c] \in [I -> Char]
      BY <2>1
    <3>3. kcd.tail + 1 \in Nat
      BY <3>1
    <3>4. [kcd.input_buf EXCEPT ![kcd.tail] = c] \in [0..(INPUT_SIZE - 1) -> Char]
      BY <3>1, <3>2, Zenon
    <3>. QED BY <1>0, <3>1, <3>3, <3>4 DEF Store, KcdState
  <2>. QED BY <1>0, <1>2, <2>1, <2>2 DEF KcdBecomes, Goto, PcOK
<1>7. CASE KcdLine
  <2>1. KcdBecomes(kcd, "wild") => AppOK'
    BY <1>0, <1>2 DEF KcdBecomes, Goto, PcOK
  <2>2. NextLine(kcd) \in KcdState
    BY <1>0 DEF NextLine, KcdState
  <2>3. KcdBecomes(NextLine(kcd), "recv") => AppOK'
    BY <1>0, <1>2, <2>2 DEF KcdBecomes, Goto, PcOK
  <2>4. ASSUME ~OutOfRange, ~NoReceiver, KcdBecomes(kcd, "send") PROVE AppOK'
    <3>1. kcd.input_buf[1] \in Char /\ Receiver(kcd) \in {NoCommand} \cup Sender
      BY <1>0 DEF KcdState, Receiver
    <3>2. Receiver(kcd) # NoCommand /\ ~(Receiver(kcd) >= MAX_TASKS)
      BY <2>4 DEF OutOfRange, NoReceiver, Unknown
    <3>3. Receiver(kcd) \in Tid
      BY <3>1, <3>2, Fixed DEF Sender, TID_UART_IRQ
    <3>. QED BY <1>0, <2>4, <3>3 DEF AppOK, KcdBecomes
  <2>. QED BY <1>7, <2>1, <2>3, <2>4 DEF KcdLine
<1>8. CASE KcdSend
  <2>1. NextLine(kcd) \in KcdState
    BY <1>0 DEF NextLine, KcdState
  <2>. QED BY <1>0, <1>2, <1>8, <2>1 DEF KcdSend, Goto, PcOK
<1>. QED BY <1>3, <1>4, <1>5, <1>6, <1>7, <1>8 DEF KcdStep

LEMMA U1AppOK ==
  ASSUME Sound, PcOK, U1Step, UNCHANGED user
  PROVE  AppOK'
<1>1. UNCHANGED << u2, kcd, kcd_buf >> /\ pc'[TID_KCD] = pc[TID_KCD]
  <2>1. U1 \in Tid /\ TID_KCD \in Tid /\ U1 # TID_KCD
    BY Fixed
  <2>2. ASSUME NEW u, NEW to, U1Becomes(u, to)
        PROVE  UNCHANGED << u2, kcd, kcd_buf >> /\ pc'[TID_KCD] = pc[TID_KCD]
    BY <2>1, <2>2 DEF U1Becomes, Goto, PcOK
  <2>3. CASE U1Recv \/ U1Result
    BY <2>2, <2>3, U1RecvCases, U1ResultCases DEF Sleeps, app
  <2>4. CASE U1Create \/ U1Register
    BY <2>2, <2>4 DEF U1Create, U1Register, Send
  <2>5. CASE Prompt(U1) \/ U1Turn \/ U1Exit
    BY <2>1, <2>5 DEF Prompt, U1Turn, U1Exit, Goto, PcOK
  <2>. QED BY <2>3, <2>4, <2>5 DEF U1Step
<1>. QED BY <1>1 DEF Sound, AppOK

LEMMA U2AppOK ==
  ASSUME Sound, PcOK, U2Step, UNCHANGED user
  PROVE  AppOK'
<1> DEFINE U2State == [i : Nat, sflag : Nat, length : {0} \cup Length]
<1>0. U2 \in Tid /\ TID_KCD \in Tid /\ U2 # TID_KCD /\ u2 \in U2State
  BY Fixed DEF Sound, AppOK
<1>1. ASSUME NEW u \in U2State, NEW to, U2Becomes(u, to)
      PROVE  AppOK'
  <2>1. UNCHANGED << kcd, kcd_buf >> /\ pc'[TID_KCD] = pc[TID_KCD] /\ u2' \in U2State
    BY <1>0, <1>1 DEF U2Becomes, Goto, PcOK
  <2>. QED BY <2>1 DEF Sound, AppOK
<1>2. \A u \in U2State : Passed(u) \in U2State
  BY DEF Passed
<1>3. UNCHANGED app => AppOK'
  BY DEF Sound, AppOK, app
<1>4. CASE U2Spin
  BY <1>0, <1>1, <1>3, <1>4 DEF U2Spin
<1>5. CASE U2Create
  <2>1. [u2 EXCEPT !.length = HdrSize + 1] \in U2State
    BY <1>0 DEF Length
  <2>. QED BY <1>1, <1>5, <2>1 DEF U2Create
<1>6. CASE U2RegisterC \/ U2RegisterD \/ U2SetPrio
  <2>1. Passed(u2) \in U2State
    BY <1>0, <1>2
  <2>. QED BY <1>0, <1>1, <1>6, <2>1 DEF U2RegisterC, U2RegisterD, U2SetPrio, Send
<1>7. CASE U2Recv
  <2> DEFINE x == FirstOf(U2)
             u == [u2 EXCEPT !.i = @ + 1,
                             !.length = IF x.m.length > USER_MSG THEN @ ELSE x.m.length]
  <2>1. ASSUME Taken(U2, "recv") PROVE u \in U2State
    <3>1. x.m.length \in Length
      BY <2>1, TakenLetter DEF Letter, RtxMsg
    <3>2. u2.i + 1 \in Nat /\ (IF x.m.length > USER_MSG THEN u2.length ELSE x.m.length) \in {0} \cup Length
      BY <1>0, <3>1
    <3>. QED BY <1>0, <3>2
  <2>2. ASSUME Taken(U2, "recv") PROVE u \in U2State /\ Passed(u) \in U2State
    BY <1>2, <2>1, <2>2
  <2>. HIDE DEF u, U2State
  <2>3. CASE Sleeps(U2, "recv")
    BY <1>3, <2>3 DEF Sleeps
  <2>4. CASE ~Sleeps(U2, "recv")
    <3>1. /\ Taken(U2, "recv")
          /\ U2Becomes(IF RightCommand(x, IF u2.i % 2 = 0 THEN TheC ELSE TheD)
                       THEN Passed(u) ELSE u,
                       IF u2.i + 1 < 4 THEN "prompt" ELSE "set_prio")
      BY <1>7, <2>4, U2RecvCases DEF u
    <3>. QED BY <1>1, <2>2, <3>1
  <2>. QED BY <2>3, <2>4
<1>8. CASE U2Report \/ U2Exit
  BY <1>0, <1>1, <1>8 DEF U2Report, U2Exit, Send
<1>9. CASE Prompt(U2)
  <2>1. UNCHANGED << u2, kcd, kcd_buf >> /\ pc'[TID_KCD] = pc[TID_KCD]
    BY <1>0, <1>9 DEF Prompt, Goto, PcOK
  <2>. QED BY <2>1 DEF Sound, AppOK
<1>. QED BY <1>4, <1>5, <1>6, <1>7, <1>8, <1>9 DEF U2Step

-----------------------------------------------------------------------------
(* The steps of the test, one by one. *)

LEMMA SoundIs ==
  /\ Sound => Kernel /\ AppOK /\ BootInv /\ CtxInv
  /\ Sound' <=> Kernel' /\ AppOK' /\ BootInv' /\ CtxInv'
BY DEF Sound, Kernel

(* A task between two calls. *)
LEMMA DoingSound ==
  ASSUME Sound, PcOK, NEW t \in {U1, U2, TID_KCD}, Doing(t),
         NEW to \in PcNames \ {"gone"}, Goto(t, to), pc[t] # "gone",
         t = TID_KCD => to \in KcdPc,
         t = U2 /\ pc[U2] \in U2Late => to \in U2Late,
         AppOK'
  PROVE  Sound' /\ PcOK'
<1>1. /\ t \in Tid /\ U1 \in Tid /\ U2 \in Tid /\ TID_KCD \in Tid
      /\ pc' = [pc EXCEPT ![t] = to] /\ pc'[t] = to
      /\ \A u \in Tid \ {t} : pc'[u] = pc[u]
  BY Fixed DEF PcOK, Goto
<1>2. PlainCall /\ [MsgStep]_msgvars
  BY DoingIsCall, AppCallPlain
<1>3. Kernel' /\ SchedInv'
  BY <1>2, SoundIs, KernelKept DEF Kernel
<1>4. PcOK'
  BY <1>1 DEF PcOK
<1>5. /\ kctx'[t] = "user" /\ \A u \in Tid \ {t} : kctx'[u] = kctx[u]
      /\ booted = 4
  BY <1>1, DoingContexts
<1>6. BootInv'
  BY <1>1, <1>2, <1>3, <1>5, BootInvKept
<1>7. CtxInv'
  <2>1. \A u \in Tid : kctx'[u] # "recv_null" /\ (kctx'[u] = "recv" => pc'[u] \in {"recv", "result"})
    BY <1>1, <1>5 DEF Sound, CtxInv
  <2>2. pc'[TID_KCD] \in {"entry", "alloc", "recv", "handle", "send", "wild", "torn"}
    BY <1>1 DEF Sound, CtxInv, KcdPc
  <2>. QED BY <2>1, <2>2 DEF CtxInv
<1>. QED BY <1>3, <1>4, <1>6, <1>7, SoundIs

LEMMA IdleSound ==
  ASSUME Sound, PcOK, PlainCall, [MsgStep]_msgvars, booted = 4, UNCHANGED pc, AppOK',
         \A u \in Tid : \/ kctx'[u] \in {kctx[u], "user", "irq", "irq_sent"}
                        \/ kctx'[u] = "recv" /\ pc[u] \in {"recv", "result"}
  PROVE  Sound' /\ PcOK'
<1>1. Kernel' /\ SchedInv'
  BY SoundIs, KernelKept DEF Kernel
<1>2. BootInv'
  BY <1>1, BootInvKept
<1>3. CtxInv'
  <2>1. \A u \in Tid : kctx'[u] # "recv_null" /\ (kctx'[u] = "recv" => pc'[u] \in {"recv", "result"})
    BY DEF Sound, CtxInv
  <2>. QED BY <2>1 DEF Sound, CtxInv
<1>. QED BY <1>1, <1>2, <1>3, SoundIs DEF PcOK

LEMMA TearSound ==
  ASSUME Sound, PcOK, IrqTears, UNCHANGED user
  PROVE  Sound' /\ PcOK'
<1>1. /\ TID_KCD \in Tid /\ U2 \in Tid /\ TID_KCD # U2 /\ IrqCall
      /\ pc[TID_KCD] \in {"alloc", "send"}
  BY Fixed DEF IrqTears, Allocating, IrqCall
<1>2. /\ pc' = [pc EXCEPT ![TID_KCD] = "torn"] /\ pc'[TID_KCD] = "torn"
      /\ \A u \in Tid \ {TID_KCD} : pc'[u] = pc[u]
      /\ UNCHANGED << u2, kcd, kcd_buf >>
  BY <1>1 DEF IrqTears, KcdBecomes, Goto, PcOK
<1>3. /\ PlainCall /\ [MsgStep]_msgvars /\ booted = 4
      /\ \A u \in Tid : kctx'[u] \in {kctx[u], "user", "irq", "irq_sent"}
  BY <1>1, IrqCallPlain, IrqContexts
<1>4. Kernel' /\ SchedInv'
  BY <1>3, SoundIs, KernelKept DEF Kernel
<1>5. AppOK'
  BY <1>2 DEF Sound, AppOK
<1>6. BootInv'
  <2>1. \A t \in Tid : pc[t] = "gone" => pc'[t] = "gone"
    BY <1>1, <1>2
  <2>. QED BY <1>1, <1>2, <1>3, <1>4, <2>1, BootInvKept
<1>7. CtxInv'
  <2>1. ASSUME NEW u \in Tid
        PROVE  kctx'[u] # "recv_null" /\ (kctx'[u] = "recv" => pc'[u] \in {"recv", "result"})
    <3>1. kctx[u] # "recv_null" /\ (kctx[u] = "recv" => pc[u] \in {"recv", "result"})
      BY DEF Sound, CtxInv
    <3>2. kctx'[u] = "recv" => u # TID_KCD
      BY <1>1, <1>3, <3>1
    <3>. QED BY <1>2, <1>3, <3>1, <3>2
  <2>. QED BY <1>2, <2>1 DEF CtxInv
<1>8. PcOK'
  BY <1>2 DEF PcOK, PcNames
<1>. QED BY <1>4, <1>5, <1>6, <1>7, <1>8, SoundIs

LEMMA SleepSound ==
  ASSUME Sound, PcOK, NEW t \in Tid, NEW at \in {"recv", "result"}, Sleeps(t, at), AppOK'
  PROVE  Sound' /\ PcOK'
<1>1. /\ kctx'[t] = "recv" /\ \A u \in Tid \ {t} : kctx'[u] = kctx[u]
      /\ booted = 4 /\ pc' = pc /\ pc[t] = at /\ AppCall
  BY SleepContexts
<1>2. PlainCall /\ [MsgStep]_msgvars
  BY <1>1, AppCallPlain
<1>. QED BY <1>1, <1>2, IdleSound

(* tsk_exit of utask1 or utask2. *)
LEMMA ExitSound ==
  ASSUME Sound, PcOK, NEW t \in {U1, U2}, Current = t, tsk_exit, TaskRuns,
         Goto(t, "gone"), AppOK'
  PROVE  Sound' /\ PcOK'
<1>1. /\ t \in Tid /\ U1 \in Tid /\ U2 \in Tid /\ TID_KCD \in Tid /\ t # TID_KCD
      /\ pc' = [pc EXCEPT ![t] = "gone"] /\ pc'[t] = "gone"
      /\ \A u \in Tid \ {t} : pc'[u] = pc[u]
  BY Fixed DEF PcOK, Goto
<1>2. [MsgStep]_msgvars
  BY DEF MsgStep
<1>3. Kernel' /\ SchedInv'
  BY <1>2, SoundIs, KernelKept DEF Kernel
<1>4. PcOK'
  BY <1>1 DEF PcOK, PcNames
<1>5. kctx' = kctx /\ booted = 4 /\ kctx[t] = "user"
  BY Fixed DEF tsk_exit, TaskRuns, Up, Stands
<1>6. BootInv'
  <2>1. booted' = 4 /\ Keeps(Tid \ {t}) /\ g_tcbs'[t].prio = g_tcbs[t].prio
    BY <1>3, <1>5, ExitKeeps DEF tsk_exit, Sound, Current
  <2>2. Tasks \subseteq Tid /\ \A u \in Tasks : BootOf(u) \in 1..4
    BY Fixed DEF Tasks, BootOf
  <2>3. ASSUME NEW u \in Tasks
        PROVE  /\ pc'[u] # "gone" => g_tcbs'[u].state # "DORMANT"
               /\ \/ g_tcbs'[u].prio = BootTasks[BootOf(u)].prio
                  \/ u = U1 /\ g_tcbs'[u].prio = LOWEST /\ pc'[U2] \in U2Late
    <3>1. /\ pc[u] # "gone" => g_tcbs[u].state # "DORMANT"
          /\ \/ g_tcbs[u].prio = BootTasks[BootOf(u)].prio
             \/ u = U1 /\ g_tcbs[u].prio = LOWEST /\ pc[U2] \in U2Late
      BY <1>5, <2>2 DEF Sound, BootInv, U2Late
    <3>2. pc[U2] \in U2Late => pc'[U2] \in U2Late
      BY <1>1 DEF U2Late
    <3>. QED BY <1>1, <2>1, <2>2, <3>1, <3>2 DEF Keeps, IsAlive
  <2>. QED BY <2>1, <2>3 DEF BootInv, U2Late
<1>7. CtxInv'
  <2>1. \A u \in Tid : kctx'[u] # "recv_null" /\ (kctx'[u] = "recv" => pc'[u] \in {"recv", "result"})
    BY <1>1, <1>5 DEF Sound, CtxInv
  <2>2. pc'[TID_KCD] = pc[TID_KCD]
    BY <1>1
  <2>. QED BY <2>1, <2>2 DEF Sound, CtxInv
<1>. QED BY <1>3, <1>4, <1>6, <1>7, SoundIs

LEMMA BootSound ==
  ASSUME Sound, PcOK, Boot, UNCHANGED user
  PROVE  Sound' /\ PcOK'
<1>0. /\ k_tsk_init /\ UNCHANGED ipc /\ UNCHANGED pc /\ UNCHANGED << u2, kcd, kcd_buf >>
      /\ booted < 4 /\ booted \in 0..4
  BY Fixed DEF Boot, app, k_tsk_init, Sound, SchedInv, TypeOK
<1>1. /\ gp_current_task = TID_NULL /\ UNCHANGED gp_current_task
      /\ \A t \in Tid : kctx[t] = "user" /\ pc[t] = "entry"
      /\ available_tid_queue =
            IF booted = 0 THEN << U1, U2, U3 >> ELSE IF booted = 1 THEN << U2, U3 >> ELSE << U3 >>
  BY <1>0 DEF Sound, BootInv, k_tsk_init
<1>2. Stands("user")
  BY <1>1, Fixed DEF Stands, Current
<1>3. [MsgStep]_msgvars
  BY <1>0, <1>2 DEF MsgStep, CarefulCall
<1>4. Kernel'
  BY <1>3, SoundIs, KernelKept
<1>5. PcOK' /\ AppOK'
  BY <1>0 DEF PcOK, AppOK, Sound
<1>6. CtxInv'
  BY <1>0, <1>1 DEF CtxInv, Sound, ipc
<1>7. BootInv'
  <2> DEFINE b == BootTasks[booted + 1]
             t == TidFor(b.entry)
  <2>1. /\ g_tcbs' = [g_tcbs EXCEPT ![t] = NewTcb(b.entry, b.prio, b.priv)]
        /\ available_tid_queue' = PoolWithout(b.entry)
        /\ booted' = booted + 1
    BY <1>0 DEF k_tsk_init
  <2>2. /\ t = IF booted = 0 THEN U1 ELSE IF booted = 1 THEN U2 ELSE IF booted = 2 THEN TID_KCD ELSE U3
        /\ booted' < 4 =>
             available_tid_queue' = IF booted' = 0 THEN << U1, U2, U3 >>
                                    ELSE IF booted' = 1 THEN << U2, U3 >> ELSE << U3 >>
    <3>1. CASE booted = 0
      BY <1>1, <2>1, <3>1, Fixed DEF TidFor, PoolWithout, get_next_tid
    <3>2. CASE booted = 1
      BY <1>1, <2>1, <3>2, Fixed DEF TidFor, PoolWithout, get_next_tid
    <3>3. CASE booted = 2
      BY <1>1, <2>1, <3>3, Fixed DEF TidFor, PoolWithout, get_next_tid
    <3>4. CASE booted = 3
      BY <1>1, <2>1, <3>4, Fixed DEF TidFor, PoolWithout, get_next_tid
    <3>. QED BY <1>0, <3>1, <3>2, <3>3, <3>4
  <2>3. /\ g_tcbs \in [Tid -> Tcb] /\ t \in Tid
    BY <1>0, <2>2, Fixed DEF Sound, SchedInv, TypeOK
  <2>4. g_tcbs'[t].state = "READY" /\ g_tcbs'[t].prio = b.prio /\ \A u \in Tid \ {t} : g_tcbs'[u] = g_tcbs[u]
    BY <2>1, <2>3 DEF NewTcb
  <2>5. ASSUME NEW u \in Tasks, BootOf(u) <= booted'
        PROVE  g_tcbs'[u].state # "DORMANT" /\ g_tcbs'[u].prio = BootTasks[BootOf(u)].prio
    <3>1. u = t <=> BootOf(u) = booted + 1
      BY <1>0, <2>2, Fixed DEF BootOf, Tasks
    <3>2. CASE u = t
      BY <2>4, <3>1, <3>2
    <3>3. CASE u # t
      <4>1. BootOf(u) <= booted /\ u \in Tid
        BY <1>0, <2>1, <2>5, <3>1, <3>3, Fixed DEF BootOf, Tasks
      <4>2. pc[u] = "entry" /\ pc[U2] = "entry"
        BY <1>1, <4>1, Fixed
      <4>. QED BY <2>4, <3>3, <4>1, <4>2 DEF Sound, BootInv
    <3>. QED BY <3>2, <3>3
  <2>6. gp_current_task' = TID_NULL /\ \A u \in Tid : kctx'[u] = "user" /\ pc'[u] = "entry"
    BY <1>0, <1>1 DEF ipc
  <2>. HIDE DEF t, b
  <2>7. booted' < 4 =>
          /\ gp_current_task' = TID_NULL
          /\ \A u \in Tid : kctx'[u] = "user" /\ pc'[u] = "entry"
          /\ available_tid_queue' =
               IF booted' = 0 THEN << U1, U2, U3 >> ELSE IF booted' = 1 THEN << U2, U3 >> ELSE << U3 >>
    BY <2>2, <2>6
  <2>. QED BY <2>5, <2>7 DEF BootInv
<1>. QED BY <1>4, <1>5, <1>6, <1>7, SoundIs

(* When utask2 sets the priority of utask1, that one sleeps, or has gone:   *)
(* were it READY, the more urgent task would run.                           *)
LEMMA U1Waits ==
  ASSUME Sound, At(U2, "set_prio")
  PROVE  /\ booted = 4 /\ U1 # gp_current_task
         /\ \/ g_tcbs[U1].state = "BLK_MSG"
            \/ /\ g_tcbs[U1].state = "DORMANT" /\ pc[U1] = "gone"
               /\ ~LinkedAt(rq, g_tcbs[U1].prio, U1)
<1>1. /\ TaskRuns /\ gp_current_task = U2 /\ pc[U2] = "set_prio" /\ booted = 4
      /\ U1 \in Tid /\ U2 \in Tid /\ U1 # U2 /\ U1 \in Tasks /\ U2 \in Tasks
      /\ BootOf(U1) = 1 /\ BootOf(U2) = 2
  BY Fixed DEF At, Current, TaskRuns, Up, Tasks, BootOf
<1>2. g_tcbs[U1].prio = BootTasks[1].prio /\ g_tcbs[U2].prio = BootTasks[2].prio
  BY <1>1 DEF Sound, BootInv
<1>3. g_tcbs[U1].state = "DORMANT" => pc[U1] = "gone"
  BY <1>1 DEF Sound, BootInv
<1>4. ~IsReady(U1)
  <2>1. StrictPriority
    BY StrictPriorityFromInv DEF Sound
  <2>2. ~(PrioOf(U2) <= PrioOf(U1))
    BY <1>2, Fixed DEF PrioOf
  <2>. QED BY <1>1, <2>1, <2>2 DEF StrictPriority
<1>5. g_tcbs[U1].state # "RUNNING" /\ g_tcbs[U1] \in Tcb
  BY <1>1 DEF Sound, SchedInv, TypeOK
<1>6. g_tcbs[U1].state \in {"BLK_MSG", "DORMANT"}
  BY <1>4, <1>5 DEF IsReady, Tcb, State
<1>7. ~LinkedAt(rq, g_tcbs[U1].prio, U1)
  <2>1. g_tcbs[U1].prio \in Prio
    BY <1>5 DEF Tcb
  <2>2. Links(rq, {t \in Tid : IsReady(t)}, [t \in Tid |-> PrioOf(t)])
    BY DEF Sound, SchedInv, ReadyListExact
  <2>3. ToSet(rq.tasks[g_tcbs[U1].prio]) =
          {t \in {u \in Tid : IsReady(u)} : [u \in Tid |-> PrioOf(u)][t] = g_tcbs[U1].prio}
    BY <2>1, <2>2 DEF Links
  <2>. QED BY <1>4, <2>3 DEF LinkedAt
<1>. QED BY <1>1, <1>3, <1>6, <1>7

LEMMA SetPrioSound ==
  ASSUME Sound, PcOK, U2SetPrio, AppOK'
  PROVE  InvA'
<1>1. /\ U1 \in Tid /\ U2 \in Tid /\ U1 # U2 /\ TID_KCD \in Tid /\ U2 # TID_KCD
      /\ LOWEST \in UserPrio /\ U1 # gp_current_task /\ booted = 4
  BY Fixed, U1Waits DEF U2SetPrio
<1>2. /\ pc' = [pc EXCEPT ![U2] = "report"] /\ pc'[U2] = "report"
      /\ \A u \in Tid \ {U2} : pc'[u] = pc[u]
      /\ k_tsk_set_prio(U1, LOWEST) /\ UNCHANGED ipc /\ Stands("user")
  BY <1>1 DEF U2SetPrio, U2Becomes, Goto, PcOK, At
<1>3. PcOK'
  BY <1>2 DEF PcOK, PcNames
<1>4. CASE g_tcbs[U1].state = "BLK_MSG"
  <2>1. Settable(U1, LOWEST)
    BY <1>1, <1>4 DEF Settable
  <2>2. [MsgStep]_msgvars
    BY <1>1, <1>2, <2>1 DEF MsgStep, CarefulCall
  <2>3. Kernel' /\ SchedInv'
    BY <2>2, SoundIs, KernelKept DEF Kernel
  <2>4. BootInv'
    <3>1. /\ booted' = 4 /\ Keeps(Tid \ {U1}) /\ g_tcbs'[U1].prio = LOWEST
          /\ IsAlive(g_tcbs, U1) => IsAlive(g_tcbs', U1)
      <4>1. SchedInv /\ U1 \in Tid /\ LOWEST \in UserPrio
        BY <1>1 DEF Sound
      <4>2. k_tsk_set_prio(U1, LOWEST)
        BY <1>2
      <4>. QED BY <1>1, <2>3, <4>1, <4>2, SetPrioKeeps
    <3>2. Tasks \subseteq Tid /\ \A u \in Tasks : BootOf(u) \in 1..4
      BY Fixed DEF Tasks, BootOf
    <3>3. pc[U2] \notin U2Late /\ pc[U2] # "gone"
      BY DEF U2SetPrio, At, U2Late
    <3>4. ASSUME NEW u \in Tasks
          PROVE  /\ pc'[u] # "gone" => g_tcbs'[u].state # "DORMANT"
                 /\ \/ g_tcbs'[u].prio = BootTasks[BootOf(u)].prio
                    \/ u = U1 /\ g_tcbs'[u].prio = LOWEST /\ pc'[U2] \in U2Late
      <4>1. /\ pc[u] # "gone" => IsAlive(g_tcbs, u)
            /\ g_tcbs[u].prio = BootTasks[BootOf(u)].prio
        BY <1>1, <3>2, <3>3 DEF Sound, BootInv, U2Late, IsAlive
      <4>2. pc'[u] # "gone" => pc[u] # "gone"
        BY <1>2, <3>2, <3>3
      <4>. QED BY <1>2, <3>1, <3>2, <4>1, <4>2 DEF Keeps, IsAlive, U2Late
    <3>. QED BY <3>1, <3>4 DEF BootInv, U2Late
  <2>5. CtxInv'
    <3>1. \A u \in Tid : kctx'[u] # "recv_null" /\ (kctx'[u] = "recv" => pc'[u] \in {"recv", "result"})
      <4>1. kctx' = kctx /\ kctx[U2] = "user"
        BY <1>2 DEF ipc, Stands, U2SetPrio, At
      <4>. QED BY <1>2, <4>1 DEF Sound, CtxInv
    <3>. QED BY <1>1, <1>2, <3>1 DEF Sound, CtxInv
  <2>6. Sound'
    BY <2>3, <2>4, <2>5, SoundIs
  <2>. QED BY <1>3, <2>6 DEF InvA, PcOK, Sound, SchedInv
<1>5. CASE g_tcbs[U1].state # "BLK_MSG"
  <2>1. g_tcbs[U1].state = "DORMANT" /\ pc[U1] = "gone" /\ ~LinkedAt(rq, g_tcbs[U1].prio, U1)
    BY <1>5, U1Waits DEF U2SetPrio
  <2>2. SetPrioUnlinked(U1)
    BY <1>1, <1>2, <1>5, <2>1 DEF k_tsk_set_prio, SetPrioBlocked, SetPrioReady
  <2>. QED BY <1>1, <1>2, <1>3, <2>1, <2>2 DEF SetPrioUnlinked, InvA, PcOK
<1>. QED BY <1>4, <1>5

(* Nothing happens to utask1 after the crash. *)
LEMMA WildIsFinal ==
  ASSUME InvA, wild, [Test2Next]_t2vars
  PROVE  InvA' /\ UNCHANGED vars
<1>0. PcOK /\ pc[U1] = "gone" /\ g_tcbs[U1].state = "DORMANT" /\ ~TaskRuns /\ ~Up
  BY DEF InvA, PcOK, TaskRuns, Up
<1>00. U1 \in Tid /\ U2 \in Tid /\ TID_KCD \in Tid /\ U1 # U2 /\ U1 # TID_KCD
  BY Fixed
<1>1. \A t, at : ~At(t, at)
  BY <1>0 DEF At
<1>2. ~k_tsk_init /\ ~k_tsk_yield /\ ~c_IRQ_Handler /\ \A t : ~k_send_msg(t)
  BY <1>0 DEF k_tsk_init, k_tsk_yield, c_IRQ_Handler, k_send_msg
<1>3. ASSUME UNCHANGED vars, PcOK', pc'[U1] = pc[U1]
      PROVE  InvA' /\ UNCHANGED vars
  BY <1>0, <1>3 DEF vars, InvA, PcOK
<1>4. CASE Handler \/ Interrupt
  <2>1. UNCHANGED vars
    <3>1. CASE IrqChar
      <4>1. k_send_msg(TID_KCD) \/ UNCHANGED vars
        BY <3>1, DeliverRefines, ConstantFacts DEF IrqChar
      <4>. QED BY <1>2, <4>1
    <3>2. CASE IrqFree \/ IrqEnd \/ Interrupt
      BY <1>2, <3>2 DEF IrqFree, IrqEnd, Interrupt, UartIrq
    <3>. QED BY <1>4, <3>1, <3>2 DEF Handler, IrqTears
  <2>2. UNCHANGED pc \/ pc' = [pc EXCEPT ![TID_KCD] = "torn"]
    BY <1>4 DEF Handler, IrqTears, KcdBecomes, Goto, Interrupt, app
  <2>3. PcOK' /\ pc'[U1] = pc[U1]
    BY <1>0, <1>00, <2>2 DEF PcOK, PcNames
  <2>. QED BY <1>3, <2>1, <2>3
<1>5. CASE BeginScript \/ BeginJunk \/ BeginBare \/ Press
  <2>1. UNCHANGED vars /\ UNCHANGED pc
    BY <1>5 DEF BeginScript, BeginJunk, BeginBare, Press, KeyTyped, app, msgvars
  <2>. QED BY <1>0, <1>3, <2>1 DEF PcOK
<1>6. CASE KcdStep
  <2>1. KcdRecv
    BY <1>1, <1>6 DEF KcdStep, KcdCreate, KcdAlloc, KcdRegister, Received, KcdStore, KeyIs, KcdLine, KcdSend
  <2>2. Taken(TID_KCD, "recv") /\ Goto(TID_KCD, "handle")
    BY <1>1, <2>1, KcdRecvCases DEF Sleeps
  <2>3. UNCHANGED vars
    BY <2>2 DEF Taken, RecvAtOnce, RecvWoken
  <2>. QED BY <1>0, <1>00, <1>3, <2>2, <2>3 DEF PcOK, PcNames, Goto
<1>7. CASE U1Step
  <2>1. U1Recv \/ U1Result
    BY <1>1, <1>7 DEF U1Step, U1Create, U1Register, Prompt, U1Turn, U1Exit
  <2>2. pc[U1] # "gone"
    BY <1>1, <2>1, U1RecvCases, U1ResultCases DEF Sleeps, Taken
  <2>. QED BY <1>0, <2>2
<1>8. CASE U2Step
  <2>1. U2Recv
    BY <1>1, <1>8 DEF U2Step, U2Spin, U2Create, U2RegisterC, U2RegisterD, Prompt, U2SetPrio, U2Report, U2Exit
  <2>2. Taken(U2, "recv") /\ \E to \in {"prompt", "set_prio"} : Goto(U2, to)
    BY <1>1, <2>1, U2RecvCases DEF Sleeps, U2Becomes
  <2>3. UNCHANGED vars
    BY <2>2 DEF Taken, RecvAtOnce, RecvWoken
  <2>. QED BY <1>0, <1>00, <1>3, <2>2, <2>3 DEF PcOK, PcNames, Goto
<1>9. CASE Boot \/ Yields
  BY <1>2, <1>9 DEF Boot, Yields
<1>10. CASE UNCHANGED t2vars
  BY <1>0, <1>3, <1>10 DEF t2vars, msgvars, app, PcOK
<1>. QED BY <1>4, <1>5, <1>6, <1>7, <1>8, <1>9, <1>10 DEF Test2Next, Cpu

(* What is typed. *)
LineC == Line(TheC)
LineD == Line(TheD)
Tests == {LineC, LineD}

IsJoin(s, x, y) ==
  /\ s \in Seq(Char) /\ Len(s) = Len(x) + Len(y)
  /\ \A i \in 1..Len(s) : s[i] = IF i <= Len(x) THEN x[i] ELSE y[i - Len(x)]

LEMMA Concat ==
  ASSUME NEW x \in Seq(Char), NEW y \in Seq(Char)
  PROVE  IsJoin(x \o y, x, y)
<1> DEFINE s == x \o y
<1>1. /\ s \in Seq(Char) /\ Len(s) = Len(x) + Len(y)
      /\ \A i \in 1 .. Len(x) + Len(y) : s[i] = IF i <= Len(x) THEN x[i] ELSE y[i - Len(x)]
  BY ConcatProperties, Zenon
<1>. HIDE DEF s
<1>2. IsJoin(s, x, y)
  BY <1>1 DEF IsJoin
<1>. QED BY <1>2 DEF s

LEMMA TestLine ==
  ASSUME NEW a \in Seq(Char), NEW b \in Char, Len(a) = 4,
         a[1] = b, a[2] = "G", a[3] = "T", a[4] = "A"
  PROVE  /\ Line(a) \in Seq(Char) /\ Len(Line(a)) = 6
         /\ Line(a)[1] = PERCENT /\ Line(a)[2] = b /\ Line(a)[3] = "G" /\ Line(a)[4] = "T"
         /\ Line(a)[5] = "A" /\ Line(a)[6] = CR
<1> DEFINE p  == << PERCENT >>
           q  == << CR >>
           pa == p \o a
           l  == pa \o q
<1>1. /\ p \in Seq(Char) /\ Len(p) = 1 /\ p[1] = PERCENT
      /\ q \in Seq(Char) /\ Len(q) = 1 /\ q[1] = CR
  BY KcdAssumption
<1>2. Line(a) = l
  BY DEF Line
<1>. HIDE DEF p, q, l, pa
<1>3. IsJoin(pa, p, a)
  BY <1>1, Concat, Zenon DEF pa
<1>4. /\ pa \in Seq(Char) /\ Len(pa) = 5
      /\ \A i \in 1..5 : pa[i] = IF i <= 1 THEN p[i] ELSE a[i - 1]
  BY <1>1, <1>3 DEF IsJoin
<1>5. IsJoin(l, pa, q)
  BY <1>1, <1>4, Concat, Zenon DEF l
<1>6. /\ l \in Seq(Char) /\ Len(l) = 6
      /\ \A i \in 1..6 : l[i] = IF i <= 5 THEN pa[i] ELSE q[i - 5]
  BY <1>1, <1>4, <1>5 DEF IsJoin
<1>. QED BY <1>1, <1>2, <1>4, <1>6

LEMMA TestLines ==
  /\ \A w \in Tests :
       /\ w \in Seq(Char) /\ Len(w) = 6
       /\ w[1] = PERCENT /\ w[3] = "G" /\ w[4] = "T" /\ w[5] = "A" /\ w[6] = CR
  /\ LineC[2] = "c" /\ LineD[2] = "d"
<1>1. {"c", "d", "G", "T", "A"} \subseteq Char
  BY LinesAssumption, KcdAssumption
<1>2. TheC \in Seq(Char) /\ TheD \in Seq(Char)
  BY <1>1 DEF TheC, TheD
<1>3. /\ Len(TheC) = 4 /\ TheC[1] = "c" /\ TheC[2] = "G" /\ TheC[3] = "T" /\ TheC[4] = "A"
      /\ Len(TheD) = 4 /\ TheD[1] = "d" /\ TheD[2] = "G" /\ TheD[3] = "T" /\ TheD[4] = "A"
  BY DEF TheC, TheD
<1>. QED BY <1>1, <1>2, <1>3, TestLine, SMTT(30) DEF Tests, LineC, LineD

(* What is typed are keys. *)
LEMMA LinesTyped ==
  /\ \A i \in 1..Len(Script) : Script[i] \in Seq(Char)
  /\ \A line \in Junk \cup BareLines : line \in Seq(Char)
<1>1. \A i \in 1..Len(Script) : Script[i] \in Tests
  BY LinesAssumption DEF Tests, LineC, LineD
<1>2. \A line \in BareLines : line \in Seq(Char)
  <2>1. << CR >> \in Seq(Char) /\ << PERCENT, CR >> \in Seq(Char)
    BY KcdAssumption
  <2>. QED BY <2>1 DEF BareLines
<1>. QED BY <1>1, <1>2, TestLines, LinesAssumption DEF NoCommandOfTest

LEMMA SoundStep ==
  ASSUME Sound, PcOK, [Test2Next]_t2vars
  PROVE  InvA'
<1>. SUFFICES (Sound' /\ PcOK') \/ InvA'
  BY DEF InvA, PcOK, Sound, SchedInv
<1>0. U1 \in Tid /\ U2 \in Tid /\ TID_KCD \in Tid
  BY Fixed
<1>1. CASE KcdStep /\ UNCHANGED user
  <2>1. AppOK'
    BY <1>1, KcdAppOK
  <2>2. CASE Sleeps(TID_KCD, "recv")
    BY <1>0, <2>1, <2>2, SleepSound
  <2>3. CASE Doing(TID_KCD) /\ \E to \in KcdPc : Goto(TID_KCD, to)
    <3>1. PICK to \in KcdPc : Goto(TID_KCD, to)
      BY <2>3
    <3>2. to \in PcNames \ {"gone"} /\ pc[TID_KCD] # "gone" /\ TID_KCD # U2
      BY Fixed DEF KcdPc, PcNames, Sound, CtxInv
    <3>. QED BY <2>1, <2>3, <3>1, <3>2, DoingSound
  <2>. QED BY <1>1, <2>2, <2>3, KcdMoves
<1>2. CASE U1Step /\ UNCHANGED user
  <2>1. AppOK'
    BY <1>2, U1AppOK
  <2>2. CASE Sleeps(U1, "recv") \/ Sleeps(U1, "result")
    BY <1>0, <2>1, <2>2, SleepSound
  <2>3. CASE Doing(U1) /\ pc[U1] # "gone" /\ \E to \in U1Pc : Goto(U1, to)
    <3>1. PICK to \in U1Pc : Goto(U1, to)
      BY <2>3
    <3>2. to \in PcNames \ {"gone"} /\ U1 # U2 /\ U1 # TID_KCD
      BY Fixed DEF U1Pc, PcNames
    <3>. QED BY <2>1, <2>3, <3>1, <3>2, DoingSound
  <2>4. CASE U1Exit
    BY <2>1, <2>4, ExitSound DEF U1Exit, At
  <2>. QED BY <1>2, <2>2, <2>3, <2>4, U1Moves
<1>3. CASE U2Step /\ UNCHANGED user
  <2>1. AppOK'
    BY <1>3, U2AppOK
  <2>2. CASE Sleeps(U2, "recv")
    BY <1>0, <2>1, <2>2, SleepSound
  <2>3. CASE Doing(U2) /\ pc[U2] # "gone" /\ \E to \in U2Pc : Goto(U2, to) /\ (pc[U2] \in U2Late => to \in U2Late)
    <3>1. PICK to \in U2Pc : Goto(U2, to) /\ (pc[U2] \in U2Late => to \in U2Late)
      BY <2>3
    <3>2. to \in PcNames \ {"gone"} /\ U2 # TID_KCD
      BY Fixed DEF U2Pc, PcNames
    <3>. QED BY <2>1, <2>3, <3>1, <3>2, DoingSound
  <2>4. CASE U2Exit
    BY <2>1, <2>4, ExitSound DEF U2Exit, U2Becomes, At
  <2>5. CASE U2SetPrio
    BY <2>1, <2>5, SetPrioSound
  <2>6. CASE Doing(U2) /\ pc[U2] = "entry" /\ UNCHANGED pc
    <3>1. /\ kctx'[U2] = "user" /\ \A u \in Tid \ {U2} : kctx'[u] = kctx[u]
          /\ booted = 4
      BY <1>0, <2>6, DoingContexts
    <3>2. PlainCall /\ [MsgStep]_msgvars
      BY <2>6, DoingIsCall, AppCallPlain
    <3>. QED BY <2>1, <2>6, <3>1, <3>2, IdleSound
  <2>. QED BY <1>3, <2>2, <2>3, <2>4, <2>5, <2>6, U2Moves
<1>4. CASE Boot /\ UNCHANGED user
  BY <1>4, BootSound
<1>5. CASE Yields /\ UNCHANGED user
  <2>1. /\ k_tsk_yield /\ UNCHANGED ipc /\ Stands("user") /\ UNCHANGED app /\ UNCHANGED kctx
        /\ booted = 4
    BY <1>5, Fixed DEF Yields, k_tsk_yield, Up, ipc
  <2>2. AppOK' /\ UNCHANGED pc
    BY <1>5, <2>1 DEF Sound, AppOK, app
  <2>. QED BY <2>1, <2>2, YieldPlain, IdleSound
<1>6. CASE (Handler \/ (UartIrq /\ UNCHANGED app)) /\ ~IrqTears /\ UNCHANGED user
  <2>1. IrqCall /\ UNCHANGED app
    BY <1>6 DEF Handler, IrqCall
  <2>2. AppOK' /\ UNCHANGED pc
    BY <1>6, <2>1 DEF Sound, AppOK, app
  <2>. QED BY <2>1, <2>2, IrqCallPlain, IrqContexts, IdleSound
<1>7. CASE BeginScript \/ BeginJunk \/ BeginBare \/ Press \/ UNCHANGED t2vars
  <2>1. UNCHANGED app /\ UNCHANGED vars /\ UNCHANGED kctx
    BY <1>7 DEF BeginScript, BeginJunk, BeginBare, Press, KeyTyped, t2vars, msgvars, ipc
  <2>2. user'.left \in Seq(Char) /\ user'.line \in Nat
    <3>0. user.left \in Seq(Char) /\ user.line \in Nat
      BY DEF Sound, AppOK
    <3>1. CASE BeginScript
      <4>1. user.line + 1 \in 1..Len(Script)
        BY <3>0, <3>1, LinesAssumption DEF BeginScript
      <4>. QED BY <3>0, <3>1, <4>1, LinesTyped DEF BeginScript, Begin
    <3>2. CASE BeginJunk \/ BeginBare
      <4>1. CASE BeginJunk
        <5>1. PICK line \in Junk : user' = [[user EXCEPT !.junk = TRUE] EXCEPT !.left = line]
          BY <4>1 DEF BeginJunk, Begin
        <5>2. line \in Seq(Char)
          BY LinesTyped
        <5>. QED BY <3>0, <5>1, <5>2
      <4>2. CASE BeginBare
        <5>1. PICK line \in BareLines : user' = [[user EXCEPT !.bare = TRUE] EXCEPT !.left = line]
          BY <4>2 DEF BeginBare, Begin
        <5>2. line \in Seq(Char)
          BY LinesTyped
        <5>. QED BY <3>0, <5>1, <5>2
      <4>. QED BY <3>2, <4>1, <4>2
    <3>3. CASE Press
      BY <3>0, <3>3 DEF Press
    <3>4. CASE UNCHANGED t2vars
      BY <3>0, <3>4 DEF t2vars
    <3>. QED BY <1>7, <3>1, <3>2, <3>3, <3>4
  <2>3. AppOK' /\ UNCHANGED pc
    BY <2>1, <2>2 DEF Sound, AppOK, app
  <2>4. [MsgStep]_msgvars
    <3>1. CASE Press
      <4>1. user.left[1] \in Keys
        BY <3>1, LinesAssumption DEF Press, Sound, AppOK
      <4>. QED BY <3>1, <4>1 DEF Press, MsgStep
    <3>2. CASE BeginScript \/ BeginJunk \/ BeginBare \/ UNCHANGED t2vars
      BY <3>2 DEF BeginScript, BeginJunk, BeginBare, t2vars
    <3>. QED BY <1>7, <3>1, <3>2
  <2>5. Kernel'
    BY <2>4, SoundIs, KernelKept
  <2>6. BootInv' /\ CtxInv'
    BY <2>1, <2>3 DEF Sound, BootInv, CtxInv, vars
  <2>. QED BY <2>3, <2>5, <2>6, SoundIs DEF PcOK
<1>8. CASE IrqTears /\ UNCHANGED user
  BY <1>8, TearSound
<1>. QED BY <1>1, <1>2, <1>3, <1>4, <1>5, <1>6, <1>7, <1>8 DEF Test2Next, Cpu, Interrupt, Handler

LEMMA InvAInit == Test2Init => InvA
<1>. SUFFICES ASSUME Test2Init PROVE InvA
  OBVIOUS
<1>1. Kernel
  BY KernelStart DEF Test2Init
<1>2. AppOK
  <2>1. KcdInit \in KcdState
    BY KcdAssumption DEF KcdInit, KcdState
  <2>2. pc[TID_KCD] = "entry"
    BY Fixed DEF Test2Init
  <2>3. user.left = << >> /\ user.line = 0 /\ << >> \in Seq(Char)
    BY EmptySeq DEF Test2Init
  <2>4. kcd = KcdInit /\ kcd_buf.tid = 0 /\ u2 \in [i : Nat, sflag : Nat, length : {0} \cup Length]
    BY DEF Test2Init
  <2>. QED BY <2>1, <2>2, <2>3, <2>4 DEF AppOK
<1>3. BootInv
  <2>1. /\ booted = 0 /\ gp_current_task = TID_NULL /\ kctx = [t \in Tid |-> "user"]
        /\ pc = [t \in Tid |-> "entry"] /\ available_tid_queue = [i \in 1..(MAX_TASKS - 2) |-> i]
    BY DEF Test2Init, MsgInit, Init
  <2>2. available_tid_queue = << U1, U2, U3 >>
    BY <2>1, Fixed
  <2>3. \A t \in Tasks : ~(BootOf(t) <= booted)
    BY <2>1, Fixed DEF BootOf, Tasks
  <2>. QED BY <2>1, <2>2, <2>3 DEF BootInv
<1>4. CtxInv /\ PcOK
  BY Fixed DEF Test2Init, MsgInit, CtxInv, PcOK, PcNames
<1>. QED BY <1>1, <1>2, <1>3, <1>4, SoundIs DEF InvA, PcOK, Sound, Kernel, SchedInv

LEMMA InvAStep ==
  ASSUME InvA, [Test2Next]_t2vars
  PROVE  InvA'
BY SoundStep, WildIsFinal DEF InvA, PcOK

LEMMA InvAHolds == Test2Spec => []InvA
BY InvAInit, InvAStep, PTL DEF Test2Spec

(* No call of the test is mishandled but the set_prio of a utask1 that has  *)
(* gone, and that changes nothing before it crashes.                        *)
LEMMA StepCalls ==
  ASSUME Sound, PcOK, [Test2Next]_t2vars
  PROVE  \/ [MsgStep]_msgvars
         \/ SetPrioUnlinked(U1) /\ LOWEST \in UserPrio /\ U1 \in Tid /\ U2SetPrio /\ pc[U1] = "gone"
<1>0. U1 \in Tid /\ U2 \in Tid /\ TID_KCD \in Tid /\ LOWEST \in UserPrio
  BY Fixed
<1>1. CASE KcdStep
  <2>1. AppCall
    BY <1>0, <1>1, KcdMoves, SleepContexts, DoingIsCall
  <2>. QED BY <2>1, AppCallPlain
<1>2. CASE U1Step
  <2>1. CASE U1Exit
    BY <2>1 DEF U1Exit, MsgStep
  <2>2. CASE ~U1Exit
    <3>1. AppCall
      BY <1>0, <1>2, <2>2, U1Moves, SleepContexts, DoingIsCall
    <3>. QED BY <3>1, AppCallPlain
  <2>. QED BY <2>1, <2>2
<1>3. CASE U2Step
  <2>1. CASE U2Exit
    BY <2>1 DEF U2Exit, MsgStep
  <2>2. CASE U2SetPrio
    <3>1. /\ k_tsk_set_prio(U1, LOWEST) /\ UNCHANGED ipc /\ Stands("user") /\ At(U2, "set_prio")
      BY <2>2 DEF U2SetPrio, At
    <3>2. CASE g_tcbs[U1].state = "BLK_MSG"
      <4>1. Settable(U1, LOWEST)
        BY <3>1, <3>2, U1Waits DEF Settable
      <4>. QED BY <1>0, <3>1, <4>1 DEF MsgStep, CarefulCall
    <3>3. CASE g_tcbs[U1].state # "BLK_MSG"
      <4>1. SetPrioUnlinked(U1)
        BY <3>1, <3>3, U1Waits DEF k_tsk_set_prio, SetPrioBlocked, SetPrioReady
      <4>2. pc[U1] = "gone"
        BY <3>1, <3>3, U1Waits
      <4>. QED BY <1>0, <2>2, <4>1, <4>2
    <3>. QED BY <3>2, <3>3
  <2>3. CASE ~U2Exit /\ ~U2SetPrio
    <3>1. AppCall
      BY <1>0, <1>3, <2>3, U2Moves, SleepContexts, DoingIsCall
    <3>. QED BY <3>1, AppCallPlain
  <2>. QED BY <2>1, <2>2, <2>3
<1>4. CASE Boot
  <2>1. /\ k_tsk_init /\ UNCHANGED ipc /\ booted < 4
    BY <1>4, Fixed DEF Boot, k_tsk_init
  <2>2. Stands("user")
    BY <2>1, Fixed DEF Sound, BootInv, Stands, Current
  <2>. QED BY <2>1, <2>2 DEF MsgStep, CarefulCall
<1>5. CASE Yields
  BY <1>5, YieldPlain DEF Yields
<1>6. CASE Handler \/ Interrupt
  BY <1>6, IrqCallPlain DEF Handler, IrqTears, Interrupt, IrqCall
<1>7. CASE Press
  <2>1. user.left[1] \in Keys
    BY <1>7, LinesAssumption DEF Press, Sound, AppOK
  <2>. QED BY <1>7, <2>1 DEF Press, MsgStep
<1>8. CASE BeginScript \/ BeginJunk \/ BeginBare \/ UNCHANGED t2vars
  BY <1>8 DEF BeginScript, BeginJunk, BeginBare, t2vars
<1>. QED BY <1>1, <1>2, <1>3, <1>4, <1>5, <1>6, <1>7, <1>8 DEF Test2Next, Cpu

(* The kernel under it. *)
LEMMA CarefulOrUnchanged ==
  ASSUME InvA, [Test2Next]_t2vars
  PROVE  \/ SchedInv /\ [CarefulNext]_vars
         \/ [Next]_vars /\ UNCHANGED << gp_current_task, g_tcbs, rq >>
<1>1. CASE wild
  BY <1>1, WildIsFinal DEF vars
<1>2. CASE ~wild
  <2>1. Sound /\ PcOK /\ SchedInv
    BY <1>2 DEF InvA, PcOK, Sound
  <2>2. CASE [MsgStep]_msgvars
    BY <2>1, <2>2, StepIsCareful
  <2>3. CASE SetPrioUnlinked(U1) /\ LOWEST \in UserPrio /\ U1 \in Tid
    <3>1. k_tsk_set_prio(U1, LOWEST)
      BY <2>3 DEF k_tsk_set_prio
    <3>2. Next
      BY <2>3, <3>1 DEF Next
    <3>. QED BY <2>3, <3>2 DEF SetPrioUnlinked
  <2>. QED BY <2>1, <2>2, <2>3, StepCalls
<1>. QED BY <1>1, <1>2

(* However hasty the person and whatever he types, utask1 to utask3 and      *)
(* kcd_task keep the kernel in order until they end, until utask2 sets the   *)
(* priority of a utask1 that has gone, or until a key of his interrupts an   *)
(* allocation of kcd_task.                                                   *)
THEOREM KernelSoundHolds == Test2Spec => []KernelSound
<1>1. InvA => KernelSound
  <2>. SUFFICES ASSUME InvA PROVE KernelSound
    OBVIOUS
  <2>1. CASE wild
    BY <2>1 DEF InvA, KernelSound
  <2>2. CASE ~wild
    <3>1. SchedInv /\ MsgInv /\ AccountInv /\ BlocksExact
      BY <2>2 DEF InvA, Sound
    <3>2. StrictPriority /\ ReadyListExact /\ HighestPriorityExact
      BY <3>1, StrictPriorityFromInv DEF SchedInv
    <3>3. NoLostWakeup /\ HandlerSurvives
      BY <3>1, HandlerSurvivesFromInv DEF MsgInv
    <3>4. AccountExact
      BY <3>1 DEF AccountInv, Exact, AccountExact, HasMbx, IsEmpty
    <3>. QED BY <2>2, <3>1, <3>2, <3>3, <3>4 DEF KernelSound
  <2>. QED BY <2>1, <2>2
<1>. QED BY <1>1, InvAHolds, PTL

(* Nor does the test, interrupts and all, disturb the order in which the tasks *)
(* of a level are served.                                                      *)
THEOREM Test2OrderHolds == Test2Spec => FifoLevels /\ DispatchIsFirst
<1> DEFINE Fifo == \A l \in Prio, a, b \in Tid :
                     LinkedAt(rq, l, b) /\ LinkedAt(rq', l, b) /\ Ahead(rq', l, a, b)
                       => Ahead(rq, l, a, b) \/ k_tsk_set_prio(b, l)
           First == gp_current_task' # gp_current_task =>
                      LET p == g_tcbs'[gp_current_task'].prio
                      IN  \A t \in Tid : g_tcbs'[t].state = "READY" =>
                            /\ p <= g_tcbs'[t].prio
                            /\ Ahead(rq, p, t, gp_current_task') =>
                                 \E l \in UserPrio : k_tsk_set_prio(t, l)
<1>1. InvA /\ [Test2Next]_t2vars => [Fifo]_vars /\ [First]_vars
  <2>. SUFFICES ASSUME InvA, [Test2Next]_t2vars PROVE [Fifo]_vars /\ [First]_vars
    OBVIOUS
  <2>1. CASE SchedInv /\ [CarefulNext]_vars
    BY <2>1, FifoStep, DispatchStep, Fixed
  <2>2. CASE UNCHANGED << gp_current_task, g_tcbs, rq >>
    <3>1. rq' = rq /\ gp_current_task' = gp_current_task
      BY <2>2
    <3>. QED BY <3>1
  <2>. QED BY <2>1, <2>2, CarefulOrUnchanged
<1>. QED BY <1>1, InvAHolds, PTL DEF Test2Spec, FifoLevels, DispatchIsFirst

=============================================================================
