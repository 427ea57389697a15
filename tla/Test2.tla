-------------------------------- MODULE Test2 --------------------------------
(***************************************************************************)
(* TEST 2 of app/: the KCD task, the three tasks of ae_usr_tasks.c and the *)
(* person at the keyboard, on the kernel of KMsg.  A task runs from one    *)
(* kernel call, or one access to a variable it shares, to the next in one  *)
(* step; an interrupt can come between any two.                            *)
(*                                                                         *)
(* utask1 registers the command c and waits for it twice; utask2 spins     *)
(* until then, registers c and d, waits for them twice each, sets utask1   *)
(* to the lowest priority and sends it its count of passed checks; utask1  *)
(* prints the score.  utask3 yields for ever, below all others.            *)
(***************************************************************************)
EXTENDS KMsg, Kcd

CONSTANTS
  Script,       \* the lines the test is about, in order
  Junk,         \* lines that are no command of the test, nor bare ones
  Haste         \* bound: how many lines a hasty person is ahead of the prompts

U1 == 1
U2 == 2
U3 == 3

LOWEST       == PRIO_NULL - 1
USER_MBX     == 2 * (HdrSize + 1 + 5)
USER_MSG     == HdrSize + 4
KCD_MBX_SIZE == 512
KCD_MSG      == HdrSize + 64

TheC == << "c", "G", "T", "A" >>
TheD == << "d", "G", "T", "A" >>

Line(text) == << PERCENT >> \o text \o << CR >>

(* An Enter with nothing, or only %, before it.  It leaves the letter of the *)
(* line before in input_buf, and sends an empty command for it.             *)
BareLines == {<< CR >>, << PERCENT, CR >>}

(* Any other line that is no command of the test: it has no %,              *)
(* or is too long for input_buf, or names another command, or is longer    *)
(* than what the mailboxes of the test have room for.  The mailbox of the  *)
(* KCD task holds it together with a line of the test.                     *)
JUNK_SIZE == 48

NoCommandOfTest(line) ==
  /\ line \in Seq(Char) /\ Len(line) \in 2..JUNK_SIZE
  /\ \A i \in 1..Len(line) : line[i] = CR <=> i = Len(line)
  /\ \/ line[1] # PERCENT
     \/ Len(line) > INPUT_SIZE + 1
     \/ Len(line) > 2 /\ line[2] \notin {"c", "d"}
     \/ Len(line) > Len(Line(TheC))

(* What is typed. *)
ASSUME LinesAssumption ==
  /\ Script = << Line(TheC), Line(TheC), Line(TheC), Line(TheD), Line(TheC), Line(TheD) >>
  /\ \A line \in Junk : NoCommandOfTest(line)
  /\ {"c", "d", "G", "T", "A"} \subseteq Alphanumeric
  /\ Keys = Char
  /\ INPUT_SIZE > Len(TheC)

(* The sizes the tasks ask for and the lengths they send. *)
ASSUME SizesAssumption ==
  /\ {USER_MBX, KCD_MBX_SIZE} \subseteq MbxSizes
  /\ 1..(HdrSize + INPUT_SIZE) \subseteq Lengths

(* The boot table that ae.c sets up. *)
ASSUME Test2Assumption ==
  /\ MAX_TASKS = 5 /\ Len(BootTasks) = 4
  /\ \A i \in {1, 2, 4} : BootTasks[i].entry = "user"
  /\ IsKcd(3)
  /\ BootTasks[3].prio < BootTasks[1].prio
  /\ BootTasks[1].prio < BootTasks[2].prio
  /\ BootTasks[2].prio < BootTasks[4].prio
  /\ BootTasks[4].prio = LOWEST

VARIABLES
  pc,           \* what a task does next
  u1, u2,       \* the local variables of utask1 and utask2
  kcd,          \* the variables of kcd_task
  kcd_buf,      \* the message it has received last, and its sender
  turn,
  prompts,      \* how many times a task has asked for input
  user,         \* the person: lines begun, what is left of the line, and
                \* whether there has been a line of junk, and a bare one
  commands,     \* the commands the KCD task has sent, oldest first
  score         \* what utask1 prints at the end

app    == << pc, u1, u2, kcd, kcd_buf, turn, prompts, commands, score >>
t2vars == << msgvars, app, user >>

NotYet == -1

Test2Init ==
  /\ MsgInit
  /\ pc = [t \in Tid |-> "entry"]
  /\ u1 = [i |-> 0, eflag |-> 0]
  /\ u2 = [i |-> 0, sflag |-> 0, length |-> 0]
  /\ kcd = KcdInit
  /\ kcd_buf = [m |-> Message(0, "DEFAULT", << >>), tid |-> 0]
  /\ turn = 1
  /\ prompts = 0
  /\ user \in [hasty : BOOLEAN, line : {0}, left : {<< >>}, junk : {FALSE}, bare : {FALSE}]
  /\ commands = << >>
  /\ score = NotYet

At(t, at)   == Current = t /\ TaskRuns /\ Stands("user") /\ pc[t] = at
Goto(t, at) == pc' = [pc EXCEPT ![t] = at]

(* recv_msg of task t at label at: Got(x) says what it does with the message. *)
Recv(t, at, Got(_)) ==
  \/ At(t, at) /\ RecvAtOnce /\ Got(FirstOf(t))
  \/ At(t, at) /\ RecvSleep("recv") /\ UNCHANGED app
  \/ Current = t /\ pc[t] = at /\ RecvWoken /\ Got(FirstOf(t))

(* send_msg, with what follows RTX_OK and RTX_ERR. *)
Send(r, m, Ok, Err) ==
  \/ send_msg(r, m) /\ Ok
  \/ ~Accepts(r, m.length) /\ Err /\ UNCHANGED msgvars

Registration(c) == Message(HdrSize + 1, "KCD_REG", << c >>)

-----------------------------------------------------------------------------
(* kcd_task. *)

KcdBecomes(k, at) ==
  /\ kcd' = k
  /\ Goto(TID_KCD, at)
  /\ UNCHANGED << u1, u2, kcd_buf, turn, prompts, commands, score >>

KcdCreate ==
  /\ At(TID_KCD, "entry")
  /\ k_mbx_create(KCD_MBX_SIZE)
  /\ KcdBecomes(kcd, "alloc")

(* The end of the direct calls of k_mem_alloc for buf and tid_reg. *)
KcdAlloc ==
  /\ At(TID_KCD, "alloc")
  /\ KcdBecomes(kcd, "recv")
  /\ UNCHANGED msgvars

(* A message longer than buf is lost, and the one before it handled again. *)
KcdRecv ==
  LET Got(x) ==
        /\ kcd_buf' = [m |-> IF x.m.length > KCD_MSG THEN kcd_buf.m ELSE x.m, tid |-> x.sender]
        /\ Goto(TID_KCD, "handle")
        /\ UNCHANGED << u1, u2, kcd, turn, prompts, commands, score >>
  IN  Recv(TID_KCD, "recv", Got)

Received(type) == At(TID_KCD, "handle") /\ kcd_buf.m.type = type
KeyIs(c)        == Received("KEY_IN") /\ kcd_buf.m.data[1] = c

KcdRegister ==
  /\ Received("KCD_REG")
  /\ KcdBecomes(Register(kcd, kcd_buf.m, kcd_buf.tid), "recv")
  /\ UNCHANGED msgvars

KcdStore ==
  /\ \E c \in Char \ {CR} : KeyIs(c) /\ KcdBecomes(Store(kcd, c), "recv")
  /\ UNCHANGED msgvars

(* g_tcbs has no entry for a command registered to TID_UART_IRQ. *)
OutOfRange == ~Invalid(kcd) /\ Receiver(kcd) >= MAX_TASKS

NoReceiver ==
  \/ Invalid(kcd) \/ Unknown(kcd)
  \/ \E t \in Tid : t = Receiver(kcd) /\ g_tcbs[t].state = "DORMANT"

KcdLine ==
  /\ KeyIs(CR)
  /\ \/ OutOfRange /\ KcdBecomes(kcd, "wild")
     \/ ~OutOfRange /\ NoReceiver /\ KcdBecomes(NextLine(kcd), "recv")
     \/ ~OutOfRange /\ ~NoReceiver /\ KcdBecomes(kcd, "send")
  /\ UNCHANGED msgvars

(* From the end of the direct k_mem_alloc for the message, which began       *)
(* behind KcdLine.                                                          *)
KcdSend ==
  /\ At(TID_KCD, "send")
  /\ Send(Receiver(kcd), Command(kcd),
          commands' = Append(commands, Text(kcd)), UNCHANGED commands)
  /\ kcd' = NextLine(kcd)
  /\ Goto(TID_KCD, "recv")
  /\ UNCHANGED << u1, u2, kcd_buf, turn, prompts, score >>

KcdStep == KcdCreate \/ KcdAlloc \/ KcdRecv \/ KcdRegister \/ KcdStore \/ KcdLine \/ KcdSend

-----------------------------------------------------------------------------
(* utask1. *)

U1Becomes(u, at) ==
  /\ u1' = u
  /\ Goto(U1, at)
  /\ UNCHANGED << u2, kcd, kcd_buf, turn, prompts, commands, score >>

U1Create ==
  /\ At(U1, "entry")
  /\ k_mbx_create(USER_MBX)
  /\ U1Becomes(u1, "register")

U1Register ==
  /\ At(U1, "register")
  /\ Send(TID_KCD, Registration("c"),
          U1Becomes(u1, "prompt"), U1Becomes([u1 EXCEPT !.eflag = 3], "turn"))

Prompt(t) ==
  /\ At(t, "prompt")
  /\ prompts' = prompts + 1
  /\ Goto(t, "recv")
  /\ UNCHANGED << msgvars, u1, u2, kcd, kcd_buf, turn, commands, score >>

(* A message that does not fit msg is RTX_ERR, and fails too. *)
RightCommand(x, text) ==
  x.sender = TID_KCD /\ x.m.length = USER_MSG /\ x.m.data = text

U1Recv ==
  LET Got(x) ==
        U1Becomes([i |-> u1.i + 1,
                   eflag |-> u1.eflag + (IF RightCommand(x, TheC) THEN 0 ELSE 1)],
                  IF u1.i + 1 < 2 THEN "prompt" ELSE "turn")
  IN  Recv(U1, "recv", Got)

U1Turn ==
  /\ At(U1, "turn")
  /\ turn' = 2
  /\ Goto(U1, "result")
  /\ UNCHANGED << msgvars, u1, u2, kcd, kcd_buf, prompts, commands, score >>

(* The message of utask2: how many of its seven checks have passed.  One too *)
(* short for the count leaves in msg the c that is there.                   *)
Missed(x) ==
  IF x.m.length > USER_MSG \/ x.sender # U2 THEN 8
  ELSE 7 - (IF x.m.data # << >> /\ x.m.data[1] < 10 THEN x.m.data[1] ELSE 0)

U1Result ==
  LET Got(x) == U1Becomes([u1 EXCEPT !.eflag = @ + Missed(x)], "exit")
  IN  Recv(U1, "result", Got)

U1Exit ==
  /\ At(U1, "exit")
  /\ tsk_exit
  /\ score' = 11 - u1.eflag
  /\ Goto(U1, "gone")
  /\ UNCHANGED << u1, u2, kcd, kcd_buf, turn, prompts, commands >>

U1Step == U1Create \/ U1Register \/ Prompt(U1) \/ U1Recv \/ U1Turn \/ U1Result \/ U1Exit

-----------------------------------------------------------------------------
(* utask2. *)

U2Becomes(u, at) ==
  /\ u2' = u
  /\ Goto(U2, at)
  /\ UNCHANGED << u1, kcd, kcd_buf, turn, prompts, commands, score >>

Passed(u) == [u EXCEPT !.sflag = @ + 1]

(* while (turn == 1); *)
U2Spin ==
  /\ At(U2, "entry")
  /\ IF turn = 1 THEN UNCHANGED app ELSE U2Becomes(u2, "create")
  /\ UNCHANGED msgvars

U2Create ==
  /\ At(U2, "create")
  /\ k_mbx_create(USER_MBX)
  /\ U2Becomes([u2 EXCEPT !.length = HdrSize + 1], "register_c")

U2RegisterC ==
  /\ At(U2, "register_c")
  /\ Send(TID_KCD, Registration("c"),
          U2Becomes(Passed(u2), "register_d"), U2Becomes(u2, "set_prio"))

U2RegisterD ==
  /\ At(U2, "register_d")
  /\ Send(TID_KCD, Registration("d"),
          U2Becomes(Passed(u2), "prompt"), U2Becomes(u2, "set_prio"))

(* What is too long for msg leaves it as it was. *)
U2Recv ==
  LET Got(x) ==
        LET u == [u2 EXCEPT !.i = @ + 1,
                            !.length = IF x.m.length > USER_MSG THEN @ ELSE x.m.length]
        IN  U2Becomes(IF RightCommand(x, IF u2.i % 2 = 0 THEN TheC ELSE TheD)
                      THEN Passed(u) ELSE u,
                      IF u2.i + 1 < 4 THEN "prompt" ELSE "set_prio")
  IN  Recv(U2, "recv", Got)

(* utid1 is set: utask1 has run before. *)
U2SetPrio ==
  /\ At(U2, "set_prio")
  /\ k_tsk_set_prio(U1, LOWEST)
  /\ U2Becomes(Passed(u2), "report")
  /\ UNCHANGED ipc

(* msg has the length of the message received last. *)
Report(u) ==
  Message(u.length, "DEFAULT", IF u.length > HdrSize THEN << u.sflag >> ELSE << >>)

U2Report ==
  /\ At(U2, "report")
  /\ Send(U1, Report(u2), U2Becomes(u2, "exit"), U2Becomes(u2, "exit"))

U2Exit ==
  /\ At(U2, "exit")
  /\ tsk_exit
  /\ U2Becomes(u2, "gone")

U2Step == \/ U2Spin \/ U2Create \/ U2RegisterC \/ U2RegisterD \/ Prompt(U2)
          \/ U2Recv \/ U2SetPrio \/ U2Report \/ U2Exit

-----------------------------------------------------------------------------
(* utask3, and the null task before the others run. *)

Yields ==
  /\ Current \in {U3, TID_NULL} /\ Stands("user")
  /\ k_tsk_yield
  /\ UNCHANGED << ipc, app >>

Boot == k_tsk_init /\ UNCHANGED << ipc, app >>

(* kcd_task calls k_mem_alloc as a plain function, with interrupts enabled.  *)
(* What the handler allocates for a character that comes in the middle can  *)
(* be taken out of the block that kcd_task has found (Heap, DirectScan):    *)
(* the heap is torn, and nothing is modelled after that.                    *)
Torn       == pc[TID_KCD] = "torn"
Allocating == pc[TID_KCD] \in {"alloc", "send"}

IrqTears ==
  /\ Current = TID_KCD /\ Allocating
  /\ IrqChar
  /\ KcdBecomes(kcd, "torn")

Handler ==
  \/ (IrqChar \/ IrqFree \/ IrqEnd) /\ UNCHANGED app
  \/ IrqTears

-----------------------------------------------------------------------------
(* The person.  One who is not hasty types a line of the script when asked  *)
(* for it, nothing before the first prompt, and perhaps one line of junk or  *)
(* a bare one; one who is hasty types ahead of the prompts.  Enter ends      *)
(* every line.                                                              *)

Begin(line, u) == user' = [u EXCEPT !.left = line]

BeginScript ==
  /\ user.left = << >> /\ user.line < Len(Script)
  /\ user.line < prompts + (IF user.hasty THEN Haste ELSE 0)
  /\ Begin(Script[user.line + 1], [user EXCEPT !.line = @ + 1])
  /\ UNCHANGED << msgvars, app >>

BeginJunk ==
  /\ user.left = << >> /\ ~user.junk /\ ~user.bare
  /\ ~user.hasty /\ prompts > 0
  /\ \E line \in Junk : Begin(line, [user EXCEPT !.junk = TRUE])
  /\ UNCHANGED << msgvars, app >>

BeginBare ==
  /\ user.left = << >> /\ ~user.junk /\ ~user.bare
  /\ ~user.hasty /\ prompts > 0
  /\ \E line \in BareLines : Begin(line, [user EXCEPT !.bare = TRUE])
  /\ UNCHANGED << msgvars, app >>

Press ==
  /\ user.left # << >>
  /\ KeyTyped(user.left[1])
  /\ user' = [user EXCEPT !.left = Tail(@)]
  /\ UNCHANGED app

-----------------------------------------------------------------------------

(* The processor executes the current task, in user code or in the handler. *)
Cpu ==
  /\ ~Torn
  /\ Boot \/ Yields \/ KcdStep \/ U1Step \/ U2Step \/ Handler
  /\ UNCHANGED user

Interrupt == ~Torn /\ UartIrq /\ UNCHANGED << app, user >>

Test2Next == Cpu \/ Interrupt \/ BeginScript \/ BeginJunk \/ BeginBare \/ Press

(* The processor does not stop, a pending interrupt is taken when it can be, *)
(* and the person types what is asked for and ends the lines begun.          *)
Fairness ==
  /\ WF_t2vars(Cpu) /\ WF_t2vars(Interrupt)
  /\ WF_t2vars(BeginScript) /\ WF_t2vars(Press)

Test2Spec == Test2Init /\ [][Test2Next]_t2vars /\ Fairness

-----------------------------------------------------------------------------
(* Properties. *)

Crashed == wild \/ pc[TID_KCD] = "wild" \/ Torn

(* All eleven checks of the test pass for whoever does what it asks for,    *)
(* whenever the keys arrive and whatever is mistyped in between, short of a *)
(* bare Enter, and nothing that he types crashes it, with one exception: a  *)
(* key of a mistyped line, typed while a line of the test is handled, can   *)
(* tear the heap.  The lines of the test alone never do.                    *)
PassIfObeyed ==
  ~user.hasty /\ ~user.bare =>
    IF Torn THEN user.junk ELSE ~Crashed /\ score \in {NotYet, 11}

(* However hasty the person, and with bare lines too, the tasks of the test  *)
(* keep the kernel in order until its heap is torn: no more urgent task     *)
(* waits, the lists and the mailboxes are exact, no wake-up is lost, none of *)
(* the kernel's blocks leaks and no interrupt is left without its handler.  *)
(* Apart from an interrupted allocation the one call it mishandles is the   *)
(* set_prio of a utask1 that has gone, and that crashes.                    *)
KernelSound ==
  ~Torn =>
    IF wild
    THEN pc[U1] = "gone" /\ g_tcbs[U1].state = "DORMANT"
    ELSE /\ StrictPriority /\ ReadyListExact /\ HighestPriorityExact
         /\ NoLostWakeup /\ AccountExact /\ BlocksExact /\ HandlerSurvives

TextOf(line) == SubSeq(line, 2, Len(line) - 1)

(* The commands are some of the first n lines, in their order. *)
SentInOrder(n) ==
  \E sent \in SUBSET (1..n) :
    /\ Len(commands) = Cardinality(sent)
    /\ \A i \in sent : commands[Cardinality(sent \cap 1..i)] = TextOf(Script[i])

(* However hasty the person, but without a bare line, and until the heap is *)
(* torn: the commands sent are lines of the script, each at most once and in *)
(* the order typed; a refused one is lost as a whole.                       *)
CommandsAsTyped == ~user.bare /\ ~Torn => SentInOrder(user.line)

(* A bare line sends at most one command, and an empty one: whatever of the *)
(* line before is still in input_buf, none of its text is sent again.       *)
EmptyCommands == {i \in DOMAIN commands : commands[i] = << >>}

StaleTextNotSent ==
  ~Torn =>
    /\ Cardinality(EmptyCommands) <= (IF user.bare THEN 1 ELSE 0)
    /\ \A i \in DOMAIN commands \ EmptyCommands :
         \E j \in 1..user.line : commands[i] = TextOf(Script[j])

(* No task is switched out for good inside the interrupt handler: every key *)
(* pressed is read, and the interrupt ended so that the next can be taken.  *)
KeyboardAlive ==
  (rx # << >> \/ irq_active) ~> ((rx = << >> /\ ~irq_active) \/ Crashed)

(* The test of somebody who does what it asks for comes to its end, unless   *)
(* he types a bare line or the heap is torn.                                *)
TestFinishes == ~user.hasty ~> (score # NotYet \/ user.bare \/ Torn)

-----------------------------------------------------------------------------
(* What the test says and the code does not do. *)

(* ae_usr_tasks.c:586, "KCD will send task 1 input commands!": what the KCD  *)
(* task sends to a task are commands that have been input.                  *)
InputCommands == ToSet(commands) \subseteq {TextOf(Script[i]) : i \in 1..user.line}

=============================================================================
