--------------------------- MODULE Test2PassProofs ---------------------------
(***************************************************************************)
(* TEST 2 passes for whoever does what it asks for.  InvB is inductive:    *)
(* the two tasks are where the checks passed so far say they are (Phases), *)
(* the commands they wait for are registered to them (Registered), and     *)
(* each key of the line that is typed is at exactly one place of its way   *)
(* from the keyboard to the buffer of the KCD task, from where the command *)
(* goes to the task that waits for it (Lines, Boxes).  A user task acts    *)
(* only while the KCD task sleeps on an empty mailbox (KcdAsleep).  It is   *)
(* claimed of whoever types no bare Enter and until the heap is torn; what  *)
(* tears it is a key of the line of junk (TearNeedsJunk).                  *)
(***************************************************************************)
EXTENDS Test2Proofs

-----------------------------------------------------------------------------
(* Somebody who does what the test asks for.  Obeyed follows what is typed  *)
(* from the keyboard through the receiver, the mailbox and the buffer of    *)
(* the KCD task to the mailbox of the task that waits for it: at most one   *)
(* line of the script and the line of junk, in some order, are on the way.  *)
Person == [hasty : BOOLEAN, line : 0..6, left : Seq(Char), junk : BOOLEAN, bare : BOOLEAN]

Late(at) == at \in {"set_prio", "report", "exit", "gone"}
Asks(at) == at \in {"prompt", "recv"}
Count(b) == IF b THEN 1 ELSE 0

(* How far the two tasks are, and that nothing has gone wrong. *)
Phases ==
  /\ u1 \in [i : 0..2, eflag : {0}]
  /\ u2 \in [i : 0..4, sflag : 0..7, length : Nat]
  /\ pc[U1] \in {"entry", "register", "prompt", "recv", "turn", "result", "exit", "gone"}
  /\ pc[U2] \in {"entry", "create", "register_c", "register_d", "prompt", "recv", "set_prio",
                 "report", "exit", "gone"}
  /\ pc[U1] \in {"entry", "register"} => u1.i = 0
  /\ Asks(pc[U1]) => u1.i < 2
  /\ pc[U1] \in {"turn", "result", "exit", "gone"} => u1.i = 2
  /\ turn = IF pc[U1] \in {"result", "exit", "gone"} THEN 2 ELSE 1
  /\ turn = 1 => pc[U2] = "entry"
  /\ pc[U2] \in {"entry", "create", "register_c", "register_d"} => u2.i = 0
  /\ Asks(pc[U2]) => u2.i < 4
  /\ Late(pc[U2]) => u2.i = 4 /\ u2.length = USER_MSG
  /\ u2.sflag = IF pc[U2] \in {"entry", "create", "register_c"} THEN 0
                ELSE IF pc[U2] = "register_d" THEN 1
                ELSE IF Asks(pc[U2]) \/ pc[U2] = "set_prio" THEN 2 + u2.i ELSE 7
  /\ pc[U1] \in {"exit", "gone"} => pc[U2] \in {"exit", "gone"}
  /\ score = IF pc[U1] = "gone" THEN 11 ELSE NotYet
  /\ prompts = u1.i + u2.i + Count(pc[U1] = "recv" \/ pc[U2] = "recv")

(* The task that waits for a command, and the command. *)
Awaits == IF Asks(pc[U1]) THEN U1 ELSE U2
Want   == IF Asks(pc[U1]) \/ u2.i % 2 = 0 THEN TheC ELSE TheD

(* A registration is in the mailbox of the KCD task, or in its buffer. *)
KcdMsgs == mbx[TID_KCD].msgs
Regs    == {Registration("c"), Registration("d")}
Key(c)  == Message(HdrSize + 1, "KEY_IN", << c >>)

InTransit(c, t) ==
  \/ KcdMsgs # << >> /\ KcdMsgs[1].m = Registration(c) /\ KcdMsgs[1].sender = t
  \/ pc[TID_KCD] = "handle" /\ kcd_buf.m = Registration(c) /\ kcd_buf.tid = t

Owns(t, c) == kcd.cmd_ids[c] = t \/ InTransit(c, t)

Registered ==
  /\ \A c \in Char \ {"c", "d"} : kcd.cmd_ids[c] = NoCommand
  /\ kcd.cmd_ids["c"] \in {NoCommand, U1, U2} /\ kcd.cmd_ids["d"] \in {NoCommand, U2}
  /\ \A c \in {"c", "d"}, t \in 0..TID_UART_IRQ : InTransit(c, t) =>
       \/ t = U1 /\ c = "c" /\ pc[U2] = "entry"
       \/ t = U2 /\ pc[U2] \notin {"entry", "create", "register_c"}
  /\ Asks(pc[U1]) => Owns(U1, "c")
  /\ pc[U2] = "register_d" => Owns(U2, "c")
  /\ Asks(pc[U2]) => Owns(U2, "c") /\ Owns(U2, "d")

(* The KCD task has its mailbox before anything is sent to it, and takes a  *)
(* registration before anything else happens.                               *)
Starting == pc[TID_KCD] \in {"entry", "alloc"}
HeadReg == IF KcdMsgs # << >> /\ KcdMsgs[1].m.type = "KCD_REG" THEN 1 ELSE 0
Handled == IF pc[TID_KCD] = "handle" /\ kcd_buf.m.type = "KEY_IN" THEN 1 ELSE 0

KcdBox ==
  /\ ~refused
  /\ pc[TID_KCD] \notin {"wild", "torn"}
  /\ Starting => prompts = 0 /\ rx = << >> /\ user.left = << >>
  /\ IF pc[TID_KCD] = "entry"
     THEN mbx[TID_KCD] = NoMailbox
     ELSE /\ mbx[TID_KCD].max = KCD_MBX_SIZE
          /\ mbx[TID_KCD].curr = MailBoxSize + (HdrSize + 1) * Len(KcdMsgs)
  /\ HeadReg = 1 => pc[TID_KCD] = "recv" /\ KcdMsgs[1].m \in Regs
  /\ pc[TID_KCD] = "handle" /\ Handled = 0 => kcd_buf.m \in Regs

(* The characters of w behind the first n are those on the way: h in the    *)
(* buffer b, then those in the mailbox s behind g registrations, in the     *)
(* receiver r, and to be typed, l.                                          *)
Way(w, n, g, h, b, s, r, l) ==
  LET a == n + h + Len(s) - g
  IN  /\ a + Len(r) + Len(l) = Len(w)
      /\ h = 1 => b = Key(w[n + 1])
      /\ \A i \in 1..(Len(s) - g) : s[g + i].m = Key(w[n + h + i])
      /\ \A i \in 1..Len(r) : r[i] = w[a + i]
      /\ \A i \in 1..Len(l) : l[i] = w[a + Len(r) + i]

KeysAre(w, n) == Way(w, n, HeadReg, Handled, kcd_buf.m, KcdMsgs, rx, user.left)

(* Two lines as one, and what the KCD task has stored of the first. *)
Both(k, l) ==
  [i \in 1..(Len(k) + Len(l)) |-> IF i <= Len(k) THEN k[i] ELSE l[i - Len(k)]]

InBuf == IF pc[TID_KCD] = "send" THEN 0 ELSE kcd.tail

Stored(l, n) == \A i \in 1..n : i <= INPUT_SIZE => kcd.input_buf[i - 1] = l[i]

OnTheWay(k, l) ==
  /\ KeysAre(Both(k, l), InBuf)
  /\ k = << >> => l = << >> /\ InBuf = 0
  /\ k # << >> => InBuf < Len(k)
  /\ pc[TID_KCD] # "send" => Stored(k, kcd.tail)

(* The line of the script is typed, or sent by the KCD task, or delivered.   *)
(* What else the KCD task sends is junk.                                     *)
Typed(k, l) == k \in Tests \/ l \in Tests
Sending     == pc[TID_KCD] = "send" /\ kcd.tail = Len(TheC) + 1
Mailed      == mbx[Awaits].msgs # << >>

Accounted(k, l) ==
  /\ k \in Tests => k = Line(Want) /\ l \notin Tests
  /\ l \in Tests => l = Line(Want)
  /\ k \in Junk => user.junk /\ l \notin Junk
  /\ l \in Junk => user.junk
  /\ user.line = u1.i + u2.i + Count(Typed(k, l)) + Count(Sending) + Count(Mailed)

Lines ==
  /\ user.line <= prompts
  /\ pc[TID_KCD] = "send" =>
       /\ Receiver(kcd) \in Users
       /\ kcd.tail > Len(TheC) /\ kcd.tail <= INPUT_SIZE
       /\ Sending => Receiver(kcd) = Awaits /\ Text(kcd) = Want
       /\ Sending \/ user.junk
  /\ \E k, l \in Tests \cup Junk \cup {<< >>} : OnTheWay(k, l) /\ Accounted(k, l)

(* A command is delivered only to the task that waits for it, and the       *)
(* report of utask2 to utask1.                                              *)
Box(t) ==
  IF pc[t] \in {"entry", "create", "gone"} THEN mbx[t] = NoMailbox
  ELSE /\ mbx[t].max = USER_MBX
       /\ mbx[t].curr = MailBoxSize + USER_MSG * Len(mbx[t].msgs)
       /\ mbx[t].msgs # << >> =>
            /\ Len(mbx[t].msgs) = 1
            /\ LET x == mbx[t].msgs[1]
               IN  /\ x.m.length = USER_MSG
                   /\ IF t = U1 /\ pc[U1] = "result"
                      THEN x.sender = U2 /\ x.m.data = << 7 >> /\ pc[U2] \in {"exit", "gone"}
                      ELSE x.sender = TID_KCD /\ x.m.data = Want /\ pc[t] = "recv"

Boxes ==
  /\ Box(U1) /\ Box(U2)
  /\ pc[U1] = "result" /\ pc[U2] \in {"exit", "gone"} => mbx[U1].msgs # << >>

Obeyed == Phases /\ Registered /\ KcdBox /\ Lines /\ Boxes

InvB ==
  /\ user \in Person
  /\ ~user.hasty /\ ~user.bare => IF Torn THEN user.junk ELSE ~wild /\ Obeyed

Good == Sound /\ PcOK /\ user \in Person /\ ~user.hasty /\ Obeyed

LEMMA Sizes ==
  /\ USER_MBX = 28 /\ USER_MSG = 12 /\ KCD_MBX_SIZE = 512 /\ KCD_MSG = 72
  /\ HdrSize = 8 /\ HDR = 8 /\ MailBoxSize = 16 /\ Len(TheC) = 4
  /\ SIZEMOD \in Nat /\ SIZEMOD > 1024
  /\ INPUT_SIZE \in Nat /\ INPUT_SIZE > 4 /\ HdrSize + INPUT_SIZE + 28 < SIZEMOD
  /\ 16 + 12 < SIZEMOD /\ U1 \in Users /\ U2 \in Users /\ Users = {1, 2}
<1>1. /\ USER_MBX = 28 /\ USER_MSG = 12 /\ KCD_MBX_SIZE = 512 /\ KCD_MSG = 72
      /\ HdrSize = 8 /\ HDR = 8 /\ MailBoxSize = 16 /\ Len(TheC) = 4
      /\ U1 \in Users /\ U2 \in Users /\ Users = {1, 2}
  BY DEF USER_MBX, USER_MSG, KCD_MBX_SIZE, KCD_MSG, HdrSize, HDR, MailBoxSize, TheC, Users, U1, U2
<1>2. INPUT_SIZE \in Nat /\ INPUT_SIZE > 4
  BY <1>1, LinesAssumption, KcdAssumption
<1>3. SIZEMOD \in Nat /\ MbxSizes \cup Lengths \subseteq 0..(SIZEMOD \div 2 - 1)
  BY MsgAssumption
<1>4. 512 \in MbxSizes /\ 8 + INPUT_SIZE \in Lengths
  BY <1>1, <1>2, SizesAssumption
<1>5. 512 <= SIZEMOD \div 2 - 1 /\ 8 + INPUT_SIZE <= SIZEMOD \div 2 - 1
  BY <1>3, <1>4, <1>2
<1>6. SIZEMOD > 1024 /\ 8 + INPUT_SIZE + 28 < SIZEMOD
  BY <1>2, <1>3, <1>5
<1>. QED BY <1>1, <1>2, <1>3, <1>6

(* When utask1 or utask2 acts, the KCD task sleeps on an empty mailbox. *)
LEMMA KcdAsleep ==
  ASSUME Sound, NEW t \in Users, Current = t, pc[t] # "gone"
  PROVE  /\ pc[TID_KCD] = "recv" /\ IsEmpty(TID_KCD) /\ HasMbx(TID_KCD)
         /\ g_tcbs[TID_KCD].state = "BLK_MSG"
<1>1. /\ gp_current_task = t /\ t \in Tid /\ TID_KCD \in Tid /\ t # TID_KCD /\ t # TID_NULL
      /\ t \in Tasks /\ TID_KCD \in Tasks /\ BootOf(TID_KCD) = 3 /\ BootOf(t) \in {1, 2}
  BY Fixed DEF Current, Users, Tasks, BootOf
<1>2. booted = 4 /\ TaskRuns
  <2>1. booted = 4 /\ Apart(g_tcbs) /\ ~wild
    BY <1>1, InvParts, Fixed DEF Sound, SchedInv
  <2>. QED BY <1>1, <2>1, Fixed DEF Apart, TaskRuns, Up
<1>3. g_tcbs[TID_KCD].prio = BootTasks[3].prio /\ g_tcbs[TID_KCD].state # "DORMANT"
  BY <1>1, <1>2, Fixed DEF Sound, BootInv, CtxInv
<1>4. g_tcbs[t].prio > BootTasks[3].prio /\ g_tcbs[t].prio \in Nat /\ BootTasks[3].prio \in Nat
  <2>1. g_tcbs[t].prio \in {BootTasks[1].prio, BootTasks[2].prio, BootTasks[4].prio}
    BY <1>1, <1>2, Fixed DEF Sound, BootInv
  <2>. QED BY <2>1, Fixed
<1>5. ~IsReady(TID_KCD)
  <2>1. StrictPriority
    BY StrictPriorityFromInv DEF Sound
  <2>2. ~(PrioOf(t) <= PrioOf(TID_KCD))
    BY <1>3, <1>4 DEF PrioOf
  <2>. QED BY <1>1, <1>2, <2>1, <2>2 DEF StrictPriority
<1>6. g_tcbs[TID_KCD].state = "BLK_MSG"
  <2>1. g_tcbs[TID_KCD].state # "RUNNING" /\ g_tcbs[TID_KCD] \in Tcb
    BY <1>1, InvParts DEF Sound, SchedInv, TypeOK
  <2>. QED BY <1>3, <1>5, <2>1 DEF IsReady, Tcb, State
<1>7. Receiving(TID_KCD) /\ HasMbx(TID_KCD) /\ IsEmpty(TID_KCD)
  BY <1>1, <1>6 DEF Sound, MsgInv, NoLostWakeup, Asleep
<1>8. pc[TID_KCD] = "recv"
  BY <1>1, <1>7 DEF Sound, CtxInv, Receiving
<1>. QED BY <1>6, <1>7, <1>8

(* What a message sent, and a message taken, do to the mailboxes. *)
Posted(t, x) ==
  /\ mbx'[t].msgs = Append(mbx[t].msgs, x)
  /\ mbx'[t].max = mbx[t].max /\ mbx'[t].curr = mbx[t].curr + x.m.length
  /\ \A u \in Tid \ {t} : mbx'[u] = mbx[u]

Removed(t) ==
  /\ mbx'[t].msgs = Tail(mbx[t].msgs)
  /\ mbx'[t].max = mbx[t].max /\ mbx'[t].curr = mbx[t].curr - mbx[t].msgs[1].m.length
  /\ \A u \in Tid \ {t} : mbx'[u] = mbx[u]

LEMMA NoWrap ==
  /\ \A n \in Nat : n < SIZEMOD => n % SIZEMOD = n
  /\ \A n \in Nat, k \in Nat : n < SIZEMOD /\ k <= n => Reduced(n, k) = n - k
<1>1. SIZEMOD \in Nat /\ SIZEMOD > 1024
  BY Sizes
<1>2. \A m \in 0..(SIZEMOD - 1) : m % SIZEMOD = m /\ (m + SIZEMOD) % SIZEMOD = m
  BY <1>1
<1>3. ASSUME NEW n \in Nat, NEW k \in Nat, n < SIZEMOD, k <= n
      PROVE  Reduced(n, k) = n - k
  <2>1. n - k \in 0..(SIZEMOD - 1) /\ n + SIZEMOD - k = (n - k) + SIZEMOD
    BY <1>1, <1>3
  <2>2. ((n - k) + SIZEMOD) % SIZEMOD = n - k
    BY <1>2, <2>1, Zenon
  <2>. QED BY <2>1, <2>2 DEF Reduced
<1>4. \A n \in Nat : n < SIZEMOD => n \in 0..(SIZEMOD - 1)
  BY <1>1
<1>. QED BY <1>2, <1>3, <1>4

LEMMA MailboxesAre ==
  ASSUME Sound
  PROVE  /\ mbx \in [Tid -> Mailbox] /\ rx \in Seq(Keys) /\ Current \in Tid
         /\ \A t \in Tid : /\ mbx[t].msgs \in Seq(Letter) /\ mbx[t].curr \in 0..(SIZEMOD - 1)
                           /\ mbx[t].max \in Nat
         /\ ~refused => ~interrupt_flag
BY CurrentFacts DEF Sound, MsgInv, MsgTypeOK, Mailbox, SenderInv, Current

LEMMA DeliverPosts ==
  ASSUME Sound, NEW t \in Tid, NEW m \in RtxMsg, NEW flag \in BOOLEAN, NEW from \in Sender,
         Deliver(t, m, flag, from), mbx[t].curr + m.length < SIZEMOD
  PROVE  Posted(t, [m |-> m, from |-> from, sender |-> IF flag THEN TID_UART_IRQ ELSE Current])
<1> DEFINE x == [m |-> m, from |-> from, sender |-> IF flag THEN TID_UART_IRQ ELSE Current]
<1>1. mbx \in [Tid -> Mailbox] /\ x.m = m /\ m.length \in Nat
  BY MailboxesAre, SizeFacts DEF RtxMsg
<1>2. (mbx[t].curr + m.length) % SIZEMOD = mbx[t].curr + m.length
  <2>1. mbx[t].curr + m.length \in Nat
    BY <1>1, MailboxesAre, Sizes
  <2>. QED BY <2>1, NoWrap
<1>3. mbx' = [mbx EXCEPT ![t].msgs = Append(@, x), ![t].curr = (@ + m.length) % SIZEMOD]
  BY DEF Deliver
<1>. HIDE DEF x
<1>4. /\ mbx'[t].msgs = Append(mbx[t].msgs, x)
      /\ mbx'[t].max = mbx[t].max
      /\ mbx'[t].curr = (mbx[t].curr + m.length) % SIZEMOD
      /\ \A u \in Tid \ {t} : mbx'[u] = mbx[u]
  BY <1>1, <1>3 DEF Mailbox
<1>5. Posted(t, x)
  BY <1>1, <1>2, <1>4 DEF Posted
<1>. QED BY <1>5 DEF x

LEMMA TakenRemoves ==
  ASSUME Sound, NEW t, NEW at, Taken(t, at),
         mbx[t].msgs[1].m.length <= mbx[t].curr
  PROVE  /\ Removed(t) /\ FirstOf(t) = mbx[t].msgs[1] /\ mbx[t].msgs # << >>
         /\ UNCHANGED << rx, refused >> /\ Current = t /\ t \in Tid /\ pc[t] = at
<1>1. t \in Tid /\ t = Current /\ mbx[t].msgs # << >> /\ FirstOf(t) \in Letter /\ pc[t] = at
  BY TakenLetter DEF Taken, IsEmpty
<1>2. mbx \in [Tid -> Mailbox] /\ mbx[t].msgs \in Seq(Letter) /\ mbx[t].curr \in 0..(SIZEMOD - 1)
  BY <1>1, MailboxesAre
<1>3. FirstOf(t) = mbx[t].msgs[1]
  BY <1>1, <1>2 DEF FirstOf
<1> DEFINE n == FirstOf(t).m.length
<1>4. n \in Nat /\ n <= mbx[t].curr
  BY <1>1, <1>3, SizeFacts DEF Letter, RtxMsg
<1>5. Reduced(mbx[t].curr, n) = mbx[t].curr - n
  <2>1. mbx[t].curr \in Nat /\ mbx[t].curr < SIZEMOD
    BY <1>2, Sizes
  <2>. QED BY <1>4, <2>1, NoWrap
<1>6. /\ UNCHANGED << rx, refused >>
      /\ mbx' = [mbx EXCEPT ![t].msgs = Tail(@), ![t].curr = Reduced(@, n), ![t].nb = @ + 0]
  BY <1>1 DEF Taken, RecvAtOnce, RecvWoken, TakeFirst
<1>. HIDE DEF n
<1>7. /\ mbx'[t].msgs = Tail(mbx[t].msgs)
      /\ mbx'[t].max = mbx[t].max
      /\ mbx'[t].curr = Reduced(mbx[t].curr, n)
      /\ \A u \in Tid \ {t} : mbx'[u] = mbx[u]
  BY <1>1, <1>2, <1>6 DEF Mailbox
<1>8. Removed(t)
  BY <1>3, <1>5, <1>7 DEF Removed, n
<1>. QED BY <1>1, <1>3, <1>6, <1>8

LEMMA RoomAccepts ==
  ASSUME Sound, NEW t \in Tid, g_tcbs[t].state # "DORMANT", mbx[t].max # 0, NEW n \in Nat, n > 0,
         mbx[t].curr + n <= mbx[t].max, mbx[t].max < SIZEMOD
  PROVE  Accepts(t, n)
<1>1. (mbx[t].curr + n) % SIZEMOD = mbx[t].curr + n
  <2>1. mbx[t].curr + n \in Nat /\ mbx[t].curr + n < SIZEMOD
    BY MailboxesAre, Sizes
  <2>. QED BY <2>1, NoWrap
<1>. QED BY <1>1 DEF Accepts, HasMbx, MIN_MSG_SIZE

LEMMA AliveIs ==
  ASSUME Sound, NEW t \in Tasks, booted = 4, pc[t] # "gone"
  PROVE  g_tcbs[t].state # "DORMANT"
BY Fixed DEF Sound, BootInv, Tasks, BootOf

-----------------------------------------------------------------------------
(* What does not change if the variables it speaks of do not. *)
UsersSame == /\ pc'[U1] = pc[U1] /\ pc'[U2] = pc[U2]
             /\ UNCHANGED << u1, u2, turn, prompts, score >>

LEMMA PhasesFrame ==
  ASSUME UsersSame
  PROVE  /\ Phases => Phases'
         /\ Awaits' = Awaits /\ Want' = Want
BY DEF UsersSame, Phases, Asks, Late, Awaits, Want

LEMMA BoxesFrame ==
  ASSUME UsersSame, mbx'[U1] = mbx[U1], mbx'[U2] = mbx[U2], Boxes
  PROVE  Boxes'
<1>1. Want' = Want
  BY PhasesFrame
<1>2. ASSUME NEW t \in Users, Box(t) PROVE Box(t)'
  <2>1. pc'[t] = pc[t] /\ mbx'[t] = mbx[t] /\ pc'[U1] = pc[U1] /\ pc'[U2] = pc[U2]
    BY Sizes DEF UsersSame, U1, U2
  <2>. QED BY <1>1, <1>2, <2>1 DEF Box
<1>. QED BY <1>2, Sizes DEF Boxes, UsersSame

(* The way of a key from the keyboard to the line. *)
WaySame == /\ KcdMsgs' = KcdMsgs
           /\ pc'[TID_KCD] = pc[TID_KCD] \/ (Starting /\ pc'[TID_KCD] \in {"alloc", "recv"})
           /\ UNCHANGED << kcd, kcd_buf, rx >> /\ user'.left = user.left

LEMMA WayFrame ==
  ASSUME WaySame
  PROVE  /\ \A k, l : OnTheWay(k, l) <=> OnTheWay(k, l)'
         /\ \A c, t : InTransit(c, t) <=> InTransit(c, t)'
         /\ HeadReg' = HeadReg /\ Handled' = Handled /\ Sending' = Sending
<1>1. HeadReg' = HeadReg /\ Handled' = Handled /\ Sending' = Sending /\ InBuf' = InBuf
  BY DEF WaySame, Starting, HeadReg, Handled, Sending, InBuf
<1>3. ASSUME NEW w, NEW n PROVE KeysAre(w, n) <=> KeysAre(w, n)'
  BY <1>1 DEF WaySame, KeysAre, Way
<1>4. ASSUME NEW k, NEW l PROVE OnTheWay(k, l) <=> OnTheWay(k, l)'
  <2>1. \A n : Stored(k, n) <=> Stored(k, n)'
    BY DEF Stored, WaySame
  <2>2. KeysAre(Both(k, l), InBuf) <=> KeysAre(Both(k, l), InBuf)'
    BY <1>1, <1>3
  <2>. QED BY <1>1, <2>1, <2>2 DEF OnTheWay, WaySame, Starting
<1>5. ASSUME NEW c, NEW t PROVE InTransit(c, t) <=> InTransit(c, t)'
  BY DEF WaySame, Starting, InTransit
<1>. QED BY <1>1, <1>4, <1>5

LEMMA LinesFrame ==
  ASSUME WaySame, UsersSame, Lines, user' = user, \A t \in Users : mbx'[t].msgs = mbx[t].msgs
  PROVE  Lines'
<1>1. Awaits' = Awaits /\ Want' = Want /\ Awaits \in Users
  BY PhasesFrame, Sizes DEF Awaits
<1>2. Mailed' = Mailed /\ Sending' = Sending
  BY <1>1, WayFrame DEF Mailed
<1>3. \A k, l : OnTheWay(k, l) /\ Accounted(k, l) => OnTheWay(k, l)' /\ Accounted(k, l)'
  BY <1>1, <1>2, WayFrame DEF Accounted, UsersSame
<1>4. /\ user'.line <= prompts'
      /\ pc'[TID_KCD] = "send" =>
          /\ Receiver(kcd') \in Users
          /\ kcd'.tail > Len(TheC) /\ kcd'.tail <= INPUT_SIZE
          /\ Sending' => Receiver(kcd') = Awaits' /\ Text(kcd') = Want'
          /\ Sending' \/ user'.junk
  BY <1>1, <1>2 DEF Lines, UsersSame, WaySame, Starting
<1>. QED BY <1>3, <1>4 DEF Lines

LEMMA RegisteredFrame ==
  ASSUME WaySame, UsersSame, Registered
  PROVE  Registered'
<1>1. \A c, t : Owns(t, c) => Owns(t, c)'
  BY WayFrame DEF Owns, WaySame
<1>. QED BY <1>1, WayFrame DEF Registered, UsersSame, WaySame, Asks

LEMMA KcdBoxFrame ==
  ASSUME WaySame, mbx'[TID_KCD] = mbx[TID_KCD], UNCHANGED refused, KcdBox,
         prompts' = prompts, pc'[TID_KCD] = pc[TID_KCD]
  PROVE  KcdBox'
BY WayFrame DEF KcdBox, WaySame, Starting

(* Nothing of the test moves: the scheduler, the interrupt. *)
LEMMA QuietObeyed ==
  ASSUME Obeyed, UNCHANGED << app, user, mbx, rx, refused >>
  PROVE  Obeyed'
<1>1. UsersSame /\ pc' = pc /\ pc'[TID_KCD] = pc[TID_KCD]
  BY DEF app, UsersSame
<1>2. WaySame
  BY <1>1 DEF app, WaySame, KcdMsgs
<1>3. Phases' /\ Registered' /\ KcdBox' /\ Lines' /\ Boxes'
  BY <1>1, <1>2, PhasesFrame, RegisteredFrame, KcdBoxFrame, LinesFrame, BoxesFrame DEF Obeyed, app
<1>. QED BY <1>3 DEF Obeyed

-----------------------------------------------------------------------------
(* The KCD task. *)
LEMMA GotoIs ==
  ASSUME PcOK, NEW t \in Tid, NEW at, Goto(t, at)
  PROVE  pc'[t] = at /\ \A u \in Tid \ {t} : pc'[u] = pc[u]
BY DEF PcOK, Goto

LEMMA KcdMovesAlone ==
  ASSUME PcOK, NEW at, Goto(TID_KCD, at), UNCHANGED << u1, u2, turn, prompts, score >>
  PROVE  pc'[TID_KCD] = at /\ UsersSame
<1>1. TID_KCD \in Tid /\ U1 \in Tid \ {TID_KCD} /\ U2 \in Tid \ {TID_KCD}
  BY Fixed
<1>. QED BY <1>1, GotoIs DEF UsersSame

LEMMA KcdCreateObeyed ==
  ASSUME Good, KcdCreate, UNCHANGED user
  PROVE  Obeyed'
<1>0. Obeyed /\ PcOK /\ Sound /\ TID_KCD \in Tid /\ U1 \in Tid \ {TID_KCD} /\ U2 \in Tid \ {TID_KCD}
  BY Fixed DEF Good
<1>1. /\ Current = TID_KCD /\ pc[TID_KCD] = "entry" /\ pc'[TID_KCD] = "alloc" /\ UsersSame
      /\ UNCHANGED << kcd, kcd_buf, rx, refused, prompts >>
      /\ mbx' = [mbx EXCEPT ![TID_KCD] = NewMailbox(KCD_MBX_SIZE)]
  BY <1>0, KcdMovesAlone DEF KcdCreate, KcdBecomes, At, k_mbx_create
<1>2. /\ mbx'[TID_KCD] = NewMailbox(KCD_MBX_SIZE) /\ \A u \in Tid \ {TID_KCD} : mbx'[u] = mbx[u]
      /\ mbx[TID_KCD] = NoMailbox
  BY <1>0, <1>1, MailboxesAre DEF Obeyed, KcdBox
<1>3. WaySame
  BY <1>1, <1>2 DEF WaySame, Starting, KcdMsgs, NewMailbox, NoMailbox
<1>4. KcdBox'
  <2>1. HeadReg' = HeadReg /\ Handled' = Handled
    BY <1>3, WayFrame
  <2>2. KcdMsgs = << >> /\ KcdMsgs' = << >>
    BY <1>2, <1>3 DEF WaySame, KcdMsgs, NoMailbox
  <2>3. HeadReg = 0
    BY <2>2 DEF HeadReg
  <2>4. mbx'[TID_KCD].max = KCD_MBX_SIZE /\ mbx'[TID_KCD].curr = MailBoxSize /\ Len(KcdMsgs') = 0
    BY <1>2, <2>2 DEF NewMailbox, NoMailbox
  <2>5. MailBoxSize = MailBoxSize + (HdrSize + 1) * 0
    BY Sizes
  <2>6. rx = << >> /\ user.left = << >> /\ prompts = 0
    BY <1>0, <1>1 DEF KcdBox, Starting, Obeyed
  <2>. QED BY <1>0, <1>1, <2>1, <2>3, <2>4, <2>5, <2>6 DEF KcdBox, Obeyed
<1>5. Phases' /\ Registered' /\ Lines' /\ Boxes'
  BY <1>0, <1>1, <1>2, <1>3, PhasesFrame, RegisteredFrame, LinesFrame, BoxesFrame, Sizes DEF Obeyed, U1, U2
<1>. QED BY <1>4, <1>5 DEF Obeyed

LEMMA KcdAllocObeyed ==
  ASSUME Good, KcdAlloc, UNCHANGED user
  PROVE  Obeyed'
<1>0. Obeyed /\ PcOK /\ U1 \in Tid /\ U2 \in Tid
  BY Fixed DEF Good
<1>1. /\ pc[TID_KCD] = "alloc" /\ pc'[TID_KCD] = "recv" /\ UsersSame
      /\ UNCHANGED << kcd, kcd_buf, rx, refused, prompts, mbx >>
  BY <1>0, KcdMovesAlone DEF KcdAlloc, KcdBecomes, At, msgvars, ipc
<1>2. WaySame
  BY <1>1 DEF WaySame, Starting, KcdMsgs
<1>3. HeadReg' = HeadReg /\ Handled' = Handled /\ KcdMsgs' = KcdMsgs
  BY <1>2, WayFrame DEF WaySame
<1>4. KcdBox'
  BY <1>0, <1>1, <1>3 DEF KcdBox, Starting, Obeyed
<1>5. Phases' /\ Registered' /\ Lines' /\ Boxes'
  BY <1>0, <1>1, <1>2, PhasesFrame, RegisteredFrame, LinesFrame, BoxesFrame DEF Obeyed
<1>. QED BY <1>4, <1>5 DEF Obeyed

-----------------------------------------------------------------------------
(* A character goes one place further. *)
LEMMA WayPressed ==
  ASSUME NEW w, NEW n \in Nat, NEW g \in {0, 1}, NEW h \in {0, 1}, NEW b, NEW s \in Seq(Letter),
         NEW r \in Seq(Char), NEW l \in Seq(Char), l # << >>, Way(w, n, g, h, b, s, r, l)
  PROVE  Way(w, n, g, h, b, s, Append(r, l[1]), Tail(l))
<1> DEFINE a == n + h + Len(s) - g
           q == Append(r, l[1])
           k == Tail(l)
<1>0. g \in Nat /\ h \in Nat /\ Len(s) \in Nat /\ a \in Int
  OBVIOUS
<1>1. /\ a \in Int /\ a + Len(r) + Len(l) = Len(w)
      /\ \A i \in 1..Len(r) : r[i] = w[a + i]
      /\ \A i \in 1..Len(l) : l[i] = w[a + Len(r) + i]
  BY <1>0 DEF Way
<1>2. /\ Len(q) = Len(r) + 1 /\ \A i \in 1..Len(r) : q[i] = r[i]
      /\ q[Len(r) + 1] = l[1]
  OBVIOUS
<1>3. Len(k) = Len(l) - 1 /\ (\A i \in 1..Len(k) : k[i] = l[i + 1]) /\ Len(l) \in Nat /\ Len(l) > 0
  OBVIOUS
<1>4. a + Len(q) + Len(k) = Len(w)
  <2>1. PICK c, d, e : c = a /\ d = Len(r) /\ e = Len(l)
    OBVIOUS
  <2>2. c \in Int /\ d \in Nat /\ e \in Nat /\ c + (d + 1) + (e - 1) = c + d + e
    BY <1>1, <1>3, <2>1
  <2>3. Len(q) = d + 1 /\ Len(k) = e - 1 /\ Len(w) = c + d + e
    BY <1>1, <1>2, <1>3, <2>1
  <2>. QED BY <2>1, <2>2, <2>3, Zenon
<1>5. \A i \in 1..Len(q) : q[i] = w[a + i]
  <2>1. l[1] = w[a + Len(r) + 1]
    BY <1>1, <1>3
  <2>. QED BY <1>1, <1>2, <2>1, SMTT(30)
<1>6. \A i \in 1..Len(k) : k[i] = w[a + Len(q) + i]
  <2>1. ASSUME NEW i \in 1..Len(k) PROVE k[i] = w[a + Len(q) + i]
    <3>1. i + 1 \in 1..Len(l) /\ a + Len(r) + (i + 1) = a + Len(q) + i
      BY <1>1, <1>2, <1>3
    <3>2. l[i + 1] = w[a + Len(r) + (i + 1)]
      BY <1>1, <3>1
    <3>. QED BY <1>3, <3>1, <3>2
  <2>. QED BY <2>1
<1>. HIDE DEF q, k
<1>7. Way(w, n, g, h, b, s, q, k)
  BY <1>4, <1>5, <1>6 DEF Way
<1>. QED BY <1>7 DEF q, k

LEMMA WayInterrupt ==
  ASSUME NEW w, NEW n \in Nat, NEW g \in {0, 1}, NEW h \in {0, 1}, NEW b, NEW s \in Seq(Letter),
         NEW r \in Seq(Char), NEW l \in Seq(Char), r # << >>, Way(w, n, g, h, b, s, r, l),
         g <= Len(s), NEW x \in Letter, x.m = Key(r[1])
  PROVE  Way(w, n, g, h, b, Append(s, x), Tail(r), l)
<1> DEFINE a == n + h + Len(s) - g
           q == Append(s, x)
           k == Tail(r)
           c == n + h + Len(q) - g
<1>0. g \in Nat /\ h \in Nat /\ Len(s) \in Nat /\ a \in Int /\ Len(l) \in Nat /\ Len(r) \in Nat /\ Len(r) > 0
  OBVIOUS
<1>1. a + Len(r) + Len(l) = Len(w)
  BY DEF Way
<1>2. /\ \A i \in 1..(Len(s) - g) : s[g + i].m = Key(w[n + h + i])
      /\ \A i \in 1..Len(r) : r[i] = w[a + i]
      /\ \A i \in 1..Len(l) : l[i] = w[a + Len(r) + i]
  BY <1>0 DEF Way
<1>3. Len(q) = Len(s) + 1 /\ Len(k) = Len(r) - 1
  OBVIOUS
<1>31. /\ (\A i \in 1..Len(s) : q[i] = s[i]) /\ q[Len(s) + 1] = x
       /\ \A i \in 1..Len(k) : k[i] = r[i + 1]
  OBVIOUS
<1>. HIDE DEF q, k
<1>4. c = a + 1 /\ c + Len(k) + Len(l) = Len(w) /\ c + Len(k) = a + Len(r) /\ c \in Int
  BY <1>0, <1>1, <1>3
<1>5. \A i \in 1..(Len(q) - g) : q[g + i].m = Key(w[n + h + i])
  <2>1. ASSUME NEW i \in 1..(Len(q) - g) PROVE q[g + i].m = Key(w[n + h + i])
    <3>1. CASE i <= Len(s) - g
      <4>1. i \in 1..(Len(s) - g) /\ g + i \in 1..Len(s)
        BY <1>0, <1>3, <3>1
      <4>. QED BY <1>2, <1>31, <4>1
    <3>2. CASE ~(i <= Len(s) - g)
      <4>1. i = Len(s) - g + 1 /\ g + i = Len(s) + 1 /\ n + h + i = a + 1
        BY <1>0, <1>3, <3>2, SMTT(30)
      <4>2. r[1] = w[a + 1]
        BY <1>0, <1>2
      <4>. QED BY <1>31, <4>1, <4>2
    <3>. QED BY <3>1, <3>2
  <2>. QED BY <2>1
<1>6. \A i \in 1..Len(k) : k[i] = w[c + i]
  <2>1. ASSUME NEW i \in 1..Len(k) PROVE k[i] = w[c + i]
    <3>1. i + 1 \in 1..Len(r) /\ a + (i + 1) = c + i
      BY <1>0, <1>3, <1>4
    <3>2. r[i + 1] = w[a + (i + 1)]
      BY <1>2, <3>1
    <3>. QED BY <1>31, <3>1, <3>2
  <2>. QED BY <2>1
<1>7. \A i \in 1..Len(l) : l[i] = w[c + Len(k) + i]
  BY <1>2, <1>4
<1>8. (h = 1 => b = Key(w[n + 1]))
  BY DEF Way
<1>. HIDE DEF a
<1>9. Way(w, n, g, h, b, q, k, l)
  BY <1>4, <1>5, <1>6, <1>7, <1>8 DEF Way
<1>. QED BY <1>9 DEF q, k

LEMMA WayHead ==
  ASSUME NEW w, NEW n \in Nat, NEW b, NEW s \in Seq(Letter), NEW r, NEW l, s # << >>,
         Way(w, n, 0, 0, b, s, r, l)
  PROVE  s[1].m = Key(w[n + 1])
<1>1. Len(s) \in Nat /\ 1 \in 1..(Len(s) - 0) /\ 0 + 1 = 1 /\ n + 0 + 1 = n + 1
  OBVIOUS
<1>2. \A i \in 1..(Len(s) - 0) : s[0 + i].m = Key(w[n + 0 + i])
  BY DEF Way
<1>3. s[0 + 1].m = Key(w[n + 0 + 1])
  BY <1>1, <1>2
<1>. QED BY <1>1, <1>3

LEMMA WayTaken ==
  ASSUME NEW w, NEW n \in Nat, NEW g \in {0, 1}, NEW b, NEW c, NEW s \in Seq(Letter),
         NEW r \in Seq(Char), NEW l \in Seq(Char), s # << >>, Way(w, n, g, 0, b, s, r, l),
         g = 0 => c = s[1].m
  PROVE  Way(w, n, 0, 1 - g, c, Tail(s), r, l)
<1> DEFINE q == Tail(s)
           a == n + 0 + Len(s) - g
           d == n + (1 - g) + Len(q) - 0
<1>0. g \in Nat /\ Len(s) \in Nat /\ Len(s) > 0 /\ Len(q) = Len(s) - 1 /\ Len(l) \in Nat /\ Len(r) \in Nat
  OBVIOUS
<1>1. \A i \in 1..Len(q) : q[i] = s[i + 1]
  OBVIOUS
<1>2. a + Len(r) + Len(l) = Len(w)
  BY DEF Way
<1>3. /\ \A i \in 1..(Len(s) - g) : s[g + i].m = Key(w[n + 0 + i])
      /\ \A i \in 1..Len(r) : r[i] = w[a + i]
      /\ \A i \in 1..Len(l) : l[i] = w[a + Len(r) + i]
  BY <1>0 DEF Way
<1>. HIDE DEF q
<1>4. a = d
  BY <1>0
<1>5. ASSUME g = 0 PROVE s[1].m = Key(w[n + 1])
  <2>1. 1 \in 1..(Len(s) - g) /\ g + 1 = 1 /\ n + 0 + 1 = n + 1
    BY <1>0, <1>5
  <2>. QED BY <1>3, <2>1
<1>6. ASSUME NEW i \in 1..(Len(q) - 0) PROVE q[0 + i].m = Key(w[n + (1 - g) + i])
  <2>1. /\ i + 1 - g \in 1..(Len(s) - g) /\ g + (i + 1 - g) = i + 1
        /\ n + 0 + (i + 1 - g) = n + (1 - g) + i /\ 0 + i = i /\ i \in 1..Len(q)
    BY <1>0
  <2>2. s[g + (i + 1 - g)].m = Key(w[n + 0 + (i + 1 - g)])
    BY <1>3, <2>1
  <2>. QED BY <1>1, <2>1, <2>2
<1>7. /\ \A i \in 1..Len(r) : r[i] = w[d + i]
      /\ \A i \in 1..Len(l) : l[i] = w[d + Len(r) + i]
      /\ d + Len(r) + Len(l) = Len(w)
  BY <1>2, <1>3, <1>4
<1>8. 1 - g = 1 => c = Key(w[n + 1])
  BY <1>0, <1>5
<1>9. Way(w, n, 0, 1 - g, c, q, r, l)
  BY <1>6, <1>7, <1>8 DEF Way
<1>. QED BY <1>9 DEF q

LEMMA WayStored ==
  ASSUME NEW w, NEW n \in Nat, NEW g \in {0, 1}, NEW b, NEW c, NEW s \in Seq(Letter),
         NEW r \in Seq(Char), NEW l \in Seq(Char), g <= Len(s), Way(w, n, g, 1, b, s, r, l)
  PROVE  Way(w, n + 1, g, 0, c, s, r, l) /\ b = Key(w[n + 1]) /\ n + 1 <= Len(w)
<1> DEFINE a == n + 1 + Len(s) - g
           d == (n + 1) + 0 + Len(s) - g
<1>0. g \in Nat /\ Len(s) \in Nat /\ Len(l) \in Nat /\ Len(r) \in Nat /\ a = d
  OBVIOUS
<1>1. a + Len(r) + Len(l) = Len(w)
  BY DEF Way
<1>2. /\ \A i \in 1..(Len(s) - g) : s[g + i].m = Key(w[n + 1 + i])
      /\ \A i \in 1..Len(r) : r[i] = w[a + i]
      /\ \A i \in 1..Len(l) : l[i] = w[a + Len(r) + i]
      /\ b = Key(w[n + 1])
  BY <1>0 DEF Way
<1>3. \A i \in 1..(Len(s) - g) : s[g + i].m = Key(w[(n + 1) + 0 + i])
  BY <1>0, <1>2
<1>4. /\ \A i \in 1..Len(r) : r[i] = w[d + i]
      /\ \A i \in 1..Len(l) : l[i] = w[d + Len(r) + i]
      /\ d + Len(r) + Len(l) = Len(w)
  BY <1>0, <1>1, <1>2
<1>5. n + 1 <= Len(w)
  BY <1>0, <1>1
<1>6. Way(w, n + 1, g, 0, c, s, r, l)
  BY <1>3, <1>4 DEF Way
<1>. QED BY <1>2, <1>5, <1>6

LEMMA WayRegistration ==
  ASSUME NEW w, NEW n \in Nat, NEW b, NEW s \in Seq(Letter), Len(s) = 1,
         NEW r \in Seq(Char), NEW l \in Seq(Char), Way(w, n, 0, 0, b, << >>, r, l)
  PROVE  Way(w, n, 1, 0, b, s, r, l)
<1>1. n + 0 + Len(<< >>) - 0 = n /\ n + 0 + Len(s) - 1 = n /\ Len(s) - 1 = 0
  OBVIOUS
<1>. QED BY <1>1 DEF Way


-----------------------------------------------------------------------------
(* The lines that can be typed. *)
Typeable == Tests \cup Junk \cup {<< >>}

LEMMA LineShape ==
  /\ \A w \in Tests \cup Junk :
       /\ w \in Seq(Char) /\ Len(w) \in 2..48 /\ w # << >> /\ w[Len(w)] = CR
       /\ \A i \in 1..Len(w) : w[i] = CR => i = Len(w)
  /\ Tests \cap Junk = {} /\ \A w \in Tests : Len(w) = 6
  /\ \A w \in Typeable : w \in Seq(Char)
<1>0. \A n \in 2..48 : n # 0 /\ n \in 1..n
  OBVIOUS
<1>1. ASSUME NEW w \in Tests
      PROVE  /\ w \in Seq(Char) /\ Len(w) = 6 /\ w[6] = CR /\ w[1] = PERCENT /\ w[2] \in {"c", "d"}
             /\ \A i \in 1..6 : w[i] = CR => i = 6
  <2>1. /\ w \in Seq(Char) /\ Len(w) = 6
        /\ w[1] = PERCENT /\ w[3] = "G" /\ w[4] = "T" /\ w[5] = "A" /\ w[6] = CR
        /\ w[2] \in {"c", "d"}
    BY TestLines DEF Tests
  <2>. QED BY <2>1 DEF CR, PERCENT
<1>2. ASSUME NEW w \in Junk
      PROVE  NoCommandOfTest(w)
  BY LinesAssumption
<1>3. ASSUME NEW w \in Junk
      PROVE  /\ w \in Seq(Char) /\ Len(w) \in 2..48 /\ w[Len(w)] = CR
             /\ \A i \in 1..Len(w) : w[i] = CR => i = Len(w)
  <2>1. /\ w \in Seq(Char) /\ Len(w) \in 2..48
        /\ \A i \in 1..Len(w) : w[i] = CR <=> i = Len(w)
    BY <1>2 DEF NoCommandOfTest, JUNK_SIZE
  <2>2. Len(w) \in 1..Len(w)
    BY <1>0, <2>1
  <2>. QED BY <2>1, <2>2
<1>4. Tests \cap Junk = {}
  <2>1. Len(Line(TheC)) = 6
    BY TestLines DEF Tests, LineC
  <2>2. ASSUME NEW w \in Tests, NoCommandOfTest(w) PROVE FALSE
    BY <1>1, <2>1, <2>2, Sizes DEF NoCommandOfTest
  <2>. QED BY <1>2, <2>2
<1>5. \A w \in Tests : Len(w) \in 2..48 /\ Len(w) = 6
  BY <1>1
<1>6. ASSUME NEW w, Len(w) \in 2..48 PROVE w # << >>
  <2>1. Len(w) # 0
    BY <1>0, <1>6, Zenon
  <2>. QED BY <2>1, EmptySeq
<1>7. \A w \in Tests : w \in Seq(Char) /\ w[Len(w)] = CR /\ \A i \in 1..Len(w) : w[i] = CR => i = Len(w)
  BY <1>1
<1>8. \A w \in Tests \cup Junk : w \in Seq(Char)
  BY <1>3, <1>7
<1>9. \A w \in Tests \cup Junk : Len(w) \in 2..48 /\ w # << >>
  BY <1>3, <1>5, <1>6
<1>10. \A w \in Typeable : w \in Seq(Char)
  BY <1>8, EmptySeq DEF Typeable
<1>. QED BY <1>3, <1>4, <1>5, <1>7, <1>8, <1>9, <1>10

LEMMA BothIs ==
  ASSUME NEW k \in Seq(Char), NEW l \in Seq(Char)
  PROVE  /\ Both(k, l) \in Seq(Char) /\ Len(Both(k, l)) = Len(k) + Len(l)
         /\ \A i \in 1..Len(k) : Both(k, l)[i] = k[i]
         /\ \A i \in 1..Len(l) : Both(k, l)[Len(k) + i] = l[i]
<1>1. Len(k) \in Nat /\ Len(l) \in Nat
  OBVIOUS
<1>2. \A i \in 1..(Len(k) + Len(l)) : i <= Len(k) \/ i - Len(k) \in 1..Len(l)
  BY <1>1
<1>3. \A i \in 1..(Len(k) + Len(l)) : (IF i <= Len(k) THEN k[i] ELSE l[i - Len(k)]) \in Char
  BY <1>1, <1>2
<1>4. Both(k, l) \in [1..(Len(k) + Len(l)) -> Char]
  BY <1>3 DEF Both
<1>5. Both(k, l) \in Seq(Char) /\ Len(Both(k, l)) = Len(k) + Len(l)
  BY <1>1, <1>4, SMTT(30)
<1>6. \A i \in 1..Len(k) : Both(k, l)[i] = k[i]
  BY <1>1 DEF Both
<1>7. ASSUME NEW i \in 1..Len(l) PROVE Both(k, l)[Len(k) + i] = l[i]
  <2>1. /\ Len(k) + i \in 1..(Len(k) + Len(l)) /\ ~(Len(k) + i <= Len(k))
        /\ (Len(k) + i) - Len(k) = i
    BY <1>1
  <2>. QED BY <2>1 DEF Both
<1>. QED BY <1>5, <1>6, <1>7

LEMMA BothEmpty ==
  ASSUME NEW l \in Seq(Char)
  PROVE  /\ Both(<< >>, l) = Both(l, << >>)
         /\ Both(l, << >>) \in Seq(Char) /\ Len(Both(l, << >>)) = Len(l)
         /\ \A i \in 1..Len(l) : Both(l, << >>)[i] = l[i]
<1> DEFINE e == << >>
           a == Both(e, l)
           b == Both(l, e)
<1>0. e \in Seq(Char) /\ Len(e) = 0 /\ Len(l) \in Nat
  BY EmptySeq
<1>. HIDE DEF e
<1>1. /\ a \in Seq(Char) /\ Len(a) = Len(e) + Len(l) /\ \A i \in 1..Len(l) : a[Len(e) + i] = l[i]
      /\ b \in Seq(Char) /\ Len(b) = Len(l) + Len(e) /\ \A i \in 1..Len(l) : b[i] = l[i]
  BY <1>0, BothIs
<1>. HIDE DEF a, b
<1>3. Len(a) = Len(l) /\ Len(b) = Len(l)
  BY <1>0, <1>1
<1>4. \A i \in 1..Len(l) : a[i] = l[i]
  BY <1>0, <1>1
<1>5. a = b
  BY <1>1, <1>3, <1>4
<1>. QED BY <1>1, <1>3, <1>5 DEF a, b, e

LEMMA WayBegin ==
  ASSUME NEW k \in Seq(Char), NEW m \in Seq(Char), NEW n \in Nat,
         NEW g \in {0, 1}, NEW h \in {0, 1}, NEW b, NEW s \in Seq(Letter), g <= Len(s),
         NEW r \in Seq(Char), Way(Both(k, << >>), n, g, h, b, s, r, << >>)
  PROVE  Way(Both(k, m), n, g, h, b, s, r, m)
<1> DEFINE w == Both(k, << >>)
           v == Both(k, m)
           a == n + h + Len(s) - g
<1>0. g \in Nat /\ h \in Nat /\ Len(s) \in Nat /\ a \in Nat /\ Len(m) \in Nat /\ Len(r) \in Nat /\ Len(k) \in Nat
  OBVIOUS
<1>1. /\ Len(w) = Len(k) /\ \A i \in 1..Len(k) : w[i] = k[i]
      /\ Len(v) = Len(k) + Len(m) /\ \A i \in 1..Len(k) : v[i] = k[i]
      /\ \A i \in 1..Len(m) : v[Len(k) + i] = m[i]
  BY BothIs, BothEmpty
<1>2. a + Len(r) = Len(w) /\ (h = 1 => b = Key(w[n + 1]))
  <2>1. a + Len(r) + Len(<< >>) = Len(w) /\ (h = 1 => b = Key(w[n + 1])) /\ Len(<< >>) = 0
    BY EmptySeq DEF Way
  <2>. QED BY <1>0, <2>1
<1>3. /\ \A i \in 1..(Len(s) - g) : s[g + i].m = Key(w[n + h + i])
      /\ \A i \in 1..Len(r) : r[i] = w[a + i]
  BY <1>0 DEF Way
<1>. HIDE DEF w, v
<1>4. a + Len(r) = Len(k) /\ a + Len(r) + Len(m) = Len(v)
  BY <1>0, <1>1, <1>2
<1>5. h = 1 => n + 1 \in 1..Len(k)
  BY <1>0, <1>4
<1>6. h = 1 => b = Key(v[n + 1])
  BY <1>1, <1>2, <1>5
<1>7. \A i \in 1..(Len(s) - g) : n + h + i \in 1..Len(k)
  BY <1>0, <1>4
<1>8. \A i \in 1..(Len(s) - g) : s[g + i].m = Key(v[n + h + i])
  BY <1>1, <1>3, <1>7
<1>9. \A i \in 1..Len(r) : a + i \in 1..Len(k)
  BY <1>0, <1>4
<1>10. \A i \in 1..Len(r) : r[i] = v[a + i]
  BY <1>1, <1>3, <1>9
<1>11. \A i \in 1..Len(m) : m[i] = v[a + Len(r) + i]
  BY <1>1, <1>4
<1>12. Way(v, n, g, h, b, s, r, m)
  BY <1>4, <1>6, <1>8, <1>10, <1>11 DEF Way
<1>. QED BY <1>12 DEF v

(* The first line is complete: the second becomes the first. *)
LEMMA WayRebase ==
  ASSUME NEW k \in Seq(Char), NEW l \in Seq(Char), NEW b, NEW s \in Seq(Letter),
         NEW r \in Seq(Char), NEW q \in Seq(Char), NEW g \in {0, 1}, g <= Len(s),
         Way(Both(k, l), Len(k), g, 0, b, s, r, q)
  PROVE  Way(Both(l, << >>), 0, g, 0, b, s, r, q)
<1> DEFINE w == Both(k, l)
           v == Both(l, << >>)
           a == Len(k) + 0 + Len(s) - g
           d == 0 + 0 + Len(s) - g
<1>0. g \in Nat /\ Len(s) \in Nat /\ Len(q) \in Nat /\ Len(r) \in Nat /\ Len(k) \in Nat /\ Len(l) \in Nat
  OBVIOUS
<1>1. /\ Len(w) = Len(k) + Len(l) /\ \A i \in 1..Len(l) : w[Len(k) + i] = l[i]
      /\ Len(v) = Len(l) /\ \A i \in 1..Len(l) : v[i] = l[i]
  BY BothIs, BothEmpty
<1>2. a + Len(r) + Len(q) = Len(w)
  BY DEF Way
<1>3. /\ \A i \in 1..(Len(s) - g) : s[g + i].m = Key(w[Len(k) + 0 + i])
      /\ \A i \in 1..Len(r) : r[i] = w[a + i]
      /\ \A i \in 1..Len(q) : q[i] = w[a + Len(r) + i]
  BY <1>0 DEF Way
<1>. HIDE DEF w, v
<1>4. d + Len(r) + Len(q) = Len(v) /\ d \in Nat
  <2>1. PICK x, y, z, t, u : x = Len(k) /\ y = Len(l) /\ z = Len(s) /\ t = Len(r) /\ u = Len(q)
    OBVIOUS
  <2>2. /\ x \in Nat /\ y \in Nat /\ z \in Nat /\ t \in Nat /\ u \in Nat /\ g <= z
        /\ x + 0 + z - g + t + u = x + y
    <3>1. Len(w) = x + y
      BY <1>1, <2>1
    <3>2. a + t + u = Len(w)
      BY <1>2, <2>1
    <3>. QED BY <1>0, <2>1, <3>1, <3>2
  <2>3. 0 + 0 + z - g + t + u = y /\ 0 + 0 + z - g \in Nat
    BY <1>0, <2>2
  <2>4. Len(v) = y
    BY <1>1, <2>1
  <2>. QED BY <2>1, <2>3, <2>4
<1>5. \A i \in 1..(Len(s) - g) : s[g + i].m = Key(v[0 + 0 + i])
  <2>1. \A i \in 1..(Len(s) - g) : i \in 1..Len(l) /\ Len(k) + 0 + i = Len(k) + i /\ 0 + 0 + i = i
    BY <1>0, <1>1, <1>4
  <2>. QED BY <1>1, <1>3, <2>1
<1>6. \A i \in 1..Len(r) : r[i] = v[d + i]
  <2>1. \A i \in 1..Len(r) : d + i \in 1..Len(l) /\ a + i = Len(k) + (d + i)
    BY <1>0, <1>1, <1>4
  <2>. QED BY <1>1, <1>3, <2>1
<1>7. \A i \in 1..Len(q) : q[i] = v[d + Len(r) + i]
  <2>1. \A i \in 1..Len(q) : d + Len(r) + i \in 1..Len(l) /\ a + Len(r) + i = Len(k) + (d + Len(r) + i)
    BY <1>0, <1>1, <1>4
  <2>. QED BY <1>1, <1>3, <2>1
<1>8. Way(v, 0, g, 0, b, s, r, q)
  BY <1>4, <1>5, <1>6, <1>7 DEF Way
<1>. QED BY <1>8 DEF v

LEMMA RegisteredKept ==
  ASSUME UsersSame, UNCHANGED kcd, \A c, t : InTransit(c, t) <=> InTransit(c, t)', Registered
  PROVE  Registered'
<1>1. \A c, t : Owns(t, c) => Owns(t, c)'
  BY DEF Owns
<1>. QED BY <1>1 DEF Registered, UsersSame, Asks

LEMMA LinesKept ==
  ASSUME UsersSame, Lines, user'.line = user.line, user'.junk = user.junk,
         \A t \in Users : mbx'[t].msgs = mbx[t].msgs,
         pc'[TID_KCD] = "send" => pc[TID_KCD] = "send" /\ UNCHANGED kcd,
         Sending' = Sending,
         \A k, l \in Typeable : OnTheWay(k, l) /\ Accounted(k, l) => OnTheWay(k, l)'
  PROVE  Lines'
<1>1. Awaits' = Awaits /\ Want' = Want /\ Awaits \in Users
  BY PhasesFrame, Sizes DEF Awaits
<1>2. Mailed' = Mailed
  BY <1>1 DEF Mailed
<1>3. \A k, l : Accounted(k, l) => Accounted(k, l)'
  BY <1>1, <1>2 DEF Accounted, UsersSame
<1>4. /\ user'.line <= prompts'
      /\ pc'[TID_KCD] = "send" =>
          /\ Receiver(kcd') \in Users
          /\ kcd'.tail > Len(TheC) /\ kcd'.tail <= INPUT_SIZE
          /\ Sending' => Receiver(kcd') = Awaits' /\ Text(kcd') = Want'
          /\ Sending' \/ user'.junk
  BY <1>1, <1>2 DEF Lines, UsersSame
<1>5. \E k, l \in Typeable : OnTheWay(k, l) /\ Accounted(k, l)
  BY DEF Lines, Typeable
<1>6. \E k, l \in Typeable : OnTheWay(k, l)' /\ Accounted(k, l)'
  BY <1>3, <1>5
<1>. QED BY <1>4, <1>6 DEF Lines, Typeable

(* What the KCD task finds in its mailbox. *)
LEMMA WaySizes ==
  /\ HeadReg \in {0, 1} /\ Handled \in {0, 1}
  /\ \A w, n : KeysAre(w, n) <=> Way(w, n, HeadReg, Handled, kcd_buf.m, KcdMsgs, rx, user.left)
BY DEF HeadReg, Handled, KeysAre

LEMMA WayTypes ==
  ASSUME Sound
  PROVE  /\ KcdMsgs \in Seq(Letter) /\ rx \in Seq(Char) /\ user.left \in Seq(Char)
         /\ kcd \in KcdState /\ InBuf \in Nat /\ HeadReg <= Len(KcdMsgs)
         /\ INPUT_SIZE \in Nat /\ INPUT_SIZE > 4 /\ kcd.tail \in Nat
<1>1. TID_KCD \in Tid /\ Keys = Char
  BY Fixed, LinesAssumption
<1>2. kcd \in KcdState /\ kcd.tail \in Nat
  BY DEF Sound, AppOK, KcdState
<1>3. KcdMsgs \in Seq(Letter)
  BY <1>1, MailboxesAre DEF KcdMsgs
<1>4. HeadReg <= Len(KcdMsgs)
  <2>1. KcdMsgs # << >> => 1 <= Len(KcdMsgs)
    BY <1>3
  <2>2. 0 <= Len(KcdMsgs)
    BY <1>3
  <2>. QED BY <2>1, <2>2 DEF HeadReg
<1>. QED BY <1>1, <1>2, <1>3, <1>4, MailboxesAre, Sizes DEF Sound, AppOK, InBuf

LEMMA KcdRecvObeyed ==
  ASSUME Good, KcdRecv, UNCHANGED user
  PROVE  Obeyed'
<1> DEFINE x == mbx[TID_KCD].msgs[1]
<1>0. /\ Obeyed /\ Phases /\ Registered /\ KcdBox /\ Lines /\ Boxes
      /\ PcOK /\ Sound /\ TID_KCD \in Tid /\ U1 \in Tid \ {TID_KCD} /\ U2 \in Tid \ {TID_KCD}
  BY Fixed DEF Good, Obeyed
<1>1. CASE Sleeps(TID_KCD, "recv")
  <2>1. UNCHANGED << app, user, mbx, rx, refused >>
    BY <1>1 DEF Sleeps, RecvSleep
  <2>. QED BY <1>0, <2>1, QuietObeyed
<1>2. CASE ~Sleeps(TID_KCD, "recv")
  <2>1. /\ Taken(TID_KCD, "recv") /\ Goto(TID_KCD, "handle")
        /\ kcd_buf' = [m |-> IF FirstOf(TID_KCD).m.length > KCD_MSG THEN kcd_buf.m ELSE FirstOf(TID_KCD).m,
                       tid |-> FirstOf(TID_KCD).sender]
        /\ UNCHANGED << u1, u2, kcd, turn, prompts, commands, score >>
    BY <1>2, KcdRecvCases
  <2>2. pc[TID_KCD] = "recv" /\ pc'[TID_KCD] = "handle" /\ UsersSame
    BY <1>0, <2>1, KcdMovesAlone DEF Taken
  <2>3. KcdMsgs # << >>
    BY <2>1, TakenLetter, <1>0 DEF IsEmpty, KcdMsgs
  <2>4. PICK k0, l0 \in Typeable : OnTheWay(k0, l0)
    BY <1>0 DEF Lines, Typeable
  <2>5. Handled = 0 /\ InBuf = kcd.tail /\ ~Sending /\ ~Sending' /\ InBuf' = kcd.tail
    BY <2>1, <2>2 DEF Handled, InBuf, Sending
  <2>6. \A w, n : KeysAre(w, n) <=> Way(w, n, HeadReg, 0, kcd_buf.m, KcdMsgs, rx, user.left)
    BY <2>5, WaySizes
  <2>7. /\ KcdMsgs \in Seq(Letter) /\ rx \in Seq(Char) /\ user.left \in Seq(Char) /\ kcd.tail \in Nat
        /\ HeadReg \in {0, 1} /\ x = KcdMsgs[1]
    BY <1>0, WayTypes, WaySizes DEF KcdMsgs
  <2>8. ASSUME NEW w, KeysAre(w, kcd.tail)
        PROVE  /\ Way(w, kcd.tail, 0, 1 - HeadReg, x.m, Tail(KcdMsgs), rx, user.left)
               /\ HeadReg = 0 => x.m = Key(w[kcd.tail + 1])
    <3>1. Way(w, kcd.tail, HeadReg, 0, kcd_buf.m, KcdMsgs, rx, user.left)
      BY <2>6, <2>8
    <3>2. HeadReg = 0 => x.m = KcdMsgs[1].m
      BY <2>7
    <3>. HIDE DEF x
    <3>3. Way(w, kcd.tail, 0, 1 - HeadReg, x.m, Tail(KcdMsgs), rx, user.left)
      BY <2>3, <2>7, <3>1, <3>2, WayTaken
    <3>4. HeadReg = 0 => KcdMsgs[1].m = Key(w[kcd.tail + 1])
      BY <2>3, <2>7, <3>1, WayHead
    <3>. QED BY <3>2, <3>3, <3>4
  <2>9. /\ x.m.length = 9
        /\ HeadReg = 0 => x.m.type = "KEY_IN"
        /\ HeadReg = 1 => x.m.type = "KCD_REG" /\ x.m \in Regs
    <3>1. CASE HeadReg = 1
      BY <1>0, <2>7, <3>1, Sizes DEF KcdBox, Regs, Registration, Message
    <3>2. CASE HeadReg = 0
      <4>1. x.m = Key(Both(k0, l0)[kcd.tail + 1])
        BY <2>4, <2>5, <2>8, <3>2 DEF OnTheWay
      <4>. QED BY <3>2, <4>1, Sizes DEF Key, Message
    <3>. QED BY <2>7, <3>1, <3>2
  <2>10. /\ mbx[TID_KCD].curr = MailBoxSize + (HdrSize + 1) * Len(KcdMsgs)
         /\ mbx[TID_KCD].max = KCD_MBX_SIZE
    BY <1>0, <2>2 DEF KcdBox
  <2>11. x.m.length <= mbx[TID_KCD].curr
    <3>1. Len(KcdMsgs) \in Nat
      BY <2>7
    <3>. QED BY <2>9, <2>10, <3>1, Sizes
  <2>12. /\ Removed(TID_KCD) /\ FirstOf(TID_KCD) = x
         /\ UNCHANGED << rx, refused >>
    BY <1>0, <2>1, <2>11, TakenRemoves
  <2>13. kcd_buf'.m = x.m /\ kcd_buf'.tid = x.sender
    BY <2>1, <2>9, <2>12, Sizes
  <2>14. KcdMsgs' = Tail(KcdMsgs)
    BY <2>12 DEF Removed, KcdMsgs
  <2>15. Handled' = 1 - HeadReg
    BY <2>2, <2>7, <2>9, <2>13 DEF Handled
  <2>16. HeadReg' = 0
    <3>1. CASE KcdMsgs' = << >>
      BY <3>1 DEF HeadReg
    <3>2. CASE KcdMsgs' # << >>
      <4>1. Way(Both(k0, l0), kcd.tail, 0, 1 - HeadReg, x.m, KcdMsgs', rx, user.left)
        BY <2>4, <2>5, <2>8, <2>14 DEF OnTheWay
      <4>2. KcdMsgs' \in Seq(Letter) /\ 1 \in 1..(Len(KcdMsgs') - 0) /\ 0 + 1 = 1
        BY <2>7, <2>14, <3>2
      <4>3. KcdMsgs'[0 + 1].m = Key(Both(k0, l0)[kcd.tail + (1 - HeadReg) + 1])
        BY <4>1, <4>2 DEF Way
      <4>4. KcdMsgs'[1].m.type = "KEY_IN"
        BY <4>2, <4>3 DEF Key, Message
      <4>. QED BY <4>4 DEF HeadReg
    <3>. QED BY <3>1, <3>2
  <2>17. Phases'
    BY <1>0, <2>2, PhasesFrame
  <2>18. Boxes'
    BY <1>0, <2>2, <2>12, BoxesFrame DEF Removed
  <2>19. KcdBox'
    <3>1. mbx'[TID_KCD].max = KCD_MBX_SIZE /\ mbx'[TID_KCD].curr = MailBoxSize + (HdrSize + 1) * Len(KcdMsgs')
      <4>1. Len(KcdMsgs') = Len(KcdMsgs) - 1 /\ Len(KcdMsgs) \in Nat
        BY <2>3, <2>7, <2>14
      <4>2. mbx'[TID_KCD].max = KCD_MBX_SIZE /\ mbx'[TID_KCD].curr = mbx[TID_KCD].curr - 9
        BY <2>9, <2>10, <2>12 DEF Removed
      <4>. QED BY <2>10, <4>1, <4>2, Sizes
    <3>2. Handled' = 0 => kcd_buf'.m \in Regs
      BY <2>7, <2>9, <2>13, <2>15
    <3>3. Regs' = Regs
      BY DEF Regs
    <3>. QED BY <1>0, <2>2, <2>12, <2>16, <3>1, <3>2, <3>3 DEF KcdBox, Starting
  <2>20. Registered'
    <3>1. ASSUME NEW c, NEW t PROVE InTransit(c, t) <=> InTransit(c, t)'
      <4>1. InTransit(c, t) <=> x.m = Registration(c) /\ x.sender = t
        BY <2>2, <2>3, <2>7 DEF InTransit
      <4>2. InTransit(c, t)' <=> kcd_buf'.m = Registration(c) /\ kcd_buf'.tid = t
        <5>1. ~(KcdMsgs' # << >> /\ KcdMsgs'[1].m = Registration(c))
          BY <2>16 DEF HeadReg, Registration, Message
        <5>. QED BY <2>2, <5>1 DEF InTransit
      <4>. QED BY <2>13, <4>1, <4>2
    <3>. QED BY <1>0, <2>1, <2>2, <3>1, RegisteredKept
  <2>21. Lines'
    <3>1. ASSUME NEW k \in Typeable, NEW l \in Typeable, OnTheWay(k, l) PROVE OnTheWay(k, l)'
      <4>1. Way(Both(k, l), kcd.tail, 0, 1 - HeadReg, x.m, Tail(KcdMsgs), rx, user.left)
        BY <2>5, <2>8, <3>1 DEF OnTheWay
      <4>2. KeysAre(Both(k, l), kcd.tail)'
        BY <2>1, <2>12, <2>13, <2>14, <2>15, <2>16, <4>1 DEF KeysAre
      <4>3. \A n : Stored(k, n) <=> Stored(k, n)'
        BY <2>1 DEF Stored
      <4>. QED BY <2>1, <2>2, <2>5, <3>1, <4>2, <4>3 DEF OnTheWay
    <3>2. \A t \in Users : mbx'[t].msgs = mbx[t].msgs
      BY <1>0, <2>12, Sizes DEF Removed, U1, U2
    <3>3. user'.line = user.line /\ user'.junk = user.junk /\ Sending' = Sending
      BY <2>2 DEF Sending
    <3>. QED BY <1>0, <2>2, <3>1, <3>2, <3>3, LinesKept
  <2>. QED BY <2>17, <2>18, <2>19, <2>20, <2>21 DEF Obeyed
<1>. QED BY <1>1, <1>2


(* After a message has been handled. *)
LEMMA KcdBack ==
  ASSUME Good, pc[TID_KCD] \in {"handle", "send"}, pc'[TID_KCD] \in {"recv", "send"}, UsersSame,
         mbx'[TID_KCD] = mbx[TID_KCD], UNCHANGED << rx, refused, user, kcd_buf >>
  PROVE  /\ HeadReg = 0 /\ HeadReg' = 0 /\ Handled' = 0
         /\ \A c, t : ~InTransit(c, t)'
         /\ Phases' /\ KcdBox' /\ KcdMsgs' = KcdMsgs
         /\ \A w, n, b : Way(w, n, 0, 0, b, KcdMsgs, rx, user.left) => KeysAre(w, n)'
<1>0. Phases /\ KcdBox
  BY DEF Good, Obeyed
<1>1. HeadReg = 0
  BY <1>0 DEF KcdBox, HeadReg
<1>2. KcdMsgs' = KcdMsgs
  BY DEF KcdMsgs
<1>3. HeadReg' = 0 /\ Handled' = 0
  BY <1>1, <1>2 DEF HeadReg, Handled
<1>4. ASSUME NEW c, NEW t PROVE ~InTransit(c, t)'
  BY <1>1, <1>2 DEF InTransit, HeadReg, Registration, Message
<1>5. KcdBox'
  BY <1>0, <1>2, <1>3 DEF KcdBox, Starting
<1>6. Phases'
  BY <1>0, PhasesFrame
<1>7. ASSUME NEW w, NEW n, NEW b, Way(w, n, 0, 0, b, KcdMsgs, rx, user.left) PROVE KeysAre(w, n)'
  <2>1. Way(w, n, 0, 0, kcd_buf', KcdMsgs, rx, user.left)
    BY <1>7 DEF Way
  <2>2. Way(w, n, 0, 0, kcd_buf'.m, KcdMsgs, rx, user.left)
    BY <1>7 DEF Way
  <2>. QED BY <1>2, <1>3, <2>2 DEF KeysAre
<1>. QED BY <1>1, <1>2, <1>3, <1>4, <1>5, <1>6, <1>7

LEMMA KcdRegisterObeyed ==
  ASSUME Good, KcdRegister, UNCHANGED user
  PROVE  Obeyed'
<1> DEFINE m == kcd_buf.m
           t0 == kcd_buf.tid
<1>0. /\ Obeyed /\ Phases /\ Registered /\ KcdBox /\ Lines /\ Boxes
      /\ PcOK /\ Sound /\ TID_KCD \in Tid /\ U1 \in Tid \ {TID_KCD} /\ U2 \in Tid \ {TID_KCD}
  BY Fixed DEF Good, Obeyed
<1>1. /\ pc[TID_KCD] = "handle" /\ m.type = "KCD_REG" /\ pc'[TID_KCD] = "recv" /\ UsersSame
      /\ kcd' = Register(kcd, m, t0) /\ UNCHANGED << mbx, rx, refused, kcd_buf >>
  <2>1. /\ Goto(TID_KCD, "recv") /\ UNCHANGED << u1, u2, kcd_buf, turn, prompts, commands, score >>
        /\ At(TID_KCD, "handle") /\ kcd_buf.m.type = "KCD_REG" /\ UNCHANGED msgvars
        /\ kcd' = Register(kcd, m, t0)
    BY DEF KcdRegister, Received, KcdBecomes
  <2>. QED BY <1>0, <2>1, KcdMovesAlone DEF At, msgvars, ipc
<1>2. /\ HeadReg = 0 /\ HeadReg' = 0 /\ Handled' = 0
      /\ \A c, t : ~InTransit(c, t)'
      /\ Phases' /\ KcdBox' /\ KcdMsgs' = KcdMsgs
      /\ \A w, n, b : Way(w, n, 0, 0, b, KcdMsgs, rx, user.left) => KeysAre(w, n)'
  BY <1>1, KcdBack
<1>3. Handled = 0
  BY <1>1 DEF Handled
<1>4. PICK c0 \in {"c", "d"} : m = Registration(c0)
  BY <1>0, <1>1, <1>3 DEF KcdBox, Regs
<1>5. kcd \in KcdState /\ t0 \in 0..TID_UART_IRQ /\ "c" \in Char /\ "d" \in Char
  <2>1. Sender \subseteq 0..TID_UART_IRQ
    BY Fixed DEF Sender, TID_UART_IRQ
  <2>2. 0 \in 0..TID_UART_IRQ
    BY DEF TID_UART_IRQ
  <2>. QED BY <1>0, <2>1, <2>2, LinesAssumption, KcdAssumption DEF Sound, AppOK
<1>6. m.length = HDR + 1 /\ m.data[1] = c0
  BY <1>4, Sizes DEF Registration, Message
<1>7. kcd' = [kcd EXCEPT !.cmd_ids[c0] = t0]
  BY <1>1, <1>6 DEF Register
<1>8. /\ kcd'.cmd_ids[c0] = t0 /\ \A c \in Char \ {c0} : kcd'.cmd_ids[c] = kcd.cmd_ids[c]
      /\ kcd'.tail = kcd.tail /\ kcd'.input_buf = kcd.input_buf
  BY <1>5, <1>7 DEF KcdState
<1>9. InTransit(c0, t0)
  BY <1>1, <1>4 DEF InTransit
<1>10. ASSUME NEW c, NEW t, InTransit(c, t) PROVE c = c0 /\ t = t0
  <2>1. ~(KcdMsgs # << >> /\ KcdMsgs[1].m = Registration(c))
    BY <1>2 DEF HeadReg, Registration, Message
  <2>2. Registration(c) = Registration(c0) /\ t = t0
    BY <1>4, <1>10, <2>1 DEF InTransit
  <2>3. << c >> = << c0 >>
    BY <2>2 DEF Registration, Message
  <2>. QED BY <2>2, <2>3
<1>11. \/ t0 = U1 /\ c0 = "c" /\ pc[U2] = "entry"
       \/ t0 = U2 /\ pc[U2] \notin {"entry", "create", "register_c"}
  BY <1>0, <1>5, <1>9 DEF Registered
<1>12. Registered'
  <2>1. \A c \in Char \ {"c", "d"} : kcd'.cmd_ids[c] = NoCommand
    BY <1>0, <1>8 DEF Registered
  <2>2. kcd'.cmd_ids["c"] \in {NoCommand, U1, U2} /\ kcd'.cmd_ids["d"] \in {NoCommand, U2}
    BY <1>0, <1>5, <1>8, <1>11 DEF Registered
  <2>3. ASSUME NEW c \in {"c", "d"}, NEW t \in Users, Owns(t, c),
               t = U1 => pc[U2] = "entry", t = U2 => pc[U2] # "entry"
        PROVE  Owns(t, c)'
    <3>1. CASE c = c0
      <4>1. t = t0
        BY <1>11, <2>3, Sizes, Fixed DEF Users
      <4>. QED BY <1>8, <3>1, <4>1 DEF Owns
    <3>2. CASE c # c0
      BY <1>5, <1>8, <1>10, <2>3, <3>2 DEF Owns
    <3>. QED BY <3>1, <3>2
  <2>4. Asks(pc[U1]) => pc[U2] = "entry"
    BY <1>0 DEF Phases, Asks
  <2>5. /\ Asks(pc[U1]) => Owns(U1, "c")'
        /\ pc[U2] = "register_d" => Owns(U2, "c")'
        /\ Asks(pc[U2]) => Owns(U2, "c")' /\ Owns(U2, "d")'
    BY <1>0, <2>3, <2>4, Sizes, Fixed DEF Registered, Asks
  <2>. QED BY <1>1, <1>2, <2>1, <2>2, <2>5 DEF Registered, UsersSame, Asks
<1>13. Boxes'
  BY <1>0, <1>1, BoxesFrame
<1>14. Lines'
  <2>1. InBuf = kcd.tail /\ InBuf' = kcd.tail /\ ~Sending /\ ~Sending'
    BY <1>1, <1>8 DEF InBuf, Sending
  <2>2. ASSUME NEW k \in Typeable, NEW l \in Typeable, OnTheWay(k, l) PROVE OnTheWay(k, l)'
    <3>1. Way(Both(k, l), kcd.tail, 0, 0, kcd_buf.m, KcdMsgs, rx, user.left)
      BY <1>2, <1>3, <2>1, <2>2 DEF OnTheWay, KeysAre
    <3>2. KeysAre(Both(k, l), kcd.tail)'
      BY <1>2, <1>8, <3>1
    <3>3. \A n : Stored(k, n) <=> Stored(k, n)'
      BY <1>8 DEF Stored
    <3>. QED BY <1>1, <1>8, <2>1, <2>2, <3>2, <3>3 DEF OnTheWay
  <2>3. user'.line = user.line /\ user'.junk = user.junk /\ Sending' = Sending
    BY <1>1 DEF Sending
  <2>4. \A t \in Users : mbx'[t].msgs = mbx[t].msgs
    BY <1>1
  <2>. QED BY <1>0, <1>1, <2>2, <2>3, <2>4, LinesKept
<1>. QED BY <1>2, <1>12, <1>13, <1>14 DEF Obeyed


LEMMA KcdStoreObeyed ==
  ASSUME Good, KcdStore, UNCHANGED user
  PROVE  Obeyed'
<1>0. /\ Obeyed /\ Phases /\ Registered /\ KcdBox /\ Lines /\ Boxes
      /\ PcOK /\ Sound /\ TID_KCD \in Tid /\ U1 \in Tid \ {TID_KCD} /\ U2 \in Tid \ {TID_KCD}
  BY Fixed DEF Good, Obeyed
<1>1. PICK c0 \in Char \ {CR} : KeyIs(c0) /\ KcdBecomes(Store(kcd, c0), "recv")
  BY DEF KcdStore
<1>2. /\ pc[TID_KCD] = "handle" /\ kcd_buf.m.type = "KEY_IN" /\ kcd_buf.m.data[1] = c0
      /\ pc'[TID_KCD] = "recv" /\ UsersSame
      /\ kcd' = Store(kcd, c0) /\ UNCHANGED << mbx, rx, refused, kcd_buf >>
  <2>1. /\ Goto(TID_KCD, "recv") /\ UNCHANGED << u1, u2, kcd_buf, turn, prompts, commands, score >>
        /\ At(TID_KCD, "handle") /\ UNCHANGED msgvars
    BY <1>1 DEF KeyIs, Received, KcdBecomes, KcdStore
  <2>. QED BY <1>0, <1>1, <2>1, KcdMovesAlone DEF At, msgvars, ipc, KeyIs, Received, KcdBecomes
<1>3. /\ HeadReg = 0 /\ HeadReg' = 0 /\ Handled' = 0
      /\ \A c, t : ~InTransit(c, t)'
      /\ Phases' /\ KcdBox' /\ KcdMsgs' = KcdMsgs
      /\ \A w, n, b : Way(w, n, 0, 0, b, KcdMsgs, rx, user.left) => KeysAre(w, n)'
  BY <1>2, KcdBack
<1>4. Handled = 1 /\ InBuf = kcd.tail /\ InBuf' = kcd'.tail
  BY <1>2 DEF Handled, InBuf
<1>5. /\ KcdMsgs \in Seq(Letter) /\ rx \in Seq(Char) /\ user.left \in Seq(Char)
      /\ kcd \in KcdState /\ kcd.tail \in Nat /\ INPUT_SIZE \in Nat
  BY <1>0, WayTypes
<1>6. /\ kcd'.cmd_ids = kcd.cmd_ids /\ kcd'.tail = kcd.tail + 1
      /\ \A i \in 1..INPUT_SIZE : i # kcd.tail + 1 => kcd'.input_buf[i - 1] = kcd.input_buf[i - 1]
      /\ kcd.tail + 1 <= INPUT_SIZE => kcd'.input_buf[kcd.tail] = c0
  <2>1. /\ kcd'.cmd_ids = kcd.cmd_ids /\ kcd'.tail = kcd.tail + 1
        /\ kcd'.input_buf = IF kcd.tail < INPUT_SIZE THEN [kcd.input_buf EXCEPT ![kcd.tail] = c0]
                            ELSE kcd.input_buf
    BY <1>2, <1>5 DEF Store, KcdState
  <2>2. kcd.input_buf \in [0..(INPUT_SIZE - 1) -> Char]
    BY <1>5 DEF KcdState
  <2>3. ASSUME NEW i \in 1..INPUT_SIZE, i # kcd.tail + 1
        PROVE  kcd'.input_buf[i - 1] = kcd.input_buf[i - 1]
    <3>1. i - 1 \in 0..(INPUT_SIZE - 1) /\ i - 1 # kcd.tail
      BY <1>5, <2>3
    <3>. QED BY <2>1, <2>2, <3>1
  <2>4. ASSUME kcd.tail + 1 <= INPUT_SIZE PROVE kcd'.input_buf[kcd.tail] = c0
    <3>1. kcd.tail \in 0..(INPUT_SIZE - 1) /\ kcd.tail < INPUT_SIZE
      BY <1>5, <2>4
    <3>. QED BY <2>1, <2>2, <3>1
  <2>. QED BY <2>1, <2>3, <2>4
<1>7. Registered'
  <2>1. ASSUME NEW c, NEW t PROVE ~InTransit(c, t)
    <3>1. ~(KcdMsgs # << >> /\ KcdMsgs[1].m = Registration(c))
      BY <1>3 DEF HeadReg, Registration, Message
    <3>2. kcd_buf.m # Registration(c)
      BY <1>2 DEF Registration, Message
    <3>. QED BY <3>1, <3>2 DEF InTransit
  <2>2. \A c, t : Owns(t, c) => Owns(t, c)'
    BY <1>6, <2>1 DEF Owns
  <2>. QED BY <1>0, <1>2, <1>3, <1>6, <2>2 DEF Registered, UsersSame, Asks
<1>8. Boxes'
  BY <1>0, <1>2, BoxesFrame
<1>9. Lines'
  <2>1. ASSUME NEW k \in Typeable, NEW l \in Typeable, OnTheWay(k, l) PROVE OnTheWay(k, l)'
    <3>0. PICK w, n : w = Both(k, l) /\ n = kcd.tail
      OBVIOUS
    <3>1. k \in Seq(Char) /\ l \in Seq(Char) /\ Len(k) \in Nat /\ Len(l) \in Nat
      BY LineShape
    <3>2. Len(w) = Len(k) + Len(l) /\ \A i \in 1..Len(k) : w[i] = k[i]
      BY <3>0, <3>1, BothIs
    <3>3. Way(w, n, 0, 1, kcd_buf.m, KcdMsgs, rx, user.left)
      BY <1>3, <1>4, <2>1, <3>0 DEF OnTheWay, KeysAre
    <3>4. 0 <= Len(KcdMsgs) /\ 0 \in {0, 1}
      BY <1>5
    <3>5. /\ Way(w, n + 1, 0, 0, kcd_buf.m, KcdMsgs, rx, user.left)
          /\ kcd_buf.m = Key(w[n + 1]) /\ n + 1 <= Len(w)
      BY <1>5, <3>0, <3>3, <3>4, WayStored
    <3>6. KeysAre(w, n + 1)'
      BY <1>3, <3>5
    <3>7. w[n + 1] = c0
      BY <1>2, <3>5 DEF Key, Message
    <3>8. k # << >>
      <4>1. CASE k = << >>
        <5>1. l = << >> /\ Len(k) = 0 /\ Len(l) = 0
          BY <2>1, <4>1, EmptySeq DEF OnTheWay
        <5>. QED BY <1>5, <3>0, <3>2, <3>5, <5>1
      <4>. QED BY <4>1
    <3>9. n < Len(k)
      BY <1>4, <2>1, <3>0, <3>8 DEF OnTheWay
    <3>10. n + 1 \in 1..Len(k) /\ k[n + 1] = c0
      <4>1. n + 1 \in 1..Len(k)
        BY <1>5, <3>0, <3>1, <3>9
      <4>2. w[n + 1] = k[n + 1]
        BY <3>2, <4>1
      <4>. QED BY <3>7, <4>1, <4>2
    <3>11. n + 1 # Len(k)
      <4>1. k \in Tests \cup Junk
        BY <3>8 DEF Typeable
      <4>. QED BY <3>10, <4>1, LineShape
    <3>12. Stored(k, n + 1)'
      <4>1. Stored(k, n)
        BY <1>2, <2>1, <3>0 DEF OnTheWay
      <4>2. ASSUME NEW i \in 1..(n + 1), i <= INPUT_SIZE PROVE kcd'.input_buf[i - 1] = k[i]
        <5>1. CASE i = n + 1
          <6>1. n + 1 <= INPUT_SIZE /\ (n + 1) - 1 = n
            BY <1>5, <3>0, <4>2, <5>1
          <6>. QED BY <1>6, <3>0, <3>10, <5>1, <6>1
        <5>2. CASE i # n + 1
          <6>1. i \in 1..n /\ i \in 1..INPUT_SIZE
            BY <1>5, <3>0, <4>2, <5>2
          <6>2. kcd.input_buf[i - 1] = k[i]
            BY <4>1, <4>2, <6>1 DEF Stored
          <6>. QED BY <1>6, <3>0, <5>2, <6>1, <6>2
        <5>. QED BY <5>1, <5>2
      <4>. QED BY <4>2 DEF Stored
    <3>13. n + 1 < Len(k)
      BY <1>5, <3>0, <3>1, <3>9, <3>11
    <3>14. InBuf' = n + 1 /\ kcd'.tail = n + 1
      BY <1>4, <1>6, <3>0
    <3>15. KeysAre(Both(k, l), InBuf)' /\ Stored(k, kcd.tail)'
      BY <3>0, <3>6, <3>12, <3>14
    <3>. QED BY <1>2, <3>8, <3>13, <3>14, <3>15 DEF OnTheWay
  <2>2. user'.line = user.line /\ user'.junk = user.junk /\ Sending' = Sending
    BY <1>2 DEF Sending
  <2>3. \A t \in Users : mbx'[t].msgs = mbx[t].msgs
    BY <1>2
  <2>. QED BY <1>0, <1>2, <2>1, <2>2, <2>3, LinesKept
<1>. QED BY <1>3, <1>7, <1>8, <1>9 DEF Obeyed


(* How far the person is ahead of the tasks. *)
LEMMA Progress ==
  ASSUME Phases, user.line <= prompts, user.line \in Nat, NEW k, NEW l, Accounted(k, l)
  PROVE  /\ Typed(k, l) \/ Sending \/ Mailed => pc[Awaits] = "recv" /\ user.line = prompts
         /\ Typed(k, l) => ~Sending /\ ~Mailed
         /\ Sending => ~Typed(k, l) /\ ~Mailed
         /\ Mailed => ~Typed(k, l) /\ ~Sending
         /\ (pc[U1] # "recv" /\ pc[U2] # "recv") \/ user.line < prompts =>
              /\ ~Typed(k, l) /\ ~Sending /\ ~Mailed
              /\ user.line = u1.i + u2.i
         /\ user.line < prompts => pc[Awaits] = "recv" /\ prompts = user.line + 1
         /\ pc[U1] # "recv" /\ pc[U2] # "recv" => user.line = prompts
         /\ u1.i \in 0..2 /\ u2.i \in 0..4
         /\ Asks(pc[U1]) => u2.i = 0 /\ pc[U2] = "entry"
         /\ Asks(pc[U2]) => u1.i = 2 /\ ~Asks(pc[U1])
<1>1. /\ u1.i \in 0..2 /\ u2.i \in 0..4
      /\ prompts = u1.i + u2.i + Count(pc[U1] = "recv" \/ pc[U2] = "recv")
      /\ user.line = u1.i + u2.i + Count(Typed(k, l)) + Count(Sending) + Count(Mailed)
  BY DEF Phases, Accounted
<1>2. /\ Asks(pc[U1]) => u2.i = 0 /\ pc[U2] = "entry"
      /\ Asks(pc[U2]) => u1.i = 2 /\ ~Asks(pc[U1])
  BY DEF Phases, Asks
<1>3. pc[U1] = "recv" \/ pc[U2] = "recv" => pc[Awaits] = "recv"
  BY <1>2 DEF Awaits, Asks
<1> DEFINE a == Count(Typed(k, l))
           b == Count(Sending)
           c == Count(Mailed)
           d == Count(pc[U1] = "recv" \/ pc[U2] = "recv")
<1>4. /\ a \in {0, 1} /\ (a = 1 <=> Typed(k, l))
      /\ b \in {0, 1} /\ (b = 1 <=> Sending)
      /\ c \in {0, 1} /\ (c = 1 <=> Mailed)
      /\ d \in {0, 1} /\ (d = 1 <=> pc[U1] = "recv" \/ pc[U2] = "recv")
  BY DEF Count
<1>5. u1.i + u2.i \in Nat /\ prompts = u1.i + u2.i + d /\ user.line = u1.i + u2.i + a + b + c
  BY <1>1
<1>. HIDE DEF a, b, c, d
<1>6. /\ a + b + c <= d
      /\ user.line < prompts => a + b + c = 0 /\ d = 1
      /\ d = 0 => a + b + c = 0 /\ user.line = prompts
      /\ a + b + c = 0 => user.line = u1.i + u2.i
      /\ a + b + c = 1 => user.line = prompts
      /\ d = 1 /\ a + b + c = 0 => prompts = user.line + 1
  BY <1>4, <1>5
<1>7. /\ a = 1 \/ b = 1 \/ c = 1 => d = 1 /\ a + b + c = 1
      /\ a = 1 => b = 0 /\ c = 0
      /\ b = 1 => a = 0 /\ c = 0
      /\ c = 1 => a = 0 /\ b = 0
      /\ a + b + c = 0 => a = 0 /\ b = 0 /\ c = 0
  BY <1>4, <1>6
<1>8. Typed(k, l) \/ Sending \/ Mailed => pc[Awaits] = "recv" /\ user.line = prompts
  BY <1>3, <1>4, <1>6, <1>7
<1>9. /\ Typed(k, l) => ~Sending /\ ~Mailed
      /\ Sending => ~Typed(k, l) /\ ~Mailed
      /\ Mailed => ~Typed(k, l) /\ ~Sending
  BY <1>4, <1>7
<1>10. (pc[U1] # "recv" /\ pc[U2] # "recv") \/ user.line < prompts =>
         ~Typed(k, l) /\ ~Sending /\ ~Mailed /\ user.line = u1.i + u2.i
  BY <1>4, <1>6, <1>7
<1>11. user.line < prompts => pc[Awaits] = "recv" /\ prompts = user.line + 1
  BY <1>3, <1>4, <1>6
<1>12. pc[U1] # "recv" /\ pc[U2] # "recv" => user.line = prompts
  BY <1>4, <1>6
<1>. QED BY <1>1, <1>2, <1>8, <1>9, <1>10, <1>11, <1>12

LEMMA GoodParts ==
  ASSUME Good
  PROVE  /\ Obeyed /\ Phases /\ Registered /\ KcdBox /\ Lines /\ Boxes
         /\ user.line <= prompts /\ user.line \in Nat
         /\ PcOK /\ Sound /\ TID_KCD \in Tid /\ U1 \in Tid \ {TID_KCD} /\ U2 \in Tid \ {TID_KCD}
         /\ U1 # U2 /\ U1 \in Tid /\ U2 \in Tid /\ \A t \in Users : t \in Tid /\ t # TID_KCD
BY Fixed, Sizes DEF Good, Obeyed, Lines, Sound, AppOK

(* Enter. *)
LEMMA LineDone ==
  ASSUME Good, KeyIs(CR), NEW k \in Typeable, NEW l \in Typeable, OnTheWay(k, l)
  PROVE  /\ k \in Tests \cup Junk /\ Len(k) = kcd.tail + 1
         /\ Way(Both(l, << >>), 0, 0, 0, kcd_buf.m, KcdMsgs, rx, user.left)
         /\ \A i \in 1..kcd.tail : i <= INPUT_SIZE => kcd.input_buf[i - 1] = k[i]
<1>0. /\ pc[TID_KCD] = "handle" /\ kcd_buf.m.type = "KEY_IN" /\ kcd_buf.m.data[1] = CR
      /\ HeadReg = 0 /\ Handled = 1 /\ InBuf = kcd.tail
  BY GoodParts DEF KeyIs, Received, At, KcdBox, HeadReg, Handled, InBuf
<1>1. /\ KcdMsgs \in Seq(Letter) /\ rx \in Seq(Char) /\ user.left \in Seq(Char)
      /\ kcd.tail \in Nat /\ k \in Seq(Char) /\ l \in Seq(Char) /\ Len(k) \in Nat /\ Len(l) \in Nat
      /\ 0 <= Len(KcdMsgs) /\ 0 \in {0, 1}
  BY GoodParts, WayTypes, LineShape
<1>2. PICK w, n : w = Both(k, l) /\ n = kcd.tail
  OBVIOUS
<1>3. Len(w) = Len(k) + Len(l) /\ \A i \in 1..Len(k) : w[i] = k[i]
  BY <1>1, <1>2, BothIs
<1>4. Way(w, n, 0, 1, kcd_buf.m, KcdMsgs, rx, user.left)
  BY <1>0, <1>2 DEF OnTheWay, KeysAre
<1>5. /\ Way(w, n + 1, 0, 0, kcd_buf.m, KcdMsgs, rx, user.left)
      /\ kcd_buf.m = Key(w[n + 1]) /\ n + 1 <= Len(w)
  BY <1>1, <1>2, <1>4, WayStored
<1>6. w[n + 1] = CR
  BY <1>0, <1>5 DEF Key, Message
<1>7. k # << >>
  <2>1. CASE k = << >>
    <3>1. l = << >> /\ Len(k) = 0 /\ Len(l) = 0
      BY <2>1, EmptySeq DEF OnTheWay
    <3>. QED BY <1>1, <1>2, <1>3, <1>5, <3>1
  <2>. QED BY <2>1
<1>8. n < Len(k) /\ k \in Tests \cup Junk
  BY <1>0, <1>2, <1>7 DEF OnTheWay, Typeable
<1>9. n + 1 \in 1..Len(k)
  BY <1>1, <1>2, <1>8
<1>10. k[n + 1] = CR
  BY <1>3, <1>6, <1>9
<1>11. Len(k) = n + 1
  BY <1>8, <1>9, <1>10, LineShape
<1>12. Way(Both(k, l), Len(k), 0, 0, kcd_buf.m, KcdMsgs, rx, user.left)
  BY <1>2, <1>5, <1>11
<1>13. Way(Both(l, << >>), 0, 0, 0, kcd_buf.m, KcdMsgs, rx, user.left)
  BY <1>1, <1>12, WayRebase
<1>14. \A i \in 1..kcd.tail : i <= INPUT_SIZE => kcd.input_buf[i - 1] = k[i]
  BY <1>0 DEF OnTheWay, Stored
<1>. QED BY <1>2, <1>8, <1>11, <1>13, <1>14

(* The buffer holds a line of the test, as the KCD task reads it. *)
LEMMA TestLineRead ==
  ASSUME Good, KeyIs(CR), NEW k \in Tests, NEW l \in Typeable, OnTheWay(k, l), Accounted(k, l)
  PROVE  /\ ~Invalid(kcd) /\ ~Unknown(kcd) /\ Receiver(kcd) = Awaits /\ Text(kcd) = Want
         /\ kcd.tail = 5 /\ Awaits \in Users /\ pc[Awaits] = "recv"
<1>1. /\ Len(k) = kcd.tail + 1
      /\ \A i \in 1..kcd.tail : i <= INPUT_SIZE => kcd.input_buf[i - 1] = k[i]
  <2>1. k \in Typeable
    BY DEF Typeable
  <2>. QED BY <2>1, LineDone
<1>2. /\ Len(k) = 6 /\ k[1] = PERCENT /\ k[2] \in {"c", "d"} /\ k[3] = "G" /\ k[4] = "T" /\ k[5] = "A"
      /\ (k[2] = "c" <=> k = LineC)
  BY TestLines DEF Tests
<1>3. kcd.tail = 5 /\ INPUT_SIZE \in Nat /\ INPUT_SIZE > 4 /\ kcd.tail \in Nat
  <2>1. INPUT_SIZE \in Nat /\ INPUT_SIZE > 4 /\ kcd.tail \in Nat
    BY GoodParts, WayTypes
  <2>2. 6 = kcd.tail + 1
    BY <1>1, <1>2
  <2>. QED BY <2>1, <2>2
<1>4. /\ kcd.input_buf[0] = PERCENT /\ kcd.input_buf[1] = k[2] /\ kcd.input_buf[2] = "G"
      /\ kcd.input_buf[3] = "T" /\ kcd.input_buf[4] = "A"
  <2>1. \A i \in 1..5 : kcd.input_buf[i - 1] = k[i]
    BY <1>1, <1>3
  <2>2. \A j \in 0..4 : kcd.input_buf[j] = k[j + 1]
    <3>1. ASSUME NEW j \in 0..4 PROVE kcd.input_buf[j] = k[j + 1]
      <4>1. j + 1 \in 1..5 /\ (j + 1) - 1 = j
        OBVIOUS
      <4>. QED BY <2>1, <4>1
    <3>. QED BY <3>1
  <2>. QED BY <1>2, <2>2
<1>5. Limit(kcd) = 5
  BY <1>3 DEF Limit
<1>6. k = Line(Want) /\ pc[Awaits] = "recv"
  BY GoodParts, Progress DEF Accounted, Typed
<1>7. Want \in {TheC, TheD} /\ (Want = TheC => k = LineC) /\ (Want = TheD => k = LineD)
  BY <1>6 DEF Want, LineC, LineD
<1>8. Want = << k[2], "G", "T", "A" >>
  <2>1. LineC[2] = "c" /\ LineD[2] = "d"
    BY TestLines
  <2>. QED BY <1>7, <2>1 DEF TheC, TheD
<1>9. Text(kcd) = Want
  <2>1. Text(kcd) = [i \in 1..4 |-> kcd.input_buf[i]]
    BY <1>5 DEF Text
  <2>2. [i \in 1..4 |-> kcd.input_buf[i]] = << kcd.input_buf[1], kcd.input_buf[2], kcd.input_buf[3], kcd.input_buf[4] >>
    OBVIOUS
  <2>. QED BY <1>4, <1>8, <2>1, <2>2
<1>10. Receiver(kcd) = Awaits /\ Awaits \in Users
  <2>1. \A c, t : ~InTransit(c, t)
    <3>1. HeadReg = 0 /\ pc[TID_KCD] = "handle" /\ kcd_buf.m.type = "KEY_IN"
      BY GoodParts DEF KeyIs, Received, At, KcdBox, HeadReg
    <3>. QED BY <3>1 DEF InTransit, HeadReg, Registration, Message
  <2>2. /\ Asks(pc[U1]) => kcd.cmd_ids["c"] = U1
        /\ Asks(pc[U2]) => kcd.cmd_ids["c"] = U2 /\ kcd.cmd_ids["d"] = U2
    BY <2>1, GoodParts DEF Registered, Owns
  <2>3. CASE Asks(pc[U1])
    <3>1. Want = TheC /\ Awaits = U1
      BY <2>3 DEF Want, Awaits
    <3>2. k[2] = "c"
      BY <1>2, <1>7, <3>1
    <3>. QED BY <1>4, <2>2, <2>3, <3>1, <3>2, Sizes DEF Receiver
  <2>4. CASE ~Asks(pc[U1])
    <3>1. Awaits = U2 /\ Asks(pc[U2])
      BY <1>6, <2>4 DEF Awaits, Asks
    <3>. QED BY <1>2, <1>4, <2>2, <3>1, Sizes DEF Receiver
  <2>. QED BY <2>3, <2>4
<1>11. ~Invalid(kcd)
  BY <1>3, <1>4 DEF Invalid
<1>12. ~Unknown(kcd)
  <2>1. k[2] \in Alphanumeric /\ Awaits # NoCommand
    BY <1>2, <1>10, LinesAssumption, Fixed, Sizes
  <2>. QED BY <1>4, <1>10, <2>1 DEF Unknown
<1>. QED BY <1>3, <1>6, <1>9, <1>10, <1>11, <1>12

(* Junk is refused at once, or the message made of it is too long. *)
LEMMA JunkRead ==
  ASSUME Good, KeyIs(CR), NEW k \in Junk, NEW l \in Typeable, OnTheWay(k, l)
  PROVE  Invalid(kcd) \/ Unknown(kcd) \/ kcd.tail > 5
<1>1. /\ Len(k) = kcd.tail + 1
      /\ \A i \in 1..kcd.tail : i <= INPUT_SIZE => kcd.input_buf[i - 1] = k[i]
  <2>1. k \in Typeable
    BY DEF Typeable
  <2>. QED BY <2>1, LineDone
<1>2. kcd.tail \in Nat /\ INPUT_SIZE \in Nat /\ INPUT_SIZE > 4 /\ kcd \in KcdState
  BY GoodParts, WayTypes
<1>3. kcd.tail >= 1
  <2>1. Len(k) \in 2..48 /\ \A n \in 2..48 : n >= 2
    BY LineShape
  <2>2. Len(k) >= 2
    BY <2>1, Zenon
  <2>. QED BY <1>1, <1>2, <2>2
<1>4. NoCommandOfTest(k) /\ Len(Line(TheC)) = 6
  BY LinesAssumption, TestLines DEF Tests, LineC
<1>5. kcd.input_buf[0] = k[1]
  <2>1. 1 \in 1..kcd.tail /\ 1 <= INPUT_SIZE /\ 1 - 1 = 0
    BY <1>1, <1>2, <1>3
  <2>. QED BY <1>1, <2>1
<1>6. CASE k[1] # PERCENT
  BY <1>5, <1>6 DEF Invalid
<1>7. CASE Len(k) > INPUT_SIZE + 1
  BY <1>1, <1>2, <1>7 DEF Invalid
<1>8. CASE Len(k) > 2 /\ k[2] \notin {"c", "d"}
  <2>1. 2 \in 1..kcd.tail /\ 2 <= INPUT_SIZE /\ 2 - 1 = 1
    BY <1>1, <1>2, <1>8
  <2>2. kcd.input_buf[1] = k[2]
    BY <1>1, <2>1
  <2>3. 1 \in 0..(INPUT_SIZE - 1)
    BY <1>2
  <2>4. kcd.input_buf[1] \in Char
    BY <1>2, <2>3 DEF KcdState
  <2>5. Receiver(kcd) = NoCommand
    BY <1>8, <2>2, <2>4, GoodParts DEF Registered, Receiver
  <2>. QED BY <2>5 DEF Unknown
<1>9. CASE Len(k) > 6
  BY <1>1, <1>2, <1>9
<1>. QED BY <1>4, <1>6, <1>7, <1>8, <1>9 DEF NoCommandOfTest


LEMMA ReceiverIs ==
  ASSUME Good
  PROVE  Receiver(kcd) \in {NoCommand, U1, U2} /\ Receiver(kcd) < MAX_TASKS
<1>1. kcd.input_buf[1] \in Char
  <2>1. kcd \in KcdState /\ 1 \in 0..(INPUT_SIZE - 1)
    <3>1. kcd \in KcdState /\ INPUT_SIZE \in Nat /\ INPUT_SIZE > 4
      BY GoodParts, WayTypes
    <3>. QED BY <3>1
  <2>. QED BY <2>1 DEF KcdState
<1>2. \A c \in Char : kcd.cmd_ids[c] \in {NoCommand, U1, U2}
  BY GoodParts DEF Registered
<1>. QED BY <1>1, <1>2, Fixed DEF Receiver

(* The first line is done with: at most the other is left. *)
LEMMA NextLineWay ==
  ASSUME NEW l \in Typeable, InBuf' = 0, pc'[TID_KCD] # "send" => kcd'.tail = 0,
         KeysAre(Both(l, << >>), 0)'
  PROVE  OnTheWay(l, << >>)'
<1>1. l # << >> => 0 < Len(l)
  <2>1. l # << >> => Len(l) \in 2..48 /\ \A n \in 2..48 : 0 < n
    BY LineShape DEF Typeable
  <2>. QED BY <2>1, Zenon
<1>2. Stored(l, 0)'
  BY DEF Stored
<1>3. KeysAre(Both(l, << >>), InBuf)'
  <2>1. (KeysAre(Both(l, << >>), 0)') => (KeysAre(Both(l, << >>), InBuf)')
    OBVIOUS
  <2>. QED BY <2>1
<1>4. pc'[TID_KCD] # "send" => Stored(l, kcd.tail)'
  BY <1>2 DEF Stored
<1>. QED BY <1>1, <1>3, <1>4 DEF OnTheWay

LEMMA KcdLineObeyed ==
  ASSUME Good, KcdLine, UNCHANGED user
  PROVE  Obeyed'
<1>0. /\ Obeyed /\ Phases /\ Registered /\ KcdBox /\ Lines /\ Boxes
      /\ PcOK /\ Sound /\ TID_KCD \in Tid /\ U1 \in Tid \ {TID_KCD} /\ U2 \in Tid \ {TID_KCD}
  BY GoodParts
<1>1. ~OutOfRange
  BY ReceiverIs, Fixed DEF OutOfRange
<1>2. /\ pc[TID_KCD] = "handle" /\ kcd_buf.m.type = "KEY_IN" /\ KeyIs(CR) /\ UsersSame
      /\ UNCHANGED << mbx, rx, refused, kcd_buf >>
      /\ \/ NoReceiver /\ kcd' = NextLine(kcd) /\ pc'[TID_KCD] = "recv"
         \/ ~NoReceiver /\ kcd' = kcd /\ pc'[TID_KCD] = "send"
  <2>1. /\ KeyIs(CR) /\ At(TID_KCD, "handle") /\ kcd_buf.m.type = "KEY_IN" /\ UNCHANGED msgvars
        /\ \/ NoReceiver /\ KcdBecomes(NextLine(kcd), "recv")
           \/ ~NoReceiver /\ KcdBecomes(kcd, "send")
    BY <1>1 DEF KcdLine, KeyIs, Received
  <2>2. CASE NoReceiver /\ KcdBecomes(NextLine(kcd), "recv")
    BY <1>0, <2>1, <2>2, KcdMovesAlone DEF KcdBecomes, At, msgvars, ipc
  <2>3. CASE ~NoReceiver /\ KcdBecomes(kcd, "send")
    BY <1>0, <2>1, <2>3, KcdMovesAlone DEF KcdBecomes, At, msgvars, ipc
  <2>. QED BY <2>1, <2>2, <2>3
<1>3. /\ HeadReg = 0 /\ HeadReg' = 0 /\ Handled' = 0
      /\ \A c, t : ~InTransit(c, t)'
      /\ Phases' /\ KcdBox' /\ KcdMsgs' = KcdMsgs
      /\ \A w, n, b : Way(w, n, 0, 0, b, KcdMsgs, rx, user.left) => KeysAre(w, n)'
  BY <1>2, KcdBack
<1>4. /\ kcd'.cmd_ids = kcd.cmd_ids
      /\ pc'[TID_KCD] = "recv" => kcd'.tail = 0
  <2>1. kcd \in KcdState
    BY <1>0, WayTypes
  <2>. QED BY <1>2, <2>1 DEF NextLine, KcdState
<1>5. Registered'
  <2>1. ASSUME NEW c, NEW t PROVE ~InTransit(c, t)
    <3>1. ~(KcdMsgs # << >> /\ KcdMsgs[1].m = Registration(c))
      BY <1>3 DEF HeadReg, Registration, Message
    <3>2. kcd_buf.m # Registration(c)
      BY <1>2 DEF Registration, Message
    <3>. QED BY <3>1, <3>2 DEF InTransit
  <2>2. \A c, t : Owns(t, c) => Owns(t, c)'
    BY <1>4, <2>1 DEF Owns
  <2>. QED BY <1>0, <1>2, <1>3, <1>4, <2>2 DEF Registered, UsersSame, Asks
<1>6. Boxes'
  BY <1>0, <1>2, BoxesFrame
<1>7. Lines'
  <2>1. PICK k \in Typeable, l \in Typeable : OnTheWay(k, l) /\ Accounted(k, l)
    BY <1>0 DEF Lines, Typeable
  <2>2. /\ k \in Tests \cup Junk
        /\ Way(Both(l, << >>), 0, 0, 0, kcd_buf.m, KcdMsgs, rx, user.left)
    BY <1>2, <2>1, LineDone
  <2>3. InBuf' = 0
    BY <1>2, <1>4 DEF InBuf
  <2>4. OnTheWay(l, << >>)'
    <3>1. KeysAre(Both(l, << >>), 0)'
      BY <1>3, <2>2
    <3>. QED BY <1>2, <1>4, <2>3, <3>1, NextLineWay
  <2>5. Awaits' = Awaits /\ Want' = Want /\ user.line <= prompts /\ user.line \in Nat
    BY <1>2, PhasesFrame, GoodParts
  <2>6. Mailed' = Mailed /\ ~Sending
    BY <1>2, <2>5 DEF Mailed, Sending
  <2>7. << >> \notin Tests /\ << >> \notin Junk /\ Tests \cap Junk = {} /\ << >> \in Typeable
    BY LineShape DEF Typeable
  <2>8. CASE k \in Tests
    <3>1. /\ ~Invalid(kcd) /\ ~Unknown(kcd) /\ Receiver(kcd) = Awaits /\ Text(kcd) = Want
          /\ kcd.tail = 5 /\ Awaits \in Users /\ pc[Awaits] = "recv"
      BY <1>2, <2>1, <2>8, TestLineRead
    <3>2. ~NoReceiver
      <4>1. booted = 4 /\ Users \subseteq Tasks
        BY <1>2, Fixed DEF KeyIs, Received, At, TaskRuns, Up, Users, Tasks
      <4>2. g_tcbs[Awaits].state # "DORMANT"
        BY <1>0, <3>1, <4>1, AliveIs
      <4>. QED BY <3>1, <4>2 DEF NoReceiver
    <3>3. kcd' = kcd /\ pc'[TID_KCD] = "send" /\ Sending'
      BY <1>2, <3>1, <3>2, Sizes DEF Sending
    <3>4. kcd.tail > Len(TheC) /\ kcd.tail <= INPUT_SIZE
      BY <3>1, Sizes
    <3>5. Accounted(l, << >>)'
      <4>1. ~Typed(l, << >>) /\ Typed(k, l) /\ l \notin Tests
        BY <2>1, <2>7, <2>8 DEF Accounted, Typed
      <4>2. user.line = u1.i + u2.i + 1 + 0 + Count(Mailed)
        BY <2>1, <2>6, <4>1 DEF Accounted, Count
      <4>3. user.line = u1.i + u2.i + 0 + 1 + Count(Mailed)
        BY <4>2, <1>0 DEF Phases
      <4>4. user'.line = u1'.i + u2'.i + Count(Typed(l, << >>)) + Count(Sending') + Count(Mailed')
        BY <1>2, <2>6, <3>3, <4>1, <4>3 DEF Count, UsersSame
      <4>. QED BY <2>1, <2>7, <4>1, <4>4 DEF Accounted, Typed
    <3>. QED BY <1>2, <2>1, <2>4, <2>5, <2>7, <3>1, <3>3, <3>4, <3>5 DEF Lines, Typeable, UsersSame
  <2>9. CASE k \in Junk
    <3>1. Invalid(kcd) \/ Unknown(kcd) \/ kcd.tail > 5
      BY <1>2, <2>1, <2>9, JunkRead
    <3>2. kcd.tail \in Nat /\ INPUT_SIZE \in Nat
      BY <1>0, WayTypes
    <3>3. ASSUME pc'[TID_KCD] = "send"
          PROVE  /\ kcd' = kcd /\ kcd.tail > 5 /\ kcd.tail <= INPUT_SIZE
                 /\ Receiver(kcd) \in Users
      <4>1. kcd' = kcd /\ ~Invalid(kcd) /\ ~Unknown(kcd)
        BY <1>2, <3>3 DEF NoReceiver
      <4>2. kcd.tail > 5 /\ kcd.tail <= INPUT_SIZE
        BY <3>1, <3>2, <4>1 DEF Invalid
      <4>3. Receiver(kcd) \in Users
        BY <4>1, ReceiverIs DEF Unknown, Users
      <4>. QED BY <4>1, <4>2, <4>3
    <3>4. ~Sending'
      BY <3>2, <3>3, Sizes DEF Sending
    <3>5. Accounted(l, << >>)'
      <4>1. Typed(k, l) <=> Typed(l, << >>)
        BY <2>7, <2>9 DEF Typed
      <4>2. user'.line = u1'.i + u2'.i + Count(Typed(l, << >>)) + Count(Sending') + Count(Mailed')
        BY <1>2, <2>1, <2>6, <3>4, <4>1 DEF Accounted, Count, UsersSame
      <4>. QED BY <2>1, <2>5, <2>7, <4>2 DEF Accounted, Typed
    <3>6. pc'[TID_KCD] = "send" =>
            /\ Receiver(kcd') \in Users
            /\ kcd'.tail > Len(TheC) /\ kcd'.tail <= INPUT_SIZE
      BY <3>2, <3>3, Sizes
    <3>7. user'.junk
      BY <2>1, <2>9 DEF Accounted
    <3>. QED BY <1>2, <2>1, <2>4, <2>5, <2>7, <3>4, <3>5, <3>6, <3>7 DEF Lines, Typeable, UsersSame
  <2>. QED BY <2>2, <2>8, <2>9
<1>. QED BY <1>3, <1>5, <1>6, <1>7 DEF Obeyed


LEMMA UsersAlive ==
  ASSUME Good, booted = 4, NEW t \in Users, pc[t] # "gone"
  PROVE  g_tcbs[t].state # "DORMANT"
<1>1. Users \subseteq Tasks
  BY DEF Users, Tasks
<1>. QED BY <1>1, GoodParts, AliveIs

(* A message of the KCD task fits the mailbox of a task that waits. *)
LEMMA CommandFits ==
  ASSUME Good, At(TID_KCD, "send"), Sending
  PROVE  /\ Awaits \in Users /\ Receiver(kcd) = Awaits /\ Text(kcd) = Want
         /\ pc[Awaits] = "recv" /\ mbx[Awaits].msgs = << >> /\ Command(kcd).length = USER_MSG
         /\ mbx[Awaits].max = USER_MBX /\ mbx[Awaits].curr = MailBoxSize
         /\ Accepts(Awaits, Command(kcd).length)
<1>1. PICK k \in Typeable, l \in Typeable : Accounted(k, l)
  BY GoodParts DEF Lines, Typeable
<1>2. pc[Awaits] = "recv" /\ mbx[Awaits].msgs = << >>
  BY <1>1, GoodParts, Progress DEF Mailed
<1>3. Receiver(kcd) = Awaits /\ Text(kcd) = Want /\ Awaits \in Users
  BY GoodParts, Sizes DEF Lines, Sending, Awaits
<1>4. Box(Awaits)
  BY GoodParts DEF Boxes, Awaits
<1>5. Len(mbx[Awaits].msgs) = 0
  BY <1>2
<1>6. mbx[Awaits].max = USER_MBX /\ mbx[Awaits].curr = MailBoxSize
  BY <1>2, <1>4, <1>5, Sizes DEF Box
<1>7. Command(kcd).length = USER_MSG
  <2>1. kcd.tail = 5 /\ INPUT_SIZE \in Nat /\ INPUT_SIZE > 4
    BY Sizes DEF Sending
  <2>2. Limit(kcd) = 5
    BY <2>1 DEF Limit
  <2>. QED BY <2>2, Sizes DEF Command
<1>8. Accepts(Awaits, 12)
  <2>1. g_tcbs[Awaits].state # "DORMANT" /\ Awaits \in Tid
    BY <1>2, <1>3, UsersAlive, GoodParts, Fixed DEF At, TaskRuns, Up
  <2>. QED BY <1>6, <2>1, RoomAccepts, GoodParts, Sizes
<1>. QED BY <1>2, <1>3, <1>6, <1>7, <1>8, Sizes

(* A longer one does not fit any. *)
LEMMA LongRefused ==
  ASSUME Good, At(TID_KCD, "send"), ~Sending
  PROVE  ~Accepts(Receiver(kcd), Command(kcd).length)
<1>1. kcd.tail > 4 /\ kcd.tail <= INPUT_SIZE /\ Receiver(kcd) \in Users /\ kcd.tail # 5
  BY GoodParts, Sizes DEF At, Lines, Sending
<1>2. kcd.tail \in Nat /\ INPUT_SIZE \in Nat
  BY GoodParts, WayTypes
<1>3. Limit(kcd) = kcd.tail
  BY <1>1, <1>2 DEF Limit
<1> DEFINE n == Command(kcd).length
           t == Receiver(kcd)
<1>4. n = 8 + kcd.tail - 1
  BY <1>3, Sizes DEF Command
<1>. HIDE DEF n, t
<1>5. n \in Nat /\ n >= 13 /\ n <= 8 + INPUT_SIZE
  BY <1>1, <1>2, <1>4
<1>6. t \in Users /\ Box(t)
  BY <1>1, GoodParts, Sizes DEF Boxes, Users, t
<1>7. CASE mbx[t] = NoMailbox
  BY <1>7 DEF Accepts, HasMbx, NoMailbox, n, t
<1>8. CASE mbx[t] # NoMailbox
  <2>1. /\ mbx[t].max = USER_MBX /\ mbx[t].curr = MailBoxSize + USER_MSG * Len(mbx[t].msgs)
        /\ mbx[t].msgs # << >> => Len(mbx[t].msgs) = 1
    BY <1>6, <1>8 DEF Box
  <2>2. mbx[t].curr = 16 \/ mbx[t].curr = 28
    <3>1. CASE mbx[t].msgs = << >>
      <4>1. Len(mbx[t].msgs) = 0
        BY <3>1
      <4>. QED BY <2>1, <4>1, Sizes
    <3>2. CASE mbx[t].msgs # << >>
      <4>1. Len(mbx[t].msgs) = 1
        BY <2>1, <3>2
      <4>2. mbx[t].curr = MailBoxSize + USER_MSG * 1
        BY <2>1, <4>1
      <4>. QED BY <4>2, Sizes
    <3>. QED BY <3>1, <3>2
  <2>3. mbx[t].curr + n \in Nat /\ mbx[t].curr + n < SIZEMOD /\ mbx[t].curr + n > 28
    BY <1>2, <1>5, <2>2, Sizes
  <2>4. (mbx[t].curr + n) % SIZEMOD = mbx[t].curr + n
    BY <2>3, NoWrap
  <2>5. ~((mbx[t].curr + n) % SIZEMOD <= mbx[t].max)
    BY <2>1, <2>3, <2>4, Sizes
  <2>. QED BY <2>5 DEF Accepts, n, t
<1>. QED BY <1>7, <1>8

(* After a command has been sent, or refused, nothing else has moved. *)
LEMMA KcdSentWay ==
  ASSUME Good, pc[TID_KCD] = "send", pc'[TID_KCD] = "recv", UsersSame, kcd' = NextLine(kcd),
         UNCHANGED << kcd_buf, rx, refused, user >>, mbx'[TID_KCD] = mbx[TID_KCD]
  PROVE  /\ Phases' /\ KcdBox' /\ Registered' /\ ~Sending'
         /\ \A k, l \in Typeable : OnTheWay(k, l) => OnTheWay(k, l)'
<1>1. /\ HeadReg = 0 /\ HeadReg' = 0 /\ Handled' = 0
      /\ \A c, t : ~InTransit(c, t)'
      /\ Phases' /\ KcdBox' /\ KcdMsgs' = KcdMsgs
      /\ \A w, n, b : Way(w, n, 0, 0, b, KcdMsgs, rx, user.left) => KeysAre(w, n)'
  BY KcdBack
<1>2. /\ kcd'.cmd_ids = kcd.cmd_ids /\ kcd'.tail = 0
  <2>1. kcd \in KcdState
    BY GoodParts, WayTypes
  <2>. QED BY <2>1 DEF NextLine, KcdState
<1>3. Registered'
  <2>1. ASSUME NEW c, NEW t PROVE ~InTransit(c, t)
    <3>1. ~(KcdMsgs # << >> /\ KcdMsgs[1].m = Registration(c))
      BY <1>1 DEF HeadReg, Registration, Message
    <3>. QED BY <3>1 DEF InTransit
  <2>2. \A c, t : Owns(t, c) => Owns(t, c)'
    BY <1>2, <2>1 DEF Owns
  <2>3. Registered
    BY GoodParts
  <2>. QED BY <1>1, <1>2, <2>2, <2>3 DEF Registered, UsersSame, Asks
<1>4. InBuf = 0 /\ InBuf' = 0 /\ Handled = 0 /\ ~Sending'
  BY <1>2 DEF InBuf, Handled, Sending
<1>5. ASSUME NEW k \in Typeable, NEW l \in Typeable, OnTheWay(k, l) PROVE OnTheWay(k, l)'
  <2>1. PICK w : w = Both(k, l)
    OBVIOUS
  <2>2. Way(w, 0, 0, 0, kcd_buf.m, KcdMsgs, rx, user.left)
    BY <1>1, <1>4, <1>5, <2>1 DEF OnTheWay, KeysAre
  <2>3. KeysAre(w, 0)'
    BY <1>1, <2>2
  <2>4. KeysAre(Both(k, l), InBuf)'
    BY <1>4, <2>1, <2>3
  <2>5. Stored(k, kcd.tail)'
    BY <1>2 DEF Stored
  <2>. QED BY <1>4, <1>5, <2>4, <2>5 DEF OnTheWay
<1>. QED BY <1>1, <1>3, <1>4, <1>5

LEMMA KcdSendObeyed ==
  ASSUME Good, KcdSend, UNCHANGED user
  PROVE  Obeyed'
<1>0. /\ Obeyed /\ Phases /\ Registered /\ KcdBox /\ Lines /\ Boxes
      /\ PcOK /\ Sound /\ TID_KCD \in Tid /\ U1 \in Tid \ {TID_KCD} /\ U2 \in Tid \ {TID_KCD}
  BY GoodParts
<1>1. /\ At(TID_KCD, "send") /\ pc[TID_KCD] = "send" /\ pc'[TID_KCD] = "recv" /\ UsersSame
      /\ kcd' = NextLine(kcd) /\ UNCHANGED kcd_buf
      /\ \/ send_msg(Receiver(kcd), Command(kcd))
         \/ ~Accepts(Receiver(kcd), Command(kcd).length) /\ UNCHANGED msgvars
  BY <1>0, KcdMovesAlone DEF KcdSend, Send, At
<1>2. /\ kcd'.cmd_ids = kcd.cmd_ids /\ kcd'.tail = 0
  <2>1. kcd \in KcdState
    BY <1>0, WayTypes
  <2>. QED BY <1>1, <2>1 DEF NextLine, KcdState
<1> DEFINE x == [m |-> Command(kcd), from |-> Current, sender |-> TID_KCD]
<1>3. CASE Sending
  <2>1. /\ Awaits \in Users /\ Receiver(kcd) = Awaits /\ Text(kcd) = Want
        /\ pc[Awaits] = "recv" /\ mbx[Awaits].msgs = << >> /\ Command(kcd).length = USER_MSG
        /\ mbx[Awaits].max = USER_MBX /\ mbx[Awaits].curr = MailBoxSize
        /\ Accepts(Awaits, Command(kcd).length)
    BY <1>1, <1>3, CommandFits
  <2>2. send_msg(Awaits, Command(kcd)) /\ Current = TID_KCD
    BY <1>1, <2>1 DEF At
  <2>3. /\ Deliver(Awaits, Command(kcd), interrupt_flag, Current)
        /\ UNCHANGED << rx, refused >>
    BY <2>2 DEF send_msg
  <2>4. interrupt_flag = FALSE
    <3>1. ~interrupt_flag /\ interrupt_flag \in BOOLEAN
      BY <1>0, MailboxesAre DEF KcdBox, Sound, MsgInv, MsgTypeOK
    <3>. QED BY <3>1
  <2>5. Posted(Awaits, x)
    <3>1. Command(kcd) \in RtxMsg /\ Current \in Sender /\ Awaits \in Tid
      BY <1>0, <2>1, MessagesFit, WayTypes, MailboxesAre, GoodParts DEF Sender
    <3>2. mbx[Awaits].curr + Command(kcd).length < SIZEMOD
      BY <2>1, Sizes
    <3>. QED BY <1>0, <2>2, <2>3, <2>4, <3>1, <3>2, DeliverPosts
  <2>6. Awaits # TID_KCD /\ mbx'[TID_KCD] = mbx[TID_KCD]
    BY <1>0, <2>1, <2>5, GoodParts DEF Posted
  <2>7. /\ HeadReg = 0 /\ HeadReg' = 0 /\ Handled' = 0
        /\ \A c, t : ~InTransit(c, t)'
        /\ Phases' /\ KcdBox' /\ KcdMsgs' = KcdMsgs
        /\ \A w, n, b : Way(w, n, 0, 0, b, KcdMsgs, rx, user.left) => KeysAre(w, n)'
    BY <1>1, <2>3, <2>6, KcdBack
  <2>8. Boxes'
    <3>1. /\ mbx'[Awaits].msgs = << x >> /\ mbx'[Awaits].max = USER_MBX
          /\ mbx'[Awaits].curr = MailBoxSize + USER_MSG * 1
      BY <2>1, <2>5, Sizes DEF Posted
    <3>2. Len(mbx'[Awaits].msgs) = 1 /\ mbx'[Awaits].msgs[1] = x
      BY <3>1
    <3>3. x.sender = TID_KCD /\ x.m.length = USER_MSG /\ x.m.data = Want
      BY <2>1 DEF Command
    <3>. HIDE DEF x
    <3>4. ASSUME NEW t \in Users, t = Awaits PROVE Box(t)'
      <4>1. pc'[t] = "recv" /\ Want' = Want
        BY <1>1, <2>1, <3>4, PhasesFrame, Sizes DEF UsersSame, Users
      <4>2. pc'[t] \notin {"entry", "create", "gone"} /\ ~(t = U1 /\ pc'[U1] = "result")
        BY <4>1
      <4>. QED BY <3>1, <3>2, <3>3, <3>4, <4>1, <4>2 DEF Box
    <3>5. ASSUME NEW t \in Users, t # Awaits PROVE Box(t)'
      <4>1. mbx'[t] = mbx[t] /\ pc'[t] = pc[t] /\ pc'[U1] = pc[U1] /\ pc'[U2] = pc[U2] /\ Want' = Want
        BY <1>1, <2>5, <3>5, PhasesFrame, GoodParts, Sizes DEF UsersSame, Users, Posted
      <4>2. Box(t)
        BY GoodParts DEF Boxes, Users
      <4>. QED BY <4>1, <4>2 DEF Box
    <3>6. mbx'[U1].msgs # << >> \/ mbx'[U1] = mbx[U1]
      BY <1>0, <2>5, <3>2 DEF Posted
    <3>. QED BY <1>0, <1>1, <3>4, <3>5, <3>6, Sizes DEF Boxes, UsersSame
  <2>9. Mailed' /\ ~Sending' /\ Awaits' = Awaits /\ Want' = Want /\ ~Mailed
    <3>1. mbx'[Awaits].msgs # << >>
      BY <2>1, <2>5 DEF Posted
    <3>. QED BY <1>1, <2>1, <3>1, PhasesFrame DEF Mailed, Sending
  <2>11. /\ Registered' /\ Phases' /\ KcdBox'
         /\ \A k, l \in Typeable : OnTheWay(k, l) => OnTheWay(k, l)'
    BY <1>1, <2>3, <2>6, KcdSentWay
  <2>12. Lines'
    <3>1. PICK k \in Typeable, l \in Typeable : OnTheWay(k, l) /\ Accounted(k, l)
      BY <1>0 DEF Lines, Typeable
    <3>2. user.line = u1.i + u2.i + Count(Typed(k, l)) + 1 + 0
      BY <1>3, <2>9, <3>1 DEF Accounted, Count
    <3>3. u1.i \in Nat /\ u2.i \in Nat /\ Count(Typed(k, l)) \in {0, 1}
      BY <1>0 DEF Phases, Count
    <3>4. user.line = u1.i + u2.i + Count(Typed(k, l)) + 0 + 1
      BY <3>2, <3>3
    <3>5. user'.line = u1'.i + u2'.i + Count(Typed(k, l)) + Count(Sending') + Count(Mailed')
      BY <1>1, <2>9, <3>4 DEF UsersSame, Count
    <3>6. Accounted(k, l)'
      BY <2>9, <3>1, <3>5 DEF Accounted, Typed
    <3>7. user'.line <= prompts'
      BY <1>1, GoodParts DEF UsersSame
    <3>. QED BY <1>1, <2>11, <3>1, <3>6, <3>7 DEF Lines, Typeable
  <2>. QED BY <2>8, <2>11, <2>12 DEF Obeyed
<1>4. CASE ~Sending
  <2>1. UNCHANGED << mbx, rx, refused >>
    BY <1>1, <1>4, LongRefused DEF send_msg, msgvars, ipc
  <2>2. /\ Registered' /\ Phases' /\ KcdBox' /\ ~Sending'
        /\ \A k, l \in Typeable : OnTheWay(k, l) => OnTheWay(k, l)'
    BY <1>1, <2>1, KcdSentWay
  <2>3. Boxes'
    BY <1>0, <1>1, <2>1, BoxesFrame
  <2>4. Lines'
    <3>1. user'.line = user.line /\ user'.junk = user.junk /\ Sending' = Sending
      BY <1>1, <1>4 DEF Sending
    <3>2. \A t \in Users : mbx'[t].msgs = mbx[t].msgs
      BY <2>1
    <3>. QED BY <1>0, <1>1, <2>2, <3>1, <3>2, LinesKept
  <2>. QED BY <2>2, <2>3, <2>4 DEF Obeyed
<1>. QED BY <1>3, <1>4

LEMMA KcdStepObeyed ==
  ASSUME Good, KcdStep, UNCHANGED user
  PROVE  Obeyed'
BY KcdCreateObeyed, KcdAllocObeyed, KcdRecvObeyed, KcdRegisterObeyed, KcdStoreObeyed, KcdLineObeyed, KcdSendObeyed
   DEF KcdStep

-----------------------------------------------------------------------------
(* The handler. *)

LEMMA BothShort ==
  ASSUME NEW k \in Typeable, NEW l \in Typeable, Accounted(k, l)
  PROVE  Len(Both(k, l)) \in 0..54
<1>1. k \in Seq(Char) /\ l \in Seq(Char) /\ Len(k) \in Nat /\ Len(l) \in Nat
  BY LineShape
<1>2. Len(Both(k, l)) = Len(k) + Len(l)
  BY <1>1, BothIs
<1>3. /\ \A w \in Tests : Len(w) = 6
      /\ \A w \in Junk : Len(w) \in 2..48
      /\ Len(<< >>) = 0
  BY LineShape, EmptySeq
<1>4. /\ k \in Tests => l \notin Tests
      /\ k \in Junk => l \notin Junk
  BY DEF Accounted
<1>5. \A n \in 2..48 : n <= 48
  OBVIOUS
<1>6. \A w \in Junk : Len(w) <= 48
  BY <1>3, <1>5, Zenon
<1>7. ASSUME NEW w \in Typeable
      PROVE  \/ w \in Tests /\ Len(w) = 6
             \/ w \in Junk /\ Len(w) <= 48
             \/ Len(w) = 0
  BY <1>3, <1>6 DEF Typeable
<1>8. PICK a \in Nat, b \in Nat : a = Len(k) /\ b = Len(l)
  BY <1>1
<1>9. /\ (k \in Tests /\ a = 6) \/ (k \in Junk /\ a <= 48) \/ a = 0
      /\ (l \in Tests /\ b = 6) \/ (l \in Junk /\ b <= 48) \/ b = 0
  BY <1>7, <1>8, Zenon
<1>10. a + b \in 0..54
  BY <1>4, <1>9
<1>. QED BY <1>2, <1>8, <1>10, Zenon

LEMMA KcdHasRoom ==
  ASSUME Good, rx # << >>, Stands("irq")
  PROVE  /\ mbx[TID_KCD].curr + 9 <= 512 /\ mbx[TID_KCD].max = 512
         /\ Accepts(TID_KCD, 9) /\ booted = 4 /\ ~Starting
<1>1. PICK k \in Typeable, l \in Typeable : OnTheWay(k, l) /\ Accounted(k, l)
  BY GoodParts DEF Lines, Typeable
<1>2. /\ KcdMsgs \in Seq(Letter) /\ rx \in Seq(Char) /\ user.left \in Seq(Char) /\ InBuf \in Nat
  BY GoodParts, WayTypes
<1>3. PICK w, n : w = Both(k, l) /\ n = InBuf
  OBVIOUS
<1>4. n + Handled + Len(KcdMsgs) - HeadReg + Len(rx) + Len(user.left) = Len(w)
  BY <1>1, <1>3 DEF OnTheWay, KeysAre, Way
<1>5. Len(w) \in 0..54
  BY <1>1, <1>3, BothShort
<1>6. Len(KcdMsgs) <= 54 /\ Len(KcdMsgs) \in Nat
  <2>1. Len(rx) >= 1 /\ Len(user.left) \in Nat /\ Len(KcdMsgs) \in Nat /\ Len(rx) \in Nat
    BY <1>2
  <2>2. Handled \in {0, 1} /\ HeadReg \in {0, 1} /\ n \in Nat
    BY <1>2, <1>3, WaySizes
  <2>3. \A a, i, r, o \in Nat, h, g \in {0, 1}, z \in 0..54 :
          a + h + i - g + r + o = z /\ r >= 1 => i <= 54
    OBVIOUS
  <2>. QED BY <1>4, <1>5, <2>1, <2>2, <2>3, Zenon
<1>7. ~Starting
  BY GoodParts DEF KcdBox
<1>8. mbx[TID_KCD].max = 512 /\ mbx[TID_KCD].curr = 16 + 9 * Len(KcdMsgs)
  BY <1>7, GoodParts, Sizes DEF KcdBox, Starting
<1>9. mbx[TID_KCD].curr + 9 <= 512
  BY <1>6, <1>8
<1>10. booted = 4
  <2>1. Current \in Tid /\ kctx[Current] # "user"
    BY GoodParts, MailboxesAre DEF Stands
  <2>2. booted \in 0..4
    BY GoodParts, InvParts, Fixed DEF Sound, SchedInv, TypeOK
  <2>. QED BY <2>1, <2>2, GoodParts DEF Sound, BootInv
<1>11. g_tcbs[TID_KCD].state # "DORMANT"
  <2>1. pc[TID_KCD] # "gone" /\ TID_KCD \in Tasks
    BY GoodParts DEF Sound, CtxInv, Tasks
  <2>. QED BY <1>10, <2>1, GoodParts, AliveIs
<1>12. Accepts(TID_KCD, 9)
  <2>1. 512 < SIZEMOD /\ 512 # 0
    BY Sizes
  <2>. QED BY <1>8, <1>9, <1>11, <2>1, GoodParts, RoomAccepts
<1>. QED BY <1>7, <1>8, <1>9, <1>10, <1>12

LEMMA IrqCharObeyed ==
  ASSUME Good, IrqChar, UNCHANGED << app, user >>
  PROVE  Obeyed'
<1> DEFINE m == Message(HdrSize + 1, "KEY_IN", << Head(rx) >>)
           x == [m |-> m, from |-> TID_UART_IRQ, sender |-> TID_UART_IRQ]
<1>0. /\ Obeyed /\ Phases /\ Registered /\ KcdBox /\ Lines /\ Boxes
      /\ PcOK /\ Sound /\ TID_KCD \in Tid /\ U1 \in Tid \ {TID_KCD} /\ U2 \in Tid \ {TID_KCD}
  BY GoodParts
<1>1. /\ rx # << >> /\ Stands("irq") /\ rx' = Tail(rx) /\ Head(rx) = rx[1]
      /\ UsersSame /\ pc' = pc /\ UNCHANGED << kcd, kcd_buf >>
  <2>1. rx \in Seq(Char)
    BY <1>0, WayTypes
  <2>. QED BY <2>1 DEF IrqChar, app, UsersSame
<1>2. /\ mbx[TID_KCD].curr + 9 <= 512 /\ mbx[TID_KCD].max = 512
      /\ Accepts(TID_KCD, 9) /\ booted = 4 /\ ~Starting
  BY <1>1, KcdHasRoom
<1>3. m.length = 9 /\ m = Key(rx[1])
  BY <1>1, Sizes DEF Message, Key
<1>4. /\ Deliver(TID_KCD, m, TRUE, TID_UART_IRQ) /\ UNCHANGED refused
  BY <1>2, <1>3 DEF IrqChar
<1>5. m \in RtxMsg /\ TID_UART_IRQ \in Sender
  <2>1. HdrSize + 1 \in Length /\ rx[1] \in Keys
    <3>1. rx \in Seq(Keys)
      BY <1>0, MailboxesAre
    <3>. QED BY <1>1, <3>1 DEF Length
  <2>. QED BY <1>1, <2>1 DEF RtxMsg, Sender, Message
<1>6. Posted(TID_KCD, x) /\ x \in Letter /\ x.m = Key(rx[1])
  <2>. HIDE DEF m
  <2>1. mbx[TID_KCD].curr + m.length < SIZEMOD
    <3>1. mbx[TID_KCD].curr \in Nat /\ 512 < SIZEMOD /\ SIZEMOD \in Nat
      BY <1>0, MailboxesAre, Sizes
    <3>. QED BY <1>2, <1>3, <3>1
  <2>2. Posted(TID_KCD, x)
    BY <1>0, <1>4, <1>5, <2>1, DeliverPosts
  <2>3. x \in Letter
    BY <1>5 DEF Letter
  <2>. QED BY <1>3, <2>2, <2>3
<1>. HIDE DEF x, m
<1>7. /\ KcdMsgs \in Seq(Letter) /\ rx \in Seq(Char) /\ user.left \in Seq(Char) /\ InBuf \in Nat
      /\ HeadReg <= Len(KcdMsgs)
  BY <1>0, WayTypes
<1>8. KcdMsgs' = Append(KcdMsgs, x)
  BY <1>6 DEF Posted, KcdMsgs
<1>9. /\ KcdMsgs' # << >>
      /\ IF KcdMsgs = << >> THEN KcdMsgs'[1] = x ELSE KcdMsgs'[1] = KcdMsgs[1]
  <2>1. CASE KcdMsgs = << >>
    BY <1>8, <2>1
  <2>2. CASE KcdMsgs # << >>
    BY <1>7, <1>8, <2>2
  <2>. QED BY <2>1, <2>2
<1>10. x.m.type = "KEY_IN"
  BY <1>6 DEF Key, Message
<1>11. HeadReg' = HeadReg /\ Handled' = Handled /\ Sending' = Sending /\ InBuf' = InBuf
  BY <1>1, <1>9, <1>10 DEF HeadReg, Handled, Sending, InBuf
<1>12. ASSUME NEW c, NEW t PROVE InTransit(c, t) <=> InTransit(c, t)'
  <2>1. x.m # Registration(c)
    BY <1>10 DEF Registration, Message
  <2>. QED BY <1>1, <1>9, <2>1 DEF InTransit
<1>13. Registered'
  BY <1>0, <1>1, <1>12, RegisteredKept
<1>14. Phases'
  BY <1>0, <1>1, PhasesFrame
<1>15. Boxes'
  BY <1>0, <1>1, <1>6, BoxesFrame DEF Posted
<1>16. KcdBox'
  <2>1. mbx'[TID_KCD].max = KCD_MBX_SIZE /\ mbx'[TID_KCD].curr = MailBoxSize + (HdrSize + 1) * Len(KcdMsgs')
    <3>1. Len(KcdMsgs') = Len(KcdMsgs) + 1 /\ Len(KcdMsgs) \in Nat
      BY <1>7, <1>8
    <3>2. mbx'[TID_KCD].max = 512 /\ mbx'[TID_KCD].curr = mbx[TID_KCD].curr + 9
      BY <1>2, <1>3, <1>6 DEF Posted, Key, Message
    <3>3. mbx[TID_KCD].curr = 16 + 9 * Len(KcdMsgs)
      BY <1>0, <1>2, Sizes DEF KcdBox, Starting
    <3>. QED BY <3>1, <3>2, <3>3, Sizes
  <2>2. HeadReg' = 1 => KcdMsgs'[1] = KcdMsgs[1]
    BY <1>9, <1>11 DEF HeadReg
  <2>3. Regs' = Regs
    BY DEF Regs
  <2>. QED BY <1>0, <1>1, <1>2, <1>4, <1>11, <2>1, <2>2, <2>3 DEF KcdBox, Starting
<1>17. Lines'
  <2>1. ASSUME NEW k \in Typeable, NEW l \in Typeable, OnTheWay(k, l) PROVE OnTheWay(k, l)'
    <3>1. PICK w, n : w = Both(k, l) /\ n = InBuf
      OBVIOUS
    <3>2. Way(w, n, HeadReg, Handled, kcd_buf.m, KcdMsgs, rx, user.left)
      BY <2>1, <3>1 DEF OnTheWay, KeysAre
    <3>3. n \in Nat /\ HeadReg \in {0, 1} /\ Handled \in {0, 1}
      BY <1>7, <3>1, WaySizes
    <3>4. Way(w, n, HeadReg, Handled, kcd_buf.m, Append(KcdMsgs, x), Tail(rx), user.left)
      BY <1>1, <1>6, <1>7, <3>2, <3>3, WayInterrupt
    <3>5. KeysAre(w, n)'
      BY <1>1, <1>8, <1>11, <3>4 DEF KeysAre
    <3>6. KeysAre(Both(k, l), InBuf)'
      BY <1>11, <3>1, <3>5
    <3>7. \A i : Stored(k, i) <=> Stored(k, i)'
      BY <1>1 DEF Stored
    <3>. QED BY <1>1, <1>11, <2>1, <3>6, <3>7 DEF OnTheWay
  <2>2. \A t \in Users : mbx'[t].msgs = mbx[t].msgs
    BY <1>6, GoodParts DEF Posted
  <2>3. user'.line = user.line /\ user'.junk = user.junk
    OBVIOUS
  <2>. QED BY <1>0, <1>1, <1>11, <2>1, <2>2, <2>3, LinesKept
<1>. QED BY <1>13, <1>14, <1>15, <1>16, <1>17 DEF Obeyed

(* Boot, the yields, and the rest of the interrupt. *)
LEMMA RestObeyed ==
  ASSUME Good, UNCHANGED user,
         \/ Boot \/ Yields \/ ((UartIrq \/ IrqFree \/ IrqEnd) /\ UNCHANGED app)
         \/ UNCHANGED t2vars
  PROVE  Obeyed'
<1>1. UNCHANGED << app, user, mbx, rx, refused >>
  BY DEF Boot, Yields, UartIrq, IrqFree, IrqEnd, ipc, t2vars, msgvars
<1>. QED BY <1>1, GoodParts, QuietObeyed

(* What follows a line of the test while the KCD task sends it is junk. *)
LEMMA TearNeedsJunk ==
  ASSUME Good, IrqTears
  PROVE  user.junk
<1>1. rx # << >> /\ pc[TID_KCD] \in {"alloc", "send"}
  BY DEF IrqTears, IrqChar, Allocating
<1>2. pc[TID_KCD] = "send" /\ (Sending \/ user.junk)
  BY <1>1, GoodParts DEF KcdBox, Starting, Lines
<1>3. PICK k \in Typeable, l \in Typeable : OnTheWay(k, l) /\ Accounted(k, l)
  BY GoodParts DEF Lines, Typeable
<1>4. k # << >>
  <2>1. SUFFICES ASSUME k = << >> PROVE FALSE
    OBVIOUS
  <2>2. Both(k, l) = Both(<< >>, << >>) /\ InBuf = 0
    BY <1>3, <2>1 DEF OnTheWay
  <2>3. Len(Both(<< >>, << >>)) = 0
    <3>1. Both(<< >>, << >>) = [i \in 1..(Len(<< >>) + Len(<< >>)) |-> 0]
      BY DEF Both
    <3>. QED BY <3>1
  <2>4. 0 + Handled + Len(KcdMsgs) - HeadReg + Len(rx) + Len(user.left) = 0
    BY <1>3, <2>2, <2>3 DEF OnTheWay, KeysAre, Way
  <2>5. /\ KcdMsgs \in Seq(Letter) /\ rx \in Seq(Char) /\ user.left \in Seq(Char)
        /\ HeadReg = 0 /\ Handled = 0
    BY <1>2, GoodParts, WayTypes DEF KcdBox, HeadReg, Handled
  <2>6. Len(rx) > 0 /\ Len(rx) \in Nat /\ Len(KcdMsgs) \in Nat /\ Len(user.left) \in Nat
    BY <1>1, <2>5
  <2>7. PICK i, j, o : i = Len(KcdMsgs) /\ j = Len(rx) /\ o = Len(user.left)
    OBVIOUS
  <2>8. 0 + 0 + i - 0 + j + o = 0 /\ i \in Nat /\ j \in Nat /\ o \in Nat /\ j > 0
    BY <2>4, <2>5, <2>6, <2>7
  <2>. QED BY <2>8
<1>5. CASE k \in Tests
  <2>1. ~Sending
    BY <1>3, <1>5, GoodParts, Progress DEF Typed
  <2>. QED BY <1>2, <2>1
<1>. QED BY <1>3, <1>4, <1>5 DEF Typeable, Accounted

LEMMA CpuRestObeyed ==
  ASSUME Good, UNCHANGED user, ~IrqTears,
         Boot \/ Yields \/ Handler \/ Interrupt \/ UNCHANGED t2vars
  PROVE  Obeyed'
BY RestObeyed, IrqCharObeyed DEF Handler, Interrupt

-----------------------------------------------------------------------------
(* The person. *)

LEMMA PersonFrame ==
  ASSUME Good, UNCHANGED << app, mbx, refused >>, ~Starting
  PROVE  /\ UsersSame /\ Phases' /\ Registered' /\ KcdBox' /\ Boxes'
         /\ HeadReg' = HeadReg /\ Handled' = Handled /\ InBuf' = InBuf
         /\ KcdMsgs' = KcdMsgs /\ Sending' = Sending /\ Mailed' = Mailed
         /\ Awaits' = Awaits /\ Want' = Want
         /\ \A k, n : Stored(k, n) <=> Stored(k, n)'
<1>1. /\ pc' = pc /\ KcdMsgs' = KcdMsgs /\ UNCHANGED << kcd, kcd_buf, prompts >> /\ UsersSame
  BY DEF app, UsersSame, KcdMsgs
<1>2. HeadReg' = HeadReg /\ Handled' = Handled /\ InBuf' = InBuf /\ Sending' = Sending
  BY <1>1 DEF HeadReg, Handled, InBuf, Sending
<1>3. \A c, t : InTransit(c, t) <=> InTransit(c, t)'
  BY <1>1 DEF InTransit
<1>4. Registered'
  BY <1>1, <1>3, RegisteredKept, GoodParts
<1>5. Phases' /\ Boxes' /\ Awaits' = Awaits /\ Want' = Want
  BY <1>1, PhasesFrame, BoxesFrame, GoodParts
<1>6. Mailed' = Mailed
  BY <1>5 DEF Mailed
<1>7. KcdBox'
  <2>1. Regs' = Regs
    BY DEF Regs
  <2>. QED BY <1>1, <1>2, <2>1, GoodParts DEF KcdBox, Starting
<1>8. \A k, n : Stored(k, n) <=> Stored(k, n)'
  BY <1>1 DEF Stored
<1>. QED BY <1>1, <1>2, <1>4, <1>5, <1>6, <1>7, <1>8

LEMMA PressObeyed ==
  ASSUME Good, Press
  PROVE  Obeyed'
<1>1. /\ user.left # << >> /\ rx' = Append(rx, user.left[1])
      /\ UNCHANGED << app, mbx, refused >>
  BY DEF Press, KeyTyped
<1>2. user'.left = Tail(user.left) /\ user'.line = user.line /\ user'.junk = user.junk
  BY DEF Press, Good, Person
<1>3. ~Starting
  BY <1>1, GoodParts DEF KcdBox
<1>4. /\ UsersSame /\ Phases' /\ Registered' /\ KcdBox' /\ Boxes'
      /\ HeadReg' = HeadReg /\ Handled' = Handled /\ InBuf' = InBuf
      /\ KcdMsgs' = KcdMsgs /\ Sending' = Sending
      /\ \A k, n : Stored(k, n) <=> Stored(k, n)'
  BY <1>1, <1>3, PersonFrame
<1>5. /\ KcdMsgs \in Seq(Letter) /\ rx \in Seq(Char) /\ user.left \in Seq(Char) /\ InBuf \in Nat
  BY GoodParts, WayTypes
<1>6. UNCHANGED << kcd, kcd_buf, pc >>
  BY <1>1 DEF app
<1>7. ASSUME NEW k \in Typeable, NEW l \in Typeable, OnTheWay(k, l) PROVE OnTheWay(k, l)'
  <2>1. PICK w, n : w = Both(k, l) /\ n = InBuf
    OBVIOUS
  <2>2. Way(w, n, HeadReg, Handled, kcd_buf.m, KcdMsgs, rx, user.left)
    BY <1>7, <2>1 DEF OnTheWay, KeysAre
  <2>3. n \in Nat /\ HeadReg \in {0, 1} /\ Handled \in {0, 1}
    BY <1>5, <2>1, WaySizes
  <2>4. Way(w, n, HeadReg, Handled, kcd_buf.m, KcdMsgs, Append(rx, user.left[1]), Tail(user.left))
    BY <1>1, <1>5, <2>2, <2>3, WayPressed
  <2>5. KeysAre(w, n)'
    BY <1>1, <1>2, <1>4, <1>6, <2>4 DEF KeysAre
  <2>6. KeysAre(Both(k, l), InBuf)'
    BY <1>4, <2>1, <2>5
  <2>. QED BY <1>4, <1>6, <1>7, <2>6 DEF OnTheWay
<1>8. Lines'
  <2>1. \A t \in Users : mbx'[t].msgs = mbx[t].msgs
    BY <1>1
  <2>. QED BY <1>2, <1>4, <1>6, <1>7, <2>1, LinesKept, GoodParts
<1>. QED BY <1>4, <1>8 DEF Obeyed

(* The line begun is the second on the way, or the first. *)
LEMMA BegunWay ==
  ASSUME Good, UNCHANGED << msgvars, app >>, ~Starting, user.left = << >>,
         NEW m \in Tests \cup Junk, user'.left = m,
         NEW k \in Typeable, OnTheWay(k, << >>)
  PROVE  IF k = << >> THEN OnTheWay(m, << >>)' ELSE OnTheWay(k, m)'
<1>1. UNCHANGED << app, mbx, refused, rx, kcd, kcd_buf, pc >>
  BY DEF app, msgvars, ipc
<1>2. /\ HeadReg' = HeadReg /\ Handled' = Handled /\ InBuf' = InBuf
      /\ KcdMsgs' = KcdMsgs /\ \A i, n : Stored(i, n) <=> Stored(i, n)'
  BY <1>1, PersonFrame
<1>3. /\ KcdMsgs \in Seq(Letter) /\ rx \in Seq(Char) /\ InBuf \in Nat /\ HeadReg <= Len(KcdMsgs)
  BY GoodParts, WayTypes
<1>4. k \in Seq(Char) /\ m \in Seq(Char) /\ m # << >> /\ 0 < Len(m)
  <2>1. Len(m) \in 2..48 /\ \A n \in 2..48 : 0 < n
    BY LineShape
  <2>. QED BY <2>1, LineShape, Zenon
<1>5. PICK n : n = InBuf
  OBVIOUS
<1>6. Way(Both(k, << >>), n, HeadReg, Handled, kcd_buf.m, KcdMsgs, rx, << >>)
  BY <1>5 DEF OnTheWay, KeysAre
<1>7. Way(Both(k, m), n, HeadReg, Handled, kcd_buf.m, KcdMsgs, rx, m)
  <2>1. n \in Nat /\ HeadReg \in {0, 1} /\ Handled \in {0, 1}
    BY <1>3, <1>5, WaySizes
  <2>. QED BY <1>3, <1>4, <1>6, <2>1, WayBegin
<1>8. \A w : w = Both(k, m) => KeysAre(w, n)'
  BY <1>1, <1>2, <1>7 DEF KeysAre
<1>9. CASE k = << >>
  <2>1. Both(k, m) = Both(m, << >>)
    BY <1>4, <1>9, BothEmpty
  <2>2. PICK w : w = Both(m, << >>)
    OBVIOUS
  <2>3. KeysAre(w, n)'
    BY <1>8, <2>1, <2>2
  <2>4. KeysAre(Both(m, << >>), InBuf)'
    BY <1>2, <1>5, <2>2, <2>3
  <2>5. InBuf = 0
    BY <1>9 DEF OnTheWay
  <2>6. pc[TID_KCD] # "send" => Stored(m, kcd.tail)'
    BY <1>1, <2>5 DEF InBuf, Stored
  <2>7. OnTheWay(m, << >>)'
    BY <1>1, <1>2, <1>4, <2>4, <2>5, <2>6 DEF OnTheWay
  <2>. QED BY <1>9, <2>7
<1>10. CASE k # << >>
  <2>1. PICK w : w = Both(k, m)
    OBVIOUS
  <2>2. KeysAre(w, n)'
    BY <1>8, <2>1
  <2>3. KeysAre(Both(k, m), InBuf)'
    BY <1>2, <1>5, <2>1, <2>2
  <2>4. OnTheWay(k, m)'
    BY <1>1, <1>2, <1>10, <2>3 DEF OnTheWay
  <2>. QED BY <1>10, <2>4
<1>. QED BY <1>9, <1>10

LEMMA BeginScriptObeyed ==
  ASSUME Good, BeginScript
  PROVE  Obeyed'
<1>1. /\ user.left = << >> /\ user.line < 6 /\ user.line < prompts
      /\ UNCHANGED << msgvars, app >>
      /\ user'.left = Script[user.line + 1] /\ user'.line = user.line + 1 /\ user'.junk = user.junk
  <2>1. user \in Person /\ ~user.hasty /\ Len(Script) = 6
    BY LinesAssumption DEF Good
  <2>2. user.left = << >> /\ user.line < 6 /\ user.line < prompts + 0 /\ UNCHANGED << msgvars, app >>
    BY <2>1 DEF BeginScript
  <2>3. user' = [user EXCEPT !.line = @ + 1, !.left = Script[user.line + 1]]
    BY <2>1 DEF BeginScript, Begin, Person
  <2>4. prompts \in Int
    BY GoodParts DEF Phases, Count
  <2>. QED BY <2>1, <2>2, <2>3, <2>4 DEF Person
<1>2. user.line \in Nat /\ user.line <= prompts /\ prompts \in Int /\ Phases
  BY GoodParts DEF Phases, Count
<1>3. ~Starting
  <2>1. prompts # 0
    BY <1>1, <1>2
  <2>. QED BY <2>1, GoodParts DEF KcdBox
<1>4. PICK k \in Typeable, l \in Typeable : OnTheWay(k, l) /\ Accounted(k, l)
  BY GoodParts DEF Lines, Typeable
<1>5. /\ ~Typed(k, l) /\ ~Sending /\ ~Mailed
      /\ user.line = u1.i + u2.i /\ pc[Awaits] = "recv"
      /\ u1.i \in 0..2 /\ u2.i \in 0..4
      /\ Asks(pc[U1]) => u2.i = 0
      /\ Asks(pc[U2]) => u1.i = 2 /\ ~Asks(pc[U1])
  BY <1>1, <1>2, <1>4, Progress
<1>6. l = << >> /\ k \in Junk \cup {<< >>}
  BY <1>4, <1>5 DEF Typed, Typeable, OnTheWay, Accounted
<1>61. PICK m : m = Line(Want)
  OBVIOUS
<1>7. user'.left = m /\ m \in Tests
  <2>1. Script = << Line(TheC), Line(TheC), Line(TheC), Line(TheD), Line(TheC), Line(TheD) >>
    BY LinesAssumption
  <2>2. CASE Asks(pc[U1])
    <3>1. u1.i \in {0, 1} /\ user.line = u1.i /\ Want = TheC
      BY <1>2, <1>5, <2>2 DEF Phases, Want
    <3>. QED BY <1>1, <1>61, <2>1, <3>1 DEF Tests, LineC
  <2>3. CASE ~Asks(pc[U1])
    <3>1. Asks(pc[U2])
      BY <1>5, <2>3 DEF Awaits, Asks
    <3>2. u2.i \in {0, 1, 2, 3} /\ user.line = 2 + u2.i
      BY <1>2, <1>5, <3>1 DEF Phases
    <3>3. CASE u2.i \in {0, 2}
      <4>1. Want = TheC
        BY <2>3, <3>3 DEF Want
      <4>2. Script[user.line + 1] = Line(TheC)
        BY <2>1, <3>2, <3>3
      <4>. QED BY <1>1, <1>61, <4>1, <4>2 DEF Tests, LineC
    <3>4. CASE u2.i \in {1, 3}
      <4>1. Want = TheD
        BY <2>3, <3>4 DEF Want
      <4>2. Script[user.line + 1] = Line(TheD)
        BY <2>1, <3>2, <3>4
      <4>. QED BY <1>1, <1>61, <4>1, <4>2 DEF Tests, LineD
    <3>. QED BY <3>2, <3>3, <3>4
  <2>. QED BY <1>61, <2>2, <2>3
<1>8. IF k = << >> THEN OnTheWay(m, << >>)' ELSE OnTheWay(k, m)'
  BY <1>1, <1>3, <1>4, <1>6, <1>7, BegunWay
<1>9. /\ UsersSame /\ Phases' /\ Registered' /\ KcdBox' /\ Boxes'
      /\ Sending' = Sending /\ Mailed' = Mailed /\ Awaits' = Awaits /\ Want' = Want
      /\ UNCHANGED pc
  <2>1. UNCHANGED << app, mbx, refused, pc >>
    BY <1>1 DEF app, msgvars, ipc
  <2>. QED BY <1>3, <2>1, PersonFrame
<1>10. user'.line <= prompts' /\ user'.line = u1'.i + u2'.i + 1 + 0 + 0
  BY <1>1, <1>2, <1>5, <1>9 DEF UsersSame
<1>11. << >> \notin Tests /\ << >> \notin Junk /\ Tests \cap Junk = {} /\ m = Line(Want')
  BY <1>9, <1>61, LineShape
<1>12. IF k = << >> THEN Accounted(m, << >>)' ELSE Accounted(k, m)'
  <2>1. CASE k = << >>
    <3>1. user'.line = u1'.i + u2'.i + Count(Typed(m, << >>)) + Count(Sending') + Count(Mailed')
      BY <1>5, <1>7, <1>9, <1>10 DEF Count, Typed
    <3>. QED BY <1>7, <1>11, <2>1, <3>1 DEF Accounted, Typed
  <2>2. CASE k # << >>
    <3>1. user'.line = u1'.i + u2'.i + Count(Typed(k, m)) + Count(Sending') + Count(Mailed')
      BY <1>5, <1>7, <1>9, <1>10 DEF Count, Typed
    <3>2. k \in Junk /\ user'.junk
      BY <1>1, <1>4, <1>6, <2>2 DEF Accounted
    <3>. QED BY <1>7, <1>11, <2>2, <3>1, <3>2 DEF Accounted, Typed
  <2>. QED BY <2>1, <2>2
<1>13. Lines'
  <2>1. \E i, j \in Typeable : OnTheWay(i, j)' /\ Accounted(i, j)'
    <3>1. m \in Typeable /\ << >> \in Typeable
      BY <1>7 DEF Typeable
    <3>. QED BY <1>8, <1>12, <3>1
  <2>2. pc'[TID_KCD] = "send" =>
          /\ Receiver(kcd') \in Users
          /\ kcd'.tail > Len(TheC) /\ kcd'.tail <= INPUT_SIZE
          /\ user'.junk
    BY <1>1, <1>5, GoodParts DEF Lines, app
  <2>3. ~Sending'
    BY <1>5, <1>9
  <2>. QED BY <1>10, <2>1, <2>2, <2>3 DEF Lines, Typeable
<1>. QED BY <1>9, <1>13 DEF Obeyed

LEMMA BeginJunkObeyed ==
  ASSUME Good, BeginJunk
  PROVE  Obeyed'
<1>1. PICK m \in Junk : user' = [user EXCEPT !.junk = TRUE, !.left = m]
  BY DEF BeginJunk, Begin, Good, Person
<1>2. /\ user.left = << >> /\ ~user.junk /\ prompts > 0
      /\ UNCHANGED << msgvars, app >>
      /\ user'.left = m /\ user'.line = user.line /\ user'.junk = TRUE
  BY <1>1 DEF BeginJunk, Good, Person
<1>3. ~Starting
  <2>1. prompts # 0
    BY <1>2
  <2>. QED BY <2>1, GoodParts DEF KcdBox
<1>4. PICK k \in Typeable, l \in Typeable : OnTheWay(k, l) /\ Accounted(k, l)
  BY GoodParts DEF Lines, Typeable
<1>5. l = << >> /\ k \in Tests \cup {<< >>}
  BY <1>2, <1>4 DEF Typeable, OnTheWay, Accounted
<1>6. IF k = << >> THEN OnTheWay(m, << >>)' ELSE OnTheWay(k, m)'
  BY <1>2, <1>3, <1>4, <1>5, BegunWay
<1>7. /\ UsersSame /\ Phases' /\ Registered' /\ KcdBox' /\ Boxes'
      /\ Sending' = Sending /\ Mailed' = Mailed /\ Awaits' = Awaits /\ Want' = Want
      /\ UNCHANGED << pc, kcd >>
  <2>1. UNCHANGED << app, mbx, refused, pc, kcd >>
    BY <1>2 DEF app, msgvars, ipc
  <2>. QED BY <1>3, <2>1, PersonFrame
<1>8. << >> \notin Tests /\ << >> \notin Junk /\ m \notin Tests
  BY LineShape
<1>9. user'.line = u1'.i + u2'.i + Count(Typed(k, l)) + Count(Sending') + Count(Mailed')
  BY <1>2, <1>4, <1>7 DEF Accounted, UsersSame
<1>10. IF k = << >> THEN Accounted(m, << >>)' ELSE Accounted(k, m)'
  <2>1. CASE k = << >>
    <3>1. Typed(m, << >>) <=> Typed(k, l)
      BY <1>5, <1>8, <2>1 DEF Typed
    <3>2. Count(Typed(m, << >>)) = Count(Typed(k, l))
      BY <3>1 DEF Count
    <3>. QED BY <1>2, <1>8, <1>9, <2>1, <3>2 DEF Accounted, Typed
  <2>2. CASE k # << >>
    <3>1. Typed(k, m) <=> Typed(k, l)
      BY <1>5, <1>8 DEF Typed
    <3>2. Count(Typed(k, m)) = Count(Typed(k, l))
      BY <3>1 DEF Count
    <3>3. k \in Tests /\ k \notin Junk /\ k = Line(Want')
      BY <1>4, <1>5, <1>7, <2>2, LineShape DEF Accounted
    <3>. QED BY <1>2, <1>8, <1>9, <2>2, <3>2, <3>3 DEF Accounted, Typed
  <2>. QED BY <2>1, <2>2
<1>11. Lines'
  <2>1. \E i, j \in Typeable : OnTheWay(i, j)' /\ Accounted(i, j)'
    <3>1. m \in Typeable /\ << >> \in Typeable
      BY DEF Typeable
    <3>. QED BY <1>6, <1>10, <3>1
  <2>2. /\ user'.line <= prompts'
        /\ pc'[TID_KCD] = "send" =>
             /\ Receiver(kcd') \in Users
             /\ kcd'.tail > Len(TheC) /\ kcd'.tail <= INPUT_SIZE
             /\ Sending' => Receiver(kcd') = Awaits' /\ Text(kcd') = Want'
             /\ user'.junk
    BY <1>2, <1>7, GoodParts DEF Lines, UsersSame
  <2>. QED BY <2>1, <2>2 DEF Lines, Typeable
<1>. QED BY <1>7, <1>11 DEF Obeyed

-----------------------------------------------------------------------------
(* utask1 and utask2: whenever one of them acts the KCD task waits. *)

LEMMA UserActs ==
  ASSUME Good, NEW t \in Users, Current = t, pc[t] # "gone"
  PROVE  /\ pc[TID_KCD] = "recv" /\ KcdMsgs = << >> /\ HeadReg = 0 /\ Handled = 0
         /\ InBuf = kcd.tail /\ ~Sending /\ \A c, u : ~InTransit(c, u)
         /\ mbx[TID_KCD].max = 512 /\ mbx[TID_KCD].curr = 16
         /\ g_tcbs[TID_KCD].state # "DORMANT" /\ ~interrupt_flag
<1>1. pc[TID_KCD] = "recv" /\ KcdMsgs = << >> /\ g_tcbs[TID_KCD].state = "BLK_MSG"
  BY KcdAsleep, GoodParts DEF IsEmpty, KcdMsgs
<1>2. HeadReg = 0 /\ Handled = 0 /\ InBuf = kcd.tail /\ ~Sending /\ \A c, u : ~InTransit(c, u)
  BY <1>1 DEF HeadReg, Handled, InBuf, Sending, InTransit
<1>3. mbx[TID_KCD].max = 512 /\ mbx[TID_KCD].curr = 16 + 9 * 0
  <2>1. Len(KcdMsgs) = 0
    BY <1>1
  <2>. QED BY <1>1, <2>1, GoodParts, Sizes DEF KcdBox
<1>4. ~interrupt_flag
  BY MailboxesAre, GoodParts DEF KcdBox
<1>. QED BY <1>1, <1>2, <1>3, <1>4

LEMMA Elsewhere ==
  ASSUME Good
  PROVE  /\ pc[U2] # "entry" => turn = 2 /\ pc[U1] \in {"result", "exit", "gone"}
         /\ pc[U1] \notin {"result", "exit", "gone"} => pc[U2] = "entry" /\ turn = 1
         /\ pc[U1] \in {"exit", "gone"} => pc[U2] \in {"exit", "gone"}
BY GoodParts DEF Phases

(* What a step of theirs that sends nothing to the KCD task leaves. *)
LEMMA UserFrame ==
  ASSUME Good, NEW t \in Users, Current = t, pc[t] # "gone", NEW at, Goto(t, at),
         UNCHANGED << kcd, kcd_buf, user, rx, refused >>, mbx'[TID_KCD] = mbx[TID_KCD],
         Asks(at) => Asks(pc[t]), at # "register_d"
  PROVE  /\ KcdBox' /\ Registered'
         /\ \A k, l : OnTheWay(k, l) => OnTheWay(k, l)'
         /\ pc'[TID_KCD] = "recv" /\ pc'[t] = at /\ \A u \in Tid \ {t} : pc'[u] = pc[u]
<1>1. pc'[t] = at /\ \A u \in Tid \ {t} : pc'[u] = pc[u]
  BY GotoIs, GoodParts
<1>2. pc'[TID_KCD] = "recv" /\ pc[TID_KCD] = "recv" /\ \A c, u : ~InTransit(c, u)
  BY <1>1, UserActs, GoodParts
<1>3. WaySame
  BY <1>2 DEF WaySame, KcdMsgs
<1>4. /\ HeadReg' = HeadReg /\ Handled' = Handled /\ \A c, u : ~InTransit(c, u)'
      /\ \A k, l : OnTheWay(k, l) => OnTheWay(k, l)'
  BY <1>2, <1>3, WayFrame
<1>5. KcdBox'
  <2>1. Regs' = Regs /\ KcdMsgs' = KcdMsgs
    BY DEF Regs, KcdMsgs
  <2>. QED BY <1>2, <1>4, <2>1, GoodParts DEF KcdBox, Starting
<1>6. Registered'
  <2>1. \A c, u : Owns(u, c) => Owns(u, c)'
    BY <1>2 DEF Owns
  <2>2. \A u \in {U1, U2} : /\ Asks(pc'[u]) => Asks(pc[u])
                            /\ pc'[u] = "register_d" => pc[u] = "register_d"
    BY <1>1, GoodParts
  <2>. QED BY <1>4, <2>1, <2>2, GoodParts DEF Registered
<1>. QED BY <1>1, <1>2, <1>4, <1>5, <1>6

(* The mailbox of the other one. *)
LEMMA OtherBox ==
  ASSUME Good, NEW t \in Users, NEW o \in Users, t # o, NEW at, Goto(t, at),
         mbx'[o] = mbx[o], pc[o] # "recv",
         o = U1 /\ pc[U2] \in {"exit", "gone"} => at \in {"exit", "gone"}
  PROVE  Box(o)'
<1>1. pc'[t] = at /\ pc'[o] = pc[o]
  BY GotoIs, GoodParts
<1>2. Box(o)
  BY GoodParts DEF Boxes, Users
<1>3. o = U1 => t = U2
  BY DEF Users
<1>4. CASE mbx[o].msgs = << >>
  BY <1>1, <1>2, <1>4 DEF Box
<1>5. CASE mbx[o].msgs # << >>
  <2>1. mbx[o] # NoMailbox
    BY <1>5 DEF NoMailbox
  <2>2. o = U1 /\ pc[U1] = "result" /\ pc[U2] \in {"exit", "gone"} /\ t = U2
    BY <1>2, <1>3, <1>5, <2>1 DEF Box
  <2>3. pc'[U1] = "result" /\ pc'[U2] \in {"exit", "gone"}
    BY <1>1, <2>2
  <2>. QED BY <1>1, <1>2, <2>1, <2>2, <2>3 DEF Box
<1>. QED BY <1>4, <1>5

(* Nothing is on the way to a task when no task waits. *)
LEMMA LinesSettled ==
  ASSUME Good, UNCHANGED << user, prompts >>, pc'[TID_KCD] = "recv", Boxes',
         \A k, l \in Typeable : OnTheWay(k, l) => OnTheWay(k, l)',
         \A k, l \in Typeable : Accounted(k, l) => ~Typed(k, l),
         pc'[U1] # "recv", pc'[U2] # "recv",
         u1'.i + u2'.i = user.line
  PROVE  Lines'
<1>1. PICK k \in Typeable, l \in Typeable : OnTheWay(k, l) /\ Accounted(k, l)
  BY GoodParts DEF Lines, Typeable
<1>2. ~Typed(k, l) /\ ~Sending'
  BY <1>1 DEF Sending
<1>3. ~Mailed'
  <2>1. Box(U1)' /\ Box(U2)'
    BY DEF Boxes
  <2>2. Asks(pc'[U1]) => ~(pc'[U1] = "result")
    BY DEF Asks
  <2>. QED BY <2>1, <2>2, Sizes, GoodParts DEF Mailed, Awaits, Box, NoMailbox
<1>4. user'.line = u1'.i + u2'.i + Count(Typed(k, l)) + Count(Sending') + Count(Mailed')
  <2>1. Count(Typed(k, l)) = 0 /\ Count(Sending') = 0 /\ Count(Mailed') = 0
    BY <1>2, <1>3 DEF Count
  <2>2. user.line + 0 + 0 + 0 = user.line
    BY GoodParts
  <2>. QED BY <2>1, <2>2
<1>5. Accounted(k, l)'
  BY <1>1, <1>2, <1>4 DEF Accounted, Typed
<1>6. user'.line <= prompts'
  BY GoodParts
<1>. QED BY <1>1, <1>5, <1>6 DEF Lines, Typeable

(* A step that neither begins nor ends a wait, between waits. *)
LEMMA LinesBetween ==
  ASSUME Good, UNCHANGED << user, prompts >>, pc'[TID_KCD] = "recv", Boxes',
         \A k, l : OnTheWay(k, l) => OnTheWay(k, l)',
         pc[U1] # "recv", pc[U2] # "recv", pc'[U1] # "recv", pc'[U2] # "recv",
         u1'.i = u1.i, u2'.i = u2.i
  PROVE  Lines'
<1>1. PICK k \in Typeable, l \in Typeable : Accounted(k, l)
  BY GoodParts DEF Lines, Typeable
<1>2. \A i, j \in Typeable : Accounted(i, j) => ~Typed(i, j)
  BY GoodParts, Progress
<1>3. user.line = u1.i + u2.i
  BY <1>1, GoodParts, Progress
<1>. QED BY <1>2, <1>3, LinesSettled

-----------------------------------------------------------------------------
(* utask1. *)

LEMMA U1CreateObeyed ==
  ASSUME Good, U1Create, UNCHANGED user
  PROVE  Obeyed'
<1>0. /\ Phases /\ U1 \in Users /\ U2 \in Users /\ U1 # U2
  BY GoodParts, Sizes
<1>1. /\ Current = U1 /\ pc[U1] = "entry" /\ Goto(U1, "register")
      /\ mbx' = [mbx EXCEPT ![U1] = NewMailbox(USER_MBX)]
      /\ UNCHANGED << u1, u2, kcd, kcd_buf, turn, prompts, score, rx, refused >>
  BY DEF U1Create, At, U1Becomes, k_mbx_create
<1>2. mbx'[U1] = NewMailbox(USER_MBX) /\ \A u \in Tid \ {U1} : mbx'[u] = mbx[u]
  BY <1>1, MailboxesAre, GoodParts
<1>3. /\ KcdBox' /\ Registered' /\ \A k, l : OnTheWay(k, l) => OnTheWay(k, l)'
      /\ pc'[TID_KCD] = "recv" /\ pc'[U1] = "register" /\ \A u \in Tid \ {U1} : pc'[u] = pc[u]
  BY <1>0, <1>1, <1>2, GoodParts, UserFrame DEF Asks
<1>4. pc[U2] = "entry" /\ pc'[U2] = "entry"
  BY <1>1, <1>3, Elsewhere, GoodParts
<1>5. Phases'
  BY <1>0, <1>1, <1>3, <1>4 DEF Phases, Asks, Late
<1>6. Box(U1)'
  <2>1. mbx'[U1].msgs = << >> /\ mbx'[U1].max = USER_MBX /\ mbx'[U1].curr = MailBoxSize
    BY <1>2 DEF NewMailbox, NoMailbox
  <2>2. Len(mbx'[U1].msgs) = 0 /\ MailBoxSize = MailBoxSize + USER_MSG * 0
    BY <2>1, Sizes
  <2>. QED BY <1>3, <2>1, <2>2 DEF Box
<1>7. Boxes'
  <2>1. Box(U2)'
    BY <1>0, <1>1, <1>2, <1>4, GoodParts, OtherBox
  <2>. QED BY <1>3, <1>6, <2>1 DEF Boxes
<1>8. Lines'
  BY <1>1, <1>3, <1>4, <1>7, LinesBetween
<1>. QED BY <1>3, <1>5, <1>7, <1>8 DEF Obeyed

(* A registration in the empty mailbox of the KCD task. *)
LEMMA RegistrationAccepted ==
  ASSUME Good, NEW t \in Users, At(t, pc[t]), pc[t] # "gone", NEW c \in {"c", "d"}
  PROVE  /\ Registration(c).length = 9 /\ Accepts(TID_KCD, Registration(c).length)
         /\ \A m : m = Registration(c) /\ send_msg(TID_KCD, m) =>
              /\ Posted(TID_KCD, [m |-> m, from |-> t, sender |-> t])
              /\ [m |-> m, from |-> t, sender |-> t] \in Letter
              /\ UNCHANGED << rx, refused >>
<1>1. /\ mbx[TID_KCD].max = 512 /\ mbx[TID_KCD].curr = 16 /\ Current = t
      /\ g_tcbs[TID_KCD].state # "DORMANT" /\ ~interrupt_flag
  BY UserActs DEF At
<1>2. Registration(c).length = 9
  BY Sizes DEF Registration, Message
<1>3. Accepts(TID_KCD, 9)
  <2>1. 512 < SIZEMOD /\ 16 + 9 <= 512 /\ 9 \in Nat /\ 9 > 0 /\ 512 # 0
    BY Sizes
  <2>. QED BY <1>1, <2>1, GoodParts, RoomAccepts
<1>4. interrupt_flag = FALSE
  <2>1. interrupt_flag \in BOOLEAN
    BY GoodParts DEF Sound, MsgInv, MsgTypeOK
  <2>. QED BY <1>1, <2>1
<1>5. Registration(c) \in RtxMsg /\ t \in Sender
  BY MessagesFit, GoodParts, WayTypes DEF Sender
<1>6. ASSUME NEW m, m = Registration(c), send_msg(TID_KCD, m)
      PROVE  /\ Posted(TID_KCD, [m |-> m, from |-> t, sender |-> t])
             /\ [m |-> m, from |-> t, sender |-> t] \in Letter
             /\ UNCHANGED << rx, refused >>
  <2>1. Deliver(TID_KCD, m, interrupt_flag, Current) /\ UNCHANGED << rx, refused >>
    BY <1>6 DEF send_msg
  <2>2. mbx[TID_KCD].curr + m.length < SIZEMOD
    BY <1>1, <1>2, <1>6, Sizes
  <2>3. m \in RtxMsg
    BY <1>5, <1>6
  <2>4. Posted(TID_KCD, [m |-> m, from |-> t, sender |-> t])
    <3>1. Deliver(TID_KCD, m, FALSE, t)
      BY <1>1, <1>4, <2>1
    <3>2. Sound /\ TID_KCD \in Tid /\ FALSE \in BOOLEAN
      BY GoodParts
    <3>3. Posted(TID_KCD, [m |-> m, from |-> t, sender |-> IF FALSE THEN TID_UART_IRQ ELSE Current])
      BY <1>5, <2>2, <2>3, <3>1, <3>2, DeliverPosts
    <3>. QED BY <1>1, <3>3
  <2>5. [m |-> m, from |-> t, sender |-> t] \in Letter
    BY <1>5, <2>3 DEF Letter
  <2>. QED BY <2>1, <2>4, <2>5
<1>. QED BY <1>2, <1>3, <1>6

(* What it changes. *)
LEMMA RegistrationFrame ==
  ASSUME Good, NEW t \in Users, Current = t, pc[t] # "gone", NEW at, Goto(t, at), NEW c \in {"c", "d"},
         NEW x \in Letter, x.m = Registration(c), x.sender = t, Posted(TID_KCD, x),
         UNCHANGED << kcd, kcd_buf, user, rx, refused >>
  PROVE  /\ KcdBox'
         /\ \A k, l \in Typeable : OnTheWay(k, l) => OnTheWay(k, l)'
         /\ \A b, u : InTransit(b, u)' => b = c /\ u = t
         /\ InTransit(c, t)'
         /\ \A b, u : Owns(u, b) => Owns(u, b)'
         /\ pc'[TID_KCD] = "recv" /\ pc'[t] = at /\ \A u \in Tid \ {t} : pc'[u] = pc[u]
<1>1. pc'[t] = at /\ \A u \in Tid \ {t} : pc'[u] = pc[u]
  BY GotoIs, GoodParts
<1>2. /\ pc[TID_KCD] = "recv" /\ pc'[TID_KCD] = "recv" /\ KcdMsgs = << >> /\ HeadReg = 0 /\ Handled = 0
      /\ InBuf = kcd.tail /\ \A b, u : ~InTransit(b, u)
      /\ mbx[TID_KCD].max = 512 /\ mbx[TID_KCD].curr = 16
  BY <1>1, UserActs, GoodParts
<1>3. KcdMsgs' = << x >> /\ Len(KcdMsgs') = 1 /\ KcdMsgs' # << >> /\ KcdMsgs'[1] = x
  <2>1. KcdMsgs' = Append(KcdMsgs, x)
    BY DEF Posted, KcdMsgs
  <2>. QED BY <1>2, <2>1
<1>4. HeadReg' = 1 /\ Handled' = 0 /\ InBuf' = kcd.tail
  BY <1>2, <1>3 DEF HeadReg, Handled, InBuf, Registration, Message
<1>5. ASSUME NEW b, NEW u PROVE InTransit(b, u)' <=> b = c /\ u = t
  <2>1. InTransit(b, u)' <=> Registration(c) = Registration(b) /\ t = u
    BY <1>2, <1>3 DEF InTransit
  <2>2. Registration(c) = Registration(b) => b = c
    <3>1. ASSUME Registration(c) = Registration(b) PROVE b = c
      <4>1. << c >> = << b >>
        BY <3>1 DEF Registration, Message
      <4>. QED BY <4>1
    <3>. QED BY <3>1
  <2>. QED BY <2>1, <2>2
<1>6. \A b, u : Owns(u, b) => Owns(u, b)'
  BY <1>2 DEF Owns
<1>7. KcdBox'
  <2>1. mbx'[TID_KCD].max = KCD_MBX_SIZE /\ mbx'[TID_KCD].curr = MailBoxSize + (HdrSize + 1) * Len(KcdMsgs')
    <3>1. mbx'[TID_KCD].max = 512 /\ mbx'[TID_KCD].curr = 16 + x.m.length /\ x.m.length = 9
      BY <1>2, Sizes DEF Posted, Registration, Message
    <3>. QED BY <1>3, <3>1, Sizes
  <2>2. x.m \in Regs'
    BY DEF Regs
  <2>. QED BY <1>2, <1>3, <1>4, <2>1, <2>2, GoodParts DEF KcdBox, Starting
<1>8. ASSUME NEW k \in Typeable, NEW l \in Typeable, OnTheWay(k, l) PROVE OnTheWay(k, l)'
  <2>1. PICK w, n : w = Both(k, l) /\ n = kcd.tail
    OBVIOUS
  <2>2. Way(w, n, 0, 0, kcd_buf.m, << >>, rx, user.left)
    BY <1>2, <1>8, <2>1 DEF OnTheWay, KeysAre
  <2>3. n \in Nat /\ rx \in Seq(Char) /\ user.left \in Seq(Char) /\ << x >> \in Seq(Letter) /\ Len(<< x >>) = 1
    BY <2>1, GoodParts, WayTypes
  <2>4. Way(w, n, 1, 0, kcd_buf.m, << x >>, rx, user.left)
    BY <2>2, <2>3, WayRegistration
  <2>5. KeysAre(w, n)'
    BY <1>3, <1>4, <2>4 DEF KeysAre
  <2>6. KeysAre(Both(k, l), InBuf)'
    BY <1>4, <2>1, <2>5
  <2>7. \A i : Stored(k, i) <=> Stored(k, i)'
    BY DEF Stored
  <2>. QED BY <1>2, <1>4, <1>8, <2>6, <2>7 DEF OnTheWay
<1>. QED BY <1>1, <1>2, <1>5, <1>6, <1>7, <1>8

LEMMA U1RegisterObeyed ==
  ASSUME Good, U1Register, UNCHANGED user
  PROVE  Obeyed'
<1>0. /\ Phases /\ Boxes /\ Registered /\ U1 \in Users /\ U2 \in Users /\ U1 # U2
  BY GoodParts, Sizes
<1>1. /\ Current = U1 /\ pc[U1] = "register" /\ At(U1, pc[U1])
  BY DEF U1Register, At
<1>2. PICK m : m = Registration("c")
  OBVIOUS
<1>3. /\ send_msg(TID_KCD, m) /\ U1Becomes(u1, "prompt")
  BY <1>0, <1>1, <1>2, RegistrationAccepted DEF U1Register, Send
<1>4. PICK x : x = [m |-> m, from |-> U1, sender |-> U1]
  OBVIOUS
<1>5. Posted(TID_KCD, x) /\ x \in Letter /\ x.m = Registration("c") /\ x.sender = U1
      /\ UNCHANGED << rx, refused >>
  BY <1>0, <1>1, <1>2, <1>3, <1>4, RegistrationAccepted
<1>6. /\ Goto(U1, "prompt")
      /\ UNCHANGED << u1, u2, kcd, kcd_buf, turn, prompts, score, rx, refused >>
  BY <1>3, <1>5 DEF U1Becomes
<1>7. /\ KcdBox'
      /\ \A k, l \in Typeable : OnTheWay(k, l) => OnTheWay(k, l)'
      /\ \A b, u : InTransit(b, u)' => b = "c" /\ u = U1
      /\ InTransit("c", U1)'
      /\ \A b, u : Owns(u, b) => Owns(u, b)'
      /\ pc'[TID_KCD] = "recv" /\ pc'[U1] = "prompt" /\ \A u \in Tid \ {U1} : pc'[u] = pc[u]
  <2>1. "c" \in {"c", "d"} /\ pc[U1] # "gone"
    BY <1>1
  <2>. QED BY <1>0, <1>1, <1>5, <1>6, <2>1, RegistrationFrame
<1>8. pc[U2] = "entry" /\ pc'[U2] = "entry"
  BY <1>1, <1>7, Elsewhere, GoodParts
<1>9. Phases'
  BY <1>0, <1>1, <1>6, <1>7, <1>8 DEF Phases, Asks, Late
<1>10. Registered'
  BY <1>0, <1>6, <1>7, <1>8 DEF Registered, Owns, Asks
<1>11. \A t \in Users : mbx'[t] = mbx[t]
  BY <1>5, GoodParts DEF Posted
<1>12. Boxes'
  <2>1. Box(U2)'
    BY <1>0, <1>6, <1>8, <1>11, GoodParts, OtherBox
  <2>2. Box(U1)'
    <3>1. Box(U1) /\ mbx[U1].msgs = << >>
      BY <1>0, <1>1 DEF Boxes, Box
    <3>. QED BY <1>0, <1>1, <1>7, <1>11, <3>1 DEF Box
  <2>. QED BY <1>7, <2>1, <2>2 DEF Boxes
<1>13. Lines'
  <2>1. PICK k \in Typeable, l \in Typeable : Accounted(k, l)
    BY GoodParts DEF Lines, Typeable
  <2>2. \A i, j \in Typeable : Accounted(i, j) => ~Typed(i, j)
    BY <1>1, <1>8, GoodParts, Progress
  <2>3. user.line = u1.i + u2.i
    BY <1>1, <1>8, <2>1, GoodParts, Progress
  <2>. QED BY <1>6, <1>7, <1>8, <1>12, <2>2, <2>3, LinesSettled
<1>. QED BY <1>7, <1>9, <1>10, <1>12, <1>13 DEF Obeyed

LEMMA PromptObeyed ==
  ASSUME Good, NEW t \in Users, Prompt(t), UNCHANGED user
  PROVE  Obeyed'
<1>0. Phases /\ Boxes /\ t \in Tid /\ U1 \in Users /\ U2 \in Users /\ U1 # U2 /\ t \in {U1, U2}
  BY GoodParts, Sizes DEF Users
<1>1. /\ Current = t /\ pc[t] = "prompt" /\ Goto(t, "recv") /\ prompts' = prompts + 1
      /\ UNCHANGED << mbx, rx, refused, u1, u2, kcd, kcd_buf, turn, score >>
  BY DEF Prompt, At, msgvars, ipc
<1>2. /\ KcdBox' /\ Registered' /\ \A k, l : OnTheWay(k, l) => OnTheWay(k, l)'
      /\ pc'[TID_KCD] = "recv" /\ pc'[t] = "recv" /\ \A u \in Tid \ {t} : pc'[u] = pc[u]
  <2>1. pc[t] # "gone" /\ Asks(pc[t])
    BY <1>1 DEF Asks
  <2>. QED BY <1>1, <2>1, GoodParts, UserFrame
<1>3. /\ pc[U1] # "recv" /\ pc[U2] # "recv" /\ pc[TID_KCD] = "recv"
      /\ \A u \in {U1, U2} : Asks(pc'[u]) <=> Asks(pc[u])
  <2>1. pc[TID_KCD] = "recv"
    BY <1>1, UserActs
  <2>2. pc[U1] # "recv" /\ pc[U2] # "recv"
    BY <1>0, <1>1, Elsewhere
  <2>. QED BY <1>0, <1>1, <1>2, <2>1, <2>2, GoodParts DEF Asks
<1>4. Awaits' = Awaits /\ Want' = Want
  BY <1>1, <1>3 DEF Awaits, Want
<1>5. Phases'
  <2>1. prompts = u1.i + u2.i + 0 /\ u1.i \in Nat /\ u2.i \in Nat
    BY <1>0, <1>3 DEF Phases, Count
  <2>2. prompts' = u1'.i + u2'.i + 1
    BY <1>1, <2>1
  <2>3. prompts' = u1'.i + u2'.i + Count(pc'[U1] = "recv" \/ pc'[U2] = "recv")
    BY <1>0, <1>2, <2>2 DEF Count
  <2>4. CASE t = U1
    <3>1. pc'[U1] = "recv" /\ pc'[U2] = pc[U2] /\ pc[U1] = "prompt"
      BY <1>0, <1>1, <1>2, <2>4, GoodParts
    <3>. QED BY <1>0, <1>1, <2>3, <3>1 DEF Phases, Asks, Late
  <2>5. CASE t = U2
    <3>1. pc'[U2] = "recv" /\ pc'[U1] = pc[U1] /\ pc[U2] = "prompt"
      BY <1>0, <1>1, <1>2, <2>5, GoodParts
    <3>. QED BY <1>0, <1>1, <2>3, <3>1 DEF Phases, Asks, Late
  <2>. QED BY <1>0, <2>4, <2>5
<1>6. Boxes'
  <2>1. Box(t)'
    <3>1. Box(t) /\ mbx[t].msgs = << >>
      BY <1>0, <1>1 DEF Boxes, Box
    <3>. QED BY <1>1, <1>2, <3>1 DEF Box
  <2>2. ASSUME NEW o \in Users, o # t PROVE Box(o)'
    <3>1. o = U1 => t = U2
      BY <2>2 DEF Users
    <3>2. o = U1 => pc[U2] \notin {"exit", "gone"}
      BY <1>1, <3>1
    <3>. QED BY <1>0, <1>1, <1>3, <2>2, <3>2, OtherBox DEF Users
  <2>3. pc'[U1] = "result" /\ pc'[U2] \in {"exit", "gone"} => mbx'[U1].msgs # << >>
    <3>1. ASSUME pc'[U1] = "result", pc'[U2] \in {"exit", "gone"} PROVE FALSE
      BY <1>0, <1>1, <1>2, <3>1, Elsewhere, GoodParts
    <3>. QED BY <3>1
  <2>. QED BY <1>0, <2>1, <2>2, <2>3 DEF Boxes
<1>7. Lines'
  <2>1. PICK k \in Typeable, l \in Typeable : OnTheWay(k, l) /\ Accounted(k, l)
    BY GoodParts DEF Lines, Typeable
  <2>2. Mailed' = Mailed /\ ~Sending' /\ ~Sending
    BY <1>1, <1>2, <1>3, <1>4 DEF Mailed, Sending
  <2>3. Accounted(k, l)'
    <3>1. user.line = u1.i + u2.i + Count(Typed(k, l)) + Count(Sending) + Count(Mailed)
      BY <2>1 DEF Accounted
    <3>2. Count(Sending') = Count(Sending) /\ Count(Mailed') = Count(Mailed)
      BY <2>2 DEF Count
    <3>3. user'.line = u1'.i + u2'.i + Count(Typed(k, l)) + Count(Sending') + Count(Mailed')
      BY <1>1, <3>1, <3>2
    <3>. QED BY <1>4, <2>1, <3>3 DEF Accounted, Typed
  <2>4. user'.line <= prompts'
    <3>1. prompts \in Int
      BY <1>0 DEF Phases, Count
    <3>. QED BY <1>1, <3>1, GoodParts
  <2>. QED BY <1>2, <2>1, <2>3, <2>4 DEF Lines, Typeable
<1>. QED BY <1>2, <1>5, <1>6, <1>7 DEF Obeyed

LEMMA TailOfOne ==
  ASSUME NEW s \in Seq(Letter), Len(s) = 1
  PROVE  Tail(s) = << >>
<1>1. s # << >>
  BY EmptySeq
<1>2. Tail(s) \in Seq(Letter) /\ Len(Tail(s)) = 0
  BY <1>1, HeadTailProperties
<1>. QED BY <1>2, EmptySeq

(* The command that was waited for. *)
LEMMA CommandTaken ==
  ASSUME Good, NEW t \in Users, Taken(t, "recv")
  PROVE  /\ Current = t /\ pc[t] = "recv" /\ UNCHANGED << rx, refused >>
         /\ FirstOf(t).m.length = USER_MSG /\ FirstOf(t).sender = TID_KCD /\ FirstOf(t).m.data = Want
         /\ mbx'[t].msgs = << >> /\ mbx'[t].max = USER_MBX
         /\ mbx'[t].curr = MailBoxSize + USER_MSG * Len(mbx'[t].msgs)
         /\ \A u \in Tid \ {t} : mbx'[u] = mbx[u]
         /\ user.line = prompts /\ prompts = u1.i + u2.i + 1
         /\ \A k, l \in Typeable : Accounted(k, l) => ~Typed(k, l)
<1>1. Current = t /\ pc[t] = "recv" /\ ~IsEmpty(t) /\ t \in Tid
  BY TakenLetter, GoodParts DEF Taken
<1>2. mbx[t].msgs # << >> /\ Box(t)
  BY <1>1, GoodParts DEF IsEmpty, Boxes, Users
<1>3. /\ mbx[t].max = USER_MBX /\ mbx[t].curr = MailBoxSize + USER_MSG * Len(mbx[t].msgs)
      /\ Len(mbx[t].msgs) = 1
      /\ mbx[t].msgs[1].m.length = USER_MSG /\ mbx[t].msgs[1].sender = TID_KCD
      /\ mbx[t].msgs[1].m.data = Want
  BY <1>1, <1>2 DEF Box
<1>4. mbx[t].curr = 28
  BY <1>3, Sizes
<1>5. Removed(t) /\ FirstOf(t) = mbx[t].msgs[1] /\ UNCHANGED << rx, refused >>
  <2>1. mbx[t].msgs[1].m.length <= mbx[t].curr
    BY <1>3, <1>4, Sizes
  <2>. QED BY <2>1, TakenRemoves, GoodParts
<1>6. mbx'[t].msgs = << >> /\ Len(mbx'[t].msgs) = 0
  <2>1. mbx[t].msgs \in Seq(Letter)
    BY <1>1, MailboxesAre, GoodParts
  <2>2. Tail(mbx[t].msgs) = << >>
    BY <1>3, <2>1, TailOfOne
  <2>3. mbx'[t].msgs = << >>
    BY <1>5, <2>2 DEF Removed
  <2>. QED BY <2>3
<1>7. mbx'[t].max = USER_MBX /\ mbx'[t].curr = MailBoxSize + USER_MSG * 0
  BY <1>3, <1>4, <1>5, Sizes DEF Removed
<1>8. Phases
  BY GoodParts
<1>9. t = Awaits
  <2>1. CASE t = U1
    BY <1>1, <2>1 DEF Awaits, Asks
  <2>2. CASE t = U2
    <3>1. pc[U1] \in {"result", "exit", "gone"}
      BY <1>1, <2>2, Elsewhere
    <3>. QED BY <2>2, <3>1 DEF Awaits, Asks
  <2>. QED BY <2>1, <2>2 DEF Users
<1>10. Mailed
  BY <1>2, <1>9 DEF Mailed
<1>11. PICK k \in Typeable, l \in Typeable : Accounted(k, l)
  BY GoodParts DEF Lines, Typeable
<1>12. user.line = prompts /\ \A i, j \in Typeable : Accounted(i, j) => ~Typed(i, j)
  BY <1>10, <1>11, GoodParts, Progress
<1>13. prompts = u1.i + u2.i + 1
  BY <1>1, <1>8 DEF Phases, Count, Users
<1>. QED BY <1>1, <1>3, <1>5, <1>6, <1>7, <1>12, <1>13 DEF Removed

LEMMA U1RecvObeyed ==
  ASSUME Good, U1Recv, UNCHANGED user
  PROVE  Obeyed'
<1>0. Phases /\ U1 \in Users /\ U2 \in Users /\ U1 # U2
  BY GoodParts, Sizes
<1>1. CASE Sleeps(U1, "recv")
  <2>1. UNCHANGED << app, user, mbx, rx, refused >>
    BY <1>1 DEF Sleeps, RecvSleep
  <2>. QED BY <2>1, QuietObeyed, GoodParts
<1>2. CASE ~Sleeps(U1, "recv")
  <2> DEFINE at == IF u1.i + 1 < 2 THEN "prompt" ELSE "turn"
  <2>1. /\ Taken(U1, "recv")
        /\ U1Becomes([i |-> u1.i + 1,
                      eflag |-> u1.eflag + (IF RightCommand(FirstOf(U1), TheC) THEN 0 ELSE 1)], at)
    BY <1>2, U1RecvCases
  <2>2. /\ Current = U1 /\ pc[U1] = "recv" /\ UNCHANGED << rx, refused >>
        /\ FirstOf(U1).m.length = USER_MSG /\ FirstOf(U1).sender = TID_KCD /\ FirstOf(U1).m.data = Want
        /\ mbx'[U1].msgs = << >> /\ mbx'[U1].max = USER_MBX
        /\ mbx'[U1].curr = MailBoxSize + USER_MSG * Len(mbx'[U1].msgs)
        /\ \A u \in Tid \ {U1} : mbx'[u] = mbx[u]
        /\ user.line = prompts /\ prompts = u1.i + u2.i + 1
        /\ \A k, l \in Typeable : Accounted(k, l) => ~Typed(k, l)
    BY <1>0, <2>1, CommandTaken
  <2>3. RightCommand(FirstOf(U1), TheC)
    BY <2>2 DEF RightCommand, Want, Asks
  <2>4. u1.i \in {0, 1} /\ u1.eflag = 0
    BY <1>0, <2>2 DEF Phases, Asks
  <2>5. /\ u1'.i = u1.i + 1 /\ u1'.eflag = 0 /\ u1' \in [i : 0..2, eflag : {0}] /\ Goto(U1, at)
        /\ UNCHANGED << u2, kcd, kcd_buf, turn, prompts, score >>
    BY <2>1, <2>3, <2>4 DEF U1Becomes
  <2>6. at \in {"prompt", "turn"} /\ (at = "prompt" => u1'.i < 2) /\ (at = "turn" => u1'.i = 2)
    BY <2>4, <2>5
  <2>. HIDE DEF at
  <2>61. PICK a : a = at
    OBVIOUS
  <2>7. /\ KcdBox' /\ Registered' /\ \A k, l : OnTheWay(k, l) => OnTheWay(k, l)'
        /\ pc'[TID_KCD] = "recv" /\ pc'[U1] = a /\ \A u \in Tid \ {U1} : pc'[u] = pc[u]
    <3>1. Asks(a) => Asks(pc[U1])
      BY <2>2 DEF Asks
    <3>2. mbx'[TID_KCD] = mbx[TID_KCD] /\ a # "register_d" /\ pc[U1] # "gone" /\ Goto(U1, a)
      BY <2>2, <2>5, <2>6, <2>61, GoodParts
    <3>. QED BY <1>0, <2>2, <2>5, <3>1, <3>2, UserFrame
  <2>8. pc[U2] = "entry" /\ pc'[U2] = "entry" /\ turn = 1
    BY <2>2, <2>7, Elsewhere, GoodParts
  <2>9. Phases'
    <3>1. u2.i = 0 /\ prompts' = u1'.i + u2'.i + 0
      BY <1>0, <2>2, <2>4, <2>5, <2>8 DEF Phases
    <3>2. prompts' = u1'.i + u2'.i + Count(pc'[U1] = "recv" \/ pc'[U2] = "recv")
      BY <2>6, <2>61, <2>7, <2>8, <3>1 DEF Count
    <3>. QED BY <1>0, <2>2, <2>5, <2>6, <2>61, <2>7, <2>8, <3>2 DEF Phases, Asks, Late
  <2>10. Boxes'
    <3>1. Box(U1)'
      BY <2>2, <2>6, <2>61, <2>7 DEF Box
    <3>2. Box(U2)'
      BY <1>0, <2>2, <2>5, <2>8, GoodParts, OtherBox
    <3>. QED BY <2>6, <2>61, <2>7, <3>1, <3>2 DEF Boxes
  <2>11. Lines'
    <3>1. u1'.i + u2'.i = user.line
      BY <1>0, <2>2, <2>4, <2>5 DEF Phases
    <3>. QED BY <2>2, <2>5, <2>6, <2>61, <2>7, <2>8, <2>10, <3>1, LinesSettled
  <2>. QED BY <2>7, <2>9, <2>10, <2>11 DEF Obeyed
<1>. QED BY <1>1, <1>2

LEMMA U1TurnObeyed ==
  ASSUME Good, U1Turn, UNCHANGED user
  PROVE  Obeyed'
<1>0. Phases /\ Boxes /\ U1 \in Users /\ U2 \in Users /\ U1 # U2
  BY GoodParts, Sizes
<1>1. /\ Current = U1 /\ pc[U1] = "turn" /\ Goto(U1, "result") /\ turn' = 2
      /\ UNCHANGED << mbx, rx, refused, u1, u2, kcd, kcd_buf, prompts, score >>
  BY DEF U1Turn, At, msgvars, ipc
<1>2. /\ KcdBox' /\ Registered' /\ \A k, l : OnTheWay(k, l) => OnTheWay(k, l)'
      /\ pc'[TID_KCD] = "recv" /\ pc'[U1] = "result" /\ \A u \in Tid \ {U1} : pc'[u] = pc[u]
  BY <1>0, <1>1, GoodParts, UserFrame DEF Asks
<1>3. pc[U2] = "entry" /\ pc'[U2] = "entry"
  BY <1>1, <1>2, Elsewhere, GoodParts
<1>4. Phases'
  BY <1>0, <1>1, <1>2, <1>3 DEF Phases, Asks, Late
<1>5. Boxes'
  <2>1. Box(U1)'
    <3>1. Box(U1) /\ mbx[U1].msgs = << >>
      BY <1>0, <1>1 DEF Boxes, Box
    <3>. QED BY <1>1, <1>2, <3>1 DEF Box
  <2>2. Box(U2)'
    BY <1>0, <1>1, <1>3, OtherBox
  <2>. QED BY <1>3, <2>1, <2>2 DEF Boxes
<1>6. Lines'
  BY <1>1, <1>2, <1>3, <1>5, LinesBetween
<1>. QED BY <1>2, <1>4, <1>5, <1>6 DEF Obeyed

LEMMA U1ResultObeyed ==
  ASSUME Good, U1Result, UNCHANGED user
  PROVE  Obeyed'
<1>0. Phases /\ Boxes /\ U1 \in Users /\ U2 \in Users /\ U1 # U2
  BY GoodParts, Sizes
<1>1. CASE Sleeps(U1, "result")
  <2>1. UNCHANGED << app, user, mbx, rx, refused >>
    BY <1>1 DEF Sleeps, RecvSleep
  <2>. QED BY <2>1, QuietObeyed, GoodParts
<1>2. CASE ~Sleeps(U1, "result")
  <2>1. /\ Taken(U1, "result")
        /\ U1Becomes([u1 EXCEPT !.eflag = @ + Missed(FirstOf(U1))], "exit")
    BY <1>2, U1ResultCases
  <2>2. Current = U1 /\ pc[U1] = "result" /\ mbx[U1].msgs # << >>
    BY <2>1, TakenLetter, GoodParts DEF Taken, IsEmpty
  <2>3. /\ mbx[U1].max = USER_MBX /\ mbx[U1].curr = MailBoxSize + USER_MSG * Len(mbx[U1].msgs)
        /\ Len(mbx[U1].msgs) = 1 /\ mbx[U1].msgs[1].m.length = USER_MSG
        /\ mbx[U1].msgs[1].sender = U2 /\ mbx[U1].msgs[1].m.data = << 7 >>
        /\ pc[U2] \in {"exit", "gone"}
    BY <1>0, <2>2 DEF Boxes, Box
  <2>4. mbx[U1].curr = 28
    BY <2>3, Sizes
  <2>5. Removed(U1) /\ FirstOf(U1) = mbx[U1].msgs[1] /\ UNCHANGED << rx, refused >>
    <3>1. mbx[U1].msgs[1].m.length <= mbx[U1].curr
      BY <2>3, <2>4, Sizes
    <3>. QED BY <2>1, <3>1, TakenRemoves, GoodParts
  <2>6. Missed(FirstOf(U1)) = 0
    <3>1. FirstOf(U1).m.data[1] = 7
      BY <2>3, <2>5
    <3>. QED BY <2>3, <2>5, <3>1, Sizes DEF Missed
  <2>7. /\ Goto(U1, "exit") /\ u1' = u1
        /\ UNCHANGED << u2, kcd, kcd_buf, turn, prompts, score >>
    BY <1>0, <2>1, <2>6 DEF U1Becomes, Phases
  <2>8. /\ KcdBox' /\ Registered' /\ \A k, l : OnTheWay(k, l) => OnTheWay(k, l)'
        /\ pc'[TID_KCD] = "recv" /\ pc'[U1] = "exit" /\ \A u \in Tid \ {U1} : pc'[u] = pc[u]
    <3>1. mbx'[TID_KCD] = mbx[TID_KCD]
      BY <2>5, GoodParts DEF Removed
    <3>. QED BY <1>0, <2>2, <2>5, <2>7, <3>1, UserFrame DEF Asks
  <2>9. pc'[U2] = pc[U2]
    BY <2>8, GoodParts
  <2>10. Phases'
    BY <1>0, <2>2, <2>3, <2>7, <2>8, <2>9 DEF Phases, Asks, Late
  <2>11. Boxes'
    <3>1. mbx'[U1].msgs = << >>
      <4>1. mbx[U1].msgs \in Seq(Letter)
        BY MailboxesAre, GoodParts
      <4>2. Tail(mbx[U1].msgs) = << >>
        BY <2>3, <4>1, TailOfOne
      <4>. QED BY <2>5, <4>2 DEF Removed
    <3>2. mbx'[U1].max = USER_MBX /\ mbx'[U1].curr = MailBoxSize + USER_MSG * 0 /\ Len(mbx'[U1].msgs) = 0
      <4>1. mbx'[U1].curr = 16
        BY <2>3, <2>4, <2>5, Sizes DEF Removed
      <4>2. Len(mbx'[U1].msgs) = 0
        BY <3>1
      <4>3. mbx'[U1].max = USER_MBX
        BY <2>3, <2>5 DEF Removed
      <4>4. MailBoxSize + USER_MSG * 0 = 16
        BY Sizes
      <4>. QED BY <4>1, <4>2, <4>3, <4>4
    <3>3. Box(U1)'
      BY <2>8, <3>1, <3>2 DEF Box
    <3>4. Box(U2)'
      <4>1. mbx'[U2] = mbx[U2] /\ pc[U2] # "recv"
        BY <2>3, <2>5, GoodParts DEF Removed
      <4>. QED BY <1>0, <2>7, <4>1, OtherBox
    <3>. QED BY <2>8, <3>3, <3>4 DEF Boxes
  <2>12. Lines'
    BY <2>2, <2>3, <2>7, <2>8, <2>9, <2>11, LinesBetween
  <2>. QED BY <2>8, <2>10, <2>11, <2>12 DEF Obeyed
<1>. QED BY <1>1, <1>2

(* The mailbox of a task that exits. *)
LEMMA ExitBox ==
  ASSUME Good, NEW t \in Users, Current = t, pc[t] = "exit", tsk_exit
  PROVE  /\ mbx'[t] = NoMailbox /\ \A u \in Tid \ {t} : mbx'[u] = mbx[u]
         /\ UNCHANGED << rx, refused >>
<1>1. Box(t)
  BY GoodParts DEF Boxes, Users
<1>2. HasMbx(t)
  BY <1>1, Sizes DEF Box, HasMbx
<1>3. mbx' = [mbx EXCEPT ![t] = NoMailbox] /\ UNCHANGED << rx, refused >>
  BY <1>2 DEF tsk_exit
<1>. QED BY <1>3, MailboxesAre, GoodParts

LEMMA U1ExitObeyed ==
  ASSUME Good, U1Exit, UNCHANGED user
  PROVE  Obeyed'
<1>0. Phases /\ Boxes /\ U1 \in Users /\ U2 \in Users /\ U1 # U2
  BY GoodParts, Sizes
<1>1. /\ Current = U1 /\ pc[U1] = "exit" /\ Goto(U1, "gone") /\ tsk_exit /\ score' = 11 - u1.eflag
      /\ UNCHANGED << u1, u2, kcd, kcd_buf, turn, prompts >>
  BY DEF U1Exit, At
<1>2. mbx'[U1] = NoMailbox /\ (\A u \in Tid \ {U1} : mbx'[u] = mbx[u]) /\ UNCHANGED << rx, refused >>
  BY <1>0, <1>1, ExitBox
<1>3. /\ KcdBox' /\ Registered' /\ \A k, l : OnTheWay(k, l) => OnTheWay(k, l)'
      /\ pc'[TID_KCD] = "recv" /\ pc'[U1] = "gone" /\ \A u \in Tid \ {U1} : pc'[u] = pc[u]
  BY <1>0, <1>1, <1>2, GoodParts, UserFrame DEF Asks
<1>4. pc[U2] \in {"exit", "gone"} /\ pc'[U2] = pc[U2]
  BY <1>1, <1>3, Elsewhere, GoodParts
<1>5. Phases'
  <2>1. score' = 11
    BY <1>0, <1>1 DEF Phases
  <2>. QED BY <1>0, <1>1, <1>3, <1>4, <2>1 DEF Phases, Asks, Late
<1>6. Boxes'
  <2>1. Box(U1)'
    BY <1>2, <1>3 DEF Box
  <2>2. Box(U2)'
    BY <1>0, <1>1, <1>2, <1>4, OtherBox, GoodParts
  <2>. QED BY <1>3, <2>1, <2>2 DEF Boxes
<1>7. Lines'
  BY <1>1, <1>3, <1>4, <1>6, LinesBetween
<1>. QED BY <1>3, <1>5, <1>6, <1>7 DEF Obeyed

LEMMA U1StepObeyed ==
  ASSUME Good, U1Step, UNCHANGED user
  PROVE  Obeyed'
BY U1CreateObeyed, U1RegisterObeyed, PromptObeyed, U1RecvObeyed, U1TurnObeyed, U1ResultObeyed,
   U1ExitObeyed, Sizes DEF U1Step

-----------------------------------------------------------------------------
(* utask2. *)

LEMMA U2SpinObeyed ==
  ASSUME Good, U2Spin, UNCHANGED user
  PROVE  Obeyed'
<1>0. Phases /\ Boxes /\ U1 \in Users /\ U2 \in Users /\ U1 # U2
  BY GoodParts, Sizes
<1>1. CASE turn = 1
  BY <1>1, QuietObeyed, GoodParts DEF U2Spin, msgvars, ipc
<1>2. CASE turn # 1
  <2>1. /\ Current = U2 /\ pc[U2] = "entry" /\ Goto(U2, "create")
        /\ UNCHANGED << mbx, rx, refused, u1, u2, kcd, kcd_buf, turn, prompts, score >>
    BY <1>2 DEF U2Spin, At, U2Becomes, msgvars, ipc
  <2>2. /\ KcdBox' /\ Registered' /\ \A k, l : OnTheWay(k, l) => OnTheWay(k, l)'
        /\ pc'[TID_KCD] = "recv" /\ pc'[U2] = "create" /\ \A u \in Tid \ {U2} : pc'[u] = pc[u]
    BY <1>0, <2>1, GoodParts, UserFrame DEF Asks
  <2>3. pc[U1] = "result" /\ pc'[U1] = "result" /\ turn = 2
    BY <1>0, <1>2, <2>1, <2>2, GoodParts DEF Phases
  <2>4. Phases'
    BY <1>0, <2>1, <2>2, <2>3 DEF Phases, Asks, Late
  <2>5. Boxes'
    <3>1. Box(U2)'
      BY <1>0, <2>1, <2>2 DEF Boxes, Box
    <3>2. Box(U1)'
      BY <1>0, <2>1, <2>3, OtherBox
    <3>. QED BY <2>2, <3>1, <3>2 DEF Boxes
  <2>6. Lines'
    BY <2>1, <2>2, <2>3, <2>5, LinesBetween
  <2>. QED BY <2>2, <2>4, <2>5, <2>6 DEF Obeyed
<1>. QED BY <1>1, <1>2

LEMMA U2CreateObeyed ==
  ASSUME Good, U2Create, UNCHANGED user
  PROVE  Obeyed'
<1>0. Phases /\ Boxes /\ U1 \in Users /\ U2 \in Users /\ U1 # U2
  BY GoodParts, Sizes
<1>1. /\ Current = U2 /\ pc[U2] = "create" /\ Goto(U2, "register_c")
      /\ mbx' = [mbx EXCEPT ![U2] = NewMailbox(USER_MBX)]
      /\ u2' = [u2 EXCEPT !.length = HdrSize + 1]
      /\ UNCHANGED << u1, kcd, kcd_buf, turn, prompts, score, rx, refused >>
  BY DEF U2Create, At, U2Becomes, k_mbx_create
<1>2. mbx'[U2] = NewMailbox(USER_MBX) /\ \A u \in Tid \ {U2} : mbx'[u] = mbx[u]
  BY <1>1, MailboxesAre, GoodParts
<1>3. /\ KcdBox' /\ Registered' /\ \A k, l : OnTheWay(k, l) => OnTheWay(k, l)'
      /\ pc'[TID_KCD] = "recv" /\ pc'[U2] = "register_c" /\ \A u \in Tid \ {U2} : pc'[u] = pc[u]
  BY <1>0, <1>1, <1>2, GoodParts, UserFrame DEF Asks
<1>4. pc[U1] = "result" /\ pc'[U1] = "result" /\ turn = 2
  BY <1>0, <1>1, <1>3, GoodParts DEF Phases
<1>5. Phases'
  <2>1. /\ u2' \in [i : 0..4, sflag : 0..7, length : Nat]
        /\ u2'.i = u2.i /\ u2'.sflag = u2.sflag
    BY <1>0, <1>1, Sizes DEF Phases
  <2>. QED BY <1>0, <1>1, <1>3, <1>4, <2>1 DEF Phases, Asks, Late
<1>6. Boxes'
  <2>1. mbx'[U2].msgs = << >> /\ mbx'[U2].max = USER_MBX /\ mbx'[U2].curr = MailBoxSize
    BY <1>2 DEF NewMailbox, NoMailbox
  <2>2. Len(mbx'[U2].msgs) = 0 /\ MailBoxSize = MailBoxSize + USER_MSG * 0
    BY <2>1, Sizes
  <2>3. Box(U2)'
    BY <1>3, <2>1, <2>2 DEF Box
  <2>4. Box(U1)'
    BY <1>0, <1>1, <1>2, <1>4, GoodParts, OtherBox
  <2>. QED BY <1>3, <2>3, <2>4 DEF Boxes
<1>7. Lines'
  <2>1. u2'.i = u2.i /\ u1' = u1
    BY <1>0, <1>1 DEF Phases
  <2>. QED BY <1>1, <1>3, <1>4, <1>6, <2>1, LinesBetween
<1>. QED BY <1>3, <1>5, <1>6, <1>7 DEF Obeyed

(* Either of the two registrations. *)
LEMMA U2RegisterObeyed ==
  ASSUME Good, U2RegisterC \/ U2RegisterD, UNCHANGED user
  PROVE  Obeyed'
<1>0. Phases /\ Boxes /\ Registered /\ U1 \in Users /\ U2 \in Users /\ U1 # U2
  BY GoodParts, Sizes
<1>1. /\ Current = U2 /\ pc[U2] \in {"register_c", "register_d"} /\ At(U2, pc[U2])
  BY DEF U2RegisterC, U2RegisterD, At
<1>2. PICK c \in {"c", "d"}, at \in {"register_d", "prompt"} :
        /\ send_msg(TID_KCD, Registration(c)) /\ U2Becomes(Passed(u2), at)
        /\ IF pc[U2] = "register_c" THEN c = "c" /\ at = "register_d" ELSE c = "d" /\ at = "prompt"
  <2>1. \A c \in {"c", "d"} : Accepts(TID_KCD, Registration(c).length)
    BY <1>0, <1>1, RegistrationAccepted
  <2>2. CASE U2RegisterC
    <3>1. send_msg(TID_KCD, Registration("c")) /\ U2Becomes(Passed(u2), "register_d") /\ pc[U2] = "register_c"
      BY <2>1, <2>2 DEF U2RegisterC, Send, At
    <3>. QED BY <3>1
  <2>3. CASE U2RegisterD
    <3>1. send_msg(TID_KCD, Registration("d")) /\ U2Becomes(Passed(u2), "prompt") /\ pc[U2] = "register_d"
      BY <2>1, <2>3 DEF U2RegisterD, Send, At
    <3>. QED BY <3>1
  <2>. QED BY <2>2, <2>3
<1>3. PICK m : m = Registration(c)
  OBVIOUS
<1>4. PICK x : x = [m |-> m, from |-> U2, sender |-> U2]
  OBVIOUS
<1>5. /\ Posted(TID_KCD, x) /\ x \in Letter /\ x.m = Registration(c) /\ x.sender = U2
      /\ UNCHANGED << rx, refused >>
  BY <1>0, <1>1, <1>2, <1>3, <1>4, RegistrationAccepted
<1>6. /\ Goto(U2, at) /\ u2' = Passed(u2)
      /\ UNCHANGED << u1, kcd, kcd_buf, turn, prompts, score, rx, refused >>
  BY <1>2, <1>5 DEF U2Becomes
<1>7. /\ KcdBox'
      /\ \A k, l \in Typeable : OnTheWay(k, l) => OnTheWay(k, l)'
      /\ \A b, u : InTransit(b, u)' => b = c /\ u = U2
      /\ InTransit(c, U2)'
      /\ \A b, u : Owns(u, b) => Owns(u, b)'
      /\ pc'[TID_KCD] = "recv" /\ pc'[U2] = at /\ \A u \in Tid \ {U2} : pc'[u] = pc[u]
  BY <1>0, <1>1, <1>5, <1>6, RegistrationFrame
<1>8. pc[U1] = "result" /\ pc'[U1] = "result" /\ turn = 2
  BY <1>0, <1>1, <1>7, GoodParts DEF Phases
<1>9. /\ u2.i = 0 /\ u2'.i = 0 /\ u2'.sflag = u2.sflag + 1 /\ u2' \in [i : 0..4, sflag : 0..7, length : Nat]
      /\ u2.sflag = IF pc[U2] = "register_c" THEN 0 ELSE 1
  BY <1>0, <1>1, <1>6 DEF Phases, Passed
<1>10. Phases'
  <2>1. u2'.sflag = IF at = "register_d" THEN 1 ELSE 2 + u2'.i
    BY <1>1, <1>2, <1>9
  <2>. QED BY <1>0, <1>1, <1>6, <1>7, <1>8, <1>9, <2>1 DEF Phases, Asks, Late
<1>11. Registered'
  <2>1. Owns(U2, c)'
    BY <1>7 DEF Owns
  <2>2. at = "register_d" => c = "c"
    BY <1>2
  <2>3. at = "prompt" => Owns(U2, "c")' /\ c = "d"
    <3>1. ASSUME at = "prompt" PROVE Owns(U2, "c") /\ c = "d"
      BY <1>0, <1>1, <1>2, <3>1 DEF Registered
    <3>. QED BY <1>7, <3>1
  <2>4. /\ Asks(pc'[U2]) => Owns(U2, "c")' /\ Owns(U2, "d")'
        /\ pc'[U2] = "register_d" => Owns(U2, "c")'
        /\ ~Asks(pc'[U1])
    BY <1>7, <1>8, <2>1, <2>2, <2>3 DEF Asks
  <2>5. pc'[U2] \notin {"entry", "create", "register_c"}
    BY <1>7
  <2>. QED BY <1>0, <1>6, <1>7, <2>4, <2>5 DEF Registered
<1>12. \A t \in Users : mbx'[t] = mbx[t]
  BY <1>5, GoodParts DEF Posted
<1>13. Boxes'
  <2>1. Box(U1)'
    BY <1>0, <1>1, <1>6, <1>8, <1>12, OtherBox
  <2>2. Box(U2)'
    <3>1. Box(U2) /\ mbx[U2].msgs = << >>
      BY <1>0, <1>1 DEF Boxes, Box
    <3>. QED BY <1>0, <1>1, <1>7, <1>12, <3>1 DEF Box
  <2>. QED BY <1>7, <2>1, <2>2 DEF Boxes
<1>14. Lines'
  <2>1. PICK k \in Typeable, l \in Typeable : Accounted(k, l)
    BY GoodParts DEF Lines, Typeable
  <2>2. \A i, j \in Typeable : Accounted(i, j) => ~Typed(i, j)
    BY <1>1, <1>8, GoodParts, Progress
  <2>3. user.line = u1.i + u2.i
    BY <1>1, <1>8, <2>1, GoodParts, Progress
  <2>. QED BY <1>6, <1>7, <1>8, <1>9, <1>13, <2>2, <2>3, LinesSettled
<1>. QED BY <1>7, <1>10, <1>11, <1>13, <1>14 DEF Obeyed

LEMMA U2RecvObeyed ==
  ASSUME Good, U2Recv, UNCHANGED user
  PROVE  Obeyed'
<1>0. Phases /\ U1 \in Users /\ U2 \in Users /\ U1 # U2
  BY GoodParts, Sizes
<1>1. CASE Sleeps(U2, "recv")
  <2>1. UNCHANGED << app, user, mbx, rx, refused >>
    BY <1>1 DEF Sleeps, RecvSleep
  <2>. QED BY <2>1, QuietObeyed, GoodParts
<1>2. CASE ~Sleeps(U2, "recv")
  <2> DEFINE x == FirstOf(U2)
             u == [u2 EXCEPT !.i = @ + 1,
                             !.length = IF x.m.length > USER_MSG THEN @ ELSE x.m.length]
  <2>1. /\ Taken(U2, "recv")
        /\ U2Becomes(IF RightCommand(x, IF u2.i % 2 = 0 THEN TheC ELSE TheD) THEN Passed(u) ELSE u,
                     IF u2.i + 1 < 4 THEN "prompt" ELSE "set_prio")
    BY <1>2, U2RecvCases
  <2>2. /\ Current = U2 /\ pc[U2] = "recv" /\ UNCHANGED << rx, refused >>
        /\ x.m.length = USER_MSG /\ x.sender = TID_KCD /\ x.m.data = Want
        /\ mbx'[U2].msgs = << >> /\ mbx'[U2].max = USER_MBX
        /\ mbx'[U2].curr = MailBoxSize + USER_MSG * Len(mbx'[U2].msgs)
        /\ \A t \in Tid \ {U2} : mbx'[t] = mbx[t]
        /\ user.line = prompts /\ prompts = u1.i + u2.i + 1
        /\ \A k, l \in Typeable : Accounted(k, l) => ~Typed(k, l)
    BY <1>0, <2>1, CommandTaken
  <2>3. pc[U1] = "result" /\ turn = 2
    BY <1>0, <2>2 DEF Phases
  <2>4. RightCommand(x, IF u2.i % 2 = 0 THEN TheC ELSE TheD)
    BY <2>2, <2>3 DEF RightCommand, Want, Asks
  <2>5. u2.i \in 0..3 /\ u2.sflag = 2 + u2.i /\ u2 \in [i : 0..4, sflag : 0..7, length : Nat]
    BY <1>0, <2>2 DEF Phases, Asks
  <2>6. u.i = u2.i + 1 /\ u.sflag = u2.sflag /\ u.length = 12 /\ u \in [i : 1..4, sflag : 2..5, length : Nat]
    <3>1. x.m.length = USER_MSG /\ ~(x.m.length > USER_MSG) /\ USER_MSG = 12
      BY <2>2, Sizes
    <3>2. u = [u2 EXCEPT !.i = u2.i + 1, !.length = 12]
      BY <3>1
    <3> HIDE DEF u, x
    <3>3. u.i = u2.i + 1 /\ u.sflag = u2.sflag /\ u.length = 12
          /\ u = [i |-> u2.i + 1, sflag |-> u2.sflag, length |-> 12]
      BY <2>5, <3>2
    <3>4. u2.i + 1 \in 1..4 /\ u2.sflag \in 2..5 /\ 12 \in Nat
      BY <2>5
    <3>. QED BY <3>3, <3>4
  <2>7. PICK a \in {"prompt", "set_prio"} :
          /\ a = IF u2.i + 1 < 4 THEN "prompt" ELSE "set_prio"
          /\ Goto(U2, a) /\ u2' = Passed(u)
          /\ UNCHANGED << u1, kcd, kcd_buf, turn, prompts, score >>
    BY <2>1, <2>4 DEF U2Becomes
  <2>. HIDE DEF u, x
  <2>8. /\ u2'.i = u2.i + 1 /\ u2'.sflag = 2 + u2'.i /\ u2'.length = 12
        /\ u2' \in [i : 0..4, sflag : 0..7, length : Nat]
        /\ (a = "prompt" => u2'.i < 4) /\ (a = "set_prio" => u2'.i = 4)
    <3>1. u2' = [u EXCEPT !.sflag = @ + 1]
      BY <2>7 DEF Passed
    <3>2. u2'.i = u.i /\ u2'.sflag = u.sflag + 1 /\ u2'.length = u.length
          /\ u2' \in [i : 0..4, sflag : 0..7, length : Nat]
      BY <2>6, <3>1
    <3>. QED BY <2>5, <2>6, <2>7, <3>2
  <2>9. /\ KcdBox' /\ Registered' /\ \A k, l : OnTheWay(k, l) => OnTheWay(k, l)'
        /\ pc'[TID_KCD] = "recv" /\ pc'[U2] = a /\ \A t \in Tid \ {U2} : pc'[t] = pc[t]
    <3>1. Asks(a) => Asks(pc[U2])
      BY <2>2 DEF Asks
    <3>2. mbx'[TID_KCD] = mbx[TID_KCD] /\ a # "register_d" /\ pc[U2] # "gone" /\ Goto(U2, a)
      BY <2>2, <2>7, GoodParts
    <3>. QED BY <1>0, <2>2, <2>7, <3>1, <3>2, UserFrame
  <2>10. pc'[U1] = "result"
    BY <2>3, <2>9, GoodParts
  <2>11. Phases'
    <3>1. prompts' = u1'.i + u2'.i + 0
      BY <1>0, <2>2, <2>5, <2>7, <2>8 DEF Phases
    <3>2. prompts' = u1'.i + u2'.i + Count(pc'[U1] = "recv" \/ pc'[U2] = "recv")
      BY <2>9, <2>10, <3>1 DEF Count
    <3>. QED BY <1>0, <2>2, <2>3, <2>7, <2>8, <2>9, <2>10, <3>2, Sizes DEF Phases, Asks, Late
  <2>12. Boxes'
    <3>1. Box(U2)'
      BY <2>2, <2>9 DEF Box
    <3>2. Box(U1)'
      BY <1>0, <2>2, <2>3, <2>7, GoodParts, OtherBox
    <3>. QED BY <2>9, <3>1, <3>2 DEF Boxes
  <2>13. Lines'
    <3>1. u1'.i + u2'.i = user.line
      BY <1>0, <2>2, <2>5, <2>7, <2>8 DEF Phases
    <3>. QED BY <2>2, <2>7, <2>9, <2>10, <2>12, <3>1, LinesSettled
  <2>. QED BY <2>9, <2>11, <2>12, <2>13 DEF Obeyed
<1>. QED BY <1>1, <1>2

LEMMA U2SetPrioObeyed ==
  ASSUME Good, U2SetPrio, UNCHANGED user
  PROVE  Obeyed'
<1>0. Phases /\ Boxes /\ U1 \in Users /\ U2 \in Users /\ U1 # U2
  BY GoodParts, Sizes
<1>1. /\ Current = U2 /\ pc[U2] = "set_prio" /\ Goto(U2, "report") /\ u2' = Passed(u2)
      /\ UNCHANGED << u1, kcd, kcd_buf, turn, prompts, score, mbx, rx, refused >>
  BY DEF U2SetPrio, At, U2Becomes, ipc
<1>2. /\ KcdBox' /\ Registered' /\ \A k, l : OnTheWay(k, l) => OnTheWay(k, l)'
      /\ pc'[TID_KCD] = "recv" /\ pc'[U2] = "report" /\ \A u \in Tid \ {U2} : pc'[u] = pc[u]
  BY <1>0, <1>1, UserFrame DEF Asks
<1>3. pc[U1] = "result" /\ pc'[U1] = "result"
  BY <1>1, <1>2, Elsewhere, GoodParts
<1>4. u2'.i = u2.i /\ u2'.sflag = 7 /\ u2'.length = u2.length /\ u2' \in [i : 0..4, sflag : 0..7, length : Nat]
  BY <1>0, <1>1 DEF Phases, Late, Passed
<1>5. Phases'
  BY <1>0, <1>1, <1>2, <1>3, <1>4 DEF Phases, Asks, Late
<1>6. Boxes'
  <2>1. Box(U1)'
    BY <1>0, <1>1, <1>3, OtherBox
  <2>2. Box(U2)'
    BY <1>0, <1>1, <1>2 DEF Box, Boxes
  <2>. QED BY <1>2, <2>1, <2>2 DEF Boxes
<1>7. Lines'
  BY <1>1, <1>2, <1>3, <1>4, <1>6, LinesBetween
<1>. QED BY <1>2, <1>5, <1>6, <1>7 DEF Obeyed

(* The report of utask2 finds utask1 alive, and its mailbox empty. *)
LEMMA ReportAccepted ==
  ASSUME Good, At(U2, "report")
  PROVE  /\ Accepts(U1, u2.length) /\ u2.length = 12 /\ u2.sflag = 7
         /\ mbx[U1].msgs = << >> /\ mbx[U1].max = 28 /\ mbx[U1].curr = 16
         /\ pc[U1] = "result" /\ Current = U2 /\ pc[U2] = "report"
         /\ \A m : m = Message(12, "DEFAULT", << 7 >>) /\ send_msg(U1, m) =>
              Posted(U1, [m |-> m, from |-> U2, sender |-> U2]) /\ UNCHANGED << rx, refused >>
<1>0. Phases /\ Boxes /\ U1 \in Users /\ U2 \in Users /\ U1 # U2 /\ Sound /\ U1 \in Tid
  BY GoodParts, Sizes
<1>1. Current = U2 /\ pc[U2] = "report" /\ TaskRuns /\ gp_current_task = U2
  BY DEF At, Current
<1>2. pc[U1] = "result" /\ u2.length = 12 /\ u2.sflag = 7
  BY <1>0, <1>1, Elsewhere, Sizes DEF Phases, Late, Asks
<1>3. mbx[U1].msgs = << >> /\ mbx[U1].max = 28 /\ mbx[U1].curr = 16
  <2>1. /\ mbx[U1].msgs = << >> /\ mbx[U1].max = USER_MBX
        /\ mbx[U1].curr = MailBoxSize + USER_MSG * Len(mbx[U1].msgs)
    BY <1>0, <1>1, <1>2 DEF Boxes, Box
  <2>2. Len(mbx[U1].msgs) = 0
    BY <2>1
  <2>3. mbx[U1].curr = MailBoxSize + USER_MSG * 0
    BY <2>1, <2>2
  <2>. QED BY <2>1, <2>3, Sizes
<1>4. g_tcbs[U1].state # "DORMANT"
  <2>1. booted = 4
    BY <1>1, Fixed DEF TaskRuns, Up
  <2>. QED BY <1>0, <1>2, <2>1, UsersAlive
<1>5. Accepts(U1, 12)
  <2>1. 28 < SIZEMOD /\ 16 + 12 <= 28 /\ 12 \in Nat /\ 12 > 0 /\ 28 # 0
    BY Sizes
  <2>. QED BY <1>0, <1>3, <1>4, <2>1, RoomAccepts
<1>6. interrupt_flag = FALSE
  <2>1. interrupt_flag \in BOOLEAN /\ ~interrupt_flag
    BY <1>0, <1>1, UserActs, GoodParts DEF Sound, MsgInv, MsgTypeOK
  <2>. QED BY <2>1
<1>7. ASSUME NEW m, m = Message(12, "DEFAULT", << 7 >>), send_msg(U1, m)
      PROVE  Posted(U1, [m |-> m, from |-> U2, sender |-> U2]) /\ UNCHANGED << rx, refused >>
  <2>1. Deliver(U1, m, interrupt_flag, Current) /\ UNCHANGED << rx, refused >>
    BY <1>7 DEF send_msg
  <2>2. m \in RtxMsg /\ m.length = 12 /\ U2 \in Sender
    <3>1. 12 \in Length
      <4>1. u2.length \in Length
        BY <1>0, <1>2 DEF Sound, AppOK
      <4>. QED BY <1>2, <4>1
    <3>2. m \in RtxMsg
      <4>1. m = Report(u2)
        BY <1>2, <1>7, Sizes DEF Report
      <4>. QED BY <1>2, <3>1, <4>1, MessagesFit
    <3>3. m.length = 12
      BY <1>7 DEF Message
    <3>. QED BY <3>2, <3>3, GoodParts DEF Sender
  <2>3. mbx[U1].curr + m.length < SIZEMOD
    BY <1>3, <2>2, Sizes
  <2>4. Deliver(U1, m, FALSE, U2) /\ FALSE \in BOOLEAN
    BY <1>1, <1>6, <2>1
  <2>5. Posted(U1, [m |-> m, from |-> U2, sender |-> IF FALSE THEN TID_UART_IRQ ELSE Current])
    BY <1>0, <2>2, <2>3, <2>4, DeliverPosts
  <2>. QED BY <1>1, <2>1, <2>5
<1>. QED BY <1>1, <1>2, <1>3, <1>5, <1>7

LEMMA U2ReportObeyed ==
  ASSUME Good, U2Report, UNCHANGED user
  PROVE  Obeyed'
<1>0. Phases /\ Boxes /\ U1 \in Users /\ U2 \in Users /\ U1 # U2 /\ U1 \in Tid /\ U2 \in Tid
  BY GoodParts, Sizes
<1>1. At(U2, "report")
  BY DEF U2Report
<1>2. /\ Accepts(U1, u2.length) /\ u2.length = 12 /\ u2.sflag = 7
      /\ mbx[U1].msgs = << >> /\ mbx[U1].max = 28 /\ mbx[U1].curr = 16
      /\ pc[U1] = "result" /\ Current = U2 /\ pc[U2] = "report"
      /\ \A m : m = Message(12, "DEFAULT", << 7 >>) /\ send_msg(U1, m) =>
           Posted(U1, [m |-> m, from |-> U2, sender |-> U2]) /\ UNCHANGED << rx, refused >>
  BY <1>1, ReportAccepted
<1>3. PICK m : m = Message(12, "DEFAULT", << 7 >>)
  OBVIOUS
<1>4. send_msg(U1, m) /\ U2Becomes(u2, "exit")
  <2>1. Report(u2) = m
    BY <1>2, <1>3, Sizes DEF Report
  <2>2. m.length = u2.length
    BY <1>2, <1>3 DEF Message
  <2>. QED BY <1>2, <2>1, <2>2 DEF U2Report, Send
<1>5. PICK x : x = [m |-> m, from |-> U2, sender |-> U2]
  OBVIOUS
<1>6. Posted(U1, x) /\ UNCHANGED << rx, refused >>
  BY <1>2, <1>3, <1>4, <1>5
<1>7. x.m.length = 12 /\ x.sender = U2 /\ x.m.data = << 7 >>
  BY <1>3, <1>5 DEF Message
<1>8. Goto(U2, "exit") /\ UNCHANGED << u1, u2, kcd, kcd_buf, turn, prompts, score >>
  BY <1>4 DEF U2Becomes
<1>9. /\ KcdBox' /\ Registered' /\ \A k, l : OnTheWay(k, l) => OnTheWay(k, l)'
      /\ pc'[TID_KCD] = "recv" /\ pc'[U2] = "exit" /\ \A u \in Tid \ {U2} : pc'[u] = pc[u]
  <2>1. mbx'[TID_KCD] = mbx[TID_KCD]
    BY <1>6, GoodParts DEF Posted
  <2>2. ~Asks("exit")
    BY DEF Asks
  <2>. QED BY <1>0, <1>2, <1>6, <1>8, <2>1, <2>2, UserFrame
<1>10. pc'[U1] = "result"
  BY <1>0, <1>2, <1>9
<1>11. Phases'
  BY <1>0, <1>2, <1>8, <1>9, <1>10 DEF Phases, Asks, Late
<1>12. Boxes'
  <2>1. mbx'[U1].msgs = << x >>
    BY <1>2, <1>6 DEF Posted
  <2>2. mbx'[U1].max = 28 /\ mbx'[U1].curr = 28
    BY <1>2, <1>6, <1>7 DEF Posted
  <2>3. Len(mbx'[U1].msgs) = 1 /\ mbx'[U1].msgs[1] = x /\ mbx'[U1].msgs # << >>
    BY <2>1
  <2>4. MailBoxSize + USER_MSG * 1 = 28 /\ USER_MBX = 28 /\ USER_MSG = 12
    BY Sizes
  <2>5. /\ mbx'[U1].max = USER_MBX
        /\ mbx'[U1].curr = MailBoxSize + USER_MSG * Len(mbx'[U1].msgs)
    BY <2>2, <2>3, <2>4
  <2>6. Box(U1)'
    BY <1>7, <1>9, <1>10, <2>3, <2>4, <2>5 DEF Box
  <2>7. Box(U2)'
    <3>1. mbx'[U2] = mbx[U2]
      BY <1>0, <1>6 DEF Posted
    <3>2. Box(U2) /\ mbx[U2].msgs = << >>
      BY <1>0, <1>2 DEF Boxes, Box
    <3>. QED BY <1>0, <1>2, <1>9, <3>1, <3>2 DEF Box
  <2>. QED BY <2>3, <2>6, <2>7 DEF Boxes
<1>13. Lines'
  BY <1>2, <1>8, <1>9, <1>10, <1>12, LinesBetween
<1>. QED BY <1>9, <1>11, <1>12, <1>13 DEF Obeyed

LEMMA U2ExitObeyed ==
  ASSUME Good, U2Exit, UNCHANGED user
  PROVE  Obeyed'
<1>0. Phases /\ Boxes /\ U1 \in Users /\ U2 \in Users /\ U1 # U2 /\ U1 \in Tid /\ U2 \in Tid
  BY GoodParts, Sizes
<1>1. /\ Current = U2 /\ pc[U2] = "exit" /\ Goto(U2, "gone") /\ tsk_exit
      /\ UNCHANGED << u1, u2, kcd, kcd_buf, turn, prompts, score >>
  BY DEF U2Exit, At, U2Becomes
<1>2. mbx'[U2] = NoMailbox /\ (\A u \in Tid \ {U2} : mbx'[u] = mbx[u]) /\ UNCHANGED << rx, refused >>
  BY <1>0, <1>1, ExitBox
<1>3. /\ KcdBox' /\ Registered' /\ \A k, l : OnTheWay(k, l) => OnTheWay(k, l)'
      /\ pc'[TID_KCD] = "recv" /\ pc'[U2] = "gone" /\ \A u \in Tid \ {U2} : pc'[u] = pc[u]
  BY <1>0, <1>1, <1>2, GoodParts, UserFrame DEF Asks
<1>4. pc[U1] \in {"result", "exit", "gone"} /\ pc'[U1] = pc[U1]
  BY <1>0, <1>1, <1>3, Elsewhere
<1>5. Phases'
  BY <1>0, <1>1, <1>3, <1>4 DEF Phases, Asks, Late
<1>6. Boxes'
  <2>1. Box(U2)'
    BY <1>2, <1>3 DEF Box
  <2>2. Box(U1)'
    BY <1>0, <1>1, <1>2, <1>4, OtherBox
  <2>3. mbx'[U1] = mbx[U1]
    BY <1>0, <1>2
  <2>. QED BY <1>0, <1>1, <1>4, <2>1, <2>2, <2>3 DEF Boxes
<1>7. Lines'
  BY <1>1, <1>3, <1>4, <1>6, LinesBetween
<1>. QED BY <1>3, <1>5, <1>6, <1>7 DEF Obeyed

LEMMA U2StepObeyed ==
  ASSUME Good, U2Step, UNCHANGED user
  PROVE  Obeyed'
BY U2SpinObeyed, U2CreateObeyed, U2RegisterObeyed, PromptObeyed, U2RecvObeyed, U2SetPrioObeyed,
   U2ReportObeyed, U2ExitObeyed, Sizes DEF U2Step

LEMMA ObeyedStep ==
  ASSUME Good, [Test2Next]_t2vars, ~IrqTears, ~BeginBare
  PROVE  Obeyed'
<1>1. CASE Cpu
  BY <1>1, CpuRestObeyed, KcdStepObeyed, U1StepObeyed, U2StepObeyed DEF Cpu
<1>2. CASE Interrupt \/ UNCHANGED t2vars
  <2>1. UNCHANGED user
    BY <1>2 DEF Interrupt, t2vars
  <2>. QED BY <1>2, <2>1, CpuRestObeyed
<1>. QED BY <1>1, <1>2, PressObeyed, BeginScriptObeyed, BeginJunkObeyed DEF Test2Next

-----------------------------------------------------------------------------
(* Nor does it crash: utask1 waits for the report when its priority is set. *)
LEMMA StaysSound ==
  ASSUME Good, [Test2Next]_t2vars
  PROVE  ~wild'
<1>1. Sound /\ PcOK
  BY DEF Good
<1>2. U2SetPrio => pc[U1] = "result"
  <2>1. U2SetPrio => pc[U2] = "set_prio"
    BY DEF U2SetPrio, At
  <2>. QED BY <2>1, Elsewhere
<1>3. [MsgStep]_msgvars
  BY <1>1, <1>2, StepCalls
<1>. QED BY <1>1, <1>3, SoundIs, KernelKept DEF Kernel, SchedInv

LEMMA PersonStep ==
  ASSUME user \in Person, [Test2Next]_t2vars
  PROVE  /\ user' \in Person /\ user'.hasty = user.hasty
         /\ user.junk => user'.junk
         /\ user.bare => user'.bare
         /\ BeginBare => user'.bare
<1>1. user.line \in 0..6 /\ user.left \in Seq(Char)
  BY DEF Person
<1>2. CASE BeginBare
  <2>1. PICK line \in BareLines : user' = [[user EXCEPT !.bare = TRUE] EXCEPT !.left = line]
    BY <1>2 DEF BeginBare, Begin
  <2>2. line \in Seq(Char)
    BY <2>1, LinesTyped
  <2>. QED BY <2>1, <2>2 DEF Person
<1>3. CASE ~BeginBare
  <2>1. CASE UNCHANGED user
    BY <1>3, <2>1
  <2>2. CASE BeginScript
    <3>1. Len(Script) = 6
      BY LinesAssumption
    <3>2. user.line + 1 \in 1..6
      BY <1>1, <2>2, <3>1 DEF BeginScript
    <3>3. Script[user.line + 1] \in Seq(Char) /\ user.line + 1 \in 0..6
      BY <3>1, <3>2, LinesTyped
    <3>4. user' = [[user EXCEPT !.line = @ + 1] EXCEPT !.left = Script[user.line + 1]]
      BY <2>2 DEF BeginScript, Begin
    <3>. QED BY <1>3, <3>3, <3>4 DEF Person
  <2>3. CASE BeginJunk
    <3>1. PICK line \in Junk : user' = [[user EXCEPT !.junk = TRUE] EXCEPT !.left = line]
      BY <2>3 DEF BeginJunk, Begin
    <3>2. line \in Seq(Char)
      BY <3>1, LinesTyped
    <3>. QED BY <1>3, <3>1, <3>2 DEF Person
  <2>4. CASE Press
    <3>1. user' = [user EXCEPT !.left = Tail(@)] /\ user.left # << >>
      BY <2>4 DEF Press
    <3>2. Tail(user.left) \in Seq(Char)
      BY <1>1, <3>1
    <3>. QED BY <1>3, <3>1, <3>2 DEF Person
  <2>. QED BY <1>3, <2>1, <2>2, <2>3, <2>4 DEF Test2Next, Cpu, Interrupt, t2vars
<1>. QED BY <1>2, <1>3

LEMMA InvBInit == Test2Init => InvB
<1>. SUFFICES ASSUME Test2Init PROVE InvB
  OBVIOUS
<1>1. /\ pc = [t \in Tid |-> "entry"] /\ u1 = [i |-> 0, eflag |-> 0]
      /\ u2 = [i |-> 0, sflag |-> 0, length |-> 0]
      /\ kcd = KcdInit /\ turn = 1 /\ prompts = 0 /\ score = NotYet
      /\ mbx = [t \in Tid |-> NoMailbox] /\ rx = << >> /\ refused = FALSE /\ wild = FALSE
  BY DEF Test2Init, MsgInit, Init
<1>2. /\ user.hasty \in BOOLEAN /\ user.line = 0 /\ user.left = << >> /\ user.junk = FALSE
      /\ user \in Person
  <2>1. user \in [hasty : BOOLEAN, line : {0}, left : {<< >>}, junk : {FALSE}, bare : {FALSE}]
    BY DEF Test2Init
  <2>2. << >> \in Seq(Char) /\ FALSE \in BOOLEAN /\ 0 \in 0..6
    BY EmptySeq
  <2>3. \E h \in BOOLEAN : user = [hasty |-> h, line |-> 0, left |-> << >>, junk |-> FALSE, bare |-> FALSE]
    BY <2>1
  <2>. QED BY <2>2, <2>3 DEF Person
<1>3. /\ U1 \in Tid /\ U2 \in Tid /\ TID_KCD \in Tid
      /\ pc[U1] = "entry" /\ pc[U2] = "entry" /\ pc[TID_KCD] = "entry"
      /\ mbx[U1] = NoMailbox /\ mbx[U2] = NoMailbox /\ mbx[TID_KCD] = NoMailbox
  BY <1>1, Fixed
<1>4. KcdMsgs = << >> /\ HeadReg = 0 /\ Handled = 0 /\ InBuf = kcd.tail /\ kcd.tail = 0
  BY <1>1, <1>3 DEF KcdMsgs, HeadReg, Handled, InBuf, NoMailbox, KcdInit
<1>5. \A c, t : ~InTransit(c, t)
  BY <1>3, <1>4 DEF InTransit
<1>6. Phases
  <2>1. Count(pc[U1] = "recv" \/ pc[U2] = "recv") = 0
    BY <1>3 DEF Count
  <2>. QED BY <1>1, <1>3, <2>1 DEF Phases, Asks, Late, NotYet
<1>7. Registered
  <2>1. \A c \in Char : kcd.cmd_ids[c] = NoCommand
    BY <1>1 DEF KcdInit
  <2>2. "c" \in Char /\ "d" \in Char
    BY LinesAssumption, KcdAssumption
  <2>. QED BY <1>3, <1>5, <2>1, <2>2 DEF Registered, Asks
<1>8. KcdBox
  BY <1>1, <1>2, <1>3, <1>4 DEF KcdBox, Starting
<1>9. Boxes
  BY <1>3 DEF Boxes, Box
<1>10. Lines
  <2>1. ~Sending /\ ~Mailed /\ ~Typed(<< >>, << >>)
    <3>1. mbx[Awaits].msgs = << >>
      BY <1>3 DEF Awaits, NoMailbox
    <3>2. << >> \notin Tests
      BY TestLines
    <3>. QED BY <1>3, <3>1, <3>2 DEF Sending, Mailed, Typed
  <2>2. << >> \notin Junk
    BY LinesAssumption DEF NoCommandOfTest
  <2>3. Accounted(<< >>, << >>)
    <3>1. Count(Typed(<< >>, << >>)) = 0 /\ Count(Sending) = 0 /\ Count(Mailed) = 0
      BY <2>1 DEF Count
    <3>2. u1.i + u2.i = 0
      BY <1>1
    <3>3. user.line = u1.i + u2.i + 0 + 0 + 0
      BY <1>2, <3>2
    <3>. QED BY <2>1, <2>2, <3>1, <3>3 DEF Accounted, Typed
  <2>4. OnTheWay(<< >>, << >>)
    <3>1. PICK w, n : w = Both(<< >>, << >>) /\ n = 0
      OBVIOUS
    <3>2. Len(w) = 0
      <4>1. w = [i \in 1..(Len(<< >>) + Len(<< >>)) |-> 0]
        BY <3>1 DEF Both
      <4>. QED BY <4>1
    <3>3. KeysAre(w, n)
      <4>1. PICK s, r, l, b : s = << >> /\ r = << >> /\ l = << >> /\ b = kcd_buf.m
        OBVIOUS
      <4>2. Len(s) = 0 /\ Len(r) = 0 /\ Len(l) = 0
        BY <4>1
      <4>3. Way(w, n, 0, 0, b, s, r, l)
        BY <3>1, <3>2, <4>2 DEF Way
      <4>. QED BY <1>1, <1>2, <1>4, <4>1, <4>3 DEF KeysAre
    <3>4. Stored(<< >>, 0)
      BY DEF Stored
    <3>. QED BY <1>4, <3>1, <3>3, <3>4 DEF OnTheWay
  <2>5. pc[TID_KCD] # "send" /\ user.line <= prompts
    BY <1>1, <1>2, <1>3
  <2>. QED BY <2>3, <2>4, <2>5 DEF Lines
<1>11. ~Torn
  BY <1>3 DEF Torn
<1>. QED BY <1>1, <1>2, <1>6, <1>7, <1>8, <1>9, <1>10, <1>11 DEF InvB, Obeyed

LEMMA InvBStep ==
  ASSUME InvA, InvB, [Test2Next]_t2vars
  PROVE  InvB'
<1>1. /\ user' \in Person /\ user'.hasty = user.hasty
      /\ user.junk => user'.junk
      /\ user.bare => user'.bare
      /\ BeginBare => user'.bare
  BY PersonStep DEF InvB
<1>2. CASE Torn
  <2>1. Torn'
    BY <1>2 DEF Test2Next, Cpu, Interrupt, BeginScript, BeginJunk, BeginBare, Press, t2vars,
                app, Torn
  <2>. QED BY <1>1, <1>2, <2>1 DEF InvB
<1>3. ASSUME ~Torn, ~user'.hasty, ~user'.bare
      PROVE  IF Torn' THEN user'.junk ELSE ~wild' /\ Obeyed'
  <2>1. Good /\ ~BeginBare
    BY <1>1, <1>3 DEF InvA, InvB, Good, PcOK
  <2>2. CASE IrqTears
    <3>1. Torn'
      BY <2>1, <2>2, GotoIs, GoodParts DEF IrqTears, KcdBecomes, Torn
    <3>2. user.junk
      BY <2>1, <2>2, TearNeedsJunk
    <3>. QED BY <1>1, <3>1, <3>2
  <2>3. CASE ~IrqTears
    <3>1. ~wild' /\ Obeyed'
      BY <2>1, <2>3, StaysSound, ObeyedStep
    <3>2. ~Torn'
      BY <3>1 DEF Obeyed, KcdBox, Torn
    <3>. QED BY <3>1, <3>2
  <2>. QED BY <2>2, <2>3
<1>. QED BY <1>1, <1>2, <1>3 DEF InvB

(* Whoever types what the test asks for, when it asks for it, passes all    *)
(* eleven checks and crashes nothing, whenever the keys arrive and with a   *)
(* line of junk at any place among them, be it no bare Enter.  If a key     *)
(* tears the heap there was such a line.                                    *)
THEOREM PassIfObeyedHolds == Test2Spec => []PassIfObeyed
<1>1. InvB => PassIfObeyed
  BY DEF InvB, Obeyed, Phases, KcdBox, PassIfObeyed, Crashed
<1>2. InvA /\ InvB /\ [Test2Next]_t2vars => InvB'
  BY InvBStep
<1>. QED BY <1>1, <1>2, InvAHolds, InvBInit, PTL DEF Test2Spec

=============================================================================
