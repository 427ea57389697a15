------------------------- MODULE Test2CommandProofs --------------------------
(***************************************************************************)
(* The commands that kcd_task sends in TEST 2 are lines typed, in order,   *)
(* for everybody at the keyboard who types no bare line, until the heap is *)
(* torn.  InvC is inductive with InvA and InvB.                            *)
(* The keys of a hasty person are one stream: what has been handled, in    *)
(* kcd_buf, in the mailbox, in the receiver and to be typed is what the    *)
(* script says (Reading), whatever becomes of a line.  For one who is not  *)
(* hasty a line is answered before the next is begun (Answered).           *)
(***************************************************************************)
EXTENDS Test2PassProofs

-----------------------------------------------------------------------------
(* The commands sent are lines of the script in their order.  KeysOf is what *)
(* the first n lines are made of.                                           *)
KeysOf(n) == [i \in 1..(6 * n) |-> Script[((i - 1) \div 6) + 1][((i - 1) % 6) + 1]]

LEMMA LineOf ==
  \A m \in 0..5, j \in 1..6 :
    (((6 * m + j) - 1) \div 6) + 1 = m + 1 /\ (((6 * m + j) - 1) % 6) + 1 = j
OBVIOUS

LEMMA PlaceOf ==
  \A n \in 0..6 : \A i \in 1..(6 * n) : \E m \in 0..5, j \in 1..6 : m < n /\ i = 6 * m + j
<1>. SUFFICES ASSUME NEW n \in 0..6, NEW i \in 1..(6 * n)
              PROVE  \E m \in 0..5, j \in 1..6 : m < n /\ i = 6 * m + j
  OBVIOUS
<1>1. PICK m \in 0..5 : 6 * m < i /\ i <= 6 * m + 6
  <2>1. i \in 1..36
    OBVIOUS
  <2>. QED BY <2>1
<1>2. i - 6 * m \in 1..6 /\ m < n /\ i = 6 * m + (i - 6 * m)
  BY <1>1
<1>. QED BY <1>2

LEMMA ScriptIs ==
  /\ Len(Script) = 6
  /\ \A i \in 1..6 : Script[i] \in Tests
  /\ \A w \in Tests : /\ w \in Seq(Char) /\ Len(w) = 6 /\ w[1] = PERCENT /\ w[6] = CR
                      /\ \A j \in 1..6 : w[j] \in Char /\ (w[j] = CR <=> j = 6)
                      /\ \A j \in 2..6 : w[j] # PERCENT
<1>1. Len(Script) = 6 /\ \A i \in 1..6 : Script[i] \in Tests
  BY LinesAssumption DEF Tests, LineC, LineD
<1>2. ASSUME NEW w \in Tests
      PROVE  /\ w \in Seq(Char) /\ Len(w) = 6 /\ w[1] = PERCENT /\ w[6] = CR
             /\ \A j \in 1..6 : w[j] \in Char /\ (w[j] = CR <=> j = 6)
             /\ \A j \in 2..6 : w[j] # PERCENT
  <2>1. /\ w \in Seq(Char) /\ Len(w) = 6
        /\ w[1] = PERCENT /\ w[3] = "G" /\ w[4] = "T" /\ w[5] = "A" /\ w[6] = CR
        /\ w[2] \in {"c", "d"}
    BY TestLines DEF Tests
  <2>2. \A j \in 1..6 : j = 1 \/ j = 2 \/ j = 3 \/ j = 4 \/ j = 5 \/ j = 6
    OBVIOUS
  <2>3. \A j \in 1..6 : w[j] = CR <=> j = 6
    BY <2>1, <2>2 DEF CR, PERCENT
  <2>4. \A j \in 2..6 : w[j] # PERCENT
    <3>1. \A j \in 2..6 : j = 2 \/ j = 3 \/ j = 4 \/ j = 5 \/ j = 6
      OBVIOUS
    <3>. QED BY <2>1, <3>1 DEF CR, PERCENT
  <2>5. \A j \in 1..6 : w[j] \in Char
    <3>1. \A j \in 1..Len(w) : w[j] \in Char
      BY <2>1, ElementOfSeq
    <3>. QED BY <2>1, <3>1
  <2>. QED BY <2>1, <2>3, <2>4, <2>5
<1>. QED BY <1>1, <1>2

LEMMA KeysOfIs ==
  ASSUME NEW n \in 0..6
  PROVE  /\ KeysOf(n) \in Seq(Char) /\ Len(KeysOf(n)) = 6 * n
         /\ \A m \in 0..5, j \in 1..6 : m < n => KeysOf(n)[6 * m + j] = Script[m + 1][j]
<1> DEFINE w == KeysOf(n)
<1>1. ASSUME NEW m \in 0..5, NEW j \in 1..6, m < n
      PROVE  w[6 * m + j] = Script[m + 1][j]
  <2>1. 6 * m + j \in 1..(6 * n)
    BY <1>1
  <2>. QED BY <2>1, LineOf DEF KeysOf
<1>2. \A i \in 1..(6 * n) : w[i] \in Char
  <2>1. ASSUME NEW i \in 1..(6 * n) PROVE w[i] \in Char
    <3>1. PICK m \in 0..5, j \in 1..6 : m < n /\ i = 6 * m + j
      BY PlaceOf
    <3>2. m + 1 \in 1..6
      OBVIOUS
    <3>. QED BY <1>1, <3>1, <3>2, ScriptIs, ZenonT(40)
  <2>. QED BY <2>1
<1>3. 6 * n \in Nat /\ w \in [1..(6 * n) -> Char]
  <2>1. w = [i \in 1..(6 * n) |-> w[i]]
    BY DEF KeysOf
  <2>. HIDE DEF w
  <2>. QED BY <1>2, <2>1
<1>4. w \in Seq(Char) /\ Len(w) = 6 * n
  <2>. HIDE DEF w
  <2>. QED BY <1>3
<1>. QED BY <1>1, <1>4

LEMMA KeysOfNext ==
  ASSUME NEW n \in 0..5
  PROVE  KeysOf(n + 1) = Both(KeysOf(n), Script[n + 1])
<1> DEFINE v == KeysOf(n + 1)
           k == KeysOf(n)
           l == Script[n + 1]
           b == Both(k, l)
<1>1. n + 1 \in 0..6 /\ n \in 0..6 /\ n + 1 \in 1..6 /\ l \in Seq(Char) /\ Len(l) = 6
  BY ScriptIs
<1>2. /\ v \in Seq(Char) /\ Len(v) = 6 * (n + 1)
      /\ k \in Seq(Char) /\ Len(k) = 6 * n
      /\ \A m \in 0..5, j \in 1..6 : m < n + 1 => v[6 * m + j] = Script[m + 1][j]
      /\ \A m \in 0..5, j \in 1..6 : m < n => k[6 * m + j] = Script[m + 1][j]
  BY <1>1, KeysOfIs
<1>3. /\ b \in Seq(Char) /\ Len(b) = Len(k) + Len(l)
      /\ \A i \in 1..Len(k) : b[i] = k[i]
      /\ \A i \in 1..Len(l) : b[Len(k) + i] = l[i]
  BY <1>1, <1>2, BothIs
<1>. HIDE DEF v, k, b
<1>4. Len(b) = Len(v) /\ Len(v) = 6 * (n + 1)
  BY <1>1, <1>2, <1>3
<1>5. ASSUME NEW i \in 1..(6 * (n + 1)) PROVE v[i] = b[i]
  <2>1. PICK m \in 0..5, j \in 1..6 : m < n + 1 /\ i = 6 * m + j
    BY <1>1, PlaceOf
  <2>2. CASE m < n
    <3>0. Len(k) = 6 * n
      BY <1>2
    <3>1. i \in 1..Len(k)
      BY <2>1, <2>2, <3>0
    <3>2. v[6 * m + j] = k[6 * m + j]
      <4>1. v[6 * m + j] = Script[m + 1][j]
        BY <1>2, <2>1
      <4>2. k[6 * m + j] = Script[m + 1][j]
        BY <1>2, <2>2
      <4>. QED BY <4>1, <4>2
    <3>3. b[i] = k[i]
      BY <1>3, <3>1
    <3>. QED BY <2>1, <3>2, <3>3
  <2>3. CASE ~(m < n)
    <3>1. m = n /\ i = Len(k) + j /\ j \in 1..Len(l)
      BY <1>1, <1>2, <2>1, <2>3
    <3>2. v[i] = l[j]
      BY <1>2, <2>1, <3>1, ZenonT(40)
    <3>. QED BY <1>3, <3>1, <3>2
  <2>. QED BY <2>2, <2>3
<1>6. v = b
  <2>1. \A i \in 1..Len(v) : v[i] = b[i]
    BY <1>4, <1>5
  <2>2. v \in Seq(Char) /\ b \in Seq(Char) /\ Len(b) = Len(v)
    BY <1>2, <1>3, <1>4
  <2>. QED BY <2>1, <2>2
<1>. QED BY <1>6 DEF v, b, k

(* Where line m + 1 ends. *)
LEMMA KeysOfEnd ==
  ASSUME NEW n \in 0..6, NEW m \in Nat, NEW i \in Nat, 6 * m < i, i <= 6 * m + 6, i <= 6 * n
  PROVE  /\ m \in 0..5 /\ m < n
         /\ KeysOf(n)[i] = CR <=> i = 6 * m + 6
         /\ i # 6 * m + 1 => KeysOf(n)[i] # PERCENT
<1>1. m \in 0..5 /\ m < n /\ i - 6 * m \in 1..6 /\ i = 6 * m + (i - 6 * m) /\ m + 1 \in 1..6
  OBVIOUS
<1>2. KeysOf(n)[i] = Script[m + 1][i - 6 * m]
  <2>1. PICK j \in 1..6 : j = i - 6 * m
    BY <1>1
  <2>2. i = 6 * m + j
    BY <2>1
  <2>. QED BY <1>1, <2>1, <2>2, KeysOfIs
<1>3. PICK j \in 1..6 : j = i - 6 * m
  BY <1>1
<1>4. i = 6 * m + 6 <=> j = 6
  BY <1>3
<1>5. i # 6 * m + 1 => j \in 2..6
  BY <1>3
<1>. QED BY <1>1, <1>2, <1>3, <1>4, <1>5, ScriptIs

-----------------------------------------------------------------------------
(* One more command. *)
LEMMA SentMore ==
  ASSUME NEW n \in Nat, NEW k \in Nat, n <= k, SentInOrder(n)
  PROVE  SentInOrder(k)
<1>1. 1..n \subseteq 1..k
  OBVIOUS
<1>. QED BY <1>1 DEF SentInOrder

LEMMA SentKept ==
  ASSUME NEW n, SentInOrder(n), UNCHANGED commands
  PROVE  SentInOrder(n)'
BY DEF SentInOrder

LEMMA SentNext ==
  ASSUME NEW n \in Nat, SentInOrder(n), commands \in Seq(Seq(Char)),
         NEW x \in Seq(Char), x = TextOf(Script[n + 1]), commands' = Append(commands, x)
  PROVE  SentInOrder(n + 1)' /\ commands' \in Seq(Seq(Char))
<1>1. PICK sent \in SUBSET (1..n) :
        /\ Len(commands) = Cardinality(sent)
        /\ \A i \in sent : commands[Cardinality(sent \cap 1..i)] = TextOf(Script[i])
  BY DEF SentInOrder
<1> DEFINE more == sent \cup {n + 1}
<1>2. IsFiniteSet(sent) /\ n + 1 \notin sent
  <2>1. IsFiniteSet(1..n)
    BY FS_Interval
  <2>2. IsFiniteSet(sent)
    BY <2>1, FS_Subset
  <2>. QED BY <2>2
<1>3. IsFiniteSet(more) /\ Cardinality(more) = Cardinality(sent) + 1 /\ Cardinality(sent) \in Nat
  BY <1>2, FS_AddElement, FS_CardinalityType
<1>4. more \in SUBSET (1..(n + 1))
  OBVIOUS
<1>5. /\ Len(commands') = Len(commands) + 1 /\ commands'[Len(commands) + 1] = x
      /\ \A c \in 1..Len(commands) : commands'[c] = commands[c]
      /\ commands' \in Seq(Seq(Char))
  OBVIOUS
<1>6. ASSUME NEW i \in sent
      PROVE  commands'[Cardinality(more \cap 1..i)] = TextOf(Script[i])
  <2>1. more \cap 1..i = sent \cap 1..i /\ i \in sent \cap 1..i /\ sent \cap 1..i \subseteq sent
    OBVIOUS
  <2>2. /\ IsFiniteSet(sent \cap 1..i)
        /\ Cardinality(sent \cap 1..i) <= Cardinality(sent) /\ Cardinality(sent \cap 1..i) \in Nat
    BY <1>2, <2>1, FS_Subset, FS_CardinalityType
  <2>3. Cardinality(sent \cap 1..i) # 0
    BY <2>1, <2>2, FS_EmptySet
  <2>4. Cardinality(sent \cap 1..i) \in 1..Len(commands)
    BY <1>1, <1>3, <2>2, <2>3
  <2>. QED BY <1>1, <1>5, <2>1, <2>4
<1>7. commands'[Cardinality(more \cap 1..(n + 1))] = TextOf(Script[n + 1])
  <2>1. more \cap 1..(n + 1) = more
    BY <1>4
  <2>. QED BY <1>1, <1>3, <1>5, <2>1
<1>8. Len(commands') = Cardinality(more)
  BY <1>1, <1>3, <1>5
<1>9. \A i \in more : commands'[Cardinality(more \cap 1..i)] = TextOf(Script[i])
  BY <1>6, <1>7
<1>. HIDE DEF more
<1>10. SentInOrder(n + 1)'
  BY <1>4, <1>8, <1>9 DEF SentInOrder
<1>. QED BY <1>5, <1>10

-----------------------------------------------------------------------------
(* However hasty the person.  The first s + InBuf keys of the lines begun   *)
(* have been handled, or refused as long as the KCD task had no mailbox:    *)
(* the m lines before s for good, and a line of which it has missed the     *)
(* beginning does not start with %.                                         *)
Reading(m, s) ==
  /\ 6 * m <= s /\ s + InBuf < 6 * m + 6
  /\ KeysAre(KeysOf(user.line), s + InBuf)
  /\ IF pc[TID_KCD] = "send"
     THEN m > 0 /\ s = 6 * m /\ Text(kcd) = TextOf(Script[m]) /\ SentInOrder(m - 1)
     ELSE /\ \A i \in 1..kcd.tail : kcd.input_buf[i - 1] = KeysOf(user.line)[s + i]
          /\ s # 6 * m => kcd.input_buf[0] # PERCENT
          /\ SentInOrder(m)

(* The KCD task hears nothing from itself. *)
KcdHears ==
  /\ kcd_buf.tid # TID_KCD /\ \A c \in Char : kcd.cmd_ids[c] # TID_KCD
  /\ \A i \in 1..Len(KcdMsgs) : KcdMsgs[i].sender # TID_KCD /\ KcdMsgs[i].m.length = HdrSize + 1

KcdRoom ==
  IF pc[TID_KCD] = "entry"
  THEN mbx[TID_KCD] = NoMailbox /\ kcd.tail = 0 /\ kcd.input_buf[0] # PERCENT
  ELSE /\ mbx[TID_KCD].max = KCD_MBX_SIZE
       /\ mbx[TID_KCD].curr = MailBoxSize + (HdrSize + 1) * Len(KcdMsgs)

Streams  == \E m, s \in Nat : Reading(m, s)
Streamed == KcdHears /\ KcdRoom /\ Streams

Busy == /\ Sound /\ PcOK /\ user \in Person /\ user.hasty /\ pc[TID_KCD] \notin {"wild", "torn"}
        /\ commands \in Seq(Seq(Char)) /\ Streamed

LEMMA BusyParts ==
  ASSUME Busy
  PROVE  /\ Sound /\ PcOK /\ KcdHears /\ KcdRoom /\ Streams /\ user \in Person
         /\ TID_KCD \in Tid /\ (\A t \in Users : t \in Tid /\ t # TID_KCD) /\ Users = {U1, U2}
         /\ user.line \in 0..6 /\ kcd.tail \in Nat /\ InBuf \in Nat
         /\ KeysOf(user.line) \in Seq(Char) /\ Len(KeysOf(user.line)) = 6 * user.line
<1>1. user.line \in 0..6
  BY DEF Busy, Person
<1>2. kcd.tail \in Nat /\ InBuf \in Nat
  BY WayTypes DEF Busy
<1>3. KeysOf(user.line) \in Seq(Char) /\ Len(KeysOf(user.line)) = 6 * user.line
  BY <1>1, KeysOfIs
<1>4. TID_KCD \in Tid /\ (\A t \in Users : t \in Tid /\ t # TID_KCD) /\ Users = {U1, U2}
  BY Fixed DEF Users
<1>. QED BY <1>1, <1>2, <1>3, <1>4 DEF Busy, Streamed

(* The keys of a line begun are handled in order. *)
LEMMA StreamKept ==
  ASSUME Busy, UNCHANGED commands, user'.line = user.line,
         kcd'.tail = kcd.tail, kcd'.input_buf = kcd.input_buf,
         pc'[TID_KCD] = "send" <=> pc[TID_KCD] = "send",
         pc[TID_KCD] = "send" => UNCHANGED kcd,
         \A w : \A n \in Nat : KeysAre(w, n) => KeysAre(w, n)'
  PROVE  Streams'
<1>1. PICK m \in Nat, s \in Nat : Reading(m, s)
  BY BusyParts DEF Streams
<1>2. InBuf' = InBuf /\ InBuf \in Nat
  BY BusyParts DEF InBuf
<1>3. PICK w, n : w = KeysOf(user.line) /\ n = s + InBuf
  OBVIOUS
<1>4. KeysAre(w, n) /\ n \in Nat
  BY <1>1, <1>2, <1>3 DEF Reading
<1>5. KeysAre(KeysOf(user.line), s + InBuf)'
  <2>1. KeysAre(w, n)'
    BY <1>4
  <2>2. w = KeysOf(user'.line) /\ n = s + InBuf'
    BY <1>2, <1>3
  <2>. QED BY <2>1, <2>2
<1>6. \A k : SentInOrder(k) => SentInOrder(k)'
  BY SentKept
<1>7. Reading(m, s)'
  BY <1>1, <1>2, <1>5, <1>6 DEF Reading
<1>. QED BY <1>7 DEF Streams

(* Nothing comes to the KCD task, and it does nothing. *)
LEMMA StreamAside ==
  ASSUME Busy, pc'[TID_KCD] = pc[TID_KCD], mbx'[TID_KCD] = mbx[TID_KCD],
         UNCHANGED << kcd, kcd_buf, rx, commands, user >>
  PROVE  Streamed'
<1>1. KcdMsgs' = KcdMsgs
  BY DEF KcdMsgs
<1>2. HeadReg' = HeadReg /\ Handled' = Handled
  BY <1>1 DEF HeadReg, Handled
<1>3. \A w, n : KeysAre(w, n) => KeysAre(w, n)'
  BY <1>1, <1>2 DEF KeysAre, Way
<1>4. Streams'
  BY <1>3, StreamKept
<1>5. KcdHears' /\ KcdRoom'
  BY <1>1, BusyParts DEF KcdHears, KcdRoom
<1>. QED BY <1>4, <1>5 DEF Streamed

LEMMA KcdGoes ==
  ASSUME Busy, NEW at, Goto(TID_KCD, at)
  PROVE  pc'[TID_KCD] = at
BY BusyParts, GotoIs

LEMMA KcdCreateStreams ==
  ASSUME Busy, KcdCreate, UNCHANGED user
  PROVE  Streamed'
<1>1. /\ Current = TID_KCD /\ pc[TID_KCD] = "entry" /\ pc'[TID_KCD] = "alloc"
      /\ UNCHANGED << kcd, kcd_buf, rx, commands >>
      /\ mbx' = [mbx EXCEPT ![TID_KCD] = NewMailbox(KCD_MBX_SIZE)]
  BY KcdGoes DEF KcdCreate, KcdBecomes, At, k_mbx_create
<1>2. mbx'[TID_KCD] = NewMailbox(KCD_MBX_SIZE) /\ mbx[TID_KCD] = NoMailbox
  BY <1>1, BusyParts, MailboxesAre DEF KcdRoom
<1>3. KcdMsgs = << >> /\ KcdMsgs' = << >> /\ Len(KcdMsgs') = 0
  BY <1>2 DEF KcdMsgs, NewMailbox, NoMailbox
<1>4. HeadReg' = HeadReg /\ Handled' = Handled
  BY <1>1, <1>3 DEF HeadReg, Handled
<1>5. \A w, n : KeysAre(w, n) => KeysAre(w, n)'
  BY <1>1, <1>3, <1>4 DEF KeysAre, Way
<1>6. Streams'
  BY <1>1, <1>5, StreamKept
<1>7. KcdHears'
  BY <1>1, <1>3, BusyParts DEF KcdHears
<1>8. KcdRoom'
  <2>1. mbx'[TID_KCD].max = KCD_MBX_SIZE /\ mbx'[TID_KCD].curr = MailBoxSize
    BY <1>2 DEF NewMailbox, NoMailbox
  <2>2. MailBoxSize = MailBoxSize + (HdrSize + 1) * 0
    BY Sizes
  <2>. QED BY <1>1, <1>3, <2>1, <2>2 DEF KcdRoom
<1>. QED BY <1>6, <1>7, <1>8 DEF Streamed

LEMMA KcdAllocStreams ==
  ASSUME Busy, KcdAlloc, UNCHANGED user
  PROVE  Streamed'
<1>1. /\ pc[TID_KCD] = "alloc" /\ pc'[TID_KCD] = "recv"
      /\ UNCHANGED << kcd, kcd_buf, rx, mbx, commands >>
  BY KcdGoes DEF KcdAlloc, KcdBecomes, At, msgvars, ipc
<1>2. KcdMsgs' = KcdMsgs
  BY <1>1 DEF KcdMsgs
<1>3. HeadReg' = HeadReg /\ Handled' = Handled
  BY <1>1, <1>2 DEF HeadReg, Handled
<1>4. \A w, n : KeysAre(w, n) => KeysAre(w, n)'
  BY <1>1, <1>2, <1>3 DEF KeysAre, Way
<1>5. Streams'
  BY <1>1, <1>4, StreamKept
<1>6. KcdHears' /\ KcdRoom'
  BY <1>1, <1>2, BusyParts DEF KcdHears, KcdRoom
<1>. QED BY <1>5, <1>6 DEF Streamed

LEMMA KcdRecvStreams ==
  ASSUME Busy, KcdRecv, UNCHANGED user
  PROVE  Streamed'
<1> DEFINE x == mbx[TID_KCD].msgs[1]
<1>1. CASE Sleeps(TID_KCD, "recv")
  <2>1. UNCHANGED << app, user, mbx, rx >>
    BY <1>1 DEF Sleeps, RecvSleep
  <2>. QED BY <2>1, StreamAside DEF app
<1>2. CASE ~Sleeps(TID_KCD, "recv")
  <2>1. /\ Taken(TID_KCD, "recv") /\ Goto(TID_KCD, "handle")
        /\ kcd_buf' = [m |-> IF FirstOf(TID_KCD).m.length > KCD_MSG THEN kcd_buf.m ELSE FirstOf(TID_KCD).m,
                       tid |-> FirstOf(TID_KCD).sender]
        /\ UNCHANGED << kcd, commands >>
    BY <1>2, KcdRecvCases
  <2>2. pc[TID_KCD] = "recv" /\ pc'[TID_KCD] = "handle"
    BY <2>1, KcdGoes DEF Taken
  <2>3. KcdMsgs # << >>
    BY <2>1, TakenLetter, BusyParts DEF IsEmpty, KcdMsgs
  <2>5. Handled = 0
    BY <2>2 DEF Handled
  <2>7. /\ KcdMsgs \in Seq(Letter) /\ rx \in Seq(Char) /\ user.left \in Seq(Char)
        /\ HeadReg \in {0, 1} /\ x = KcdMsgs[1]
    BY BusyParts, WayTypes, WaySizes DEF KcdMsgs
  <2>8. x.m.length = 9 /\ x.sender # TID_KCD /\ Len(KcdMsgs) \in Nat /\ Len(KcdMsgs) >= 1
    <3>1. 1 \in 1..Len(KcdMsgs) /\ Len(KcdMsgs) \in Nat
      BY <2>3, <2>7
    <3>2. KcdMsgs[1].sender # TID_KCD /\ KcdMsgs[1].m.length = HdrSize + 1
      BY <3>1, BusyParts DEF KcdHears
    <3>. HIDE DEF x
    <3>. QED BY <2>7, <3>1, <3>2, Sizes
  <2>9. /\ mbx[TID_KCD].curr = MailBoxSize + (HdrSize + 1) * Len(KcdMsgs)
        /\ mbx[TID_KCD].max = KCD_MBX_SIZE
    BY <2>2, BusyParts DEF KcdRoom
  <2>10. x.m.length <= mbx[TID_KCD].curr
    BY <2>8, <2>9, Sizes
  <2>11. Removed(TID_KCD) /\ FirstOf(TID_KCD) = x /\ UNCHANGED rx
    BY <2>1, <2>10, TakenRemoves, BusyParts
  <2>12. kcd_buf'.m = x.m /\ kcd_buf'.tid = x.sender
    BY <2>1, <2>8, <2>11, Sizes
  <2>13. KcdMsgs' = Tail(KcdMsgs)
    BY <2>11 DEF Removed, KcdMsgs
  <2>14. /\ Len(KcdMsgs') = Len(KcdMsgs) - 1
         /\ \A i \in 1..Len(KcdMsgs') : KcdMsgs'[i] = KcdMsgs[i + 1] /\ i + 1 \in 1..Len(KcdMsgs)
    BY <2>3, <2>7, <2>13
  <2>15. ASSUME NEW w, NEW n \in Nat, KeysAre(w, n)
         PROVE  KeysAre(w, n)'
    <3>1. Way(w, n, HeadReg, 0, kcd_buf.m, KcdMsgs, rx, user.left)
      BY <2>5, <2>15, WaySizes
    <3>2. HeadReg = 0 => x.m = KcdMsgs[1].m
      BY <2>7
    <3>. HIDE DEF x
    <3>3. Way(w, n, 0, 1 - HeadReg, x.m, Tail(KcdMsgs), rx, user.left)
      BY <2>3, <2>7, <3>1, <3>2, WayTaken
    <3>4. HeadReg = 0 => x.m = Key(w[n + 1])
      BY <2>3, <2>7, <3>1, <3>2, WayHead
    <3>5. Handled' = 1 - HeadReg
      <4>1. HeadReg = 1 => x.m.type = "KCD_REG"
        BY <2>7 DEF HeadReg
      <4>2. HeadReg = 0 => x.m.type = "KEY_IN"
        BY <3>4 DEF Key, Message
      <4>. QED BY <2>2, <2>7, <2>12, <4>1, <4>2 DEF Handled
    <3>6. HeadReg' = 0
      <4>1. CASE KcdMsgs' = << >>
        BY <4>1 DEF HeadReg
      <4>2. CASE KcdMsgs' # << >>
        <5>1. KcdMsgs' \in Seq(Letter) /\ 1 \in 1..(Len(KcdMsgs') - 0) /\ 0 + 1 = 1
          BY <2>3, <2>7, <2>13, <4>2
        <5>2. KcdMsgs'[0 + 1].m = Key(w[n + (1 - HeadReg) + 1])
          BY <2>13, <3>3, <5>1 DEF Way
        <5>3. KcdMsgs'[1].m.type = "KEY_IN"
          BY <5>1, <5>2 DEF Key, Message
        <5>. QED BY <5>3 DEF HeadReg
      <4>. QED BY <4>1, <4>2
    <3>. QED BY <2>11, <2>12, <2>13, <3>3, <3>5, <3>6 DEF KeysAre
  <2>16. Streams'
    BY <2>1, <2>2, <2>15, StreamKept
  <2>17. KcdHears'
    BY <2>1, <2>8, <2>12, <2>14, BusyParts DEF KcdHears
  <2>18. KcdRoom'
    <3>1. mbx'[TID_KCD].max = KCD_MBX_SIZE /\ mbx'[TID_KCD].curr = mbx[TID_KCD].curr - 9
      BY <2>8, <2>9, <2>11 DEF Removed
    <3>2. mbx'[TID_KCD].curr = MailBoxSize + (HdrSize + 1) * Len(KcdMsgs')
      BY <2>8, <2>9, <2>14, <3>1, Sizes
    <3>. QED BY <2>2, <3>1, <3>2 DEF KcdRoom
  <2>. QED BY <2>16, <2>17, <2>18 DEF Streamed
<1>. QED BY <1>1, <1>2

(* After a message has been handled. *)
LEMMA KcdDone ==
  ASSUME Busy, pc[TID_KCD] \in {"handle", "send"}, pc'[TID_KCD] \in {"recv", "send"},
         mbx'[TID_KCD] = mbx[TID_KCD], UNCHANGED << kcd_buf, rx, user >>,
         \A c \in Char : kcd'.cmd_ids[c] # TID_KCD
  PROVE  /\ KcdMsgs' = KcdMsgs /\ HeadReg' = HeadReg /\ Handled' = 0 /\ KcdHears' /\ KcdRoom'
         /\ \A w, n, b : Way(w, n, HeadReg, 0, b, KcdMsgs, rx, user.left) => KeysAre(w, n)'
<1>1. KcdMsgs' = KcdMsgs
  BY DEF KcdMsgs
<1>2. HeadReg' = HeadReg /\ Handled' = 0
  BY <1>1 DEF HeadReg, Handled
<1>3. KcdHears' /\ KcdRoom'
  BY <1>1, BusyParts DEF KcdHears, KcdRoom
<1>4. ASSUME NEW w, NEW n, NEW b, Way(w, n, HeadReg, 0, b, KcdMsgs, rx, user.left)
      PROVE  KeysAre(w, n)'
  <2>1. Way(w, n, HeadReg, 0, kcd_buf'.m, KcdMsgs, rx, user.left)
    BY <1>4 DEF Way
  <2>. QED BY <1>1, <1>2, <2>1 DEF KeysAre
<1>. QED BY <1>1, <1>2, <1>3, <1>4

LEMMA KcdRegisterStreams ==
  ASSUME Busy, KcdRegister, UNCHANGED user
  PROVE  Streamed'
<1>1. /\ pc[TID_KCD] = "handle" /\ kcd_buf.m.type = "KCD_REG" /\ pc'[TID_KCD] = "recv"
      /\ kcd' = Register(kcd, kcd_buf.m, kcd_buf.tid) /\ UNCHANGED << mbx, rx, kcd_buf, commands >>
  BY KcdGoes DEF KcdRegister, Received, KcdBecomes, At, msgvars, ipc
<1>2. kcd \in KcdState /\ kcd_buf.tid # TID_KCD /\ \A c \in Char : kcd.cmd_ids[c] # TID_KCD
  BY BusyParts, WayTypes DEF KcdHears
<1>3. /\ kcd'.tail = kcd.tail /\ kcd'.input_buf = kcd.input_buf
      /\ \A c \in Char : kcd'.cmd_ids[c] # TID_KCD
  BY <1>1, <1>2 DEF Register, KcdState
<1>4. /\ HeadReg' = HeadReg /\ Handled' = 0 /\ KcdHears' /\ KcdRoom'
      /\ \A w, n, b : Way(w, n, HeadReg, 0, b, KcdMsgs, rx, user.left) => KeysAre(w, n)'
  BY <1>1, <1>3, KcdDone
<1>5. Handled = 0
  BY <1>1 DEF Handled
<1>6. \A w, n : KeysAre(w, n) => KeysAre(w, n)'
  BY <1>4, <1>5 DEF KeysAre
<1>7. Streams'
  BY <1>1, <1>3, <1>6, StreamKept
<1>. QED BY <1>4, <1>7 DEF Streamed

(* A key that is handled is the next of the lines begun. *)
LEMMA KeyRead ==
  ASSUME Busy, NEW c, KeyIs(c), NEW m \in Nat, NEW s \in Nat, Reading(m, s)
  PROVE  /\ m \in 0..5 /\ s + kcd.tail + 1 <= 6 * user.line /\ s + kcd.tail + 1 <= 6 * m + 6
         /\ KeysOf(user.line)[s + kcd.tail + 1] = c
         /\ c = CR <=> s + kcd.tail + 1 = 6 * m + 6
         /\ s + kcd.tail + 1 # 6 * m + 1 => c # PERCENT
         /\ m < user.line /\ InBuf = kcd.tail
         /\ Way(KeysOf(user.line), s + kcd.tail + 1, HeadReg, 0, kcd_buf.m, KcdMsgs, rx, user.left)
<1>1. /\ pc[TID_KCD] = "handle" /\ kcd_buf.m.type = "KEY_IN" /\ kcd_buf.m.data[1] = c
      /\ Handled = 1 /\ InBuf = kcd.tail
  BY DEF KeyIs, Received, At, Handled, InBuf
<1>2. PICK w, n : w = KeysOf(user.line) /\ n = s + kcd.tail
  OBVIOUS
<1>3. Way(w, n, HeadReg, 1, kcd_buf.m, KcdMsgs, rx, user.left)
  BY <1>1, <1>2 DEF Reading, KeysAre
<1>4. /\ KcdMsgs \in Seq(Letter) /\ rx \in Seq(Char) /\ user.left \in Seq(Char)
      /\ HeadReg \in {0, 1} /\ HeadReg <= Len(KcdMsgs) /\ kcd.tail \in Nat
  BY BusyParts, WayTypes, WaySizes
<1>5. n \in Nat
  BY <1>2, <1>4
<1>6. /\ Way(w, n + 1, HeadReg, 0, kcd_buf.m, KcdMsgs, rx, user.left)
      /\ kcd_buf.m = Key(w[n + 1]) /\ n + 1 <= Len(w)
  BY <1>3, <1>4, <1>5, WayStored, ZenonT(40)
<1>7. w[n + 1] = c
  BY <1>1, <1>6 DEF Key, Message
<1>8. 6 * m < n + 1 /\ n + 1 <= 6 * m + 6 /\ n + 1 <= 6 * user.line
  <2>1. 6 * m <= s /\ s + kcd.tail < 6 * m + 6
    BY <1>1 DEF Reading
  <2>2. Len(w) = 6 * user.line
    BY <1>2, BusyParts
  <2>. QED BY <1>2, <1>4, <1>6, <2>1, <2>2, SMTT(30)
<1>9. user.line \in 0..6 /\ n + 1 \in Nat
  BY <1>5, BusyParts
<1>10. /\ m \in 0..5 /\ m < user.line
       /\ KeysOf(user.line)[n + 1] = CR <=> n + 1 = 6 * m + 6
       /\ n + 1 # 6 * m + 1 => KeysOf(user.line)[n + 1] # PERCENT
  BY <1>8, <1>9, KeysOfEnd, SMTT(30)
<1>. QED BY <1>1, <1>2, <1>6, <1>7, <1>8, <1>10

LEMMA KcdStoreStreams ==
  ASSUME Busy, KcdStore, UNCHANGED user
  PROVE  Streamed'
<1>1. PICK c0 \in Char \ {CR} : KeyIs(c0) /\ KcdBecomes(Store(kcd, c0), "recv")
  BY DEF KcdStore
<1>2. /\ pc[TID_KCD] = "handle" /\ pc'[TID_KCD] = "recv"
      /\ kcd' = Store(kcd, c0) /\ UNCHANGED << mbx, rx, kcd_buf, commands >>
  BY <1>1, KcdGoes DEF KcdStore, KcdBecomes, KeyIs, Received, At, msgvars, ipc
<1>3. kcd \in KcdState /\ kcd.tail \in Nat /\ INPUT_SIZE \in Nat /\ INPUT_SIZE > 4
  BY BusyParts, WayTypes
<1>4. /\ kcd'.cmd_ids = kcd.cmd_ids /\ kcd'.tail = kcd.tail + 1
      /\ kcd'.input_buf = IF kcd.tail < INPUT_SIZE THEN [kcd.input_buf EXCEPT ![kcd.tail] = c0]
                          ELSE kcd.input_buf
      /\ kcd.input_buf \in [0..(INPUT_SIZE - 1) -> Char]
  BY <1>2, <1>3 DEF Store, KcdState
<1>5. /\ HeadReg' = HeadReg /\ Handled' = 0 /\ KcdHears' /\ KcdRoom'
      /\ \A w, n, b : Way(w, n, HeadReg, 0, b, KcdMsgs, rx, user.left) => KeysAre(w, n)'
  <2>1. \A c \in Char : kcd'.cmd_ids[c] # TID_KCD
    BY <1>4, BusyParts DEF KcdHears
  <2>. QED BY <1>2, <2>1, KcdDone
<1>6. PICK m \in Nat, s \in Nat : Reading(m, s)
  BY BusyParts DEF Streams
<1>7. PICK w, n : w = KeysOf(user.line) /\ n = s + kcd.tail + 1
  OBVIOUS
<1>8. /\ n <= 6 * m + 6 /\ w[n] = c0 /\ n # 6 * m + 6 /\ (n # 6 * m + 1 => c0 # PERCENT)
      /\ Way(w, n, HeadReg, 0, kcd_buf.m, KcdMsgs, rx, user.left)
  BY <1>1, <1>6, <1>7, KeyRead
<1>9. /\ 6 * m <= s /\ (s # 6 * m => kcd.input_buf[0] # PERCENT) /\ SentInOrder(m)
      /\ \A i \in 1..kcd.tail : kcd.input_buf[i - 1] = w[s + i]
  BY <1>2, <1>6, <1>7 DEF Reading
<1>10. kcd.tail + 1 < 7 /\ n < 6 * m + 6
  BY <1>3, <1>7, <1>8, <1>9
<1>11. \A i \in 1..(kcd.tail + 1) : kcd'.input_buf[i - 1] = w[s + i]
  <2>1. kcd.tail < INPUT_SIZE /\ kcd.tail \in 0..(INPUT_SIZE - 1)
    BY <1>3, <1>7, <1>9, <1>10
  <2>2. ASSUME NEW i \in 1..(kcd.tail + 1), i # kcd.tail + 1 PROVE kcd'.input_buf[i - 1] = w[s + i]
    <3>1. i \in 1..kcd.tail /\ i - 1 # kcd.tail /\ i - 1 \in 0..(INPUT_SIZE - 1)
      BY <1>3, <2>1, <2>2
    <3>. QED BY <1>4, <1>9, <2>1, <3>1
  <2>3. kcd'.input_buf[(kcd.tail + 1) - 1] = w[s + (kcd.tail + 1)]
    <3>1. (kcd.tail + 1) - 1 = kcd.tail /\ s + (kcd.tail + 1) = n
      BY <1>3, <1>7
    <3>. QED BY <1>4, <1>8, <2>1, <3>1
  <2>. QED BY <2>2, <2>3
<1>12. s # 6 * m => kcd'.input_buf[0] # PERCENT
  <2>1. CASE s # 6 * m /\ kcd.tail = 0
    <3>1. kcd'.input_buf[0] = w[s + 1] /\ n = s + 1
      <4>1. 1 \in 1..(kcd.tail + 1) /\ 1 - 1 = 0 /\ n = s + 1
        BY <1>3, <1>7, <2>1
      <4>. QED BY <1>11, <4>1
    <3>2. n # 6 * m + 1
      BY <2>1, <3>1
    <3>. QED BY <1>8, <3>1, <3>2
  <2>2. CASE s # 6 * m /\ kcd.tail # 0
    <3>1. 0 \in 0..(INPUT_SIZE - 1)
      BY <1>3
    <3>. QED BY <1>4, <1>9, <2>2, <3>1
  <2>. QED BY <2>1, <2>2
<1>13. InBuf' = kcd.tail + 1 /\ s + (kcd.tail + 1) = n
  BY <1>2, <1>3, <1>4, <1>7 DEF InBuf
<1>14. KeysAre(KeysOf(user.line), s + InBuf)'
  <2>1. KeysAre(w, n)'
    BY <1>5, <1>8
  <2>2. w = KeysOf(user'.line) /\ n = s + InBuf'
    BY <1>7, <1>13
  <2>. QED BY <2>1, <2>2
<1>15. SentInOrder(m)'
  BY <1>2, <1>9, SentKept
<1>16. Reading(m, s)'
  <2>1. s + InBuf' < 6 * m + 6
    BY <1>10, <1>13
  <2>2. \A i \in 1..kcd'.tail : kcd'.input_buf[i - 1] = KeysOf(user'.line)[s + i]
    BY <1>4, <1>7, <1>11
  <2>. QED BY <1>2, <1>9, <1>12, <1>14, <1>15, <2>1, <2>2 DEF Reading
<1>17. Streams'
  BY <1>16 DEF Streams
<1>. QED BY <1>5, <1>17 DEF Streamed

(* Enter.  A line that has been stored from its first key on is a line of   *)
(* the script.                                                              *)
LEMMA TextRead ==
  ASSUME NEW k \in KcdState, k.tail = 5, NEW w \in Tests,
         \A i \in 1..5 : k.input_buf[i - 1] = w[i]
  PROVE  Text(k) = TextOf(w)
<1>1. /\ w \in Seq(Char) /\ Len(w) = 6
  BY ScriptIs
<1>2. Limit(k) = 5
  BY Sizes DEF Limit
<1>3. TextOf(w) = SubSeq(w, 2, 5)
  BY <1>1 DEF TextOf
<1>4. SubSeq(w, 2, 5) = [i \in 1..4 |-> w[i + 1]]
  <2>1. SubSeq(w, 2, 5) = [i \in 1..((5 - 2) + 1) |-> w[(i + 2) - 1]]
    BY <1>1
  <2>2. \A i \in 1..4 : (i + 2) - 1 = i + 1
    OBVIOUS
  <2>3. (5 - 2) + 1 = 4
    OBVIOUS
  <2>. QED BY <2>1, <2>2, <2>3
<1>5. Text(k) = [i \in 1..4 |-> k.input_buf[i]]
  BY <1>2 DEF Text
<1>6. ASSUME NEW i \in 1..4 PROVE k.input_buf[i] = w[i + 1]
  <2>1. i + 1 \in 1..5 /\ (i + 1) - 1 = i
    OBVIOUS
  <2>2. k.input_buf[(i + 1) - 1] = w[i + 1]
    BY <2>1
  <2>. QED BY <2>1, <2>2
<1>. QED BY <1>3, <1>4, <1>5, <1>6

LEMMA KcdLineStreams ==
  ASSUME Busy, KcdLine, UNCHANGED user, pc'[TID_KCD] # "wild"
  PROVE  Streamed'
<1>1. /\ pc[TID_KCD] = "handle" /\ KeyIs(CR) /\ UNCHANGED << mbx, rx, kcd_buf, commands >>
      /\ \/ NoReceiver /\ kcd' = NextLine(kcd) /\ pc'[TID_KCD] = "recv"
         \/ ~NoReceiver /\ kcd' = kcd /\ pc'[TID_KCD] = "send"
  <2>1. KeyIs(CR) /\ At(TID_KCD, "handle") /\ UNCHANGED msgvars
    BY DEF KcdLine, KeyIs, Received
  <2>2. \/ OutOfRange /\ KcdBecomes(kcd, "wild")
        \/ NoReceiver /\ KcdBecomes(NextLine(kcd), "recv")
        \/ ~NoReceiver /\ KcdBecomes(kcd, "send")
    BY DEF KcdLine
  <2>3. ~KcdBecomes(kcd, "wild")
    BY KcdGoes DEF KcdBecomes
  <2>4. CASE NoReceiver /\ KcdBecomes(NextLine(kcd), "recv")
    BY <2>1, <2>4, KcdGoes DEF KcdBecomes, At, msgvars, ipc
  <2>5. CASE ~NoReceiver /\ KcdBecomes(kcd, "send")
    BY <2>1, <2>5, KcdGoes DEF KcdBecomes, At, msgvars, ipc
  <2>. QED BY <2>2, <2>3, <2>4, <2>5
<1>2. kcd \in KcdState /\ kcd.tail \in Nat
  BY BusyParts, WayTypes
<1>3. kcd'.cmd_ids = kcd.cmd_ids /\ (pc'[TID_KCD] = "recv" => kcd'.tail = 0)
  BY <1>1, <1>2 DEF NextLine, KcdState
<1>4. /\ HeadReg' = HeadReg /\ Handled' = 0 /\ KcdHears' /\ KcdRoom'
      /\ \A w, n, b : Way(w, n, HeadReg, 0, b, KcdMsgs, rx, user.left) => KeysAre(w, n)'
  <2>1. \A c \in Char : kcd'.cmd_ids[c] # TID_KCD
    BY <1>3, BusyParts DEF KcdHears
  <2>. QED BY <1>1, <2>1, KcdDone
<1>5. PICK m \in Nat, s \in Nat : Reading(m, s)
  BY BusyParts DEF Streams
<1>6. PICK w, n : w = KeysOf(user.line) /\ n = s + kcd.tail + 1
  OBVIOUS
<1>7. /\ n = 6 * m + 6 /\ m \in 0..5 /\ m < user.line
      /\ Way(w, n, HeadReg, 0, kcd_buf.m, KcdMsgs, rx, user.left)
  BY <1>1, <1>5, <1>6, KeyRead
<1>8. /\ 6 * m <= s /\ (s # 6 * m => kcd.input_buf[0] # PERCENT) /\ SentInOrder(m)
      /\ \A i \in 1..kcd.tail : kcd.input_buf[i - 1] = w[s + i]
  BY <1>1, <1>5, <1>6 DEF Reading
<1>9. InBuf' = 0
  BY <1>1, <1>3 DEF InBuf
<1>10. PICK r : r = 6 * (m + 1)
  OBVIOUS
<1>11. r \in Nat /\ r = n /\ r + 0 = n /\ r < 6 * (m + 1) + 6 /\ m + 1 \in Nat /\ m + 1 > 0 /\ (m + 1) - 1 = m
  BY <1>7, <1>10
<1>12. KeysAre(KeysOf(user.line), r + InBuf)'
  <2>1. KeysAre(w, n)'
    BY <1>4, <1>7
  <2>2. w = KeysOf(user'.line) /\ n = r + InBuf'
    BY <1>6, <1>9, <1>11
  <2>. QED BY <2>1, <2>2
<1>13. SentInOrder(m)' /\ SentInOrder(m + 1)'
  <2>1. SentInOrder(m + 1)
    BY <1>8, <1>11, SentMore
  <2>. QED BY <1>1, <1>8, <2>1, SentKept
<1>14. CASE pc'[TID_KCD] = "recv"
  <2>1. \A i \in 1..kcd'.tail : kcd'.input_buf[i - 1] = KeysOf(user'.line)[r + i]
    BY <1>3, <1>14
  <2>2. Reading(m + 1, r)'
    BY <1>9, <1>10, <1>11, <1>12, <1>13, <1>14, <2>1 DEF Reading
  <2>. QED BY <1>4, <1>11, <2>2 DEF Streamed, Streams
<1>15. CASE pc'[TID_KCD] = "send"
  <2>1. kcd' = kcd /\ ~Invalid(kcd)
    BY <1>1, <1>15 DEF NoReceiver
  <2>2. s = 6 * m
    BY <1>8, <2>1 DEF Invalid
  <2>3. kcd.tail = 5
    BY <1>2, <1>6, <1>7, <2>2
  <2>4. PICK l : l = Script[m + 1]
    OBVIOUS
  <2>5. l \in Tests
    <3>1. m + 1 \in 1..6
      BY <1>7
    <3>. QED BY <2>4, <3>1, ScriptIs
  <2>6. \A i \in 1..5 : kcd.input_buf[i - 1] = l[i]
    <3>1. ASSUME NEW i \in 1..5 PROVE kcd.input_buf[i - 1] = l[i]
      <4>1. w[6 * m + i] = l[i]
        <5>1. user.line \in 0..6 /\ i \in 1..6
          BY BusyParts
        <5>. QED BY <1>6, <1>7, <2>4, <5>1, KeysOfIs
      <4>. QED BY <1>8, <2>2, <2>3, <4>1
    <3>. QED BY <3>1
  <2>7. Text(kcd') = TextOf(Script[m + 1])
    BY <1>2, <2>1, <2>3, <2>4, <2>5, <2>6, TextRead
  <2>8. SentInOrder((m + 1) - 1)'
    BY <1>11, <1>13
  <2>9. Reading(m + 1, r)'
    BY <1>9, <1>10, <1>11, <1>12, <1>15, <2>7, <2>8 DEF Reading
  <2>. QED BY <1>4, <1>11, <2>9 DEF Streamed, Streams
<1>. QED BY <1>1, <1>14, <1>15

(* The text of a command is the one of the line it was made of. *)
LEMMA KcdSendStreams ==
  ASSUME Busy, KcdSend, UNCHANGED user
  PROVE  Streamed' /\ commands' \in Seq(Seq(Char))
<1>1. /\ pc[TID_KCD] = "send" /\ pc'[TID_KCD] = "recv" /\ At(TID_KCD, "send")
      /\ kcd' = NextLine(kcd) /\ UNCHANGED kcd_buf
      /\ \/ send_msg(Receiver(kcd), Command(kcd)) /\ commands' = Append(commands, Text(kcd))
         \/ UNCHANGED << msgvars, commands >>
  BY KcdGoes DEF KcdSend, Send, At
<1>2. kcd \in KcdState /\ Text(kcd) \in Seq(Char) /\ commands \in Seq(Seq(Char))
  BY BusyParts, WayTypes, MessagesFit DEF Busy
<1>3. kcd'.cmd_ids = kcd.cmd_ids /\ kcd'.tail = 0
  BY <1>1, <1>2 DEF NextLine, KcdState
<1>4. Receiver(kcd) # TID_KCD
  <2>1. kcd.input_buf[1] \in Char
    <3>1. 1 \in 0..(INPUT_SIZE - 1)
      BY Sizes
    <3>. QED BY <1>2, <3>1 DEF KcdState
  <2>. QED BY <2>1, BusyParts DEF KcdHears, Receiver
<1>5. mbx'[TID_KCD] = mbx[TID_KCD] /\ UNCHANGED rx
  <2>1. CASE send_msg(Receiver(kcd), Command(kcd))
    <3>1. mbx \in [Tid -> Mailbox]
      BY BusyParts, MailboxesAre
    <3>. QED BY <1>4, <2>1, <3>1, BusyParts DEF send_msg, Deliver
  <2>2. CASE UNCHANGED msgvars
    BY <2>2 DEF msgvars, ipc
  <2>. QED BY <1>1, <2>1, <2>2
<1>6. /\ HeadReg' = HeadReg /\ Handled' = 0 /\ KcdHears' /\ KcdRoom'
      /\ \A w, n, b : Way(w, n, HeadReg, 0, b, KcdMsgs, rx, user.left) => KeysAre(w, n)'
  <2>1. \A c \in Char : kcd'.cmd_ids[c] # TID_KCD
    BY <1>3, BusyParts DEF KcdHears
  <2>. QED BY <1>1, <1>5, <2>1, KcdDone
<1>7. PICK m \in Nat, s \in Nat : Reading(m, s)
  BY BusyParts DEF Streams
<1>8. /\ m > 0 /\ s = 6 * m /\ Text(kcd) = TextOf(Script[m]) /\ SentInOrder(m - 1)
      /\ InBuf = 0 /\ InBuf' = 0 /\ Handled = 0
  BY <1>1, <1>3, <1>7 DEF Reading, InBuf, Handled
<1>9. SentInOrder(m)' /\ commands' \in Seq(Seq(Char))
  <2>1. m - 1 \in Nat /\ (m - 1) + 1 = m
    BY <1>8
  <2>2. CASE commands' = Append(commands, Text(kcd))
    <3>1. PICK p \in Nat : p = m - 1
      BY <2>1
    <3>2. p + 1 = m /\ Text(kcd) = TextOf(Script[p + 1]) /\ SentInOrder(p)
      BY <1>8, <2>1, <3>1
    <3>3. SentInOrder(p + 1)' /\ commands' \in Seq(Seq(Char))
      BY <1>2, <2>2, <3>2, SentNext
    <3>. QED BY <3>2, <3>3
  <2>3. CASE UNCHANGED commands
    <3>1. m - 1 <= m
      OBVIOUS
    <3>2. SentInOrder(m)
      BY <1>8, <2>1, <3>1, SentMore
    <3>. QED BY <1>2, <2>3, <3>2, SentKept
  <2>. QED BY <1>1, <2>2, <2>3
<1>10. KeysAre(KeysOf(user.line), s + InBuf)'
  <2>1. PICK w, n : w = KeysOf(user.line) /\ n = s + InBuf
    OBVIOUS
  <2>2. Way(w, n, HeadReg, 0, kcd_buf.m, KcdMsgs, rx, user.left)
    BY <1>7, <1>8, <2>1 DEF Reading, KeysAre
  <2>3. KeysAre(w, n)'
    BY <1>6, <2>2
  <2>4. w = KeysOf(user'.line) /\ n = s + InBuf'
    BY <1>8, <2>1
  <2>. QED BY <2>3, <2>4
<1>11. Reading(m, s)'
  <2>1. 6 * m <= s /\ s + InBuf' < 6 * m + 6
    BY <1>8
  <2>2. \A i \in 1..kcd'.tail : kcd'.input_buf[i - 1] = KeysOf(user'.line)[s + i]
    BY <1>3
  <2>. QED BY <1>1, <1>8, <1>9, <1>10, <2>1, <2>2 DEF Reading
<1>. QED BY <1>6, <1>9, <1>11 DEF Streamed, Streams

-----------------------------------------------------------------------------
(* The other tasks and the interrupt, with a hasty person. *)
Registers(t) ==
  /\ Current = t /\ pc[t] # "gone"
  /\ \E c \in {"c", "d"} : send_msg(TID_KCD, Registration(c))
  /\ pc'[TID_KCD] = pc[TID_KCD] /\ UNCHANGED << kcd, kcd_buf, commands, user >>

LEMMA RegistersStreams ==
  ASSUME Busy, NEW t \in Users, Registers(t)
  PROVE  Streamed'
<1>0. Sound /\ TID_KCD \in Tid /\ t \in Tid /\ t # TID_KCD
  BY BusyParts
<1>1. PICK c \in {"c", "d"} : send_msg(TID_KCD, Registration(c))
  BY DEF Registers
<1>2. PICK m : m = Registration(c)
  OBVIOUS
<1>3. m.length = 9 /\ m.type = "KCD_REG" /\ m \in RtxMsg
  BY <1>2, Sizes, MessagesFit DEF Registration, Message
<1>4. pc[TID_KCD] = "recv" /\ KcdMsgs = << >>
  BY <1>0, KcdAsleep DEF Registers, IsEmpty, KcdMsgs
<1>5. mbx[TID_KCD].max = 512 /\ mbx[TID_KCD].curr = 16
  <2>1. Len(KcdMsgs) = 0
    BY <1>4, EmptySeq
  <2>. QED BY <1>4, <2>1, BusyParts, Sizes DEF KcdRoom
<1>6. PICK s : s = IF interrupt_flag THEN TID_UART_IRQ ELSE t
  OBVIOUS
<1>7. PICK x : x = [m |-> m, from |-> t, sender |-> s]
  OBVIOUS
<1>8. Posted(TID_KCD, x) /\ x \in Letter /\ s # TID_KCD /\ UNCHANGED rx
  <2>1. Deliver(TID_KCD, m, interrupt_flag, t) /\ UNCHANGED rx /\ Current = t
    BY <1>1, <1>2 DEF send_msg, Registers
  <2>2. interrupt_flag \in BOOLEAN /\ t \in Sender /\ TID_UART_IRQ \in Sender
    BY <1>0 DEF Sound, MsgInv, MsgTypeOK, Sender
  <2>3. mbx[TID_KCD].curr + m.length < SIZEMOD
    BY <1>3, <1>5, Sizes
  <2>4. Posted(TID_KCD, [m |-> m, from |-> t, sender |-> IF interrupt_flag THEN TID_UART_IRQ ELSE Current])
    BY <1>0, <1>3, <2>1, <2>2, <2>3, DeliverPosts
  <2>5. s \in Sender
    BY <1>6, <2>2
  <2>6. s # TID_KCD
    BY <1>0, <1>6, Fixed DEF TID_UART_IRQ
  <2>. QED BY <1>3, <1>6, <1>7, <2>1, <2>2, <2>4, <2>5, <2>6 DEF Letter
<1>9. /\ KcdMsgs' = << x >> /\ Len(<< x >>) = 1 /\ << x >>[1] = x /\ << x >> \in Seq(Letter)
      /\ << x >> # << >> /\ x.m = m /\ x.sender = s
  <2>1. KcdMsgs' = Append(KcdMsgs, x)
    BY <1>8 DEF Posted, KcdMsgs
  <2>. QED BY <1>4, <1>7, <1>8, <2>1
<1>10. HeadReg = 0 /\ Handled = 0 /\ HeadReg' = 1 /\ Handled' = 0
  BY <1>3, <1>4, <1>9 DEF HeadReg, Handled, Registers
<1>11. ASSUME NEW w, NEW n \in Nat, KeysAre(w, n) PROVE KeysAre(w, n)'
  <2>1. Way(w, n, 0, 0, kcd_buf.m, << >>, rx, user.left)
    BY <1>4, <1>10, <1>11 DEF KeysAre
  <2>2. rx \in Seq(Char) /\ user.left \in Seq(Char)
    BY <1>0, WayTypes
  <2>3. Way(w, n, 1, 0, kcd_buf.m, << x >>, rx, user.left)
    BY <1>9, <2>1, <2>2, WayRegistration
  <2>. QED BY <1>8, <1>9, <1>10, <2>3 DEF KeysAre, Registers
<1>12. Streams'
  BY <1>11, StreamKept DEF Registers
<1>13. KcdHears'
  <2>1. \A i \in 1..Len(KcdMsgs') : KcdMsgs'[i].sender # TID_KCD /\ KcdMsgs'[i].m.length = HdrSize + 1
    <3>1. \A i \in 1..1 : i = 1
      OBVIOUS
    <3>2. 9 = HdrSize + 1
      BY Sizes
    <3>. QED BY <1>3, <1>8, <1>9, <3>1, <3>2
  <2>. QED BY <2>1, BusyParts DEF KcdHears, Registers
<1>14. KcdRoom'
  <2>1. mbx'[TID_KCD].max = KCD_MBX_SIZE /\ mbx'[TID_KCD].curr = MailBoxSize + (HdrSize + 1) * Len(KcdMsgs')
    <3>1. mbx'[TID_KCD].max = 512 /\ mbx'[TID_KCD].curr = 16 + 9
      BY <1>3, <1>5, <1>8, <1>9 DEF Posted
    <3>. QED BY <1>9, <3>1, Sizes
  <2>. QED BY <1>4, <2>1 DEF KcdRoom, Registers
<1>. QED BY <1>12, <1>13, <1>14 DEF Streamed

(* A task that has not gone, and sends nothing to the KCD task. *)
Aside == /\ pc'[TID_KCD] = pc[TID_KCD] /\ mbx'[TID_KCD] = mbx[TID_KCD]
         /\ UNCHANGED << kcd, kcd_buf, rx, commands, user >>

LEMMA UserGoes ==
  ASSUME Busy, NEW t \in Users, NEW at, Goto(t, at)
  PROVE  pc'[TID_KCD] = pc[TID_KCD]
BY BusyParts, GotoIs

LEMMA UserBoxes ==
  ASSUME Busy, NEW t \in Users, Current = t
  PROVE  /\ TID_KCD # Current
         /\ \A b : mbx' = [mbx EXCEPT ![Current] = b] => mbx'[TID_KCD] = mbx[TID_KCD]
         /\ RecvAtOnce \/ RecvWoken \/ tsk_exit => mbx'[TID_KCD] = mbx[TID_KCD] /\ UNCHANGED rx
         /\ \A n : k_mbx_create(n) => mbx'[TID_KCD] = mbx[TID_KCD] /\ UNCHANGED rx
         /\ \A at : RecvSleep(at) => UNCHANGED << mbx, rx >>
         /\ \A m : send_msg(U1, m) => mbx'[TID_KCD] = mbx[TID_KCD] /\ UNCHANGED rx
<1>1. mbx \in [Tid -> Mailbox] /\ TID_KCD # Current /\ TID_KCD \in Tid /\ TID_KCD # U1
  BY BusyParts, MailboxesAre, Sizes
<1>. QED BY <1>1 DEF RecvAtOnce, RecvWoken, TakeFirst, tsk_exit, k_mbx_create, RecvSleep, send_msg, Deliver

LEMMA U1Streams ==
  ASSUME Busy, U1Step, UNCHANGED user
  PROVE  Streamed'
<1>0. U1 \in Users
  BY Sizes
<1>1. CASE U1Create
  <2>1. Aside
    BY <1>0, <1>1, UserBoxes, UserGoes DEF U1Create, U1Becomes, At, Aside
  <2>. QED BY <2>1, StreamAside DEF Aside
<1>2. CASE U1Register
  <2>1. Registers(U1) \/ Aside
    <3>1. At(U1, "register") /\ Current = U1 /\ pc[U1] = "register"
      BY <1>2 DEF U1Register, At
    <3>2. CASE send_msg(TID_KCD, Registration("c")) /\ U1Becomes(u1, "prompt")
      BY <1>0, <3>1, <3>2, UserGoes DEF Registers, U1Becomes
    <3>3. CASE UNCHANGED msgvars /\ U1Becomes([u1 EXCEPT !.eflag = 3], "turn")
      BY <1>0, <3>1, <3>3, UserGoes DEF Aside, U1Becomes, msgvars, ipc
    <3>. QED BY <1>2, <3>2, <3>3 DEF U1Register, Send
  <2>. QED BY <1>0, <2>1, StreamAside, RegistersStreams DEF Aside
<1>3. CASE Prompt(U1)
  <2>1. Aside
    BY <1>0, <1>3, UserGoes DEF Prompt, Aside, msgvars, ipc
  <2>. QED BY <2>1, StreamAside DEF Aside
<1>4. CASE U1Recv
  <2>1. CASE Sleeps(U1, "recv")
    <3>1. Aside
      BY <1>0, <2>1, UserBoxes DEF Sleeps, At, Aside, app
    <3>. QED BY <3>1, StreamAside DEF Aside
  <2>2. CASE ~Sleeps(U1, "recv")
    <3>1. /\ Taken(U1, "recv")
          /\ U1Becomes([i |-> u1.i + 1,
                         eflag |-> u1.eflag + (IF RightCommand(FirstOf(U1), TheC) THEN 0 ELSE 1)],
                        IF u1.i + 1 < 2 THEN "prompt" ELSE "turn")
      BY <1>4, <2>2, U1RecvCases
    <3>2. Aside
      BY <1>0, <3>1, UserBoxes, UserGoes DEF Taken, U1Becomes, Aside
    <3>. QED BY <3>2, StreamAside DEF Aside
  <2>. QED BY <2>1, <2>2
<1>5. CASE U1Turn
  <2>1. Aside
    BY <1>0, <1>5, UserGoes DEF U1Turn, Aside, msgvars, ipc
  <2>. QED BY <2>1, StreamAside DEF Aside
<1>6. CASE U1Result
  <2>1. CASE Sleeps(U1, "result")
    <3>1. Aside
      BY <1>0, <2>1, UserBoxes DEF Sleeps, At, Aside, app
    <3>. QED BY <3>1, StreamAside DEF Aside
  <2>2. CASE ~Sleeps(U1, "result")
    <3>1. Taken(U1, "result") /\ U1Becomes([u1 EXCEPT !.eflag = @ + Missed(FirstOf(U1))], "exit")
      BY <1>6, <2>2, U1ResultCases
    <3>2. Aside
      BY <1>0, <3>1, UserBoxes, UserGoes DEF Taken, U1Becomes, Aside
    <3>. QED BY <3>2, StreamAside DEF Aside
  <2>. QED BY <2>1, <2>2
<1>7. CASE U1Exit
  <2>1. Aside
    BY <1>0, <1>7, UserBoxes, UserGoes DEF U1Exit, At, Aside
  <2>. QED BY <2>1, StreamAside DEF Aside
<1>. QED BY <1>1, <1>2, <1>3, <1>4, <1>5, <1>6, <1>7 DEF U1Step

LEMMA U2Streams ==
  ASSUME Busy, U2Step, UNCHANGED user
  PROVE  Streamed'
<1>0. U2 \in Users
  BY Sizes
<1>1. CASE U2Spin
  <2>1. Aside
    BY <1>0, <1>1, UserGoes DEF U2Spin, U2Becomes, Aside, msgvars, ipc, app
  <2>. QED BY <2>1, StreamAside DEF Aside
<1>2. CASE U2Create
  <2>1. Aside
    BY <1>0, <1>2, UserBoxes, UserGoes DEF U2Create, U2Becomes, At, Aside
  <2>. QED BY <2>1, StreamAside DEF Aside
<1>3. CASE U2RegisterC
  <2>1. Registers(U2) \/ Aside
    <3>1. Current = U2 /\ pc[U2] = "register_c"
      BY <1>3 DEF U2RegisterC, At
    <3>2. CASE send_msg(TID_KCD, Registration("c")) /\ U2Becomes(Passed(u2), "register_d")
      BY <1>0, <3>1, <3>2, UserGoes DEF Registers, U2Becomes
    <3>3. CASE UNCHANGED msgvars /\ U2Becomes(u2, "set_prio")
      BY <1>0, <3>1, <3>3, UserGoes DEF Aside, U2Becomes, msgvars, ipc
    <3>. QED BY <1>3, <3>2, <3>3 DEF U2RegisterC, Send
  <2>. QED BY <1>0, <2>1, StreamAside, RegistersStreams DEF Aside
<1>4. CASE U2RegisterD
  <2>1. Registers(U2) \/ Aside
    <3>1. Current = U2 /\ pc[U2] = "register_d"
      BY <1>4 DEF U2RegisterD, At
    <3>2. CASE send_msg(TID_KCD, Registration("d")) /\ U2Becomes(Passed(u2), "prompt")
      BY <1>0, <3>1, <3>2, UserGoes DEF Registers, U2Becomes
    <3>3. CASE UNCHANGED msgvars /\ U2Becomes(u2, "set_prio")
      BY <1>0, <3>1, <3>3, UserGoes DEF Aside, U2Becomes, msgvars, ipc
    <3>. QED BY <1>4, <3>2, <3>3 DEF U2RegisterD, Send
  <2>. QED BY <1>0, <2>1, StreamAside, RegistersStreams DEF Aside
<1>5. CASE Prompt(U2)
  <2>1. Aside
    BY <1>0, <1>5, UserGoes DEF Prompt, Aside, msgvars, ipc
  <2>. QED BY <2>1, StreamAside DEF Aside
<1>6. CASE U2Recv
  <2>1. CASE Sleeps(U2, "recv")
    <3>1. Aside
      BY <1>0, <2>1, UserBoxes DEF Sleeps, At, Aside, app
    <3>. QED BY <3>1, StreamAside DEF Aside
  <2>2. CASE ~Sleeps(U2, "recv")
    <3>1. PICK u, at : Taken(U2, "recv") /\ U2Becomes(u, at)
      BY <1>6, <2>2, U2RecvCases
    <3>2. Aside
      BY <1>0, <3>1, UserBoxes, UserGoes DEF Taken, U2Becomes, Aside
    <3>. QED BY <3>2, StreamAside DEF Aside
  <2>. QED BY <2>1, <2>2
<1>7. CASE U2SetPrio
  <2>1. Aside
    BY <1>0, <1>7, UserGoes DEF U2SetPrio, U2Becomes, Aside, ipc
  <2>. QED BY <2>1, StreamAside DEF Aside
<1>8. CASE U2Report
  <2>1. Aside
    <3>1. Current = U2 /\ U2Becomes(u2, "exit")
      BY <1>8 DEF U2Report, Send, At
    <3>2. \/ \E m : send_msg(U1, m)
          \/ UNCHANGED msgvars
      BY <1>8 DEF U2Report, Send
    <3>3. mbx'[TID_KCD] = mbx[TID_KCD] /\ UNCHANGED rx
      BY <1>0, <3>1, <3>2, UserBoxes DEF msgvars, ipc
    <3>. QED BY <1>0, <3>1, <3>3, UserGoes DEF U2Becomes, Aside
  <2>. QED BY <2>1, StreamAside DEF Aside
<1>9. CASE U2Exit
  <2>1. Aside
    BY <1>0, <1>9, UserBoxes, UserGoes DEF U2Exit, U2Becomes, At, Aside
  <2>. QED BY <2>1, StreamAside DEF Aside
<1>. QED BY <1>1, <1>2, <1>3, <1>4, <1>5, <1>6, <1>7, <1>8, <1>9 DEF U2Step

(* A character that is refused is handled, too. *)
LEMMA WayRefused ==
  ASSUME NEW w, NEW n \in Nat, NEW b, NEW r \in Seq(Char), NEW l \in Seq(Char), r # << >>,
         Way(w, n, 0, 0, b, << >>, r, l)
  PROVE  Way(w, n + 1, 0, 0, b, << >>, Tail(r), l)
<1>1. /\ Len(<< >>) = 0 /\ Len(r) \in Nat /\ Len(l) \in Nat /\ Len(r) >= 1
      /\ Len(Tail(r)) = Len(r) - 1
      /\ \A i \in 1..Len(Tail(r)) : Tail(r)[i] = r[i + 1] /\ i + 1 \in 1..Len(r)
  BY EmptySeq
<1>2. PICK t, k, j, z : t = Tail(r) /\ k = Len(r) /\ j = Len(l) /\ z = Len(w)
  OBVIOUS
<1>3. /\ n + k + j = z
      /\ \A i \in 1..k : r[i] = w[n + i]
      /\ \A i \in 1..j : l[i] = w[n + k + i]
  <2>1. n + 0 + 0 - 0 = n
    OBVIOUS
  <2>. QED BY <1>1, <1>2, <2>1 DEF Way
<1>4. (n + 1) + Len(t) + j = z
  BY <1>1, <1>2, <1>3
<1>5. ASSUME NEW i \in 1..Len(t) PROVE t[i] = w[(n + 1) + i]
  <2>1. t[i] = r[i + 1] /\ i + 1 \in 1..k
    BY <1>1, <1>2
  <2>2. n + (i + 1) = (n + 1) + i
    OBVIOUS
  <2>. QED BY <1>3, <2>1, <2>2
<1>6. ASSUME NEW i \in 1..j PROVE l[i] = w[(n + 1) + Len(t) + i]
  <2>1. n + k + i = (n + 1) + Len(t) + i
    BY <1>1, <1>2
  <2>. QED BY <1>3, <2>1
<1>7. (n + 1) + 0 + 0 - 0 = n + 1
  OBVIOUS
<1>8. \A i \in 1..(0 - 0) : FALSE
  OBVIOUS
<1>. QED BY <1>1, <1>2, <1>4, <1>5, <1>6, <1>7, <1>8 DEF Way

(* The mailbox of the KCD task, once created, has room for the whole script. *)
LEMMA ScriptHasRoom ==
  ASSUME Busy, rx # << >>, Stands("irq"), pc[TID_KCD] # "entry"
  PROVE  /\ mbx[TID_KCD].curr + 9 <= 512 /\ mbx[TID_KCD].max = 512
         /\ Accepts(TID_KCD, 9)
<1>0. Sound /\ TID_KCD \in Tid
  BY BusyParts
<1>1. PICK m \in Nat, s \in Nat : Reading(m, s)
  BY BusyParts DEF Streams
<1>2. /\ KcdMsgs \in Seq(Letter) /\ rx \in Seq(Char) /\ user.left \in Seq(Char) /\ InBuf \in Nat
  BY <1>0, WayTypes
<1>3. PICK w, n : w = KeysOf(user.line) /\ n = s + InBuf
  OBVIOUS
<1>4. n + Handled + Len(KcdMsgs) - HeadReg + Len(rx) + Len(user.left) = Len(w)
  BY <1>1, <1>3 DEF Reading, KeysAre, Way
<1>5. Len(w) \in 0..36
  <2>1. Len(w) = 6 * user.line /\ user.line \in 0..6
    BY <1>3, BusyParts
  <2>2. \A q \in 0..6 : 6 * q \in 0..36
    OBVIOUS
  <2>. QED BY <2>1, <2>2
<1>6. Len(KcdMsgs) <= 36 /\ Len(KcdMsgs) \in Nat
  <2>1. Len(rx) >= 1 /\ Len(user.left) \in Nat /\ Len(KcdMsgs) \in Nat /\ Len(rx) \in Nat
    BY <1>2
  <2>2. Handled \in {0, 1} /\ HeadReg \in {0, 1} /\ n \in Nat
    BY <1>2, <1>3, WaySizes
  <2>3. \A a, i, r, o \in Nat, h, g \in {0, 1}, z \in 0..36 :
          a + h + i - g + r + o = z /\ r >= 1 => i <= 36
    OBVIOUS
  <2>. QED BY <1>4, <1>5, <2>1, <2>2, <2>3, Zenon
<1>7. mbx[TID_KCD].max = 512 /\ mbx[TID_KCD].curr = 16 + 9 * Len(KcdMsgs)
  BY BusyParts, Sizes DEF KcdRoom
<1>8. mbx[TID_KCD].curr + 9 <= 512
  BY <1>6, <1>7
<1>9. booted = 4
  <2>1. Current \in Tid /\ kctx[Current] # "user"
    BY <1>0, MailboxesAre DEF Stands
  <2>2. booted \in 0..4
    BY <1>0, InvParts, Fixed DEF Sound, SchedInv, TypeOK
  <2>. QED BY <1>0, <2>1, <2>2 DEF Sound, BootInv
<1>10. g_tcbs[TID_KCD].state # "DORMANT"
  <2>1. pc[TID_KCD] # "gone" /\ TID_KCD \in Tasks
    BY <1>0 DEF Sound, CtxInv, Tasks
  <2>. QED BY <1>0, <1>9, <2>1, AliveIs
<1>11. Accepts(TID_KCD, 9)
  <2>1. 512 < SIZEMOD /\ 512 # 0
    BY Sizes
  <2>. QED BY <1>0, <1>7, <1>8, <1>10, <2>1, RoomAccepts
<1>. QED BY <1>7, <1>8, <1>11

LEMMA IrqRefusedStreams ==
  ASSUME Busy, rx # << >>, pc[TID_KCD] = "entry", rx' = Tail(rx), UNCHANGED << mbx, app, user >>
  PROVE  Streamed'
<1>1. UNCHANGED << pc, kcd, kcd_buf, commands >>
  BY DEF app
<1>2. mbx[TID_KCD] = NoMailbox /\ kcd.tail = 0 /\ kcd.input_buf[0] # PERCENT
  BY BusyParts DEF KcdRoom
<1>3. KcdMsgs = << >> /\ KcdMsgs' = << >>
  BY <1>2 DEF KcdMsgs, NoMailbox
<1>4. HeadReg = 0 /\ Handled = 0 /\ InBuf = 0 /\ HeadReg' = 0 /\ Handled' = 0 /\ InBuf' = 0
  BY <1>1, <1>2, <1>3 DEF HeadReg, Handled, InBuf
<1>5. PICK m \in Nat, s \in Nat : Reading(m, s)
  BY BusyParts DEF Streams
<1>6. /\ 6 * m <= s /\ s < 6 * m + 6 /\ SentInOrder(m)
  <2>1. s + 0 < 6 * m + 6
    BY <1>4, <1>5 DEF Reading
  <2>. QED BY <1>5, <2>1 DEF Reading
<1>7. KeysAre(KeysOf(user.line), s + 1)'
  <2>1. PICK w : w = KeysOf(user.line)
    OBVIOUS
  <2>2. s + 0 = s /\ rx \in Seq(Char) /\ user.left \in Seq(Char)
    BY BusyParts, WayTypes
  <2>3. Way(w, s, 0, 0, kcd_buf.m, << >>, rx, user.left)
    BY <1>3, <1>4, <1>5, <2>1, <2>2 DEF Reading, KeysAre
  <2>4. Way(w, s + 1, 0, 0, kcd_buf.m, << >>, Tail(rx), user.left)
    BY <2>2, <2>3, WayRefused
  <2>5. KeysAre(w, s + 1)'
    BY <1>1, <1>3, <1>4, <2>4 DEF KeysAre
  <2>. QED BY <2>1, <2>5
<1>8. SentInOrder(m)' /\ SentInOrder(m + 1)'
  <2>1. SentInOrder(m + 1)
    BY <1>6, SentMore
  <2>. QED BY <1>1, <1>6, <2>1, SentKept
<1>9. \A i \in 1..kcd'.tail : FALSE
  BY <1>1, <1>2
<1>10. s + 1 \in Nat /\ m + 1 \in Nat /\ (s + 1) + InBuf' = s + 1
  BY <1>4
<1>11. KeysAre(KeysOf(user.line), (s + 1) + InBuf)'
  BY <1>7, <1>10
<1>12. ASSUME s + 1 < 6 * m + 6 PROVE Streams'
  <2>1. 6 * m <= s + 1 /\ (s + 1) + InBuf' < 6 * m + 6
    BY <1>6, <1>10, <1>12
  <2>2. Reading(m, s + 1)'
    BY <1>1, <1>2, <1>8, <1>9, <1>11, <2>1 DEF Reading
  <2>. QED BY <1>10, <2>2 DEF Streams
<1>13. ASSUME ~(s + 1 < 6 * m + 6) PROVE Streams'
  <2>1. 6 * (m + 1) <= s + 1 /\ (s + 1) + InBuf' < 6 * (m + 1) + 6
    BY <1>6, <1>10, <1>13
  <2>2. Reading(m + 1, s + 1)'
    BY <1>1, <1>2, <1>8, <1>9, <1>11, <2>1 DEF Reading
  <2>. QED BY <1>10, <2>2 DEF Streams
<1>14. Streams'
  BY <1>12, <1>13
<1>15. KcdHears' /\ KcdRoom'
  BY <1>1, <1>3, BusyParts DEF KcdHears, KcdRoom
<1>. QED BY <1>14, <1>15 DEF Streamed

LEMMA IrqCharStreams ==
  ASSUME Busy, IrqChar, UNCHANGED << app, user >>
  PROVE  Streamed'
<1> DEFINE m == Message(HdrSize + 1, "KEY_IN", << Head(rx) >>)
           x == [m |-> m, from |-> TID_UART_IRQ, sender |-> TID_UART_IRQ]
<1>0. Sound /\ TID_KCD \in Tid
  BY BusyParts
<1>1. /\ rx # << >> /\ Stands("irq") /\ rx' = Tail(rx) /\ Head(rx) = rx[1]
      /\ UNCHANGED << pc, kcd, kcd_buf, commands >>
  <2>1. rx \in Seq(Char)
    BY <1>0, WayTypes
  <2>. QED BY <2>1 DEF IrqChar, app
<1>2. m.length = 9 /\ m = Key(rx[1])
  BY <1>1, Sizes DEF Message, Key
<1>3. CASE pc[TID_KCD] = "entry"
  <2>1. ~HasMbx(TID_KCD)
    BY <1>3, BusyParts DEF KcdRoom, HasMbx, NoMailbox
  <2>2. ~Accepts(TID_KCD, m.length)
    BY <2>1 DEF Accepts
  <2>3. UNCHANGED mbx
    BY <2>2 DEF IrqChar
  <2>. QED BY <1>1, <1>3, <2>3, IrqRefusedStreams
<1>4. CASE pc[TID_KCD] # "entry"
  <2>1. mbx[TID_KCD].curr + 9 <= 512 /\ mbx[TID_KCD].max = 512 /\ Accepts(TID_KCD, 9)
    BY <1>1, <1>4, ScriptHasRoom
  <2>2. Deliver(TID_KCD, m, TRUE, TID_UART_IRQ)
    BY <1>2, <2>1 DEF IrqChar
  <2>3. m \in RtxMsg /\ TID_UART_IRQ \in Sender
    <3>1. HdrSize + 1 \in Length /\ rx[1] \in Keys
      <4>1. rx \in Seq(Keys)
        BY <1>0, MailboxesAre
      <4>. QED BY <1>1, <4>1 DEF Length
    <3>. QED BY <1>1, <3>1 DEF RtxMsg, Sender, Message
  <2>4. Posted(TID_KCD, x) /\ x \in Letter /\ x.m = Key(rx[1]) /\ x.sender = TID_UART_IRQ
    <3>. HIDE DEF m
    <3>1. mbx[TID_KCD].curr + m.length < SIZEMOD
      <4>1. mbx[TID_KCD].curr \in Nat /\ 512 < SIZEMOD /\ SIZEMOD \in Nat
        BY <1>0, MailboxesAre, Sizes
      <4>. QED BY <1>2, <2>1, <4>1
    <3>2. Posted(TID_KCD, x)
      BY <1>0, <2>2, <2>3, <3>1, DeliverPosts
    <3>3. x \in Letter
      BY <2>3 DEF Letter
    <3>. QED BY <1>2, <3>2, <3>3
  <2>. HIDE DEF x, m
  <2>5. /\ KcdMsgs \in Seq(Letter) /\ rx \in Seq(Char) /\ user.left \in Seq(Char)
        /\ HeadReg <= Len(KcdMsgs) /\ KcdMsgs' = Append(KcdMsgs, x)
    BY <1>0, <2>4, WayTypes DEF Posted, KcdMsgs
  <2>6. /\ KcdMsgs' # << >>
        /\ IF KcdMsgs = << >> THEN KcdMsgs'[1] = x ELSE KcdMsgs'[1] = KcdMsgs[1]
    <3>1. CASE KcdMsgs = << >>
      BY <2>5, <3>1
    <3>2. CASE KcdMsgs # << >>
      BY <2>5, <3>2
    <3>. QED BY <3>1, <3>2
  <2>7. HeadReg' = HeadReg /\ Handled' = Handled
    BY <1>1, <2>4, <2>6 DEF HeadReg, Handled, Key, Message
  <2>8. ASSUME NEW w, NEW n \in Nat, KeysAre(w, n) PROVE KeysAre(w, n)'
    <3>1. Way(w, n, HeadReg, Handled, kcd_buf.m, Append(KcdMsgs, x), Tail(rx), user.left)
      BY <1>1, <2>4, <2>5, <2>8, WaySizes, WayInterrupt
    <3>. QED BY <1>1, <2>5, <2>7, <3>1 DEF KeysAre
  <2>9. Streams'
    BY <1>1, <2>8, StreamKept
  <2>10. /\ Len(KcdMsgs') = Len(KcdMsgs) + 1 /\ Len(KcdMsgs) \in Nat
         /\ KcdMsgs'[Len(KcdMsgs) + 1] = x
         /\ \A i \in 1..Len(KcdMsgs) : KcdMsgs'[i] = KcdMsgs[i]
    BY <2>5
  <2>11. KcdHears'
    <3>1. x.sender # TID_KCD /\ x.m.length = HdrSize + 1
      BY <2>4, Fixed DEF TID_UART_IRQ, Key, Message
    <3>2. ASSUME NEW i \in 1..Len(KcdMsgs')
          PROVE  KcdMsgs'[i].sender # TID_KCD /\ KcdMsgs'[i].m.length = HdrSize + 1
      <4>1. i \in 1..Len(KcdMsgs) \/ i = Len(KcdMsgs) + 1
        BY <2>10
      <4>. QED BY <2>10, <3>1, <4>1, BusyParts DEF KcdHears
    <3>. QED BY <1>1, <3>2, BusyParts DEF KcdHears
  <2>12. KcdRoom'
    <3>1. mbx'[TID_KCD].max = 512 /\ mbx'[TID_KCD].curr = mbx[TID_KCD].curr + 9
      BY <1>2, <2>1, <2>4 DEF Posted, Key, Message
    <3>2. mbx[TID_KCD].curr = 16 + 9 * Len(KcdMsgs)
      BY <1>4, BusyParts, Sizes DEF KcdRoom
    <3>3. mbx'[TID_KCD].max = KCD_MBX_SIZE /\ mbx'[TID_KCD].curr = MailBoxSize + (HdrSize + 1) * Len(KcdMsgs')
      BY <2>10, <3>1, <3>2, Sizes
    <3>. QED BY <1>1, <1>4, <3>3 DEF KcdRoom
  <2>. QED BY <2>9, <2>11, <2>12 DEF Streamed
<1>. QED BY <1>3, <1>4

(* The person. *)
LEMMA PressStreams ==
  ASSUME Busy, Press
  PROVE  Streamed'
<1>1. /\ user.left # << >> /\ rx' = Append(rx, user.left[1])
      /\ UNCHANGED << mbx, pc, kcd, kcd_buf, commands >>
  BY DEF Press, KeyTyped, app
<1>2. user'.left = Tail(user.left) /\ user'.line = user.line
  BY BusyParts DEF Press, Person
<1>3. KcdMsgs' = KcdMsgs
  BY <1>1 DEF KcdMsgs
<1>4. HeadReg' = HeadReg /\ Handled' = Handled
  BY <1>1, <1>3 DEF HeadReg, Handled
<1>5. ASSUME NEW w, NEW n \in Nat, KeysAre(w, n) PROVE KeysAre(w, n)'
  <2>1. KcdMsgs \in Seq(Letter) /\ rx \in Seq(Char) /\ user.left \in Seq(Char)
    BY BusyParts, WayTypes
  <2>2. Way(w, n, HeadReg, Handled, kcd_buf.m, KcdMsgs, Append(rx, user.left[1]), Tail(user.left))
    BY <1>1, <1>5, <2>1, WaySizes, WayPressed
  <2>. QED BY <1>1, <1>2, <1>3, <1>4, <2>2 DEF KeysAre
<1>6. Streams'
  BY <1>1, <1>2, <1>5, StreamKept
<1>7. KcdHears' /\ KcdRoom'
  BY <1>1, <1>3, BusyParts DEF KcdHears, KcdRoom
<1>. QED BY <1>6, <1>7 DEF Streamed

(* The line begun comes behind the others. *)
LEMMA BeginStreams ==
  ASSUME Busy, BeginScript
  PROVE  Streamed' /\ user'.line = user.line + 1
<1>1. /\ user.left = << >> /\ user.line \in 0..5 /\ UNCHANGED << mbx, rx, pc, kcd, kcd_buf, commands >>
      /\ user'.left = Script[user.line + 1] /\ user'.line = user.line + 1
  <2>1. user \in Person /\ Len(Script) = 6 /\ user.line \in 0..6
    BY BusyParts, ScriptIs
  <2>2. user.left = << >> /\ user.line < 6 /\ UNCHANGED << mbx, rx, pc, kcd, kcd_buf, commands >>
    BY <2>1 DEF BeginScript, app, msgvars, ipc
  <2>3. user' = [user EXCEPT !.line = @ + 1, !.left = Script[user.line + 1]]
    BY <2>1 DEF BeginScript, Begin, Person
  <2>. QED BY <2>1, <2>2, <2>3 DEF Person
<1>2. PICK k, l, v : k = KeysOf(user.line) /\ l = Script[user.line + 1] /\ v = KeysOf(user.line + 1)
  OBVIOUS
<1>3. /\ k \in Seq(Char) /\ Len(k) = 6 * user.line /\ l \in Seq(Char) /\ v = Both(k, l)
  <2>1. user.line + 1 \in 1..6
    BY <1>1
  <2>. QED BY <1>1, <1>2, <2>1, BusyParts, ScriptIs, KeysOfNext
<1>4. Both(k, << >>) = k
  <2>1. PICK b : b = Both(k, << >>)
    OBVIOUS
  <2>2. b \in Seq(Char) /\ Len(b) = Len(k) /\ \A i \in 1..Len(k) : b[i] = k[i]
    BY <1>3, <2>1, BothEmpty
  <2>3. b = k
    BY <1>3, <2>2
  <2>. QED BY <2>1, <2>3
<1>5. \A i \in 1..Len(k) : v[i] = k[i]
  BY <1>3, BothIs
<1>6. PICK m \in Nat, s \in Nat : Reading(m, s)
  BY BusyParts DEF Streams
<1>7. KcdMsgs' = KcdMsgs
  BY <1>1 DEF KcdMsgs
<1>8. HeadReg' = HeadReg /\ Handled' = Handled /\ InBuf' = InBuf
  BY <1>1, <1>7 DEF HeadReg, Handled, InBuf
<1>9. PICK n : n = s + InBuf
  OBVIOUS
<1>10. /\ KcdMsgs \in Seq(Letter) /\ rx \in Seq(Char) /\ HeadReg <= Len(KcdMsgs)
       /\ InBuf \in Nat /\ n \in Nat /\ kcd.tail \in Nat
  BY <1>9, BusyParts, WayTypes
<1>11. Way(k, n, HeadReg, Handled, kcd_buf.m, KcdMsgs, rx, << >>)
  BY <1>1, <1>2, <1>6, <1>9 DEF Reading, KeysAre
<1>12. KeysAre(KeysOf(user.line), s + InBuf)'
  <2>1. Way(v, n, HeadReg, Handled, kcd_buf.m, KcdMsgs, rx, l)
    BY <1>3, <1>4, <1>10, <1>11, WaySizes, WayBegin
  <2>2. KeysAre(v, n)'
    BY <1>1, <1>2, <1>7, <1>8, <2>1 DEF KeysAre
  <2>3. v = KeysOf(user'.line) /\ n = s + InBuf'
    BY <1>1, <1>2, <1>8, <1>9
  <2>. QED BY <2>2, <2>3
<1>13. n <= Len(k)
  <2>1. n + Handled + Len(KcdMsgs) - HeadReg + Len(rx) + Len(<< >>) = Len(k)
    BY <1>11 DEF Way
  <2>2. Len(<< >>) = 0 /\ Len(rx) \in Nat /\ Len(KcdMsgs) \in Nat
    BY <1>10, EmptySeq
  <2>3. PICK h, g, i, r, z : h = Handled /\ g = HeadReg /\ i = Len(KcdMsgs) /\ r = Len(rx) /\ z = Len(k)
    OBVIOUS
  <2>4. n \in Nat /\ h \in {0, 1} /\ g \in {0, 1} /\ i \in Nat /\ r \in Nat /\ z \in Nat /\ g <= i
    BY <1>3, <1>10, <2>2, <2>3, WaySizes
  <2>5. n + h + i - g + r + 0 = z
    BY <2>1, <2>2, <2>3
  <2>6. n <= z
    BY <2>4, <2>5
  <2>. QED BY <2>3, <2>6
<1>14. /\ 6 * m <= s /\ s + InBuf < 6 * m + 6
       /\ IF pc[TID_KCD] = "send"
          THEN m > 0 /\ s = 6 * m /\ Text(kcd) = TextOf(Script[m]) /\ SentInOrder(m - 1)
          ELSE /\ \A i \in 1..kcd.tail : kcd.input_buf[i - 1] = k[s + i]
               /\ s # 6 * m => kcd.input_buf[0] # PERCENT
               /\ SentInOrder(m)
  BY <1>2, <1>6 DEF Reading
<1>15. ASSUME pc[TID_KCD] # "send", NEW i \in 1..kcd.tail
       PROVE  kcd.input_buf[i - 1] = v[s + i]
  <2>1. n = s + kcd.tail
    BY <1>9, <1>15 DEF InBuf
  <2>2. s + i \in 1..Len(k)
    BY <1>3, <1>10, <1>13, <2>1, SMTT(30)
  <2>. QED BY <1>5, <1>14, <1>15, <2>2
<1>16. \A j : SentInOrder(j) => SentInOrder(j)'
  BY <1>1, SentKept
<1>17. Reading(m, s)'
  <2>1. v = KeysOf(user'.line)
    BY <1>1, <1>2
  <2>2. 6 * m <= s /\ s + InBuf' < 6 * m + 6
    BY <1>8, <1>14
  <2>3. CASE pc[TID_KCD] = "send"
    BY <1>1, <1>12, <1>14, <1>16, <2>2, <2>3 DEF Reading
  <2>4. CASE pc[TID_KCD] # "send"
    <3>1. \A i \in 1..kcd'.tail : kcd'.input_buf[i - 1] = KeysOf(user'.line)[s + i]
      BY <1>1, <1>15, <2>1, <2>4
    <3>. QED BY <1>1, <1>12, <1>14, <1>16, <2>2, <2>4, <3>1 DEF Reading
  <2>. QED BY <2>3, <2>4
<1>18. KcdHears' /\ KcdRoom'
  BY <1>1, <1>7, BusyParts DEF KcdHears, KcdRoom
<1>. QED BY <1>1, <1>17, <1>18 DEF Streamed, Streams

LEMMA KcdStepStreams ==
  ASSUME Busy, KcdStep, UNCHANGED user, pc'[TID_KCD] # "wild"
  PROVE  Streamed'
BY KcdCreateStreams, KcdAllocStreams, KcdRecvStreams, KcdRegisterStreams, KcdStoreStreams, KcdLineStreams,
   KcdSendStreams DEF KcdStep

LEMMA RestStreams ==
  ASSUME Busy, UNCHANGED user, Boot \/ Yields \/ Handler \/ Interrupt \/ UNCHANGED t2vars, ~IrqTears
  PROVE  Streamed'
<1>1. CASE IrqChar /\ UNCHANGED app
  BY <1>1, IrqCharStreams
<1>2. CASE ~(IrqChar /\ UNCHANGED app)
  <2>1. UNCHANGED << app, user, mbx, rx >>
    BY <1>2 DEF Boot, Yields, Handler, Interrupt, UartIrq, IrqFree, IrqEnd, ipc, t2vars, msgvars
  <2>. QED BY <2>1, StreamAside DEF app
<1>. QED BY <1>1, <1>2

LEMMA StreamedStep ==
  ASSUME Busy, [Test2Next]_t2vars, pc'[TID_KCD] \notin {"wild", "torn"}
  PROVE  Streamed'
<1>0. ~IrqTears
  BY KcdGoes DEF IrqTears, KcdBecomes
<1>1. CASE Cpu
  BY <1>0, <1>1, RestStreams, KcdStepStreams, U1Streams, U2Streams DEF Cpu
<1>2. CASE Interrupt \/ UNCHANGED t2vars
  <2>1. UNCHANGED user
    BY <1>2 DEF Interrupt, t2vars
  <2>. QED BY <1>0, <1>2, <2>1, RestStreams
<1>3. ~BeginJunk /\ ~BeginBare
  BY DEF BeginJunk, BeginBare, Busy
<1>. QED BY <1>1, <1>2, <1>3, PressStreams, BeginStreams DEF Test2Next

(* What has been sent are lines begun. *)
LEMMA StreamedSent ==
  ASSUME Busy
  PROVE  SentInOrder(user.line)
<1>1. PICK m \in Nat, s \in Nat : Reading(m, s)
  BY BusyParts DEF Streams
<1>2. PICK k, n : k = KeysOf(user.line) /\ n = s + InBuf
  OBVIOUS
<1>3. Way(k, n, HeadReg, Handled, kcd_buf.m, KcdMsgs, rx, user.left)
  BY <1>1, <1>2 DEF Reading, KeysAre
<1>4. /\ KcdMsgs \in Seq(Letter) /\ rx \in Seq(Char) /\ HeadReg <= Len(KcdMsgs)
      /\ user.left \in Seq(Char) /\ InBuf \in Nat /\ n \in Nat
  BY <1>2, BusyParts, WayTypes
<1>5. n <= 6 * user.line
  <2>1. n + Handled + Len(KcdMsgs) - HeadReg + Len(rx) + Len(user.left) = Len(k)
    BY <1>3 DEF Way
  <2>2. Len(user.left) \in Nat /\ Len(rx) \in Nat /\ Len(KcdMsgs) \in Nat
    BY <1>4
  <2>3. PICK h, g, i, r, o, z : /\ h = Handled /\ g = HeadReg /\ i = Len(KcdMsgs)
                                /\ r = Len(rx) /\ o = Len(user.left) /\ z = Len(k)
    OBVIOUS
  <2>4. z \in Nat /\ z = 6 * user.line
    BY <1>2, <2>3, BusyParts
  <2>5. n \in Nat /\ h \in {0, 1} /\ g \in {0, 1} /\ i \in Nat /\ r \in Nat /\ o \in Nat /\ g <= i
    BY <1>4, <2>2, <2>3, WaySizes
  <2>6. n + h + i - g + r + o = z
    BY <2>1, <2>3
  <2>7. n <= z
    BY <2>4, <2>5, <2>6
  <2>. QED BY <2>4, <2>7
<1>6. m <= user.line /\ user.line \in Nat
  <2>1. 6 * m <= s
    BY <1>1 DEF Reading
  <2>2. user.line \in 0..6
    BY BusyParts
  <2>3. PICK a : a = user.line
    OBVIOUS
  <2>4. PICK b : b = InBuf
    OBVIOUS
  <2>5. a \in Nat /\ b \in Nat /\ 6 * m <= s /\ s + b <= 6 * a
    BY <1>2, <1>4, <1>5, <2>1, <2>2, <2>3, <2>4
  <2>6. m <= a
    BY <2>5
  <2>. QED BY <2>3, <2>5, <2>6
<1>7. SentInOrder(m)
  <2>1. CASE pc[TID_KCD] = "send"
    <3>1. m > 0 /\ SentInOrder(m - 1)
      BY <1>1, <2>1 DEF Reading
    <3>2. m - 1 \in Nat /\ m - 1 <= m
      BY <3>1
    <3>. QED BY <3>1, <3>2, SentMore
  <2>2. CASE pc[TID_KCD] # "send"
    BY <1>1, <2>2 DEF Reading
  <2>. QED BY <2>1, <2>2
<1>. QED BY <1>6, <1>7, SentMore

-----------------------------------------------------------------------------
(* With a person who is not hasty, a command is sent before the next line   *)
(* is begun.  Answered are the lines whose commands have arrived.           *)
Answered == u1.i + u2.i + Count(Mailed)

LEMMA LineText ==
  TextOf(LineC) = TheC /\ TextOf(LineD) = TheD /\ TheC \in Seq(Char) /\ TheD \in Seq(Char)
<1>1. /\ LineC \in Seq(Char) /\ Len(LineC) = 6 /\ LineD \in Seq(Char) /\ Len(LineD) = 6
      /\ LineC[2] = "c" /\ LineC[3] = "G" /\ LineC[4] = "T" /\ LineC[5] = "A"
      /\ LineD[2] = "d" /\ LineD[3] = "G" /\ LineD[4] = "T" /\ LineD[5] = "A"
  BY TestLines DEF Tests
<1>2. /\ TheC = << "c", "G", "T", "A" >> /\ TheD = << "d", "G", "T", "A" >>
  BY DEF TheC, TheD
<1>3. ASSUME NEW w \in Seq(Char), Len(w) = 6 PROVE TextOf(w) = << w[2], w[3], w[4], w[5] >>
  <2>1. TextOf(w) = SubSeq(w, 2, 5)
    BY <1>3 DEF TextOf
  <2>2. SubSeq(w, 2, 5) = << w[2], w[3], w[4], w[5] >>
    <3>1. PICK t : t = SubSeq(w, 2, 5)
      OBVIOUS
    <3>2. t = [i \in 1..((5 - 2) + 1) |-> w[(i + 2) - 1]]
      BY <1>3, <3>1
    <3>4. 1..((5 - 2) + 1) = 1..4 /\ (1 + 2) - 1 = 2 /\ (2 + 2) - 1 = 3 /\ (3 + 2) - 1 = 4 /\ (4 + 2) - 1 = 5
      OBVIOUS
    <3>5. t[1] = w[2] /\ t[2] = w[3] /\ t[3] = w[4] /\ t[4] = w[5]
      BY <3>2, <3>4
    <3>6. t \in Seq(Char) /\ Len(t) = 4
      <4>1. ASSUME NEW i \in 1..4 PROVE w[i + 1] \in Char
        <5>1. i + 1 \in 1..Len(w)
          BY <1>3
        <5>. QED BY <1>3, <5>1, ElementOfSeq
      <4>2. t = [i \in 1..4 |-> w[i + 1]]
        <5>1. \A i \in 1..4 : (i + 2) - 1 = i + 1
          OBVIOUS
        <5>. QED BY <3>2, <3>4, <5>1
      <4>. QED BY <4>1, <4>2
    <3>3. t = << t[1], t[2], t[3], t[4] >>
      BY <3>6
    <3>. QED BY <3>1, <3>5, <3>3
  <2>. QED BY <2>1, <2>2
<1>4. TheC \in Seq(Char) /\ TheD \in Seq(Char)
  <2>1. 2 \in 1..6 /\ 3 \in 1..6 /\ 4 \in 1..6 /\ 5 \in 1..6
    OBVIOUS
  <2>2. "c" \in Char /\ "d" \in Char /\ "G" \in Char /\ "T" \in Char /\ "A" \in Char
    BY <1>1, <2>1, ElementOfSeq
  <2>. QED BY <1>2, <2>2
<1>. QED BY <1>1, <1>2, <1>3, <1>4

LEMMA AnsweredIs ==
  ASSUME Good
  PROVE  /\ Answered \in Nat /\ Answered <= user.line
         /\ u1.i \in 0..2 /\ u2.i \in 0..4 /\ u1.i + u2.i <= Answered /\ Answered <= u1.i + u2.i + 1
<1>1. PICK k \in Typeable, l \in Typeable : Accounted(k, l)
  BY GoodParts DEF Lines, Typeable
<1>2. u1.i \in 0..2 /\ u2.i \in 0..4
  BY GoodParts DEF Phases
<1>3. PICK a, b, c : a = Count(Typed(k, l)) /\ b = Count(Sending) /\ c = Count(Mailed)
  OBVIOUS
<1>4. a \in {0, 1} /\ b \in {0, 1} /\ c \in {0, 1}
  BY <1>3 DEF Count
<1>5. user.line = u1.i + u2.i + a + b + c /\ Answered = u1.i + u2.i + c
  BY <1>1, <1>3 DEF Accounted, Answered
<1>6. PICK i, j : i = u1.i /\ j = u2.i
  OBVIOUS
<1>7. i \in 0..2 /\ j \in 0..4 /\ i + j + c <= i + j + a + b + c /\ i + j + c \in Nat
  BY <1>2, <1>4, <1>6
<1>. QED BY <1>4, <1>5, <1>6, <1>7

LEMMA AnsweredMore ==
  ASSUME Good, NEW i \in Nat, NEW j \in Nat, u1'.i = i, u2'.i = j, i >= u1.i, j >= u2.i,
         Mailed => Mailed' \/ i + j >= u1.i + u2.i + 1
  PROVE  Answered' \in Nat /\ Answered' >= Answered
<1>1. PICK a, b, c, d : a = u1.i /\ b = u2.i /\ c = Count(Mailed) /\ d = Count(Mailed')
  OBVIOUS
<1>2. a \in Nat /\ b \in Nat /\ c \in {0, 1} /\ d \in {0, 1}
  BY <1>1, AnsweredIs DEF Count
<1>3. c = 1 => d = 1 \/ i + j >= a + b + 1
  BY <1>1 DEF Count
<1>4. Answered = a + b + c /\ Answered' = i + j + d /\ i >= a /\ j >= b
  BY <1>1 DEF Answered, Count
<1>5. i + j + d \in Nat /\ i + j + d >= a + b + c
  <2>1. i >= a /\ j >= b
    BY <1>4
  <2>. QED BY <1>2, <1>3, <2>1
<1>. QED BY <1>4, <1>5

(* The users do nothing. *)
LEMMA AnsweredSame ==
  ASSUME Good, UsersSame, mbx'[U1] = mbx[U1], mbx'[U2] = mbx[U2]
  PROVE  Answered' \in Nat /\ Answered' >= Answered
<1>1. Awaits' = Awaits /\ UNCHANGED << u1, u2 >>
  BY PhasesFrame DEF UsersSame
<1>2. Mailed' = Mailed
  BY <1>1 DEF Mailed, Awaits, UsersSame
<1>3. Answered' = Answered
  BY <1>1, <1>2 DEF Answered
<1>. QED BY <1>3, AnsweredIs

LEMMA AnsweredBeside ==
  ASSUME Good, UNCHANGED app,
         \/ UNCHANGED mbx \/ \E m : Deliver(TID_KCD, m, TRUE, TID_UART_IRQ)
  PROVE  Answered' \in Nat /\ Answered' >= Answered
<1>1. UsersSame
  BY DEF UsersSame, app
<1>2. mbx \in [Tid -> Mailbox]
  BY GoodParts, MailboxesAre
<1>3. mbx'[U1] = mbx[U1] /\ mbx'[U2] = mbx[U2]
  BY <1>2, GoodParts DEF Deliver
<1>. QED BY <1>1, <1>3, AnsweredSame

LEMMA AnsweredKcd ==
  ASSUME Good, KcdStep, ~KcdSend
  PROVE  Answered' \in Nat /\ Answered' >= Answered
<1>1. mbx \in [Tid -> Mailbox]
  BY GoodParts, MailboxesAre
<1>2. CASE Sleeps(TID_KCD, "recv")
  <2>1. UNCHANGED << app, mbx >>
    BY <1>2 DEF Sleeps, RecvSleep
  <2>. QED BY <2>1, AnsweredBeside
<1>3. CASE ~Sleeps(TID_KCD, "recv")
  <2>1. \E at : Goto(TID_KCD, at) /\ UNCHANGED << u1, u2, turn, prompts, score >>
    BY <1>3, KcdRecvCases DEF KcdStep, KcdCreate, KcdAlloc, KcdRegister, KcdStore, KcdLine, KcdBecomes
  <2>2. \/ UNCHANGED mbx
        \/ Current = TID_KCD /\ \E b : mbx' = [mbx EXCEPT ![Current] = b]
    <3>1. CASE KcdCreate
      BY <3>1 DEF KcdCreate, At, k_mbx_create
    <3>2. CASE KcdRecv
      <4>1. Taken(TID_KCD, "recv")
        BY <1>3, <3>2, KcdRecvCases
      <4>. QED BY <4>1 DEF Taken, RecvAtOnce, RecvWoken, TakeFirst
    <3>3. CASE KcdAlloc \/ KcdRegister \/ KcdStore \/ KcdLine
      BY <3>3 DEF KcdAlloc, KcdRegister, KcdStore, KcdLine, msgvars, ipc
    <3>. QED BY <3>1, <3>2, <3>3 DEF KcdStep
  <2>3. mbx'[U1] = mbx[U1] /\ mbx'[U2] = mbx[U2]
    BY <1>1, <2>2, GoodParts
  <2>4. UsersSame
    BY <2>1, KcdMovesAlone, GoodParts
  <2>. QED BY <2>3, <2>4, AnsweredSame
<1>. QED BY <1>2, <1>3

(* A command that has arrived stays until it is received. *)
LEMMA MailedIs ==
  ASSUME Good, Mailed
  PROVE  /\ pc[Awaits] = "recv" /\ ~IsEmpty(Awaits)
         /\ \/ Awaits = U1 /\ pc[U2] = "entry" /\ turn = 1
            \/ Awaits = U2 /\ pc[U1] \in {"result", "exit", "gone"}
<1>1. PICK k \in Typeable, l \in Typeable : Accounted(k, l)
  BY GoodParts DEF Lines, Typeable
<1>2. pc[Awaits] = "recv" /\ (Asks(pc[U1]) => u2.i = 0 /\ pc[U2] = "entry")
  BY <1>1, Progress, GoodParts
<1>. QED BY <1>2, Elsewhere DEF Awaits, Asks, Mailed, IsEmpty

LEMMA AnsweredU1 ==
  ASSUME Good, U1Step
  PROVE  Answered' \in Nat /\ Answered' >= Answered
<1>0. /\ U1 \in Tid /\ U2 \in Tid /\ U1 # U2 /\ u1.i \in 0..2 /\ u2.i \in 0..4 /\ PcOK
      /\ mbx \in [Tid -> Mailbox] /\ Phases
  BY GoodParts, AnsweredIs, MailboxesAre
<1>1. CASE Sleeps(U1, "recv") \/ Sleeps(U1, "result")
  <2>1. UNCHANGED << app, mbx >>
    BY <1>1 DEF Sleeps, RecvSleep
  <2>. QED BY <2>1, AnsweredBeside
<1>2. CASE Taken(U1, "recv") /\ U1Recv /\ ~Sleeps(U1, "recv")
  <2>1. u1'.i = u1.i + 1 /\ u2'.i = u2.i
    BY <1>2, U1RecvCases DEF U1Becomes
  <2>2. PICK i, j : i = u1.i /\ j = u2.i
    OBVIOUS
  <2>3. i + 1 \in Nat /\ j \in Nat /\ i + 1 >= i /\ j >= j /\ (i + 1) + j >= i + j + 1
    BY <1>0, <2>2
  <2>. QED BY <2>1, <2>2, <2>3, AnsweredMore
<1>3. CASE ~Sleeps(U1, "recv") /\ ~Sleeps(U1, "result") /\ ~U1Recv
  <2>1. u1'.i = u1.i /\ UNCHANGED u2 /\ Current = U1
    <3>1. u1 \in [i : 0..2, eflag : {0}]
      BY <1>0 DEF Phases
    <3>2. CASE U1Result
      BY <1>3, <3>1, <3>2, U1ResultCases DEF U1Becomes, Taken
    <3>3. CASE U1Create \/ U1Register \/ Prompt(U1) \/ U1Turn \/ U1Exit
      BY <3>1, <3>3 DEF U1Create, U1Register, Send, Prompt, U1Turn, U1Exit, U1Becomes, At
    <3>. QED BY <1>3, <3>2, <3>3 DEF U1Step
  <2>2. ASSUME Mailed PROVE Mailed'
    <3>1. Awaits = U2 /\ pc[U1] \in {"result", "exit", "gone"}
      <4>1. pc[U1] # "recv"
        BY <1>3 DEF U1Step, U1Create, U1Register, Prompt, U1Turn, U1Result, U1Exit, At, Recv
      <4>. QED BY <2>2, <4>1, MailedIs
    <3>2. \/ U1Result /\ Taken(U1, "result") /\ Goto(U1, "exit")
          \/ U1Exit /\ Goto(U1, "gone") /\ tsk_exit
      BY <1>3, <3>1, U1ResultCases DEF U1Step, U1Create, U1Register, Prompt, U1Turn, At, U1Exit, U1Becomes
    <3>3. pc'[U1] \in {"exit", "gone"}
      BY <1>0, <3>2, GotoIs
    <3>4. \/ UNCHANGED mbx
          \/ \E b : mbx' = [mbx EXCEPT ![Current] = b]
      BY <3>2 DEF Taken, RecvAtOnce, RecvWoken, TakeFirst, tsk_exit
    <3>5. mbx'[U2] = mbx[U2]
      BY <1>0, <2>1, <3>4
    <3>6. Awaits' = U2
      BY <3>3 DEF Awaits, Asks
    <3>. QED BY <2>2, <3>1, <3>5, <3>6 DEF Mailed
  <2>3. u1.i \in Nat /\ u2.i \in Nat /\ u1.i >= u1.i /\ u2.i >= u2.i
    BY <1>0
  <2>. QED BY <2>1, <2>2, <2>3, AnsweredMore
<1>. QED BY <1>1, <1>2, <1>3, U1RecvCases

LEMMA AnsweredU2 ==
  ASSUME Good, U2Step
  PROVE  Answered' \in Nat /\ Answered' >= Answered
<1>0. /\ U1 \in Tid /\ U2 \in Tid /\ U1 # U2 /\ u1.i \in 0..2 /\ u2.i \in 0..4 /\ PcOK
      /\ mbx \in [Tid -> Mailbox] /\ u2 \in [i : 0..4, sflag : 0..7, length : Nat]
  BY GoodParts, AnsweredIs, MailboxesAre DEF Phases
<1>1. CASE Sleeps(U2, "recv")
  <2>1. UNCHANGED << app, mbx >>
    BY <1>1 DEF Sleeps, RecvSleep
  <2>. QED BY <2>1, AnsweredBeside
<1>2. CASE Taken(U2, "recv") /\ U2Recv /\ ~Sleeps(U2, "recv")
  <2>1. u2'.i = u2.i + 1 /\ u1'.i = u1.i
    BY <1>0, <1>2, U2RecvCases DEF U2Becomes, Passed
  <2>2. PICK i, j : i = u1.i /\ j = u2.i
    OBVIOUS
  <2>3. i \in Nat /\ j + 1 \in Nat /\ i >= i /\ j + 1 >= j /\ i + (j + 1) >= i + j + 1
    BY <1>0, <2>2
  <2>. QED BY <2>1, <2>2, <2>3, AnsweredMore
<1>3. CASE ~U2Recv
  <2>1. u2'.i = u2.i /\ UNCHANGED u1
    <3>1. CASE U2Spin
      BY <3>1 DEF U2Spin, U2Becomes, app
    <3>2. CASE U2Create \/ U2RegisterC \/ U2RegisterD \/ Prompt(U2) \/ U2SetPrio \/ U2Report \/ U2Exit
      BY <1>0, <3>2 DEF U2Create, U2RegisterC, U2RegisterD, Send, Prompt, U2SetPrio, U2Report, U2Exit,
         U2Becomes, Passed
    <3>. QED BY <1>3, <3>1, <3>2 DEF U2Step
  <2>2. ASSUME Mailed PROVE Mailed'
    <3>1. pc[U2] # "recv" /\ (pc[U2] = "entry" => U2Spin)
      BY <1>3 DEF U2Step, U2Spin, U2Create, U2RegisterC, U2RegisterD, Prompt, U2SetPrio, U2Report, U2Exit, At
    <3>2. U2Spin /\ turn = 1
      BY <2>2, <3>1, MailedIs
    <3>3. UNCHANGED << app, mbx >>
      BY <3>2 DEF U2Spin, msgvars, ipc
    <3>. QED BY <2>2, <3>3 DEF Mailed, Awaits, app
  <2>3. u1.i \in Nat /\ u2.i \in Nat /\ u1.i >= u1.i /\ u2.i >= u2.i
    BY <1>0
  <2>. QED BY <2>1, <2>2, <2>3, AnsweredMore
<1>. QED BY <1>1, <1>2, <1>3, U2RecvCases

-----------------------------------------------------------------------------
(* Only a command that the KCD task sends adds to the commands. *)
LEMMA CommandsKept ==
  ASSUME [Test2Next]_t2vars, ~KcdSend
  PROVE  UNCHANGED commands
<1>1. CASE KcdStep
  BY <1>1, KcdRecvCases DEF KcdStep, KcdCreate, KcdAlloc, KcdRegister, KcdStore, KcdLine, KcdBecomes, Sleeps, app
<1>2. CASE U1Step
  BY <1>2, U1RecvCases, U1ResultCases DEF U1Step, U1Create, U1Register, Send, Prompt, U1Turn, U1Exit,
     U1Becomes, Sleeps, app
<1>3. CASE U2Step
  <2>1. CASE U2Recv
    BY <2>1, U2RecvCases DEF U2Becomes, Sleeps, app
  <2>2. CASE ~U2Recv
    BY <1>3, <2>2 DEF U2Step, U2Spin, U2Create, U2RegisterC, U2RegisterD, Send, Prompt, U2SetPrio,
       U2Report, U2Exit, U2Becomes, app
  <2>. QED BY <2>1, <2>2
<1>4. CASE ~KcdStep /\ ~U1Step /\ ~U2Step
  BY <1>4 DEF Test2Next, Cpu, Boot, Yields, Handler, IrqTears, KcdBecomes, Interrupt, BeginScript,
     BeginJunk, BeginBare, Press, app, t2vars
<1>. QED BY <1>1, <1>2, <1>3, <1>4

LEMMA AnsweredRest ==
  ASSUME Good, [Test2Next]_t2vars, ~KcdSend, ~IrqTears
  PROVE  Answered' \in Nat /\ Answered' >= Answered
<1>1. CASE KcdStep
  BY <1>1, AnsweredKcd
<1>2. CASE U1Step
  BY <1>2, AnsweredU1
<1>3. CASE U2Step
  BY <1>3, AnsweredU2
<1>4. CASE ~KcdStep /\ ~U1Step /\ ~U2Step
  <2>1. CASE IrqChar /\ UNCHANGED app
    <3>1. UNCHANGED mbx \/ \E m : Deliver(TID_KCD, m, TRUE, TID_UART_IRQ)
      BY <2>1 DEF IrqChar
    <3>. QED BY <2>1, <3>1, AnsweredBeside
  <2>2. CASE ~(IrqChar /\ UNCHANGED app)
    <3>1. UNCHANGED << app, mbx >>
      BY <1>4, <2>2 DEF Test2Next, Cpu, Boot, Yields, Handler, Interrupt, UartIrq, IrqFree, IrqEnd,
         BeginScript, BeginJunk, BeginBare, Press, KeyTyped, t2vars, msgvars, ipc
    <3>. QED BY <3>1, AnsweredBeside
  <2>. QED BY <2>1, <2>2
<1>. QED BY <1>1, <1>2, <1>3, <1>4

(* The command waited for is the one of the next line of the script. *)
LEMMA NextLineWanted ==
  ASSUME Good, NEW n, n = u1.i + u2.i, pc[Awaits] = "recv"
  PROVE  n \in Nat /\ Want = TextOf(Script[n + 1]) /\ Want \in Seq(Char)
<1>1. /\ u1.i \in 0..2 /\ u2.i \in 0..4
      /\ Asks(pc[U1]) => u1.i < 2 /\ u2.i = 0
      /\ Asks(pc[U2]) => u2.i < 4 /\ u1.i = 2 /\ ~Asks(pc[U1])
  <2>1. PICK k \in Typeable, l \in Typeable : Accounted(k, l)
    BY GoodParts DEF Lines, Typeable
  <2>2. /\ Asks(pc[U1]) => u2.i = 0
        /\ Asks(pc[U2]) => u1.i = 2 /\ ~Asks(pc[U1])
    BY <2>1, Progress, GoodParts
  <2>. QED BY <2>2, GoodParts DEF Phases
<1>2. Script = << LineC, LineC, LineC, LineD, LineC, LineD >>
  BY LinesAssumption DEF LineC, LineD
<1>3. Script[1] = LineC /\ Script[2] = LineC /\ Script[3] = LineC /\ Script[4] = LineD
      /\ Script[5] = LineC /\ Script[6] = LineD
  BY <1>2
<1>4. CASE Asks(pc[U1])
  <2>1. n \in {0, 1} /\ Want = TheC
    BY <1>1, <1>4 DEF Want
  <2>2. Script[n + 1] = LineC
    BY <1>3, <2>1
  <2>. QED BY <2>1, <2>2, LineText
<1>5. CASE ~Asks(pc[U1])
  <2>1. Asks(pc[U2])
    BY <1>5 DEF Awaits, Asks
  <2>2. n \in {2, 3, 4, 5} /\ n = 2 + u2.i /\ u2.i \in {0, 1, 2, 3}
    BY <1>1, <2>1
  <2>3. CASE n \in {2, 4}
    <3>1. u2.i \in {0, 2}
      BY <2>2, <2>3
    <3>2. Want = TheC
      BY <1>5, <3>1 DEF Want
    <3>3. Script[n + 1] = LineC
      BY <1>3, <2>3
    <3>. QED BY <2>3, <3>2, <3>3, LineText
  <2>4. CASE n \in {3, 5}
    <3>1. u2.i \in {1, 3}
      BY <2>2, <2>4
    <3>2. Want = TheD
      BY <1>5, <3>1 DEF Want
    <3>3. Script[n + 1] = LineD
      BY <1>3, <2>4
    <3>. QED BY <2>4, <3>2, <3>3, LineText
  <2>. QED BY <2>2, <2>3, <2>4
<1>. QED BY <1>4, <1>5

LEMMA KcdSendAnswers ==
  ASSUME Good, KcdSend, UNCHANGED user, commands \in Seq(Seq(Char)), SentInOrder(Answered)
  PROVE  SentInOrder(Answered)' /\ commands' \in Seq(Seq(Char))
<1>0. /\ PcOK /\ Phases /\ TID_KCD \in Tid /\ TID_KCD \notin Users
      /\ U1 \in Tid /\ U2 \in Tid
  BY GoodParts
<1>1. /\ At(TID_KCD, "send") /\ UsersSame
      /\ \/ send_msg(Receiver(kcd), Command(kcd)) /\ commands' = Append(commands, Text(kcd))
         \/ ~Accepts(Receiver(kcd), Command(kcd).length) /\ UNCHANGED << msgvars, commands >>
  BY <1>0, KcdMovesAlone DEF KcdSend, Send
<1>2. Awaits' = Awaits /\ UNCHANGED << u1, u2 >>
  BY <1>1, PhasesFrame DEF UsersSame
<1>3. CASE Sending
  <2>1. /\ Awaits \in Users /\ Receiver(kcd) = Awaits /\ Text(kcd) = Want
        /\ pc[Awaits] = "recv" /\ mbx[Awaits].msgs = << >> /\ Command(kcd).length = USER_MSG
        /\ mbx[Awaits].max = USER_MBX /\ mbx[Awaits].curr = MailBoxSize
        /\ Accepts(Awaits, Command(kcd).length)
    BY <1>1, <1>3, CommandFits
  <2>2. /\ send_msg(Awaits, Command(kcd)) /\ Current = TID_KCD
        /\ commands' = Append(commands, Want)
    BY <1>1, <2>1 DEF At
  <2>3. Mailed'
    <3>1. mbx'[Awaits].msgs # << >>
      <4>1. Deliver(Awaits, Command(kcd), interrupt_flag, Current)
        BY <2>2 DEF send_msg
      <4>2. ~interrupt_flag /\ interrupt_flag \in BOOLEAN
        BY GoodParts, MailboxesAre DEF KcdBox, Sound, MsgInv, MsgTypeOK
      <4>3. interrupt_flag = FALSE
        BY <4>2
      <4>4. Command(kcd) \in RtxMsg /\ Current \in Sender /\ Awaits \in Tid
        BY GoodParts, <2>1, <2>2, MessagesFit, WayTypes, MailboxesAre DEF Sender
      <4>5. mbx[Awaits].curr + Command(kcd).length < SIZEMOD
        BY <2>1, Sizes
      <4>6. Posted(Awaits, [m |-> Command(kcd), from |-> Current, sender |-> TID_KCD])
        BY GoodParts, <2>2, <4>1, <4>3, <4>4, <4>5, DeliverPosts
      <4>. QED BY <2>1, <4>6 DEF Posted
    <3>. QED BY <1>2, <3>1 DEF Mailed
  <2>4. PICK n : n = u1.i + u2.i
    OBVIOUS
  <2>5. n \in Nat /\ Want = TextOf(Script[n + 1]) /\ Want \in Seq(Char)
    BY <2>1, <2>4, NextLineWanted
  <2>6. Answered = n /\ Answered' = n + 1
    <3>1. Answered = n + 0
      BY <2>1, <2>4 DEF Answered, Mailed, Count
    <3>2. Answered' = n + 1
      BY <1>2, <2>3, <2>4 DEF Answered, Count
    <3>. QED BY <2>5, <3>1, <3>2
  <2>7. SentInOrder(n + 1)' /\ commands' \in Seq(Seq(Char))
    BY <2>2, <2>5, <2>6, SentNext
  <2>. QED BY <2>6, <2>7 DEF SentInOrder
<1>4. CASE ~Sending
  <2>1. UNCHANGED << mbx, commands >>
    BY <1>1, <1>4, LongRefused DEF send_msg, msgvars, ipc
  <2>2. Answered' = Answered
    BY <1>2, <2>1 DEF Answered, Mailed
  <2>3. PICK n : n = Answered
    OBVIOUS
  <2>4. SentInOrder(n)'
    BY <2>1, <2>3, SentKept
  <2>. QED BY <2>1, <2>2, <2>3, <2>4 DEF SentInOrder
<1>. QED BY <1>3, <1>4

-----------------------------------------------------------------------------
(* The commands sent, as long as there has been no bare line and the heap is *)
(* not torn: InvC is inductive with InvA and InvB.                          *)
InvC ==
  ~user.bare /\ ~Torn =>
    /\ commands \in Seq(Seq(Char))
    /\ IF ~user.hasty THEN SentInOrder(Answered)
       ELSE IF Crashed THEN SentInOrder(user.line) ELSE Streamed

LEMMA InvCInit == Test2Init => InvC
<1>. SUFFICES ASSUME Test2Init PROVE InvC
  OBVIOUS
<1>1. InvB
  BY InvBInit
<1>2. /\ pc = [t \in Tid |-> "entry"] /\ u1 = [i |-> 0, eflag |-> 0]
      /\ u2 = [i |-> 0, sflag |-> 0, length |-> 0] /\ kcd = KcdInit
      /\ kcd_buf.tid = 0 /\ mbx = [t \in Tid |-> NoMailbox] /\ rx = << >> /\ wild = FALSE
      /\ commands = << >>
  BY DEF Test2Init, MsgInit, Init
<1>3. user.line = 0 /\ user.left = << >>
  <2>1. user \in [hasty : BOOLEAN, line : {0}, left : {<< >>}, junk : {FALSE}, bare : {FALSE}]
    BY DEF Test2Init
  <2>. QED BY <2>1
<1>4. /\ U1 \in Tid /\ U2 \in Tid /\ TID_KCD \in Tid /\ TID_KCD # 0 /\ NoCommand # TID_KCD
      /\ pc[TID_KCD] = "entry" /\ \A t \in Tid : mbx[t] = NoMailbox
  BY <1>2, Fixed
<1>5. commands \in Seq(Seq(Char)) /\ Len(commands) = 0
  BY <1>2, EmptySeq
<1>6. SentInOrder(0)
  <2>1. Cardinality({}) = 0 /\ {} \in SUBSET (1..0)
    BY FS_EmptySet
  <2>. QED BY <1>5, <2>1 DEF SentInOrder
<1>7. Answered = 0
  <2>1. mbx[Awaits].msgs = << >>
    BY <1>4 DEF Awaits, NoMailbox
  <2>2. Count(Mailed) = 0
    BY <2>1 DEF Mailed, Count
  <2>. QED BY <1>2, <2>2 DEF Answered
<1>8. ~Crashed
  BY <1>2, <1>4 DEF Crashed, Torn
<1>9. KcdMsgs = << >> /\ Len(KcdMsgs) = 0 /\ HeadReg = 0 /\ Handled = 0 /\ kcd.tail = 0 /\ InBuf = 0
  <2>1. KcdMsgs = << >> /\ kcd.tail = 0
    BY <1>2, <1>4 DEF KcdMsgs, NoMailbox, KcdInit
  <2>. QED BY <1>4, <2>1 DEF HeadReg, Handled, InBuf
<1>10. KcdHears
  <2>1. \A c \in Char : kcd.cmd_ids[c] = NoCommand
    BY <1>2 DEF KcdInit
  <2>2. 1..0 = {}
    OBVIOUS
  <2>. QED BY <1>2, <1>4, <1>9, <2>1, <2>2 DEF KcdHears
<1>11. KcdRoom
  <2>1. kcd.input_buf[0] # PERCENT
    <3>1. 0 \in 0..(INPUT_SIZE - 1)
      BY KcdAssumption
    <3>2. NUL # PERCENT
      BY DEF NUL, PERCENT
    <3>. QED BY <1>2, <3>1, <3>2 DEF KcdInit
  <2>. QED BY <1>4, <1>9, <2>1 DEF KcdRoom
<1>12. Streams
  <2>1. PICK w, n : w = KeysOf(0) /\ n = 0
    OBVIOUS
  <2>2. Len(w) = 0
    BY <2>1, KeysOfIs
  <2>3. KeysAre(w, n)
    <3>1. PICK s, r, l, b : s = << >> /\ r = << >> /\ l = << >> /\ b = kcd_buf.m
      OBVIOUS
    <3>2. Len(s) = 0 /\ Len(r) = 0 /\ Len(l) = 0
      BY <3>1
    <3>3. Way(w, n, 0, 0, b, s, r, l)
      BY <2>1, <2>2, <3>2 DEF Way
    <3>. QED BY <1>2, <1>3, <1>9, <3>1, <3>3 DEF KeysAre
  <2>4. \A i \in 1..kcd.tail : kcd.input_buf[i - 1] = KeysOf(user.line)[0 + i]
    BY <1>9
  <2>5. 0 + InBuf = 0 /\ 6 * 0 = 0 /\ 0 + InBuf < 6 * 0 + 6
    BY <1>9
  <2>6. Reading(0, 0)
    BY <1>3, <1>4, <1>6, <2>1, <2>3, <2>4, <2>5 DEF Reading
  <2>. QED BY <2>6 DEF Streams
<1>. QED BY <1>5, <1>6, <1>7, <1>8, <1>10, <1>11, <1>12 DEF InvC, Streamed

(* What has been sent is a part of what has been begun. *)
LEMMA InvCSent ==
  ASSUME InvA, InvB, InvC
  PROVE  CommandsAsTyped
<1>. SUFFICES ASSUME ~user.bare, ~Torn PROVE SentInOrder(user.line)
  BY DEF CommandsAsTyped
<1>1. CASE ~user.hasty
  <2>1. Good
    BY <1>1 DEF InvA, InvB, Good, PcOK
  <2>2. Answered \in Nat /\ Answered <= user.line /\ user.line \in Nat
    BY <2>1, AnsweredIs, GoodParts
  <2>3. SentInOrder(Answered)
    BY <1>1 DEF InvC
  <2>. QED BY <2>2, <2>3, SentMore
<1>2. CASE user.hasty /\ Crashed
  BY <1>2 DEF InvC
<1>3. CASE user.hasty /\ ~Crashed
  <2>1. Busy
    BY <1>3 DEF InvA, InvB, InvC, Busy, PcOK, Crashed, Torn
  <2>. QED BY <2>1, StreamedSent
<1>. QED BY <1>1, <1>2, <1>3

LEMMA LinesBegun ==
  ASSUME user \in Person, [Test2Next]_t2vars
  PROVE  user.line \in Nat /\ user'.line \in Nat /\ user'.line >= user.line
<1>1. user' \in Person /\ user.line \in 0..6
  BY PersonStep DEF Person
<1>2. user'.line \in 0..6
  BY <1>1 DEF Person
<1>3. user'.line = user.line \/ user'.line = user.line + 1
  <2>1. CASE BeginScript
    <3>1. user' = [[user EXCEPT !.line = @ + 1] EXCEPT !.left = Script[user.line + 1]]
      BY <2>1 DEF BeginScript, Begin
    <3>. QED BY <3>1 DEF Person
  <2>2. CASE BeginJunk
    <3>1. PICK line \in Junk : user' = [[user EXCEPT !.junk = TRUE] EXCEPT !.left = line]
      BY <2>2 DEF BeginJunk, Begin
    <3>. QED BY <3>1 DEF Person
  <2>3. CASE BeginBare
    <3>1. PICK line \in BareLines : user' = [[user EXCEPT !.bare = TRUE] EXCEPT !.left = line]
      BY <2>3 DEF BeginBare, Begin
    <3>. QED BY <3>1 DEF Person
  <2>4. CASE Press
    BY <2>4 DEF Press, Person
  <2>5. CASE UNCHANGED user
    BY <2>5
  <2>. QED BY <2>1, <2>2, <2>3, <2>4, <2>5 DEF Test2Next, Cpu, Interrupt, t2vars
<1>. QED BY <1>1, <1>2, <1>3

(* Sending a command crashes nothing. *)
LEMMA SendIsSound ==
  ASSUME Sound, PcOK, KcdSend, [Test2Next]_t2vars
  PROVE  ~Crashed'
<1>1. TID_KCD \in Tid /\ TID_KCD # U2
  BY Fixed
<1>2. pc'[TID_KCD] = "recv" /\ Current = TID_KCD
  BY <1>1, GotoIs DEF KcdSend, At
<1>3. ~U2SetPrio
  BY <1>1, <1>2 DEF U2SetPrio, At
<1>4. [MsgStep]_msgvars
  BY <1>3, StepCalls
<1>5. ~wild'
  BY <1>4, SoundIs, KernelKept DEF Kernel, SchedInv
<1>. QED BY <1>2, <1>5 DEF Crashed, Torn

(* A crash of another kind is the end of the KCD task, or of everything. *)
LEMMA CrashIsFinal ==
  ASSUME InvA, Crashed, ~Torn, [Test2Next]_t2vars
  PROVE  Crashed' /\ ~KcdSend
<1>1. CASE wild
  <2>1. UNCHANGED vars
    BY <1>1, WildIsFinal
  <2>. QED BY <1>1, <2>1 DEF vars, Crashed, KcdSend, At, TaskRuns, Up
<1>2. CASE ~wild /\ pc[TID_KCD] = "wild"
  <2>0. /\ PcOK /\ TID_KCD \in Tid /\ U1 \in Tid \ {TID_KCD} /\ U2 \in Tid \ {TID_KCD}
    BY <1>2, Fixed DEF InvA, PcOK
  <2>1. ~KcdStep
    BY <1>2, KcdRecvCases DEF KcdStep, KcdCreate, KcdAlloc, KcdRegister, KcdStore, KcdLine, KcdSend, Received,
       KeyIs, At, Taken, Sleeps
  <2>2. CASE U1Step
    <3>1. UNCHANGED pc \/ \E at : Goto(U1, at)
      BY <2>2, U1RecvCases, U1ResultCases DEF U1Step, U1Create, U1Register, Send, Prompt, U1Turn,
         U1Exit, U1Becomes, Sleeps, app
    <3>. QED BY <1>2, <2>0, <2>1, <3>1, GotoIs DEF Crashed, KcdStep
  <2>3. CASE U2Step
    <3>1. UNCHANGED pc \/ \E at : Goto(U2, at)
      <4>1. CASE U2Recv
        BY <4>1, U2RecvCases DEF U2Becomes, Sleeps, app
      <4>2. CASE ~U2Recv
        BY <2>3, <4>2 DEF U2Step, U2Spin, U2Create, U2RegisterC, U2RegisterD, Send, Prompt, U2SetPrio,
           U2Report, U2Exit, U2Becomes, app
      <4>. QED BY <4>1, <4>2
    <3>. QED BY <1>2, <2>0, <2>1, <3>1, GotoIs DEF Crashed, KcdStep
  <2>4. CASE ~U1Step /\ ~U2Step
    <3>0. ~IrqTears
      BY <1>2 DEF IrqTears, Allocating
    <3>1. UNCHANGED pc
      BY <2>1, <2>4, <3>0 DEF Test2Next, Cpu, Boot, Yields, Handler, Interrupt, BeginScript, BeginJunk,
         BeginBare, Press, app, t2vars
    <3>. QED BY <1>2, <2>1, <3>1 DEF Crashed, KcdStep
  <2>. QED BY <2>2, <2>3, <2>4
<1>. QED BY <1>1, <1>2 DEF Crashed

(* The heap once torn stays torn. *)
LEMMA TornIsFinal ==
  ASSUME Torn, [Test2Next]_t2vars
  PROVE  Torn'
BY DEF Test2Next, Cpu, Interrupt, BeginScript, BeginJunk, BeginBare, Press, app, t2vars, Torn

LEMMA InvCStep ==
  ASSUME InvA, InvB, InvC, [Test2Next]_t2vars
  PROVE  InvC'
<1>. SUFFICES ASSUME ~user'.bare, ~Torn'
              PROVE  /\ commands' \in Seq(Seq(Char))
                     /\ IF ~user'.hasty THEN SentInOrder(Answered)'
                        ELSE IF Crashed' THEN SentInOrder(user.line)' ELSE Streamed'
  BY DEF InvC
<1>0. ~user.bare /\ ~Torn /\ ~IrqTears
  <2>1. IrqTears => Torn'
    BY Fixed, GotoIs DEF IrqTears, KcdBecomes, Torn, InvA, PcOK
  <2>. QED BY <2>1, PersonStep, TornIsFinal DEF InvB
<1>1. /\ user \in Person /\ user'.hasty = user.hasty /\ commands \in Seq(Seq(Char))
      /\ user.line \in Nat /\ user'.line \in Nat /\ user'.line >= user.line
  BY <1>0, PersonStep, LinesBegun DEF InvB, InvC
<1>2. KcdSend => UNCHANGED user
  <2>1. KcdSend => At(TID_KCD, "send") /\ Goto(TID_KCD, "recv")
    BY DEF KcdSend
  <2>2. At(TID_KCD, "send") /\ Goto(TID_KCD, "recv") /\ pc \in [Tid -> PcNames] => ~UNCHANGED pc
    BY Fixed DEF At, Goto
  <2>3. BeginScript \/ BeginJunk \/ BeginBare \/ Press => UNCHANGED pc
    BY DEF BeginScript, BeginJunk, BeginBare, Press, app
  <2>. QED BY <2>1, <2>2, <2>3 DEF InvA, Test2Next, Cpu, Interrupt, t2vars
<1>3. CASE ~user.hasty
  <2>1. Good /\ SentInOrder(Answered)
    BY <1>0, <1>3 DEF InvA, InvB, InvC, Good, PcOK
  <2>2. CASE KcdSend
    <3>1. SentInOrder(Answered)' /\ commands' \in Seq(Seq(Char))
      BY <1>1, <1>2, <2>1, <2>2, KcdSendAnswers
    <3>. QED BY <1>1, <1>3, <3>1
  <2>3. CASE ~KcdSend
    <3>1. UNCHANGED commands
      BY <2>3, CommandsKept
    <3>2. PICK n : n = Answered'
      OBVIOUS
    <3>3. Answered \in Nat /\ n \in Nat /\ Answered <= n
      <4>1. Answered \in Nat
        BY <2>1, AnsweredIs
      <4>2. Answered' \in Nat /\ Answered' >= Answered
        BY <1>0, <2>1, <2>3, AnsweredRest
      <4>. QED BY <3>2, <4>1, <4>2
    <3>4. SentInOrder(n)
      BY <2>1, <3>3, SentMore
    <3>5. SentInOrder(n)'
      BY <3>1, <3>4, SentKept
    <3>6. SentInOrder(Answered)'
      BY <3>2, <3>5 DEF SentInOrder
    <3>. QED BY <1>1, <1>3, <3>1, <3>6
  <2>. QED BY <2>2, <2>3
<1>4. ASSUME SentInOrder(user.line), UNCHANGED commands
      PROVE  SentInOrder(user.line)'
  <2>1. PICK n : n = user'.line
    OBVIOUS
  <2>2. SentInOrder(n)
    BY <1>1, <1>4, <2>1, SentMore
  <2>3. SentInOrder(n)'
    BY <1>4, <2>2, SentKept
  <2>. QED BY <2>1, <2>3 DEF SentInOrder
<1>5. CASE user.hasty /\ Crashed
  <2>1. Crashed' /\ ~KcdSend
    BY <1>0, <1>5, CrashIsFinal
  <2>2. UNCHANGED commands
    BY <2>1, CommandsKept
  <2>3. SentInOrder(user.line)
    BY <1>0, <1>5 DEF InvC
  <2>. QED BY <1>1, <1>4, <1>5, <2>1, <2>2, <2>3
<1>6. CASE user.hasty /\ ~Crashed
  <2>1. Busy
    BY <1>0, <1>6 DEF InvA, InvB, InvC, Busy, PcOK, Crashed, Torn
  <2>2. CASE Crashed'
    <3>1. ~KcdSend
      BY <2>1, <2>2, SendIsSound DEF Busy
    <3>2. UNCHANGED commands
      BY <3>1, CommandsKept
    <3>3. SentInOrder(user.line)'
      BY <1>4, <2>1, <3>2, StreamedSent
    <3>. QED BY <1>1, <1>6, <2>2, <3>2, <3>3
  <2>3. CASE ~Crashed'
    <3>1. Streamed'
      BY <2>1, <2>3, StreamedStep DEF Crashed, Torn
    <3>2. commands' \in Seq(Seq(Char))
      BY <1>1, <1>2, <2>1, KcdSendStreams, CommandsKept
    <3>. QED BY <1>1, <1>6, <2>3, <3>1, <3>2
  <2>. QED BY <2>2, <2>3
<1>. QED BY <1>3, <1>5, <1>6

(* However hasty the person, and whatever the keyboard loses, the commands  *)
(* that kcd_task sends are lines typed so far, each at most once, whole and *)
(* in the order typed, unless a bare line has been typed or the heap torn.  *)
THEOREM CommandsAsTypedHolds == Test2Spec => []CommandsAsTyped
<1>1. InvA /\ InvB /\ InvC => CommandsAsTyped
  BY InvCSent
<1>2. InvA /\ InvB /\ [Test2Next]_t2vars => InvB'
  BY InvBStep
<1>3. InvA /\ InvB /\ InvC /\ [Test2Next]_t2vars => InvC'
  BY InvCStep
<1>. QED BY <1>1, <1>2, <1>3, InvAHolds, InvBInit, InvCInit, PTL DEF Test2Spec

=============================================================================
