-------------------------------- MODULE Heap --------------------------------
(***************************************************************************)
(* The heap at work: kernel/k_mem.c under the calls of the tasks, of the   *)
(* message functions (k_msg.c), of task creation and exit (k_task.c) and   *)
(* of the UART handler (HAL_CA.c).                                         *)
(*                                                                         *)
(* A kernel call runs with interrupts masked and is one step.  The KCD     *)
(* task calls k_mem_alloc as a plain function, with interrupts enabled:    *)
(* that call is two steps, the walk that finds a block and the writes that *)
(* take it, and others may run in between.                                 *)
(***************************************************************************)
EXTENDS FreeList

CONSTANTS
  Tasks,        \* the TIDs that call; the current task, for the UART handler
  TID_KCD,
  Requests,     \* the sizes tasks ask for
  StackSize,    \* u_stack_size of the tasks created
  TextLen,      \* length of the messages tasks send
  KeyLen,       \* length of a KEY_IN message: a header and a character
  NodeSize,     \* sizeof(MessageNode)
  Avoid         \* the mishandled calls that callers never make

(* Calls the code accepts and mishandles:                                   *)
(*   interrupted  a direct call, while something else runs between its steps *)
(*   double_free  a block freed twice in a row, the first time coalesced     *)
(*                downwards with a free block still behind it               *)
Defects == {"interrupted", "double_free"}

ASSUME HeapUseAssumption ==
  /\ TID_KCD \in Tasks
  /\ Requests \cup {StackSize, TextLen, KeyLen, NodeSize} \subseteq 1..(U32MOD - 1)
  /\ Avoid \subseteq Defects

VARIABLES
  free,     \* the free list
  held,     \* the other control blocks: who asked, for how much and for what
  mail,     \* the messages in mailboxes: the blocks of a node and of its text
  found     \* the block and the size of a direct call between its two steps

vars == << free, held, mail, found >>

NoCall == [block |-> 0]

Use == {"data", "stack", "node", "text", "key", "lost"}

Init ==
  /\ free = k_mem_init(RAM_END)
  /\ held = {}
  /\ mail = {}
  /\ found = NoCall

-----------------------------------------------------------------------------
(* One allocation and one release, on a heap h of a free list and the held *)
(* blocks.  What is released to no avail (RTX_ERR, which the kernel's own   *)
(* callers ignore) nobody can release again.                               *)

Owned(b, t, n, use) ==
  [at |-> b.at, size |-> b.size, tid |-> t, asked |-> n, use |-> use]

Alloc(h, t, n, use) ==
  [free |-> AfterAlloc(h.free, n),
   held |-> h.held \cup {Owned(AllocOf(h.free, n), t, n, use)}]

Header(b) == [at |-> b.at, size |-> b.size]

Release(h, b) ==
  IF Accepts(h.free, Header(b))
  THEN [free |-> WithBlock(h.free, Header(b)), held |-> h.held \ {b}]
  ELSE [h EXCEPT !.held = (@ \ {b}) \cup {[b EXCEPT !.use = "lost"]}]

Heap == [free |-> free, held |-> held]

Becomes(h) == free' = h.free /\ held' = h.held

(* Interrupts, and with them other tasks, stay out of a direct call. *)
MayRun == "interrupted" \in Avoid => found = NoCall

-----------------------------------------------------------------------------
(* Kernel calls.  A call that returns NULL or RTX_ERR changes nothing. *)

k_mem_alloc(t, n) ==
  /\ MayRun
  /\ CanAlloc(free, n)
  /\ Becomes(Alloc(Heap, t, n, "data"))
  /\ UNCHANGED << mail, found >>

k_mem_dealloc(t, b) ==
  /\ MayRun
  /\ b \in held /\ b.use = "data" /\ b.tid = t
  /\ Accepts(free, Header(b))
  /\ Becomes(Release(Heap, b))
  /\ UNCHANGED << mail, found >>

(* k_mem_dealloc called again with the same pointer. *)
FreeTwice(t, b) ==
  LET once  == WithBlock(free, Header(b))
      twice == WithBlock(once, StaleHeader(once, Header(b)))
  IN  /\ MayRun
      /\ b \in held /\ b.use = "data" /\ b.tid = t
      /\ Accepts(free, Header(b))
      /\ "double_free" \in Avoid => twice = once
      /\ Becomes([free |-> twice, held |-> held \ {b}])
      /\ UNCHANGED << mail, found >>

(* k_tsk_create_new takes the new task's user stack from the heap, owned by *)
(* the caller, and k_tsk_exit returns it, whoever owns it.                  *)
k_alloc_p_stack(t) ==
  /\ MayRun
  /\ CanAlloc(free, StackSize)
  /\ Becomes(Alloc(Heap, t, StackSize, "stack"))
  /\ UNCHANGED << mail, found >>

FreeStack(b) ==
  /\ MayRun
  /\ b \in held /\ b.use = "stack"
  /\ Becomes(Release(Heap, b))
  /\ UNCHANGED << mail, found >>

(* A node and a copy of the text for a message of n bytes.  Neither         *)
(* allocation is tested in time: a send finds room for both (KMsg has the   *)
(* sends that do not).                                                      *)
WithNode(h, t)    == Alloc(h, t, NodeSize, "node")
WithText(h, t, n) == Alloc(WithNode(h, t), t, n, "text")

RoomToSend(h, t, n) ==
  CanAlloc(h.free, NodeSize) /\ CanAlloc(WithNode(h, t).free, n)

(* The message that h2 holds and h1 does not. *)
NewMail(h1, h2) ==
  [node |-> CHOOSE b \in h2.held \ h1.held : b.use = "node",
   text |-> CHOOSE b \in h2.held \ h1.held : b.use = "text"]

k_send_msg(t) ==
  /\ MayRun
  /\ RoomToSend(Heap, t, TextLen)
  /\ LET h == WithText(Heap, t, TextLen)
     IN  Becomes(h) /\ mail' = mail \cup {NewMail(Heap, h)}
  /\ UNCHANGED found

(* c_IRQ_Handler, for one character: a buffer and the send, which may be     *)
(* refused; the buffer back, when its task is switched in again.  The       *)
(* current task owns what the handler allocates.                            *)
IrqChar(t) ==
  LET h1 == Alloc(Heap, t, KeyLen, "key")
      h2 == WithText(h1, t, KeyLen)
  IN  /\ MayRun
      /\ \A b \in held : b.use # "key"
      /\ CanAlloc(free, KeyLen)
      /\ \/ Becomes(h1) /\ UNCHANGED mail
         \/ /\ RoomToSend(h1, t, KeyLen)
            /\ Becomes(h2)
            /\ mail' = mail \cup {NewMail(h1, h2)}
      /\ UNCHANGED found

IrqFree(b) ==
  /\ MayRun
  /\ b \in held /\ b.use = "key"
  /\ Becomes(Release(Heap, b))
  /\ UNCHANGED << mail, found >>

(* deallocate_msg, called by k_recv_msg and free_mailbox: text, then node. *)
deallocate_msg(m) ==
  /\ MayRun
  /\ m \in mail
  /\ Becomes(Release(Release(Heap, m.text), m.node))
  /\ mail' = mail \ {m}
  /\ UNCHANGED found

-----------------------------------------------------------------------------
(* The direct call of kcd_task. *)

DirectScan(n) ==
  /\ found = NoCall
  /\ CanAlloc(free, n)
  /\ found' = [block |-> free[FirstFit(free, Rounded(n))], asked |-> n]
  /\ UNCHANGED << free, held, mail >>

(* The writes go to the block that was found, whatever has become of it: its *)
(* size is read again or not, HEAD and the predecessor's link move past it.  *)
DirectTake ==
  LET b == found.block
      n == Rounded(found.asked)
      here == {i \in DOMAIN free : free[i].at = b.at}
  IN  /\ found # NoCall
      /\ free' = IF here = {} THEN free ELSE Without(free, Min(here), n)
      /\ held' = held \cup {Owned(Served(<< b >>, 1, n), TID_KCD, found.asked, "data")}
      /\ found' = NoCall
      /\ UNCHANGED mail

-----------------------------------------------------------------------------

Next ==
  \/ \E t \in Tasks, n \in Requests : k_mem_alloc(t, n)
  \/ \E t \in Tasks : \E b \in held : k_mem_dealloc(t, b)
  \/ \E t \in Tasks : \E b \in held : FreeTwice(t, b)
  \/ \E t \in Tasks : k_alloc_p_stack(t)
  \/ \E b \in held : FreeStack(b)
  \/ \E t \in Tasks : k_send_msg(t)
  \/ \E t \in Tasks : IrqChar(t)
  \/ \E b \in held : IrqFree(b)
  \/ \E m \in mail : deallocate_msg(m)
  \/ \E n \in Requests : DirectScan(n)
  \/ DirectTake

Spec == Init /\ [][Next]_vars

-----------------------------------------------------------------------------
(* Properties. *)

Covering(x) ==
  Cardinality({i \in DOMAIN free : Covers(free[i], x)})
    + Cardinality({b \in held : Covers(b, x)})

(* Every byte of the heap is in exactly one block, free or held: splitting,  *)
(* coalescing and refused calls leave no byte in two blocks and none in no   *)
(* block.  A block of the kernel whose free is refused stays a held one, that *)
(* nobody can free: see RefusedOnlyAtTheEnd.                                *)
Tiling == \A x \in BASE..(RAM_END - 1) : x % ALIGN = 0 => Covering(x) = 1

(* The list is in address order and no two of its blocks touch: whatever    *)
(* was freed in whatever order is one block again.                          *)
Coalesced == \A i \in 1..(Len(free) - 1) : End(free[i]) < free[i + 1].at

(* k_mem_alloc returns NULL only when no gap between the held blocks has    *)
(* room for the rounded request and a header.                               *)
Gap(lo, hi) ==
  /\ \A b \in held : hi <= b.at \/ End(b) <= lo
  /\ BASE <= lo /\ hi <= RAM_END

NullOnlyWhenFull ==
  \A n \in Requests :
    ~CanAlloc(free, n) =>
      \A lo \in {BASE} \cup {End(b) : b \in held} :
        ~Gap(lo, lo + HeaderSize + Rounded(n))

(* A caller gets an aligned address and what it asked for, with less to spare *)
(* than would make a block of its own; but one that asks for so much that   *)
(* the rounding wraps to 0 gets next to nothing.                            *)
Wraps(n) == n + ALIGN > U32MOD

Suits(size, n) ==
  /\ size >= (IF Wraps(n) THEN 0 ELSE n)
  /\ size < Rounded(n) + HeaderSize + ALIGN

AskedFor == \A b \in held : Payload(b) % ALIGN = 0 /\ Suits(b.size, b.asked)

(* RTX_ERR for a block that is rightly freed means that it lies behind the   *)
(* last free block and does not touch it: nothing else is ever refused.     *)
RefusedOnlyAtTheEnd ==
  \A b \in held : ~Accepts(free, Header(b)) =>
    \A i \in DOMAIN free : End(free[i]) < b.at

(* The tasks see a pool: what one holds is nobody else's. *)
Pool == INSTANCE MemPool WITH
  Lo   <- BASE,
  Hi   <- RAM_END,
  held <- {[lo |-> b.at, hi |-> End(b)] : b \in held}

PoolImplemented == Pool!Spec

-----------------------------------------------------------------------------
(* What the documentation says and the code does not do. *)

(* common.h:184, u_stack_hi is the user stack's base, its high address: the *)
(* stack of a task grows down through the block that was allocated for it.  *)
(* The code starts it at the low end.                                       *)
InitialSp(b) == Payload(b)

StackInItsBlock ==
  \A b \in held : b.use = "stack" =>
    /\ Payload(b) <= InitialSp(b) - StackSize
    /\ InitialSp(b) <= End(b)

=============================================================================
