------------------------------ MODULE FreeList ------------------------------
(***************************************************************************)
(* The free list of kernel/k_mem.c, first fit with coalescing, on byte     *)
(* addresses.  A block is its control block, HeaderSize bytes at address   *)
(* at, followed by size bytes of payload; the list is the sequence of the  *)
(* free blocks from HEAD, and HEAD is NULL when it is empty.               *)
(***************************************************************************)
EXTENDS Integers, SequencesExt

CONSTANTS
  IMAGE_END,    \* Image$$ZI_DATA$$ZI$$Limit, where the image ends
  RAM_END,
  U32MOD        \* 2^32 in the code: sizes are size_t

ALIGN      == 8         \* byte_aligning
HeaderSize == 16        \* sizeof(ControlBlock)
NULL       == 0

BASE == IF IMAGE_END % ALIGN = 0 THEN IMAGE_END
        ELSE IMAGE_END + ALIGN - (IMAGE_END % ALIGN)

(* k_mem_init finds room for a block. *)
ASSUME HeapAssumption ==
  /\ IMAGE_END \in Nat \ {0}
  /\ RAM_END \in Nat /\ RAM_END > BASE + HeaderSize
  /\ U32MOD \in Nat /\ U32MOD % ALIGN = 0 /\ U32MOD > RAM_END

Payload(b) == b.at + HeaderSize             \* the pointer callers hold
End(b)     == b.at + HeaderSize + b.size

Covers(b, x) == b.at <= x /\ x < End(b)    \* the byte at x is in b

(* One free block, up to end: RAM_END, unless a test is run on less memory. *)
k_mem_init(end) == << [at |-> BASE, size |-> end - BASE - HeaderSize] >>

-----------------------------------------------------------------------------
(* k_mem_alloc. *)

(* Faulty variants, named in PROJECT.json: no rounding; a fit that wants one *)
(* byte too many; a split that forgets the header of the rest; the last fit. *)
Rounded_not(n) == n
Fits_more(b, n) == b.size > n
Remainder_no_header(b, n) == [at |-> b.at + HeaderSize + n, size |-> b.size - n]
FirstFit_last(f, n) ==
  LET fit == {i \in DOMAIN f : f[i].size >= n}
  IN  IF fit = {} THEN 0 ELSE Max(fit)

(* The rounding is done on a size_t and can wrap to 0. *)
Rounded(n) ==
  LET r == n % ALIGN
  IN  (IF r = 0 THEN n ELSE n + ALIGN - r) % U32MOD

Fits(b, n)   == b.size >= n
Splits(b, n) == n + HeaderSize + ALIGN <= b.size

(* The index of the block that serves n bytes, 0 if none does. *)
FirstFit(f, n) ==
  LET fit == {i \in DOMAIN f : Fits(f[i], n)}
  IN  IF fit = {} THEN 0 ELSE Min(fit)

Remainder(b, n) == [at |-> b.at + HeaderSize + n, size |-> b.size - n - HeaderSize]

(* n bytes out of block i: what the caller gets, and what the list becomes. *)
Served(f, i, n) == [f[i] EXCEPT !.size = IF Splits(f[i], n) THEN n ELSE @]
Without(f, i, n) ==
  IF Splits(f[i], n) THEN [f EXCEPT ![i] = Remainder(f[i], n)] ELSE RemoveAt(f, i)

(* For a request of n bytes, as the caller states it. *)
CanAlloc(f, n)  == n # 0 /\ FirstFit(f, Rounded(n)) # 0
AllocOf(f, n)   == Served(f, FirstFit(f, Rounded(n)), Rounded(n))
AfterAlloc(f, n) == Without(f, FirstFit(f, Rounded(n)), Rounded(n))

-----------------------------------------------------------------------------
(* k_mem_dealloc, once the pointer and the owner have been checked.  b is   *)
(* the control block found below the pointer.                               *)

(* Faulty variants: coalescing that forgets the absorbed header; a walk that *)
(* does not coalesce upwards; one that stops only where it can coalesce.    *)
Joined_no_header(b, c) == [b EXCEPT !.size = @ + c.size]
Upward_never(f, i, b) == FALSE

Joined(b, c) == [b EXCEPT !.size = @ + c.size + HeaderSize]

(* b ends where the block behind f[i] begins; b begins where f[i] ends. *)
Upward(f, i, b)   == i < Len(f) /\ End(b) = f[i + 1].at
Downward(f, i, b) == End(f[i]) = b.at

WalkEnd_touching(f, b) ==
  LET stops == {i \in DOMAIN f : Upward(f, i, b) \/ Downward(f, i, b)}
  IN  IF stops = {} THEN 0 ELSE Min(stops)

(* The walk from HEAD ends at the first block that is b itself, that touches *)
(* b or whose successor does, or that is the last one below b with a block   *)
(* behind it.  0: it falls off the end of the list.                          *)
WalkEnd(f, b) ==
  LET stops == {i \in DOMAIN f : \/ f[i].at = b.at
                                 \/ Upward(f, i, b)
                                 \/ Downward(f, i, b)
                                 \/ i < Len(f) /\ b.at < f[i + 1].at}
  IN  IF stops = {} THEN 0 ELSE Min(stops)

LinkedBehind(f, i, b) ==
  LET up   == Upward(f, i, b)
      c    == IF up THEN Joined(b, f[i + 1]) ELSE b
      here == IF Downward(f, i, b) THEN << Joined(f[i], c) >> ELSE << f[i], c >>
  IN  SubSeq(f, 1, i - 1) \o here \o SubSeq(f, i + (IF up THEN 2 ELSE 1), Len(f))

LinkedFirst(f, b) ==
  IF End(b) = f[1].at THEN << Joined(b, f[1]) >> \o Tail(f) ELSE << b >> \o f

(* The list with b in it; the list itself when RTX_ERR is returned.  With  *)
(* HEAD = NULL no address is below HEAD and there is no list to walk.      *)
WithBlock(f, b) ==
  IF f # << >> /\ b.at < f[1].at THEN LinkedFirst(f, b)
  ELSE LET i == WalkEnd(f, b)
       IN  IF i = 0 \/ (i # 0 /\ f[i].at = b.at) THEN f ELSE LinkedBehind(f, i, b)

Accepts(f, b) == WithBlock(f, b) # f

(* The control block of b once b is free: it keeps its bytes, and its end is *)
(* the end of the free block that has taken it in.                          *)
StaleHeader(f, b) ==
  LET i == CHOOSE i \in DOMAIN f : f[i].at <= b.at /\ b.at < End(f[i])
  IN  [at |-> b.at, size |-> End(f[i]) - Payload(b)]

-----------------------------------------------------------------------------

(* How many free blocks, header included, are smaller than n bytes. *)
k_mem_count_extfrag(f, n) ==
  Cardinality({i \in DOMAIN f : f[i].size + HeaderSize < n})

=============================================================================
