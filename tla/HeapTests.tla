------------------------------ MODULE HeapTests ------------------------------
(***************************************************************************)
(* The allocator's own tests, TEST 1 of app/: the functions utask1 calls   *)
(* in ae_usr_tasks.c and the coalescing test of ae_mem.c, as scripts over  *)
(* FreeList, on heaps of several sizes.  One task runs them and nothing    *)
(* interrupts it.                                                          *)
(***************************************************************************)
EXTENDS FreeList

CONSTANTS
  HeapEnds,     \* where the memory of the runs ends
  Huge          \* 99999999999 in the code, cut to a size_t

N   == 10
Var == 0..(2 * N - 1)       \* the pointers of a test: b1 is 1, p_old[0] is 0

(* The steps of a test.  A check that fails ends the test once the pointers *)
(* of otherwise have been freed, or is only reported if otherwise is GoOn.  *)
GoOn == << "go_on" >>

Get(v, n)             == [do |-> "alloc", v |-> v, n |-> n]
Free(v)               == [do |-> "free", v |-> v]
Freed(v, ok, other)   == [do |-> "freed", v |-> v, ok |-> ok, otherwise |-> other]
IsNull(v)             == [do |-> "null", v |-> v, otherwise |-> << >>]
NotNull(vs)           == [do |-> "got", vs |-> vs, otherwise |-> << >>]
Same(v, w, other)     == [do |-> "same", v |-> v, w |-> w, otherwise |-> other]
Aligned(v, n, other)  == [do |-> "aligned", v |-> v, n |-> n, otherwise |-> other]
Above(v, w, n)        == [do |-> "above", v |-> v, w |-> w, n |-> n, otherwise |-> << >>]
Apart(v, w, n)        == [do |-> "apart", v |-> v, w |-> w, n |-> n, otherwise |-> << >>]
Frag(n, k, other)     == [do |-> "frag", n |-> n, k |-> k, otherwise |-> other]

GetAll(vs, n)  == [i \in DOMAIN vs |-> Get(vs[i], n)]
FreeAll(vs)    == [i \in DOMAIN vs |-> Free(vs[i])]

is_size_larger_than_available == << Get(1, Huge), IsNull(1) >>

test_first_fit ==
  GetAll(<< 1, 2, 3, 4, 5 >>, 32)
  \o << NotNull({1, 2, 3, 4, 5}), Free(2), Free(4),
        Get(6, 32), Same(6, 2, << 1, 3, 5, 6 >>) >>
  \o FreeAll(<< 1, 3, 5, 6 >>)

test_size_zero == << Get(1, 0), IsNull(1) >>

align_check ==
  << Get(1, 32), Get(2, 31), Get(3, 69), Get(4, 25),
     Aligned(1, 8, GoOn), Aligned(2, 8, GoOn),
     Aligned(3, 8, GoOn), Aligned(4, 8, GoOn),
     Free(2), Free(3), Get(5, 15), Aligned(5, 8, GoOn),
     Free(1), Free(4), Free(5) >>

deallocate_invalid ==
  << Get(1, 32), Freed(1, TRUE, GoOn), Freed(1, FALSE, GoOn) >>

coalece_check ==
  GetAll(<< 1, 2, 3, 4 >>, 32)
  \o << Free(2), Free(3), Get(5, 72), Same(5, 2, << 1, 4, 5 >>) >>
  \o FreeAll(<< 1, 4, 5 >>)

(* Ten blocks of growing size, all freed, ten of shrinking size: p_old[i] is *)
(* pointer i, p_new[i] pointer N + i.                                       *)
Old(i) == i
New(i) == N + i

Grow(i) == << Get(Old(i), i * 256 + 255), NotNull({Old(i)}), Aligned(Old(0), 4, << >>) >>
           \o (IF i = 0 THEN << >> ELSE << Above(Old(i), Old(i - 1), 256 * i) >>)

Shrink(i) == << Get(New(i), (N - i) * 256 - 1), NotNull({New(i)}), Aligned(New(0), 4, << >>) >>
             \o (IF i = 0 THEN << >> ELSE << Above(New(i), New(i - 1), 256 * (N - i + 1)) >>)

ForI(Body(_)) == FlattenSeq([i \in 1..N |-> Body(i - 1)])

FreeOld(i) == << Freed(Old(i), TRUE, << >>) >>
FreeNew(i) == << Free(New(i)) >>

heap_leakage_test ==
  ForI(Grow) \o ForI(FreeOld) \o ForI(Shrink)
  \o << Same(Old(0), New(0), << >>), Apart(New(N - 1), Old(N - 1), (N - 1) * 256) >>
  \o ForI(FreeNew)

(* k_mem_count_extfrag counts the blocks that do not hold one block of 32   *)
(* bytes with its header and one more byte, or three, or nine.              *)
Blocks(k) == k * (32 + HeaderSize) + 1

test_coalescing_free_regions_using_count_extfrag ==
  LET all  == << 1, 2, 3, 4, 5, 6, 7, 8, 9 >>
      odd  == << 1, 3, 5, 7, 9 >>
      rest == << 1, 5, 9 >>
  IN  GetAll(all, 32)
      \o << Frag(Blocks(1), 0, all), Frag(Blocks(3), 0, all) >>
      \o FreeAll(<< 2, 4, 6, 8 >>)
      \o << Frag(Blocks(1), 4, odd), Frag(Blocks(3), 4, odd) >>
      \o FreeAll(<< 3, 7 >>)
      \o << Frag(Blocks(1), 0, rest), Frag(Blocks(3), 2, rest) >>
      \o FreeAll(rest)
      \o << Frag(Blocks(9), 0, << >>) >>

utask1 == << is_size_larger_than_available, test_first_fit, test_size_zero,
             align_check, deallocate_invalid, coalece_check, heap_leakage_test >>

Suites == {utask1, << test_coalescing_free_regions_using_count_extfrag >>}

ASSUME HeapTestsAssumption ==
  /\ HeapEnds \subseteq (BASE + HeaderSize + 1)..RAM_END
  /\ Huge \in (RAM_END + 1)..(U32MOD - ALIGN)

-----------------------------------------------------------------------------

VARIABLES
  suite,    \* the tests still to run, the current one first
  steps,    \* what is left of the current test
  free,     \* the free list
  ptr,      \* the control blocks below the pointers of the test
  end,      \* where memory ends
  failed    \* a check of some test has failed

vars == << suite, steps, free, ptr, end, failed >>

NullPtr == [at |-> -HeaderSize, size |-> 0]     \* its payload is NULL

Init ==
  /\ suite \in Suites
  /\ steps = suite[1]
  /\ end \in HeapEnds
  /\ free = k_mem_init(end)
  /\ ptr = [v \in Var |-> NullPtr]
  /\ failed = FALSE

Step == steps[1]

Does(kinds) == steps # << >> /\ Step.do \in kinds

k_mem_alloc ==
  /\ Does({"alloc"})
  /\ IF CanAlloc(free, Step.n)
     THEN /\ free' = AfterAlloc(free, Step.n)
          /\ ptr' = [ptr EXCEPT ![Step.v] = AllocOf(free, Step.n)]
     ELSE /\ ptr' = [ptr EXCEPT ![Step.v] = NullPtr]
          /\ UNCHANGED free
  /\ steps' = Tail(steps)
  /\ UNCHANGED << suite, end, failed >>

Freeable == ptr[Step.v] # NullPtr /\ Accepts(free, ptr[Step.v])

Dealloc ==
  IF Freeable
  THEN /\ free' = WithBlock(free, ptr[Step.v])
       /\ ptr' = [ptr EXCEPT ![Step.v] = StaleHeader(WithBlock(free, @), @)]
  ELSE UNCHANGED << free, ptr >>

k_mem_dealloc ==
  /\ Does({"free"})
  /\ Dealloc
  /\ steps' = Tail(steps)
  /\ UNCHANGED << suite, end, failed >>

Holds(s) ==
  CASE s.do = "freed"   -> Freeable = s.ok
    [] s.do = "null"    -> ptr[s.v] = NullPtr
    [] s.do = "got"     -> \A v \in s.vs : ptr[v] # NullPtr
    [] s.do = "same"    -> ptr[s.v].at = ptr[s.w].at
    [] s.do = "aligned" -> Payload(ptr[s.v]) % s.n = 0
    [] s.do = "above"   -> Payload(ptr[s.w]) + s.n < Payload(ptr[s.v])
    [] s.do = "apart"   -> Payload(ptr[s.w]) + s.n = Payload(ptr[s.v])
    [] s.do = "frag"    -> k_mem_count_extfrag(free, s.n) = s.k

Check ==
  /\ steps # << >> /\ Step.do \notin {"alloc", "free"}
  /\ IF Step.do = "freed" THEN Dealloc ELSE UNCHANGED << free, ptr >>
  /\ \/ Holds(Step) /\ steps' = Tail(steps) /\ UNCHANGED failed
     \/ /\ ~Holds(Step)
        /\ steps' = IF Step.otherwise = GoOn THEN Tail(steps) ELSE FreeAll(Step.otherwise)
        /\ failed' = TRUE
  /\ UNCHANGED << suite, end >>

NextTest ==
  /\ steps = << >>
  /\ Len(suite) > 1
  /\ suite' = Tail(suite)
  /\ steps' = suite[2]
  /\ UNCHANGED << free, ptr, end, failed >>

Next == k_mem_alloc \/ k_mem_dealloc \/ Check \/ NextTest

Spec == Init /\ [][Next]_vars

-----------------------------------------------------------------------------
(* Properties. *)

(* What the ten blocks of heap_leakage_test need, and room to split the last. *)
Needed == 256 * ((N * (N + 1)) \div 2) + N * HeaderSize
Enough == end - BASE >= Needed + ALIGN + HeaderSize

(* Every check of the tests holds when the heap has room for them: first fit, *)
(* alignment, coalescing in both directions, and no leak over ten blocks.    *)
TestsPass == Enough => ~failed

(* However small the heap: tests that report no failure leave it as they     *)
(* found it, a single free block.                                           *)
PassedMeansRestored ==
  steps = << >> /\ ~failed => free = k_mem_init(end)

=============================================================================
