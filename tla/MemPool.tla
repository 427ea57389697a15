------------------------------- MODULE MemPool -------------------------------
(***************************************************************************)
(* What an allocator promises to those who use it: memory that has been    *)
(* handed out is nobody else's until it is given back.  The pool is the    *)
(* addresses from Lo up to Hi; held is the set of the areas in use.  One   *)
(* kernel call may hand out, or give back, several areas.                  *)
(***************************************************************************)
EXTENDS Integers

CONSTANTS Lo, Hi

VARIABLE held

Apart(a, b) == a.hi <= b.lo \/ b.hi <= a.lo

InPool(a) == Lo <= a.lo /\ a.lo < a.hi /\ a.hi <= Hi

Init == held = {}

HandOut ==
  /\ held \subseteq held'
  /\ \A a \in held' \ held :
       /\ InPool(a)
       /\ \A b \in held' \ {a} : Apart(a, b)

GiveBack == held' \subseteq held

Next == HandOut \/ GiveBack

Spec == Init /\ [][Next]_held

=============================================================================
