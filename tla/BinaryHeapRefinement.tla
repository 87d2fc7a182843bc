------------------------ MODULE BinaryHeapRefinement ------------------------
(***************************************************************************)
(* BinaryHeap implements PriorityQueue.  The refinement mapping reads the  *)
(* abstract state off the concrete one: the multiset is the Vec's          *)
(* contents; a guard is live exactly at pc = "guard" and exposes the root; *)
(* a sorted iterator is live from drain_sorted until its Drop has emptied  *)
(* the heap, the heapify calls of its pops included.  Each public call    *)
(* changes the multiset in its first step (the append, the swap_remove,   *)
(* the write); the loop steps after it only permute the Vec and so are    *)
(* abstract stutters.                                                      *)
(***************************************************************************)
EXTENDS BinaryHeap, SequencesExt

\* A PeekMut { heap: &mut BinaryHeap } exists: from peek_mut to its Drop or pop
GuardLive == pc = "guard"

\* A DrainSorted { heap: &mut BinaryHeap } exists: from drain_sorted to the end
\* of its Drop, the heapify calls of its pops included
DrainLive ==
  \/ pc \in {"iter", "iter_drop"}
  \/ pc = "heapify" /\ caller \in {"iter", "drop"}

\* The mode of the abstract queue
Mode ==
  CASE GuardLive -> "guard"
    [] DrainLive -> "drain"
    [] OTHER -> "free"

\* The element a live guard exposes: the root
Top == IF pc = "guard" THEN <<At(a, 0)>> ELSE <<>>

PQ == INSTANCE PriorityQueue WITH elems <- ToBag(a), mode <- Mode, top <- Top

(***************************************************************************)
(* Refinement: every behaviour of the heap, interleaved loop steps and all,*)
(* is a behaviour of the abstract priority queue.  In particular pop,     *)
(* DrainSorted's next() and each turn of its Drop remove a maximum of the *)
(* multiset, peek_mut exposes a maximum, and no loop step gains or loses  *)
(* an element.                                                             *)
(***************************************************************************)
PQSpecImplemented == PQ!PQSpec
=============================================================================
