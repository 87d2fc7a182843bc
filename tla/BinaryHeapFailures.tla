------------------------- MODULE BinaryHeapFailures -------------------------
(***************************************************************************)
(* A way a caller can be left with a call half done, which BinaryHeap     *)
(* leaves out: an Extend whose iterator yields more than fits, so the      *)
(* Vec's extend panics after appending what fit and build-heap never runs *)
(* (a caller that catches the unwind keeps the heap).                      *)
(***************************************************************************)
EXTENDS BinaryHeap

\* Extend with an iterator one element too long: Vec::extend appends until
\* the Vec is full and panics on the next element, before the build-heap loop
extend_overflow(vs) ==
  /\ pc = "idle"
  /\ Len(a) + Len(vs) > Capacity
  /\ a' = a \o SubSeq(vs, 1, Capacity - Len(a))
  /\ UNCHANGED <<pc, caller, cur, k, drained, snap>>

PanicSpec ==
  /\ Init
  /\ [][Next \/ \E vs \in [1..(Capacity - Len(a) + 1) -> Values] :
                  extend_overflow(vs)]_vars
  /\ WF_vars(Internal)
=============================================================================
