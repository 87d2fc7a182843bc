------------------------- MODULE DrainSortedSizeHint -------------------------
(***************************************************************************)
(* DrainSorted::size_hint (lines 518-521) and the ExactSizeIterator impl  *)
(* of DrainSorted (lines 528-534).  size_hint's first statement is        *)
(* self.len().  DrainSorted defines no len of its own and its             *)
(* ExactSizeIterator impl is empty, so the call resolves to the trait's    *)
(* provided len, whose first statement is self.size_hint().  Each call is  *)
(* a step that pushes a frame; the stack holds StackLimit frames, and a    *)
(* call past that aborts the process (Rust's stack overflow handler).      *)
(***************************************************************************)
EXTENDS BinaryHeap

CONSTANT StackLimit   \* the frames of this recursion the thread's stack
                      \* holds, a positive integer

VARIABLE depth        \* frames of the size_hint / len recursion on the stack

hvars == <<vars, depth>>

HintInit == Init /\ depth = 0

\* The owner of a live DrainSorted calls size_hint (directly, or through
\* collect, or through .len()): one frame
size_hint ==
  /\ pc = "iter"
  /\ pc' = "size_hint"
  /\ depth' = 1
  /\ UNCHANGED <<a, caller, cur, k, drained, snap>>

\* let size = self.len(): ExactSizeIterator's provided len
call_len ==
  /\ pc = "size_hint"
  /\ depth < StackLimit
  /\ pc' = "len"
  /\ depth' = depth + 1
  /\ UNCHANGED <<a, caller, cur, k, drained, snap>>

\* the provided len's let (lower, upper) = self.size_hint()
call_size_hint ==
  /\ pc = "len"
  /\ depth < StackLimit
  /\ pc' = "size_hint"
  /\ depth' = depth + 1
  /\ UNCHANGED <<a, caller, cur, k, drained, snap>>

\* A call with the stack full: the thread overflows its stack and the
\* process aborts, nothing runs after it
stack_overflow ==
  /\ pc \in {"size_hint", "len"}
  /\ depth = StackLimit
  /\ pc' = "overflow"
  /\ UNCHANGED <<a, caller, cur, k, drained, snap, depth>>

\* The steps of the recursion once size_hint is called
HintInternal == call_len \/ call_size_hint \/ stack_overflow

HintNext ==
  \/ Next /\ UNCHANGED depth
  \/ size_hint
  \/ HintInternal

\* As in BinaryHeap, a call runs to completion: single-threaded code that
\* never blocks
HintSpec ==
  /\ HintInit
  /\ [][HintNext]_hvars
  /\ WF_hvars((Internal /\ UNCHANGED depth) \/ HintInternal)

(***************************************************************************)
(* size_hint returns to its caller: lines 519-520 mean to return          *)
(* (len, Some(len)) of the heap, as IntoIterSorted::size_hint does with    *)
(* self.heap.len() (line 578), and Iterator::size_hint is a query that     *)
(* returns.  Every call of size_hint on a live DrainSorted is followed by *)
(* the caller holding the iterator again.                                  *)
(***************************************************************************)
SizeHintReturns == (pc = "size_hint") ~> (pc = "iter")
=============================================================================
