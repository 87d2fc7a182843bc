----------------------------- MODULE BinaryHeap ----------------------------
(***************************************************************************)
(* coca's fixed-capacity BinaryHeap (src/src/binary_heap.rs) driven by one *)
(* single-threaded caller.  The heap owns a Vec of at most Capacity        *)
(* elements; a is that Vec's contents.  Every public operation runs to     *)
(* completion before the caller's next call, but its loops (the sift-up of *)
(* try_push, heapify's recursion, build-heap, the drop of a sorted         *)
(* iterator) are taken one iteration per step, so the model shows the      *)
(* states in between and the invariant each loop keeps.  A PeekMut guard   *)
(* and a DrainSorted iterator are objects the caller holds across calls:   *)
(* while one is live the caller may use only it.                           *)
(***************************************************************************)
EXTENDS HeapOrder, FiniteSets

CONSTANTS
  Values,    \* the elements the caller may insert (their total order is <=)
  Capacity   \* the capacity of the backing storage, fixed at construction

ASSUME ValuesAssumption == Values \subseteq Int /\ Values # {}
ASSUME CapacityAssumption == Capacity \in Nat

VARIABLES
  a,        \* the Vec's elements, slot i of the slice is At(a, i)
  pc,       \* where the caller's current call is
  caller,   \* the call heapify returns to
  cur,      \* the index i of the running sift-up loop or heapify call
  k,        \* the loop bound of build-heap: heapify(a, k - 1) runs next
  drained,  \* history: elements a sorted iterator has popped, in order
  snap      \* history: the heap's contents when that iterator was created

vars == <<a, pc, caller, cur, k, drained, snap>>

\* Control points: the caller is between calls (idle), holds a PeekMut
\* (guard) or a DrainSorted (iter), or a loop of a call is running.
PCs == {"idle", "guard", "iter", "sift_up", "heapify", "build", "iter_drop"}

\* Callers of heapify, and the control point each returns to
Callers == {"pop", "peek_pop", "guard", "build", "iter", "drop"}

ReturnTo == [pop |-> "idle", peek_pop |-> "idle", guard |-> "idle",
             build |-> "build",
             iter |-> "iter", drop |-> "iter_drop"]

TypeOK ==
  /\ a \in Seq(Values) /\ Len(a) <= Capacity
  /\ pc \in PCs
  /\ caller \in Callers
  /\ cur \in 0..Capacity
  /\ k \in 0..Capacity
  /\ drained \in Seq(Values)
  /\ snap \in Seq(Values)

-----------------------------------------------------------------------------
(* Construction: From<B> gives an empty heap; From<Vec> (and FromIterator) *)
(* takes a Vec with any contents and runs build-heap over it.              *)

\* From<B>: BinaryHeap { a: Vec::from(buf) }, empty, between calls
from_buf == a = <<>> /\ pc = "idle" /\ k = 0

\* From<Vec>: the Vec as it is, entering for i in (0..(a.len() / 2)).rev()
from_vec(v) == a = v /\ pc = "build" /\ k = Len(v) \div 2

Init ==
  /\ \/ from_buf
     \/ \E n \in 0..Capacity : \E v \in [1..n -> Values] : from_vec(v)
  /\ caller = "pop" /\ cur = 0 /\ drained = <<>> /\ snap = <<>>

-----------------------------------------------------------------------------
(* try_push / push: Vec::try_push fails on a full Vec and leaves the heap   *)
(* as it was (a stutter, not a step); otherwise the item is appended and   *)
(* the sift-up loop starts at the new last index.                          *)
\* Mutant: the capacity check of Vec::try_push left out
try_push_unchecked(v) ==
  /\ pc = "idle"
  /\ a' = Append(a, v)
  /\ cur' = Len(a)
  /\ pc' = "sift_up"
  /\ UNCHANGED <<caller, k, drained, snap>>

\* is_full: Vec::is_full, the condition on which Vec::try_push fails
is_full == Len(a) = Capacity

try_push(v) ==
  /\ pc = "idle"
  /\ ~is_full
  /\ a' = Append(a, v)
  /\ cur' = Len(a)
  /\ pc' = "sift_up"
  /\ UNCHANGED <<caller, k, drained, snap>>

\* push: try_push, panicking on Err.  The panic happens on a full heap, which
\* try_push left unchanged, so only the successful call is a step.
push(v) == try_push(v)

\* The condition of try_push's while loop
SiftUpContinues == cur > 0 /\ At(a, parent(cur)) < At(a, cur)

sift_up_step ==
  /\ pc = "sift_up"
  /\ SiftUpContinues
  /\ a' = Swap(a, cur, parent(cur))
  /\ cur' = parent(cur)
  /\ UNCHANGED <<pc, caller, k, drained, snap>>

sift_up_done ==
  /\ pc = "sift_up"
  /\ ~SiftUpContinues
  /\ pc' = "idle"
  /\ UNCHANGED <<a, caller, cur, k, drained, snap>>

-----------------------------------------------------------------------------
(* heapify(a, i): one call per step.  When a child is greater the call     *)
(* swaps and recurses into that child; otherwise it returns to its caller. *)
heapify_step ==
  /\ pc = "heapify"
  /\ largest(a, Len(a), cur) # cur
  /\ a' = Swap(a, cur, largest(a, Len(a), cur))
  /\ cur' = largest(a, Len(a), cur)
  /\ UNCHANGED <<pc, caller, k, drained, snap>>

heapify_return ==
  /\ pc = "heapify"
  /\ largest(a, Len(a), cur) = cur
  /\ pc' = ReturnTo[caller]
  /\ UNCHANGED <<a, caller, cur, k, drained, snap>>

\* Mutant: pop returns right after swap_remove(0), without heapify(a, 0)
StartPop_without_heapify(c) ==
  /\ a' = swap_remove_first(a)
  /\ pc' = ReturnTo[c]
  /\ caller' = c
  /\ cur' = 0
  /\ drained' = IF c \in {"iter", "drop"} THEN Append(drained, At(a, 0))
                                          ELSE drained

\* The body of pop on a non-empty heap: swap_remove(0), then heapify(a, 0)
\* returning to c.  A sorted iterator records the element it yields.
StartPop(c) ==
  /\ a' = swap_remove_first(a)
  /\ pc' = "heapify"
  /\ caller' = c
  /\ cur' = 0
  /\ drained' = IF c \in {"iter", "drop"} THEN Append(drained, At(a, 0))
                                          ELSE drained

\* is_empty: Vec::is_empty
is_empty == a = <<>>

\* peek: a.first(), the root or nothing
peek == IF is_empty THEN <<>> ELSE <<At(a, 0)>>

\* pop on an empty heap returns None and changes nothing.
pop ==
  /\ pc = "idle"
  /\ ~is_empty
  /\ StartPop("pop")
  /\ UNCHANGED <<k, snap>>

-----------------------------------------------------------------------------
(* Build-heap: for i in (0..(len / 2)).rev() { heapify(a, i) }.  From<Vec> *)
(* enters it from Init, Extend after appending the new elements (an Extend *)
(* that would overflow the Vec is not a step of this model).               *)
extend(vs) ==
  /\ pc = "idle"
  /\ Len(a) + Len(vs) <= Capacity
  /\ a' = a \o vs
  /\ k' = Len(a \o vs) \div 2
  /\ pc' = "build"
  /\ UNCHANGED <<caller, cur, drained, snap>>

\* Mutant: the build-heap loop that never advances to the next index
build_step_stuck ==
  /\ pc = "build"
  /\ k > 0
  /\ k' = k
  /\ cur' = k - 1
  /\ caller' = "build"
  /\ pc' = "heapify"
  /\ UNCHANGED <<a, drained, snap>>

build_step ==
  /\ pc = "build"
  /\ k > 0
  /\ k' = k - 1
  /\ cur' = k - 1
  /\ caller' = "build"
  /\ pc' = "heapify"
  /\ UNCHANGED <<a, drained, snap>>

build_done ==
  /\ pc = "build"
  /\ k = 0
  /\ pc' = "idle"
  /\ UNCHANGED <<a, caller, cur, k, drained, snap>>

-----------------------------------------------------------------------------
(* peek_mut and the PeekMut guard.  On an empty heap peek_mut returns None *)
(* and changes nothing.                                                    *)
peek_mut ==
  /\ pc = "idle"
  /\ ~is_empty
  /\ pc' = "guard"
  /\ UNCHANGED <<a, caller, cur, k, drained, snap>>

\* *guard = v through DerefMut: the root is overwritten in place
guard_write(v) ==
  /\ pc = "guard"
  /\ a' = [a EXCEPT ![1] = v]
  /\ UNCHANGED <<pc, caller, cur, k, drained, snap>>

\* Drop for PeekMut: heapify(a, 0)
guard_drop ==
  /\ pc = "guard"
  /\ pc' = "heapify"
  /\ caller' = "guard"
  /\ cur' = 0
  /\ UNCHANGED <<a, k, drained, snap>>

\* PeekMut::pop: heap.pop(), then mem::forget skips the guard's Drop
guard_pop ==
  /\ pc = "guard"
  /\ StartPop("peek_pop")
  /\ UNCHANGED <<k, snap>>

-----------------------------------------------------------------------------
\* clear: Vec::clear
clear ==
  /\ pc = "idle"
  /\ a' = <<>>
  /\ UNCHANGED <<pc, caller, cur, k, drained, snap>>

\* drain: the Drain of Vec::drain(..) borrows the heap until it is consumed or
\* dropped, which leaves the Vec empty
drain ==
  /\ pc = "idle"
  /\ a' = <<>>
  /\ UNCHANGED <<pc, caller, cur, k, drained, snap>>

-----------------------------------------------------------------------------
(* drain_sorted and DrainSorted: next() is pop(); Drop runs for_each(drop),*)
(* i.e. pops until pop returns None.                                       *)
drain_sorted ==
  /\ pc = "idle"
  /\ pc' = "iter"
  /\ drained' = <<>>
  /\ snap' = a
  /\ UNCHANGED <<a, caller, cur, k>>

iter_next ==
  /\ pc = "iter"
  /\ a # <<>>
  /\ StartPop("iter")
  /\ UNCHANGED <<k, snap>>

iter_drop ==
  /\ pc = "iter"
  /\ pc' = "iter_drop"
  /\ UNCHANGED <<a, caller, cur, k, drained, snap>>

\* Mutant: a Drop that discards the elements in storage order, last first,
\* instead of popping them
drop_step_storage_order ==
  /\ pc = "iter_drop"
  /\ a # <<>>
  /\ a' = SubSeq(a, 1, Len(a) - 1)
  /\ drained' = Append(drained, a[Len(a)])
  /\ UNCHANGED <<pc, caller, cur, k, snap>>

drop_step ==
  /\ pc = "iter_drop"
  /\ a # <<>>
  /\ StartPop("drop")
  /\ UNCHANGED <<k, snap>>

drop_done ==
  /\ pc = "iter_drop"
  /\ a = <<>>
  /\ pc' = "idle"
  /\ drained' = <<>>
  /\ snap' = <<>>
  /\ UNCHANGED <<a, caller, cur, k>>

-----------------------------------------------------------------------------
\* The steps of a call in progress: the code takes them without the caller
Internal ==
  \/ sift_up_step \/ sift_up_done
  \/ heapify_step \/ heapify_return
  \/ build_step \/ build_done
  \/ drop_step \/ drop_done

Next ==
  \/ Internal
  \/ \E v \in Values : try_push(v)
  \/ \E v \in Values : push(v)
  \/ pop
  \/ \E n \in 0..(Capacity - Len(a)) : \E vs \in [1..n -> Values] : extend(vs)
  \/ peek_mut
  \/ \E v \in Values : guard_write(v)
  \/ guard_drop \/ guard_pop
  \/ clear \/ drain
  \/ drain_sorted \/ iter_next \/ iter_drop

\* A call, once made, runs to completion: the code is single-threaded and
\* never blocks.  The caller is free to stop calling.
Spec == Init /\ [][Next]_vars /\ WF_vars(Internal)

-----------------------------------------------------------------------------
(***************************************************************************)
(* Heap invariant: whenever no call is running and no PeekMut is live, a   *)
(* is in max-heap order.  try_push's sift-up, pop's swap_remove + heapify, *)
(* build-heap after From<Vec> and Extend, and heapify on PeekMut's drop    *)
(* after any write to the root must each restore it.                       *)
(***************************************************************************)
HeapInv == pc \in {"idle", "iter", "iter_drop"} => HeapOrdered(a, Len(a))

(***************************************************************************)
(* The DrainSorted contract: the elements a sorted iterator has popped,    *)
(* whether by next() or by its Drop, came out in descending order, none is *)
(* smaller than an element still in the heap, and together with the heap   *)
(* they are exactly the heap's contents when the iterator was created.     *)
(* When the Drop's loop has emptied the heap, drained is therefore the     *)
(* whole original contents in descending order, however many elements the *)
(* caller took first.                                                      *)
(***************************************************************************)
DrainSortedContract ==
  pc \in {"iter", "iter_drop"} =>
    /\ \A i \in 1..(Len(drained) - 1) : drained[i] >= drained[i + 1]
    /\ \A i \in 1..Len(drained), j \in 1..Len(a) : drained[i] >= a[j]
    /\ \A v \in Values :
         Occurrences(a, v) + Occurrences(drained, v) = Occurrences(snap, v)

(***************************************************************************)
(* Max extraction (spec section 8): every pop the caller makes on the heap *)
(* itself (pop, DrainSorted's next() and each turn of its Drop) returns an *)
(* element at least as great as every element in the heap.  PeekMut::pop  *)
(* is not among them: it takes the root the caller may have overwritten.  *)
(***************************************************************************)
PopReturnsMax ==
  [][pop \/ iter_next \/ drop_step => \A j \in 1..Len(a) : a[1] >= a[j]]_vars

\* The loops a call runs in
Busy == pc \in {"sift_up", "heapify", "build", "iter_drop"}

(***************************************************************************)
(* Every call returns: the sift-up loop, heapify's recursion, the          *)
(* build-heap loop and the Drop of a DrainSorted each terminate.           *)
(***************************************************************************)
CallsComplete == Busy ~> ~Busy

=============================================================================
