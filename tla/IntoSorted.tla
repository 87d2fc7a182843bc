----------------------------- MODULE IntoSorted -----------------------------
(***************************************************************************)
(* The conversions that consume a BinaryHeap: into_vec, into_sorted_vec   *)
(* (an in-place heapsort on the heap's own Vec) and into_iter_sorted with  *)
(* IntoIterSorted's next and Drop.  Each starts from a heap in max-heap   *)
(* order: BinaryHeapProofs!HeapInvariant shows that every heap a caller   *)
(* holds between calls is one.  As in BinaryHeap, each turn of a loop and *)
(* each recursion of heapify is one step.                                  *)
(***************************************************************************)
EXTENDS HeapOrder, SequencesExt

CONSTANTS
  Values,    \* the element values, compared by their integer order
  Capacity   \* the capacity of the heap's storage

ASSUME ConsumedValuesAssumption == Values \subseteq Int /\ Values # {}
ASSUME ConsumedCapacityAssumption == Capacity \in Nat

VARIABLES
  a,        \* the heap's Vec, sorted in place by into_sorted_vec
  orig,     \* history: the heap's contents when it was consumed
  pc,       \* the conversion, loop or call running
  caller,   \* where heapify returns to: the sort loop or the iterator
  k,        \* into_sorted_vec: the loop visits i = k - 1 down to 1
  cur,      \* heapify's index
  out       \* history: what IntoIterSorted has yielded, by next or by Drop

vars == <<a, orig, pc, caller, k, cur, out>>

PCs == {"heap", "vec", "sort", "heapify", "sorted", "iter", "iter_drop", "done"}

TypeOK ==
  /\ a \in Seq(Values) /\ Len(a) <= Capacity
  /\ orig \in Seq(Values)
  /\ pc \in PCs
  /\ caller \in {"sort", "iter", "iter_drop"}
  /\ k \in 0..Capacity /\ cur \in 0..Capacity
  /\ out \in Seq(Values) /\ Len(out) <= Capacity

\* A heap the caller owns, in max-heap order, about to be consumed
Init ==
  /\ \E n \in 0..Capacity : \E s \in [1..n -> Values] :
       HeapOrdered(s, n) /\ a = s
  /\ orig = a /\ pc = "heap" /\ caller = "sort" /\ k = 0 /\ cur = 0
  /\ out = <<>>
-----------------------------------------------------------------------------
\* into_vec: the Vec is returned as it is
into_vec ==
  /\ pc = "heap"
  /\ pc' = "vec"
  /\ UNCHANGED <<a, orig, caller, k, cur, out>>

\* IntoIterator::into_iter: the Vec's own IntoIter, yielding in storage order
\* like the Vec into_vec returns
into_iter ==
  /\ pc = "heap"
  /\ pc' = "vec"
  /\ UNCHANGED <<a, orig, caller, k, cur, out>>

\* into_sorted_vec: for i in (1..a.len()).rev() { a.swap(0, i);
\* heapify(&mut a[..i], 0) }
into_sorted_vec ==
  /\ pc = "heap"
  /\ pc' = "sort"
  /\ k' = Len(a)
  /\ UNCHANGED <<a, orig, caller, cur, out>>

\* Mutant: the sort loop swaps but never moves i down
sort_step_stuck ==
  /\ pc = "sort"
  /\ k > 1
  /\ a' = Swap(a, 0, k - 1)
  /\ cur' = 0
  /\ caller' = "sort"
  /\ pc' = "heapify"
  /\ UNCHANGED <<orig, out, k>>

sort_step ==
  /\ pc = "sort"
  /\ k > 1
  /\ a' = Swap(a, 0, k - 1)
  /\ k' = k - 1
  /\ cur' = 0
  /\ caller' = "sort"
  /\ pc' = "heapify"
  /\ UNCHANGED <<orig, out>>

sort_done ==
  /\ pc = "sort"
  /\ k <= 1
  /\ pc' = "sorted"
  /\ UNCHANGED <<a, orig, caller, k, cur, out>>

\* Mutant: the sort loop heapifies a[..i + 1], the sorted slot i included
HeapLen_past_sorted == IF caller = "sort" THEN k + 1 ELSE Len(a)

\* The slice heapify runs on: a[..i] in the sort loop, all of a in pop
HeapLen == IF caller = "sort" THEN k ELSE Len(a)

heapify_step ==
  /\ pc = "heapify"
  /\ largest(a, HeapLen, cur) # cur
  /\ a' = Swap(a, cur, largest(a, HeapLen, cur))
  /\ cur' = largest(a, HeapLen, cur)
  /\ UNCHANGED <<orig, pc, caller, k, out>>

heapify_return ==
  /\ pc = "heapify"
  /\ largest(a, HeapLen, cur) = cur
  /\ pc' = caller
  /\ UNCHANGED <<a, orig, caller, k, cur, out>>
-----------------------------------------------------------------------------
\* into_iter_sorted: IntoIterSorted { heap: self }
into_iter_sorted ==
  /\ pc = "heap"
  /\ pc' = "iter"
  /\ UNCHANGED <<a, orig, caller, k, cur, out>>

\* Mutant: a pop that yields the root but leaves it in the heap
Pop_keeping_root(c) ==
  /\ out' = Append(out, At(a, 0))
  /\ pc' = "heapify"
  /\ caller' = c
  /\ cur' = 0
  /\ UNCHANGED <<a, orig, k>>

\* pop on a non-empty heap, yielding the root: swap_remove(0), heapify(a, 0)
Pop(c) ==
  /\ a' = swap_remove_first(a)
  /\ out' = Append(out, At(a, 0))
  /\ pc' = "heapify"
  /\ caller' = c
  /\ cur' = 0
  /\ UNCHANGED <<orig, k>>

\* IntoIterSorted::next is self.heap.pop(); on an empty heap it returns None
\* and changes nothing
next ==
  /\ pc = "iter"
  /\ a # <<>>
  /\ Pop("iter")

\* Drop for IntoIterSorted: self.for_each(drop) pops until pop returns None
iter_drop ==
  /\ pc = "iter"
  /\ pc' = "iter_drop"
  /\ UNCHANGED <<a, orig, caller, k, cur, out>>

drop_step ==
  /\ pc = "iter_drop"
  /\ a # <<>>
  /\ Pop("iter_drop")

drop_done ==
  /\ pc = "iter_drop"
  /\ a = <<>>
  /\ pc' = "done"
  /\ UNCHANGED <<a, orig, caller, k, cur, out>>
-----------------------------------------------------------------------------
\* The steps of a conversion in progress
Internal ==
  \/ sort_step \/ sort_done
  \/ heapify_step \/ heapify_return
  \/ drop_step \/ drop_done

Next ==
  \/ Internal
  \/ into_vec \/ into_iter \/ into_sorted_vec
  \/ into_iter_sorted \/ next \/ iter_drop

\* A conversion, once started, runs to completion (single-threaded code
\* that never blocks); the owner of an IntoIterSorted may stop calling next.
Spec == Init /\ [][Next]_vars /\ WF_vars(Internal)
-----------------------------------------------------------------------------
(***************************************************************************)
(* into_sorted_vec is a sort: the Vec it returns is in ascending order and *)
(* holds exactly the heap's elements, each as often as the heap held it   *)
(* (spec: "an ascending permutation of the original multiset").  The      *)
(* loop's swap(0, i) and its heapify of the shrinking prefix a[..i] must  *)
(* keep the sorted suffix out of the heap.                                 *)
(***************************************************************************)
SortedVecContract ==
  pc = "sorted" =>
    /\ IsSorted(a, <=)
    /\ \A v \in Values : Occurrences(a, v) = Occurrences(orig, v)

(***************************************************************************)
(* IntoIterSorted yields in heap order, by next() and by its Drop alike:   *)
(* what it has yielded is in descending order, no element of it is less   *)
(* than one still in the heap, and with the heap it makes up the original *)
(* contents.  That is, what it has yielded followed by the rest of the    *)
(* heap in descending order is the original contents in descending order; *)
(* once the Drop has run, everything came out in descending order, however *)
(* many elements the caller took first.                                    *)
(***************************************************************************)
IterSortedContract ==
  pc \in {"iter", "iter_drop", "done"} =>
    /\ \A i \in 1..(Len(out) - 1) : out[i] >= out[i + 1]
    /\ \A i \in 1..Len(out), j \in 1..Len(a) : out[i] >= a[j]
    /\ \A v \in Values :
         Occurrences(a, v) + Occurrences(out, v) = Occurrences(orig, v)

(***************************************************************************)
(* The sorted iterators' order as the spec states it (sections 3 and 4.6): *)
(* each element IntoIterSorted yields is strictly less than the one before.*)
(***************************************************************************)
StrictlyDescending == \A i \in 1..(Len(out) - 1) : out[i] > out[i + 1]

\* Every conversion that has started finishes: the sort loop reaches its
\* end, and the Drop of an IntoIterSorted empties the heap
ConversionsFinish ==
  (pc \in {"sort", "iter_drop"}) ~> (pc \in {"sorted", "done"})
=============================================================================
