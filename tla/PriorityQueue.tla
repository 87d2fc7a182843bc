--------------------------- MODULE PriorityQueue ---------------------------
(***************************************************************************)
(* What a BinaryHeap promises its caller, with no array and no loops: a    *)
(* bounded multiset of values, each call one atomic step.  pop takes a     *)
(* maximum.  A PeekMut guard exposes one element, a maximum when the guard *)
(* is made, which the caller may overwrite, then either releases or takes. *)
(* While a sorted iterator is live, every element it yields is a maximum  *)
(* of what is left.  BinaryHeapRefinement shows that BinaryHeap, loops and *)
(* all, implements this specification.                                     *)
(***************************************************************************)
EXTENDS Bags, BagsExt, Naturals, Sequences

CONSTANTS Values, Capacity

VARIABLES
  elems,  \* the multiset of elements the heap holds
  mode,   \* "free", or a PeekMut ("guard") or DrainSorted ("drain") is live
  top     \* in guard mode, <<e>> for the element the guard exposes

pqvars == <<elems, mode, top>>

\* The maxima of a non-empty bag
Maxima(B) == {m \in BagToSet(B) : \A x \in BagToSet(B) : x <= m}

\* Any bag of at most Capacity elements, and the modes
PQTypeOK ==
  /\ IsABag(elems) /\ BagToSet(elems) \subseteq Values
  /\ BagCardinality(elems) <= Capacity
  /\ mode \in {"free", "guard", "drain"}
  /\ top \in Seq(Values) /\ Len(top) <= 1

PQInit ==
  /\ IsABag(elems) /\ BagToSet(elems) \subseteq Values
  /\ BagCardinality(elems) <= Capacity
  /\ mode = "free" /\ top = <<>>
-----------------------------------------------------------------------------
\* try_push / push: insert one element if there is room
Push(v) ==
  /\ mode = "free"
  /\ BagCardinality(elems) < Capacity
  /\ elems' = BagAdd(elems, v)
  /\ UNCHANGED <<mode, top>>

\* pop: remove a maximum
Pop ==
  /\ mode = "free"
  /\ \E m \in Maxima(elems) : elems' = BagRemove(elems, m)
  /\ UNCHANGED <<mode, top>>

\* Extend / From<Vec>: add any bag of values that fits
Extend ==
  /\ mode = "free"
  /\ IsABag(elems') /\ BagToSet(elems') \subseteq Values
  /\ elems \sqsubseteq elems'
  /\ BagCardinality(elems') <= Capacity
  /\ UNCHANGED <<mode, top>>

\* clear / drain: remove everything
Clear ==
  /\ mode = "free"
  /\ elems' = EmptyBag
  /\ UNCHANGED <<mode, top>>

\* peek_mut on a non-empty heap: a guard on a maximum
PeekMut ==
  /\ mode = "free"
  /\ \E m \in Maxima(elems) : top' = <<m>>
  /\ mode' = "guard"
  /\ UNCHANGED elems

\* A write through the guard replaces the exposed element
Write(v) ==
  /\ mode = "guard"
  /\ elems' = BagAdd(BagRemove(elems, top[1]), v)
  /\ top' = <<v>>
  /\ UNCHANGED mode

\* The guard's Drop: the element stays, the guard goes
Release ==
  /\ mode = "guard"
  /\ mode' = "free" /\ top' = <<>>
  /\ UNCHANGED elems

\* PeekMut::pop: the exposed element is removed, whatever it now is
TakeTop ==
  /\ mode = "guard"
  /\ elems' = BagRemove(elems, top[1])
  /\ mode' = "free" /\ top' = <<>>

\* drain_sorted: a sorted iterator borrows the heap
DrainSorted ==
  /\ mode = "free"
  /\ mode' = "drain"
  /\ UNCHANGED <<elems, top>>

\* The iterator's next(), or one turn of its Drop: a maximum leaves
DrainNext ==
  /\ mode = "drain"
  /\ \E m \in Maxima(elems) : elems' = BagRemove(elems, m)
  /\ UNCHANGED <<mode, top>>

\* The iterator's Drop, once the heap is empty, gives the heap back
EndDrain ==
  /\ mode = "drain"
  /\ elems = EmptyBag
  /\ mode' = "free"
  /\ UNCHANGED <<elems, top>>

PQNext ==
  \/ \E v \in Values : Push(v) \/ Write(v)
  \/ Pop \/ Clear \/ PeekMut \/ Release \/ TakeTop
  \/ DrainSorted \/ DrainNext \/ EndDrain
  \/ Extend

PQSpec == PQInit /\ [][PQNext]_pqvars
=============================================================================
