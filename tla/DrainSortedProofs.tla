------------------------- MODULE DrainSortedProofs -------------------------
(***************************************************************************)
(* A proof of the DrainSorted contract for every set of values and every  *)
(* capacity: what a sorted iterator yields, by next() or by its Drop, is   *)
(* in descending order, dominates what is left, and together with it is   *)
(* the heap's multiset when drain_sorted was called.                       *)
(***************************************************************************)
EXTENDS BinaryHeapProofs

-----------------------------------------------------------------------------
(***************************************************************************)
(* The contract is not inductive as it stands: it says nothing while the  *)
(* heapify call of a sorted iterator's pop runs, yet that call must hand  *)
(* back a state where it holds.  DInv asks for the contract there too,     *)
(* and for HeapIInv, which gives the max-heap order that makes each popped *)
(* root a maximum.                                                         *)
(***************************************************************************)
\* A DrainSorted is live: between calls, in its Drop, or inside its pop
InDrain ==
  \/ pc \in {"iter", "iter_drop"}
  \/ pc = "heapify" /\ caller \in {"iter", "drop"}

\* The three clauses of DrainSortedContract
Descending == \A i \in 1..(Len(drained) - 1) : drained[i] >= drained[i + 1]

Dominates == \A i \in 1..Len(drained), j \in 1..Len(a) : drained[i] >= a[j]

Conserves ==
  \A v \in Values :
    Occurrences(a, v) + Occurrences(drained, v) = Occurrences(snap, v)

DInv == HeapIInv /\ (InDrain => Descending /\ Dominates /\ Conserves)

LEMMA DInvInit == Init => DInv
<1> SUFFICES ASSUME Init PROVE DInv
  OBVIOUS
<1>1. HeapIInv
  BY HeapIInvInit
<1>2. ~InDrain
  BY DEF Init, from_buf, from_vec, InDrain
<1>. QED
  BY <1>1, <1>2 DEF DInv

\* The sequences of the model hold integers
LEMMA IntSeqs ==
  ASSUME TypeInv
  PROVE  /\ a \in Seq(Int) /\ drained \in Seq(Int) /\ snap \in Seq(Int)
         /\ Len(a) \in Nat /\ Len(drained) \in Nat
<1>1. a \in Seq(Values) /\ drained \in Seq(Values) /\ snap \in Seq(Values)
  BY DEF TypeInv, TypeOK
<1>. QED
  BY <1>1, ValuesAssumption, SeqMonotonic, LenProperties

\* The steps that start no sorted iterator and take no step of a live one
LEMMA LeaveDrain ==
  ASSUME TypeInv,
         \/ \E v \in Values : try_push(v) \/ push(v)
         \/ sift_up_step \/ sift_up_done \/ pop
         \/ \E n \in 0..(Capacity - Len(a)) : \E vs \in [1..n -> Values] :
              extend(vs)
         \/ build_step \/ build_done \/ peek_mut
         \/ \E v \in Values : guard_write(v)
         \/ guard_drop \/ guard_pop \/ clear \/ drain \/ drop_done
  PROVE  ~InDrain'
BY DEF try_push, push, sift_up_step, sift_up_done, pop, StartPop, extend,
       build_step, build_done, peek_mut, guard_write, guard_drop, guard_pop,
       clear, drain, drop_done, InDrain, TypeInv

\* A sorted iterator's pop (next() or a turn of the Drop's loop) keeps the
\* contract: the root it appends is no greater than what drained already
\* holds and no smaller than what stays in the heap
LEMMA DrainPopStep ==
  ASSUME DInv, iter_next \/ drop_step
  PROVE  (Descending /\ Dominates /\ Conserves)'
<1> DEFINE r == At(a, 0)
           n == Len(a)
           d == Len(drained)
<1>1. /\ a \in Seq(Int) /\ drained \in Seq(Int) /\ snap \in Seq(Int)
      /\ n \in Nat /\ d \in Nat
  BY IntSeqs DEF DInv, HeapIInv
<1>2. /\ a # <<>> /\ pc \in {"iter", "iter_drop"}
      /\ a' = swap_remove_first(a) /\ drained' = Append(drained, r)
      /\ snap' = snap
  BY DEF iter_next, drop_step, StartPop
<1>3. Descending /\ Dominates /\ Conserves
  BY <1>2 DEF DInv, InDrain
<1>4. n \in Nat \ {0} /\ r = a[1] /\ r \in Int
  BY <1>1, <1>2, EmptySeq DEF At
<1>5. \A j \in 1..n : r >= a[j]
  <2>1. HeapOrdered(a, n)
    BY <1>2 DEF DInv, HeapIInv
  <2>2. \A x \in 0..(n - 1) : At(a, 0) >= At(a, x)
    BY <1>1, <2>1, RootMax
  <2>. TAKE j \in 1..n
  <2>3. j - 1 \in 0..(n - 1)
    BY <1>4
  <2>. QED
    BY <2>2, <2>3 DEF At
<1>6. /\ Len(drained') = d + 1
      /\ \A i \in 1..d : drained'[i] = drained[i]
      /\ drained'[d + 1] = r
  BY <1>1, <1>2, AppendProperties
<1>7. Descending'
  <2> SUFFICES ASSUME NEW i \in 1..(Len(drained') - 1)
               PROVE  drained'[i] >= drained'[i + 1]
    BY DEF Descending
  <2>1. CASE i < d
    <3>1. drained[i] >= drained[i + 1]
      BY <1>1, <1>6, <2>1, <1>3 DEF Descending
    <3>. QED
      BY <1>1, <1>6, <2>1, <3>1
  <2>3. CASE i = d
    <3>1. drained[d] >= a[1]
      BY <1>1, <1>4, <1>6, <2>3, <1>3 DEF Dominates
    <3>. QED
      BY <1>1, <1>4, <1>6, <2>3, <3>1
  <2>. QED
    BY <1>1, <1>6, <2>1, <2>3
<1>8. Dominates'
  <2> SUFFICES ASSUME NEW i \in 1..Len(drained')
               PROVE  \A j \in 1..Len(a') : drained'[i] >= a'[j]
    BY DEF Dominates
  <2>1. CASE i \in 1..d
    <3>1. drained[i] \in Int /\ \A x \in 1..n : drained[i] >= a[x]
      BY <1>1, <2>1, <1>3 DEF Dominates
    <3>2. \A y \in 1..Len(a') : drained[i] >= a'[y]
      BY <1>1, <1>2, <3>1, SwapRemoveBound
    <3>. QED
      BY <1>6, <2>1, <3>2
  <2>2. CASE i = d + 1
    <3>1. \A y \in 1..Len(a') : r >= a'[y]
      BY <1>1, <1>2, <1>4, <1>5, SwapRemoveBound
    <3>. QED
      BY <1>6, <2>2, <3>1
  <2>. QED
    BY <1>1, <1>6, <2>1, <2>2
<1>9. Conserves'
  <2> SUFFICES ASSUME NEW v \in Values
               PROVE  Occurrences(a', v) + Occurrences(drained', v)
                        = Occurrences(snap', v)
    BY DEF Conserves
  <2>1. Occurrences(a', v) = Occurrences(a, v) - (IF a[1] = v THEN 1 ELSE 0)
    BY <1>1, <1>2, OccSwapRemove
  <2>2. Occurrences(drained', v)
          = Occurrences(drained, v) + (IF r = v THEN 1 ELSE 0)
    BY <1>1, <1>2, <1>4, OccAppend
  <2>3. Occurrences(a, v) \in Nat /\ Occurrences(drained, v) \in Nat
    BY <1>1, PosFinite
  <2>4. Occurrences(a, v) + Occurrences(drained, v) = Occurrences(snap, v)
    BY <1>3 DEF Conserves
  <2>. QED
    BY <1>2, <1>4, <2>1, <2>2, <2>3, <2>4
<1>. QED
  BY <1>7, <1>8, <1>9

LEMMA DInvNext == DInv /\ [Next]_vars => DInv'
<1> SUFFICES ASSUME DInv, [Next]_vars, InDrain'
             PROVE  (Descending /\ Dominates /\ Conserves)'
  BY HeapIInvNext DEF DInv
<1>0. /\ TypeInv /\ a \in Seq(Int) /\ Len(a) \in Nat /\ cur \in Nat
  BY IntSeqs, IntArray DEF DInv, HeapIInv
<1>1. CASE heapify_step
  <2>1. /\ pc = "heapify" /\ caller \in {"iter", "drop"}
        /\ UNCHANGED <<drained, snap>>
    BY <1>1 DEF heapify_step, InDrain
  <2>2. Descending /\ Dominates /\ Conserves
    BY <2>1 DEF DInv, InDrain
  <2>3. /\ largest(a, Len(a), cur) \in 0..(Len(a) - 1)
        /\ cur \in 0..(Len(a) - 1)
        /\ a' = Swap(a, cur, largest(a, Len(a), cur))
    <3>1. largest(a, Len(a), cur) # cur
      BY <1>1 DEF heapify_step
    <3>2. largest(a, Len(a), cur) < Len(a) /\ cur < largest(a, Len(a), cur)
      BY <1>0, <3>1, LargestInRange
    <3>3. largest(a, Len(a), cur) \in Nat
      <4>1. largest(a, Len(a), cur) \in {left(cur), right(cur)}
        BY <1>0, <3>1, LargestInRange
      <4>2. left(cur) \in Nat /\ right(cur) \in Nat
        BY <1>0 DEF left, right
      <4>. QED
        BY <4>1, <4>2
    <3>. QED
      BY <1>0, <1>1, <3>2, <3>3 DEF heapify_step
  <2>4. Descending'
    BY <2>1, <2>2 DEF Descending
  <2>5. Dominates'
    <3> SUFFICES ASSUME NEW i \in 1..Len(drained)
                 PROVE  \A j \in 1..Len(a') : drained[i] >= a'[j]
      BY <2>1 DEF Dominates
    <3>1. drained[i] \in Int /\ \A x \in 1..Len(a) : drained[i] >= a[x]
      BY <1>0, <2>2, IntSeqs DEF Dominates
    <3>. QED
      BY <1>0, <2>3, <3>1, SwapBound
  <2>6. Conserves'
    BY <1>0, <2>1, <2>2, <2>3, OccSwap DEF Conserves
  <2>. QED
    BY <2>4, <2>5, <2>6
<1>2. CASE heapify_return
  <2>1. caller \in Callers /\ pc' = ReturnTo[caller]
    BY <1>0, <1>2 DEF heapify_return, TypeInv, TypeOK
  <2>2. caller \in {"iter", "drop"} /\ pc = "heapify"
    BY <1>2, <2>1 DEF heapify_return, InDrain, ReturnTo, Callers
  <2>. QED
    BY <1>2, <2>2 DEF heapify_return, DInv, InDrain, Descending, Dominates,
                      Conserves
<1>3. CASE iter_next \/ drop_step
  BY <1>3, DrainPopStep
<1>4. CASE drain_sorted
  <2>1. drained' = <<>> /\ snap' = a /\ a' = a
    BY <1>4 DEF drain_sorted
  <2>2. \A v \in Values : Occurrences(a, v) \in Nat
    BY <1>0, PosFinite
  <2>. QED
    BY <2>1, <2>2, OccEmpty DEF Descending, Dominates, Conserves
<1>5. CASE iter_drop
  BY <1>5 DEF iter_drop, DInv, InDrain, Descending, Dominates, Conserves
<1>6. CASE UNCHANGED vars
  BY <1>6 DEF vars, DInv, InDrain, Descending, Dominates, Conserves
<1>7. CASE \/ \E v \in Values : try_push(v) \/ push(v)
           \/ sift_up_step \/ sift_up_done \/ pop
           \/ \E n \in 0..(Capacity - Len(a)) : \E vs \in [1..n -> Values] :
                extend(vs)
           \/ build_step \/ build_done \/ peek_mut
           \/ \E v \in Values : guard_write(v)
           \/ guard_drop \/ guard_pop \/ clear \/ drain \/ drop_done
  BY <1>0, <1>7, LeaveDrain
<1>. QED
  BY <1>1, <1>2, <1>3, <1>4, <1>5, <1>6, <1>7 DEF Next, Internal

(***************************************************************************)
(* The DrainSorted contract for every capacity and every set of values:   *)
(* while a sorted iterator is live, what it has popped by next() or by its *)
(* Drop is in descending order, dominates what is left in the heap, and   *)
(* with it makes up the heap's contents when drain_sorted was called.     *)
(***************************************************************************)
THEOREM DrainSortedCorrect == Spec => []DrainSortedContract
<1>1. Init => DInv
  BY DInvInit
<1>2. DInv /\ [Next]_vars => DInv'
  BY DInvNext
<1>3. DInv => DrainSortedContract
  BY DEF DInv, InDrain, Descending, Dominates, Conserves, DrainSortedContract
<1>. QED
  BY <1>1, <1>2, <1>3, PTL DEF Spec
=============================================================================

