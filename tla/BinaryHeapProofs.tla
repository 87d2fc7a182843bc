-------------------------- MODULE BinaryHeapProofs --------------------------
(***************************************************************************)
(* Proofs about BinaryHeap for every set of values and every capacity.     *)
(***************************************************************************)
EXTENDS BinaryHeap, HeapOrderProofs

-----------------------------------------------------------------------------
(***************************************************************************)
(* Type correctness.  TypeOK alone is not inductive: the sift-up loop      *)
(* reads a[i] and a[parent(i)], so its index must lie inside the Vec, and  *)
(* a live PeekMut writes and pops the root, so the heap is not empty then  *)
(* (peek_mut returns None on an empty heap).                               *)
(* heapify needs no such conjunct, since it swaps only when a child inside *)
(* the slice is greater, which puts its own index inside the slice too.    *)
(***************************************************************************)
TypeInv ==
  /\ TypeOK
  /\ pc = "sift_up" => cur < Len(a)
  /\ pc = "guard" => a # <<>>

LEMMA TypeInvInit == Init => TypeInv
<1> SUFFICES ASSUME Init PROVE TypeInv
  OBVIOUS
<1>1. CASE from_buf
  BY <1>1, EmptySeq, CapacityAssumption
  DEF Init, from_buf, TypeInv, TypeOK, PCs, Callers
<1>2. CASE \E n \in 0..Capacity : \E v \in [1..n -> Values] : from_vec(v)
  <2>1. PICK n \in 0..Capacity : \E v \in [1..n -> Values] : from_vec(v)
    BY <1>2
  <2>2. a \in Seq(Values) /\ Len(a) = n /\ pc = "build" /\ k = n \div 2
    BY <2>1 DEF from_vec
  <2>3. k \in 0..Capacity
    BY <2>2, CapacityAssumption
  <2>. QED
    BY <2>1, <2>2, <2>3, EmptySeq, CapacityAssumption
    DEF Init, TypeInv, TypeOK, PCs, Callers
<1>. QED
  BY <1>1, <1>2 DEF Init

LEMMA TypeInvNext == TypeInv /\ [Next]_vars => TypeInv'
<1> SUFFICES ASSUME TypeInv, [Next]_vars PROVE TypeInv'
  OBVIOUS
<1>0. /\ a \in Seq(Values) /\ Len(a) <= Capacity /\ Len(a) \in Nat
      /\ cur \in Nat /\ k \in Nat /\ Capacity \in Nat
  BY CapacityAssumption DEF TypeInv, TypeOK
<1>1. CASE \E v \in Values : try_push(v)
  <2>1. PICK v \in Values : try_push(v)
    BY <1>1
  <2>2. Append(a, v) \in Seq(Values) /\ Len(Append(a, v)) = Len(a) + 1
    BY <1>0, AppendProperties
  <2>. QED
    BY <1>0, <2>1, <2>2 DEF try_push, is_full, TypeInv, TypeOK, PCs
<1>2. CASE sift_up_step
  <2>1. cur \in 1..(Len(a) - 1) /\ parent(cur) \in 0..(cur - 1)
    BY <1>0, <1>2, ParentBelow DEF sift_up_step, SiftUpContinues, TypeInv
  <2>2. Swap(a, cur, parent(cur)) \in Seq(Values)
        /\ Len(Swap(a, cur, parent(cur))) = Len(a)
    BY <1>0, <2>1, SwapType
  <2>. QED
    BY <1>0, <1>2, <2>1, <2>2 DEF sift_up_step, TypeInv, TypeOK
<1>3. CASE sift_up_done
  BY <1>3 DEF sift_up_done, TypeInv, TypeOK, PCs
<1>4. CASE heapify_step
  <2> DEFINE lg == largest(a, Len(a), cur)
  <2>0. lg # cur
    BY <1>4 DEF heapify_step
  <2>1. lg \in 0..(Len(a) - 1) /\ cur \in 0..(Len(a) - 1) /\ lg <= Capacity
    <3>1. lg \in {2 * cur + 1, 2 * cur + 2} /\ lg < Len(a)
      BY <1>0, <2>0, LargestInRange, ChildrenAbove
    <3>. QED
      BY <1>0, <3>1
  <2>2. Swap(a, cur, lg) \in Seq(Values) /\ Len(Swap(a, cur, lg)) = Len(a)
    BY <1>0, <2>1, SwapType
  <2>. QED
    BY <1>0, <1>4, <2>1, <2>2 DEF heapify_step, TypeInv, TypeOK
<1>5. CASE heapify_return
  BY <1>5 DEF heapify_return, TypeInv, TypeOK, PCs, Callers, ReturnTo
<1>6. CASE pop \/ guard_pop \/ iter_next \/ drop_step
  <2>1. a # <<>>
    BY <1>6 DEF pop, guard_pop, iter_next, drop_step, is_empty, TypeInv
  <2>2. /\ swap_remove_first(a) \in Seq(Values)
        /\ Len(swap_remove_first(a)) = Len(a) - 1
    BY <1>0, <2>1, SwapRemoveType
  <2>3. Len(a) \in 1..Capacity /\ At(a, 0) \in Values
    BY <1>0, <2>1, EmptySeq DEF At
  <2>4. Append(drained, At(a, 0)) \in Seq(Values)
    BY <2>3, AppendProperties DEF TypeInv, TypeOK
  <2>5. StartPop("pop") \/ StartPop("peek_pop") \/ StartPop("iter")
        \/ StartPop("drop")
    BY <1>6 DEF pop, guard_pop, iter_next, drop_step
  <2>6. UNCHANGED <<k, snap>>
    BY <1>6 DEF pop, guard_pop, iter_next, drop_step
  <2>7. drained' \in Seq(Values)
    BY <2>4, <2>5 DEF StartPop, TypeInv, TypeOK
  <2>8. /\ a' = swap_remove_first(a) /\ pc' = "heapify" /\ cur' = 0
        /\ caller' \in Callers
    BY <2>5 DEF StartPop, Callers
  <2>. QED
    BY <1>0, <2>2, <2>3, <2>6, <2>7, <2>8 DEF TypeInv, TypeOK, PCs
<1>7. CASE \E n \in 0..(Capacity - Len(a)) : \E vs \in [1..n -> Values] :
             extend(vs)
  <2>1. PICK n \in 0..(Capacity - Len(a)) : \E vs \in [1..n -> Values] :
             extend(vs)
    BY <1>7
  <2>2. PICK vs \in [1..n -> Values] : extend(vs)
    BY <2>1
  <2>3. vs \in Seq(Values) /\ Len(vs) = n
    BY <1>0
  <2>4. a \o vs \in Seq(Values) /\ Len(a \o vs) = Len(a) + n
    BY <1>0, <2>3, ConcatProperties
  <2>. QED
    BY <1>0, <2>2, <2>4 DEF extend, TypeInv, TypeOK, PCs
<1>8. CASE build_step
  BY <1>0, <1>8 DEF build_step, TypeInv, TypeOK, PCs, Callers
<1>9. CASE build_done
  BY <1>9 DEF build_done, TypeInv, TypeOK, PCs
<1>10. CASE peek_mut \/ guard_drop \/ iter_drop \/ drop_done
  BY <1>0, <1>10 DEF peek_mut, guard_drop, iter_drop, drop_done, is_empty,
                     TypeInv, TypeOK, PCs, Callers
<1>11. CASE \E v \in Values : guard_write(v)
  <2>1. PICK v \in Values : guard_write(v)
    BY <1>11
  <2>2. [a EXCEPT ![1] = v] \in Seq(Values) /\ Len([a EXCEPT ![1] = v]) = Len(a)
    <3>1. 1 \in 1..Len(a)
      BY <1>0, <2>1, EmptySeq DEF guard_write, TypeInv
    <3>. QED
      BY <1>0, <3>1, ExceptSeq
  <2>. QED
    BY <2>1, <2>2 DEF guard_write, TypeInv, TypeOK
<1>12. CASE clear \/ drain
  <2>1. a' = <<>> /\ pc' = "idle" /\ UNCHANGED <<caller, cur, k, drained, snap>>
    BY <1>12 DEF clear, drain
  <2>. QED
    BY <2>1, EmptySeq, CapacityAssumption DEF TypeInv, TypeOK, PCs
<1>13. CASE drain_sorted
  BY <1>13, EmptySeq DEF drain_sorted, TypeInv, TypeOK, PCs
<1>14. CASE UNCHANGED vars
  BY <1>14 DEF vars, TypeInv, TypeOK
<1>15. CASE \E v \in Values : push(v)
  BY <1>1, <1>15 DEF push
<1>. QED
  BY <1>1, <1>2, <1>3, <1>4, <1>5, <1>6, <1>7, <1>8, <1>9, <1>10, <1>11,
     <1>12, <1>13, <1>14, <1>15 DEF Next, Internal

(***************************************************************************)
(* Type correctness: in every reachable state the Vec holds at most        *)
(* Capacity values, and the loop indices and history variables have their *)
(* types (binary_heap.rs never grows the Vec past the storage's capacity). *)
(***************************************************************************)
THEOREM TypeCorrect == Spec => []TypeOK
<1>1. Init => TypeInv
  BY TypeInvInit
<1>2. TypeInv /\ [Next]_vars => TypeInv'
  BY TypeInvNext
<1>3. TypeInv => TypeOK
  BY DEF TypeInv
<1>. QED
  BY <1>1, <1>2, <1>3, PTL DEF Spec

-----------------------------------------------------------------------------
(***************************************************************************)
(* The heap invariant.  HeapInv is not inductive: inside a call the array *)
(* is out of order around the index the loop is working on.  HeapIInv     *)
(* states what each loop keeps:                                            *)
(*   - sift-up at c (UpInv): every slot other than c is no greater than   *)
(*     its parent, and c's parent is no smaller than c's children;        *)
(*   - heapify at c, called on the subtree at lo (DownInv): every slot    *)
(*     whose parent is at or below lo, other than c, is ordered, and when *)
(*     c is not lo itself, c's parent is no smaller than c's children;    *)
(*   - build-heap with k left (BuildInv): every slot whose parent is at   *)
(*     or after k is ordered;                                             *)
(*   - a live PeekMut: every slot except the root's children is ordered.  *)
(***************************************************************************)
\* The subtree the running heapify call was made on
Lo == IF caller = "build" THEN k ELSE 0

HeapIInv ==
  /\ TypeInv
  /\ pc \in {"idle", "iter", "iter_drop"} => HeapOrdered(a, Len(a))
  /\ pc = "guard" => DownInv(a, 0, 0)
  /\ pc = "build" => BuildInv(a, k)
  /\ pc = "sift_up" => UpInv(a, cur)
  /\ pc = "heapify" => /\ Lo <= cur
                       /\ cur > Lo => parent(cur) >= Lo
                       /\ DownInv(a, Lo, cur)

-----------------------------------------------------------------------------
(* HeapIInv is inductive                                                   *)

\* The element array holds integers, before and after a step
LEMMA IntArray ==
  ASSUME TypeInv
  PROVE  a \in Seq(Int) /\ Len(a) \in Nat /\ cur \in Nat /\ k \in Nat
<1>1. a \in Seq(Values) /\ cur \in 0..Capacity /\ k \in 0..Capacity
  BY DEF TypeInv, TypeOK
<1>2. a \in Seq(Int)
  BY <1>1, ValuesAssumption, SeqMonotonic
<1>. QED
  BY <1>1, <1>2, CapacityAssumption, LenProperties

LEMMA HeapIInvInit == Init => HeapIInv
<1> SUFFICES ASSUME Init PROVE HeapIInv
  OBVIOUS
<1>1. TypeInv
  BY TypeInvInit
<1>2. a \in Seq(Int)
  BY <1>1, IntArray
<1>3. CASE from_buf
  <2>1. HeapOrdered(a, Len(a))
    BY <1>3 DEF from_buf, HeapOrdered
  <2>. QED
    BY <1>1, <1>3, <2>1 DEF from_buf, HeapIInv
<1>4. CASE \E n \in 0..Capacity : \E v \in [1..n -> Values] : from_vec(v)
  <2>1. PICK n \in 0..Capacity : \E v \in [1..n -> Values] : from_vec(v)
    BY <1>4
  <2>2. k = Len(a) \div 2 /\ pc = "build"
    BY <2>1 DEF from_vec
  <2>3. BuildInv(a, k)
    BY <1>2, <2>2, BuildStart
  <2>. QED
    BY <1>1, <2>2, <2>3 DEF HeapIInv
<1>. QED
  BY <1>3, <1>4 DEF Init

\* The precondition of heapify(a, 0) holds wherever a pop can start
LEMMA PopReady ==
  ASSUME HeapIInv, pc \in {"idle", "guard", "iter", "iter_drop"}
  PROVE  DownInv(a, 0, 0)
<1>1. a \in Seq(Int)
  BY IntArray DEF HeapIInv
<1>2. CASE pc = "guard"
  BY <1>2 DEF HeapIInv
<1>3. CASE pc # "guard"
  BY <1>1, <1>3, HeapToDown DEF HeapIInv
<1>. QED
  BY <1>2, <1>3

LEMMA HeapIInvNext == HeapIInv /\ [Next]_vars => HeapIInv'
<1> SUFFICES ASSUME HeapIInv, [Next]_vars PROVE HeapIInv'
  OBVIOUS
<1>0. TypeInv'
  BY TypeInvNext DEF HeapIInv
<1>a. /\ a \in Seq(Int) /\ Len(a) \in Nat /\ cur \in Nat /\ k \in Nat
      /\ a' \in Seq(Int) /\ Len(a') \in Nat /\ cur' \in Nat /\ k' \in Nat
  <2>1. a \in Seq(Int) /\ Len(a) \in Nat /\ cur \in Nat /\ k \in Nat
    BY IntArray DEF HeapIInv
  <2>2. a' \in Seq(Values) /\ cur' \in 0..Capacity /\ k' \in 0..Capacity
    BY <1>0 DEF TypeInv, TypeOK
  <2>3. a' \in Seq(Int)
    BY <2>2, ValuesAssumption, SeqMonotonic
  <2>. QED
    BY <2>1, <2>2, <2>3, CapacityAssumption, LenProperties
<1>1. CASE \E v \in Values : try_push(v)
  <2>1. PICK v \in Values : try_push(v)
    BY <1>1
  <2>2. HeapOrdered(a, Len(a)) /\ v \in Int
    BY <2>1, ValuesAssumption DEF try_push, HeapIInv
  <2>3. UpInv(a', cur')
    BY <1>a, <2>1, <2>2, PushStart DEF try_push
  <2>. QED
    BY <1>0, <2>1, <2>3 DEF try_push, HeapIInv
<1>2. CASE sift_up_step
  <2>1. cur \in 1..(Len(a) - 1) /\ UpInv(a, cur) /\ At(a, parent(cur)) < At(a, cur)
    BY <1>a, <1>2 DEF sift_up_step, SiftUpContinues, HeapIInv, TypeInv
  <2>2. UpInv(a', cur')
    BY <1>a, <1>2, <2>1, SiftUpStep DEF sift_up_step
  <2>. QED
    BY <1>0, <1>2, <2>2 DEF sift_up_step, HeapIInv
<1>3. CASE sift_up_done
  <2>1. cur \in 0..(Len(a) - 1) /\ UpInv(a, cur)
    BY <1>a, <1>3 DEF sift_up_done, HeapIInv, TypeInv
  <2>2. HeapOrdered(a, Len(a))
    BY <1>a, <1>3, <2>1, SiftUpDone DEF sift_up_done, SiftUpContinues
  <2>. QED
    BY <1>0, <1>3, <2>2 DEF sift_up_done, HeapIInv
<1>4. CASE heapify_step
  <2>1. /\ Lo \in Nat /\ Lo <= cur /\ (cur > Lo => parent(cur) >= Lo)
        /\ DownInv(a, Lo, cur) /\ largest(a, Len(a), cur) # cur
    BY <1>a, <1>4 DEF heapify_step, HeapIInv, Lo
  <2>2. /\ DownInv(a', Lo, cur') /\ Lo <= cur' /\ parent(cur') >= Lo
    BY <1>a, <1>4, <2>1, SiftDownStep DEF heapify_step
  <2>3. Lo' = Lo
    BY <1>4 DEF heapify_step, Lo
  <2>. QED
    BY <1>0, <1>4, <2>2, <2>3 DEF heapify_step, HeapIInv
<1>5. CASE heapify_return
  <2>1. /\ Lo \in Nat /\ DownInv(a, Lo, cur) /\ largest(a, Len(a), cur) = cur
    BY <1>a, <1>5 DEF heapify_return, HeapIInv, Lo
  <2>2. BuildInv(a, Lo)
    BY <1>a, <2>1, SiftDownDone
  <2>3. CASE caller = "build"
    <3>1. pc' = "build" /\ BuildInv(a', k')
      BY <1>5, <2>2, <2>3 DEF heapify_return, ReturnTo, Lo
    <3>. QED
      BY <1>0, <3>1 DEF HeapIInv
  <2>4. CASE caller # "build"
    <3>1. caller \in Callers
      BY DEF HeapIInv, TypeInv, TypeOK
    <3>2. pc' \in {"idle", "iter", "iter_drop"}
      BY <1>5, <2>4, <3>1 DEF heapify_return, ReturnTo, Callers
    <3>3. HeapOrdered(a', Len(a'))
      BY <1>a, <1>5, <2>2, <2>4, BuildInvZero DEF heapify_return, Lo
    <3>. QED
      BY <1>0, <3>2, <3>3 DEF HeapIInv
  <2>. QED
    BY <2>3, <2>4
<1>6. CASE pop \/ guard_pop \/ iter_next \/ drop_step
  <2>1. a # <<>> /\ pc \in {"idle", "guard", "iter", "iter_drop"}
    BY <1>6 DEF pop, guard_pop, iter_next, drop_step, is_empty, HeapIInv,
                TypeInv
  <2>2. DownInv(a, 0, 0)
    BY <2>1, PopReady
  <2>3. DownInv(swap_remove_first(a), 0, 0)
    BY <1>a, <2>1, <2>2, PopStart
  <2>4. /\ a' = swap_remove_first(a) /\ pc' = "heapify" /\ cur' = 0
        /\ caller' \in {"pop", "peek_pop", "iter", "drop"}
    BY <1>6 DEF pop, guard_pop, iter_next, drop_step, StartPop
  <2>5. Lo' = 0
    BY <2>4 DEF Lo
  <2>. QED
    BY <1>0, <2>3, <2>4, <2>5 DEF HeapIInv
<1>7. CASE \E n \in 0..(Capacity - Len(a)) : \E vs \in [1..n -> Values] :
             extend(vs)
  <2>1. PICK n \in 0..(Capacity - Len(a)) : \E vs \in [1..n -> Values] :
             extend(vs)
    BY <1>7
  <2>2. PICK vs \in [1..n -> Values] : extend(vs)
    BY <2>1
  <2>3. pc' = "build" /\ k' = Len(a') \div 2
    BY <2>2 DEF extend
  <2>4. BuildInv(a', k')
    BY <1>a, <2>3, BuildStart
  <2>. QED
    BY <1>0, <2>3, <2>4 DEF HeapIInv
<1>8. CASE build_step
  <2>1. k - 1 \in Nat /\ BuildInv(a, (k - 1) + 1)
    BY <1>a, <1>8 DEF build_step, HeapIInv
  <2>2. DownInv(a, k - 1, k - 1)
    BY <1>a, <2>1, BuildEnter
  <2>3. pc' = "heapify" /\ Lo' = k - 1 /\ cur' = k - 1 /\ a' = a
    BY <1>8 DEF build_step, Lo
  <2>. QED
    BY <1>0, <2>2, <2>3 DEF HeapIInv
<1>9. CASE build_done
  <2>1. BuildInv(a, 0)
    BY <1>9 DEF build_done, HeapIInv
  <2>2. HeapOrdered(a, Len(a))
    BY <1>a, <2>1, BuildInvZero
  <2>. QED
    BY <1>0, <1>9, <2>2 DEF build_done, HeapIInv
<1>10. CASE peek_mut
  <2>1. DownInv(a, 0, 0)
    BY <1>10, PopReady DEF peek_mut
  <2>. QED
    BY <1>0, <1>10, <2>1 DEF peek_mut, HeapIInv
<1>11. CASE \E v \in Values : guard_write(v)
  <2>1. PICK v \in Values : guard_write(v)
    BY <1>11
  <2>2. a # <<>> /\ v \in Int /\ DownInv(a, 0, 0)
    BY <2>1, ValuesAssumption DEF guard_write, HeapIInv, TypeInv
  <2>3. DownInv(a', 0, 0)
    BY <1>a, <2>1, <2>2, RootWrite DEF guard_write
  <2>. QED
    BY <1>0, <2>1, <2>3 DEF guard_write, HeapIInv
<1>12. CASE guard_drop
  <2>1. DownInv(a, 0, 0)
    BY <1>12 DEF guard_drop, HeapIInv
  <2>2. pc' = "heapify" /\ Lo' = 0 /\ cur' = 0 /\ a' = a
    BY <1>12 DEF guard_drop, Lo
  <2>. QED
    BY <1>0, <2>1, <2>2 DEF HeapIInv
<1>13. CASE clear \/ drain
  <2>1. a' = <<>> /\ pc' = "idle"
    BY <1>13 DEF clear, drain
  <2>2. HeapOrdered(a', Len(a'))
    BY <2>1 DEF HeapOrdered
  <2>. QED
    BY <1>0, <2>1, <2>2 DEF HeapIInv
<1>14. CASE drain_sorted \/ iter_drop \/ drop_done
  <2>1. pc \in {"idle", "iter", "iter_drop"} /\ pc' \in {"iter", "iter_drop", "idle"}
        /\ a' = a
    BY <1>14 DEF drain_sorted, iter_drop, drop_done
  <2>. QED
    BY <1>0, <2>1 DEF HeapIInv
<1>15. CASE UNCHANGED vars
  BY <1>0, <1>15 DEF vars, HeapIInv, Lo
<1>16. CASE \E v \in Values : push(v)
  BY <1>1, <1>16 DEF push
<1>. QED
  BY <1>1, <1>2, <1>3, <1>4, <1>5, <1>6, <1>7, <1>8, <1>9, <1>10, <1>11,
     <1>12, <1>13, <1>14, <1>15, <1>16 DEF Next, Internal

(***************************************************************************)
(* The heap invariant for every capacity and every set of values: between *)
(* calls, and while a DrainSorted is live, the Vec is in max-heap order   *)
(* (try_push's sift-up, pop's swap_remove and heapify, build-heap after   *)
(* From<Vec> and Extend, and PeekMut's drop each restore it).             *)
(***************************************************************************)
THEOREM HeapInvariant == Spec => []HeapInv
<1>1. Init => HeapIInv
  BY HeapIInvInit
<1>2. HeapIInv /\ [Next]_vars => HeapIInv'
  BY HeapIInvNext
<1>3. HeapIInv => HeapInv
  BY DEF HeapIInv, HeapInv
<1>. QED
  BY <1>1, <1>2, <1>3, PTL DEF Spec


(***************************************************************************)
(* Max extraction for every capacity and every set of values: pop,        *)
(* DrainSorted's next() and each turn of its Drop take an element at least *)
(* as great as every element of the heap, because each starts from a heap *)
(* in max-heap order (HeapInvariant) whose root is a maximum (RootMax).   *)
(***************************************************************************)
THEOREM MaxExtraction == Spec => PopReturnsMax
<1>1. ASSUME HeapInv, TypeOK, pop \/ iter_next \/ drop_step
      PROVE  \A j \in 1..Len(a) : a[1] >= a[j]
  <2>1. pc \in {"idle", "iter", "iter_drop"}
    BY <1>1 DEF pop, iter_next, drop_step
  <2>2. HeapOrdered(a, Len(a))
    BY <1>1, <2>1 DEF HeapInv
  <2>3. a \in Seq(Int) /\ Len(a) \in Nat
    BY <1>1, ValuesAssumption, SeqMonotonic, LenProperties DEF TypeOK
  <2>4. \A i \in 0..(Len(a) - 1) : At(a, 0) >= At(a, i)
    BY <2>2, <2>3, RootMax
  <2>. TAKE j \in 1..Len(a)
  <2>5. j - 1 \in 0..(Len(a) - 1)
    BY <2>3
  <2>. QED
    BY <2>4, <2>5 DEF At
<1>2. HeapInv /\ TypeOK => [pop \/ iter_next \/ drop_step
                             => \A j \in 1..Len(a) : a[1] >= a[j]]_vars
  BY <1>1
<1>. QED
  BY <1>2, HeapInvariant, TypeCorrect, PTL DEF PopReturnsMax

=============================================================================
