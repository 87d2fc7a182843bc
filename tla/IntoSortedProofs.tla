-------------------------- MODULE IntoSortedProofs --------------------------
(***************************************************************************)
(* Proofs about the conversions that consume a heap, for every set of     *)
(* values and every capacity: into_sorted_vec returns the heap's elements *)
(* in ascending order, and IntoIterSorted yields them in descending order, *)
(* by next() and by its Drop alike.                                        *)
(***************************************************************************)
EXTENDS IntoSorted, HeapOrderProofs

-----------------------------------------------------------------------------
(***************************************************************************)
(* The inductive invariant.  The sort loop keeps a heap in the prefix      *)
(* a[..k] and a sorted suffix a[k..] none of whose elements is smaller     *)
(* than one in the prefix; each heapify it calls works on the prefix only. *)
(* The iterator keeps the whole Vec a heap and the IterSortedContract      *)
(* clauses, inside the heapify of each of its pops too.                    *)
(***************************************************************************)
\* The sort loop is running: between two turns or inside one's heapify
InSort == pc = "sort" \/ (pc = "heapify" /\ caller = "sort")

\* An IntoIterSorted is live, or its Drop has emptied the heap
InIter ==
  \/ pc \in {"iter", "iter_drop", "done"}
  \/ pc = "heapify" /\ caller # "sort"

\* The slice heapify works on, a[..HeapLen]
Prefix == SubSeq(a, 1, HeapLen)

\* Slots k + 1 .. Len(a) (1-based) hold the sorted suffix
SortedTail == \A i, j \in (k + 1)..Len(a) : i < j => a[i] <= a[j]

\* No element of the heap prefix exceeds one of the sorted suffix
Partition == \A i \in 1..k, j \in (k + 1)..Len(a) : a[i] <= a[j]

\* a holds the original elements, each as often
SameElems == \A v \in Values : Occurrences(a, v) = Occurrences(orig, v)

\* The clauses of IterSortedContract
Descending == \A i \in 1..(Len(out) - 1) : out[i] >= out[i + 1]

Dominates == \A i \in 1..Len(out), j \in 1..Len(a) : out[i] >= a[j]

Conserves ==
  \A v \in Values :
    Occurrences(a, v) + Occurrences(out, v) = Occurrences(orig, v)

IInv ==
  /\ TypeOK
  /\ Len(out) + Len(a) = Len(orig) /\ Len(orig) <= Capacity
  /\ pc = "heap" => a = orig /\ out = <<>> /\ HeapOrdered(a, Len(a))
  /\ InSort => k <= Len(a) /\ SortedTail /\ Partition /\ SameElems
  /\ pc = "sort" => HeapOrdered(a, k)
  /\ pc = "heapify" /\ caller = "sort" => DownInv(Prefix, 0, cur)
  /\ pc = "sorted" => IsSorted(a, <=) /\ SameElems
  /\ pc \in {"iter", "iter_drop", "done"} => HeapOrdered(a, Len(a))
  /\ pc = "heapify" /\ caller # "sort" => DownInv(a, 0, cur)
  /\ InIter => Descending /\ Dominates /\ Conserves

\* The sequences of the model hold integers
LEMMA IntsI ==
  ASSUME TypeOK
  PROVE  /\ a \in Seq(Int) /\ orig \in Seq(Int) /\ out \in Seq(Int)
         /\ Len(a) \in Nat /\ Len(orig) \in Nat /\ Len(out) \in Nat
         /\ k \in Nat /\ cur \in Nat /\ Capacity \in Nat
<1>1. /\ a \in Seq(Values) /\ orig \in Seq(Values) /\ out \in Seq(Values)
      /\ k \in 0..Capacity /\ cur \in 0..Capacity
  BY DEF TypeOK
<1>2. a \in Seq(Int) /\ orig \in Seq(Int) /\ out \in Seq(Int)
  BY <1>1, ConsumedValuesAssumption, SeqMonotonic
<1>. QED
  BY <1>1, <1>2, ConsumedCapacityAssumption, LenProperties

LEMMA IInvInit == Init => IInv
<1> SUFFICES ASSUME Init PROVE IInv
  OBVIOUS
<1>1. PICK n \in 0..Capacity : \E s \in [1..n -> Values] :
        HeapOrdered(s, n) /\ a = s
  BY DEF Init
<1>2. a \in Seq(Values) /\ Len(a) = n /\ HeapOrdered(a, Len(a))
  BY <1>1, ConsumedCapacityAssumption
<1>3. /\ orig = a /\ pc = "heap" /\ caller = "sort" /\ k = 0 /\ cur = 0
      /\ out = <<>>
  BY DEF Init
<1>4. TypeOK
  BY <1>1, <1>2, <1>3, ConsumedCapacityAssumption DEF TypeOK, PCs
<1>. QED
  BY <1>1, <1>2, <1>3, <1>4 DEF IInv, InSort, InIter

\* A pop moves one element from the heap to what the iterator yielded
LEMMA PopLengths ==
  ASSUME NEW p \in Nat, NEW q \in Nat, NEW r \in Nat,
         NEW p2, NEW q2, NEW C \in Nat,
         p + q = r, r <= C, q <= C, p2 = p + 1, q2 = q - 1, q2 \in Nat
  PROVE  p2 + q2 = r /\ q2 <= C /\ p2 <= C
OBVIOUS

\* The type, and the lengths: what the iterator took and what is left make
\* up the Vec the heap had
LEMMA ITypeNext ==
  ASSUME IInv, [Next]_vars
  PROVE  /\ TypeOK'
         /\ Len(out') + Len(a') = Len(orig') /\ Len(orig') <= Capacity
<1>0. /\ a \in Seq(Int) /\ orig \in Seq(Int) /\ out \in Seq(Int)
      /\ Len(a) \in Nat /\ Len(orig) \in Nat /\ Len(out) \in Nat
      /\ k \in Nat /\ cur \in Nat /\ Capacity \in Nat
  BY IntsI DEF IInv
<1>1. /\ TypeOK /\ Len(out) + Len(a) = Len(orig) /\ Len(orig) <= Capacity
  BY DEF IInv
<1>2. CASE into_vec \/ into_iter \/ into_iter_sorted \/ iter_drop
           \/ sort_done \/ drop_done \/ heapify_return
  <2>1. pc' \in PCs /\ UNCHANGED <<a, orig, caller, k, cur, out>>
    BY <1>2 DEF into_vec, into_iter, into_iter_sorted, iter_drop, sort_done,
                drop_done, heapify_return, IInv, TypeOK, PCs
  <2>. QED
    BY <1>1, <2>1 DEF TypeOK
<1>3. CASE into_sorted_vec
  BY <1>0, <1>1, <1>3 DEF into_sorted_vec, TypeOK, PCs
<1>4. CASE sort_step
  <2>1. k <= Len(a) /\ k > 1
    BY <1>4 DEF sort_step, IInv, InSort
  <2>2. 0 \in 0..(Len(a) - 1) /\ k - 1 \in 0..(Len(a) - 1)
    BY <1>0, <2>1
  <2>3. a' \in Seq(Values) /\ Len(a') = Len(a)
    BY <1>1, <1>4, <2>2, SwapType DEF sort_step, TypeOK
  <2>4. /\ k' \in 0..Capacity /\ cur' \in 0..Capacity
        /\ pc' \in PCs /\ caller' \in {"sort", "iter", "iter_drop"}
        /\ orig' = orig /\ out' = out
    BY <1>0, <1>1, <1>4, <2>1 DEF sort_step, TypeOK, PCs
  <2>. QED
    BY <1>1, <2>3, <2>4 DEF TypeOK
<1>5. CASE heapify_step
  <2> DEFINE g == largest(a, HeapLen, cur)
  <2>1. HeapLen \in Nat /\ HeapLen <= Len(a)
    BY <1>0, <1>5 DEF heapify_step, HeapLen, IInv, InSort
  <2>2. g # cur
    BY <1>5 DEF heapify_step
  <2>3. g < HeapLen /\ cur < g /\ g \in Nat
    <3>1. g \in {left(cur), right(cur)} /\ g < HeapLen /\ cur < g
      BY <1>0, <2>1, <2>2, LargestInRange
    <3>2. left(cur) \in Nat /\ right(cur) \in Nat
      BY <1>0 DEF left, right
    <3>. QED
      BY <3>1, <3>2
  <2>4. cur \in 0..(Len(a) - 1) /\ g \in 0..(Len(a) - 1)
    BY <1>0, <2>1, <2>3
  <2>5. a' \in Seq(Values) /\ Len(a') = Len(a)
    BY <1>1, <1>5, <2>4, SwapType DEF heapify_step, TypeOK
  <2>. QED
    BY <1>0, <1>1, <1>5, <2>3, <2>4, <2>5 DEF heapify_step, TypeOK
<1>6. CASE next \/ drop_step
  <2>1. PICK c \in {"iter", "iter_drop"} : a # <<>> /\ Pop(c)
    BY <1>6 DEF next, drop_step
  <2>2. a \in Seq(Values) /\ a[1] \in Values /\ Len(a) >= 1
    BY <1>0, <1>1, <2>1, EmptySeq DEF TypeOK
  <2>3. a' \in Seq(Values) /\ Len(a') = Len(a) - 1
    BY <2>1, <2>2, SwapRemoveType DEF Pop
  <2>4. out' \in Seq(Values) /\ Len(out') = Len(out) + 1
    BY <1>1, <2>1, <2>2, AppendProperties DEF Pop, At, TypeOK
  <2>5. /\ k' \in 0..Capacity /\ cur' \in 0..Capacity
        /\ pc' \in PCs /\ caller' \in {"sort", "iter", "iter_drop"}
        /\ orig' = orig
    <3>1. caller' = c /\ pc' = "heapify" /\ cur' = 0 /\ k' = k /\ orig' = orig
      BY <2>1, Zenon DEF Pop
    <3>2. k' \in 0..Capacity /\ cur' \in 0..Capacity
      BY <1>1, <3>1, ConsumedCapacityAssumption DEF TypeOK
    <3>3. pc' \in PCs
      BY <3>1 DEF PCs
    <3>4. caller' \in {"sort", "iter", "iter_drop"}
      BY <2>1, <3>1
    <3>. QED
      BY <3>1, <3>2, <3>3, <3>4
  <2>6. Len(out') + Len(a') = Len(orig) /\ Len(a') <= Capacity
        /\ Len(out') <= Capacity
    <3>1. Len(a') \in Nat /\ Len(a) <= Capacity
      BY <1>1, <2>3, LenProperties DEF TypeOK
    <3>2. Len(out) + Len(a) = Len(orig) /\ Len(orig) <= Capacity
      BY <1>1
    <3>. QED
      BY <1>0, <2>3, <2>4, <3>1, <3>2, PopLengths
  <2>. QED
    BY <1>1, <2>3, <2>4, <2>5, <2>6 DEF TypeOK
<1>7. CASE UNCHANGED vars
  BY <1>1, <1>7 DEF vars, TypeOK
<1>. QED
  BY <1>2, <1>3, <1>4, <1>5, <1>6, <1>7 DEF Next, Internal

-----------------------------------------------------------------------------
(* The sort loop.                                                          *)

\* A swap of two slots of the prefix a[..n] leaves the suffix as it was and
\* moves only prefix elements within the prefix, so the suffix stays sorted
\* and no prefix element comes to exceed a suffix element
LEMMA SwapInPrefix ==
  ASSUME NEW s \in Seq(Int), NEW n \in 0..Len(s),
         NEW i \in 0..(n - 1), NEW j \in 0..(n - 1),
         \A x, y \in (n + 1)..Len(s) : x < y => s[x] <= s[y],
         \A x \in 1..n, y \in (n + 1)..Len(s) : s[x] <= s[y]
  PROVE  LET t == Swap(s, i, j)
         IN  /\ t \in Seq(Int) /\ Len(t) = Len(s)
             /\ \A x, y \in (n + 1)..Len(t) : x < y => t[x] <= t[y]
             /\ \A x \in 1..n, y \in (n + 1)..Len(t) : t[x] <= t[y]
<1> DEFINE t == Swap(s, i, j)
<1>1. i \in 0..(Len(s) - 1) /\ j \in 0..(Len(s) - 1)
  OBVIOUS
<1>2. t \in Seq(Int) /\ Len(t) = Len(s)
  BY <1>1, SwapType
<1>3. \A y \in (n + 1)..Len(s) : t[y] = s[y]
  BY <1>1, SwapElem
<1>4. \A x \in 1..n : \E z \in 1..n : t[x] = s[z]
  <2> TAKE x \in 1..n
  <2>1. t[x] = IF x = i + 1 THEN s[j + 1] ELSE IF x = j + 1 THEN s[i + 1] ELSE s[x]
    BY <1>1, SwapElem
  <2>. QED
    BY <2>1
<1>. QED
  BY <1>2, <1>3, <1>4

\* The root of a heap in a[..n] is no smaller than any element of it
LEMMA PrefixTop ==
  ASSUME NEW s \in Seq(Int), NEW n \in 1..Len(s), HeapOrdered(s, n)
  PROVE  \A z \in 1..n : s[1] >= s[z]
<1> DEFINE p == SubSeq(s, 1, n)
<1>1. p \in Seq(Int) /\ Len(p) = n /\ \A y \in 1..n : p[y] = s[y]
  BY PrefixProps
<1>2. HeapOrdered(p, Len(p))
  BY <1>1, PrefixHeapOrdered
<1>3. \A x \in 0..(n - 1) : At(p, 0) >= At(p, x)
  BY <1>1, <1>2, RootMax
<1> TAKE z \in 1..n
<1>4. z - 1 \in 0..(n - 1) /\ 1 \in 1..n /\ (z - 1) + 1 = z
  OBVIOUS
<1>5. p[1] >= p[z]
  BY <1>3, <1>4 DEF At
<1>. QED
  BY <1>1, <1>4, <1>5

\* With k <= 1 the prefix has at most one slot, so the Vec is sorted
LEMMA SortedAtEnd ==
  ASSUME NEW s \in Seq(Int), NEW n \in 0..1, n <= Len(s),
         \A x, y \in (n + 1)..Len(s) : x < y => s[x] <= s[y],
         \A x \in 1..n, y \in (n + 1)..Len(s) : s[x] <= s[y]
  PROVE  IsSorted(s, <=)
<1> SUFFICES ASSUME NEW x \in 1..Len(s), NEW y \in 1..Len(s), x < y
             PROVE  s[x] <= s[y]
  BY DEF IsSorted
<1>1. CASE x <= n
  BY <1>1
<1>2. CASE x > n
  BY <1>2
<1>. QED
  BY <1>1, <1>2

\* A turn of the sort loop, swap(0, i) and the call of heapify on a[..i]:
\* the root of the prefix heap is its largest element and no greater than
\* the suffix, so it extends the sorted suffix by one slot; what swap moved
\* to the root is where swap_remove would have put it, so the shortened
\* prefix is a heap apart from the root heapify starts from
LEMMA SortStepInv ==
  ASSUME IInv, sort_step
  PROVE  IInv'
<1> DEFINE n == Len(a)
           t == Swap(a, 0, k - 1)
           P == SubSeq(a, 1, k)
<1>0. TypeOK' /\ Len(out') + Len(a') = Len(orig') /\ Len(orig') <= Capacity
  BY ITypeNext DEF Next, Internal
<1>1. a \in Seq(Int) /\ n \in Nat /\ k \in Nat
  BY IntsI DEF IInv
<1>2. /\ k <= n /\ k > 1 /\ SortedTail /\ Partition /\ SameElems
      /\ HeapOrdered(a, k)
  BY DEF IInv, InSort, sort_step
<1>3. /\ a' = t /\ k' = k - 1 /\ cur' = 0 /\ caller' = "sort"
      /\ pc' = "heapify" /\ orig' = orig /\ out' = out
  BY DEF sort_step
<1>4. 0 \in 0..(n - 1) /\ k - 1 \in 0..(n - 1) /\ k \in 1..n
  BY <1>1, <1>2
<1>5. /\ t \in Seq(Int) /\ Len(t) = n
      /\ t[1] = a[k] /\ t[k] = a[1]
      /\ \A y \in 2..n \ {k} : t[y] = a[y]
  <2>1. t \in Seq(Int) /\ Len(t) = n
    BY <1>1, <1>4, SwapType
  <2>2. \A y \in 1..n : t[y] = IF y = 0 + 1 THEN a[(k - 1) + 1]
                             ELSE IF y = (k - 1) + 1 THEN a[0 + 1] ELSE a[y]
    BY <1>1, <1>4, SwapElem
  <2>3. t[1] = a[k] /\ t[k] = a[1]
    BY <1>1, <1>2, <1>4, <2>2
  <2>4. \A y \in 2..n \ {k} : t[y] = a[y]
    <3> TAKE y \in 2..n \ {k}
    <3>1. y \in 1..n /\ y # 0 + 1 /\ y # (k - 1) + 1
      BY <1>1
    <3>. QED
      BY <2>2, <3>1
  <2>. QED
    BY <2>1, <2>3, <2>4
<1>6. \A z \in 1..k : a[1] >= a[z]
  BY <1>1, <1>2, <1>4, PrefixTop
<1>7. SortedTail'
  <2> SUFFICES ASSUME NEW x \in k..n, NEW y \in k..n, x < y
               PROVE  t[x] <= t[y]
    BY <1>1, <1>3, <1>5 DEF SortedTail
  <2>1. y \in 2..n \ {k} /\ y \in (k + 1)..n
    BY <1>1, <1>2
  <2>5. t[y] = a[y]
    BY <1>5, <2>1
  <2>2. CASE x = k
    <3>1. t[x] = a[1]
      BY <1>1, <1>2, <1>5, <2>2
    <3>. QED
      BY <1>1, <1>2, <2>1, <2>5, <3>1 DEF Partition
  <2>3. CASE x > k
    <3>1. x \in 2..n \ {k}
      BY <1>1, <1>2, <2>3
    <3>2. t[x] = a[x]
      BY <1>5, <3>1
    <3>. QED
      BY <1>1, <1>2, <2>1, <2>3, <2>5, <3>2 DEF SortedTail
  <2>. QED
    BY <1>1, <2>2, <2>3
<1>8. Partition'
  <2> SUFFICES ASSUME NEW x \in 1..(k - 1), NEW y \in k..n
               PROVE  t[x] <= t[y]
    BY <1>1, <1>3, <1>5 DEF Partition
  <2>1. PICK z \in 1..k : t[x] = a[z]
    <3>1. CASE x = 1
      BY <1>1, <1>2, <1>5, <3>1
    <3>2. CASE x # 1
      <4>1. x \in 2..n \ {k}
        BY <1>1, <1>2, <3>2
      <4>2. t[x] = a[x] /\ x \in 1..k
        BY <1>1, <1>5, <4>1
      <4>. QED
        BY <4>2
    <3>. QED
      BY <3>1, <3>2
  <2>2. CASE y = k
    BY <1>1, <1>2, <1>5, <1>6, <2>1, <2>2
  <2>3. CASE y > k
    <3>0. y \in 2..n \ {k} /\ y \in (k + 1)..n
      BY <1>1, <1>2, <2>3
    <3>1. t[y] = a[y] /\ y \in (k + 1)..n
      BY <1>5, <3>0
    <3>. QED
      BY <1>1, <1>2, <2>1, <3>1 DEF Partition
  <2>. QED
    BY <1>1, <2>2, <2>3
<1>9. SameElems'
  BY <1>1, <1>2, <1>3, <1>4, OccSwap DEF SameElems
<1>10. DownInv(Prefix', 0, cur')
  <2>1. Prefix' = swap_remove_first(P)
    <3>1. Prefix' = SubSeq(t, 1, k - 1)
      BY <1>3 DEF Prefix, HeapLen
    <3>. QED
      BY <1>1, <1>4, <3>1, PrefixSwapRemove
  <2>2. P \in Seq(Int) /\ Len(P) = k /\ P # <<>>
    BY <1>1, <1>4, PrefixProps
  <2>3. HeapOrdered(P, Len(P))
    BY <1>1, <1>2, <1>4, <2>2, PrefixHeapOrdered
  <2>4. DownInv(P, 0, 0)
    BY <2>2, <2>3, HeapToDown
  <2>. QED
    BY <1>3, <2>1, <2>2, <2>4, PopStart
<1>11. k' <= Len(a')
  BY <1>1, <1>2, <1>3, <1>5
<1>. QED
  BY <1>0, <1>3, <1>7, <1>8, <1>9, <1>10, <1>11 DEF IInv, InSort, InIter

\* One recursion of heapify(&mut a[..i], cur) inside the sort loop: on the
\* prefix it is a sift-down step, and it leaves the suffix alone
LEMMA SortHeapifyStepInv ==
  ASSUME IInv, heapify_step, caller = "sort"
  PROVE  IInv'
<1> DEFINE n == Len(a)
           P == SubSeq(a, 1, k)
           g == largest(a, k, cur)
<1>0. TypeOK' /\ Len(out') + Len(a') = Len(orig') /\ Len(orig') <= Capacity
  BY ITypeNext DEF Next, Internal
<1>1. a \in Seq(Int) /\ n \in Nat /\ k \in Nat /\ cur \in Nat
  BY IntsI DEF IInv
<1>2. /\ pc = "heapify" /\ k <= n /\ SortedTail /\ Partition /\ SameElems
      /\ DownInv(P, 0, cur)
  BY DEF IInv, InSort, heapify_step, Prefix, HeapLen
<1>3. /\ a' = Swap(a, cur, g) /\ cur' = g /\ g # cur
      /\ UNCHANGED <<orig, pc, caller, k, out>>
  BY DEF heapify_step, HeapLen
<1>4. P \in Seq(Int) /\ Len(P) = k
  BY <1>1, <1>2, PrefixProps
<1>5. g = largest(P, Len(P), cur)
  BY <1>1, <1>2, <1>4, PrefixLargest
<1>6. g < k /\ cur < g /\ g \in Nat
  <2>1. g \in {left(cur), right(cur)} /\ g < k /\ cur < g
    BY <1>1, <1>3, LargestInRange
  <2>2. left(cur) \in Nat /\ right(cur) \in Nat
    BY <1>1 DEF left, right
  <2>. QED
    BY <2>1, <2>2
<1>7. cur \in 0..(k - 1) /\ g \in 0..(k - 1) /\ k \in 0..n
  BY <1>1, <1>2, <1>6
<1>8. DownInv(Swap(P, cur, g), 0, g)
  <2>1. 0 \in Nat /\ 0 <= cur /\ (cur > 0 => parent(cur) >= 0)
    BY <1>1, ParentFacts
  <2>2. largest(P, Len(P), cur) # cur
    BY <1>3, <1>5
  <2>3. DownInv(Swap(P, cur, largest(P, Len(P), cur)), 0,
                largest(P, Len(P), cur))
    BY <1>1, <1>2, <1>4, <2>1, <2>2, SiftDownStep, Zenon
  <2>. QED
    BY <1>5, <2>3
<1>9. Prefix' = Swap(P, cur, g)
  <2>1. Prefix' = SubSeq(Swap(a, cur, g), 1, k)
    BY <1>3 DEF Prefix, HeapLen
  <2>. QED
    BY <1>1, <1>7, <2>1, PrefixSwap
<1>10. /\ a' \in Seq(Int) /\ Len(a') = n
       /\ \A x, y \in (k + 1)..Len(a') : x < y => a'[x] <= a'[y]
       /\ \A x \in 1..k, y \in (k + 1)..Len(a') : a'[x] <= a'[y]
  BY <1>1, <1>2, <1>3, <1>7, SwapInPrefix DEF SortedTail, Partition
<1>11. SameElems'
  <2>1. cur \in 0..(n - 1) /\ g \in 0..(n - 1)
    BY <1>1, <1>7
  <2>. QED
    BY <1>1, <1>2, <1>3, <2>1, OccSwap DEF SameElems
<1>. QED
  BY <1>0, <1>3, <1>8, <1>9, <1>10, <1>11, <1>2
  DEF IInv, InSort, InIter, SortedTail, Partition

\* heapify(&mut a[..i], cur) returns to the sort loop with a heap in a[..i]
LEMMA SortHeapifyReturnInv ==
  ASSUME IInv, heapify_return, caller = "sort"
  PROVE  IInv'
<1> DEFINE n == Len(a)
           P == SubSeq(a, 1, k)
<1>0. TypeOK' /\ Len(out') + Len(a') = Len(orig') /\ Len(orig') <= Capacity
  BY ITypeNext DEF Next, Internal
<1>1. a \in Seq(Int) /\ n \in Nat /\ k \in Nat /\ cur \in Nat
  BY IntsI DEF IInv
<1>2. /\ pc = "heapify" /\ k <= n /\ SortedTail /\ Partition /\ SameElems
      /\ DownInv(P, 0, cur) /\ largest(a, k, cur) = cur
  BY DEF IInv, InSort, heapify_return, Prefix, HeapLen
<1>3. pc' = "sort" /\ UNCHANGED <<a, orig, caller, k, cur, out>>
  BY DEF heapify_return
<1>4. P \in Seq(Int) /\ Len(P) = k /\ k \in 0..n
  BY <1>1, <1>2, PrefixProps
<1>5. largest(P, Len(P), cur) = cur
  BY <1>1, <1>2, <1>4, PrefixLargest
<1>6. HeapOrdered(P, Len(P))
  BY <1>1, <1>2, <1>4, <1>5, SiftDownDone, BuildInvZero
<1>7. HeapOrdered(a, k)
  BY <1>1, <1>4, <1>6, PrefixHeapOrdered
<1>. QED
  BY <1>0, <1>2, <1>3, <1>7
  DEF IInv, InSort, InIter, SortedTail, Partition, SameElems

\* The sort loop ends with k <= 1: the Vec is sorted and is a permutation of
\* the heap's
LEMMA SortDoneInv ==
  ASSUME IInv, sort_done
  PROVE  IInv'
<1>0. TypeOK' /\ Len(out') + Len(a') = Len(orig') /\ Len(orig') <= Capacity
  BY ITypeNext DEF Next, Internal
<1>1. a \in Seq(Int) /\ Len(a) \in Nat /\ k \in Nat
  BY IntsI DEF IInv
<1>2. /\ pc = "sort" /\ k <= 1 /\ k <= Len(a)
      /\ SortedTail /\ Partition /\ SameElems
  BY DEF IInv, InSort, sort_done
<1>3. pc' = "sorted" /\ UNCHANGED <<a, orig, caller, k, cur, out>>
  BY DEF sort_done
<1>4. IsSorted(a, <=)
  <2>1. k \in 0..1 /\ k <= Len(a)
    BY <1>1, <1>2
  <2>. QED
    BY <1>1, <1>2, <2>1, SortedAtEnd DEF SortedTail, Partition
<1>5. IsSorted(a', <=) /\ SameElems'
  BY <1>2, <1>3, <1>4 DEF SameElems
<1>. QED
  BY <1>0, <1>3, <1>5 DEF IInv, InSort, InIter, IsSorted

\* into_sorted_vec starts the loop at i = len: the whole Vec is the heap
\* prefix, the suffix is empty
LEMMA IntoSortedVecInv ==
  ASSUME IInv, into_sorted_vec
  PROVE  IInv'
<1>0. TypeOK' /\ Len(out') + Len(a') = Len(orig') /\ Len(orig') <= Capacity
  BY ITypeNext DEF Next
<1>1. a \in Seq(Int) /\ Len(a) \in Nat
  BY IntsI DEF IInv
<1>2. pc = "heap" /\ a = orig /\ HeapOrdered(a, Len(a))
  BY DEF IInv, into_sorted_vec
<1>3. /\ pc' = "sort" /\ k' = Len(a)
      /\ UNCHANGED <<a, orig, caller, cur, out>>
  BY DEF into_sorted_vec
<1>4. (SortedTail /\ Partition /\ SameElems)'
  BY <1>1, <1>2, <1>3 DEF SortedTail, Partition, SameElems
<1>. QED
  BY <1>0, <1>1, <1>2, <1>3, <1>4 DEF IInv, InSort, InIter

-----------------------------------------------------------------------------
(* IntoIterSorted.                                                         *)

\* A pop by next() or by the Drop: the root it yields is the heap's largest
\* element, so no greater than what was yielded before and no smaller than
\* what stays; swap_remove(0) leaves a heap apart from the root heapify
\* starts from
LEMMA IterPopInv ==
  ASSUME IInv, next \/ drop_step
  PROVE  IInv'
<1> DEFINE r == At(a, 0)
           n == Len(a)
           d == Len(out)
<1>0. TypeOK' /\ Len(out') + Len(a') = Len(orig') /\ Len(orig') <= Capacity
  BY ITypeNext DEF Next, Internal
<1>1. /\ a \in Seq(Int) /\ out \in Seq(Int) /\ orig \in Seq(Int)
      /\ n \in Nat /\ d \in Nat
  BY IntsI DEF IInv
<1>2. PICK c \in {"iter", "iter_drop"} : pc = c /\ a # <<>> /\ Pop(c)
  BY DEF next, drop_step
<1>3. /\ a' = swap_remove_first(a) /\ out' = Append(out, r)
      /\ pc' = "heapify" /\ caller' = c /\ cur' = 0 /\ orig' = orig
  BY <1>2, Zenon DEF Pop
<1>4. HeapOrdered(a, n) /\ Descending /\ Dominates /\ Conserves
  BY <1>2 DEF IInv, InIter
<1>5. n \in Nat \ {0} /\ r = a[1] /\ r \in Int
  BY <1>1, <1>2, EmptySeq DEF At
<1>6. \A j \in 1..n : r >= a[j]
  <2>1. \A x \in 0..(n - 1) : At(a, 0) >= At(a, x)
    BY <1>1, <1>4, RootMax
  <2>. TAKE j \in 1..n
  <2>2. j - 1 \in 0..(n - 1)
    BY <1>5
  <2>. QED
    BY <2>1, <2>2 DEF At
<1>7. /\ Len(out') = d + 1
      /\ \A i \in 1..d : out'[i] = out[i]
      /\ out'[d + 1] = r
  BY <1>1, <1>3, <1>5, AppendProperties
<1>8. Descending'
  <2> SUFFICES ASSUME NEW i \in 1..(Len(out') - 1)
               PROVE  out'[i] >= out'[i + 1]
    BY DEF Descending
  <2>1. CASE i < d
    <3>0. i \in 1..(d - 1) /\ i \in 1..d /\ i + 1 \in 1..d
      BY <1>1, <1>7, <2>1
    <3>1. out[i] >= out[i + 1]
      BY <1>4, <3>0 DEF Descending
    <3>. QED
      BY <1>7, <3>0, <3>1
  <2>2. CASE i = d
    <3>1. out[d] >= a[1]
      BY <1>1, <1>4, <1>5, <1>7, <2>2 DEF Dominates
    <3>. QED
      BY <1>1, <1>5, <1>7, <2>2, <3>1
  <2>. QED
    BY <1>1, <1>7, <2>1, <2>2
<1>9. Dominates'
  <2> SUFFICES ASSUME NEW i \in 1..Len(out')
               PROVE  \A j \in 1..Len(a') : out'[i] >= a'[j]
    BY DEF Dominates
  <2>1. CASE i \in 1..d
    <3>1. out[i] \in Int /\ \A x \in 1..n : out[i] >= a[x]
      BY <1>1, <1>4, <2>1 DEF Dominates
    <3>2. \A y \in 1..Len(a') : out[i] >= a'[y]
      BY <1>1, <1>2, <1>3, <3>1, SwapRemoveBound
    <3>. QED
      BY <1>7, <2>1, <3>2
  <2>2. CASE i = d + 1
    <3>1. \A y \in 1..Len(a') : r >= a'[y]
      BY <1>1, <1>2, <1>3, <1>5, <1>6, SwapRemoveBound
    <3>. QED
      BY <1>7, <2>2, <3>1
  <2>. QED
    BY <1>1, <1>7, <2>1, <2>2
<1>10. Conserves'
  <2> SUFFICES ASSUME NEW v \in Values
               PROVE  Occurrences(a', v) + Occurrences(out', v)
                        = Occurrences(orig', v)
    BY DEF Conserves
  <2>1. Occurrences(a', v) = Occurrences(a, v) - (IF a[1] = v THEN 1 ELSE 0)
    BY <1>1, <1>2, <1>3, OccSwapRemove
  <2>2. Occurrences(out', v) = Occurrences(out, v) + (IF r = v THEN 1 ELSE 0)
    BY <1>1, <1>3, <1>5, OccAppend
  <2>3. Occurrences(a, v) \in Nat /\ Occurrences(out, v) \in Nat
    BY <1>1, PosFinite
  <2>4. Occurrences(a, v) + Occurrences(out, v) = Occurrences(orig, v)
    BY <1>4 DEF Conserves
  <2>. QED
    BY <1>3, <1>5, <2>1, <2>2, <2>3, <2>4
<1>11. DownInv(a', 0, cur')
  BY <1>1, <1>2, <1>3, <1>4, HeapToDown, PopStart
<1>. QED
  BY <1>0, <1>2, <1>3, <1>8, <1>9, <1>10, <1>11 DEF IInv, InSort, InIter

\* One recursion of pop's heapify(a, cur): a sift-down step on the whole
\* Vec, which only moves elements within the heap
LEMMA IterHeapifyStepInv ==
  ASSUME IInv, heapify_step, caller # "sort"
  PROVE  IInv'
<1> DEFINE n == Len(a)
           g == largest(a, n, cur)
<1>0. TypeOK' /\ Len(out') + Len(a') = Len(orig') /\ Len(orig') <= Capacity
  BY ITypeNext DEF Next, Internal
<1>1. /\ a \in Seq(Int) /\ out \in Seq(Int) /\ n \in Nat /\ cur \in Nat
  BY IntsI DEF IInv
<1>2. /\ pc = "heapify" /\ DownInv(a, 0, cur)
      /\ Descending /\ Dominates /\ Conserves
  BY DEF IInv, InIter, heapify_step
<1>3. /\ a' = Swap(a, cur, g) /\ cur' = g /\ g # cur
      /\ UNCHANGED <<orig, pc, caller, k, out>>
  BY DEF heapify_step, HeapLen
<1>4. cur \in 0..(n - 1) /\ g \in 0..(n - 1)
  <2>1. g \in {left(cur), right(cur)} /\ g < n /\ cur < g
    BY <1>1, <1>3, LargestInRange
  <2>2. left(cur) \in Nat /\ right(cur) \in Nat
    BY <1>1 DEF left, right
  <2>. QED
    BY <1>1, <2>1, <2>2
<1>5. DownInv(a', 0, cur')
  <2>1. 0 \in Nat /\ 0 <= cur /\ (cur > 0 => parent(cur) >= 0)
    BY <1>1, ParentFacts
  <2>2. DownInv(Swap(a, cur, g), 0, g)
    BY <1>1, <1>2, <1>3, <2>1, SiftDownStep, Zenon
  <2>. QED
    BY <1>3, <2>2
<1>6. Dominates'
  <2> SUFFICES ASSUME NEW i \in 1..Len(out)
               PROVE  \A j \in 1..Len(a') : out[i] >= a'[j]
    BY <1>3 DEF Dominates
  <2>1. out[i] \in Int /\ \A x \in 1..n : out[i] >= a[x]
    BY <1>1, <1>2 DEF Dominates
  <2>. QED
    BY <1>1, <1>3, <1>4, <2>1, SwapBound
<1>7. Conserves'
  BY <1>1, <1>2, <1>3, <1>4, OccSwap DEF Conserves
<1>8. Descending'
  BY <1>2, <1>3 DEF Descending
<1>. QED
  BY <1>0, <1>2, <1>3, <1>5, <1>6, <1>7, <1>8 DEF IInv, InSort, InIter

\* pop's heapify returns to next() or to the Drop with a heap again
LEMMA IterHeapifyReturnInv ==
  ASSUME IInv, heapify_return, caller # "sort"
  PROVE  IInv'
<1>0. TypeOK' /\ Len(out') + Len(a') = Len(orig') /\ Len(orig') <= Capacity
  BY ITypeNext DEF Next, Internal
<1>1. a \in Seq(Int) /\ cur \in Nat
  BY IntsI DEF IInv
<1>2. /\ pc = "heapify" /\ DownInv(a, 0, cur) /\ largest(a, Len(a), cur) = cur
      /\ Descending /\ Dominates /\ Conserves
  BY DEF IInv, InIter, heapify_return, HeapLen
<1>3. /\ pc' = caller /\ caller \in {"iter", "iter_drop"}
      /\ UNCHANGED <<a, orig, caller, k, cur, out>>
  BY DEF heapify_return, IInv, TypeOK
<1>4. HeapOrdered(a, Len(a))
  BY <1>1, <1>2, SiftDownDone, BuildInvZero
<1>. QED
  BY <1>0, <1>2, <1>3, <1>4
  DEF IInv, InSort, InIter, Descending, Dominates, Conserves

-----------------------------------------------------------------------------
(* The conversions that only move control, and the whole next state.      *)

\* into_iter_sorted: nothing yielded yet, the heap holds everything
LEMMA IntoIterSortedInv ==
  ASSUME IInv, into_iter_sorted
  PROVE  IInv'
<1>0. TypeOK' /\ Len(out') + Len(a') = Len(orig') /\ Len(orig') <= Capacity
  BY ITypeNext DEF Next
<1>1. a \in Seq(Int)
  BY IntsI DEF IInv
<1>2. pc = "heap" /\ a = orig /\ out = <<>> /\ HeapOrdered(a, Len(a))
  BY DEF IInv, into_iter_sorted
<1>3. pc' = "iter" /\ UNCHANGED <<a, orig, caller, k, cur, out>>
  BY DEF into_iter_sorted
<1>4. \A v \in Values : Occurrences(a, v) + Occurrences(out, v)
                          = Occurrences(orig, v)
  <2> TAKE v \in Values
  <2>1. Occurrences(a, v) \in Nat /\ Occurrences(out, v) = 0
    BY <1>1, <1>2, PosFinite, OccEmpty
  <2>. QED
    BY <1>2, <2>1
<1>5. (Descending /\ Dominates /\ Conserves)'
  BY <1>2, <1>3, <1>4 DEF Descending, Dominates, Conserves
<1>. QED
  BY <1>0, <1>2, <1>3, <1>5 DEF IInv, InSort, InIter

\* The steps that change pc only, and those that change nothing
LEMMA ControlInv ==
  ASSUME IInv,
         \/ into_vec \/ into_iter \/ iter_drop \/ drop_done
         \/ UNCHANGED vars
  PROVE  IInv'
<1>0. TypeOK' /\ Len(out') + Len(a') = Len(orig') /\ Len(orig') <= Capacity
  BY ITypeNext DEF Next, Internal
<1>1. CASE into_vec \/ into_iter
  <2>1. pc' = "vec" /\ UNCHANGED <<a, orig, caller, k, cur, out>>
    BY <1>1 DEF into_vec, into_iter
  <2>. QED
    BY <1>0, <2>1 DEF IInv, InSort, InIter
<1>2. CASE iter_drop
  <2>1. pc = "iter" /\ pc' = "iter_drop"
        /\ UNCHANGED <<a, orig, caller, k, cur, out>>
    BY <1>2 DEF iter_drop
  <2>. QED
    BY <1>0, <2>1 DEF IInv, InSort, InIter, Descending, Dominates, Conserves
<1>3. CASE drop_done
  <2>1. pc = "iter_drop" /\ pc' = "done" /\ a = <<>>
        /\ UNCHANGED <<a, orig, caller, k, cur, out>>
    BY <1>3 DEF drop_done
  <2>2. HeapOrdered(a', Len(a'))
    BY <2>1 DEF HeapOrdered
  <2>. QED
    BY <1>0, <2>1, <2>2 DEF IInv, InSort, InIter, Descending, Dominates, Conserves
<1>4. CASE UNCHANGED vars
  <2>1. /\ a' = a /\ orig' = orig /\ pc' = pc /\ caller' = caller
        /\ k' = k /\ cur' = cur /\ out' = out
    BY <1>4 DEF vars
  <2>. QED
    BY <1>0, <2>1 DEF IInv, InSort, InIter, Prefix, HeapLen, SortedTail,
                      Partition, SameElems, Descending, Dominates, Conserves,
                      IsSorted
<1>. QED
  BY <1>1, <1>2, <1>3, <1>4

LEMMA IInvNext == IInv /\ [Next]_vars => IInv'
<1> SUFFICES ASSUME IInv, [Next]_vars PROVE IInv'
  OBVIOUS
<1>1. CASE heapify_step
  BY <1>1, SortHeapifyStepInv, IterHeapifyStepInv
<1>2. CASE heapify_return
  BY <1>2, SortHeapifyReturnInv, IterHeapifyReturnInv
<1>. QED
  BY <1>1, <1>2, SortStepInv, SortDoneInv, IntoSortedVecInv, IterPopInv,
     IntoIterSortedInv, ControlInv DEF Next, Internal

\* Every state the conversions reach has the variables in their types: the
\* Vec and what IntoIterSorted has yielded hold at most Capacity elements of
\* Values, and the sort loop's counter and heapify's index stay in
\* 0..Capacity
THEOREM IntoSortedTypeCorrect == Spec => []TypeOK
<1>1. Init => IInv
  BY IInvInit
<1>2. IInv /\ [Next]_vars => IInv'
  BY IInvNext
<1>3. IInv => TypeOK
  BY DEF IInv
<1>. QED
  BY <1>1, <1>2, <1>3, PTL DEF Spec

\* into_sorted_vec returns the heap's elements, each as often, in ascending
\* order (SortedVecContract): the heapsort loop of lines 417-425 with its
\* heapify on the shrinking prefix, for every capacity and set of values
THEOREM SortedVecCorrect == Spec => []SortedVecContract
<1>1. Init => IInv
  BY IInvInit
<1>2. IInv /\ [Next]_vars => IInv'
  BY IInvNext
<1>3. IInv => SortedVecContract
  BY DEF IInv, SortedVecContract, SameElems
<1>. QED
  BY <1>1, <1>2, <1>3, PTL DEF Spec

\* IntoIterSorted, by next() and by its Drop, yields in descending order,
\* never less than what it leaves in the heap, and with the heap accounts
\* for every element the heap held (IterSortedContract)
THEOREM IterSortedCorrect == Spec => []IterSortedContract
<1>1. Init => IInv
  BY IInvInit
<1>2. IInv /\ [Next]_vars => IInv'
  BY IInvNext
<1>3. IInv => IterSortedContract
  BY DEF IInv, InIter, IterSortedContract, Descending, Dominates, Conserves
<1>. QED
  BY <1>1, <1>2, <1>3, PTL DEF Spec
=============================================================================
