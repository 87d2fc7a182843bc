-------------------------- MODULE HeapOrderProofs ---------------------------
(***************************************************************************)
(* Lemmas about the operators of HeapOrder, for any sequence of integers:  *)
(* the index arithmetic of the array tree, what slice::swap and            *)
(* Vec::swap_remove(0) leave in each slot, one step of heapify and of the  *)
(* sift-up loop, and how these operations change the number of times a    *)
(* value occurs.  BinaryHeapProofs, DrainSortedProofs and IntoSortedProofs *)
(* cite them.                                                               *)
(***************************************************************************)
EXTENDS HeapOrder, SequenceTheorems, FiniteSetTheorems, WellFoundedInduction,
        TLAPS
-----------------------------------------------------------------------------
(* Lemmas about the index arithmetic and the slice operations of HeapOrder *)

\* parent walks strictly towards the root
LEMMA ParentBelow ==
  ASSUME NEW i \in Nat, i > 0
  PROVE  parent(i) \in 0..(i - 1)
BY DEF parent

\* The children of slot i lie strictly after it
LEMMA ChildrenAbove ==
  ASSUME NEW i \in Nat
  PROVE  /\ left(i) = 2 * i + 1 /\ right(i) = 2 * i + 2
         /\ left(i) > i /\ right(i) > i
BY DEF left, right

\* slice::swap keeps a sequence's length and its element type
LEMMA SwapType ==
  ASSUME NEW S, NEW s \in Seq(S),
         NEW i \in 0..(Len(s) - 1), NEW j \in 0..(Len(s) - 1)
  PROVE  /\ Swap(s, i, j) \in Seq(S)
         /\ Len(Swap(s, i, j)) = Len(s)
BY DEF Swap

\* Vec::swap_remove(0) shortens a non-empty sequence by one
LEMMA SwapRemoveType ==
  ASSUME NEW S, NEW s \in Seq(S), s # <<>>
  PROVE  /\ swap_remove_first(s) \in Seq(S)
         /\ Len(swap_remove_first(s)) = Len(s) - 1
<1>1. Len(s) \in Nat \ {0}
  BY EmptySeq, LenProperties
<1>2. Swap(s, 0, Len(s) - 1) \in Seq(S) /\ Len(Swap(s, 0, Len(s) - 1)) = Len(s)
  BY <1>1, SwapType
<1>. QED
  BY <1>1, <1>2, SubSeqProperties DEF swap_remove_first

\* heapify only swaps with a child inside the slice, which lies after i
LEMMA LargestInRange ==
  ASSUME NEW s, NEW n \in Nat, NEW i \in Nat, largest(s, n, i) # i
  PROVE  /\ largest(s, n, i) \in {left(i), right(i)}
         /\ largest(s, n, i) < n
         /\ i < largest(s, n, i)
BY ChildrenAbove DEF largest

-----------------------------------------------------------------------------
(* The orderings the loops of heapify, sift-up and build-heap keep, on the *)
(* whole of a sequence s                                                  *)
\* Slot j is no greater than its parent
Edge(s, j) == At(s, parent(j)) >= At(s, j)

UpInv(s, c) ==
  /\ \A j \in 1..(Len(s) - 1) : j # c => Edge(s, j)
  /\ c > 0 => \A j \in 1..(Len(s) - 1) :
                parent(j) = c => At(s, parent(c)) >= At(s, j)

DownInv(s, lo, c) ==
  /\ \A j \in 1..(Len(s) - 1) : parent(j) >= lo /\ parent(j) # c => Edge(s, j)
  /\ c > lo => \A j \in 1..(Len(s) - 1) :
                 parent(j) = c => At(s, parent(c)) >= At(s, j)

BuildInv(s, lo) == \A j \in 1..(Len(s) - 1) : parent(j) >= lo => Edge(s, j)

-----------------------------------------------------------------------------
(* Lemmas about single slots of the array                                  *)

\* Every slot after the root has a parent before it, and is its left or
\* right child
LEMMA ParentFacts ==
  ASSUME NEW j \in Nat, j >= 1
  PROVE  /\ parent(j) \in Nat /\ parent(j) < j
         /\ j = 2 * parent(j) + 1 \/ j = 2 * parent(j) + 2
BY DEF parent

LEMMA ParentOfChildren ==
  ASSUME NEW i \in Nat
  PROVE  parent(2 * i + 1) = i /\ parent(2 * i + 2) = i
BY DEF parent

LEMMA AtInt ==
  ASSUME NEW s \in Seq(Int), NEW x \in 0..(Len(s) - 1)
  PROVE  At(s, x) \in Int
BY DEF At

\* What slice::swap leaves in each slot
LEMMA SwapAt ==
  ASSUME NEW S, NEW s \in Seq(S),
         NEW i \in 0..(Len(s) - 1), NEW j \in 0..(Len(s) - 1),
         NEW x \in 0..(Len(s) - 1)
  PROVE  At(Swap(s, i, j), x) = IF x = i THEN At(s, j)
                                ELSE IF x = j THEN At(s, i) ELSE At(s, x)
BY DEF Swap, At

\* When heapify swaps, it swaps with the greater child, which exceeds a[i]
LEMMA LargestSwap ==
  ASSUME NEW s \in Seq(Int), NEW c \in Nat, largest(s, Len(s), c) # c
  PROVE  LET g == largest(s, Len(s), c)
         IN  /\ g \in {2 * c + 1, 2 * c + 2} /\ g < Len(s)
             /\ At(s, g) > At(s, c)
             /\ \A o \in {2 * c + 1, 2 * c + 2} : o < Len(s) => At(s, g) >= At(s, o)
<1> DEFINE l == 2 * c + 1
           r == 2 * c + 2
<1>1. left(c) = l /\ right(c) = r
  BY ChildrenAbove
<1>2. l < Len(s) => At(s, l) \in Int
  BY AtInt
<1>3. r < Len(s) => At(s, r) \in Int
  BY AtInt
<1>4. (l < Len(s) \/ r < Len(s)) => At(s, c) \in Int
  BY AtInt
<1>. QED
  BY <1>1, <1>2, <1>3, <1>4 DEF largest

\* When heapify returns, a[i] is no smaller than its children
LEMMA LargestDone ==
  ASSUME NEW s \in Seq(Int), NEW c \in Nat, largest(s, Len(s), c) = c
  PROVE  \A o \in {2 * c + 1, 2 * c + 2} : o < Len(s) => At(s, c) >= At(s, o)
<1> DEFINE l == 2 * c + 1
           r == 2 * c + 2
<1>1. left(c) = l /\ right(c) = r
  BY ChildrenAbove
<1>2. l < Len(s) => At(s, l) \in Int /\ At(s, c) \in Int
  BY AtInt
<1>3. r < Len(s) => At(s, r) \in Int /\ At(s, c) \in Int
  BY AtInt
<1>. QED
  BY <1>1, <1>2, <1>3 DEF largest


-----------------------------------------------------------------------------
(* The loop steps of heapify and of the sift-up in try_push                *)

\* One recursion of heapify (lines 166-177): swapping a[i] with its greater
\* child moves the only possibly broken place one level down, to that child
LEMMA SiftDownStep ==
  ASSUME NEW s \in Seq(Int), NEW lo \in Nat, NEW c \in Nat,
         lo <= c, c > lo => parent(c) >= lo,
         DownInv(s, lo, c), largest(s, Len(s), c) # c
  PROVE  LET g == largest(s, Len(s), c)
         IN  /\ DownInv(Swap(s, c, g), lo, g)
             /\ lo <= g /\ parent(g) >= lo
<1> DEFINE g == largest(s, Len(s), c)
           t == Swap(s, c, g)
           n == Len(s)
<1>0. n \in Nat
  BY LenProperties
<1>1. /\ g \in {2 * c + 1, 2 * c + 2} /\ g < n /\ At(s, g) > At(s, c)
      /\ \A o \in {2 * c + 1, 2 * c + 2} : o < n => At(s, g) >= At(s, o)
  BY LargestSwap
<1>2. parent(g) = c /\ c < g /\ c \in 0..(n - 1) /\ g \in 0..(n - 1)
  <2>1. parent(2 * c + 1) = c /\ parent(2 * c + 2) = c
    BY ParentOfChildren
  <2>2. g = 2 * c + 1 \/ g = 2 * c + 2
    BY <1>1
  <2>3. parent(g) = c
    BY <2>1, <2>2
  <2>. QED
    BY <1>0, <1>1, <2>2, <2>3
<1>3. \A x \in 0..(n - 1) :
        At(t, x) = IF x = c THEN At(s, g) ELSE IF x = g THEN At(s, c) ELSE At(s, x)
  BY <1>2, SwapAt
<1>4. \A x \in 0..(n - 1) : At(s, x) \in Int
  BY AtInt
<1>5. ASSUME NEW j \in 1..(n - 1), parent(j) >= lo, parent(j) # g
      PROVE  Edge(t, j)
  <2>1. parent(j) \in Nat /\ parent(j) < j
        /\ (j = 2 * parent(j) + 1 \/ j = 2 * parent(j) + 2)
    BY ParentFacts
  <2>2. parent(j) \in 0..(n - 1) /\ j \in 0..(n - 1)
    BY <1>0, <2>1
  <2>3. At(s, parent(j)) \in Int /\ At(s, j) \in Int
        /\ At(s, g) \in Int /\ At(s, c) \in Int
    BY <1>2, <1>4, <2>2
  <2>4. CASE j = g
    <3>1. At(t, parent(j)) = At(s, g) /\ At(t, j) = At(s, c)
      BY <1>2, <1>3, <2>2, <2>4
    <3>2. At(s, g) > At(s, c)
      BY <1>1
    <3>. QED
      BY <2>3, <3>1, <3>2 DEF Edge
  <2>5. CASE parent(j) = c /\ j # g
    <3>1. At(t, parent(j)) = At(s, g) /\ At(t, j) = At(s, j)
      BY <1>3, <2>1, <2>2, <2>5
    <3>2. j \in {2 * c + 1, 2 * c + 2} /\ j < n
      BY <1>0, <2>1, <2>5
    <3>3. At(s, g) >= At(s, j)
      BY <1>1, <3>2
    <3>. QED
      BY <2>3, <3>1, <3>3 DEF Edge
  <2>6. CASE j = c
    <3>1. c > lo /\ parent(j) # g /\ parent(j) # c
      BY <1>2, <1>5, <2>1, <2>6
    <3>2. At(s, parent(c)) >= At(s, g)
      BY <1>2, <3>1 DEF DownInv
    <3>3. At(t, parent(j)) = At(s, parent(j)) /\ At(t, j) = At(s, g)
      BY <1>3, <2>2, <2>6, <3>1
    <3>. QED
      BY <2>3, <2>6, <3>2, <3>3 DEF Edge
  <2>7. CASE parent(j) # c /\ j # c /\ j # g
    <3>1. Edge(s, j)
      BY <1>5, <2>7 DEF DownInv
    <3>2. At(t, parent(j)) = At(s, parent(j)) /\ At(t, j) = At(s, j)
      BY <1>3, <1>5, <2>2, <2>7
    <3>. QED
      BY <2>3, <3>1, <3>2 DEF Edge
  <2>. QED
    BY <2>4, <2>5, <2>6, <2>7
<1>6. ASSUME NEW j \in 1..(n - 1), parent(j) = g
      PROVE  At(t, parent(g)) >= At(t, j)
  <2>1. j > g /\ j \in 0..(n - 1)
    BY <1>0, <1>2, <1>6, ParentFacts
  <2>2. At(s, g) >= At(s, j)
    BY <1>2, <1>6 DEF DownInv, Edge
  <2>3. At(t, parent(g)) = At(s, g) /\ At(t, j) = At(s, j)
    BY <1>2, <1>3, <2>1
  <2>4. At(s, g) \in Int /\ At(s, j) \in Int
    BY <1>2, <1>4, <2>1
  <2>. QED
    BY <2>2, <2>3, <2>4
<1>7. Len(t) = n
  BY <1>2, SwapType
<1>8. DownInv(t, lo, g)
  BY <1>5, <1>6, <1>7 DEF DownInv
<1>. QED
  BY <1>2, <1>8


\* When heapify returns (largest = i), every edge from slot lo on holds
LEMMA SiftDownDone ==
  ASSUME NEW s \in Seq(Int), NEW lo \in Nat, NEW c \in Nat,
         DownInv(s, lo, c), largest(s, Len(s), c) = c
  PROVE  BuildInv(s, lo)
<1>0. Len(s) \in Nat
  BY LenProperties
<1>1. ASSUME NEW j \in 1..(Len(s) - 1), parent(j) >= lo
      PROVE  Edge(s, j)
  <2>1. parent(j) \in Nat /\ (j = 2 * parent(j) + 1 \/ j = 2 * parent(j) + 2)
    BY ParentFacts
  <2>2. CASE parent(j) = c
    <3>1. j \in {2 * c + 1, 2 * c + 2} /\ j < Len(s)
      BY <1>0, <2>1, <2>2
    <3>2. At(s, c) >= At(s, j)
      BY <3>1, LargestDone
    <3>. QED
      BY <2>2, <3>2 DEF Edge
  <2>3. CASE parent(j) # c
    BY <1>1, <2>3 DEF DownInv
  <2>. QED
    BY <2>2, <2>3
<1>. QED
  BY <1>1 DEF BuildInv

\* Build-heap has nothing left to do once every edge from slot 0 holds
LEMMA BuildInvZero ==
  ASSUME NEW s \in Seq(Int), BuildInv(s, 0)
  PROVE  HeapOrdered(s, Len(s))
<1>1. ASSUME NEW j \in 1..(Len(s) - 1) PROVE parent(j) >= 0
  BY ParentFacts
<1>. QED
  BY <1>1 DEF BuildInv, HeapOrdered, Edge

\* A heap in order satisfies heapify's precondition at the root
LEMMA HeapToDown ==
  ASSUME NEW s \in Seq(Int), HeapOrdered(s, Len(s))
  PROVE  DownInv(s, 0, 0)
BY DEF HeapOrdered, DownInv, Edge

\* No slot of a[..n] has its parent at index n / 2 or later: the loop of
\* build-heap may start below n / 2 (lines 201, 474)
LEMMA BuildStart ==
  ASSUME NEW s \in Seq(Int)
  PROVE  BuildInv(s, Len(s) \div 2)
<1>0. Len(s) \in Nat
  BY LenProperties
<1>1. ASSUME NEW j \in 1..(Len(s) - 1) PROVE parent(j) < Len(s) \div 2
  BY <1>0 DEF parent
<1>. QED
  BY <1>0, <1>1, ParentFacts DEF BuildInv

\* Entering heapify(a, k - 1) from the build-heap loop
LEMMA BuildEnter ==
  ASSUME NEW s \in Seq(Int), NEW k1 \in Nat, BuildInv(s, k1 + 1)
  PROVE  DownInv(s, k1, k1)
<1>1. ASSUME NEW j \in 1..(Len(s) - 1), parent(j) >= k1, parent(j) # k1
      PROVE  Edge(s, j)
  <2>1. parent(j) \in Nat
    BY ParentFacts, LenProperties
  <2>. QED
    BY <1>1, <2>1 DEF BuildInv
<1>. QED
  BY <1>1 DEF DownInv

\* One turn of try_push's loop (lines 312-315): swapping a[i] with its
\* smaller parent moves the only possibly broken edge one level up
LEMMA SiftUpStep ==
  ASSUME NEW s \in Seq(Int), NEW c \in 1..(Len(s) - 1),
         UpInv(s, c), At(s, parent(c)) < At(s, c)
  PROVE  UpInv(Swap(s, c, parent(c)), parent(c))
<1> DEFINE p == parent(c)
           t == Swap(s, c, p)
           n == Len(s)
<1>0. n \in Nat /\ p \in 0..(n - 1) /\ p < c
  BY LenProperties, ParentFacts
<1>1. \A x \in 0..(n - 1) :
        At(t, x) = IF x = c THEN At(s, p) ELSE IF x = p THEN At(s, c) ELSE At(s, x)
  BY <1>0, SwapAt
<1>2. \A x \in 0..(n - 1) : At(s, x) \in Int
  BY AtInt
<1>3. Len(t) = n
  BY <1>0, SwapType
<1>4. ASSUME NEW j \in 1..(n - 1), j # p
      PROVE  Edge(t, j)
  <2>1. parent(j) \in Nat /\ parent(j) < j
    BY ParentFacts
  <2>2. parent(j) \in 0..(n - 1) /\ j \in 0..(n - 1)
    BY <1>0, <2>1
  <2>3. At(s, parent(j)) \in Int /\ At(s, j) \in Int
        /\ At(s, p) \in Int /\ At(s, c) \in Int
    BY <1>0, <1>2, <2>2
  <2>4. CASE j = c
    <3>1. At(t, parent(j)) = At(s, c) /\ At(t, j) = At(s, p)
      BY <1>0, <1>1, <2>4
    <3>. QED
      BY <2>3, <3>1 DEF Edge
  <2>5. CASE parent(j) = c
    <3>1. At(t, parent(j)) = At(s, p) /\ At(t, j) = At(s, j)
      BY <1>0, <1>1, <1>4, <2>1, <2>2, <2>5
    <3>2. At(s, p) >= At(s, j)
      BY <2>5 DEF UpInv
    <3>. QED
      BY <2>3, <3>1, <3>2 DEF Edge
  <2>6. CASE parent(j) = p /\ j # c
    <3>1. At(t, parent(j)) = At(s, c) /\ At(t, j) = At(s, j)
      BY <1>0, <1>1, <1>4, <2>2, <2>6
    <3>2. At(s, p) >= At(s, j)
      BY <2>6 DEF UpInv, Edge
    <3>. QED
      BY <2>3, <3>1, <3>2 DEF Edge
  <2>7. CASE j # c /\ parent(j) # c /\ parent(j) # p
    <3>1. At(t, parent(j)) = At(s, parent(j)) /\ At(t, j) = At(s, j)
      BY <1>1, <1>4, <2>2, <2>7
    <3>2. Edge(s, j)
      BY <2>7 DEF UpInv
    <3>. QED
      BY <3>1, <3>2 DEF Edge
  <2>. QED
    BY <2>4, <2>5, <2>6, <2>7
<1>5. ASSUME p > 0, NEW j \in 1..(n - 1), parent(j) = p
      PROVE  At(t, parent(p)) >= At(t, j)
  <2>1. parent(p) \in Nat /\ parent(p) < p
    BY <1>0, <1>5, ParentFacts
  <2>2. parent(p) \in 0..(n - 1) /\ j \in 0..(n - 1)
    BY <1>0, <2>1
  <2>3. At(s, parent(p)) \in Int /\ At(s, j) \in Int /\ At(s, p) \in Int
    BY <1>0, <1>2, <2>2
  <2>4. At(s, parent(p)) >= At(s, p)
    BY <1>0, <1>5 DEF UpInv, Edge
  <2>5. At(t, parent(p)) = At(s, parent(p))
    BY <1>0, <1>1, <2>1, <2>2
  <2>6. CASE j = c
    <3>1. At(t, j) = At(s, p)
      BY <1>0, <1>1, <2>6
    <3>. QED
      BY <2>3, <2>4, <2>5, <3>1
  <2>7. CASE j # c
    <3>1. At(t, j) = At(s, j)
      BY <1>0, <1>1, <1>5, <2>2, <2>7, ParentFacts
    <3>2. At(s, p) >= At(s, j)
      BY <1>5, <2>7 DEF UpInv, Edge
    <3>. QED
      BY <2>3, <2>4, <2>5, <3>1, <3>2
  <2>. QED
    BY <2>6, <2>7
<1>. QED
  BY <1>3, <1>4, <1>5 DEF UpInv

\* try_push's loop ends with the heap in order
LEMMA SiftUpDone ==
  ASSUME NEW s \in Seq(Int), NEW c \in 0..(Len(s) - 1), UpInv(s, c),
         ~(c > 0 /\ At(s, parent(c)) < At(s, c))
  PROVE  HeapOrdered(s, Len(s))
<1>1. ASSUME NEW j \in 1..(Len(s) - 1) PROVE Edge(s, j)
  <2>1. CASE j = c
    <3>1. parent(c) \in 0..(Len(s) - 1)
      BY <2>1, ParentFacts, LenProperties
    <3>2. At(s, parent(c)) \in Int /\ At(s, c) \in Int
      BY <3>1, AtInt
    <3>. QED
      BY <2>1, <3>2 DEF Edge
  <2>2. CASE j # c
    BY <2>2 DEF UpInv
  <2>. QED
    BY <2>1, <2>2
<1>. QED
  BY <1>1 DEF HeapOrdered, Edge


-----------------------------------------------------------------------------
(* The calls that start a loop                                             *)

\* try_push appends to a heap in order: only the new slot may be out of
\* order, and it has no children
LEMMA PushStart ==
  ASSUME NEW s \in Seq(Int), NEW v \in Int, HeapOrdered(s, Len(s))
  PROVE  UpInv(Append(s, v), Len(s))
<1> DEFINE t == Append(s, v)
           n == Len(s)
<1>0. n \in Nat /\ Len(t) = n + 1
  BY LenProperties, AppendProperties
<1>1. \A x \in 0..(n - 1) : At(t, x) = At(s, x)
  BY AppendProperties DEF At
<1>2. ASSUME NEW j \in 1..n, j # n PROVE Edge(t, j)
  <2>1. parent(j) \in Nat /\ parent(j) < j
    BY ParentFacts
  <2>2. Edge(s, j)
    BY <1>0, <1>2 DEF HeapOrdered, Edge
  <2>. QED
    BY <1>0, <1>1, <1>2, <2>1, <2>2 DEF Edge
<1>3. ASSUME NEW j \in 1..n, parent(j) = n PROVE FALSE
  BY <1>3, ParentFacts
<1>. QED
  BY <1>0, <1>2, <1>3 DEF UpInv

\* pop's swap_remove(0) (line 272) keeps every edge below the root's
\* children: heapify(a, 0)'s precondition holds on the shorter slice
LEMMA PopStart ==
  ASSUME NEW s \in Seq(Int), s # <<>>, DownInv(s, 0, 0)
  PROVE  DownInv(swap_remove_first(s), 0, 0)
<1> DEFINE n == Len(s)
           w == Swap(s, 0, n - 1)
           t == swap_remove_first(s)
<1>0. n \in Nat \ {0}
  BY EmptySeq, LenProperties
<1>1. w \in Seq(Int) /\ Len(w) = n
  BY <1>0, SwapType
<1>2. t \in Seq(Int) /\ Len(t) = n - 1
  BY SwapRemoveType
<1>3. \A x \in 1..(n - 2) : At(t, x) = At(s, x)
  <2>1. \A x \in 1..(n - 2) : t[x + 1] = w[x + 1]
    BY <1>0, <1>1, SubSeqProperties DEF swap_remove_first
  <2>2. \A x \in 1..(n - 2) : At(w, x) = At(s, x)
    BY <1>0, SwapAt
  <2>. QED
    BY <2>1, <2>2 DEF At
<1>4. ASSUME NEW j \in 1..(Len(t) - 1), parent(j) >= 0, parent(j) # 0
      PROVE  Edge(t, j)
  <2>1. parent(j) \in 1..(n - 2) /\ j \in 1..(n - 2)
    BY <1>0, <1>2, <1>4, ParentFacts
  <2>2. Edge(s, j)
    BY <1>0, <1>2, <1>4, <2>1 DEF DownInv
  <2>. QED
    BY <1>3, <2>1, <2>2 DEF Edge
<1>. QED
  BY <1>4 DEF DownInv

\* *guard = v (lines 109-112) changes the root only: every edge below the
\* root's children still holds
LEMMA RootWrite ==
  ASSUME NEW s \in Seq(Int), s # <<>>, NEW v \in Int, DownInv(s, 0, 0)
  PROVE  DownInv([s EXCEPT ![1] = v], 0, 0)
<1> DEFINE t == [s EXCEPT ![1] = v]
<1>0. Len(s) \in Nat \ {0} /\ 1 \in 1..Len(s)
  BY EmptySeq, LenProperties
<1>1. Len(t) = Len(s) /\ \A x \in 1..(Len(s) - 1) : At(t, x) = At(s, x)
  BY <1>0, ExceptSeq DEF At
<1>2. ASSUME NEW j \in 1..(Len(t) - 1), parent(j) >= 0, parent(j) # 0
      PROVE  Edge(t, j)
  <2>1. parent(j) \in 1..(Len(s) - 1) /\ j \in 1..(Len(s) - 1)
    BY <1>0, <1>1, <1>2, ParentFacts
  <2>2. Edge(s, j)
    BY <1>2, <2>1 DEF DownInv
  <2>. QED
    BY <1>1, <2>1, <2>2 DEF Edge
<1>3. \A j \in 1..(Len(t) - 1) : parent(j) >= 0 /\ parent(j) # 0 => Edge(t, j)
  BY <1>2
<1>4. ~(0 > 0)
  OBVIOUS
<1>5. DownInv(t, 0, 0)
  BY <1>3, <1>4, Zenon DEF DownInv
<1>. QED
  BY <1>5


-----------------------------------------------------------------------------
(* The root of a heap-ordered array is a maximum, by a least counterexample *)
(* over the well-founded order < on Nat: were some slot greater than the  *)
(* root, the least such slot x is not the root, and its parent, which is  *)
(* smaller than x and at least as great as slot x, would be a smaller one. *)

LEMMA RootMax ==
  ASSUME NEW s \in Seq(Int), HeapOrdered(s, Len(s))
  PROVE  \A j \in 0..(Len(s) - 1) : At(s, 0) >= At(s, j)
<1> DEFINE T == {i \in 0..(Len(s) - 1) : At(s, 0) < At(s, i)}
<1>0. Len(s) \in Nat
  BY LenProperties
<1> SUFFICES ASSUME NEW j \in 0..(Len(s) - 1), ~(At(s, 0) >= At(s, j))
             PROVE  FALSE
  OBVIOUS
<1>1. At(s, 0) \in Int /\ At(s, j) \in Int
  BY <1>0, AtInt
<1>2. T \subseteq Nat /\ T # {}
  BY <1>0, <1>1
<1>3. PICK x \in T : \A y \in T : ~(<<y, x>> \in OpToRel(<, Nat))
  BY <1>2, WFMin, NatLessThanWellFounded
<1>4. x \in 1..(Len(s) - 1) /\ At(s, 0) < At(s, x)
  <2>1. x \in 0..(Len(s) - 1) /\ At(s, 0) < At(s, x)
    OBVIOUS
  <2>2. At(s, x) \in Int
    BY <1>0, <2>1, AtInt
  <2>. QED
    BY <1>1, <2>1, <2>2
<1>5. parent(x) \in Nat /\ parent(x) < x
  BY <1>4, ParentFacts
<1>6. At(s, parent(x)) >= At(s, x)
  BY <1>4 DEF HeapOrdered
<1>7. parent(x) \in T
  <2>1. parent(x) \in 0..(Len(s) - 1)
    BY <1>0, <1>4, <1>5
  <2>2. At(s, parent(x)) \in Int /\ At(s, x) \in Int
    BY <1>0, <1>4, <2>1, AtInt
  <2>. QED
    BY <1>1, <1>4, <1>6, <2>1, <2>2
<1>8. <<parent(x), x>> \in OpToRel(<, Nat)
  BY <1>4, <1>5 DEF OpToRel
<1>. QED
  BY <1>3, <1>7, <1>8

-----------------------------------------------------------------------------
(* Multiset facts: how the slice operations change Occurrences.           *)

\* The slots of s holding v
Pos(s, v) == {x \in 1..Len(s) : s[x] = v}

LEMMA PosFinite ==
  ASSUME NEW S, NEW s \in Seq(S), NEW v
  PROVE  /\ IsFiniteSet(Pos(s, v))
         /\ Occurrences(s, v) = Cardinality(Pos(s, v))
         /\ Occurrences(s, v) \in Nat
<1>1. IsFiniteSet(1..Len(s))
  BY FS_Interval, LenProperties
<1>2. IsFiniteSet(Pos(s, v))
  BY <1>1, FS_Subset DEF Pos
<1>. QED
  BY <1>2, FS_CardinalityType DEF Occurrences, Pos

\* Slot y of Swap(s, i, j), 1-based
LEMMA SwapElem ==
  ASSUME NEW S, NEW s \in Seq(S),
         NEW i \in 0..(Len(s) - 1), NEW j \in 0..(Len(s) - 1),
         NEW y \in 1..Len(s)
  PROVE  Swap(s, i, j)[y] = IF y = i + 1 THEN s[j + 1]
                            ELSE IF y = j + 1 THEN s[i + 1] ELSE s[y]
BY DEF Swap

\* A swap moves elements, it neither makes nor loses any
LEMMA OccSwap ==
  ASSUME NEW S, NEW s \in Seq(S),
         NEW i \in 0..(Len(s) - 1), NEW j \in 0..(Len(s) - 1), NEW v
  PROVE  Occurrences(Swap(s, i, j), v) = Occurrences(s, v)
<1> DEFINE t == Swap(s, i, j)
           p == i + 1
           q == j + 1
           P == Pos(s, v)
           Q == Pos(t, v)
<1>1. t \in Seq(S) /\ Len(t) = Len(s)
  BY SwapType
<1>2. IsFiniteSet(P) /\ Occurrences(s, v) = Cardinality(P)
  BY PosFinite
<1>3. Occurrences(t, v) = Cardinality(Q)
  BY <1>1, PosFinite
<1>4. p \in 1..Len(s) /\ q \in 1..Len(s)
  OBVIOUS
<1>5. \A y \in 1..Len(s) : t[y] = IF y = p THEN s[q]
                                 ELSE IF y = q THEN s[p] ELSE s[y]
  BY SwapElem
<1>6. CASE s[p] = s[q] \/ (s[p] # v /\ s[q] # v)
  <2>1. Q = P
    BY <1>1, <1>5, <1>6 DEF Pos
  <2>. QED
    BY <1>2, <1>3, <2>1
<1>7. CASE s[p] # s[q] /\ s[p] = v
  <2>1. Q = (P \ {p}) \cup {q}
    BY <1>1, <1>4, <1>5, <1>7 DEF Pos
  <2>2. p \in P /\ q \notin (P \ {p})
    BY <1>4, <1>7 DEF Pos
  <2>3. IsFiniteSet(P \ {p}) /\ Cardinality(P \ {p}) = Cardinality(P) - 1
    BY <1>2, <2>2, FS_RemoveElement
  <2>4. Cardinality((P \ {p}) \cup {q}) = Cardinality(P \ {p}) + 1
    BY <2>2, <2>3, FS_AddElement
  <2>5. Cardinality(P) \in Nat
    BY <1>2, FS_CardinalityType
  <2>. QED
    BY <1>2, <1>3, <2>1, <2>3, <2>4, <2>5
<1>8. CASE s[p] # s[q] /\ s[q] = v
  <2>1. Q = (P \ {q}) \cup {p}
    BY <1>1, <1>4, <1>5, <1>8 DEF Pos
  <2>2. q \in P /\ p \notin (P \ {q})
    BY <1>4, <1>8 DEF Pos
  <2>3. IsFiniteSet(P \ {q}) /\ Cardinality(P \ {q}) = Cardinality(P) - 1
    BY <1>2, <2>2, FS_RemoveElement
  <2>4. Cardinality((P \ {q}) \cup {p}) = Cardinality(P \ {q}) + 1
    BY <2>2, <2>3, FS_AddElement
  <2>5. Cardinality(P) \in Nat
    BY <1>2, FS_CardinalityType
  <2>. QED
    BY <1>2, <1>3, <2>1, <2>3, <2>4, <2>5
<1>. QED
  BY <1>6, <1>7, <1>8

\* The predecessor of a positive natural
LEMMA PredFacts ==
  ASSUME NEW n \in Nat \ {0}
  PROVE  /\ n - 1 \in Nat
         /\ n = 1 => ~(1 <= n - 1)
         /\ n # 1 => 1 <= n - 1 /\ (n - 1) - 1 + 1 = n - 1
OBVIOUS

\* Dropping the last slot keeps the slots before it
LEMMA DropLast ==
  ASSUME NEW S, NEW s \in Seq(S), s # <<>>
  PROVE  /\ SubSeq(s, 1, Len(s) - 1) \in Seq(S)
         /\ Len(SubSeq(s, 1, Len(s) - 1)) = Len(s) - 1
         /\ \A y \in 1..(Len(s) - 1) : SubSeq(s, 1, Len(s) - 1)[y] = s[y]
<1> DEFINE n == Len(s)
           u == SubSeq(s, 1, n - 1)
<1>1. n \in Nat \ {0}
  BY EmptySeq, LenProperties
<1>2. \A y \in 1..(n - 1) : s[y] \in S
  BY <1>1
<1>3. /\ u \in Seq(S)
      /\ Len(u) = IF 1 <= n - 1 THEN (n - 1) - 1 + 1 ELSE 0
      /\ \A y \in 1..((n - 1) - 1 + 1) : u[y] = s[1 + y - 1]
  BY <1>1, <1>2, SubSeqProperties
<1>4. Len(u) = n - 1
  <2>1. CASE n = 1
    <3>1. ~(1 <= n - 1)
      BY <1>1, <2>1, PredFacts, Zenon
    <3>2. Len(u) = 0
      BY <1>3, <3>1, Zenon
    <3>. QED
      BY <1>1, <2>1, <3>2
  <2>2. CASE n # 1
    <3>1. 1 <= n - 1 /\ (n - 1) - 1 + 1 = n - 1
      BY <1>1, <2>2, PredFacts, Zenon
    <3>. QED
      BY <1>3, <3>1, Zenon
  <2>. QED
    BY <2>1, <2>2
<1>5. \A y \in 1..(n - 1) : u[y] = s[y]
  <2> SUFFICES ASSUME NEW y \in 1..(n - 1) PROVE u[y] = s[y]
    OBVIOUS
  <2>1. y \in 1..((n - 1) - 1 + 1) /\ 1 + y - 1 = y
    BY <1>1
  <2>. QED
    BY <1>3, <2>1, Zenon
<1>. QED
  BY <1>3, <1>4, <1>5

\* Dropping the last slot loses one occurrence of the last element
LEMMA OccDropLast ==
  ASSUME NEW S, NEW s \in Seq(S), s # <<>>, NEW v
  PROVE  Occurrences(SubSeq(s, 1, Len(s) - 1), v)
           = Occurrences(s, v) - (IF s[Len(s)] = v THEN 1 ELSE 0)
<1> DEFINE n == Len(s)
           u == SubSeq(s, 1, n - 1)
           P == Pos(s, v)
<1>1. n \in Nat \ {0}
  BY EmptySeq, LenProperties
<1>2. u \in Seq(S) /\ Len(u) = n - 1 /\ \A y \in 1..(n - 1) : u[y] = s[y]
  BY DropLast
<1>3. Pos(u, v) = P \ {n}
  BY <1>1, <1>2 DEF Pos
<1>4. IsFiniteSet(P) /\ Occurrences(s, v) = Cardinality(P)
  BY PosFinite
<1>5. Occurrences(u, v) = Cardinality(Pos(u, v))
  BY <1>2, PosFinite
<1>6. Cardinality(P \ {n}) = IF n \in P THEN Cardinality(P) - 1
                                       ELSE Cardinality(P)
  BY <1>4, FS_RemoveElement
<1>7. n \in P <=> s[n] = v
  BY <1>1 DEF Pos
<1>8. Cardinality(P) \in Nat
  BY <1>4, FS_CardinalityType
<1>9. Occurrences(u, v) = IF s[n] = v THEN Cardinality(P) - 1
                                      ELSE Cardinality(P)
  BY <1>3, <1>5, <1>6, <1>7
<1>. QED
  BY <1>4, <1>8, <1>9

\* swap_remove(0) loses one occurrence of the root and no other element
LEMMA OccSwapRemove ==
  ASSUME NEW S, NEW s \in Seq(S), s # <<>>, NEW v
  PROVE  Occurrences(swap_remove_first(s), v)
           = Occurrences(s, v) - (IF s[1] = v THEN 1 ELSE 0)
<1> DEFINE n == Len(s)
           t == Swap(s, 0, n - 1)
<1>1. n \in Nat \ {0}
  BY EmptySeq, LenProperties
<1>2. t \in Seq(S) /\ Len(t) = n /\ t # <<>>
  BY <1>1, SwapType, EmptySeq
<1>3. t[n] = s[1]
  BY <1>1, SwapElem
<1>4. Occurrences(SubSeq(t, 1, n - 1), v)
        = Occurrences(t, v) - (IF t[n] = v THEN 1 ELSE 0)
  BY <1>2, OccDropLast
<1>5. Occurrences(t, v) = Occurrences(s, v)
  BY <1>1, OccSwap
<1>. QED
  BY <1>3, <1>4, <1>5 DEF swap_remove_first

\* Append adds one occurrence of the appended element
LEMMA OccAppend ==
  ASSUME NEW S, NEW d \in Seq(S), NEW x \in S, NEW v
  PROVE  Occurrences(Append(d, x), v)
           = Occurrences(d, v) + (IF x = v THEN 1 ELSE 0)
<1> DEFINE n == Len(d)
           e == Append(d, x)
           P == Pos(d, v)
<1>1. n \in Nat /\ e \in Seq(S) /\ Len(e) = n + 1
  BY AppendProperties, LenProperties
<1>2. \A y \in 1..n : e[y] = d[y]
  BY AppendProperties
<1>3. e[n + 1] = x
  BY AppendProperties
<1>4. Pos(e, v) = IF x = v THEN P \cup {n + 1} ELSE P
  BY <1>1, <1>2, <1>3 DEF Pos
<1>5. IsFiniteSet(P) /\ Occurrences(d, v) = Cardinality(P)
  BY PosFinite
<1>6. n + 1 \notin P
  BY <1>1 DEF Pos
<1>7. Cardinality(P \cup {n + 1}) = Cardinality(P) + 1
  BY <1>5, <1>6, FS_AddElement
<1>8. Occurrences(e, v) = Cardinality(Pos(e, v))
  BY <1>1, PosFinite
<1>9. Cardinality(P) \in Nat
  BY <1>5, FS_CardinalityType
<1>. QED
  BY <1>4, <1>5, <1>7, <1>8, <1>9

LEMMA OccEmpty ==
  ASSUME NEW v
  PROVE  Occurrences(<<>>, v) = 0
BY FS_EmptySet DEF Occurrences

-----------------------------------------------------------------------------
(* Bounds: a swap, and swap_remove(0), only move elements, so an upper    *)
(* bound of every element before is one of every element after.           *)

LEMMA SwapBound ==
  ASSUME NEW s \in Seq(Int),
         NEW i \in 0..(Len(s) - 1), NEW j \in 0..(Len(s) - 1),
         NEW m \in Int, \A x \in 1..Len(s) : m >= s[x]
  PROVE  \A y \in 1..Len(Swap(s, i, j)) : m >= Swap(s, i, j)[y]
<1>1. Len(Swap(s, i, j)) = Len(s)
  BY SwapType
<1> SUFFICES ASSUME NEW y \in 1..Len(s) PROVE m >= Swap(s, i, j)[y]
  BY <1>1
<1>2. Swap(s, i, j)[y] = IF y = i + 1 THEN s[j + 1]
                         ELSE IF y = j + 1 THEN s[i + 1] ELSE s[y]
  BY SwapElem
<1>3. i + 1 \in 1..Len(s) /\ j + 1 \in 1..Len(s)
  OBVIOUS
<1>. QED
  BY <1>2, <1>3

LEMMA SwapRemoveBound ==
  ASSUME NEW s \in Seq(Int), s # <<>>,
         NEW m \in Int, \A x \in 1..Len(s) : m >= s[x]
  PROVE  \A y \in 1..Len(swap_remove_first(s)) :
           m >= swap_remove_first(s)[y]
<1> DEFINE n == Len(s)
           t == Swap(s, 0, n - 1)
<1>1. n \in Nat \ {0}
  BY EmptySeq, LenProperties
<1>2. t \in Seq(Int) /\ Len(t) = n /\ t # <<>>
  BY <1>1, SwapType, EmptySeq
<1>3. \A y \in 1..n : m >= t[y]
  <2>1. 0 \in 0..(n - 1) /\ n - 1 \in 0..(n - 1)
    BY <1>1
  <2>2. \A y \in 1..Len(t) : m >= t[y]
    BY <2>1, SwapBound
  <2>. QED
    BY <1>2, <2>2
<1>4. /\ Len(SubSeq(t, 1, n - 1)) = n - 1
      /\ \A y \in 1..(n - 1) : SubSeq(t, 1, n - 1)[y] = t[y]
  BY <1>2, DropLast
<1>5. \A y \in 1..(n - 1) : y \in 1..n
  BY <1>1
<1>. QED
  BY <1>3, <1>4, <1>5 DEF swap_remove_first


-----------------------------------------------------------------------------
(* Prefixes: the sort loop of into_sorted_vec heapifies the slice a[..i],  *)
(* the prefix SubSeq(a, 1, i) of the Vec.                                  *)

\* The prefix of length n keeps the first n slots
LEMMA PrefixProps ==
  ASSUME NEW S, NEW s \in Seq(S), NEW n \in 0..Len(s)
  PROVE  /\ SubSeq(s, 1, n) \in Seq(S)
         /\ Len(SubSeq(s, 1, n)) = n
         /\ \A y \in 1..n : SubSeq(s, 1, n)[y] = s[y]
<1> DEFINE p == SubSeq(s, 1, n)
<1>1. n \in Nat /\ \A y \in 1..n : s[y] \in S
  BY LenProperties
<1>2. /\ p \in Seq(S)
      /\ Len(p) = IF 1 <= n THEN n - 1 + 1 ELSE 0
      /\ \A y \in 1..(n - 1 + 1) : p[y] = s[1 + y - 1]
  BY <1>1, SubSeqProperties
<1>3. Len(p) = n
  <2>1. CASE n = 0
    <3>1. ~(1 <= n)
      BY <2>1
    <3>. QED
      BY <1>2, <2>1, <3>1, Zenon
  <2>2. CASE n # 0
    <3>1. 1 <= n /\ n - 1 + 1 = n
      BY <1>1, <2>2
    <3>. QED
      BY <1>2, <3>1, Zenon
  <2>. QED
    BY <2>1, <2>2
<1>4. \A y \in 1..n : p[y] = s[y]
  <2> SUFFICES ASSUME NEW y \in 1..n PROVE p[y] = s[y]
    OBVIOUS
  <2>1. y \in 1..(n - 1 + 1) /\ 1 + y - 1 = y
    BY <1>1
  <2>. QED
    BY <1>2, <2>1, Zenon
<1>. QED
  BY <1>2, <1>3, <1>4

\* A swap inside the prefix is a swap of the prefix
LEMMA PrefixSwap ==
  ASSUME NEW S, NEW s \in Seq(S), NEW n \in 0..Len(s),
         NEW i \in 0..(n - 1), NEW j \in 0..(n - 1)
  PROVE  SubSeq(Swap(s, i, j), 1, n) = Swap(SubSeq(s, 1, n), i, j)
<1> DEFINE p == SubSeq(s, 1, n)
           w == Swap(s, i, j)
<1>1. p \in Seq(S) /\ Len(p) = n /\ \A y \in 1..n : p[y] = s[y]
  BY PrefixProps
<1>2. w \in Seq(S) /\ Len(w) = Len(s)
  BY SwapType
<1>3. n \in 0..Len(w)
  BY <1>2
<1>4. SubSeq(w, 1, n) \in Seq(S) /\ Len(SubSeq(w, 1, n)) = n
      /\ \A y \in 1..n : SubSeq(w, 1, n)[y] = w[y]
  BY <1>2, <1>3, PrefixProps
<1>5. Swap(p, i, j) \in Seq(S) /\ Len(Swap(p, i, j)) = n
  BY <1>1, SwapType
<1>6. ASSUME NEW y \in 1..n PROVE SubSeq(w, 1, n)[y] = Swap(p, i, j)[y]
  <2>1. w[y] = IF y = i + 1 THEN s[j + 1]
               ELSE IF y = j + 1 THEN s[i + 1] ELSE s[y]
    BY SwapElem
  <2>2. Swap(p, i, j)[y] = IF y = i + 1 THEN p[j + 1]
                           ELSE IF y = j + 1 THEN p[i + 1] ELSE p[y]
    <3>1. i \in 0..(Len(p) - 1) /\ j \in 0..(Len(p) - 1) /\ y \in 1..Len(p)
      BY <1>1
    <3>. QED
      BY <1>1, <3>1, SwapElem
  <2>3. i + 1 \in 1..n /\ j + 1 \in 1..n
    OBVIOUS
  <2>. QED
    BY <1>1, <1>4, <2>1, <2>2, <2>3
<1>. QED
  BY <1>4, <1>5, <1>6, SeqEqual

\* heapify on a[..n] reads the prefix only
LEMMA PrefixLargest ==
  ASSUME NEW s \in Seq(Int), NEW n \in 0..Len(s), NEW c \in Nat
  PROVE  largest(s, n, c) = largest(SubSeq(s, 1, n), n, c)
<1> DEFINE p == SubSeq(s, 1, n)
<1>1. \A x \in 0..(n - 1) : At(p, x) = At(s, x)
  BY PrefixProps DEF At
<1>2. left(c) = 2 * c + 1 /\ right(c) = 2 * c + 2 /\ c < left(c) /\ c < right(c)
  BY ChildrenAbove
<1>3. left(c) < n => At(p, left(c)) = At(s, left(c)) /\ At(p, c) = At(s, c)
  BY <1>1, <1>2
<1>4. right(c) < n => At(p, right(c)) = At(s, right(c)) /\ At(p, c) = At(s, c)
                      /\ At(p, left(c)) = At(s, left(c))
  BY <1>1, <1>2
<1>. QED
  BY <1>3, <1>4 DEF largest

\* The heap order of a[..n] is that of the prefix
LEMMA PrefixHeapOrdered ==
  ASSUME NEW s \in Seq(Int), NEW n \in 0..Len(s)
  PROVE  HeapOrdered(SubSeq(s, 1, n), n) <=> HeapOrdered(s, n)
<1> DEFINE p == SubSeq(s, 1, n)
<1>1. \A x \in 0..(n - 1) : At(p, x) = At(s, x)
  BY PrefixProps DEF At
<1>2. \A j \in 1..(n - 1) : parent(j) \in 0..(n - 1) /\ j \in 0..(n - 1)
  BY ParentFacts
<1>. QED
  BY <1>1, <1>2 DEF HeapOrdered

\* The sort loop's swap(0, i) followed by the shorter slice a[..i] is
\* swap_remove(0) on the slice a[..i + 1]
LEMMA PrefixSwapRemove ==
  ASSUME NEW S, NEW s \in Seq(S), NEW n \in 1..Len(s)
  PROVE  SubSeq(Swap(s, 0, n - 1), 1, n - 1)
           = swap_remove_first(SubSeq(s, 1, n))
<1> DEFINE p == SubSeq(s, 1, n)
           w == Swap(s, 0, n - 1)
<1>1. p \in Seq(S) /\ Len(p) = n
  BY PrefixProps
<1>2. SubSeq(w, 1, n) = Swap(p, 0, n - 1)
  BY PrefixSwap
<1>3. w \in Seq(S) /\ Len(w) = Len(s)
  BY SwapType
<1>4. SubSeq(SubSeq(w, 1, n), 1, n - 1) = SubSeq(w, 1, n - 1)
  <2>1. n - 1 \in 0..n /\ n \in 0..Len(w)
    BY <1>3
  <2>2. SubSeq(w, 1, n) \in Seq(S) /\ Len(SubSeq(w, 1, n)) = n
        /\ \A y \in 1..n : SubSeq(w, 1, n)[y] = w[y]
    BY <1>3, <2>1, PrefixProps
  <2>3. /\ SubSeq(SubSeq(w, 1, n), 1, n - 1) \in Seq(S)
        /\ Len(SubSeq(SubSeq(w, 1, n), 1, n - 1)) = n - 1
        /\ \A y \in 1..(n - 1) :
             SubSeq(SubSeq(w, 1, n), 1, n - 1)[y] = SubSeq(w, 1, n)[y]
    BY <2>1, <2>2, PrefixProps
  <2>4. /\ SubSeq(w, 1, n - 1) \in Seq(S)
        /\ Len(SubSeq(w, 1, n - 1)) = n - 1
        /\ \A y \in 1..(n - 1) : SubSeq(w, 1, n - 1)[y] = w[y]
    <3>1. n - 1 \in 0..Len(w)
      BY <1>3
    <3>. QED
      BY <1>3, <3>1, PrefixProps
  <2>. QED
    BY <2>2, <2>3, <2>4, SeqEqual
<1>. QED
  BY <1>1, <1>2, <1>4 DEF swap_remove_first
=============================================================================
