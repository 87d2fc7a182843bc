----------------------------- MODULE HeapOrder -----------------------------
(***************************************************************************)
(* The array encoding of a complete binary tree used by binary_heap.rs,    *)
(* and the single comparisons heapify and try_push make on it.  The code   *)
(* indexes slices from 0; TLA+ sequences are indexed from 1, so every      *)
(* index below is a 0-based slice index and At(s, i) reads slot i.          *)
(***************************************************************************)
EXTENDS Integers, Sequences, FiniteSets

\* a[i] on a slice
At(s, i) == s[i + 1]

\* parent, left, right: CLRS's PARENT/LEFT/RIGHT shifted to 0-based indices
parent(i) == (i + 1) \div 2 - 1

left(i) == 2 * (i + 1) - 1

right(i) == 2 * (i + 1)

\* slice::swap(i, j)
Swap(s, i, j) == [s EXCEPT ![i + 1] = s[j + 1], ![j + 1] = s[i + 1]]

(***************************************************************************)
(* The index heapify(a, i) picks on the slice a[..n]: the left child if it *)
(* is strictly greater than a[i], then the right child if it is strictly   *)
(* greater than that winner; i itself when neither child is greater.       *)
(***************************************************************************)
\* Mutant: a heapify that compares the left child only
largest_left_only(s, n, i) ==
  IF left(i) < n /\ At(s, left(i)) > At(s, i) THEN left(i) ELSE i

largest(s, n, i) ==
  LET l == left(i)
      r == right(i)
      lg == IF l < n /\ At(s, l) > At(s, i) THEN l ELSE i
  IN  IF r < n /\ At(s, r) > At(s, lg) THEN r ELSE lg

\* Vec::swap_remove(0): the last element moves into slot 0, length shrinks
swap_remove_first(s) == SubSeq(Swap(s, 0, Len(s) - 1), 1, Len(s) - 1)

(***************************************************************************)
(* The max-heap property of the spec, on the prefix a[..n]: every occupied *)
(* slot other than the root is no greater than its parent.                 *)
(***************************************************************************)
HeapOrdered(s, n) == \A j \in 1..(n - 1) : At(s, parent(j)) >= At(s, j)

\* The number of times v occurs in s: a Vec's contents as a multiset
Occurrences(s, v) == Cardinality({i \in 1..Len(s) : s[i] = v})

=============================================================================
