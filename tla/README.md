# Verification of coca's `BinaryHeap`

This directory holds TLA+ models of `src/src/binary_heap.rs`, TLC runs of
those models, and TLAPS proofs about them. `binary_heap.rs` is a
fixed-capacity max-heap stored in a `coca::Vec`.

## The system

A `BinaryHeap<E, B, I>` has exactly one piece of state: the vector `a` of
its elements. At most `capacity` elements fit. Between calls, `a` is in
max-heap order: `a[parent(j)] >= a[j]` for every slot `j > 0`. Several
parts act on `a`:

| part | code | what it does to `a` |
|---|---|---|
| tree helpers | `parent`, `left`, `right`, `heapify` (151-177) | `heapify(a, i)` swaps `a[i]` with its greater child and recurses into that child, until no child is greater |
| `try_push` / `push` | 283-318 | append to `a`, then the sift-up loop swaps the new slot with its parent while the parent is smaller |
| `pop` | 267-275 | `swap_remove(0)`, then `heapify(a, 0)` |
| `From<Vec>`, `Extend`, `FromIterator` | 190-206, 465-498 | append everything, then build-heap: `heapify(a, i)` for `i` from `len/2 - 1` down to 0 |
| `PeekMut` | 58-128, 244-250 | a guard on the root; writes through `DerefMut` overwrite `a[0]`; its `Drop` runs `heapify(a, 0)`; `PeekMut::pop` pops and forgets the guard |
| `DrainSorted` | 391-393, 501-556 | borrows the heap; `next()` is `pop()`; `Drop` pops until the heap is empty |
| `clear`, `drain` | 366-399 | empty `a` |
| `into_sorted_vec`, `IntoIterSorted`, `into_vec` | 403-450, 559-625 | consume the heap |
| read-only calls | `peek`, `len`, `iter`, `Debug`, ... | none |

The parts interact through `a`. A `PeekMut` or a `DrainSorted` holds
`&mut` to the heap, so while one is live the only calls possible are the
guard's or the iterator's own. The crate is single-threaded: each call
runs to completion before the next starts. What makes it hard is the
order of calls. For example, a root write may be followed by `PeekMut::pop`
instead of the guard's `Drop`. Or the caller may take some elements from a
`DrainSorted` and then drop it. Each of these sequences is correct only
because of the exact loop bounds and comparisons inside `heapify` and the
sift-up loop.

## Modules

- **`HeapOrder`** holds the array encoding. `At(s, i)` reads slot `i`:
  indices are 0-based as in the code, while TLA+ sequences start at 1.
  `parent`, `left` and `right` are the code's formulas. `Swap` is
  `slice::swap`. `largest(s, n, i)` is the child `heapify` picks in a slice
  of length `n`: the left child if it is strictly greater than `a[i]`, then
  the right child if it is strictly greater than that winner.
  `swap_remove_first` is `Vec::swap_remove(0)`. `HeapOrdered` is the
  max-heap property.
- **`BinaryHeap`** is the state machine of a heap a caller owns.
  - Variables:
    - `a`: the Vec.
    - `pc`: which call or loop is running (`idle`, `sift_up`, `heapify`,
      `build`, `guard`, `iter`, `iter_drop`).
    - `caller`: where `heapify` returns to.
    - `cur`: the index the running loop works on.
    - `k`: the build-heap loop counter.
    - `drained` and `snap`: history variables that record what a
      `DrainSorted` has yielded and the heap it started from.
  - Each turn of every loop is one step: `sift_up_step`, `heapify_step`,
    `build_step` and `drop_step`. Each loop exit is its own step as well.
    Each public call is an action that enters its loop:
    - `try_push(v)`, `push(v)`, `pop`, `extend(vs)`;
    - `peek_mut`, `guard_write(v)`, `guard_drop`, `guard_pop`;
    - `clear`, `drain`;
    - `drain_sorted`, `iter_next`, `iter_drop`.
  - `Init` is `from_buf` (the empty heap of `From<B>`) or `from_vec(v)` (any
    `Vec` of up to `Capacity` values entering build-heap, as `From<Vec>` and
    `FromIterator` do).
  - `is_empty` and `is_full` are the guards the code tests; `peek` is
    `a.first()`.
- **`BinaryHeapFailures`** adds a way a call can be left half done:
  `extend_overflow(vs)`, where the Vec's `extend` panics after appending
  what fit, so build-heap never runs. `PanicSpec` adds it to `Next`.
- **`DrainSortedSizeHint`** adds `DrainSorted::size_hint` (lines 518-521)
  to `BinaryHeap`. Its `self.len()` resolves to `ExactSizeIterator`'s
  provided `len`, because the impl at lines 528-534 is empty. That `len`
  calls `size_hint` again.
  - `size_hint` is the owner's call on a live iterator.
  - `call_len` and `call_size_hint` are the two calls. Each pushes a frame
    (`depth`).
  - `stack_overflow` is a call made when `StackLimit` frames are already on
    the stack. It aborts the process.
- **`IntoSorted`** models the conversions that consume a heap, starting from
  any heap-ordered Vec (which is what `HeapInvariant` proves a caller holds):
  `into_vec` and `into_iter` (the Vec in storage order), `into_sorted_vec`
  with its loop (`sort_step`: `swap(0, i)`, then `heapify` of the prefix
  `a[..i]`, whose length is `HeapLen`; `sort_done`), and `into_iter_sorted`
  with `next` and the `Drop` loop. `orig` and `out` are history variables:
  the heap's contents when consumed, and what the iterator yielded.
- **`PriorityQueue`** is the abstract specification: a bounded multiset
  `elems`, a `mode` (`free`, `guard` or `drain`) and the element `top` a
  guard exposes. Each call is one atomic step: `Push`, `Extend`, `Clear`,
  `Pop` and `DrainNext` (which remove a maximum), `PeekMut` (which exposes
  a maximum), `Write`, `Release`, `TakeTop`, `DrainSorted` and `EndDrain`.
- **`BinaryHeapRefinement`** maps `BinaryHeap` onto `PriorityQueue`:
  `elems <- ToBag(a)`, `mode` from `GuardLive` (a `PeekMut` exists) and
  `DrainLive` (a `DrainSorted` exists, including the `heapify` of its pops),
  and `top <- Top`, the root that `PeekMut`'s `Deref` returns. Each call
  changes the multiset in its first step (the append, the `swap_remove`, the
  write). The loop steps after it only permute the Vec, so they map to
  abstract stutters.
- **`MCBinaryHeap`**, **`MCBinaryHeapRefinement`**, **`MCIntoSorted`**,
  **`MCBinaryHeapFailures`** and **`MCDrainSortedSizeHint`** instantiate the
  models for TLC.
- **`HeapOrderProofs`** holds the lemmas about the array encoding that
  every proof uses: sift-up and sift-down steps, `swap_remove(0)`, the
  root maximum, the occurrence counts, and how a prefix `a[..n]` inherits
  `largest`, `Swap` and heap order from the whole Vec.
- **`BinaryHeapProofs`** holds the TLAPS proofs of the type, heap-order and
  max-extraction theorems. **`DrainSortedProofs`** extends it with the
  proof of the `DrainSorted` contract. **`IntoSortedProofs`** proves the
  type and the two contracts of `IntoSorted`.

Some outcomes are not steps of the model:
- `try_push` on a full heap returns `Err`, and `pop` or `peek_mut` on an
  empty heap returns `None`. The state does not change, so these are
  stutters. `push` panics in the first case, again with the heap unchanged.
- A `next()` on an exhausted `IntoIterSorted` returns `None` and changes
  nothing.

## Runs

Passing runs:

- `binary_heap` (`MCBinaryHeap.cfg`) uses values `{1, 2, 3}` and capacity 7.
  It reaches about 211,000 distinct states and checks:
  - `TypeOK`: the Vec never exceeds its capacity and the loop indices stay
    in range.
  - `HeapInv`: whenever no call is running (`idle`) or a `DrainSorted` is
    live (`iter`, `iter_drop`), `a` is in max-heap order. Every kind of call
    must restore it: sift-up, `swap_remove` followed by `heapify`,
    build-heap after `Extend`, and the guard's `Drop` after arbitrary root
    writes.
  - `DrainSortedContract`: while a `DrainSorted` is live, what it has
    yielded is in descending order, no yielded value is smaller than a value
    still in the heap, and yielded and remaining elements together are, as a
    multiset, the heap's contents when `drain_sorted` was called. So `next()`
    and the `Drop` yield the original contents in heap order, however the
    caller interleaves them.
  - `PopReturnsMax`: every `pop`, every `DrainSorted::next()` and every turn
    of its `Drop` takes an element at least as great as every element of
    the heap (spec section 8).
  - `CallsComplete`: every loop ends (sift-up, heapify's recursion,
    build-heap and the `DrainSorted` drop).
- `refinement` (`MCBinaryHeapRefinement.cfg`): same bounds. It checks
  `PQSpecImplemented`, the abstract `PriorityQueue` specification under the
  refinement mapping. Every behaviour of the heap is a behaviour of a
  bounded priority queue. No loop step gains or loses an element. `pop` and
  the sorted iterator remove a maximum, and `peek_mut` exposes one.
- `into_sorted` (`MCIntoSorted.cfg`): every heap-ordered Vec of up to 7
  elements over `{1, 2, 3, 4}` (1,805 initial states, about 110,000 in
  all). It checks:
  - `TypeOK`.
  - `SortedVecContract`: `into_sorted_vec` returns an ascending Vec that
    holds each value as often as the heap did (`Occurrences`).
  - `IterSortedContract`: what `IntoIterSorted` has yielded is descending,
    no element of it is less than one still in the heap, and yielded and
    remaining elements together hold each value as often as the heap did.
    This holds through `next()` and the `Drop` alike.
  - `ConversionsFinish`: the sort loop and the iterator's `Drop` end.

  `CHECK_DEADLOCK FALSE`: once consumed, the heap has no further calls.

Violation runs, each showing a finding in PROJECT.json:

- `strictly_descending` (`MCIntoSortedStrict.cfg`): the spec says the
  sorted iterators yield "strictly descending" elements. With two equal
  elements `next()` yields them one after the other. The code's doc says
  "heap order", which is what `IterSortedContract` checks.
- `size_hint_recursion` (`MCSizeHint.cfg`, capacity 2, a 4-frame stack)
  checks `SizeHintReturns`: a `size_hint` call on a live `DrainSorted`
  returns to the caller. It fails. Every such call alternates between
  `size_hint` and `len` until the stack is full, then aborts. Any finite
  stack gives the same trace. The code means to return
  `(len, Some(len))`, as `IntoIterSorted::size_hint` does with
  `self.heap.len()` (line 578). No test calls `size_hint`, `len()` or a
  size-hinted `collect` on a `DrainSorted`. `CHECK_DEADLOCK FALSE`: after
  the abort nothing runs.
- `extend_panic` (`MCExtendPanic.cfg`, capacity 3): an `Extend` that
  overflows panics inside the Vec's `extend` before build-heap. A caller
  that catches the panic holds a heap that violates `HeapInv`.

Why the bounds are enough:
- Capacity 7 is a full three-level tree. With it, `heapify` recurses twice,
  sift-up climbs two levels, a node can have a right child that beats its
  left one, and build-heap starts at index 2.
- For the sort, the prefix `a[..i]` shrinks through every tree shape from 7
  down to 1, and four values allow both distinct runs and ties.
- Three values give strict orders, ties, and both left and right swaps.

Each property of a passing run has a mutant in PROJECT.json: a plausible bug
in the mapped code that the run must catch.
- `try_push` without the capacity check breaks `TypeOK`.
- A `heapify` that looks only at the left child breaks `HeapInv` and
  `IterSortedContract`.
- A `DrainSorted` drop that removes elements in storage order breaks its
  contract.
- A build-heap loop that never decrements its counter breaks
  `CallsComplete`.
- A `pop` that skips `heapify` after `swap_remove(0)` breaks
  `PopReturnsMax` and the refinement.
- A pop that yields the root without removing it breaks `IntoSorted`'s
  `TypeOK`.
- Heapifying `a[..i + 1]` in the sort loop, which includes the slot just
  sorted, breaks `SortedVecContract`.
- A sort loop that never lowers `i` breaks `ConversionsFinish`.

Fairness: `WF_vars(Internal)`, where `Internal` is the steps of a call
already in progress (in `IntoSorted`: the sort loop, `heapify` and the
iterator's `Drop`). The code justifies it because it is single-threaded and
never blocks inside a call, so a started call runs to its end. A sorted
iterator that is dropped runs its whole `for_each(drop)` loop. The caller
is never forced to make another call. In `BinaryHeap` some call is always
possible, so deadlock is checked there.

## Proofs (`HeapOrderProofs`, `BinaryHeapProofs`, `DrainSortedProofs`, `IntoSortedProofs`)

The theorems hold for every `Values \subseteq Int` and every
`Capacity \in Nat`. These are the assumptions `ValuesAssumption` and
`CapacityAssumption`.

- `TypeCorrect == Spec => []TypeOK`. It goes through
  `TypeInv = TypeOK /\ (pc = "sift_up" => cur < Len(a)) /\ (pc = "guard" =>
  a # <<>>)`. The extra conjuncts say the sift-up index is a valid slot and
  a guard only exists on a non-empty heap. `DerefMut`'s `debug_assert`
  relies on the second.
- `HeapInvariant == Spec => []HeapInv`. `HeapInv` is not inductive, because
  inside a loop the array is out of order around one index. The inductive
  invariant `HeapIInv` states what each loop keeps. TLC checked it on the
  run's state space before it was proved.
  - Sift-up at `c` (`UpInv`): every edge holds except the one into `c`, and
    `c`'s parent dominates `c`'s children.
  - `heapify` at `c`, from a lower bound `lo` (`DownInv`): every edge whose
    parent is `>= lo` holds, except the edges out of `c`, and `c`'s parent
    dominates `c`'s children. `lo` is 0, or the build-heap index `k` when
    build-heap called.
  - Build-heap at `k` (`BuildInv`): every edge whose parent is `>= k` holds.
  - Inside a `PeekMut`: `DownInv(a, 0, 0)`, i.e. only the root's edges may
    be broken.

  The step proof has one case per action and rests on these lemmas:
  - `SiftDownStep`: one heapify swap moves the broken place to the chosen
    child.
  - `SiftDownDone`: when heapify returns, `BuildInv(a, lo)` holds.
  - `SiftUpStep` and `SiftUpDone`: the same two facts for the sift-up loop.
  - `PushStart`: after the append, only the new slot may be out of order.
  - `PopStart`: `swap_remove(0)` keeps every edge below the root.
  - `RootWrite`: a guard write keeps every edge below the root.
  - `BuildStart`: no parent index is at or above `len/2`, so build-heap may
    start there.
  - `BuildEnter` and `BuildInvZero`: build-heap's loop entry and exit.

- `MaxExtraction == Spec => PopReturnsMax`. Every pop from the heap
  itself starts in a state where `HeapInv` holds. `RootMax` shows that the
  root of a heap-ordered array is a maximum. Its proof is a least
  counterexample: `WFMin` over the well-founded `<` on `Nat` picks the least
  slot greater than the root. That slot is not the root, and its parent
  would be a smaller such slot. `PTL` lifts the state-level fact to the
  action property.

- `DrainSortedCorrect == Spec => []DrainSortedContract`, in
  `DrainSortedProofs`. The contract is not inductive as it stands. It says
  nothing while the `heapify` of an iterator's pop runs, yet that call must
  return to a state where the contract holds. The inductive invariant
  `DInv` is `HeapIInv` plus the contract's three clauses whenever
  `InDrain` holds. `InDrain` means a `DrainSorted` is live: in `iter` or
  `iter_drop`, or in a `heapify` whose caller is `iter` or `drop`.
  - `Descending` and `Dominates`: the popped root is a maximum by
    `RootMax`. It is at most the last drained element, because that
    element dominated the whole heap. `SwapBound` and `SwapRemoveBound`
    show that an upper bound of every element survives `Swap` and
    `swap_remove(0)`.
  - `Conserves` counts occurrences. `Occurrences(s, v)` is the cardinality
    of the set `Pos(s, v)` of slots holding `v`. Several lemmas relate
    these counts through the operations:
    - `OccSwap`: a swap keeps every count;
    - `OccDropLast` and `OccSwapRemove`: `swap_remove(0)` loses exactly
      one occurrence, the root's;
    - `OccAppend`: the appended root is counted once in `drained`;
    - `OccEmpty`: `drain_sorted` starts with the counts equal.

    These rest on `FS_AddElement`, `FS_RemoveElement` and `FS_Subset`
    from `FiniteSetTheorems`.

- `IntoSortedTypeCorrect`, `SortedVecCorrect` and `IterSortedCorrect`, in
  `IntoSortedProofs`, prove `Spec => []TypeOK`,
  `Spec => []SortedVecContract` and `Spec => []IterSortedContract` for
  `IntoSorted`. The assumptions are `ConsumedValuesAssumption` and
  `ConsumedCapacityAssumption`. All three go through one inductive
  invariant, `IInv`, which TLC checked on the `into_sorted` state space
  first. The contracts speak only of finished states, and the sort loop
  needs more than a heap to reach one. `IInv` says:
  - While the sort loop runs (`InSort`), `a[k+1..]` is sorted
    (`SortedTail`). No element of `a[..k]` exceeds one of the suffix
    (`Partition`). The counts equal those of `orig` (`SameElems`).
  - Between turns, `a[..k]` is a heap. Inside its `heapify`, the prefix
    satisfies `DownInv(Prefix, 0, cur)`.
  - On the iterator side it has `DInv`'s clauses: a heap between pops,
    `DownInv(a, 0, cur)` inside a pop's `heapify`, and the contract's three
    clauses throughout.

  A turn `swap(0, i)` moves the prefix root to slot `i`. `PrefixTop` (from
  `RootMax` on the prefix) shows that root is the prefix's largest, and the
  old `Partition` shows it is no greater than the suffix, so the suffix
  grows by one sorted slot. `PrefixSwapRemove` shows the swapped prefix
  `a[..i-1]` is `swap_remove_first(a[..i])`, so `PopStart` gives the
  `DownInv` heapify starts from.
  - `PrefixLargest`: `heapify(&mut a[..i], cur)` reads only the prefix.
  - `PrefixSwap`: its swap is a swap of the prefix.
  - `SwapInPrefix`: the swap leaves the suffix and the partition alone.
  - `SortedAtEnd`: at `k <= 1`, suffix and partition make the whole Vec
    sorted.

Left to TLC:
- `CallsComplete` and `ConversionsFinish` are liveness properties, which
  this prover does not handle.
- The refinement `PQSpecImplemented` is not proved. Its mapping
  `elems <- ToBag(a)` and the abstract specification work on bags. A
  proof would need facts about `ToBag` of a swapped, appended or shortened
  sequence, which need induction over the sequence. The prover cannot
  instantiate the library's induction theorems (their operator parameter),
  so these stay model-checked.

## Not modelled, and why

- A panicking `Ord` implementation. It would unwind from the middle of
  `heapify` or the sift-up loop with the array half-swapped. The model's
  comparisons are total and never fail, and `Ord` is caller code. This is
  listed as a hazard without a property.
- `push`'s panic on a full heap is not a step, because `try_push` has
  already left the heap unchanged.
- `Clone` (inline and `AllocHeap` heaps, `IntoIterSorted`) and the storage
  constructors `new`, `Default` and `AllocHeap::with_capacity`. They copy
  storage or create an empty heap, which is `from_buf`'s state.
- The read-only calls `len`, `capacity`, `iter`, `Debug` and
  `IntoIterSorted::size_hint` change nothing. `DrainSorted::size_hint` is
  the exception, modelled in `DrainSortedSizeHint`.
- A `PeekMut` leaked with `mem::forget` is left out of `Spec`. The
  `peek_mut` doc (lines 223-224) and spec sections 4.4 and 7 say that the
  heap may then be inconsistent, and that later calls need not repair it.
  So there is nothing the code promises to check.
- `Vec` and the index type `I` live outside this file. They are modelled as
  a sequence bounded by `Capacity`. Index overflow is not modelled: `I` must
  represent the capacity, which `From<B>` checks.
