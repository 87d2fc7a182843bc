---------------------------- MODULE MCBinaryHeap ----------------------------
(***************************************************************************)
(* BinaryHeap for TLC.  Three priorities, so that ties and strict orders   *)
(* both occur among siblings and between parent and child; a capacity of   *)
(* seven, a full tree of three levels, so that heapify recurses twice down *)
(* either side (0 -> 1 -> 3, 0 -> 2 -> 6), sift-up climbs two levels and    *)
(* build-heap runs three heapify calls.                                    *)
(***************************************************************************)
EXTENDS BinaryHeap, TLC

MCValues == {1, 2, 3}

MCCapacity == 7

=============================================================================
