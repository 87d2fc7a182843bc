------------------------ MODULE MCBinaryHeapRefinement ------------------------
(***************************************************************************)
(* The refinement checked on the bounds of MCBinaryHeap: three values and *)
(* a full three-level tree.                                                *)
(***************************************************************************)
EXTENDS BinaryHeapRefinement, TLC

MCValues == 1..3

MCCapacity == 7
=============================================================================
