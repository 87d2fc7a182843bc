---------------------------- MODULE MCIntoSorted ----------------------------
(***************************************************************************)
(* IntoSorted on four values and capacity 7: every heap-ordered Vec of up  *)
(* to a full three-level tree, with duplicates and distinct values, so the *)
(* sort loop's heapify recurses twice on its longest prefixes and equal   *)
(* children meet.                                                          *)
(***************************************************************************)
EXTENDS IntoSorted, TLC

MCValues == 1..4

MCCapacity == 7
=============================================================================
