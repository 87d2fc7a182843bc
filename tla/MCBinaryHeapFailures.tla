------------------------- MODULE MCBinaryHeapFailures -------------------------
(***************************************************************************)
(* The failure path on three values and capacity 3: a root and two        *)
(* children are enough for a half-done Extend to put a smaller element     *)
(* above a greater one.                                                    *)
(***************************************************************************)
EXTENDS BinaryHeapFailures, TLC

MCValues == 1..3

MCCapacity == 3
=============================================================================
