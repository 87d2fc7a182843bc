------------------------ MODULE MCDrainSortedSizeHint ------------------------
(***************************************************************************)
(* size_hint on a DrainSorted over two values and capacity 2: any live    *)
(* DrainSorted reaches the call.  A stack of 4 frames stands for the       *)
(* thread's finite stack; every finite limit gives the same outcome.       *)
(***************************************************************************)
EXTENDS DrainSortedSizeHint, TLC

MCValues == 1..2

MCCapacity == 2

MCStackLimit == 4
=============================================================================
