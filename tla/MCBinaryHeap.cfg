CONSTANTS
  Values <- MCValues
  Capacity <- MCCapacity

SPECIFICATION Spec

INVARIANT TypeOK
INVARIANT HeapInv
INVARIANT DrainSortedContract

PROPERTY CallsComplete
PROPERTY PopReturnsMax
