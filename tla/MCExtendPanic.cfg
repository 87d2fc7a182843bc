CONSTANTS
  Values <- MCValues
  Capacity <- MCCapacity
SPECIFICATION PanicSpec
INVARIANT HeapInv
