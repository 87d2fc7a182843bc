CONSTANTS
  Values <- MCValues
  Capacity <- MCCapacity
SPECIFICATION Spec
\* into_vec, into_sorted_vec and an IntoIterSorted's Drop end the heap's
\* life: those final states have no successor by design.
CHECK_DEADLOCK FALSE
INVARIANT TypeOK
INVARIANT SortedVecContract
INVARIANT IterSortedContract
PROPERTY ConversionsFinish
