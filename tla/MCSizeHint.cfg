CONSTANTS
  Values <- MCValues
  Capacity <- MCCapacity
  StackLimit <- MCStackLimit
SPECIFICATION HintSpec
PROPERTY SizeHintReturns
CHECK_DEADLOCK FALSE
