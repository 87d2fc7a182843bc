CONSTANTS
  Values <- MCValues
  Capacity <- MCCapacity
SPECIFICATION Spec
\* The heap ends once consumed; only the invariant below is in question.
CHECK_DEADLOCK FALSE
INVARIANT StrictlyDescending
