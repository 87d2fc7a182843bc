CONSTANTS
  Values <- MCValues
  Capacity <- MCCapacity
SPECIFICATION Spec
PROPERTY PQSpecImplemented
