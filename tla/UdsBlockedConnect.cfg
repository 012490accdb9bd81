CONSTANTS
  Capacity = 3
  Backlog = 2
SPECIFICATION Spec
PROPERTIES SendReturns
