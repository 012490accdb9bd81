CONSTANTS
  Capacity = 5
  Backlog = 2
SPECIFICATION Spec
INVARIANTS NoCorruptLine
