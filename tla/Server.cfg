CONSTANTS
  Backlog = 3
  SqSize = 2
SPECIFICATION Spec
INVARIANTS TypeOK OneOutstandingAccept NoDescriptorKept
PROPERTIES EndsOnlyOnAFailedCall QueuedIsServed ImplementsAcceptDrop
