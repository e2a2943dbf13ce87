SPECIFICATION Spec
CONSTANTS
  Default = d
  Values = {d, v1, v2}
  Bad = Bad
  DefaultSeq = 1
  MaxSeq = 4
  Faults <- MCFaults
INVARIANTS
  Recoverable
  DurableOnceSettled
PROPERTY
  ImplementsStore
