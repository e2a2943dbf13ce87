SPECIFICATION Spec
CONSTANTS
  Default = d
  Values = {d, v1}
  Bad = Bad
  DefaultSeq = 1
  MaxSeq = 4
  Faults = {"eraseOld"}
INVARIANT
  DurableOnceReported
