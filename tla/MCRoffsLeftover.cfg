SPECIFICATION Spec
CONSTANTS
  n1 = n1
  n2 = n2
  s1 = s1
  Names <- MCNames
  Strip <- MCStrip
  Values = {v1}
  Conns = {c1, c2}
  SecSize = 4
  Base = 4
  Top = 12
  Chunk = 3
  Erased = Erased
  Stale = Stale
  Garbled = Garbled
  None = None
INVARIANT
  LeftoverSkipped
CHECK_DEADLOCK FALSE
