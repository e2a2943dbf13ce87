SPECIFICATION FairSpec
CONSTANTS
  Threshold = 1
  PressCount = 2
  Cells = {c1, c2}
  None = None
  FileSizes = {0, 3}
  SegmentOf <- MCSegments
  HandshakeSize = 2
  BufferSize = 2
  ResponseSizes = {0, 2, 3}
  Retries = 1
INVARIANTS
  Served
  NoMoreThanAsked
  OneEncoding
  ButtonComesBack
PROPERTIES
  PressIsSteady
  LoadEnds
CHECK_DEADLOCK FALSE
