SPECIFICATION WebSpec
CONSTANTS
  Frames <- MCFrames
  Base = 2
  PingMax = 2
  Stretches = {1, 2, 3, 7, 12, 20}
  None = None
  Requests <- MCRequests
  MaxPost = 2
  Segments = {1, 2, 3, 5, 7}
  MaxBacklog = 2
  MaxPieces = 4
  Uploads = {u1, u2}
  Files <- MCFiles
  PageLen = 2
  SectorPages = 2
  FwPages = 3
  PartAt <- MCPartAt
  FlashPages = 7
  HeaderLen = 2
  BuffSize = 3
  BufMax = 4
  Widths = {1, 6}
  HeaderMax = 1
  BuffLen = 20
  SendRoom = 13
  MaxLog = 8
  Clients = {c1, c2}
  MaxAps = 2
  EventModes = {TRUE, FALSE}
INVARIANTS
  ClosedOnce
  AnswerInOrder
  BodyOnce
  DoneIsWritten
  TextInPlace
  OneScan
PROPERTIES
  DoneIsClosed
  ImplementsWsStream
  RequestEnds
  ScanIsReported
  JoinIsDecided
CHECK_DEADLOCK FALSE
