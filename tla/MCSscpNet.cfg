SPECIFICATION FairSpec
CONSTANTS
  ConnectionMax = 2
  ListenerMax = 1
  RxMax = 3
  Urls = {u1}
  Paths <- MCPaths
  Pieces = {0, 2}
  EventModes = {TRUE, FALSE}
  None = None
INVARIANTS
  UnreadIsFlagged
  BufferKept
  ReplyWhenAsked
PROPERTIES
  MessageKept
  CommandIsAnswered
CHECK_DEADLOCK FALSE
