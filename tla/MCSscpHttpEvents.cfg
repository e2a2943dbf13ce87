SPECIFICATION FairSpec
CONSTANTS
  ConnectionMax = 2
  Cells = {c1, c2}
  None = None
  Totals = {0, 2}
  Sizes = {0, 1}
  ReplyRoom = 1
  MoreChunks = {0}
  MaxBacklog = 1
  Overlap = TRUE
  EventModes = {TRUE}
INVARIANTS
  NotFreedEarly
  EventsInOrder
PROPERTY
  SendIsAnswered
