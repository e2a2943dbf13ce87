SPECIFICATION Spec
CONSTANTS
  ConnectionMax = 2
  Cells = {c1}
  None = None
  Totals = {0, 2}
  Sizes = {1}
  ReplyRoom = 1
  MoreChunks = {0, 1}
  MaxBacklog = 2
  Overlap = FALSE
  EventModes = {TRUE, FALSE}
INVARIANTS
  Linked
  NoHandleLeaks
