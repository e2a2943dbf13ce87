SPECIFICATION SerialSpec
CONSTANTS
  Max = 5
  NameLens = {2, 4}
  PayloadLens = {0, 1, 2}
  ChunkMax = 3
  SentMax = 9
  MaxConn = 2
  MaxTx = 3
  FifoMax = 2
  Values = {1, 258}
  Unset = 0
INVARIANTS
  BufferNotOverrun
  ConservedUnlessGarbled
  BytesConserved
  WaitingIsWatched
  LineAsSet
PROPERTY
  ImplementsFraming
CHECK_DEADLOCK FALSE
