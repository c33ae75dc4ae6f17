CONSTANTS
  Streams <- MCStreams
  Byte = {0, 1, 2}
  Zero = 0
  W = 3
  OutSize = 2
  MaxCopy = 3
  MaxTotal = 10
  MayFail = TRUE
  LengthTables <- MCTables
  MaxBits = 3
  MaxInput = 3
SPECIFICATION DeflateSpec
INVARIANTS WindowIsPast OutputInOrder IntactIsInflated IndexInTable DecodesWhenAllUsed
PROPERTIES InflateEnds
CHECK_DEADLOCK FALSE
