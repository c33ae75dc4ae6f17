CONSTANTS
  LengthTables <- MCTables
  MaxBits = 3
  MaxInput = 3
SPECIFICATION HuffmanSpec
INVARIANTS DecodesCanonical
CHECK_DEADLOCK FALSE
