CONSTANTS
  Texts <- MCTexts
  TextChar = {"x", "nl"}
  NewlineChar = "nl"
  LineMax = 4
SPECIFICATION RLSpec
INVARIANTS ZeroMeansEof
CHECK_DEADLOCK FALSE
