CONSTANTS
  Missing = Missing
  x = x
  nl = nl
  title = title
  Octet = {x, nl}
  Eol = nl
  Heading = title
  NotThere = Missing
  Transfers <- MCStreams
  PieceLength = 2
  HoldSize = 4
  CallsBreak = TRUE
  Batches <- MCBatches
  Glyph = {"a", "b", "sp"}
  LineMax = 5
  MaxArgc = 3
  Blank = "sp"
  Nul = "nul"
  Pairs <- MCPairs
  NoSuch = Missing
  Char = {x, nl}
  MaxLines = 4
  Storage = 21
  Look = 3
  ReadsMayFail = TRUE
  Orders <- MCOrders
  Datum <- MCData
  Null = zero
  MaxBlock = 3
  StackBuf = 2
  Offsets = 16
  Name <- MCNames
  TreeCommands <- MCTreeCommands
  Forest <- MCForest
  Guest <- MCGuest
  PerRead = 2
  Meddling = 2
  CallsMayFail = TRUE
  Requests <- MCRequests
  RecvSize = 8
  Symbol = {"ok", "no", "a", "b", "cr", "lf"}
  Cr = "cr"
  Lf = "lf"
  Errors = {"no"}
  Successes = {"ok"}
  Calls <- MCCalls
  Confs <- MCConfs
  Passwds <- MCPasswds
  Absent = Missing
  Edits = 1
  All <- Everyone
  Letter = {"A", "a", "b", "r"}
  Byte = {1, 2, 3}
  Typings <- Sides
  Answers <- Sides
  BufSize = 2
  SocketSize = 1
  Terminal = TRUE
SPECIFICATION Spec
INVARIANTS RelayFaithful OutputFaithful DdAccounts FilterFaithful
           WordsOfALine LosesNothing StatusTells WalkOnce CopyFaithful BodySaved
           FailureKeepsFile OnlyGranted RunsAsAsked DiffApplies EditorFaithful
PROPERTIES RelayEnds
CHECK_DEADLOCK FALSE
