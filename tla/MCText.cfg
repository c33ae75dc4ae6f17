CONSTANTS
  Inputs <- MCInputs
  FileLists <- MCFileLists
  Char = {"x", "y"}
  Newline = "nl"
  Nul = "nul"
  Missing = Missing
  Wanted = "x"
  Size = 5
  PrevSize = 4
  Texts <- MCTexts
  TextChar = {"x", "y", "nl"}
  NewlineChar = "nl"
  LineMax = 3
SPECIFICATION MCSpec
INVARIANTS TypeOK LinesFaithful NothingHeldBack UniqGroups GrepAnswers
           ReadsWholeFile
PROPERTIES ToolEnds
CHECK_DEADLOCK FALSE
