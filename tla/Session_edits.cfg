CONSTANTS
  Bytes <- AsciiBytes
  Continuation <- NoBytes
  MaxVisible = 2
  MinPopupWidth = 30
  MaxPopupWidth = 70
  ReportsLine = FALSE
  StartMode = "prompt"
  Keys <- MCKeys
  Typing <- TypeEdits
  Suggestions <- OneOrThree
  Columns <- Wide
  StartColumns = 80
  ShellMayExit <- AnyMode
  WriteCap = 2
  PtyWriteCap = 2
  PtyOutCap = 2
  DebounceCap = 2

SPECIFICATION Spec

INVARIANTS
  TypeOK
  
  PopupFollowsLine
  
