CONSTANTS
  Bytes <- AsciiBytes
  Continuation <- NoBytes
  MaxVisible = 2
  MinPopupWidth = 30
  MaxPopupWidth = 70
  ReportsLine = FALSE
  StartMode = "prompt"
  Keys <- MCKeys
  Typing <- TypePopupKeys
  Suggestions <- OneOrThree
  Columns <- Wide
  StartColumns = 80
  ShellMayExit <- NoMode
  WriteCap = 2
  PtyWriteCap = 1
  PtyOutCap = 1
  DebounceCap = 2

SPECIFICATION Spec

INVARIANTS
  PopupAlwaysConsistent
  SelectionIsDrawn
  EnterErasesFirst

PROPERTIES
  AcceptReplacesWord
