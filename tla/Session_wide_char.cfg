CONSTANTS
  Bytes <- WideBytes
  Continuation <- WideTails
  MaxVisible = 2
  MinPopupWidth = 30
  MaxPopupWidth = 70
  ReportsLine = FALSE
  StartMode = "prompt"
  Keys <- WideKeys
  Typing <- TypeWideChar
  Suggestions <- OneItem
  Columns <- Wide
  StartColumns = 80
  ShellMayExit <- NoMode
  WriteCap = 2
  PtyWriteCap = 2
  PtyOutCap = 2
  DebounceCap = 2

SPECIFICATION Spec

PROPERTIES
  AcceptReplacesWord
