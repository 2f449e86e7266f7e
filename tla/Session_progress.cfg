CONSTANTS
  Bytes <- AsciiBytes
  Continuation <- NoBytes
  MaxVisible = 2
  MinPopupWidth = 30
  MaxPopupWidth = 70
  ReportsLine = TRUE
  StartMode = "prompt"
  Keys <- MCKeys
  Typing <- TypeEnds
  Suggestions <- OneItem
  Columns <- WideAndNarrow
  StartColumns = 80
  ShellMayExit <- AnyMode
  WriteCap = 1
  PtyWriteCap = 1
  PtyOutCap = 1
  DebounceCap = 1

SPECIFICATION ResponsiveSpec

PROPERTIES
  KeysAreHandled
  ShellExitEndsSession
