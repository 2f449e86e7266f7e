CONSTANTS
  Bytes <- AsciiBytes
  Continuation <- NoBytes
  MaxVisible = 2
  MinPopupWidth = 30
  MaxPopupWidth = 70
  ReportsLine = FALSE
  StartMode = "prompt"
  Keys <- MCKeys
  Typing <- TypeTab
  Suggestions <- ThreeItems
  Columns <- Wide
  StartColumns = 80
  ShellMayExit <- NoMode
  WriteCap = 2
  PtyWriteCap = 2
  PtyOutCap = 2
  DebounceCap = 2

SPECIFICATION Spec

PROPERTIES
  AcceptErasesPopup
