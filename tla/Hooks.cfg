CONSTANTS
  Bytes <- AllBytes
  Continuation <- NoBytes
  Root <- CommandG
  MaxItems = 4
  Shells <- AllShells
  BoundChars <- Chars
  Lines <- OtherLines
  MaxVisible = 2
  MaxOutput = 1
  MaxLine = 6

SPECIFICATION HookSpec

INVARIANTS
  HookPopupConsistent
  RowsAreErasable

PROPERTIES
  AcceptReplacesOffered
  OffersAreUnderstood
