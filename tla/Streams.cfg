CONSTANTS
  Prefix <- ShortPrefix
  Terminator = "bel"
  PayloadLimit = 5
  Outputs <- AnyOutputs
  Printable <- AnyPrintable
  Final <- AnyFinal
  Characters <- AnyCharacters
  ChunkLimit = 4
  Keyboard <- AnyKeyboard
  Typed <- AnyTyped

SPECIFICATION Spec

INVARIANTS
  ChunksDoNotMatter
  HoldsWhatItMatched
  BytesReachShell
  KeystrokesRecognised

\* Streams end.
CHECK_DEADLOCK FALSE
