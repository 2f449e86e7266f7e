------------------------------ MODULE Tokenizer ------------------------------
(***************************************************************************)
(* The two scans of a command line: engine/parser.rs cuts it into tokens   *)
(* for the daemon, and session/popup.rs looks in the same line for the     *)
(* start of the token that an accepted suggestion replaces.  Both walk the *)
(* characters with the same quoting rules; every character they treat      *)
(* specially is one byte long, so they are walked here byte by byte.       *)
(***************************************************************************)
EXTENDS Text

Blanks == {" ", "\t"}
Backslash == "\\"
SingleQuote == "'"
DoubleQuote == "\""

Quoting == [escape : BOOLEAN, single : BOOLEAN, double : BOOLEAN]

Unquoted == [escape |-> FALSE, single |-> FALSE, double |-> FALSE]

\* Whether the byte changes the quoting state instead of standing for itself.
IsSyntax(q, byte) ==
  /\ ~q.escape
  /\ \/ byte \in {Backslash, DoubleQuote} /\ ~q.single
     \/ byte = SingleQuote /\ ~q.double

\* Whether the byte ends a token.
IsDelimiter(q, byte) ==
  byte \in Blanks /\ ~q.escape /\ ~q.single /\ ~q.double

NextQuoting(q, byte) ==
  IF ~IsSyntax(q, byte) THEN [q EXCEPT !.escape = FALSE]
  ELSE CASE byte = Backslash -> [q EXCEPT !.escape = TRUE]
         [] byte = SingleQuote -> [q EXCEPT !.single = ~@]
         [] byte = DoubleQuote -> [q EXCEPT !.double = ~@]

\* The quoting state after each prefix of s.
Quotes(s) ==
  LET after[n \in 0 .. Len(s)] ==
        IF n = 0 THEN Unquoted ELSE NextQuoting(after[n - 1], s[n])
  IN  after

\* The offsets just after the delimiters of s.
TokenBoundaries(s) ==
  {n \in 1 .. Len(s) : IsDelimiter(Quotes(s)[n - 1], s[n])}

\* PopupState::find_token_start: the last token boundary before the cursor,
\* which the code uses as a byte offset.
FindTokenStart(line, cursor) ==
  Greatest(TokenBoundaries(UpTo(line, Least(cursor, Len(line)))))

\* parser::tokenize: the complete tokens before the cursor (here an index of a
\* character) and the partial token at it.
Tokenize(line, cursor) ==
  LET text == UpTo(line, CharToByte(line, cursor))
      Closed(t) == IF t.partial = <<>> THEN t
                   ELSE [tokens |-> Append(t.tokens, t.partial), partial |-> <<>>]
      scan[n \in 0 .. Len(text)] ==
        IF n = 0 THEN [tokens |-> <<>>, partial |-> <<>>]
        ELSE IF IsDelimiter(Quotes(text)[n - 1], text[n]) THEN Closed(scan[n - 1])
        ELSE IF IsSyntax(Quotes(text)[n - 1], text[n]) THEN scan[n - 1]
        ELSE [scan[n - 1] EXCEPT !.partial = Append(@, text[n])]
      all == scan[Len(text)]
  IN  IF text # <<>> /\ text[Len(text)] \in Blanks THEN Closed(all) ELSE all
==============================================================================
