------------------------------ MODULE KeyParser ------------------------------
(***************************************************************************)
(* The parser of the bytes the terminal sends for keys (session/keys.rs)   *)
(* and the loop of the stdin task that reads them in chunks, or waits 10ms *)
(* for what follows an ESC (session/event_loop.rs:124-176).                *)
(*                                                                         *)
(* A byte is a member of a small set, by the classes the parser tells      *)
(* apart; a keystroke is the bytes the terminal sends for it and the event *)
(* it stands for.                                                          *)
(***************************************************************************)
EXTENDS Naturals, Sequences, FiniteSets, SequencesExt, FiniteSetsExt

CONSTANTS
  Printable,     \* 0x20 to 0x7e
  Final,         \* 0x40 to 0x7e, what ends a CSI sequence
  Characters,    \* the characters of several bytes, as their UTF-8 bytes
  ChunkLimit,    \* the size of the stdin task's buffer (256)
  Keyboard,      \* keystrokes: [bytes, event]
  Typed          \* what the user may type: sequences of keystrokes

VARIABLES
  typed,      \* the keystrokes
  read,       \* how many of their bytes were read
  pending,    \* escape_pending
  handled,    \* the events handed to handle_key_event
  cuts,       \* history: where chunks ended
  pauses      \* history: where the 10ms passed

keyVars == <<typed, read, pending, handled, cuts, pauses>>

-----------------------------------------------------------------------------
\* KeyEvent.

Key(type) == [type |-> type, bytes |-> <<>>]
Char(bytes) == [type |-> "Char", bytes |-> bytes]
Raw(bytes) == [type |-> "Raw", bytes |-> bytes]

Arrow == [A |-> "ArrowUp", B |-> "ArrowDown", C |-> "ArrowRight", D |-> "ArrowLeft"]

Control == [etx |-> "CtrlC", eot |-> "CtrlD", tab |-> "Tab", ff |-> "CtrlL",
            cr |-> "Enter", del |-> "Backspace", bs |-> "Backspace"]

ASSUME KeyAssumption ==
  /\ Final \subseteq Printable /\ "[" \in Final
  /\ Printable \subseteq STRING /\ Printable \cap ({"esc"} \cup DOMAIN Control) = {}
  /\ ChunkLimit \in Nat \ {0}
  /\ \A stroke \in Keyboard : stroke.bytes \in Seq(STRING)
  /\ Typed \subseteq Seq(Keyboard)

\* The bytes of the terminals' convention, and the event they stand for: an ESC
\* alone, a control byte, a character, an ESC with a byte (Alt), an ESC [ with an
\* arrow's letter, or with what ends in its first final byte.
Conventional(bytes, event) ==
  LET first == bytes[1]
      Known == Printable \cup {"esc"} \cup DOMAIN Control
  IN  \/ /\ Len(bytes) = 1
         /\ \/ first = "esc" /\ event = Key("Escape")
            \/ first \in DOMAIN Control /\ event = Key(Control[first])
            \/ first \in Printable /\ event = Char(bytes)
            \/ first \notin Known \cup {c[1] : c \in Characters} /\ event = Raw(bytes)
      \/ Len(bytes) \in 2 .. 4 /\ bytes \in Characters /\ event = Char(bytes)
      \/ Len(bytes) = 2 /\ first = "esc" /\ bytes[2] # "[" /\ event = Raw(bytes)
      \/ /\ Len(bytes) >= 3 /\ first = "esc" /\ bytes[2] = "["
         /\ \/ Len(bytes) = 3 /\ bytes[3] \in DOMAIN Arrow /\ event = Key(Arrow[bytes[3]])
            \/ /\ bytes[3] \notin DOMAIN Arrow /\ event = Raw(bytes)
               /\ \A i \in 3 .. Len(bytes) : bytes[i] \in Final <=> i = Len(bytes)

\* UTF-8: the first byte of a character is no ASCII, and no character begins another.
ASSUME KeyboardAssumption ==
  /\ \A c, d \in Characters : IsPrefix(c, d) => c = d
  /\ \A c \in Characters : c[1] \notin Printable \cup {"esc"} \cup DOMAIN Control
  /\ \A stroke \in Keyboard : Conventional(stroke.bytes, stroke.event)

\* KeyEvent::raw_bytes: both bytes for Backspace go to the shell as DEL.
RawBytes(event) ==
  CASE event.type = "Escape" -> <<"esc">>
    [] event.type \in Range(Arrow) ->
         <<"esc", "[", CHOOSE final \in DOMAIN Arrow : Arrow[final] = event.type>>
    [] event.type = "Backspace" -> <<"del">>
    [] event.type \in Range(Control) \ {"Backspace"} ->
         <<CHOOSE byte \in DOMAIN Control : Control[byte] = event.type>>
    [] OTHER -> event.bytes

-----------------------------------------------------------------------------
\* What parse_bytes makes of one key: its events, where it ends, whether an ESC
\* is left pending.

Token(events, next) == [events |-> events, next |-> next, pending |-> FALSE]

\* Mistaken form of CutCsi: nothing is made of an ESC [ that ends the chunk.
CutCsiDropped == <<>>

\* An ESC [ that ends the chunk.
CutCsi == <<Raw(<<"esc", "[">>)>>

\* A CSI sequence whose ESC [ ends before i: an arrow, or what it is up to its
\* final byte or to the end of the chunk.
Csi(buf, i) ==
  LET ends == {j \in i .. Len(buf) : buf[j] \in Final}
      end == IF ends = {} THEN Len(buf) ELSE Min(ends)
  IN  CASE i > Len(buf) -> Token(CutCsi, i)
        [] i <= Len(buf) /\ buf[i] \in DOMAIN Arrow ->
             Token(<<Key(Arrow[buf[i]])>>, i + 1)
        [] OTHER -> Token(<<Raw(<<"esc", "[">> \o SubSeq(buf, i, end))>>, end + 1)

\* decode_utf8_char: how many bytes make a character at i, if any do.
Decodings(buf, i) ==
  {n \in 2 .. 4 : i + n - 1 <= Len(buf) /\ SubSeq(buf, i, i + n - 1) \in Characters}

\* The key at i.
KeyAt(buf, i) ==
  LET byte == buf[i]
  IN  CASE byte = "esc" /\ i = Len(buf) ->
             [events |-> <<>>, next |-> i + 1, pending |-> TRUE]
        [] byte = "esc" /\ i < Len(buf) ->
             IF buf[i + 1] = "[" THEN Csi(buf, i + 2)
             ELSE Token(<<Raw(<<"esc", buf[i + 1]>>)>>, i + 2)
        [] byte \in DOMAIN Control -> Token(<<Key(Control[byte])>>, i + 1)
        [] byte \in Printable -> Token(<<Char(<<byte>>)>>, i + 1)
        [] OTHER ->
             IF Decodings(buf, i) = {} THEN Token(<<Raw(<<byte>>)>>, i + 1)
             ELSE LET n == Max(Decodings(buf, i))
                  IN  Token(<<Char(SubSeq(buf, i, i + n - 1))>>, i + n)

\* The keys from i on, given those from each later place on.
KeysAt(buf, from, i) ==
  IF i > Len(buf) THEN Token(<<>>, i)
  ELSE LET key == KeyAt(buf, i)
           rest == from[key.next]
       IN  [rest EXCEPT !.events = key.events \o @, !.pending = key.pending \/ @]

Keys(buf) ==
  LET from[i \in 1 .. Len(buf) + 1] == KeysAt(buf, from, i)
  IN  from

\* The events of first, and those of the keys after it.
KeysFrom(buf, first) ==
  LET rest == Keys(buf)[first.next]
  IN  [events |-> first.events \o rest.events, pending |-> rest.pending]

\* Mistaken form of ParseBytes: a pending ESC is an Escape whatever follows.
ParseBytesForgetful(buf, escapePending) ==
  KeysFrom(buf, Token(IF escapePending THEN <<Key("Escape")>> ELSE <<>>, 1))

\* parse_bytes: a pending ESC and a [ begin a CSI sequence, a pending ESC and
\* anything else, or nothing, are an Escape.
ParseBytes(buf, escapePending) ==
  KeysFrom(buf, CASE ~escapePending -> Token(<<>>, 1)
                  [] escapePending /\ IsPrefix(<<"[">>, buf) -> Csi(buf, 2)
                  [] OTHER -> Token(<<Key("Escape")>>, 1))

-----------------------------------------------------------------------------
BytesOf(strokes) == FlattenSeq([k \in 1 .. Len(strokes) |-> strokes[k].bytes])

KeyInit ==
  /\ typed \in Typed
  /\ read = 0 /\ pending = FALSE /\ handled = <<>>
  /\ cuts = {} /\ pauses = {}

\* What parse_bytes returned is handled, and its flag kept for the next turn.
Handle(buf) ==
  /\ handled' = handled \o ParseBytes(buf, pending).events
  /\ pending' = ParseBytes(buf, pending).pending

\* stdin.read returns bytes that have arrived.
StdinChunk ==
  \E n \in 1 .. ChunkLimit :
    /\ read + n <= Len(BytesOf(typed))
    /\ Handle(SubSeq(BytesOf(typed), read + 1, read + n))
    /\ read' = read + n
    /\ cuts' = cuts \cup {read + n}
    /\ UNCHANGED <<typed, pauses>>

\* Nothing followed an ESC within 10ms.
StdinTimeout ==
  /\ pending
  /\ Handle(<<>>)
  /\ pauses' = pauses \cup {read}
  /\ UNCHANGED <<typed, read, cuts>>

KeyNext == StdinChunk \/ StdinTimeout

KeySpec == KeyInit /\ [][KeyNext]_keyVars

-----------------------------------------------------------------------------
\* What the shell has been sent, if every event is forwarded; and bytes but for
\* the difference of the two that are a Backspace.
Forwarded == FlattenSeq([k \in 1 .. Len(handled) |-> RawBytes(handled[k])])
UpToBackspace(bytes) == [i \in 1 .. Len(bytes) |-> IF bytes[i] = "bs" THEN "del" ELSE bytes[i]]

\* However what is typed is cut and whatever timeouts come in between, the bytes
\* of the events are the bytes that were read, in their order, but for an ESC
\* that is still pending and a 0x08 that becomes 0x7f: no key is lost, made up,
\* sent twice or cut short.
BytesReachShell ==
  UpToBackspace(Forwarded \o (IF pending THEN <<"esc">> ELSE <<>>))
    = UpToBackspace(SubSeq(BytesOf(typed), 1, read))

\* Where keystroke k ends.
End(k) == Len(BytesOf(SubSeq(typed, 1, k)))

IsEscape(k) == typed[k].bytes = <<"esc">>

\* Chunks end at the end of a keystroke or after the ESC of a CSI sequence; an
\* Escape ends a chunk, and 10ms pass before a [ is typed; they pass nowhere else.
CleanlyCut ==
  /\ \A c \in cuts : \E k \in 1 .. Len(typed) :
       \/ c = End(k)
       \/ c = End(k - 1) + 1 /\ IsPrefix(<<"esc", "[">>, typed[k].bytes)
  /\ \A k \in 1 .. Len(typed) : IsEscape(k) /\ End(k) <= read =>
       /\ End(k) \in cuts
       /\ End(k) < read /\ BytesOf(typed)[End(k) + 1] = "[" => End(k) \in pauses
  /\ \A p \in pauses : \E k \in 1 .. Len(typed) : IsEscape(k) /\ p = End(k)

\* Keystrokes that are cleanly cut are the events the keyboard stands for: an
\* arrow whose ESC came alone is an arrow, an Escape is an Escape.
KeystrokesRecognised ==
  CleanlyCut /\ ~pending =>
    \A k \in 0 .. Len(typed) :
      End(k) = read => handled = [j \in 1 .. k |-> typed[j].event]
==============================================================================
