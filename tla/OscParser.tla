------------------------------ MODULE OscParser ------------------------------
(***************************************************************************)
(* The parser of the markers that the shell integration hides in the       *)
(* shell's output (session/osc.rs).  It is fed chunks, keeps its state     *)
(* from one to the next, and returns for each the bytes to pass through    *)
(* and the events.                                                         *)
(*                                                                         *)
(* A byte is a member of a small set: ESC, the rest of the prefix, BEL,    *)
(* the separator, and one byte for each of the codes, the base64 text and  *)
(* the digits of a payload.                                                *)
(***************************************************************************)
EXTENDS Naturals, Sequences, FiniteSets, SequencesExt

CONSTANTS
  Prefix,        \* OSC_PREFIX, ESC first
  Terminator,    \* OSC_TERMINATOR, BEL
  PayloadLimit,  \* the longest payload (65536)
  Outputs        \* what the shell may write

ASSUME OscAssumption ==
  /\ Prefix \in Seq(STRING) /\ Len(Prefix) >= 2
  /\ \A i \in 2 .. Len(Prefix) : Prefix[i] # Prefix[1]
  /\ \A i \in 1 .. Len(Prefix) : Prefix[i] # Terminator
  /\ PayloadLimit \in Nat
  /\ Outputs \subseteq Seq(STRING)

VARIABLES
  output,       \* what the shell writes
  fed,          \* how many bytes of it have been fed, or are in hand
  chunk,        \* the bytes of the chunk in hand that feed has not looked at
  feeding,      \* whether feed is running
  parser,       \* OscParser: state, accumulator, bytes of the prefix matched
  passthrough,  \* feed's result so far: bytes
  events,       \* feed's result so far: events
  passed,       \* the bytes returned by earlier calls
  reported      \* the events returned by earlier calls

oscVars == <<output, fed, chunk, feeding, parser, passthrough, events, passed, reported>>

-----------------------------------------------------------------------------
\* parse_payload, on CODE;ARG1;ARG2 with the codes CL, PS and PE.

Separator == ";"

\* The first field of s, and what follows its separator.
Separators(s) == {i \in 1 .. Len(s) : s[i] = Separator}
First(s) ==
  LET ends == {i \in Separators(s) : \A j \in Separators(s) : i <= j}
  IN  IF ends = {} THEN s ELSE SubSeq(s, 1, (CHOOSE i \in ends : TRUE) - 1)
Rest(s) == SubSeq(s, Len(First(s)) + 2, Len(s))

\* STANDARD.decode, String::from_utf8 and parse::<usize> succeed.
IsBase64(s) == Range(s) \subseteq {"base64"}
IsNumber(s) == s # <<>> /\ Range(s) \subseteq {"digit"}

\* The event of a payload, or none (the empty sequence).
Parse(payload) ==
  LET code == First(payload)
      arguments == Rest(payload)
      buffer == First(arguments)
      cursor == Rest(arguments)
  IN  CASE code = <<"CL">> /\ Separators(payload) # {} /\ Separators(arguments) # {}
             /\ IsBase64(buffer) /\ IsNumber(cursor) ->
             <<[type |-> "CommandLine", buffer |-> buffer, cursor |-> cursor]>>
        [] code = <<"PS">> -> <<[type |-> "PromptStart"]>>
        [] code = <<"PE">> -> <<[type |-> "PromptEnd"]>>
        [] OTHER -> <<>>

-----------------------------------------------------------------------------
Esc == Prefix[1]

Normal == [state |-> "Normal", buf |-> <<>>, matched |-> 0]
Matching(n, buf) == [state |-> "MatchingPrefix", buf |-> buf, matched |-> n]

OscInit ==
  /\ output \in Outputs
  /\ fed = 0 /\ chunk = <<>> /\ feeding = FALSE
  /\ parser = Normal
  /\ passthrough = <<>> /\ events = <<>>
  /\ passed = <<>> /\ reported = <<>>

\* The reader thread has read the next bytes, and feed is called with them.
FeedStart ==
  /\ ~feeding
  /\ \E n \in fed + 1 .. Len(output) :
       /\ chunk' = SubSeq(output, fed + 1, n)
       /\ fed' = n
  /\ feeding' = TRUE
  /\ passthrough' = <<>> /\ events' = <<>>
  /\ UNCHANGED <<output, parser, passed, reported>>

\* One byte in State::Normal.
FeedNormal(byte) ==
  /\ parser.state = "Normal"
  /\ parser' = IF byte = Esc THEN Matching(1, <<byte>>) ELSE parser
  /\ passthrough' = IF byte = Esc THEN passthrough ELSE Append(passthrough, byte)
  /\ UNCHANGED events

\* One byte in State::MatchingPrefix that is the prefix's next.
FeedMatch(byte) ==
  /\ parser.state = "MatchingPrefix" /\ byte = Prefix[parser.matched + 1]
  /\ parser' = IF parser.matched + 1 = Len(Prefix)
               THEN [parser EXCEPT !.state = "InPayload", !.buf = <<>>,
                                   !.matched = Len(Prefix)]
               ELSE Matching(parser.matched + 1, Append(parser.buf, byte))
  /\ UNCHANGED <<passthrough, events>>

\* Mistaken forms of Mismatched: the ESC that ends a partial match begins nothing;
\* it begins one but is not held back.
Remismatched(byte) == Normal

RestartedWithoutEsc(byte) == IF byte = Esc THEN Matching(1, <<>>) ELSE Normal

\* One byte in State::MatchingPrefix that is not: what was held back is passed
\* through, and an ESC may begin another marker.
Mismatched(byte) == IF byte = Esc THEN Matching(1, <<byte>>) ELSE Normal

FeedMismatch(byte) ==
  /\ parser.state = "MatchingPrefix" /\ byte # Prefix[parser.matched + 1]
  /\ parser' = Mismatched(byte)
  /\ passthrough' = passthrough \o parser.buf
                      \o (IF Mismatched(byte) = Normal THEN <<byte>> ELSE <<>>)
  /\ UNCHANGED events

\* One byte in State::InPayload.
FeedPayload(byte) ==
  /\ parser.state = "InPayload"
  /\ parser' = IF byte = Terminator \/ Len(parser.buf) >= PayloadLimit
               THEN [parser EXCEPT !.state = "Normal", !.buf = <<>>]
               ELSE [parser EXCEPT !.buf = Append(@, byte)]
  /\ events' = IF byte = Terminator THEN events \o Parse(parser.buf) ELSE events
  /\ UNCHANGED passthrough

\* One turn of feed's loop.
FeedByte ==
  /\ feeding /\ chunk # <<>>
  /\ LET byte == Head(chunk)
     IN  FeedNormal(byte) \/ FeedMatch(byte) \/ FeedMismatch(byte) \/ FeedPayload(byte)
  /\ chunk' = Tail(chunk)
  /\ UNCHANGED <<output, fed, feeding, passed, reported>>

\* feed returns what the chunk amounts to.
FeedEnd ==
  /\ feeding /\ chunk = <<>>
  /\ passed' = passed \o passthrough
  /\ reported' = reported \o events
  /\ feeding' = FALSE
  /\ UNCHANGED <<output, fed, chunk, parser, passthrough, events>>

OscNext == FeedStart \/ FeedByte \/ FeedEnd

OscSpec == OscInit /\ [][OscNext]_oscVars

-----------------------------------------------------------------------------
\* The type of what the parser works on.
OscTypeOK ==
  /\ output \in Seq(STRING) /\ chunk \in Seq(STRING)
  /\ fed \in 0 .. Len(output)
  /\ feeding \in BOOLEAN
  /\ parser \in [state : {"Normal", "MatchingPrefix", "InPayload"},
                 buf : Seq(STRING), matched : 0 .. Len(Prefix)]

\* What a stream of bytes means, read as a whole.

AtPrefix(s, i) == IsPrefix(Prefix, SubSeq(s, i, Len(s)))

Ends(s, i) == {j \in i .. Len(s) : s[j] = Terminator}

Nothing == [passed |-> <<>>, events |-> <<>>]

\* A marker is reported and hidden; any other byte is passed through.
Hidden(marker, meaning) == [meaning EXCEPT !.events = Parse(marker) \o @]
Shown(byte, meaning) == [meaning EXCEPT !.passed = <<byte>> \o @]

\* What s means from i on, given what it means from each later place on.  A
\* marker that is too long is hidden up to the byte that is too many; one that is
\* not complete is not yet known, nor is a beginning of the prefix.
MeaningAt(s, from, i) ==
  LET payload == i + Len(Prefix)
      limit == payload + PayloadLimit
      ends == Ends(s, payload)
  IN  CASE i > Len(s) -> Nothing
        [] i <= Len(s) /\ AtPrefix(s, i) /\ \E j \in ends : j <= limit ->
             Hidden(SubSeq(s, payload, Min(ends) - 1), from[Min(ends) + 1])
        [] i <= Len(s) /\ AtPrefix(s, i) /\ \A j \in ends : j > limit ->
             IF limit > Len(s) THEN Nothing ELSE from[limit + 1]
        [] i <= Len(s) /\ IsStrictPrefix(SubSeq(s, i, Len(s)), Prefix) -> Nothing
        [] OTHER -> Shown(s[i], from[i + 1])

MeaningFrom(s) ==
  LET from[i \in 1 .. Len(s) + 1] == MeaningAt(s, from, i)
  IN  from

Meaning(s) == MeaningFrom(s)[1]

\* Markers are found wherever the chunks are cut: after every call of feed, what
\* was passed to the terminal and what was reported to the session are the
\* meaning of the bytes read so far.
ChunksDoNotMatter ==
  ~feeding =>
    /\ passed = Meaning(SubSeq(output, 1, fed)).passed
    /\ reported = Meaning(SubSeq(output, 1, fed)).events

\* What the parser holds back is what a mismatch must give back: the part of the
\* prefix it has matched, or a payload that is not yet too long, or nothing.  So
\* the index into OSC_PREFIX (osc.rs:93) is never past its end.
HoldsWhatItMatched ==
  \/ parser.state = "Normal" /\ parser.buf = <<>>
  \/ /\ parser.state = "MatchingPrefix"
     /\ parser.matched \in 1 .. Len(Prefix) - 1
     /\ parser.buf = SubSeq(Prefix, 1, parser.matched)
  \/ parser.state = "InPayload" /\ Len(parser.buf) <= PayloadLimit
==============================================================================
