------------------------------ MODULE StreamProofs -----------------------------
(***************************************************************************)
(* The two parsers of byte streams, for any stream, however it is cut.     *)
(*                                                                         *)
(* The marker parser never indexes its prefix past the end, holds back     *)
(* exactly what it has matched, and never accumulates more than its limit; *)
(* and what it has found and hidden is what it would have made of the      *)
(* whole stream at once.  The key parser's events are the bytes it was     *)
(* given.                                                                  *)
(***************************************************************************)
EXTENDS OscParser, KeyParser, Recursion

-----------------------------------------------------------------------------
(* The marker parser.                                                      *)

OscInv == OscTypeOK /\ HoldsWhatItMatched

\* The state in which one ESC is held back is one HoldsWhatItMatched allows.
LEMMA OneMatched ==
  /\ Matching(1, <<Esc>>) \in [state : {"Normal", "MatchingPrefix", "InPayload"},
                               buf : Seq(STRING), matched : 0 .. Len(Prefix)]
  /\ 1 \in 1 .. Len(Prefix) - 1
  /\ <<Esc>> = SubSeq(Prefix, 1, 1)
<1>1. Prefix \in Seq(STRING) /\ Len(Prefix) >= 2 /\ Len(Prefix) \in Nat
  BY OscAssumption
<1>2. Esc \in STRING
  BY <1>1 DEF Esc
<1>3. <<Esc>> = SubSeq(Prefix, 1, 1)
  BY <1>1 DEF Esc
<1> QED
  BY <1>1, <1>2, <1>3 DEF Matching

\* Holding back one more byte of the prefix.
LEMMA OneMore ==
  ASSUME NEW m \in 1 .. Len(Prefix) - 1
  PROVE  /\ Append(SubSeq(Prefix, 1, m), Prefix[m + 1]) = SubSeq(Prefix, 1, m + 1)
         /\ SubSeq(Prefix, 1, m + 1) \in Seq(STRING)
<1>1. Prefix \in Seq(STRING) /\ Len(Prefix) \in Nat /\ m + 1 \in 1 .. Len(Prefix)
  BY OscAssumption
<1> QED
  BY <1>1

\* The parser starts with nothing held back.
LEMMA OscInitInv ==
  OscInit => OscInv
<1>1. Normal \in [state : {"Normal", "MatchingPrefix", "InPayload"},
                  buf : Seq(STRING), matched : 0 .. Len(Prefix)]
  BY OscAssumption DEF Normal
<1> SUFFICES ASSUME OscInit
             PROVE  OscInv
  OBVIOUS
<1>2. /\ output \in Seq(STRING) /\ chunk \in Seq(STRING)
      /\ fed \in 0 .. Len(output) /\ feeding \in BOOLEAN
  <2>1. output \in Seq(STRING)
    BY OscAssumption DEF OscInit
  <2>2. Len(output) \in Nat
    BY <2>1
  <2>3. /\ fed = 0 /\ chunk = <<>> /\ feeding = FALSE
    BY DEF OscInit
  <2>4. chunk \in Seq(STRING)
    BY <2>3
  <2>5. fed \in 0 .. Len(output)
    BY <2>2, <2>3
  <2>6. feeding \in BOOLEAN
    BY <2>3
  <2> QED
    BY <2>1, <2>4, <2>5, <2>6
<1>3. parser = Normal
  BY DEF OscInit
<1>4. HoldsWhatItMatched
  BY <1>3 DEF HoldsWhatItMatched, Normal
<1> QED
  BY <1>1, <1>2, <1>3, <1>4 DEF OscInv, OscTypeOK

\* One byte, whichever state it finds the parser in.
LEMMA FeedByteInv ==
  ASSUME OscInv, FeedByte
  PROVE  OscInv'
<1> DEFINE byte == Head(chunk)
<1> DEFINE Parser == [state : {"Normal", "MatchingPrefix", "InPayload"},
                      buf : Seq(STRING), matched : 0 .. Len(Prefix)]
<1>1. /\ chunk \in Seq(STRING) /\ chunk # <<>> /\ parser \in Parser
      /\ byte \in STRING /\ Len(Prefix) \in Nat /\ Len(Prefix) >= 2
  BY OscAssumption DEF OscInv, OscTypeOK, FeedByte
<1>2. /\ output' \in Seq(STRING) /\ chunk' \in Seq(STRING)
      /\ fed' \in 0 .. Len(output') /\ feeding' \in BOOLEAN
  BY <1>1 DEF OscInv, OscTypeOK, FeedByte
<1>3. SUFFICES parser' \in Parser /\ HoldsWhatItMatched'
  BY <1>2 DEF OscInv, OscTypeOK
<1> HIDE DEF byte
<1>4. CASE FeedNormal(byte)
  <2>1. CASE byte = Esc
    <3>1. parser' = Matching(1, <<Esc>>)
      BY <1>4, <2>1 DEF FeedNormal
    <3> QED
      BY <3>1, OneMatched DEF HoldsWhatItMatched, Matching
  <2>2. CASE byte # Esc
    BY <1>1, <1>4, <2>2 DEF FeedNormal, OscInv, HoldsWhatItMatched
  <2> QED
    BY <2>1, <2>2
<1>5. CASE FeedMatch(byte)
  <2> DEFINE m == parser.matched
  <2>1. /\ m \in 1 .. Len(Prefix) - 1 /\ parser.buf = SubSeq(Prefix, 1, m)
        /\ byte = Prefix[m + 1]
    BY <1>5 DEF FeedMatch, OscInv, HoldsWhatItMatched
  <2>2. CASE m + 1 = Len(Prefix)
    <3>1. parser' = [parser EXCEPT !.state = "InPayload", !.buf = <<>>,
                                   !.matched = Len(Prefix)]
      BY <1>5, <2>2 DEF FeedMatch
    <3>2. parser' = [state |-> "InPayload", buf |-> <<>>, matched |-> Len(Prefix)]
      BY <1>1, <3>1
    <3>3. parser' \in Parser /\ parser'.state = "InPayload" /\ parser'.buf = <<>>
      BY <1>1, <3>2
    <3> QED
      BY <3>3, OscAssumption DEF HoldsWhatItMatched
  <2>3. CASE m + 1 # Len(Prefix)
    <3>1. parser' = Matching(m + 1, SubSeq(Prefix, 1, m + 1))
      BY <1>5, <2>1, <2>3, OneMore DEF FeedMatch
    <3>2. m + 1 \in 1 .. Len(Prefix) - 1
      BY <1>1, <2>1, <2>3
    <3>3. SubSeq(Prefix, 1, m + 1) \in Seq(STRING)
      BY <2>1, OneMore
    <3> QED
      BY <3>1, <3>2, <3>3 DEF HoldsWhatItMatched, Matching
  <2> QED
    BY <2>2, <2>3
<1>6. CASE FeedMismatch(byte)
  <2>1. CASE byte = Esc
    <3>1. parser' = Matching(1, <<Esc>>)
      BY <1>6, <2>1 DEF FeedMismatch, Mismatched
    <3> QED
      BY <3>1, OneMatched DEF HoldsWhatItMatched, Matching
  <2>2. CASE byte # Esc
    BY <1>1, <1>6, <2>2 DEF FeedMismatch, Mismatched, Normal, HoldsWhatItMatched
  <2> QED
    BY <2>1, <2>2
<1>7. CASE FeedPayload(byte)
  <2>1. CASE byte = Terminator \/ Len(parser.buf) >= PayloadLimit
    <3>1. parser' = [parser EXCEPT !.state = "Normal", !.buf = <<>>]
      BY <1>7, <2>1 DEF FeedPayload
    <3>2. parser' = [state |-> "Normal", buf |-> <<>>, matched |-> parser.matched]
      BY <1>1, <3>1
    <3> QED
      BY <1>1, <3>2 DEF HoldsWhatItMatched
  <2>2. CASE ~(byte = Terminator \/ Len(parser.buf) >= PayloadLimit)
    <3>1. /\ parser' = [parser EXCEPT !.buf = Append(@, byte)]
          /\ parser.state = "InPayload"
      BY <1>7, <2>2 DEF FeedPayload
    <3>2. parser' = [state |-> "InPayload", buf |-> Append(parser.buf, byte),
                     matched |-> parser.matched]
      BY <1>1, <3>1
    <3>3. Append(parser.buf, byte) \in Seq(STRING)
      BY <1>1
    <3>4. Len(Append(parser.buf, byte)) <= PayloadLimit
      BY <1>1, <2>2, OscAssumption
    <3> QED
      BY <1>1, <3>2, <3>3, <3>4 DEF HoldsWhatItMatched
  <2> QED
    BY <2>1, <2>2
<1> QED
  BY <1>4, <1>5, <1>6, <1>7 DEF FeedByte, byte

\* The other steps of feed leave the parser alone.
LEMMA OscNextInv ==
  OscInv /\ [OscNext]_oscVars => OscInv'
<1> SUFFICES ASSUME OscInv, [OscNext]_oscVars
             PROVE  OscInv'
  OBVIOUS
<1>1. CASE FeedStart
  <2>1. PICK n \in fed + 1 .. Len(output) : chunk' = SubSeq(output, fed + 1, n) /\ fed' = n
    BY <1>1 DEF FeedStart
  <2>2. chunk' \in Seq(STRING) /\ fed' \in 0 .. Len(output)
    BY <2>1 DEF OscInv, OscTypeOK
  <2> QED
    BY <1>1, <2>2 DEF FeedStart, OscInv, OscTypeOK, HoldsWhatItMatched
<1>2. CASE FeedByte
  BY <1>2, FeedByteInv
<1>3. CASE FeedEnd
  BY <1>3 DEF FeedEnd, OscInv, OscTypeOK, HoldsWhatItMatched
<1>4. CASE UNCHANGED oscVars
  BY <1>4 DEF oscVars, OscInv, OscTypeOK, HoldsWhatItMatched
<1> QED
  BY <1>1, <1>2, <1>3, <1>4 DEF OscNext

\* However the shell's output is cut into chunks, the marker parser holds back
\* exactly what it has matched and accumulates no more than its limit.
THEOREM HoldsWhatItMatchedAlways ==
  OscSpec => []HoldsWhatItMatched
<1>1. OscInv => HoldsWhatItMatched
  BY DEF OscInv
<1> QED
  BY <1>1, OscInitInv, OscNextInv, PTL DEF OscSpec

-----------------------------------------------------------------------------
(* What a stream means, and why it does not matter where it is cut.        *)

Event == [type : {"CommandLine"}, buffer : Seq(STRING), cursor : Seq(STRING)]
           \cup [type : {"PromptStart", "PromptEnd"}]

MeaningType == [passed : Seq(STRING), events : Seq(Event)]

\* The first field of a payload, and the rest of it.
LEMMA FieldTypes ==
  ASSUME NEW s \in Seq(STRING)
  PROVE  First(s) \in Seq(STRING) /\ Rest(s) \in Seq(STRING)
<1> DEFINE ends == {i \in Separators(s) : \A j \in Separators(s) : i <= j}
<1>1. First(s) \in Seq(STRING)
  <2>1. CASE ends = {}
    BY <2>1 DEF First
  <2>2. CASE ends # {}
    <3> DEFINE end == CHOOSE i \in ends : TRUE
    <3>1. end \in 1 .. Len(s)
      BY <2>2 DEF Separators
    <3>2. First(s) = SubSeq(s, 1, end - 1)
      BY <2>2 DEF First
    <3> HIDE DEF end
    <3>3. QED
      BY <3>1, <3>2
  <2>3. QED
    BY <2>1, <2>2
<1>2. Len(First(s)) \in Nat
  BY <1>1
<1>3. QED
  BY <1>1, <1>2 DEF Rest

LEMMA ParseType ==
  ASSUME NEW payload \in Seq(STRING)
  PROVE  Parse(payload) \in Seq(Event)
<1> DEFINE buffer == First(Rest(payload))
           cursor == Rest(Rest(payload))
<1>1. buffer \in Seq(STRING) /\ cursor \in Seq(STRING)
  BY FieldTypes
<1>2. \/ Parse(payload) = <<[type |-> "CommandLine", buffer |-> buffer, cursor |-> cursor]>>
      \/ Parse(payload) = <<[type |-> "PromptStart"]>>
      \/ Parse(payload) = <<[type |-> "PromptEnd"]>>
      \/ Parse(payload) = <<>>
  BY DEF Parse
<1> HIDE DEF buffer, cursor
<1>3. /\ [type |-> "CommandLine", buffer |-> buffer, cursor |-> cursor] \in Event
      /\ [type |-> "PromptStart"] \in Event /\ [type |-> "PromptEnd"] \in Event
  BY <1>1 DEF Event
<1>4. Parse(payload) = <<>> \/ \E e \in Event : Parse(payload) = <<e>>
  BY <1>2, <1>3, Zenon
<1>5. <<>> \in Seq(Event) /\ \A e \in Event : <<e>> \in Seq(Event)
  OBVIOUS
<1>6. QED
  BY <1>4, <1>5, Zenon

\* What has the prefix is not a part of it.
LEMMA PrefixOrPart ==
  ASSUME NEW s \in Seq(STRING), NEW i \in 1 .. Len(s), AtPrefix(s, i)
  PROVE  ~IsStrictPrefix(SubSeq(s, i, Len(s)), Prefix)
<1> DEFINE rest == SubSeq(s, i, Len(s))
<1>1. rest \in Seq(STRING) /\ Prefix \in Seq(STRING)
  BY OscAssumption
<1>2. Len(Prefix) <= Len(rest) /\ SubSeq(Prefix, 1, Len(Prefix)) = SubSeq(rest, 1, Len(Prefix))
  BY DEF AtPrefix, IsPrefix
<1> HIDE DEF rest
<1>3. ASSUME Len(rest) <= Len(Prefix) PROVE rest = Prefix
  <2>1. Len(rest) = Len(Prefix)
    BY <1>1, <1>2, <1>3
  <2>2. SubSeq(Prefix, 1, Len(Prefix)) = Prefix /\ SubSeq(rest, 1, Len(rest)) = rest
    BY <1>1
  <2>3. QED
    BY <1>2, <2>1, <2>2
<1>4. QED
  BY <1>3 DEF IsStrictPrefix, IsPrefix, rest

\* What is meant at a place, case by case.
LEMMA MeaningCases ==
  ASSUME NEW s \in Seq(STRING), NEW i \in 1 .. Len(s) + 1, NEW from,
         NEW payload, payload = i + Len(Prefix), NEW limit, limit = payload + PayloadLimit,
         NEW ends, ends = Ends(s, payload)
  PROVE  /\ payload \in Nat /\ limit \in Nat /\ payload > i /\ limit >= payload
         /\ ends \subseteq payload .. Len(s)
         /\ ends # {} => Min(ends) \in ends /\ \A j \in ends : Min(ends) <= j
         /\ i > Len(s) => MeaningAt(s, from, i) = Nothing
         /\ i <= Len(s) /\ AtPrefix(s, i) /\ (\E j \in ends : j <= limit) =>
              MeaningAt(s, from, i) =
                Hidden(SubSeq(s, payload, Min(ends) - 1), from[Min(ends) + 1])
         /\ i <= Len(s) /\ AtPrefix(s, i) /\ (\A j \in ends : j > limit) =>
              MeaningAt(s, from, i) = IF limit > Len(s) THEN Nothing ELSE from[limit + 1]
         /\ i <= Len(s) /\ ~AtPrefix(s, i) /\ IsStrictPrefix(SubSeq(s, i, Len(s)), Prefix) =>
              MeaningAt(s, from, i) = Nothing
         /\ i <= Len(s) /\ ~AtPrefix(s, i) /\ ~IsStrictPrefix(SubSeq(s, i, Len(s)), Prefix) =>
              MeaningAt(s, from, i) = Shown(s[i], from[i + 1])
<1>1. payload \in Nat /\ limit \in Nat /\ payload > i /\ limit >= payload /\ Len(s) \in Nat
  BY OscAssumption
<1>2. ends \subseteq payload .. Len(s)
  BY DEF Ends
<1>3. ends # {} => Min(ends) \in ends /\ \A j \in ends : Min(ends) <= j
  <2>1. ends \in SUBSET Nat
    BY <1>1, <1>2
  <2>2. ends # {} => \E m \in ends : \A k \in ends : m <= k
    BY <2>1, LeastNumber
  <2>3. QED
    BY <2>2 DEF Min
<1>4. MeaningAt(s, from, i) =
        CASE i > Len(s) -> Nothing
          [] i <= Len(s) /\ AtPrefix(s, i) /\ \E j \in ends : j <= limit ->
               Hidden(SubSeq(s, payload, Min(ends) - 1), from[Min(ends) + 1])
          [] i <= Len(s) /\ AtPrefix(s, i) /\ \A j \in ends : j > limit ->
               IF limit > Len(s) THEN Nothing ELSE from[limit + 1]
          [] i <= Len(s) /\ IsStrictPrefix(SubSeq(s, i, Len(s)), Prefix) -> Nothing
          [] OTHER -> Shown(s[i], from[i + 1])
  BY DEF MeaningAt
<1>5. ~((\E j \in ends : j <= limit) /\ (\A j \in ends : j > limit))
  BY <1>1, <1>2
<1>6. ~(i <= Len(s) /\ i > Len(s))
  BY <1>1
<1>7. i > Len(s) => MeaningAt(s, from, i) = Nothing
  BY <1>4, <1>6
<1> DEFINE inTime == \E j \in ends : j <= limit
           late == \A j \in ends : j > limit
           here == i <= Len(s)
           beyond == i > Len(s)
           hidden == Hidden(SubSeq(s, payload, Min(ends) - 1), from[Min(ends) + 1])
           unknown == IF limit > Len(s) THEN Nothing ELSE from[limit + 1]
<1>8. MeaningAt(s, from, i) =
         CASE beyond -> Nothing
           [] here /\ AtPrefix(s, i) /\ inTime -> hidden
           [] here /\ AtPrefix(s, i) /\ late -> unknown
           [] here /\ IsStrictPrefix(SubSeq(s, i, Len(s)), Prefix) -> Nothing
           [] OTHER -> Shown(s[i], from[i + 1])
  BY <1>4
<1>9. ~(inTime /\ late) /\ ~(here /\ beyond)
      /\ (here /\ AtPrefix(s, i) => ~IsStrictPrefix(SubSeq(s, i, Len(s)), Prefix))
  BY <1>1, <1>5, <1>6, PrefixOrPart DEF here
<1> HIDE DEF inTime, late, here, beyond, hidden, unknown
<1>10. /\ here /\ AtPrefix(s, i) /\ inTime => MeaningAt(s, from, i) = hidden
       /\ here /\ AtPrefix(s, i) /\ late => MeaningAt(s, from, i) = unknown
       /\ here /\ ~AtPrefix(s, i) =>
            MeaningAt(s, from, i) =
              IF IsStrictPrefix(SubSeq(s, i, Len(s)), Prefix) THEN Nothing
              ELSE Shown(s[i], from[i + 1])
  BY <1>8, <1>9
<1>11. i <= Len(s) /\ AtPrefix(s, i) /\ (\E j \in ends : j <= limit) =>
         MeaningAt(s, from, i) = Hidden(SubSeq(s, payload, Min(ends) - 1), from[Min(ends) + 1])
  BY <1>10, Zenon DEF inTime, here, hidden
<1>12. i <= Len(s) /\ AtPrefix(s, i) /\ (\A j \in ends : j > limit) =>
         MeaningAt(s, from, i) = IF limit > Len(s) THEN Nothing ELSE from[limit + 1]
  BY <1>10, Zenon DEF late, here, unknown
<1>13. i <= Len(s) /\ ~AtPrefix(s, i) =>
         MeaningAt(s, from, i) = IF IsStrictPrefix(SubSeq(s, i, Len(s)), Prefix) THEN Nothing
                                 ELSE Shown(s[i], from[i + 1])
  BY <1>10 DEF here
<1>14. QED
  BY <1>1, <1>2, <1>3, <1>7, <1>11, <1>12, <1>13

\* Hiding a marker and showing a byte.
LEMMA MeaningTypes ==
  ASSUME NEW meaning \in MeaningType
  PROVE  /\ \A marker \in Seq(STRING) :
              /\ Hidden(marker, meaning) \in MeaningType
              /\ Hidden(marker, meaning).passed = meaning.passed
              /\ Hidden(marker, meaning).events = Parse(marker) \o meaning.events
         /\ \A byte \in STRING :
              /\ Shown(byte, meaning) \in MeaningType
              /\ Shown(byte, meaning).passed = <<byte>> \o meaning.passed
              /\ Shown(byte, meaning).events = meaning.events
         /\ Nothing \in MeaningType
<1>1. ASSUME NEW marker \in Seq(STRING)
      PROVE  /\ Hidden(marker, meaning) \in MeaningType
             /\ Hidden(marker, meaning).passed = meaning.passed
             /\ Hidden(marker, meaning).events = Parse(marker) \o meaning.events
  <2>1. Parse(marker) \o meaning.events \in Seq(Event)
    BY ParseType, ConcatProperties DEF MeaningType
  <2>2. QED
    BY <2>1 DEF Hidden, MeaningType
<1>2. ASSUME NEW byte \in STRING
      PROVE  /\ Shown(byte, meaning) \in MeaningType
             /\ Shown(byte, meaning).passed = <<byte>> \o meaning.passed
             /\ Shown(byte, meaning).events = meaning.events
  <2>1. <<byte>> \o meaning.passed \in Seq(STRING)
    BY ConcatProperties DEF MeaningType
  <2>2. QED
    BY <2>1 DEF Shown, MeaningType
<1>3. Nothing \in MeaningType
  BY DEF Nothing, MeaningType
<1>4. QED
  BY <1>1, <1>2, <1>3

\* It has its type if what is meant later on has, and depends on nothing else.
LEMMA MeaningIsLocal ==
  ASSUME NEW s \in Seq(STRING), NEW i \in 1 .. Len(s) + 1, NEW from
  PROVE  /\ (\A j \in i + 1 .. Len(s) + 1 : from[j] \in MeaningType) =>
              MeaningAt(s, from, i) \in MeaningType
         /\ \A other : (\A j \in i + 1 .. Len(s) + 1 : from[j] = other[j]) =>
              MeaningAt(s, from, i) = MeaningAt(s, other, i)
<1> DEFINE payload == i + Len(Prefix)
           limit == payload + PayloadLimit
           ends == Ends(s, payload)
           marker == SubSeq(s, payload, Min(ends) - 1)
<1>1. /\ payload \in Nat /\ limit \in Nat /\ payload > i /\ limit >= payload
      /\ ends \subseteq payload .. Len(s)
      /\ ends # {} => Min(ends) \in ends
      /\ Len(s) \in Nat /\ i \in Nat
  BY MeaningCases
<1>2. marker \in Seq(STRING) \/ ends = {}
  <2>1. ends # {} => Min(ends) \in payload .. Len(s)
    BY <1>1
  <2> HIDE DEF ends
  <2>2. ASSUME NEW m \in payload .. Len(s) PROVE SubSeq(s, payload, m - 1) \in Seq(STRING)
    BY <1>1
  <2>3. QED
    BY <2>1, <2>2
<1>3. /\ ends # {} => Min(ends) + 1 \in i + 1 .. Len(s) + 1
      /\ limit <= Len(s) => limit + 1 \in i + 1 .. Len(s) + 1
      /\ i <= Len(s) => i + 1 \in i + 1 .. Len(s) + 1 /\ s[i] \in STRING
  BY <1>1
<1>4. ASSUME NEW f, NEW g, \A j \in i + 1 .. Len(s) + 1 : f[j] = g[j]
      PROVE  MeaningAt(s, f, i) = MeaningAt(s, g, i)
  <2>1. CASE i > Len(s)
    BY <2>1, MeaningCases
  <2>2. CASE i <= Len(s) /\ AtPrefix(s, i) /\ \E j \in ends : j <= limit
    <3>1. f[Min(ends) + 1] = g[Min(ends) + 1]
      BY <1>3, <1>4, <2>2
    <3>2. MeaningAt(s, f, i) = Hidden(marker, f[Min(ends) + 1])
          /\ MeaningAt(s, g, i) = Hidden(marker, g[Min(ends) + 1])
      BY <2>2, MeaningCases
    <3>3. QED
      BY <3>1, <3>2
  <2>3. CASE i <= Len(s) /\ AtPrefix(s, i) /\ \A j \in ends : j > limit
    <3>1. MeaningAt(s, f, i) = (IF limit > Len(s) THEN Nothing ELSE f[limit + 1])
          /\ MeaningAt(s, g, i) = (IF limit > Len(s) THEN Nothing ELSE g[limit + 1])
      BY <2>3, MeaningCases
    <3> HIDE DEF limit
    <3>2. QED
      BY <1>1, <1>3, <1>4, <3>1
  <2>4. CASE i <= Len(s) /\ ~AtPrefix(s, i)
    <3> DEFINE part == IsStrictPrefix(SubSeq(s, i, Len(s)), Prefix)
    <3>1. f[i + 1] = g[i + 1]
      BY <1>3, <1>4, <2>4
    <3>2. /\ part => MeaningAt(s, f, i) = Nothing /\ MeaningAt(s, g, i) = Nothing
          /\ ~part => MeaningAt(s, f, i) = Shown(s[i], f[i + 1])
                      /\ MeaningAt(s, g, i) = Shown(s[i], g[i + 1])
      BY <2>4, MeaningCases
    <3> HIDE DEF part
    <3>3. QED
      BY <3>1, <3>2
  <2>5. (i > Len(s) \/ i <= Len(s))
        /\ ((\E j \in ends : j <= limit) \/ (\A j \in ends : j > limit))
    BY <1>1
  <2>6. QED
    BY <2>1, <2>2, <2>3, <2>4, <2>5
<1>5. ASSUME \A j \in i + 1 .. Len(s) + 1 : from[j] \in MeaningType
      PROVE  MeaningAt(s, from, i) \in MeaningType
  <2>1. CASE i > Len(s)
    <3>1. MeaningAt(s, from, i) = Nothing
      BY <2>1, MeaningCases
    <3>2. Nothing \in MeaningType
      BY DEF Nothing, MeaningType
    <3>3. QED
      BY <3>1, <3>2
  <2>2. CASE i <= Len(s) /\ AtPrefix(s, i) /\ \E j \in ends : j <= limit
    <3>1. from[Min(ends) + 1] \in MeaningType /\ marker \in Seq(STRING)
      BY <1>2, <1>3, <1>5, <2>2
    <3>2. MeaningAt(s, from, i) = Hidden(marker, from[Min(ends) + 1])
      BY <2>2, MeaningCases
    <3> HIDE DEF marker
    <3>3. QED
      BY <3>1, <3>2, MeaningTypes
  <2>3. CASE i <= Len(s) /\ AtPrefix(s, i) /\ \A j \in ends : j > limit
    <3>1. MeaningAt(s, from, i) = (IF limit > Len(s) THEN Nothing ELSE from[limit + 1])
      BY <2>3, MeaningCases
    <3>2. Nothing \in MeaningType
      BY DEF Nothing, MeaningType
    <3> HIDE DEF limit
    <3>3. QED
      BY <1>1, <1>3, <1>5, <3>1, <3>2
  <2>4. CASE i <= Len(s) /\ ~AtPrefix(s, i)
    <3>1. MeaningAt(s, from, i) \in {Nothing, Shown(s[i], from[i + 1])}
      BY <2>4, MeaningCases
    <3>2. Nothing \in MeaningType
      BY DEF Nothing, MeaningType
    <3>3. from[i + 1] \in MeaningType /\ s[i] \in STRING
      BY <1>3, <1>5, <2>4
    <3>4. Shown(s[i], from[i + 1]) \in MeaningType
      BY <3>3, MeaningTypes
    <3>5. QED
      BY <3>1, <3>2, <3>4
  <2>5. (i > Len(s) \/ i <= Len(s))
        /\ ((\E j \in ends : j <= limit) \/ (\A j \in ends : j > limit))
    BY <1>1
  <2>6. QED
    BY <2>1, <2>2, <2>3, <2>4, <2>5
<1>6. QED
  BY <1>4, <1>5

\* The recursion of MeaningFrom has a solution, so its equations hold.
LEMMA MeaningEquation ==
  ASSUME NEW s \in Seq(STRING)
  PROVE  \A i \in 1 .. Len(s) + 1 :
           /\ MeaningFrom(s)[i] \in MeaningType
           /\ MeaningFrom(s)[i] = MeaningAt(s, MeaningFrom(s), i)
<1> DEFINE N == Len(s) + 1
           Def(g) == [i \in 1 .. N |-> MeaningAt(s, g, i)]
           step == [i \in 1 .. N |-> [f \in [1 .. N -> MeaningType] |-> MeaningAt(s, f, i)]]
<1>1. N \in Nat /\ Nothing \in MeaningType
  BY DEF Nothing, MeaningType
<1>2. ASSUME NEW i \in 1 .. N, NEW f \in [1 .. N -> MeaningType]
      PROVE  MeaningAt(s, f, i) \in MeaningType
  <2>1. \A j \in i + 1 .. N : f[j] \in MeaningType
    BY <1>1
  <2>2. QED
    BY <2>1, MeaningIsLocal
<1>3. \A i \in 1 .. N : \A f, g :
        (\A j \in i + 1 .. N : f[j] = g[j]) => MeaningAt(s, f, i) = MeaningAt(s, g, i)
  BY MeaningIsLocal
<1> HIDE DEF N
<1>4. step \in [1 .. N -> [[1 .. N -> MeaningType] -> MeaningType]]
  BY <1>2
<1>5. \A i \in 1 .. N, f \in [1 .. N -> MeaningType] : step[i][f] = MeaningAt(s, f, i)
  OBVIOUS
<1> HIDE DEF step
<1>6. \A i \in 1 .. N : \A f, g \in [1 .. N -> MeaningType] :
        (\A j \in i + 1 .. N : f[j] = g[j]) => step[i][f] = step[i][g]
  <2>1. ASSUME NEW i \in 1 .. N, NEW f \in [1 .. N -> MeaningType],
               NEW g \in [1 .. N -> MeaningType], \A j \in i + 1 .. N : f[j] = g[j]
        PROVE  step[i][f] = step[i][g]
    <3>1. MeaningAt(s, f, i) = MeaningAt(s, g, i)
      BY <1>3, <2>1
    <3>2. QED
      BY <1>5, <3>1
  <2>2. QED
    BY <2>1
<1>7. PICK f \in [1 .. N -> MeaningType] : Solves(f, step, N)
  <2>1. LooksAhead(step, MeaningType, N)
    BY <1>4, <1>6 DEF LooksAhead
  <2>2. QED
    BY <1>1, <2>1, BackwardsExist
<1>8. f = Def(f)
  BY <1>5, <1>7 DEF Solves
<1> DEFINE from == MeaningFrom(s)
<1>9. from = CHOOSE g : g = Def(g)
  BY DEF MeaningFrom, N
<1>10. from = Def(from)
  <2> HIDE DEF Def, from
  <2>1. QED
    BY <1>8, <1>9
<1> HIDE DEF from
<1>11. \A i \in 1 .. N : from[i] = MeaningAt(s, from, i)
  BY <1>10
<1>12. \A i \in 1 .. N : from[i] \in MeaningType
  <2> DEFINE S == {i \in 1 .. N : from[i] \in MeaningType}
  <2>1. ASSUME NEW i \in 1 .. N, \A j \in i + 1 .. N : j \in S PROVE i \in S
    <3>1. \A j \in i + 1 .. N : from[j] \in MeaningType
      BY <2>1
    <3>2. MeaningAt(s, from, i) \in MeaningType
      BY <3>1, MeaningIsLocal DEF N
    <3>3. QED
      BY <1>11, <3>2
  <2> HIDE DEF S
  <2>2. \A i \in 1 .. N : i \in S
    BY <1>1, <2>1, BackwardInduction
  <2>3. QED
    BY <2>2 DEF S
<1>13. QED
  BY <1>11, <1>12 DEF from, N

LEMMA ThreePieces ==
  ASSUME NEW a \in Seq(STRING), NEW b \in Seq(STRING), NEW c \in Seq(STRING)
  PROVE  Regroup(a, b, c)
BY ConcatAssociative DEF Regroup

\* b is a with the byte at its end.
Grows(a, byte, b) ==
  /\ Len(b) = Len(a) + 1
  /\ b[Len(a) + 1] = byte
  /\ \A j \in 1 .. Len(a) : b[j] = a[j]

LEMMA OneByteMore ==
  ASSUME NEW S, NEW a \in Seq(S), NEW byte \in S
  PROVE  Grows(a, byte, Append(a, byte))
BY DEF Grows

\* Where s has the whole prefix, and where it cannot have it.
LEMMA HasPrefix ==
  ASSUME NEW s \in Seq(STRING), NEW i \in 1 .. Len(s), i + Len(Prefix) - 1 <= Len(s),
         \A j \in 1 .. Len(Prefix) : s[i + j - 1] = Prefix[j]
  PROVE  AtPrefix(s, i)
<1> DEFINE rest == SubSeq(s, i, Len(s))
<1>1. Prefix \in Seq(STRING) /\ Len(Prefix) \in Nat
  BY OscAssumption
<1>2. rest \in Seq(STRING) /\ Len(rest) = Len(s) - i + 1
      /\ \A j \in 1 .. Len(rest) : rest[j] = s[i + j - 1]
  OBVIOUS
<1> HIDE DEF rest
<1>3. Len(Prefix) <= Len(rest)
  BY <1>1, <1>2
<1>4. SubSeq(Prefix, 1, Len(Prefix)) = SubSeq(rest, 1, Len(Prefix))
  <2>1. SubSeq(Prefix, 1, Len(Prefix)) = [j \in 1 .. Len(Prefix) |-> Prefix[j]]
    BY <1>1
  <2>2. SubSeq(rest, 1, Len(Prefix)) = [j \in 1 .. Len(Prefix) |-> rest[j]]
    BY <1>1, <1>2, <1>3
  <2>3. \A j \in 1 .. Len(Prefix) : rest[j] = Prefix[j]
    BY <1>1, <1>2, <1>3
  <2>4. QED
    BY <2>1, <2>2, <2>3
<1>5. QED
  BY <1>3, <1>4 DEF AtPrefix, IsPrefix, rest

LEMMA LacksPrefix ==
  ASSUME NEW s \in Seq(STRING), NEW i \in 1 .. Len(s), NEW m \in 0 .. Len(Prefix) - 1,
         i + m <= Len(s), s[i + m] # Prefix[m + 1]
  PROVE  ~AtPrefix(s, i) /\ ~IsStrictPrefix(SubSeq(s, i, Len(s)), Prefix)
<1> DEFINE rest == SubSeq(s, i, Len(s))
<1>1. Prefix \in Seq(STRING) /\ Len(Prefix) \in Nat
  BY OscAssumption
<1>2. rest \in Seq(STRING) /\ Len(rest) = Len(s) - i + 1 /\ rest[m + 1] # Prefix[m + 1]
      /\ m + 1 \in 1 .. Len(rest) /\ m + 1 \in 1 .. Len(Prefix)
  BY <1>1
<1> HIDE DEF rest
<1>3. ASSUME NEW n \in Nat, n <= Len(rest), n <= Len(Prefix), m + 1 <= n
      PROVE  SubSeq(rest, 1, n) # SubSeq(Prefix, 1, n)
  <2>1. SubSeq(rest, 1, n)[m + 1] = rest[m + 1] /\ SubSeq(Prefix, 1, n)[m + 1] = Prefix[m + 1]
    BY <1>1, <1>2, <1>3
  <2>2. QED
    BY <1>2, <2>1
<1>4. Len(Prefix) <= Len(rest) => SubSeq(Prefix, 1, Len(Prefix)) # SubSeq(rest, 1, Len(Prefix))
  BY <1>1, <1>2, <1>3
<1>5. Len(rest) <= Len(Prefix) => SubSeq(rest, 1, Len(rest)) # SubSeq(Prefix, 1, Len(rest))
  BY <1>1, <1>2, <1>3
<1>6. QED
  BY <1>4, <1>5 DEF AtPrefix, IsStrictPrefix, IsPrefix, rest

\* A byte that is not an ESC begins nothing.
LEMMA OtherByte ==
  ASSUME NEW s \in Seq(STRING), NEW i \in 1 .. Len(s), s[i] # Esc
  PROVE  MeaningFrom(s)[i] = Shown(s[i], MeaningFrom(s)[i + 1])
<1>1. PICK m \in 0 .. Len(Prefix) - 1 : i + m <= Len(s) /\ s[i + m] # Prefix[m + 1]
  <2>1. 0 \in 0 .. Len(Prefix) - 1 /\ i + 0 = i /\ 0 + 1 = 1
    BY OscAssumption
  <2>2. i + 0 <= Len(s) /\ s[i + 0] # Prefix[0 + 1]
    BY <2>1 DEF Esc
  <2>3. QED
    BY <2>1, <2>2
<1>2. ~AtPrefix(s, i) /\ ~IsStrictPrefix(SubSeq(s, i, Len(s)), Prefix)
  BY <1>1, LacksPrefix
<1>3. i \in 1 .. Len(s) + 1 /\ i <= Len(s)
  OBVIOUS
<1>4. QED
  BY <1>2, <1>3, MeaningCases, MeaningEquation

\* Nor does a part of the prefix that goes on with another byte.
LEMMA BrokenPrefix ==
  ASSUME NEW s \in Seq(STRING), NEW i \in 1 .. Len(s), NEW m \in 1 .. Len(Prefix) - 1,
         i + m <= Len(s), s[i + m] # Prefix[m + 1],
         \A j \in 1 .. m : s[i + j - 1] = Prefix[j]
  PROVE  /\ MeaningFrom(s)[i].passed = SubSeq(Prefix, 1, m) \o MeaningFrom(s)[i + m].passed
         /\ MeaningFrom(s)[i].events = MeaningFrom(s)[i + m].events
<1> DEFINE from == MeaningFrom(s)
           Gives(k) == /\ from[i].passed = SubSeq(Prefix, 1, k) \o from[i + k].passed
                       /\ from[i].events = from[i + k].events
           T == {k \in Nat : k <= m => Gives(k)}
<1>1. Prefix \in Seq(STRING) /\ Len(Prefix) \in Nat /\ Len(s) \in Nat /\ m \in Nat /\ i \in Nat
  BY OscAssumption
<1>2. \A n \in 1 .. Len(s) + 1 : from[n] \in MeaningType
  BY MeaningEquation
<1>3. ASSUME NEW k \in Nat, k < m
      PROVE  from[i + k] = Shown(s[i + k], from[i + k + 1])
  <2>1. i + k \in 1 .. Len(s)
    BY <1>1, <1>3
  <2>2. CASE k = 0
    <3>1. ~AtPrefix(s, i) /\ ~IsStrictPrefix(SubSeq(s, i, Len(s)), Prefix)
      <4>1. m \in 0 .. Len(Prefix) - 1
        BY <1>1
      <4>2. QED
        BY <4>1, LacksPrefix
    <3>2. i \in 1 .. Len(s) + 1 /\ i <= Len(s) /\ i + k = i
      BY <1>1, <2>2
    <3>3. MeaningAt(s, from, i) = Shown(s[i], from[i + 1])
      BY <3>1, <3>2, MeaningCases
    <3>4. from[i] = MeaningAt(s, from, i)
      BY <3>2, MeaningEquation
    <3> HIDE DEF from
    <3>5. QED
      BY <3>2, <3>3, <3>4
  <2>3. CASE k # 0
    <3>1. s[i + k] = Prefix[k + 1] /\ Prefix[k + 1] # Esc
      <4>1. k + 1 \in 1 .. m /\ i + (k + 1) - 1 = i + k /\ k + 1 \in 2 .. Len(Prefix)
        BY <1>1, <1>3, <2>3
      <4>2. s[i + (k + 1) - 1] = Prefix[k + 1]
        BY <4>1
      <4>3. QED
        BY <4>1, <4>2, OscAssumption DEF Esc
    <3>2. QED
      BY <2>1, <3>1, OtherByte
  <2>4. QED
    BY <2>2, <2>3
<1> HIDE DEF from, Gives
<1>4. 0 \in T
  <2>1. SubSeq(Prefix, 1, 0) = <<>> /\ i + 0 = i
    BY <1>1
  <2>2. from[i].passed \in Seq(STRING)
    BY <1>2 DEF MeaningType
  <2>3. <<>> \o from[i].passed = from[i].passed
    BY <2>2
  <2>4. QED
    BY <2>1, <2>3 DEF Gives
<1>5. ASSUME NEW k \in Nat, k \in T PROVE k + 1 \in T
  <2>1. SUFFICES ASSUME k + 1 <= m PROVE Gives(k + 1)
    OBVIOUS
  <2>2. k < m /\ i + k \in 1 .. Len(s) /\ i + k + 1 \in 1 .. Len(s) + 1 /\ i + (k + 1) = i + k + 1
        /\ k + 1 \in 1 .. m /\ i + (k + 1) - 1 = i + k /\ k + 1 \in 1 .. Len(Prefix)
    BY <1>1, <2>1
  <2>3. s[i + k] = Prefix[k + 1] /\ s[i + k] \in STRING
    <3>1. s[i + (k + 1) - 1] = Prefix[k + 1]
      BY <2>2
    <3>2. QED
      BY <2>2, <3>1
  <2>4. from[i + k + 1] \in MeaningType
    BY <1>2, <2>2
  <2>5. from[i + k] = Shown(Prefix[k + 1], from[i + k + 1]) /\ Prefix[k + 1] \in STRING
    BY <1>3, <2>2, <2>3
  <2> DEFINE here == from[i + k]
             next == from[i + k + 1]
             before == SubSeq(Prefix, 1, k)
             byte == Prefix[k + 1]
             after == next.passed
             one == <<byte>>
  <2>6. here = Shown(byte, next) /\ next \in MeaningType /\ byte \in STRING
    BY <2>4, <2>5
  <2>7. before \in Seq(STRING) /\ after \in Seq(STRING) /\ one \in Seq(STRING)
    BY <1>1, <2>2, <2>6, OneOf DEF MeaningType
  <2>8. Gives(k)
    BY <1>5, <2>2
  <2>9. SubSeq(Prefix, 1, k + 1) = before \o one
    <3>1. Append(before, byte) = SubSeq(Prefix, 1, k + 1)
      BY <1>1, <2>2
    <3>2. Append(before, byte) = before \o <<byte>>
      BY <2>6, <2>7, AppendIsConcat
    <3>3. QED
      BY <3>1, <3>2
  <2> HIDE DEF here, next, before, byte
  <2>10. here.passed = one \o after /\ here.events = next.events
    BY <2>6, MeaningTypes
  <2> HIDE DEF after, one
  <2>11. (before \o one) \o after = before \o (one \o after)
    <3>1. Regroup(before, one, after)
      BY <2>7, ThreePieces
    <3>2. QED
      BY <3>1 DEF Regroup
  <2>12. QED
    BY <2>2, <2>8, <2>9, <2>10, <2>11 DEF Gives, here, next, before, after
<1>6. m \in T
  <2> HIDE DEF T
  <2>1. QED
    BY <1>1, <1>4, <1>5, Induction
<1>7. QED
  BY <1>1, <1>6 DEF from, Gives

\* The prefix is at i, and none of the n bytes after it ends the marker.
Marked(s, i, n) ==
  /\ \A j \in 1 .. Len(Prefix) : s[i + j - 1] = Prefix[j]
  /\ \A j \in 1 .. n : s[i + Len(Prefix) + j - 1] # Terminator

\* The marker's end is after the bytes that do not end it.
LEMMA EndsAfter ==
  ASSUME NEW s \in Seq(STRING), NEW i \in 1 .. Len(s), NEW n \in Nat, Marked(s, i, n),
         i + Len(Prefix) - 1 <= Len(s)
  PROVE  /\ AtPrefix(s, i)
         /\ \A j \in Ends(s, i + Len(Prefix)) : j >= i + Len(Prefix) + n
<1>1. Len(Prefix) \in Nat /\ Len(s) \in Nat
  BY OscAssumption
<1>2. AtPrefix(s, i)
  BY HasPrefix DEF Marked
<1>3. ASSUME NEW j \in Ends(s, i + Len(Prefix)), j < i + Len(Prefix) + n
      PROVE  FALSE
  <2> DEFINE k == j - (i + Len(Prefix)) + 1
  <2>1. j \in i + Len(Prefix) .. Len(s) /\ s[j] = Terminator
    BY DEF Ends
  <2>2. k \in 1 .. n /\ i + Len(Prefix) + k - 1 = j
    BY <1>1, <1>3, <2>1
  <2> HIDE DEF k
  <2>3. s[i + Len(Prefix) + k - 1] # Terminator
    BY <2>2 DEF Marked
  <2>4. QED
    BY <2>1, <2>2, <2>3
<1>4. \A j \in Ends(s, i + Len(Prefix)) : j \in Nat
  BY <1>1 DEF Ends
<1>5. QED
  BY <1>1, <1>2, <1>3, <1>4

\* A marker that ends in time is reported and hidden.
LEMMA MarkerEnds ==
  ASSUME NEW s \in Seq(STRING), NEW i \in 1 .. Len(s), NEW n \in 0 .. PayloadLimit,
         NEW end, end = i + Len(Prefix) + n, end <= Len(s),
         Marked(s, i, n), s[end] = Terminator
  PROVE  MeaningFrom(s)[i] =
           Hidden(SubSeq(s, i + Len(Prefix), end - 1), MeaningFrom(s)[end + 1])
<1> DEFINE payload == i + Len(Prefix)
           limit == payload + PayloadLimit
           ends == Ends(s, payload)
<1>1. Len(Prefix) \in Nat /\ Len(s) \in Nat /\ PayloadLimit \in Nat /\ n \in Nat
  BY OscAssumption
<1>2. AtPrefix(s, i) /\ \A j \in ends : j >= end
  BY <1>1, EndsAfter
<1>3. end \in ends /\ end <= limit
  BY <1>1 DEF Ends
<1>4. ends # {} => Min(ends) \in ends /\ \A j \in ends : Min(ends) <= j
  <2>1. i \in 1 .. Len(s) + 1
    BY <1>1
  <2>2. QED
    BY <2>1, MeaningCases
<1>5. Min(ends) = end
  <2>1. Min(ends) \in payload .. Len(s)
    BY <1>3, <1>4 DEF Ends
  <2>2. QED
    BY <1>1, <1>2, <1>3, <1>4, <2>1
<1>6. i \in 1 .. Len(s) + 1 /\ i <= Len(s)
  BY <1>1
<1>7. \E j \in ends : j <= limit
  BY <1>3
<1>8. MeaningAt(s, MeaningFrom(s), i) =
        Hidden(SubSeq(s, payload, Min(ends) - 1), MeaningFrom(s)[Min(ends) + 1])
  BY <1>2, <1>6, <1>7, MeaningCases
<1>9. QED
  BY <1>5, <1>6, <1>8, MeaningEquation

\* One that does not is hidden up to the byte that is too many.
LEMMA MarkerTooLong ==
  ASSUME NEW s \in Seq(STRING), NEW i \in 1 .. Len(s),
         NEW limit, limit = i + Len(Prefix) + PayloadLimit, limit <= Len(s),
         Marked(s, i, PayloadLimit + 1)
  PROVE  MeaningFrom(s)[i] = MeaningFrom(s)[limit + 1]
<1> DEFINE ends == Ends(s, i + Len(Prefix))
<1>1. Len(Prefix) \in Nat /\ Len(s) \in Nat /\ PayloadLimit \in Nat /\ PayloadLimit + 1 \in Nat
  BY OscAssumption
<1>2. AtPrefix(s, i) /\ \A j \in ends : j >= i + Len(Prefix) + (PayloadLimit + 1)
  BY <1>1, EndsAfter
<1>3. \A j \in ends : j \in Nat
  BY <1>1 DEF Ends
<1>4. \A j \in ends : j > limit
  BY <1>1, <1>2, <1>3
<1>5. i \in 1 .. Len(s) + 1 /\ i <= Len(s) /\ ~(limit > Len(s))
  BY <1>1
<1>6. MeaningAt(s, MeaningFrom(s), i) =
        IF limit > Len(s) THEN Nothing ELSE MeaningFrom(s)[limit + 1]
  BY <1>2, <1>4, <1>5, MeaningCases
<1>7. QED
  BY <1>5, <1>6, MeaningEquation

\* One that may still end in time means nothing yet.
LEMMA MarkerOpen ==
  ASSUME NEW s \in Seq(STRING), NEW i \in 1 .. Len(s), NEW n \in 0 .. PayloadLimit,
         i + Len(Prefix) + n - 1 = Len(s), Marked(s, i, n)
  PROVE  MeaningFrom(s)[i] = Nothing
<1> DEFINE ends == Ends(s, i + Len(Prefix))
           limit == i + Len(Prefix) + PayloadLimit
<1>1. Len(Prefix) \in Nat /\ Len(s) \in Nat /\ PayloadLimit \in Nat /\ n \in Nat
  BY OscAssumption
<1>2. AtPrefix(s, i) /\ \A j \in ends : j >= i + Len(Prefix) + n
  BY <1>1, EndsAfter
<1>3. \A j \in ends : j > limit
  BY <1>1, <1>2 DEF Ends
<1>4. i \in 1 .. Len(s) + 1 /\ i <= Len(s) /\ limit > Len(s)
  BY <1>1
<1>5. MeaningAt(s, MeaningFrom(s), i) =
        IF limit > Len(s) THEN Nothing ELSE MeaningFrom(s)[limit + 1]
  BY <1>2, <1>3, <1>4, MeaningCases
<1>6. QED
  BY <1>4, <1>5, MeaningEquation

\* Nor does a part of the prefix at the end.
LEMMA PrefixOpen ==
  ASSUME NEW s \in Seq(STRING), NEW i \in 1 .. Len(s), NEW m \in 1 .. Len(Prefix) - 1,
         i + m - 1 = Len(s), \A j \in 1 .. m : s[i + j - 1] = Prefix[j]
  PROVE  MeaningFrom(s)[i] = Nothing
<1> DEFINE rest == SubSeq(s, i, Len(s))
<1>1. Prefix \in Seq(STRING) /\ Len(Prefix) \in Nat /\ Len(s) \in Nat
  BY OscAssumption
<1>2. rest \in Seq(STRING) /\ Len(rest) = m /\ \A j \in 1 .. m : rest[j] = Prefix[j]
  BY <1>1
<1>3. i \in 1 .. Len(s) + 1 /\ i <= Len(s)
  BY <1>1
<1> HIDE DEF rest
<1>4. SubSeq(rest, 1, m) = SubSeq(Prefix, 1, m)
  <2>1. SubSeq(Prefix, 1, m) = [j \in 1 .. m |-> Prefix[j]]
    BY <1>1
  <2>2. SubSeq(rest, 1, m) = [j \in 1 .. m |-> rest[j]]
    BY <1>2
  <2>3. QED
    BY <1>2, <2>1, <2>2
<1>5. IsPrefix(rest, Prefix) /\ ~IsPrefix(Prefix, rest)
  BY <1>1, <1>2, <1>4 DEF IsPrefix
<1>6. rest # Prefix
  BY <1>1, <1>2
<1>7. IsStrictPrefix(rest, Prefix) /\ ~AtPrefix(s, i)
  BY <1>5, <1>6 DEF IsStrictPrefix, AtPrefix, rest
<1>8. MeaningAt(s, MeaningFrom(s), i) = Nothing
  BY <1>3, <1>7, MeaningCases DEF rest
<1>9. QED
  BY <1>3, <1>8, MeaningEquation

\* Nor does the end.
LEMMA EndMeansNothing ==
  ASSUME NEW s \in Seq(STRING)
  PROVE  MeaningFrom(s)[Len(s) + 1] = Nothing
<1>1. Len(s) + 1 \in 1 .. Len(s) + 1 /\ Len(s) + 1 > Len(s)
  OBVIOUS
<1>2. QED
  BY <1>1, MeaningCases, MeaningEquation

-----------------------------------------------------------------------------
(* One byte more: what the parser adds to its result, and what it then     *)
(* holds back, are together what the byte and what it held back mean.      *)

\* How many bytes p holds back, and that they are those of s from i on.
HeldBy(p) == CASE p.state = "Normal" -> 0
               [] p.state = "MatchingPrefix" -> p.matched
               [] p.state = "InPayload" -> Len(Prefix) + Len(p.buf)

HoldsAt(s, i, p) ==
  /\ p.state = "MatchingPrefix" => \A j \in 1 .. p.matched : s[i + j - 1] = Prefix[j]
  /\ p.state = "InPayload" =>
       /\ Marked(s, i, Len(p.buf))
       /\ \A j \in 1 .. Len(p.buf) : s[i + Len(Prefix) + j - 1] = p.buf[j]

\* The byte is the one after those that are held back.
Reads(s, i, byte) ==
  /\ i + HeldBy(parser) \in 1 .. Len(s)
  /\ byte = s[i + HeldBy(parser)]
  /\ HoldsAt(s, i, parser)

Advances(s, i) ==
  LET next == i + HeldBy(parser) + 1 - HeldBy(parser')
  IN  /\ HoldsAt(s, next, parser')
      /\ passthrough' \o MeaningFrom(s)[next].passed = passthrough \o MeaningFrom(s)[i].passed
      /\ events' \o MeaningFrom(s)[next].events = events \o MeaningFrom(s)[i].events

\* An ESC that is held back; and nothing.
LEMMA HoldsEsc ==
  ASSUME NEW s \in Seq(STRING), NEW i \in Nat
  PROVE  /\ s[i] = Esc => HoldsAt(s, i, Matching(1, <<Esc>>))
         /\ HeldBy(Matching(1, <<Esc>>)) = 1
         /\ HoldsAt(s, i, Normal) /\ HeldBy(Normal) = 0
<1>1. \A j \in 1 .. 1 : j = 1 /\ i + j - 1 = i
  OBVIOUS
<1>2. s[i] = Esc => HoldsAt(s, i, Matching(1, <<Esc>>))
  BY <1>1 DEF HoldsAt, Matching, Esc
<1>3. HeldBy(Matching(1, <<Esc>>)) = 1 /\ HeldBy(Normal) = 0
  BY DEF HeldBy, Matching, Normal
<1>4. HoldsAt(s, i, Normal)
  BY DEF HoldsAt, Normal
<1>5. QED
  BY <1>2, <1>3, <1>4

LEMMA NormalAdvances ==
  ASSUME OscInv, passthrough \in Seq(STRING), NEW s \in Seq(STRING), NEW i \in 1 .. Len(s), NEW byte,
         Reads(s, i, byte), FeedNormal(byte)
  PROVE  Advances(s, i)
<1>1. /\ Len(s) \in Nat /\ Len(Prefix) \in Nat /\ HeldBy(parser) = 0 /\ i \in 1 .. Len(s)
      /\ byte = s[i] /\ byte \in STRING
  BY OscAssumption DEF FeedNormal, HeldBy, Reads
<1>2. CASE byte = Esc
  <2>1. parser' = Matching(1, <<Esc>>) /\ passthrough' = passthrough /\ events' = events
    BY <1>2 DEF FeedNormal
  <2>2. HeldBy(parser') = 1 /\ i + HeldBy(parser) + 1 - HeldBy(parser') = i
    <3>1. HeldBy(parser') = 1
      BY <1>1, <2>1, HoldsEsc
    <3>2. QED
      BY <1>1, <3>1
  <2>3. HoldsAt(s, i, parser')
    <3>1. i \in Nat /\ s[i] = Esc
      BY <1>1, <1>2
    <3>2. QED
      BY <2>1, <3>1, HoldsEsc
  <2>4. QED
    BY <2>1, <2>2, <2>3 DEF Advances
<1>3. CASE byte # Esc
  <2>1. parser' = parser /\ passthrough' = Append(passthrough, byte) /\ events' = events
    BY <1>3 DEF FeedNormal
  <2>2. i + HeldBy(parser) + 1 - HeldBy(parser') = i + 1
    BY <1>1, <2>1
  <2>3. HoldsAt(s, i + 1, parser')
    BY <2>1 DEF HoldsAt, FeedNormal
  <2> DEFINE here == MeaningFrom(s)[i]
             after == MeaningFrom(s)[i + 1]
             shown == after.passed
             one == <<byte>>
  <2>4. here = Shown(byte, after)
    BY <1>1, <1>3, OtherByte
  <2>5. after \in MeaningType
    <3>1. i + 1 \in 1 .. Len(s) + 1
      BY <1>1
    <3>2. QED
      BY <3>1, MeaningEquation
  <2>6. here.passed = one \o shown /\ here.events = after.events
    <3> HIDE DEF here, after
    <3>1. QED
      BY <1>1, <2>4, <2>5, MeaningTypes
  <2>7. shown \in Seq(STRING) /\ one \in Seq(STRING)
    BY <1>1, <2>5, OneOf DEF MeaningType
  <2>8. passthrough' = passthrough \o one
    BY <1>1, <2>1, AppendIsConcat
  <2> HIDE DEF here, after, shown, one
  <2>9. (passthrough \o one) \o shown = passthrough \o (one \o shown)
    <3>1. Regroup(passthrough, one, shown)
      BY <2>7, ThreePieces
    <3>2. QED
      BY <3>1 DEF Regroup
  <2>10. passthrough' \o after.passed = passthrough \o here.passed
    BY <2>6, <2>8, <2>9 DEF shown
  <2>11. QED
    BY <2>1, <2>2, <2>3, <2>6, <2>10 DEF Advances, here, after
<1>4. QED
  BY <1>2, <1>3

LEMMA MatchAdvances ==
  ASSUME OscInv, NEW s \in Seq(STRING), NEW i \in 1 .. Len(s), NEW byte,
         Reads(s, i, byte), FeedMatch(byte)
  PROVE  Advances(s, i)
<1> DEFINE m == parser.matched
<1>1. /\ m \in 1 .. Len(Prefix) - 1 /\ HeldBy(parser) = m /\ i \in 1 .. Len(s)
      /\ byte = s[i + m] /\ byte = Prefix[m + 1] /\ passthrough' = passthrough /\ events' = events
      /\ Len(s) \in Nat /\ Len(Prefix) \in Nat
  BY OscAssumption DEF FeedMatch, HeldBy, Reads, OscInv, HoldsWhatItMatched
<1>2. \A j \in 1 .. m + 1 : s[i + j - 1] = Prefix[j]
  <2>1. \A j \in 1 .. m : s[i + j - 1] = Prefix[j]
    BY DEF FeedMatch, Reads, HoldsAt
  <2>2. \A j \in 1 .. m + 1 : j \in 1 .. m \/ (j = m + 1 /\ i + j - 1 = i + m)
    BY <1>1
  <2>3. QED
    BY <1>1, <2>1, <2>2
<1>3. CASE m + 1 = Len(Prefix)
  <2>1. parser' = [state |-> "InPayload", buf |-> <<>>, matched |-> Len(Prefix)]
    BY <1>3 DEF FeedMatch, OscInv, OscTypeOK
  <2>2. HeldBy(parser') = m + 1
    BY <1>1, <1>3, <2>1 DEF HeldBy
  <2>3. HoldsAt(s, i, parser')
    BY <1>2, <1>3, <2>1 DEF HoldsAt, Marked
  <2>4. i + HeldBy(parser) + 1 - HeldBy(parser') = i
    BY <1>1, <2>2
  <2>5. QED
    BY <1>1, <2>3, <2>4 DEF Advances
<1>4. CASE m + 1 # Len(Prefix)
  <2>1. parser' = Matching(m + 1, Append(parser.buf, byte))
    BY <1>4 DEF FeedMatch
  <2>2. HeldBy(parser') = m + 1
    BY <2>1 DEF HeldBy, Matching
  <2>3. HoldsAt(s, i, parser')
    BY <1>2, <2>1 DEF HoldsAt, Matching
  <2>4. i + HeldBy(parser) + 1 - HeldBy(parser') = i
    BY <1>1, <2>2
  <2>5. QED
    BY <1>1, <2>3, <2>4 DEF Advances
<1>5. QED
  BY <1>3, <1>4

LEMMA MismatchAdvances ==
  ASSUME OscInv, passthrough \in Seq(STRING), NEW s \in Seq(STRING), NEW i \in 1 .. Len(s), NEW byte,
         Reads(s, i, byte), FeedMismatch(byte)
  PROVE  Advances(s, i)
<1> DEFINE m == parser.matched
           held == SubSeq(Prefix, 1, m)
           from == MeaningFrom(s)
<1>1. /\ m \in 1 .. Len(Prefix) - 1 /\ HeldBy(parser) = m /\ i \in 1 .. Len(s)
      /\ i + m \in 1 .. Len(s)
      /\ byte = s[i + m] /\ byte # Prefix[m + 1] /\ byte \in STRING /\ events' = events
      /\ parser.buf = held
      /\ Len(s) \in Nat /\ Len(Prefix) \in Nat
  <2>1. m \in 1 .. Len(Prefix) - 1 /\ HeldBy(parser) = m /\ parser.buf = held
    BY DEF FeedMismatch, HeldBy, OscInv, HoldsWhatItMatched
  <2>2. byte # Prefix[m + 1] /\ events' = events
    BY DEF FeedMismatch
  <2>3. i + m \in 1 .. Len(s) /\ byte = s[i + m] /\ byte \in STRING
    BY <2>1 DEF Reads
  <2>4. Len(s) \in Nat /\ Len(Prefix) \in Nat
    BY OscAssumption
  <2>5. QED
    BY <2>1, <2>2, <2>3, <2>4
<1>2. \A j \in 1 .. m : s[i + j - 1] = Prefix[j]
  BY DEF FeedMismatch, Reads, HoldsAt
<1>3. from[i].passed = held \o from[i + m].passed /\ from[i].events = from[i + m].events
  <2> HIDE DEF m
  <2>1. i + m <= Len(s) /\ s[i + m] # Prefix[m + 1]
    BY <1>1
  <2>2. QED
    BY <1>1, <1>2, <2>1, BrokenPrefix
<1>4. held \in Seq(STRING)
  BY <1>1, OscAssumption
<1>5. from[i + m] \in MeaningType /\ from[i + m + 1] \in MeaningType
  <2>1. i + m \in 1 .. Len(s) + 1 /\ i + m + 1 \in 1 .. Len(s) + 1
    BY <1>1
  <2>2. QED
    BY <2>1, MeaningEquation
<1>6. CASE byte = Esc
  <2> DEFINE after == from[i + m].passed
  <2>1. parser' = Matching(1, <<Esc>>) /\ Mismatched(byte) # Normal
    BY <1>6 DEF FeedMismatch, Mismatched, Matching, Normal
  <2>1a. i + m \in Nat /\ s[i + m] = Esc
    BY <1>1, <1>6
  <2>2. HeldBy(parser') = 1 /\ i + HeldBy(parser) + 1 - HeldBy(parser') = i + m
    <3>1. HeldBy(parser') = 1
      BY <2>1, <2>1a, HoldsEsc
    <3>2. QED
      BY <1>1, <3>1
  <2>3. HoldsAt(s, i + m, parser')
    BY <2>1, <2>1a, HoldsEsc
  <2>4. passthrough' = (passthrough \o held) \o <<>>
    BY <1>1, <2>1 DEF FeedMismatch
  <2>5. after \in Seq(STRING)
    BY <1>5 DEF MeaningType
  <2> HIDE DEF held, after
  <2>6. passthrough' = passthrough \o held
    BY <1>4, <2>4
  <2>7. (passthrough \o held) \o after = passthrough \o (held \o after)
    <3>1. Regroup(passthrough, held, after)
      BY <1>4, <2>5, ThreePieces
    <3>2. QED
      BY <3>1 DEF Regroup
  <2>8. passthrough' \o from[i + m].passed = passthrough \o from[i].passed
    BY <1>3, <2>6, <2>7 DEF after
  <2>9. QED
    BY <1>1, <1>3, <2>2, <2>3, <2>8 DEF Advances
<1>7. CASE byte # Esc
  <2> DEFINE after == from[i + m + 1].passed
             one == <<byte>>
  <2>1. parser' = Normal /\ Mismatched(byte) = Normal
    BY <1>7 DEF FeedMismatch, Mismatched
  <2>2. HeldBy(parser') = 0 /\ i + HeldBy(parser) + 1 - HeldBy(parser') = i + m + 1
    <3>1. HeldBy(parser') = 0
      BY <1>1, <2>1, HoldsEsc
    <3>2. QED
      BY <1>1, <3>1
  <2>3. HoldsAt(s, i + m + 1, parser')
    BY <2>1 DEF HoldsAt, Normal
  <2>4. passthrough' = (passthrough \o held) \o one
    BY <1>1, <2>1 DEF FeedMismatch
  <2>5. from[i + m] = Shown(byte, from[i + m + 1])
    BY <1>1, <1>7, OtherByte
  <2>6. from[i + m].passed = one \o after /\ from[i + m].events = from[i + m + 1].events
    <3>1. one \o after = <<byte>> \o after
      OBVIOUS
    <3> DEFINE here == from[i + m]
               there == from[i + m + 1]
    <3>2. here = Shown(byte, there) /\ there \in MeaningType /\ byte \in STRING
      BY <1>1, <1>5, <2>5
    <3> HIDE DEF here, there
    <3>3. here.passed = <<byte>> \o there.passed /\ here.events = there.events
      BY <3>2, MeaningTypes
    <3>4. QED
      BY <3>3 DEF here, there
  <2>7. after \in Seq(STRING) /\ one \in Seq(STRING)
    BY <1>1, <1>5, OneOf DEF MeaningType
  <2> HIDE DEF held, after, one
  <2>8. ((passthrough \o held) \o one) \o after = passthrough \o (held \o (one \o after))
    <3>1. passthrough \o held \in Seq(STRING) /\ one \o after \in Seq(STRING)
      BY <1>4, <2>7
    <3>2. Regroup(passthrough \o held, one, after)
      BY <2>7, <3>1, ThreePieces
    <3>3. Regroup(passthrough, held, one \o after)
      BY <1>4, <3>1, ThreePieces
    <3>4. QED
      BY <3>2, <3>3 DEF Regroup
  <2>9. passthrough' \o from[i + m + 1].passed = passthrough \o from[i].passed
    BY <1>3, <2>4, <2>6, <2>8 DEF after
  <2>10. QED
    BY <1>1, <1>3, <2>2, <2>3, <2>6, <2>9 DEF Advances
<1>8. QED
  BY <1>6, <1>7

LEMMA PayloadAdvances ==
  ASSUME OscInv, events \in Seq(Event), NEW s \in Seq(STRING), NEW i \in 1 .. Len(s), NEW byte,
         Reads(s, i, byte), FeedPayload(byte)
  PROVE  Advances(s, i)
<1> DEFINE buf == parser.buf
           n == Len(buf)
           payload == i + Len(Prefix)
           end == payload + n
           from == MeaningFrom(s)
<1>1. /\ buf \in Seq(STRING) /\ n \in 0 .. PayloadLimit
      /\ Len(s) \in Nat /\ Len(Prefix) \in Nat /\ PayloadLimit \in Nat
      /\ payload = i + Len(Prefix) /\ end = payload + n
  <2>1. /\ parser.buf \in Seq(STRING) /\ parser.state = "InPayload" /\ n <= PayloadLimit
    BY OscAssumption DEF FeedPayload, OscInv, OscTypeOK, HoldsWhatItMatched
  <2>2. Len(s) \in Nat /\ Len(Prefix) \in Nat /\ PayloadLimit \in Nat
    BY OscAssumption
  <2>3. n \in Nat
    BY <2>1
  <2> HIDE DEF n
  <2>4. n \in 0 .. PayloadLimit
    BY <2>1, <2>2, <2>3
  <2>5. QED
    BY <2>1, <2>2, <2>4
<1>1a. /\ HeldBy(parser) = Len(Prefix) + n /\ Marked(s, i, n)
       /\ \A j \in 1 .. n : s[payload + j - 1] = buf[j]
  BY DEF HeldBy, FeedPayload, Reads, HoldsAt
<1>1b. /\ passthrough' = passthrough
       /\ byte = Terminator =>
            /\ parser' = [parser EXCEPT !.state = "Normal", !.buf = <<>>]
            /\ events' = events \o Parse(buf)
       /\ byte # Terminator /\ n >= PayloadLimit =>
            /\ parser' = [parser EXCEPT !.state = "Normal", !.buf = <<>>]
            /\ events' = events
       /\ byte # Terminator /\ ~(n >= PayloadLimit) =>
            /\ parser' = [parser EXCEPT !.buf = Append(@, byte)]
            /\ events' = events
  BY DEF FeedPayload
<1>1c. parser' = [parser EXCEPT !.state = "Normal", !.buf = <<>>] =>
         HeldBy(parser') = 0 /\ \A next : HoldsAt(s, next, parser')
  BY DEF HeldBy, HoldsAt, OscInv, OscTypeOK
<1>1d. parser' = [parser EXCEPT !.buf = Append(@, byte)] =>
         parser'.state = "InPayload" /\ parser'.buf = Append(buf, byte)
  BY DEF FeedPayload, OscInv, OscTypeOK
<1> HIDE DEF n, payload, end
<1>2. end \in 1 .. Len(s) /\ byte = s[end]
  <2>1. i + HeldBy(parser) = end
    BY <1>1, <1>1a
  <2>2. QED
    BY <2>1 DEF Reads
<1>2a. byte \in STRING
  BY <1>2
<1> HIDE DEF buf
<1>3. CASE byte = Terminator
  <2>1. events' = events \o Parse(buf) /\ HeldBy(parser') = 0 /\ HoldsAt(s, end + 1, parser')
    BY <1>1b, <1>1c, <1>3
  <2>2. i + HeldBy(parser) + 1 - HeldBy(parser') = end + 1
    BY <1>1, <1>1a, <2>1
  <2> DEFINE marker == SubSeq(s, payload, end - 1)
             after == from[end + 1]
  <2>3. from[i] = Hidden(marker, after)
    <3>1. end = i + Len(Prefix) + n /\ end <= Len(s) /\ s[end] = Terminator
      BY <1>1, <1>2, <1>3
    <3> HIDE DEF from
    <3>2. MeaningFrom(s)[i] = Hidden(SubSeq(s, i + Len(Prefix), end - 1), MeaningFrom(s)[end + 1])
      BY <1>1, <1>1a, <3>1, MarkerEnds
    <3>3. QED
      BY <1>1, <3>2 DEF from
  <2>4. marker = buf
    <3>1. marker \in Seq(STRING) /\ Len(marker) = n
      BY <1>1, <1>2
    <3>2. ASSUME NEW j \in 1 .. n PROVE marker[j] = s[payload + j - 1]
      BY <1>1, <1>2
    <3>3. Len(buf) = n
      BY DEF n
    <3> HIDE DEF marker
    <3>4. \A j \in 1 .. n : marker[j] = buf[j]
      BY <1>1a, <3>2
    <3>5. QED
      BY <1>1, <3>1, <3>3, <3>4
  <2>5. after \in MeaningType
    <3>1. end + 1 \in 1 .. Len(s) + 1
      BY <1>1, <1>2
    <3>2. QED
      BY <3>1, MeaningEquation
  <2> DEFINE parsed == Parse(buf)
             later == after.events
  <2>6. from[i].passed = after.passed /\ from[i].events = parsed \o later
    <3>1. marker \in Seq(STRING)
      BY <1>1, <2>4
    <3> HIDE DEF marker, after, from
    <3>2. QED
      BY <2>3, <2>4, <2>5, <3>1, MeaningTypes
  <2>7. parsed \in Seq(Event) /\ later \in Seq(Event)
    BY <1>1, <2>5, ParseType DEF MeaningType
  <2> HIDE DEF parsed, later
  <2>8. (events \o parsed) \o later = events \o (parsed \o later)
    <3>1. Regroup(events, parsed, later)
      BY <2>7, ThreeParts
    <3>2. QED
      BY <3>1 DEF Regroup
  <2>9. QED
    BY <1>1b, <2>1, <2>2, <2>6, <2>8 DEF Advances, parsed, later
<1>4. CASE byte # Terminator /\ n >= PayloadLimit
  <2>1. events' = events /\ HeldBy(parser') = 0 /\ HoldsAt(s, end + 1, parser')
    BY <1>1b, <1>1c, <1>4
  <2>2. i + HeldBy(parser) + 1 - HeldBy(parser') = end + 1
    BY <1>1, <1>1a, <2>1
  <2>3. n = PayloadLimit
    BY <1>1, <1>4
  <2>4. Marked(s, i, PayloadLimit + 1)
    <3>1. \A j \in 1 .. PayloadLimit + 1 : j \in 1 .. n \/ (j = n + 1 /\ payload + j - 1 = end)
      BY <1>1, <2>3
    <3>2. QED
      BY <1>1, <1>1a, <1>2, <1>4, <3>1 DEF Marked
  <2>5. from[i] = from[end + 1]
    BY <1>1, <1>2, <2>3, <2>4, MarkerTooLong
  <2>6. QED
    BY <1>1b, <2>1, <2>2, <2>5 DEF Advances
<1>5. CASE byte # Terminator /\ ~(n >= PayloadLimit)
  <2>1. events' = events /\ parser'.state = "InPayload" /\ parser'.buf = Append(buf, byte)
    BY <1>1b, <1>1d, <1>5
  <2> DEFINE more == Append(buf, byte)
  <2>2. Len(more) = n + 1 /\ more[n + 1] = byte /\ \A j \in 1 .. n : more[j] = buf[j]
    <3>1. n = Len(buf)
      BY DEF n
    <3>2. Grows(buf, byte, Append(buf, byte))
      <4>1. buf \in Seq(STRING) /\ byte \in STRING
        BY <1>1, <1>2a
      <4> HIDE DEF buf
      <4>2. QED
        BY <4>1, OneByteMore
    <3>3. QED
      BY <3>1, <3>2 DEF Grows
  <2> HIDE DEF more
  <2>3. \A j \in 1 .. n + 1 : j \in 1 .. n \/ (j = n + 1 /\ payload + j - 1 = end)
    BY <1>1
  <2>4. Marked(s, i, n + 1)
    BY <1>1, <1>1a, <1>2, <1>5, <2>3 DEF Marked
  <2>5. \A j \in 1 .. n + 1 : s[payload + j - 1] = more[j]
    BY <1>1a, <1>2, <2>2, <2>3
  <2>6. HoldsAt(s, i, parser')
    BY <1>1, <2>1, <2>2, <2>4, <2>5 DEF HoldsAt, more
  <2>7. i + HeldBy(parser) + 1 - HeldBy(parser') = i
    <3>1. HeldBy(parser') = Len(Prefix) + (n + 1)
      BY <2>1, <2>2 DEF HeldBy, more
    <3>2. QED
      BY <1>1, <1>1a, <3>1
  <2>8. QED
    BY <1>1b, <2>1, <2>6, <2>7 DEF Advances
<1>6. QED
  BY <1>3, <1>4, <1>5

\* What is held back at the end of a stream means nothing yet.
LEMMA HeldMeansNothing ==
  ASSUME OscInv, NEW s \in Seq(STRING), NEW i \in 1 .. Len(s) + 1,
         i + HeldBy(parser) - 1 = Len(s), HoldsAt(s, i, parser)
  PROVE  MeaningFrom(s)[i] = Nothing
<1>1. Len(s) \in Nat /\ Len(Prefix) \in Nat /\ PayloadLimit \in Nat /\ Len(Prefix) >= 2
  BY OscAssumption
<1>2. CASE parser.state = "Normal"
  <2>1. HeldBy(parser) = 0
    BY <1>2 DEF HeldBy
  <2>2. i = Len(s) + 1
    BY <1>1, <2>1
  <2>3. QED
    BY <2>2, EndMeansNothing
<1>3. CASE parser.state = "MatchingPrefix"
  <2> DEFINE m == parser.matched
  <2>1. /\ HeldBy(parser) = m /\ m \in 1 .. Len(Prefix) - 1
        /\ \A j \in 1 .. m : s[i + j - 1] = Prefix[j]
    BY <1>3 DEF HeldBy, HoldsAt, OscInv, HoldsWhatItMatched
  <2> HIDE DEF m
  <2>2. i \in 1 .. Len(s) /\ i + m - 1 = Len(s)
    BY <1>1, <2>1
  <2>3. QED
    BY <2>1, <2>2, PrefixOpen
<1>4. CASE parser.state = "InPayload"
  <2> DEFINE n == Len(parser.buf)
  <2>1. HeldBy(parser) = Len(Prefix) + n /\ Marked(s, i, n) /\ n <= PayloadLimit /\ n \in Nat
    BY <1>4 DEF HeldBy, HoldsAt, OscInv, OscTypeOK, HoldsWhatItMatched
  <2> HIDE DEF n
  <2>2. i \in 1 .. Len(s) /\ i + Len(Prefix) + n - 1 = Len(s) /\ n \in 0 .. PayloadLimit
    BY <1>1, <2>1
  <2>3. QED
    BY <2>1, <2>2, MarkerOpen
<1>5. QED
  BY <1>2, <1>3, <1>4 DEF OscInv, OscTypeOK

\* How much is held back, and the types of what a byte leads to.
LEMMA HeldType ==
  ASSUME OscInv
  PROVE  HeldBy(parser) \in Nat
<1>1. Len(Prefix) \in Nat /\ Len(parser.buf) \in Nat /\ parser.matched \in Nat
  BY OscAssumption DEF OscInv, OscTypeOK
<1>2. QED
  BY <1>1 DEF HeldBy, OscInv, OscTypeOK

LEMMA FeedTypes ==
  ASSUME OscInv, passthrough \in Seq(STRING), events \in Seq(Event), NEW byte \in STRING,
         FeedNormal(byte) \/ FeedMatch(byte) \/ FeedMismatch(byte) \/ FeedPayload(byte)
  PROVE  /\ passthrough' \in Seq(STRING) /\ events' \in Seq(Event)
         /\ HeldBy(parser') \in 0 .. HeldBy(parser) + 1
<1>1. /\ parser.buf \in Seq(STRING) /\ Len(Prefix) \in Nat /\ Len(parser.buf) \in Nat
      /\ parser.matched \in Nat /\ Len(Prefix) >= 2 /\ HeldBy(parser) \in Nat
  BY OscAssumption, HeldType DEF OscInv, OscTypeOK
<1>2. CASE FeedNormal(byte)
  <2>1. passthrough' \in Seq(STRING) /\ events' = events
    <3>1. Append(passthrough, byte) \in Seq(STRING)
      BY AppendProperties
    <3>2. QED
      BY <1>2, <3>1 DEF FeedNormal
  <2>2. HeldBy(parser') \in {0, 1}
    BY <1>2, <1>1 DEF FeedNormal, HeldBy, Matching
  <2>3. QED
    BY <1>1, <2>1, <2>2
<1>3. CASE FeedMatch(byte)
  <2>1. passthrough' = passthrough /\ events' = events
    BY <1>3 DEF FeedMatch
  <2>2. HeldBy(parser') = HeldBy(parser) + 1
    <3>1. HeldBy(parser) = parser.matched
      BY <1>3 DEF FeedMatch, HeldBy
    <3>2. CASE parser.matched + 1 = Len(Prefix)
      <4>1. parser'.state = "InPayload" /\ parser'.buf = <<>>
        BY <1>3, <3>2 DEF FeedMatch, OscInv, OscTypeOK
      <4>2. HeldBy(parser') = Len(Prefix)
        BY <1>1, <4>1 DEF HeldBy
      <4>3. QED
        BY <3>1, <3>2, <4>2
    <3>3. CASE parser.matched + 1 # Len(Prefix)
      <4>1. parser'.state = "MatchingPrefix" /\ parser'.matched = parser.matched + 1
        BY <1>3, <3>3 DEF FeedMatch, Matching
      <4>2. QED
        BY <3>1, <4>1 DEF HeldBy
    <3>4. QED
      BY <3>2, <3>3
  <2>3. QED
    BY <1>1, <2>1, <2>2
<1>4. CASE FeedMismatch(byte)
  <2>1. events' = events
    BY <1>4 DEF FeedMismatch
  <2>2. passthrough' \in Seq(STRING)
    <3> DEFINE last == IF Mismatched(byte) = Normal THEN <<byte>> ELSE <<>>
    <3>1. last \in Seq(STRING)
      <4>1. <<byte>> \in Seq(STRING)
        BY OneOf
      <4>2. <<>> \in Seq(STRING)
        OBVIOUS
      <4>3. QED
        BY <4>1, <4>2
    <3> HIDE DEF last
    <3>2. (passthrough \o parser.buf) \o last \in Seq(STRING)
      BY <1>1, <3>1
    <3>3. QED
      BY <1>4, <3>2 DEF FeedMismatch, last
  <2>3. HeldBy(parser') \in {0, 1}
    BY <1>4 DEF FeedMismatch, Mismatched, HeldBy, Matching, Normal
  <2>4. QED
    BY <1>1, <2>1, <2>2, <2>3
<1>5. CASE FeedPayload(byte)
  <2>1. passthrough' = passthrough
    BY <1>5 DEF FeedPayload
  <2>2. events' \in Seq(Event)
    <3>1. Parse(parser.buf) \in Seq(Event)
      BY <1>1, ParseType
    <3>2. events \o Parse(parser.buf) \in Seq(Event)
      BY <3>1, ConcatProperties
    <3>3. QED
      BY <1>5, <3>2 DEF FeedPayload
  <2>3. HeldBy(parser') \in {0, HeldBy(parser) + 1}
    <3>1. HeldBy(parser) = Len(Prefix) + Len(parser.buf)
      BY <1>5 DEF FeedPayload, HeldBy
    <3>2. \/ parser'.state = "Normal"
          \/ parser'.state = "InPayload" /\ parser'.buf = Append(parser.buf, byte)
      BY <1>5 DEF FeedPayload, OscInv, OscTypeOK
    <3>3. Len(Append(parser.buf, byte)) = Len(parser.buf) + 1
      BY <1>1, OneByteMore DEF Grows
    <3>4. Len(Prefix) + (Len(parser.buf) + 1) = (Len(Prefix) + Len(parser.buf)) + 1
      BY <1>1
    <3>5. QED
      BY <3>1, <3>2, <3>3, <3>4 DEF HeldBy
  <2>4. QED
    BY <1>1, <2>1, <2>2, <2>3
<1>6. QED
  BY <1>2, <1>3, <1>4, <1>5

\* Whichever state the byte finds the parser in.
LEMMA ByteAdvances ==
  ASSUME OscInv, passthrough \in Seq(STRING), events \in Seq(Event),
         NEW s \in Seq(STRING), NEW i \in 1 .. Len(s), NEW byte, Reads(s, i, byte),
         FeedNormal(byte) \/ FeedMatch(byte) \/ FeedMismatch(byte) \/ FeedPayload(byte)
  PROVE  Advances(s, i)
BY NormalAdvances, MatchAdvances, MismatchAdvances, PayloadAdvances

\* Streams that agree up to a place hold the same up to it.
LEMMA HoldsInBoth ==
  ASSUME OscInv, NEW s \in Seq(STRING), NEW b \in Seq(STRING), NEW n \in Nat,
         \A k \in 1 .. n : b[k] = s[k],
         NEW i \in 1 .. n + 1, i + HeldBy(parser) - 1 <= n, HoldsAt(s, i, parser)
  PROVE  HoldsAt(b, i, parser)
<1>1. Len(Prefix) \in Nat
  BY OscAssumption
<1>2. ASSUME parser.state = "MatchingPrefix"
      PROVE  \A j \in 1 .. parser.matched : b[i + j - 1] = Prefix[j]
  <2>1. parser.matched \in Nat /\ HeldBy(parser) = parser.matched
    BY <1>2, OscAssumption DEF HeldBy, OscInv, OscTypeOK
  <2>2. \A j \in 1 .. parser.matched : i + j - 1 \in 1 .. n
    BY <2>1
  <2>3. QED
    BY <1>1, <1>2, <2>2 DEF HoldsAt
<1>3. ASSUME parser.state = "InPayload"
      PROVE  /\ Marked(b, i, Len(parser.buf))
             /\ \A j \in 1 .. Len(parser.buf) : b[i + Len(Prefix) + j - 1] = parser.buf[j]
  <2> DEFINE m == Len(parser.buf)
  <2>1. m \in Nat /\ HeldBy(parser) = Len(Prefix) + m
    BY <1>3 DEF HeldBy, OscInv, OscTypeOK
  <2>2. Marked(s, i, m) /\ \A j \in 1 .. m : s[i + Len(Prefix) + j - 1] = parser.buf[j]
    BY <1>3 DEF HoldsAt
  <2> HIDE DEF m
  <2>3. /\ \A j \in 1 .. Len(Prefix) : i + j - 1 \in 1 .. n
        /\ \A j \in 1 .. m : i + Len(Prefix) + j - 1 \in 1 .. n
    <3> DEFINE l == Len(Prefix)
    <3>1. i \in Nat /\ i >= 1 /\ n \in Nat /\ l \in Nat /\ i + l + m <= n + 1
      BY <1>1, <2>1
    <3> HIDE DEF l
    <3>2. /\ \A j \in 1 .. l : i + j - 1 \in 1 .. n
          /\ \A j \in 1 .. m : i + l + j - 1 \in 1 .. n
      BY <2>1, <3>1
    <3>3. QED
      BY <3>2 DEF l
  <2>4. QED
    BY <1>1, <2>2, <2>3 DEF Marked, m
<1>4. QED
  BY <1>2, <1>3 DEF HoldsAt

-----------------------------------------------------------------------------
(* However the output is cut: what was returned and what is still held     *)
(* back mean, for each stream that begins with what was read, what the     *)
(* stream means.                                                           *)

Consumed == fed - Len(chunk)
Start == Consumed - HeldBy(parser) + 1

PassedSoFar == IF feeding THEN passed \o passthrough ELSE passed
ReportedSoFar == IF feeding THEN reported \o events ELSE reported

StreamTypes ==
  /\ passed \in Seq(STRING) /\ passthrough \in Seq(STRING)
  /\ reported \in Seq(Event) /\ events \in Seq(Event)
  /\ Len(chunk) <= fed /\ HeldBy(parser) <= Consumed

ChunkIsNext ==
  /\ \A j \in 1 .. Len(chunk) : chunk[j] = output[Consumed + j]
  /\ ~feeding => chunk = <<>>

\* s begins with what was read.
Begins(s) == Len(s) >= Consumed /\ \A k \in 1 .. Consumed : s[k] = output[k]

Accounted(s) ==
  /\ Meaning(s).passed = PassedSoFar \o MeaningFrom(s)[Start].passed
  /\ Meaning(s).events = ReportedSoFar \o MeaningFrom(s)[Start].events

StreamInv ==
  /\ StreamTypes /\ ChunkIsNext
  /\ HoldsAt(output, Start, parser)
  /\ \A s \in Seq(STRING) : Begins(s) => Accounted(s)

\* The numbers that StreamInv speaks of.
LEMMA StreamNumbers ==
  ASSUME OscInv, StreamTypes
  PROVE  /\ Consumed \in 0 .. Len(output) /\ Start \in 1 .. Consumed + 1
         /\ HeldBy(parser) \in Nat /\ Len(chunk) \in Nat /\ Len(output) \in Nat
         /\ fed = Consumed + Len(chunk) /\ Start + HeldBy(parser) = Consumed + 1
<1>1. HeldBy(parser) \in Nat
  BY HeldType
<1>2. Len(chunk) \in Nat /\ Len(output) \in Nat /\ fed \in 0 .. Len(output) /\ Len(chunk) <= fed
      /\ HeldBy(parser) <= Consumed
  BY DEF OscInv, OscTypeOK, StreamTypes
<1>3. QED
  BY <1>1, <1>2 DEF Consumed, Start

LEMMA MeaningParts ==
  ASSUME NEW s \in Seq(STRING), NEW i \in 1 .. Len(s) + 1
  PROVE  /\ MeaningFrom(s)[i].passed \in Seq(STRING)
         /\ MeaningFrom(s)[i].events \in Seq(Event)
<1>1. MeaningFrom(s)[i] \in MeaningType
  BY MeaningEquation
<1>2. QED
  BY <1>1 DEF MeaningType

LEMMA StreamInit ==
  OscInit => StreamInv
<1> SUFFICES ASSUME OscInit PROVE StreamInv
  OBVIOUS
<1>1. OscInv
  BY OscInitInv
<1>2. HeldBy(parser) = 0 /\ HoldsAt(output, 1, parser)
  <2>1. output \in Seq(STRING) /\ 1 \in Nat /\ parser = Normal
    BY <1>1 DEF OscInit, OscInv, OscTypeOK
  <2>2. QED
    BY <2>1, HoldsEsc
<1>3. Len(chunk) = 0 /\ fed = 0 /\ ~feeding /\ chunk = <<>>
  BY DEF OscInit
<1>4. Consumed = 0 /\ Start = 1
  BY <1>2, <1>3 DEF Consumed, Start
<1>5. /\ passed = <<>> /\ passthrough = <<>> /\ reported = <<>> /\ events = <<>>
      /\ passed \in Seq(STRING) /\ passthrough \in Seq(STRING)
      /\ reported \in Seq(Event) /\ events \in Seq(Event)
  BY DEF OscInit
<1>6. StreamTypes /\ ChunkIsNext
  BY <1>2, <1>3, <1>4, <1>5 DEF StreamTypes, ChunkIsNext
<1>7. ASSUME NEW s \in Seq(STRING)
      PROVE  Accounted(s)
  <2> DEFINE bytes == MeaningFrom(s)[1].passed
             later == MeaningFrom(s)[1].events
  <2>1. bytes \in Seq(STRING) /\ later \in Seq(Event)
    <3>1. 1 \in 1 .. Len(s) + 1
      OBVIOUS
    <3>2. QED
      BY <3>1, MeaningParts
  <2>2. Meaning(s).passed = bytes /\ Meaning(s).events = later
    BY DEF Meaning
  <2> HIDE DEF bytes, later
  <2>3. <<>> \o bytes = bytes /\ <<>> \o later = later
    BY <2>1
  <2>4. PassedSoFar = <<>> /\ ReportedSoFar = <<>>
    BY <1>3, <1>5 DEF PassedSoFar, ReportedSoFar
  <2>5. QED
    BY <1>4, <2>2, <2>3, <2>4 DEF Accounted, bytes, later
<1>8. QED
  BY <1>2, <1>4, <1>6, <1>7 DEF StreamInv

\* After every call, the meaning is all accounted for.
LEMMA StreamMeans ==
  OscInv /\ StreamInv => ChunksDoNotMatter
<1> SUFFICES ASSUME OscInv, StreamInv, ~feeding
             PROVE  /\ passed = Meaning(SubSeq(output, 1, fed)).passed
                    /\ reported = Meaning(SubSeq(output, 1, fed)).events
  BY DEF ChunksDoNotMatter
<1> DEFINE s == SubSeq(output, 1, fed)
<1>1. StreamTypes /\ Len(chunk) = 0
  BY DEF StreamInv, ChunkIsNext
<1>2. /\ fed = Consumed /\ fed \in 0 .. Len(output) /\ fed \in Nat
      /\ Start \in 1 .. fed + 1 /\ Start + HeldBy(parser) - 1 = fed
  <2>1. HeldBy(parser) \in Nat /\ Start \in 1 .. Consumed + 1
        /\ Start + HeldBy(parser) = Consumed + 1 /\ fed = Consumed + Len(chunk)
        /\ Consumed \in 0 .. Len(output)
    BY <1>1, StreamNumbers
  <2>2. QED
    BY <1>1, <2>1
<1>3. s \in Seq(STRING) /\ Len(s) = fed /\ HoldsAt(s, Start, parser) /\ Begins(s)
  <2>1. output \in Seq(STRING) /\ HoldsAt(output, Start, parser)
    BY DEF OscInv, OscTypeOK, StreamInv
  <2>2. s \in Seq(STRING) /\ Len(s) = fed /\ \A k \in 1 .. fed : s[k] = output[k]
    BY <1>2, <2>1
  <2> HIDE DEF s
  <2>3. Begins(s)
    BY <1>2, <2>2 DEF Begins
  <2>4. Start + HeldBy(parser) - 1 <= fed
    BY <1>2
  <2>5. HoldsAt(s, Start, parser)
    BY <1>2, <2>1, <2>2, <2>4, HoldsInBoth
  <2>6. QED
    BY <2>2, <2>3, <2>5
<1>4. MeaningFrom(s)[Start] = Nothing
  <2> HIDE DEF s
  <2>1. QED
    BY <1>2, <1>3, HeldMeansNothing
<1>5. Accounted(s) /\ PassedSoFar = passed /\ ReportedSoFar = reported
  <2> HIDE DEF s
  <2>1. QED
    BY <1>3 DEF StreamInv, PassedSoFar, ReportedSoFar
<1>6. Nothing.passed = <<>> /\ Nothing.events = <<>>
  BY DEF Nothing
<1> HIDE DEF s
<1>7. passed \o <<>> = passed /\ reported \o <<>> = reported
  BY <1>1 DEF StreamTypes
<1>8. QED
  BY <1>4, <1>5, <1>6, <1>7 DEF Accounted, s

\* A call begins, with what nothing else has been read of.
LEMMA StreamStart ==
  ASSUME OscInv, StreamInv, FeedStart
  PROVE  StreamInv'
<1>1. StreamTypes /\ ~feeding /\ feeding' /\ Len(chunk) = 0 /\ UNCHANGED <<output, parser, passed, reported>>
  BY DEF StreamInv, ChunkIsNext, FeedStart
<1>2. PICK n \in fed + 1 .. Len(output) : chunk' = SubSeq(output, fed + 1, n) /\ fed' = n
  BY DEF FeedStart
<1>3. /\ fed = Consumed /\ fed \in 0 .. Len(output) /\ HeldBy(parser) \in Nat
      /\ output \in Seq(STRING) /\ HeldBy(parser) <= Consumed
  <2>1. fed = Consumed + Len(chunk) /\ Consumed \in 0 .. Len(output) /\ HeldBy(parser) \in Nat
    BY <1>1, StreamNumbers
  <2>2. QED
    BY <1>1, <2>1 DEF OscInv, OscTypeOK, StreamTypes
<1>4. /\ Len(chunk') = n - fed /\ Len(chunk') \in Nat
      /\ \A j \in 1 .. n - fed : chunk'[j] = output[fed + j]
  BY <1>2, <1>3
<1>5. Consumed' = Consumed /\ Start' = Start
  <2>1. Consumed' = fed' - Len(chunk') /\ fed' \in Nat
    BY <1>2, <1>3 DEF Consumed
  <2>2. Consumed' = Consumed
    BY <1>2, <1>3, <1>4, <2>1
  <2>3. QED
    BY <1>1, <2>2 DEF Start
<1>6. /\ passthrough' = <<>> /\ events' = <<>>
      /\ passthrough' \in Seq(STRING) /\ events' \in Seq(Event)
  BY DEF FeedStart
<1>7. PassedSoFar' = PassedSoFar /\ ReportedSoFar' = ReportedSoFar
  <2>1. passed \in Seq(STRING) /\ reported \in Seq(Event)
    BY <1>1 DEF StreamTypes
  <2>2. passed \o <<>> = passed /\ reported \o <<>> = reported
    BY <2>1
  <2>3. QED
    BY <1>1, <1>6, <2>2 DEF PassedSoFar, ReportedSoFar
<1>8. StreamTypes'
  <2>1. Len(chunk') <= fed'
    BY <1>2, <1>3, <1>4
  <2>2. QED
    BY <1>1, <1>3, <1>5, <1>6, <2>1 DEF StreamTypes
<1>9. ChunkIsNext'
  BY <1>1, <1>3, <1>4, <1>5 DEF ChunkIsNext
<1>10. HoldsAt(output, Start, parser)'
  BY <1>1, <1>5 DEF StreamInv, HoldsAt, Marked
<1>11. (\A s \in Seq(STRING) : Begins(s) => Accounted(s))'
  BY <1>1, <1>5, <1>7 DEF StreamInv, Accounted, Begins
<1>12. QED
  BY <1>8, <1>9, <1>10, <1>11 DEF StreamInv

\* A call returns what it has.
LEMMA StreamEnd ==
  ASSUME OscInv, StreamInv, FeedEnd
  PROVE  StreamInv'
<1>1. /\ StreamTypes /\ feeding /\ ~feeding' /\ chunk = <<>>
      /\ passed' = passed \o passthrough /\ reported' = reported \o events
      /\ UNCHANGED <<output, fed, chunk, parser, passthrough, events>>
  BY DEF StreamInv, FeedEnd
<1>2. Consumed' = Consumed /\ Start' = Start
  BY <1>1 DEF Consumed, Start
<1>3. PassedSoFar' = PassedSoFar /\ ReportedSoFar' = ReportedSoFar
  BY <1>1 DEF PassedSoFar, ReportedSoFar
<1>4. StreamTypes'
  BY <1>1, <1>2 DEF StreamTypes
<1>5. ChunkIsNext'
  BY <1>1, <1>2 DEF StreamInv, ChunkIsNext
<1>6. HoldsAt(output, Start, parser)'
  BY <1>1, <1>2 DEF StreamInv, HoldsAt, Marked
<1>7. (\A s \in Seq(STRING) : Begins(s) => Accounted(s))'
  BY <1>1, <1>2, <1>3 DEF StreamInv, Accounted, Begins
<1>8. QED
  BY <1>4, <1>5, <1>6, <1>7 DEF StreamInv

\* A byte is taken from the chunk.
LEMMA NextPlace ==
  ASSUME NEW c \in Nat, NEW start \in 1 .. c + 1, NEW h \in Nat, NEW k \in 0 .. h + 1,
         start + h = c + 1
  PROVE  /\ start + h + 1 - k \in 1 .. c + 2 /\ (c + 1) - k + 1 = start + h + 1 - k
         /\ k <= c + 1
OBVIOUS

LEMMA StreamByte ==
  ASSUME OscInv, StreamInv, FeedByte
  PROVE  StreamInv'
<1> DEFINE byte == Head(chunk)
           N == Len(output)
           next == Start + HeldBy(parser) + 1 - HeldBy(parser')
<1>1. /\ StreamTypes /\ feeding /\ feeding' /\ chunk # <<>> /\ chunk' = Tail(chunk)
      /\ FeedNormal(byte) \/ FeedMatch(byte) \/ FeedMismatch(byte) \/ FeedPayload(byte)
      /\ UNCHANGED <<output, fed, passed, reported>>
  BY DEF StreamInv, FeedByte
<1>2. /\ chunk \in Seq(STRING) /\ byte \in STRING /\ output \in Seq(STRING)
      /\ byte = chunk[1] /\ Len(chunk) >= 1
  BY <1>1 DEF OscInv, OscTypeOK
<1>3. /\ Consumed \in 0 .. N /\ Start \in 1 .. Consumed + 1 /\ HeldBy(parser) \in Nat
      /\ Len(chunk) \in Nat /\ N \in Nat /\ fed = Consumed + Len(chunk)
      /\ Start + HeldBy(parser) = Consumed + 1 /\ fed \in 0 .. N
  BY <1>1, StreamNumbers DEF OscInv, OscTypeOK
<1>4. byte = output[Consumed + 1] /\ Consumed + 1 \in 1 .. N
  BY <1>2, <1>3 DEF StreamInv, ChunkIsNext
<1>5. /\ passthrough' \in Seq(STRING) /\ events' \in Seq(Event)
      /\ HeldBy(parser') \in 0 .. HeldBy(parser) + 1
  <2>1. passthrough \in Seq(STRING) /\ events \in Seq(Event)
    BY <1>1 DEF StreamTypes
  <2> HIDE DEF byte
  <2>2. QED
    BY <1>1, <1>2, <2>1, FeedTypes
<1>6. /\ Len(chunk') = Len(chunk) - 1
      /\ \A j \in 1 .. Len(chunk') : chunk'[j] = chunk[j + 1]
  BY <1>1, <1>2
<1>7. /\ Consumed' = Consumed + 1 /\ Start' = next /\ next \in 1 .. Consumed + 2
      /\ HeldBy(parser') <= Consumed + 1
  <2>1. Consumed' = fed' - Len(chunk')
    BY DEF Consumed
  <2>2. Consumed' = Consumed + 1
    BY <1>1, <1>3, <1>6, <2>1
  <2>3. Start' = Consumed' - HeldBy(parser') + 1
    BY DEF Start
  <2>4. /\ next \in 1 .. Consumed + 2 /\ (Consumed + 1) - HeldBy(parser') + 1 = next
        /\ HeldBy(parser') <= Consumed + 1
    <3>1. Consumed \in Nat
      BY <1>3
    <3>2. QED
      BY <1>3, <1>5, <3>1, NextPlace
  <2>5. Start' = next
    BY <2>2, <2>3, <2>4
  <2>6. QED
    BY <2>2, <2>4, <2>5
<1>8. ASSUME NEW s \in Seq(STRING), Len(s) >= Consumed + 1,
             \A k \in 1 .. Consumed + 1 : s[k] = output[k]
      PROVE  Advances(s, Start)
  <2>1. HoldsAt(s, Start, parser)
    <3>1. /\ Start + HeldBy(parser) - 1 <= Consumed /\ Consumed \in Nat
          /\ \A k \in 1 .. Consumed : s[k] = output[k]
      BY <1>3, <1>8
    <3>2. HoldsAt(output, Start, parser)
      BY DEF StreamInv
    <3>3. QED
      BY <1>2, <1>3, <3>1, <3>2, HoldsInBoth
  <2>2. Reads(s, Start, byte) /\ Start \in 1 .. Len(s)
    <3>1. /\ Start + HeldBy(parser) = Consumed + 1 /\ Consumed + 1 \in 1 .. Len(s)
          /\ Start \in 1 .. Len(s) /\ Consumed + 1 \in 1 .. Consumed + 1
      BY <1>3, <1>8
    <3>2. byte = s[Consumed + 1]
      BY <1>4, <1>8, <3>1
    <3>3. QED
      BY <2>1, <3>1, <3>2 DEF Reads
  <2>3. passthrough \in Seq(STRING) /\ events \in Seq(Event)
    BY <1>1 DEF StreamTypes
  <2> HIDE DEF byte
  <2>4. Advances(s, Start)
    BY <1>1, <2>2, <2>3, ByteAdvances
  <2>5. QED
    BY <2>4
<1>9. HoldsAt(output, Start, parser)'
  <2>1. Len(output) >= Consumed + 1
    BY <1>3, <1>4
  <2>2. Advances(output, Start)
    BY <1>2, <1>8, <2>1
  <2>3. HoldsAt(output, next, parser')
    BY <2>2 DEF Advances
  <2>4. QED
    BY <1>1, <1>7, <2>3 DEF HoldsAt, Marked
<1>10. ASSUME NEW s \in Seq(STRING), Begins(s)' PROVE Accounted(s)'
  <2> DEFINE from == MeaningFrom(s)
             bytes == from[Start].passed
             bytes2 == from[next].passed
             later == from[Start].events
             later2 == from[next].events
  <2>0. Len(s) >= Consumed + 1 /\ \A k \in 1 .. Consumed + 1 : s[k] = output[k]
    BY <1>1, <1>7, <1>10 DEF Begins
  <2>1. Advances(s, Start)
    BY <1>8, <2>0
  <2>2. passthrough' \o bytes2 = passthrough \o bytes /\ events' \o later2 = events \o later
    BY <2>1 DEF Advances
  <2>3. /\ bytes \in Seq(STRING) /\ bytes2 \in Seq(STRING)
        /\ later \in Seq(Event) /\ later2 \in Seq(Event)
    <3>1. Start \in 1 .. Len(s) + 1 /\ next \in 1 .. Len(s) + 1
      BY <1>3, <1>7, <2>0
    <3> HIDE DEF next
    <3>2. QED
      BY <3>1, MeaningParts
  <2>4. /\ Meaning(s).passed = (passed \o passthrough) \o bytes
        /\ Meaning(s).events = (reported \o events) \o later
    <3>1. Begins(s)
      BY <1>3, <2>0 DEF Begins
    <3>2. Accounted(s)
      BY <3>1 DEF StreamInv
    <3>3. QED
      BY <1>1, <3>2 DEF Accounted, PassedSoFar, ReportedSoFar
  <2>5. /\ passed \in Seq(STRING) /\ passthrough \in Seq(STRING)
        /\ reported \in Seq(Event) /\ events \in Seq(Event)
    BY <1>1 DEF StreamTypes
  <2> HIDE DEF bytes, bytes2, later, later2
  <2>6. (passed \o passthrough) \o bytes = (passed \o passthrough') \o bytes2
    <3>1. (passed \o passthrough) \o bytes = passed \o (passthrough \o bytes)
      <4>1. Regroup(passed, passthrough, bytes)
        BY <2>3, <2>5, ThreePieces
      <4>2. QED
        BY <4>1 DEF Regroup
    <3>2. (passed \o passthrough') \o bytes2 = passed \o (passthrough' \o bytes2)
      <4>1. Regroup(passed, passthrough', bytes2)
        BY <1>5, <2>3, <2>5, ThreePieces
      <4>2. QED
        BY <4>1 DEF Regroup
    <3>3. QED
      BY <2>2, <3>1, <3>2
  <2>7. (reported \o events) \o later = (reported \o events') \o later2
    <3>1. (reported \o events) \o later = reported \o (events \o later)
      <4>1. Regroup(reported, events, later)
        BY <2>3, <2>5, ThreeParts
      <4>2. QED
        BY <4>1 DEF Regroup
    <3>2. (reported \o events') \o later2 = reported \o (events' \o later2)
      <4>1. events' \in Seq(Event) /\ later2 \in Seq(Event) /\ reported \in Seq(Event)
        BY <1>5, <2>3, <2>5
      <4>2. QED
        BY <4>1, ThreeParts
    <3>3. QED
      BY <2>2, <3>1, <3>2
  <2>8. /\ Meaning(s).passed = (passed' \o passthrough') \o bytes2
        /\ Meaning(s).events = (reported' \o events') \o later2
    BY <1>1, <2>4, <2>6, <2>7
  <2>9. PassedSoFar' = passed' \o passthrough'
        /\ ReportedSoFar' = reported' \o events'
    BY <1>1 DEF PassedSoFar, ReportedSoFar
  <2>10. QED
    BY <1>7, <2>8, <2>9 DEF Accounted, bytes2, later2
<1>11. StreamTypes'
  <2>1. Len(chunk') <= fed' /\ HeldBy(parser') <= Consumed'
    <3>1. fed' = fed /\ Len(chunk') = Len(chunk) - 1
      BY <1>1, <1>6
    <3>2. Len(chunk) \in Nat /\ Consumed \in Nat /\ fed = Consumed + Len(chunk)
      BY <1>3
    <3>3. QED
      BY <1>7, <3>1, <3>2
  <2>2. QED
    BY <1>1, <1>5, <2>1 DEF StreamTypes
<1>12. ChunkIsNext'
  <2>1. ASSUME NEW j \in 1 .. Len(chunk') PROVE chunk'[j] = output[Consumed' + j]
    <3>1. j + 1 \in 1 .. Len(chunk) /\ Consumed' + j = Consumed + (j + 1)
      BY <1>3, <1>6, <1>7
    <3>2. QED
      BY <1>6, <3>1 DEF StreamInv, ChunkIsNext
  <2>2. QED
    BY <1>1, <2>1 DEF ChunkIsNext
<1>13. (\A s \in Seq(STRING) : Begins(s) => Accounted(s))'
  BY <1>10
<1>14. QED
  BY <1>9, <1>11, <1>12, <1>13 DEF StreamInv

LEMMA StreamNext ==
  ASSUME OscInv, StreamInv, [OscNext]_oscVars
  PROVE  StreamInv'
<1>1. CASE OscNext
  BY <1>1, StreamStart, StreamByte, StreamEnd DEF OscNext
<1>2. CASE UNCHANGED oscVars
  <2>1. Consumed' = Consumed /\ Start' = Start /\ PassedSoFar' = PassedSoFar
        /\ ReportedSoFar' = ReportedSoFar
    BY <1>2 DEF oscVars, Consumed, Start, PassedSoFar, ReportedSoFar
  <2>2. StreamTypes' /\ ChunkIsNext'
    BY <1>2, <2>1 DEF oscVars, StreamInv, StreamTypes, ChunkIsNext
  <2>3. HoldsAt(output, Start, parser)'
    BY <1>2, <2>1 DEF oscVars, StreamInv, HoldsAt, Marked
  <2>4. (\A s \in Seq(STRING) : Begins(s) => Accounted(s))'
    BY <1>2, <2>1 DEF oscVars, StreamInv, Begins, Accounted
  <2>5. QED
    BY <2>2, <2>3, <2>4 DEF StreamInv
<1>3. QED
  BY <1>1, <1>2

\* For every prefix, limit and output, and wherever the output is cut into chunks:
\* after each call of feed, what was passed on and what was reported are the meaning
\* of the bytes read so far, as a reader of the whole stream would find it.
THEOREM ChunksNeverMatter ==
  OscSpec => []ChunksDoNotMatter
<1>1. OscInit => OscInv /\ StreamInv
  BY OscInitInv, StreamInit
<1>2. OscInv /\ StreamInv /\ [OscNext]_oscVars => OscInv' /\ StreamInv'
  BY OscNextInv, StreamNext
<1>3. OscInv /\ StreamInv => ChunksDoNotMatter
  BY StreamMeans
<1>4. QED
  BY <1>1, <1>2, <1>3, PTL DEF OscSpec

-----------------------------------------------------------------------------
(* The bytes of events.                                                    *)

Byte == STRING \cup DOMAIN Control \cup DOMAIN Arrow \cup {"esc", "["}

KeyType == {"Raw", "Char", "Escape"} \cup Range(Arrow) \cup Range(Control)

KeyEvent == {e \in [type : KeyType, bytes : Seq(Byte)] : RawBytes(e) \in Seq(Byte)}

LEMMA ByteTypes ==
  /\ \A s \in Seq(STRING) : s \in Seq(Byte)
  /\ "esc" \in Byte /\ "[" \in Byte
  /\ \A f \in DOMAIN Arrow : f \in Byte
  /\ \A b \in DOMAIN Control : b \in Byte
<1>1. ASSUME NEW s \in Seq(STRING) PROVE s \in Seq(Byte)
  <2>1. \A k \in 1 .. Len(s) : s[k] \in Byte
    BY DEF Byte
  <2> HIDE DEF Byte
  <2>2. s = [k \in 1 .. Len(s) |-> s[k]] /\ Len(s) \in Nat
    BY SequenceIsFunction
  <2>3. QED
    BY <2>1, <2>2
<1>2. QED
  BY <1>1 DEF Byte

Sent(all) == FlattenSeq([k \in 1 .. Len(all) |-> RawBytes(all[k])])

LEMMA BytesConcat ==
  ASSUME NEW a \in Seq(Seq(Byte)), NEW b \in Seq(Seq(Byte)), NEW c \in Seq(Seq(Byte)),
         Len(c) = Len(a) + Len(b),
         \A k \in 1 .. Len(c) : c[k] = IF k <= Len(a) THEN a[k] ELSE b[k - Len(a)]
  PROVE  c = a \o b
BY IsConcat

LEMMA SentConcat ==
  ASSUME NEW a \in Seq(KeyEvent), NEW b \in Seq(KeyEvent)
  PROVE  Sent(a) \in Seq(Byte) /\ Sent(a \o b) = Sent(a) \o Sent(b)
<1> DEFINE Raws(c) == [k \in 1 .. Len(c) |-> RawBytes(c[k])]
<1>1. ASSUME NEW c \in Seq(KeyEvent)
      PROVE  /\ Raws(c) \in Seq(Seq(Byte)) /\ Len(Raws(c)) = Len(c)
             /\ \A k \in 1 .. Len(c) : Raws(c)[k] = RawBytes(c[k])
  <2>1. \A k \in 1 .. Len(c) : RawBytes(c[k]) \in Seq(Byte)
    BY DEF KeyEvent
  <2>2. QED
    BY <2>1
<1>2. /\ a \o b \in Seq(KeyEvent) /\ Len(a \o b) = Len(a) + Len(b)
      /\ \A k \in 1 .. Len(a) + Len(b) : (a \o b)[k] = IF k <= Len(a) THEN a[k] ELSE b[k - Len(a)]
  OBVIOUS
<1>3. Raws(a \o b) = Raws(a) \o Raws(b)
  <2> DEFINE ab == a \o b
             ra == Raws(a)
             rb == Raws(b)
             rab == Raws(ab)
  <2>1. /\ ra \in Seq(Seq(Byte)) /\ rb \in Seq(Seq(Byte)) /\ rab \in Seq(Seq(Byte))
        /\ Len(ra) = Len(a) /\ Len(rb) = Len(b) /\ Len(rab) = Len(a) + Len(b)
        /\ \A k \in 1 .. Len(a) : ra[k] = RawBytes(a[k])
        /\ \A k \in 1 .. Len(b) : rb[k] = RawBytes(b[k])
        /\ \A k \in 1 .. Len(a) + Len(b) : rab[k] = RawBytes(ab[k])
    BY <1>1, <1>2
  <2>2. \A k \in 1 .. Len(a) + Len(b) : ab[k] = IF k <= Len(a) THEN a[k] ELSE b[k - Len(a)]
    BY <1>2
  <2>3. Len(a) \in Nat /\ Len(b) \in Nat
    OBVIOUS
  <2> HIDE DEF ab, ra, rb, rab, Raws
  <2>4. ASSUME NEW k \in 1 .. Len(a) + Len(b)
        PROVE  rab[k] = IF k <= Len(a) THEN ra[k] ELSE rb[k - Len(a)]
    <3>1. CASE k <= Len(a)
      BY <2>1, <2>2, <2>3, <3>1
    <3>2. CASE ~(k <= Len(a))
      <4>1. k - Len(a) \in 1 .. Len(b)
        BY <2>3, <3>2
      <4>2. QED
        BY <2>1, <2>2, <2>3, <3>2, <4>1
    <3>3. QED
      BY <3>1, <3>2
  <2>5. rab = ra \o rb
    <3>1. /\ ra \in Seq(Seq(Byte)) /\ rb \in Seq(Seq(Byte)) /\ rab \in Seq(Seq(Byte))
          /\ Len(rab) = Len(ra) + Len(rb)
          /\ \A k \in 1 .. Len(rab) : rab[k] = IF k <= Len(ra) THEN ra[k] ELSE rb[k - Len(ra)]
      <4>1. Len(rab) = Len(ra) + Len(rb) /\ Len(ra) = Len(a) /\ Len(rab) = Len(a) + Len(b)
        BY <2>1
      <4>2. QED
        BY <2>1, <2>4, <4>1, Zenon
    <3>2. QED
      BY ONLY <3>1, BytesConcat
  <2>6. QED
    BY <2>5 DEF ab, ra, rb, rab, Raws
<1>4. FlattenSeq(Raws(a) \o Raws(b)) = FlattenSeq(Raws(a)) \o FlattenSeq(Raws(b))
  <2>1. Raws(a) \in Seq(Seq(Byte)) /\ Raws(b) \in Seq(Seq(Byte))
    BY <1>1
  <2> HIDE DEF Raws
  <2>2. QED
    BY <2>1, FlattenConcat
<1>5. FlattenSeq(Raws(a)) \in Seq(Byte)
  <2>1. Raws(a) \in Seq(Seq(Byte)) /\ <<>> \in Seq(Byte)
    BY <1>1
  <2> HIDE DEF Raws
  <2>2. QED
    BY <2>1, FlattenAppend
<1>6. QED
  BY <1>3, <1>4, <1>5 DEF Sent

LEMMA SentOne ==
  /\ Sent(<<>>) = <<>>
  /\ \A e \in KeyEvent : Sent(<<e>>) = RawBytes(e)
<1>1. Sent(<<>>) = <<>>
  BY DEF Sent, FlattenSeq
<1>2. ASSUME NEW e \in KeyEvent PROVE Sent(<<e>>) = RawBytes(e)
  <2> DEFINE x == RawBytes(e)
  <2>1. x \in Seq(Byte)
    BY DEF KeyEvent
  <2>2. [k \in 1 .. Len(<<e>>) |-> RawBytes(<<e>>[k])] = Append(<<>>, x)
    OBVIOUS
  <2>3. Sent(<<e>>) = FlattenSeq(Append(<<>>, x))
    BY <2>2 DEF Sent
  <2> HIDE DEF x
  <2>4. FlattenSeq(Append(<<>>, x)) = FlattenSeq(<<>>) \o x
    <3>1. <<>> \in Seq(Seq(Byte))
      OBVIOUS
    <3>2. QED
      BY <2>1, <3>1, FlattenAppend
  <2>5. FlattenSeq(<<>>) = <<>> /\ <<>> \o x = x
    BY <2>1 DEF FlattenSeq
  <2>6. QED
    BY <2>3, <2>4, <2>5 DEF x
<1>3. QED
  BY <1>1, <1>2

\* Each kind of event goes to the shell as the bytes it was made of.
LEMMA RawOf ==
  /\ \A b \in Seq(Byte) : /\ Raw(b) \in KeyEvent /\ RawBytes(Raw(b)) = b
                            /\ Char(b) \in KeyEvent /\ RawBytes(Char(b)) = b
  /\ Key("Escape") \in KeyEvent /\ RawBytes(Key("Escape")) = <<"esc">>
  /\ \A f \in DOMAIN Arrow : /\ Key(Arrow[f]) \in KeyEvent
                             /\ RawBytes(Key(Arrow[f])) = <<"esc", "[", f>>
<1>1. DOMAIN Arrow = {"A", "B", "C", "D"}
  BY DEF Arrow
<1>2. Range(Arrow) = {"ArrowUp", "ArrowDown", "ArrowRight", "ArrowLeft"}
  BY <1>1 DEF Range, Arrow
<1>3. Range(Control) = {"CtrlC", "CtrlD", "Tab", "CtrlL", "Enter", "Backspace"}
  BY DEF Range, Control
<1>4. ASSUME NEW b \in Seq(Byte)
      PROVE  /\ Raw(b) \in KeyEvent /\ RawBytes(Raw(b)) = b
             /\ Char(b) \in KeyEvent /\ RawBytes(Char(b)) = b
  <2>1. RawBytes(Raw(b)) = b /\ RawBytes(Char(b)) = b
    BY <1>2, <1>3 DEF RawBytes, Raw, Char
  <2>2. Raw(b) \in [type : KeyType, bytes : Seq(Byte)]
        /\ Char(b) \in [type : KeyType, bytes : Seq(Byte)]
    BY DEF Raw, Char, KeyType
  <2>3. QED
    BY <2>1, <2>2 DEF KeyEvent
<1>5. Key("Escape") \in KeyEvent /\ RawBytes(Key("Escape")) = <<"esc">>
  <2>1. RawBytes(Key("Escape")) = <<"esc">>
    BY <1>2, <1>3 DEF RawBytes, Key
  <2>2. Key("Escape") \in [type : KeyType, bytes : Seq(Byte)]
    <3>1. <<>> \in Seq(Byte) /\ "Escape" \in KeyType
      BY DEF KeyType
    <3>2. QED
      BY <3>1 DEF Key
  <2>3. <<"esc">> \in Seq(Byte)
    BY ByteTypes, OneOf
  <2>4. QED
    BY <2>1, <2>2, <2>3 DEF KeyEvent
<1>6. ASSUME NEW f \in DOMAIN Arrow
      PROVE  Key(Arrow[f]) \in KeyEvent /\ RawBytes(Key(Arrow[f])) = <<"esc", "[", f>>
  <2>1. (CHOOSE g \in DOMAIN Arrow : Arrow[g] = Arrow[f]) = f
    BY <1>1, <1>6 DEF Arrow
  <2>2. Arrow[f] \in Range(Arrow) /\ Arrow[f] # "Escape" /\ Arrow[f] \in KeyType
        /\ Arrow[f] \notin Range(Control)
    <3>1. Arrow[f] \in {"ArrowUp", "ArrowDown", "ArrowRight", "ArrowLeft"}
      BY <1>1, <1>6 DEF Arrow
    <3>2. QED
      BY <1>2, <1>3, <3>1 DEF KeyType
  <2>3. RawBytes(Key(Arrow[f])) = <<"esc", "[", f>>
    BY <1>2, <1>3, <2>1, <2>2 DEF RawBytes, Key
  <2>4. <<"esc", "[", f>> \in Seq(Byte)
    BY <1>6, ByteTypes, TwoOrThreeOf
  <2>5. Key(Arrow[f]) \in [type : KeyType, bytes : Seq(Byte)]
    <3>1. <<>> \in Seq(Byte)
      OBVIOUS
    <3>2. QED
      BY <2>2, <3>1 DEF Key
  <2>6. QED
    BY <2>3, <2>4, <2>5 DEF KeyEvent
<1>7. QED
  BY <1>4, <1>5, <1>6

\* Bytes that are the same but for the two that are a Backspace.
Same(a, b) == UpToBackspace(a) = UpToBackspace(b)

LEMMA ThreeRegroup ==
  ASSUME NEW a \in Seq(Byte), NEW b \in Seq(Byte), NEW c \in Seq(Byte)
  PROVE  Regroup(a, b, c)
BY ConcatAssociative DEF Regroup

LEMMA UpToConcat ==
  ASSUME NEW a \in Seq(Byte), NEW b \in Seq(Byte)
  PROVE  UpToBackspace(a \o b) = UpToBackspace(a) \o UpToBackspace(b)
<1> DEFINE U(x) == IF x = "bs" THEN "del" ELSE x
           n == Len(a)
           m == Len(b)
           ua == [k \in 1 .. n |-> U(a[k])]
           ub == [k \in 1 .. m |-> U(b[k])]
<1>1. \A x \in Byte : U(x) \in Byte
  BY ByteTypes DEF Control
<1> HIDE DEF U
<1>2. /\ n \in Nat /\ m \in Nat /\ a \o b \in Seq(Byte) /\ Len(a \o b) = n + m
      /\ \A k \in 1 .. n : a[k] \in Byte
      /\ \A k \in 1 .. m : b[k] \in Byte
  OBVIOUS
<1>3. ua \in Seq(Byte) /\ Len(ua) = n /\ ub \in Seq(Byte) /\ Len(ub) = m
      /\ (\A k \in 1 .. n : ua[k] = U(a[k])) /\ \A k \in 1 .. m : ub[k] = U(b[k])
  BY <1>1, <1>2
<1>4. a \o b = [k \in 1 .. n + m |-> IF k <= n THEN a[k] ELSE b[k - n]]
  BY ConcatIsFunction
<1> HIDE DEF n, m, ua, ub
<1>5. ua \o ub = [k \in 1 .. n + m |-> IF k <= n THEN ua[k] ELSE ub[k - n]]
  BY <1>3, ConcatIsFunction
<1> DEFINE ab == a \o b
<1>6. [k \in 1 .. n + m |-> U(ab[k])] = ua \o ub
  <2>1. ASSUME NEW k \in 1 .. n + m
        PROVE  U(ab[k]) = IF k <= n THEN ua[k] ELSE ub[k - n]
    <3>1. ab[k] = IF k <= n THEN a[k] ELSE b[k - n]
      BY <1>4
    <3> HIDE DEF ab
    <3>2. CASE k <= n
      BY <1>2, <1>3, <3>1, <3>2
    <3>3. CASE ~(k <= n)
      <4>1. k - n \in 1 .. m
        BY <1>2, <3>3
      <4>2. QED
        BY <1>3, <3>1, <3>3, <4>1
    <3>4. QED
      BY <3>2, <3>3
  <2> HIDE DEF ab
  <2>2. QED
    BY <1>5, <2>1
<1>7. UpToBackspace(ab) = [k \in 1 .. n + m |-> U(ab[k])]
  BY <1>2 DEF UpToBackspace, U
<1>8. UpToBackspace(a) = ua /\ UpToBackspace(b) = ub
  BY DEF UpToBackspace, U, ua, ub, n, m
<1>9. QED
  BY <1>6, <1>7, <1>8

LEMMA SameConcat ==
  ASSUME NEW a \in Seq(Byte), NEW b \in Seq(Byte), NEW c \in Seq(Byte), NEW d \in Seq(Byte),
         Same(a, c), Same(b, d)
  PROVE  Same(a \o b, c \o d)
<1>1. UpToBackspace(a \o b) = UpToBackspace(a) \o UpToBackspace(b)
  BY UpToConcat
<1>2. UpToBackspace(c \o d) = UpToBackspace(c) \o UpToBackspace(d)
  BY UpToConcat
<1>3. QED
  BY <1>1, <1>2 DEF Same

-----------------------------------------------------------------------------
(* One key: its events are the bytes from where it begins to where it ends.*)

TokenType == [events : Seq(KeyEvent), next : Nat, pending : BOOLEAN]

\* A token that does not leave an ESC pending and stands for certain bytes.
Stands(key, bytes) ==
  /\ key \in TokenType /\ ~key.pending
  /\ Sent(key.events) \in Seq(Byte) /\ Same(Sent(key.events), bytes)

LEMMA OneStands ==
  ASSUME NEW e \in KeyEvent, NEW next \in Nat, NEW bytes, Same(RawBytes(e), bytes)
  PROVE  Stands(Token(<<e>>, next), bytes) /\ Token(<<e>>, next).next = next
<1>1. <<e>> \in Seq(KeyEvent)
  BY OneOf
<1>2. Sent(<<e>>) = RawBytes(e) /\ RawBytes(e) \in Seq(Byte)
  BY SentOne DEF KeyEvent
<1>3. QED
  BY <1>1, <1>2 DEF Stands, Token, TokenType

LEMMA CsiStands ==
  ASSUME NEW buf \in Seq(Byte), NEW i \in 1 .. Len(buf) + 1, NEW key, key = Csi(buf, i)
  PROVE  /\ key.next \in i .. Len(buf) + 1
         /\ Stands(key, <<"esc", "[">> \o SubSeq(buf, i, key.next - 1))
<1> DEFINE intro == <<"esc", "[">>
           ends == {j \in i .. Len(buf) : buf[j] \in Final}
           end == IF ends = {} THEN Len(buf) ELSE Min(ends)
<1>1. Len(buf) \in Nat /\ i \in Nat /\ intro \in Seq(Byte)
  BY ByteTypes, TwoOrThreeOf
<1>2. CASE i > Len(buf)
  <2>1. key = Token(<<Raw(intro)>>, i)
    BY <1>1, <1>2 DEF Csi, CutCsi
  <2>2. SubSeq(buf, i, i - 1) = <<>>
    BY <1>1
  <2> HIDE DEF intro
  <2>3. intro \o <<>> = intro /\ Same(intro, intro)
    BY <1>1 DEF Same
  <2>4. Raw(intro) \in KeyEvent /\ RawBytes(Raw(intro)) = intro
    BY <1>1, RawOf
  <2>5. Stands(key, intro) /\ key.next = i
    BY <1>1, <2>1, <2>3, <2>4, OneStands
  <2>6. QED
    <3>1. key.next - 1 = i - 1 /\ intro \o SubSeq(buf, i, i - 1) = intro
      BY <1>1, <2>2, <2>3, <2>5
    <3>2. key.next \in i .. Len(buf) + 1
      BY <1>1, <2>5
    <3>3. QED
      BY <2>5, <3>1, <3>2 DEF intro
<1>3. CASE i <= Len(buf) /\ buf[i] \in DOMAIN Arrow
  <2>1. key = Token(<<Key(Arrow[buf[i]])>>, i + 1)
    BY <1>1, <1>3 DEF Csi
  <2>2. SubSeq(buf, i, i) = <<buf[i]>> /\ buf[i] \in Byte /\ (i + 1) - 1 = i
        /\ i + 1 \in i .. Len(buf) + 1 /\ i + 1 \in Nat
    <3>1. i \in 1 .. Len(buf)
      BY <1>1, <1>3
    <3>2. QED
      BY <1>1, <3>1, OneAt
  <2>3. intro \o <<buf[i]>> = <<"esc", "[", buf[i]>>
    BY <2>2, ByteTypes, TwoAndOne
  <2>4. Key(Arrow[buf[i]]) \in KeyEvent /\ RawBytes(Key(Arrow[buf[i]])) = <<"esc", "[", buf[i]>>
    BY <1>3, RawOf
  <2>5. Stands(key, <<"esc", "[", buf[i]>>) /\ key.next = i + 1
    <3>1. Same(RawBytes(Key(Arrow[buf[i]])), <<"esc", "[", buf[i]>>)
      BY <2>4 DEF Same
    <3>2. QED
      BY <2>1, <2>2, <2>4, <3>1, OneStands
  <2>6. QED
    BY <2>2, <2>3, <2>5
<1>4. CASE i <= Len(buf) /\ buf[i] \notin DOMAIN Arrow
  <2> DEFINE bytes == intro \o SubSeq(buf, i, end)
  <2>1. key = Token(<<Raw(bytes)>>, end + 1)
    BY <1>1, <1>4 DEF Csi
  <2>2. end \in i .. Len(buf)
    <3>1. ends # {} => Min(ends) \in ends
      <4>1. ends \in SUBSET Nat
        BY <1>1
      <4>2. ends # {} => \E m \in ends : \A k \in ends : m <= k
        BY <4>1, LeastNumber
      <4>3. QED
        BY <4>2 DEF Min
    <3>2. QED
      BY <1>1, <1>4, <3>1
  <2> HIDE DEF end, intro
  <2>3. SubSeq(buf, i, end) \in Seq(Byte) /\ (end + 1) - 1 = end /\ end + 1 \in Nat
    BY <1>1, <2>2
  <2>4. bytes \in Seq(Byte)
    BY <1>1, <2>3
  <2> HIDE DEF bytes
  <2>5. Raw(bytes) \in KeyEvent /\ RawBytes(Raw(bytes)) = bytes /\ Same(bytes, bytes)
    BY <2>4, RawOf DEF Same
  <2>6. Stands(key, bytes) /\ key.next = end + 1
    BY <2>1, <2>3, <2>5, OneStands
  <2>7. QED
    BY <1>1, <2>2, <2>3, <2>6 DEF bytes, intro
<1>5. QED
  BY <1>1, <1>2, <1>3, <1>4

\* A control byte goes to the shell as it is, but for one of the two that are a
\* Backspace.
LEMMA ControlStands ==
  ASSUME NEW b \in DOMAIN Control
  PROVE  /\ Key(Control[b]) \in KeyEvent
         /\ Same(RawBytes(Key(Control[b])), <<b>>)
<1>1. DOMAIN Control = {"etx", "eot", "tab", "ff", "cr", "del", "bs"}
  BY DEF Control
<1>2. Range(Control) = {"CtrlC", "CtrlD", "Tab", "CtrlL", "Enter", "Backspace"}
  BY DEF Range, Control
<1>3. Range(Arrow) = {"ArrowUp", "ArrowDown", "ArrowRight", "ArrowLeft"}
  BY DEF Range, Arrow
<1> DEFINE type == Control[b]
<1>4. type \in Range(Control) /\ (type = "Backspace" <=> b \in {"del", "bs"})
      /\ \A c \in DOMAIN Control : type # "Backspace" /\ Control[c] = type => c = b
  BY <1>1, <1>2 DEF Control
<1> HIDE DEF type
<1>5. type # "Escape" /\ type \notin Range(Arrow) /\ type \in KeyType
  BY <1>2, <1>3, <1>4 DEF KeyType
<1>6. <<b>> \in Seq(Byte) /\ <<"del">> \in Seq(Byte)
  <2>1. b \in Byte /\ "del" \in Byte
    BY <1>1, ByteTypes
  <2>2. QED
    BY <2>1, OneOf
<1>7. RawBytes(Key(type)) \in Seq(Byte) /\ Same(RawBytes(Key(type)), <<b>>)
  <2>1. CASE type = "Backspace"
    <3>1. RawBytes(Key(type)) = <<"del">>
      BY <1>3, <2>1 DEF RawBytes, Key
    <3>2. Same(<<"del">>, <<"del">>) /\ Same(<<"del">>, <<"bs">>)
      BY DEF Same, UpToBackspace
    <3>3. QED
      BY <1>4, <1>6, <2>1, <3>1, <3>2
  <2>2. CASE type # "Backspace"
    <3> DEFINE byte == CHOOSE c \in DOMAIN Control : Control[c] = type
    <3>1. byte = b
      <4>1. \E c \in DOMAIN Control : Control[c] = type
        BY DEF type
      <4>2. byte \in DOMAIN Control /\ Control[byte] = type
        BY <4>1
      <4>3. QED
        BY <1>4, <2>2, <4>2
    <3>2. RawBytes(Key(type)) = <<byte>>
      BY <1>4, <1>5, <2>2 DEF RawBytes, Key
    <3>3. Same(<<b>>, <<b>>)
      BY DEF Same
    <3>4. QED
      BY <1>6, <3>1, <3>2, <3>3
  <2>3. QED
    BY <2>1, <2>2
<1>8. Key(type) \in [type : KeyType, bytes : Seq(Byte)]
  <2>1. <<>> \in Seq(Byte)
    OBVIOUS
  <2>2. QED
    BY <1>5, <2>1 DEF Key
<1>9. QED
  BY <1>7, <1>8 DEF KeyEvent, type

\* The ESC that ends the chunk is left pending; any other key goes on, and its
\* events are its bytes.
LEMMA KeyAtStands ==
  ASSUME NEW buf \in Seq(Byte), NEW i \in 1 .. Len(buf), NEW key, key = KeyAt(buf, i)
  PROVE  \/ /\ buf[i] = "esc" /\ i = Len(buf)
            /\ key = [events |-> <<>>, next |-> Len(buf) + 1, pending |-> TRUE]
         \/ /\ key.next \in i + 1 .. Len(buf) + 1
            /\ Stands(key, SubSeq(buf, i, key.next - 1))
<1> DEFINE byte == buf[i]
<1>1. /\ Len(buf) \in Nat /\ i \in Nat /\ i >= 1 /\ i <= Len(buf) /\ byte \in Byte
      /\ SubSeq(buf, i, i) = <<byte>> /\ i + 1 \in Nat /\ (i + 1) - 1 = i
      /\ i + 1 \in i + 1 .. Len(buf) + 1
  BY OneAt
<1>2. byte \in DOMAIN Control => byte # "esc"
  BY DEF Control
<1>3. byte \in Printable => byte # "esc" /\ byte \notin DOMAIN Control
  BY KeyAssumption
<1> HIDE DEF byte
<1>4. CASE byte = "esc" /\ i = Len(buf)
  <2>1. key = [events |-> <<>>, next |-> i + 1, pending |-> TRUE]
    BY <1>2, <1>3, <1>4 DEF KeyAt, byte
  <2>2. QED
    BY <1>4, <2>1 DEF byte
<1>5. CASE byte = "esc" /\ i < Len(buf)
  <2>1. key = IF buf[i + 1] = "[" THEN Csi(buf, i + 2)
              ELSE Token(<<Raw(<<"esc", buf[i + 1]>>)>>, i + 2)
    BY <1>1, <1>2, <1>3, <1>5 DEF KeyAt, byte
  <2>2. /\ i \in 1 .. Len(buf) - 1 /\ i + 2 \in 1 .. Len(buf) + 1 /\ i + 2 \in Nat
        /\ (i + 2) - 1 = i + 1 /\ i + 2 \in i + 1 .. Len(buf) + 1
        /\ \A n \in i + 2 .. Len(buf) + 1 : n - 1 \in i + 1 .. Len(buf) /\ n \in i + 1 .. Len(buf) + 1
    BY <1>1, <1>5
  <2>3. \A end \in i + 1 .. Len(buf) :
           /\ SubSeq(buf, i, end) = <<buf[i], buf[i + 1]>> \o SubSeq(buf, i + 2, end)
           /\ SubSeq(buf, i, i + 1) = <<buf[i], buf[i + 1]>>
           /\ buf[i + 1] \in Byte
    BY <2>2, TwoThenRest
  <2>4. CASE buf[i + 1] = "["
    <3>1. key = Csi(buf, i + 2)
      BY <2>1, <2>4
    <3>2. /\ key.next \in i + 2 .. Len(buf) + 1
          /\ Stands(key, <<"esc", "[">> \o SubSeq(buf, i + 2, key.next - 1))
      BY <2>2, <3>1, CsiStands
    <3>3. SubSeq(buf, i, key.next - 1) = <<"esc", "[">> \o SubSeq(buf, i + 2, key.next - 1)
      BY <1>5, <2>2, <2>3, <2>4, <3>2 DEF byte
    <3>4. QED
      BY <2>2, <3>2, <3>3
  <2>5. CASE buf[i + 1] # "["
    <3> DEFINE two == <<"esc", buf[i + 1]>>
    <3>1. key = Token(<<Raw(two)>>, i + 2)
      BY <2>1, <2>5
    <3>2. i + 1 \in i + 1 .. Len(buf)
      BY <1>1, <1>5
    <3>3. SubSeq(buf, i, i + 1) = two /\ two \in Seq(Byte)
      <4>1. SubSeq(buf, i, i + 1) = two /\ buf[i + 1] \in Byte
        BY <1>5, <2>3, <3>2 DEF byte
      <4>2. QED
        BY <4>1, ByteTypes, TwoOrThreeOf
    <3> HIDE DEF two
    <3>4. Raw(two) \in KeyEvent /\ RawBytes(Raw(two)) = two /\ Same(two, two)
      BY <3>3, RawOf DEF Same
    <3>5. Stands(key, two) /\ key.next = i + 2
      BY <2>2, <3>1, <3>4, OneStands
    <3>6. QED
      BY <2>2, <3>3, <3>5
  <2>6. QED
    BY <2>4, <2>5
<1>6. CASE byte # "esc" /\ byte \in DOMAIN Control
  <2>1. key = Token(<<Key(Control[byte])>>, i + 1)
    BY <1>3, <1>6 DEF KeyAt, byte
  <2>2. Key(Control[byte]) \in KeyEvent /\ Same(RawBytes(Key(Control[byte])), <<byte>>)
    BY <1>6, ControlStands
  <2>3. Stands(key, <<byte>>) /\ key.next = i + 1
    BY <1>1, <2>1, <2>2, OneStands
  <2>4. QED
    BY <1>1, <2>3
<1>7. CASE byte # "esc" /\ byte \notin DOMAIN Control /\ byte \in Printable
  <2> DEFINE one == <<byte>>
  <2>1. key = Token(<<Char(one)>>, i + 1)
    BY <1>7 DEF KeyAt, byte
  <2>2. one \in Seq(Byte)
    BY <1>1, OneOf
  <2> HIDE DEF one
  <2>3. Char(one) \in KeyEvent /\ RawBytes(Char(one)) = one /\ Same(one, one)
    BY <2>2, RawOf DEF Same
  <2>4. Stands(key, one) /\ key.next = i + 1
    BY <1>1, <2>1, <2>3, OneStands
  <2>5. QED
    BY <1>1, <2>4 DEF one
<1>8. CASE byte # "esc" /\ byte \notin DOMAIN Control /\ byte \notin Printable
  <2> DEFINE several == Decodings(buf, i)
             n == Max(several)
             one == <<byte>>
             all == SubSeq(buf, i, i + n - 1)
  <2>1. key = IF several = {} THEN Token(<<Raw(one)>>, i + 1)
              ELSE Token(<<Char(all)>>, i + n)
    BY <1>8 DEF KeyAt, byte
  <2>2. CASE several = {}
    <3>1. one \in Seq(Byte)
      BY <1>1, OneOf
    <3>2. key = Token(<<Raw(one)>>, i + 1)
      BY <2>1, <2>2
    <3> HIDE DEF one
    <3>3. Raw(one) \in KeyEvent /\ RawBytes(Raw(one)) = one /\ Same(one, one)
      BY <3>1, RawOf DEF Same
    <3>4. Stands(key, one) /\ key.next = i + 1
      BY <1>1, <3>2, <3>3, OneStands
    <3>5. QED
      BY <1>1, <3>4 DEF one
  <2>3. CASE several # {}
    <3>1. several \subseteq 2 .. 4 /\ \A k \in several : i + k - 1 <= Len(buf)
      BY DEF Decodings
    <3> HIDE DEF several
    <3>2. n \in several
      <4>1. \E k \in several : \A j \in several : j <= k
        <5>1. \A j \in several : j = 2 \/ j = 3 \/ j = 4
          BY <3>1
        <5>2. CASE 4 \in several
          BY <5>1, <5>2
        <5>3. CASE 4 \notin several /\ 3 \in several
          BY <5>1, <5>3
        <5>4. CASE 4 \notin several /\ 3 \notin several
          BY <2>3, <5>1, <5>4
        <5>5. QED
          BY <5>2, <5>3, <5>4
      <4>2. QED
        BY <4>1 DEF Max
    <3> HIDE DEF n
    <3>3. /\ n \in Nat /\ i + n - 1 \in i - 1 .. Len(buf) /\ (i + n) - 1 = i + n - 1
          /\ i + n \in i + 1 .. Len(buf) + 1 /\ i + n \in Nat
      BY <1>1, <3>1, <3>2
    <3>4. all \in Seq(Byte)
      <4>1. i \in 1 .. Len(buf) + 1
        BY <1>1
      <4>2. QED
        BY <3>3, <4>1, PieceOf
    <3>5. key = Token(<<Char(all)>>, i + n)
      BY <2>1, <2>3
    <3> HIDE DEF all
    <3>6. Char(all) \in KeyEvent /\ RawBytes(Char(all)) = all /\ Same(all, all)
      BY <3>4, RawOf DEF Same
    <3>7. Stands(key, all) /\ key.next = i + n
      BY <3>3, <3>5, <3>6, OneStands
    <3>8. QED
      BY <3>3, <3>7 DEF all
  <2>4. QED
    BY <2>2, <2>3
<1>9. QED
  BY <1>1, <1>4, <1>5, <1>6, <1>7, <1>8

-----------------------------------------------------------------------------
(* A chunk: its events are its bytes, but for an ESC that is left pending.  *)

Escaped(flag) == IF flag THEN <<"esc">> ELSE <<>>

\* A token that stands for certain bytes, the ESC it leaves pending included.
Covers(token, bytes) ==
  /\ token \in TokenType
  /\ Sent(token.events) \in Seq(Byte)
  /\ Same(Sent(token.events) \o Escaped(token.pending), bytes)

\* What the keys from i on are depends on those from later places on only, and
\* is a token if they are.
LEMMA KeysAreLocal ==
  ASSUME NEW buf \in Seq(Byte), NEW i \in 1 .. Len(buf) + 1
  PROVE  /\ \A f : (\A j \in i + 1 .. Len(buf) + 1 : f[j] \in TokenType)
                     => KeysAt(buf, f, i) \in TokenType
         /\ \A f, g : (\A j \in i + 1 .. Len(buf) + 1 : f[j] = g[j])
                        => KeysAt(buf, f, i) = KeysAt(buf, g, i)
<1>1. Len(buf) \in Nat /\ i \in Nat /\ <<>> \in Seq(KeyEvent)
  OBVIOUS
<1>2. CASE i > Len(buf)
  <2>1. \A f : KeysAt(buf, f, i) = Token(<<>>, i)
    BY <1>2 DEF KeysAt
  <2>2. Token(<<>>, i) \in TokenType
    BY <1>1 DEF Token, TokenType
  <2>3. QED
    BY <2>1, <2>2
<1>3. CASE ~(i > Len(buf))
  <2> DEFINE key == KeyAt(buf, i)
             Joined(rest) == [rest EXCEPT !.events = key.events \o @, !.pending = key.pending \/ @]
  <2>1. \A f : KeysAt(buf, f, i) = Joined(f[key.next])
    BY <1>3 DEF KeysAt
  <2>2. key.next \in i + 1 .. Len(buf) + 1 /\ key.events \in Seq(KeyEvent) /\ key.pending \in BOOLEAN
    <3>1. i \in 1 .. Len(buf)
      BY <1>1, <1>3
    <3>2. \/ i = Len(buf) /\ key = [events |-> <<>>, next |-> Len(buf) + 1, pending |-> TRUE]
          \/ key.next \in i + 1 .. Len(buf) + 1 /\ key \in TokenType
      BY <3>1, KeyAtStands DEF Stands
    <3> HIDE DEF key
    <3>3. CASE i = Len(buf) /\ key = [events |-> <<>>, next |-> Len(buf) + 1, pending |-> TRUE]
      <4>1. key.events = <<>> /\ key.pending = TRUE /\ key.next = Len(buf) + 1
        BY <3>3
      <4>2. Len(buf) + 1 \in i + 1 .. Len(buf) + 1
        BY <1>1, <3>3
      <4>3. QED
        BY <1>1, <4>1, <4>2
    <3>4. CASE key.next \in i + 1 .. Len(buf) + 1 /\ key \in TokenType
      BY <3>4 DEF TokenType
    <3>5. QED
      BY <3>2, <3>3, <3>4
  <2> HIDE DEF key
  <2>3. ASSUME NEW rest \in TokenType PROVE Joined(rest) \in TokenType
    <3>1. rest.events \in Seq(KeyEvent) /\ rest.pending \in BOOLEAN /\ rest.next \in Nat
          /\ rest = [events |-> rest.events, next |-> rest.next, pending |-> rest.pending]
      BY DEF TokenType
    <3>2. key.events \o rest.events \in Seq(KeyEvent)
      BY <2>2, <3>1
    <3>3. QED
      BY <2>2, <3>1, <3>2 DEF TokenType
  <2>4. ASSUME NEW f, NEW g, \A j \in i + 1 .. Len(buf) + 1 : f[j] = g[j]
        PROVE  KeysAt(buf, f, i) = KeysAt(buf, g, i)
    <3>1. f[key.next] = g[key.next]
      BY <2>2, <2>4
    <3> HIDE DEF Joined
    <3>2. QED
      BY <2>1, <3>1
  <2>5. ASSUME NEW f, \A j \in i + 1 .. Len(buf) + 1 : f[j] \in TokenType
        PROVE  KeysAt(buf, f, i) \in TokenType
    <3>1. f[key.next] \in TokenType
      BY <2>2, <2>5
    <3> HIDE DEF Joined
    <3>2. QED
      BY <2>1, <2>3, <3>1
  <2> HIDE DEF Joined
  <2>6. QED
    BY <2>4, <2>5
<1>4. QED
  BY <1>2, <1>3

\* So the recursion has a solution.
LEMMA KeysEquation ==
  ASSUME NEW buf \in Seq(Byte)
  PROVE  \A i \in 1 .. Len(buf) + 1 :
           Keys(buf)[i] \in TokenType /\ Keys(buf)[i] = KeysAt(buf, Keys(buf), i)
<1> DEFINE N == Len(buf) + 1
           Def(g) == [i \in 1 .. N |-> KeysAt(buf, g, i)]
           step == [i \in 1 .. N |-> [f \in [1 .. N -> TokenType] |-> KeysAt(buf, f, i)]]
<1>1. N \in Nat /\ Token(<<>>, 0) \in TokenType
  <2>1. <<>> \in Seq(KeyEvent) /\ 0 \in Nat
    OBVIOUS
  <2>2. QED
    BY <2>1 DEF Token, TokenType
<1>2. ASSUME NEW i \in 1 .. N, NEW f \in [1 .. N -> TokenType]
      PROVE  KeysAt(buf, f, i) \in TokenType
  <2>1. \A j \in i + 1 .. N : f[j] \in TokenType
    BY <1>1
  <2>2. QED
    BY <2>1, KeysAreLocal
<1>3. \A i \in 1 .. N : \A f, g :
        (\A j \in i + 1 .. N : f[j] = g[j]) => KeysAt(buf, f, i) = KeysAt(buf, g, i)
  BY KeysAreLocal
<1> HIDE DEF N
<1>4. step \in [1 .. N -> [[1 .. N -> TokenType] -> TokenType]]
  BY <1>2
<1>5. \A i \in 1 .. N, f \in [1 .. N -> TokenType] : step[i][f] = KeysAt(buf, f, i)
  OBVIOUS
<1> HIDE DEF step
<1>6. \A i \in 1 .. N : \A f, g \in [1 .. N -> TokenType] :
        (\A j \in i + 1 .. N : f[j] = g[j]) => step[i][f] = step[i][g]
  <2>1. ASSUME NEW i \in 1 .. N, NEW f \in [1 .. N -> TokenType],
               NEW g \in [1 .. N -> TokenType], \A j \in i + 1 .. N : f[j] = g[j]
        PROVE  step[i][f] = step[i][g]
    <3>1. KeysAt(buf, f, i) = KeysAt(buf, g, i)
      BY <1>3, <2>1
    <3>2. QED
      BY <1>5, <3>1
  <2>2. QED
    BY <2>1
<1>7. PICK f \in [1 .. N -> TokenType] : Solves(f, step, N)
  <2>1. LooksAhead(step, TokenType, N)
    BY <1>4, <1>6 DEF LooksAhead
  <2>2. QED
    BY <1>1, <2>1, BackwardsExist
<1>8. f = Def(f)
  BY <1>5, <1>7 DEF Solves
<1> DEFINE from == Keys(buf)
<1>9. from = CHOOSE g : g = Def(g)
  BY DEF Keys, N
<1>10. from = Def(from)
  <2> HIDE DEF Def, from
  <2>1. QED
    BY <1>8, <1>9
<1> HIDE DEF from
<1>11. \A i \in 1 .. N : from[i] = KeysAt(buf, from, i)
  BY <1>10
<1>12. \A i \in 1 .. N : from[i] \in TokenType
  <2> DEFINE S == {i \in 1 .. N : from[i] \in TokenType}
  <2>1. ASSUME NEW i \in 1 .. N, \A j \in i + 1 .. N : j \in S PROVE i \in S
    <3>1. \A j \in i + 1 .. N : from[j] \in TokenType
      BY <2>1
    <3>2. KeysAt(buf, from, i) \in TokenType
      BY <3>1, KeysAreLocal DEF N
    <3>3. QED
      BY <1>11, <3>2
  <2> HIDE DEF S
  <2>2. \A i \in 1 .. N : i \in S
    BY <1>1, <2>1, BackwardInduction
  <2>3. QED
    BY <2>2 DEF S
<1>13. QED
  BY <1>11, <1>12 DEF from, N

\* One key and what follows it, together.
LEMMA CoversBoth ==
  ASSUME NEW first \in Seq(KeyEvent), NEW rest \in TokenType,
         NEW left \in Seq(Byte), NEW right \in Seq(Byte),
         Same(Sent(first), left), Covers(rest, right), NEW token \in TokenType,
         token.events = first \o rest.events, token.pending = rest.pending
  PROVE  Covers(token, left \o right)
<1> DEFINE a == Sent(first)
           b == Sent(rest.events)
           c == Escaped(rest.pending)
<1>1. rest.events \in Seq(KeyEvent)
  BY DEF TokenType
<1>2. a \in Seq(Byte) /\ b \in Seq(Byte) /\ Sent(token.events) = a \o b
  BY <1>1, SentConcat
<1>3. c \in Seq(Byte)
  <2>1. <<>> \in Seq(Byte) /\ <<"esc">> \in Seq(Byte)
    BY ByteTypes, OneOf
  <2>2. QED
    BY <2>1 DEF Escaped
<1>4. Same(a, left) /\ Same(b \o c, right)
  BY DEF Covers
<1>5. Sent(token.events) \o Escaped(token.pending) = (a \o b) \o c
  BY <1>2
<1> HIDE DEF a, b, c
<1>6. a \o b \in Seq(Byte) /\ b \o c \in Seq(Byte) /\ (a \o b) \o c = a \o (b \o c)
  <2>1. a \in Seq(Byte) /\ b \in Seq(Byte) /\ c \in Seq(Byte)
    BY <1>2, <1>3
  <2>2. a \o b \in Seq(Byte) /\ b \o c \in Seq(Byte)
    BY ONLY <2>1, ConcatProperties
  <2>3. (a \o b) \o c = a \o (b \o c)
    <3>1. Regroup(a, b, c)
      BY ONLY <2>1, ThreeRegroup
    <3>2. QED
      BY <3>1 DEF Regroup
  <2>4. QED
    BY <2>2, <2>3
<1>7. Same(a \o (b \o c), left \o right)
  BY <1>2, <1>4, <1>6, SameConcat
<1>8. QED
  BY <1>2, <1>5, <1>6, <1>7 DEF Covers

\* The keys from each place on are the bytes from there on.
LEMMA KeysCover ==
  ASSUME NEW buf \in Seq(Byte)
  PROVE  \A i \in 1 .. Len(buf) + 1 : Covers(Keys(buf)[i], SubSeq(buf, i, Len(buf)))
<1> DEFINE N == Len(buf) + 1
           S == {i \in 1 .. N : Covers(Keys(buf)[i], SubSeq(buf, i, Len(buf)))}
<1>1. N \in Nat /\ Len(buf) \in Nat /\ Len(buf) = N - 1
  OBVIOUS
<1>2. ASSUME NEW i \in 1 .. N, \A j \in i + 1 .. N : j \in S PROVE i \in S
  <2> DEFINE token == Keys(buf)[i]
             bytes == SubSeq(buf, i, Len(buf))
  <2>1. token \in TokenType /\ token = KeysAt(buf, Keys(buf), i)
    BY KeysEquation
  <2>2. CASE i > Len(buf)
    <3>1. token = Token(<<>>, i)
      BY <2>1, <2>2 DEF KeysAt
    <3>2. token.events = <<>> /\ token.pending = FALSE
      BY <3>1 DEF Token
    <3>3. bytes = <<>>
      BY <1>1, <2>2
    <3>4. <<>> \in Seq(Byte) /\ <<>> \o <<>> = <<>> /\ Same(<<>>, <<>>)
      BY DEF Same
    <3> HIDE DEF token, bytes
    <3>5. Covers(token, bytes)
      BY <2>1, <3>2, <3>3, <3>4, SentOne DEF Covers, Escaped
    <3>6. QED
      BY <3>5 DEF token, bytes
  <2>3. CASE ~(i > Len(buf))
    <3> DEFINE key == KeyAt(buf, i)
               rest == Keys(buf)[key.next]
    <3>1. token = [rest EXCEPT !.events = key.events \o @, !.pending = key.pending \/ @]
      BY <2>1, <2>3 DEF KeysAt
    <3>2. i \in 1 .. Len(buf)
      BY <1>1, <2>3
    <3>3. \/ /\ buf[i] = "esc" /\ i = Len(buf)
             /\ key = [events |-> <<>>, next |-> Len(buf) + 1, pending |-> TRUE]
          \/ /\ key.next \in i + 1 .. Len(buf) + 1
             /\ Stands(key, SubSeq(buf, i, key.next - 1))
      BY <3>2, KeyAtStands
    <3>4. ASSUME key.next \in i + 1 .. N
          PROVE  /\ rest \in TokenType /\ token.events = key.events \o rest.events
                 /\ token.pending = (key.pending \/ rest.pending)
                 /\ Covers(rest, SubSeq(buf, key.next, Len(buf)))
      <4>1. key.next \in 1 .. N /\ key.next \in S
        BY <1>1, <1>2, <3>2, <3>4
      <4>2. rest \in TokenType
        BY <4>1, KeysEquation
      <4> HIDE DEF key
      <4>3. rest.events \in Seq(KeyEvent) /\ rest = [events |-> rest.events, next |-> rest.next,
                                                      pending |-> rest.pending]
        BY <4>2 DEF TokenType
      <4>4. Covers(rest, SubSeq(buf, key.next, Len(buf)))
        BY <4>1
      <4> HIDE DEF rest, token
      <4>5. QED
        BY <3>1, <4>2, <4>3, <4>4
    <3>5. CASE /\ buf[i] = "esc" /\ i = Len(buf)
               /\ key = [events |-> <<>>, next |-> Len(buf) + 1, pending |-> TRUE]
      <4>1. key.events = <<>> /\ key.pending = TRUE /\ key.next = N
        BY <3>5
      <4>2. key.next \in i + 1 .. N
        BY <1>1, <3>5, <4>1
      <4>3. rest = KeysAt(buf, Keys(buf), N)
        <5>1. N \in 1 .. N
          BY <1>1
        <5>2. QED
          BY <4>1, <5>1, KeysEquation
      <4>4. rest = Token(<<>>, N)
        BY <1>1, <4>3 DEF KeysAt
      <4>5. rest.events = <<>> /\ token.pending = TRUE /\ token.events = <<>>
        <5>1. rest.events = <<>>
          BY <4>4 DEF Token
        <5>2. token.events = key.events \o rest.events /\ token.pending = (key.pending \/ rest.pending)
          BY <3>4, <4>2
        <5> HIDE DEF key, rest, token
        <5>3. token.events = <<>> \o <<>>
          BY <4>1, <5>1, <5>2
        <5>4. <<>> \o <<>> = <<>>
          OBVIOUS
        <5>5. token.pending = TRUE
          BY <4>1, <5>2
        <5>6. QED
          BY <5>1, <5>3, <5>4, <5>5
      <4>6. bytes = <<"esc">>
        BY <1>1, <3>5, OneAt
      <4>7. <<"esc">> \in Seq(Byte) /\ <<>> \in Seq(Byte)
        BY ByteTypes, OneOf
      <4>8. <<>> \o <<"esc">> = <<"esc">> /\ Same(<<"esc">>, <<"esc">>)
        BY DEF Same
      <4> HIDE DEF token, bytes, key, rest
      <4>9. Covers(token, bytes)
        BY <2>1, <4>5, <4>6, <4>7, <4>8, SentOne DEF Covers, Escaped
      <4>10. QED
        BY <4>9 DEF token, bytes
    <3>6. CASE /\ key.next \in i + 1 .. Len(buf) + 1
               /\ Stands(key, SubSeq(buf, i, key.next - 1))
      <4> DEFINE left == SubSeq(buf, i, key.next - 1)
                 right == SubSeq(buf, key.next, Len(buf))
      <4>1. /\ rest \in TokenType /\ token.events = key.events \o rest.events
            /\ token.pending = (key.pending \/ rest.pending) /\ Covers(rest, right)
        BY <3>4, <3>6
      <4>2. key.events \in Seq(KeyEvent) /\ key.pending = FALSE /\ Same(Sent(key.events), left)
        BY <3>6 DEF Stands, TokenType
      <4> HIDE DEF key
      <4>3. key.next - 1 \in i - 1 .. Len(buf) /\ i \in 1 .. Len(buf) + 1
            /\ Len(buf) \in key.next - 1 .. Len(buf) /\ (key.next - 1) + 1 = key.next
            /\ key.next \in 1 .. Len(buf) + 1
        BY <1>1, <3>2, <3>6
      <4>4. bytes = left \o right
        <5> DEFINE m == key.next - 1
        <5>1. m \in i - 1 .. Len(buf) /\ Len(buf) \in m .. Len(buf) /\ m + 1 = key.next
          BY <4>3
        <5> HIDE DEF m
        <5>2. SubSeq(buf, i, Len(buf)) = SubSeq(buf, i, m) \o SubSeq(buf, m + 1, Len(buf))
          BY <4>3, <5>1, Cut
        <5>3. QED
          BY <5>1, <5>2 DEF m
      <4>5. left \in Seq(Byte) /\ right \in Seq(Byte)
        <5>1. left \in Seq(Byte)
          BY <4>3, PieceOf
        <5>2. right \in Seq(Byte)
          BY <4>3, PieceOf
        <5>3. QED
          BY <5>1, <5>2
      <4>6. token.pending = rest.pending
        BY <4>1, <4>2 DEF TokenType
      <4> HIDE DEF left, right, token, bytes, rest
      <4>7. Covers(token, left \o right)
        BY <2>1, <4>1, <4>2, <4>5, <4>6, CoversBoth
      <4>8. QED
        BY <4>4, <4>7 DEF token, bytes
    <3>7. QED
      BY <3>3, <3>5, <3>6
  <2>4. QED
    BY <2>2, <2>3
<1> HIDE DEF S
<1>3. \A i \in 1 .. N : i \in S
  BY <1>1, <1>2, BackwardInduction
<1>4. QED
  BY <1>3 DEF S, N

\* What parse_bytes returns, given the bytes that it and a pending ESC are.
Parsed(parsed, bytes) ==
  /\ parsed.events \in Seq(KeyEvent) /\ parsed.pending \in BOOLEAN
  /\ Same(Sent(parsed.events) \o Escaped(parsed.pending), bytes)

LEMMA FirstCovers ==
  ASSUME NEW buf \in Seq(Byte), NEW first \in TokenType, first.next \in 1 .. Len(buf) + 1,
         NEW left \in Seq(Byte), Same(Sent(first.events), left)
  PROVE  Parsed(KeysFrom(buf, first), left \o SubSeq(buf, first.next, Len(buf)))
<1> DEFINE rest == Keys(buf)[first.next]
           right == SubSeq(buf, first.next, Len(buf))
           token == [events |-> first.events \o rest.events, next |-> 0, pending |-> rest.pending]
<1>1. rest \in TokenType /\ Covers(rest, right)
  BY KeysEquation, KeysCover
<1>2. right \in Seq(Byte)
  OBVIOUS
<1>3. KeysFrom(buf, first) = [events |-> first.events \o rest.events, pending |-> rest.pending]
  BY DEF KeysFrom
<1> HIDE DEF rest, right
<1>4. /\ first.events \in Seq(KeyEvent) /\ rest.events \in Seq(KeyEvent)
      /\ rest.pending \in BOOLEAN
  BY <1>1 DEF TokenType
<1>5. first.events \o rest.events \in Seq(KeyEvent)
  BY <1>4
<1>6. token \in TokenType /\ token.events = first.events \o rest.events
      /\ token.pending = rest.pending
  BY <1>4, <1>5 DEF TokenType
<1> HIDE DEF token
<1>7. Covers(token, left \o right)
  BY <1>1, <1>2, <1>4, <1>6, CoversBoth
<1>8. Same(Sent(token.events) \o Escaped(token.pending), left \o right)
  BY <1>7 DEF Covers
<1>9. /\ KeysFrom(buf, first).events = token.events
      /\ KeysFrom(buf, first).pending = token.pending
  <2> DEFINE keys == first.events \o rest.events
             parsed == KeysFrom(buf, first)
  <2>1. parsed = [events |-> keys, pending |-> rest.pending]
    BY <1>3
  <2>2. token.events = keys /\ token.pending = rest.pending
    BY <1>6
  <2> HIDE DEF keys, parsed
  <2>3. parsed.events = token.events /\ parsed.pending = token.pending
    BY <2>1, <2>2
  <2>4. QED
    BY <2>3 DEF parsed
<1>10. QED
  BY <1>4, <1>5, <1>6, <1>8, <1>9 DEF Parsed, right

Regroups(a, b, c, d) ==
  /\ ((a \o b) \o c) \o d = a \o (b \o (c \o d))
  /\ (a \o b) \o c \in Seq(Byte)

LEMMA FourPieces ==
  ASSUME NEW a \in Seq(Byte), NEW b \in Seq(Byte), NEW c \in Seq(Byte), NEW d \in Seq(Byte)
  PROVE  Regroups(a, b, c, d)
<1> DEFINE ab == a \o b
           cd == c \o d
<1>1. ab \in Seq(Byte) /\ cd \in Seq(Byte) /\ ab \o c \in Seq(Byte)
  BY ConcatProperties
<1>2. Regroup(a, b, cd)
  BY <1>1, ThreeRegroup
<1>3. Regroup(ab, c, d)
  BY <1>1, ThreeRegroup
<1>4. (ab \o c) \o d = a \o (b \o cd)
  BY <1>2, <1>3 DEF Regroup
<1>5. QED
  BY <1>1, <1>4 DEF ab, cd, Regroups

LEMMA ParseCovers ==
  ASSUME NEW buf \in Seq(Byte), NEW escapePending \in BOOLEAN
  PROVE  Parsed(ParseBytes(buf, escapePending), Escaped(escapePending) \o buf)
<1> DEFINE esc == <<"esc">>
           empty == <<>>
<1>1. /\ esc \in Seq(Byte) /\ Len(buf) \in Nat /\ empty \in Seq(Byte)
      /\ 1 \in 1 .. Len(buf) + 1 /\ SubSeq(buf, 1, Len(buf)) = buf
  BY ByteTypes, OneOf
<1>2. CASE ~escapePending
  <2> DEFINE first == Token(<<>>, 1)
  <2>1. ParseBytes(buf, escapePending) = KeysFrom(buf, first)
    BY <1>2 DEF ParseBytes
  <2>2. first \in TokenType /\ first.next = 1 /\ first.events = <<>>
    <3>1. <<>> \in Seq(KeyEvent)
      OBVIOUS
    <3>2. QED
      BY <3>1 DEF Token, TokenType
  <2> HIDE DEF first
  <2>3. Same(Sent(first.events), empty)
    BY <2>2, SentOne DEF Same
  <2> HIDE DEF empty
  <2>4. Parsed(KeysFrom(buf, first), empty \o SubSeq(buf, first.next, Len(buf)))
    BY <1>1, <2>2, <2>3, FirstCovers
  <2>5. Parsed(KeysFrom(buf, first), empty \o buf)
    BY <1>1, <2>2, <2>4
  <2>6. QED
    BY <1>2, <2>1, <2>5 DEF Escaped, empty
<1>3. CASE escapePending /\ IsPrefix(<<"[">>, buf)
  <2> DEFINE first == Csi(buf, 2)
             mid == SubSeq(buf, 2, first.next - 1)
             right == SubSeq(buf, first.next, Len(buf))
             bracket == <<"[">>
             intro == <<"esc", "[">>
  <2>1. ParseBytes(buf, escapePending) = KeysFrom(buf, first)
    BY <1>3 DEF ParseBytes
  <2>2. Len(buf) >= 1 /\ buf[1] = "["
    <3>1. Len(<<"[">>) <= Len(buf) /\ \A k \in 1 .. Len(<<"[">>) : <<"[">>[k] = buf[k]
      BY <1>3 DEF IsPrefix
    <3>2. QED
      BY <3>1
  <2>3. 2 \in 1 .. Len(buf) + 1 /\ 1 \in 1 .. Len(buf)
    BY <1>1, <2>2
  <2>4. first.next \in 2 .. Len(buf) + 1 /\ Stands(first, intro \o mid)
    BY <2>3, CsiStands
  <2> HIDE DEF first
  <2>5. first.next \in 1 .. Len(buf) + 1 /\ first.next - 1 \in 1 .. Len(buf)
        /\ (first.next - 1) + 1 = first.next
    BY <1>1, <2>4
  <2>6. mid \in Seq(Byte) /\ right \in Seq(Byte)
    <3>1. first.next \in Nat /\ first.next - 1 \in 2 - 1 .. Len(buf)
          /\ Len(buf) \in first.next - 1 .. Len(buf)
      BY <1>1, <2>4
    <3>2. mid \in Seq(Byte)
      BY <2>3, <3>1, PieceOf
    <3>3. right \in Seq(Byte)
      BY <2>5, <3>1, PieceOf
    <3>4. QED
      BY <3>2, <3>3
  <2>7. buf = bracket \o (mid \o right)
    <3> DEFINE m == first.next - 1
    <3>1. m \in 2 - 1 .. Len(buf) /\ Len(buf) \in m .. Len(buf) /\ m + 1 = first.next
          /\ Len(buf) \in 1 .. Len(buf) /\ 1 \in 1 - 1 .. Len(buf) /\ 1 + 1 = 2
      BY <1>1, <2>2, <2>5
    <3> HIDE DEF m
    <3>2. SubSeq(buf, 2, Len(buf)) = SubSeq(buf, 2, m) \o SubSeq(buf, m + 1, Len(buf))
      BY <2>3, <3>1, Cut
    <3>3. SubSeq(buf, 1, Len(buf)) = SubSeq(buf, 1, 1) \o SubSeq(buf, 1 + 1, Len(buf))
      BY <1>1, <3>1, Cut
    <3>4. SubSeq(buf, 1, 1) = bracket
      BY <2>2, <2>3, OneAt
    <3>5. SubSeq(buf, 2, Len(buf)) = mid \o right
      BY <3>1, <3>2 DEF m
    <3> HIDE DEF bracket, mid, right
    <3>6. QED
      BY <1>1, <3>1, <3>3, <3>4, <3>5
  <2>8. bracket \in Seq(Byte) /\ intro = esc \o bracket
    <3>1. bracket \in Seq(Byte)
      BY ByteTypes, OneOf
    <3>2. esc \o bracket = intro
      BY ByteTypes, TwoAndOne
    <3>3. QED
      BY <3>1, <3>2
  <2>9. first \in TokenType /\ Same(Sent(first.events), intro \o mid)
    BY <2>4 DEF Stands
  <2> HIDE DEF mid, right, bracket, intro, esc
  <2>10. (intro \o mid) \o right = esc \o buf /\ intro \o mid \in Seq(Byte)
    <3>0. /\ esc \in Seq(Byte) /\ bracket \in Seq(Byte) /\ mid \in Seq(Byte)
          /\ right \in Seq(Byte)
      BY <1>1, <2>6, <2>8
    <3>1. Regroups(esc, bracket, mid, right)
      BY ONLY <3>0, FourPieces
    <3>2. QED
      BY <2>7, <2>8, <3>1 DEF Regroups
  <2>11. Parsed(KeysFrom(buf, first), (intro \o mid) \o right)
    BY <2>5, <2>9, <2>10, FirstCovers DEF right
  <2>12. QED
    BY <1>3, <2>1, <2>10, <2>11 DEF Escaped, esc
<1>4. CASE escapePending /\ ~IsPrefix(<<"[">>, buf)
  <2> DEFINE first == Token(<<Key("Escape")>>, 1)
  <2>1. ParseBytes(buf, escapePending) = KeysFrom(buf, first)
    BY <1>4 DEF ParseBytes
  <2>2. Stands(first, esc) /\ first.next = 1
    <3>1. Key("Escape") \in KeyEvent /\ RawBytes(Key("Escape")) = esc
      BY RawOf
    <3>2. Same(RawBytes(Key("Escape")), esc) /\ 1 \in Nat
      BY <3>1 DEF Same
    <3>3. QED
      BY <3>1, <3>2, OneStands
  <2> HIDE DEF first, esc
  <2>3. first \in TokenType /\ Same(Sent(first.events), esc)
    BY <2>2 DEF Stands
  <2>4. Parsed(KeysFrom(buf, first), esc \o SubSeq(buf, first.next, Len(buf)))
    BY <1>1, <2>2, <2>3, FirstCovers
  <2>5. Parsed(KeysFrom(buf, first), esc \o buf)
    BY <1>1, <2>2, <2>4
  <2>6. QED
    BY <1>4, <2>1, <2>5 DEF Escaped, esc
<1>5. QED
  BY <1>2, <1>3, <1>4

-----------------------------------------------------------------------------
(* A run: what is handled is what was read.                                *)

Handled(all, flag, bytes) ==
  all \in Seq(KeyEvent) /\ flag \in BOOLEAN /\ Same(Sent(all) \o Escaped(flag), bytes)

\* A chunk is added to what was read, and what it is to what was handled.
LEMMA HandleMore ==
  ASSUME NEW all, NEW flag, NEW bytes \in Seq(Byte), Handled(all, flag, bytes),
         NEW buf \in Seq(Byte)
  PROVE  Handled(all \o ParseBytes(buf, flag).events, ParseBytes(buf, flag).pending,
                 bytes \o buf)
<1> DEFINE parsed == ParseBytes(buf, flag)
           e == parsed.events
           a == Sent(all)
           b == Sent(e)
           c == Escaped(parsed.pending)
           d == Escaped(flag)
<1>1. all \in Seq(KeyEvent) /\ flag \in BOOLEAN /\ Same(a \o d, bytes)
  BY DEF Handled
<1>2. e \in Seq(KeyEvent) /\ parsed.pending \in BOOLEAN /\ Same(b \o c, d \o buf)
  <2>1. Parsed(parsed, d \o buf)
    BY <1>1, ParseCovers
  <2>2. QED
    BY <2>1 DEF Parsed
<1>3. /\ all \o e \in Seq(KeyEvent)
      /\ a \in Seq(Byte) /\ b \in Seq(Byte) /\ Sent(all \o e) = a \o b
  <2> HIDE DEF e
  <2>1. all \o e \in Seq(KeyEvent)
    BY <1>1, <1>2, ConcatProperties
  <2>2. QED
    BY <1>1, <1>2, <2>1, SentConcat
<1>4. \A x \in BOOLEAN : Escaped(x) \in Seq(Byte)
  <2>1. <<>> \in Seq(Byte) /\ <<"esc">> \in Seq(Byte)
    BY ByteTypes, OneOf
  <2>2. QED
    BY <2>1 DEF Escaped
<1>5. c \in Seq(Byte) /\ d \in Seq(Byte)
  BY <1>1, <1>2, <1>4
<1> HIDE DEF a, b, c, d, e, parsed
<1>6. (a \o b) \o c = a \o (b \o c) /\ (a \o d) \o buf = a \o (d \o buf)
  <2>1. Regroup(a, b, c)
    BY <1>3, <1>5, ThreeRegroup
  <2>2. Regroup(a, d, buf)
    BY <1>3, <1>5, ThreeRegroup
  <2>3. QED
    BY <2>1, <2>2 DEF Regroup
<1>7. b \o c \in Seq(Byte) /\ d \o buf \in Seq(Byte) /\ a \o d \in Seq(Byte)
  BY <1>3, <1>5, ConcatProperties
<1>8. Same(a \o (b \o c), a \o (d \o buf))
  <2>1. Same(a, a)
    BY DEF Same
  <2>2. QED
    BY <1>2, <1>3, <1>7, <2>1, SameConcat
<1>9. Same((a \o d) \o buf, bytes \o buf)
  <2>1. Same(buf, buf)
    BY DEF Same
  <2>2. QED
    BY <1>1, <1>7, <2>1, SameConcat
<1>10. Same(Sent(all \o e) \o c, bytes \o buf)
  BY <1>3, <1>6, <1>8, <1>9 DEF Same
<1>11. QED
  BY <1>2, <1>3, <1>10 DEF Handled, c, e, parsed

LEMMA BytesType ==
  ASSUME NEW strokes \in Typed
  PROVE  BytesOf(strokes) \in Seq(Byte)
<1> DEFINE pieces == [k \in 1 .. Len(strokes) |-> strokes[k].bytes]
<1>1. strokes \in Seq(Keyboard)
  BY KeyAssumption
<1>2. \A k \in 1 .. Len(strokes) : strokes[k] \in Keyboard
  BY <1>1
<1>3. \A k \in 1 .. Len(strokes) : strokes[k].bytes \in Seq(Byte)
  <2>1. \A stroke \in Keyboard : stroke.bytes \in Seq(STRING)
    BY KeyAssumption
  <2>2. \A stroke \in Keyboard : stroke.bytes \in Seq(Byte)
    BY ByteTypes, <2>1
  <2>3. QED
    BY <1>2, <2>2
<1>4. pieces \in Seq(Seq(Byte)) /\ <<>> \in Seq(Byte)
  BY <1>1, <1>3
<1> HIDE DEF pieces
<1>5. FlattenSeq(pieces) \in Seq(Byte)
  BY <1>4, FlattenAppend
<1>6. QED
  BY <1>5 DEF BytesOf, pieces

\* What is read is a prefix of what is typed, and what is handled is what was
\* read.
KeyInv ==
  /\ typed \in Typed /\ read \in 0 .. Len(BytesOf(typed))
  /\ Handled(handled, pending, SubSeq(BytesOf(typed), 1, read))

LEMMA KeyInitInv == KeyInit => KeyInv
<1>1. SUFFICES ASSUME KeyInit PROVE KeyInv
  OBVIOUS
<1> DEFINE bytes == BytesOf(typed)
<1>2. bytes \in Seq(Byte)
  BY <1>1, BytesType DEF KeyInit
<1>3. typed \in Typed /\ read = 0 /\ pending = FALSE /\ handled = <<>>
  BY <1>1 DEF KeyInit
<1> HIDE DEF bytes
<1>4. SubSeq(bytes, 1, 0) = <<>> /\ Len(bytes) \in Nat
  BY <1>2
<1>5. handled \in Seq(KeyEvent)
  BY <1>3
<1>6. Same(Sent(handled) \o Escaped(pending), SubSeq(bytes, 1, read))
  <2>1. Sent(handled) = <<>> /\ Escaped(pending) = <<>> /\ <<>> \o <<>> = <<>>
    BY <1>3, SentOne DEF Escaped
  <2>2. QED
    BY <1>3, <1>4, <2>1 DEF Same
<1>7. read \in 0 .. Len(bytes)
  BY <1>3, <1>4
<1>8. QED
  BY <1>3, <1>5, <1>6, <1>7 DEF KeyInv, Handled, bytes

LEMMA KeyNextInv == KeyInv /\ [KeyNext]_keyVars => KeyInv'
<1>1. SUFFICES ASSUME KeyInv, [KeyNext]_keyVars PROVE KeyInv'
  OBVIOUS
<1> DEFINE bytes == BytesOf(typed)
           before == SubSeq(bytes, 1, read)
<1>2. typed \in Typed /\ read \in 0 .. Len(bytes) /\ Handled(handled, pending, before)
  BY <1>1 DEF KeyInv
<1>3. bytes \in Seq(Byte) /\ Len(bytes) \in Nat
  <2>1. bytes \in Seq(Byte)
    BY <1>2, BytesType
  <2>2. QED
    BY <2>1
<1>4. before \in Seq(Byte)
  BY <1>2, <1>3
<1>5. ASSUME NEW n \in 1 .. ChunkLimit, read + n <= Len(bytes),
             Handle(SubSeq(bytes, read + 1, read + n)), read' = read + n, typed' = typed
      PROVE  KeyInv'
  <2> DEFINE buf == SubSeq(bytes, read + 1, read + n)
  <2>1. n \in Nat /\ n >= 1 /\ read \in Nat
    BY <1>2, KeyAssumption
  <2>2. buf \in Seq(Byte)
    BY <1>3, <1>5, <2>1
  <2>3. SubSeq(bytes, 1, read + n) = before \o buf
    <3> DEFINE end == read + n
    <3>1. read \in 1 - 1 .. Len(bytes) /\ end \in read .. Len(bytes)
          /\ 1 \in 1 .. Len(bytes) + 1
      BY <1>2, <1>3, <1>5, <2>1
    <3> HIDE DEF end, bytes
    <3>2. SubSeq(bytes, 1, end) = SubSeq(bytes, 1, read) \o SubSeq(bytes, read + 1, end)
      BY <1>3, <3>1, Cut
    <3>3. QED
      BY <3>2 DEF end
  <2> HIDE DEF before, buf
  <2>4. Handled(handled', pending', before \o buf)
    <3>1. handled' = handled \o ParseBytes(buf, pending).events
          /\ pending' = ParseBytes(buf, pending).pending
      BY <1>5 DEF Handle, buf
    <3>2. QED
      BY <1>2, <1>4, <2>2, <3>1, HandleMore
  <2>5. Handled(handled', pending', SubSeq(bytes, 1, read'))
    BY <1>5, <2>3, <2>4
  <2>6. read' \in 0 .. Len(bytes)
    BY <1>3, <1>5, <2>1
  <2>7. QED
    BY <1>2, <1>5, <2>5, <2>6 DEF KeyInv
<1>6. CASE StdinChunk
  BY <1>5, <1>6 DEF StdinChunk
<1>7. CASE StdinTimeout
  <2> DEFINE buf == <<>>
  <2>1. /\ handled' = handled \o ParseBytes(buf, pending).events
        /\ pending' = ParseBytes(buf, pending).pending /\ typed' = typed /\ read' = read
    BY <1>7 DEF StdinTimeout, Handle
  <2>2. buf \in Seq(Byte) /\ before \o buf = before
    BY <1>4
  <2> HIDE DEF buf, before
  <2>3. Handled(handled', pending', before \o buf)
    BY <1>2, <1>4, <2>1, <2>2, HandleMore
  <2>4. Handled(handled', pending', SubSeq(bytes, 1, read'))
    BY <2>1, <2>2, <2>3 DEF before
  <2>5. QED
    BY <1>2, <2>1, <2>4 DEF KeyInv
<1>8. CASE UNCHANGED keyVars
  BY <1>1, <1>8 DEF KeyInv, keyVars
<1>9. QED
  BY <1>1, <1>6, <1>7, <1>8 DEF KeyNext

\* Whatever is typed, however it is cut into chunks and wherever the 10ms after an
\* ESC run out, the events parse_bytes hands over are the bytes that were read, in
\* their order: for every keyboard, every buffer size and every run.
THEOREM BytesAlwaysReachShell == KeySpec => []BytesReachShell
<1>1. KeyInv => BytesReachShell
  <2>1. SUFFICES ASSUME KeyInv PROVE BytesReachShell
    OBVIOUS
  <2>2. Same(Sent(handled) \o Escaped(pending), SubSeq(BytesOf(typed), 1, read))
    BY <2>1 DEF KeyInv, Handled
  <2>3. Forwarded = Sent(handled)
    BY DEF Forwarded, Sent
  <2>4. QED
    BY <2>2, <2>3 DEF BytesReachShell, Same, Escaped
<1>2. QED
  BY <1>1, KeyInitInv, KeyNextInv, PTL DEF KeySpec
==============================================================================
