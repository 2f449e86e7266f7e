--------------------------- MODULE KeystrokeProofs ---------------------------
(***************************************************************************)
(* Keystrokes that are cleanly cut are recognised, for any keyboard of the *)
(* terminals' conventions.                                                 *)
(*                                                                         *)
(* A keystroke in a chunk becomes its event (KeyRecognised); so do the     *)
(* keystrokes of a chunk, from the last to the first, and an ESC at its    *)
(* end is pending (ChunkRecognised); so does the keystroke that a pending  *)
(* ESC is, or begins (FirstRecognised).  So after each chunk, and after    *)
(* each pause, what is handled is the events of the keystrokes that were   *)
(* read (Position).                                                        *)
(***************************************************************************)
EXTENDS StreamProofs

-----------------------------------------------------------------------------
(* The events of keystrokes.                                               *)

\* The n bytes from i on in a are those from j on in b.
Agree(a, i, b, j, n) ==
  /\ i + n - 1 <= Len(a) /\ j + n - 1 <= Len(b)
  /\ \A q \in 1 .. n : a[i + q - 1] = b[j + q - 1]

\* Then the two pieces are one.
SamePieces(a, i, b, j, n) == SubSeq(a, i, i + n - 1) = SubSeq(b, j, j + n - 1)

LEMMA SamePiece ==
  ASSUME NEW S, NEW a \in Seq(S), NEW b \in Seq(S), NEW i \in 1 .. Len(a) + 1,
         NEW j \in 1 .. Len(b) + 1, NEW n \in Nat, Agree(a, i, b, j, n)
  PROVE  SamePieces(a, i, b, j, n)
<1> DEFINE left == SubSeq(a, i, i + n - 1)
           right == SubSeq(b, j, j + n - 1)
<1>1. /\ i + n - 1 \in i - 1 .. Len(a) /\ (i + n - 1) - i + 1 = n
      /\ j + n - 1 \in j - 1 .. Len(b) /\ (j + n - 1) - j + 1 = n
  BY DEF Agree
<1>2. left \in Seq(S) /\ Len(left) = n /\ \A q \in 1 .. n : left[q] = a[i + q - 1]
  BY <1>1, PieceOf
<1>3. right \in Seq(S) /\ Len(right) = n /\ \A q \in 1 .. n : right[q] = b[j + q - 1]
  BY <1>1, PieceOf
<1> HIDE DEF left, right
<1>4. left = right
  <2>1. \A q \in 1 .. n : left[q] = right[q]
    BY <1>2, <1>3 DEF Agree
  <2>2. QED
    BY <1>2, <1>3, <2>1, SameElements
<1>5. QED
  BY <1>4 DEF left, right, SamePieces

\* The bytes of a CSI sequence.
CsiBytes(bytes) == Len(bytes) >= 3 /\ bytes[1] = "esc" /\ bytes[2] = "["

\* Of the terminals' conventions, two are about such bytes.
LEMMA CsiConventions ==
  ASSUME NEW bytes \in Seq(Byte), NEW event, Conventional(bytes, event), CsiBytes(bytes)
  PROVE  \/ Len(bytes) = 3 /\ bytes[3] \in DOMAIN Arrow /\ event = Key(Arrow[bytes[3]])
         \/ /\ bytes[3] \notin DOMAIN Arrow /\ event = Raw(bytes)
            /\ \A q \in 3 .. Len(bytes) : bytes[q] \in Final <=> q = Len(bytes)
<1>1. bytes \notin Characters
  BY KeyboardAssumption DEF CsiBytes
<1>2. Len(bytes) \in Nat /\ Len(bytes) >= 3
  BY DEF CsiBytes
<1>3. QED
  BY <1>1, <1>2 DEF Conventional

\* A CSI sequence in a chunk, where it goes on after its ESC [.
LEMMA CsiRecognised ==
  ASSUME NEW buf \in Seq(Byte), NEW i \in 1 .. Len(buf), NEW bytes \in Seq(Byte), NEW event,
         Conventional(bytes, event), CsiBytes(bytes), i + Len(bytes) - 3 <= Len(buf),
         \A q \in 3 .. Len(bytes) : buf[i + q - 3] = bytes[q]
  PROVE  Csi(buf, i) = Token(<<event>>, i + Len(bytes) - 2)
<1> DEFINE n == Len(bytes)
           last == i + n - 3
<1>1. /\ n \in Nat /\ n >= 3 /\ i \in Nat /\ i >= 1 /\ last \in i .. Len(buf) /\ i <= Len(buf)
      /\ Len(buf) \in Nat /\ ~(i > Len(buf))
  <2>1. n \in Nat /\ Len(buf) \in Nat
    OBVIOUS
  <2>2. n >= 3 /\ last <= Len(buf)
    BY DEF CsiBytes
  <2> HIDE DEF n
  <2>3. QED
    BY <2>1, <2>2
<1>2. buf[i] = bytes[3] /\ buf[last] = bytes[n]
  <2>1. 3 \in 3 .. n /\ n \in 3 .. n /\ i + 3 - 3 = i
    BY <1>1
  <2>2. QED
    BY <2>1
<1>3. CASE Len(bytes) = 3 /\ bytes[3] \in DOMAIN Arrow /\ event = Key(Arrow[bytes[3]])
  <2>1. Csi(buf, i) = Token(<<Key(Arrow[buf[i]])>>, i + 1)
    BY <1>1, <1>2, <1>3 DEF Csi
  <2>2. i + n - 2 = i + 1
    BY <1>1, <1>3
  <2>3. QED
    BY <1>2, <1>3, <2>1, <2>2
<1>4. CASE /\ bytes[3] \notin DOMAIN Arrow /\ event = Raw(bytes)
           /\ \A q \in 3 .. Len(bytes) : bytes[q] \in Final <=> q = Len(bytes)
  <2> DEFINE ends == {j \in i .. Len(buf) : buf[j] \in Final}
             end == IF ends = {} THEN Len(buf) ELSE Min(ends)
  <2>1. Csi(buf, i) = Token(<<Raw(<<"esc", "[">> \o SubSeq(buf, i, end))>>, end + 1)
    BY <1>1, <1>2, <1>4 DEF Csi
  <2>2. last \in ends
    <3>1. n \in 3 .. n
      BY <1>1
    <3>2. QED
      BY <1>1, <1>2, <1>4, <3>1
  <2>3. \A j \in ends : last <= j
    <3>1. SUFFICES ASSUME NEW j \in ends, j < last PROVE FALSE
      BY <1>1
    <3>2. j - i + 3 \in 3 .. n /\ i + (j - i + 3) - 3 = j /\ j - i + 3 # n
      BY <1>1, <3>1
    <3>3. buf[j] = bytes[j - i + 3]
      BY <3>2
    <3>4. QED
      BY <1>4, <3>2, <3>3
  <2>4. end = last
    <3>1. ends \subseteq Int /\ last \in Int
      BY <1>1
    <3> HIDE DEF ends, last
    <3>1a. \A m \in ends : (\A j \in ends : m <= j) => m = last
      BY <2>2, <2>3, <3>1
    <3>2. QED
      BY <2>2, <2>3, <3>1a DEF Min
  <2>5. SubSeq(buf, i, last) = SubSeq(bytes, 3, n)
    <3>1. /\ i + (n - 2) - 1 = last /\ 3 + (n - 2) - 1 = n /\ n - 2 \in Nat
          /\ i \in 1 .. Len(buf) + 1 /\ 3 \in 1 .. Len(bytes) + 1
      BY <1>1
    <3>2. ASSUME NEW q \in 1 .. n - 2 PROVE buf[i + q - 1] = bytes[3 + q - 1]
      <4>1. 3 + q - 1 \in 3 .. n /\ i + (3 + q - 1) - 3 = i + q - 1
        BY <1>1
      <4>2. QED
        BY <4>1
    <3>3. i + (n - 2) - 1 <= Len(buf) /\ 3 + (n - 2) - 1 <= Len(bytes)
      BY <1>1
    <3>4. SubSeq(buf, i, i + (n - 2) - 1) = SubSeq(bytes, 3, 3 + (n - 2) - 1)
      <4> DEFINE m == n - 2
      <4>1. /\ i \in 1 .. Len(buf) + 1 /\ 3 \in 1 .. Len(bytes) + 1 /\ m \in Nat
            /\ Agree(buf, i, bytes, 3, m)
            /\ buf \in Seq(Byte) /\ bytes \in Seq(Byte)
        BY <3>1, <3>2, <3>3 DEF Agree
      <4> HIDE DEF n, last, m
      <4>2. SamePieces(buf, i, bytes, 3, m)
        BY ONLY <4>1, SamePiece
      <4>3. QED
        BY <4>2 DEF m, SamePieces
    <3>5. QED
      BY <3>1, <3>4
  <2>6. <<"esc", "[">> \o SubSeq(bytes, 3, n) = bytes
    <3>1. 1 \in 1 .. Len(bytes) - 1 /\ n \in 1 + 1 .. Len(bytes)
      BY <1>1
    <3>2. SubSeq(bytes, 1, n) = <<bytes[1], bytes[1 + 1]>> \o SubSeq(bytes, 1 + 2, n)
      BY <3>1, TwoThenRest
    <3>3. SubSeq(bytes, 1, n) = bytes
      OBVIOUS
    <3>4. bytes[1] = "esc" /\ bytes[1 + 1] = "[" /\ 1 + 2 = 3
      BY DEF CsiBytes
    <3>5. QED
      BY <3>2, <3>3, <3>4
  <2>7. last + 1 = i + n - 2
    BY <1>1
  <2>8. QED
    BY <1>4, <2>1, <2>4, <2>5, <2>6, <2>7
<1>5. QED
  BY <1>3, <1>4, CsiConventions

\* A keystroke that is all in the chunk, and is no ESC alone: its event.
LEMMA KeyRecognised ==
  ASSUME NEW buf \in Seq(Byte), NEW i \in 1 .. Len(buf), NEW bytes \in Seq(Byte), NEW event,
         Conventional(bytes, event), bytes # <<"esc">>, Agree(buf, i, bytes, 1, Len(bytes))
  PROVE  /\ Len(bytes) \in Nat /\ Len(bytes) >= 1
         /\ KeyAt(buf, i) = Token(<<event>>, i + Len(bytes))
<1> DEFINE n == Len(bytes)
           first == bytes[1]
<1>1. n \in Nat /\ n >= 1 /\ Len(buf) \in Nat /\ i \in Nat /\ i >= 1 /\ i + n - 1 <= Len(buf)
  <2>1. n \in Nat /\ Len(buf) \in Nat /\ i + n - 1 <= Len(buf)
    BY DEF Agree
  <2>2. n >= 1
    <3>1. n = 1 \/ n \in 2 .. 4 \/ n = 2 \/ n >= 3
      BY Zenon DEF Conventional
    <3>2. n \in Nat
      BY <2>1
    <3> HIDE DEF n
    <3>3. QED
      BY <3>1, <3>2
  <2>3. QED
    BY <2>1, <2>2
<1>2. \A q \in 1 .. n : buf[i + q - 1] = bytes[q]
  BY DEF Agree
<1> HIDE DEF n
<1>3. buf[i] = first
  <2>1. 1 \in 1 .. n /\ i + 1 - 1 = i
    BY <1>1
  <2>2. QED
    BY <1>2, <2>1
<1>4. n = 1 => bytes = <<first>>
  BY DEF n
<1>5. /\ first \in Printable => first # "esc" /\ first \notin DOMAIN Control
      /\ first \in DOMAIN Control => first # "esc"
  BY KeyAssumption DEF Control
<1> HIDE DEF first
<1>6. CASE n = 1 /\ first = "esc"
  BY <1>4, <1>6
<1>7. CASE n = 1 /\ first \in DOMAIN Control /\ event = Key(Control[first])
  BY <1>3, <1>5, <1>7 DEF KeyAt, n
<1>8. CASE n = 1 /\ first \in Printable /\ event = Char(bytes)
  <2>1. KeyAt(buf, i) = Token(<<Char(<<first>>)>>, i + 1)
    BY <1>3, <1>5, <1>8 DEF KeyAt
  <2>2. QED
    BY <1>4, <1>8, <2>1 DEF n
<1>9. CASE /\ n = 1 /\ event = Raw(bytes)
           /\ first \notin Printable \cup {"esc"} \cup DOMAIN Control
           /\ first \notin {c[1] : c \in Characters}
  <2>1. Decodings(buf, i) = {}
    <3>1. SUFFICES ASSUME NEW m \in Decodings(buf, i) PROVE FALSE
      OBVIOUS
    <3>2. m \in 2 .. 4 /\ i + m - 1 <= Len(buf) /\ SubSeq(buf, i, i + m - 1) \in Characters
      BY <3>1 DEF Decodings
    <3>3. SubSeq(buf, i, i + m - 1)[1] = buf[i]
      BY <1>1, <3>2
    <3>4. QED
      BY <1>3, <1>9, <3>2, <3>3
  <2>2. KeyAt(buf, i) = Token(<<Raw(<<first>>)>>, i + 1)
    BY <1>3, <1>9, <2>1 DEF KeyAt
  <2>3. QED
    BY <1>4, <1>9, <2>2 DEF n
<1>10. CASE n \in 2 .. 4 /\ bytes \in Characters /\ event = Char(bytes)
  <2>1. first \notin Printable \cup {"esc"} \cup DOMAIN Control
    BY <1>10, KeyboardAssumption DEF first
  <2>2. ASSUME NEW m \in 1 .. n
        PROVE  SubSeq(buf, i, i + m - 1) = SubSeq(bytes, 1, m)
    <3>1. Agree(buf, i, bytes, 1, m)
      <4>1. i + m - 1 <= Len(buf) /\ 1 + m - 1 <= n /\ \A q \in 1 .. m : q \in 1 .. n /\ 1 + q - 1 = q
        BY <1>1, <2>2
      <4>2. QED
        BY <1>2, <4>1 DEF Agree, n
    <3>2. i \in 1 .. Len(buf) + 1 /\ 1 \in 1 .. Len(bytes) + 1 /\ m \in Nat /\ 1 + m - 1 = m
      BY <1>1, <2>2 DEF n
    <3>3. SamePieces(buf, i, bytes, 1, m)
      BY <3>1, <3>2, SamePiece
    <3>4. QED
      BY <3>2, <3>3 DEF SamePieces
  <2>3. SubSeq(buf, i, i + n - 1) = bytes
    <3>1. SubSeq(bytes, 1, n) = bytes
      BY DEF n
    <3>2. n \in 1 .. n
      BY <1>1
    <3>3. QED
      BY <2>2, <3>1, <3>2
  <2>4. n \in Decodings(buf, i)
    BY <1>1, <1>10, <2>3 DEF Decodings
  <2>5. ASSUME NEW m \in Decodings(buf, i) PROVE m = n
    <3> DEFINE other == SubSeq(buf, i, i + m - 1)
    <3>1. m \in 2 .. 4 /\ i + m - 1 <= Len(buf) /\ other \in Characters /\ m \in Nat
      BY <2>5 DEF Decodings
    <3>2. Len(other) = m /\ other \in Seq(Byte) /\ \A q \in 1 .. m : other[q] = buf[i + q - 1]
      <4>1. i \in 1 .. Len(buf) + 1 /\ i + m - 1 \in i - 1 .. Len(buf) /\ (i + m - 1) - i + 1 = m
        BY <1>1, <3>1
      <4>2. QED
        BY <4>1, PieceOf
    <3> HIDE DEF other
    <3>3. ASSUME m <= n PROVE m = n
      <4>1. other = SubSeq(bytes, 1, m)
        BY <1>1, <2>2, <3>1, <3>3 DEF other
      <4>2. SubSeq(other, 1, m) = other
        BY <3>2
      <4>3. IsPrefix(other, bytes)
        BY <3>2, <3>3, <4>1, <4>2 DEF IsPrefix, n
      <4>4. other = bytes
        BY <1>10, <3>1, <4>3, KeyboardAssumption
      <4>5. QED
        BY <3>2, <4>4 DEF n
    <3>4. ASSUME n <= m PROVE m = n
      <4>1. SubSeq(other, 1, n) = bytes
        <5>1. Agree(other, 1, bytes, 1, n)
          <6>1. 1 + n - 1 <= m /\ 1 + n - 1 <= n
                /\ \A q \in 1 .. n : 1 + q - 1 = q /\ q \in 1 .. m
            BY <1>1, <3>1, <3>4
          <6>2. QED
            BY <1>2, <3>2, <6>1 DEF Agree, n
        <5>2. 1 \in 1 .. Len(other) + 1 /\ 1 \in 1 .. Len(bytes) + 1 /\ 1 + n - 1 = n
          BY <1>1, <3>1, <3>2 DEF n
        <5>3. SamePieces(other, 1, bytes, 1, n)
          BY <1>1, <3>2, <5>1, <5>2, SamePiece
        <5>4. SubSeq(bytes, 1, n) = bytes
          BY DEF n
        <5>5. QED
          BY <5>2, <5>3, <5>4 DEF SamePieces
      <4>2. SubSeq(bytes, 1, n) = bytes
        BY DEF n
      <4>3. IsPrefix(bytes, other)
        BY <3>2, <3>4, <4>1, <4>2 DEF IsPrefix, n
      <4>4. other = bytes
        BY <1>10, <3>1, <4>3, KeyboardAssumption
      <4>5. QED
        BY <3>2, <4>4 DEF n
    <3>5. QED
      BY <1>1, <3>1, <3>3, <3>4
  <2>6. Decodings(buf, i) = {n}
    BY <2>4, <2>5
  <2>7. Max({n}) = n
    BY <1>1 DEF Max
  <2>8. KeyAt(buf, i) = Token(<<Char(SubSeq(buf, i, i + n - 1))>>, i + n)
    <3>1. Decodings(buf, i) # {} /\ Max(Decodings(buf, i)) = n
      BY <2>6, <2>7
    <3>2. QED
      BY <1>3, <2>1, <3>1 DEF KeyAt
  <2>9. QED
    BY <1>1, <1>10, <2>3, <2>8 DEF n
<1>11. CASE n = 2 /\ first = "esc" /\ bytes[2] # "[" /\ event = Raw(bytes)
  <2>1. buf[i + 1] = bytes[2] /\ i < Len(buf) /\ i # Len(buf)
    <3>1. 2 \in 1 .. n /\ i + 2 - 1 = i + 1
      BY <1>1, <1>11
    <3>2. buf[i + 1] = bytes[2]
      BY <1>2, <3>1
    <3>3. QED
      BY <1>1, <1>11, <3>2
  <2>2. bytes = <<first, bytes[2]>>
    BY <1>11 DEF n, first
  <2>3. KeyAt(buf, i) = Token(<<Raw(<<"esc", buf[i + 1]>>)>>, i + 2)
    BY <1>3, <1>5, <1>11, <2>1 DEF KeyAt
  <2>4. QED
    BY <1>1, <1>11, <2>1, <2>2, <2>3 DEF n
<1>12. CASE CsiBytes(bytes)
  <2>1. n >= 3 /\ first = "esc" /\ bytes[2] = "["
    BY <1>12 DEF CsiBytes, n, first
  <2>2. buf[i + 1] = "[" /\ i < Len(buf) /\ i # Len(buf)
    <3>1. 2 \in 1 .. n /\ i + 2 - 1 = i + 1
      BY <1>1, <2>1
    <3>2. buf[i + 1] = bytes[2]
      BY <1>2, <3>1
    <3>3. QED
      BY <1>1, <2>1, <3>2
  <2>3. KeyAt(buf, i) = Csi(buf, i + 2)
    BY <1>3, <1>5, <2>1, <2>2 DEF KeyAt
  <2>4. Csi(buf, i + 2) = Token(<<event>>, (i + 2) + n - 2)
    <3>1. i + 2 \in 1 .. Len(buf) /\ (i + 2) + n - 3 <= Len(buf)
      BY <1>1, <2>1
    <3>2. \A q \in 3 .. n : buf[(i + 2) + q - 3] = bytes[q]
      <4>1. ASSUME NEW q \in 3 .. n PROVE q \in 1 .. n /\ (i + 2) + q - 3 = i + q - 1
        BY <1>1, <4>1
      <4>2. QED
        BY <1>2, <4>1
    <3> DEFINE at == i + 2
    <3>3. at \in 1 .. Len(buf) /\ at + n - 3 <= Len(buf)
          /\ \A q \in 3 .. n : buf[at + q - 3] = bytes[q]
      BY <3>1, <3>2
    <3> HIDE DEF at
    <3>4. Csi(buf, at) = Token(<<event>>, at + n - 2)
      BY <1>12, <3>3, CsiRecognised DEF n
    <3>5. QED
      BY <3>4 DEF at
  <2>5. (i + 2) + n - 2 = i + n
    BY <1>1
  <2>6. QED
    BY <1>1, <2>3, <2>4, <2>5 DEF n
<1>13. \/ n = 1 /\ first = "esc"
       \/ n = 1 /\ first \in DOMAIN Control /\ event = Key(Control[first])
       \/ n = 1 /\ first \in Printable /\ event = Char(bytes)
       \/ /\ n = 1 /\ event = Raw(bytes)
          /\ first \notin Printable \cup {"esc"} \cup DOMAIN Control
          /\ first \notin {c[1] : c \in Characters}
       \/ n \in 2 .. 4 /\ bytes \in Characters /\ event = Char(bytes)
       \/ n = 2 /\ first = "esc" /\ bytes[2] # "[" /\ event = Raw(bytes)
       \/ CsiBytes(bytes)
  BY Zenon DEF Conventional, CsiBytes, n, first
<1>14. QED
  BY <1>1, <1>6, <1>7, <1>8, <1>9, <1>10, <1>11, <1>12, <1>13 DEF n

-----------------------------------------------------------------------------
(* Where keystrokes end in the bytes of what is typed.                     *)

\* End(k), of any keystrokes.
EndOf(strokes, k) == Len(BytesOf(SubSeq(strokes, 1, k)))

\* A keystroke has bytes.
LEMMA StrokeType ==
  ASSUME NEW stroke \in Keyboard
  PROVE  stroke.bytes \in Seq(Byte) /\ Conventional(stroke.bytes, stroke.event)
         /\ Len(stroke.bytes) \in Nat /\ Len(stroke.bytes) >= 1
<1>1. stroke.bytes \in Seq(Byte)
  BY KeyAssumption, ByteTypes
<1>2. Conventional(stroke.bytes, stroke.event)
  BY KeyboardAssumption
<1> DEFINE n == Len(stroke.bytes)
<1>3. n \in Nat
  BY <1>1
<1>4. n = 1 \/ n \in 2 .. 4 \/ n = 2 \/ n >= 3
  BY <1>2, Zenon DEF Conventional
<1> HIDE DEF n
<1>5. n >= 1
  BY <1>3, <1>4
<1>6. QED
  BY <1>1, <1>2, <1>3, <1>5 DEF n

\* The bytes of some keystrokes, then of others.
LEMMA StrokesConcat ==
  ASSUME NEW a \in Seq(Keyboard), NEW b \in Seq(Keyboard)
  PROVE  BytesOf(a) \in Seq(Byte) /\ BytesOf(a \o b) = BytesOf(a) \o BytesOf(b)
<1> DEFINE Pieces(c) == [k \in 1 .. Len(c) |-> c[k].bytes]
           ab == a \o b
           pa == Pieces(a)
           pb == Pieces(b)
           pab == Pieces(ab)
<1>1. ASSUME NEW c \in Seq(Keyboard)
      PROVE  /\ Pieces(c) \in Seq(Seq(Byte)) /\ Len(Pieces(c)) = Len(c)
             /\ \A k \in 1 .. Len(c) : Pieces(c)[k] = c[k].bytes
  <2>1. \A k \in 1 .. Len(c) : c[k].bytes \in Seq(Byte)
    BY StrokeType
  <2>2. QED
    BY <2>1
<1>2. /\ ab \in Seq(Keyboard) /\ Len(ab) = Len(a) + Len(b) /\ Len(a) \in Nat /\ Len(b) \in Nat
      /\ \A k \in 1 .. Len(a) + Len(b) : ab[k] = IF k <= Len(a) THEN a[k] ELSE b[k - Len(a)]
  OBVIOUS
<1> HIDE DEF ab
<1>3. /\ pa \in Seq(Seq(Byte)) /\ pb \in Seq(Seq(Byte)) /\ pab \in Seq(Seq(Byte))
      /\ Len(pa) = Len(a) /\ Len(pb) = Len(b) /\ Len(pab) = Len(a) + Len(b)
      /\ \A k \in 1 .. Len(a) : pa[k] = a[k].bytes
      /\ \A k \in 1 .. Len(b) : pb[k] = b[k].bytes
      /\ \A k \in 1 .. Len(a) + Len(b) : pab[k] = ab[k].bytes
  BY <1>1, <1>2
<1> HIDE DEF pa, pb, pab, Pieces
<1>4. ASSUME NEW k \in 1 .. Len(a) + Len(b)
      PROVE  pab[k] = IF k <= Len(a) THEN pa[k] ELSE pb[k - Len(a)]
  <2>1. CASE k <= Len(a)
    <3>1. k \in 1 .. Len(a)
      BY <1>2, <2>1
    <3>2. pa[k] = a[k].bytes /\ pab[k] = ab[k].bytes /\ ab[k] = a[k]
      BY <1>2, <1>3, <2>1, <3>1
    <3>3. QED
      BY <2>1, <3>2
  <2>2. CASE ~(k <= Len(a))
    <3>1. k - Len(a) \in 1 .. Len(b)
      BY <1>2, <2>2
    <3>2. QED
      BY <1>2, <1>3, <2>2, <3>1
  <2>3. QED
    BY <2>1, <2>2
<1>5. pab = pa \o pb
  <2>1. Len(pab) = Len(pa) + Len(pb) /\ Len(pa) = Len(a) /\ Len(pab) = Len(a) + Len(b)
    BY <1>3
  <2>2. /\ pa \in Seq(Seq(Byte)) /\ pb \in Seq(Seq(Byte)) /\ pab \in Seq(Seq(Byte))
        /\ Len(pab) = Len(pa) + Len(pb)
        /\ \A k \in 1 .. Len(pab) : pab[k] = IF k <= Len(pa) THEN pa[k] ELSE pb[k - Len(pa)]
    BY <1>3, <1>4, <2>1, Zenon
  <2>3. QED
    BY ONLY <2>2, BytesConcat
<1>6. FlattenSeq(pa \o pb) = FlattenSeq(pa) \o FlattenSeq(pb)
  BY <1>3, FlattenConcat
<1>7. FlattenSeq(pa) \in Seq(Byte)
  <2>1. <<>> \in Seq(Byte)
    OBVIOUS
  <2>2. QED
    BY <1>3, <2>1, FlattenAppend
<1>8. /\ BytesOf(a) = FlattenSeq(pa) /\ BytesOf(b) = FlattenSeq(pb)
      /\ BytesOf(ab) = FlattenSeq(pab)
  BY DEF BytesOf, pa, pb, pab, Pieces
<1>9. QED
  BY <1>5, <1>6, <1>7, <1>8 DEF ab

\* The bytes of no keystroke, and of one.
LEMMA StrokesOne ==
  ASSUME NEW stroke \in Keyboard
  PROVE  BytesOf(<<>>) = <<>> /\ BytesOf(<<stroke>>) = stroke.bytes
<1> DEFINE x == stroke.bytes
<1>1. BytesOf(<<>>) = <<>>
  BY DEF BytesOf, FlattenSeq
<1>2. x \in Seq(Byte)
  BY StrokeType
<1>3. [k \in 1 .. Len(<<stroke>>) |-> <<stroke>>[k].bytes] = Append(<<>>, x)
  OBVIOUS
<1>4. BytesOf(<<stroke>>) = FlattenSeq(Append(<<>>, x))
  BY <1>3 DEF BytesOf
<1> HIDE DEF x
<1>5. FlattenSeq(Append(<<>>, x)) = FlattenSeq(<<>>) \o x
  <2>1. <<>> \in Seq(Seq(Byte))
    OBVIOUS
  <2>2. QED
    BY <1>2, <2>1, FlattenAppend
<1>6. FlattenSeq(<<>>) = <<>> /\ <<>> \o x = x
  BY <1>2 DEF FlattenSeq
<1>7. QED
  BY <1>1, <1>4, <1>5, <1>6 DEF x

\* A keystroke's bytes are where the one before it ends.
Placed(strokes, k) ==
  /\ EndOf(strokes, k) = EndOf(strokes, k - 1) + Len(strokes[k].bytes)
  /\ Agree(BytesOf(strokes), EndOf(strokes, k - 1) + 1, strokes[k].bytes, 1, Len(strokes[k].bytes))

\* So it is for all of them.
LEMMA StrokesPlaced ==
  ASSUME NEW strokes \in Seq(Keyboard)
  PROVE  /\ BytesOf(strokes) \in Seq(Byte)
         /\ EndOf(strokes, 0) = 0 /\ EndOf(strokes, Len(strokes)) = Len(BytesOf(strokes))
         /\ \A k \in 0 .. Len(strokes) : EndOf(strokes, k) \in Nat
                                         /\ EndOf(strokes, k) <= Len(BytesOf(strokes))
         /\ \A k \in 1 .. Len(strokes) : Placed(strokes, k)
<1> DEFINE N == Len(strokes)
           all == BytesOf(strokes)
           Part(k) == BytesOf(SubSeq(strokes, 1, k))
           Remainder(k) == BytesOf(SubSeq(strokes, k + 1, N))
<1>1. N \in Nat
  OBVIOUS
<1>2. ASSUME NEW k \in 0 .. N
      PROVE  /\ all = Part(k) \o Remainder(k) /\ Part(k) \in Seq(Byte) /\ Remainder(k) \in Seq(Byte)
             /\ SubSeq(strokes, 1, k) \in Seq(Keyboard)
  <2> DEFINE a == SubSeq(strokes, 1, k)
             b == SubSeq(strokes, k + 1, N)
  <2>1. a \in Seq(Keyboard) /\ b \in Seq(Keyboard)
    BY <1>1
  <2>2. SubSeq(strokes, 1, N) = a \o b
    <3>1. 1 \in 1 .. Len(strokes) + 1 /\ k \in 1 - 1 .. Len(strokes) /\ N \in k .. Len(strokes)
      BY <1>1
    <3> HIDE DEF N
    <3>2. QED
      BY <3>1, Cut
  <2>3. SubSeq(strokes, 1, N) = strokes
    OBVIOUS
  <2> HIDE DEF a, b
  <2>4. BytesOf(a \o b) = BytesOf(a) \o BytesOf(b) /\ BytesOf(a) \in Seq(Byte)
        /\ BytesOf(b) \in Seq(Byte)
    BY <2>1, StrokesConcat
  <2>5. QED
    BY <2>1, <2>2, <2>3, <2>4 DEF a, b
<1>3. SubSeq(strokes, 1, N) = strokes /\ SubSeq(strokes, 1, 0) = <<>>
  OBVIOUS
<1>4. Part(0) = <<>> /\ Part(N) = all
  <2>1. BytesOf(<<>>) = <<>>
    BY DEF BytesOf, FlattenSeq
  <2>2. QED
    BY <1>3, <2>1
<1> HIDE DEF all
<1>5. all \in Seq(Byte)
  BY <1>1, <1>2, <1>4
<1>6. ASSUME NEW k \in 1 .. N
      PROVE  Part(k) = Part(k - 1) \o strokes[k].bytes /\ strokes[k] \in Keyboard
  <2> DEFINE a == SubSeq(strokes, 1, k - 1)
             b == <<strokes[k]>>
  <2>1. k - 1 \in 0 .. N /\ k \in 1 .. Len(strokes)
    BY <1>1
  <2>2. a \in Seq(Keyboard) /\ b \in Seq(Keyboard) /\ strokes[k] \in Keyboard
    BY <1>2, <2>1
  <2>3. SubSeq(strokes, 1, k) = a \o b
    <3>1. 1 \in 1 .. Len(strokes) + 1 /\ k - 1 \in 1 - 1 .. Len(strokes) /\ k \in k - 1 .. Len(strokes)
          /\ (k - 1) + 1 = k
      BY <1>1
    <3> HIDE DEF N
    <3>2. SubSeq(strokes, 1, k) = SubSeq(strokes, 1, k - 1) \o SubSeq(strokes, (k - 1) + 1, k)
      BY <3>1, Cut
    <3>3. SubSeq(strokes, k, k) = b
      BY <2>1, OneAt
    <3>4. QED
      BY <3>1, <3>2, <3>3
  <2> HIDE DEF a
  <2>4. BytesOf(a \o b) = BytesOf(a) \o BytesOf(b)
    <3> HIDE DEF b
    <3>1. QED
      BY <2>2, StrokesConcat
  <2>5. BytesOf(b) = strokes[k].bytes
    BY <2>2, StrokesOne
  <2>6. QED
    BY <2>2, <2>3, <2>4, <2>5 DEF a
<1>7. \A k \in 0 .. N : EndOf(strokes, k) = Len(Part(k))
  BY DEF EndOf
<1> HIDE DEF N, Part, Rest
<1>8. ASSUME NEW k \in 0 .. N
      PROVE  /\ EndOf(strokes, k) \in Nat /\ EndOf(strokes, k) <= Len(all) /\ Len(all) \in Nat
             /\ \A q \in 1 .. EndOf(strokes, k) : all[q] = Part(k)[q]
  BY <1>2, <1>7
<1>9. ASSUME NEW k \in 1 .. N PROVE Placed(strokes, k)
  <2> DEFINE bytes == strokes[k].bytes
             n == Len(bytes)
             e == EndOf(strokes, k - 1)
             p == Part(k - 1)
  <2>1. k - 1 \in 0 .. N /\ k \in 0 .. N
    BY <1>1
  <2>2. bytes \in Seq(Byte) /\ n \in Nat
    BY <1>6, StrokeType
  <2>3. p \in Seq(Byte) /\ Len(p) = e /\ e \in Nat
    BY <1>2, <1>7, <1>8, <2>1
  <2>4. Part(k) = p \o bytes /\ EndOf(strokes, k) = Len(Part(k))
    BY <1>6, <1>7, <2>1
  <2> HIDE DEF bytes, n, e, p
  <2>5. Len(p \o bytes) = e + n /\ \A q \in 1 .. n : (p \o bytes)[e + q] = bytes[q]
    BY <2>2, <2>3 DEF n
  <2>6. EndOf(strokes, k) = e + n
    BY <2>4, <2>5
  <2>7. e + n <= Len(all) /\ Len(all) \in Nat /\ \A q \in 1 .. e + n : all[q] = Part(k)[q]
    BY <1>8, <2>1, <2>6
  <2>8. ASSUME NEW q \in 1 .. n PROVE all[(e + 1) + q - 1] = bytes[1 + q - 1]
    <3>1. (e + 1) + q - 1 = e + q /\ 1 + q - 1 = q /\ e + q \in 1 .. e + n
      BY <2>2, <2>3
    <3>2. QED
      BY <2>4, <2>5, <2>7, <3>1
  <2>9. (e + 1) + n - 1 <= Len(all) /\ 1 + n - 1 <= n
    BY <2>2, <2>3, <2>7
  <2>10. Agree(all, e + 1, bytes, 1, n)
    BY <2>8, <2>9 DEF Agree, n
  <2>11. QED
    BY <2>6, <2>10 DEF Placed, all, bytes, n, e
<1>10. EndOf(strokes, 0) = 0 /\ EndOf(strokes, N) = Len(all)
  <2>1. 0 \in 0 .. N /\ N \in 0 .. N
    BY <1>1
  <2>2. Len(<<>>) = 0
    OBVIOUS
  <2>3. QED
    BY <1>4, <1>7, <2>1, <2>2
<1>11. QED
  BY <1>5, <1>8, <1>9, <1>10 DEF all, N

\* One keystroke after another.
LEMMA EndsIncrease ==
  ASSUME NEW strokes \in Seq(Keyboard), NEW j \in 0 .. Len(strokes), NEW k \in 0 .. Len(strokes),
         j < k
  PROVE  EndOf(strokes, j) < EndOf(strokes, k)
<1> DEFINE N == Len(strokes)
           E(i) == EndOf(strokes, i)
           S == {d \in Nat : j + (d + 1) <= N => E(j) < E(j + (d + 1))}
<1>1. N \in Nat /\ j \in Nat /\ k \in Nat /\ k <= N
  OBVIOUS
<1>2. \A i \in 0 .. N : E(i) \in Nat
  BY StrokesPlaced
<1>3. ASSUME NEW i \in 1 .. N PROVE E(i - 1) < E(i)
  <2>1. strokes[i] \in Keyboard /\ i \in 0 .. N /\ i - 1 \in 0 .. N
    BY <1>1
  <2>2. Len(strokes[i].bytes) \in Nat /\ Len(strokes[i].bytes) >= 1
    BY <2>1, StrokeType
  <2>3. E(i) = E(i - 1) + Len(strokes[i].bytes)
    BY StrokesPlaced DEF Placed
  <2> DEFINE n == Len(strokes[i].bytes)
  <2>4. n \in Nat /\ n >= 1 /\ E(i) = E(i - 1) + n
    BY <2>2, <2>3
  <2> HIDE DEF n, E
  <2>5. QED
    BY <1>2, <2>1, <2>4
<1> HIDE DEF E, N
<1>4. 0 \in S
  <2>1. j + (0 + 1) <= N => j + 1 \in 1 .. N /\ (j + 1) - 1 = j
    BY <1>1
  <2>2. j + (0 + 1) <= N => E(j) < E(j + 1)
    BY <1>3, <2>1
  <2>3. j + (0 + 1) = j + 1
    BY <1>1
  <2>4. QED
    BY <2>2, <2>3
<1>5. ASSUME NEW d \in Nat, d \in S PROVE d + 1 \in S
  <2>1. SUFFICES ASSUME j + ((d + 1) + 1) <= N PROVE E(j) < E(j + ((d + 1) + 1))
    OBVIOUS
  <2> DEFINE m == j + (d + 1)
  <2>2. m \in 0 .. N /\ j \in 0 .. N /\ m + 1 \in 1 .. N /\ m + 1 \in 0 .. N /\ (m + 1) - 1 = m
        /\ j + ((d + 1) + 1) = m + 1
    BY <1>1, <2>1
  <2>3. E(j) < E(m)
    BY <1>5, <2>2
  <2> HIDE DEF m
  <2>4. E(m) < E(m + 1)
    BY <1>3, <2>2
  <2>5. E(j) \in Nat /\ E(m) \in Nat /\ E(m + 1) \in Nat
    BY <1>2, <2>2
  <2>6. E(j) < E(m + 1)
    BY <2>3, <2>4, <2>5
  <2>7. QED
    BY <2>2, <2>6
<1>6. k - j - 1 \in S
  <2> HIDE DEF S
  <2>1. \A d \in Nat : d \in S
    BY <1>4, <1>5, Induction
  <2>2. QED
    BY <1>1, <2>1
<1>7. j + ((k - j - 1) + 1) = k
  BY <1>1
<1>8. E(j) < E(k)
  BY <1>1, <1>6, <1>7
<1>9. QED
  BY <1>8 DEF E

-----------------------------------------------------------------------------
(* A chunk of whole keystrokes, or one that ends in the ESC of another.    *)

\* The events that the keyboard stands for.
Expected(strokes) == [j \in 1 .. Len(strokes) |-> strokes[j].event]

\* They are events.
LEMMA StrokeEvent ==
  ASSUME NEW stroke \in Keyboard
  PROVE  stroke.event \in KeyEvent
<1> DEFINE bytes == stroke.bytes
           event == stroke.event
<1>1. bytes \in Seq(Byte) /\ Conventional(bytes, event) /\ Len(bytes) \in Nat /\ Len(bytes) >= 1
  BY StrokeType
<1>2. CASE bytes = <<"esc">>
  <2>1. bytes \notin Characters
    BY <1>2, KeyboardAssumption
  <2>2. event = Key("Escape")
    BY <1>1, <1>2, <2>1, KeyAssumption DEF Conventional, Control
  <2>3. QED
    BY <2>2, RawOf
<1>3. CASE bytes # <<"esc">>
  <2> DEFINE n == Len(bytes)
  <2>1. Agree(bytes, 1, bytes, 1, n)
    BY <1>1 DEF Agree
  <2>2. 1 \in 1 .. Len(bytes)
    BY <1>1
  <2> HIDE DEF bytes, event
  <2>3. KeyAt(bytes, 1) = Token(<<event>>, 1 + n)
    BY <1>1, <1>3, <2>1, <2>2, KeyRecognised
  <2>4. KeyAt(bytes, 1).pending = FALSE /\ KeyAt(bytes, 1).events = <<event>>
    BY <2>3 DEF Token
  <2>5. Stands(KeyAt(bytes, 1), SubSeq(bytes, 1, KeyAt(bytes, 1).next - 1))
    BY <1>1, <2>2, <2>4, KeyAtStands
  <2>6. KeyAt(bytes, 1).events \in Seq(KeyEvent)
    BY <2>5 DEF Stands, TokenType
  <2>7. <<event>>[1] \in KeyEvent /\ <<event>>[1] = event
    <3>1. Len(<<event>>) = 1 /\ <<event>>[1] = event
      OBVIOUS
    <3>2. <<event>> \in Seq(KeyEvent)
      BY <2>4, <2>6
    <3>3. QED
      BY <3>1, <3>2
  <2>8. QED
    BY <2>7 DEF event
<1>4. QED
  BY <1>2, <1>3

\* One for each keystroke.
LEMMA ExpectedType ==
  ASSUME NEW strokes \in Seq(Keyboard)
  PROVE  /\ Expected(strokes) \in Seq(KeyEvent) /\ Len(Expected(strokes)) = Len(strokes)
         /\ \A j \in 1 .. Len(strokes) : Expected(strokes)[j] = strokes[j].event
<1>1. \A j \in 1 .. Len(strokes) : strokes[j].event \in KeyEvent
  BY StrokeEvent
<1>2. QED
  BY <1>1 DEF Expected

\* One event before the others.
LEMMA OneThenRest ==
  ASSUME NEW S, NEW s \in Seq(S), NEW j \in 1 .. Len(s), NEW m \in j .. Len(s)
  PROVE  SubSeq(s, j, m) = <<s[j]>> \o SubSeq(s, j + 1, m)
<1>1. j \in 1 .. Len(s) + 1 /\ j \in j - 1 .. Len(s) /\ m \in j .. Len(s)
  OBVIOUS
<1>2. SubSeq(s, j, m) = SubSeq(s, j, j) \o SubSeq(s, j + 1, m)
  BY <1>1, Cut
<1>3. SubSeq(s, j, j) = <<s[j]>>
  BY OneAt
<1>4. QED
  BY <1>2, <1>3

\* The key at a place, and what the keys from there on then are.
KeyIs(buf, i, new, next, flag) ==
  KeyAt(buf, i) = [events |-> new, next |-> next, pending |-> flag]

KeysGoOn(buf, i, new, next, flag) ==
  /\ Keys(buf)[i].events = new \o Keys(buf)[next].events
  /\ Keys(buf)[i].pending = (flag \/ Keys(buf)[next].pending)

\* What the keys from a place on are, at the end of the chunk or given the key there.
LEMMA KeysAtEnd ==
  ASSUME NEW buf \in Seq(Byte)
  PROVE  Keys(buf)[Len(buf) + 1].events = <<>> /\ Keys(buf)[Len(buf) + 1].pending = FALSE
<1> DEFINE end == Len(buf) + 1
           from == Keys(buf)
<1>1. end \in 1 .. Len(buf) + 1 /\ end > Len(buf)
  OBVIOUS
<1>2. from[end] = KeysAt(buf, from, end)
  BY <1>1, KeysEquation
<1> HIDE DEF end, from
<1>3. from[end] = Token(<<>>, end)
  BY <1>1, <1>2 DEF KeysAt
<1>4. QED
  BY <1>3 DEF Token, end, from

\* The events of a key come before those of the keys after it.
LEMMA KeysAtPlace ==
  ASSUME NEW buf \in Seq(Byte), NEW i \in 1 .. Len(buf), NEW new, NEW next, NEW flag,
         KeyIs(buf, i, new, next, flag), next \in 1 .. Len(buf) + 1
  PROVE  KeysGoOn(buf, i, new, next, flag)
<1> DEFINE from == Keys(buf)
           rest == from[next]
<1>1. i \in 1 .. Len(buf) + 1 /\ ~(i > Len(buf))
  OBVIOUS
<1>2. from[i] = KeysAt(buf, from, i) /\ rest \in TokenType
  BY <1>1, KeysEquation
<1> HIDE DEF from
<1>3. KeyAt(buf, i).events = new /\ KeyAt(buf, i).next = next /\ KeyAt(buf, i).pending = flag
  BY DEF KeyIs
<1>4. rest = [events |-> rest.events, next |-> rest.next, pending |-> rest.pending]
  BY <1>2 DEF TokenType
<1>5. from[i] = [rest EXCEPT !.events = new \o @, !.pending = flag \/ @]
  <2>1. KeysAt(buf, from, i) =
          [from[KeyAt(buf, i).next] EXCEPT !.events = KeyAt(buf, i).events \o @,
                                           !.pending = KeyAt(buf, i).pending \/ @]
    BY <1>1 DEF KeysAt
  <2>2. QED
    BY <1>2, <1>3, <2>1
<1> HIDE DEF rest
<1>6. from[i].events = new \o rest.events /\ from[i].pending = (flag \/ rest.pending)
  BY <1>4, <1>5
<1>7. QED
  BY <1>6 DEF KeysGoOn, rest, from

\* The chunk from r on to c holds the keystrokes up to the m-th, and it may be the
\* ESC that is the next one or begins it.
Holds(strokes, r, c, k, m) ==
  /\ r \in Nat /\ c \in Nat /\ r < c /\ c <= Len(BytesOf(strokes))
  /\ k \in 0 .. Len(strokes) /\ m \in k .. Len(strokes) /\ r <= EndOf(strokes, k)
  /\ \A j \in k + 1 .. m : strokes[j].bytes # <<"esc">>
  /\ \/ EndOf(strokes, m) = c
     \/ EndOf(strokes, m) + 1 = c /\ BytesOf(strokes)[c] = "esc"

\* The keys of the chunk, from where the k-th keystroke ends, are the ones up to the
\* m-th, and an ESC is pending if there is one.
KeysAre(strokes, r, c, k, m, buf) ==
  LET at == EndOf(strokes, k) - r + 1
  IN  /\ Keys(buf)[at].events = SubSeq(Expected(strokes), k + 1, m)
      /\ Keys(buf)[at].pending = (EndOf(strokes, m) # c)

\* By induction from the end of the chunk.
LEMMA ChunkRecognised ==
  ASSUME NEW strokes \in Seq(Keyboard), NEW r, NEW c, NEW k, NEW m, Holds(strokes, r, c, k, m),
         NEW buf, buf = SubSeq(BytesOf(strokes), r + 1, c)
  PROVE  KeysAre(strokes, r, c, k, m, buf)
<1> DEFINE N == Len(strokes)
           all == BytesOf(strokes)
           E(j) == EndOf(strokes, j)
           P(j) == E(j) - r + 1
           meant == Expected(strokes)
           Right(j) == /\ Keys(buf)[P(j)].events = SubSeq(meant, j + 1, m)
                       /\ Keys(buf)[P(j)].pending = (E(m) # c)
<1>1. /\ r \in Nat /\ c \in Nat /\ r < c /\ c <= Len(all) /\ N \in Nat
      /\ k \in 0 .. N /\ m \in k .. N /\ r <= E(k)
      /\ \A j \in k + 1 .. m : strokes[j].bytes # <<"esc">>
      /\ E(m) = c \/ (E(m) + 1 = c /\ all[c] = "esc")
  BY DEF Holds
<1>2. /\ all \in Seq(Byte) /\ Len(all) \in Nat /\ \A j \in 0 .. N : E(j) \in Nat
      /\ \A j \in 1 .. N : Placed(strokes, j)
  BY StrokesPlaced
<1>3. meant \in Seq(KeyEvent) /\ Len(meant) = N /\ \A j \in 1 .. N : meant[j] = strokes[j].event
  BY ExpectedType
<1>4. \A i, j \in 0 .. N : i < j => E(i) < E(j)
  BY EndsIncrease
<1> HIDE DEF E, all, meant, N
<1>5. buf \in Seq(Byte) /\ Len(buf) = c - r /\ \A q \in 1 .. c - r : buf[q] = all[r + q]
  <2>1. r + 1 \in 1 .. Len(all) + 1 /\ c \in (r + 1) - 1 .. Len(all) /\ c - (r + 1) + 1 = c - r
    BY <1>1, <1>2
  <2>2. buf = SubSeq(all, r + 1, c)
    BY DEF all
  <2>3. /\ buf \in Seq(Byte) /\ Len(buf) = c - (r + 1) + 1
        /\ \A q \in 1 .. c - (r + 1) + 1 : buf[q] = all[(r + 1) + q - 1]
    <3> DEFINE lo == r + 1
    <3>1. /\ lo \in 1 .. Len(all) + 1 /\ c \in lo - 1 .. Len(all) /\ buf = SubSeq(all, lo, c)
          /\ all \in Seq(Byte)
      BY <1>2, <2>1, <2>2
    <3> HIDE DEF lo
    <3>2. /\ buf \in Seq(Byte) /\ Len(buf) = c - lo + 1
          /\ \A q \in 1 .. c - lo + 1 : buf[q] = all[lo + q - 1]
      BY ONLY <3>1, PieceOf
    <3>3. QED
      BY <3>2 DEF lo
  <2>4. \A q \in 1 .. c - r : (r + 1) + q - 1 = r + q
    BY <1>1
  <2>5. QED
    BY <2>1, <2>3, <2>4
<1>6. ASSUME NEW j \in k .. m PROVE E(j) \in Nat /\ r <= E(j) /\ E(j) <= c
                                    /\ P(j) \in 1 .. Len(buf) + 1 /\ j \in 0 .. N
  <2>1. j \in 0 .. N /\ k \in 0 .. N /\ m \in 0 .. N /\ (k = j \/ k < j) /\ (j = m \/ j < m)
    BY <1>1
  <2>2. E(k) <= E(j) /\ E(j) <= E(m) /\ E(j) \in Nat /\ E(k) \in Nat /\ E(m) \in Nat
    <3>1. E(j) \in Nat /\ E(k) \in Nat /\ E(m) \in Nat
      BY <1>2, <2>1
    <3>2. (k = j \/ E(k) < E(j)) /\ (j = m \/ E(j) < E(m))
      BY <1>4, <2>1
    <3>3. QED
      BY <3>1, <3>2
  <2>3. E(m) <= c
    BY <1>1, <2>2
  <2>4. QED
    BY <1>1, <1>5, <2>1, <2>2, <2>3
<1>7. Right(m)
  <2>1. m \in k .. m /\ m \in Nat /\ SubSeq(meant, m + 1, m) = <<>>
    <3>1. m \in k .. m /\ m \in Nat
      BY <1>1
    <3>2. QED
      BY <1>3, <3>1
  <2>2. E(m) \in Nat
    BY <1>6, <2>1
  <2>3. CASE E(m) = c
    <3>1. P(m) = Len(buf) + 1
      BY <1>1, <1>5, <2>3
    <3>2. QED
      <4> DEFINE end == Len(buf) + 1
      <4>1. Keys(buf)[end].events = <<>> /\ Keys(buf)[end].pending = FALSE
        BY <1>5, KeysAtEnd
      <4>2. P(m) = end
        BY <3>1
      <4> HIDE DEF end, P
      <4>3. QED
        BY <2>1, <2>3, <4>1, <4>2
  <2>4. CASE E(m) + 1 = c /\ all[c] = "esc"
    <3>1. P(m) = Len(buf) /\ P(m) \in 1 .. Len(buf) /\ E(m) # c /\ Len(buf) \in Nat
      BY <1>1, <1>5, <2>2, <2>4
    <3>2. buf[P(m)] = "esc"
      <4>1. P(m) \in 1 .. c - r /\ r + P(m) = c
        BY <1>1, <1>5, <2>2, <2>4
      <4>2. QED
        BY <1>5, <2>4, <4>1
    <3> DEFINE i == P(m)
               end == Len(buf) + 1
    <3>3. i = Len(buf) /\ i \in 1 .. Len(buf) /\ buf[i] = "esc" /\ Len(buf) \in Nat
      BY <3>1, <3>2
    <3>4. Keys(buf)[end].events = <<>> /\ Keys(buf)[end].pending = FALSE
      BY <1>5, KeysAtEnd
    <3> HIDE DEF i
    <3>5. end \in 1 .. Len(buf) + 1 /\ i + 1 = end
      <4> DEFINE l == Len(buf)
      <4>1. i = l /\ l \in Nat
        BY <3>3
      <4> HIDE DEF l
      <4>2. l + 1 \in 1 .. l + 1 /\ i + 1 = l + 1
        BY <4>1
      <4>3. QED
        BY <4>2 DEF l
    <3>6. KeyIs(buf, i, <<>>, end, TRUE)
      <4>1. "esc" \notin DOMAIN Control /\ "esc" \notin Printable
        BY KeyAssumption DEF Control
      <4>2. KeyAt(buf, i) = [events |-> <<>>, next |-> i + 1, pending |-> TRUE]
        <5> DEFINE byte == buf[i]
        <5>1. byte = "esc" /\ i = Len(buf) /\ ~(i < Len(buf))
          <6> DEFINE l == Len(buf)
          <6>1. i = l /\ l \in Nat /\ byte = "esc"
            BY <3>3
          <6> HIDE DEF l, byte
          <6>2. ~(i < l)
            BY <6>1
          <6>3. QED
            BY <6>1, <6>2 DEF l
        <5> HIDE DEF byte
        <5>2. byte \notin DOMAIN Control /\ byte \notin Printable
          BY <4>1, <5>1
        <5>3. QED
          BY <5>1, <5>2 DEF KeyAt, byte
      <4>3. QED
        BY <3>5, <4>2 DEF KeyIs
    <3> HIDE DEF end
    <3>7. KeysGoOn(buf, i, <<>>, end, TRUE)
      BY <1>5, <3>3, <3>5, <3>6, KeysAtPlace
    <3>8. Keys(buf)[i].events = <<>> \o <<>> /\ Keys(buf)[i].pending = TRUE
      BY <3>4, <3>7 DEF KeysGoOn
    <3>9. <<>> \o <<>> = <<>>
      OBVIOUS
    <3>10. QED
      BY <2>1, <3>1, <3>8, <3>9 DEF i
  <2>5. QED
    BY <1>1, <2>3, <2>4
<1>8. ASSUME NEW j \in k + 1 .. m, Right(j) PROVE Right(j - 1)
  <2>1. j \in k .. m /\ j - 1 \in k .. m /\ j \in 1 .. N /\ j \in Nat
    BY <1>1
  <2> DEFINE bytes == strokes[j].bytes
             event == strokes[j].event
             n == Len(bytes)
             i == P(j - 1)
  <2>2. /\ bytes \in Seq(Byte) /\ Conventional(bytes, event) /\ n \in Nat /\ n >= 1
        /\ bytes # <<"esc">>
    BY <1>1, <2>1, StrokeType DEF N
  <2>3. E(j) = E(j - 1) + n /\ Agree(all, E(j - 1) + 1, bytes, 1, n)
    BY <1>2, <2>1 DEF Placed, E, all
  <2> HIDE DEF bytes, event
  <2>4. /\ E(j) \in Nat /\ E(j - 1) \in Nat /\ r <= E(j - 1) /\ E(j) <= c
        /\ P(j) \in 1 .. Len(buf) + 1
    BY <1>6, <2>1
  <2>5. i + n = P(j) /\ i \in 1 .. Len(buf) /\ Len(buf) \in Nat
    <3> DEFINE e == E(j - 1)
               l == Len(buf)
    <3>1. E(j) = e + n /\ e \in Nat /\ r <= e /\ e + n <= c /\ l = c - r
          /\ r \in Nat /\ c \in Nat /\ r < c /\ n \in Nat /\ n >= 1
      BY <1>1, <1>5, <2>2, <2>3, <2>4
    <3> HIDE DEF n, e, l
    <3>2. (e - r + 1) + n = (e + n) - r + 1 /\ e - r + 1 \in 1 .. l /\ l \in Nat
      BY <3>1
    <3>3. QED
      BY <3>1, <3>2 DEF e, l
  <2>6. Agree(buf, i, bytes, 1, n)
    <3>1. ASSUME NEW q \in 1 .. n PROVE buf[i + q - 1] = bytes[1 + q - 1]
      <4>1. i + q - 1 \in 1 .. c - r /\ r + (i + q - 1) = (E(j - 1) + 1) + q - 1
        <5> DEFINE e == E(j - 1)
        <5>1. /\ e \in Nat /\ r <= e /\ e + n <= c /\ q \in 1 .. n
              /\ r \in Nat /\ c \in Nat /\ r < c /\ n \in Nat
          BY <1>1, <2>2, <2>3, <2>4, <3>1
        <5> HIDE DEF n, e
        <5>2. (e - r + 1) + q - 1 \in 1 .. c - r /\ r + ((e - r + 1) + q - 1) = (e + 1) + q - 1
          BY <5>1
        <5>3. QED
          BY <5>2 DEF e
      <4>2. all[(E(j - 1) + 1) + q - 1] = bytes[1 + q - 1]
        BY <2>3 DEF Agree
      <4>3. buf[i + q - 1] = all[r + (i + q - 1)]
        BY <1>5, <4>1
      <4>4. QED
        BY <4>1, <4>2, <4>3
    <3>2. i + n - 1 <= Len(buf) /\ 1 + n - 1 <= n
      <4> HIDE DEF n, i
      <4>1. P(j) \in 1 .. Len(buf) + 1 /\ i + n = P(j) /\ n \in Nat /\ i \in 1 .. Len(buf)
            /\ Len(buf) \in Nat
        BY <2>2, <2>4, <2>5
      <4> DEFINE l == Len(buf)
                 pj == P(j)
      <4>2. pj \in 1 .. l + 1 /\ i + n = pj /\ n \in Nat /\ i \in 1 .. l /\ l \in Nat
        BY <4>1
      <4> HIDE DEF l, pj
      <4>3. i + n - 1 <= l /\ 1 + n - 1 <= n
        BY <4>2
      <4>4. QED
        BY <4>3 DEF l
    <3>3. QED
      BY <3>1, <3>2 DEF Agree
  <2> HIDE DEF i
  <2>7. KeyAt(buf, i) = Token(<<event>>, i + n)
    BY <1>5, <2>2, <2>5, <2>6, KeyRecognised
  <2> DEFINE next == P(j)
  <2>8. KeyIs(buf, i, <<event>>, next, FALSE)
    BY <2>5, <2>7 DEF Token, KeyIs, i
  <2>9. next \in 1 .. Len(buf) + 1
    BY <2>4
  <2> HIDE DEF next
  <2>10. /\ Keys(buf)[i].events = <<event>> \o Keys(buf)[next].events
         /\ Keys(buf)[i].pending = (FALSE \/ Keys(buf)[next].pending)
    <3>1. i \in 1 .. Len(buf)
      BY <2>5 DEF i
    <3>2. KeysGoOn(buf, i, <<event>>, next, FALSE)
      BY <1>5, <2>8, <2>9, <3>1, KeysAtPlace
    <3>3. QED
      BY <3>2 DEF KeysGoOn
  <2>11. SubSeq(meant, j, m) = <<event>> \o SubSeq(meant, j + 1, m)
    <3>1. j \in 1 .. Len(meant) /\ m \in j .. Len(meant)
      BY <1>1, <1>3, <2>1
    <3>2. SubSeq(meant, j, m) = <<meant[j]>> \o SubSeq(meant, j + 1, m)
      BY <1>3, <3>1, OneThenRest
    <3>3. meant[j] = event
      BY <1>3, <2>1 DEF event
    <3>4. QED
      BY <3>2, <3>3
  <2>12. (j - 1) + 1 = j
    BY <2>1
  <2>13. Keys(buf)[next].events = SubSeq(meant, j + 1, m) /\ Keys(buf)[next].pending = (E(m) # c)
    BY <1>8 DEF next
  <2>14. Keys(buf)[i].events = SubSeq(meant, (j - 1) + 1, m)
         /\ Keys(buf)[i].pending = (E(m) # c)
    BY <2>10, <2>11, <2>12, <2>13
  <2>15. QED
    BY <2>14 DEF i
<1>9. Right(k)
  <2> DEFINE S == {d \in Nat : d <= m - k => Right(m - d)}
  <2>1. 0 \in S
    <3>1. m - 0 = m
      BY <1>1
    <3> HIDE DEF Right
    <3>2. QED
      BY <1>7, <3>1
  <2>2. ASSUME NEW d \in Nat, d \in S PROVE d + 1 \in S
    <3>1. SUFFICES ASSUME d + 1 <= m - k PROVE Right(m - (d + 1))
      OBVIOUS
    <3>2. m - d \in k + 1 .. m /\ (m - d) - 1 = m - (d + 1) /\ d <= m - k
      BY <1>1, <3>1
    <3> HIDE DEF Right
    <3>3. Right(m - d)
      BY <2>2, <3>2
    <3>4. Right((m - d) - 1)
      BY <1>8, <3>2, <3>3
    <3>5. QED
      BY <3>2, <3>4
  <2>3. m - k \in S
    <3> HIDE DEF S
    <3>1. \A d \in Nat : d \in S
      BY <2>1, <2>2, Induction
    <3>2. QED
      BY <1>1, <3>1
  <2>4. m - (m - k) = k
    BY <1>1
  <2> HIDE DEF Right
  <2>5. QED
    BY <2>3, <2>4
<1>10. QED
  BY <1>9 DEF KeysAre, E, meant

-----------------------------------------------------------------------------
(* One chunk after another.                                                *)

\* What was handled, and what is pending, when the bytes up to the r-th were read.
Position(strokes, r, flag, done, paused) ==
  \/ \E k \in 0 .. Len(strokes) :
       ~flag /\ r = EndOf(strokes, k) /\ done = SubSeq(Expected(strokes), 1, k)
  \/ \E k \in 1 .. Len(strokes) :
       /\ flag /\ done = SubSeq(Expected(strokes), 1, k - 1)
       /\ \/ strokes[k].bytes = <<"esc">> /\ r = EndOf(strokes, k) /\ r \notin paused
          \/ CsiBytes(strokes[k].bytes) /\ r = EndOf(strokes, k - 1) + 1

\* A chunk may end here.
MayCut(strokes, c) ==
  \E k \in 1 .. Len(strokes) :
    \/ c = EndOf(strokes, k)
    \/ c = EndOf(strokes, k - 1) + 1 /\ CsiBytes(strokes[k].bytes)

\* Where the next keystroke to be recognised begins, or the one that was begun ends.
Begun(strokes, r, k) ==
  \/ k \in 0 .. Len(strokes) /\ r = EndOf(strokes, k)
  \/ k \in 1 .. Len(strokes) /\ r = EndOf(strokes, k - 1) + 1 /\ CsiBytes(strokes[k].bytes)

\* The chunk ends with the m-th keystroke, or with the ESC that is, or begins, the next.
EndsWith(strokes, c, m) ==
  \/ EndOf(strokes, m) = c
  \/ /\ m + 1 \in 1 .. Len(strokes) /\ EndOf(strokes, m) + 1 = c
     /\ \/ strokes[m + 1].bytes = <<"esc">> /\ EndOf(strokes, m + 1) = c
        \/ CsiBytes(strokes[m + 1].bytes)

\* A chunk that is cleanly cut ends so for one m, with no Escape before its end.
LEMMA LastInChunk ==
  ASSUME NEW strokes \in Seq(Keyboard), NEW r \in Nat, NEW c \in Nat, NEW k, r < c,
         c <= Len(BytesOf(strokes)), Begun(strokes, r, k), MayCut(strokes, c),
         \A j \in 1 .. Len(strokes) :
           strokes[j].bytes = <<"esc">> /\ r < EndOf(strokes, j) => c <= EndOf(strokes, j)
  PROVE  \E m \in k .. Len(strokes) : Holds(strokes, r, c, k, m) /\ EndsWith(strokes, c, m)
<1> DEFINE N == Len(strokes)
           all == BytesOf(strokes)
           E(j) == EndOf(strokes, j)
           Escape(j) == strokes[j].bytes = <<"esc">>
           Csis(j) == CsiBytes(strokes[j].bytes)
<1>1. N \in Nat /\ \A j \in 0 .. N : E(j) \in Nat
  BY StrokesPlaced
<1>2. \A i, j \in 0 .. N : i < j => E(i) < E(j)
  BY EndsIncrease
<1>3. ASSUME NEW j \in 1 .. N
      PROVE  /\ j - 1 \in 0 .. N /\ j \in 0 .. N
             /\ Escape(j) => E(j) = E(j - 1) + 1
             /\ Csis(j) => E(j) >= E(j - 1) + 3 /\ ~Escape(j)
             /\ Escape(j) \/ Csis(j) => all[E(j - 1) + 1] = "esc"
  <2> DEFINE bytes == strokes[j].bytes
             n == Len(bytes)
  <2>1. j - 1 \in 0 .. N /\ j \in 0 .. N
    BY <1>1
  <2>2. E(j) = E(j - 1) + n /\ Agree(all, E(j - 1) + 1, bytes, 1, n)
    BY StrokesPlaced DEF Placed
  <2>3. E(j) \in Nat /\ E(j - 1) \in Nat /\ n \in Nat /\ n >= 1
    BY <1>1, <2>1, StrokeType
  <2>4. Escape(j) => n = 1 /\ bytes[1] = "esc"
    OBVIOUS
  <2>5. Csis(j) => n >= 3 /\ bytes[1] = "esc"
    BY DEF CsiBytes
  <2>6. all[E(j - 1) + 1] = bytes[1]
    <3>1. 1 \in 1 .. n /\ (E(j - 1) + 1) + 1 - 1 = E(j - 1) + 1 /\ 1 + 1 - 1 = 1
      <4> HIDE DEF n, E
      <4>1. QED
        BY <2>3
    <3>2. all[(E(j - 1) + 1) + 1 - 1] = bytes[1 + 1 - 1]
      BY <2>2, <3>1 DEF Agree
    <3>3. QED
      BY <3>1, <3>2
  <2> HIDE DEF n, E, all
  <2>7. Csis(j) => ~Escape(j)
    BY <2>3, <2>4, <2>5
  <2>8. QED
    BY <2>1, <2>2, <2>3, <2>4, <2>5, <2>6, <2>7
<1>4. /\ k \in 0 .. N /\ r <= E(k) /\ (r < E(k) => k \in 1 .. N /\ r = E(k - 1) + 1 /\ Csis(k))
      /\ r = E(k) \/ r < E(k)
  <2>1. CASE k \in 0 .. N /\ r = E(k)
    BY <1>1, <2>1
  <2>2. CASE k \in 1 .. N /\ r = E(k - 1) + 1 /\ Csis(k)
    <3>1. k \in 0 .. N /\ k - 1 \in 0 .. N /\ E(k) >= E(k - 1) + 3
      BY <1>3, <2>2
    <3>2. E(k) \in Nat /\ E(k - 1) \in Nat
      BY <1>1, <3>1
    <3> HIDE DEF E, Csis
    <3>3. r < E(k) /\ r <= E(k)
      BY <2>2, <3>1, <3>2
    <3>4. QED
      BY <2>2, <3>1, <3>3
  <2>3. QED
    BY <2>1, <2>2 DEF Begun
<1>5. PICK m0 \in 1 .. N : c = E(m0) \/ (c = E(m0 - 1) + 1 /\ Csis(m0))
  BY DEF MayCut
<1> HIDE DEF N, all, E, Escape, Csis
<1>6. \A j \in 1 .. N : Escape(j) /\ r < E(j) => c <= E(j)
  BY DEF N, E, Escape
<1>7. m0 \in 0 .. N /\ m0 - 1 \in 0 .. N /\ E(m0) \in Nat /\ E(m0 - 1) \in Nat
      /\ E(k) \in Nat
  BY <1>1, <1>3, <1>4
<1>8. ASSUME NEW m \in k .. N, E(m) <= c, EndsWith(strokes, c, m),
             \A j \in k + 1 .. m : Escape(j) => E(j) # c,
             E(m) = c \/ (E(m) + 1 = c /\ all[c] = "esc")
      PROVE  Holds(strokes, r, c, k, m) /\ EndsWith(strokes, c, m)
  <2>1. ASSUME NEW j \in k + 1 .. m, Escape(j) PROVE FALSE
    <3>1. j \in 1 .. N /\ j \in 0 .. N /\ m \in 0 .. N /\ k < j /\ (j = m \/ j < m)
      BY <1>1, <1>4
    <3>2. E(k) < E(j) /\ (j = m \/ E(j) < E(m)) /\ E(j) \in Nat /\ E(m) \in Nat
      BY <1>1, <1>2, <1>4, <3>1
    <3>3. r < E(j) /\ E(j) <= c
      BY <1>4, <1>7, <1>8, <3>2
    <3>4. c <= E(j)
      BY <1>6, <2>1, <3>1, <3>3
    <3>5. QED
      BY <1>8, <2>1, <3>2, <3>3, <3>4
  <2>2. QED
    BY <1>4, <1>8, <2>1 DEF Holds, N, all, E, Escape
<1>9. CASE c = E(m0) /\ ~Escape(m0)
  <2>1. k <= m0
    <3>1. SUFFICES ASSUME m0 < k PROVE FALSE
      BY <1>1, <1>4, <1>7
    <3>2. CASE r = E(k)
      BY <1>2, <1>4, <1>7, <1>9, <3>1, <3>2
    <3>3. CASE r < E(k)
      <4>1. k - 1 \in 0 .. N /\ r = E(k - 1) + 1 /\ E(k - 1) \in Nat /\ (m0 = k - 1 \/ m0 < k - 1)
        BY <1>1, <1>3, <1>4, <3>1, <3>3
      <4>2. m0 = k - 1 \/ E(m0) < E(k - 1)
        BY <1>2, <1>7, <4>1
      <4>3. QED
        BY <1>7, <1>9, <4>1, <4>2
    <3>4. QED
      BY <1>4, <3>2, <3>3
  <2>2. m0 \in k .. N /\ E(m0) <= c
    BY <1>1, <1>4, <1>7, <1>9, <2>1
  <2>3. ASSUME NEW j \in k + 1 .. m0, Escape(j) PROVE E(j) # c
    <3>1. j \in 0 .. N /\ j < m0
      <4>1. j # m0
        BY <1>9, <2>3
      <4>2. QED
        BY <1>1, <1>4, <1>7, <4>1
    <3>2. E(j) < E(m0) /\ E(j) \in Nat
      BY <1>1, <1>2, <1>7, <3>1
    <3>3. QED
      BY <1>7, <1>9, <3>2
  <2>4. EndsWith(strokes, c, m0)
    BY <1>9 DEF EndsWith, E
  <2>5. Holds(strokes, r, c, k, m0) /\ EndsWith(strokes, c, m0)
    BY <1>8, <1>9, <2>2, <2>3, <2>4
  <2>6. QED
    BY <2>2, <2>5 DEF N
<1>10. CASE (c = E(m0) /\ Escape(m0)) \/ (c = E(m0 - 1) + 1 /\ Csis(m0))
  <2> DEFINE m == m0 - 1
  <2>1. m \in 0 .. N /\ m + 1 = m0 /\ m < m0 /\ E(m) \in Nat /\ E(m) + 1 = c /\ all[c] = "esc"
    BY <1>3, <1>7, <1>10
  <2>2. k <= m
    <3>1. SUFFICES ASSUME m < k PROVE FALSE
      BY <1>4, <2>1
    <3>2. CASE r = E(k)
      <4>1. E(m) < E(k)
        BY <1>2, <1>4, <2>1, <3>1
      <4>2. QED
        BY <1>7, <2>1, <3>2, <4>1
    <3>3. CASE r < E(k)
      <4>1. k \in 1 .. N /\ k - 1 \in 0 .. N /\ r = E(k - 1) + 1 /\ E(k - 1) \in Nat
            /\ (m = k - 1 \/ m < k - 1)
        BY <1>1, <1>3, <1>4, <2>1, <3>1, <3>3
      <4>2. m = k - 1 \/ E(m) < E(k - 1)
        BY <1>2, <2>1, <4>1
      <4>3. E(m) + 1 = c /\ E(m) \in Nat
        BY <2>1
      <4> HIDE DEF m
      <4>4. CASE m = k - 1
        BY <4>1, <4>3, <4>4
      <4>5. CASE E(m) < E(k - 1)
        BY <4>1, <4>3, <4>5
      <4>6. QED
        BY <4>2, <4>4, <4>5
    <3>4. QED
      BY <1>4, <3>2, <3>3
  <2>3. m \in k .. N /\ E(m) <= c
    BY <1>1, <1>4, <2>1, <2>2
  <2>4. ASSUME NEW j \in k + 1 .. m PROVE E(j) # c
    <3>1. j \in 0 .. N /\ (j = m \/ j < m)
      BY <1>1, <1>4, <2>1
    <3>2. j = m \/ (E(j) < E(m) /\ E(j) \in Nat)
      BY <1>1, <1>2, <2>1, <3>1
    <3>3. QED
      BY <2>1, <3>2
  <2> HIDE DEF m
  <2>5. EndsWith(strokes, c, m)
    <3>1. m + 1 \in 1 .. N /\ E(m) + 1 = c
      BY <2>1
    <3>2. (Escape(m + 1) /\ E(m + 1) = c) \/ Csis(m + 1)
      BY <1>10, <2>1
    <3>3. QED
      BY <3>1, <3>2 DEF EndsWith, E, N, Escape, Csis
  <2>6. Holds(strokes, r, c, k, m) /\ EndsWith(strokes, c, m)
    BY <1>8, <2>1, <2>3, <2>4, <2>5
  <2>7. QED
    BY <2>3, <2>6 DEF N
<1>11. QED
  BY <1>5, <1>9, <1>10

\* The first key of the chunk, if it ends an ESC that was pending, and what it makes.
FirstIs(strokes, r, k, buf, flag, done, new) ==
  /\ ParseBytes(buf, flag) = KeysFrom(buf, Token(new, EndOf(strokes, k) - r + 1))
  /\ new \in Seq(KeyEvent) /\ done \o new = SubSeq(Expected(strokes), 1, k)

\* What parse_bytes asks of a chunk when an ESC is pending.
LEMMA StartsWith ==
  ASSUME NEW buf \in Seq(Byte), Len(buf) >= 1
  PROVE  IsPrefix(<<"[">>, buf) <=> buf[1] = "["
<1>1. Len(<<"[">>) = 1 /\ SubSeq(<<"[">>, 1, 1) = <<"[">>
  <2> DEFINE one == <<"[">>
  <2>1. "[" \in Byte
    BY ByteTypes
  <2>2. one \in Seq(Byte) /\ Len(one) = 1 /\ one[1] = "["
    BY <2>1
  <2> HIDE DEF one
  <2>3. SubSeq(one, 1, 1) = <<one[1]>>
    <3>1. 1 \in 1 .. Len(one)
      BY <2>2
    <3>2. QED
      BY <2>2, <3>1, OneAt
  <2>4. QED
    BY <2>2, <2>3 DEF one
<1>2. SubSeq(buf, 1, 1) = <<buf[1]>>
  <2>1. 1 \in 1 .. Len(buf)
    OBVIOUS
  <2>2. QED
    BY <2>1, OneAt
<1>3. IsPrefix(<<"[">>, buf) <=> <<"[">> = <<buf[1]>>
  BY <1>1, <1>2 DEF IsPrefix
<1>4. <<"[">> = <<buf[1]>> <=> buf[1] = "["
  OBVIOUS
<1>5. QED
  BY <1>3, <1>4

\* An Escape that was pending is one, if no [ follows it; a sequence that was begun ends.
LEMMA FirstRecognised ==
  ASSUME NEW strokes \in Seq(Keyboard), NEW r \in Nat, NEW c \in Nat, NEW flag, NEW done, NEW paused,
         r < c, c <= Len(BytesOf(strokes)), NEW k, NEW buf, buf = SubSeq(BytesOf(strokes), r + 1, c),
         \/ /\ k \in 0 .. Len(strokes)
            /\ ~flag /\ r = EndOf(strokes, k) /\ done = SubSeq(Expected(strokes), 1, k)
         \/ /\ k \in 1 .. Len(strokes) /\ flag /\ done = SubSeq(Expected(strokes), 1, k - 1)
            /\ \/ /\ strokes[k].bytes = <<"esc">> /\ r = EndOf(strokes, k)
                  /\ BytesOf(strokes)[r + 1] # "["
               \/ /\ CsiBytes(strokes[k].bytes) /\ r = EndOf(strokes, k - 1) + 1
                  /\ EndOf(strokes, k) <= c
  PROVE  \E new : FirstIs(strokes, r, k, buf, flag, done, new)
<1> DEFINE N == Len(strokes)
           all == BytesOf(strokes)
           E(j) == EndOf(strokes, j)
           meant == Expected(strokes)
           bytes == strokes[k].bytes
           event == strokes[k].event
<1>1. all \in Seq(Byte) /\ Len(all) \in Nat /\ N \in Nat /\ \A j \in 0 .. N : E(j) \in Nat
  BY StrokesPlaced
<1>2. meant \in Seq(KeyEvent) /\ Len(meant) = N /\ \A j \in 1 .. N : meant[j] = strokes[j].event
  BY ExpectedType
<1>3. buf \in Seq(Byte) /\ Len(buf) = c - r /\ \A q \in 1 .. c - r : buf[q] = all[r + q]
  <2> DEFINE lo == r + 1
  <2>1. all \in Seq(Byte) /\ lo \in 1 .. Len(all) + 1 /\ c \in lo - 1 .. Len(all)
        /\ buf = SubSeq(all, lo, c)
    BY <1>1
  <2> HIDE DEF lo, all
  <2>2. /\ buf \in Seq(Byte) /\ Len(buf) = c - lo + 1
        /\ \A q \in 1 .. c - lo + 1 : buf[q] = all[lo + q - 1]
    BY ONLY <2>1, PieceOf
  <2>3. c - lo + 1 = c - r /\ \A q \in 1 .. c - r : lo + q - 1 = r + q
    BY DEF lo
  <2>4. QED
    BY <2>2, <2>3
<1>4. Len(buf) >= 1 /\ 1 \in 1 .. c - r /\ buf[1] = all[r + 1]
  <2>1. c - r >= 1 /\ 1 \in 1 .. c - r
    OBVIOUS
  <2>2. QED
    BY <1>3, <2>1
<1>5. ASSUME k \in 1 .. N
      PROVE  /\ SubSeq(meant, 1, k) = SubSeq(meant, 1, k - 1) \o <<event>> /\ <<event>> \in Seq(KeyEvent)
             /\ strokes[k] \in Keyboard
  <2>1. k \in 1 .. Len(meant) /\ 1 \in 1 .. Len(meant) + 1 /\ k - 1 \in 1 - 1 .. Len(meant)
        /\ k \in k - 1 .. Len(meant) /\ (k - 1) + 1 = k
    BY <1>1, <1>2, <1>5
  <2>2. strokes[k] \in Keyboard
    BY <1>5
  <2>3. event \in KeyEvent
    BY <2>2, StrokeEvent
  <2> HIDE DEF meant, event
  <2>4. SubSeq(meant, 1, k) = SubSeq(meant, 1, k - 1) \o SubSeq(meant, (k - 1) + 1, k)
    BY <1>2, <2>1, Cut
  <2>5. SubSeq(meant, k, k) = <<meant[k]>>
    BY <1>2, <2>1, OneAt
  <2>6. meant[k] = event
    BY <1>2, <1>5 DEF event
  <2>7. <<event>> \in Seq(KeyEvent)
    BY <2>3, OneOf
  <2>8. QED
    BY <2>1, <2>2, <2>4, <2>5, <2>6, <2>7
<1>6. CASE k \in 0 .. N /\ ~flag /\ r = E(k) /\ done = SubSeq(meant, 1, k)
  <2>1. ParseBytes(buf, flag) = KeysFrom(buf, Token(<<>>, 1))
    BY <1>6 DEF ParseBytes
  <2>2. E(k) - r + 1 = 1
    BY <1>6
  <2>3. <<>> \in Seq(KeyEvent) /\ done \o <<>> = done
    <3>1. done \in Seq(KeyEvent)
      BY <1>2, <1>6
    <3>2. QED
      BY <3>1
  <2>4. FirstIs(strokes, r, k, buf, flag, done, <<>>)
    BY <1>6, <2>1, <2>2, <2>3 DEF FirstIs
  <2>5. QED
    BY <2>4
<1>7. CASE /\ k \in 1 .. N /\ flag /\ done = SubSeq(meant, 1, k - 1)
           /\ bytes = <<"esc">> /\ r = E(k) /\ all[r + 1] # "["
  <2>1. ~IsPrefix(<<"[">>, buf)
    BY <1>3, <1>4, <1>7, StartsWith
  <2>2. ParseBytes(buf, flag) = KeysFrom(buf, Token(<<Key("Escape")>>, 1))
    BY <1>7, <2>1 DEF ParseBytes
  <2>3. event = Key("Escape")
    <3>1. bytes \notin Characters
      BY <1>7, KeyboardAssumption
    <3>2. Conventional(bytes, event)
      BY <1>5, <1>7, StrokeType
    <3>3. QED
      BY <1>7, <3>1, <3>2, KeyAssumption DEF Conventional, Control
  <2>4. E(k) - r + 1 = 1
    BY <1>7
  <2>5. FirstIs(strokes, r, k, buf, flag, done, <<event>>)
    BY <1>5, <1>7, <2>2, <2>3, <2>4 DEF FirstIs
  <2>6. QED
    BY <2>5
<1>8. CASE /\ k \in 1 .. N /\ flag /\ done = SubSeq(meant, 1, k - 1)
           /\ CsiBytes(bytes) /\ r = E(k - 1) + 1 /\ E(k) <= c
  <2> DEFINE n == Len(bytes)
  <2>1. bytes \in Seq(Byte) /\ Conventional(bytes, event) /\ n \in Nat /\ n >= 3
        /\ bytes[2] = "["
    BY <1>5, <1>8, StrokeType DEF CsiBytes
  <2>2. E(k) = E(k - 1) + n /\ Agree(all, E(k - 1) + 1, bytes, 1, n)
    BY <1>8, StrokesPlaced DEF Placed
  <2> HIDE DEF n, bytes, event, all
  <2>3. \A q \in 2 .. n : q - 1 \in 1 .. c - r /\ buf[q - 1] = bytes[q]
    <3> DEFINE e == E(k - 1)
    <3>1. /\ e \in Nat /\ r = e + 1 /\ e + n <= c /\ \A q \in 1 .. n : all[(e + 1) + q - 1] = bytes[1 + q - 1]
      <4>1. k - 1 \in 0 .. N
        BY <1>1, <1>8
      <4>2. QED
        BY <1>1, <1>8, <2>2, <4>1 DEF Agree
    <3> HIDE DEF e, E
    <3>2. ASSUME NEW q \in 2 .. n PROVE q - 1 \in 1 .. c - r /\ buf[q - 1] = bytes[q]
      <4>1. q \in 1 .. n /\ q - 1 \in 1 .. c - r /\ r + (q - 1) = (e + 1) + q - 1 /\ 1 + q - 1 = q
        BY <2>1, <3>1, <3>2
      <4>2. buf[q - 1] = all[r + (q - 1)] /\ all[(e + 1) + q - 1] = bytes[1 + q - 1]
        BY <1>3, <3>1, <4>1
      <4>3. QED
        BY <4>1, <4>2
    <3>3. QED
      BY <3>2
  <2>4. buf[1] = "["
    <3>1. 2 \in 2 .. n /\ 2 - 1 = 1
      BY <2>1
    <3>2. QED
      BY <2>1, <2>3, <3>1
  <2>5. IsPrefix(<<"[">>, buf)
    BY <1>3, <1>4, <2>4, StartsWith
  <2>6. ParseBytes(buf, flag) = KeysFrom(buf, Csi(buf, 2))
    BY <1>8, <2>5 DEF ParseBytes
  <2>7. Csi(buf, 2) = Token(<<event>>, 2 + n - 2)
    <3>1. 2 \in 1 .. Len(buf) /\ 2 + n - 3 <= Len(buf)
      <4>1. n - 1 \in 1 .. c - r
        <5>1. n \in 2 .. n
          BY <2>1
        <5>2. QED
          BY <2>3, <5>1
      <4>2. QED
        BY <1>3, <2>1, <4>1
    <3>2. ASSUME NEW q \in 3 .. n PROVE buf[2 + q - 3] = bytes[q]
      <4>1. q \in 2 .. n /\ 2 + q - 3 = q - 1
        BY <2>1, <3>2
      <4>2. QED
        BY <2>3, <4>1
    <3> DEFINE at == 2
    <3>3. at \in 1 .. Len(buf) /\ at + n - 3 <= Len(buf)
          /\ \A q \in 3 .. n : buf[at + q - 3] = bytes[q]
      BY <3>1, <3>2
    <3> HIDE DEF at
    <3>4. Csi(buf, at) = Token(<<event>>, at + n - 2)
      BY <1>3, <1>8, <2>1, <3>3, CsiRecognised DEF n
    <3>5. QED
      BY <3>4 DEF at
  <2>8. 2 + n - 2 = E(k) - r + 1
    <3>1. E(k - 1) \in Nat
      BY <1>1, <1>8
    <3> HIDE DEF E
    <3>2. QED
      BY <1>8, <2>1, <2>2, <3>1
  <2>9. FirstIs(strokes, r, k, buf, flag, done, <<event>>)
    BY <1>5, <1>8, <2>6, <2>7, <2>8 DEF FirstIs
  <2>10. QED
    BY <2>9
<1>9. QED
  BY <1>6, <1>7, <1>8

\* A chunk that is cleanly cut takes one Position to the next.
LEMMA ChunkStep ==
  ASSUME NEW strokes \in Seq(Keyboard), NEW r \in Nat, NEW c \in Nat, NEW flag, NEW done,
         NEW paused \in SUBSET (0 .. r), r < c, c <= Len(BytesOf(strokes)),
         Position(strokes, r, flag, done, paused), MayCut(strokes, c),
         \A j \in 1 .. Len(strokes) : strokes[j].bytes = <<"esc">> =>
           /\ r < EndOf(strokes, j) => c <= EndOf(strokes, j)
           /\ EndOf(strokes, j) = r /\ BytesOf(strokes)[r + 1] = "[" => r \in paused,
         NEW parsed, parsed = ParseBytes(SubSeq(BytesOf(strokes), r + 1, c), flag)
  PROVE  Position(strokes, c, parsed.pending, done \o parsed.events, paused)
<1> DEFINE N == Len(strokes)
           all == BytesOf(strokes)
           E(j) == EndOf(strokes, j)
           meant == Expected(strokes)
           buf == SubSeq(all, r + 1, c)
<1>1. all \in Seq(Byte) /\ Len(all) \in Nat /\ N \in Nat /\ \A j \in 0 .. N : E(j) \in Nat
  BY StrokesPlaced
<1>2. meant \in Seq(KeyEvent) /\ Len(meant) = N
  BY ExpectedType
<1>3. buf \in Seq(Byte)
  <2>1. r + 1 \in 1 .. Len(all) + 1 /\ c \in (r + 1) - 1 .. Len(all)
    BY <1>1
  <2> DEFINE lo == r + 1
  <2> HIDE DEF all, lo
  <2>2. SubSeq(all, lo, c) \in Seq(Byte)
    BY <1>1, <2>1, PieceOf DEF lo
  <2>3. QED
    BY <2>2 DEF lo
<1>4. PICK k : \/ k \in 0 .. N /\ ~flag /\ r = E(k) /\ done = SubSeq(meant, 1, k)
               \/ /\ k \in 1 .. N /\ flag /\ done = SubSeq(meant, 1, k - 1)
                  /\ \/ strokes[k].bytes = <<"esc">> /\ r = E(k) /\ r \notin paused
                     \/ CsiBytes(strokes[k].bytes) /\ r = E(k - 1) + 1
  BY DEF Position
<1>5. Begun(strokes, r, k)
  <2>1. N \in Nat /\ (k \in 1 .. N => k \in 0 .. N)
    BY <1>1
  <2>2. QED
    BY <1>4, <2>1 DEF Begun
<1>6. PICK m \in k .. N : Holds(strokes, r, c, k, m) /\ EndsWith(strokes, c, m)
  BY <1>5, LastInChunk
<1>7. k \in 0 .. N /\ m \in 0 .. N /\ E(k) <= c /\ E(m) \in Nat
  <2>1. k \in 0 .. N /\ m \in k .. N /\ (E(m) = c \/ E(m) + 1 = c)
    BY <1>6 DEF Holds
  <2>2. m \in 0 .. N /\ (k = m \/ k < m)
    BY <1>1, <2>1
  <2>3. E(k) \in Nat /\ E(m) \in Nat /\ (k = m \/ E(k) < E(m))
    BY <1>1, <2>1, <2>2, EndsIncrease
  <2>4. E(m) <= c
    BY <2>1, <2>3
  <2>5. E(k) <= c
    BY <2>3, <2>4
  <2>6. QED
    BY <2>1, <2>2, <2>3, <2>5
<1>8. PICK new : FirstIs(strokes, r, k, buf, flag, done, new)
  <2>1. ASSUME k \in 1 .. N, strokes[k].bytes = <<"esc">>, r = E(k), r \notin paused
        PROVE  all[r + 1] # "["
    BY <2>1
  <2>2. QED
    BY <1>4, <1>7, <2>1, FirstRecognised
<1> DEFINE at == E(k) - r + 1
           rest == SubSeq(meant, k + 1, m)
<1>9. Keys(buf)[at].events = rest /\ Keys(buf)[at].pending = (E(m) # c)
  <2>1. KeysAre(strokes, r, c, k, m, buf)
    BY <1>6, ChunkRecognised
  <2>2. QED
    BY <2>1 DEF KeysAre
<1>10. parsed.events = new \o rest /\ parsed.pending = (E(m) # c)
       /\ new \in Seq(KeyEvent) /\ done \o new = SubSeq(meant, 1, k)
  <2>1. parsed = KeysFrom(buf, Token(new, at)) /\ new \in Seq(KeyEvent)
        /\ done \o new = SubSeq(meant, 1, k)
    BY <1>8 DEF FirstIs
  <2> HIDE DEF buf, at, rest
  <2>2. parsed.events = new \o Keys(buf)[at].events /\ parsed.pending = Keys(buf)[at].pending
    BY <2>1 DEF KeysFrom, Token
  <2>3. QED
    BY <1>9, <2>1, <2>2
<1> HIDE DEF at
<1>11. done \in Seq(KeyEvent) /\ rest \in Seq(KeyEvent)
  <2>1. \A j \in 0 .. N : SubSeq(meant, 1, j) \in Seq(KeyEvent)
    <3>1. ASSUME NEW j \in 0 .. N PROVE SubSeq(meant, 1, j) \in Seq(KeyEvent)
      <4>1. 1 \in 1 .. Len(meant) + 1 /\ j \in 1 - 1 .. Len(meant)
        BY <1>1, <1>2
      <4> HIDE DEF meant
      <4>2. QED
        BY <1>2, <4>1, PieceOf
    <3>2. QED
      BY <3>1
  <2>2. k \in 1 .. N => k - 1 \in 0 .. N
    BY <1>1
  <2>3. done \in Seq(KeyEvent)
    BY <1>4, <2>1, <2>2
  <2>4. rest \in Seq(KeyEvent)
    <3>1. k + 1 \in 1 .. Len(meant) + 1 /\ m \in (k + 1) - 1 .. Len(meant)
      BY <1>1, <1>2, <1>6, <1>7
    <3> DEFINE lo == k + 1
    <3> HIDE DEF meant, lo
    <3>2. SubSeq(meant, lo, m) \in Seq(KeyEvent)
      BY <1>2, <3>1, PieceOf DEF lo
    <3>3. QED
      BY <3>2 DEF lo
  <2>5. QED
    BY <2>3, <2>4
<1>12. done \o parsed.events = SubSeq(meant, 1, m)
  <2>1. SubSeq(meant, 1, m) = SubSeq(meant, 1, k) \o rest
    <3>1. 1 \in 1 .. Len(meant) + 1 /\ k \in 1 - 1 .. Len(meant) /\ m \in k .. Len(meant)
      BY <1>1, <1>2, <1>6, <1>7
    <3> HIDE DEF meant
    <3>2. QED
      BY <1>2, <3>1, Cut
  <2> HIDE DEF rest
  <2>2. Regroup(done, new, rest)
    BY <1>10, <1>11, ThreeParts
  <2>3. QED
    BY <1>10, <2>1, <2>2 DEF Regroup
<1>13. CASE E(m) = c
  <2>1. ~parsed.pending
    BY <1>10, <1>13
  <2>2. QED
    BY <1>7, <1>12, <1>13, <2>1 DEF Position
<1>14. CASE E(m) # c
  <2>1. parsed.pending = TRUE
    BY <1>10, <1>14
  <2>2. /\ m + 1 \in 1 .. N /\ E(m) + 1 = c
        /\ (strokes[m + 1].bytes = <<"esc">> /\ E(m + 1) = c) \/ CsiBytes(strokes[m + 1].bytes)
    BY <1>6, <1>14 DEF EndsWith
  <2>3. (m + 1) - 1 = m /\ c \notin paused
    BY <1>1, <1>7
  <2> DEFINE j == m + 1
  <2>4. /\ j \in 1 .. N /\ j - 1 = m
        /\ (strokes[j].bytes = <<"esc">> /\ E(j) = c) \/ CsiBytes(strokes[j].bytes)
    BY <2>2, <2>3
  <2> HIDE DEF j
  <2>5. done \o parsed.events = SubSeq(meant, 1, j - 1) /\ E(j - 1) + 1 = c
    BY <1>12, <2>2, <2>4
  <2>6. QED
    BY <2>1, <2>3, <2>4, <2>5 DEF Position
<1>15. QED
  BY <1>13, <1>14

\* Ten milliseconds make an Escape of the ESC that is pending.
LEMMA PauseStep ==
  ASSUME NEW strokes \in Seq(Keyboard), NEW r \in Nat, NEW done, NEW paused,
         Position(strokes, r, TRUE, done, paused),
         \E k \in 1 .. Len(strokes) : strokes[k].bytes = <<"esc">> /\ r = EndOf(strokes, k),
         NEW parsed, parsed = ParseBytes(<<>>, TRUE)
  PROVE  Position(strokes, r, parsed.pending, done \o parsed.events, paused \cup {r})
<1> DEFINE N == Len(strokes)
           E(j) == EndOf(strokes, j)
           meant == Expected(strokes)
           Escape(j) == strokes[j].bytes = <<"esc">>
<1>1. N \in Nat /\ \A j \in 0 .. N : E(j) \in Nat
  BY StrokesPlaced
<1>2. \A i, j \in 0 .. N : i < j => E(i) < E(j)
  BY EndsIncrease
<1>3. PICK k \in 1 .. N : /\ done = SubSeq(meant, 1, k - 1)
                          /\ \/ Escape(k) /\ r = E(k)
                             \/ CsiBytes(strokes[k].bytes) /\ r = E(k - 1) + 1
  BY DEF Position
<1>4. PICK j \in 1 .. N : Escape(j) /\ r = E(j)
  OBVIOUS
<1>5. Escape(k) /\ r = E(k)
  <2>1. SUFFICES ASSUME CsiBytes(strokes[k].bytes), r = E(k - 1) + 1 PROVE FALSE
    BY <1>3
  <2> DEFINE n == Len(strokes[k].bytes)
  <2>2. /\ k - 1 \in 0 .. N /\ k \in 0 .. N /\ j \in 0 .. N
        /\ (j < k - 1 \/ j = k - 1 \/ j = k \/ k < j)
    BY <1>1
  <2>3. E(k) = E(k - 1) + n /\ n \in Nat /\ n >= 3
    BY <2>1, StrokesPlaced, StrokeType DEF Placed, CsiBytes
  <2> HIDE DEF n
  <2>4. E(k) \in Nat /\ E(k - 1) \in Nat /\ E(j) \in Nat
    BY <1>1, <2>2
  <2>5. j < k - 1 => E(j) < E(k - 1)
    BY <1>2, <2>2
  <2>6. k < j => E(k) < E(j)
    BY <1>2, <2>2
  <2> HIDE DEF E, N
  <2>7. E(j) = E(k - 1) + 1
    BY <1>4, <2>1
  <2>8. CASE j < k - 1
    BY <2>4, <2>5, <2>7, <2>8
  <2>9. CASE j = k - 1
    BY <2>4, <2>7, <2>9
  <2>10. CASE j = k
    BY <2>3, <2>4, <2>7, <2>10
  <2>11. CASE k < j
    BY <2>3, <2>4, <2>6, <2>7, <2>11
  <2>12. QED
    BY <2>2, <2>8, <2>9, <2>10, <2>11
<1>6. parsed = KeysFrom(<<>>, Token(<<Key("Escape")>>, 1))
  <2>1. ~IsPrefix(<<"[">>, <<>>)
    <3>1. Len(<<"[">>) = 1 /\ Len(<<>>) = 0
      OBVIOUS
    <3>2. QED
      BY <3>1 DEF IsPrefix
  <2>2. QED
    BY <2>1 DEF ParseBytes
<1>7. parsed.events = <<Key("Escape")>> /\ parsed.pending = FALSE
  <2> DEFINE buf == <<>>
             end == Len(buf) + 1
             one == <<Key("Escape")>>
  <2>1. buf \in Seq(Byte) /\ end = 1
    OBVIOUS
  <2>2. one \in Seq(KeyEvent)
    BY RawOf, OneOf
  <2> HIDE DEF buf, one
  <2>3. Keys(buf)[end].events = <<>> /\ Keys(buf)[end].pending = FALSE
    BY <2>1, KeysAtEnd
  <2>4. one \o <<>> = one
    BY <2>2
  <2>5. parsed.events = one \o <<>> /\ parsed.pending = FALSE
    <3>1. parsed = KeysFrom(buf, Token(one, 1))
      BY <1>6 DEF buf, one
    <3>2. Keys(buf)[1].events = <<>> /\ Keys(buf)[1].pending = FALSE
      BY <2>1, <2>3
    <3> HIDE DEF end
    <3> DEFINE tok == Token(one, 1)
    <3>3. tok.events = one /\ tok.next = 1
      BY DEF Token
    <3>3a. parsed = KeysFrom(buf, tok)
      BY <3>1
    <3> HIDE DEF tok, N, E, meant, Escape
    <3>4. parsed.events = tok.events \o Keys(buf)[tok.next].events
          /\ parsed.pending = Keys(buf)[tok.next].pending
      BY ONLY <3>3a DEF KeysFrom
    <3>5. QED
      BY <3>2, <3>3, <3>4
  <2>6. QED
    BY <2>4, <2>5 DEF one
<1>8. done \o <<Key("Escape")>> = SubSeq(meant, 1, k)
  <2>1. meant \in Seq(KeyEvent) /\ Len(meant) = N /\ meant[k] = strokes[k].event
    BY ExpectedType
  <2>2. strokes[k].event = Key("Escape")
    <3> DEFINE bytes == strokes[k].bytes
               event == strokes[k].event
    <3>1. bytes = <<"esc">> /\ bytes \notin Characters
      BY <1>5, KeyboardAssumption
    <3>2. Conventional(bytes, event)
      BY StrokeType
    <3>3. QED
      BY <3>1, <3>2, KeyAssumption DEF Conventional, Control
  <2>3. k \in 1 .. Len(meant) /\ 1 \in 1 .. Len(meant) + 1 /\ k - 1 \in 1 - 1 .. Len(meant)
        /\ k \in k - 1 .. Len(meant) /\ (k - 1) + 1 = k
    BY <1>1, <2>1
  <2> HIDE DEF meant
  <2>4. SubSeq(meant, 1, k) = SubSeq(meant, 1, k - 1) \o SubSeq(meant, (k - 1) + 1, k)
    BY <2>1, <2>3, Cut
  <2>5. SubSeq(meant, k, k) = <<meant[k]>>
    BY <2>1, <2>3, OneAt
  <2>6. QED
    BY <1>3, <2>1, <2>2, <2>3, <2>4, <2>5
<1>9. k \in 0 .. N
  BY <1>1
<1>10. QED
  BY <1>5, <1>7, <1>8, <1>9 DEF Position

-----------------------------------------------------------------------------
(* A run: what is handled is the events of the keystrokes.                 *)

\* CleanlyCut, of any keystrokes and any history.
Clean(strokes, r, ended, paused) ==
  /\ \A c \in ended : MayCut(strokes, c)
  /\ \A k \in 1 .. Len(strokes) : strokes[k].bytes = <<"esc">> /\ EndOf(strokes, k) <= r =>
       /\ EndOf(strokes, k) \in ended
       /\ EndOf(strokes, k) < r /\ BytesOf(strokes)[EndOf(strokes, k) + 1] = "[" =>
            EndOf(strokes, k) \in paused
  /\ \A p \in paused : \E k \in 1 .. Len(strokes) :
       strokes[k].bytes = <<"esc">> /\ p = EndOf(strokes, k)

\* A keystroke that begins with ESC [ is a CSI sequence.
LEMMA PrefixIsCsi ==
  ASSUME NEW stroke \in Keyboard, IsPrefix(<<"esc", "[">>, stroke.bytes)
  PROVE  CsiBytes(stroke.bytes)
<1> DEFINE bytes == stroke.bytes
           event == stroke.event
           n == Len(bytes)
           two == <<"esc", "[">>
<1>1. bytes \in Seq(Byte) /\ Conventional(bytes, event) /\ n \in Nat /\ n >= 1
  BY StrokeType
<1>2. two \in Seq(Byte) /\ Len(two) = 2 /\ two[1] = "esc" /\ two[2] = "["
  <2>1. "esc" \in Byte /\ "[" \in Byte
    BY ByteTypes
  <2>2. QED
    BY <2>1
<1>3. n >= 2 /\ SubSeq(bytes, 1, 2) = two
  <2> HIDE DEF bytes
  <2>1. Len(two) <= n /\ SubSeq(two, 1, Len(two)) = SubSeq(bytes, 1, Len(two))
    BY DEF IsPrefix, bytes
  <2> HIDE DEF n, two
  <2>2. SubSeq(two, 1, Len(two)) = two
    BY <1>2
  <2>3. QED
    BY <1>2, <2>1, <2>2
<1> HIDE DEF two
<1>4. bytes[1] = "esc" /\ bytes[2] = "["
  <2> HIDE DEF bytes
  <2>1. SubSeq(bytes, 1, 2)[1] = bytes[1] /\ SubSeq(bytes, 1, 2)[2] = bytes[2]
    BY <1>1, <1>3 DEF n
  <2>2. QED
    BY <1>2, <1>3, <2>1
<1>5. bytes \notin Characters
  BY <1>4, KeyboardAssumption
<1>6. n >= 3
  <2>1. n = 1 \/ (n = 2 /\ bytes[2] # "[") \/ n >= 3
    <3> HIDE DEF bytes, event
    <3>1. QED
      BY <1>1, <1>5, Zenon DEF Conventional, n
  <2> HIDE DEF n, bytes
  <2>2. QED
    BY <1>1, <1>3, <1>4, <2>1
<1>7. QED
  BY <1>4, <1>6 DEF CsiBytes

\* If the next history is clean, this one was, and the chunk is as ChunkStep wants.
LEMMA CleanChunk ==
  ASSUME NEW strokes \in Seq(Keyboard), NEW r \in Nat, NEW c \in Nat, r < c,
         NEW ended \in SUBSET (0 .. r), NEW paused \in SUBSET (0 .. r),
         Clean(strokes, c, ended \cup {c}, paused)
  PROVE  /\ Clean(strokes, r, ended, paused) /\ MayCut(strokes, c)
         /\ \A j \in 1 .. Len(strokes) : strokes[j].bytes = <<"esc">> =>
              /\ r < EndOf(strokes, j) => c <= EndOf(strokes, j)
              /\ EndOf(strokes, j) = r /\ BytesOf(strokes)[r + 1] = "[" => r \in paused
<1> DEFINE N == Len(strokes)
           all == BytesOf(strokes)
           E(j) == EndOf(strokes, j)
           Escape(j) == strokes[j].bytes = <<"esc">>
<1>1. \A j \in 1 .. N : E(j) \in Nat
  <2>1. \A j \in 1 .. N : j \in 0 .. N
    OBVIOUS
  <2>2. QED
    BY <2>1, StrokesPlaced
<1>2. \A d \in ended : MayCut(strokes, d)
  BY DEF Clean
<1>3. MayCut(strokes, c)
  BY DEF Clean
<1>4. \A p \in paused : \E j \in 1 .. N : Escape(j) /\ p = E(j)
  BY DEF Clean
<1>5. ASSUME NEW j \in 1 .. N, Escape(j), E(j) <= c
      PROVE  /\ E(j) \in ended \cup {c}
             /\ E(j) < c /\ all[E(j) + 1] = "[" => E(j) \in paused
  BY <1>5 DEF Clean
<1> HIDE DEF N, all, E, Escape
<1>6. ASSUME NEW j \in 1 .. N, Escape(j), E(j) <= r
      PROVE  /\ E(j) \in ended
             /\ all[E(j) + 1] = "[" => E(j) \in paused
  <2>1. E(j) <= c /\ E(j) < c /\ E(j) # c
    BY <1>1, <1>6
  <2>2. QED
    BY <1>5, <1>6, <2>1
<1>7. ASSUME NEW j \in 1 .. N, Escape(j), r < E(j) PROVE c <= E(j)
  <2>1. SUFFICES ASSUME E(j) < c PROVE FALSE
    BY <1>1
  <2>2. E(j) <= c /\ E(j) # c
    BY <1>1, <2>1
  <2>3. E(j) \in 0 .. r
    BY <1>5, <1>7, <2>2
  <2>4. QED
    BY <1>1, <1>7, <2>3
<1>8. ASSUME NEW j \in 1 .. N, Escape(j), E(j) = r, all[r + 1] = "[" PROVE r \in paused
  <2>1. E(j) <= r
    BY <1>8
  <2>2. QED
    BY <1>6, <1>8, <2>1
<1>9. Clean(strokes, r, ended, paused)
  BY <1>2, <1>4, <1>6 DEF Clean, N, all, E, Escape
<1>10. QED
  BY <1>3, <1>7, <1>8, <1>9 DEF N, all, E, Escape

\* So it is when time passes.
LEMMA CleanPause ==
  ASSUME NEW strokes \in Seq(Keyboard), NEW r \in Nat, NEW ended, NEW paused,
         Clean(strokes, r, ended, paused \cup {r})
  PROVE  /\ Clean(strokes, r, ended, paused)
         /\ \E k \in 1 .. Len(strokes) : strokes[k].bytes = <<"esc">> /\ r = EndOf(strokes, k)
<1>1. \A j \in 1 .. Len(strokes) : EndOf(strokes, j) \in Nat
  <2>1. \A j \in 1 .. Len(strokes) : j \in 0 .. Len(strokes)
    OBVIOUS
  <2>2. QED
    BY <2>1, StrokesPlaced
<1>2. \A j \in 1 .. Len(strokes) : EndOf(strokes, j) < r => EndOf(strokes, j) # r
  BY <1>1
<1>3. QED
  BY <1>2 DEF Clean

\* The keystrokes have been recognised as far as they are read, if they are cleanly cut.
RecognisedInv ==
  /\ cuts \subseteq 0 .. read /\ pauses \subseteq 0 .. read
  /\ Clean(typed, read, cuts, pauses) => Position(typed, read, pending, handled, pauses)

\* What CleanlyCut says.
LEMMA CleanlyCutIsClean ==
  ASSUME typed \in Seq(Keyboard), CleanlyCut
  PROVE  Clean(typed, read, cuts, pauses)
<1>1. \A c \in cuts : MayCut(typed, c)
  <2>1. SUFFICES ASSUME NEW c \in cuts PROVE MayCut(typed, c)
    OBVIOUS
  <2>2. PICK k \in 1 .. Len(typed) :
          \/ c = End(k)
          \/ c = End(k - 1) + 1 /\ IsPrefix(<<"esc", "[">>, typed[k].bytes)
    BY <2>1 DEF CleanlyCut
  <2>3. typed[k] \in Keyboard
    BY <2>2
  <2>4. IsPrefix(<<"esc", "[">>, typed[k].bytes) => CsiBytes(typed[k].bytes)
    BY <2>3, PrefixIsCsi
  <2>5. QED
    BY <2>2, <2>4 DEF MayCut, End, EndOf
<1>2. QED
  BY <1>1 DEF Clean, CleanlyCut, IsEscape, End, EndOf

\* It holds at the start.
LEMMA RecognisedInit == KeyInit /\ KeyInv => RecognisedInv
<1>1. SUFFICES ASSUME KeyInit, KeyInv PROVE Position(typed, read, pending, handled, pauses)
  BY DEF KeyInit, RecognisedInv
<1>2. typed \in Seq(Keyboard) /\ read = 0 /\ pending = FALSE /\ handled = <<>>
  BY <1>1, KeyAssumption DEF KeyInit
<1>3. EndOf(typed, 0) = 0 /\ 0 \in 0 .. Len(typed)
  BY <1>2, StrokesPlaced
<1>4. SubSeq(Expected(typed), 1, 0) = <<>>
  <2> DEFINE meant == Expected(typed)
  <2>1. meant \in Seq(KeyEvent)
    BY <1>2, ExpectedType
  <2> HIDE DEF meant
  <2>2. SubSeq(meant, 1, 0) = <<>>
    BY <2>1
  <2>3. QED
    BY <2>2 DEF meant
<1>5. QED
  BY <1>2, <1>3, <1>4 DEF Position

\* It holds after each chunk and each pause.
LEMMA RecognisedNext == KeyInv /\ RecognisedInv /\ KeyInv' /\ [KeyNext]_keyVars => RecognisedInv'
<1>1. SUFFICES ASSUME KeyInv, RecognisedInv, KeyInv', [KeyNext]_keyVars PROVE RecognisedInv'
  OBVIOUS
<1>2. /\ typed \in Seq(Keyboard) /\ read \in Nat /\ pending \in BOOLEAN
      /\ cuts \in SUBSET (0 .. read) /\ pauses \in SUBSET (0 .. read)
      /\ Clean(typed, read, cuts, pauses) => Position(typed, read, pending, handled, pauses)
      /\ read <= Len(BytesOf(typed))
  <2>1. typed \in Seq(Keyboard)
    BY <1>1, KeyAssumption DEF KeyInv
  <2>2. BytesOf(typed) \in Seq(Byte)
    BY <2>1, StrokesPlaced
  <2> DEFINE l == Len(BytesOf(typed))
  <2>3. l \in Nat /\ read \in 0 .. l
    BY <1>1, <2>2 DEF KeyInv
  <2> HIDE DEF l
  <2>4. read \in Nat /\ read <= l
    BY <2>3
  <2>5. QED
    BY <1>1, <2>1, <2>4 DEF l, KeyInv, RecognisedInv, Handled
<1>3. CASE StdinChunk
  <2> DEFINE all == BytesOf(typed)
  <2>1. PICK n \in 1 .. ChunkLimit :
          /\ read + n <= Len(all) /\ Handle(SubSeq(all, read + 1, read + n))
          /\ read' = read + n /\ cuts' = cuts \cup {read + n} /\ UNCHANGED <<typed, pauses>>
    BY <1>3 DEF StdinChunk
  <2> DEFINE c == read + n
             parsed == ParseBytes(SubSeq(all, read + 1, c), pending)
  <2>2. handled' = handled \o parsed.events /\ pending' = parsed.pending
    BY <2>1 DEF Handle
  <2>3. n \in Nat /\ n >= 1
    BY <2>1, KeyAssumption
  <2>4. c \in Nat /\ read < c /\ c <= Len(all) /\ read' = c /\ cuts' = cuts \cup {c}
        /\ pauses' = pauses /\ typed' = typed
    BY <1>2, <2>1, <2>3
  <2> HIDE DEF c
  <2>5. cuts' \subseteq 0 .. read' /\ pauses' \subseteq 0 .. read'
    <3>1. 0 .. read \subseteq 0 .. c /\ c \in 0 .. c
      BY <1>2, <2>4
    <3>2. QED
      BY <1>2, <2>4, <3>1
  <2>6. ASSUME Clean(typed, c, cuts \cup {c}, pauses)
        PROVE  Position(typed, c, parsed.pending, handled \o parsed.events, pauses)
    <3>1. /\ Clean(typed, read, cuts, pauses) /\ MayCut(typed, c)
          /\ \A j \in 1 .. Len(typed) : typed[j].bytes = <<"esc">> =>
               /\ read < EndOf(typed, j) => c <= EndOf(typed, j)
               /\ EndOf(typed, j) = read /\ all[read + 1] = "[" => read \in pauses
      BY <1>2, <2>4, <2>6, CleanChunk
    <3>2. Position(typed, read, pending, handled, pauses)
      BY <1>2, <3>1
    <3>3. QED
      BY <1>2, <2>4, <3>1, <3>2, ChunkStep
  <2> HIDE DEF all, parsed
  <2>7. QED
    BY <2>2, <2>4, <2>5, <2>6 DEF RecognisedInv
<1>4. CASE StdinTimeout
  <2> DEFINE parsed == ParseBytes(<<>>, TRUE)
  <2>1. pending = TRUE
    BY <1>2, <1>4 DEF StdinTimeout
  <2>2. /\ handled' = handled \o parsed.events /\ pending' = parsed.pending
        /\ pauses' = pauses \cup {read} /\ UNCHANGED <<typed, read, cuts>>
    BY <1>4, <2>1 DEF StdinTimeout, Handle
  <2>3. read \in 0 .. read
    BY <1>2
  <2>4. ASSUME Clean(typed, read, cuts, pauses \cup {read})
        PROVE  Position(typed, read, parsed.pending, handled \o parsed.events, pauses \cup {read})
    <3>1. /\ Clean(typed, read, cuts, pauses)
          /\ \E k \in 1 .. Len(typed) : typed[k].bytes = <<"esc">> /\ read = EndOf(typed, k)
      BY <1>2, <2>4, CleanPause
    <3>2. Position(typed, read, TRUE, handled, pauses)
      BY <1>2, <2>1, <3>1
    <3>3. QED
      BY <1>2, <3>1, <3>2, PauseStep
  <2> HIDE DEF parsed
  <2>5. QED
    BY <1>2, <2>2, <2>3, <2>4 DEF RecognisedInv
<1>5. CASE UNCHANGED keyVars
  BY <1>1, <1>5 DEF RecognisedInv, keyVars
<1>6. QED
  BY <1>1, <1>3, <1>4, <1>5 DEF KeyNext

\* Keystrokes that are cleanly cut are the events the keyboard stands for, for every
\* keyboard of the terminals' conventions, every buffer size and every run: an arrow
\* whose ESC came alone is an arrow, and an Escape is an Escape.
THEOREM KeystrokesAlwaysRecognised == KeySpec => []KeystrokesRecognised
<1>1. KeyInv /\ RecognisedInv => KeystrokesRecognised
  <2>1. SUFFICES ASSUME KeyInv, RecognisedInv, CleanlyCut, ~pending,
                        NEW k \in 0 .. Len(typed), End(k) = read
                 PROVE  handled = [j \in 1 .. k |-> typed[j].event]
    BY DEF KeystrokesRecognised
  <2>2. typed \in Seq(Keyboard)
    BY <2>1, KeyAssumption DEF KeyInv
  <2>3. Position(typed, read, pending, handled, pauses)
    BY <2>1, <2>2, CleanlyCutIsClean DEF RecognisedInv
  <2>4. PICK m \in 0 .. Len(typed) :
          read = EndOf(typed, m) /\ handled = SubSeq(Expected(typed), 1, m)
    BY <2>1, <2>3 DEF Position
  <2>5. m = k
    <3>1. \A i \in 0 .. Len(typed) : EndOf(typed, i) \in Nat
      BY <2>2, StrokesPlaced
    <3>2. \A i, j \in 0 .. Len(typed) : i < j => EndOf(typed, i) < EndOf(typed, j)
      BY <2>2, EndsIncrease
    <3>3. EndOf(typed, k) = EndOf(typed, m)
      BY <2>1, <2>4 DEF End, EndOf
    <3> DEFINE ek == EndOf(typed, k)
               em == EndOf(typed, m)
    <3>4. /\ ek = em /\ ek \in Nat /\ (k < m => ek < em) /\ (m < k => em < ek)
          /\ k \in Nat /\ m \in Nat
      BY <3>1, <3>2, <3>3
    <3> HIDE DEF ek, em
    <3>5. QED
      BY <3>4
  <2>6. SubSeq(Expected(typed), 1, k) = [j \in 1 .. k |-> typed[j].event]
    <3> DEFINE meant == Expected(typed)
    <3>1. meant \in Seq(KeyEvent) /\ Len(meant) = Len(typed)
          /\ \A j \in 1 .. Len(typed) : meant[j] = typed[j].event
      BY <2>2, ExpectedType
    <3> HIDE DEF meant
    <3>2. SubSeq(meant, 1, k) = [j \in 1 .. k |-> meant[j]]
      BY <3>1
    <3>3. \A j \in 1 .. k : j \in 1 .. Len(typed)
      BY <2>2
    <3>4. QED
      BY <3>1, <3>2, <3>3 DEF meant
  <2>7. QED
    BY <2>4, <2>5, <2>6
<1>2. KeyInit => KeyInv /\ RecognisedInv
  BY KeyInitInv, RecognisedInit
<1>3. (KeyInv /\ RecognisedInv) /\ [KeyNext]_keyVars => (KeyInv /\ RecognisedInv)'
  <2>1. KeyInv /\ [KeyNext]_keyVars => KeyInv'
    BY KeyNextInv
  <2>2. KeyInv /\ RecognisedInv /\ KeyInv' /\ [KeyNext]_keyVars => RecognisedInv'
    BY RecognisedNext
  <2>3. QED
    BY <2>1, <2>2
<1>4. QED
  BY <1>1, <1>2, <1>3, PTL DEF KeySpec
=============================================================================
