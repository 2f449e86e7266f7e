-------------------------------- MODULE Text --------------------------------
(***************************************************************************)
(* Rust strings as the session slices them: a string is the sequence of    *)
(* its bytes and an offset into it counts bytes.  A character is a lead    *)
(* byte and the continuation bytes that follow it; slicing at an offset    *)
(* that is not a character boundary panics.                                *)
(***************************************************************************)
EXTENDS Naturals, Sequences, FiniteSets

CONSTANTS
  Bytes,          \* the bytes that can occur in a command line
  Continuation    \* those of them that continue a multi-byte character

ASSUME TextAssumption == Continuation \subseteq Bytes

String == Seq(Bytes)

Least(m, n) == IF m < n THEN m ELSE n

\* The greatest number of a set, 0 for the empty set.
Greatest(S) ==
  LET top == {n \in S : \A m \in S : m <= n}
  IN  IF top = {} THEN 0 ELSE CHOOSE n \in top : TRUE

UpTo(s, offset) == SubSeq(s, 1, offset)
After(s, offset) == SubSeq(s, offset + 1, Len(s))

\* str::is_char_boundary: whether s may be sliced at this byte offset.
IsBoundary(s, offset) ==
  \/ offset \in {0, Len(s)}
  \/ offset \in 1 .. Len(s) - 1 /\ s[offset + 1] \notin Continuation

Leads(s) == {i \in 1 .. Len(s) : s[i] \notin Continuation}

\* s.chars().count()
CharCount(s) == Cardinality(Leads(s))

\* The byte offset of the character with this index, or the end of s.
CharToByte(s, index) ==
  LET found == {i \in Leads(s) : Cardinality({j \in Leads(s) : j < i}) = index}
  IN  IF found = {} THEN Len(s) ELSE (CHOOSE i \in found : TRUE) - 1

\* s with the character ch inserted before the character with this index.
InsertChar(s, index, ch) ==
  UpTo(s, CharToByte(s, index)) \o ch \o After(s, CharToByte(s, index))

\* s without the character with this index (unchanged when there is none).
DeleteChar(s, index) ==
  UpTo(s, CharToByte(s, index)) \o After(s, CharToByte(s, index + 1))
=============================================================================
