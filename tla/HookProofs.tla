----------------------------- MODULE HookProofs ------------------------------
(***************************************************************************)
(* The hooks, for any command, characters, lines and sizes: what the       *)
(* widgets know of a popup is consistent, and covers what is drawn; and an *)
(* item that is accepted replaces the token it was offered for.            *)
(*                                                                         *)
(* Nothing is assumed of the spec for the first two: all that is used of   *)
(* the daemon's answer is that it is a sequence.  The last takes it to be  *)
(* one of texts, and characters to be one byte long.                       *)
(***************************************************************************)
EXTENDS Hook, Recursion, FiniteSetTheorems, TLAPS

PopupRecord(v, l, s, c, i, r) ==
  [visible |-> v, lines |-> l, selected |-> s, count |-> c, inserts |-> i, rendered |-> r]

\* A popup with these fields, as the widgets leave it.
Consistent(p) ==
  /\ p = PopupRecord(p.visible, p.lines, p.selected, p.count, p.inserts, p.rendered)
  /\ p.visible \in BOOLEAN
  /\ p.lines \in Nat /\ p.selected \in Nat /\ p.count \in Nat
  /\ p.visible => /\ p.count > 0 /\ p.selected \in 0 .. p.count - 1
                  /\ p.lines = Least(p.count, MaxVisible)
                  /\ shell # "fish" => Len(p.inserts) = p.count
  /\ ~p.visible => p.lines = 0

HookInv == Consistent(popup) /\ RowsAreErasable

USE HookAssumption

-----------------------------------------------------------------------------
\* The answer is a sequence, of MaxItems at most.
LEMMA AnswerIsSequence ==
  ASSUME NEW text, NEW position
  PROVE  \E n \in Nat : \E f : Complete(text, position) = [i \in 1 .. n |-> f[i]]
<1> DEFINE scanned == Tokenize(text, position)
           ctx == Parse(scanned.tokens)
           items == IF scanned.tokens = <<>> \/ scanned.tokens[1] # Root.names[1] THEN <<>>
                    ELSE Matched(scanned.partial, ctx.filter, Resolve(ctx))
           some == DOMAIN items \cap 1 .. MaxItems
           n == Cardinality(some)
           answer == [i \in 1 .. n |-> items[i].insert]
<1>1. Complete(text, position) = answer
  BY DEF Complete
<1> HIDE DEF items
<1>2. MaxItems \in Int /\ 1 \in Int
  BY EngineAssumption
<1>3. IsFiniteSet(1 .. MaxItems)
  BY <1>2, FS_Interval
<1>4. IsFiniteSet(some)
  BY <1>3, FS_Subset
<1>5. n \in Nat
  BY <1>4, FS_CardinalityType
<1> HIDE DEF n
<1>6. answer = [i \in 1 .. n |-> answer[i]]
  OBVIOUS
<1>7. QED
  BY <1>1, <1>5, <1>6

LEMMA AnswerLength ==
  ASSUME NEW text, NEW position
  PROVE  Len(Complete(text, position)) \in Nat
<1>1. PICK n \in Nat : \E f : Complete(text, position) = [i \in 1 .. n |-> f[i]]
  BY AnswerIsSequence
<1>2. PICK f : Complete(text, position) = [i \in 1 .. n |-> f[i]]
  BY <1>1
<1>3. Len([i \in 1 .. n |-> f[i]]) = n
  OBVIOUS
<1>4. QED
  BY <1>2, <1>3

\* What another selection makes of a popup.
LEMMA SelectedSet ==
  ASSUME NEW v, NEW l, NEW s, NEW c, NEW i, NEW r, NEW x
  PROVE  [PopupRecord(v, l, s, c, i, r) EXCEPT !.selected = x] = PopupRecord(v, l, x, c, i, r)
BY DEF PopupRecord

LEMMA NoPopupIsConsistent == Consistent(NoPopup)
BY DEF Consistent, PopupRecord, NoPopup

LEMMA LeastIsNat ==
  ASSUME NEW m \in Nat, NEW n \in Nat
  PROVE  Least(m, n) \in Nat
BY DEF Least

\* Showing a popup whose selection is within its items, if it has any.
LEMMA ShownIsConsistent ==
  ASSUME NEW p, p.selected \in Nat, p.count \in Nat,
         p.count # 0 => p.selected < p.count,
         p.count # 0 /\ shell # "fish" => Len(p.inserts) = p.count
  PROVE  Consistent(Shown(p))
<1>1. CASE p.count = 0
  BY <1>1, NoPopupIsConsistent DEF Shown
<1>2. CASE p.count # 0
  <2> DEFINE k == Least(p.count, MaxVisible)
             q == PopupRecord(TRUE, k, p.selected, p.count, p.inserts, p.rendered)
  <2>1. Shown(p) = q
    BY <1>2 DEF Shown, PopupRecord
  <2>2. k \in Nat
    BY LeastIsNat
  <2> HIDE DEF k
  <2>3. q = PopupRecord(q.visible, q.lines, q.selected, q.count, q.inserts, q.rendered)
    BY DEF PopupRecord
  <2>4. q.visible /\ q.visible \in BOOLEAN
    BY DEF PopupRecord
  <2>5. q.lines = k /\ q.selected = p.selected /\ q.count = p.count /\ q.inserts = p.inserts
    BY DEF PopupRecord
  <2> HIDE DEF q
  <2>6. q.count > 0 /\ q.selected \in 0 .. q.count - 1
    BY <1>2, <2>5
  <2>7. QED
    BY <1>2, <2>1, <2>2, <2>3, <2>4, <2>5, <2>6 DEF Consistent, k
<1>3. QED
  BY <1>1, <1>2

\* What is drawn is what a later erase clears; what was drawn before is cleared.
LEMMA RedrawnIsErasable ==
  ASSUME NEW p, Consistent(p), RowsAreErasable, Redrawn(p)
  PROVE  RowsAreErasable'
<1>1. screen' = (screen \ ErasedRows(popup)) \cup DrawnRows(p) /\ popup' = p
  BY DEF Redrawn
<1>2. DrawnRows(p) \ {0} \subseteq ErasedRows(p)
  BY DEF Consistent, DrawnRows, ErasedRows
<1>3. QED
  BY <1>1, <1>2 DEF RowsAreErasable

LEMMA RedrawnKeeps ==
  ASSUME NEW p, Consistent(p), RowsAreErasable, Redrawn(p), shell' = shell
  PROVE  HookInv'
<1>1. RowsAreErasable'
  BY RedrawnIsErasable
<1>2. Consistent(popup)'
  BY DEF Redrawn, Consistent
<1>3. QED
  BY <1>1, <1>2 DEF HookInv

LEMMA FetchKeeps ==
  ASSUME NEW text, NEW position, HookInv, FetchAndRender(text, position), shell' = shell
  PROVE  HookInv'
<1> DEFINE response == Complete(text, position)
<1>1. CASE Redrawn(NoPopup)
  BY <1>1, NoPopupIsConsistent, RedrawnKeeps DEF HookInv
<1>2. CASE Redrawn(Shown(Parsed(response)))
  <2> DEFINE p == Parsed(response)
  <2>1. Len(response) \in Nat
    BY AnswerLength
  <2>2. /\ p.selected = 0 /\ p.count = Len(response)
        /\ shell # "fish" => p.inserts = response
    BY DEF Parsed
  <2> HIDE DEF response, p
  <2>3. Consistent(Shown(p))
    BY <2>1, <2>2, ShownIsConsistent
  <2>4. QED
    BY <1>2, <2>3, RedrawnKeeps DEF HookInv, p
<1>3. QED
  BY <1>1, <1>2 DEF FetchAndRender

-----------------------------------------------------------------------------
\* The turn from the last item to the first, and back.
LEMMA MovedInRange ==
  ASSUME NEW count \in Nat, count > 0, NEW selected \in 0 .. count - 1, NEW step \in {-1, 1}
  PROVE  (selected + step + count) % count \in 0 .. count - 1
OBVIOUS

LEMMA NavigateKeeps ==
  ASSUME HookInv, NEW step \in {-1, 1}, Navigate(step)
  PROVE  HookInv'
<1> DEFINE p == popup
           s == Moved(p, step)
           moved == PopupRecord(p.visible, p.lines, s, p.count, p.inserts, p.rendered)
<1>1. Consistent(p) /\ p.visible
  BY DEF HookInv, Navigate
<1>2. s \in 0 .. p.count - 1
  BY <1>1, MovedInRange DEF Consistent, Moved
<1> HIDE DEF s
<1>3. [popup EXCEPT !.selected = s] = moved
  <2>1. p = PopupRecord(p.visible, p.lines, p.selected, p.count, p.inserts, p.rendered)
    BY <1>1 DEF Consistent
  <2>2. QED
    BY <2>1, SelectedSet
<1>4. s \in Nat /\ s < p.count /\ p.count \in Nat
  BY <1>1, <1>2 DEF Consistent
<1>5. shell # "fish" => Len(p.inserts) = p.count
  BY <1>1 DEF Consistent
<1>6. Consistent(Shown(moved))
  <2>1. moved.selected = s /\ moved.count = p.count /\ moved.inserts = p.inserts
    BY DEF PopupRecord
  <2> HIDE DEF moved
  <2>2. QED
    BY <1>4, <1>5, <2>1, ShownIsConsistent
<1>7. Redrawn(Shown(moved)) /\ shell' = shell
  BY <1>3 DEF Navigate, s
<1>8. QED
  BY <1>6, <1>7, RedrawnKeeps DEF HookInv

\* After Enter the rows have moved up; whether the popup is erased below the new
\* prompt or kept, no other row shows something.
LEMMA SubmitKeeps ==
  ASSUME HookInv, Submit
  PROVE  HookInv'
<1> DEFINE Left(output) == {r \in 0 .. MaxVisible + 2 : r + output + 1 \in screen}
<1>1. PICK output \in 0 .. MaxOutput :
        IF shell = "bash"
        THEN popup' = NoPopup /\ screen' = Left(output) \ ErasedRows(popup)
        ELSE screen' = Left(output) /\ UNCHANGED popup
  BY DEF Submit
<1>2. shell' = shell
  BY DEF Submit
<1>3. Left(output) \ {0} \subseteq ErasedRows(popup)
  <2>1. SUFFICES ASSUME NEW r \in Left(output), r # 0
                 PROVE  r \in ErasedRows(popup)
    OBVIOUS
  <2>2. r \in Nat /\ output \in Nat /\ r + output + 1 \in screen
    BY <2>1
  <2>3. r + output + 1 \in ErasedRows(popup)
    BY <2>2 DEF HookInv, RowsAreErasable
  <2>4. QED
    BY <2>1, <2>2, <2>3 DEF ErasedRows, HookInv, Consistent
<1>4. CASE shell = "bash"
  <2>1. popup' = NoPopup /\ screen' = Left(output) \ ErasedRows(popup)
    BY <1>1, <1>4
  <2> HIDE DEF Left
  <2>2. RowsAreErasable'
    BY <1>3, <2>1 DEF RowsAreErasable
  <2>3. Consistent(popup)'
    BY <1>2, <2>1, NoPopupIsConsistent DEF Consistent
  <2>4. QED
    BY <2>2, <2>3 DEF HookInv
<1>5. CASE shell # "bash"
  <2>1. popup' = popup /\ screen' = Left(output)
    BY <1>1, <1>5
  <2> HIDE DEF Left
  <2>2. RowsAreErasable'
    BY <1>3, <2>1 DEF RowsAreErasable, ErasedRows
  <2>3. Consistent(popup)'
    BY <1>2, <2>1 DEF HookInv, Consistent
  <2>4. QED
    BY <2>2, <2>3 DEF HookInv
<1>6. QED
  BY <1>4, <1>5

-----------------------------------------------------------------------------
LEMMA HookStart == HookInit => HookInv
<1> SUFFICES ASSUME HookInit PROVE HookInv
  OBVIOUS
<1>1. popup = NoPopup /\ screen = {}
  BY DEF HookInit
<1>2. QED
  BY <1>1, NoPopupIsConsistent DEF HookInv, RowsAreErasable

LEMMA HookStep == HookInv /\ [HookNext]_hookVars => HookInv'
<1> SUFFICES ASSUME HookInv, [HookNext]_hookVars PROVE HookInv'
  OBVIOUS
<1>1. CASE SelfInsert
  <2>1. FetchAndRender(line', cursor') /\ shell' = shell
    BY <1>1 DEF SelfInsert
  <2>2. QED
    BY <2>1, FetchKeeps
<1>2. CASE BackwardDelete
  <2>1. shell' = shell
    BY <1>2 DEF BackwardDelete
  <2>2. PICK text, position : FetchAndRender(text, position) \/ Redrawn(NoPopup)
    BY <1>2 DEF BackwardDelete
  <2>3. QED
    BY <2>1, <2>2, FetchKeeps, NoPopupIsConsistent, RedrawnKeeps DEF HookInv
<1>3. CASE Accept
  BY <1>3, NoPopupIsConsistent, RedrawnKeeps DEF Accept, HookInv
<1>4. CASE Navigate(-1)
  BY <1>4, NavigateKeeps
<1>5. CASE Navigate(1)
  BY <1>5, NavigateKeeps
<1>6. CASE Dismiss
  BY <1>6, NoPopupIsConsistent, RedrawnKeeps DEF Dismiss, HookInv
<1>7. CASE EditElsewhere
  BY <1>7 DEF EditElsewhere, HookInv, Consistent, RowsAreErasable, ErasedRows
<1>8. CASE Submit
  BY <1>8, SubmitKeeps
<1>9. CASE UNCHANGED hookVars
  BY <1>9 DEF hookVars, HookInv, Consistent, RowsAreErasable, ErasedRows
<1>10. QED
  BY <1>1, <1>2, <1>3, <1>4, <1>5, <1>6, <1>7, <1>8, <1>9 DEF HookNext

\* Whatever the widgets are run on and in whatever order, a popup that is visible
\* has items, a selection among them and the rows it was drawn on: _tabra_up and
\* _tabra_down never divide by zero, and never leave the items.
THEOREM HooksStayConsistent == HookSpec => []HookPopupConsistent
<1>1. HookInv => HookPopupConsistent
  BY DEF HookInv, Consistent, HookPopupConsistent
<1>2. QED
  BY <1>1, HookStart, HookStep, PTL DEF HookSpec

\* No row of a popup is left on the terminal where the hooks do not erase again,
\* but on the row of a later prompt.
THEOREM HooksErase == HookSpec => []RowsAreErasable
<1>1. HookInv => RowsAreErasable
  BY DEF HookInv
<1>2. QED
  BY <1>1, HookStart, HookStep, PTL DEF HookSpec

HIDE HookAssumption

-----------------------------------------------------------------------------
(* Text of one-byte characters.                                            *)

\* The greatest number of a set is in it, and there is none after it.
LEMMA GreatestOf ==
  ASSUME NEW S \in SUBSET Nat, NEW top \in Nat, \A n \in S : n <= top
  PROVE  /\ Greatest(S) \in Nat /\ (Greatest(S) \in S \/ (S = {} /\ Greatest(S) = 0))
         /\ \A n \in S : n <= Greatest(S)
<1> DEFINE greatest == {n \in S : \A m \in S : m <= n}
<1>1. CASE S = {}
  BY <1>1 DEF Greatest
<1>2. CASE S # {}
  <2> DEFINE below == {top - n : n \in S}
  <2>1. below \subseteq Nat /\ below # {}
    <3>1. PICK n \in S : TRUE
      BY <1>2
    <3>2. \A k \in S : top - k \in Nat
      OBVIOUS
    <3>3. top - n \in below
      OBVIOUS
    <3>4. QED
      BY <3>2, <3>3
  <2>2. PICK m \in below : \A n \in below : m <= n
    BY <2>1, LeastNumber
  <2>3. top - m \in S /\ \A n \in S : n <= top - m
    BY <2>1, <2>2
  <2>4. greatest # {}
    BY <2>3
  <2>5. (CHOOSE n \in greatest : TRUE) \in greatest
    BY <2>4
  <2>6. Greatest(S) \in greatest
    BY <2>4, <2>5 DEF Greatest
  <2>7. QED
    BY <2>6
<1>3. QED
  BY <1>1, <1>2

\* A character is where its index says.
LEMMA OffsetOfIndex ==
  ASSUME Continuation = {}, NEW s \in String, NEW index \in 0 .. Len(s)
  PROVE  CharToByte(s, index) = index
<1> DEFINE N == Len(s)
           found == {i \in Leads(s) : Cardinality({j \in Leads(s) : j < i}) = index}
<1>1. N \in Nat
  BY DEF String
<1>2. Leads(s) = 1 .. N
  BY DEF Leads
<1>3. CharToByte(s, index) = IF found = {} THEN N ELSE (CHOOSE i \in found : TRUE) - 1
  BY DEF CharToByte
<1>4. index \in 0 .. N
  OBVIOUS
<1> HIDE DEF N
<1>5. \A i \in 1 .. N : Cardinality({j \in Leads(s) : j < i}) = i - 1
  <2> TAKE i \in 1 .. N
  <2>1. {j \in Leads(s) : j < i} = 1 .. i - 1
    BY <1>1, <1>2
  <2>2. 1 \in Int /\ i - 1 \in Int
    BY <1>1
  <2>3. Cardinality(1 .. i - 1) = IF 1 > i - 1 THEN 0 ELSE (i - 1) - 1 + 1
    BY <2>2, FS_Interval
  <2>4. Cardinality(1 .. i - 1) = i - 1
    BY <1>1, <2>3
  <2>5. QED
    BY <2>1, <2>4
<1>6. found = {i \in 1 .. N : i - 1 = index}
  BY <1>2, <1>5
<1> HIDE DEF found
<1>7. CASE index < N
  <2>1. found = {index + 1}
    BY <1>1, <1>4, <1>6, <1>7
  <2>2. (CHOOSE i \in found : TRUE) = index + 1
    BY <2>1
  <2>3. found # {}
    BY <2>1
  <2>4. CharToByte(s, index) = (index + 1) - 1
    BY <1>3, <2>2, <2>3, Zenon
  <2>5. QED
    BY <1>4, <2>4
<1>8. CASE index = N
  <2>1. found = {}
    BY <1>1, <1>6, <1>8
  <2>2. QED
    BY <1>3, <1>8, <2>1
<1>9. QED
  BY <1>1, <1>4, <1>7, <1>8

\* What two prefixes and suffixes of a text are.
LEMMA Pieces ==
  ASSUME NEW S, NEW s \in Seq(S), NEW n \in 0 .. Len(s)
  PROVE  /\ UpTo(s, n) \in Seq(S) /\ Len(UpTo(s, n)) = n
         /\ \A i \in 1 .. n : UpTo(s, n)[i] = s[i]
         /\ After(s, n) \in Seq(S) /\ Len(After(s, n)) = Len(s) - n
         /\ \A i \in 1 .. Len(s) - n : After(s, n)[i] = s[n + i]
<1>1. Len(s) \in Nat /\ \A i \in 1 .. Len(s) : s[i] \in S
  BY ElementOfSeq
<1>2. UpTo(s, n) \in Seq(S) /\ Len(UpTo(s, n)) = n /\ \A i \in 1 .. n : UpTo(s, n)[i] = s[i]
  BY <1>1, SubSeqProperties DEF UpTo
<1>3. n + 1 \in Int /\ Len(s) \in Int /\ \A i \in n + 1 .. Len(s) : s[i] \in S
  BY <1>1
<1>4. After(s, n) \in Seq(S)
      /\ Len(After(s, n)) = (IF n + 1 <= Len(s) THEN Len(s) - (n + 1) + 1 ELSE 0)
      /\ \A i \in 1 .. Len(s) - (n + 1) + 1 : After(s, n)[i] = s[n + 1 + i - 1]
  BY <1>3, SubSeqProperties DEF After
<1>5. QED
  BY <1>1, <1>2, <1>4

-----------------------------------------------------------------------------
(* The two scans of a line, byte by byte.                                  *)

NoTokens == [tokens |-> <<>>, partial |-> <<>>]

Scanned == [tokens : Seq(String), partial : String]

\* The token at the end of a scan is complete.
Ended(t) ==
  IF t.partial = <<>> THEN t
  ELSE [tokens |-> Append(t.tokens, t.partial), partial |-> <<>>]

\* A scan after one more byte.
OneMore(q, t, byte) ==
  IF IsDelimiter(q, byte) THEN Ended(t)
  ELSE IF IsSyntax(q, byte) THEN t
  ELSE [t EXCEPT !.partial = Append(@, byte)]

\* The scan after each prefix of s.
Scan(s) ==
  LET scan[n \in 0 .. Len(s)] ==
        IF n = 0 THEN NoTokens ELSE OneMore(Quotes(s)[n - 1], scan[n - 1], s[n])
  IN  scan

\* Whether a text ends with a blank.
EndsBlank(s) == s # <<>> /\ s[Len(s)] \in Blanks

LEMMA TokenizeIsScan ==
  ASSUME NEW text, NEW position, NEW s, s = UpTo(text, CharToByte(text, position))
  PROVE  Tokenize(text, position) =
           IF EndsBlank(s) THEN Ended(Scan(s)[Len(s)]) ELSE Scan(s)[Len(s)]
BY DEF Tokenize, Scan, OneMore, Ended, NoTokens, EndsBlank

LEMMA QuotingType ==
  /\ Unquoted \in Quoting
  /\ \A q \in Quoting : \A byte : NextQuoting(q, byte) \in Quoting
BY DEF Unquoted, Quoting, NextQuoting, IsSyntax, Backslash, SingleQuote, DoubleQuote

LEMMA ScannedType ==
  /\ NoTokens \in Scanned
  /\ \A t \in Scanned : Ended(t) \in Scanned /\ Ended(t).partial = <<>>
  /\ \A t \in Scanned : \A q : \A byte \in Bytes : OneMore(q, t, byte) \in Scanned
<1>1. <<>> \in String /\ <<>> \in Seq(String)
  BY DEF String
<1>2. NoTokens \in Scanned
  BY <1>1 DEF NoTokens, Scanned
<1>3. ASSUME NEW t \in Scanned PROVE Ended(t) \in Scanned /\ Ended(t).partial = <<>>
  <2>1. Append(t.tokens, t.partial) \in Seq(String)
    BY DEF Scanned
  <2>2. QED
    BY <1>1, <2>1 DEF Ended, Scanned
<1>4. ASSUME NEW t \in Scanned, NEW q, NEW byte \in Bytes PROVE OneMore(q, t, byte) \in Scanned
  <2>1. Append(t.partial, byte) \in String
    BY DEF Scanned, String
  <2>2. [t EXCEPT !.partial = Append(@, byte)] \in Scanned
    BY <2>1 DEF Scanned
  <2>3. QED
    BY <1>3, <2>2 DEF OneMore
<1>5. QED
  BY <1>2, <1>3, <1>4

LEMMA QuotesRun ==
  ASSUME NEW s \in String
  PROVE  /\ Quotes(s) \in [0 .. Len(s) -> Quoting]
         /\ Quotes(s)[0] = Unquoted
         /\ \A n \in 1 .. Len(s) : Quotes(s)[n] = NextQuoting(Quotes(s)[n - 1], s[n])
<1> DEFINE N == Len(s)
           Def(g) == [n \in 0 .. N |-> IF n = 0 THEN Unquoted ELSE NextQuoting(g[n - 1], s[n])]
           step == [n \in 1 .. N |-> [q \in Quoting |-> NextQuoting(q, s[n])]]
<1>1. N \in Nat
  BY DEF String
<1>2. Quotes(s) = CHOOSE g : g = Def(g)
  BY DEF Quotes
<1> HIDE DEF N
<1>3. step \in [1 .. N -> [Quoting -> Quoting]] /\ \A n \in 1 .. N, q \in Quoting :
        step[n][q] = NextQuoting(q, s[n])
  BY QuotingType
<1> HIDE DEF step
<1>4. PICK f \in [0 .. N -> Quoting] : IsRun(f, Unquoted, step, N)
  BY <1>1, <1>3, QuotingType, StepsExist
<1>5. f = Def(f)
  <2>1. f[0] = Unquoted
    BY <1>4 DEF IsRun
  <2>2. ASSUME NEW n \in 1 .. N PROVE f[n] = NextQuoting(f[n - 1], s[n])
    <3>1. f[n - 1] \in Quoting
      BY <1>1
    <3>2. f[n] = step[n][f[n - 1]]
      BY <1>4 DEF IsRun
    <3>3. QED
      BY <1>3, <3>1, <3>2
  <2>3. QED
    BY <1>1, <2>1, <2>2
<1> DEFINE run == Quotes(s)
<1>6. run = Def(run)
  <2> HIDE DEF Def
  <2>1. QED
    BY <1>2, <1>5
<1> HIDE DEF run
<1>7. run[0] = Unquoted
  BY <1>1, <1>6
<1>8. ASSUME NEW n \in 1 .. N PROVE run[n] = NextQuoting(run[n - 1], s[n])
  <2>1. n \in 0 .. N /\ n # 0
    BY <1>1
  <2>2. QED
    BY <1>6, <2>1
<1>9. run = [n \in 0 .. N |-> run[n]]
  BY <1>6
<1>10. run \in [0 .. N -> Quoting]
  <2>1. \A n \in 1 .. N : run[n - 1] \in Quoting => run[n] \in Quoting
    BY <1>8, QuotingType
  <2>2. run[0] \in Quoting
    BY <1>7, QuotingType
  <2>3. QED
    BY <1>1, <1>9, <2>1, <2>2, RunStays
<1>11. QED
  BY <1>7, <1>8, <1>10 DEF run, N

LEMMA ScanRun ==
  ASSUME NEW s \in String
  PROVE  /\ Scan(s) \in [0 .. Len(s) -> Scanned]
         /\ Scan(s)[0] = NoTokens
         /\ \A n \in 1 .. Len(s) :
              Scan(s)[n] = OneMore(Quotes(s)[n - 1], Scan(s)[n - 1], s[n])
<1> DEFINE N == Len(s)
           quotes == Quotes(s)
           Def(g) == [n \in 0 .. N |-> IF n = 0 THEN NoTokens
                                       ELSE OneMore(quotes[n - 1], g[n - 1], s[n])]
           step == [n \in 1 .. N |-> [t \in Scanned |-> OneMore(quotes[n - 1], t, s[n])]]
<1>1. N \in Nat /\ \A n \in 1 .. N : s[n] \in Bytes
  BY ElementOfSeq DEF String
<1>2. Scan(s) = CHOOSE g : g = Def(g)
  BY DEF Scan
<1> HIDE DEF N, quotes
<1>3. step \in [1 .. N -> [Scanned -> Scanned]] /\ \A n \in 1 .. N, t \in Scanned :
        step[n][t] = OneMore(quotes[n - 1], t, s[n])
  BY <1>1, ScannedType
<1> HIDE DEF step
<1>4. PICK f \in [0 .. N -> Scanned] : IsRun(f, NoTokens, step, N)
  BY <1>1, <1>3, ScannedType, StepsExist
<1>5. f = Def(f)
  <2>1. f[0] = NoTokens
    BY <1>4 DEF IsRun
  <2>2. ASSUME NEW n \in 1 .. N PROVE f[n] = OneMore(quotes[n - 1], f[n - 1], s[n])
    <3>1. f[n - 1] \in Scanned
      BY <1>1
    <3>2. f[n] = step[n][f[n - 1]]
      BY <1>4 DEF IsRun
    <3>3. QED
      BY <1>3, <3>1, <3>2
  <2>3. QED
    BY <1>1, <2>1, <2>2
<1> DEFINE run == Scan(s)
<1>6. run = Def(run)
  <2> HIDE DEF Def
  <2>1. QED
    BY <1>2, <1>5
<1> HIDE DEF run
<1>7. run[0] = NoTokens
  BY <1>1, <1>6
<1>8. ASSUME NEW n \in 1 .. N PROVE run[n] = OneMore(quotes[n - 1], run[n - 1], s[n])
  <2>1. n \in 0 .. N /\ n # 0
    BY <1>1
  <2>2. QED
    BY <1>6, <2>1
<1>9. run = [n \in 0 .. N |-> run[n]]
  BY <1>6
<1>10. run \in [0 .. N -> Scanned]
  <2>1. \A n \in 1 .. N : run[n - 1] \in Scanned => run[n] \in Scanned
    BY <1>1, <1>8, ScannedType
  <2>2. run[0] \in Scanned
    BY <1>7, ScannedType
  <2>3. QED
    BY <1>1, <1>9, <2>1, <2>2, RunStays
<1>11. QED
  BY <1>7, <1>8, <1>10 DEF run, N, quotes

\* Two texts that begin alike are scanned alike.
LEMMA ScansAgree ==
  ASSUME NEW s \in String, NEW t \in String, NEW k \in Nat, k <= Len(s), k <= Len(t),
         \A i \in 1 .. k : s[i] = t[i]
  PROVE  \A n \in 0 .. k : Quotes(s)[n] = Quotes(t)[n] /\ Scan(s)[n] = Scan(t)[n]
<1> DEFINE S == {n \in Nat : n <= k => Quotes(s)[n] = Quotes(t)[n] /\ Scan(s)[n] = Scan(t)[n]}
<1>1. 0 \in S
  BY QuotesRun, ScanRun
<1>2. ASSUME NEW n \in Nat, n \in S PROVE n + 1 \in S
  <2>1. SUFFICES ASSUME n + 1 <= k
                 PROVE  Quotes(s)[n + 1] = Quotes(t)[n + 1] /\ Scan(s)[n + 1] = Scan(t)[n + 1]
    OBVIOUS
  <2>2. Quotes(s)[n] = Quotes(t)[n] /\ Scan(s)[n] = Scan(t)[n]
    BY <1>2, <2>1
  <2>3. Len(s) \in Nat /\ Len(t) \in Nat
    BY DEF String
  <2>4. n + 1 \in 1 .. Len(s) /\ n + 1 \in 1 .. Len(t) /\ (n + 1) - 1 = n
    BY <2>1, <2>3
  <2>5. s[n + 1] = t[n + 1]
    BY <2>1
  <2>6. Quotes(s)[n + 1] = NextQuoting(Quotes(s)[n], s[n + 1])
        /\ Quotes(t)[n + 1] = NextQuoting(Quotes(t)[n], t[n + 1])
    BY <2>4, QuotesRun
  <2>7. Scan(s)[n + 1] = OneMore(Quotes(s)[n], Scan(s)[n], s[n + 1])
        /\ Scan(t)[n + 1] = OneMore(Quotes(t)[n], Scan(t)[n], t[n + 1])
    BY <2>4, ScanRun
  <2>8. QED
    BY <2>2, <2>5, <2>6, <2>7
<1>3. \A n \in Nat : n \in S
  BY <1>1, <1>2, Induction
<1>4. QED
  BY <1>3

-----------------------------------------------------------------------------
(* What is scanned after a complete token is scanned as if on its own.     *)

\* A scan with the tokens of an earlier one before its own.
Joined(tokens, t) == [tokens |-> tokens \o t.tokens, partial |-> t.partial]

AppendsTo(a, b, x) == Append(a \o b, x) = a \o Append(b, x)

LEMMA AppendToJoined ==
  ASSUME NEW S, NEW a \in Seq(S), NEW b \in Seq(S), NEW x \in S
  PROVE  AppendsTo(a, b, x)
<1>1. <<x>> \in Seq(S) /\ a \o b \in Seq(S)
  BY ConcatProperties
<1>2. Append(a \o b, x) = (a \o b) \o <<x>> /\ Append(b, x) = b \o <<x>>
  BY <1>1, AppendIsConcat
<1>3. (a \o b) \o <<x>> = a \o (b \o <<x>>)
  BY <1>1, ConcatAssociative
<1>4. QED
  BY <1>2, <1>3 DEF AppendsTo

LEMMA PartialSet ==
  ASSUME NEW tokens, NEW partial, NEW longer
  PROVE  [[tokens |-> tokens, partial |-> partial] EXCEPT !.partial = longer]
           = [tokens |-> tokens, partial |-> longer]
OBVIOUS

LEMMA JoinedMore ==
  ASSUME NEW T \in Seq(String), NEW t \in Scanned
  PROVE  /\ Ended(Joined(T, t)) = Joined(T, Ended(t))
         /\ \A q : \A byte \in Bytes :
              OneMore(q, Joined(T, t), byte) = Joined(T, OneMore(q, t, byte))
<1>1. Ended(Joined(T, t)) = Joined(T, Ended(t))
  <2>1. t.tokens \in Seq(String) /\ t.partial \in String
    BY DEF Scanned
  <2>2. AppendsTo(T, t.tokens, t.partial)
    BY <2>1, AppendToJoined
  <2>3. Append(T \o t.tokens, t.partial) = T \o Append(t.tokens, t.partial)
    BY ONLY <2>2 DEF AppendsTo
  <2>4. QED
    BY <2>3 DEF Ended, Joined
<1>2. ASSUME NEW q, NEW byte \in Bytes
      PROVE  OneMore(q, Joined(T, t), byte) = Joined(T, OneMore(q, t, byte))
  <2>1. [Joined(T, t) EXCEPT !.partial = Append(@, byte)]
          = Joined(T, [t EXCEPT !.partial = Append(@, byte)])
    <3> DEFINE longer == Append(t.partial, byte)
    <3>1. t = [tokens |-> t.tokens, partial |-> t.partial]
      BY DEF Scanned
    <3>2. Joined(T, t).partial = t.partial
      BY DEF Joined
    <3>3. [Joined(T, t) EXCEPT !.partial = Append(@, byte)]
            = [Joined(T, t) EXCEPT !.partial = longer]
      BY <3>2
    <3> HIDE DEF longer
    <3>4. [t EXCEPT !.partial = longer] = [tokens |-> t.tokens, partial |-> longer]
      BY <3>1, PartialSet
    <3>5. [Joined(T, t) EXCEPT !.partial = longer]
            = [tokens |-> T \o t.tokens, partial |-> longer]
      BY PartialSet DEF Joined
    <3>6. QED
      BY <3>3, <3>4, <3>5 DEF Joined, longer
  <2>2. QED
    BY <1>1, <2>1 DEF OneMore
<1>3. QED
  BY <1>1, <1>2

LEMMA ScansAfter ==
  ASSUME NEW s \in String, NEW w \in String, NEW k \in Nat, Len(s) = k + Len(w),
         \A i \in 1 .. Len(w) : s[k + i] = w[i],
         Quotes(s)[k] = Unquoted, Scan(s)[k].partial = <<>>
  PROVE  \A n \in 0 .. Len(w) : /\ Quotes(s)[k + n] = Quotes(w)[n]
                                /\ Scan(s)[k + n] = Joined(Scan(s)[k].tokens, Scan(w)[n])
<1> DEFINE T == Scan(s)[k].tokens
           Same(n) == Quotes(s)[k + n] = Quotes(w)[n] /\ Scan(s)[k + n] = Joined(T, Scan(w)[n])
           S == {n \in Nat : n <= Len(w) => Same(n)}
<1>1. Len(s) \in Nat /\ Len(w) \in Nat /\ k \in 0 .. Len(s)
  BY DEF String
<1>2. Scan(s)[k] \in Scanned
  BY <1>1, ScanRun
<1>3. T \in Seq(String)
  BY <1>2 DEF Scanned
<1>4. Same(0)
  <2>1. k + 0 = k
    OBVIOUS
  <2>2. Quotes(w)[0] = Unquoted /\ Scan(w)[0] = NoTokens
    BY QuotesRun, ScanRun
  <2>3. Scan(s)[k] = [tokens |-> T, partial |-> <<>>]
    BY <1>2 DEF Scanned
  <2> HIDE DEF T
  <2>4. Joined(T, NoTokens) = [tokens |-> T, partial |-> <<>>]
    BY <1>3, ConcatEmptySeq DEF Joined, NoTokens
  <2>5. QED
    BY <2>1, <2>2, <2>3, <2>4
<1>5. ASSUME NEW n \in Nat, n \in S PROVE n + 1 \in S
  <2>1. SUFFICES ASSUME n + 1 <= Len(w) PROVE Same(n + 1)
    OBVIOUS
  <2>2. Same(n)
    BY <1>5, <2>1, <1>1
  <2>3. /\ n + 1 \in 1 .. Len(w) /\ (n + 1) - 1 = n
        /\ k + (n + 1) \in 1 .. Len(s) /\ (k + (n + 1)) - 1 = k + n
    BY <1>1, <2>1
  <2>4. s[k + (n + 1)] = w[n + 1] /\ w[n + 1] \in Bytes
    BY <2>3, ElementOfSeq DEF String
  <2>5. Scan(w)[n] \in Scanned
    BY <1>1, <2>1, ScanRun
  <2>6. Quotes(s)[k + (n + 1)] = NextQuoting(Quotes(s)[k + n], s[k + (n + 1)])
        /\ Quotes(w)[n + 1] = NextQuoting(Quotes(w)[n], w[n + 1])
    BY <2>3, QuotesRun
  <2>7. Scan(s)[k + (n + 1)] = OneMore(Quotes(s)[k + n], Scan(s)[k + n], s[k + (n + 1)])
        /\ Scan(w)[n + 1] = OneMore(Quotes(w)[n], Scan(w)[n], w[n + 1])
    BY <2>3, ScanRun
  <2> HIDE DEF T
  <2>8. OneMore(Quotes(w)[n], Joined(T, Scan(w)[n]), w[n + 1])
          = Joined(T, OneMore(Quotes(w)[n], Scan(w)[n], w[n + 1]))
    BY <1>3, <2>4, <2>5, JoinedMore
  <2>9. QED
    BY <2>2, <2>4, <2>6, <2>7, <2>8
<1> HIDE DEF Same
<1>6. \A n \in Nat : n \in S
  BY <1>4, <1>5, Induction
<1>7. \A n \in 0 .. Len(w) : Same(n)
  BY <1>1, <1>6
<1>8. QED
  BY <1>7 DEF Same

\* At the start of the last token the scan is outside quotes, the tokens before it
\* are complete, and no other is completed after it.
LEMMA AtTokenStart ==
  ASSUME NEW s \in String
  PROVE  LET start == TokenStart(s)
         IN  /\ start \in 0 .. Len(s)
             /\ Quotes(s)[start] = Unquoted /\ Scan(s)[start].partial = <<>>
             /\ Scan(s)[Len(s)].tokens = Scan(s)[start].tokens
             /\ EndsBlank(s) /\ IsDelimiter(Quotes(s)[Len(s) - 1], s[Len(s)]) => start = Len(s)
<1> DEFINE N == Len(s)
           start == TokenStart(s)
           ends == TokenBoundaries(s)
<1>1. N \in Nat /\ \A n \in 1 .. N : s[n] \in Bytes
  BY ElementOfSeq DEF String
<1>2. ends = {n \in 1 .. N : IsDelimiter(Quotes(s)[n - 1], s[n])}
  BY DEF TokenBoundaries
<1>3. start = Greatest(ends)
  BY DEF TokenStart
<1> HIDE DEF N, start, ends
<1>4. /\ start \in Nat /\ (start \in ends \/ (ends = {} /\ start = 0))
      /\ \A n \in ends : n <= start
  <2>1. ends \in SUBSET Nat /\ \A n \in ends : n <= N
    BY <1>1, <1>2
  <2>2. QED
    BY <1>1, <1>3, <2>1, GreatestOf
<1>5. start \in 0 .. N
  BY <1>1, <1>2, <1>4
<1>6. Quotes(s)[start] = Unquoted /\ Scan(s)[start].partial = <<>>
  <2>1. CASE start = 0
    BY <2>1, QuotesRun, ScanRun DEF NoTokens
  <2>2. CASE start \in ends
    <3> DEFINE q == Quotes(s)[start - 1]
               t == Scan(s)[start - 1]
    <3>1. start \in 1 .. N /\ IsDelimiter(q, s[start])
      BY <1>2, <2>2
    <3>2. start - 1 \in 0 .. N
      BY <1>1, <3>1
    <3>3. q \in Quoting /\ t \in Scanned
      BY <3>2, QuotesRun, ScanRun DEF N
    <3>4. Quotes(s)[start] = NextQuoting(q, s[start])
      BY <3>1, QuotesRun DEF N
    <3>5. Scan(s)[start] = OneMore(q, t, s[start])
      BY <3>1, ScanRun DEF N
    <3> HIDE DEF q, t
    <3>6. Scan(s)[start] = Ended(t)
      BY <3>1, <3>5 DEF OneMore
    <3>7. q = Unquoted
      BY <3>1, <3>3 DEF IsDelimiter, Quoting, Unquoted
    <3>8. ~IsSyntax(q, s[start])
      BY <3>1 DEF IsDelimiter, IsSyntax, Blanks, Backslash, SingleQuote, DoubleQuote
    <3>9. NextQuoting(q, s[start]) = Unquoted
      BY <3>7, <3>8 DEF NextQuoting, Unquoted
    <3>10. QED
      BY <3>3, <3>4, <3>6, <3>9, ScannedType
  <2>3. QED
    BY <1>4, <2>1, <2>2
<1>7. Scan(s)[N].tokens = Scan(s)[start].tokens
  <2> DEFINE S == {n \in Nat : start + n <= N => Scan(s)[start + n].tokens = Scan(s)[start].tokens}
  <2>1. 0 \in S
    BY <1>4
  <2>2. ASSUME NEW n \in Nat, n \in S PROVE n + 1 \in S
    <3>1. SUFFICES ASSUME start + (n + 1) <= N
                   PROVE  Scan(s)[start + (n + 1)].tokens = Scan(s)[start].tokens
      OBVIOUS
    <3>2. Scan(s)[start + n].tokens = Scan(s)[start].tokens
      BY <1>1, <1>4, <2>2, <3>1
    <3> DEFINE m == start + (n + 1)
    <3>3. m \in 1 .. N /\ m - 1 = start + n /\ start + n \in 0 .. N
      BY <1>1, <1>4, <3>1
    <3>4. m \notin ends
      BY <1>4, <3>3
    <3>5. ~IsDelimiter(Quotes(s)[m - 1], s[m])
      BY <1>2, <3>3, <3>4
    <3>6. Scan(s)[m] = OneMore(Quotes(s)[m - 1], Scan(s)[m - 1], s[m])
      BY <3>3, ScanRun DEF N
    <3>7. Scan(s)[m - 1] \in Scanned
      BY <3>3, ScanRun DEF N
    <3> HIDE DEF m
    <3>8. Scan(s)[m].tokens = Scan(s)[m - 1].tokens
      BY <3>5, <3>6, <3>7 DEF OneMore, Scanned
    <3>9. QED
      BY <3>2, <3>3, <3>8 DEF m
  <2>3. \A n \in Nat : n \in S
    BY <2>1, <2>2, Induction
  <2>4. N - start \in Nat /\ start + (N - start) = N
    BY <1>1, <1>5
  <2>5. QED
    BY <1>1, <2>3, <2>4
<1>8. EndsBlank(s) /\ IsDelimiter(Quotes(s)[N - 1], s[N]) => start = N
  <2>1. s # <<>> => N \in 1 .. N
    BY <1>1 DEF N, String
  <2>2. EndsBlank(s) /\ IsDelimiter(Quotes(s)[N - 1], s[N]) => N \in ends
    BY <1>2, <2>1 DEF EndsBlank
  <2>3. QED
    BY <1>1, <1>4, <1>5, <2>2
<1>9. QED
  BY <1>5, <1>6, <1>7, <1>8 DEF N, start

\* What the scan of a whole text comes to: its tokens and the partial one.
Whole(s) == IF EndsBlank(s) THEN Ended(Scan(s)[Len(s)]) ELSE Scan(s)[Len(s)]

\* A token typed in the place of the last one, with a blank after it, follows the
\* tokens before that.
LEMMA TokenReplaced ==
  ASSUME NEW s \in String, NEW w \in String, EndsBlank(w),
         EndsBlank(s) => IsDelimiter(Quotes(s)[Len(s) - 1], s[Len(s)])
  PROVE  Whole(UpTo(s, TokenStart(s)) \o w)
           = [tokens |-> Whole(s).tokens \o Whole(w).tokens, partial |-> <<>>]
<1> DEFINE start == TokenStart(s)
           a == UpTo(s, start)
           t == a \o w
           T == Scan(s)[start].tokens
<1>1. /\ start \in 0 .. Len(s)
      /\ Quotes(s)[start] = Unquoted /\ Scan(s)[start].partial = <<>>
      /\ Scan(s)[Len(s)].tokens = T
      /\ EndsBlank(s) => start = Len(s)
  BY AtTokenStart
<1>2. Len(s) \in Nat /\ Len(w) \in Nat /\ Len(w) # 0
  BY DEF String, EndsBlank
<1> HIDE DEF start
<1>3. a \in String /\ Len(a) = start /\ \A i \in 1 .. start : a[i] = s[i]
  BY <1>1, Pieces DEF String
<1> HIDE DEF a
<1>4. /\ t \in String /\ Len(t) = start + Len(w)
      /\ \A i \in 1 .. start : t[i] = s[i]
      /\ \A i \in 1 .. Len(w) : t[start + i] = w[i]
  <2>1. a \in Seq(Bytes) /\ w \in Seq(Bytes)
    BY <1>3 DEF String
  <2>2. t \in Seq(Bytes) /\ Len(t) = Len(a) + Len(w)
        /\ \A i \in 1 .. Len(a) + Len(w) : t[i] = IF i <= Len(a) THEN a[i] ELSE w[i - Len(a)]
    BY <2>1, ConcatProperties
  <2>3. QED
    BY <1>1, <1>2, <1>3, <2>2 DEF String
<1> HIDE DEF t
<1>5. Quotes(t)[start] = Unquoted /\ Scan(t)[start] = Scan(s)[start]
  BY <1>1, <1>2, <1>4, ScansAgree
<1>6. Scan(s)[start] \in Scanned /\ Scan(w)[Len(w)] \in Scanned
  BY <1>1, <1>2, ScanRun
<1>7. T \in Seq(String)
  BY <1>6 DEF Scanned
<1>8. Scan(t)[Len(t)] = Joined(T, Scan(w)[Len(w)])
  <2>1. Scan(t)[start].partial = <<>> /\ Scan(t)[start].tokens = T
    BY <1>1, <1>5
  <2>2. Len(w) \in 0 .. Len(w) /\ start \in Nat
    BY <1>1, <1>2
  <2> HIDE DEF T
  <2>3. \A n \in 0 .. Len(w) :
          Scan(t)[start + n] = Joined(Scan(t)[start].tokens, Scan(w)[n])
    BY <1>4, <1>5, <2>1, <2>2, ScansAfter
  <2>4. QED
    BY <1>4, <2>1, <2>2, <2>3
<1>9. EndsBlank(t)
  <2>1. t[Len(t)] = w[Len(w)] /\ t # <<>>
    BY <1>1, <1>2, <1>4
  <2>2. QED
    BY <2>1 DEF EndsBlank
<1> DEFINE e == Ended(Scan(w)[Len(w)])
<1>10. Whole(t) = Joined(T, e) /\ Whole(w) = e /\ e.partial = <<>>
  <2> HIDE DEF T
  <2>1. QED
    BY <1>6, <1>7, <1>8, <1>9, JoinedMore, ScannedType DEF Whole
<1>11. Whole(s).tokens = T
  <2>1. CASE EndsBlank(s)
    <3>1. start = Len(s) /\ Scan(s)[Len(s)].partial = <<>>
      BY <1>1, <2>1
    <3>2. Whole(s) = Scan(s)[Len(s)]
      BY <2>1, <3>1 DEF Whole, Ended
    <3>3. QED
      BY <1>1, <3>2
  <2>2. CASE ~EndsBlank(s)
    BY <1>1, <2>2 DEF Whole
  <2>3. QED
    BY <2>1, <2>2
<1> HIDE DEF T, e
<1>12. QED
  BY <1>10, <1>11 DEF Joined, t, a, start

-----------------------------------------------------------------------------
(* An accepted item takes the place of the token before the cursor.        *)

\* Characters of one byte, of which the keys insert one each; and whatever the
\* daemon answers with is a text.
OneByteTexts ==
  /\ Continuation = {} /\ " " \in Bytes
  /\ BoundChars \subseteq {<<byte>> : byte \in Bytes}
  /\ \A text \in String, position \in Nat :
       \A i \in DOMAIN Complete(text, position) : Complete(text, position)[i] \in String

LEMMA TokenizeIsWhole ==
  ASSUME Continuation = {}, NEW text \in String, NEW position \in 0 .. Len(text)
  PROVE  Tokenize(text, position) = Whole(UpTo(text, position))
<1>1. CharToByte(text, position) = position
  BY OffsetOfIndex
<1>2. QED
  BY <1>1, TokenizeIsScan DEF Whole

LEMMA TextIsSeq ==
  ASSUME NEW s \in String
  PROVE  s \in Seq(Bytes) /\ Len(s) \in Nat
BY DEF String

LEMMA Single ==
  ASSUME NEW S, NEW x \in S
  PROVE  <<x>> \in Seq(S) /\ Len(<<x>>) = 1 /\ <<x>>[1] = x
OBVIOUS

LEMMA Blank ==
  ASSUME OneByteTexts
  PROVE  <<" ">> \in Seq(Bytes) /\ Len(<<" ">>) = 1 /\ <<" ">>[1] = " "
<1>1. " " \in Bytes
  BY DEF OneByteTexts
<1>2. QED
  BY <1>1, Single

\* A text with a blank after it.
LEMMA WithBlank ==
  ASSUME OneByteTexts, NEW chosen \in String
  PROVE  LET w == chosen \o <<" ">>
         IN  /\ w \in String /\ Len(w) = Len(chosen) + 1 /\ EndsBlank(w)
             /\ TokensOf(chosen) = Whole(w).tokens
<1> DEFINE blank == <<" ">>
           w == chosen \o blank
           n == Len(chosen)
<1>1. blank \in Seq(Bytes) /\ Len(blank) = 1 /\ blank[1] = " "
  BY Blank
<1> HIDE DEF blank
<1>1a. n \in Nat /\ chosen \in Seq(Bytes)
  BY TextIsSeq
<1>2. w \in Seq(Bytes) /\ Len(w) = n + 1
      /\ \A i \in 1 .. n + 1 : w[i] = IF i <= n THEN chosen[i] ELSE blank[i - n]
  <2>1. /\ w \in Seq(Bytes) /\ Len(w) = Len(chosen) + Len(blank)
        /\ \A i \in 1 .. Len(chosen) + Len(blank) :
             w[i] = IF i <= Len(chosen) THEN chosen[i] ELSE blank[i - Len(chosen)]
    BY <1>1, <1>1a, ConcatProperties
  <2>2. n = Len(chosen)
    OBVIOUS
  <2> HIDE DEF w, n
  <2>3. QED
    BY <1>1, <2>1, <2>2
<1> HIDE DEF w, n
<1>3. w[n + 1] = " " /\ w # <<>>
  <2>1. n + 1 \in 1 .. n + 1 /\ ~(n + 1 <= n) /\ (n + 1) - n = 1
    BY <1>1a
  <2>2. w[n + 1] = " "
    BY <1>1, <1>2, <2>1
  <2>3. w # <<>>
    BY <1>1a, <1>2
  <2>4. QED
    BY <2>2, <2>3
<1>4. EndsBlank(w)
  BY <1>2, <1>3 DEF EndsBlank, Blanks
<1>5. UpTo(w, n + 1) = w
  BY <1>1a, <1>2, SubSeqFull DEF UpTo
<1>6. w \in String /\ n + 1 \in 0 .. Len(w)
  BY <1>1a, <1>2 DEF String
<1>7. Tokenize(w, n + 1) = Whole(UpTo(w, n + 1))
  BY <1>6, TokenizeIsWhole DEF OneByteTexts
<1>8. TokensOf(chosen) = Tokenize(w, n + 1).tokens
  BY DEF TokensOf, w, n, blank
<1>9. QED
  BY <1>2, <1>4, <1>5, <1>6, <1>7, <1>8 DEF w, n, blank

SplitsAt(a, b, n) == UpTo(a \o b, n) = a /\ After(a \o b, n) = b

LEMMA ConcatSplits ==
  ASSUME NEW S, NEW a \in Seq(S), NEW b \in Seq(S)
  PROVE  SplitsAt(a, b, Len(a)) /\ a \o b \in Seq(S) /\ Len(a \o b) = Len(a) + Len(b)
<1> DEFINE t == a \o b
           n == Len(a)
           m == Len(b)
<1>1. n \in Nat /\ m \in Nat
  OBVIOUS
<1>2. t \in Seq(S) /\ Len(t) = n + m
      /\ \A i \in 1 .. n + m : t[i] = IF i <= n THEN a[i] ELSE b[i - n]
  BY ConcatProperties
<1>3. n \in 0 .. Len(t)
  BY <1>1, <1>2
<1> HIDE DEF t
<1>4. /\ UpTo(t, n) \in Seq(S) /\ Len(UpTo(t, n)) = n
      /\ \A i \in 1 .. n : UpTo(t, n)[i] = t[i]
      /\ After(t, n) \in Seq(S) /\ Len(After(t, n)) = Len(t) - n
      /\ \A i \in 1 .. Len(t) - n : After(t, n)[i] = t[n + i]
  BY <1>2, <1>3, Pieces
<1>5. UpTo(t, n) = a
  <2>1. \A i \in 1 .. Len(a) : UpTo(t, n)[i] = a[i]
    BY <1>1, <1>2, <1>4
  <2>2. QED
    BY <1>4, <2>1, SeqEqual
<1>6. After(t, n) = b
  <2>1. Len(After(t, n)) = Len(b)
    BY <1>1, <1>2, <1>4
  <2>2. \A i \in 1 .. Len(b) : After(t, n)[i] = b[i]
    <3> TAKE i \in 1 .. Len(b)
    <3>1. i \in 1 .. Len(t) - n /\ n + i \in 1 .. n + m /\ ~(n + i <= n) /\ (n + i) - n = i
      BY <1>1, <1>2
    <3>2. QED
      BY <1>2, <1>4, <3>1
  <2>3. QED
    BY <1>4, <2>1, <2>2, SeqEqual
<1>7. QED
  BY <1>2, <1>5, <1>6 DEF SplitsAt, t, n

\* The line with this text and a blank in the place of what is between the two.
Spliced(text, start, chosen, position) ==
  UpTo(text, start) \o chosen \o <<" ">> \o After(text, position)

\* A blank at the end of the text ends a token.
EndsApart(before) ==
  EndsBlank(before) => IsDelimiter(Quotes(before)[Len(before) - 1], before[Len(before)])

\* The item follows the tokens before the one that was begun, and the rest of the
\* line follows the item.
Replaced(text, position, chosen, after, place) ==
  /\ after \in String /\ place \in 0 .. Len(after)
  /\ After(after, place) = After(text, position)
  /\ EndsApart(UpTo(text, position)) =>
       Tokenize(after, place)
         = [tokens |-> Tokenize(text, position).tokens \o TokensOf(chosen), partial |-> <<>>]

\* What _tabra_accept makes of a line.
LEMMA AcceptedTokens ==
  ASSUME OneByteTexts, NEW text \in String, NEW position \in 0 .. Len(text),
         NEW chosen \in String, NEW before, before = UpTo(text, position),
         NEW start, start = TokenStart(before),
         NEW after, after = Spliced(text, start, chosen, position),
         NEW place, place = start + Len(chosen) + 1
  PROVE  Replaced(text, position, chosen, after, place)
<1> DEFINE blank == <<" ">>
           w == chosen \o blank
           n == Len(chosen)
           a == UpTo(text, start)
           b == After(text, position)
<1>1. before \in String /\ Len(before) = position /\ \A i \in 1 .. position : before[i] = text[i]
  BY Pieces DEF String
<1>2. w \in String /\ Len(w) = n + 1 /\ EndsBlank(w) /\ TokensOf(chosen) = Whole(w).tokens
  BY WithBlank
<1>3. start \in 0 .. position
  BY <1>1, AtTokenStart
<1>4. blank \in Seq(Bytes)
  BY Blank
<1> HIDE DEF blank
<1>4a. n \in Nat /\ chosen \in Seq(Bytes) /\ text \in Seq(Bytes)
  BY TextIsSeq
<1>4b. position \in Nat /\ start \in Nat /\ start \in 0 .. Len(text)
  <2>1. Len(text) \in Nat
    BY TextIsSeq
  <2> HIDE DEF n
  <2>2. QED
    BY <1>3, <2>1
<1>5. a \in Seq(Bytes) /\ Len(a) = start /\ b \in Seq(Bytes) /\ Len(b) \in Nat
  BY <1>4a, <1>4b, Pieces
<1>6. a = UpTo(before, start)
  <2>1. /\ UpTo(before, start) \in Seq(Bytes) /\ Len(UpTo(before, start)) = start
        /\ \A i \in 1 .. start : UpTo(before, start)[i] = before[i]
    <3>1. start \in 0 .. Len(before) /\ before \in Seq(Bytes)
      BY <1>1, <1>3, TextIsSeq
    <3>2. QED
      BY ONLY <3>1, Pieces
  <2>2. \A i \in 1 .. start : a[i] = text[i]
    BY <1>4a, <1>4b, Pieces
  <2>3. \A i \in 1 .. start : UpTo(before, start)[i] = a[i]
    BY <1>1, <1>3, <1>4b, <2>1, <2>2
  <2> HIDE DEF a
  <2>4. QED
    BY <1>5, <2>1, <2>3, SeqEqual
<1>7. after = (a \o w) \o b
  <2>1. (a \o chosen) \o blank = a \o (chosen \o blank)
    <3>1. a \in Seq(Bytes) /\ chosen \in Seq(Bytes) /\ blank \in Seq(Bytes)
      BY <1>4, <1>4a, <1>5
    <3> HIDE DEF a
    <3>2. QED
      BY ONLY <3>1, ConcatAssociative
  <2>2. QED
    BY <2>1 DEF Spliced, blank
<1> HIDE DEF a, b, w, n
<1>8. w \in Seq(Bytes)
  BY <1>2 DEF String
<1>9. a \o w \in Seq(Bytes) /\ Len(a \o w) = Len(a) + Len(w)
  BY <1>5, <1>8, ConcatSplits
<1>10. Len(a \o w) = place
  BY <1>2, <1>4a, <1>4b, <1>5, <1>9 DEF n
<1>11. SplitsAt(a \o w, b, place) /\ after \in Seq(Bytes) /\ Len(after) = place + Len(b)
  <2> DEFINE c == a \o w
  <2>1. c \in Seq(Bytes) /\ Len(c) = place /\ b \in Seq(Bytes) /\ after = c \o b
    BY <1>5, <1>7, <1>9, <1>10
  <2> HIDE DEF c
  <2>2. SplitsAt(c, b, Len(c)) /\ c \o b \in Seq(Bytes) /\ Len(c \o b) = Len(c) + Len(b)
    BY <2>1, ConcatSplits
  <2>3. QED
    BY <2>1, <2>2 DEF c
<1>12. UpTo(after, place) = a \o w /\ After(after, place) = b
  BY <1>7, <1>11 DEF SplitsAt
<1>13. place \in Nat
  BY <1>4a, <1>4b DEF n
<1>14. after \in String /\ place \in 0 .. Len(after)
  BY <1>5, <1>11, <1>13 DEF String
<1>15. Tokenize(after, place) = Whole(a \o w)
  BY <1>12, <1>14, TokenizeIsWhole DEF OneByteTexts
<1>16. Tokenize(text, position) = Whole(before)
  BY TokenizeIsWhole DEF OneByteTexts
<1>17. ASSUME EndsApart(before)
       PROVE  Whole(UpTo(before, TokenStart(before)) \o w)
                = [tokens |-> Whole(before).tokens \o Whole(w).tokens, partial |-> <<>>]
  BY <1>1, <1>2, <1>17, TokenReplaced DEF EndsApart
<1>18. QED
  BY <1>2, <1>6, <1>12, <1>14, <1>15, <1>16, <1>17 DEF Replaced, b

\* The line and the items are texts, and the cursor is within the line.
OfferInv ==
  /\ line \in String /\ cursor \in 0 .. Len(line)
  /\ popup.inserts \in Seq(String)

LEMMA NothingOffered == NoPopup.inserts \in Seq(String)
BY DEF NoPopup

LEMMA AnswerIsTexts ==
  ASSUME OneByteTexts, NEW text \in String, NEW position \in Nat
  PROVE  Complete(text, position) \in Seq(String)
<1>1. PICK n \in Nat : \E f : Complete(text, position) = [i \in 1 .. n |-> f[i]]
  BY AnswerIsSequence
<1>2. PICK f : Complete(text, position) = [i \in 1 .. n |-> f[i]]
  BY <1>1
<1> DEFINE answer == Complete(text, position)
<1>3. \A i \in DOMAIN answer : answer[i] \in String
  BY DEF OneByteTexts
<1>4. answer = [i \in 1 .. n |-> answer[i]]
  BY <1>2
<1> HIDE DEF answer
<1>5. \A i \in 1 .. n : answer[i] \in String
  BY <1>3, <1>4
<1>6. answer \in [1 .. n -> String]
  BY <1>4, <1>5
<1>7. answer \in Seq(String)
  BY <1>6, IsASeq
<1>8. QED
  BY <1>7 DEF answer

LEMMA ShownInserts ==
  ASSUME NEW p, p.inserts \in Seq(String)
  PROVE  Shown(p).inserts \in Seq(String)
BY NothingOffered DEF Shown

LEMMA FetchedTexts ==
  ASSUME OneByteTexts, NEW text \in String, NEW position \in Nat,
         FetchAndRender(text, position)
  PROVE  popup'.inserts \in Seq(String)
<1>1. CASE Redrawn(NoPopup)
  BY <1>1, NothingOffered DEF Redrawn
<1>2. CASE Redrawn(Shown(Parsed(Complete(text, position))))
  <2> DEFINE response == Complete(text, position)
             p == Parsed(response)
  <2>1. response \in Seq(String)
    BY AnswerIsTexts
  <2>2. p.inserts = <<>> \/ p.inserts = response
    BY DEF Parsed
  <2>3. popup' = Shown(p)
    BY <1>2 DEF Redrawn
  <2> HIDE DEF response, p
  <2>4. p.inserts \in Seq(String)
    <3>1. <<>> \in Seq(String)
      OBVIOUS
    <3>2. QED
      BY <2>1, <2>2, <3>1, Zenon
  <2>5. QED
    BY <2>3, <2>4, ShownInserts
<1>3. QED
  BY <1>1, <1>2 DEF FetchAndRender

\* The line after a key, and after a backspace.
LEMMA InsertedText ==
  ASSUME OneByteTexts, NEW text \in String, NEW position \in 0 .. Len(text),
         NEW char \in BoundChars
  PROVE  /\ InsertChar(text, position, char) \in String
         /\ position + 1 \in 0 .. Len(InsertChar(text, position, char))
<1> DEFINE a == UpTo(text, position)
           b == After(text, position)
<1>1. text \in Seq(Bytes) /\ Len(text) \in Nat
  BY TextIsSeq
<1>2. a \in Seq(Bytes) /\ Len(a) = position /\ b \in Seq(Bytes) /\ Len(b) \in Nat
  BY <1>1, Pieces
<1>3. char \in Seq(Bytes) /\ Len(char) = 1
  <2>1. PICK byte \in Bytes : char = <<byte>>
    BY DEF OneByteTexts
  <2>2. QED
    BY <2>1, Single
<1>4. InsertChar(text, position, char) = (a \o char) \o b
  BY OffsetOfIndex DEF InsertChar, OneByteTexts
<1>5. position \in Nat
  BY <1>1
<1> HIDE DEF a, b
<1> DEFINE c == a \o char
<1>6. c \in Seq(Bytes) /\ Len(c) = position + 1
  BY <1>2, <1>3, <1>5, ConcatSplits
<1> HIDE DEF c
<1> DEFINE t == c \o b
<1>7. t \in Seq(Bytes) /\ Len(t) = Len(c) + Len(b)
  BY <1>2, <1>6, ConcatSplits
<1>8. InsertChar(text, position, char) = t
  BY <1>4 DEF c
<1> HIDE DEF t
<1>9. t \in String /\ position + 1 \in 0 .. Len(t)
  BY <1>2, <1>5, <1>6, <1>7 DEF String
<1>10. QED
  BY <1>8, <1>9

LEMMA DeletedText ==
  ASSUME OneByteTexts, NEW text \in String, NEW position \in 0 .. Len(text), position > 0
  PROVE  /\ DeleteChar(text, position - 1) \in String
         /\ position - 1 \in 0 .. Len(DeleteChar(text, position - 1))
<1> DEFINE n == position - 1
           a == UpTo(text, n)
           b == After(text, position)
<1>1. text \in Seq(Bytes) /\ Len(text) \in Nat
  BY TextIsSeq
<1>2. position \in Nat /\ n \in Nat /\ n \in 0 .. Len(text) /\ n + 1 = position
  BY <1>1
<1> HIDE DEF n
<1>3. a \in Seq(Bytes) /\ Len(a) = n /\ b \in Seq(Bytes) /\ Len(b) \in Nat
  BY <1>1, <1>2, Pieces
<1>4. DeleteChar(text, n) = a \o b
  BY <1>2, OffsetOfIndex DEF DeleteChar, OneByteTexts
<1> HIDE DEF a, b
<1> DEFINE t == a \o b
<1>5. t \in Seq(Bytes) /\ Len(t) = Len(a) + Len(b)
  BY <1>3, ConcatSplits
<1>6. DeleteChar(text, n) = t
  BY <1>4
<1> HIDE DEF t
<1>7. t \in String /\ n \in 0 .. Len(t)
  BY <1>2, <1>3, <1>5 DEF String
<1>8. QED
  BY <1>6, <1>7 DEF n

LEMMA ChosenIsText == OfferInv => Chosen \in String
<1>1. ASSUME NEW s \in Seq(String), NEW i \in DOMAIN s PROVE s[i] \in String
  BY <1>1
<1>2. <<>> \in String
  BY DEF String
<1>3. QED
  BY <1>1, <1>2 DEF Chosen, OfferInv

LEMMA AcceptSplices ==
  ASSUME OneByteTexts, OfferInv, Accept, Chosen # <<>>
  PROVE  Replaced(line, cursor, Chosen, line', cursor')
<1> DEFINE before == UpTo(line, cursor)
           start == TokenStart(before)
           last == Chosen
<1>1. line \in String /\ cursor \in 0 .. Len(line) /\ last \in String
  BY ChosenIsText DEF OfferInv
<1>2. line' = Spliced(line, start, last, cursor) /\ cursor' = start + Len(last) + 1
  BY DEF Accept, Spliced
<1>3. before = UpTo(line, cursor) /\ start = TokenStart(before)
  OBVIOUS
<1> HIDE DEF before, start, last
<1>4. ASSUME NEW after, after = Spliced(line, start, last, cursor),
             NEW place, place = start + Len(last) + 1
      PROVE  Replaced(line, cursor, last, after, place)
  BY ONLY OneByteTexts, <1>1, <1>3, <1>4, AcceptedTokens, Zenon
<1>5. Replaced(line, cursor, last, line', cursor')
  BY ONLY <1>2, <1>4, Zenon
<1>6. QED
  BY <1>5 DEF last

LEMMA OfferStart == HookInit => OfferInv
<1> SUFFICES ASSUME HookInit PROVE OfferInv
  OBVIOUS
<1>1. <<>> \in String /\ 0 \in 0 .. Len(<<>>)
  BY DEF String
<1>2. QED
  BY <1>1, NothingOffered DEF HookInit, OfferInv

LEMMA OfferStep ==
  ASSUME OneByteTexts, HookInv, OfferInv, [HookNext]_hookVars
  PROVE  OfferInv'
<1> DEFINE Typed(text, position) == text \in String /\ position \in 0 .. Len(text)
           Offers(p) == p.inserts \in Seq(String)
<1>1. SUFFICES Typed(line', cursor') /\ Offers(popup')
  BY DEF OfferInv
<1>2. Typed(line, cursor) /\ Offers(popup) /\ Offers(NoPopup)
  BY NothingOffered DEF OfferInv
<1>3. ASSUME NEW text, NEW position, Typed(text, position), FetchAndRender(text, position)
      PROVE  Offers(popup')
  <2>1. position \in Nat
    BY <1>3, TextIsSeq
  <2>2. QED
    BY <1>3, <2>1, FetchedTexts
<1>4. Typed(<<>>, 0)
  BY DEF String
<1>5. CASE SelfInsert
  <2>1. PICK char \in BoundChars :
          /\ line' = InsertChar(line, cursor, char) /\ cursor' = cursor + 1
          /\ FetchAndRender(line', cursor')
    BY <1>5 DEF SelfInsert
  <2>2. Typed(InsertChar(line, cursor, char), cursor + 1)
    BY <1>2, InsertedText
  <2> HIDE DEF Typed, Offers
  <2>3. QED
    BY <1>3, <2>1, <2>2
<1>6. CASE BackwardDelete
  <2>1. Typed(line', cursor')
    <3>1. CASE cursor > 0
      <4>1. line' = DeleteChar(line, cursor - 1) /\ cursor' = cursor - 1
        BY <1>6, <3>1 DEF BackwardDelete
      <4>2. Typed(DeleteChar(line, cursor - 1), cursor - 1)
        BY <1>2, <3>1, DeletedText
      <4> HIDE DEF Typed
      <4>3. QED
        BY <4>1, <4>2
    <3>2. CASE ~(cursor > 0)
      <4>1. line' = line /\ cursor' = 0 /\ cursor = 0
        BY <1>2, <1>6, <3>2, TextIsSeq DEF BackwardDelete
      <4> HIDE DEF Typed
      <4>2. QED
        BY <1>2, <4>1
    <3>3. QED
      BY <3>1, <3>2
  <2>2. \/ FetchAndRender(line, cursor) \/ FetchAndRender(line', cursor')
        \/ Redrawn(NoPopup)
    <3>1. CASE shell = "fish"
      BY <1>6, <3>1 DEF BackwardDelete
    <3>2. CASE shell # "fish"
      BY <1>6, <3>2 DEF BackwardDelete
    <3>3. QED
      BY <3>1, <3>2
  <2> HIDE DEF Typed, Offers
  <2>3. QED
    BY <1>2, <1>3, <2>1, <2>2 DEF Redrawn
<1>7. CASE Accept
  <2>1. popup' = NoPopup
    BY <1>7 DEF Accept, Redrawn
  <2>2. Typed(line', cursor')
    <3>1. CASE Chosen = <<>>
      BY <1>2, <1>7, <3>1 DEF Accept
    <3>2. CASE Chosen # <<>>
      BY <1>7, <3>2, AcceptSplices DEF Replaced
    <3>3. QED
      BY <3>1, <3>2
  <2>3. QED
    BY <1>2, <2>1, <2>2
<1>8. ASSUME NEW step \in {-1, 1}, Navigate(step) PROVE Typed(line', cursor') /\ Offers(popup')
  <2> DEFINE moved == [popup EXCEPT !.selected = Moved(popup, step)]
  <2>1. popup' = Shown(moved) /\ line' = line /\ cursor' = cursor
    BY <1>8 DEF Navigate, Redrawn
  <2>2. moved.inserts = popup.inserts
    BY DEF HookInv, Consistent, PopupRecord
  <2> HIDE DEF moved
  <2>3. Offers(Shown(moved))
    BY <1>2, <2>2, ShownInserts
  <2>4. QED
    BY <1>2, <2>1, <2>3
<1>9. CASE Dismiss
  BY <1>2, <1>9 DEF Dismiss, Redrawn
<1>10. CASE EditElsewhere
  BY <1>2, <1>10, HookAssumption DEF EditElsewhere
<1>11. CASE Submit
  <2>1. line' = <<>> /\ cursor' = 0 /\ (popup' = NoPopup \/ popup' = popup)
    <3>1. CASE shell = "bash"
      BY <1>11, <3>1 DEF Submit
    <3>2. CASE shell # "bash"
      BY <1>11, <3>2 DEF Submit
    <3>3. QED
      BY <3>1, <3>2
  <2> HIDE DEF Typed, Offers
  <2>2. QED
    BY <1>2, <1>4, <2>1
<1>12. CASE UNCHANGED hookVars
  BY <1>2, <1>12 DEF hookVars
<1>13. QED
  BY <1>5, <1>6, <1>7, <1>8, <1>9, <1>10, <1>11, <1>12 DEF HookNext

\* An item that was offered takes the place of the token it was looked up for, with
\* a blank after it, whatever the line: the walk of _tabra_accept finds the start of
\* the token where the daemon's parser finds it, in and after quotes and escapes,
\* and the tokens before it, and the line behind the cursor, are as they were.
THEOREM AcceptedItemReplacesToken == OneByteTexts => (HookSpec => AcceptReplacesOffered)
<1> SUFFICES ASSUME OneByteTexts PROVE HookSpec => AcceptReplacesOffered
  OBVIOUS
<1> DEFINE Followed ==
      AcceptsOffer =>
        /\ Tokenize(line', cursor')
             = [tokens |-> Before.tokens \o TokensOf(Chosen), partial |-> <<>>]
        /\ After(line', cursor') = After(line, cursor)
<1>1. OfferInv => [Followed]_hookVars
  <2> SUFFICES ASSUME OfferInv, AcceptsOffer
               PROVE  /\ Tokenize(line', cursor')
                           = [tokens |-> Before.tokens \o TokensOf(Chosen), partial |-> <<>>]
                      /\ After(line', cursor') = After(line, cursor)
    BY DEF Followed
  <2>1. Replaced(line, cursor, Chosen, line', cursor')
    BY AcceptSplices DEF AcceptsOffer
  <2>2. EndsApart(UpTo(line, cursor))
    BY DEF AcceptsOffer, EndsInQuotedBlank, EndsApart, EndsBlank
  <2>3. QED
    BY <2>1, <2>2 DEF Replaced, Before
<1>2. HookInit => HookInv /\ OfferInv
  BY HookStart, OfferStart
<1>3. HookInv /\ OfferInv /\ [HookNext]_hookVars => HookInv' /\ OfferInv'
  BY HookStep, OfferStep
<1>4. AcceptReplacesOffered <=> [][Followed]_hookVars
  BY DEF AcceptReplacesOffered
<1> HIDE DEF Followed
<1>5. QED
  BY <1>1, <1>2, <1>3, <1>4, PTL DEF HookSpec
==============================================================================
