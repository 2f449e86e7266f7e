---------------------------- MODULE SessionProofs ----------------------------
(***************************************************************************)
(* Type correctness of the session, and two of the safety properties that  *)
(* its runs check, for every size of the window, capacity of the channels, *)
(* width of the terminal, and sequence of keys and answers; before them,   *)
(* what every operation of the popup keeps.                                *)
(***************************************************************************)
EXTENDS SessionProperties, SequenceTheorems, FiniteSetTheorems, TLAPS

-----------------------------------------------------------------------------
(* Text: the types of the slicing operators.                               *)

\* Greatest is a member of its set, or 0.
LEMMA GreatestType ==
  ASSUME NEW S \in SUBSET Nat
  PROVE  Greatest(S) \in Nat /\ (Greatest(S) \in S \/ Greatest(S) = 0)
<1> DEFINE top == {n \in S : \A m \in S : m <= n}
<1>1. CASE top = {}
  BY <1>1 DEF Greatest
<1>2. CASE top # {}
  <2>1. (CHOOSE n \in top : TRUE) \in top
    BY <1>2
  <2> QED BY <1>2, <2>1 DEF Greatest
<1> QED BY <1>1, <1>2

\* A prefix and a suffix of a string are strings.
LEMMA SliceTypes ==
  ASSUME NEW S, NEW s \in Seq(S), NEW n \in Nat
  PROVE  /\ n <= Len(s) => UpTo(s, n) \in Seq(S)
         /\ After(s, n) \in Seq(S)
<1>1. ASSUME n <= Len(s) PROVE UpTo(s, n) \in Seq(S)
  <2>1. \A i \in 1 .. n : s[i] \in S
    BY <1>1, ElementOfSeq
  <2> QED BY <2>1, SubSeqProperties DEF UpTo
<1>2. After(s, n) \in Seq(S)
  <2>1. Len(s) \in Nat
    OBVIOUS
  <2>2. \A i \in n + 1 .. Len(s) : s[i] \in S
    BY <2>1, ElementOfSeq
  <2> QED BY <2>1, <2>2, SubSeqProperties DEF After
<1> QED BY <1>1, <1>2

\* The number of characters of a string is a number.
LEMMA CharCountType ==
  ASSUME NEW s \in String
  PROVE  CharCount(s) \in Nat
<1>1. Len(s) \in Nat
  BY DEF String
<1>2. IsFiniteSet(1 .. Len(s))
  BY <1>1, FS_Interval
<1>3. IsFiniteSet(Leads(s))
  BY <1>2, FS_Subset DEF Leads
<1> QED BY <1>3, FS_CardinalityType DEF CharCount

\* The byte offset of a character lies in the string.
LEMMA CharToByteType ==
  ASSUME NEW s \in String, NEW index
  PROVE  CharToByte(s, index) \in 0 .. Len(s)
<1> DEFINE found == {i \in Leads(s) : Cardinality({j \in Leads(s) : j < i}) = index}
<1>1. Len(s) \in Nat
  BY DEF String
<1>2. CASE found = {}
  BY <1>1, <1>2 DEF CharToByte
<1>3. CASE found # {}
  <2> DEFINE lead == CHOOSE i \in found : TRUE
  <2>1. lead \in found
    BY <1>3
  <2>2. lead \in 1 .. Len(s)
    BY <2>1 DEF Leads
  <2>3. CharToByte(s, index) = lead - 1
    BY <1>3 DEF CharToByte
  <2> HIDE DEF lead
  <2> QED BY <1>1, <2>2, <2>3
<1> QED BY <1>2, <1>3

\* Inserting and deleting a character make a string of a string.
LEMMA EditTypes ==
  ASSUME NEW s \in String, NEW index, NEW ch \in String
  PROVE  InsertChar(s, index, ch) \in String /\ DeleteChar(s, index) \in String
<1> DEFINE from == CharToByte(s, index)
           to == CharToByte(s, index + 1)
<1>1. from \in Nat /\ from <= Len(s) /\ to \in Nat
  <2>1. Len(s) \in Nat
    BY DEF String
  <2>2. from \in 0 .. Len(s) /\ to \in 0 .. Len(s)
    BY CharToByteType
  <2> HIDE DEF from, to
  <2> QED BY <2>1, <2>2
<1>2. UpTo(s, from) \in Seq(Bytes) /\ After(s, from) \in Seq(Bytes)
      /\ After(s, to) \in Seq(Bytes)
  <2> HIDE DEF from, to
  <2> QED BY <1>1, SliceTypes DEF String
<1>3. UpTo(s, from) \o ch \in Seq(Bytes)
  BY <1>2, ConcatProperties DEF String
<1>4. UpTo(s, from) \o ch \o After(s, from) \in Seq(Bytes)
  BY <1>2, <1>3, ConcatProperties
<1>5. UpTo(s, from) \o After(s, to) \in Seq(Bytes)
  BY <1>2, ConcatProperties
<1> QED BY <1>4, <1>5 DEF InsertChar, DeleteChar, String

\* The start of the current token is an offset.
LEMMA FindTokenStartType ==
  ASSUME NEW line, NEW cursor
  PROVE  FindTokenStart(line, cursor) \in Nat
<1>1. \A s : TokenBoundaries(s) \in SUBSET Nat
  BY DEF TokenBoundaries
<1> QED BY <1>1, GreatestType DEF FindTokenStart

-----------------------------------------------------------------------------
(* The popup.                                                              *)

\* The empty list of items and the empty string.
LEMMA NoItems == <<>> \in Seq(String) /\ <<>> \in String
BY EmptySeq DEF String

\* Every action built from numbers is an action.
LEMMA ActionTypesOf ==
  /\ \A type \in ActionTypes : Action(type) \in PopupAction
  /\ \A lines \in Nat : Erase(lines) \in PopupAction
                        /\ EraseAndForward(lines) \in PopupAction
  /\ \A lines, prev, row \in Nat : Show(lines, prev, row) \in PopupAction
  /\ \A start \in Nat, insert \in String : Accept(start, insert) \in PopupAction
BY NoItems DEF Action, Erase, EraseAndForward, Show, Accept, PopupAction, ActionTypes

\* A popup that is closed is consistent.
LEMMA ClosedType ==
  ASSUME NEW p \in Popup
  PROVE  Closed(p) \in Popup /\ PopupConsistent(Closed(p))
<1>1. Closed(p) \in Popup
  BY NoItems DEF Closed, Popup
<1>2. ~Closed(p).visible /\ Closed(p).items = <<>> /\ Closed(p).popupLines = 0
  BY DEF Closed, Popup
<1> QED BY <1>1, <1>2 DEF PopupConsistent

\* The window of a shown popup has rows, no more than fit, and one of them is
\* the selected item's.
LEMMA WindowBounds ==
  ASSUME NEW p \in Popup, p.items # <<>>, p.selected < Len(p.items)
  PROVE  /\ WindowLength(p) \in 1 .. MaxVisible
         /\ WindowStart(p) \in Nat
         /\ p.selected - WindowStart(p) \in 0 .. WindowLength(p) - 1
         /\ WindowStart(p) + WindowLength(p) <= Len(p.items)
<1>1. Len(p.items) \in Nat \ {0}
  BY EmptySeq DEF Popup
<1>2. p.selected \in Nat /\ MaxVisible \in Nat \ {0}
  BY PopupAssumption DEF Popup
<1> QED BY <1>1, <1>2 DEF WindowLength, WindowStart, Least

\* A popup to be drawn highlights one of at most MaxVisible rows.
Drawable(action) ==
  action.type = "Show" => action.row < action.lines /\ action.lines <= MaxVisible

Outcome(result) ==
  /\ result.popup \in Popup
  /\ PopupConsistent(result.popup)
  /\ result.action \in PopupAction
  /\ Drawable(result.action)

\* Hiding leaves a closed popup, whatever it finds shown.
LEMMA HideKeeps ==
  ASSUME NEW p \in Popup, ~p.visible => PopupConsistent(p)
  PROVE  Outcome(Hide(p))
<1>1. CASE ~p.visible
  BY <1>1, ActionTypesOf DEF Hide, Result, Outcome, ActionTypes, Drawable, Action
<1>2. CASE p.visible
  <2> DEFINE q == [Closed(p) EXCEPT !.selected = 0]
  <2>1. q \in Popup
    BY NoItems DEF Closed, Popup
  <2>2. ~q.visible /\ q.items = <<>> /\ q.popupLines = 0
    BY DEF Closed, Popup
  <2>3. PopupConsistent(q)
    BY <2>2 DEF PopupConsistent
  <2>4. Erase(p.popupLines) \in PopupAction
    BY ActionTypesOf DEF Popup
  <2>5. Hide(p) = Result(q, Erase(p.popupLines))
    BY <1>2 DEF Hide
  <2>6. Hide(p).popup = q /\ Hide(p).action = Erase(p.popupLines)
    BY <2>5 DEF Result
  <2> HIDE DEF q
  <2> QED BY <2>1, <2>3, <2>4, <2>6 DEF Outcome, Drawable, Erase, Action
<1> QED BY <1>1, <1>2

\* Drawing the window of a shown popup leaves it consistent, also when the
\* terminal is too narrow to draw it.
LEMMA RenderKeeps ==
  ASSUME NEW p \in Popup, NEW prev \in Nat,
         p.visible, p.items # <<>>, p.selected < Len(p.items),
         TooNarrow(p.terminalCols) => p.popupLines = WindowLength(p)
  PROVE  Outcome(RenderInplace(p, prev))
<1>1. CASE TooNarrow(p.terminalCols)
  <2>1. RenderInplace(p, prev) = Result(p, Action("Panic"))
    BY <1>1 DEF RenderInplace
  <2>2. PopupConsistent(p)
    BY <1>1 DEF PopupConsistent
  <2>3. Action("Panic") \in PopupAction
    BY ActionTypesOf DEF ActionTypes
  <2> QED BY <2>1, <2>2, <2>3 DEF Outcome, Result, Drawable, Action
<1>2. CASE ~TooNarrow(p.terminalCols)
  <2> DEFINE q == [p EXCEPT !.popupLines = WindowLength(p)]
             action == Show(WindowLength(p), prev, p.selected - WindowStart(p))
  <2>1. WindowLength(p) \in Nat /\ p.selected - WindowStart(p) \in Nat
    BY WindowBounds, PopupAssumption
  <2>2. q \in Popup /\ action \in PopupAction
    BY <2>1, ActionTypesOf DEF Popup
  <2>3. q.visible /\ q.items = p.items /\ q.selected = p.selected
        /\ q.popupLines = WindowLength(p)
    BY DEF Popup
  <2>4. PopupConsistent(q)
    BY <2>3 DEF PopupConsistent, WindowLength
  <2>5. RenderInplace(p, prev) = Result(q, action)
    BY <1>2 DEF RenderInplace
  <2>6. RenderInplace(p, prev).popup = q /\ RenderInplace(p, prev).action = action
    BY <2>5 DEF Result
  <2>7. Drawable(action)
    BY WindowBounds, PopupAssumption DEF Drawable, Show, Action
  <2> HIDE DEF q, action
  <2> QED BY <2>2, <2>4, <2>6, <2>7 DEF Outcome
<1> QED BY <1>1, <1>2

(* The daemon's answer keeps the popup consistent, provided that items come *)
(* only for a terminal they can be drawn on.                               *)
LEMMA AnsweredKeeps ==
  ASSUME NEW p \in Popup, PopupConsistent(p), NEW items \in Seq(String),
         items # <<>> => ~TooNarrow(p.terminalCols)
  PROVE  Outcome(Answered(p, items))
<1>1. CASE items = <<>>
  BY <1>1, HideKeeps DEF Answered
<1>2. CASE items # <<>>
  <2> DEFINE q == WithItems(p, items)
             prev == RowsShown(p)
  <2>1. q \in Popup /\ prev \in Nat
    BY DEF Popup, WithItems, RowsShown
  <2>2. q.visible /\ q.items = items /\ q.selected = 0 /\ q.terminalCols = p.terminalCols
    BY DEF Popup, WithItems
  <2>3. 0 < Len(items)
    BY <1>2, EmptySeq
  <2>4. Answered(p, items) = RenderInplace(q, prev)
    BY <1>2 DEF Answered
  <2> HIDE DEF q, prev
  <2> QED BY <1>2, <2>1, <2>2, <2>3, <2>4, RenderKeeps
<1> QED BY <1>1, <1>2

\* A remainder is smaller than the divisor.
LEMMA Remainder ==
  ASSUME NEW m \in Nat, NEW n \in Nat \ {0}
  PROVE  m % n \in 0 .. n - 1
BY Z3

\* Moving the selection, in either direction and around the ends.
LEMMA SelectKeeps ==
  ASSUME NEW p \in Popup, PopupConsistent(p), p.visible, NEW item \in Nat
  PROVE  Outcome(Select(p, item))
<1> DEFINE q == [p EXCEPT !.selected = item % Len(p.items)]
<1>1. p.items # <<>> /\ Len(p.items) \in Nat \ {0} /\ p.popupLines \in Nat
  BY EmptySeq DEF PopupConsistent, Popup
<1>2. item % Len(p.items) \in 0 .. Len(p.items) - 1
  BY <1>1, Remainder
<1>3. q \in Popup
  BY <1>1, <1>2 DEF Popup
<1>4. q.visible /\ q.items = p.items /\ q.selected < Len(p.items)
      /\ q.terminalCols = p.terminalCols /\ q.popupLines = p.popupLines
  BY <1>1, <1>2 DEF Popup
<1>5. q.popupLines = WindowLength(q)
  BY <1>4 DEF PopupConsistent, WindowLength
<1>6. Select(p, item) = RenderInplace(q, p.popupLines)
  BY <1>1 DEF Select
<1> HIDE DEF q
<1> QED BY <1>1, <1>3, <1>4, <1>5, <1>6, RenderKeeps

\* Accepting closes the popup, or panics and leaves it as it was.
LEMMA AcceptKeeps ==
  ASSUME NEW p \in Popup, PopupConsistent(p), p.visible
  PROVE  Outcome(AcceptSelected(p))
<1> DEFINE boundary == IsBoundary(p.lastBuffer, Least(p.lastCursor, Len(p.lastBuffer)))
           start == FindTokenStart(p.lastBuffer, p.lastCursor)
           insert == p.items[p.selected + 1]
<1>1. p.selected < Len(p.items) /\ p.selected \in Nat /\ Len(p.items) \in Nat
  BY DEF PopupConsistent, Popup
<1>2. CASE ~boundary
  <2>1. AcceptSelected(p) = Result(p, Action("Panic"))
    BY <1>1, <1>2 DEF AcceptSelected
  <2>2. Action("Panic") \in PopupAction
    BY ActionTypesOf DEF ActionTypes
  <2> QED BY <2>1, <2>2 DEF Outcome, Result, Drawable, Action
<1>3. CASE boundary
  <2>1. AcceptSelected(p) = Result(Closed(p), Accept(start, insert))
    BY <1>1, <1>3 DEF AcceptSelected
  <2>2. start \in Nat
    BY FindTokenStartType
  <2>3. insert \in String
    BY <1>1, ElementOfSeq DEF Popup
  <2>4. Accept(start, insert) \in PopupAction
    BY <2>2, <2>3, ActionTypesOf
  <2>5. AcceptSelected(p).popup = Closed(p)
        /\ AcceptSelected(p).action = Accept(start, insert)
    BY <2>1 DEF Result
  <2>6. Drawable(Accept(start, insert))
    BY DEF Drawable, Accept, Action
  <2> HIDE DEF start, insert
  <2> QED BY <2>4, <2>5, <2>6, ClosedType DEF Outcome
<1> QED BY <1>2, <1>3

(* Every key keeps the popup consistent, whatever it is and whatever the   *)
(* popup shows (popup.rs on_key).                                          *)
THEOREM OnKeyKeeps ==
  ASSUME NEW p \in Popup, PopupConsistent(p), NEW key
  PROVE  Outcome(OnKey(p, key))
<1>0. Outcome(Result(p, Action("ForwardKey")))
  BY ActionTypesOf DEF Outcome, Result, ActionTypes, Drawable, Action
<1>1. CASE ~p.visible
  BY <1>0, <1>1 DEF OnKey
<1>2. CASE p.visible
  <2>1. p.selected + 1 \in Nat /\ p.selected + Len(p.items) - 1 \in Nat
    BY <1>2 DEF PopupConsistent, Popup
  <2>2. Outcome(Result([Closed(p) EXCEPT !.selected = 0], EraseAndForward(p.popupLines)))
    <3> DEFINE q == [Closed(p) EXCEPT !.selected = 0]
    <3>1. q \in Popup
      BY NoItems DEF Closed, Popup
    <3>2. PopupConsistent(q)
      BY DEF Closed, Popup, PopupConsistent
    <3>3. EraseAndForward(p.popupLines) \in PopupAction
      BY ActionTypesOf DEF Popup
    <3>5. Outcome(Result(q, EraseAndForward(p.popupLines)))
      <4> HIDE DEF q
      <4> QED BY <3>1, <3>2, <3>3 DEF Outcome, Result, Drawable, EraseAndForward, Action
    <3> QED BY <3>5
  <2>3. CASE key.type = "Tab"
    BY <1>2, <2>3, AcceptKeeps DEF OnKey
  <2>4. CASE key.type = "Escape"
    BY <1>2, <2>4, HideKeeps DEF OnKey
  <2>5. CASE key.type = "ArrowDown"
    BY <1>2, <2>1, <2>5, SelectKeeps DEF OnKey
  <2>6. CASE key.type = "ArrowUp"
    BY <1>2, <2>1, <2>6, SelectKeeps DEF OnKey
  <2>7. CASE key.type = "Enter"
    BY <1>2, <2>2, <2>7 DEF OnKey
  <2>8. CASE key.type \notin {"Tab", "Escape", "ArrowDown", "ArrowUp", "Enter"}
    BY <1>0, <1>2, <2>8 DEF OnKey
  <2> QED BY <2>3, <2>4, <2>5, <2>6, <2>7, <2>8
<1> QED BY <1>1, <1>2

-----------------------------------------------------------------------------
(* The session.                                                            *)

(* What the tasks have in hand fits where they are: the key that is read,  *)
(* the kind of action that is being carried out, the event at the head.    *)
InHand ==
  /\ stdin.pc \in {"onKey", "measure", "send", "splice", "inject", "forward", "track",
                   "notify"} => stdin.key \in Keys
  /\ stdin.pc = "measure" => stdin.action.type = "Accept"
  /\ stdin.pc = "send" =>
       stdin.action.type \in {"Show", "Erase", "EraseAndForward", "Accept"}
  /\ Drawable(stdin.action)
  /\ Drawable(debounce.action)
  /\ ptyTask.pc \in {"events", "reset", "erase"} => ptyTask.events # <<>>

\* The inductive invariant.
IInv == TypeOK /\ PopupAlwaysConsistent /\ SelectionIsDrawn /\ InHand

-----------------------------------------------------------------------------
\* An action without text and without rows.
LEMMA NothingType ==
  /\ Action("Nothing") \in PopupAction
  /\ Drawable(Action("Nothing"))
  /\ Action("Nothing").type = "Nothing"
<1>1. Action("Nothing") \in PopupAction
  BY ActionTypesOf DEF ActionTypes
<1> QED BY <1>1 DEF Drawable, Action

\* The number of rows of a window.
LEMMA WindowLengthType ==
  ASSUME NEW p \in Popup
  PROVE  WindowLength(p) \in Nat
BY PopupAssumption DEF WindowLength, Least, Popup

-----------------------------------------------------------------------------
(* The types of what the session builds.                                   *)

\* A task that is back at its channel has nothing in hand.
LEMMA BackAtChannel ==
  /\ Reading.pc = "read" /\ Reading.key = NoKey /\ Reading.action = Action("Nothing")
  /\ Reading.line \in String
  /\ Waiting.pc = "recv" /\ Waiting.action = Action("Nothing")
  /\ Waiting.buffer \in String /\ Waiting.cursor \in Nat
  /\ Processing.pc = "recv" /\ Processing.events = <<>> /\ Processing.lines = 0
BY NoItems DEF Reading, Waiting, Processing

\* The types of such a task.
LEMMA BackAtChannelTypes ==
  /\ Reading \in [pc : {"read"}, key : Keys \cup {NoKey}, action : PopupAction, line : String]
  /\ Waiting \in [pc : {"recv"}, buffer : String, cursor : Nat, action : PopupAction]
  /\ [Waiting EXCEPT !.pc = "panicked"]
       \in [pc : {"panicked"}, buffer : String, cursor : Nat, action : PopupAction]
BY NothingType, NoItems DEF Reading, Waiting

\* A popup that can be drawn stays so in the channel.
LEMMA WriteKeeps ==
  ASSUME TypeOK, SelectionIsDrawn, NEW write \in TerminalWrite, SendWrite(write),
         write.type = "ShowPopup" => write.row < write.lines /\ write.lines <= MaxVisible
  PROVE  writeCh' \in Seq(TerminalWrite) /\ SelectionIsDrawn'
<1>1. writeCh \in Seq(TerminalWrite) /\ writeCh' = Append(writeCh, write)
  BY DEF TypeOK, SendWrite
<1>2. writeCh' \in Seq(TerminalWrite) /\ DOMAIN writeCh' = 1 .. Len(writeCh) + 1
  BY <1>1
<1>3. \A i \in 1 .. Len(writeCh) : writeCh'[i] = writeCh[i] /\ i \in DOMAIN writeCh
  BY <1>1
<1>4. writeCh'[Len(writeCh) + 1] = write
  BY <1>1
<1> QED BY <1>1, <1>2, <1>3, <1>4 DEF SelectionIsDrawn

\* What the stdin task sends to the terminal.
LEMMA StdinWriteType ==
  ASSUME NEW action \in PopupAction, Drawable(action),
         action.type \in {"Show", "Erase", "EraseAndForward", "Accept"}
  PROVE  /\ StdinWrite(action) \in TerminalWrite
         /\ StdinWrite(action).type = "ShowPopup" =>
              /\ StdinWrite(action).row < StdinWrite(action).lines
              /\ StdinWrite(action).lines <= MaxVisible
<1>1. CASE action.type = "Show"
  BY <1>1 DEF StdinWrite, ShowPopup, TerminalWrite, PopupAction, Drawable
<1>2. CASE action.type = "Erase"
  BY <1>2 DEF StdinWrite, ErasePopup, TerminalWrite, PopupAction
<1>3. CASE action.type = "EraseAndForward"
  BY <1>3 DEF StdinWrite, ErasePopup, TerminalWrite, PopupAction
<1>4. CASE action.type = "Accept"
  BY <1>4 DEF StdinWrite, ErasePopup, TerminalWrite, PopupAction
<1> QED BY <1>1, <1>2, <1>3, <1>4

\* A blank is a string.
LEMMA BlankType == <<" ">> \in Seq(Bytes)
<1>1. \A byte \in Bytes : <<byte>> \in Seq(Bytes)
  OBVIOUS
<1>2. " " \in Bytes
  BY SessionAssumption
<1> QED BY <1>1, <1>2

\* The line that an accepted suggestion should leave.
LEMMA WordReplacedType ==
  ASSUME NEW line \in String, NEW cursor, NEW insert \in String
  PROVE  WordReplaced(line, cursor, insert) \in String
<1> DEFINE offset == CharToByte(line, cursor)
           blanks == {n \in 1 .. offset : line[n] \in Blanks}
           start == Greatest(blanks)
<1>1. Len(line) \in Nat /\ offset \in Nat /\ offset <= Len(line)
  <2>1. Len(line) \in Nat
    BY DEF String
  <2>2. offset \in 0 .. Len(line)
    BY CharToByteType
  <2> HIDE DEF offset
  <2> QED BY <2>1, <2>2
<1>2. blanks \in SUBSET Nat /\ \A n \in blanks : n <= Len(line)
  <2> HIDE DEF offset
  <2> QED BY <1>1
<1>3. start \in Nat /\ start <= Len(line)
  <2>1. start \in Nat /\ (start \in blanks \/ start = 0)
    <3> HIDE DEF blanks
    <3> QED BY <1>2, GreatestType
  <2> HIDE DEF blanks, start
  <2> QED BY <1>1, <1>2, <2>1
<1>4. WordReplaced(line, cursor, insert) =
        UpTo(line, start) \o insert \o <<" ">> \o After(line, offset)
  BY DEF WordReplaced
<1> HIDE DEF start, offset
<1>5. UpTo(line, start) \in Seq(Bytes) /\ After(line, offset) \in Seq(Bytes)
      /\ <<" ">> \in Seq(Bytes)
  BY <1>1, <1>3, SliceTypes, BlankType DEF String
<1>6. UpTo(line, start) \o insert \in Seq(Bytes)
  BY <1>5, ConcatProperties DEF String
<1>7. UpTo(line, start) \o insert \o <<" ">> \in Seq(Bytes)
  BY <1>5, <1>6, ConcatProperties
<1> QED BY <1>4, <1>5, <1>7, ConcatProperties DEF String

\* The line that is cut out of the last buffer.
LEMMA SplicedType ==
  ASSUME NEW p \in Popup, NEW action \in PopupAction,
         IsBoundary(p.lastBuffer, action.tokenStart)
  PROVE  Spliced(p, action) \in String
<1>1. /\ p.lastBuffer \in Seq(Bytes) /\ p.lastCursor \in Nat
      /\ action.insert \in Seq(Bytes) /\ action.tokenStart \in Nat
  BY DEF Popup, PopupAction, String
<1>2. action.tokenStart <= Len(p.lastBuffer)
  BY <1>1 DEF IsBoundary
<1>3. UpTo(p.lastBuffer, action.tokenStart) \in Seq(Bytes)
      /\ After(p.lastBuffer, p.lastCursor) \in Seq(Bytes) /\ <<" ">> \in Seq(Bytes)
  <2>1. <<" ">> \in Seq(Bytes)
    BY BlankType
  <2>2. UpTo(p.lastBuffer, action.tokenStart) \in Seq(Bytes)
    BY <1>1, <1>2, SliceTypes
  <2>3. After(p.lastBuffer, p.lastCursor) \in Seq(Bytes)
    BY <1>1, SliceTypes
  <2> QED BY <2>1, <2>2, <2>3
<1>4. UpTo(p.lastBuffer, action.tokenStart) \o action.insert \in Seq(Bytes)
  BY <1>1, <1>3, ConcatProperties
<1>5. UpTo(p.lastBuffer, action.tokenStart) \o action.insert \o <<" ">> \in Seq(Bytes)
  BY <1>3, <1>4, ConcatProperties
<1> QED BY <1>3, <1>5, ConcatProperties DEF Spliced, String

\* The tracker after a key.
LEMMA TrackKeyType ==
  ASSUME NEW t \in Tracker, NEW key \in Keys
  PROVE  TrackKey(t, key) \in Tracker
<1>1. t.buffer \in String /\ t.cursor \in Nat /\ key.text \in String
  BY SessionAssumption DEF Tracker
<1>2. CASE key.type = "Char"
  BY <1>1, <1>2, EditTypes DEF TrackKey, Tracker
<1>3. CASE key.type = "Backspace" /\ t.cursor > 0
  <2>1. DeleteChar(t.buffer, t.cursor - 1) \in String
    BY <1>1, NoItems, EditTypes
  <2>2. Backspaced(t) \in Tracker
    BY <1>1, <1>3, <2>1 DEF Backspaced, Tracker
  <2> QED BY <1>3, <2>2 DEF TrackKey
<1>4. CASE key.type # "Char" /\ ~(key.type = "Backspace" /\ t.cursor > 0)
  BY <1>1, <1>4, NoItems DEF TrackKey, Backspaced, Tracker, EmptyTracker
<1> QED BY <1>2, <1>3, <1>4

\* The rest of a chunk that is left when the text before its first event is
\* passed through: not empty while the task handles events.
LEMMA WithEventsType ==
  ASSUME NEW rest \in Seq(Output)
  PROVE  /\ WithEvents(rest) \in [pc : {"recv", "events"}, events : Seq(Output), lines : Nat]
         /\ WithEvents(rest).pc = "events" => WithEvents(rest).events # <<>>
<1> DEFINE texts == {n \in 1 .. Len(rest) : \A i \in 1 .. n : ~IsEvent(rest[i])}
           passed == Greatest(texts)
<1>1. Len(rest) \in Nat
  OBVIOUS
<1>2. texts \in SUBSET Nat /\ \A n \in texts : n <= Len(rest)
  BY <1>1
<1>3. passed \in Nat /\ passed <= Len(rest)
  <2>1. passed \in Nat /\ (passed \in texts \/ passed = 0)
    <3> HIDE DEF texts
    <3> QED BY <1>2, GreatestType
  <2> HIDE DEF texts, passed
  <2> QED BY <1>1, <1>2, <2>1
<1>4. WithEvents(rest) =
        IF passed = Len(rest) THEN Processing
        ELSE [Processing EXCEPT !.pc = "events", !.events = After(rest, passed)]
  BY DEF WithEvents
<1> HIDE DEF passed
<1>5. CASE passed = Len(rest)
  BY <1>4, <1>5, EmptySeq DEF Processing
<1>6. CASE passed # Len(rest)
  <2>1. After(rest, passed) \in Seq(Output)
    BY <1>3, SliceTypes
  <2>2. Len(After(rest, passed)) > 0
    BY <1>1, <1>3, <1>6, SubSeqProperties DEF After
  <2>3. After(rest, passed) # <<>>
    BY <2>2
  <2>4. WithEvents(rest) = [pc |-> "events", events |-> After(rest, passed), lines |-> 0]
    BY <1>4, <1>6 DEF Processing
  <2> QED BY <2>1, <2>3, <2>4
<1> QED BY <1>5, <1>6

\* What a chunk writes to the terminal.
LEMMA PassthroughType ==
  ASSUME NEW chunk \in Seq(Output)
  PROVE  Passthrough(chunk) \in TerminalWrite /\ Passthrough(chunk).type = "Passthrough"
<1> DEFINE cleared == {i \in Newlines(chunk) : chunk[i].cleared}
<1>1. IsFiniteSet(1 .. Len(chunk))
  BY FS_Interval
<1>2. IsFiniteSet(Newlines(chunk)) /\ IsFiniteSet(cleared)
  <2>1. IsFiniteSet(Newlines(chunk))
    BY <1>1, FS_Subset DEF Newlines
  <2> QED BY <2>1, FS_Subset
<1>3. Cardinality(Newlines(chunk)) \in Nat /\ Cardinality(cleared) \in Nat
  BY <1>2, FS_CardinalityType
<1>4. Passthrough(chunk) = [type |-> "Passthrough", newlines |-> Cardinality(Newlines(chunk)),
                            cleared |-> Cardinality(cleared)]
  BY DEF Passthrough
<1> HIDE DEF cleared
<1> QED BY <1>3, <1>4 DEF TerminalWrite

\* The shell after a key and after a replaced line, and what it writes.
LEMMA ShellTypes ==
  ASSUME NEW sh \in ShellState
  PROVE  /\ \A key \in Keys : KeyRead(sh, key) \in ShellState
         /\ \A key \in Keys, cleared \in BOOLEAN : KeyOutput(sh, key, cleared) \in Seq(Output)
         /\ \A line \in String : LineReplaced(sh, line) \in ShellState
                                 /\ ReplaceOutput(sh, line) \in Seq(Output)
<1>1. sh.line \in String /\ sh.cursor \in Nat
  BY DEF ShellState
<1>2. ASSUME NEW key \in Keys PROVE KeyRead(sh, key) \in ShellState
  <2>1. key.text \in String
    BY SessionAssumption
  <2>2. CASE key.type = "Char"
    <3>1. InsertChar(sh.line, sh.cursor, key.text) \in String /\ sh.cursor + 1 \in Nat
      BY <1>1, <2>1, EditTypes
    <3>2. KeyRead(sh, key) = [sh EXCEPT !.line = InsertChar(sh.line, sh.cursor, key.text),
                                        !.cursor = sh.cursor + 1]
      BY <2>2 DEF KeyRead
    <3> QED BY <3>1, <3>2 DEF ShellState
  <2>3. CASE key.type = "Backspace" /\ sh.cursor > 0
    <3>1. DeleteChar(sh.line, sh.cursor - 1) \in String
      BY <1>1, NoItems, EditTypes
    <3>2. KeyRead(sh, key) = [sh EXCEPT !.line = DeleteChar(sh.line, sh.cursor - 1),
                                        !.cursor = sh.cursor - 1]
      BY <2>3 DEF KeyRead
    <3>3. sh.cursor - 1 \in Nat
      BY <1>1, <2>3
    <3> QED BY <3>1, <3>2, <3>3 DEF ShellState
  <2>4. CASE key.type # "Char" /\ ~(key.type = "Backspace" /\ sh.cursor > 0)
    BY <1>1, <2>4, NoItems DEF KeyRead, ShellState
  <2> QED BY <2>2, <2>3, <2>4
<1>3. ASSUME NEW line \in String PROVE LineReplaced(sh, line) \in ShellState
  BY CharCountType DEF LineReplaced, ShellState
<1>4. ASSUME NEW s \in ShellState PROVE Report(s) \in Seq(Output)
  <2>1. CommandLine(s) \in Output
    BY DEF CommandLine, Output, ShellState
  <2> QED BY <2>1, EmptySeq DEF Report
<1>5. Echo \in Output /\ \A cleared \in BOOLEAN : Newline(cleared) \in Output
  BY DEF Echo, Newline, Output
<1>6. ASSUME NEW s \in ShellState PROVE <<Echo>> \o Report(s) \in Seq(Output)
  BY <1>4, <1>5, ConcatProperties
<1>7. ASSUME NEW key \in Keys, NEW cleared \in BOOLEAN
      PROVE  KeyOutput(sh, key, cleared) \in Seq(Output)
  BY <1>2, <1>5, <1>6 DEF KeyOutput
<1>8. ASSUME NEW line \in String PROVE ReplaceOutput(sh, line) \in Seq(Output)
  BY <1>3, <1>6 DEF ReplaceOutput
<1> QED BY <1>2, <1>3, <1>7, <1>8

\* The rows of the screen after a write.
LEMMA WrittenType ==
  ASSUME NEW rows \in SUBSET (1 .. MaxVisible + 2), NEW write \in TerminalWrite,
         write.type = "ShowPopup" => write.lines <= MaxVisible
  PROVE  Written(rows, write) \subseteq 1 .. MaxVisible + 2
<1>1. CASE write.type = "ShowPopup"
  BY <1>1, PopupAssumption DEF Written, TerminalWrite
<1>2. CASE write.type = "ErasePopup"
  BY <1>2 DEF Written
<1>3. CASE write.type = "Passthrough"
  BY <1>3 DEF Written
<1> QED BY <1>1, <1>2, <1>3 DEF TerminalWrite

-----------------------------------------------------------------------------
(* The invariant, step by step.                                            *)

\* It holds initially.
LEMMA InitInv == Init => IInv
<1> SUFFICES ASSUME Init PROVE IInv
  OBVIOUS
<1>1. TypeOK
  <2>1. input \in Seq(Keys)
    BY SessionAssumption DEF Init
  <2>2. popup \in Popup
    BY SessionAssumption, NoItems DEF Init, NewPopup, Popup
  <2>3. tracker \in Tracker /\ shell \in ShellState /\ history \in [expected : String, cleared : Nat, submitted : Nat]
    BY NoItems, ShellAssumption DEF Init, EmptyTracker, Tracker, StartingShell, ShellState, NoHistory
  <2>4. stdin \in [pc : {"read", "onKey", "measure", "send", "splice", "inject", "forward",
                      "track", "notify", "ended", "panicked", "aborted"},
                key : Keys \cup {NoKey}, action : PopupAction, line : String]
    BY NothingType, NoItems DEF Init, Reading
  <2>5. debounce \in [pc : {"recv", "drain", "lock", "fetch", "dispatch", "panicked", "aborted"},
                   buffer : String, cursor : Nat, action : PopupAction]
    BY NothingType, NoItems DEF Init, Waiting
  <2>6. ptyTask \in [pc : {"recv", "pass", "events", "reset", "erase", "ended"},
                  events : Seq(Output), lines : Nat]
    BY EmptySeq DEF Init, Processing
  <2> QED BY <2>1, <2>2, <2>3, <2>4, <2>5, <2>6, EmptySeq DEF TypeOK, Init
<1>2. PopupAlwaysConsistent
  BY DEF Init, PopupAlwaysConsistent, PopupConsistent, NewPopup
<1>3. SelectionIsDrawn
  BY DEF Init, SelectionIsDrawn
<1>4. InHand
  BY NothingType DEF Init, InHand, Reading, Waiting, Processing
<1> QED BY <1>1, <1>2, <1>3, <1>4 DEF IInv

\* A key is taken from the terminal.
LEMMA StdinReadKeeps == IInv /\ StdinRead => IInv'
<1> SUFFICES ASSUME IInv, StdinRead PROVE IInv'
  OBVIOUS
<1> USE DEF StdinRead, channels
<1>0. Head(input) \in Keys /\ Tail(input) \in Seq(Keys)
  BY HeadTailProperties DEF IInv, TypeOK
<1>1. TypeOK'
  BY <1>0 DEF IInv, TypeOK
<1>2. PopupAlwaysConsistent'
  BY DEF IInv, PopupAlwaysConsistent
<1>3. SelectionIsDrawn'
  BY DEF IInv, SelectionIsDrawn
<1>4. InHand'
  BY <1>0 DEF IInv, TypeOK, InHand
<1> QED BY <1>1, <1>2, <1>3, <1>4 DEF IInv

\* The stdin task ends.
LEMMA StdinEofKeeps == IInv /\ StdinEof => IInv'
<1> SUFFICES ASSUME IInv, StdinEof PROVE IInv'
  OBVIOUS
<1> USE DEF StdinEof, channels
<1>0. /\ stdin'.pc = "ended" /\ stdin'.action = Action("Nothing")
      /\ stdin'.key = NoKey /\ stdin'.line \in String
      /\ stdin' = [pc |-> "ended", key |-> NoKey, action |-> Action("Nothing"), line |-> <<>>]
  BY NoItems DEF Reading
<1>1. TypeOK'
  BY <1>0, NothingType, NoItems DEF IInv, TypeOK
<1>2. PopupAlwaysConsistent'
  BY DEF IInv, PopupAlwaysConsistent
<1>3. SelectionIsDrawn'
  BY DEF IInv, SelectionIsDrawn
<1>4. InHand'
  BY <1>0, NothingType DEF IInv, InHand
<1> QED BY <1>1, <1>2, <1>3, <1>4 DEF IInv

\* The rows of an accepted popup are counted.
LEMMA StdinMeasureKeeps == IInv /\ StdinMeasure => IInv'
<1> SUFFICES ASSUME IInv, StdinMeasure PROVE IInv'
  OBVIOUS
<1> USE DEF StdinMeasure, channels
<1>0. WindowLength(popup) \in Nat
  BY WindowLengthType DEF IInv, TypeOK
<1>1. TypeOK'
  BY <1>0 DEF IInv, TypeOK, PopupAction
<1>2. PopupAlwaysConsistent'
  BY DEF IInv, PopupAlwaysConsistent
<1>3. SelectionIsDrawn'
  BY DEF IInv, SelectionIsDrawn
<1>4. InHand'
  BY <1>0 DEF IInv, TypeOK, InHand, Drawable, PopupAction
<1> QED BY <1>1, <1>2, <1>3, <1>4 DEF IInv

\* A replaced line is sent to the shell.
LEMMA StdinInjectKeeps == IInv /\ StdinInject => IInv'
<1> SUFFICES ASSUME IInv, StdinInject PROVE IInv'
  OBVIOUS
<1> USE DEF StdinInject, channels
<1>0. [type |-> "Line", line |-> stdin.line] \in ToShell
  BY DEF IInv, TypeOK, ToShell
<1>5. Reading.key = NoKey /\ Reading.pc = "read" /\ Reading.action = Action("Nothing")
      /\ Reading.line \in String
  BY NoItems DEF Reading
<1>1. TypeOK'
  BY <1>0, NothingType, NoItems DEF IInv, TypeOK, SendToShell, Reading
<1>2. PopupAlwaysConsistent'
  BY DEF IInv, PopupAlwaysConsistent
<1>3. SelectionIsDrawn'
  BY DEF IInv, SelectionIsDrawn
<1>4. InHand'
  BY <1>5, NothingType DEF IInv, InHand
<1> QED BY <1>1, <1>2, <1>3, <1>4 DEF IInv

\* The stdin task draws or erases the popup.
LEMMA StdinSendKeeps == IInv /\ StdinSend => IInv'
<1> SUFFICES ASSUME IInv, StdinSend PROVE IInv'
  OBVIOUS
<1> USE DEF StdinSend, channels
<1>0. /\ StdinWrite(stdin.action) \in TerminalWrite
      /\ StdinWrite(stdin.action).type = "ShowPopup" =>
           /\ StdinWrite(stdin.action).row < StdinWrite(stdin.action).lines
           /\ StdinWrite(stdin.action).lines <= MaxVisible
  BY StdinWriteType DEF IInv, TypeOK, InHand
<1>5. writeCh' \in Seq(TerminalWrite) /\ SelectionIsDrawn'
  BY <1>0, WriteKeeps DEF IInv
<1>6. stdin' = Reading \/ stdin' = [stdin EXCEPT !.pc = "forward"]
                       \/ stdin' = [stdin EXCEPT !.pc = "splice"]
  OBVIOUS
<1>1. TypeOK'
  BY <1>5, <1>6, BackAtChannel, NothingType, ZenonT(40) DEF IInv, TypeOK, Reading
<1>2. PopupAlwaysConsistent'
  BY DEF IInv, PopupAlwaysConsistent
<1>3. SelectionIsDrawn'
  BY <1>5
<1>4. InHand'
  BY <1>6, BackAtChannel, NothingType DEF IInv, TypeOK, InHand
<1> QED BY <1>1, <1>2, <1>3, <1>4 DEF IInv

\* A key is sent to the shell.
LEMMA StdinForwardKeeps == IInv /\ StdinForward => IInv'
<1> SUFFICES ASSUME IInv, StdinForward PROVE IInv'
  OBVIOUS
<1> USE DEF StdinForward, channels
<1>0. [type |-> "Key", key |-> stdin.key,
       cleared |-> stdin.action.type = "EraseAndForward"] \in ToShell
  BY DEF IInv, InHand, ToShell
<1>5. stdin' = Reading \/ stdin' = [stdin EXCEPT !.pc = "track"]
  OBVIOUS
<1>6. ptyWrite' \in Seq(ToShell)
  BY <1>0 DEF IInv, TypeOK, SendToShell
<1>1. TypeOK'
  BY <1>5, <1>6, BackAtChannel, NothingType DEF IInv, TypeOK, Reading
<1>2. PopupAlwaysConsistent'
  BY DEF IInv, PopupAlwaysConsistent
<1>3. SelectionIsDrawn'
  BY DEF IInv, SelectionIsDrawn
<1>4. InHand'
  BY <1>5, BackAtChannel, NothingType DEF IInv, TypeOK, InHand
<1> QED BY <1>1, <1>2, <1>3, <1>4 DEF IInv

\* The replaced line is cut out of the last buffer.
LEMMA StdinSpliceKeeps == IInv /\ StdinSplice => IInv'
<1> SUFFICES ASSUME IInv, StdinSplice PROVE IInv'
  OBVIOUS
<1> USE DEF StdinSplice, channels
<1>0. \/ /\ IsBoundary(popup.lastBuffer, stdin.action.tokenStart)
         /\ stdin' = [stdin EXCEPT !.pc = "inject", !.line = Spliced(popup, stdin.action)]
      \/ stdin' = [stdin EXCEPT !.pc = "panicked"]
  BY DEF SpliceOffsets
<1>5. IsBoundary(popup.lastBuffer, stdin.action.tokenStart)
        => Spliced(popup, stdin.action) \in String
  BY SplicedType DEF IInv, TypeOK
<1>6. stdin'.pc \in {"inject", "panicked"} /\ stdin'.action = stdin.action
      /\ stdin'.key = stdin.key
  BY <1>0 DEF IInv, TypeOK
<1>1. TypeOK'
  BY <1>0, <1>5, ZenonT(40) DEF IInv, TypeOK
<1>2. PopupAlwaysConsistent'
  BY DEF IInv, PopupAlwaysConsistent
<1>3. SelectionIsDrawn'
  BY DEF IInv, SelectionIsDrawn
<1>4. InHand'
  BY <1>6 DEF IInv, InHand
<1> QED BY <1>1, <1>2, <1>3, <1>4 DEF IInv

\* The tracker follows a key.
LEMMA StdinTrackKeeps == IInv /\ StdinTrack => IInv'
<1> SUFFICES ASSUME IInv, StdinTrack PROVE IInv'
  OBVIOUS
<1> USE DEF StdinTrack, channels
<1>0. TrackKey(tracker, stdin.key) \in Tracker
  BY TrackKeyType DEF IInv, TypeOK, InHand
<1>5. stdin' = Reading \/ stdin' = [stdin EXCEPT !.pc = "notify"]
  OBVIOUS
<1>1. TypeOK'
  BY <1>0, <1>5, BackAtChannel, NothingType DEF IInv, TypeOK, Reading
<1>2. PopupAlwaysConsistent'
  BY DEF IInv, PopupAlwaysConsistent
<1>3. SelectionIsDrawn'
  BY DEF IInv, SelectionIsDrawn
<1>4. InHand'
  BY <1>5, BackAtChannel, NothingType DEF IInv, TypeOK, InHand
<1> QED BY <1>1, <1>2, <1>3, <1>4 DEF IInv

\* The tracker's line is sent to the debounce task.
LEMMA StdinNotifyKeeps == IInv /\ StdinNotify => IInv'
<1> SUFFICES ASSUME IInv, StdinNotify PROVE IInv'
  OBVIOUS
<1> USE DEF StdinNotify, channels
<1>1. TypeOK'
  BY BackAtChannel, NothingType DEF IInv, TypeOK, Reading
<1>2. PopupAlwaysConsistent'
  BY DEF IInv, PopupAlwaysConsistent
<1>3. SelectionIsDrawn'
  BY DEF IInv, SelectionIsDrawn
<1>4. InHand'
  BY BackAtChannel, NothingType DEF IInv, TypeOK, InHand
<1> QED BY <1>1, <1>2, <1>3, <1>4 DEF IInv

\* The popup decides what a key means.
LEMMA StdinOnKeyKeeps == IInv /\ StdinOnKey => IInv'
<1> SUFFICES ASSUME IInv, StdinOnKey PROVE IInv'
  OBVIOUS
<1> USE DEF StdinOnKey, channels
<1> DEFINE result == OnKey(popup, stdin.key)
<1>0. Outcome(result)
  BY OnKeyKeeps DEF IInv, TypeOK, PopupAlwaysConsistent
<1>5. popup' = result.popup /\ result.action \in PopupAction /\ Drawable(result.action)
  BY <1>0 DEF Outcome
<1>6. \/ stdin' = Reading
      \/ stdin' = [stdin EXCEPT !.pc = PcFor(result.action), !.action = result.action]
  OBVIOUS
<1>7. result.action.type # "Nothing" => PcFor(result.action) \in
        {"forward", "send", "measure", "panicked"}
  BY <1>5 DEF PcFor, PopupAction, ActionTypes
<1>8. PcFor(result.action) = "measure" => result.action.type = "Accept"
  BY <1>5 DEF PcFor, PopupAction, ActionTypes
<1>9. PcFor(result.action) = "send" =>
        result.action.type \in {"Show", "Erase", "EraseAndForward"}
  BY <1>5 DEF PcFor, PopupAction, ActionTypes
<1>10. LineAfterAccept(result.action.insert) \in String
  <2>1. result.action.insert \in String
    BY <1>5 DEF PopupAction
  <2>2. shell.line \in String
    BY DEF IInv, TypeOK, ShellState
  <2> QED BY <2>1, <2>2, NoItems, WordReplacedType DEF LineAfterAccept
<1>11. history' \in [expected : String, cleared : Nat, submitted : Nat]
  BY <1>10 DEF IInv, TypeOK
<1>12. stdin' = Reading \/ (PcFor(result.action) \in {"forward", "send", "measure", "panicked"}
       /\ stdin' = [stdin EXCEPT !.pc = PcFor(result.action), !.action = result.action])
  BY <1>7
<1>13. UNCHANGED <<input, debounce, ptyTask, main, tracker, channels, shell, screen>>
       /\ stdin.pc = "onKey"
  OBVIOUS
<1>14. popup' \in Popup
  BY <1>0 DEF Outcome
<1>15. stdin' \in [pc : {"read", "onKey", "measure", "send", "splice", "inject", "forward",
                              "track", "notify", "ended", "panicked", "aborted"},
                        key : Keys \cup {NoKey}, action : PopupAction, line : String]
  <2>1. CASE stdin' = Reading
    BY <2>1, BackAtChannelTypes
  <2>2. CASE stdin' = [stdin EXCEPT !.pc = PcFor(result.action), !.action = result.action]
             /\ PcFor(result.action) \in {"forward", "send", "measure", "panicked"}
    <3> HIDE DEF result
    <3> QED BY <1>5, <2>2 DEF IInv, TypeOK
  <2> QED BY <1>12, <2>1, <2>2
<1> HIDE DEF result, StdinOnKey
<1>1. TypeOK'
  BY <1>11, <1>13, <1>14, <1>15 DEF IInv, TypeOK
<1>2. PopupAlwaysConsistent'
  BY <1>0, <1>5 DEF Outcome, PopupAlwaysConsistent
<1>3. SelectionIsDrawn'
  BY <1>13 DEF IInv, SelectionIsDrawn
<1>4. InHand'
  BY <1>5, <1>6, <1>8, <1>9, <1>12, <1>13, BackAtChannel, NothingType, ZenonT(40)
     DEF IInv, TypeOK, InHand
<1> QED BY <1>1, <1>2, <1>3, <1>4 DEF IInv

\* The first update of a burst is received.
LEMMA DebounceRecvKeeps == IInv /\ DebounceRecv => IInv'
<1> SUFFICES ASSUME IInv, DebounceRecv PROVE IInv'
  OBVIOUS
<1> USE DEF DebounceRecv, channels
<1>0. /\ Head(debounceCh).buffer \in String /\ Head(debounceCh).cursor \in Nat
      /\ debounceCh' \in Seq(Tracker)
  <2>1. Head(debounceCh) \in Tracker /\ Tail(debounceCh) \in Seq(Tracker)
    BY HeadTailProperties DEF IInv, TypeOK
  <2> QED BY <2>1 DEF Tracker
<1>1. TypeOK'
  BY <1>0 DEF IInv, TypeOK
<1>2. PopupAlwaysConsistent'
  BY DEF IInv, PopupAlwaysConsistent
<1>3. SelectionIsDrawn'
  BY DEF IInv, SelectionIsDrawn
<1>4. InHand'
  BY DEF IInv, TypeOK, InHand
<1> QED BY <1>1, <1>2, <1>3, <1>4 DEF IInv

\* A later update replaces it.
LEMMA DebounceDrainKeeps == IInv /\ DebounceDrain => IInv'
<1> SUFFICES ASSUME IInv, DebounceDrain PROVE IInv'
  OBVIOUS
<1> USE DEF DebounceDrain, channels
<1>0. /\ Head(debounceCh).buffer \in String /\ Head(debounceCh).cursor \in Nat
      /\ debounceCh' \in Seq(Tracker)
  <2>1. Head(debounceCh) \in Tracker /\ Tail(debounceCh) \in Seq(Tracker)
    BY HeadTailProperties DEF IInv, TypeOK
  <2> QED BY <2>1 DEF Tracker
<1>1. TypeOK'
  BY <1>0 DEF IInv, TypeOK
<1>2. PopupAlwaysConsistent'
  BY DEF IInv, PopupAlwaysConsistent
<1>3. SelectionIsDrawn'
  BY DEF IInv, SelectionIsDrawn
<1>4. InHand'
  BY DEF IInv, TypeOK, InHand
<1> QED BY <1>1, <1>2, <1>3, <1>4 DEF IInv

\* The burst is over.
LEMMA DebounceTimeoutKeeps == IInv /\ DebounceTimeout => IInv'
<1> SUFFICES ASSUME IInv, DebounceTimeout PROVE IInv'
  OBVIOUS
<1> USE DEF DebounceTimeout, channels
<1>1. TypeOK'
  BY DEF IInv, TypeOK
<1>2. PopupAlwaysConsistent'
  BY DEF IInv, PopupAlwaysConsistent
<1>3. SelectionIsDrawn'
  BY DEF IInv, SelectionIsDrawn
<1>4. InHand'
  BY DEF IInv, TypeOK, InHand
<1> QED BY <1>1, <1>2, <1>3, <1>4 DEF IInv

\* The popup takes the line it asks the daemon for.
LEMMA DebounceLockKeeps == IInv /\ DebounceLock => IInv'
<1> SUFFICES ASSUME IInv, DebounceLock PROVE IInv'
  OBVIOUS
<1> USE DEF DebounceLock, channels
<1>0. popup' \in Popup
  BY DEF IInv, TypeOK, AskFor, Popup
<1>1. TypeOK'
  BY <1>0 DEF IInv, TypeOK
<1>2. PopupAlwaysConsistent'
  BY DEF IInv, TypeOK, PopupAlwaysConsistent, PopupConsistent, WindowLength, AskFor, Popup
<1>3. SelectionIsDrawn'
  BY DEF IInv, SelectionIsDrawn
<1>4. InHand'
  BY DEF IInv, TypeOK, InHand
<1> QED BY <1>1, <1>2, <1>3, <1>4 DEF IInv

\* The daemon's answer, or its absence, reaches the popup.
LEMMA DebounceAnswerKeeps == IInv /\ DebounceAnswer => IInv'
<1> SUFFICES ASSUME IInv, DebounceAnswer PROVE IInv'
  OBVIOUS
<1> USE DEF DebounceAnswer, channels
<1>0. PICK items \in Answers :
        LET result == Answered(popup, items)
        IN  /\ popup' = result.popup
            /\ debounce' = CASE result.action.type = "Nothing" -> Waiting
                             [] result.action.type = "Panic" ->
                                  [Waiting EXCEPT !.pc = "panicked"]
                             [] OTHER -> [debounce EXCEPT !.pc = "dispatch",
                                                          !.action = result.action]
  OBVIOUS
<1> DEFINE result == Answered(popup, items)
<1>5. items \in Seq(String) /\ (items # <<>> => ~TooNarrow(popup.terminalCols))
  BY NoItems, SessionAssumption DEF Answers
<1>6. Outcome(result)
  BY <1>5, AnsweredKeeps DEF IInv, TypeOK, PopupAlwaysConsistent
<1>7. /\ popup' = result.popup /\ result.popup \in Popup /\ PopupConsistent(result.popup)
      /\ result.action \in PopupAction /\ Drawable(result.action)
  BY <1>0, <1>6 DEF Outcome
<1>8. \/ debounce' = Waiting
      \/ debounce' = [Waiting EXCEPT !.pc = "panicked"]
      \/ debounce' = [debounce EXCEPT !.pc = "dispatch", !.action = result.action]
  BY <1>0
<1>9. UNCHANGED <<input, stdin, ptyTask, main, tracker, channels, shell, screen, history>>
  OBVIOUS
<1>10. [Waiting EXCEPT !.pc = "panicked"] =
         [pc |-> "panicked", buffer |-> <<>>, cursor |-> 0, action |-> Action("Nothing")]
  BY DEF Waiting
<1>11. debounce' \in [pc : {"recv", "drain", "lock", "fetch", "dispatch", "panicked", "aborted"},
                      buffer : String, cursor : Nat, action : PopupAction]
  <2>1. CASE debounce' = Waiting
    BY <2>1, NoItems, NothingType DEF Waiting
  <2>2. CASE debounce' = [Waiting EXCEPT !.pc = "panicked"]
    BY <2>2, BackAtChannelTypes
  <2>3. CASE debounce' = [debounce EXCEPT !.pc = "dispatch", !.action = result.action]
    <3> HIDE DEF result
    <3> QED BY <1>7, <2>3 DEF IInv, TypeOK
  <2> QED BY <1>8, <2>1, <2>2, <2>3
<1>12. Drawable(debounce'.action)
  BY <1>7, <1>8, <1>10, BackAtChannel, NothingType, ZenonT(40) DEF IInv, TypeOK
<1> HIDE DEF result, DebounceAnswer
<1>1. TypeOK'
  BY <1>7, <1>9, <1>11 DEF IInv, TypeOK
<1>2. PopupAlwaysConsistent'
  BY <1>7 DEF PopupAlwaysConsistent
<1>3. SelectionIsDrawn'
  BY <1>9 DEF IInv, SelectionIsDrawn
<1>4. InHand'
  BY <1>9, <1>12 DEF IInv, InHand
<1> QED BY <1>1, <1>2, <1>3, <1>4 DEF IInv

\* The debounce task draws or erases the popup.
LEMMA DebounceDispatchKeeps == IInv /\ DebounceDispatch => IInv'
<1> SUFFICES ASSUME IInv, DebounceDispatch PROVE IInv'
  OBVIOUS
<1> USE DEF DebounceDispatch, channels
<1> DEFINE write == IF debounce.action.type = "Show" THEN ShowPopup(debounce.action)
                    ELSE ErasePopup(debounce.action.lines, "hide")
<1>0. /\ write \in TerminalWrite
      /\ write.type = "ShowPopup" => write.row < write.lines /\ write.lines <= MaxVisible
  BY DEF IInv, TypeOK, InHand, Drawable, PopupAction, ShowPopup, ErasePopup, TerminalWrite
<1>5. writeCh' \in Seq(TerminalWrite) /\ SelectionIsDrawn'
  <2> HIDE DEF write
  <2>1. SendWrite(write)
    BY DEF write
  <2> QED BY <1>0, <2>1, WriteKeeps DEF IInv
<1>1. TypeOK'
  BY <1>5, NoItems, NothingType DEF IInv, TypeOK, Waiting
<1>2. PopupAlwaysConsistent'
  BY DEF IInv, PopupAlwaysConsistent
<1>3. SelectionIsDrawn'
  BY <1>5
<1>4. InHand'
  BY BackAtChannel, NothingType DEF IInv, InHand
<1> QED BY <1>1, <1>2, <1>3, <1>4 DEF IInv

\* A chunk of shell output is read.
LEMMA ReaderChunkKeeps == IInv /\ ReaderChunk => IInv'
<1> SUFFICES ASSUME IInv, ReaderChunk PROVE IInv'
  OBVIOUS
<1> USE DEF ReaderChunk, channels, tasks
<1>0. ptyOut' \in Seq(Seq(Output)) /\ tty' \in Seq(Output)
  <2>1. PICK n \in 1 .. Len(tty) : /\ ptyOut' = Append(ptyOut, SubSeq(tty, 1, n))
                                   /\ tty' = SubSeq(tty, n + 1, Len(tty))
    OBVIOUS
  <2>2. tty \in Seq(Output) /\ Len(tty) \in Nat /\ n \in Nat /\ n <= Len(tty)
    BY DEF IInv, TypeOK
  <2>3. UpTo(tty, n) \in Seq(Output) /\ After(tty, n) \in Seq(Output)
    BY <2>2, SliceTypes
  <2> QED BY <2>1, <2>3 DEF IInv, TypeOK, UpTo, After
<1>5. UNCHANGED <<input, tasks, popup, tracker, debounceCh, writeCh, ptyWrite, shell,
                  screen, history>>
  OBVIOUS
<1> HIDE DEF ReaderChunk
<1>1. TypeOK'
  BY <1>0, <1>5 DEF IInv, TypeOK
<1>2. PopupAlwaysConsistent'
  BY <1>5 DEF IInv, PopupAlwaysConsistent
<1>3. SelectionIsDrawn'
  BY <1>5 DEF IInv, SelectionIsDrawn
<1>4. InHand'
  BY <1>5 DEF IInv, InHand
<1> QED BY <1>1, <1>2, <1>3, <1>4 DEF IInv

\* A chunk reaches the PTY processor.
LEMMA PtyRecvKeeps == IInv /\ PtyRecv => IInv'
<1> SUFFICES ASSUME IInv, PtyRecv PROVE IInv'
  OBVIOUS
<1> USE DEF PtyRecv, channels
<1>0. Head(ptyOut) \in Seq(Output) /\ Tail(ptyOut) \in Seq(Seq(Output))
  BY HeadTailProperties DEF IInv, TypeOK
<1>1. TypeOK'
  BY <1>0, ZenonT(40) DEF IInv, TypeOK
<1>2. PopupAlwaysConsistent'
  BY DEF IInv, PopupAlwaysConsistent
<1>3. SelectionIsDrawn'
  BY DEF IInv, SelectionIsDrawn
<1>4. InHand'
  BY DEF IInv, TypeOK, InHand
<1> QED BY <1>1, <1>2, <1>3, <1>4 DEF IInv

\* The text of a chunk is passed to the terminal.
LEMMA PtyPassKeeps == IInv /\ PtyPass => IInv'
<1> SUFFICES ASSUME IInv, PtyPass PROVE IInv'
  OBVIOUS
<1> USE DEF PtyPass, channels
<1>0. ptyTask.events \in Seq(Output)
  BY DEF IInv, TypeOK
<1>5. writeCh' \in Seq(TerminalWrite) /\ SelectionIsDrawn'
  <2>1. CASE UNCHANGED writeCh
    BY <2>1 DEF IInv, TypeOK, SelectionIsDrawn
  <2>2. CASE SendWrite(Passthrough(ptyTask.events))
    BY <1>0, <2>2, PassthroughType, WriteKeeps DEF IInv
  <2> QED BY <2>1, <2>2
<1>6. /\ ptyTask' \in [pc : {"recv", "events"}, events : Seq(Output), lines : Nat]
      /\ ptyTask'.pc = "events" => ptyTask'.events # <<>>
  BY <1>0, WithEventsType
<1>1. TypeOK'
  BY <1>5, <1>6 DEF IInv, TypeOK
<1>2. PopupAlwaysConsistent'
  BY DEF IInv, PopupAlwaysConsistent
<1>3. SelectionIsDrawn'
  BY <1>5
<1>4. InHand'
  BY <1>6 DEF IInv, InHand
<1> QED BY <1>1, <1>2, <1>3, <1>4 DEF IInv

\* The tracker takes the line that the shell reports.
LEMMA PtyCommandLineKeeps == IInv /\ PtyCommandLine => IInv'
<1> SUFFICES ASSUME IInv, PtyCommandLine PROVE IInv'
  OBVIOUS
<1> USE DEF PtyCommandLine, channels
<1>0. /\ ptyTask' \in [pc : {"recv", "events"}, events : Seq(Output), lines : Nat]
      /\ ptyTask'.pc = "events" => ptyTask'.events # <<>>
  <2>1. Tail(ptyTask.events) \in Seq(Output)
    BY HeadTailProperties DEF IInv, TypeOK, InHand
  <2> QED BY <2>1, WithEventsType
<1>5. tracker' \in Tracker
  <2>1. Head(ptyTask.events) \in Output
    BY HeadTailProperties DEF IInv, TypeOK, InHand
  <2> QED BY <2>1 DEF Output, Sync, Tracker
<1>1. TypeOK'
  BY <1>0, <1>5 DEF IInv, TypeOK
<1>2. PopupAlwaysConsistent'
  BY DEF IInv, PopupAlwaysConsistent
<1>3. SelectionIsDrawn'
  BY DEF IInv, SelectionIsDrawn
<1>4. InHand'
  BY <1>0 DEF IInv, InHand
<1> QED BY <1>1, <1>2, <1>3, <1>4 DEF IInv

\* A prompt resets the tracker.
LEMMA PtyPromptStartKeeps == IInv /\ PtyPromptStart => IInv'
<1> SUFFICES ASSUME IInv, PtyPromptStart PROVE IInv'
  OBVIOUS
<1> USE DEF PtyPromptStart, channels
<1>1. TypeOK'
  BY NoItems, ZenonT(40) DEF IInv, TypeOK, Sync, Tracker
<1>2. PopupAlwaysConsistent'
  BY DEF IInv, PopupAlwaysConsistent
<1>3. SelectionIsDrawn'
  BY DEF IInv, SelectionIsDrawn
<1>4. InHand'
  BY DEF IInv, TypeOK, InHand
<1> QED BY <1>1, <1>2, <1>3, <1>4 DEF IInv

\* A prompt closes the popup.
LEMMA PtyResetKeeps == IInv /\ PtyReset => IInv'
<1> SUFFICES ASSUME IInv, PtyReset PROVE IInv'
  OBVIOUS
<1> USE DEF PtyReset, channels
<1>0. popup' \in Popup /\ PopupAlwaysConsistent'
  BY ClosedType DEF IInv, TypeOK, PopupAlwaysConsistent
<1>5. WindowLength(popup) \in Nat
  BY WindowLengthType DEF IInv, TypeOK
<1>6. CASE popup.visible
  <2>1. ptyTask' = [ptyTask EXCEPT !.pc = "erase", !.lines = WindowLength(popup)]
    BY <1>6
  <2>2. TypeOK' /\ InHand'
    BY <1>0, <1>5, <2>1, ZenonT(40) DEF IInv, TypeOK, InHand
  <2>3. SelectionIsDrawn'
    BY DEF IInv, SelectionIsDrawn
  <2> QED BY <1>0, <2>2, <2>3 DEF IInv
<1>7. CASE ~popup.visible
  <2>1. Tail(ptyTask.events) \in Seq(Output)
    BY HeadTailProperties DEF IInv, TypeOK, InHand
  <2>2. /\ ptyTask' \in [pc : {"recv", "events"}, events : Seq(Output), lines : Nat]
        /\ ptyTask'.pc = "events" => ptyTask'.events # <<>>
    BY <1>7, <2>1, WithEventsType
  <2>3. TypeOK'
    BY <1>0, <2>2 DEF IInv, TypeOK
  <2>4. InHand'
    BY <2>2 DEF IInv, InHand
  <2>5. SelectionIsDrawn'
    BY DEF IInv, SelectionIsDrawn
  <2> QED BY <1>0, <2>3, <2>4, <2>5 DEF IInv
<1> QED BY <1>6, <1>7

\* The popup that a prompt closed is erased.
LEMMA PtyEraseKeeps == IInv /\ PtyErase => IInv'
<1> SUFFICES ASSUME IInv, PtyErase PROVE IInv'
  OBVIOUS
<1> USE DEF PtyErase, channels
<1>0. /\ ptyTask' \in [pc : {"recv", "events"}, events : Seq(Output), lines : Nat]
      /\ ptyTask'.pc = "events" => ptyTask'.events # <<>>
  <2>1. Tail(ptyTask.events) \in Seq(Output)
    BY HeadTailProperties DEF IInv, TypeOK, InHand
  <2> QED BY <2>1, WithEventsType
<1>5. writeCh' \in Seq(TerminalWrite) /\ SelectionIsDrawn'
  <2>1. /\ ErasePopup(ptyTask.lines, "hide") \in TerminalWrite
        /\ ErasePopup(ptyTask.lines, "hide").type = "ErasePopup"
    BY DEF IInv, TypeOK, ErasePopup, TerminalWrite
  <2> QED BY <2>1, WriteKeeps DEF IInv
<1>1. TypeOK'
  BY <1>0, <1>5 DEF IInv, TypeOK
<1>2. PopupAlwaysConsistent'
  BY DEF IInv, PopupAlwaysConsistent
<1>3. SelectionIsDrawn'
  BY <1>5
<1>4. InHand'
  BY <1>0 DEF IInv, InHand
<1> QED BY <1>1, <1>2, <1>3, <1>4 DEF IInv

\* The end of a prompt changes nothing else.
LEMMA PtyPromptEndKeeps == IInv /\ PtyPromptEnd => IInv'
<1> SUFFICES ASSUME IInv, PtyPromptEnd PROVE IInv'
  OBVIOUS
<1> USE DEF PtyPromptEnd, channels
<1>0. /\ ptyTask' \in [pc : {"recv", "events"}, events : Seq(Output), lines : Nat]
      /\ ptyTask'.pc = "events" => ptyTask'.events # <<>>
  <2>1. Tail(ptyTask.events) \in Seq(Output)
    BY HeadTailProperties DEF IInv, TypeOK, InHand
  <2> QED BY <2>1, WithEventsType
<1>1. TypeOK'
  BY <1>0 DEF IInv, TypeOK
<1>2. PopupAlwaysConsistent'
  BY DEF IInv, PopupAlwaysConsistent
<1>3. SelectionIsDrawn'
  BY DEF IInv, SelectionIsDrawn
<1>4. InHand'
  BY <1>0 DEF IInv, InHand
<1> QED BY <1>1, <1>2, <1>3, <1>4 DEF IInv

\* The PTY processor ends.
LEMMA PtyEndKeeps == IInv /\ PtyEnd => IInv'
<1> SUFFICES ASSUME IInv, PtyEnd PROVE IInv'
  OBVIOUS
<1> USE DEF PtyEnd, channels
<1>1. TypeOK'
  BY ZenonT(40) DEF IInv, TypeOK
<1>2. PopupAlwaysConsistent'
  BY DEF IInv, PopupAlwaysConsistent
<1>3. SelectionIsDrawn'
  BY DEF IInv, SelectionIsDrawn
<1>4. InHand'
  BY DEF IInv, TypeOK, InHand
<1> QED BY <1>1, <1>2, <1>3, <1>4 DEF IInv

\* The terminal shows the next write.
LEMMA WriterStepKeeps == IInv /\ WriterStep => IInv'
<1> SUFFICES ASSUME IInv, WriterStep PROVE IInv'
  OBVIOUS
<1> USE DEF WriterStep, channels, tasks
<1> DEFINE write == Head(writeCh)
<1>0. write \in TerminalWrite /\ write = writeCh[1] /\ 1 \in DOMAIN writeCh
      /\ writeCh' = Tail(writeCh) /\ writeCh' \in Seq(TerminalWrite)
  BY HeadTailProperties DEF IInv, TypeOK
<1>5. screen' \subseteq 1 .. MaxVisible + 2
  <2>1. write.type = "ShowPopup" => write.lines <= MaxVisible
    BY <1>0 DEF IInv, SelectionIsDrawn
  <2>2. screen' = Written(screen, write)
    OBVIOUS
  <2> HIDE DEF write
  <2> QED BY <1>0, <2>1, <2>2, WrittenType DEF IInv, TypeOK
<1>6. history' \in [expected : String, cleared : Nat, submitted : Nat]
  <2>1. write.type = "Passthrough" => write.cleared \in Nat
    BY <1>0 DEF TerminalWrite
  <2>2. history \in [expected : String, cleared : Nat, submitted : Nat]
    BY DEF IInv, TypeOK
  <2> QED BY <2>1, <2>2
<1>7. SelectionIsDrawn'
  <2>1. \A i \in DOMAIN writeCh' : i + 1 \in DOMAIN writeCh /\ writeCh'[i] = writeCh[i + 1]
    BY <1>0, HeadTailProperties DEF IInv, TypeOK
  <2> QED BY <2>1 DEF IInv, SelectionIsDrawn
<1>8. UNCHANGED <<input, tasks, popup, tracker, debounceCh, ptyWrite, ptyOut, tty, shell>>
  OBVIOUS
<1> HIDE DEF WriterStep, write
<1>1. TypeOK'
  BY <1>0, <1>5, <1>6, <1>8 DEF IInv, TypeOK
<1>2. PopupAlwaysConsistent'
  BY <1>8 DEF IInv, PopupAlwaysConsistent
<1>3. SelectionIsDrawn'
  BY <1>7
<1>4. InHand'
  BY <1>8 DEF IInv, InHand
<1> QED BY <1>1, <1>2, <1>3, <1>4 DEF IInv

\* The terminal is resized.
LEMMA ResizeKeeps == IInv /\ Resize => IInv'
<1> SUFFICES ASSUME IInv, Resize PROVE IInv'
  OBVIOUS
<1> USE DEF Resize, channels, tasks
<1>0. popup' \in Popup /\ PopupAlwaysConsistent'
  <2>1. PICK cols \in Nat : popup' = [popup EXCEPT !.terminalCols = cols]
    BY SessionAssumption
  <2> QED BY <2>1 DEF IInv, TypeOK, PopupAlwaysConsistent, PopupConsistent, WindowLength, Popup
<1>1. TypeOK'
  BY <1>0 DEF IInv, TypeOK
<1>2. PopupAlwaysConsistent'
  BY <1>0
<1>3. SelectionIsDrawn'
  BY DEF IInv, SelectionIsDrawn
<1>4. InHand'
  BY DEF IInv, InHand
<1> QED BY <1>1, <1>2, <1>3, <1>4 DEF IInv

\* The shell reads a key.
LEMMA ShellReadsKeyKeeps == IInv /\ ShellReadsKey => IInv'
<1> SUFFICES ASSUME IInv, ShellReadsKey PROVE IInv'
  OBVIOUS
<1> USE DEF ShellReadsKey, channels, tasks
<1>0. /\ Head(ptyWrite) \in ToShell /\ ptyWrite' \in Seq(ToShell)
      /\ Head(ptyWrite).type = "Key"
  BY HeadTailProperties DEF IInv, TypeOK
<1>5. Head(ptyWrite).key \in Keys /\ Head(ptyWrite).cleared \in BOOLEAN
  BY <1>0 DEF ToShell
<1>6. shell' \in ShellState
  BY <1>5, ShellTypes DEF IInv, TypeOK
<1>7. KeyOutput(shell, Head(ptyWrite).key, Head(ptyWrite).cleared) \in Seq(Output)
  BY <1>5, ShellTypes DEF IInv, TypeOK
<1>8. tty' \in Seq(Output)
  BY <1>7, ConcatProperties DEF IInv, TypeOK
<1>1. TypeOK'
  BY <1>0, <1>6, <1>8 DEF IInv, TypeOK
<1>2. PopupAlwaysConsistent'
  BY DEF IInv, PopupAlwaysConsistent
<1>3. SelectionIsDrawn'
  BY DEF IInv, SelectionIsDrawn
<1>4. InHand'
  BY DEF IInv, InHand
<1> QED BY <1>1, <1>2, <1>3, <1>4 DEF IInv

\* The shell reads a replaced line.
LEMMA ShellReadsLineKeeps == IInv /\ ShellReadsLine => IInv'
<1> SUFFICES ASSUME IInv, ShellReadsLine PROVE IInv'
  OBVIOUS
<1> USE DEF ShellReadsLine, channels, tasks
<1>0. /\ Head(ptyWrite) \in ToShell /\ ptyWrite' \in Seq(ToShell)
      /\ Head(ptyWrite).type = "Line"
  BY HeadTailProperties DEF IInv, TypeOK
<1>5. Head(ptyWrite).line \in String
  BY <1>0 DEF ToShell
<1>6. shell' \in ShellState /\ ReplaceOutput(shell, Head(ptyWrite).line) \in Seq(Output)
  BY <1>5, ShellTypes DEF IInv, TypeOK
<1>7. tty' \in Seq(Output)
  BY <1>6, ConcatProperties DEF IInv, TypeOK
<1>8. history' \in [expected : String, cleared : Nat, submitted : Nat]
  BY NoItems DEF IInv, TypeOK
<1>1. TypeOK'
  BY <1>0, <1>6, <1>7, <1>8 DEF IInv, TypeOK
<1>2. PopupAlwaysConsistent'
  BY DEF IInv, PopupAlwaysConsistent
<1>3. SelectionIsDrawn'
  BY DEF IInv, SelectionIsDrawn
<1>4. InHand'
  BY DEF IInv, InHand
<1> QED BY <1>1, <1>2, <1>3, <1>4 DEF IInv

\* The shell comes back to its prompt.
LEMMA ShellPromptsKeeps == IInv /\ ShellPrompts => IInv'
<1> SUFFICES ASSUME IInv, ShellPrompts PROVE IInv'
  OBVIOUS
<1> USE DEF ShellPrompts, channels, tasks
<1>0. tty' \in Seq(Output)
  <2>1. Prompt \in Seq(Output)
    BY DEF Prompt, PromptStart, PromptEnd, Echo, Output
  <2> QED BY <2>1, ConcatProperties DEF IInv, TypeOK
<1>5. shell' \in ShellState
  BY DEF IInv, TypeOK, ShellState
<1>1. TypeOK'
  BY <1>0, <1>5 DEF IInv, TypeOK
<1>2. PopupAlwaysConsistent'
  BY DEF IInv, PopupAlwaysConsistent
<1>3. SelectionIsDrawn'
  BY DEF IInv, SelectionIsDrawn
<1>4. InHand'
  BY DEF IInv, InHand
<1> QED BY <1>1, <1>2, <1>3, <1>4 DEF IInv

\* The shell exits.
LEMMA ShellExitsKeeps == IInv /\ ShellExits => IInv'
<1> SUFFICES ASSUME IInv, ShellExits PROVE IInv'
  OBVIOUS
<1> USE DEF ShellExits, channels, tasks
<1>0. shell' \in ShellState
  BY DEF IInv, TypeOK, ShellState
<1>1. TypeOK'
  BY <1>0 DEF IInv, TypeOK
<1>2. PopupAlwaysConsistent'
  BY DEF IInv, PopupAlwaysConsistent
<1>3. SelectionIsDrawn'
  BY DEF IInv, SelectionIsDrawn
<1>4. InHand'
  BY DEF IInv, InHand
<1> QED BY <1>1, <1>2, <1>3, <1>4 DEF IInv

\* The stdin task is aborted.
LEMMA AbortStdinKeeps == IInv /\ AbortStdin => IInv'
<1> SUFFICES ASSUME IInv, AbortStdin PROVE IInv'
  OBVIOUS
<1> USE DEF AbortStdin, channels
<1>1. TypeOK'
  BY DEF IInv, TypeOK
<1>2. PopupAlwaysConsistent'
  BY DEF IInv, PopupAlwaysConsistent
<1>3. SelectionIsDrawn'
  BY DEF IInv, SelectionIsDrawn
<1>4. InHand'
  BY DEF IInv, TypeOK, InHand
<1> QED BY <1>1, <1>2, <1>3, <1>4 DEF IInv

\* The SIGWINCH handler is aborted.
LEMMA AbortSigwinchKeeps == IInv /\ AbortSigwinch => IInv'
<1> SUFFICES ASSUME IInv, AbortSigwinch PROVE IInv'
  OBVIOUS
<1> USE DEF AbortSigwinch, channels
<1>1. TypeOK'
  BY DEF IInv, TypeOK
<1>2. PopupAlwaysConsistent'
  BY DEF IInv, PopupAlwaysConsistent
<1>3. SelectionIsDrawn'
  BY DEF IInv, SelectionIsDrawn
<1>4. InHand'
  BY DEF IInv, InHand
<1> QED BY <1>1, <1>2, <1>3, <1>4 DEF IInv

\* The debounce task is aborted.
LEMMA AbortDebounceKeeps == IInv /\ AbortDebounce => IInv'
<1> SUFFICES ASSUME IInv, AbortDebounce PROVE IInv'
  OBVIOUS
<1> USE DEF AbortDebounce, channels
<1>1. TypeOK'
  BY DEF IInv, TypeOK
<1>2. PopupAlwaysConsistent'
  BY DEF IInv, PopupAlwaysConsistent
<1>3. SelectionIsDrawn'
  BY DEF IInv, SelectionIsDrawn
<1>4. InHand'
  BY DEF IInv, TypeOK, InHand
<1> QED BY <1>1, <1>2, <1>3, <1>4 DEF IInv

\* The PTY writer is aborted.
LEMMA AbortPtyWriterKeeps == IInv /\ AbortPtyWriter => IInv'
<1> SUFFICES ASSUME IInv, AbortPtyWriter PROVE IInv'
  OBVIOUS
<1> USE DEF AbortPtyWriter, channels
<1>1. TypeOK'
  BY EmptySeq DEF IInv, TypeOK
<1>2. PopupAlwaysConsistent'
  BY DEF IInv, PopupAlwaysConsistent
<1>3. SelectionIsDrawn'
  BY DEF IInv, SelectionIsDrawn
<1>4. InHand'
  BY DEF IInv, InHand
<1> QED BY <1>1, <1>2, <1>3, <1>4 DEF IInv

\* run() returns.
LEMMA JoinWriterKeeps == IInv /\ JoinWriter => IInv'
<1> SUFFICES ASSUME IInv, JoinWriter PROVE IInv'
  OBVIOUS
<1> USE DEF JoinWriter, channels
<1>1. TypeOK'
  BY DEF IInv, TypeOK
<1>2. PopupAlwaysConsistent'
  BY DEF IInv, PopupAlwaysConsistent
<1>3. SelectionIsDrawn'
  BY DEF IInv, SelectionIsDrawn
<1>4. InHand'
  BY DEF IInv, InHand
<1> QED BY <1>1, <1>2, <1>3, <1>4 DEF IInv

\* A step that changes nothing.
LEMMA StutterKeeps == IInv /\ UNCHANGED vars => IInv'
BY DEF IInv, TypeOK, PopupAlwaysConsistent, SelectionIsDrawn, InHand, vars, tasks, channels

\* Every step keeps the invariant.
LEMMA NextInv == IInv /\ [Next]_vars => IInv'
<1> SUFFICES ASSUME IInv, [Next]_vars PROVE IInv'
  OBVIOUS
<1>1. CASE StdinWork \/ StdinEof
  BY <1>1, StdinReadKeeps, StdinOnKeyKeeps, StdinMeasureKeeps, StdinSendKeeps,
     StdinSpliceKeeps, StdinInjectKeeps, StdinForwardKeeps, StdinTrackKeeps,
     StdinNotifyKeeps, StdinEofKeeps DEF StdinWork
<1>2. CASE DebounceTask
  BY <1>2, DebounceRecvKeeps, DebounceDrainKeeps, DebounceTimeoutKeeps, DebounceLockKeeps,
     DebounceAnswerKeeps, DebounceDispatchKeeps DEF DebounceTask
<1>3. CASE ReaderChunk \/ PtyTask
  BY <1>3, ReaderChunkKeeps, PtyRecvKeeps, PtyPassKeeps, PtyCommandLineKeeps,
     PtyPromptStartKeeps, PtyResetKeeps, PtyEraseKeeps, PtyPromptEndKeeps, PtyEndKeeps
     DEF PtyTask
<1>4. CASE WriterStep \/ Resize
  BY <1>4, WriterStepKeeps, ResizeKeeps
<1>5. CASE ShellStep \/ ShellExits
  BY <1>5, ShellReadsKeyKeeps, ShellReadsLineKeeps, ShellPromptsKeeps, ShellExitsKeeps
     DEF ShellStep
<1>6. CASE Shutdown
  BY <1>6, AbortStdinKeeps, AbortSigwinchKeeps, AbortDebounceKeeps, AbortPtyWriterKeeps,
     JoinWriterKeeps DEF Shutdown
<1>7. CASE Rest \/ UNCHANGED vars
  BY <1>7, StutterKeeps DEF Rest
<1> QED BY <1>1, <1>2, <1>3, <1>4, <1>5, <1>6, <1>7 DEF Next

\* The invariant holds of every reachable state.
LEMMA SpecInv == Spec => []IInv
BY InitInv, NextInv, PTL DEF Spec

-----------------------------------------------------------------------------
(* Every variable keeps its type: in particular no line is cut outside of  *)
(* itself, and the rows on the screen are those a popup can take           *)
(* (event_loop.rs, popup.rs, buffer_tracker.rs).                           *)
THEOREM TypeCorrect == Spec => []TypeOK
BY SpecInv, PTL DEF IInv

(* The popup is consistent whenever any task finds it: shown exactly while *)
(* it has items, with one of them selected, and with the rows of its       *)
(* window counted for the next erase (popup.rs, event_loop.rs:239-246).    *)
THEOREM PopupIsConsistent == Spec => []PopupAlwaysConsistent
BY SpecInv, PTL DEF IInv

(* Every popup on its way to the terminal highlights one of the rows it    *)
(* draws and draws no more than the window holds (popup.rs:222-238).       *)
THEOREM SelectionAlwaysDrawn == Spec => []SelectionIsDrawn
BY SpecInv, PTL DEF IInv
=============================================================================
