----------------------------- MODULE PopupState -----------------------------
(***************************************************************************)
(* The popup state machine (session/popup.rs): what is shown, which item   *)
(* is selected, and the line the items belong to.  Every operation returns *)
(* the next state and the action the event loop takes for it.              *)
(*                                                                         *)
(* An item stands for its insert text; what is drawn of it is left out     *)
(* except for the number of rows and the row that is highlighted.          *)
(***************************************************************************)
EXTENDS Tokenizer

CONSTANTS
  MaxVisible,      \* rows of items shown at once (10)
  MinPopupWidth,   \* overlay.rs MIN_POPUP_WIDTH (30)
  MaxPopupWidth    \* overlay.rs MAX_POPUP_WIDTH (70)

ASSUME PopupAssumption ==
  /\ MaxVisible \in Nat \ {0}
  /\ MinPopupWidth \in Nat
  /\ MaxPopupWidth \in Nat

Popup == [visible : BOOLEAN, items : Seq(String), selected : Nat,
          lastBuffer : String, lastCursor : Nat, terminalCols : Nat,
          popupLines : Nat]

NewPopup(cols) ==
  [visible |-> FALSE, items |-> <<>>, selected |-> 0, lastBuffer |-> <<>>,
   lastCursor |-> 0, terminalCols |-> cols, popupLines |-> 0]

-----------------------------------------------------------------------------
(* PopupAction.  "Panic" is the unwinding of the task that called, at a    *)
(* slice or a clamp whose precondition fails.                              *)

ActionTypes ==
  {"Nothing", "ForwardKey", "Show", "Erase", "Accept", "EraseAndForward", "Panic"}

PopupAction ==
  [type : ActionTypes,
   lines : Nat,          \* item rows drawn or erased
   prev : Nat,           \* item rows of the popup that is drawn over
   row : Nat,            \* the highlighted row, from 0
   tokenStart : Nat,     \* where the accepted text goes
   insert : String]      \* the accepted text

Action(type) == [type |-> type, lines |-> 0, prev |-> 0, row |-> 0,
                 tokenStart |-> 0, insert |-> <<>>]
Erase(lines) == [Action("Erase") EXCEPT !.lines = lines]
Show(lines, prev, row) ==
  [Action("Show") EXCEPT !.lines = lines, !.prev = prev, !.row = row]
Accept(tokenStart, insert) ==
  [Action("Accept") EXCEPT !.tokenStart = tokenStart, !.insert = insert]
EraseAndForward(lines) == [Action("EraseAndForward") EXCEPT !.lines = lines]

Result(p, action) == [popup |-> p, action |-> action]

-----------------------------------------------------------------------------
\* visible_window: the items drawn, by the number of items before the first.
WindowStartOffByOne(p) ==
  IF Len(p.items) <= MaxVisible \/ p.selected < MaxVisible
  THEN 0
  ELSE Least(p.selected - MaxVisible, Len(p.items) - MaxVisible)

WindowStart(p) ==
  IF Len(p.items) <= MaxVisible \/ p.selected < MaxVisible
  THEN 0
  ELSE Least(p.selected - MaxVisible + 1, Len(p.items) - MaxVisible)

WindowLength(p) == Least(Len(p.items), MaxVisible)

\* overlay::render_popup clamps the width between a minimum and what the
\* terminal leaves; clamp panics when the minimum is the larger of the two.
TooNarrow(cols) ==
  Least(IF cols >= 2 THEN cols - 2 ELSE 0, MaxPopupWidth) < MinPopupWidth

Closed(p) == [p EXCEPT !.visible = FALSE, !.items = <<>>, !.popupLines = 0]

Hide(p) ==
  IF p.visible
  THEN Result([Closed(p) EXCEPT !.selected = 0], Erase(p.popupLines))
  ELSE Result(p, Action("Nothing"))

RenderInplace(p, prev) ==
  CASE p.items = <<>> -> Hide(p)
    [] p.items # <<>> /\ TooNarrow(p.terminalCols) -> Result(p, Action("Panic"))
    [] OTHER -> Result([p EXCEPT !.popupLines = WindowLength(p)],
                       Show(WindowLength(p), prev, p.selected - WindowStart(p)))

\* on_command_line, up to the request to the daemon.
AskFor(p, buffer, cursor) ==
  [p EXCEPT !.lastBuffer = buffer, !.lastCursor = cursor]

\* The popup with new items, the first of them selected.
WithItemsUnselected(p, items) == [p EXCEPT !.items = items, !.visible = TRUE]

WithItems(p, items) == [p EXCEPT !.items = items, !.selected = 0, !.visible = TRUE]

\* The rows the new popup is drawn over.
RowsForgotten(p) == 0

RowsShown(p) == IF p.visible THEN p.popupLines ELSE 0

\* on_command_line, from the daemon's answer; an error, another response and
\* an empty list are all answered by hiding the popup.
Answered(p, items) ==
  IF items = <<>> THEN Hide(p) ELSE RenderInplace(WithItems(p, items), RowsShown(p))

AcceptSelected(p) ==
  CASE p.selected >= Len(p.items) -> Hide(p)
    [] p.selected < Len(p.items)
       /\ ~IsBoundary(p.lastBuffer, Least(p.lastCursor, Len(p.lastBuffer))) ->
         Result(p, Action("Panic"))
    [] OTHER -> Result(Closed(p), Accept(FindTokenStart(p.lastBuffer, p.lastCursor),
                                         p.items[p.selected + 1]))

Select(p, item) ==
  IF p.items = <<>>
  THEN Result(p, Action("Nothing"))
  ELSE RenderInplace([p EXCEPT !.selected = item % Len(p.items)], p.popupLines)

\* PopupState::on_key
OnKey(p, key) ==
  IF ~p.visible
  THEN Result(p, Action("ForwardKey"))
  ELSE CASE key.type = "Tab" -> AcceptSelected(p)
         [] key.type = "Escape" -> Hide(p)
         [] key.type = "ArrowDown" -> Select(p, p.selected + 1)
         [] key.type = "ArrowUp" -> Select(p, p.selected + Len(p.items) - 1)
         [] key.type = "Enter" ->
              Result([Closed(p) EXCEPT !.selected = 0], EraseAndForward(p.popupLines))
         [] OTHER -> Result(p, Action("ForwardKey"))

-----------------------------------------------------------------------------
(* The popup is shown exactly while it has items, one of them is selected, *)
(* and the number of rows remembered for the next erase is the number of   *)
(* rows drawn (the counters of popup.rs that hide, on_key, on_command_line *)
(* and the prompt reset of event_loop.rs each update by hand).             *)
PopupConsistent(p) ==
  /\ p.visible <=> p.items # <<>>
  /\ p.visible => p.selected < Len(p.items)
  /\ p.popupLines = IF p.visible THEN WindowLength(p) ELSE 0
=============================================================================
