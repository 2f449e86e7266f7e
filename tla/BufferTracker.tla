---------------------------- MODULE BufferTracker ----------------------------
(***************************************************************************)
(* The session's own copy of the shell's command line, kept by watching    *)
(* the keys that are forwarded to the shell (session/buffer_tracker.rs).   *)
(* The cursor is an index of a character.                                  *)
(***************************************************************************)
EXTENDS Text

Tracker == [buffer : String, cursor : Nat]

EmptyTracker == [buffer |-> <<>>, cursor |-> 0]

\* BufferTracker::sync
Sync(buffer, cursor) == [buffer |-> buffer, cursor |-> cursor]

\* Backspace deletes the character before the cursor.
BackspacedUnguarded(t) ==
  [buffer |-> DeleteChar(t.buffer, t.cursor - 1), cursor |-> t.cursor - 1]

BackspacedAtCursor(t) ==
  IF t.cursor = 0 THEN t
  ELSE [buffer |-> DeleteChar(t.buffer, t.cursor), cursor |-> t.cursor - 1]

Backspaced(t) ==
  IF t.cursor = 0 THEN t
  ELSE [buffer |-> DeleteChar(t.buffer, t.cursor - 1), cursor |-> t.cursor - 1]

\* The tracker after BufferTracker::on_key.
TrackKey(t, key) ==
  CASE key.type = "Char" ->
         [buffer |-> InsertChar(t.buffer, t.cursor, key.text), cursor |-> t.cursor + 1]
    [] key.type = "Backspace" -> Backspaced(t)
    [] key.type \in {"Enter", "CtrlC"} -> EmptyTracker
    [] key.type = "ArrowLeft" /\ t.cursor > 0 -> [t EXCEPT !.cursor = @ - 1]
    [] key.type = "ArrowRight" /\ t.cursor < CharCount(t.buffer) ->
         [t EXCEPT !.cursor = @ + 1]
    [] OTHER -> t

\* What BufferTracker::on_key returns: whether the popup should be updated.
TrackKeyChanges(t, key) ==
  \/ key.type \in {"Char", "Enter", "CtrlC"}
  \/ key.type = "Backspace" /\ t.cursor > 0
==============================================================================
