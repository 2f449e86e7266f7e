-------------------------------- MODULE Shell --------------------------------
(***************************************************************************)
(* The shell at the other end of the pseudo-terminal, as the session uses  *)
(* it: a line editor that is handed keys and replacement lines, echoes     *)
(* them, and marks what it does with the private escape sequences of the   *)
(* integration scripts (session/integration.rs).  Its editing is external  *)
(* to the repository; its markers are not.                                 *)
(***************************************************************************)
EXTENDS Text

CONSTANTS
  ReportsLine,  \* zsh and fish report the line after an edit, bash does not
  StartMode     \* where the shell is when the user begins: see StartingShell

ASSUME ShellAssumption ==
  /\ ReportsLine \in BOOLEAN
  /\ StartMode \in {"prompt", "running"}

\* "prompt": reads keys; "running": a command runs; "exited".
ShellState == [line : String, cursor : Nat, mode : {"prompt", "running", "exited"}]

\* "running": the first prompt is still to be printed (the user types ahead of
\* it); "prompt": it has been printed and its markers are processed.
StartingShell == [line |-> <<>>, cursor |-> 0, mode |-> StartMode]

-----------------------------------------------------------------------------
(* What the shell writes: text on the cursor's line, a line feed (the      *)
(* first output of a submitted line; "cleared" is the history variable     *)
(* that says the session erased its popup for it), and markers.            *)

Echo == [type |-> "Text"]
Newline(cleared) == [type |-> "Newline", cleared |-> cleared]
CommandLine(sh) == [type |-> "CommandLine", buffer |-> sh.line, cursor |-> sh.cursor]
PromptStart == [type |-> "PromptStart"]
PromptEnd == [type |-> "PromptEnd"]

Output ==
  [type : {"Text", "PromptStart", "PromptEnd"}]
    \cup [type : {"Newline"}, cleared : BOOLEAN]
    \cup [type : {"CommandLine"}, buffer : String, cursor : Nat]

\* Markers are stripped by the OSC parser and become events.
IsEvent(out) == out.type \in {"CommandLine", "PromptStart", "PromptEnd"}

Report(sh) == IF ReportsLine THEN <<CommandLine(sh)>> ELSE <<>>

Prompt == <<PromptStart, Echo, PromptEnd>>

-----------------------------------------------------------------------------
\* The shell after a key read at the prompt.  Keys that edit in no way the
\* session could see (Tab, Escape, Ctrl-L, an empty history) change nothing.
KeyRead(sh, key) ==
  CASE key.type = "Char" ->
         [sh EXCEPT !.line = InsertChar(@, sh.cursor, key.text), !.cursor = @ + 1]
    [] key.type = "Backspace" /\ sh.cursor > 0 ->
         [sh EXCEPT !.line = DeleteChar(@, sh.cursor - 1), !.cursor = @ - 1]
    [] key.type \in {"Enter", "CtrlC"} ->
         [line |-> <<>>, cursor |-> 0, mode |-> "running"]
    [] key.type = "CtrlD" /\ sh.line = <<>> -> [sh EXCEPT !.mode = "exited"]
    [] key.type = "ArrowLeft" /\ sh.cursor > 0 -> [sh EXCEPT !.cursor = @ - 1]
    [] key.type = "ArrowRight" /\ sh.cursor < CharCount(sh.line) ->
         [sh EXCEPT !.cursor = @ + 1]
    [] key.type = "CtrlA" -> [sh EXCEPT !.cursor = 0]
    [] OTHER -> sh

KeyOutput(sh, key, cleared) ==
  CASE key.type \in {"Char", "Backspace"} -> <<Echo>> \o Report(KeyRead(sh, key))
    [] key.type \in {"Enter", "CtrlC"} -> <<Newline(cleared)>>
    [] OTHER -> <<Echo>>

\* Ctrl-A Ctrl-K and a new line: the whole line is replaced.  The reports of
\* its characters are taken as one, the last.
LineReplaced(sh, line) == [sh EXCEPT !.line = line, !.cursor = CharCount(line)]

ReplaceOutput(sh, line) == <<Echo>> \o Report(LineReplaced(sh, line))
==============================================================================
