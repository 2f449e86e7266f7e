-------------------------- MODULE SessionProperties --------------------------
(***************************************************************************)
(* What the event loop should do, whatever the order in which its tasks    *)
(* run: the properties that the runs of MCSession check.                   *)
(***************************************************************************)
EXTENDS Session

\* The variables have their types.
TypeOK ==
  /\ input \in Seq(Keys)
  /\ stdin \in [pc : {"read", "onKey", "measure", "send", "splice", "inject", "forward",
                      "track", "notify", "ended", "panicked", "aborted"},
                key : Keys \cup {NoKey}, action : PopupAction, line : String]
  /\ debounce \in [pc : {"recv", "drain", "lock", "fetch", "dispatch", "panicked", "aborted"},
                   buffer : String, cursor : Nat, action : PopupAction]
  /\ ptyTask \in [pc : {"recv", "pass", "events", "reset", "erase", "ended"},
                  events : Seq(Output), lines : Nat]
  /\ main \in {"running", "sigwinch", "debounce", "ptyWriter", "join", "returned"}
  /\ popup \in Popup
  /\ tracker \in Tracker
  /\ debounceCh \in Seq(Tracker)
  /\ writeCh \in Seq(TerminalWrite)
  /\ ptyWrite \in Seq(ToShell)
  /\ ptyOut \in Seq(Seq(Output)) /\ tty \in Seq(Output)
  /\ shell \in ShellState
  /\ screen \subseteq 1 .. MaxVisible + 2
  /\ history \in [expected : String, cleared : Nat, submitted : Nat]

-----------------------------------------------------------------------------
(* Safety.                                                                 *)

(* The popup that any task finds when it gets the mutex is consistent: it  *)
(* is shown exactly while it has items, its selection is one of them, and  *)
(* the rows remembered for the next erase are the rows of its window       *)
(* (popup.rs, and the prompt reset of event_loop.rs:239-246).              *)
PopupAlwaysConsistent == PopupConsistent(popup)

(* A popup that is sent to the terminal highlights one of the rows it      *)
(* draws, and draws no more than ten: the sliding window of                *)
(* popup.rs:222-238 never loses the selection, also when it wraps around.  *)
SelectionIsDrawn ==
  \A i \in DOMAIN writeCh :
    writeCh[i].type = "ShowPopup" =>
      writeCh[i].row < writeCh[i].lines /\ writeCh[i].lines <= MaxVisible

(* The rows on the screen once these writes are done. *)
ScreenRun(rows, writes) ==
  LET shown[n \in 0 .. Len(writes)] ==
        IF n = 0 THEN rows ELSE Written(shown[n - 1], writes[n])
  IN  shown

ScreenAfter(rows, writes) == ScreenRun(rows, writes)[Len(writes)]

\* The rows of a popup on the screen.
PopupRows(p) == IF p.visible THEN 1 .. p.popupLines + 2 ELSE {}

(* When the mutex is free, the popup rows the terminal will show once the  *)
(* queued writes are done are those of the popup: the debounce task and    *)
(* the PTY processor send what they decided before they unlock             *)
(* (event_loop.rs:202-205, 239-246).  The stdin task unlocks first, so     *)
(* this holds while it has nothing of its own to draw; and a task that is  *)
(* aborted at the end of the session does not draw what it decided.        *)
ScreenFollowsPopup ==
  main = "running" /\ ~PopupHeld => ScreenAfter(screen, writeCh) = PopupRows(popup)

(* No output of a line that was submitted from under a popup reaches the   *)
(* terminal before the popup's erase (event_loop.rs:426-429 against the    *)
(* passthrough of 219-223).                                                *)
EnterErasesFirst == history.submitted <= history.cleared

(* At rest, a popup that is shown belongs to the line in the shell: the    *)
(* last update of a burst is the one that is asked for (event_loop.rs      *)
(* 190-206), whatever was answered in between.                             *)
PopupFollowsLine ==
  Idle /\ popup.visible => popup.lastBuffer = shell.line

(* At rest, the tracker holds the shell's line and cursor, although it is  *)
(* written both ahead of the shell, by keys, and behind it, by its reports *)
(* and prompts (event_loop.rs:385-391 against 227-237).                    *)
TrackerFollowsLine ==
  Idle => tracker.buffer = shell.line /\ tracker.cursor = shell.cursor

(* A suggestion accepted when everything was settled leaves the line it    *)
(* should: the word before the cursor replaced, the rest of the line kept  *)
(* (popup.rs:109-121, event_loop.rs:399-425).                              *)
AcceptReplacesWord ==
  [][ShellReadsLine /\ history.expected # <<>> => shell'.line = history.expected]_vars

-----------------------------------------------------------------------------
(* Liveness.                                                               *)

(* Whatever is typed, the session comes to rest with all of it handled, or *)
(* ends with the shell: no mutex, channel at its limit or late answer of   *)
(* the daemon holds a key or an update back for ever.  (A popup drawn on   *)
(* fewer than 32 columns ends the task that reads keys: overlay.rs:70.)    *)
KeysAreHandled ==
  <>[](\/ Idle /\ input = <<>>
      \/ main = "returned"
      \/ stdin.pc = "panicked")

(* When the shell has exited, run() returns (event_loop.rs:340-369).       *)
ShellExitEndsSession == shell.mode = "exited" ~> main = "returned"

-----------------------------------------------------------------------------
(* What the repository says of itself, and the code does not keep.         *)

(* popup.rs:21 of Accept, "erase popup and insert text": the erase of an   *)
(* accepted suggestion leaves no row of the popup.                         *)
AcceptErasesPopup ==
  [][WriterStep /\ Head(writeCh).type = "ErasePopup" /\ Head(writeCh).cause = "accept"
       => screen' = {}]_vars

(* event_loop.rs:228, "Sync local buffer tracker with shell's actual       *)
(* state": with a shell that reports its line, the tracker holds that line *)
(* at rest, after whatever order of keys and reports.                      *)
SyncCorrectsDesync == Idle => tracker.buffer = shell.line

(* popup.rs:23, "Start position of the token to replace (byte offset in    *)
(* buffer)": it lies in the buffer that is cut there.                      *)
TokenStartInBuffer ==
  stdin.pc = "splice" /\ ~PopupHeld => stdin.action.tokenStart <= Len(popup.lastBuffer)
==============================================================================
