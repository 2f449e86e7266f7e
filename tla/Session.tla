------------------------------- MODULE Session -------------------------------
(***************************************************************************)
(* The event loop of a session (session/event_loop.rs): the tasks and      *)
(* threads between the terminal and the shell, the channels and mutexes    *)
(* they share, and the popup they draw over the shell's output.            *)
(*                                                                         *)
(*   keyboard -> stdin task -> ptyWrite -> shell -> tty -> reader thread   *)
(*     -> ptyOut -> pty task -> writeCh -> writer thread -> screen         *)
(*   stdin task -> debounceCh -> debounce task -> daemon -> writeCh        *)
(*                                                                         *)
(* A step of a task runs from one await point to the next.  The popup and  *)
(* the tracker are behind asynchronous mutexes: which task holds a guard   *)
(* is told by where it is (PopupHeld, TrackerHeld), so a guard goes with   *)
(* the task that is aborted or unwinds.                                    *)
(***************************************************************************)
EXTENDS Shell, PopupState, BufferTracker

CONSTANTS
  Keys,           \* the key events the user may type
  Typing,         \* the sequences of keys that are typed
  Suggestions,    \* the non-empty lists of items a daemon may answer with
  Columns,        \* the terminal widths
  StartColumns,   \* the width at startup
  ShellMayExit,   \* the modes in which the shell may exit by itself
  WriteCap,       \* capacity of the terminal write channel (256)
  PtyWriteCap,    \* capacity of the channel to the PTY writer (256)
  PtyOutCap,      \* capacity of the channel from the PTY reader (256)
  DebounceCap     \* capacity of the debounce channel (16)

KeyTypes == {"Char", "Tab", "Escape", "Enter", "Backspace", "ArrowUp", "ArrowDown",
             "ArrowLeft", "ArrowRight", "CtrlC", "CtrlD", "CtrlL", "CtrlA"}

ASSUME SessionAssumption ==
  /\ " " \in Bytes
  /\ Keys \subseteq [type : KeyTypes, text : String]
  /\ Typing \subseteq Seq(Keys)
  /\ Suggestions \subseteq Seq(String) \ {<<>>}
  /\ Columns \subseteq Nat
  /\ StartColumns \in Columns
  /\ ShellMayExit \subseteq {"prompt", "running"}
  /\ {WriteCap, PtyWriteCap, PtyOutCap, DebounceCap} \subseteq Nat \ {0}

VARIABLES
  input,       \* keys the terminal has not delivered yet
  stdin,       \* the stdin task: pc, key and popup action in hand, line to inject
  debounce,    \* the debounce task: pc, latest buffer and cursor, action in hand
  ptyTask,     \* the PTY processor: pc, rest of the chunk in hand, rows to erase
  main,        \* where run() is: waiting for the PTY processor, or shutting down
  popup,       \* PopupState, behind a mutex
  tracker,     \* BufferTracker, behind a mutex
  debounceCh,  \* (buffer, cursor) updates
  writeCh,     \* TerminalWrite actions
  ptyWrite,    \* what is to be written to the shell
  ptyOut,      \* chunks of shell output
  tty,         \* shell output the reader thread has not read yet
  shell,       \* the shell, external
  screen,      \* popup rows on the terminal, counted down from the cursor's row
  history      \* what properties compare with: see Init

tasks == <<stdin, debounce, ptyTask, main>>
channels == <<debounceCh, writeCh, ptyWrite, ptyOut, tty>>
vars == <<input, tasks, popup, tracker, channels, shell, screen, history>>

-----------------------------------------------------------------------------
NoKey == [type |-> "CtrlL", text |-> <<>>]

Reading == [pc |-> "read", key |-> NoKey, action |-> Action("Nothing"), line |-> <<>>]
Waiting == [pc |-> "recv", buffer |-> <<>>, cursor |-> 0, action |-> Action("Nothing")]
Processing == [pc |-> "recv", events |-> <<>>, lines |-> 0]

\* history.expected: the line an accepted suggestion should leave, when that is
\* decided at the keystroke.  cleared / submitted: erases done for an Enter, and
\* line feeds written for those Enters.
NoHistory == [expected |-> <<>>, cleared |-> 0, submitted |-> 0]

Init ==
  /\ input \in Typing
  /\ stdin = Reading
  /\ debounce = Waiting
  /\ ptyTask = Processing
  /\ main = "running"
  /\ popup = NewPopup(StartColumns)
  /\ tracker = EmptyTracker
  /\ debounceCh = <<>> /\ writeCh = <<>> /\ ptyWrite = <<>> /\ ptyOut = <<>>
  /\ tty = <<>>
  /\ shell = StartingShell
  /\ screen = {}
  /\ history = NoHistory

-----------------------------------------------------------------------------
(* Guards held across an await point.  Every other use of a mutex locks,   *)
(* reads or writes, and unlocks within one step.                           *)

PopupHeld == debounce.pc \in {"fetch", "dispatch"} \/ ptyTask.pc = "erase"
TrackerHeld == stdin.pc = "notify"

\* TerminalWrite, and which of the tasks' decisions an erase comes from.
TerminalWrite ==
  [type : {"Passthrough"}, newlines : Nat, cleared : Nat]
    \cup [type : {"ShowPopup"}, lines : Nat, prev : Nat, row : Nat]
    \cup [type : {"ErasePopup"}, lines : Nat, cause : {"hide", "enter", "accept"}]

ErasePopup(lines, cause) == [type |-> "ErasePopup", lines |-> lines, cause |-> cause]
ShowPopup(action) == [type |-> "ShowPopup", lines |-> action.lines,
                      prev |-> action.prev, row |-> action.row]

SendWrite(write) ==
  /\ Len(writeCh) < WriteCap
  /\ writeCh' = Append(writeCh, write)

\* What is written to the shell: the bytes of a key, or a replacement line.
ToShell == [type : {"Key"}, key : Keys, cleared : BOOLEAN]
             \cup [type : {"Line"}, line : String]

SendToShell(bytes) ==
  /\ Len(ptyWrite) < PtyWriteCap
  /\ ptyWrite' = Append(ptyWrite, bytes)

-----------------------------------------------------------------------------
(* The stdin task: reads a key, asks the popup what it means, does it.     *)

StdinRead ==
  /\ stdin.pc = "read" /\ input # <<>>
  /\ input' = Tail(input)
  /\ stdin' = [stdin EXCEPT !.pc = "onKey", !.key = Head(input)]
  /\ UNCHANGED <<debounce, ptyTask, main, popup, tracker, channels, shell, screen, history>>

StdinEof ==
  /\ stdin.pc = "read" /\ input = <<>>
  /\ stdin' = [Reading EXCEPT !.pc = "ended"]
  /\ UNCHANGED <<input, debounce, ptyTask, main, popup, tracker, channels, shell,
                 screen, history>>

\* Nothing is on its way that could change the line, and the popup knows it.
Settled ==
  /\ shell.mode = "prompt"
  /\ ptyWrite = <<>> /\ tty = <<>> /\ ptyOut = <<>> /\ debounceCh = <<>>
  /\ debounce.pc = "recv" /\ ptyTask.pc = "recv"
  /\ popup.lastBuffer = shell.line /\ popup.lastCursor = shell.cursor

\* The line an accepted suggestion should leave: the word before the cursor is
\* the suggestion and a blank, everything else is kept.
WordReplaced(line, cursor, insert) ==
  LET offset == CharToByte(line, cursor)
      start == Greatest({n \in 1 .. offset : line[n] \in Blanks})
  IN  UpTo(line, start) \o insert \o <<" ">> \o After(line, offset)

LineAfterAccept(insert) ==
  IF Settled THEN WordReplaced(shell.line, shell.cursor, insert) ELSE <<>>

\* Where each popup action takes the stdin task.
PcWithoutErase(action) ==
  CASE action.type \in {"ForwardKey", "EraseAndForward"} -> "forward"
    [] action.type \in {"Show", "Erase"} -> "send"
    [] action.type = "Accept" -> "measure"
    [] action.type = "Nothing" -> "read"
    [] action.type = "Panic" -> "panicked"

PcFor(action) ==
  CASE action.type = "ForwardKey" -> "forward"
    [] action.type \in {"Show", "Erase", "EraseAndForward"} -> "send"
    [] action.type = "Accept" -> "measure"
    [] action.type = "Nothing" -> "read"
    [] action.type = "Panic" -> "panicked"

StdinOnKey ==
  /\ stdin.pc = "onKey" /\ ~PopupHeld
  /\ LET result == OnKey(popup, stdin.key)
         action == result.action
     IN  /\ popup' = result.popup
         /\ stdin' = IF action.type = "Nothing" THEN Reading
                     ELSE [stdin EXCEPT !.pc = PcFor(action), !.action = action]
         /\ history' = IF action.type = "Accept"
                       THEN [history EXCEPT !.expected = LineAfterAccept(action.insert)]
                       ELSE history
  /\ UNCHANGED <<input, debounce, ptyTask, main, tracker, channels, shell, screen>>

\* Accept, first guard: the rows to erase are counted again.
StdinMeasure ==
  /\ stdin.pc = "measure" /\ ~PopupHeld
  /\ stdin' = [stdin EXCEPT !.pc = "send", !.action.lines = WindowLength(popup)]
  /\ UNCHANGED <<input, debounce, ptyTask, main, popup, tracker, channels, shell,
                 screen, history>>

\* The terminal write of Show, Erase, EraseAndForward and Accept.
StdinWrite(action) ==
  CASE action.type = "Show" -> ShowPopup(action)
    [] action.type = "Erase" -> ErasePopup(action.lines, "hide")
    [] action.type = "EraseAndForward" -> ErasePopup(action.lines, "enter")
    [] action.type = "Accept" -> ErasePopup(action.lines, "accept")

StdinSend ==
  /\ stdin.pc = "send"
  /\ SendWrite(StdinWrite(stdin.action))
  /\ stdin' = CASE stdin.action.type = "EraseAndForward" -> [stdin EXCEPT !.pc = "forward"]
                [] stdin.action.type = "Accept" -> [stdin EXCEPT !.pc = "splice"]
                [] OTHER -> Reading
  /\ UNCHANGED <<input, debounce, ptyTask, main, popup, tracker, debounceCh, ptyWrite,
                 ptyOut, tty, shell, screen, history>>

\* Accept, second guard: the new line is cut out of the last buffer.
SpliceOffsets(p, tokenStart) ==
  {tokenStart} \cup (IF p.lastCursor < Len(p.lastBuffer) THEN {p.lastCursor} ELSE {})

SplicedWithoutRest(p, action) ==
  UpTo(p.lastBuffer, action.tokenStart) \o action.insert \o <<" ">>

Spliced(p, action) ==
  UpTo(p.lastBuffer, action.tokenStart) \o action.insert \o <<" ">>
    \o After(p.lastBuffer, p.lastCursor)

StdinSplice ==
  /\ stdin.pc = "splice" /\ ~PopupHeld
  /\ stdin' = IF \A offset \in SpliceOffsets(popup, stdin.action.tokenStart) :
                   IsBoundary(popup.lastBuffer, offset)
              THEN [stdin EXCEPT !.pc = "inject", !.line = Spliced(popup, stdin.action)]
              ELSE [stdin EXCEPT !.pc = "panicked"]
  /\ UNCHANGED <<input, debounce, ptyTask, main, popup, tracker, channels, shell,
                 screen, history>>

StdinInject ==
  /\ stdin.pc = "inject"
  /\ SendToShell([type |-> "Line", line |-> stdin.line])
  /\ stdin' = Reading
  /\ UNCHANGED <<input, debounce, ptyTask, main, popup, tracker, debounceCh, writeCh,
                 ptyOut, tty, shell, screen, history>>

\* ForwardKey, and the second half of EraseAndForward.
StdinForward ==
  /\ stdin.pc = "forward"
  /\ SendToShell([type |-> "Key", key |-> stdin.key,
                  cleared |-> stdin.action.type = "EraseAndForward"])
  /\ stdin' = IF stdin.action.type = "ForwardKey"
              THEN [stdin EXCEPT !.pc = "track"] ELSE Reading
  /\ UNCHANGED <<input, debounce, ptyTask, main, popup, tracker, debounceCh, writeCh,
                 ptyOut, tty, shell, screen, history>>

\* The tracker follows the key; its guard is kept while the update is sent.
StdinTrack ==
  /\ stdin.pc = "track"
  /\ tracker' = TrackKey(tracker, stdin.key)
  /\ stdin' = IF TrackKeyChanges(tracker, stdin.key)
              THEN [stdin EXCEPT !.pc = "notify"] ELSE Reading
  /\ UNCHANGED <<input, debounce, ptyTask, main, popup, channels, shell, screen, history>>

StdinNotify ==
  /\ stdin.pc = "notify"
  /\ Len(debounceCh) < DebounceCap
  /\ debounceCh' = Append(debounceCh, tracker)
  /\ stdin' = Reading
  /\ UNCHANGED <<input, debounce, ptyTask, main, popup, tracker, writeCh, ptyWrite,
                 ptyOut, tty, shell, screen, history>>

StdinWork ==
  \/ StdinRead \/ StdinOnKey \/ StdinMeasure \/ StdinSend \/ StdinSplice \/ StdinInject
  \/ StdinForward \/ StdinTrack \/ StdinNotify

-----------------------------------------------------------------------------
(* The debounce task: the latest update of a burst is asked of the daemon  *)
(* and shown, under one guard of the popup.                                *)

DebounceRecv ==
  /\ debounce.pc = "recv" /\ debounceCh # <<>>
  /\ debounce' = [debounce EXCEPT !.pc = "drain", !.buffer = Head(debounceCh).buffer,
                                  !.cursor = Head(debounceCh).cursor]
  /\ debounceCh' = Tail(debounceCh)
  /\ UNCHANGED <<input, stdin, ptyTask, main, popup, tracker, writeCh, ptyWrite, ptyOut,
                 tty, shell, screen, history>>

DrainKeepsFirst ==
  /\ debounce.pc = "drain" /\ debounceCh # <<>>
  /\ debounceCh' = Tail(debounceCh)
  /\ UNCHANGED <<input, tasks, popup, tracker, writeCh, ptyWrite, ptyOut, tty, shell,
                 screen, history>>

DrainPeeks ==
  /\ debounce.pc = "drain" /\ debounceCh # <<>>
  /\ debounce' = [debounce EXCEPT !.buffer = Head(debounceCh).buffer,
                                  !.cursor = Head(debounceCh).cursor]
  /\ UNCHANGED <<input, stdin, ptyTask, main, popup, tracker, channels, shell, screen,
                 history>>

\* Another update within 30ms of the last one replaces it.
DebounceDrain ==
  /\ debounce.pc = "drain" /\ debounceCh # <<>>
  /\ debounce' = [debounce EXCEPT !.buffer = Head(debounceCh).buffer,
                                  !.cursor = Head(debounceCh).cursor]
  /\ debounceCh' = Tail(debounceCh)
  /\ UNCHANGED <<input, stdin, ptyTask, main, popup, tracker, writeCh, ptyWrite, ptyOut,
                 tty, shell, screen, history>>

\* 30ms without an update; a waiting one would have been received instead.
DebounceTimeout ==
  /\ debounce.pc = "drain" /\ debounceCh = <<>>
  /\ debounce' = [debounce EXCEPT !.pc = "lock"]
  /\ UNCHANGED <<input, stdin, ptyTask, main, popup, tracker, channels, shell, screen,
                 history>>

DebounceLock ==
  /\ debounce.pc = "lock" /\ ~PopupHeld
  /\ popup' = AskFor(popup, debounce.buffer, debounce.cursor)
  /\ debounce' = [debounce EXCEPT !.pc = "fetch"]
  /\ UNCHANGED <<input, stdin, ptyTask, main, tracker, channels, shell, screen, history>>

\* What can come back for the popup's line: an error, a timeout or nothing
\* (here <<>>), or items.  The daemon has items only when the line holds a
\* complete command word (server.rs handle_complete), and it renders them at
\* the same width, so that a too narrow terminal ends its connection unanswered.
Answers ==
  {<<>>} \cup (IF /\ Tokenize(popup.lastBuffer, popup.lastCursor).tokens # <<>>
                  /\ ~TooNarrow(popup.terminalCols)
               THEN Suggestions ELSE {})

DebounceAnswer ==
  /\ debounce.pc = "fetch"
  /\ \E items \in Answers :
       LET result == Answered(popup, items)
       IN  /\ popup' = result.popup
           /\ debounce' = CASE result.action.type = "Nothing" -> Waiting
                            [] result.action.type = "Panic" ->
                                 [Waiting EXCEPT !.pc = "panicked"]
                            [] OTHER -> [debounce EXCEPT !.pc = "dispatch",
                                                         !.action = result.action]
  /\ UNCHANGED <<input, stdin, ptyTask, main, tracker, channels, shell, screen, history>>

\* dispatch_popup_action, still under the guard.
DebounceDispatch ==
  /\ debounce.pc = "dispatch"
  /\ SendWrite(IF debounce.action.type = "Show" THEN ShowPopup(debounce.action)
               ELSE ErasePopup(debounce.action.lines, "hide"))
  /\ debounce' = Waiting
  /\ UNCHANGED <<input, stdin, ptyTask, main, popup, tracker, debounceCh, ptyWrite,
                 ptyOut, tty, shell, screen, history>>

DebounceTask ==
  \/ DebounceRecv \/ DebounceDrain \/ DebounceTimeout
  \/ DebounceLock \/ DebounceAnswer \/ DebounceDispatch

-----------------------------------------------------------------------------
(* The PTY processor: a chunk's passthrough bytes are sent first, then its *)
(* events are handled in order.                                            *)

\* The reader thread reads what has arrived, up to some point.
ReaderChunk ==
  /\ tty # <<>> /\ Len(ptyOut) < PtyOutCap
  /\ \E n \in 1 .. Len(tty) :
       /\ ptyOut' = Append(ptyOut, SubSeq(tty, 1, n))
       /\ tty' = SubSeq(tty, n + 1, Len(tty))
  /\ UNCHANGED <<input, tasks, popup, tracker, debounceCh, writeCh, ptyWrite, shell,
                 screen, history>>

Newlines(chunk) == {i \in 1 .. Len(chunk) : chunk[i].type = "Newline"}

Passthrough(chunk) ==
  [type |-> "Passthrough", newlines |-> Cardinality(Newlines(chunk)),
   cleared |-> Cardinality({i \in Newlines(chunk) : chunk[i].cleared})]

PtyRecv ==
  /\ ptyTask.pc = "recv" /\ ptyOut # <<>>
  /\ ptyTask' = [ptyTask EXCEPT !.pc = "pass", !.events = Head(ptyOut)]
  /\ ptyOut' = Tail(ptyOut)
  /\ UNCHANGED <<input, stdin, debounce, main, popup, tracker, debounceCh, writeCh,
                 ptyWrite, tty, shell, screen, history>>

\* The task with the events of this rest of a chunk left to handle.
WithEvents(rest) ==
  LET passed == Greatest({n \in 1 .. Len(rest) : \A i \in 1 .. n : ~IsEvent(rest[i])})
  IN  IF passed = Len(rest) THEN Processing
      ELSE [Processing EXCEPT !.pc = "events", !.events = After(rest, passed)]

PtyPass ==
  /\ ptyTask.pc = "pass"
  /\ IF \E i \in 1 .. Len(ptyTask.events) : ~IsEvent(ptyTask.events[i])
     THEN SendWrite(Passthrough(ptyTask.events)) ELSE UNCHANGED writeCh
  /\ ptyTask' = WithEvents(ptyTask.events)
  /\ UNCHANGED <<input, stdin, debounce, main, popup, tracker, debounceCh, ptyWrite,
                 ptyOut, tty, shell, screen, history>>

PtyCommandLine ==
  /\ ptyTask.pc = "events" /\ Head(ptyTask.events).type = "CommandLine"
  /\ ~TrackerHeld
  /\ tracker' = Sync(Head(ptyTask.events).buffer, Head(ptyTask.events).cursor)
  /\ ptyTask' = WithEvents(Tail(ptyTask.events))
  /\ UNCHANGED <<input, stdin, debounce, main, popup, channels, shell, screen, history>>

PtyPromptStart ==
  /\ ptyTask.pc = "events" /\ Head(ptyTask.events).type = "PromptStart"
  /\ ~TrackerHeld
  /\ tracker' = Sync(<<>>, 0)
  /\ ptyTask' = [ptyTask EXCEPT !.pc = "reset"]
  /\ UNCHANGED <<input, stdin, debounce, main, popup, channels, shell, screen, history>>

\* PromptStart, second guard: a popup that is still shown is closed.
PtyReset ==
  /\ ptyTask.pc = "reset" /\ ~PopupHeld
  /\ popup' = IF popup.visible THEN Closed(popup) ELSE popup
  /\ ptyTask' = IF popup.visible
                THEN [ptyTask EXCEPT !.pc = "erase", !.lines = WindowLength(popup)]
                ELSE WithEvents(Tail(ptyTask.events))
  /\ UNCHANGED <<input, stdin, debounce, main, tracker, channels, shell, screen, history>>

PtyErase ==
  /\ ptyTask.pc = "erase"
  /\ SendWrite(ErasePopup(ptyTask.lines, "hide"))
  /\ ptyTask' = WithEvents(Tail(ptyTask.events))
  /\ UNCHANGED <<input, stdin, debounce, main, popup, tracker, debounceCh, ptyWrite,
                 ptyOut, tty, shell, screen, history>>

PtyPromptEnd ==
  /\ ptyTask.pc = "events" /\ Head(ptyTask.events).type = "PromptEnd"
  /\ ptyTask' = WithEvents(Tail(ptyTask.events))
  /\ UNCHANGED <<input, stdin, debounce, main, popup, tracker, channels, shell, screen,
                 history>>

\* The reader thread has read the end of file: its channel is closed and empty.
PtyEnd ==
  /\ ptyTask.pc = "recv" /\ ptyOut = <<>>
  /\ shell.mode = "exited" /\ tty = <<>>
  /\ ptyTask' = [ptyTask EXCEPT !.pc = "ended"]
  /\ UNCHANGED <<input, stdin, debounce, main, popup, tracker, channels, shell, screen,
                 history>>

PtyTask ==
  \/ PtyRecv \/ PtyPass \/ PtyCommandLine \/ PtyPromptStart \/ PtyReset \/ PtyErase
  \/ PtyPromptEnd \/ PtyEnd

-----------------------------------------------------------------------------
(* The terminal.  Rows are counted down from the row of the cursor; a      *)
(* popup of n items takes n + 2 of them.                                   *)

\* The screen after a write (overlay.rs: render_popup_inplace, erase_popup).
Written(rows, write) ==
  CASE write.type = "ShowPopup" ->
         (rows \ (IF write.prev = 0 THEN {} ELSE 1 .. write.prev + 2))
           \cup 1 .. write.lines + 2
    [] write.type = "ErasePopup" -> rows \ 1 .. write.lines + 2
    [] write.type = "Passthrough" ->
         {row \in 1 .. MaxVisible + 2 : row + write.newlines \in rows}

WriterStep ==
  /\ writeCh # <<>>
  /\ LET write == Head(writeCh)
     IN  /\ screen' = Written(screen, write)
         /\ history' =
              CASE write.type = "Passthrough" -> [history EXCEPT !.submitted = @ + write.cleared]
                [] write.type = "ErasePopup" /\ write.cause = "enter" ->
                     [history EXCEPT !.cleared = @ + 1]
                [] OTHER -> history
  /\ writeCh' = Tail(writeCh)
  /\ UNCHANGED <<input, tasks, popup, tracker, debounceCh, ptyWrite, ptyOut, tty, shell>>

\* The SIGWINCH handler, while it is not aborted.
Resize ==
  /\ main \in {"running", "sigwinch"} /\ ~PopupHeld
  /\ \E cols \in Columns \ {popup.terminalCols} :
       popup' = [popup EXCEPT !.terminalCols = cols]
  /\ UNCHANGED <<input, tasks, tracker, channels, shell, screen, history>>

-----------------------------------------------------------------------------
(* The shell, with the PTY writer that hands it what was sent.             *)

ShellReadsKey ==
  /\ shell.mode = "prompt" /\ ptyWrite # <<>> /\ Head(ptyWrite).type = "Key"
  /\ ptyWrite' = Tail(ptyWrite)
  /\ shell' = KeyRead(shell, Head(ptyWrite).key)
  /\ tty' = tty \o KeyOutput(shell, Head(ptyWrite).key, Head(ptyWrite).cleared)
  /\ UNCHANGED <<input, tasks, popup, tracker, debounceCh, writeCh, ptyOut, screen, history>>

ShellReadsLine ==
  /\ shell.mode = "prompt" /\ ptyWrite # <<>> /\ Head(ptyWrite).type = "Line"
  /\ ptyWrite' = Tail(ptyWrite)
  /\ shell' = LineReplaced(shell, Head(ptyWrite).line)
  /\ tty' = tty \o ReplaceOutput(shell, Head(ptyWrite).line)
  /\ history' = [history EXCEPT !.expected = <<>>]
  /\ UNCHANGED <<input, tasks, popup, tracker, debounceCh, writeCh, ptyOut, screen>>

ShellPrompts ==
  /\ shell.mode = "running"
  /\ shell' = [shell EXCEPT !.mode = "prompt"]
  /\ tty' = tty \o Prompt
  /\ UNCHANGED <<input, tasks, popup, tracker, debounceCh, writeCh, ptyWrite, ptyOut,
                 screen, history>>

\* The submitted command was exit, or the shell is killed.
ShellExits ==
  /\ shell.mode \in ShellMayExit
  /\ shell' = [shell EXCEPT !.mode = "exited"]
  /\ UNCHANGED <<input, tasks, popup, tracker, channels, screen, history>>

ShellStep == ShellReadsKey \/ ShellReadsLine \/ ShellPrompts

-----------------------------------------------------------------------------
(* run(): once the PTY processor has ended, the other tasks are aborted    *)
(* one after the other, each at its next await point; what is left for the *)
(* shell is dropped; the writer thread is joined when it has written all.  *)

Stopped(task) == task.pc \in {"ended", "panicked"}

JoinStdin ==
  /\ main = "running" /\ ptyTask.pc = "ended" /\ Stopped(stdin)
  /\ main' = "sigwinch"
  /\ UNCHANGED <<input, stdin, debounce, ptyTask, popup, tracker, channels, shell,
                 screen, history>>

AbortStdin ==
  /\ main = "running" /\ ptyTask.pc = "ended"
  /\ stdin' = IF Stopped(stdin) THEN stdin ELSE [stdin EXCEPT !.pc = "aborted"]
  /\ main' = "sigwinch"
  /\ UNCHANGED <<input, debounce, ptyTask, popup, tracker, channels, shell, screen, history>>

AbortSigwinch ==
  /\ main = "sigwinch"
  /\ main' = "debounce"
  /\ UNCHANGED <<input, stdin, debounce, ptyTask, popup, tracker, channels, shell,
                 screen, history>>

AbortDebounce ==
  /\ main = "debounce"
  /\ debounce' = IF Stopped(debounce) THEN debounce ELSE [debounce EXCEPT !.pc = "aborted"]
  /\ main' = "ptyWriter"
  /\ UNCHANGED <<input, stdin, ptyTask, popup, tracker, channels, shell, screen, history>>

AbortPtyWriter ==
  /\ main = "ptyWriter"
  /\ ptyWrite' = <<>>
  /\ main' = "join"
  /\ UNCHANGED <<input, stdin, debounce, ptyTask, popup, tracker, debounceCh, writeCh,
                 ptyOut, tty, shell, screen, history>>

JoinWriter ==
  /\ main = "join" /\ writeCh = <<>>
  /\ main' = "returned"
  /\ UNCHANGED <<input, stdin, debounce, ptyTask, popup, tracker, channels, shell,
                 screen, history>>

Shutdown == AbortStdin \/ AbortSigwinch \/ AbortDebounce \/ AbortPtyWriter \/ JoinWriter

-----------------------------------------------------------------------------
\* Nothing is left to do before the user or the shell does something.
Idle ==
  /\ debounceCh = <<>> /\ writeCh = <<>> /\ ptyWrite = <<>> /\ ptyOut = <<>> /\ tty = <<>>
  /\ debounce.pc = "recv" /\ ptyTask.pc = "recv" /\ main = "running"
  /\ shell.mode = "prompt"
  /\ Stopped(stdin) \/ (stdin.pc = "read" /\ input = <<>>)

\* The session waits, or run() has returned.
Rest == (Idle \/ main = "returned") /\ UNCHANGED vars

Next ==
  \/ StdinWork \/ StdinEof \/ DebounceTask \/ ReaderChunk \/ PtyTask \/ WriterStep \/ Resize
  \/ ShellStep \/ ShellExits \/ Shutdown \/ Rest

Spec == Init /\ [][Next]_vars

(* The runtime schedules every task that can run.  Its mutexes and the     *)
(* slots of its channels are handed out in the order they are asked for,   *)
(* so a task that waits for one is not overtaken for ever: strong fairness *)
(* for the three tasks, weak for the threads that have no rival.  The      *)
(* daemon's answer is bounded by the timeouts of async_client.rs.  Nothing *)
(* is assumed of the user (a hang-up, a resize) or of the shell's exit.    *)
SessionFairness ==
  /\ SF_vars(StdinWork) /\ SF_vars(DebounceTask) /\ SF_vars(PtyTask)
  /\ WF_vars(ReaderChunk) /\ WF_vars(WriterStep) /\ WF_vars(Shutdown)

FairSpec == Spec /\ SessionFairness

\* A shell that reads what it is sent and comes back to its prompt.
ResponsiveSpec == FairSpec /\ WF_vars(ShellStep)
=============================================================================
