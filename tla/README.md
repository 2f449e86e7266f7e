# Tabra in TLA+

Tabra shows completion popups in a terminal. A *session* wraps the user's shell
in a pseudo-terminal, watches what is typed, asks a *daemon* for completions and
draws a popup over the shell's output; without a session, *hooks* in zsh, bash
or fish do the same from their line editors. This directory models the session
and its parsers, the daemon's life, index and server, the engine that makes
completions of a line, and the hooks; it checks them with TLC on small instances
and proves some of it with TLAPS for all of them.

## The system

| Part | State | Operations | Talks to |
| --- | --- | --- | --- |
| Event loop (`session/event_loop.rs`) | three tasks, two threads, a SIGWINCH handler, five channels, two mutexes | read a key, forward, draw, erase, accept; debounce; process PTY output; write; resize; shut down | everything below |
| Popup (`session/popup.rs`) | visible, items, selected, last buffer and cursor, width, rows drawn | `on_key`, `on_command_line`, hide, render | event loop, daemon |
| Buffer tracker (`session/buffer_tracker.rs`) | buffer, cursor | `on_key`, `sync` | event loop |
| Key parser (`session/keys.rs`) | a pending ESC | `parse_bytes` | stdin task |
| OSC parser (`session/osc.rs`) | state, accumulator, matched prefix | `feed` | PTY processor |
| Shell integration (`session/integration.rs`) | none (scripts) | report the line, mark prompts | the shell |
| Session start (`session/mod.rs`, `session/pty.rs`) | terminal modes, child | fork, exec, restore | event loop |
| Rendering (`render/`) | none | `render_popup`, `erase_popup` | popup, daemon |
| Daemon (`daemon/mod.rs`) | socket, pid file, watcher, shutdown channel | bind, watch, clean up | spec index, server |
| IPC (`ipc/`) | one connection per request | complete, accept, dismiss, status, stop | daemon, session, hooks |
| Spec index (`spec/loader.rs`) | map of name to spec | load, get, reload, remove | daemon, server |
| Parser, resolver, matcher (`engine/`) | the generator cache | tokenize, parse, resolve, match | server |
| Shell hooks (`shell/`) | widget variables in zsh, bash and fish | used without a session | the shell, IPC |

What is hard in it, and what makes each part correct:

- **The event loop** shares a popup and a tracker between tasks that run in any
  order. Correct means: the screen shows the popup the state says (and nothing
  else of it), the popup belongs to the line in the shell, an accepted
  suggestion replaces the right word, no key is lost or stuck, and `run()`
  returns when the shell has exited.
- **The popup** keeps four fields consistent by hand in five places, draws a
  sliding window over its items, and cuts strings at offsets computed earlier.
- **The tracker** guesses the shell's line from the keys; prompts and reports
  correct it from the other side.
- **The parsers** of keys and markers get their bytes in arbitrary chunks.
- **The daemon** takes over stale sockets, reloads specs while it serves, and
  runs generators under timeouts that are longer than its clients', on worker
  threads and under a lock that reloads and other requests wait for. Every
  request must get an answer that was right at some instant, and nothing may
  wait for ever.
- **The engine** reads a line twice, in `parse` and in `resolve`, and the hooks a
  third time to find the token they replace; what it offers must be understood
  as what it was offered as, and put where it was asked for.
- **The hooks** keep five variables by hand, and see neither the keys they do not
  bind nor what is drawn on the terminal.

`PROJECT.json` lists the hazards at the lines where they bite, with the
properties that cover them.

## Modules

| Module | What it is |
| --- | --- |
| `Text` | Rust strings as sequences of bytes, with character boundaries |
| `Tokenizer` | the quoting rules; `tokenize` and `find_token_start` |
| `BufferTracker` | the tracker as operators on a record |
| `PopupState` | the popup as operators that return the next state and the action |
| `OscParser` | the marker parser, byte by byte, and what a stream of bytes means |
| `KeyParser` | the key parser, chunk by chunk, with the 10ms timeout |
| `MCStreams` | the two parsers' streams, for TLC |
| `Daemon` | daemons on one socket path: start, stale sockets, stop, crash |
| `SpecIndex` | the index of specs, its loading and its hot reload |
| `MCDaemon` | the two together, for TLC |
| `Completions` | what the daemon promises its clients, without its tasks |
| `Server` | the daemon's server, the lock of its index, its generators' cache, its clients |
| `Engine` | `parse`, `resolve`, the matcher and `handle_complete` as operators |
| `Hook` | the widgets of the three shells, over the engine's answers |
| `MCHook` | a small command for the hooks, for TLC |
| `Shell` | the shell, external: a line editor that emits the markers |
| `Session` | the event loop: one action per step of a task |
| `SessionProperties` | what the session should do |
| `MCSession` | the instances TLC checks |
| `SessionProofs` | every operation of the popup keeps it consistent; the session's inductive invariant and its first theorems |
| `LineProofs` | the tracker, the popup and the screen follow the line; Enter erases first; an accepted suggestion replaces the word |
| `StreamProofs` | what the two parsers make of every stream, however it is cut |
| `KeystrokeProofs` | keystrokes that are cleanly cut are recognised |
| `DaemonProofs` | one daemon serves, stale sockets are taken over, starts settle; the index follows the directory |
| `ServerProofs` | `Server` implements `Completions` |
| `HookProofs` | the hooks' popup is consistent and can be erased; an accepted item replaces the token |
| `Recursion` | induction, recursive functions and sequences, for the proofs |

`Session` extends `Tokenizer`, `BufferTracker`, `PopupState` and `Shell`; it
takes whole key events and marker events, which `KeyParser` and `OscParser`
make from bytes. The daemon is, to the session, the answers it may give. `Hook`
extends `Engine`, and that `Tokenizer`: a hook's answer is what the engine
completes for the hook's line. `Server` is the same daemon with the answers
abstracted and its concurrency kept, and `Daemon` and `SpecIndex` are its
process and the contents of its index.

### How the session corresponds to the code

A variable stands for a task (`stdin`, `debounce`, `ptyTask`, `main`: where it
is and what it has in hand), a channel (`debounceCh`, `writeCh`, `ptyWrite`,
`ptyOut`, and `tty` for what the kernel buffers), or shared state (`popup`,
`tracker`). `screen` is the set of popup rows on the terminal, counted down from
the cursor; `shell` is the shell; `input` what the user is still to type.

A step of a task runs from one `await` to the next. A send on a full channel and
a lock that is held are disabled actions. A guard is held by being at a place:
`PopupHeld` is true from the debounce task's lock to its dispatch
(event_loop.rs:202-205) and while a prompt erases the popup (239-246);
`TrackerHeld` while an update is being sent (388-391). Everything else locks,
works and unlocks within one step. A panic unwinds its task only: the task is
at `"panicked"` and its guards are free.

`Accept` is the longest handler: `StdinOnKey` (383), `StdinMeasure` (404),
`StdinSend` (405), `StdinSplice` (410-418), `StdinInject` (424). Its two later
guards are separate steps because the code unlocks in between.

`history` is read by no guard: it records the line an accepted suggestion should
leave, and counts erases and line feeds for Enter.

Abstractions: a popup's cells, colours and descriptions are left out, so a popup
is its number of rows; a completion item is its insert text; the daemon is any
answer it may give for the line (`Answers`), including none in time; the
30ms of the debounce is any moment at which no update is waiting; a terminal is
tall enough not to scroll when a popup is drawn. `TerminalWrite::EraseAndShow`,
`GhostText` and `ClearGhost` are constructed nowhere in the code.

The shell edits its line as the session's keys say, echoes, and emits the
markers of `integration.rs`: bash marks prompts only (`ReportsLine = FALSE`),
zsh and fish also report the line after an insertion or a deletion. The end of
a prompt is marked at different moments by the three scripts; the session
ignores that marker.

### The parsers

`OscParser` handles one byte per step of `feed`'s loop (`FeedByte`), over an
alphabet of ESC, the rest of the prefix shortened to two bytes, BEL, the
separator and one byte for each kind of field. `Meaning` is the reference: it
finds the markers in the whole stream at once, where the parser sees one byte
after the other. `ChunksDoNotMatter` says that after every call what was passed
through and what was reported are the meaning of the bytes so far.

`KeyParser` is `parse_bytes` (`ParseBytes`, with `KeyAt` for one turn of its
loop and `Csi` for what is after `ESC [`) and the loop of the stdin task around
it: a chunk (`StdinChunk`), or a timeout while an ESC is pending
(`StdinTimeout`). `cuts` and `pauses` are history. `BytesReachShell` holds of
any cuts; `KeystrokesRecognised` of clean ones only (`CleanlyCut`), because the
code completes a sequence that was cut after ESC and no other: after `ESC [` the
rest of an arrow is typed as characters (keys.rs:116), and an ESC followed at
once by another byte is one Alt key.

### The daemon

One step of `Daemon` is one system call of `async_run`; bind and listen are two,
because a connection to a socket that does not listen yet is refused like one to
a stale socket. `at` is where each process is, `socket` whose socket the path
names (dead or alive), `listening` which daemons hold a listener. Errors end a
start at `"refused"`; a crash leaves both files. `overlapped` is history: it is
set when two daemons are both neither off nor serving. Every claim about the
socket that the code could make needs it unset, and `takeover` shows why.

`SpecIndex` is one daemon's index: `LoadEntry` reads one entry of the directory,
`WatchStart` is as late as the code makes it, and every later change spawns a
task (`Spawned`) that `RunTask` runs in any order and that reads the file as it
is by then. The index is right about a name unless its last change was one the
watcher does not follow. `unfollowed` collects these names, and the four ways
to become one are the model's account of what hot reload does not do:

1. the file changes between its load and the start of the watch (mod.rs:122);
2. it is written while an earlier removal is still waiting, which may be applied
   last (mod.rs:107);
3. another file of the same stem is removed, such as a backup (loader.rs:120);
4. it is moved away, which the watcher reports as a modification (mod.rs:92).

A later change that is followed makes up for any of them.

`ended` is history too: a daemon was stopped or died. Until then
`StartsReachService` claims, overlapped or not, that starts that have settled
leave a daemon that serves and is reached.

### The server and its promise

`Completions` is the daemon as a client may think of it: ask, and get an answer
that is made at one instant, from the specs of that instant and from data at most
`MaxAge` old. `Server` is what the code does instead: accept, spawn, read, queue
for the lock, look into the cache, run a command, write. The refinement
(`Service`, a property of the run `server`) maps a connection whose client is
there to *open*, and to *decided* once its answer is being written; what a
handler does for a client that has gone maps to nothing.

`at` is where each connection's handler is. The commands run inside of
`handle_complete`, synchronously: a handler at `"runs"` keeps a worker thread
(`FreeWorker`) and the read lock (`NoReader`), so that reloads and the requests
queued behind them wait (`lockQueue`; tokio's lock is first come, first served).
A command's data may have been read at any moment of its run, but the cache
counts from its end (resolver.rs:398-405): the data served may be a command's
timeout older than `CACHE_TTL_SECS`, and `MaxAge` says so. Two connections may run
the same command, and the later to end overwrites the cache. The client's
timeout of two seconds may come at any moment. When `run` has returned the runtime is
dropped (`EndLoop`): handlers end at their next await, a worker that runs a
command when the command ends. One reload waits at a time, and a connection asks
one thing.

### The engine and the hooks

`Engine` has no state. `Parse` folds `Consumed` over the tokens, as the loop of
`parse` does, also past `--`; `Resolve` collects in the code's order; items have
the text they are matched by, the text they insert and a priority. The output of
templates and generators is part of an argument's suggestions. Scores are an external
library's, so what matches is ordered by priority alone, and an option or subcommand inserts its name
(`insert_value` is left out for these two).

`Hook` has one action per widget. `popup` holds the widgets' variables (those that only
a visible popup is read of are forgotten with it), `screen` the rows of the
terminal that show something of a popup, counted from the prompt's row. A hook
knows of the keys it binds; `EditElsewhere` is any other, and leaves the popup
where it is; `Submit` is Enter: rows move up past the prompt, and bash erases
(`_tabra_pre_prompt`) where zsh and fish do not. The daemon may always fail to
answer. `fresh` is history: the items were fetched for the line and cursor as they are.

`AcceptReplacesOffered` and `OffersAreUnderstood` are about fresh items, since the
hooks do insert stale ones (see below), and leave out a cursor right after a
blank inside of quotes, where `tokenize` takes the token for ended
(parser.rs:109) and the hooks do not.

## Runs

| Run | Question | Bounds |
| --- | --- | --- |
| `edits` | do tracker, popup, screen and shell agree? | a word and a blank, then any two of a character, Backspace, Left; answers of 0, 1 or 3 items; window of 2; channels of 2 |
| `keys` | does the popup stay consistent and drawn, does Enter erase first, does Tab replace the right word? | the same start, then any two of the popup's keys, and acceptances at the end and inside of a line; answers of 1 or 3 items |
| `progress` | is every key handled, and does `run()` return when the shell exits? | channels of 1, reports on, two widths, one key after the word, exit in any mode |
| `streams` | are markers and keys recognised in any chunks, and no byte lost? | all streams of 5 of 5 bytes, and of 2 of 11 whole and broken markers; payloads of at most 5; all sequences of 3 of 12 keystrokes; all chunks and timeouts |
| `daemon` | does one daemon serve, and start where one crashed; do starts that overlap settle; does the index follow the directory? | three processes, four starts, any number of crashes; a `.json` and a backup, two versions and a broken one, four changes |
| `server` | does the server do what `Completions` promises; does every handler end, every reload happen and every stop stop? | two connections, two workers, one cached command, two versions of the index; a timeout and a lifetime of one tick; any number of crashes |
| `hooks` | is the popup consistent and erasable; does an accepted item replace the right token, and is it parsed as what it was offered as? | the three shells; lines of at most 6 typed characters of 3, and five others; a command with two subcommands, aliases, five options and three arguments; 4 items at most, 2 rows |

The constants are small because the behaviour is: two rows are enough for a
window that slides (three items) and one that does not (one item), two slots for
a channel that is empty, in use and full, one byte of text for each class that
the code tells apart (letter, blank, and for `wide_char` lead and tail of a
character). A word and a blank is the shortest line for which the daemon has
items. `MaxVisible = 2` stands for the ten of the code; the proofs hold for
every value. Two connections are enough for one that keeps what the other waits
for, and for two that run one command; one tick of lifetime tells an entry that
is fresh from one that has just expired. The command of `MCHook` has an option
with an alias, one that takes a value and excludes another, a persistent one, a
hidden one and a hidden subcommand, an argument that needs quoting, and a variadic one.

The other runs show that the code does not do what its own comments say; each
stops at a counterexample, and `PROJECT.json` (`findings`) quotes the comment:

| Run | Shows |
| --- | --- |
| `accept_erase` | Tab empties the items and then counts them to erase: rows stay (event_loop.rs:404) |
| `stale_start` | the buffer shrinks between two guards of an acceptance: the slice panics (event_loop.rs:411) |
| `wide_char` | the cursor counts characters and is used as a byte offset (popup.rs:243) |
| `reports` | the shell's report of a key overtakes the tracker's own update: the key is there twice (event_loop.rs:386) |
| `takeover` | a starting daemon removes the socket of another one as stale (daemon/mod.rs:59) |

Divergences that were met and have no run:

- The end of stdin does not end `run()` (event_loop.rs:341 waits for the PTY only,
  event_loop.rs:40 says otherwise).
- "Abort and flush" of an oversized marker discards it (osc.rs:130-133).
- On a terminal of fewer than 32 columns `clamp` panics in the stdin task
  (overlay.rs:70), where overlay.rs:45 says the width constrains the popup. The
  model has it (`TooNarrow`): `KeysAreHandled` excuses the panic and
  `ShellExitEndsSession` holds in spite of it.
- In fish the response is split into lines before it is split at its blank line
  (fish_hook.rs:154-155), so that the hook has a count and no items: Tab inserts nothing, and
  the first item is printed in place of the popup. The model has it (`Parsed`).
- In zsh and fish a popup survives Enter; Tab at the next prompt inserts an item of
  the line before. In bash the row of the prompt may keep a row of the popup.
- A blank inside of quotes, or escaped, right before the cursor ends the token for
  `tokenize` (parser.rs:109) and not for the hooks (hook.rs:202) or
  `find_token_start`.
- Persistent options of a parent command are offered (resolver.rs:102) but parsed
  as arguments (parser.rs:203), and are then offered again.
- File names are inserted as they are, also those that need quoting.

### Fairness

`SessionFairness` is what the runtime gives: every task that can run does.
tokio's mutexes and channel slots are handed out first come, first served, so a
task that waits for one is not overtaken for ever: strong fairness for the three
tasks, whose guards are enabled and disabled by others; weak fairness for the
reader and writer threads and for the shutdown, which have no rival. The daemon
answers or times out (async_client.rs:12-14), so `DebounceAnswer` is part of
the debounce task. `ResponsiveSpec` adds a shell that reads its input and comes
back to its prompt, which the session does not control. No fairness is assumed
of the user, of a resize, of the end of input or of the shell's exit.

`ServerFairness`: strong fairness for the steps of a handler and of the reload,
which need a worker that others take and give back (tokio's scheduler and its
lock are fair); weak fairness for a command's timeout, for the end of the loop
and of the process, and for time. It asks nothing of the clients, of commands
(they may hang until they time out), of whoever stops the daemon or starts the
next one. `Tick` waits for a timeout that is due: `recv_timeout` is a bound on
real time, and what does not wait takes none.

## Proofs

`SessionProofs` proves first of each operation of the popup that it returns a popup
(type), a consistent one (`PopupConsistent`), and an action that can be drawn
(`Drawable`: the highlighted row is one of at most `MaxVisible`). The facts that
matter: the window's arithmetic (`WindowBounds`), the remainder of a wrapped
selection (`Remainder`), and that the clamp cannot fail on an answer, because a
daemon that would fail on the same width does not answer.

It then proves `Spec => []TypeOK`, `Spec => []PopupAlwaysConsistent` and
`Spec => []SelectionIsDrawn` from one inductive invariant, `IInv`. The three are
not inductive without its last conjunct, `InHand`: a step that sends an action
relies on what an earlier step put in hand (its kind, and that it can be drawn),
a step that forwards a key on a key having been read, and a step that handles an
event on there being one. There is one lemma per action; `NextInv` collects
them. The assumptions are those of the modules (`TextAssumption`,
`PopupAssumption`, `ShellAssumption`, `SessionAssumption`), which every run
evaluates.

`Recursion` is what the proofs about data rest on. The library's induction
theorems take a predicate, which the installed provers cannot choose; `Induction`
is about the numbers in a *set* instead, and follows from the well-foundedness of
the naturals. From it come the existence of functions that are defined by a start
and a step (`StepsExist`), or from the end of a sequence (`LooksAhead`,
`BackwardsExist`), sums over sequences (`Total`), and the flattening of sequences
(`FlattenConcat`). `f[i] == ...` says only that `f` is what solves its equation, if
anything does, so each recursive function a proof is about needs one of these first.

`LineProofs` adds to `IInv` what follows the line through the tasks:

- `EnterAlwaysErasesFirst` holds for whatever is typed, in any shell. `EnterInv`
  counts: each submission that is still on its way (read, queued, or in a chunk of
  output: `Underway`, a sum over each channel) has its erase ahead of it in the
  writer's queue, or done. Enter's erase is sent before Enter is, so the
  submissions never exceed the erases, wherever the key or its line feed is.
- `TrackerFollowsEdits` and `PopupFollowsEdits` are about the keys that edit one line
  of a shell that does not report it (`OnlyEdits`, a condition on the constants, which
  those of the run `edits` meet). `LineInv`: there are lines, from the shell's to the tracker's,
  each one key of `ptyWrite` further (`TrackerAhead`), and the update that the
  debounce task will have handled in the end is that of the tracker's line
  (`PopupCatchesUp`). Without the condition both are false: keys that the tracker does
  not follow (Ctrl-A) and reports that overtake a key (the run `reports`) part them.
- `ScreenFollowsTyping` is about the keys of these at which the stdin task draws
  nothing (`OnlyTyping`: not the popup's arrows nor Escape): the rows on the screen, once
  what is queued and what the debounce task has decided are drawn, are the
  popup's. With those keys, the run `edits` checks it; the stdin task sends after it
  unlocks, and what another task may send in between is not an invariant of the popup alone.
- `AcceptedWordReplaced` is about lines of one-byte characters none of which is a quote
  or a backslash (`PlainLines`; the constants of the run `keys` meet it, and the run
  `wide_char` shows that longer characters have to be excluded). From Tab on, `AcceptInv`
  says where the replacement is (`ReplacementUnderway`): in the hand of the stdin task, whose two looks at
  the popup nothing comes between while nothing else is on its way, or ahead of the
  shell, whose line has not changed since. That the splice is what it should be is
  `PlainSplice`.

`StreamProofs` is about the two parsers, one byte or one chunk per step.

- `HoldsWhatItMatchedAlways`, for every prefix whose first byte occurs once, every limit
  and every output: the invariant is inductive with the types (`OscInv`), and each
  state of the parser is one case of `FeedByteInv`.
- `ChunksNeverMatter`: under the same assumptions, what was passed through and reported is the
  meaning of the bytes so far. The invariant (`StreamInv`) is about every stream that
  begins with what was read: what was returned, and what the stream means from what
  is held back on, are what the whole stream means. A byte that extends the stream
  may change what those before it mean, so the claim about the bytes so far is not
  inductive. There is a lemma for each move of the parser (`NormalAdvances`, `MatchAdvances`,
  `MismatchAdvances`, `PayloadAdvances`).
- `BytesAlwaysReachShell`, for every keyboard, buffer size and timing: the events are the
  bytes that were read. Each arm of `parse_bytes` stands for its bytes (`KeyAtStands`, `Stands`),
  so do the keys of a chunk from each place on, by induction from its end
  (`KeysCover`), and so does a chunk with the ESC that was pending before it and the
  one that is after it (`ParseCovers`). `KeyAssumption` says what the proof needs of the
  byte classes: the printable bytes are neither ESC nor one of the seven control bytes.

`KeystrokeProofs` proves `KeystrokesAlwaysRecognised`, what the bytes alone do not
say: which events they become. `KeyboardAssumption` says which keystrokes it is about, those of
the terminals' conventions (`Conventional`: an ESC, a control byte, a character, Alt
with a byte, an arrow and other CSI sequences that end in their first final byte; not
sequences that begin with ESC O, which `parse_bytes` reads as an Alt key and a
character), and that UTF-8 characters do not begin one another. The invariant (`RecognisedInv`)
is that, while the cuts are clean, what is handled is the events of the keystrokes
before a place and an ESC is pending just when the next was begun (`Position`). It
rests on where keystrokes end (`StrokesPlaced`), on what one is in a chunk (`KeyRecognised`) and,
by induction from the end of the chunk, on what all of them are (`ChunkRecognised`).
That no pause came after a pending ESC is part of the invariant: without it, the
next chunk may begin with a `[` that was typed.

`DaemonProofs` proves `DaemonSpec => []OneServes` and
`DaemonSpec => StartsUnlessServed` for any set of daemons, any number of starts
and crashes. `DaemonInv` adds what the steps know: a daemon past its bind owns
the path (`Owns`), and one that is about to remove the path, to bind it again,
or that closed its listener, knows that nobody listens (`KnowsNobody`). Both hold
only while starts and ends do not overlap, the assumption the theorems state.
`StartsSettle` needs none: as long as nobody ends, a path that is free, or names a
daemon that is still on its way or serves, is where someone is about to arrive.

`DaemonProofs` also proves `IndexSpec => []IndexFollowsDirectory` for any files, stems,
versions and number of changes. What is true of a file before its tasks have run
is `FileInv`: its name has its version, or a task that reloads it waits and none
that removes its name; once the file is gone, its name is empty or such a removal
waits. A task may be any of those that wait, so the queue is handled as the set of
its elements (`TasksAppended`, `TaskRemoved`).

`ServerProofs` proves `ServerSpec => ServesAsPromised`, the refinement, for any
number of connections and workers and any times. Initial states map to initial
states, and there is one lemma per action that maps its step to one of the
service or to a stutter. The invariant (`ServerInv`, theorem `HandlersRelyOn`) is
what a handler relies on from one step to the next: a handler that runs a command
holds the specs the index still has, since no reload gets the lock, and the age
of cached data is at most its time in the cache and a timeout.

`HookProofs` proves `HookSpec => []HookPopupConsistent` and
`HookSpec => []RowsAreErasable` for any spec, since all the widgets rely on is that an answer is
a finite sequence. The two are proved together: that the rows drawn are the rows
erased needs the number of lines to be the one the popup was shown with.

Its third theorem, `AcceptedItemReplacesToken`, is `AcceptReplacesOffered` for every line the
hooks can meet, quotes and escapes included. Two conditions are stated as
`OneByteTexts`. Characters are one byte long, and a key inserts one: readline counts
bytes where the daemon counts characters, so the others are outside of the model. And what
the daemon answers with are texts: it is so when the spec's names and inserted
texts are, but to follow them through the folds of `Engine` is induction over data. The argument is
that of the two scans: at the start of the last token (`AtTokenStart`) quoting is
as at the start of a line and all tokens before are complete, so what follows is
scanned as if it stood alone (`ScansAfter`, with `ScansAgree` for what comes before it), and
the item with its blank adds its own tokens to those (`TokenReplaced`).

Only model-checked: `TrackerFollowsLine`, `PopupFollowsLine`, `ScreenFollowsPopup` and
`AcceptReplacesWord` beyond the conditions above; `OffersAreUnderstood`, which is about what
the folds of `Engine` over tokens compute. Liveness (`KeysAreHandled`, `ShellExitEndsSession`, `HandlersEnd`,
`ReloadsAreApplied`, `StopIsCarriedOut`) rests on fairness and `ENABLED`, which the
installed provers do not handle.

## Not modelled, and what is left

Not modelled: terminal modes, fork and exec, and the wait for a last key when the
runtime is dropped (input and output); colours and layout; deserialisation of
specs (`spec/types.rs`: data without state); the scores of the fuzzy matcher (an
external library) and the alphabetical order of equals; what commands and file
systems return; the commands that install and validate specs; several
generators in one request, and several reloads at a time; readline's
cursor, which counts bytes where the daemon counts characters.

What could be added:

1. Composition: the parsers in the session's pipeline, with an abstract
   transparent terminal that the session without a popup implements; and an
   abstract index that `SpecIndex` without the four exceptions implements.
2. Theorems: `ScreenFollowsPopup` with the popup's own keys; of `OffersAreUnderstood`,
   that each arm of `Consumed` does to a context what the item was offered for.
