------------------------------ MODULE MCSession ------------------------------
(* Small instances of the session: what is typed in each run.              *)
EXTENDS SessionProperties

Ch(byte) == [type |-> "Char", text |-> <<byte>>]
Key(type) == [type |-> type, text |-> <<>>]

\* A command word and a blank: the shortest line a daemon has items for.
Word == <<Ch("a"), Ch(" ")>>

\* The word, then n of these keys.
WordThen(keys, n) == {Word \o rest : rest \in [1 .. n -> keys]}

AsciiBytes == {"a", " ", "x"}
NoBytes == {}
MCKeys == {Ch("a"), Ch(" "), Ch("x")} \cup {Key(t) : t \in KeyTypes \ {"Char"}}

\* Lists below and above the size of the window.
OneItem == {<<(<<"x">>)>>}
ThreeItems == {<<(<<"x">>), <<"a">>, <<"x", "x">>>>}
OneOrThree == OneItem \cup ThreeItems

Wide == {80}
WideAndNarrow == {80, 20}

AnyMode == {"prompt", "running"}
NoMode == {}

-----------------------------------------------------------------------------
\* Edits that redraw the popup from the debounce task only.
TypeEdits ==
  WordThen({Ch("a"), Key("Backspace"), Key("ArrowLeft")}, 2)
    \cup {<<Key("Backspace"), Ch("a")>>}

\* A suggestion accepted with the cursor at the end and inside of the line.
AcceptLines ==
  {Word \o <<Key("Tab")>>,
   Word \o <<Ch("a"), Key("Tab"), Key("Tab")>>,
   Word \o <<Key("ArrowLeft"), Key("ArrowLeft"), Ch("a"), Key("ArrowRight"), Key("Tab")>>,
   Word \o <<Ch("a"), Key("ArrowLeft"), Ch("a"), Key("Tab")>>}

\* The keys the popup takes for itself, and the two that submit or cancel.
TypePopupKeys ==
  WordThen({Key(t) : t \in {"ArrowDown", "ArrowUp", "Tab", "Enter", "CtrlC"}}, 2)
    \cup {Word \o <<Key("ArrowDown"), Ch("a")>>} \cup AcceptLines

\* The shell is left with Ctrl-D, or killed, whatever is under way; or is not.
TypeEnds ==
  {<<Key("CtrlD")>>, <<Ch("a"), Key("Enter")>>}
    \cup {Word \o <<Key(t)>> : t \in {"ArrowDown", "Escape"}}

-----------------------------------------------------------------------------
\* What is typed in the runs that contradict the repository's own words.
TypeTab == {Word \o <<Key("Tab")>>}
TypeBackspaceTab == {Word \o <<Key("Backspace"), Key("Tab")>>}
TypeAhead == {Word \o <<Ch("a")>>}

\* A character of two bytes.
WideBytes == AsciiBytes \cup {"lead", "tail"}
WideTails == {"tail"}
WideChar == [type |-> "Char", text |-> <<"lead", "tail">>]
WideKeys == MCKeys \cup {WideChar}
TypeWideChar == {Word \o <<WideChar, Ch(" "), Key("Tab")>>}
==============================================================================
