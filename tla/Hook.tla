-------------------------------- MODULE Hook ---------------------------------
(***************************************************************************)
(* The widgets of shell/hook.rs, bash_hook.rs and fish_hook.rs: a shell    *)
(* without a session, whose line editor runs a widget for each bound key.  *)
(* A widget asks the daemon, keeps the items and draws the popup below the *)
(* cursor; keys that are not bound edit the line behind its back.          *)
(*                                                                         *)
(* The line editors and the terminal are external.  Rows are counted from  *)
(* the one the prompt is on, and the terminal is tall enough not to        *)
(* scroll.                                                                 *)
(***************************************************************************)
EXTENDS Engine

CONSTANTS
  Shells,      \* of "zsh", "bash" and "fish"
  BoundChars,  \* the characters bound to self-insert
  Lines,       \* what other keys leave: history, a paste, what is not bound
  MaxVisible,  \* the ten rows of a popup
  MaxOutput,   \* bound: rows a command writes
  MaxLine      \* bound: length of the line that is typed

ASSUME HookAssumption ==
  /\ Shells \subseteq {"zsh", "bash", "fish"}
  /\ Lines \subseteq String
  /\ MaxVisible \in Nat \ {0} /\ MaxOutput \in Nat /\ MaxLine \in Nat

VARIABLES
  shell,    \* which it is
  line, cursor,
  popup,    \* the hook's variables
  screen,   \* the rows that show something of a popup
  fresh     \* history: the items were fetched for this line and cursor

hookVars == <<shell, line, cursor, popup, screen, fresh>>

\* _TABRA_POPUP_VISIBLE, POPUP_LINES, SELECTED, ITEM_COUNT, INSERTS, RENDERED_POPUP.
\* The last four are read of a visible popup only, and forgotten with it here.
NoPopup ==
  [visible |-> FALSE, lines |-> 0, selected |-> 0, count |-> 0,
   inserts |-> <<>>, rendered |-> FALSE]

HookInit ==
  /\ shell \in Shells
  /\ line = <<>> /\ cursor = 0
  /\ popup = NoPopup /\ screen = {} /\ fresh = FALSE

-----------------------------------------------------------------------------
\* Mistaken form of ErasedRows: the borders are forgotten.
ErasedWithoutBorders(p) == IF p.visible THEN 1 .. p.lines ELSE {}

\* _tabra_erase_popup
ErasedRows(p) == IF p.visible THEN 1 .. p.lines + 2 ELSE {}

\* The rendered popup has two borders; in fish it is one item, on the prompt's row
\* (see Parsed).  The basic popup, for another selection, has no borders.
DrawnRows(p) ==
  CASE ~p.visible -> {}
    [] p.visible /\ p.rendered /\ p.selected = 0 ->
         IF shell = "fish" THEN {0} ELSE 1 .. p.lines + 2
    [] OTHER -> 1 .. p.lines

\* _tabra_render_popup, as far as the variables.
Shown(p) ==
  IF p.count = 0 THEN NoPopup
  ELSE [visible |-> TRUE, lines |-> Least(p.count, MaxVisible), selected |-> p.selected,
        count |-> p.count, inserts |-> p.inserts, rendered |-> p.rendered]

\* The popup becomes p; what was drawn is erased before p is drawn.
Redrawn(p) == popup' = p /\ screen' = (screen \ ErasedRows(popup)) \cup DrawnRows(p)

\* The split of the response and _tabra_parse_response.  In fish the lines of a
\* command substitution are split already when they are split at the blank line:
\* its items section is the count alone, and the "rendered popup" the first item.
Parsed(response) ==
  [visible |-> FALSE, lines |-> 0, selected |-> 0, count |-> Len(response),
   inserts |-> IF shell = "fish" THEN <<>> ELSE response, rendered |-> TRUE]

\* _tabra_fetch_and_render for this line: the daemon's items, if it has any and
\* answers in time.
FetchAndRender(text, position) ==
  \/ Redrawn(NoPopup)
  \/ /\ Complete(text, position) # <<>>
     /\ Redrawn(Shown(Parsed(Complete(text, position))))

-----------------------------------------------------------------------------
\* _tabra_self_insert
SelfInsert ==
  /\ Len(line) < MaxLine
  /\ \E char \in BoundChars :
       /\ line' = InsertChar(line, cursor, char) /\ cursor' = cursor + 1
       /\ FetchAndRender(line', cursor')
  /\ fresh' = TRUE
  /\ UNCHANGED shell

\* _tabra_backward_delete.  fish deletes when the widget has ended.
BackwardDelete ==
  /\ line' = IF cursor > 0 THEN DeleteChar(line, cursor - 1) ELSE line
  /\ cursor' = IF cursor > 0 THEN cursor - 1 ELSE 0
  /\ LET seen == IF shell = "fish" THEN <<line, cursor>> ELSE <<line', cursor'>>
     IN  IF seen[1] # <<>> THEN FetchAndRender(seen[1], seen[2])
         ELSE Redrawn(NoPopup)
  /\ fresh' = (shell # "fish")
  /\ UNCHANGED shell

\* Mistaken form of TokenStart: quotes and escapes are not looked at.
LastBlank(before) == Greatest({n \in 1 .. Len(before) : before[n] \in Blanks})

\* The forward walk of _tabra_accept: after the last unquoted blank.
TokenStart(before) == Greatest(TokenBoundaries(before))

Chosen == IF popup.selected + 1 \in DOMAIN popup.inserts
          THEN popup.inserts[popup.selected + 1] ELSE <<>>

\* _tabra_accept.  Without a popup it does nothing (bash: return 1).
Accept ==
  /\ popup.visible /\ popup.count > 0
  /\ IF Chosen = <<>> THEN UNCHANGED <<line, cursor>>
     ELSE LET start == TokenStart(UpTo(line, cursor))
          IN  /\ line' = UpTo(line, start) \o Chosen \o <<" ">> \o After(line, cursor)
              /\ cursor' = start + Len(Chosen) + 1
  /\ Redrawn(NoPopup)
  /\ fresh' = FALSE
  /\ UNCHANGED shell

\* Mistaken form of Moved: no turn from the last item to the first.
MovedOn(p, step) == p.selected + step

\* Modulo the count, which must not be zero.
Moved(p, step) == (p.selected + step + p.count) % p.count

\* _tabra_up and _tabra_down; without a popup bash does nothing, the others go
\* through their history.
Navigate(step) ==
  /\ popup.visible
  /\ Redrawn(Shown([popup EXCEPT !.selected = Moved(popup, step)]))
  /\ UNCHANGED <<shell, line, cursor, fresh>>

\* _tabra_dismiss; without a popup zsh aborts the line, on a new one.
Dismiss ==
  /\ popup.visible
  /\ Redrawn(NoPopup)
  /\ UNCHANGED <<shell, line, cursor, fresh>>

\* A key the hook knows nothing of.
EditElsewhere ==
  /\ line' \in Lines /\ cursor' \in 0 .. Len(line')
  /\ fresh' = FALSE
  /\ UNCHANGED <<shell, popup, screen>>

\* Enter, which is not bound either: the command's output begins on the row below,
\* and the next prompt follows it.  In bash _tabra_pre_prompt erases there.
Submit ==
  /\ line' = <<>> /\ cursor' = 0
  /\ \E output \in 0 .. MaxOutput :
       LET left == {r \in 0 .. MaxVisible + 2 : r + output + 1 \in screen}
       IN  IF shell = "bash"
           THEN popup' = NoPopup /\ screen' = left \ ErasedRows(popup)
           ELSE screen' = left /\ UNCHANGED popup
  /\ fresh' = FALSE
  /\ UNCHANGED shell

HookNext ==
  \/ SelfInsert \/ BackwardDelete \/ Accept
  \/ Navigate(-1) \/ Navigate(1)
  \/ Dismiss \/ EditElsewhere \/ Submit

HookSpec == HookInit /\ [][HookNext]_hookVars

-----------------------------------------------------------------------------
\* A popup that is visible has items, one of them selected, and remembers its
\* rows: the widgets divide by the count whenever it is visible (hook.rs:221, 231),
\* and five of them set these variables one by one.
HookPopupConsistent ==
  IF popup.visible
  THEN /\ popup.count > 0 /\ popup.selected \in 0 .. popup.count - 1
       /\ popup.lines = Least(popup.count, MaxVisible)
       /\ shell # "fish" => Len(popup.inserts) = popup.count
  ELSE popup.lines = 0

\* Every row a popup left on the terminal is one the next erase clears (hook.rs:50),
\* whichever of the two drawings it was, and also below a later prompt; only on
\* the row of the prompt itself something may stay.
RowsAreErasable == screen \ {0} \subseteq ErasedRows(popup)

-----------------------------------------------------------------------------
\* The cursor is in the middle of a quoted token, after a blank: the daemon takes
\* that for the end of the token (parser.rs:109), and the hook does not.
EndsInQuotedBlank ==
  LET before == UpTo(line, cursor)
  IN  before # <<>> /\ before[Len(before)] \in Blanks
        /\ ~IsDelimiter(Quotes(before)[Len(before) - 1], before[Len(before)])

Before == Tokenize(line, cursor)

\* What a text comes to on a line of its own, with a blank after it.
TokensOf(text) == Tokenize(text \o <<" ">>, Len(text) + 1).tokens

AcceptsOffer == Accept /\ Chosen # <<>> /\ fresh /\ ~EndsInQuotedBlank

\* The text of an item that was offered for this line takes the place of the token
\* that was looked up, and nothing else changes: two scans of the line, in the shell (hook.rs:188-207)
\* and in the daemon (parser.rs:79-116), agree where that token starts.
AcceptReplacesOffered ==
  [][AcceptsOffer =>
       /\ Tokenize(line', cursor')
            = [tokens |-> Before.tokens \o TokensOf(Chosen), partial |-> <<>>]
       /\ After(line', cursor') = After(line, cursor)]_hookVars

\* What the daemon makes of an item that was one of its own offers in this context.
Understood(ctx, text, next) ==
  LET command == ctx.command
      sub == {i \in DOMAIN command.subcommands : text = command.subcommands[i].names[1]}
      option == {i \in DOMAIN command.options : text = Primary(command.options[i])}
      after == {item.insert : item \in Range(Resolve(next))}
  IN  IF ctx.separator THEN next.separator
      ELSE IF ctx.pending # NoOption THEN next = [ctx EXCEPT !.pending = NoOption]
      ELSE IF sub # {} THEN next.path = Append(ctx.path, First(sub))
      ELSE IF option # {} THEN
             /\ next.command = command /\ next.args = ctx.args
             /\ next.pending # NoOption \/ text \notin after
      ELSE next = [ctx EXCEPT !.args = @ + 1]

\* An item that is accepted is understood as what it was offered as: a subcommand
\* is entered, an option counts as used and is not offered again by any of its
\* names, its argument ends it, and the rest are arguments (resolver.rs:67-206
\* against parser.rs:144-217).
OffersAreUnderstood ==
  [][AcceptsOffer =>
       LET ctx == Parse(Before.tokens)
           next == Parse(Tokenize(line', cursor').tokens)
       IN  \/ Understood(ctx, TokensOf(Chosen)[1], next)
           \* The persistent options of parents are arguments to the parser.
           \/ Chosen \in {item.insert : item \in Range(OptionItems(ParentOptions(ctx)))}]_hookVars
==============================================================================
