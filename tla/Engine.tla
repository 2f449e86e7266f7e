------------------------------- MODULE Engine --------------------------------
(***************************************************************************)
(* What the daemon makes of a command line (engine/): parse walks the      *)
(* command's spec along the tokens before the cursor, resolve collects     *)
(* what may come next, the matcher keeps what fits the partial token, and  *)
(* handle_complete sends the first items.                                  *)
(*                                                                         *)
(* An item is the text it is matched by and the text it inserts.  What an  *)
(* argument's templates and generators come to is part of its suggestions; *)
(* items of one priority stay in the order they were collected in, since   *)
(* scores are external.                                                    *)
(***************************************************************************)
EXTENDS Tokenizer, SequencesExt

CONSTANTS
  Root,       \* the spec of the one command in the index
  MaxItems    \* take(50)

\* A command, an option and an argument have these fields.
CommandFields == {"names", "subcommands", "options", "args", "additional", "hidden", "filter"}
OptionFields == {"names", "args", "exclusiveOn", "hidden", "isPersistent"}
ArgFields == {"suggestions", "isOptional", "isVariadic"}

ASSUME EngineAssumption ==
  /\ MaxItems \in Nat
  /\ DOMAIN Root = CommandFields
  /\ \A i \in DOMAIN Root.options : DOMAIN Root.options[i] = OptionFields
  /\ \A i \in DOMAIN Root.args : DOMAIN Root.args[i] = ArgFields

Separator == <<"-", "-">>
NoOption == <<>>

\* Mistaken form of Named: an alias is not recognised.
NamedFirst(list, token) == {i \in DOMAIN list : token = list[i].names[1]}

\* Where in a list of commands or options this token is a name.
Named(list, token) == {i \in DOMAIN list : token \in Range(list[i].names)}

First(places) == CHOOSE i \in places : \A j \in places : i <= j

IsDashed(token) == token[1] = "-"

-----------------------------------------------------------------------------
\* parse: the context after one more token.

Descended(ctx, i) ==
  LET command == ctx.command.subcommands[i]
  IN  [ctx EXCEPT !.command = command, !.path = Append(@, i), !.used = {}, !.args = 0,
                  !.filter = IF command.filter = "none" THEN @ ELSE command.filter]

WithOption(ctx, token, option) ==
  [ctx EXCEPT !.used = @ \cup {token},
              !.pending = IF option.args # <<>> /\ ~option.args[1].isOptional
                          THEN token ELSE NoOption]

Consumed(ctx, token) ==
  LET commands == Named(ctx.command.subcommands, token)
      options == IF IsDashed(token) THEN Named(ctx.command.options, token) ELSE {}
  IN  IF ctx.pending # NoOption THEN [ctx EXCEPT !.pending = NoOption]
      ELSE IF token = Separator THEN [ctx EXCEPT !.separator = TRUE]
      ELSE IF commands # {} THEN Descended(ctx, First(commands))
      ELSE IF options # {}
      THEN WithOption(ctx, token, ctx.command.options[First(options)])
      ELSE [ctx EXCEPT !.args = @ + 1]

AtRoot ==
  [command |-> Root, path |-> <<>>, used |-> {}, args |-> 0,
   pending |-> NoOption, separator |-> FALSE, filter |-> "default"]

\* parse of the tokens after the command's name.
Parse(tokens) == FoldLeft(Consumed, AtRoot, Tail(tokens))

-----------------------------------------------------------------------------
\* resolve: what may come next.

Item(match, insert, priority) == [match |-> match, insert |-> insert, priority |-> priority]

\* Names insert themselves.
NameItems(names, priority) == [i \in DOMAIN names |-> Item(names[i], names[i], priority)]

\* push_suggestion
SuggestionItems(suggestions) ==
  [i \in DOMAIN suggestions |-> Item(suggestions[i].name, suggestions[i].insertValue, 50)]

\* Subcommands and options rank 75 and 40, what an argument takes in between.
CommandItems(command) ==
  LET shown == SelectSeq(command.subcommands, LAMBDA sub : ~sub.hidden)
  IN  NameItems([i \in DOMAIN shown |-> shown[i].names[1]], 75)

\* push_option: the long name, if there is one.
Primary(option) ==
  LET long == {i \in DOMAIN option.names : IsPrefix(Separator, option.names[i])}
  IN  option.names[IF long = {} THEN 1 ELSE First(long)]

OptionItems(options) == NameItems([i \in DOMAIN options |-> Primary(options[i])], 40)

IsUsed(option, used) == Range(option.names) \cap used # {}

\* collect_options
OwnOptions(ctx) ==
  SelectSeq(ctx.command.options,
            LAMBDA option : /\ ~IsUsed(option, ctx.used)
                            /\ option.exclusiveOn \cap ctx.used = {}
                            /\ ~option.hidden)

\* walk_spec
CommandAt(path) == FoldLeft(LAMBDA command, i : command.subcommands[i], Root, path)

\* The persistent options of the commands above the current one, the root first.
ParentOptions(ctx) ==
  FoldLeft(LAMBDA options, depth :
             options \o SelectSeq(CommandAt(UpTo(ctx.path, depth)).options,
                                  LAMBDA option : option.isPersistent /\ ~IsUsed(option, ctx.used)),
           <<>>, [d \in 1 .. Len(ctx.path) |-> d - 1])

Suggested(args, i) == IF i \in DOMAIN args THEN SuggestionItems(args[i].suggestions) ELSE <<>>

\* The argument at the index, or the last one if that is variadic.
ArgItems(ctx) ==
  LET args == ctx.command.args
  IN  CASE ctx.args < Len(args) -> Suggested(args, ctx.args + 1)
        [] args # <<>> /\ ctx.args >= Len(args) /\ args[Len(args)].isVariadic ->
             Suggested(args, Len(args))
        [] OTHER -> <<>>

PendingOption(ctx) ==
  ctx.command.options[First(Named(ctx.command.options, ctx.pending))]

Resolve(ctx) ==
  CASE ctx.separator -> Suggested(ctx.command.args, Len(ctx.command.args))
    [] ~ctx.separator /\ ctx.pending # NoOption -> Suggested(PendingOption(ctx).args, 1)
    [] OTHER -> CommandItems(ctx.command) \o OptionItems(OwnOptions(ctx))
                  \o OptionItems(ParentOptions(ctx)) \o ArgItems(ctx)
                  \o SuggestionItems(ctx.command.additional)

-----------------------------------------------------------------------------
\* match_suggestions: what starts with the partial token, or holds its characters
\* in their order; by priority.
Matches(query, filter, text) ==
  IF filter = "prefix" THEN IsPrefix(query, text) ELSE query \in AllSubSeqs(text)

Matched(query, filter, items) ==
  SortSeq(SelectSeq(items, LAMBDA item : Matches(query, filter, item.match)),
          LAMBDA a, b : a.priority > b.priority)

\* handle_complete: what is sent for this line, nothing for a line without a
\* command, or one whose command has no spec.
Complete(line, cursor) ==
  LET scanned == Tokenize(line, cursor)
      ctx == Parse(scanned.tokens)
      items == IF scanned.tokens = <<>> \/ scanned.tokens[1] # Root.names[1] THEN <<>>
               ELSE Matched(scanned.partial, ctx.filter, Resolve(ctx))
      sent == Cardinality(DOMAIN items \cap 1 .. MaxItems)
  IN  [i \in 1 .. sent |-> items[i].insert]
==============================================================================
