------------------------------- MODULE MCHook --------------------------------
(* A small command for the hooks: g, with a subcommand c and their options.  *)
EXTENDS Hook

AllBytes == {"g", "c", "d", "v", "x", "-", " ", "\"", "\\"}
NoBytes == {}

Plain(text) == [name |-> text, insertValue |-> text]

\* A name with a blank in it, which is inserted with quotes.
Quoted == [name |-> <<"c", " ", "c">>, insertValue |-> <<"\"", "c", " ", "c", "\"">>]

AnArg(texts, optional, variadic) ==
  [suggestions |-> texts, isOptional |-> optional, isVariadic |-> variadic]

AnOption(names, args, exclusive, persistent) ==
  [names |-> names, args |-> args, exclusiveOn |-> exclusive, hidden |-> FALSE,
   isPersistent |-> persistent]

\* -v, --v: for all commands; -x: takes a value, not along with -v; -c: hidden.
OptionV == AnOption(<<(<<"-", "v">>), <<"-", "-", "v">>>>, <<>>, {}, TRUE)
OptionX == AnOption(<<(<<"-", "x">>)>>, <<AnArg(<<Plain(<<"d">>)>>, FALSE, FALSE)>>,
                    {<<"-", "v">>, <<"-", "-", "v">>}, FALSE)
OptionC == [AnOption(<<(<<"-", "c">>)>>, <<>>, {}, FALSE) EXCEPT !.hidden = TRUE]

CommandC ==
  [names |-> <<(<<"c">>), <<"c", "c">>>>, subcommands |-> <<>>, options |-> <<OptionX>>,
   args |-> <<AnArg(<<Plain(<<"x">>), Plain(<<"d">>)>>, FALSE, TRUE)>>, additional |-> <<>>,
   hidden |-> FALSE, filter |-> "prefix"]

CommandX ==
  [CommandC EXCEPT !.names = <<(<<"x">>)>>, !.hidden = TRUE, !.options = <<>>, !.args = <<>>]

CommandG ==
  [names |-> <<(<<"g">>)>>, subcommands |-> <<CommandX, CommandC>>,
   options |-> <<OptionV, OptionX, OptionC>>,
   args |-> <<AnArg(<<Quoted>>, TRUE, FALSE)>>, additional |-> <<Plain(<<"d", "d">>)>>,
   hidden |-> FALSE, filter |-> "none"]

Chars == {<<"c">>, <<"-">>, <<" ">>}

\* A line from the history, one with a quote open, one with an escaped blank, one
\* with the rest of a word after it, one past the separator.
OtherLines ==
  {<<"g", " ">>,
   <<"g", " ", "\"", "c">>,
   <<"g", " ", "d", "\\", " ", "d">>,
   <<"g", " ", "-", "v", " ", "c", "d">>,
   <<"g", " ", "-", "-", " ", "c">>}

AllShells == {"zsh", "bash", "fish"}
==============================================================================
