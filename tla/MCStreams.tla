------------------------------ MODULE MCStreams ------------------------------
(***************************************************************************)
(* The two parsers of byte streams, each on its own stream: the marker     *)
(* parser on what the shell writes, the key parser on what the user types. *)
(***************************************************************************)
EXTENDS OscParser, KeyParser

ShortPrefix == <<"esc", "6", ";">>

\* Every short stream of the bytes a marker is made of.
OscBytes == {"esc", "6", ";", "bel", "PS"}
AnyBytes == BoundedSeq(OscBytes, 5)

\* Streams of whole markers, broken ones and text.
Marker(payload) == ShortPrefix \o payload \o <<"bel">>
Pieces ==
  { Marker(<<"PS">>), Marker(<<"PE">>), Marker(<<"CL", ";", "base64", ";", "digit">>),
    Marker(<<"CL", ";", "base64">>), Marker(<<"CL", ";", "digit", ";", "base64">>),
    Marker(<<"CL", ";", ";", "digit">>), Marker(<<"XX">>),
    Marker([i \in 1 .. 6 |-> "base64"]), <<"esc", "6">>, <<"esc">>, <<"text">> }
AnyPieces == {FlattenSeq(pieces) : pieces \in BoundedSeq(Pieces, 2)}

AnyOutputs == AnyBytes \cup AnyPieces

-----------------------------------------------------------------------------
AnyPrintable == {"[", "A", "B", "C", "D", "x", "3", "~"}
AnyFinal == AnyPrintable \ {"3"}
AnyCharacters == {<<"lead", "tail">>}

Stroke(bytes, event) == [bytes |-> bytes, event |-> event]

AnyKeyboard ==
  { Stroke(<<"x">>, Char(<<"x">>)), Stroke(<<"[">>, Char(<<"[">>)),
    Stroke(<<"A">>, Char(<<"A">>)), Stroke(<<"lead", "tail">>, Char(<<"lead", "tail">>)),
    Stroke(<<"esc">>, Key("Escape")), Stroke(<<"esc", "[", "A">>, Key("ArrowUp")),
    Stroke(<<"esc", "[", "D">>, Key("ArrowLeft")), Stroke(<<"cr">>, Key("Enter")),
    Stroke(<<"bs">>, Key("Backspace")), Stroke(<<"soh">>, Raw(<<"soh">>)),
    Stroke(<<"esc", "x">>, Raw(<<"esc", "x">>)),
    Stroke(<<"esc", "[", "3", "~">>, Raw(<<"esc", "[", "3", "~">>)) }

AnyTyped == BoundedSeq(AnyKeyboard, 3)

-----------------------------------------------------------------------------
\* One stream at a time: the parsers share nothing.
Init == OscInit /\ KeyInit /\ (output = <<>> \/ typed = <<>>)

Next ==
  \/ OscNext /\ UNCHANGED keyVars
  \/ KeyNext /\ UNCHANGED oscVars

Spec == Init /\ [][Next]_<<oscVars, keyVars>>
==============================================================================
