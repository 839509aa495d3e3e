----------------------------- MODULE MC_Events ------------------------------
(* Texts for Events: "$0" in a message, "$1" in a name, spaces at the ends *)
(* and in the middle of commands, one inside an argument.                  *)
EXTENDS Events

MCTokens == {" ", "/", "$0", "$1", "<", ">", ":", "speech_balloon", "bob", "hi", "say"}
MCNames == {<<"bob">>, <<"bob", "$1">>}
MCMessages == {<<"hi">>, <<"$0", "$1">>}
MCFormats == {<<"$1">>}
MCCommands == {<<>>, <<" ", "say", " ", " ", "hi">>}
MCArguments == { << <<"say">>, <<>>, <<"hi", " ">> >> }

(* Plugins and listeners are interchangeable.                              *)
MCSymmetry == Permutations(Objects) \cup Permutations(Listeners)
=============================================================================
