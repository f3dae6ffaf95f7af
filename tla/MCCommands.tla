------------------------------ MODULE MCCommands ------------------------------
(* The commands over the catalog of the program, and a set of target lists. *)
EXTENDS Commands, Catalog, SequencesExt

MCKeys        == KEYBOARD_TARGETS
MCKeyAliases  == KEYBOARD_ALIASES
MCZones       == CHASSIS_TARGETS
MCZoneAliases == CHASSIS_ALIASES
MCDigits      == DIGITS \cup {"43"}

\* The names of the keys, and those that are not numeric, in catalog order.
KeyNames  == InOrder(KEYBOARD_TARGETS)
NamedKeys == SelectSeq(KeyNames, LAMBDA n : n \notin DIGITS)

\* Lists of one name, and of two; the alias "," of a key is cut in two.
Short ==
  {<<"esc">>, <<"w">>, <<"5">>, <<"43">>, <<"all">>, <<"nokey">>, <<"back">>,
   <<"haptic">>, <<"power">>, <<"power-button">>, <<"", "">>,
   <<"escape", "esc">>, <<"touchpad", "back">>, <<"w", "all">>, <<"up", "f1">>,
   <<"back", "chassis">>, <<"w", "w">>}

\* Lists at the limits of a frame, of several, of the explicit names and of
\* the catalog, the longest ones back to front.
Long ==
  {SubSeq(NamedKeys, 1, n) : n \in {14, 15, 16, 30, 31, 45, 46, 60, 74, 75}}
    \cup {Reverse(NamedKeys), NamedKeys \o <<"esc">>, Reverse(KeyNames)}

MCLists == Short \cup Long

\* The catalog the counts of the program are written for.
ASSUME Cardinality(Ids("keyboard")) = 85 /\ Len(NamedKeys) = 75
=============================================================================
