------------------------------- MODULE Catalog -------------------------------
(***************************************************************************)
(* The tables of src/src/targets.rs: the keys behind the keyboard          *)
(* controller and the zones behind the AW-ELC controller, by name and by   *)
(* alias, with the logical id the controllers know them by.                *)
(***************************************************************************)
EXTENDS Naturals, Sequences, FiniteSets

\* Entries with consecutive ids, the first one being `first`.
Row(first, names) ==
  {[name |-> names[k], logical_id |-> first - 1 + k] : k \in DOMAIN names}

\* Ids by name.
Table(entries) ==
  [n \in {e.name : e \in entries} |->
     (CHOOSE e \in entries : e.name = n).logical_id]

\* The names in the order of their ids.
InOrder(table) ==
  LET place(n) == Cardinality({m \in DOMAIN table : table[m] <= table[n]})
  IN  <<>> \o [k \in 1..Cardinality(DOMAIN table) |->
                 CHOOSE n \in DOMAIN table : place(n) = k]

KEYBOARD_TARGETS == Table(
  Row(0, <<"escape", "f1", "f2", "f3", "f4", "f5", "f6", "f7", "f8", "f9",
    "f10", "f11", "f12", "home", "end", "delete", "mute", "volume-down",
    "volume-up", "mic-mute", "grave", "1", "2", "3", "4", "5", "6", "7", "8",
    "9", "0", "minus", "equal">>)
  \cup Row(34, <<"backspace">>) \cup Row(40, <<"tab">>)
  \cup Row(42, <<"q", "w", "e", "r", "t", "y", "u", "i", "o", "p",
    "left-bracket", "right-bracket">>)
  \cup Row(55, <<"backslash">>) \cup Row(60, <<"caps-lock">>)
  \cup Row(62, <<"a", "s", "d", "f", "g", "h", "j", "k", "l", "semicolon",
    "apostrophe">>)
  \cup Row(74, <<"enter">>) \cup Row(80, <<"left-shift">>)
  \cup Row(83, <<"z", "x", "c", "v", "b", "n", "m", "comma", "period",
    "slash">>)
  \cup Row(94, <<"right-shift">>)
  \cup Row(100, <<"left-ctrl", "fn", "left-meta">>)
  \cup Row(104, <<"left-alt">>) \cup Row(106, <<"space">>)
  \cup Row(109, <<"win-lock">>) \cup Row(111, <<"right-alt", "right-ctrl">>)
  \cup Row(114, <<"arrow-up">>)
  \cup Row(133, <<"arrow-left", "arrow-down", "arrow-right">>))

KEYBOARD_ALIASES == Table(
  Row(0, <<"esc">>) \cup Row(15, <<"del">>)
  \cup Row(17, <<"vol-down", "vol-up", "microphone-mute", "backtick">>)
  \cup Row(31, <<"-", "=">>) \cup Row(52, <<"[", "]">>)
  \cup Row(55, <<"\\">>) \cup Row(71, <<";", "'">>)
  \cup Row(74, <<"return">>) \cup Row(90, <<",", ".", "/">>)
  \cup Row(100, <<"ctrl">>) \cup Row(102, <<"left-windows">>)
  \cup Row(104, <<"alt">>) \cup Row(114, <<"up">>)
  \cup Row(133, <<"left", "down", "right">>))

CHASSIS_TARGETS == Table(Row(0, <<"touchpad">>) \cup Row(2, <<"back">>)
                         \cup Row(4, <<"power">>))
CHASSIS_ALIASES == Table(Row(0, <<"haptic">>) \cup Row(2, <<"chassis">>)
                         \cup Row(4, <<"power-button">>))

\* The names made of ASCII digits only.
DIGITS == {"0", "1", "2", "3", "4", "5", "6", "7", "8", "9"}
=============================================================================
