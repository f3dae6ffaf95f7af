------------------------------- MODULE Targets -------------------------------
(***************************************************************************)
(* Names of keys and zones, and what a list of them stands for:            *)
(* src/src/targets.rs, with the checks src/src/cli.rs adds.                *)
(*                                                                         *)
(* Every comparison of names in the code ignores ASCII case and blanks at  *)
(* the ends; names here are the folded ones.  The code sorts what a list   *)
(* stands for by logical id and refuses a repeated one, so it is a set of  *)
(* ids here, and Plans!Rank gives the place of each.                       *)
(***************************************************************************)
EXTENDS Naturals, Sequences, FiniteSets

CONSTANTS
  Keys, KeyAliases,    \* functions from the names of keys to logical ids
  Zones, ZoneAliases,  \* the same for the zones of the chassis
  Digits               \* the names made of digits only

Device == {"keyboard", "chassis"}
All == "all"

Names(d)   == IF d = "keyboard" THEN Keys ELSE Zones
Aliases(d) == IF d = "keyboard" THEN KeyAliases ELSE ZoneAliases
Ids(d)     == {Names(d)[n] : n \in DOMAIN Names(d)}

POWER_LOGICAL_ID == 4

\* What the tables must be for the rest to make sense: each has some targets,
\* ids are distinct bytes below 255, an alias belongs to one target, "all" is
\* no name, the ordinary zones have the ids the compound command names, and
\* the power button has two names.
ASSUME TargetsAssumption ==
  /\ \A d \in Device :
       /\ DOMAIN Names(d) # {}
       /\ IsFiniteSet(DOMAIN Names(d))
       /\ Names(d) \in [DOMAIN Names(d) -> 0..254]
       /\ \A m, n \in DOMAIN Names(d) : Names(d)[m] = Names(d)[n] => m = n
       /\ Aliases(d) \in [DOMAIN Aliases(d) -> Ids(d)]
       /\ DOMAIN Aliases(d) \cap DOMAIN Names(d) = {}
       /\ All \notin DOMAIN Names(d) \cup DOMAIN Aliases(d)
  /\ {0, 2, POWER_LOGICAL_ID} = Ids("chassis")
  /\ \A t \in DOMAIN Zones \cup DOMAIN ZoneAliases :
       (IF t \in DOMAIN Zones THEN Zones[t] ELSE ZoneAliases[t])
           = POWER_LOGICAL_ID
         <=> t \in {"power", "power-button"}

Known(d, t) == t \in DOMAIN Names(d) \cup DOMAIN Aliases(d)

lookup(d, t) == IF t \in DOMAIN Names(d) THEN Names(d)[t] ELSE Aliases(d)[t]

\* What one name stands for.
Meant(d, t) == IF t = All THEN Ids(d) ELSE {lookup(d, t)}

\* Mutant: a key may be given twice, once by its name and once by an alias.
RepeatsByName(d, ts) ==
  /\ \A k \in DOMAIN ts : ts[k] = All \/ Known(d, ts[k])
  /\ \A j, k \in DOMAIN ts : j # k => ts[j] # ts[k]

\* add_target refuses an id it has seen.
Expands(d, ts) ==
  /\ \A k \in DOMAIN ts : ts[k] = All \/ Known(d, ts[k])
  /\ \A j, k \in DOMAIN ts :
       j # k => Meant(d, ts[j]) \cap Meant(d, ts[k]) = {}

expand(d, ts) == UNION {Meant(d, ts[k]) : k \in DOMAIN ts}

Mentions(ts, names) == \E k \in DOMAIN ts : ts[k] \in names

resolve_targets(d, ts) ==
  /\ Mentions(ts, {All}) => Len(ts) = 1
  /\ Expands(d, ts)

explicit_keyboard_live_target_limit == Cardinality(DOMAIN Keys \ Digits)

\* The names a keyboard write accepts.
validate_keyboard_live_target_names(ts) ==
  \/ ts = <<All>>
  \/ /\ Len(ts) <= explicit_keyboard_live_target_limit
     /\ ~Mentions(ts, {All})
     /\ ~Mentions(ts, Digits)
     /\ resolve_targets("keyboard", ts)
     /\ Cardinality(expand("keyboard", ts))
          \in 1..explicit_keyboard_live_target_limit
=============================================================================
