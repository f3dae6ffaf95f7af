----------------------------- MODULE MCSelection -----------------------------
(* TLC instance of Selection: a confirmed keyboard, one with another         *)
(* descriptor, one with the pinned descriptor on the wrong interface, two    *)
(* AW-ELCs with different serials and one without interface 0, on two ports. *)
EXTENDS Selection, TLC

CONSTANTS pinned, other, moved, first, second, odd, s1, s2, maker

TheKeyboards == {pinned, other, moved}
TheChassis   == {first, second, odd}
TheConforming == {first, second}
TwoPorts     == {1, 2}

TheInterfaces ==
  (pinned :> {0}) @@ (other :> {0}) @@ (moved :> {0, 1}) @@
  (first :> {0}) @@ (second :> {0}) @@ (odd :> {1})

TheDescriptors ==
  (pinned :> (0 :> "hash")) @@ (other :> (0 :> "signature")) @@
  (moved :> ((0 :> "mismatch") @@ (1 :> "hash")))

Rows == <<[label |-> maker, rgb |-> FALSE], [label |-> None, rgb |-> TRUE]>>

TheCollections ==
  [u \in TheKeyboards |-> [i \in TheInterfaces[u] |-> Rows]]

TheSerials ==
  (pinned :> None) @@ (other :> None) @@ (moved :> None) @@
  (first :> s1) @@ (second :> s2) @@ (odd :> None)

\* first and second differ in their names and serials only.
Swap == (first :> second) @@ (second :> first) @@ (s1 :> s2) @@ (s2 :> s1)

Symmetry == Permutations(Nodes) \cup {Swap}
=============================================================================
