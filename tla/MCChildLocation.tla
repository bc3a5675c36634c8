--------------------------- MODULE MCChildLocation ---------------------------
(***************************************************************************)
(* Instances of ChildLocation for TLC: one child, two handsets, and two    *)
(* fixes of the first, in the order of their numbers.                      *)
(***************************************************************************)
EXTENDS ChildLocation, TLC

CONSTANTS sami, d1, d2, f1, f2, z1, z2

OneChild == [d \in Devices |-> sami]
FirstTakes == [f \in Fixes |-> d1]
Times == [f \in Fixes |-> IF f = f1 THEN 1 ELSE 2]
\* In both zones, then in one of them.
Places == [f \in Fixes |-> IF f = f1 THEN {z1, z2} ELSE {z1}]

RowSymmetry == Permutations(Txns) \cup Permutations(Codes)
=============================================================================
