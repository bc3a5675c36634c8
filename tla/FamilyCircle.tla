---------------------------- MODULE FamilyCircle ----------------------------
(***************************************************************************)
(* The collaboration group that tasks and events may name as their         *)
(* audience: who sits in its conversation now.  FamilyChat models how      *)
(* members come and go; here they do so at any moment, because tasks.js    *)
(* and calendar.js read the members without a lock.                        *)
(***************************************************************************)
EXTENDS Transactions

CONSTANTS Guardians, Kids

VARIABLE circle

CircleInit == circle = Guardians \cup Kids

Joins(p) == p \notin circle /\ circle' = circle \cup {p}
Goes(p) == p \in circle /\ circle' = circle \ {p}

CircleTurns == \E p \in Guardians \cup Kids : Joins(p) \/ Goes(p)

\* requireTaskThreadMember, requireEventThreadMember: where there is an audience, both the one
\* who acts and the child sit in it.
Included(audience, people) == audience => people \subseteq circle
=============================================================================
