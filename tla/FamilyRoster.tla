----------------------------- MODULE FamilyRoster -----------------------------
(***************************************************************************)
(* What the membership operations promise a family: it always has one      *)
(* primary guardian, an active member, and that office only ever moves     *)
(* from its holder to another active member.                               *)
(***************************************************************************)
CONSTANTS Members, Founder

VARIABLES primary, \* the membership of the primary guardian
          active   \* the active memberships

roster == <<primary, active>>

Init == primary = Founder /\ active = {Founder}

Join(m) ==
  /\ active' = active \cup {m}
  /\ UNCHANGED primary

Leave(m) ==
  /\ m # primary
  /\ active' = active \ {m}
  /\ UNCHANGED primary

HandOver(m) ==
  /\ m \in active \ {primary}
  /\ primary' = m
  /\ UNCHANGED active

Next == \E m \in Members : Join(m) \/ Leave(m) \/ HandOver(m)

Spec == Init /\ [][Next]_roster
=============================================================================
