--------------------------- MODULE MCSosEmergency ---------------------------
(***************************************************************************)
(* Instances of SosEmergency for TLC: the handsets of two children and two *)
(* presses of the button for the first; one handset, one press and the     *)
(* ladder of one contact; the numbers of two contacts; and two guardians   *)
(* and a handset over incidents of one press.  The four are explored side  *)
(* by side.                                                                *)
(***************************************************************************)
EXTENDS SosEmergency, TLC

CONSTANTS sami, lina, d1, d2, g1, g2, p1, p2, n1, n2
VARIABLE part

TwoChildren == [d \in Devices |-> IF d = d1 THEN sami ELSE lina]

\* p1 by the handset, p2 by a guardian's account, who names a position of the handset.
Senders == [p \in Presses |-> IF p = p1 THEN d1 ELSE g1]
Doors == [p \in Presses |-> IF p = p1 THEN d1 ELSE None]
Subjects == [p \in Presses |-> sami]
Positions == [p \in Presses |-> IF p = p2 THEN d1 ELSE None]

Pressed ==
  \A t \in Txns : /\ op'[t] \in {"none", "fire", "resolve", "revoke"}
                  /\ by'[t] # g2

\* Its press is p2: a position may be named and erased.
Climbed ==
  \A t \in Txns : /\ op'[t] \in {"none", "fire", "escalate", "resolve", "revoke", "addContact", "changeContact"}
                  /\ op'[t] = "fire" => item'[t] = p2
                  /\ {by'[t], via'[t], item'[t], arg'[t]} \cap {d2, g2, n2} = {}
                  /\ Cardinality({c \in Contacts : contact'[c] # NoContact}) <= 1

\* The ladder alone, with room for a second contact and a second number.
Numbered ==
  \A t \in Txns : op'[t] \in {"none", "addContact", "changeContact"} /\ by'[t] # g2

\* What was raised with a position is acknowledged, escalated and closed by either guardian,
\* closed by the child's handset, and loses the position with it.
Answered ==
  \A t \in Txns : /\ op'[t] \in {"none", "fire", "acknowledge", "escalate", "resolve", "revoke"}
                  /\ op'[t] = "fire" => item'[t] = p2
                  /\ d2 \notin {by'[t], via'[t]}

PartInit == Init /\ part \in {"presses", "ladder", "numbers", "guardians"}
PartNext == /\ Next
            /\ part' = part
            /\ part = "presses" => Pressed
            /\ part = "ladder" => Climbed
            /\ part = "numbers" => Numbered
            /\ part = "guardians" => Answered
PartSpec == PartInit /\ [][PartNext]_<<vars, part>>

RowSymmetry == Permutations(Txns) \cup Permutations(Alerts) \cup Permutations(Contacts)
=============================================================================
