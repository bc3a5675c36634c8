---------------------------- MODULE IncidentBook ----------------------------
(***************************************************************************)
(* What the emergency surface promises of incidents, whoever presses,      *)
(* retries, acknowledges or closes at the same time: a child has at most   *)
(* one incident in flight, an incident stays with its child, and a closed  *)
(* one stays closed.                                                       *)
(***************************************************************************)
CONSTANTS Alerts, Children, None

VARIABLES open,   \* the incidents in flight
          closed, \* the incidents that ended
          about   \* about[a]: the child of incident a, None for no incident

vars == <<open, closed, about>>

Init ==
  /\ open = {}
  /\ closed = {}
  /\ about = [a \in Alerts |-> None]

Raise(a, c) ==
  /\ about[a] = None
  /\ \A b \in open : about[b] # c
  /\ open' = open \cup {a}
  /\ about' = [about EXCEPT ![a] = c]
  /\ UNCHANGED closed

Close(a) ==
  /\ a \in open
  /\ open' = open \ {a}
  /\ closed' = closed \cup {a}
  /\ UNCHANGED about

Next == \E a \in Alerts : Close(a) \/ \E c \in Children : Raise(a, c)

Spec == Init /\ [][Next]_vars
=============================================================================
