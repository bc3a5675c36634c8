----------------------------- MODULE PushLedger -----------------------------
(***************************************************************************)
(* What the notification dispatcher promises a family, whatever its        *)
(* workers, leases, retries and restarts do: Firebase takes at most one    *)
(* push per event and handset, "delivered" is only ever written with that  *)
(* push behind it, and an event that was closed stays closed.              *)
(***************************************************************************)
EXTENDS Integers

CONSTANTS Events, Regs

VARIABLES pushes,   \* pushes[e][r]: how often Firebase took event e for handset r
          evidence, \* the pairs recorded as delivered
          closed    \* the events with a final status

ledger == <<pushes, evidence, closed>>

Init ==
  /\ pushes = [e \in Events |-> [r \in Regs |-> 0]]
  /\ evidence = {}
  /\ closed = {}

Push(e, r) ==
  /\ pushes[e][r] = 0
  /\ pushes' = [pushes EXCEPT ![e][r] = 1]
  /\ UNCHANGED <<evidence, closed>>

Record(e, r) ==
  /\ pushes[e][r] = 1
  /\ evidence' = evidence \cup {<<e, r>>}
  /\ UNCHANGED <<pushes, closed>>

CloseEvent(e) ==
  /\ closed' = closed \cup {e}
  /\ UNCHANGED <<pushes, evidence>>

Next ==
  \E e \in Events :
    \/ CloseEvent(e)
    \/ \E r \in Regs : Push(e, r) \/ Record(e, r)

Spec == Init /\ [][Next]_ledger
=============================================================================
