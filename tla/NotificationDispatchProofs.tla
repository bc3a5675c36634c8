--------------------- MODULE NotificationDispatchProofs ---------------------
(***************************************************************************)
(* For any events, registrations, workers and bounds: Firebase is never    *)
(* asked twice for a push it took, and an attempt called delivered was     *)
(* taken.  Both follow from PushInv, which every step preserves.           *)
(* From SosInv: an SOS row that says delivered is true.  From CalmInv,     *)
(* which speaks of one run while nothing fails: what is closed is settled. *)
(***************************************************************************)
EXTENDS NotificationDispatch, WellFoundedInduction, FiniteSetTheorems, TLAPS

\* A non-empty set of attempt numbers has a greatest one.
LEMMA GreatestNumber ==
  ASSUME NEW N \in Nat, NEW S \in SUBSET (1..N), S # {}
  PROVE  \E n \in S : \A k \in S : k <= n
<1> DEFINE D == {N - m : m \in S}
<1>1. D \subseteq Nat /\ D # {}
  <2>1. \A m \in S : N - m \in Nat
    OBVIOUS
  <2>2. \E m \in S : N - m \in D
    OBVIOUS
  <2> QED BY <2>1, <2>2
<1>2. PICK d \in D : \A x \in D : d <= x
  <2> DEFINE R == OpToRel(<, Nat)
  <2> HIDE DEF D
  <2>1. PICK d \in D : \A x \in D : ~ (<<x, d>> \in R)
    <3> HIDE DEF R
    <3>1. IsWellFoundedOn(R, Nat)
      BY NatLessThanWellFounded DEF R
    <3> QED BY <1>1, <3>1, WFMin
  <2>2. \A x \in D : x < d => <<x, d>> \in R
    BY <1>1 DEF OpToRel
  <2>3. \A x \in D : d <= x
    <3> HIDE DEF R
    <3>1. TAKE x \in D
    <3>2. d \in Nat /\ x \in Nat
      BY <1>1
    <3>3. ~ (x < d)
      BY <2>1, <2>2
    <3> QED BY <3>2, <3>3
  <2> QED BY <2>3
<1>3. PICK n \in S : d = N - n
  OBVIOUS
<1>4. \A k \in S : N - n <= N - k
  BY <1>2, <1>3
<1>5. \A k \in S : k <= n
  BY <1>4
<1> QED BY <1>5

\* What a reader takes for the latest attempt is a stored one, or none at all.
LEMMA LatestIsStored ==
  ASSUME TypeOK, NEW e \in Events, NEW r \in Regs
  PROVE  /\ Latest(e, r) \in Attempt
         /\ Latest(e, r).outcome = "none" => Latest(e, r).n = 0
         /\ Latest(e, r).outcome # "none" =>
              /\ Latest(e, r).n \in AttemptNumbers
              /\ outcome[e][r][Latest(e, r).n] = Latest(e, r).outcome
<1>1. CASE Made(e, r) = {}
  BY <1>1, BoundsAssumption DEF Latest, NoAttempt, Attempt
<1>2. CASE Made(e, r) # {}
  <2> DEFINE n == CHOOSE m \in Made(e, r) : \A k \in Made(e, r) : k <= m
  <2>1. Made(e, r) \in SUBSET (1..MaxAttempts)
    BY DEF Made, AttemptNumbers
  <2>2. \E m \in Made(e, r) : \A k \in Made(e, r) : k <= m
    BY <1>2, <2>1, GreatestNumber, BoundsAssumption
  <2>3. n \in Made(e, r)
    BY <2>2
  <2>4. n \in AttemptNumbers /\ outcome[e][r][n] # "none"
    BY <2>3 DEF Made
  <2>5. outcome[e][r][n] \in Outcomes /\ due[e][r] \in BOOLEAN
    BY <2>4 DEF TypeOK
  <2>6. Latest(e, r) = [n |-> n, outcome |-> outcome[e][r][n], due |-> due[e][r]]
    BY <1>2 DEF Latest
  <2> QED
    BY <2>4, <2>5, <2>6, BoundsAssumption DEF Attempt, AttemptNumbers
<1> QED BY <1>1, <1>2

-----------------------------------------------------------------------------
(* Type correctness.                                                       *)

LEMMA TypeInit == Init => TypeOK
  BY BoundsAssumption DEF Init, TypeOK, EventStatus, Terminal, Outcomes, DeliveryStates,
     RegistrationStates, Steps, Attempt, NoAttempt, AttemptNumbers

LEMMA SetOutcomeType ==
  ASSUME TypeOK, NEW e \in Events, NEW r \in Regs, NEW n, NEW from, NEW to \in Outcomes,
         SetOutcome(e, r, n, from, to)
  PROVE  outcome' \in [Events -> [Regs -> [AttemptNumbers -> Outcomes \cup {"none"}]]]
<1> DEFINE f == [k \in AttemptNumbers |->
                   IF k = n /\ outcome[e][r][k] = from THEN to ELSE outcome[e][r][k]]
<1>1. f \in [AttemptNumbers -> Outcomes \cup {"none"}]
  BY DEF TypeOK
<1>2. outcome' = [outcome EXCEPT ![e] = [outcome[e] EXCEPT ![r] = f]]
  BY DEF SetOutcome, TypeOK
<1> QED
  <2> HIDE DEF f
  <2> QED BY <1>1, <1>2 DEF TypeOK

LEMMA StartedType ==
  ASSUME TypeOK, NEW e \in Events, NEW r \in Regs, NEW n
  PROVE  [outcome EXCEPT ![e][r][n] = "in_flight"]
           \in [Events -> [Regs -> [AttemptNumbers -> Outcomes \cup {"none"}]]]
<1> DEFINE f == [outcome[e][r] EXCEPT ![n] = "in_flight"]
<1>1. f \in [AttemptNumbers -> Outcomes \cup {"none"}]
  <2>1. outcome[e][r] \in [AttemptNumbers -> Outcomes \cup {"none"}]
    BY DEF TypeOK
  <2>2. "in_flight" \in Outcomes
    BY DEF Outcomes
  <2> QED BY <2>1, <2>2
<1> QED
  <2> HIDE DEF f
  <2>1. [outcome EXCEPT ![e] = [outcome[e] EXCEPT ![r] = f]]
          \in [Events -> [Regs -> [AttemptNumbers -> Outcomes \cup {"none"}]]]
    BY <1>1 DEF TypeOK
  <2> QED BY <2>1 DEF f

LEMMA TypeStep == PushInv /\ [Next]_vars => TypeOK'
<1> SUFFICES ASSUME TypeOK, LocalsSet, SendingIsOpen, SnapshotsHold, [Next]_vars
             PROVE  TypeOK'
  BY DEF PushInv
<1> USE DEF store, world, local
<1>1. ASSUME NEW w \in Workers, Claim(w) PROVE TypeOK'
  <2>1. status' \in [Events -> EventStatus]
    BY <1>1, BoundsAssumption DEF TypeOK, LocalsSet, Claim, EventStatus, Terminal
  <2>2. aged' \in [Events -> BOOLEAN]
    BY <1>1, BoundsAssumption DEF TypeOK, LocalsSet, Claim
  <2>3. queue' \in [Workers -> SUBSET Events]
    BY <1>1, BoundsAssumption DEF TypeOK, LocalsSet, Claim
  <2>4. pc' \in [Workers -> Steps]
    BY <1>1, BoundsAssumption DEF TypeOK, LocalsSet, Claim, Steps
  <2> QED BY <1>1, <2>1, <2>2, <2>3, <2>4 DEF TypeOK, Claim
<1>2. ASSUME NEW w \in Workers, NextEvent(w) PROVE TypeOK'
  <2>1. pc' \in [Workers -> Steps]
    BY <1>2, BoundsAssumption DEF TypeOK, LocalsSet, NextEvent, NoAttempt, Attempt, Steps
  <2>2. event' \in [Workers -> Events \cup {None}]
    BY <1>2, BoundsAssumption DEF TypeOK, LocalsSet, NextEvent, NoAttempt, Attempt
  <2>3. queue' \in [Workers -> SUBSET Events]
    <3>1. CASE queue' = queue
      BY <3>1 DEF TypeOK
    <3>2. ASSUME NEW e \in queue[w], queue' = [queue EXCEPT ![w] = @ \ {e}]
          PROVE  queue' \in [Workers -> SUBSET Events]
      BY <3>2 DEF TypeOK
    <3> QED BY <1>2, <3>1, <3>2 DEF NextEvent
  <2>4. targets' \in [Workers -> SUBSET Regs]
    BY <1>2, BoundsAssumption DEF TypeOK, LocalsSet, NextEvent, NoAttempt, Attempt
  <2>5. todo' \in [Workers -> SUBSET Regs]
    BY <1>2, BoundsAssumption DEF TypeOK, LocalsSet, NextEvent, NoAttempt, Attempt
  <2>6. seen' \in [Workers -> [Regs -> Attempt]]
    BY <1>2, BoundsAssumption DEF TypeOK, LocalsSet, NextEvent, NoAttempt, Attempt
  <2>7. recipients' \in [Workers -> SUBSET Guardians]
    BY <1>2, BoundsAssumption DEF TypeOK, LocalsSet, NextEvent, NoAttempt, Attempt
  <2>8. reg' \in [Workers -> Regs \cup {None}]
    BY <1>2, BoundsAssumption DEF TypeOK, LocalsSet, NextEvent, NoAttempt, Attempt
  <2>9. number' \in [Workers -> 0..MaxAttempts]
    BY <1>2, BoundsAssumption DEF TypeOK, LocalsSet, NextEvent, NoAttempt, Attempt
  <2>10. result' \in [Workers -> Outcomes \cup Terminal \cup {"none"}]
    BY <1>2, BoundsAssumption DEF TypeOK, LocalsSet, NextEvent, NoAttempt, Attempt, Outcomes, Terminal
  <2> QED BY <1>2, <2>1, <2>2, <2>3, <2>4, <2>5, <2>6, <2>7, <2>8, <2>9, <2>10 DEF TypeOK, NextEvent
<1>3. ASSUME NEW w \in Workers, Classify(w) PROVE TypeOK'
  <2>1. pc' \in [Workers -> Steps]
    BY <1>3, BoundsAssumption DEF TypeOK, LocalsSet, Classify, FinishWith, Steps
  <2>2. result' \in [Workers -> Outcomes \cup Terminal \cup {"none"}]
    BY <1>3, BoundsAssumption DEF TypeOK, LocalsSet, Classify, FinishWith, Outcomes, Terminal
  <2> QED BY <1>3, <2>1, <2>2 DEF TypeOK, Classify
<1>4. ASSUME NEW w \in Workers, MarkSosUnavailable(w) PROVE TypeOK'
  <2>1. delivery' \in [Events -> [Guardians -> DeliveryStates]]
    BY <1>4, BoundsAssumption DEF TypeOK, LocalsSet, MarkSosUnavailable, FinishWith, DeliveryStates
  <2>2. pc' \in [Workers -> Steps]
    BY <1>4, BoundsAssumption DEF TypeOK, LocalsSet, MarkSosUnavailable, FinishWith, Steps
  <2>3. result' \in [Workers -> Outcomes \cup Terminal \cup {"none"}]
    BY <1>4, BoundsAssumption DEF TypeOK, LocalsSet, MarkSosUnavailable, FinishWith, Outcomes, Terminal
  <2> QED BY <1>4, <2>1, <2>2, <2>3 DEF TypeOK, MarkSosUnavailable
<1>5. ASSUME NEW w \in Workers, ReadTargets(w) PROVE TypeOK'
  <2>1. targets' \in [Workers -> SUBSET Regs]
    <3>1. LiveRegs \in SUBSET Regs
      BY DEF LiveRegs
    <3>2. targets' = targets \/ targets' = [targets EXCEPT ![w] = LiveRegs]
      BY <1>5 DEF ReadTargets
    <3> QED BY <3>1, <3>2 DEF TypeOK
  <2>2. pc' \in [Workers -> Steps]
    <3>1. \E p \in {"finish", "attempts"} : pc' = [pc EXCEPT ![w] = p]
      BY <1>5 DEF ReadTargets, FinishWith
    <3> QED BY <3>1 DEF TypeOK, Steps
  <2>3. result' \in [Workers -> Outcomes \cup Terminal \cup {"none"}]
    BY <1>5, BoundsAssumption DEF TypeOK, LocalsSet, ReadTargets, FinishWith, LiveRegs, Outcomes, Terminal
  <2> QED BY <1>5, <2>1, <2>2, <2>3 DEF TypeOK, ReadTargets
<1>6. ASSUME NEW w \in Workers, ReadAttempts(w) PROVE TypeOK'
  <2>1. seen' \in [Workers -> [Regs -> Attempt]]
    BY <1>6, BoundsAssumption, LatestIsStored DEF TypeOK, LocalsSet, ReadAttempts
  <2>2. todo' \in [Workers -> SUBSET Regs]
    BY <1>6, BoundsAssumption DEF TypeOK, LocalsSet, ReadAttempts
  <2>3. pc' \in [Workers -> Steps]
    BY <1>6, BoundsAssumption DEF TypeOK, LocalsSet, ReadAttempts, Steps
  <2> QED BY <1>6, <2>1, <2>2, <2>3 DEF TypeOK, ReadAttempts
<1>7. ASSUME NEW w \in Workers, Visit(w) PROVE TypeOK'
  <2>1. todo' \in [Workers -> SUBSET Regs]
    BY <1>7, BoundsAssumption DEF TypeOK, LocalsSet, Visit, SetOutcome
  <2>2. outcome' \in [Events -> [Regs -> [AttemptNumbers -> Outcomes \cup {"none"}]]]
    <3>1. event[w] \in Events
      BY <1>7 DEF Visit, LocalsSet
    <3>2. PICK r \in todo[w] : \/ VisitSettled(w, r)
                              \/ VisitInFlight(w, r)
                              \/ VisitExhausted(w, r)
                              \/ StartAttempt(w, r)
      BY <1>7 DEF Visit
    <3>3. r \in Regs
      BY DEF TypeOK
    <3>4. CASE VisitInFlight(w, r)
      BY <3>1, <3>3, <3>4, SetOutcomeType DEF VisitInFlight, Outcomes
    <3>5. CASE VisitExhausted(w, r)
      BY <3>1, <3>3, <3>5, SetOutcomeType DEF VisitExhausted, Outcomes
    <3>6. CASE StartAttempt(w, r)
      <4> DEFINE n == seen[w][r].n + 1
      <4>1. outcome' = outcome \/ outcome' = [outcome EXCEPT ![event[w]][r][n] = "in_flight"]
        BY <3>6 DEF StartAttempt
      <4>2. [outcome EXCEPT ![event[w]][r][n] = "in_flight"]
              \in [Events -> [Regs -> [AttemptNumbers -> Outcomes \cup {"none"}]]]
        BY <3>1, <3>3, StartedType
      <4> QED BY <4>1, <4>2 DEF TypeOK
    <3>7. CASE VisitSettled(w, r)
      BY <3>7 DEF VisitSettled, TypeOK
    <3> QED BY <3>2, <3>4, <3>5, <3>6, <3>7
  <2>3. reg' \in [Workers -> Regs \cup {None}]
    <3>1. PICK r \in todo[w] : reg' = reg \/ reg' = [reg EXCEPT ![w] = r]
      BY <1>7 DEF Visit, VisitSettled, VisitInFlight, VisitExhausted, StartAttempt
    <3>2. r \in Regs /\ reg \in [Workers -> Regs \cup {None}]
      BY DEF TypeOK
    <3> QED BY <3>1, <3>2
  <2>4. number' \in [Workers -> 0..MaxAttempts]
    <3>1. PICK r \in todo[w] : \/ VisitSettled(w, r)
                              \/ VisitInFlight(w, r)
                              \/ VisitExhausted(w, r)
                              \/ StartAttempt(w, r)
      BY <1>7 DEF Visit
    <3>2. r \in Regs /\ seen[w][r] \in Attempt
      BY DEF TypeOK
    <3>3. CASE StartAttempt(w, r)
      <4>1. seen[w][r].outcome = "none" \/ seen[w][r].n < MaxAttempts
        BY <3>3 DEF StartAttempt, Waiting
      <4>2. seen[w][r].n + 1 \in 0..MaxAttempts
        BY <3>2, <4>1, BoundsAssumption DEF SnapshotsHold, Attempt
      <4> QED BY <3>3, <4>2 DEF StartAttempt, TypeOK
    <3>4. CASE ~ StartAttempt(w, r)
      BY <3>1, <3>4 DEF VisitSettled, VisitInFlight, VisitExhausted, TypeOK
    <3> QED BY <3>3, <3>4
  <2>5. pc' \in [Workers -> Steps]
    BY <1>7, BoundsAssumption DEF TypeOK, LocalsSet, Visit, SetOutcome, VisitSettled, VisitInFlight, VisitExhausted, StartAttempt, Attempt, Steps
  <2> QED BY <1>7, <2>1, <2>2, <2>3, <2>4, <2>5 DEF TypeOK, Visit
<1>8. ASSUME NEW w \in Workers, VisitDone(w) PROVE TypeOK'
  <2>1. pc' \in [Workers -> Steps]
    BY <1>8, BoundsAssumption DEF TypeOK, LocalsSet, VisitDone, Steps
  <2> QED BY <1>8, <2>1 DEF TypeOK, VisitDone
<1>9. ASSUME NEW w \in Workers, Send(w) PROVE TypeOK'
  <2>1. accepted' \in [Events -> [Regs -> SUBSET AttemptNumbers]]
    <3>1. event[w] \in Events /\ reg[w] \in Regs /\ number[w] \in AttemptNumbers
      BY <1>9 DEF Send, LocalsSet
    <3>2. \/ accepted' = accepted
          \/ accepted' = [accepted EXCEPT ![event[w]][reg[w]] = @ \cup {number[w]}]
      BY <1>9 DEF Send
    <3>3. accepted[event[w]][reg[w]] \cup {number[w]} \in SUBSET AttemptNumbers
      BY <3>1 DEF TypeOK
    <3> DEFINE A == accepted[event[w]][reg[w]] \cup {number[w]}
    <3>4. \/ accepted' = accepted
          \/ accepted' = [accepted EXCEPT ![event[w]] = [@ EXCEPT ![reg[w]] = A]]
      BY <3>2
    <3> HIDE DEF A
    <3>5. A \in SUBSET AttemptNumbers
      BY <3>3 DEF A
    <3>6. accepted \in [Events -> [Regs -> SUBSET AttemptNumbers]]
      BY DEF TypeOK
    <3>7. [accepted[event[w]] EXCEPT ![reg[w]] = A] \in [Regs -> SUBSET AttemptNumbers]
      BY <3>1, <3>5, <3>6
    <3> QED BY <3>1, <3>4, <3>6, <3>7
  <2>2. result' \in [Workers -> Outcomes \cup Terminal \cup {"none"}]
    BY <1>9, BoundsAssumption DEF TypeOK, LocalsSet, Send, Outcomes, Terminal
  <2>3. pc' \in [Workers -> Steps]
    BY <1>9, BoundsAssumption DEF TypeOK, LocalsSet, Send, Steps
  <2> QED BY <1>9, <2>1, <2>2, <2>3 DEF TypeOK, Send
<1>10. ASSUME NEW w \in Workers, Complete(w) PROVE TypeOK'
  <2>1. outcome' \in [Events -> [Regs -> [AttemptNumbers -> Outcomes \cup {"none"}]]]
    <3>1. event[w] \in Events /\ reg[w] \in Regs /\ result[w] \in Outcomes
      BY <1>10 DEF Complete, LocalsSet, SendingIsOpen, Sending
    <3> QED BY <1>10, <3>1, SetOutcomeType DEF Complete
  <2>2. due' \in [Events -> [Regs -> BOOLEAN]]
    BY <1>10, BoundsAssumption DEF TypeOK, LocalsSet, Complete, SetOutcome, NextTarget
  <2>3. pc' \in [Workers -> Steps]
    <3>1. \E p \in {"unregister", "visit"} : pc' = [pc EXCEPT ![w] = p]
      BY <1>10 DEF Complete, NextTarget
    <3> QED BY <3>1, BoundsAssumption DEF TypeOK, Steps
  <2>4. reg' \in [Workers -> Regs \cup {None}]
    <3>1. reg' = reg \/ reg' = [reg EXCEPT ![w] = None]
      BY <1>10 DEF Complete, NextTarget
    <3> QED BY <3>1, BoundsAssumption DEF TypeOK, Steps
  <2>5. number' \in [Workers -> 0..MaxAttempts]
    <3>1. number' = number \/ number' = [number EXCEPT ![w] = 0]
      BY <1>10 DEF Complete, NextTarget
    <3>2. 0 \in 0..MaxAttempts
      BY BoundsAssumption
    <3> QED BY <3>1, <3>2 DEF TypeOK
  <2>6. result' \in [Workers -> Outcomes \cup Terminal \cup {"none"}]
    BY <1>10, BoundsAssumption DEF TypeOK, LocalsSet, Complete, SetOutcome, NextTarget, Outcomes, Terminal
  <2> QED BY <1>10, <2>1, <2>2, <2>3, <2>4, <2>5, <2>6 DEF TypeOK, Complete
<1>11. ASSUME NEW w \in Workers, Unregister(w) PROVE TypeOK'
  <2>1. registration' \in [Regs -> RegistrationStates]
    BY <1>11, BoundsAssumption DEF TypeOK, LocalsSet, Unregister, NextTarget, RegistrationStates
  <2>2. pc' \in [Workers -> Steps]
    BY <1>11, BoundsAssumption DEF TypeOK, LocalsSet, Unregister, NextTarget, Steps
  <2>3. reg' \in [Workers -> Regs \cup {None}]
    BY <1>11, BoundsAssumption DEF TypeOK, LocalsSet, Unregister, NextTarget
  <2>4. number' \in [Workers -> 0..MaxAttempts]
    BY <1>11, BoundsAssumption DEF TypeOK, LocalsSet, Unregister, NextTarget
  <2>5. result' \in [Workers -> Outcomes \cup Terminal \cup {"none"}]
    BY <1>11, BoundsAssumption DEF TypeOK, LocalsSet, Unregister, NextTarget, Outcomes, Terminal
  <2> QED BY <1>11, <2>1, <2>2, <2>3, <2>4, <2>5 DEF TypeOK, Unregister
<1>12. ASSUME NEW w \in Workers, Reread(w) PROVE TypeOK'
  <2>1. seen' \in [Workers -> [Regs -> Attempt]]
    BY <1>12, BoundsAssumption, LatestIsStored DEF TypeOK, LocalsSet, Reread
  <2>2. todo' \in [Workers -> SUBSET Regs]
    BY <1>12, BoundsAssumption DEF TypeOK, LocalsSet, Reread
  <2>3. pc' \in [Workers -> Steps]
    BY <1>12, BoundsAssumption DEF TypeOK, LocalsSet, Reread, Steps
  <2> QED BY <1>12, <2>1, <2>2, <2>3 DEF TypeOK, Reread
<1>13. ASSUME NEW w \in Workers, Repair(w) PROVE TypeOK'
  <2>1. todo' \in [Workers -> SUBSET Regs]
    BY <1>13, BoundsAssumption DEF TypeOK, LocalsSet, Repair, SetOutcome
  <2>2. outcome' \in [Events -> [Regs -> [AttemptNumbers -> Outcomes \cup {"none"}]]]
    <3>1. event[w] \in Events
      BY <1>13 DEF Repair, LocalsSet
    <3>2. PICK r \in todo[w], from \in {"in_flight", "retryable_failure"},
               to \in {"ambiguous", "permanent_failure"} :
             SetOutcome(event[w], r, seen[w][r].n, from, to)
      BY <1>13 DEF Repair
    <3>3. r \in Regs
      BY DEF TypeOK
    <3> QED BY <3>1, <3>2, <3>3, SetOutcomeType DEF Outcomes
  <2> QED BY <1>13, <2>1, <2>2 DEF TypeOK, Repair
<1>14. ASSUME NEW w \in Workers, RepairDone(w) PROVE TypeOK'
  <2>1. seen' \in [Workers -> [Regs -> Attempt]]
    BY <1>14, BoundsAssumption, LatestIsStored DEF TypeOK, LocalsSet, RepairDone
  <2>2. recipients' \in [Workers -> SUBSET Guardians]
    BY <1>14, BoundsAssumption DEF TypeOK, LocalsSet, RepairDone
  <2>3. pc' \in [Workers -> Steps]
    BY <1>14, BoundsAssumption DEF TypeOK, LocalsSet, RepairDone, Steps
  <2> QED BY <1>14, <2>1, <2>2, <2>3 DEF TypeOK, RepairDone
<1>15. ASSUME NEW w \in Workers, Reconcile(w) PROVE TypeOK'
  <2>1. recipients' \in [Workers -> SUBSET Guardians]
    BY <1>15, BoundsAssumption DEF TypeOK, LocalsSet, Reconcile, SosDeliveryState
  <2>2. delivery' \in [Events -> [Guardians -> DeliveryStates]]
    <3>1. PICK g \in recipients[w] :
             delivery' = [delivery EXCEPT ![event[w]][g] = SosDeliveryState(w, g, @)]
      BY <1>15 DEF Reconcile
    <3>2. event[w] \in Events /\ g \in Guardians
      BY <1>15 DEF Reconcile, LocalsSet, TypeOK
    <3>3. SosDeliveryState(w, g, delivery[event[w]][g]) \in DeliveryStates
      BY <3>2 DEF SosDeliveryState, DeliveryStates, TypeOK
    <3> QED BY <3>1, <3>2, <3>3 DEF TypeOK
  <2> QED BY <1>15, <2>1, <2>2 DEF TypeOK, Reconcile
<1>16. ASSUME NEW w \in Workers, ReconcileDone(w) PROVE TypeOK'
  <2>1. pc' \in [Workers -> Steps]
    BY <1>16, BoundsAssumption DEF TypeOK, LocalsSet, ReconcileDone, Steps
  <2> QED BY <1>16, <2>1 DEF TypeOK, ReconcileDone
<1>17. ASSUME NEW w \in Workers, ScheduleRetry(w) PROVE TypeOK'
  <2>1. status' \in [Events -> EventStatus]
    BY <1>17, BoundsAssumption DEF TypeOK, LocalsSet, ScheduleRetry, EventStatus, Terminal
  <2>2. aged' \in [Events -> BOOLEAN]
    BY <1>17, BoundsAssumption DEF TypeOK, LocalsSet, ScheduleRetry
  <2>3. available' \in [Events -> BOOLEAN]
    BY <1>17, BoundsAssumption DEF TypeOK, LocalsSet, ScheduleRetry
  <2>4. pc' \in [Workers -> Steps]
    BY <1>17, BoundsAssumption DEF TypeOK, LocalsSet, ScheduleRetry, Steps
  <2> QED BY <1>17, <2>1, <2>2, <2>3, <2>4 DEF TypeOK, ScheduleRetry
<1>18. ASSUME NEW w \in Workers, Decide(w) PROVE TypeOK'
  <2>1. pc' \in [Workers -> Steps]
    BY <1>18, BoundsAssumption DEF TypeOK, LocalsSet, Decide, FinishWith, Verdict, Steps
  <2>2. result' \in [Workers -> Outcomes \cup Terminal \cup {"none"}]
    BY <1>18, BoundsAssumption DEF TypeOK, LocalsSet, Decide, FinishWith, Verdict, Outcomes, Terminal
  <2> QED BY <1>18, <2>1, <2>2 DEF TypeOK, Decide
<1>19. ASSUME NEW w \in Workers, Finish(w) PROVE TypeOK'
  <2>1. status' \in [Events -> EventStatus]
    <3>1. event[w] \in Events
      BY <1>19 DEF Finish, LocalsSet
    <3>2. PICK verdict \in Terminal : Close(event[w], verdict)
      BY <1>19 DEF Finish, LocalsSet, Terminal
    <3> QED BY <3>1, <3>2 DEF Close, EventStatus, TypeOK
  <2>2. aged' \in [Events -> BOOLEAN]
    BY <1>19, BoundsAssumption DEF TypeOK, LocalsSet, Finish, Close
  <2>3. pc' \in [Workers -> Steps]
    BY <1>19, BoundsAssumption DEF TypeOK, LocalsSet, Finish, Close, Steps
  <2> QED BY <1>19, <2>1, <2>2, <2>3 DEF TypeOK, Finish
<1>20. ASSUME NEW w \in Workers, LoseStatement(w) PROVE TypeOK'
  <2>1. pc' \in [Workers -> Steps]
    BY <1>20, BoundsAssumption DEF TypeOK, LocalsSet, LoseStatement, Fault, Steps
  <2>2. faults' \in 0..MaxFaults
    BY <1>20, BoundsAssumption DEF TypeOK, LocalsSet, LoseStatement, Fault
  <2> QED BY <1>20, <2>1, <2>2 DEF TypeOK, LoseStatement
<1>21. ASSUME NEW w \in Workers, LoseConnection(w) PROVE TypeOK'
  <2>1. pc' \in [Workers -> Steps]
    BY <1>21, BoundsAssumption DEF TypeOK, LocalsSet, LoseConnection, Fault, Steps
  <2>2. faults' \in 0..MaxFaults
    BY <1>21, BoundsAssumption DEF TypeOK, LocalsSet, LoseConnection, Fault
  <2> QED BY <1>21, <2>1, <2>2 DEF TypeOK, LoseConnection
<1>22. ASSUME NEW w \in Workers, LoseGiveUp(w) PROVE TypeOK'
  <2>1. pc' \in [Workers -> Steps]
    BY <1>22, BoundsAssumption DEF TypeOK, LocalsSet, LoseGiveUp, Fault, Steps
  <2>2. faults' \in 0..MaxFaults
    BY <1>22, BoundsAssumption DEF TypeOK, LocalsSet, LoseGiveUp, Fault
  <2> QED BY <1>22, <2>1, <2>2 DEF TypeOK, LoseGiveUp
<1>23. ASSUME NEW w \in Workers, Crash(w) PROVE TypeOK'
  <2>1. pc' \in [Workers -> Steps]
    BY <1>23, BoundsAssumption DEF TypeOK, LocalsSet, Crash, Fault, Steps
  <2>2. queue' \in [Workers -> SUBSET Events]
    BY <1>23, BoundsAssumption DEF TypeOK, LocalsSet, Crash, Fault
  <2>3. faults' \in 0..MaxFaults
    BY <1>23, BoundsAssumption DEF TypeOK, LocalsSet, Crash, Fault
  <2> QED BY <1>23, <2>1, <2>2, <2>3 DEF TypeOK, Crash
<1>24. CASE Reconfigure
  BY <1>24, BoundsAssumption DEF Reconfigure, Fault, TypeOK
<1>25. ASSUME NEW e \in Events, TimePasses(e) PROVE TypeOK'
  <2>1. CASE LeaseAges(e)
    BY <2>1 DEF LeaseAges, TypeOK
  <2>2. CASE EventFallsAvailable(e)
    BY <2>2 DEF EventFallsAvailable, TypeOK
  <2>3. ASSUME NEW r \in Regs, RetryFallsDue(e, r) PROVE TypeOK'
    BY <2>3 DEF RetryFallsDue, TypeOK
  <2> QED BY <1>25, <2>1, <2>2, <2>3 DEF TimePasses
<1>26. ASSUME NEW e \in Events, SubjectLeaves(e) PROVE TypeOK'
  BY <1>26 DEF SubjectLeaves, TypeOK
<1>27. ASSUME NEW r \in Regs, RegistrationChanges(r) PROVE TypeOK'
  BY <1>27 DEF RegistrationChanges, RegistrationStates, TypeOK
<1>28. CASE UNCHANGED vars
  BY <1>28 DEF vars, TypeOK
<1> QED
  BY <1>1, <1>2, <1>3, <1>4, <1>5, <1>6, <1>7, <1>8, <1>9, <1>10, <1>11, <1>12, <1>13, <1>14, <1>15, <1>16, <1>17, <1>18, <1>19, <1>20, <1>21, <1>22, <1>23, <1>24, <1>25, <1>26, <1>27, <1>28
  DEF Next, WorkerStep, WorkerFails

-----------------------------------------------------------------------------
(* The rest of the invariant.                                              *)

PushCore ==
  /\ OnlyAfterRefusal
  /\ AcceptedNotRefused
  /\ DeliveredHasEvidence
  /\ SendingIsOpen
  /\ OneSender
  /\ SnapshotsHold

\* A step of w leaves what the other workers send and saw alone.
OthersKeep(w) ==
  \A v \in Workers \ {w} :
    /\ pc'[v] = pc[v]
    /\ event'[v] = event[v]
    /\ reg'[v] = reg[v]
    /\ number'[v] = number[v]
    /\ result'[v] = result[v]
    /\ seen'[v] = seen[v]

LEMMA LocalsStep == PushInv /\ [Next]_vars => LocalsSet'
<1> SUFFICES ASSUME TypeOK, LocalsSet, SnapshotsHold, [Next]_vars
             PROVE  LocalsSet'
  BY DEF PushInv
<1> USE DEF store, world, local
<1>1. ASSUME NEW w \in Workers, Claim(w) PROVE LocalsSet'
  BY <1>1 DEF Claim, LocalsSet, TypeOK
<1>2. ASSUME NEW w \in Workers, NextEvent(w) PROVE LocalsSet'
  BY <1>2 DEF NextEvent, LocalsSet, TypeOK
<1>3. ASSUME NEW w \in Workers, Classify(w) PROVE LocalsSet'
  BY <1>3 DEF Classify, FinishWith, Terminal, LocalsSet, TypeOK
<1>4. ASSUME NEW w \in Workers, MarkSosUnavailable(w) PROVE LocalsSet'
  BY <1>4 DEF MarkSosUnavailable, FinishWith, Terminal, LocalsSet, TypeOK
<1>5. ASSUME NEW w \in Workers, ReadTargets(w) PROVE LocalsSet'
  BY <1>5 DEF ReadTargets, FinishWith, Terminal, LocalsSet, TypeOK
<1>6. ASSUME NEW w \in Workers, ReadAttempts(w) PROVE LocalsSet'
  BY <1>6 DEF ReadAttempts, LocalsSet, TypeOK
<1>7. ASSUME NEW w \in Workers, Visit(w) PROVE LocalsSet'
  <2>1. PICK r \in todo[w] : \/ VisitSettled(w, r)
                            \/ VisitInFlight(w, r)
                            \/ VisitExhausted(w, r)
                            \/ StartAttempt(w, r)
    BY <1>7 DEF Visit
  <2>2. r \in Regs /\ seen[w][r] \in Attempt
    BY DEF TypeOK
  <2>3. CASE UNCHANGED <<reg, number, pc>>
    BY <1>7, <2>3 DEF Visit, LocalsSet
  <2>4. CASE StartAttempt(w, r) /\ ~ UNCHANGED <<reg, number, pc>>
    <3>1. seen[w][r].n + 1 \in AttemptNumbers
      BY <2>2, <2>4, BoundsAssumption
      DEF StartAttempt, Waiting, SnapshotsHold, Attempt, AttemptNumbers
    <3>2. /\ reg' = [reg EXCEPT ![w] = r]
          /\ number' = [number EXCEPT ![w] = seen[w][r].n + 1]
          /\ pc' = [pc EXCEPT ![w] = "send"]
      BY <2>4 DEF StartAttempt
    <3> QED BY <1>7, <2>2, <3>1, <3>2 DEF Visit, LocalsSet, TypeOK
  <2> QED BY <2>1, <2>3, <2>4 DEF VisitSettled, VisitInFlight, VisitExhausted, StartAttempt
<1>8. ASSUME NEW w \in Workers, VisitDone(w) PROVE LocalsSet'
  BY <1>8 DEF VisitDone, LocalsSet, TypeOK
<1>9. ASSUME NEW w \in Workers, Send(w) PROVE LocalsSet'
  BY <1>9 DEF Send, LocalsSet, TypeOK
<1>10. ASSUME NEW w \in Workers, Complete(w) PROVE LocalsSet'
  BY <1>10 DEF Complete, NextTarget, LocalsSet, TypeOK
<1>11. ASSUME NEW w \in Workers, Unregister(w) PROVE LocalsSet'
  BY <1>11 DEF Unregister, NextTarget, LocalsSet, TypeOK
<1>12. ASSUME NEW w \in Workers, Reread(w) PROVE LocalsSet'
  BY <1>12 DEF Reread, LocalsSet, TypeOK
<1>13. ASSUME NEW w \in Workers, Repair(w) PROVE LocalsSet'
  BY <1>13 DEF Repair, LocalsSet, TypeOK
<1>14. ASSUME NEW w \in Workers, RepairDone(w) PROVE LocalsSet'
  BY <1>14 DEF RepairDone, LocalsSet, TypeOK
<1>15. ASSUME NEW w \in Workers, Reconcile(w) PROVE LocalsSet'
  BY <1>15 DEF Reconcile, LocalsSet, TypeOK
<1>16. ASSUME NEW w \in Workers, ReconcileDone(w) PROVE LocalsSet'
  BY <1>16 DEF ReconcileDone, LocalsSet, TypeOK
<1>17. ASSUME NEW w \in Workers, ScheduleRetry(w) PROVE LocalsSet'
  BY <1>17 DEF ScheduleRetry, LocalsSet, TypeOK
<1>18. ASSUME NEW w \in Workers, Decide(w) PROVE LocalsSet'
  BY <1>18 DEF Decide, FinishWith, Verdict, Terminal, LocalsSet, TypeOK
<1>19. ASSUME NEW w \in Workers, Finish(w) PROVE LocalsSet'
  BY <1>19 DEF Finish, LocalsSet, TypeOK
<1>20. ASSUME NEW w \in Workers, LoseStatement(w) PROVE LocalsSet'
  BY <1>20 DEF LoseStatement, LocalsSet, TypeOK
<1>21. ASSUME NEW w \in Workers, LoseConnection(w) PROVE LocalsSet'
  BY <1>21 DEF LoseConnection, EvidenceSteps, LocalsSet, TypeOK
<1>22. ASSUME NEW w \in Workers, LoseGiveUp(w) PROVE LocalsSet'
  BY <1>22 DEF LoseGiveUp, LocalsSet, TypeOK
<1>23. ASSUME NEW w \in Workers, Crash(w) PROVE LocalsSet'
  BY <1>23 DEF Crash, LocalsSet, TypeOK
<1>24. CASE Reconfigure
  BY <1>24 DEF Reconfigure, LocalsSet
<1>25. ASSUME NEW e \in Events, TimePasses(e) PROVE LocalsSet'
  BY <1>25 DEF TimePasses, LeaseAges, EventFallsAvailable, RetryFallsDue, LocalsSet
<1>26. ASSUME NEW e \in Events, SubjectLeaves(e) PROVE LocalsSet'
  BY <1>26 DEF SubjectLeaves, LocalsSet
<1>27. ASSUME NEW r \in Regs, RegistrationChanges(r) PROVE LocalsSet'
  BY <1>27 DEF RegistrationChanges, LocalsSet
<1>28. CASE UNCHANGED vars
  BY <1>28 DEF vars, LocalsSet
<1> QED
  BY <1>1, <1>2, <1>3, <1>4, <1>5, <1>6, <1>7, <1>8, <1>9, <1>10, <1>11, <1>12, <1>13, <1>14, <1>15, <1>16, <1>17, <1>18, <1>19, <1>20, <1>21, <1>22, <1>23, <1>24, <1>25, <1>26, <1>27, <1>28
  DEF Next, WorkerStep, WorkerFails

LEMMA QuietStep ==
  ASSUME PushInv, NEW w \in Workers, OthersKeep(w), UNCHANGED <<outcome, accepted>>,
         ~ Sending(w)', event'[w] = event[w], seen'[w] = seen[w]
  PROVE  PushCore'
<1>1. OnlyAfterRefusal' /\ AcceptedNotRefused' /\ DeliveredHasEvidence'
  BY DEF PushInv, OnlyAfterRefusal, AcceptedNotRefused, DeliveredHasEvidence
<1>2. SendingIsOpen'
  BY DEF PushInv, SendingIsOpen, Sending, OthersKeep
<1>3. OneSender'
  BY DEF PushInv, OneSender, Sending, OthersKeep
<1>4. SnapshotsHold'
  BY DEF PushInv, SnapshotsHold, OthersKeep
<1> QED BY <1>1, <1>2, <1>3, <1>4 DEF PushCore

\* Writing off an interrupted attempt, or giving up a refused one.
LEMMA WriteOffStep ==
  ASSUME PushInv, UNCHANGED <<accepted, seen>>,
         \A v \in Workers : Sending(v)' => Sending(v) /\ pc'[v] = pc[v],
         UNCHANGED <<event, reg, number, result>>,
         NEW e \in Events, NEW r \in Regs, NEW n,
         \/ SetOutcome(e, r, n, "in_flight", "ambiguous")
         \/ SetOutcome(e, r, n, "retryable_failure", "permanent_failure")
  PROVE  PushCore'
<1>1. \A f \in Events, q \in Regs, k \in AttemptNumbers :
        \/ outcome'[f][q][k] = outcome[f][q][k]
        \/ outcome[f][q][k] = "in_flight" /\ outcome'[f][q][k] = "ambiguous"
        \/ outcome[f][q][k] = "retryable_failure" /\ outcome'[f][q][k] = "permanent_failure"
  <2> TAKE f \in Events, q \in Regs, k \in AttemptNumbers
  <2>1. outcome \in [Events -> [Regs -> [AttemptNumbers -> Outcomes \cup {"none"}]]]
    BY DEF PushInv, TypeOK
  <2>2. CASE f = e /\ q = r
    BY <2>1, <2>2 DEF SetOutcome
  <2>3. CASE ~ (f = e /\ q = r)
    BY <2>1, <2>3 DEF SetOutcome
  <2> QED BY <2>2, <2>3
<1>2. OnlyAfterRefusal'
  BY <1>1 DEF PushInv, OnlyAfterRefusal, Refused
<1>3. AcceptedNotRefused' /\ DeliveredHasEvidence'
  BY <1>1 DEF PushInv, AcceptedNotRefused, DeliveredHasEvidence
<1>4. SendingIsOpen'
  BY <1>1 DEF PushInv, SendingIsOpen, Sending, LocalsSet
<1>5. OneSender'
  BY DEF PushInv, OneSender, Sending
<1>6. SnapshotsHold'
  BY <1>1 DEF PushInv, SnapshotsHold, Refused
<1> QED BY <1>2, <1>3, <1>4, <1>5, <1>6 DEF PushCore

\* A new snapshot is true when it is taken.
LEMMA SnapshotStep ==
  ASSUME PushInv, NEW w \in Workers, OthersKeep(w), UNCHANGED <<outcome, accepted>>,
         ~ Sending(w)', event'[w] = event[w], event[w] \in Events,
         seen'[w] = [r \in Regs |-> Latest(event[w], r)]
  PROVE  PushCore'
<1>1. OnlyAfterRefusal' /\ AcceptedNotRefused' /\ DeliveredHasEvidence'
  BY DEF PushInv, OnlyAfterRefusal, AcceptedNotRefused, DeliveredHasEvidence
<1>2. SendingIsOpen'
  BY DEF PushInv, SendingIsOpen, Sending, OthersKeep
<1>3. OneSender'
  BY DEF PushInv, OneSender, Sending, OthersKeep
<1>4. SnapshotsHold'
  <2>1. ASSUME NEW r \in Regs PROVE SnapshotsHold!(w, r)'
    BY LatestIsStored DEF PushInv, Refused
  <2> QED BY <2>1 DEF PushInv, SnapshotsHold, OthersKeep
<1> QED BY <1>1, <1>2, <1>3, <1>4 DEF PushCore

\* Guardians, time and configuration touch nothing the invariant speaks of.
LEMMA IdleStep ==
  ASSUME PushInv, UNCHANGED <<outcome, accepted, local>>
  PROVE  PushCore'
  BY DEF PushInv, PushCore, local, OnlyAfterRefusal, AcceptedNotRefused, DeliveredHasEvidence,
     SendingIsOpen, OneSender, SnapshotsHold, Sending

\* The winner of the INSERT starts an attempt that nobody sends and FCM has not seen,
\* after a refused one.
LEMMA StartStep ==
  ASSUME PushInv, NEW w \in Workers, Visit(w), NEW r \in Regs, seen[w][r] \in Attempt,
         event[w] \in Events, StartAttempt(w, r)
  PROVE  PushCore'
<1> DEFINE e == event[w]
           n == seen[w][r].n + 1
<1>0. TypeOK
  BY DEF PushInv
<1>1. UNCHANGED <<accepted, seen, event, result>>
  BY DEF Visit, world
<1>2. CASE outcome[e][r][n] # "none"
  <2>1. UNCHANGED <<outcome, reg, number, pc>>
    BY <1>2 DEF StartAttempt
  <2> QED BY <1>0, <1>1, <2>1, QuietStep DEF Visit, TypeOK, Sending, OthersKeep
<1>3. CASE outcome[e][r][n] = "none"
  <2>1. /\ outcome' = [outcome EXCEPT ![e][r][n] = "in_flight"]
        /\ reg' = [reg EXCEPT ![w] = r]
        /\ number' = [number EXCEPT ![w] = n]
        /\ pc' = [pc EXCEPT ![w] = "send"]
    BY <1>3 DEF StartAttempt
  <2>2. n \in AttemptNumbers
    BY BoundsAssumption DEF StartAttempt, Waiting, PushInv, SnapshotsHold, Attempt, AttemptNumbers
  <2>3. \A f \in Events, q \in Regs, k \in AttemptNumbers :
          outcome'[f][q][k] = IF f = e /\ q = r /\ k = n THEN "in_flight" ELSE outcome[f][q][k]
    BY <1>0, <2>1, <2>2 DEF TypeOK
  <2>4. n - 1 \in AttemptNumbers => outcome[e][r][n - 1] \in Refused
    BY <2>2 DEF StartAttempt, Waiting, PushInv, SnapshotsHold, Attempt, AttemptNumbers
  <2>5. \A m \in AttemptNumbers : m < n => outcome[e][r][m] \in Refused
    <3>1. TAKE m \in AttemptNumbers
    <3>2. HAVE m < n
    <3>3. CASE m = n - 1
      BY <2>4, <3>3
    <3>4. CASE m < n - 1
      <4>1. n - 1 \in AttemptNumbers
        BY <2>2, <3>4, BoundsAssumption DEF AttemptNumbers
      <4> QED BY <2>4, <3>4, <4>1 DEF PushInv, OnlyAfterRefusal, Refused
    <3> QED BY <2>2, <3>2, <3>3, <3>4, BoundsAssumption DEF AttemptNumbers
  <2>6. OnlyAfterRefusal'
    <3>1. ASSUME NEW k \in AttemptNumbers, n < k PROVE outcome[e][r][k] = "none"
      BY <1>3, <2>2, <3>1 DEF PushInv, OnlyAfterRefusal, Refused
    <3> QED BY <2>3, <2>5, <3>1, <1>3 DEF PushInv, OnlyAfterRefusal, Refused
  <2>7. AcceptedNotRefused' /\ DeliveredHasEvidence'
    BY <1>1, <1>3, <2>2, <2>3 DEF PushInv, AcceptedNotRefused, DeliveredHasEvidence
  <2>8. \A v \in Workers \ {w} : Sending(v) => ~ (event[v] = e /\ reg[v] = r /\ number[v] = n)
    BY <1>3 DEF PushInv, SendingIsOpen
  <2>9. SendingIsOpen'
    <3>1. n \notin accepted[e][r]
      BY <1>3, <2>2 DEF PushInv, AcceptedNotRefused
    <3> HIDE DEF n
    <3>2. \A v \in Workers \ {w} : pc'[v] = pc[v] /\ reg'[v] = reg[v] /\ number'[v] = number[v]
      BY <1>0, <2>1 DEF TypeOK
    <3>3. pc'[w] = "send" /\ reg'[w] = r /\ number'[w] = n
      BY <1>0, <2>1 DEF TypeOK
    <3> QED BY <1>1, <2>2, <2>3, <2>8, <3>1, <3>2, <3>3
        DEF PushInv, SendingIsOpen, Sending, LocalsSet
  <2>10. OneSender'
    <3> HIDE DEF n
    <3> QED BY <1>0, <1>1, <2>1, <2>8 DEF PushInv, OneSender, Sending, TypeOK
  <2>11. SnapshotsHold'
    BY <1>1, <1>3, <2>3 DEF PushInv, SnapshotsHold, Refused
  <2> QED BY <2>6, <2>7, <2>9, <2>10, <2>11 DEF PushCore
<1> QED BY <1>2, <1>3

\* FCM takes an attempt only while its one sender waits for the answer.
LEMMA SendStep ==
  ASSUME PushInv, NEW w \in Workers, Send(w)
  PROVE  PushCore'
<1> DEFINE e == event[w]
           r == reg[w]
           n == number[w]
<1>1. e \in Events /\ r \in Regs /\ n \in AttemptNumbers /\ pc[w] = "send"
  BY DEF PushInv, LocalsSet, Send
<1>2. UNCHANGED <<outcome, seen, event, reg, number>>
  BY DEF Send, store
<1>3. PICK answer \in {"delivered", "unregistered", "retryable_failure",
                      "permanent_failure", "ambiguous"}, taken \in BOOLEAN :
        /\ answer = "delivered" => taken
        /\ answer \in {"unregistered", "retryable_failure", "permanent_failure"} => ~taken
        /\ accepted' = IF taken
                       THEN [accepted EXCEPT ![e][r] = @ \cup {n}]
                       ELSE accepted
        /\ result' = [result EXCEPT ![w] =
             IF answer = "retryable_failure" /\ n >= MaxAttempts
             THEN "permanent_failure" ELSE answer]
  BY DEF Send
<1>4. pc' = [pc EXCEPT ![w] = "complete"]
  BY DEF Send
<1>5. \A f \in Events, q \in Regs, k \in AttemptNumbers :
        k \in accepted'[f][q] <=>
          k \in accepted[f][q] \/ (taken /\ f = e /\ q = r /\ k = n)
  <2>1. accepted \in [Events -> [Regs -> SUBSET AttemptNumbers]]
    BY DEF PushInv, TypeOK
  <2> QED BY <1>1, <1>3, <2>1
<1>6. outcome[e][r][n] \in {"in_flight", "ambiguous"} /\ n \notin accepted[e][r]
  BY <1>1 DEF PushInv, SendingIsOpen, Sending
<1>7. OnlyAfterRefusal'
  BY <1>2 DEF PushInv, OnlyAfterRefusal
<1>8. AcceptedNotRefused' /\ DeliveredHasEvidence'
  BY <1>2, <1>5, <1>6 DEF PushInv, AcceptedNotRefused, DeliveredHasEvidence
<1>9. \A v \in Workers \ {w} : Sending(v) => ~ (event[v] = e /\ reg[v] = r /\ number[v] = n)
  BY <1>1 DEF PushInv, OneSender, Sending
<1>10. SendingIsOpen'
  <2>1. ASSUME NEW v \in Workers \ {w}, Sending(v)' PROVE SendingIsOpen!(v)'
    <3>1. pc'[v] = pc[v] /\ result'[v] = result[v] /\ Sending(v)
      BY <1>3, <1>4, <2>1 DEF PushInv, TypeOK, Sending
    <3>2. event[v] \in Events /\ reg[v] \in Regs /\ number[v] \in AttemptNumbers
      BY <3>1 DEF PushInv, LocalsSet, Sending
    <3>3. number[v] \in accepted'[event[v]][reg[v]] <=> number[v] \in accepted[event[v]][reg[v]]
      BY <1>5, <1>9, <3>1, <3>2
    <3> QED BY <1>2, <3>1, <3>3 DEF PushInv, SendingIsOpen
  <2>2. SendingIsOpen!(w)'
    <3>1. pc'[w] = "complete"
      BY <1>4 DEF PushInv, TypeOK
    <3>2. result'[w] = IF answer = "retryable_failure" /\ n >= MaxAttempts
                       THEN "permanent_failure" ELSE answer
      BY <1>3 DEF PushInv, TypeOK
    <3>3. n \in accepted'[e][r] <=> taken
      BY <1>1, <1>5, <1>6
    <3> QED BY <1>2, <1>3, <1>6, <3>1, <3>2, <3>3 DEF Outcomes
  <2> QED BY <2>1, <2>2 DEF SendingIsOpen
<1>11. OneSender'
  BY <1>2, <1>4, <1>1 DEF PushInv, OneSender, Sending, TypeOK
<1>12. SnapshotsHold'
  BY <1>2 DEF PushInv, SnapshotsHold
<1> QED BY <1>7, <1>8, <1>10, <1>11, <1>12 DEF PushCore

\* The answer closes the attempt of its one sender, unless it was written off.
LEMMA CompleteStep ==
  ASSUME PushInv, NEW w \in Workers, Complete(w)
  PROVE  PushCore'
<1> DEFINE e == event[w]
           r == reg[w]
           n == number[w]
<1>1. e \in Events /\ r \in Regs /\ n \in AttemptNumbers /\ pc[w] = "complete"
  BY DEF PushInv, LocalsSet, Complete
<1>2. UNCHANGED <<accepted, seen, event>>
  BY DEF Complete, world
<1>3. /\ outcome[e][r][n] \in {"in_flight", "ambiguous"}
      /\ result[w] \in Outcomes \ {"in_flight"}
      /\ result[w] = "delivered" => n \in accepted[e][r]
      /\ n \in accepted[e][r] => result[w] \in {"delivered", "ambiguous"}
  BY <1>1 DEF PushInv, SendingIsOpen, Sending
<1>4. \A f \in Events, q \in Regs, k \in AttemptNumbers :
        outcome'[f][q][k] =
          IF f = e /\ q = r /\ k = n /\ outcome[e][r][n] = "in_flight"
          THEN result[w] ELSE outcome[f][q][k]
  <2>1. outcome \in [Events -> [Regs -> [AttemptNumbers -> Outcomes \cup {"none"}]]]
    BY DEF PushInv, TypeOK
  <2> QED BY <1>1, <2>1 DEF Complete, SetOutcome
<1>5. ~ Sending(w)' /\ OthersKeep(w)
  BY <1>1, <1>2 DEF Complete, NextTarget, PushInv, TypeOK, Sending, OthersKeep
<1>6. \A v \in Workers \ {w} : Sending(v) => ~ (event[v] = e /\ reg[v] = r /\ number[v] = n)
  BY <1>1 DEF PushInv, OneSender, Sending
<1>7. OnlyAfterRefusal'
  BY <1>1, <1>3, <1>4 DEF PushInv, OnlyAfterRefusal, Refused, Outcomes
<1>8. AcceptedNotRefused' /\ DeliveredHasEvidence'
  BY <1>1, <1>2, <1>3, <1>4 DEF PushInv, AcceptedNotRefused, DeliveredHasEvidence
<1>9. SendingIsOpen'
  <2>1. ASSUME NEW v \in Workers \ {w}, Sending(v)' PROVE SendingIsOpen!(v)'
    <3>1. Sending(v)
      BY <1>5, <2>1 DEF Sending, OthersKeep
    <3>2. event[v] \in Events /\ reg[v] \in Regs /\ number[v] \in AttemptNumbers
      BY <3>1 DEF PushInv, LocalsSet, Sending
    <3>3. outcome'[event[v]][reg[v]][number[v]] = outcome[event[v]][reg[v]][number[v]]
      BY <1>4, <1>6, <3>1, <3>2
    <3> QED BY <1>2, <1>5, <3>1, <3>3 DEF PushInv, SendingIsOpen, OthersKeep
  <2> QED BY <1>5, <2>1 DEF SendingIsOpen
<1>10. OneSender'
  BY <1>5 DEF PushInv, OneSender, Sending, OthersKeep
<1>11. SnapshotsHold'
  <2>1. ASSUME NEW v \in Workers, NEW q \in Regs, seen[v][q].outcome = "retryable_failure"
        PROVE  /\ event[v] \in Events
               /\ seen[v][q].n \in AttemptNumbers
               /\ outcome'[event[v]][q][seen[v][q].n] \in Refused
    BY <1>4, <2>1 DEF PushInv, SnapshotsHold, Refused
  <2> QED BY <1>2, <2>1 DEF PushInv, SnapshotsHold
<1> QED BY <1>7, <1>8, <1>9, <1>10, <1>11 DEF PushCore

LEMMA CoreStep == PushInv /\ [Next]_vars => PushCore'
<1> SUFFICES ASSUME PushInv, [Next]_vars
             PROVE  PushCore'
  OBVIOUS
<1> USE DEF store, world, local
<1>0. TypeOK /\ LocalsSet
  BY DEF PushInv
<1>1. ASSUME NEW w \in Workers, Claim(w) PROVE PushCore'
  BY <1>0, <1>1, QuietStep DEF Claim, TypeOK, Sending, OthersKeep
<1>2. ASSUME NEW w \in Workers, Classify(w) PROVE PushCore'
  BY <1>0, <1>2, QuietStep DEF Classify, FinishWith, TypeOK, Sending, OthersKeep
<1>3. ASSUME NEW w \in Workers, MarkSosUnavailable(w) PROVE PushCore'
  BY <1>0, <1>3, QuietStep DEF MarkSosUnavailable, FinishWith, TypeOK, Sending, OthersKeep
<1>4. ASSUME NEW w \in Workers, ReadTargets(w) PROVE PushCore'
  BY <1>0, <1>4, QuietStep DEF ReadTargets, FinishWith, TypeOK, Sending, OthersKeep
<1>5. ASSUME NEW w \in Workers, VisitDone(w) PROVE PushCore'
  BY <1>0, <1>5, QuietStep DEF VisitDone, TypeOK, Sending, OthersKeep
<1>6. ASSUME NEW w \in Workers, Unregister(w) PROVE PushCore'
  BY <1>0, <1>6, QuietStep DEF Unregister, NextTarget, TypeOK, Sending, OthersKeep
<1>7. ASSUME NEW w \in Workers, Reconcile(w) PROVE PushCore'
  BY <1>0, <1>7, QuietStep DEF Reconcile, TypeOK, Sending, OthersKeep
<1>8. ASSUME NEW w \in Workers, ReconcileDone(w) PROVE PushCore'
  BY <1>0, <1>8, QuietStep DEF ReconcileDone, TypeOK, Sending, OthersKeep
<1>9. ASSUME NEW w \in Workers, ScheduleRetry(w) PROVE PushCore'
  BY <1>0, <1>9, QuietStep DEF ScheduleRetry, TypeOK, Sending, OthersKeep
<1>10. ASSUME NEW w \in Workers, Decide(w) PROVE PushCore'
  BY <1>0, <1>10, QuietStep DEF Decide, FinishWith, TypeOK, Sending, OthersKeep
<1>11. ASSUME NEW w \in Workers, Finish(w) PROVE PushCore'
  BY <1>0, <1>11, QuietStep DEF Finish, TypeOK, Sending, OthersKeep
<1>12. ASSUME NEW w \in Workers, LoseStatement(w) PROVE PushCore'
  BY <1>0, <1>12, QuietStep DEF LoseStatement, TypeOK, Sending, OthersKeep
<1>13. ASSUME NEW w \in Workers, LoseConnection(w) PROVE PushCore'
  BY <1>0, <1>13, QuietStep DEF LoseConnection, TypeOK, Sending, OthersKeep
<1>14. ASSUME NEW w \in Workers, LoseGiveUp(w) PROVE PushCore'
  BY <1>0, <1>14, QuietStep DEF LoseGiveUp, TypeOK, Sending, OthersKeep
<1>15. ASSUME NEW w \in Workers, Crash(w) PROVE PushCore'
  BY <1>0, <1>15, QuietStep DEF Crash, TypeOK, Sending, OthersKeep
<1>16. ASSUME NEW w \in Workers, ReadAttempts(w) PROVE PushCore'
  BY <1>0, <1>16, SnapshotStep DEF ReadAttempts, TypeOK, LocalsSet, Sending, OthersKeep
<1>17. ASSUME NEW w \in Workers, Reread(w) PROVE PushCore'
  BY <1>0, <1>17, SnapshotStep DEF Reread, TypeOK, LocalsSet, Sending, OthersKeep
<1>18. ASSUME NEW w \in Workers, RepairDone(w) PROVE PushCore'
  BY <1>0, <1>18, SnapshotStep DEF RepairDone, TypeOK, LocalsSet, Sending, OthersKeep
<1>19. ASSUME NEW w \in Workers, NextEvent(w) PROVE PushCore'
  <2>1. UNCHANGED <<outcome, accepted>> /\ OthersKeep(w) /\ ~ Sending(w)'
    BY <1>0, <1>19 DEF NextEvent, TypeOK, OthersKeep, Sending
  <2>2. seen'[w] = [r \in Regs |-> NoAttempt]
    BY <1>0, <1>19 DEF NextEvent, TypeOK
  <2>3. OnlyAfterRefusal' /\ AcceptedNotRefused' /\ DeliveredHasEvidence'
    BY <2>1 DEF PushInv, OnlyAfterRefusal, AcceptedNotRefused, DeliveredHasEvidence
  <2>4. SendingIsOpen' /\ OneSender'
    BY <2>1 DEF PushInv, SendingIsOpen, OneSender, Sending, OthersKeep
  <2>5. SnapshotsHold'
    BY <2>1, <2>2 DEF PushInv, SnapshotsHold, OthersKeep, NoAttempt
  <2> QED BY <2>3, <2>4, <2>5 DEF PushCore
<1>20. ASSUME NEW w \in Workers, Repair(w) PROVE PushCore'
  <2>1. PICK r \in todo[w] :
          \/ SetOutcome(event[w], r, seen[w][r].n, "in_flight", "ambiguous")
          \/ SetOutcome(event[w], r, seen[w][r].n, "retryable_failure", "permanent_failure")
    BY <1>20 DEF Repair
  <2>2. event[w] \in Events /\ r \in Regs
    BY <1>0, <1>20 DEF Repair, LocalsSet, TypeOK
  <2> QED BY <1>20, <2>1, <2>2, WriteOffStep DEF Repair, Sending
<1>21. ASSUME NEW w \in Workers, Visit(w) PROVE PushCore'
  <2>1. PICK r \in todo[w] : \/ VisitSettled(w, r)
                            \/ VisitInFlight(w, r)
                            \/ VisitExhausted(w, r)
                            \/ StartAttempt(w, r)
    BY <1>21 DEF Visit
  <2>2. event[w] \in Events /\ r \in Regs /\ seen[w][r] \in Attempt
    <3>1. event[w] \in Events
      BY <1>0, <1>21 DEF Visit, LocalsSet
    <3>2. todo[w] \in SUBSET Regs /\ seen[w] \in [Regs -> Attempt]
      BY <1>0 DEF TypeOK
    <3> QED BY <3>1, <3>2
  <2>3. CASE VisitSettled(w, r)
    BY <1>0, <1>21, <2>3, QuietStep DEF Visit, VisitSettled, TypeOK, Sending, OthersKeep
  <2>4. CASE VisitInFlight(w, r)
    BY <1>21, <2>2, <2>4, WriteOffStep DEF Visit, VisitInFlight, Sending
  <2>5. CASE VisitExhausted(w, r)
    BY <1>21, <2>2, <2>5, WriteOffStep DEF Visit, VisitExhausted, Sending
  <2>6. CASE StartAttempt(w, r)
    BY <1>21, <2>2, <2>6, StartStep
  <2> QED BY <2>1, <2>3, <2>4, <2>5, <2>6
<1>22. ASSUME NEW w \in Workers, Send(w) PROVE PushCore'
  BY <1>22, SendStep
<1>23. ASSUME NEW w \in Workers, Complete(w) PROVE PushCore'
  BY <1>23, CompleteStep
<1>24. CASE Reconfigure
  BY <1>24, IdleStep DEF Reconfigure
<1>25. ASSUME NEW e \in Events, TimePasses(e) PROVE PushCore'
  BY <1>25, IdleStep DEF TimePasses, LeaseAges, EventFallsAvailable, RetryFallsDue
<1>26. ASSUME NEW e \in Events, SubjectLeaves(e) PROVE PushCore'
  BY <1>26, IdleStep DEF SubjectLeaves
<1>27. ASSUME NEW r \in Regs, RegistrationChanges(r) PROVE PushCore'
  BY <1>27, IdleStep DEF RegistrationChanges
<1>28. CASE UNCHANGED vars
  BY <1>28, IdleStep DEF vars
<1> QED
  BY <1>1, <1>2, <1>3, <1>4, <1>5, <1>6, <1>7, <1>8, <1>9, <1>10, <1>11, <1>12,
     <1>13, <1>14, <1>15, <1>16, <1>17, <1>18, <1>19, <1>20, <1>21, <1>22, <1>23, <1>24,
     <1>25, <1>26, <1>27, <1>28
  DEF Next, WorkerStep, WorkerFails

-----------------------------------------------------------------------------
(* The theorems.                                                           *)

LEMMA PushInvInit == Init => PushInv
<1> SUFFICES ASSUME Init PROVE PushInv
  OBVIOUS
<1>1. TypeOK
  BY TypeInit
<1> QED
  BY <1>1 DEF Init, PushInv, LocalsSet, OnlyAfterRefusal, AcceptedNotRefused,
     DeliveredHasEvidence, SendingIsOpen, OneSender, Sending, SnapshotsHold, NoAttempt

\* PushInv holds in every reachable state.
THEOREM PushInvariant == Spec => []PushInv
<1>1. PushInv /\ [Next]_vars => PushInv'
  BY TypeStep, LocalsStep, CoreStep DEF PushInv, PushCore
<1> QED BY PushInvInit, <1>1, PTL DEF Spec

\* The dispatcher's variables keep to their domains.
THEOREM TypeCorrect == Spec => []TypeOK
<1>1. PushInv => TypeOK
  BY DEF PushInv
<1> QED BY PushInvariant, <1>1, PTL

\* An attempt recorded as delivered was accepted by FCM, whoever recorded it.
THEOREM EvidenceIsReal == Spec => []DeliveredHasEvidence
<1>1. PushInv => DeliveredHasEvidence
  BY DEF PushInv
<1> QED BY PushInvariant, <1>1, PTL

\* Of two accepted attempts the later would have followed a refusal of the earlier.
LEMMA PushInvAtMostOne == PushInv => AtMostOnePush
<1> SUFFICES ASSUME PushInv, NEW e \in Events, NEW r \in Regs,
                    NEW m \in accepted[e][r], NEW n \in accepted[e][r]
             PROVE  m = n
  BY DEF AtMostOnePush
<1>1. m \in AttemptNumbers /\ n \in AttemptNumbers
  BY DEF PushInv, TypeOK
<1>2. /\ outcome[e][r][m] \in {"in_flight", "delivered", "ambiguous"}
      /\ outcome[e][r][n] \in {"in_flight", "delivered", "ambiguous"}
  BY <1>1 DEF PushInv, AcceptedNotRefused
<1>3. ~ (m < n) /\ ~ (n < m)
  BY <1>1, <1>2 DEF PushInv, OnlyAfterRefusal, Refused
<1> QED BY <1>1, <1>3, BoundsAssumption DEF AttemptNumbers

\* FCM accepts at most one send per event and registration, however often leases
\* are taken over, statements fail and processes end.
THEOREM NoSecondPush == Spec => []AtMostOnePush
<1> QED BY PushInvariant, PushInvAtMostOne, PTL

-----------------------------------------------------------------------------
(* The dispatcher implements PushLedger.                                   *)

Pushes == [e \in Events |-> [r \in Regs |-> Cardinality(accepted[e][r])]]
Evidence == {p \in Events \X Regs :
               \E n \in AttemptNumbers : outcome[p[1]][p[2]][n] = "delivered"}
Closed == {e \in Events : status[e] \in Terminal}

LedgerNext ==
  \/ UNCHANGED <<Pushes, Evidence, Closed>>
  \/ \E e \in Events :
       \/ Closed' = Closed \cup {e} /\ UNCHANGED <<Pushes, Evidence>>
       \/ \E r \in Regs :
            \/ /\ Pushes[e][r] = 0
               /\ Pushes' = [Pushes EXCEPT ![e][r] = 1]
               /\ UNCHANGED <<Evidence, Closed>>
            \/ /\ Pushes[e][r] = 1
               /\ Evidence' = Evidence \cup {<<e, r>>}
               /\ UNCHANGED <<Pushes, Closed>>

\* A step that leaves the three stores alone is a stutter.
LEMMA LedgerStutter ==
  ASSUME UNCHANGED <<status, outcome, accepted>>
  PROVE  LedgerNext
<1>1. Pushes' = Pushes /\ Evidence' = Evidence /\ Closed' = Closed
  BY DEF Pushes, Evidence, Closed
<1> QED BY <1>1 DEF LedgerNext

\* Outcomes that change among refused and open ones record no evidence.
LEMMA LedgerOutcome ==
  ASSUME PushInv, UNCHANGED <<status, accepted>>,
         \A e \in Events, r \in Regs, n \in AttemptNumbers :
           outcome'[e][r][n] = "delivered" <=> outcome[e][r][n] = "delivered"
  PROVE  LedgerNext
<1>1. Pushes' = Pushes /\ Evidence' = Evidence /\ Closed' = Closed
  BY DEF Pushes, Evidence, Closed
<1> QED BY <1>1 DEF LedgerNext

\* Statuses that change among the open ones close nothing.
LEMMA LedgerStatus ==
  ASSUME UNCHANGED <<outcome, accepted>>,
         \A e \in Events : status'[e] \in Terminal <=> status[e] \in Terminal
  PROVE  LedgerNext
<1>1. Pushes' = Pushes /\ Evidence' = Evidence /\ Closed' = Closed
  BY DEF Pushes, Evidence, Closed
<1> QED BY <1>1 DEF LedgerNext

\* A guarded UPDATE that names "delivered" on neither side records no evidence.
LEMMA SetOutcomeKeeps ==
  ASSUME PushInv, NEW e \in Events, NEW r \in Regs, NEW n, NEW from, NEW to,
         from # "delivered", to # "delivered", SetOutcome(e, r, n, from, to)
  PROVE  \A f \in Events, q \in Regs, k \in AttemptNumbers :
           outcome'[f][q][k] = "delivered" <=> outcome[f][q][k] = "delivered"
<1> DEFINE new == [k \in AttemptNumbers |->
                     IF k = n /\ outcome[e][r][k] = from THEN to ELSE outcome[e][r][k]]
<1>1. outcome \in [Events -> [Regs -> [AttemptNumbers -> Outcomes \cup {"none"}]]]
  BY DEF PushInv, TypeOK
<1>2. outcome' = [outcome EXCEPT ![e][r] = new]
  BY DEF SetOutcome
<1>3. \A k \in AttemptNumbers : new[k] = "delivered" <=> outcome[e][r][k] = "delivered"
  OBVIOUS
<1> HIDE DEF new
<1>4. \A f \in Events, q \in Regs :
        outcome'[f][q] = IF f = e /\ q = r THEN new ELSE outcome[f][q]
  BY <1>1, <1>2
<1> QED BY <1>3, <1>4

LEMMA LedgerSend ==
  ASSUME PushInv, NEW w \in Workers, Send(w)
  PROVE  LedgerNext
<1> DEFINE e == event[w]
           r == reg[w]
           n == number[w]
<1>1. e \in Events /\ r \in Regs /\ n \in AttemptNumbers /\ pc[w] = "send"
  BY DEF PushInv, LocalsSet, Send
<1>2. UNCHANGED <<outcome, status>>
  BY DEF Send, store
<1>3. \/ accepted' = accepted
      \/ accepted' = [accepted EXCEPT ![e][r] = @ \cup {n}]
  BY DEF Send
<1>4. CASE accepted' = accepted
  BY <1>2, <1>4, LedgerStutter
<1>5. CASE accepted' = [accepted EXCEPT ![e][r] = @ \cup {n}]
  <2>1. accepted[e][r] = {}
    <3>1. n \notin accepted[e][r] /\ outcome[e][r][n] \in {"in_flight", "ambiguous"}
      BY <1>1 DEF PushInv, SendingIsOpen, Sending
    <3>2. ASSUME NEW m \in accepted[e][r] PROVE FALSE
      <4>1. m \in AttemptNumbers /\ m # n
        BY <1>1, <3>1 DEF PushInv, TypeOK
      <4>2. outcome[e][r][m] \in {"in_flight", "delivered", "ambiguous"}
        BY <1>1, <4>1 DEF PushInv, AcceptedNotRefused
      <4>3. m < n \/ n < m
        BY <1>1, <4>1, BoundsAssumption DEF AttemptNumbers
      <4> QED BY <1>1, <3>1, <4>1, <4>2, <4>3 DEF PushInv, OnlyAfterRefusal, Refused
    <3> QED BY <3>2
  <2>2. accepted \in [Events -> [Regs -> SUBSET AttemptNumbers]]
    BY DEF PushInv, TypeOK
  <2>3. \A f \in Events, q \in Regs :
          accepted'[f][q] = IF f = e /\ q = r THEN {n} ELSE accepted[f][q]
    BY <1>1, <1>5, <2>1, <2>2
  <2>4. Cardinality({}) = 0 /\ Cardinality({n}) = 1
    BY FS_EmptySet, FS_Singleton
  <2>5. Pushes[e][r] = 0
    BY <1>1, <2>1, <2>4 DEF Pushes
  <2>6. Pushes' = [Pushes EXCEPT ![e][r] = 1]
    <3>1. \A f \in Events, q \in Regs :
            Cardinality(accepted'[f][q]) =
              IF f = e /\ q = r THEN 1 ELSE Cardinality(accepted[f][q])
      BY <2>3, <2>4
    <3>2. Pushes' = [f \in Events |-> [q \in Regs |->
                       IF f = e /\ q = r THEN 1 ELSE Cardinality(accepted[f][q])]]
      BY <3>1 DEF Pushes
    <3> HIDE DEF e, r
    <3> QED BY <1>1, <3>2 DEF Pushes
  <2>7. Evidence' = Evidence /\ Closed' = Closed
    BY <1>2 DEF Evidence, Closed
  <2> QED BY <1>1, <2>5, <2>6, <2>7 DEF LedgerNext
<1> QED BY <1>3, <1>4, <1>5

LEMMA LedgerComplete ==
  ASSUME PushInv, NEW w \in Workers, Complete(w)
  PROVE  LedgerNext
<1> DEFINE e == event[w]
           r == reg[w]
           n == number[w]
<1>1. e \in Events /\ r \in Regs /\ n \in AttemptNumbers /\ pc[w] = "complete"
  BY DEF PushInv, LocalsSet, Complete
<1>2. UNCHANGED <<accepted, status>>
  BY DEF Complete, world
<1>3. /\ outcome[e][r][n] \in {"in_flight", "ambiguous"}
      /\ result[w] = "delivered" => n \in accepted[e][r]
  BY <1>1 DEF PushInv, SendingIsOpen, Sending
<1>4. \A f \in Events, q \in Regs, k \in AttemptNumbers :
        outcome'[f][q][k] =
          IF f = e /\ q = r /\ k = n /\ outcome[e][r][n] = "in_flight"
          THEN result[w] ELSE outcome[f][q][k]
  <2>1. outcome \in [Events -> [Regs -> [AttemptNumbers -> Outcomes \cup {"none"}]]]
    BY DEF PushInv, TypeOK
  <2> QED BY <1>1, <2>1 DEF Complete, SetOutcome
<1>5. CASE result[w] = "delivered" /\ outcome[e][r][n] = "in_flight"
  <2>1. accepted[e][r] = {n}
    <3>1. \A m \in accepted[e][r] : m = n
      BY <1>1, <1>3, <1>5, PushInvAtMostOne DEF AtMostOnePush
    <3> QED BY <1>3, <1>5, <3>1
  <2>2. Pushes[e][r] = 1
    BY <1>1, <2>1, FS_Singleton DEF Pushes
  <2>3. Evidence' = Evidence \cup {<<e, r>>}
    BY <1>1, <1>4, <1>5 DEF Evidence
  <2>4. Pushes' = Pushes /\ Closed' = Closed
    BY <1>2 DEF Pushes, Closed
  <2> QED BY <1>1, <2>2, <2>3, <2>4 DEF LedgerNext
<1>6. CASE ~ (result[w] = "delivered" /\ outcome[e][r][n] = "in_flight")
  BY <1>2, <1>4, <1>6, LedgerOutcome
<1> QED BY <1>5, <1>6

LEMMA LedgerVisit ==
  ASSUME PushInv, NEW w \in Workers, Visit(w)
  PROVE  LedgerNext
<1>1. UNCHANGED <<accepted, status>>
  BY DEF Visit, world
<1>2. PICK r \in todo[w] : \/ VisitSettled(w, r)
                          \/ VisitInFlight(w, r)
                          \/ VisitExhausted(w, r)
                          \/ StartAttempt(w, r)
  BY DEF Visit
<1>3. \A f \in Events, q \in Regs, k \in AttemptNumbers :
        outcome'[f][q][k] = "delivered" <=> outcome[f][q][k] = "delivered"
  <2>1. outcome \in [Events -> [Regs -> [AttemptNumbers -> Outcomes \cup {"none"}]]]
    BY DEF PushInv, TypeOK
  <2>2. CASE VisitSettled(w, r)
    BY <2>2 DEF VisitSettled
  <2>0. event[w] \in Events /\ r \in Regs
    BY <1>2 DEF Visit, PushInv, LocalsSet, TypeOK
  <2>3. CASE VisitInFlight(w, r)
    BY <2>0, <2>3, SetOutcomeKeeps DEF VisitInFlight
  <2>4. CASE VisitExhausted(w, r)
    BY <2>0, <2>4, SetOutcomeKeeps DEF VisitExhausted
  <2>5. CASE StartAttempt(w, r)
    <3> DEFINE e == event[w]
               n == seen[w][r].n + 1
    <3>1. CASE outcome[e][r][n] # "none"
      BY <2>5, <3>1 DEF StartAttempt
    <3>2. CASE outcome[e][r][n] = "none"
      <4>1. outcome' = [outcome EXCEPT ![e][r][n] = "in_flight"]
        BY <2>5, <3>2 DEF StartAttempt
      <4> HIDE DEF e, n
      <4>2. \A f \in Events, q \in Regs, k \in AttemptNumbers :
              outcome'[f][q][k] = IF f = e /\ q = r /\ k = n
                                  THEN "in_flight" ELSE outcome[f][q][k]
        BY <2>1, <4>1
      <4> QED BY <3>2, <4>2
    <3> QED BY <3>1, <3>2
  <2> QED BY <1>2, <2>2, <2>3, <2>4, <2>5
<1> QED BY <1>1, <1>3, LedgerOutcome

LEMMA LedgerFinish ==
  ASSUME PushInv, NEW w \in Workers, Finish(w)
  PROVE  LedgerNext
<1>1. event[w] \in Events /\ UNCHANGED <<outcome, accepted>>
  BY DEF PushInv, LocalsSet, Finish, world
<1>2. PICK verdict \in Terminal : Close(event[w], verdict)
  BY DEF Finish, PushInv, LocalsSet, Terminal
<1>3. status \in [Events -> EventStatus]
  BY DEF PushInv, TypeOK
<1>4. CASE status[event[w]] = "processing"
  <2>1. Closed' = Closed \cup {event[w]}
    BY <1>1, <1>2, <1>3, <1>4 DEF Close, Closed
  <2>2. Pushes' = Pushes /\ Evidence' = Evidence
    BY <1>1 DEF Pushes, Evidence
  <2> QED BY <1>1, <2>1, <2>2 DEF LedgerNext
<1>5. CASE status[event[w]] # "processing"
  BY <1>1, <1>2, <1>3, <1>5, LedgerStatus DEF Close
<1> QED BY <1>4, <1>5

LEMMA LedgerStep == PushInv /\ [Next]_vars => LedgerNext
<1> SUFFICES ASSUME PushInv, [Next]_vars PROVE LedgerNext
  OBVIOUS
<1> USE DEF store, world, local
<1>1. ASSUME NEW w \in Workers, NextEvent(w) PROVE LedgerNext
  BY <1>1, LedgerStutter DEF NextEvent
<1>2. ASSUME NEW w \in Workers, Classify(w) PROVE LedgerNext
  BY <1>2, LedgerStutter DEF Classify
<1>3. ASSUME NEW w \in Workers, ReadTargets(w) PROVE LedgerNext
  BY <1>3, LedgerStutter DEF ReadTargets
<1>4. ASSUME NEW w \in Workers, ReadAttempts(w) PROVE LedgerNext
  BY <1>4, LedgerStutter DEF ReadAttempts
<1>5. ASSUME NEW w \in Workers, VisitDone(w) PROVE LedgerNext
  BY <1>5, LedgerStutter DEF VisitDone
<1>6. ASSUME NEW w \in Workers, Reread(w) PROVE LedgerNext
  BY <1>6, LedgerStutter DEF Reread
<1>7. ASSUME NEW w \in Workers, RepairDone(w) PROVE LedgerNext
  BY <1>7, LedgerStutter DEF RepairDone
<1>8. ASSUME NEW w \in Workers, ReconcileDone(w) PROVE LedgerNext
  BY <1>8, LedgerStutter DEF ReconcileDone
<1>9. ASSUME NEW w \in Workers, Decide(w) PROVE LedgerNext
  BY <1>9, LedgerStutter DEF Decide
<1>10. ASSUME NEW w \in Workers, LoseStatement(w) PROVE LedgerNext
  BY <1>10, LedgerStutter DEF LoseStatement
<1>11. ASSUME NEW w \in Workers, LoseConnection(w) PROVE LedgerNext
  BY <1>11, LedgerStutter DEF LoseConnection
<1>12. ASSUME NEW w \in Workers, LoseGiveUp(w) PROVE LedgerNext
  BY <1>12, LedgerStutter DEF LoseGiveUp
<1>13. ASSUME NEW w \in Workers, Crash(w) PROVE LedgerNext
  BY <1>13, LedgerStutter DEF Crash
<1>14. ASSUME NEW w \in Workers, MarkSosUnavailable(w) PROVE LedgerNext
  BY <1>14, LedgerStutter DEF MarkSosUnavailable
<1>15. ASSUME NEW w \in Workers, Unregister(w) PROVE LedgerNext
  BY <1>15, LedgerStutter DEF Unregister
<1>16. ASSUME NEW w \in Workers, Reconcile(w) PROVE LedgerNext
  BY <1>16, LedgerStutter DEF Reconcile
<1>17. ASSUME NEW w \in Workers, Send(w) PROVE LedgerNext
  BY <1>17, LedgerSend
<1>18. ASSUME NEW w \in Workers, Complete(w) PROVE LedgerNext
  BY <1>18, LedgerComplete
<1>19. ASSUME NEW w \in Workers, Visit(w) PROVE LedgerNext
  BY <1>19, LedgerVisit
<1>20. ASSUME NEW w \in Workers, Finish(w) PROVE LedgerNext
  BY <1>20, LedgerFinish
<1>21. ASSUME NEW w \in Workers, Claim(w) PROVE LedgerNext
  <2>1. \A e \in Events : status'[e] = status[e]
                          \/ (status[e] \in {"pending", "processing"} /\ status'[e] = "processing")
    BY <1>21 DEF Claim, Claimable
  <2> QED BY <1>21, <2>1, LedgerStatus DEF Claim, Terminal
<1>22. ASSUME NEW w \in Workers, ScheduleRetry(w) PROVE LedgerNext
  <2>1. status \in [Events -> EventStatus]
    BY DEF PushInv, TypeOK
  <2>2. \/ status' = status
        \/ /\ status[event[w]] = "processing"
           /\ status' = [status EXCEPT ![event[w]] = "pending"]
    BY <1>22 DEF ScheduleRetry
  <2> QED BY <1>22, <2>1, <2>2, LedgerStatus DEF ScheduleRetry, Terminal
<1>23. ASSUME NEW w \in Workers, Repair(w) PROVE LedgerNext
  <2>1. outcome \in [Events -> [Regs -> [AttemptNumbers -> Outcomes \cup {"none"}]]]
    BY DEF PushInv, TypeOK
  <2>2. PICK r \in todo[w] :
          \/ SetOutcome(event[w], r, seen[w][r].n, "in_flight", "ambiguous")
          \/ SetOutcome(event[w], r, seen[w][r].n, "retryable_failure", "permanent_failure")
    BY <1>23 DEF Repair
  <2>4. event[w] \in Events /\ r \in Regs
    BY <1>23 DEF Repair, PushInv, LocalsSet, TypeOK
  <2>3. \A f \in Events, q \in Regs, j \in AttemptNumbers :
          outcome'[f][q][j] = "delivered" <=> outcome[f][q][j] = "delivered"
    BY <2>2, <2>4, SetOutcomeKeeps
  <2> QED BY <1>23, <2>3, LedgerOutcome DEF Repair
<1>24. CASE Reconfigure
  BY <1>24, LedgerStutter DEF Reconfigure
<1>25. ASSUME NEW e \in Events, TimePasses(e) PROVE LedgerNext
  BY <1>25, LedgerStutter DEF TimePasses, LeaseAges, EventFallsAvailable, RetryFallsDue
<1>26. ASSUME NEW e \in Events, SubjectLeaves(e) PROVE LedgerNext
  BY <1>26, LedgerStutter DEF SubjectLeaves
<1>27. ASSUME NEW r \in Regs, RegistrationChanges(r) PROVE LedgerNext
  BY <1>27, LedgerStutter DEF RegistrationChanges
<1>28. CASE UNCHANGED vars
  BY <1>28, LedgerStutter DEF vars
<1> QED
  BY <1>1, <1>2, <1>3, <1>4, <1>5, <1>6, <1>7, <1>8, <1>9, <1>10, <1>11, <1>12,
     <1>13, <1>14, <1>15, <1>16, <1>17, <1>18, <1>19, <1>20, <1>21, <1>22, <1>23, <1>24,
     <1>25, <1>26, <1>27, <1>28
  DEF Next, WorkerStep, WorkerFails

\* The dispatcher implements PushLedger: FCM takes an event for a handset at most
\* once, delivered is recorded after it did, and closed events stay closed.
THEOREM LedgerKept == Spec => KeepsLedger
<1>1. Init => Ledger!Init
  <2> SUFFICES ASSUME Init PROVE Ledger!Init
    OBVIOUS
  <2>1. \A e \in Events, r \in Regs : Cardinality(accepted[e][r]) = 0
    BY FS_EmptySet DEF Init
  <2> QED BY <2>1 DEF Init, Ledger!Init, Terminal
<1>2. PushInv /\ [Next]_vars => [Ledger!Next]_(Ledger!ledger)
  BY LedgerStep DEF LedgerNext, Pushes, Evidence, Closed,
     Ledger!Next, Ledger!ledger, Ledger!Push, Ledger!Record, Ledger!CloseEvent
<1> QED BY <1>1, <1>2, PushInvariant, PTL DEF Spec, KeepsLedger, Ledger!Spec

-----------------------------------------------------------------------------
(* What is closed and what is delivered stays.                             *)

\* A status leaves the open ones in Claim, ScheduleRetry and Finish, which look at it first.
LEMMA ClosedStaysStep ==
  ASSUME PushInv, [Next]_vars
  PROVE  \A e \in Events : status[e] \in Terminal => status'[e] = status[e]
<1> USE DEF store, world, local
<1>1. status \in [Events -> EventStatus]
  BY DEF PushInv, TypeOK
<1>2. ASSUME NEW w \in Workers, Claim(w) \/ ScheduleRetry(w) \/ Finish(w)
      PROVE  \A e \in Events : status[e] \in Terminal => status'[e] = status[e]
  BY <1>1, <1>2 DEF Claim, Claimable, ScheduleRetry, Finish, Close, Terminal
<1>3. ASSUME NEW w \in Workers, WorkerStep(w) \/ WorkerFails(w)
      PROVE  UNCHANGED status \/ Claim(w) \/ ScheduleRetry(w) \/ Finish(w)
  BY <1>3 DEF WorkerStep, NextEvent, Classify, MarkSosUnavailable, ReadTargets, ReadAttempts, Visit, VisitDone,
              Send, Complete, Unregister, Reread, Repair, RepairDone, Reconcile, ReconcileDone, Decide,
              WorkerFails, LoseStatement, LoseConnection, LoseGiveUp, Crash
<1>4. UNCHANGED status \/ \E w \in Workers : WorkerStep(w) \/ WorkerFails(w)
  BY DEF Next, vars, Reconfigure, TimePasses, LeaseAges, EventFallsAvailable, RetryFallsDue, SubjectLeaves,
         RegistrationChanges
<1> QED BY <1>2, <1>3, <1>4

\* The delivery rows are written by #markSosUnavailable and #setSosDelivery alone.
LEMMA DeliveryMoves ==
  ASSUME PushInv, [Next]_vars
  PROVE  \/ UNCHANGED delivery
         \/ \E w \in Workers : MarkSosUnavailable(w) \/ Reconcile(w)
<1> USE DEF store, world, local
<1>3. ASSUME NEW w \in Workers, WorkerStep(w) \/ WorkerFails(w)
      PROVE  UNCHANGED delivery \/ MarkSosUnavailable(w) \/ Reconcile(w)
  BY <1>3 DEF WorkerStep, Claim, NextEvent, Classify, ReadTargets, ReadAttempts, Visit, VisitDone,
              Send, Complete, Unregister, Reread, Repair, RepairDone, ReconcileDone, ScheduleRetry, Decide, Finish,
              WorkerFails, LoseStatement, LoseConnection, LoseGiveUp, Crash
<1>4. UNCHANGED delivery \/ \E w \in Workers : WorkerStep(w) \/ WorkerFails(w)
  BY DEF Next, vars, Reconfigure, TimePasses, LeaseAges, EventFallsAvailable, RetryFallsDue, SubjectLeaves,
         RegistrationChanges
<1> QED BY <1>3, <1>4

\* Neither of the two takes a delivered row back.
LEMMA DeliveredStaysStep ==
  ASSUME PushInv, [Next]_vars
  PROVE  \A e \in Events, g \in Guardians : delivery[e][g] = "delivered" => delivery'[e][g] = "delivered"
<1>1. delivery \in [Events -> [Guardians -> DeliveryStates]]
  BY DEF PushInv, TypeOK
<1>2. ASSUME NEW w \in Workers, MarkSosUnavailable(w)
      PROVE  \A e \in Events, g \in Guardians : delivery[e][g] = "delivered" => delivery'[e][g] = "delivered"
  BY <1>1, <1>2 DEF MarkSosUnavailable
<1>3. ASSUME NEW w \in Workers, Reconcile(w)
      PROVE  \A e \in Events, g \in Guardians : delivery[e][g] = "delivered" => delivery'[e][g] = "delivered"
  <2>1. PICK h \in recipients[w] :
          delivery' = [delivery EXCEPT ![event[w]][h] = SosDeliveryState(w, h, @)]
    BY <1>3 DEF Reconcile
  <2>2. SosDeliveryState(w, h, "delivered") = "delivered"
    BY DEF SosDeliveryState
  <2> QED BY <1>1, <2>1, <2>2
<1> QED BY <1>2, <1>3, DeliveryMoves

\* A closed event stays closed and a delivered row delivered, whatever a worker that lost its
\* lease still does (#finish, #scheduleRetry, #setSosDelivery).
THEOREM ClosedEventsStay == Spec => ClosedStaysClosed
<1>1. PushInv /\ [Next]_vars =>
        [/\ \A e \in Events : status[e] \in Terminal => status'[e] = status[e]
         /\ \A e \in SosEvents, g \in Guardians :
              delivery[e][g] = "delivered" => delivery'[e][g] = "delivered"]_vars
  BY ClosedStaysStep, DeliveredStaysStep, EventsAssumption
<1> QED BY <1>1, PushInvariant, PTL DEF Spec, ClosedStaysClosed

-----------------------------------------------------------------------------
(* What an SOS row says is true.                                           *)

\* A snapshot that shows a delivered attempt is of an event FCM took for that handset.
SeenAreTrue ==
  \A w \in Workers, r \in Regs :
    seen[w][r].outcome = "delivered" => event[w] \in Events /\ accepted[event[w]][r] # {}

\* A delivered row is of a guardian with a handset FCM took the alert for.
RowsAreTrue ==
  \A e \in Events, g \in Guardians : delivery[e][g] = "delivered" =>
    \E r \in Regs : Owner[r] = g /\ accepted[e][r] # {}

\* The verdict a worker goes to store, and the one that is stored, are those of the rows.
VerdictsAreTrue ==
  \A w \in Workers : pc[w] = "finish" /\ result[w] = "delivered" /\ event[w] \in SosEvents =>
    \A g \in Guardians : delivery[event[w]][g] = "delivered"

StatusesAreTrue ==
  \A e \in SosEvents : status[e] = "delivered" => \A g \in Guardians : delivery[e][g] = "delivered"

SosInv == SeenAreTrue /\ RowsAreTrue /\ VerdictsAreTrue /\ StatusesAreTrue

\* What no step takes back: what FCM took, and a delivered row.
Steady ==
  /\ \A e \in Events, r \in Regs : accepted[e][r] \subseteq accepted'[e][r]
  /\ \A e \in Events, g \in Guardians : delivery[e][g] = "delivered" => delivery'[e][g] = "delivered"

\* Only Send touches what FCM took, and adds to it.
LEMMA AcceptedStays ==
  ASSUME PushInv, [Next]_vars
  PROVE  Steady
<1> USE DEF store, world, local
<1>1. ASSUME NEW w \in Workers, Send(w)
      PROVE  \A e \in Events, r \in Regs : accepted[e][r] \subseteq accepted'[e][r]
  <2>1. accepted \in [Events -> [Regs -> SUBSET AttemptNumbers]]
    BY DEF PushInv, TypeOK
  <2>2. accepted' = accepted \/ accepted' = [accepted EXCEPT ![event[w]][reg[w]] = @ \cup {number[w]}]
    BY <1>1 DEF Send
  <2> QED BY <2>1, <2>2
<1>3. ASSUME NEW w \in Workers, WorkerStep(w) \/ WorkerFails(w)
      PROVE  UNCHANGED accepted \/ Send(w)
  BY <1>3 DEF WorkerStep, Claim, NextEvent, Classify, MarkSosUnavailable, ReadTargets, ReadAttempts, Visit, VisitDone,
              Complete, Unregister, Reread, Repair, RepairDone, Reconcile, ReconcileDone, ScheduleRetry, Decide, Finish,
              WorkerFails, LoseStatement, LoseConnection, LoseGiveUp, Crash
<1>4. UNCHANGED accepted \/ \E w \in Workers : WorkerStep(w) \/ WorkerFails(w)
  BY DEF Next, vars, Reconfigure, TimePasses, LeaseAges, EventFallsAvailable, RetryFallsDue, SubjectLeaves,
         RegistrationChanges
<1> QED BY <1>1, <1>3, <1>4, DeliveredStaysStep DEF Steady

\* What the parts of SosInv need of a step of w, each on its own.
SeesNothing(w) ==
  \/ event'[w] = event[w] /\ seen'[w] = seen[w]
  \/ \A r \in Regs : seen'[w][r].outcome # "delivered"
  \/ event'[w] = event[w] /\ event[w] \in Events /\ seen'[w] = [r \in Regs |-> Latest(event[w], r)]

CallsNothingDelivered(w) ==
  pc'[w] = "finish" =>
    \/ result'[w] # "delivered"
    \/ pc[w] = "finish" /\ result'[w] = result[w] /\ event'[w] = event[w]

\* A true snapshot stays true, and a new one is true when it is taken.
LEMMA SeenStaysTrue ==
  ASSUME PushInv, SosInv, Steady, NEW w \in Workers, OthersKeep(w), SeesNothing(w)
  PROVE  SeenAreTrue'
<1>1. ASSUME NEW v \in Workers \ {w}, NEW r \in Regs, seen'[v][r].outcome = "delivered"
      PROVE  event'[v] \in Events /\ accepted'[event'[v]][r] # {}
  BY <1>1 DEF SosInv, SeenAreTrue, Steady, OthersKeep
<1>2. ASSUME NEW r \in Regs, seen'[w][r].outcome = "delivered"
      PROVE  event'[w] \in Events /\ accepted'[event'[w]][r] # {}
  <2>1. CASE event'[w] = event[w] /\ seen'[w] = seen[w]
    BY <1>2, <2>1 DEF SosInv, SeenAreTrue, Steady
  <2>2. CASE event'[w] = event[w] /\ event[w] \in Events /\ seen'[w] = [q \in Regs |-> Latest(event[w], q)]
    <3>1. Latest(event[w], r).outcome = "delivered"
      BY <1>2, <2>2
    <3>2. Latest(event[w], r).n \in accepted[event[w]][r]
      BY <2>2, <3>1, LatestIsStored DEF PushInv, DeliveredHasEvidence
    <3> QED BY <2>2, <3>2 DEF Steady
  <2> QED BY <1>2, <2>1, <2>2 DEF SeesNothing
<1> QED BY <1>1, <1>2 DEF SeenAreTrue

LEMMA VerdictsStayTrue ==
  ASSUME SosInv, Steady, NEW w \in Workers, OthersKeep(w), CallsNothingDelivered(w)
  PROVE  VerdictsAreTrue'
BY EventsAssumption DEF SosInv, VerdictsAreTrue, Steady, OthersKeep, CallsNothingDelivered

LEMMA RowsStayTrue ==
  ASSUME SosInv, Steady,
         \A e \in Events, g \in Guardians : delivery'[e][g] = "delivered" => delivery[e][g] = "delivered"
  PROVE  RowsAreTrue'
BY DEF SosInv, RowsAreTrue, Steady

LEMMA StatusesStayTrue ==
  ASSUME SosInv, Steady, \A e \in SosEvents : status'[e] = "delivered" => status[e] = "delivered"
  PROVE  StatusesAreTrue'
BY EventsAssumption DEF SosInv, StatusesAreTrue, Steady

\* Every step keeps SosInv: by what it does to snapshots, verdicts, rows and statuses.
LEMMA SosStep ==
  ASSUME PushInv, SosInv, [Next]_vars
  PROVE  SosInv'
<1>0. Steady /\ TypeOK /\ LocalsSet
  BY AcceptedStays DEF PushInv
<1> USE DEF store, world, local
<1>1. ASSUME NEW w \in Workers, Claim(w) \/ Visit(w) \/ VisitDone(w) \/ Send(w) \/ Complete(w) \/ Unregister(w)
                                \/ Repair(w) \/ ReconcileDone(w) \/ ScheduleRetry(w)
                                \/ LoseStatement(w) \/ LoseConnection(w) \/ LoseGiveUp(w) \/ Crash(w)
      PROVE  SosInv'
  <2>1. OthersKeep(w)
    BY <1>0, <1>1 DEF OthersKeep, TypeOK, Claim, Visit, VisitSettled, VisitInFlight, VisitExhausted, StartAttempt,
          VisitDone, Send, Complete, Unregister, NextTarget, Repair, ReconcileDone, ScheduleRetry,
          LoseStatement, LoseConnection, LoseGiveUp, Crash
  <2>2. SeesNothing(w) /\ UNCHANGED delivery
    BY <1>1 DEF SeesNothing, Claim, Visit, VisitDone, Send, Complete, Unregister, Repair, ReconcileDone,
          ScheduleRetry, LoseStatement, LoseConnection, LoseGiveUp, Crash
  <2>3. pc'[w] # "finish"
    BY <1>0, <1>1 DEF TypeOK, Claim, Visit, VisitSettled, VisitInFlight, VisitExhausted, StartAttempt,
          VisitDone, Send, Complete, Unregister, NextTarget, Repair, ReconcileDone, ScheduleRetry,
          LoseStatement, LoseConnection, LoseGiveUp, Crash
  <2>4. \A e \in SosEvents : status'[e] = "delivered" => status[e] = "delivered"
    BY <1>0, <1>1, EventsAssumption DEF TypeOK, Claim, Visit, VisitDone, Send, Complete, Unregister, Repair,
          ReconcileDone, ScheduleRetry, LoseStatement, LoseConnection, LoseGiveUp, Crash
  <2> QED
    BY <1>0, <2>1, <2>2, <2>3, <2>4, SeenStaysTrue, VerdictsStayTrue, RowsStayTrue, StatusesStayTrue
    DEF CallsNothingDelivered, SosInv
<1>2. ASSUME NEW w \in Workers, NextEvent(w) \/ ReadAttempts(w) \/ Reread(w) \/ RepairDone(w)
      PROVE  SosInv'
  <2>1. OthersKeep(w) /\ UNCHANGED <<delivery, status>>
    BY <1>0, <1>2 DEF OthersKeep, TypeOK, NextEvent, ReadAttempts, Reread, RepairDone
  <2>2. SeesNothing(w)
    BY <1>0, <1>2 DEF SeesNothing, TypeOK, LocalsSet, NoAttempt, NextEvent, ReadAttempts, Reread, RepairDone
  <2>3. pc'[w] # "finish"
    BY <1>0, <1>2 DEF TypeOK, NextEvent, ReadAttempts, Reread, RepairDone
  <2> QED
    BY <1>0, <2>1, <2>2, <2>3, SeenStaysTrue, VerdictsStayTrue, RowsStayTrue, StatusesStayTrue
    DEF CallsNothingDelivered, SosInv
<1>3. ASSUME NEW w \in Workers, Classify(w) \/ MarkSosUnavailable(w) \/ ReadTargets(w)
      PROVE  SosInv'
  <2>1. OthersKeep(w) /\ UNCHANGED status /\ SeesNothing(w)
    BY <1>0, <1>3 DEF OthersKeep, SeesNothing, TypeOK, Classify, MarkSosUnavailable, ReadTargets, FinishWith
  <2>2. \A e \in Events, g \in Guardians : delivery'[e][g] = "delivered" => delivery[e][g] = "delivered"
    <3>1. CASE MarkSosUnavailable(w)
      BY <1>0, <3>1 DEF TypeOK, MarkSosUnavailable
    <3> QED BY <1>3, <3>1 DEF Classify, ReadTargets
  <2>3. CallsNothingDelivered(w)
    <3>1. ASSUME NEW verdict \in {"failed", "skipped"}, FinishWith(w, verdict) PROVE result'[w] # "delivered"
      BY <1>0, <3>1 DEF TypeOK, FinishWith
    <3>2. \/ FinishWith(w, "failed") \/ FinishWith(w, "skipped")
          \/ \E p \in {"read", "unavailable", "attempts"} : pc' = [pc EXCEPT ![w] = p]
      BY <1>3 DEF Classify, MarkSosUnavailable, ReadTargets
    <3>3. ASSUME NEW p, pc' = [pc EXCEPT ![w] = p] PROVE pc'[w] = p
      BY <1>0, <3>3 DEF TypeOK
    <3> QED BY <3>1, <3>2, <3>3 DEF CallsNothingDelivered
  <2> QED
    BY <1>0, <2>1, <2>2, <2>3, SeenStaysTrue, VerdictsStayTrue, RowsStayTrue, StatusesStayTrue DEF SosInv
<1>4. ASSUME NEW w \in Workers, Reconcile(w)
      PROVE  SosInv'
  <2>1. OthersKeep(w) /\ UNCHANGED <<status, accepted>> /\ SeesNothing(w) /\ pc'[w] # "finish"
    BY <1>0, <1>4 DEF OthersKeep, SeesNothing, TypeOK, Reconcile
  <2>2. PICK g \in recipients[w] : delivery' = [delivery EXCEPT ![event[w]][g] = SosDeliveryState(w, g, @)]
    BY <1>4 DEF Reconcile
  <2>3. g \in Guardians /\ event[w] \in Events
    BY <1>0, <1>4 DEF TypeOK, LocalsSet, Reconcile
  <2>4. SosDeliveryState(w, g, delivery[event[w]][g]) = "delivered" =>
          \/ delivery[event[w]][g] = "delivered"
          \/ \E r \in Regs : Owner[r] = g /\ seen[w][r].outcome = "delivered"
    BY DEF SosDeliveryState, Related
  <2>5. RowsAreTrue'
    BY <1>0, <2>1, <2>2, <2>3, <2>4 DEF RowsAreTrue, SosInv, SeenAreTrue, TypeOK
  <2> QED
    BY <1>0, <2>1, <2>5, SeenStaysTrue, VerdictsStayTrue, StatusesStayTrue DEF CallsNothingDelivered, SosInv
<1>5. ASSUME NEW w \in Workers, Decide(w)
      PROVE  SosInv'
  <2>1. OthersKeep(w) /\ UNCHANGED <<delivery, status, event>> /\ SeesNothing(w)
    BY <1>0, <1>5 DEF OthersKeep, SeesNothing, TypeOK, Decide, FinishWith
  <2>2. result'[w] = Verdict(w)
    BY <1>0, <1>5 DEF TypeOK, Decide, FinishWith
  <2>3. event[w] \in SosEvents /\ result'[w] = "delivered" => \A g \in Guardians : delivery[event[w]][g] = "delivered"
    BY <2>2 DEF Verdict, IsSos
  <2>4. VerdictsAreTrue'
    BY <1>0, <2>1, <2>3 DEF SosInv, VerdictsAreTrue, OthersKeep
  <2> QED
    BY <1>0, <2>1, <2>4, SeenStaysTrue, RowsStayTrue, StatusesStayTrue DEF SosInv
<1>6. ASSUME NEW w \in Workers, Finish(w)
      PROVE  SosInv'
  <2>1. OthersKeep(w) /\ UNCHANGED delivery /\ SeesNothing(w) /\ pc'[w] # "finish"
    BY <1>0, <1>6 DEF OthersKeep, SeesNothing, TypeOK, Finish
  <2>2. StatusesAreTrue'
    <3>1. \A e \in SosEvents : status'[e] = "delivered" =>
            \/ status[e] = "delivered"
            \/ e = event[w] /\ pc[w] = "finish" /\ result[w] = "delivered"
      BY <1>0, <1>6, EventsAssumption DEF Finish, Close, TypeOK
    <3> QED BY <2>1, <3>1 DEF SosInv, StatusesAreTrue, VerdictsAreTrue
  <2> QED
    BY <1>0, <2>1, <2>2, SeenStaysTrue, VerdictsStayTrue, RowsStayTrue DEF CallsNothingDelivered, SosInv
<1>7. ASSUME UNCHANGED <<status, delivery, accepted, local>> PROVE SosInv'
  BY <1>7 DEF SosInv, SeenAreTrue, RowsAreTrue, VerdictsAreTrue, StatusesAreTrue
<1>8. UNCHANGED <<status, delivery, accepted, local>> \/ \E w \in Workers : WorkerStep(w) \/ WorkerFails(w)
  BY DEF Next, vars, Reconfigure, TimePasses, LeaseAges, EventFallsAvailable, RetryFallsDue, SubjectLeaves,
         RegistrationChanges
<1> QED BY <1>1, <1>2, <1>3, <1>4, <1>5, <1>6, <1>7, <1>8 DEF WorkerStep, WorkerFails

\* What a worker saw delivered, calls delivered and stores as delivered was delivered.
THEOREM SosInvariant == Spec => []SosInv
<1>1. Init => SosInv
  <2> SUFFICES ASSUME Init PROVE SosInv
    OBVIOUS
  <2>1. \A e \in Events, g \in Guardians : delivery[e][g] # "delivered"
    BY DEF Init
  <2>2. \A w \in Workers : pc[w] = "idle" /\ \A r \in Regs : seen[w][r].outcome = "none"
    BY DEF Init, NoAttempt
  <2>3. \A e \in SosEvents : status[e] = "pending"
    BY EventsAssumption DEF Init
  <2> QED BY <2>1, <2>2, <2>3 DEF SosInv, SeenAreTrue, RowsAreTrue, VerdictsAreTrue, StatusesAreTrue
<1>2. PushInv /\ SosInv /\ [Next]_vars => SosInv'
  BY SosStep
<1> QED BY <1>1, <1>2, PushInvariant, PTL DEF Spec

\* An SOS row that says delivered is of a guardian with a handset FCM took the alert for, and an
\* SOS event that says delivered of a family whose every row does (#reconcileSosDeliveries).
THEOREM SosRowsAreTrue == Spec => []SosDeliveredIsTrue
<1>1. SosInv => SosDeliveredIsTrue
  BY EventsAssumption DEF SosInv, RowsAreTrue, StatusesAreTrue, SosDeliveredIsTrue
<1> QED BY <1>1, SosInvariant, PTL

-----------------------------------------------------------------------------
(* While nothing fails: what a run closes it has settled.                  *)

\* The one run holds the leases of its batch and of its event, and never gives up.
LeasesHeld ==
  \A w \in Workers :
    /\ pc[w] # "giveUp"
    /\ pc[w] = "idle" => queue[w] = {}
    /\ \A e \in queue[w] : status[e] = "processing"
    /\ pc[w] \notin {"idle", "next"} => status[event[w]] = "processing" /\ event[w] \notin queue[w]

SendSteps == Steps \ {"idle", "next", "start", "unavailable", "finish", "giveUp"}

\* Attempts are made with a sender, of events that have a push, and the last is never waited for.
AttemptsMade ==
  /\ \A w \in Workers :
       /\ pc[w] = "unavailable" => ~sender
       /\ pc[w] \in SendSteps => sender
       /\ pc[w] \in SendSteps \cup {"unavailable"} => event[w] \notin BadEvents \cup SilentEvents
       /\ pc[w] = "complete" /\ result[w] = "retryable_failure" => number[w] < MaxAttempts
  /\ \A e \in Events, r \in Regs, n \in AttemptNumbers :
       /\ outcome[e][r][n] # "none" => sender /\ e \notin BadEvents \cup SilentEvents
       /\ outcome[e][r][n] = "retryable_failure" => n < MaxAttempts

\* A snapshot shows what is stored.
Shows(a, e, r) == a.n = Latest(e, r).n /\ a.outcome = Latest(e, r).outcome

\* No attempt is in flight and no retry waits; every guardian's row says what became of the alert.
NothingOpen(e) == \A r \in Regs : Latest(e, r).outcome \notin {"in_flight", "retryable_failure"}
AllTold(e) == e \in SosEvents \ BadEvents => \A g \in Guardians : delivery[e][g] # "recorded"

\* What the second and the third read show is what is stored, and the verdict is of that.
ReadsAreFresh ==
  \A w \in Workers :
    LET e == event[w]
    IN /\ pc[w] = "repair" => \A r \in Regs :
            IF r \in todo[w] THEN Shows(seen[w][r], e, r) ELSE Latest(e, r).outcome # "in_flight"
       /\ pc[w] \in {"reconcile", "decide"} =>
            /\ \A r \in Regs : Shows(seen[w][r], e, r) /\ seen[w][r].outcome # "in_flight"
            /\ e \in SosEvents => \A g \in Guardians \ recipients[w] :
                 delivery[e][g] # "recorded" \/ RetriesPending(w)
       /\ pc[w] = "decide" => recipients[w] = {}
       /\ pc[w] = "finish" /\ subject[e] => NothingOpen(e) /\ AllTold(e)

\* A closed event whose child is on the roster is settled.
ClosedAreSettled ==
  \A e \in Events : status[e] \in Terminal /\ subject[e] => NothingOpen(e) /\ AllTold(e)

\* The invariant: while nothing fails and one run works at a time.
CalmInv == Calm => LeasesHeld /\ AttemptsMade /\ ReadsAreFresh /\ ClosedAreSettled

\* What is stored of the attempts of an event and a handset, and only that, is what is read.
LEMMA LatestFollows ==
  ASSUME NEW e, NEW r, outcome'[e][r] = outcome[e][r]
  PROVE  Latest(e, r)'.n = Latest(e, r).n /\ Latest(e, r)'.outcome = Latest(e, r).outcome
<1>1. Made(e, r)' = Made(e, r)
  BY DEF Made
<1> QED BY <1>1 DEF Latest, NoAttempt

\* A guarded UPDATE of the attempt that is the latest changes what is read; another does not.
LEMMA LatestSet ==
  ASSUME TypeOK, NEW e \in Events, NEW r \in Regs, NEW n, NEW from, NEW to, from # "none", to # "none",
         SetOutcome(e, r, n, from, to)
  PROVE  /\ Latest(e, r)'.n = Latest(e, r).n
         /\ Latest(e, r)'.outcome = IF Latest(e, r).n = n /\ Latest(e, r).outcome = from
                                    THEN to ELSE Latest(e, r).outcome
         /\ \A f \in Events, q \in Regs : f # e \/ q # r => outcome'[f][q] = outcome[f][q]
<1> DEFINE new == [k \in AttemptNumbers |-> IF k = n /\ outcome[e][r][k] = from THEN to ELSE outcome[e][r][k]]
<1>1. outcome \in [Events -> [Regs -> [AttemptNumbers -> Outcomes \cup {"none"}]]]
  BY DEF TypeOK
<1>2. outcome' = [outcome EXCEPT ![e][r] = new]
  BY DEF SetOutcome
<1>3. \A k \in AttemptNumbers : new[k] = IF k = n /\ outcome[e][r][k] = from THEN to ELSE outcome[e][r][k]
  OBVIOUS
<1> HIDE DEF new
<1>4. outcome'[e][r] = new /\ \A f \in Events, q \in Regs : f # e \/ q # r => outcome'[f][q] = outcome[f][q]
  BY <1>1, <1>2
<1>5. Made(e, r)' = Made(e, r)
  BY <1>3, <1>4 DEF Made
<1>6. CASE Made(e, r) = {}
  BY <1>4, <1>5, <1>6 DEF Latest, NoAttempt
<1>7. CASE Made(e, r) # {}
  <2> DEFINE m == CHOOSE k \in Made(e, r) : \A j \in Made(e, r) : j <= k
  <2>1. Latest(e, r).n = m /\ Latest(e, r).outcome = outcome[e][r][m]
    BY <1>7 DEF Latest
  <2>2. Latest(e, r)'.n = m /\ Latest(e, r)'.outcome = outcome'[e][r][m]
    BY <1>5, <1>7 DEF Latest
  <2>3. m \in AttemptNumbers
    <3>1. Latest(e, r).outcome # "none"
      <4>1. Made(e, r) \in SUBSET (1..MaxAttempts)
        BY DEF Made, AttemptNumbers
      <4>2. \E k \in Made(e, r) : \A j \in Made(e, r) : j <= k
        BY <1>7, <4>1, GreatestNumber, BoundsAssumption
      <4>3. m \in Made(e, r)
        BY <4>2
      <4> QED BY <2>1, <4>3 DEF Made
    <3> QED BY <2>1, <3>1, LatestIsStored
  <2> HIDE DEF m
  <2> QED BY <1>3, <1>4, <2>1, <2>2, <2>3
<1> QED BY <1>4, <1>6, <1>7

-----------------------------------------------------------------------------

\* A step after which nothing has failed is one of the run, of time or of the household.
LEMMA CalmMoves ==
  ASSUME TypeOK, [Next]_vars, Calm'
  PROVE  /\ Calm /\ UNCHANGED sender
         /\ \/ \E w \in Workers : WorkerStep(w)
            \/ /\ UNCHANGED <<status, outcome, delivery, local>>
               /\ \A e \in Events : subject'[e] => subject[e]
<1> USE DEF store, world, local
<1>1. faults \in Nat
  BY BoundsAssumption DEF TypeOK
<1>2. ASSUME Fault PROVE FALSE
  BY <1>1, <1>2 DEF Fault, Calm
<1>3. ASSUME NEW w \in Workers, WorkerStep(w)
      PROVE  Calm /\ UNCHANGED sender
  BY <1>3 DEF Calm, WorkerStep, Claim, NextEvent, Classify, MarkSosUnavailable, ReadTargets, ReadAttempts, Visit,
              VisitDone, Send, Complete, Unregister, Reread, Repair, RepairDone, Reconcile, ReconcileDone,
              ScheduleRetry, Decide, Finish
<1>4. ASSUME NEW e \in Events, SubjectLeaves(e)
      PROVE  /\ Calm /\ UNCHANGED sender /\ UNCHANGED <<status, outcome, delivery, local>>
             /\ \A f \in Events : subject'[f] => subject[f]
  BY <1>4 DEF Calm, SubjectLeaves, TypeOK
<1>5. CASE (\E e \in Events : TimePasses(e)) \/ (\E r \in Regs : RegistrationChanges(r)) \/ UNCHANGED vars
  BY <1>5 DEF Calm, vars, TimePasses, LeaseAges, EventFallsAvailable, RetryFallsDue, RegistrationChanges
<1> QED BY <1>2, <1>3, <1>4, <1>5 DEF Next, WorkerFails, LoseStatement, LoseConnection, LoseGiveUp, Crash, Reconfigure

\* Every step of the one run keeps the leases.
LEMMA LeasesStep ==
  ASSUME TypeOK, LocalsSet, LeasesHeld, NEW w \in Workers, \A v \in Workers : v = w, WorkerStep(w)
  PROVE  LeasesHeld'
<1> USE DEF store, world, local, TypeOK, LocalsSet, LeasesHeld
<1>1. CASE Claim(w)
  BY <1>1, NoneAssumption DEF Claim
<1>2. CASE NextEvent(w)
  BY <1>2 DEF NextEvent
<1>3. CASE Classify(w) \/ MarkSosUnavailable(w) \/ ReadTargets(w) \/ Decide(w)
  BY <1>3 DEF Classify, MarkSosUnavailable, ReadTargets, Decide, FinishWith
<1>4. CASE ReadAttempts(w) \/ VisitDone(w) \/ Send(w) \/ Reread(w) \/ Repair(w) \/ RepairDone(w)
           \/ Reconcile(w) \/ ReconcileDone(w)
  BY <1>4 DEF ReadAttempts, VisitDone, Send, Reread, Repair, RepairDone, Reconcile, ReconcileDone
<1>5. CASE Visit(w)
  BY <1>5 DEF Visit, VisitSettled, VisitInFlight, VisitExhausted, StartAttempt
<1>6. CASE Complete(w) \/ Unregister(w)
  BY <1>6 DEF Complete, Unregister, NextTarget
<1>7. CASE ScheduleRetry(w) \/ Finish(w)
  <2>1. /\ pc' = [pc EXCEPT ![w] = "next"] /\ UNCHANGED queue
        /\ event[w] \in Events /\ event[w] \notin queue[w]
        /\ \A e \in Events \ {event[w]} : status'[e] = status[e]
    BY <1>7 DEF ScheduleRetry, Finish, Close
  <2> QED BY <2>1
<1> QED BY <1>1, <1>2, <1>3, <1>4, <1>5, <1>6, <1>7 DEF WorkerStep
\* A guarded UPDATE of an attempt changes attempts of its event only, to what it sets.
LEMMA SetOutcomeMoves ==
  ASSUME TypeOK, NEW e \in Events, NEW r \in Regs, NEW n, NEW from, NEW to, SetOutcome(e, r, n, from, to)
  PROVE  \A f \in Events, q \in Regs, k \in AttemptNumbers :
           outcome'[f][q][k] = outcome[f][q][k] \/ (outcome'[f][q][k] = to /\ f = e)
<1> DEFINE new == [k \in AttemptNumbers |-> IF k = n /\ outcome[e][r][k] = from THEN to ELSE outcome[e][r][k]]
<1>1. outcome \in [Events -> [Regs -> [AttemptNumbers -> Outcomes \cup {"none"}]]]
  BY DEF TypeOK
<1>2. outcome' = [outcome EXCEPT ![e][r] = new]
  BY DEF SetOutcome
<1>3. \A k \in AttemptNumbers : new[k] = outcome[e][r][k] \/ new[k] = to
  OBVIOUS
<1> HIDE DEF new
<1>4. \A f \in Events, q \in Regs :
        outcome'[f][q] = IF f = e /\ q = r THEN new ELSE outcome[f][q]
  BY <1>1, <1>2
<1> QED BY <1>3, <1>4

\* A step that starts no attempt and leaves none to be retried.
LEMMA AttemptsStay ==
  ASSUME AttemptsMade, NEW w \in Workers, \A v \in Workers : v = w, UNCHANGED sender,
         \A e \in Events, r \in Regs, n \in AttemptNumbers :
           \/ outcome'[e][r][n] = outcome[e][r][n]
           \/ outcome'[e][r][n] # "retryable_failure" /\ e = event[w] /\ pc[w] \in SendSteps,
         pc'[w] \in SendSteps \cup {"unavailable"} =>
           event'[w] = event[w] /\ pc[w] \in SendSteps \cup {"unavailable"},
         pc'[w] = "unavailable" => pc[w] = "unavailable",
         pc'[w] \in SendSteps => pc[w] \in SendSteps,
         pc'[w] # "complete"
  PROVE  AttemptsMade'
BY DEF AttemptsMade

\* Every step of the one run keeps the attempts.
LEMMA AttemptsStep ==
  ASSUME TypeOK, LocalsSet, AttemptsMade, NEW w \in Workers, \A v \in Workers : v = w, UNCHANGED sender,
         WorkerStep(w)
  PROVE  AttemptsMade'
<1> USE DEF store, world, local, SendSteps, Steps
<1>1. CASE Claim(w) \/ NextEvent(w) \/ MarkSosUnavailable(w) \/ ReadTargets(w) \/ ReadAttempts(w) \/ VisitDone(w)
           \/ Unregister(w) \/ Reread(w) \/ RepairDone(w) \/ Reconcile(w) \/ ReconcileDone(w) \/ ScheduleRetry(w)
           \/ Decide(w) \/ Finish(w)
  <2>1. UNCHANGED outcome
    BY <1>1 DEF Claim, NextEvent, MarkSosUnavailable, ReadTargets, ReadAttempts, VisitDone, Unregister, Reread,
                RepairDone, Reconcile, ReconcileDone, ScheduleRetry, Decide, Finish
  <2>2. pc'[w] \in SendSteps => pc[w] \in SendSteps /\ event'[w] = event[w]
    <3>1. CASE Claim(w) \/ NextEvent(w) \/ MarkSosUnavailable(w) \/ ScheduleRetry(w) \/ Decide(w) \/ Finish(w)
      BY <3>1 DEF TypeOK, FinishWith, Claim, NextEvent, MarkSosUnavailable, ScheduleRetry, Decide, Finish
    <3>2. CASE \/ ReadTargets(w) \/ ReadAttempts(w) \/ VisitDone(w) \/ Unregister(w) \/ Reread(w)
               \/ RepairDone(w) \/ Reconcile(w) \/ ReconcileDone(w)
      BY <3>2 DEF ReadTargets, ReadAttempts, VisitDone, Unregister, Reread, RepairDone, Reconcile, ReconcileDone
    <3> QED BY <1>1, <3>1, <3>2
  <2>3. pc'[w] \notin {"unavailable", "complete"}
    BY <1>1 DEF TypeOK, FinishWith, NextTarget, Claim, NextEvent, MarkSosUnavailable, ReadTargets, ReadAttempts,
                VisitDone, Unregister, Reread, RepairDone, Reconcile, ReconcileDone, ScheduleRetry, Decide, Finish
  <2> QED BY <2>1, <2>2, <2>3, AttemptsStay
<1>2. CASE Classify(w)
  <2>1. UNCHANGED <<outcome, event>> /\ pc'[w] # "complete"
    BY <1>2 DEF Classify, FinishWith, TypeOK
  <2>2. pc'[w] \in SendSteps \cup {"unavailable"} =>
          /\ event[w] \notin BadEvents \cup SilentEvents
          /\ pc'[w] = IF sender THEN "read" ELSE "unavailable"
    BY <1>2 DEF Classify, FinishWith, TypeOK
  <2> QED BY <2>1, <2>2 DEF AttemptsMade
<1>3. CASE Visit(w)
  <2>1. PICK r \in todo[w] : \/ VisitSettled(w, r) \/ VisitInFlight(w, r)
                            \/ VisitExhausted(w, r) \/ StartAttempt(w, r)
    BY <1>3 DEF Visit
  <2>2. event[w] \in Events /\ r \in Regs /\ pc[w] = "visit" /\ event' = event
    BY <1>3 DEF Visit, LocalsSet, TypeOK
  <2>3. pc'[w] \in {"visit", "send"}
    BY <2>1, <2>2 DEF VisitSettled, VisitInFlight, VisitExhausted, StartAttempt, TypeOK
  <2>4. \A e \in Events, q \in Regs, n \in AttemptNumbers :
          \/ outcome'[e][q][n] = outcome[e][q][n]
          \/ outcome'[e][q][n] # "retryable_failure" /\ e = event[w]
    <3>1. CASE StartAttempt(w, r)
      <4> DEFINE n == seen[w][r].n + 1
      <4>1. outcome' = outcome \/ outcome' = [outcome EXCEPT ![event[w]][r][n] = "in_flight"]
        BY <3>1 DEF StartAttempt
      <4> DEFINE e == event[w]
      <4>2. e \in Events /\ (outcome' = outcome \/ outcome' = [outcome EXCEPT ![e][r][n] = "in_flight"])
        BY <2>2, <4>1
      <4> HIDE DEF n, e
      <4>3. \A f \in Events, q \in Regs, k \in AttemptNumbers :
              \/ outcome'[f][q][k] = outcome[f][q][k]
              \/ outcome'[f][q][k] = "in_flight" /\ f = e
        <5>1. outcome \in [Events -> [Regs -> [AttemptNumbers -> Outcomes \cup {"none"}]]]
          BY DEF TypeOK
        <5>2. CASE outcome' = [outcome EXCEPT ![e][r][n] = "in_flight"]
          <6>1. \A f \in Events, q \in Regs, k \in AttemptNumbers :
                  outcome'[f][q][k] = IF f = e /\ q = r /\ k = n THEN "in_flight" ELSE outcome[f][q][k]
            BY <4>2, <5>1, <5>2
          <6> QED BY <6>1
        <5> QED BY <4>2, <5>2
      <4> QED BY <4>3 DEF e
    <3> QED BY <2>1, <2>2, <3>1, SetOutcomeMoves DEF VisitSettled, VisitInFlight, VisitExhausted
  <2> QED BY <2>2, <2>3, <2>4, AttemptsStay
<1>4. CASE Send(w)
  <2>1. /\ UNCHANGED <<outcome, event, number>> /\ pc[w] = "send" /\ pc'[w] = "complete"
        /\ number[w] \in AttemptNumbers
        /\ result'[w] = "retryable_failure" => ~ (number[w] >= MaxAttempts)
    BY <1>4 DEF Send, TypeOK, LocalsSet
  <2>2. ~ (number[w] >= MaxAttempts) => number[w] < MaxAttempts
    BY <2>1, BoundsAssumption DEF AttemptNumbers
  <2> QED BY <2>1, <2>2 DEF AttemptsMade
<1>5. CASE Complete(w)
  <2>1. event[w] \in Events /\ reg[w] \in Regs /\ pc[w] = "complete" /\ event' = event
    BY <1>5 DEF Complete, LocalsSet
  <2>2. pc'[w] \in {"visit", "unregister"}
    BY <1>5 DEF Complete, NextTarget, TypeOK
  <2>3. \A e \in Events, q \in Regs, n \in AttemptNumbers :
          outcome'[e][q][n] = outcome[e][q][n] \/ (outcome'[e][q][n] = result[w] /\ e = event[w] /\ n = number[w])
    BY <1>5, <2>1 DEF Complete, SetOutcome, TypeOK
  <2> QED BY <2>1, <2>2, <2>3 DEF AttemptsMade
<1>6. CASE Repair(w)
  <2>1. PICK r \in todo[w] :
          \/ SetOutcome(event[w], r, seen[w][r].n, "in_flight", "ambiguous")
          \/ SetOutcome(event[w], r, seen[w][r].n, "retryable_failure", "permanent_failure")
    BY <1>6 DEF Repair
  <2>2. event[w] \in Events /\ r \in Regs /\ pc[w] = "repair" /\ UNCHANGED <<event, pc>>
    BY <1>6 DEF Repair, LocalsSet, TypeOK
  <2>3. \A e \in Events, q \in Regs, n \in AttemptNumbers :
          \/ outcome'[e][q][n] = outcome[e][q][n]
          \/ outcome'[e][q][n] # "retryable_failure" /\ e = event[w]
    BY <2>1, <2>2, SetOutcomeMoves
  <2> QED BY <2>2, <2>3, AttemptsStay
<1> QED BY <1>1, <1>2, <1>3, <1>4, <1>5, <1>6 DEF WorkerStep
-----------------------------------------------------------------------------
\* What is closed is worked on no more.
LEMMA ClosedStaySettled ==
  ASSUME TypeOK, LocalsSet, LeasesHeld, ClosedAreSettled, NEW w \in Workers, UNCHANGED subject,
         \A e \in Events : status'[e] \in Terminal => status[e] \in Terminal,
         pc[w] \notin {"idle", "next"} \/ UNCHANGED <<outcome, delivery>>,
         \A e \in Events \ {event[w]} : outcome'[e] = outcome[e] /\ delivery'[e] = delivery[e]
  PROVE  ClosedAreSettled'
<1> SUFFICES ASSUME NEW e \in Events, status'[e] \in Terminal, subject[e] PROVE (NothingOpen(e) /\ AllTold(e))'
  BY DEF ClosedAreSettled
<1>1. status[e] \in Terminal /\ NothingOpen(e) /\ AllTold(e)
  BY DEF ClosedAreSettled
<1>2. outcome'[e] = outcome[e] /\ delivery'[e] = delivery[e]
  <2>1. pc[w] \notin {"idle", "next"} => e # event[w]
    BY <1>1 DEF LeasesHeld, Terminal
  <2> QED BY <2>1
<1>3. \A r \in Regs : Latest(e, r)'.outcome = Latest(e, r).outcome
  BY <1>2, LatestFollows
<1> QED BY <1>1, <1>2, <1>3 DEF NothingOpen, AllTold

\* What #finish closes is settled by the verdict it stores.
LEMMA ClosedSettledStep ==
  ASSUME TypeOK, LocalsSet, LeasesHeld, ReadsAreFresh, ClosedAreSettled, NEW w \in Workers, WorkerStep(w)
  PROVE  ClosedAreSettled'
<1> USE DEF store, world, local
<1>1. UNCHANGED subject
  BY DEF WorkerStep, Claim, NextEvent, Classify, MarkSosUnavailable, ReadTargets, ReadAttempts, Visit, VisitDone,
         Send, Complete, Unregister, Reread, Repair, RepairDone, Reconcile, ReconcileDone, ScheduleRetry, Decide,
         Finish
<1>2. CASE Finish(w)
  <2>1. /\ UNCHANGED <<outcome, delivery>> /\ event[w] \in Events /\ pc[w] = "finish"
        /\ \A e \in Events \ {event[w]} : status'[e] = status[e]
    BY <1>2 DEF Finish, Close, LocalsSet, LeasesHeld, TypeOK
  <2>2. \A e \in Events : (NothingOpen(e) /\ AllTold(e))' <=> NothingOpen(e) /\ AllTold(e)
    BY <2>1, LatestFollows DEF NothingOpen, AllTold
  <2> QED BY <1>1, <2>1, <2>2 DEF ClosedAreSettled, ReadsAreFresh
<1>3. CASE Visit(w) \/ Complete(w) \/ Repair(w) \/ Reconcile(w) \/ MarkSosUnavailable(w)
  <2>1. /\ UNCHANGED status /\ pc[w] \notin {"idle", "next"} /\ event[w] \in Events
    BY <1>3 DEF Visit, Complete, Repair, Reconcile, MarkSosUnavailable, LocalsSet
  <2>2. \A e \in Events \ {event[w]} : delivery'[e] = delivery[e]
    BY <1>3, <2>1 DEF Visit, Complete, Repair, Reconcile, MarkSosUnavailable, TypeOK
  <2>3. \A e \in Events \ {event[w]} : outcome'[e] = outcome[e]
    <3> DEFINE Others == \A e \in Events \ {event[w]} : outcome'[e] = outcome[e]
    <3>1. ASSUME NEW r, NEW n, NEW from, NEW to, SetOutcome(event[w], r, n, from, to) PROVE Others
      BY <2>1, <3>1 DEF SetOutcome, TypeOK
    <3>2. CASE Visit(w)
      <4>1. PICK r \in todo[w] : \/ VisitSettled(w, r) \/ VisitInFlight(w, r)
                                \/ VisitExhausted(w, r) \/ StartAttempt(w, r)
        BY <3>2 DEF Visit
      <4>2. CASE StartAttempt(w, r)
        BY <2>1, <4>2 DEF StartAttempt, TypeOK
      <4> QED BY <3>1, <4>1, <4>2 DEF VisitSettled, VisitInFlight, VisitExhausted
    <3>3. CASE Complete(w)
      BY <3>1, <3>3 DEF Complete
    <3>4. CASE Repair(w)
      BY <3>1, <3>4 DEF Repair
    <3> QED BY <1>3, <3>2, <3>3, <3>4 DEF Reconcile, MarkSosUnavailable
  <2> QED BY <1>1, <2>1, <2>2, <2>3, ClosedStaySettled
<1>4. CASE ~ (Finish(w) \/ Visit(w) \/ Complete(w) \/ Repair(w) \/ Reconcile(w) \/ MarkSosUnavailable(w))
  <2>1. UNCHANGED <<outcome, delivery>>
    BY <1>4 DEF WorkerStep, Claim, NextEvent, Classify, ReadTargets, ReadAttempts, VisitDone, Send, Unregister,
                Reread, RepairDone, ReconcileDone, ScheduleRetry, Decide
  <2>2. \A e \in Events : status'[e] \in Terminal => status[e] \in Terminal
    <3>1. CASE Claim(w)
      <4>1. \A e \in Events : status'[e] = status[e] \/ status'[e] = "processing"
        BY <3>1 DEF Claim
      <4> QED BY <4>1 DEF Terminal
    <3>3. CASE ScheduleRetry(w)
      <4>1. \A e \in Events : status'[e] = status[e] \/ status'[e] = "pending"
        BY <3>3 DEF ScheduleRetry, TypeOK
      <4> QED BY <4>1 DEF Terminal
    <3>2. CASE ~ (Claim(w) \/ ScheduleRetry(w))
      BY <1>4, <3>2 DEF WorkerStep, NextEvent, Classify, ReadTargets, ReadAttempts, VisitDone, Send, Unregister,
                        Reread, RepairDone, ReconcileDone, Decide
    <3> QED BY <3>1, <3>2, <3>3
  <2> QED BY <1>1, <2>1, <2>2, ClosedStaySettled
<1> QED BY <1>2, <1>3, <1>4
-----------------------------------------------------------------------------
\* An event of which no attempt was made has none open.
LEMMA NothingMade ==
  ASSUME TypeOK, NEW e \in Events, \A r \in Regs, n \in AttemptNumbers : outcome[e][r][n] = "none"
  PROVE  NothingOpen(e)
BY LatestIsStored DEF NothingOpen

\* From the second read to the verdict nobody but the one run writes attempts of its event.
LEMMA ReadsStep ==
  ASSUME TypeOK, LocalsSet, LeasesHeld, AttemptsMade, ReadsAreFresh, NEW w \in Workers, \A v \in Workers : v = w,
         WorkerStep(w)
  PROVE  ReadsAreFresh'
<1> USE DEF store, world, local
<1> DEFINE e == event[w]
<1>0. UNCHANGED subject
  BY DEF WorkerStep, Claim, NextEvent, Classify, MarkSosUnavailable, ReadTargets, ReadAttempts, Visit, VisitDone,
         Send, Complete, Unregister, Reread, Repair, RepairDone, Reconcile, ReconcileDone, ScheduleRetry, Decide,
         Finish
<1>1. CASE Claim(w) \/ NextEvent(w) \/ ReadAttempts(w) \/ VisitDone(w) \/ Visit(w) \/ Send(w) \/ Complete(w)
           \/ Unregister(w) \/ ScheduleRetry(w) \/ Finish(w)
  <2>1. pc'[w] \notin {"repair", "reconcile", "decide", "finish"}
    BY <1>1 DEF TypeOK, Claim, NextEvent, ReadAttempts, VisitDone, Visit, VisitSettled, VisitInFlight,
                VisitExhausted, StartAttempt, Send, Complete, Unregister, NextTarget, ScheduleRetry, Finish
  <2> QED BY <2>1 DEF ReadsAreFresh
<1>2. CASE Classify(w)
  <2>1. /\ e \in Events /\ UNCHANGED <<outcome, delivery, event>>
        /\ pc'[w] \notin {"repair", "reconcile", "decide"}
        /\ pc'[w] = "finish" => e \in BadEvents \cup SilentEvents
    BY <1>2 DEF Classify, FinishWith, TypeOK, LocalsSet
  <2>2. e \in BadEvents \cup SilentEvents => NothingOpen(e) /\ AllTold(e)
    BY <2>1, NothingMade, EventsAssumption DEF AttemptsMade, AllTold
  <2>3. NothingOpen(e) /\ AllTold(e) => (NothingOpen(e) /\ AllTold(e))'
    BY <2>1, LatestFollows DEF NothingOpen, AllTold
  <2> QED BY <2>1, <2>2, <2>3 DEF ReadsAreFresh
<1>3. CASE MarkSosUnavailable(w)
  <2>1. /\ e \in Events /\ UNCHANGED <<outcome, event>> /\ pc[w] = "unavailable" /\ pc'[w] = "finish"
    BY <1>3 DEF MarkSosUnavailable, FinishWith, TypeOK, LocalsSet
  <2>2. NothingOpen(e)
    BY <2>1, NothingMade DEF AttemptsMade
  <2>3. NothingOpen(e)'
    BY <2>1, <2>2, LatestFollows DEF NothingOpen
  <2>4. AllTold(e)'
    BY <1>3, <2>1 DEF MarkSosUnavailable, AllTold, IsSos, TypeOK
  <2> QED BY <2>1, <2>3, <2>4 DEF ReadsAreFresh
<1>4. CASE ReadTargets(w)
  <2>1. /\ UNCHANGED event /\ pc'[w] \notin {"repair", "reconcile", "decide"}
        /\ pc'[w] = "finish" => ~subject[e]
    BY <1>4 DEF ReadTargets, FinishWith, TypeOK
  <2> QED BY <1>0, <2>1 DEF ReadsAreFresh
<1>5. CASE Reread(w)
  <2>1. /\ UNCHANGED <<outcome, event>> /\ pc'[w] = "repair"
        /\ \A r \in Regs : seen'[w][r] = Latest(e, r)
        /\ \A r \in Regs : Latest(e, r).outcome = "in_flight" => r \in todo'[w]
    BY <1>5 DEF Reread, TypeOK
  <2> QED BY <2>1, LatestFollows DEF ReadsAreFresh, Shows
<1>6. CASE Repair(w)
  <2>1. /\ e \in Events /\ UNCHANGED <<event, seen, pc>> /\ pc[w] = "repair"
    BY <1>6 DEF Repair, LocalsSet
  <2>2. PICK r \in todo[w] :
          /\ todo' = [todo EXCEPT ![w] = @ \ {r}]
          /\ \/ /\ seen[w][r].outcome = "in_flight"
                /\ SetOutcome(e, r, seen[w][r].n, "in_flight", "ambiguous")
             \/ /\ seen[w][r].outcome = "retryable_failure"
                /\ SetOutcome(e, r, seen[w][r].n, "retryable_failure", "permanent_failure")
    BY <1>6 DEF Repair
  <2>3. r \in Regs /\ todo'[w] = todo[w] \ {r}
    BY <2>2 DEF TypeOK
  <2>4. Shows(seen[w][r], e, r)
    BY <2>1, <2>3 DEF ReadsAreFresh
  <2>5. /\ Latest(e, r)'.outcome \in {"ambiguous", "permanent_failure"}
        /\ \A q \in Regs \ {r} : outcome'[e][q] = outcome[e][q]
    BY <2>1, <2>2, <2>3, <2>4, LatestSet DEF Shows
  <2>6. \A q \in Regs \ {r} : Latest(e, q)'.n = Latest(e, q).n /\ Latest(e, q)'.outcome = Latest(e, q).outcome
    BY <2>1, <2>5, LatestFollows
  <2> QED BY <2>1, <2>3, <2>5, <2>6 DEF ReadsAreFresh, Shows
<1>7. CASE RepairDone(w)
  <2>1. /\ UNCHANGED <<outcome, event>> /\ pc[w] = "repair" /\ pc'[w] = "reconcile" /\ todo[w] = {}
        /\ \A r \in Regs : seen'[w][r] = Latest(e, r)
        /\ e \in SosEvents => recipients'[w] = Guardians
    BY <1>7 DEF RepairDone, TypeOK, IsSos
  <2> QED BY <2>1, LatestFollows DEF ReadsAreFresh, Shows
<1>8. CASE Reconcile(w)
  <2>1. /\ UNCHANGED <<outcome, event, seen, pc>> /\ pc[w] = "reconcile" /\ e \in Events
    BY <1>8 DEF Reconcile, LocalsSet
  <2>2. PICK g \in recipients[w] : /\ recipients' = [recipients EXCEPT ![w] = @ \ {g}]
                                   /\ delivery' = [delivery EXCEPT ![e][g] = SosDeliveryState(w, g, @)]
    BY <1>8 DEF Reconcile
  <2>3. /\ g \in Guardians /\ recipients'[w] = recipients[w] \ {g}
        /\ delivery'[e][g] = SosDeliveryState(w, g, delivery[e][g])
        /\ \A h \in Guardians \ {g} : delivery'[e][h] = delivery[e][h]
    BY <2>1, <2>2 DEF TypeOK
  <2>4. RetriesPending(w) \/ SosDeliveryState(w, g, delivery[e][g]) # "recorded"
    BY <2>1 DEF SosDeliveryState, RetriesPending, Related, ReadsAreFresh
  <2>5. \A q \in Regs : Latest(e, q)'.n = Latest(e, q).n /\ Latest(e, q)'.outcome = Latest(e, q).outcome
    BY <2>1, LatestFollows
  <2>6. RetriesPending(w)' <=> RetriesPending(w)
    BY <2>1 DEF RetriesPending
  <2> QED BY <2>1, <2>3, <2>4, <2>5, <2>6 DEF ReadsAreFresh, Shows
<1>9. CASE ReconcileDone(w)
  <2>1. /\ UNCHANGED <<outcome, event, seen, delivery, recipients>> /\ pc[w] = "reconcile" /\ pc'[w] = "decide"
        /\ recipients[w] = {}
    BY <1>9 DEF ReconcileDone, TypeOK
  <2>2. \A q \in Regs : Latest(e, q)'.n = Latest(e, q).n /\ Latest(e, q)'.outcome = Latest(e, q).outcome
    BY <2>1, LatestFollows
  <2>3. RetriesPending(w)' <=> RetriesPending(w)
    BY <2>1 DEF RetriesPending
  <2> QED BY <2>1, <2>2, <2>3 DEF ReadsAreFresh, Shows
<1>10. CASE Decide(w)
  <2>1. /\ UNCHANGED <<outcome, event, delivery>> /\ pc[w] = "decide" /\ pc'[w] = "finish" /\ e \in Events
        /\ ~RetriesPending(w)
    BY <1>10 DEF Decide, FinishWith, TypeOK, LocalsSet
  <2>2. ASSUME NEW r \in Regs PROVE Latest(e, r).outcome \notin {"in_flight", "retryable_failure"}
    <3>1. /\ Shows(seen[w][r], e, r) /\ seen[w][r].outcome # "in_flight" /\ ~Waiting(seen[w][r])
      BY <2>1 DEF ReadsAreFresh, RetriesPending
    <3>2. Latest(e, r).outcome = "retryable_failure" => Latest(e, r).n < MaxAttempts
      BY <2>1, LatestIsStored DEF AttemptsMade
    <3> QED BY <3>1, <3>2 DEF Shows, Waiting
  <2>3. AllTold(e)
    BY <2>1 DEF AllTold, ReadsAreFresh
  <2>4. (NothingOpen(e) /\ AllTold(e))'
    BY <2>1, <2>2, <2>3, LatestFollows DEF NothingOpen, AllTold
  <2> QED BY <2>1, <2>4 DEF ReadsAreFresh
<1> QED BY <1>1, <1>2, <1>3, <1>4, <1>5, <1>6, <1>7, <1>8, <1>9, <1>10 DEF WorkerStep

\* Every step of the one run, of time and of the household keeps CalmInv.
LEMMA CalmStep ==
  ASSUME PushInv, CalmInv, [Next]_vars
  PROVE  CalmInv'
<1> SUFFICES ASSUME Calm' PROVE (LeasesHeld /\ AttemptsMade /\ ReadsAreFresh /\ ClosedAreSettled)'
  BY DEF CalmInv
<1>1. TypeOK /\ LocalsSet
  BY DEF PushInv
<1>2. /\ Calm /\ UNCHANGED sender
      /\ \/ \E w \in Workers : WorkerStep(w)
         \/ /\ UNCHANGED <<status, outcome, delivery, local>>
            /\ \A e \in Events : subject'[e] => subject[e]
  BY <1>1, CalmMoves
<1>3. LeasesHeld /\ AttemptsMade /\ ReadsAreFresh /\ ClosedAreSettled
  BY <1>2 DEF CalmInv
<1>4. ASSUME NEW w \in Workers, WorkerStep(w)
      PROVE  (LeasesHeld /\ AttemptsMade /\ ReadsAreFresh /\ ClosedAreSettled)'
  <2>1. \A v \in Workers : v = w
    BY <1>2 DEF Calm
  <2> QED BY <1>1, <1>2, <1>3, <1>4, <2>1, LeasesStep, AttemptsStep, ReadsStep, ClosedSettledStep
<1>5. CASE /\ UNCHANGED <<status, outcome, delivery, local>>
           /\ \A e \in Events : subject'[e] => subject[e]
  <2>1. UNCHANGED <<pc, queue, event, todo, seen, recipients, number, result>>
    BY <1>5 DEF local
  <2>2. \A e \in Events, r \in Regs :
          Latest(e, r)'.n = Latest(e, r).n /\ Latest(e, r)'.outcome = Latest(e, r).outcome
    BY <1>5, LatestFollows
  <2>3. LeasesHeld' /\ AttemptsMade'
    BY <1>2, <1>3, <1>5, <2>1 DEF LeasesHeld, AttemptsMade
  <2>4. \A e \in Events : NothingOpen(e) /\ AllTold(e) => (NothingOpen(e) /\ AllTold(e))'
    BY <1>5, <2>2 DEF NothingOpen, AllTold
  <2>5. ClosedAreSettled'
    BY <1>3, <1>5, <2>4 DEF ClosedAreSettled
  <2>6. ReadsAreFresh'
    <3>1. \A w \in Workers : RetriesPending(w)' <=> RetriesPending(w)
      BY <2>1 DEF RetriesPending
    <3>2. \A w \in Workers : pc[w] \in {"repair", "reconcile", "decide", "finish"} => event[w] \in Events
      BY <1>1 DEF LocalsSet
    <3> QED BY <1>3, <1>5, <2>1, <2>2, <2>4, <3>1, <3>2 DEF ReadsAreFresh, Shows
  <2> QED BY <2>3, <2>5, <2>6
<1> QED BY <1>2, <1>4, <1>5

\* CalmInv holds in every reachable state.
THEOREM CalmInvariant == Spec => []CalmInv
<1>1. Init => CalmInv
  <2> SUFFICES ASSUME Init PROVE CalmInv
    OBVIOUS
  <2>1. \A w \in Workers : pc[w] = "idle" /\ queue[w] = {}
    BY DEF Init
  <2>2. \A e \in Events, r \in Regs, n \in AttemptNumbers : outcome[e][r][n] = "none"
    BY DEF Init
  <2>3. \A e \in Events : status[e] = "pending"
    BY DEF Init
  <2> QED
    BY <2>1, <2>2, <2>3
    DEF CalmInv, LeasesHeld, AttemptsMade, SendSteps, Steps, ReadsAreFresh, ClosedAreSettled, Terminal
<1>2. PushInv /\ CalmInv /\ [Next]_vars => CalmInv'
  BY CalmStep
<1> QED BY <1>1, <1>2, PushInvariant, PTL DEF Spec

\* While nothing fails, a closed event of a child on the roster has no attempt in flight and no
\* retry waiting (the repair loop of #dispatchInner, #finish).
THEOREM ClosedIsAnswered == Spec => []ClosedLeavesNothingOpen
<1>1. CalmInv => ClosedLeavesNothingOpen
  BY DEF CalmInv, ClosedAreSettled, NothingOpen, ClosedLeavesNothingOpen
<1> QED BY <1>1, CalmInvariant, PTL

\* While nothing fails, a closed SOS of a child on the roster has told every guardian's row what
\* became of the alert (#reconcileSosDeliveries, #markSosUnavailable).
THEOREM GuardiansRowsSettle == Spec => []SosRowsSettled
<1>1. CalmInv => SosRowsSettled
  BY EventsAssumption DEF CalmInv, ClosedAreSettled, AllTold, SosRowsSettled
<1> QED BY <1>1, CalmInvariant, PTL
=============================================================================
