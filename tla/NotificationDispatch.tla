------------------------ MODULE NotificationDispatch ------------------------
(***************************************************************************)
(* The safety-notification dispatcher of the Family OS backend:            *)
(* notification-dispatcher.js working on outbox_events,                    *)
(* outbox_delivery_attempts, family_sos_alert_deliveries and               *)
(* family_push_registrations.                                              *)
(*                                                                         *)
(* A worker is one run of notify, sweep or bootSweep: it leases a batch of *)
(* events in one transaction and then dispatches them one by one, with one *)
(* autocommitted statement per step, so that other workers, guardians and  *)
(* restarts interleave between any two of its statements.                  *)
(***************************************************************************)
EXTENDS Integers, FiniteSets

CONSTANTS Events,        \* rows of outbox_events whose transaction committed
          SosEvents,     \* those of type family.sos_alert_raised
          SilentEvents,  \* audit-only types and healthy protection reports
          BadEvents,     \* unknown type, copy key mismatch, bad payload
          Guardians,     \* the recipients written when the SOS was raised
          Regs,          \* rows of family_push_registrations
          Owner,         \* the guardian a registration belongs to
          Workers,       \* concurrent dispatch runs, in one process or more
          MaxAttempts,   \* MAX_FCM_SEND_ATTEMPTS
          BatchLimit,    \* the limit of a sweep
          MaxFaults,     \* bound on crashes and database failures
          None           \* no event, no registration

ASSUME EventsAssumption ==
  /\ SosEvents \subseteq Events /\ SilentEvents \subseteq Events /\ BadEvents \subseteq Events
  /\ SosEvents \cap SilentEvents = {}
ASSUME OwnerAssumption == Owner \in [Regs -> Guardians]
ASSUME BoundsAssumption ==
  /\ MaxAttempts \in Nat \ {0}
  /\ BatchLimit \in Nat \ {0}
  /\ MaxFaults \in Nat
ASSUME NoneAssumption == None \notin Events /\ None \notin Regs

AttemptNumbers == 1..MaxAttempts

VARIABLES
  \* outbox_events
  status,     \* status[e]
  available,  \* available[e]: available_at <= NOW()
  aged,       \* aged[e]: the lease is older than STALE_PROCESSING_SECONDS
  \* outbox_delivery_attempts
  outcome,    \* outcome[e][r][n]: the outcome of attempt n, or "none"
  due,        \* due[e][r]: the retry_after_at of its retryable attempt passed
  \* family_sos_alert_deliveries, channel push
  delivery,   \* delivery[e][g]
  \* what the target query and the subject query see
  registration, \* registration[r]: "live", "hidden" or "deleted"
  subject,    \* subject[e]: the child the event names is not archived
  sender,     \* an FCM sender is configured
  \* Firebase, outside the server
  accepted,   \* accepted[e][r]: the attempts FCM accepted
  \* a worker's local variables
  pc, queue, event, targets, todo, seen, recipients, reg, number, result,
  faults      \* crashes and database failures so far

store == <<status, available, aged, outcome, due, delivery>>
world == <<registration, subject, sender, accepted>>
local == <<pc, queue, event, targets, todo, seen, recipients, reg, number, result>>
vars == <<store, world, local, faults>>

-----------------------------------------------------------------------------
(* The stored states.                                                      *)

Terminal == {"delivered", "failed", "skipped"}
EventStatus == {"pending", "processing"} \cup Terminal
Outcomes == {"in_flight", "delivered", "unregistered", "retryable_failure",
             "permanent_failure", "ambiguous"}
DeliveryStates == {"recorded", "not_configured", "delivered", "failed"}
RegistrationStates == {"live", "hidden", "deleted"}
Steps == {"idle", "next", "start", "unavailable", "read", "attempts", "visit",
          "send", "complete", "unregister", "reread", "repair", "reconcile",
          "decide", "finish", "giveUp"}

Attempt == [n : 0..MaxAttempts, outcome : Outcomes \cup {"none"}, due : BOOLEAN]
NoAttempt == [n |-> 0, outcome |-> "none", due |-> FALSE]

Made(e, r) == {n \in AttemptNumbers : outcome[e][r][n] # "none"}

\* latestAttemptMap: the highest attempt of a registration as the reader sees it.
Latest(e, r) ==
  IF Made(e, r) = {} THEN NoAttempt
  ELSE LET n == CHOOSE m \in Made(e, r) : \A k \in Made(e, r) : k <= m
       IN [n |-> n, outcome |-> outcome[e][r][n], due |-> due[e][r]]

Waiting(a) == a.outcome = "retryable_failure" /\ a.n < MaxAttempts

IsSos(e) == e \in SosEvents

Init ==
  /\ status = [e \in Events |-> "pending"]
  /\ available = [e \in Events |-> TRUE]
  /\ aged = [e \in Events |-> FALSE]
  /\ outcome = [e \in Events |-> [r \in Regs |-> [n \in AttemptNumbers |-> "none"]]]
  /\ due = [e \in Events |-> [r \in Regs |-> FALSE]]
  /\ sender \in BOOLEAN
  /\ delivery = [e \in Events |-> [g \in Guardians |->
                   IF sender THEN "recorded" ELSE "not_configured"]]
  /\ registration \in [Regs -> {"live", "hidden"}]
  /\ subject = [e \in Events |-> TRUE]
  /\ accepted = [e \in Events |-> [r \in Regs |-> {}]]
  /\ pc = [w \in Workers |-> "idle"]
  /\ queue = [w \in Workers |-> {}]
  /\ event = [w \in Workers |-> None]
  /\ targets = [w \in Workers |-> {}]
  /\ todo = [w \in Workers |-> {}]
  /\ seen = [w \in Workers |-> [r \in Regs |-> NoAttempt]]
  /\ recipients = [w \in Workers |-> {}]
  /\ reg = [w \in Workers |-> None]
  /\ number = [w \in Workers |-> 0]
  /\ result = [w \in Workers |-> "none"]
  /\ faults = 0

-----------------------------------------------------------------------------
(* Leasing.                                                                *)

Claimable(e) ==
  \/ status[e] = "pending" /\ available[e]
  \/ status[e] = "processing" /\ aged[e]

\* #claim: one transaction leases up to BatchLimit events, FOR UPDATE SKIP LOCKED.
\* notify is the batch of one pending event.  Its refusal of an event of another type
\* (event_type_mismatch) is never taken: the listener passes the id and the type of the row
\* that the same transaction inserted, and no statement changes a type.
Claim(w) ==
  /\ pc[w] = "idle"
  /\ \E batch \in SUBSET {e \in Events : Claimable(e)} :
       /\ batch # {}
       /\ Cardinality(batch) <= BatchLimit
       /\ status' = [e \in Events |-> IF e \in batch THEN "processing" ELSE status[e]]
       /\ aged' = [e \in Events |-> IF e \in batch THEN FALSE ELSE aged[e]]
       /\ queue' = [queue EXCEPT ![w] = batch]
  /\ pc' = [pc EXCEPT ![w] = "next"]
  /\ UNCHANGED <<available, outcome, due, delivery, world, faults,
                 event, targets, todo, seen, recipients, reg, number, result>>

\* The loop of sweep and bootSweep over the leased rows. The locals of the event
\* before are forgotten.
NextEvent(w) ==
  /\ pc[w] = "next"
  /\ \/ /\ queue[w] = {}
        /\ pc' = [pc EXCEPT ![w] = "idle"]
        /\ event' = [event EXCEPT ![w] = None]
        /\ UNCHANGED queue
     \/ \E e \in queue[w] :
        /\ pc' = [pc EXCEPT ![w] = "start"]
        /\ event' = [event EXCEPT ![w] = e]
        /\ queue' = [queue EXCEPT ![w] = @ \ {e}]
  /\ targets' = [targets EXCEPT ![w] = {}]
  /\ todo' = [todo EXCEPT ![w] = {}]
  /\ seen' = [seen EXCEPT ![w] = [r \in Regs |-> NoAttempt]]
  /\ recipients' = [recipients EXCEPT ![w] = {}]
  /\ reg' = [reg EXCEPT ![w] = None]
  /\ number' = [number EXCEPT ![w] = 0]
  /\ result' = [result EXCEPT ![w] = "none"]
  /\ UNCHANGED <<store, world, faults>>

\* Go to the closing UPDATE with a verdict.
FinishWith(w, verdict) ==
  /\ pc' = [pc EXCEPT ![w] = "finish"]
  /\ result' = [result EXCEPT ![w] = verdict]

\* #dispatchInner up to the fcmSender check.
Classify(w) ==
  /\ pc[w] = "start"
  /\ LET e == event[w] IN
       \/ e \in BadEvents /\ FinishWith(w, "failed")
       \/ e \in SilentEvents \ BadEvents /\ FinishWith(w, "skipped")
       \/ /\ e \notin BadEvents \cup SilentEvents
          /\ pc' = [pc EXCEPT ![w] = IF sender THEN "read" ELSE "unavailable"]
          /\ UNCHANGED result
  /\ UNCHANGED <<store, world, faults,
                 queue, event, targets, todo, seen, recipients, reg, number>>

\* #markSosUnavailable, then #finish(skipped, push_not_configured).
MarkSosUnavailable(w) ==
  /\ pc[w] = "unavailable"
  /\ delivery' = [delivery EXCEPT ![event[w]] =
       [g \in Guardians |->
          IF IsSos(event[w]) /\ @[g] \in {"recorded", "failed"}
          THEN "not_configured" ELSE @[g]]]
  /\ FinishWith(w, "skipped")
  /\ UNCHANGED <<status, available, aged, outcome, due, world, faults,
                 queue, event, targets, todo, seen, recipients, reg, number>>

-----------------------------------------------------------------------------
(* One event: snapshot, sends, repair, verdict.                            *)

LiveRegs == {r \in Regs : registration[r] = "live"}

\* resolveNotificationSubject and the target query.
ReadTargets(w) ==
  /\ pc[w] = "read"
  /\ \/ /\ ~subject[event[w]]
        /\ FinishWith(w, "failed")
        /\ UNCHANGED targets
     \/ /\ subject[event[w]]
        /\ targets' = [targets EXCEPT ![w] = LiveRegs]
        /\ pc' = [pc EXCEPT ![w] = "attempts"]
        /\ UNCHANGED result
  /\ UNCHANGED <<store, world, faults,
                 queue, event, todo, seen, recipients, reg, number>>

\* The snapshot of the attempts the send loop decides by.
ReadAttempts(w) ==
  /\ pc[w] = "attempts"
  /\ seen' = [seen EXCEPT ![w] = [r \in Regs |-> Latest(event[w], r)]]
  /\ todo' = [todo EXCEPT ![w] = targets[w]]
  /\ pc' = [pc EXCEPT ![w] = "visit"]
  /\ UNCHANGED <<store, world, faults,
                 queue, event, targets, recipients, reg, number, result>>

\* UPDATE outbox_delivery_attempts ... AND outcome = from.
SetOutcome(e, r, n, from, to) ==
  outcome' = [outcome EXCEPT ![e][r] =
                [k \in AttemptNumbers |->
                   IF k = n /\ @[k] = from THEN to ELSE @[k]]]

\* Targets the loop passes over: answered for good, or a retry not yet due.
Settled(a) ==
  \/ a.outcome \in {"delivered", "unregistered", "permanent_failure", "ambiguous"}
  \/ Waiting(a) /\ ~a.due

VisitSettled(w, r) ==
  /\ Settled(seen[w][r])
  /\ pc' = pc
  /\ UNCHANGED <<outcome, reg, number>>

\* Mutant: a row seen in flight is taken for one that was never sent.
VisitInFlightResend(w, r) ==
  /\ seen[w][r].outcome = "in_flight"
  /\ reg' = [reg EXCEPT ![w] = r]
  /\ number' = [number EXCEPT ![w] = seen[w][r].n]
  /\ pc' = [pc EXCEPT ![w] = "send"]
  /\ UNCHANGED outcome

\* A row seen in flight is closed as ambiguous and never sent again.
VisitInFlight(w, r) ==
  /\ seen[w][r].outcome = "in_flight"
  /\ SetOutcome(event[w], r, seen[w][r].n, "in_flight", "ambiguous")
  /\ pc' = pc
  /\ UNCHANGED <<reg, number>>

\* #exhaustRetryableAttempt.
VisitExhausted(w, r) ==
  /\ seen[w][r].outcome = "retryable_failure"
  /\ seen[w][r].n >= MaxAttempts
  /\ SetOutcome(event[w], r, seen[w][r].n, "retryable_failure", "permanent_failure")
  /\ pc' = pc
  /\ UNCHANGED <<reg, number>>

\* #startAttempt: INSERT ... ON CONFLICT DO NOTHING; the winner alone sends.
StartAttempt(w, r) ==
  LET e == event[w]
      n == seen[w][r].n + 1
  IN /\ seen[w][r].outcome = "none" \/ (Waiting(seen[w][r]) /\ seen[w][r].due)
     /\ IF outcome[e][r][n] = "none"
        THEN /\ outcome' = [outcome EXCEPT ![e][r][n] = "in_flight"]
             /\ reg' = [reg EXCEPT ![w] = r]
             /\ number' = [number EXCEPT ![w] = n]
             /\ pc' = [pc EXCEPT ![w] = "send"]
        ELSE pc' = pc /\ UNCHANGED <<outcome, reg, number>>

\* The body of the loop over targets.
Visit(w) ==
  /\ pc[w] = "visit"
  /\ \E r \in todo[w] :
       /\ todo' = [todo EXCEPT ![w] = @ \ {r}]
       /\ \/ VisitSettled(w, r)
          \/ VisitInFlight(w, r)
          \/ VisitExhausted(w, r)
          \/ StartAttempt(w, r)
  /\ UNCHANGED <<status, available, aged, due, delivery, world, faults,
                 queue, event, targets, seen, recipients, result>>

VisitDone(w) ==
  /\ pc[w] = "visit"
  /\ todo[w] = {}
  /\ pc' = [pc EXCEPT ![w] = "reread"]
  /\ UNCHANGED <<store, world, faults,
                 queue, event, targets, todo, seen, recipients, reg, number, result>>

\* fcmSender.send. Only a request FCM clearly refused reads as transient,
\* permanent or unregistered; a lost answer reads as ambiguous whether or not
\* FCM accepted. The last attempt turns a transient refusal into a permanent one.
Send(w) ==
  /\ pc[w] = "send"
  /\ \E answer \in {"delivered", "unregistered", "retryable_failure",
                    "permanent_failure", "ambiguous"}, taken \in BOOLEAN :
       /\ answer = "delivered" => taken
       /\ answer \in {"unregistered", "retryable_failure", "permanent_failure"} => ~taken
       /\ accepted' = IF taken
                      THEN [accepted EXCEPT ![event[w]][reg[w]] = @ \cup {number[w]}]
                      ELSE accepted
       /\ result' = [result EXCEPT ![w] =
            IF answer = "retryable_failure" /\ number[w] >= MaxAttempts
            THEN "permanent_failure" ELSE answer]
  /\ pc' = [pc EXCEPT ![w] = "complete"]
  /\ UNCHANGED <<store, registration, subject, sender, faults,
                 queue, event, targets, todo, seen, recipients, reg, number>>

\* The end of the loop body, where its locals go out of scope.
NextTarget(w) ==
  /\ pc' = [pc EXCEPT ![w] = "visit"]
  /\ reg' = [reg EXCEPT ![w] = None]
  /\ number' = [number EXCEPT ![w] = 0]
  /\ result' = [result EXCEPT ![w] = "none"]

\* #completeAttempt with the provider's answer; retry_after_at starts its wait.
Complete(w) ==
  /\ pc[w] = "complete"
  /\ LET e == event[w]
         r == reg[w]
     IN /\ SetOutcome(e, r, number[w], "in_flight", result[w])
        /\ due' = IF outcome[e][r][number[w]] = "in_flight"
                  THEN [due EXCEPT ![e][r] = FALSE] ELSE due
  /\ IF result[w] = "unregistered"
     THEN pc' = [pc EXCEPT ![w] = "unregister"] /\ UNCHANGED <<reg, number, result>>
     ELSE NextTarget(w)
  /\ UNCHANGED <<status, available, aged, delivery, world, faults,
                 queue, event, targets, todo, seen, recipients>>

\* #removeRegistration, best effort.
Unregister(w) ==
  /\ pc[w] = "unregister"
  /\ \/ registration' = [registration EXCEPT ![reg[w]] = "deleted"]
     \/ UNCHANGED registration
  /\ NextTarget(w)
  /\ UNCHANGED <<store, subject, sender, accepted, faults,
                 queue, event, targets, todo, seen, recipients>>

\* Mutant: a retry whose registration is gone is left waiting.
RereadInFlightOnly(w) ==
  /\ pc[w] = "reread"
  /\ seen' = [seen EXCEPT ![w] = [r \in Regs |-> Latest(event[w], r)]]
  /\ todo' = [todo EXCEPT ![w] = {r \in Regs : Latest(event[w], r).outcome = "in_flight"}]
  /\ pc' = [pc EXCEPT ![w] = "repair"]
  /\ UNCHANGED <<store, world, faults,
                 queue, event, targets, recipients, reg, number, result>>

\* The second read, and what of it needs repair.
Reread(w) ==
  /\ pc[w] = "reread"
  /\ LET now == [r \in Regs |-> Latest(event[w], r)] IN
       /\ seen' = [seen EXCEPT ![w] = now]
       /\ todo' = [todo EXCEPT ![w] =
            {r \in Regs : \/ now[r].outcome = "in_flight"
                          \/ now[r].outcome = "retryable_failure" /\ r \notin targets[w]}]
  /\ pc' = [pc EXCEPT ![w] = "repair"]
  /\ UNCHANGED <<store, world, faults,
                 queue, event, targets, recipients, reg, number, result>>

\* An interrupted attempt becomes ambiguous; a retry whose registration left the
\* targets becomes permanent_failure (#failRetryWithoutRegistration).
Repair(w) ==
  /\ pc[w] = "repair"
  /\ \E r \in todo[w] :
       /\ todo' = [todo EXCEPT ![w] = @ \ {r}]
       /\ LET a == seen[w][r] IN
            \/ /\ a.outcome = "in_flight"
               /\ SetOutcome(event[w], r, a.n, "in_flight", "ambiguous")
            \/ /\ a.outcome = "retryable_failure"
               /\ SetOutcome(event[w], r, a.n, "retryable_failure", "permanent_failure")
  /\ UNCHANGED <<status, available, aged, due, delivery, world, faults,
                 pc, queue, event, targets, seen, recipients, reg, number, result>>

\* The third read, which the verdict is taken from.
RepairDone(w) ==
  /\ pc[w] = "repair"
  /\ todo[w] = {}
  /\ seen' = [seen EXCEPT ![w] = [r \in Regs |-> Latest(event[w], r)]]
  /\ recipients' = [recipients EXCEPT ![w] = IF IsSos(event[w]) THEN Guardians ELSE {}]
  /\ pc' = [pc EXCEPT ![w] = "reconcile"]
  /\ UNCHANGED <<store, world, faults,
                 queue, event, targets, todo, reg, number, result>>

Related(w, g) == {r \in Regs : Owner[r] = g /\ seen[w][r].outcome # "none"}

\* Mutants: an ambiguous attempt counts as delivered; a recipient without attempts is
\* passed over.
SosDeliveryStateHopeful(w, g, old) ==
  IF \E r \in Related(w, g) : seen[w][r].outcome \in {"delivered", "ambiguous"}
  THEN "delivered" ELSE "failed"

SosDeliveryStateAttemptedOnly(w, g, old) ==
  IF Related(w, g) = {} THEN old
  ELSE IF \E r \in Related(w, g) : seen[w][r].outcome = "delivered" THEN "delivered"
  ELSE "failed"

\* #setSosDelivery for one recipient of #reconcileSosDeliveries.
SosDeliveryState(w, g, old) ==
  LET outcomes == {seen[w][r].outcome : r \in Related(w, g)}
      retrying == \E r \in Related(w, g) :
                    seen[w][r].outcome = "in_flight" \/ Waiting(seen[w][r])
  IN CASE "delivered" \in outcomes -> "delivered"
       [] "delivered" \notin outcomes /\ retrying -> old
       [] OTHER -> IF old \in {"recorded", "not_configured"} THEN "failed" ELSE old

Reconcile(w) ==
  /\ pc[w] = "reconcile"
  /\ \E g \in recipients[w] :
       /\ recipients' = [recipients EXCEPT ![w] = @ \ {g}]
       /\ delivery' = [delivery EXCEPT ![event[w]][g] = SosDeliveryState(w, g, @)]
  /\ UNCHANGED <<status, available, aged, outcome, due, world, faults,
                 pc, queue, event, targets, todo, seen, reg, number, result>>

ReconcileDone(w) ==
  /\ pc[w] = "reconcile"
  /\ recipients[w] = {}
  /\ pc' = [pc EXCEPT ![w] = "decide"]
  /\ UNCHANGED <<store, world, faults,
                 queue, event, targets, todo, seen, recipients, reg, number, result>>

RetriesPending(w) == \E r \in Regs : Waiting(seen[w][r])

\* #scheduleRetry: only the row still leased goes back to pending. When the lease
\* is gone, or no retry is left to wait for, the statement raises and the worker
\* lets go of the event.
ScheduleRetry(w) ==
  /\ pc[w] = "decide"
  /\ RetriesPending(w)
  /\ LET e == event[w] IN
       IF status[e] = "processing" /\ \E r \in Regs : Waiting(Latest(e, r))
       THEN /\ status' = [status EXCEPT ![e] = "pending"]
            /\ aged' = [aged EXCEPT ![e] = FALSE]
            /\ available' = [available EXCEPT ![e] =
                 \E r \in Regs : Waiting(Latest(e, r)) /\ due[e][r]]
       ELSE UNCHANGED <<status, aged, available>>
  /\ pc' = [pc EXCEPT ![w] = "next"]
  /\ UNCHANGED <<outcome, due, delivery, world, faults,
                 queue, event, targets, todo, seen, recipients, reg, number, result>>

Count(w, outcomes) == Cardinality({r \in Regs : seen[w][r].outcome \in outcomes})

\* The verdict of an event with no retry to wait for; for an SOS it is read from
\* the delivery rows, for the others from the attempts.
Verdict(w) ==
  LET e == event[w] IN
  IF IsSos(e)
  THEN IF Guardians # {} /\ \A g \in Guardians : delivery[e][g] = "delivered"
       THEN "delivered" ELSE "failed"
  ELSE IF targets[w] = {} /\ Count(w, Outcomes) = 0
  THEN "skipped"
  ELSE IF Count(w, {"permanent_failure", "ambiguous"}) > 0 \/ Count(w, {"delivered"}) = 0
  THEN "failed" ELSE "delivered"

\* Mutant: a waiting retry does not keep the event open.
DecideNow(w) ==
  /\ pc[w] = "decide"
  /\ FinishWith(w, Verdict(w))
  /\ UNCHANGED <<store, world, faults,
                 queue, event, targets, todo, seen, recipients, reg, number>>

Decide(w) ==
  /\ pc[w] = "decide"
  /\ ~RetriesPending(w)
  /\ FinishWith(w, Verdict(w))
  /\ UNCHANGED <<store, world, faults,
                 queue, event, targets, todo, seen, recipients, reg, number>>

\* Mutant: the closing UPDATE does not look at the status.
CloseAnyway(e, verdict) ==
  /\ status' = [status EXCEPT ![e] = verdict]
  /\ aged' = [aged EXCEPT ![e] = FALSE]

\* #finish: UPDATE ... WHERE id = $1 AND status = 'processing'.
Close(e, verdict) ==
  /\ status' = [status EXCEPT ![e] = IF @ = "processing" THEN verdict ELSE @]
  /\ aged' = [aged EXCEPT ![e] = FALSE]

\* The closing UPDATE of #dispatchInner, or the one in the catch of #dispatch.
Finish(w) ==
  /\ pc[w] \in {"finish", "giveUp"}
  /\ Close(event[w], IF pc[w] = "giveUp" THEN "failed" ELSE result[w])
  /\ pc' = [pc EXCEPT ![w] = "next"]
  /\ UNCHANGED <<available, outcome, due, delivery, world, faults,
                 queue, event, targets, todo, seen, recipients, reg, number, result>>

-----------------------------------------------------------------------------
(* Failures.                                                               *)

Fault == faults < MaxFaults /\ faults' = faults + 1

\* The statements that write or read attempt evidence; "send" stands for an
\* INSERT that took effect and whose answer was lost.
EvidenceSteps == {"visit", "send", "complete", "reread", "repair", "reconcile", "decide"}

\* preserveLease: a statement on the evidence fails; the event stays leased.
LoseStatement(w) ==
  /\ Fault
  /\ pc[w] \in EvidenceSteps
  /\ pc' = [pc EXCEPT ![w] = "next"]
  /\ UNCHANGED <<store, world,
                 queue, event, targets, todo, seen, recipients, reg, number, result>>

\* clientFactory() rejects before the try block of an evidence helper, or a
\* statement outside the evidence fails: #dispatch goes on to #finish(failed).
LoseConnection(w) ==
  /\ Fault
  /\ pc[w] \in {"unavailable", "read", "attempts", "finish"} \cup (EvidenceSteps \ {"send"})
  /\ pc' = [pc EXCEPT ![w] = "giveUp"]
  /\ UNCHANGED <<store, world,
                 queue, event, targets, todo, seen, recipients, reg, number, result>>

\* The #finish of the catch block fails too; the error is swallowed.
LoseGiveUp(w) ==
  /\ Fault
  /\ pc[w] = "giveUp"
  /\ pc' = [pc EXCEPT ![w] = "next"]
  /\ UNCHANGED <<store, world,
                 queue, event, targets, todo, seen, recipients, reg, number, result>>

\* The process of a worker ends: its batch stays leased until the lease ages.
Crash(w) ==
  /\ Fault
  /\ pc[w] # "idle"
  /\ pc' = [pc EXCEPT ![w] = "next"]
  /\ queue' = [queue EXCEPT ![w] = {}]
  /\ UNCHANGED <<store, world,
                 event, targets, todo, seen, recipients, reg, number, result>>

\* A deployment starts the server with, or without, the FCM settings.
Reconfigure ==
  /\ Fault
  /\ \A w \in Workers : pc[w] = "idle"
  /\ sender' = ~sender
  /\ UNCHANGED <<store, registration, subject, accepted, local>>

-----------------------------------------------------------------------------
(* Guardians, time.                                                        *)

LeaseAges(e) ==
  /\ status[e] = "processing"
  /\ ~aged[e]
  /\ aged' = [aged EXCEPT ![e] = TRUE]
  /\ UNCHANGED <<status, available, outcome, due, delivery, world, local, faults>>

RetryFallsDue(e, r) ==
  /\ Waiting(Latest(e, r))
  /\ ~due[e][r]
  /\ due' = [due EXCEPT ![e][r] = TRUE]
  /\ UNCHANGED <<status, available, aged, outcome, delivery, world, local, faults>>

\* available_at is the earliest retry_after_at there was when it was scheduled.
EventFallsAvailable(e) ==
  /\ status[e] = "pending"
  /\ ~available[e]
  /\ \/ \E r \in Regs : Waiting(Latest(e, r)) /\ due[e][r]
     \/ \A r \in Regs : ~Waiting(Latest(e, r))
  /\ available' = [available EXCEPT ![e] = TRUE]
  /\ UNCHANGED <<status, aged, outcome, due, delivery, world, local, faults>>

\* A guardian registers or removes a handset, changes a preference, joins or leaves.
RegistrationChanges(r) ==
  /\ registration[r] # "deleted"
  /\ \E s \in RegistrationStates \ {registration[r]} :
       registration' = [registration EXCEPT ![r] = s]
  /\ UNCHANGED <<store, subject, sender, accepted, local, faults>>

\* removeFamilyChild archives the child the event is about.
SubjectLeaves(e) ==
  /\ subject[e]
  /\ subject' = [subject EXCEPT ![e] = FALSE]
  /\ UNCHANGED <<store, registration, sender, accepted, local, faults>>

-----------------------------------------------------------------------------
WorkerStep(w) ==
  \/ Claim(w)
  \/ NextEvent(w)
  \/ Classify(w)
  \/ MarkSosUnavailable(w)
  \/ ReadTargets(w)
  \/ ReadAttempts(w)
  \/ Visit(w)
  \/ VisitDone(w)
  \/ Send(w)
  \/ Complete(w)
  \/ Unregister(w)
  \/ Reread(w)
  \/ Repair(w)
  \/ RepairDone(w)
  \/ Reconcile(w)
  \/ ReconcileDone(w)
  \/ ScheduleRetry(w)
  \/ Decide(w)
  \/ Finish(w)

WorkerFails(w) == LoseStatement(w) \/ LoseConnection(w) \/ LoseGiveUp(w) \/ Crash(w)

TimePasses(e) ==
  \/ LeaseAges(e)
  \/ EventFallsAvailable(e)
  \/ \E r \in Regs : RetryFallsDue(e, r)

Next ==
  \/ \E w \in Workers : WorkerStep(w) \/ WorkerFails(w)
  \/ Reconfigure
  \/ \E e \in Events : TimePasses(e) \/ SubjectLeaves(e)
  \/ \E r \in Regs : RegistrationChanges(r)

Spec == Init /\ [][Next]_vars

\* A running flow is scheduled, a sweep follows every HTTP response and the retry
\* timer, and waits end.
Fairness ==
  /\ \A w \in Workers : WF_vars(WorkerStep(w))
  /\ \A e \in Events : WF_vars(TimePasses(e))

FairSpec == Spec /\ Fairness

-----------------------------------------------------------------------------
(* Properties.                                                             *)

\* Every variable keeps to its domain.
TypeOK ==
  /\ status \in [Events -> EventStatus]
  /\ available \in [Events -> BOOLEAN]
  /\ aged \in [Events -> BOOLEAN]
  /\ outcome \in [Events -> [Regs -> [AttemptNumbers -> Outcomes \cup {"none"}]]]
  /\ due \in [Events -> [Regs -> BOOLEAN]]
  /\ delivery \in [Events -> [Guardians -> DeliveryStates]]
  /\ registration \in [Regs -> RegistrationStates]
  /\ subject \in [Events -> BOOLEAN]
  /\ sender \in BOOLEAN
  /\ accepted \in [Events -> [Regs -> SUBSET AttemptNumbers]]
  /\ pc \in [Workers -> Steps]
  /\ queue \in [Workers -> SUBSET Events]
  /\ event \in [Workers -> Events \cup {None}]
  /\ targets \in [Workers -> SUBSET Regs]
  /\ todo \in [Workers -> SUBSET Regs]
  /\ seen \in [Workers -> [Regs -> Attempt]]
  /\ recipients \in [Workers -> SUBSET Guardians]
  /\ reg \in [Workers -> Regs \cup {None}]
  /\ number \in [Workers -> 0..MaxAttempts]
  /\ result \in [Workers -> Outcomes \cup Terminal \cup {"none"}]
  /\ faults \in 0..MaxFaults

\* No two nudges for one event: whatever leases are taken over, whatever crashes,
\* FCM accepts at most one send per event and registration.
AtMostOnePush ==
  \A e \in Events, r \in Regs : \A m, n \in accepted[e][r] : m = n

\* An attempt recorded as delivered was accepted by FCM.
DeliveredHasEvidence ==
  \A e \in Events, r \in Regs, n \in AttemptNumbers :
    outcome[e][r][n] = "delivered" => n \in accepted[e][r]

\* A guardian whom an SOS row calls delivered has a handset FCM accepted the alert
\* for, and an SOS event called delivered reached every recipient.
SosDeliveredIsTrue ==
  \A e \in SosEvents :
    /\ \A g \in Guardians : delivery[e][g] = "delivered" =>
         \E r \in Regs : Owner[r] = g /\ accepted[e][r] # {}
    /\ status[e] = "delivered" =>
         \A g \in Guardians : delivery[e][g] = "delivered"

\* A closed event stays closed, and a delivered row is never taken back: the late
\* statements of a worker that lost its lease change neither.
ClosedStaysClosed ==
  [][/\ \A e \in Events : status[e] \in Terminal => status'[e] = status[e]
     /\ \A e \in SosEvents, g \in Guardians :
          delivery[e][g] = "delivered" => delivery'[e][g] = "delivered"]_vars

\* No statement failed, no process ended, and one run works at a time, as where no lease ages
\* under its holder.
Calm == faults = 0 /\ \A v, w \in Workers : v = w

\* While nothing fails, a closed event whose child is still on the roster leaves no attempt in
\* flight and no retry waiting, whatever became of the registrations (the repair loop of
\* #dispatchInner, #finish).
ClosedLeavesNothingOpen ==
  Calm => \A e \in Events : status[e] \in Terminal /\ subject[e] =>
    \A r \in Regs : Latest(e, r).outcome \notin {"in_flight", "retryable_failure"}

\* While nothing fails, a closed SOS whose child is still on the roster leaves no push recipient
\* "recorded": every guardian's row says what became of the alert (#reconcileSosDeliveries).
SosRowsSettled ==
  Calm => \A e \in SosEvents \ BadEvents : status[e] \in Terminal /\ subject[e] =>
    \A g \in Guardians : delivery[e][g] # "recorded"

\* The dispatcher keeps the promises of PushLedger.
Ledger == INSTANCE PushLedger WITH
  pushes <- [e \in Events |-> [r \in Regs |-> Cardinality(accepted[e][r])]],
  evidence <- {p \in Events \X Regs :
                 \E n \in AttemptNumbers : outcome[p[1]][p[2]][n] = "delivered"},
  closed <- {e \in Events : status[e] \in Terminal}

KeepsLedger == Ledger!Spec

\* Every committed event is closed in the end.
EveryEventCloses == \A e \in Events : <>(status[e] \in Terminal)

-----------------------------------------------------------------------------
(* The inductive invariant behind AtMostOnePush and DeliveredHasEvidence.  *)

Refused == {"retryable_failure", "permanent_failure"}
Sending(w) == pc[w] \in {"send", "complete"}

\* A worker that is dispatching has an event, one that is sending an attempt too,
\* one that is closing an event a verdict.
LocalsSet ==
  \A w \in Workers :
    /\ pc[w] \notin {"idle", "next"} => event[w] \in Events
    /\ pc[w] \in {"send", "complete", "unregister"} =>
         reg[w] \in Regs /\ number[w] \in AttemptNumbers
    /\ pc[w] = "finish" => result[w] \in Terminal

\* Attempts are numbered in order, each after a clear refusal of the one before.
OnlyAfterRefusal ==
  \A e \in Events, r \in Regs, m, n \in AttemptNumbers :
    m < n /\ outcome[e][r][n] # "none" => outcome[e][r][m] \in Refused

\* What FCM took is never recorded as refused.
AcceptedNotRefused ==
  \A e \in Events, r \in Regs, n \in AttemptNumbers :
    n \in accepted[e][r] => outcome[e][r][n] \in {"in_flight", "delivered", "ambiguous"}

\* An attempt on its way is in flight, or written off by another worker; its answer
\* tells the truth.
SendingIsOpen ==
  \A w \in Workers : Sending(w) =>
    LET e == event[w]
        r == reg[w]
        n == number[w]
    IN /\ outcome[e][r][n] \in {"in_flight", "ambiguous"}
       /\ pc[w] = "send" => n \notin accepted[e][r]
       /\ pc[w] = "complete" =>
            /\ result[w] \in Outcomes \ {"in_flight"}
            /\ result[w] = "delivered" => n \in accepted[e][r]
            /\ n \in accepted[e][r] => result[w] \in {"delivered", "ambiguous"}

\* An attempt has one sender.
OneSender ==
  \A v, w \in Workers :
    Sending(v) /\ Sending(w) /\ event[v] = event[w] /\ reg[v] = reg[w]
      /\ number[v] = number[w] => v = w

\* A snapshot ages, but what it saw refused is still refused.
SnapshotsHold ==
  \A w \in Workers, r \in Regs :
    /\ seen[w][r].outcome = "none" => seen[w][r].n = 0
    /\ seen[w][r].outcome = "retryable_failure" =>
         /\ event[w] \in Events
         /\ seen[w][r].n \in AttemptNumbers
         /\ outcome[event[w]][r][seen[w][r].n] \in Refused

PushInv ==
  /\ TypeOK
  /\ LocalsSet
  /\ OnlyAfterRefusal
  /\ AcceptedNotRefused
  /\ DeliveredHasEvidence
  /\ SendingIsOpen
  /\ OneSender
  /\ SnapshotsHold

=============================================================================
