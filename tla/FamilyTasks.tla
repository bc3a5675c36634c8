----------------------------- MODULE FamilyTasks -----------------------------
(***************************************************************************)
(* The tasks of one child, as tasks.js keeps them: the child claims, a     *)
(* guardian confirms or declines, and points are entries of a ledger that  *)
(* is only appended to.  A press of a button is one Idempotency-Key, sent  *)
(* again when its answer is lost.                                          *)
(***************************************************************************)
EXTENDS FamilyCircle, FiniteSetsExt

CONSTANTS Kid,
          Presses,
          MaxTasks, MaxClaims,  \* bounds: rows
          MaxPoints,            \* bound: TASK_POINTS_MAX
          OpenCeiling,          \* MAX_OPEN_TASKS_PER_CHILD
          PointsCeiling         \* CHILD_POINTS_CEILING

ASSUME TaskAssumption ==
  /\ {MaxTasks, MaxClaims, MaxPoints, OpenCeiling, PointsCeiling} \subseteq Nat
  /\ Kid \in Kids /\ 0 \notin Presses

VARIABLES
  task,     \* family_tasks: its points and whether it has an audience
  claim,    \* family_task_claims
  ledger,   \* family_point_ledger: an entry per claim, with the press that made it
  press,    \* what a press asks for, and its stored answer
  errand    \* errand[t]: a transaction

taskRows == <<task, claim, ledger>>
taskVars == <<minute, hold, circle, taskRows, press, errand>>

TaskIds == 1..MaxTasks
ClaimIds == 1..MaxClaims
NoTask == [points |-> 0, audience |-> FALSE]
NoClaim == [task |-> 0, status |-> "none"]
NoEntry == [points |-> 0, press |-> 0]
Unsent == [asks |-> "nothing", task |-> 0, by |-> Kid, done |-> FALSE]
Home == [step |-> "home", press |-> 0, task |-> 0, claim |-> 0, row |-> NoTask]

TasksInit ==
  /\ minute = 0 /\ hold = {} /\ CircleInit
  /\ task = [i \in TaskIds |-> NoTask]
  /\ claim = [c \in ClaimIds |-> NoClaim]
  /\ ledger = [c \in ClaimIds |-> NoEntry]
  /\ press = [p \in Presses |-> Unsent]
  /\ errand = [t \in Txns |-> Home]

Does(t, step) == errand[t].step = step
Returns(t) == /\ Releases(t)
              /\ errand' = [errand EXCEPT ![t] = Home]
\* completeIdempotencySlot and the commit.
Answers(t) == /\ press' = [press EXCEPT ![errand[t].press].done = TRUE]
              /\ Returns(t)

OpenTasks == {i \in TaskIds : task[i] # NoTask}
WaitingClaims(i) == {c \in ClaimIds : claim[c].task = i /\ claim[c].status = "pending"}
\* pointsFromEntries.
Balance == MapThenSumSet(LAMBDA c : ledger[c].points, ClaimIds)

\* A refusal, an error, or a server that stopped: the slot is given back as well.
TaskRollback(t) ==
  /\ ~Does(t, "home")
  /\ Returns(t)
  /\ UNCHANGED <<minute, circle, taskRows, press>>

-----------------------------------------------------------------------------
(* What a press asks for is fixed when it is first sent: a guardian states *)
(* a task, the handset or a guardian claims one, a guardian decides.       *)

Asks(p) ==
  IF press[p] # Unsent THEN {press[p]}
  ELSE [asks : {"create"}, task : {0}, by : Guardians, done : {FALSE}]
       \cup [asks : {"claim"}, task : OpenTasks, by : Guardians \cup {Kid}, done : {FALSE}]
       \cup [asks : {"confirm", "decline"}, task : OpenTasks, by : Guardians, done : {FALSE}]

\* Mutant of PressSent: the slot does not outlive the answer.
PressSentAgain(t, p) ==
  /\ Does(t, "home")
  /\ Obtainable(t, <<"slot", p>>)
  /\ \E request \in Asks(p) :
       /\ press' = [press EXCEPT ![p] = request]
       /\ errand' = [errand EXCEPT ![t] = [Home EXCEPT !.step = request.asks, !.press = p, !.task = request.task]]
  /\ Takes(t, {<<"slot", p>>})
  /\ UNCHANGED <<minute, circle, taskRows>>

\* acquireIdempotencySlot: a press that was answered gets that answer again; one that is under
\* way elsewhere is waited for.
PressSent(t, p) ==
  /\ Does(t, "home")
  /\ Obtainable(t, <<"slot", p>>) /\ ~press[p].done
  /\ \E request \in Asks(p) :
       /\ press' = [press EXCEPT ![p] = request]
       /\ errand' = [errand EXCEPT ![t] = [Home EXCEPT !.step = request.asks, !.press = p, !.task = request.task]]
  /\ Takes(t, {<<"slot", p>>})
  /\ UNCHANGED <<minute, circle, taskRows>>

\* createFamilyTask: the audience holds its author and the child; the open tasks are counted.
TaskCounted(t) ==
  /\ Does(t, "create")
  /\ Cardinality(OpenTasks) < OpenCeiling
  /\ \E points \in 1..MaxPoints, audience \in BOOLEAN :
       /\ Included(audience, {press[errand[t].press].by, Kid})
       /\ errand' = [errand EXCEPT ![t].step = "insert", ![t].row = [points |-> points, audience |-> audience]]
  /\ UNCHANGED <<minute, hold, circle, taskRows, press>>

\* insertTask.
TaskInserted(row) == [task EXCEPT ![CHOOSE i \in TaskIds : task[i] = NoTask] = row]

TaskStated(t) ==
  /\ Does(t, "insert") /\ OpenTasks # TaskIds
  /\ task' = TaskInserted(errand[t].row)
  /\ Answers(t)
  /\ UNCHANGED <<minute, circle, claim, ledger>>

\* Mutant of TaskFound: the row is read without FOR UPDATE.
TaskSeen(t) ==
  LET i == errand[t].task
  IN /\ errand[t].step \in {"claim", "confirm", "decline"}
     /\ Included(task[i].audience, {press[errand[t].press].by, Kid})
     /\ IF Does(t, "claim") THEN WaitingClaims(i) = {} ELSE WaitingClaims(i) # {}
     /\ errand' = [errand EXCEPT ![t].step = IF Does(t, "claim") THEN "claiming" ELSE "deciding"]
     /\ UNCHANGED <<minute, hold, circle, taskRows, press>>

\* readTask FOR UPDATE, requireTaskThreadMember, readPendingClaim: a claim where one waits is
\* refused, a decision where none waits.
TaskFound(t) ==
  LET i == errand[t].task
  IN /\ errand[t].step \in {"claim", "confirm", "decline"}
     /\ Obtainable(t, <<"task", i>>)
     /\ Included(task[i].audience, {press[errand[t].press].by, Kid})
     /\ IF Does(t, "claim") THEN WaitingClaims(i) = {} ELSE WaitingClaims(i) # {}
     /\ Takes(t, {<<"task", i>>})
     /\ errand' = [errand EXCEPT ![t].step = IF Does(t, "claim") THEN "claiming" ELSE "deciding"]
     /\ UNCHANGED <<minute, circle, taskRows, press>>

\* insertClaim.
ClaimInserted(i) ==
  [claim EXCEPT ![CHOOSE c \in ClaimIds : claim[c] = NoClaim] = [task |-> i, status |-> "pending"]]
\* decideClaim.
ClaimDecided(c, status) == [claim EXCEPT ![c].status = status]
\* insertLedgerEntry.
EntryInserted(c, points, p) == [ledger EXCEPT ![c] = [points |-> points, press |-> p]]

\* A unique index refuses a second claim that waits.
Claimed(t) ==
  /\ Does(t, "claiming") /\ WaitingClaims(errand[t].task) = {}
  /\ \E c \in ClaimIds : claim[c] = NoClaim
  /\ claim' = ClaimInserted(errand[t].task)
  /\ Answers(t)
  /\ UNCHANGED <<minute, circle, task, ledger>>

\* decideClaim, insertLedgerEntry and readLedger of what is committed and of its own entry.
Judged(t) ==
  /\ Does(t, "deciding")
  /\ \E c \in WaitingClaims(errand[t].task) :
       /\ press[errand[t].press].asks = "confirm" => Balance + task[errand[t].task].points <= PointsCeiling
       /\ errand' = [errand EXCEPT ![t].step = "judged", ![t].claim = c]
  /\ UNCHANGED <<minute, hold, circle, taskRows, press>>

\* The commit: the claim is decided and, where it is confirmed, the points of the task stand.
Rewarded(t) ==
  LET c == errand[t].claim
  IN /\ Does(t, "judged") /\ claim[c].status = "pending"
     /\ IF press[errand[t].press].asks = "confirm"
        THEN /\ claim' = ClaimDecided(c, "confirmed")
             /\ ledger' = EntryInserted(c, task[errand[t].task].points, errand[t].press)
        ELSE /\ claim' = ClaimDecided(c, "declined")
             /\ ledger' = ledger
     /\ Answers(t)
     /\ UNCHANGED <<minute, circle, task>>

TaskWork(t) ==
  \/ \E p \in Presses : PressSent(t, p)
  \/ TaskCounted(t) \/ TaskStated(t) \/ TaskFound(t) \/ Claimed(t) \/ Judged(t) \/ Rewarded(t)
  \/ TaskRollback(t)

TasksNext ==
  \/ CircleTurns /\ UNCHANGED <<minute, hold, taskRows, press, errand>>
  \/ \E t \in Txns : TaskWork(t)

TasksSpec == TasksInit /\ [][TasksNext]_taskVars

-----------------------------------------------------------------------------
(* Properties.                                                             *)

\* One press confirms one claim, however often it is sent and whatever was claimed since: its
\* points are those the task names, and every confirmed claim has them.
OnePressOneAward ==
  \A c \in ClaimIds :
    /\ claim[c].status = "confirmed" <=> ledger[c] # NoEntry
    /\ ledger[c] # NoEntry =>
         /\ ledger[c].points = task[claim[c].task].points
         /\ \A other \in ClaimIds \ {c} : ledger[other].press # ledger[c].press

\* A task is claimed once at a time: two claims sent together are one claim and one refusal,
\* none of them meets the other in the unique index.
OneClaimWaits ==
  \A t \in Txns : Does(t, "claiming") =>
    /\ WaitingClaims(errand[t].task) = {}
    /\ \A u \in Txns \ {t} : Does(u, "claiming") => errand[u].task # errand[t].task
=============================================================================
