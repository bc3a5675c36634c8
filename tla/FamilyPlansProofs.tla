--------------------------- MODULE FamilyPlansProofs ---------------------------
(***************************************************************************)
(* What a family plans, for any number of guardians, children, tasks,      *)
(* claims, presses and transactions.                                       *)
(*                                                                         *)
(* Tasks: one press awards one claim, and a task is claimed once at a      *)
(* time.  Both follow from TaskInv: whoever works for a press holds its    *)
(* slot and the press is not answered; whoever claims or decides holds the *)
(* row of the task.                                                        *)
(*                                                                         *)
(* The calendar: what children answered and guardians recorded of an event *)
(* stands, and an event is changed as its author read it.  Both follow     *)
(* from the row of the event, which a change holds from its first read on, *)
(* and from what a version identifies: one event with one audience.        *)
(***************************************************************************)
EXTENDS FamilyTasks, FamilyCalendar, TLAPS

-----------------------------------------------------------------------------
(* Tasks and points.                                                       *)

Slots == {"slot"} \X Presses
TaskRows == {"task"} \X TaskIds
Steps == {"home", "create", "insert", "claim", "confirm", "decline", "claiming", "deciding", "judged"}

Errands == [step : Steps, press : Presses \cup {0}, task : TaskIds \cup {0},
            claim : ClaimIds \cup {0}, row : [points : 0..MaxPoints, audience : BOOLEAN]]
Requests == [asks : {"nothing", "create", "claim", "confirm", "decline"},
             task : TaskIds \cup {0}, by : Guardians \cup {Kid}, done : BOOLEAN]

TaskTypes ==
  /\ task \in [TaskIds -> [points : 0..MaxPoints, audience : BOOLEAN]]
  /\ claim \in [ClaimIds -> [task : TaskIds \cup {0}, status : {"none", "pending", "confirmed", "declined"}]]
  /\ ledger \in [ClaimIds -> [points : 0..MaxPoints, press : Presses \cup {0}]]
  /\ press \in [Presses -> Requests]
  /\ errand \in [Txns -> Errands]

\* No two transactions hold one row.
Alone ==
  \A row \in Slots \cup TaskRows, t \in Txns, u \in Txns :
    <<row, t>> \in hold /\ <<row, u>> \in hold => t = u

\* What a transaction at work holds, and what it knows.
Works(t) ==
  LET e == errand[t]
  IN e.step # "home" =>
       /\ e.press \in Presses /\ <<<<"slot", e.press>>, t>> \in hold
       /\ press[e.press] # Unsent /\ ~press[e.press].done
       /\ e.step = "insert" => e.row.points # 0
       /\ e.step \notin {"create", "insert"} => e.task \in TaskIds /\ task[e.task] # NoTask
       /\ e.step \in {"claiming", "deciding", "judged"} => <<<<"task", e.task>>, t>> \in hold
       /\ e.step = "claiming" => WaitingClaims(e.task) = {}
       /\ e.step = "judged" => e.claim \in ClaimIds /\ claim[e.claim].task = e.task

AllWork == \A t \in Txns : Works(t)

\* A press that was sent asks for something, and names a task that is stated.
Pressed ==
  \A p \in Presses : press[p] # Unsent =>
    /\ press[p].asks # "nothing"
    /\ press[p].asks # "create" => press[p].task \in TaskIds /\ task[press[p].task] # NoTask

\* What the rows say of each other.
PointsStated == \A i \in TaskIds : task[i] # NoTask => task[i].points # 0
Claims == \A c \in ClaimIds : claim[c] # NoClaim => claim[c].task \in TaskIds /\ task[claim[c].task] # NoTask
Entries ==
  \A c \in ClaimIds :
    /\ claim[c].status = "confirmed" <=> ledger[c] # NoEntry
    /\ ledger[c] # NoEntry =>
         /\ ledger[c].press \in Presses /\ press[ledger[c].press].done
         /\ ledger[c].points = task[claim[c].task].points
         /\ \A other \in ClaimIds \ {c} : ledger[other].press # ledger[c].press

TaskInv == TaskTypes /\ Alone /\ AllWork /\ Pressed /\ PointsStated /\ Claims /\ Entries

LEMMA HomeTypes ==
  /\ NoTask \in [points : 0..MaxPoints, audience : BOOLEAN]
  /\ Home \in Errands
<1>1. MaxPoints \in Nat
  BY TaskAssumption
<1> QED BY <1>1 DEF Home, NoTask, Steps, Errands

LEMMA ErrandChanges ==
  ASSUME NEW e \in Errands, NEW step \in Steps
  PROVE  /\ [e EXCEPT !.step = step] \in Errands
         /\ \A c \in ClaimIds : [e EXCEPT !.step = step, !.claim = c] \in Errands
         /\ \A row \in [points : 0..MaxPoints, audience : BOOLEAN] :
              [e EXCEPT !.step = step, !.row = row] \in Errands
BY DEF Errands

LEMMA Answered ==
  ASSUME TaskTypes, NEW p \in Presses, press' = [press EXCEPT ![p].done = TRUE]
  PROVE  press' \in [Presses -> Requests]
BY DEF TaskTypes, Requests

-----------------------------------------------------------------------------
(* What a step leaves alone.                                               *)

\* A transaction goes on through a step that leaves it what it holds, the presses and the
\* tasks it may read, and adds no claim that waits on a task it holds.
LEMMA WorksOn ==
  ASSUME TaskTypes, NEW u \in Txns, Works(u), errand'[u] = errand[u],
         \A row \in Slots \cup TaskRows : <<row, u>> \in hold => <<row, u>> \in hold',
         \A p \in Presses : <<<<"slot", p>>, u>> \in hold => press'[p] = press[p],
         \A i \in TaskIds : task[i] # NoTask => task'[i] = task[i],
         \A c \in ClaimIds : claim[c].task \in TaskIds => claim'[c].task = claim[c].task,
         \A i \in TaskIds : <<<<"task", i>>, u>> \in hold /\ WaitingClaims(i) = {} => WaitingClaims(i)' = {}
  PROVE  Works(u)'
<1> DEFINE e == errand[u]
<1> SUFFICES ASSUME e.step # "home" PROVE Works(u)'
  BY DEF Works
<1>1. /\ e.press \in Presses /\ <<"slot", e.press>> \in Slots
      /\ e.step \in Steps
  BY DEF Works, Slots, TaskTypes, Errands
<1>2. <<<<"slot", e.press>>, u>> \in hold' /\ press'[e.press] # Unsent /\ ~press'[e.press].done
  BY <1>1 DEF Works
<1>3. e.step \notin {"create", "insert"} => e.task \in TaskIds /\ task'[e.task] # NoTask
  BY DEF Works
<1>4. e.step \in {"claiming", "deciding", "judged"} => <<<<"task", e.task>>, u>> \in hold'
  BY <1>3 DEF Works, TaskRows
<1>5. e.step = "claiming" => WaitingClaims(e.task)' = {}
  BY <1>3 DEF Works
<1>6. e.step = "judged" => e.claim \in ClaimIds /\ claim'[e.claim].task = e.task
  BY <1>3 DEF Works
<1> QED BY <1>1, <1>2, <1>3, <1>4, <1>5, <1>6 DEF Works

\* Rows change hands as the transactions say.
LEMMA TakesAlone ==
  ASSUME Alone, NEW t \in Txns, NEW row \in Slots \cup TaskRows, Obtainable(t, row), Takes(t, {row})
  PROVE  /\ Alone' /\ <<row, t>> \in hold'
         /\ \A u \in Txns, r \in Slots \cup TaskRows : <<r, u>> \in hold => <<r, u>> \in hold'
         /\ \A u \in Txns \ {t} : <<row, u>> \notin hold
<1>1. hold' = hold \cup {<<row, t>>}
  BY DEF Takes
<1>2. \A u \in Txns : <<row, u>> \in hold => u = t
  BY DEF Obtainable
<1> QED BY <1>1, <1>2 DEF Alone

LEMMA ReleasesAlone ==
  ASSUME Alone, NEW t \in Txns, Releases(t)
  PROVE  /\ Alone'
         /\ \A u \in Txns \ {t}, r \in Slots \cup TaskRows : <<r, u>> \in hold => <<r, u>> \in hold'
BY DEF Alone, Releases

\* Rows of tasks, claims, presses and entries that stay leave what they say of each other.
LEMMA RowsStay ==
  ASSUME PointsStated, Claims, Entries, UNCHANGED <<task, claim, ledger>>,
         TaskTypes, \A p \in Presses : press[p].done => press'[p].done
  PROVE  PointsStated' /\ Claims' /\ Entries'
BY DEF PointsStated, Claims, Entries, TaskTypes

-----------------------------------------------------------------------------
(* The steps.                                                              *)

LEMMA PressSentKeeps ==
  ASSUME TaskInv, NEW t \in Txns, NEW p \in Presses, PressSent(t, p)
  PROVE  TaskInv'
<1> USE DEF TaskInv
<1> DEFINE slot == <<"slot", p>>
<1>1. PICK request \in Asks(p) :
        /\ press' = [press EXCEPT ![p] = request]
        /\ errand' = [errand EXCEPT ![t] = [Home EXCEPT !.step = request.asks, !.press = p, !.task = request.task]]
  BY DEF PressSent
<1>2. slot \in Slots \cup TaskRows /\ Obtainable(t, slot) /\ Takes(t, {slot})
  BY DEF PressSent, Slots
<1>3. /\ Alone' /\ <<slot, t>> \in hold'
      /\ \A u \in Txns, r \in Slots \cup TaskRows : <<r, u>> \in hold => <<r, u>> \in hold'
      /\ \A u \in Txns \ {t} : <<slot, u>> \notin hold
  BY <1>2, TakesAlone
<1>4. /\ request \in Requests
      /\ ~request.done /\ request.asks # "nothing"
      /\ request.asks # "create" => request.task \in TaskIds /\ task[request.task] # NoTask
  <2>1. CASE press[p] # Unsent
    BY <2>1, request = press[p] DEF Asks, TaskTypes, PressSent, Pressed
  <2>2. CASE press[p] = Unsent
    BY <2>2 DEF Asks, OpenTasks, Requests
  <2> QED BY <2>1, <2>2
<1>5. TaskTypes'
  <2>1. errand'[t] = [Home EXCEPT !.step = request.asks, !.press = p, !.task = request.task]
    BY <1>1 DEF TaskTypes
  <2>2. errand'[t] \in Errands
    <3>1. request.asks \in Steps /\ request.task \in TaskIds \cup {0}
      BY <1>4 DEF Steps, Requests
    <3> QED BY <2>1, <3>1, HomeTypes DEF Home, Errands
  <2> QED BY <1>1, <1>4, <2>2 DEF TaskTypes, PressSent, taskRows
<1>6. Pressed'
  BY <1>1, <1>4 DEF Pressed, PressSent, taskRows, TaskTypes
<1>7. PointsStated' /\ Claims' /\ Entries'
  BY <1>1, RowsStay DEF PressSent, taskRows, TaskTypes
<1>8. ASSUME NEW u \in Txns PROVE Works(u)'
  <2>1. CASE u = t
    <3>1. errand'[t] = [Home EXCEPT !.step = request.asks, !.press = p, !.task = request.task]
      BY <1>1 DEF TaskTypes
    <3>2. press'[p] # Unsent /\ ~press'[p].done
      BY <1>1, <1>4 DEF TaskTypes, Unsent
    <3>3. /\ errand'[t].step = request.asks /\ errand'[t].press = p /\ errand'[t].task = request.task
          /\ request.asks \in {"create", "claim", "confirm", "decline"} /\ task' = task
      BY <3>1, <1>4 DEF Home, PressSent, taskRows, Requests
    <3> QED BY <2>1, <3>2, <3>3, <1>3, <1>4 DEF Works
  <2>2. CASE u # t
    <3>1. errand'[u] = errand[u] /\ UNCHANGED <<task, claim>>
      BY <1>1, <2>2 DEF TaskTypes, PressSent, taskRows
    <3>2. \A q \in Presses : <<<<"slot", q>>, u>> \in hold => press'[q] = press[q]
      BY <1>1, <1>3, <2>2 DEF TaskTypes
    <3> QED BY <3>1, <3>2, <1>3, WorksOn DEF AllWork, WaitingClaims
  <2> QED BY <2>1, <2>2
<1> QED BY <1>3, <1>5, <1>6, <1>7, <1>8 DEF AllWork

\* The rest of the steps leave what the presses ask for.
LEMMA PressStays ==
  ASSUME Pressed, TaskTypes, \A i \in TaskIds : task[i] # NoTask => task'[i] = task[i],
         \/ UNCHANGED press
         \/ \E p \in Presses : press[p] # Unsent /\ press' = [press EXCEPT ![p].done = TRUE]
  PROVE  Pressed'
<1>1. CASE UNCHANGED press
  BY <1>1 DEF Pressed
<1>2. ASSUME NEW p \in Presses, press[p] # Unsent, press' = [press EXCEPT ![p].done = TRUE]
      PROVE  Pressed'
  <2>1. ASSUME NEW q \in Presses
        PROVE  /\ press'[q] # Unsent => press[q] # Unsent
               /\ press'[q].asks = press[q].asks /\ press'[q].task = press[q].task
    BY <1>2 DEF TaskTypes
  <2> QED BY <2>1 DEF Pressed
<1> QED BY <1>1, <1>2

\* A transaction that ends leaves the others what they hold; an answered press is its own.
LEMMA EndsWell ==
  ASSUME TaskTypes, Alone, AllWork, NEW t \in Txns, Returns(t),
         \/ UNCHANGED press
         \/ ~Does(t, "home") /\ press' = [press EXCEPT ![errand[t].press].done = TRUE],
         \A i \in TaskIds : task[i] # NoTask => task'[i] = task[i],
         \A c \in ClaimIds : claim[c].task \in TaskIds => claim'[c].task = claim[c].task,
         \A u \in Txns \ {t}, i \in TaskIds :
           <<<<"task", i>>, u>> \in hold /\ WaitingClaims(i) = {} => WaitingClaims(i)' = {}
  PROVE  /\ Alone' /\ AllWork'
         /\ errand' \in [Txns -> Errands]
<1>1. /\ Alone' /\ errand' = [errand EXCEPT ![t] = Home]
      /\ \A u \in Txns \ {t}, r \in Slots \cup TaskRows : <<r, u>> \in hold => <<r, u>> \in hold'
  BY ReleasesAlone DEF Returns
<1>2. ASSUME NEW u \in Txns PROVE Works(u)'
  <2>1. CASE u = t
    BY <2>1, <1>1 DEF Works, TaskTypes, Home
  <2>2. CASE u # t
    <3>1. ASSUME NEW q \in Presses, <<<<"slot", q>>, u>> \in hold PROVE press'[q] = press[q]
      <4>1. CASE ~Does(t, "home") /\ press' = [press EXCEPT ![errand[t].press].done = TRUE]
        <5>1. errand[t].press \in Presses /\ <<<<"slot", errand[t].press>>, t>> \in hold
          BY <4>1 DEF AllWork, Works, Does
        <5>2. errand[t].press # q
          BY <5>1, <3>1, <2>2 DEF Alone, Slots
        <5> QED BY <4>1, <5>1, <5>2 DEF TaskTypes
      <4> QED BY <4>1
    <3>2. errand'[u] = errand[u]
      BY <1>1, <2>2 DEF TaskTypes
    <3> QED BY <3>1, <3>2, <1>1, <2>2, WorksOn DEF AllWork
  <2> QED BY <2>1, <2>2
<1>3. Home \in Errands
  BY HomeTypes
<1> QED BY <1>1, <1>2, <1>3 DEF AllWork, TaskTypes

LEMMA RollbackKeeps ==
  ASSUME TaskInv, NEW t \in Txns, TaskRollback(t)
  PROVE  TaskInv'
<1> USE DEF TaskInv
<1>1. UNCHANGED <<task, claim, ledger, press>> /\ Returns(t)
  BY DEF TaskRollback, taskRows
<1>2. Alone' /\ AllWork' /\ TaskTypes'
  BY <1>1, EndsWell DEF TaskTypes, WaitingClaims
<1>3. Pressed' /\ PointsStated' /\ Claims' /\ Entries'
  BY <1>1, PressStays, RowsStay
<1> QED BY <1>2, <1>3

LEMMA TaskCountedKeeps ==
  ASSUME TaskInv, NEW t \in Txns, TaskCounted(t)
  PROVE  TaskInv'
<1> USE DEF TaskInv
<1>1. PICK points \in 1..MaxPoints, audience \in BOOLEAN :
        errand' = [errand EXCEPT ![t].step = "insert", ![t].row = [points |-> points, audience |-> audience]]
  BY DEF TaskCounted
<1>2. UNCHANGED <<hold, task, claim, ledger, press>>
  BY DEF TaskCounted, taskRows
<1>3. MaxPoints \in Nat /\ points \in 0..MaxPoints /\ points # 0
  BY TaskAssumption
<1> DEFINE e == [errand[t] EXCEPT !.step = "insert", !.row = [points |-> points, audience |-> audience]]
<1>4. errand' = [errand EXCEPT ![t] = e] /\ e \in Errands
  BY <1>1, <1>3, ErrandChanges DEF TaskTypes, Steps
<1>5. TaskTypes'
  BY <1>2, <1>4 DEF TaskTypes
<1>6. ASSUME NEW u \in Txns PROVE Works(u)'
  <2>1. CASE u = t
    <3>1. /\ errand'[t].step = "insert" /\ errand'[t].press = errand[t].press
          /\ errand'[t].row.points # 0
      BY <1>3, <1>4 DEF TaskTypes, Errands
    <3> QED BY <2>1, <3>1, <1>2 DEF AllWork, Works, TaskCounted, Does
  <2>2. CASE u # t
    BY <2>2, <1>2, <1>4, WorksOn DEF AllWork, WaitingClaims, TaskTypes
  <2> QED BY <2>1, <2>2
<1>7. Pressed' /\ PointsStated' /\ Claims' /\ Entries' /\ Alone'
  BY <1>2, PressStays, RowsStay DEF Alone
<1> QED BY <1>5, <1>6, <1>7 DEF AllWork

LEMMA TaskStatedKeeps ==
  ASSUME TaskInv, NEW t \in Txns, TaskStated(t)
  PROVE  TaskInv'
<1> USE DEF TaskInv
<1> DEFINE n == CHOOSE i \in TaskIds : task[i] = NoTask
<1>1. n \in TaskIds /\ task[n] = NoTask
  BY DEF TaskStated, TaskInserted, OpenTasks
<1>2. /\ task' = [task EXCEPT ![n] = errand[t].row] /\ UNCHANGED <<claim, ledger>>
      /\ Does(t, "insert") /\ Returns(t)
      /\ press' = [press EXCEPT ![errand[t].press].done = TRUE]
  BY DEF TaskStated, TaskInserted, Answers
<1>3. /\ errand[t].press \in Presses /\ press[errand[t].press] # Unsent /\ errand[t].row.points # 0
      /\ errand[t].row \in [points : 0..MaxPoints, audience : BOOLEAN]
  BY <1>2 DEF AllWork, Works, Does, TaskTypes, Errands
<1>4. \A i \in TaskIds : task[i] # NoTask => task'[i] = task[i]
  BY <1>1, <1>2 DEF TaskTypes
<1>5. /\ Alone' /\ AllWork'
      /\ errand' \in [Txns -> Errands]
  BY <1>2, <1>4, EndsWell DEF WaitingClaims, Does
<1>6. TaskTypes'
  BY <1>1, <1>2, <1>3, <1>5, Answered DEF TaskTypes
<1>7. Pressed'
  BY <1>2, <1>3, <1>4, PressStays
<1>8. PointsStated'
  BY <1>1, <1>2, <1>3 DEF PointsStated, TaskTypes
<1>9. Claims'
  BY <1>2, <1>4 DEF Claims
<1>10. \A p \in Presses : press[p].done => press'[p].done
  BY <1>2, <1>3 DEF TaskTypes
<1>11. Entries'
  <2>1. \A c \in ClaimIds : ledger[c] # NoEntry => claim[c] # NoClaim
    BY DEF Entries, NoClaim
  <2> QED BY <1>2, <1>4, <1>10, <2>1 DEF Entries, Claims
<1> QED BY <1>5, <1>6, <1>7, <1>8, <1>9, <1>11

LEMMA TaskFoundKeeps ==
  ASSUME TaskInv, NEW t \in Txns, TaskFound(t)
  PROVE  TaskInv'
<1> USE DEF TaskInv
<1> DEFINE i == errand[t].task
           row == <<"task", i>>
<1>1. i \in TaskIds /\ row \in Slots \cup TaskRows
  BY DEF AllWork, Works, TaskFound, TaskRows
<1>2. /\ Obtainable(t, row) /\ Takes(t, {row})
      /\ UNCHANGED <<task, claim, ledger, press>>
      /\ errand' = [errand EXCEPT ![t].step = IF Does(t, "claim") THEN "claiming" ELSE "deciding"]
      /\ IF Does(t, "claim") THEN WaitingClaims(i) = {} ELSE WaitingClaims(i) # {}
      /\ errand[t].step \in {"claim", "confirm", "decline"}
  BY DEF TaskFound, taskRows
<1>3. /\ Alone' /\ <<row, t>> \in hold'
      /\ \A u \in Txns, r \in Slots \cup TaskRows : <<r, u>> \in hold => <<r, u>> \in hold'
  BY <1>1, <1>2, TakesAlone
<1>4. TaskTypes'
  <2>1. errand' = [errand EXCEPT ![t] = [errand[t] EXCEPT !.step = IF Does(t, "claim") THEN "claiming" ELSE "deciding"]]
    BY <1>2
  <2>2. errand[t] \in Errands
    BY DEF TaskTypes
  <2>3. [errand[t] EXCEPT !.step = IF Does(t, "claim") THEN "claiming" ELSE "deciding"] \in Errands
    BY <2>2, ErrandChanges DEF Steps
  <2> QED BY <1>2, <2>1, <2>3 DEF TaskTypes
<1>5. Pressed' /\ PointsStated' /\ Claims' /\ Entries'
  BY <1>2, PressStays, RowsStay
<1>6. ASSUME NEW u \in Txns PROVE Works(u)'
  <2>1. CASE u = t
    <3>1. errand'[t] = [errand[t] EXCEPT !.step = IF Does(t, "claim") THEN "claiming" ELSE "deciding"]
      BY <1>2 DEF TaskTypes
    <3>2. <<"slot", errand[t].press>> \in Slots \cup TaskRows
      BY <1>2 DEF AllWork, Works, Slots
    <3> QED BY <2>1, <3>1, <3>2, <1>1, <1>2, <1>3 DEF AllWork, Works, WaitingClaims
  <2>2. CASE u # t
    <3>1. errand'[u] = errand[u]
      BY <1>2, <2>2 DEF TaskTypes
    <3> QED BY <3>1, <1>2, <1>3, WorksOn DEF AllWork, WaitingClaims
  <2> QED BY <2>1, <2>2
<1> QED BY <1>3, <1>4, <1>5, <1>6 DEF AllWork

LEMMA ClaimedKeeps ==
  ASSUME TaskInv, NEW t \in Txns, Claimed(t)
  PROVE  TaskInv'
<1> USE DEF TaskInv
<1> DEFINE c == CHOOSE d \in ClaimIds : claim[d] = NoClaim
           i == errand[t].task
<1>1. c \in ClaimIds /\ claim[c] = NoClaim
  BY DEF Claimed, ClaimInserted
<1>2. /\ claim' = [claim EXCEPT ![c] = [task |-> i, status |-> "pending"]]
      /\ Does(t, "claiming") /\ Returns(t) /\ UNCHANGED <<task, ledger>>
      /\ press' = [press EXCEPT ![errand[t].press].done = TRUE]
  BY DEF Claimed, ClaimInserted, Answers
<1>3. /\ errand[t].press \in Presses /\ press[errand[t].press] # Unsent
      /\ i \in TaskIds /\ task[i] # NoTask /\ <<<<"task", i>>, t>> \in hold
  BY <1>2 DEF AllWork, Works, Does
<1>4. \A d \in ClaimIds : claim[d].task \in TaskIds => claim'[d].task = claim[d].task
  BY <1>1, <1>2 DEF TaskTypes, NoClaim, TaskIds
<1>5. ASSUME NEW u \in Txns \ {t}, NEW j \in TaskIds, <<<<"task", j>>, u>> \in hold, WaitingClaims(j) = {}
      PROVE  WaitingClaims(j)' = {}
  <2>1. j # i
    BY <1>3, <1>5 DEF Alone, TaskRows
  <2> QED BY <2>1, <1>1, <1>2, <1>5 DEF WaitingClaims, TaskTypes
<1>6. Does(t, "home") = FALSE
  BY <1>2 DEF Does
<1>7. /\ Alone' /\ AllWork'
      /\ errand' \in [Txns -> Errands]
  BY <1>2, <1>4, <1>5, <1>6, EndsWell
<1>8. TaskTypes'
  <2>1. claim' \in [ClaimIds -> [task : TaskIds \cup {0}, status : {"none", "pending", "confirmed", "declined"}]]
    BY <1>1, <1>2, <1>3 DEF TaskTypes
  <2> QED BY <1>2, <1>3, <1>7, <2>1, Answered DEF TaskTypes
<1>9. Pressed' /\ PointsStated'
  BY <1>2, <1>3, PressStays DEF PointsStated
<1>10. Claims'
  BY <1>1, <1>2, <1>3 DEF Claims, TaskTypes
<1>11. \A p \in Presses : press[p].done => press'[p].done
  BY <1>2, <1>3 DEF TaskTypes
<1>12. Entries'
  <2>1. ledger[c] = NoEntry
    BY <1>1 DEF Entries, NoClaim
  <2>2. \A d \in ClaimIds : d # c => claim'[d] = claim[d]
    BY <1>1, <1>2 DEF TaskTypes
  <2>3. claim'[c].status # "confirmed"
    BY <1>1, <1>2 DEF TaskTypes
  <2> QED BY <1>2, <1>11, <2>1, <2>2, <2>3 DEF Entries
<1> QED BY <1>7, <1>8, <1>9, <1>10, <1>12

LEMMA JudgedKeeps ==
  ASSUME TaskInv, NEW t \in Txns, Judged(t)
  PROVE  TaskInv'
<1> USE DEF TaskInv
<1>1. PICK c \in WaitingClaims(errand[t].task) :
        errand' = [errand EXCEPT ![t].step = "judged", ![t].claim = c]
  BY DEF Judged
<1>2. UNCHANGED <<hold, task, claim, ledger, press>> /\ Does(t, "deciding")
  BY DEF Judged, taskRows
<1>3. c \in ClaimIds /\ claim[c].task = errand[t].task
  BY <1>1 DEF WaitingClaims
<1> DEFINE e == [errand[t] EXCEPT !.step = "judged", !.claim = c]
<1>4. errand' = [errand EXCEPT ![t] = e] /\ e \in Errands
  BY <1>1, <1>3, ErrandChanges DEF TaskTypes, Steps
<1>5. TaskTypes'
  BY <1>2, <1>4 DEF TaskTypes
<1>6. ASSUME NEW u \in Txns PROVE Works(u)'
  <2>1. CASE u = t
    <3>1. /\ errand'[t].step = "judged" /\ errand'[t].press = errand[t].press
          /\ errand'[t].task = errand[t].task /\ errand'[t].claim = c
      BY <1>4 DEF TaskTypes, Errands
    <3> QED BY <2>1, <3>1, <1>2, <1>3 DEF AllWork, Works, Does
  <2>2. CASE u # t
    BY <2>2, <1>2, <1>4, WorksOn DEF AllWork, WaitingClaims, TaskTypes
  <2> QED BY <2>1, <2>2
<1>7. Pressed' /\ PointsStated' /\ Claims' /\ Entries' /\ Alone'
  BY <1>2, PressStays, RowsStay DEF Alone
<1> QED BY <1>5, <1>6, <1>7 DEF AllWork

LEMMA RewardedKeeps ==
  ASSUME TaskInv, NEW t \in Txns, Rewarded(t)
  PROVE  TaskInv'
<1> USE DEF TaskInv
<1> DEFINE c == errand[t].claim
           p == errand[t].press
<1>1. /\ Does(t, "judged") /\ claim[c].status = "pending" /\ Returns(t) /\ UNCHANGED task
      /\ press' = [press EXCEPT ![p].done = TRUE]
  BY DEF Rewarded, Answers
<1>2. /\ p \in Presses /\ press[p] # Unsent /\ ~press[p].done
      /\ c \in ClaimIds /\ claim[c].task = errand[t].task
      /\ errand[t].task \in TaskIds /\ task[errand[t].task] # NoTask
  BY <1>1 DEF AllWork, Works, Does
<1>3. PICK word \in {"confirmed", "declined"} :
        /\ claim' = [claim EXCEPT ![c].status = word]
        /\ word = "declined" => ledger' = ledger
        /\ word = "confirmed" =>
             ledger' = [ledger EXCEPT ![c] = [points |-> task[errand[t].task].points, press |-> p]]
  BY DEF Rewarded, ClaimDecided, EntryInserted
<1>4. /\ \A d \in ClaimIds : claim'[d].task = claim[d].task
      /\ \A d \in ClaimIds \ {c} : claim'[d] = claim[d]
      /\ claim'[c].status = word
  BY <1>2, <1>3 DEF TaskTypes
<1>5. \A j \in TaskIds : WaitingClaims(j) = {} => WaitingClaims(j)' = {}
  BY <1>1, <1>2, <1>3, <1>4 DEF WaitingClaims
<1>6. Does(t, "home") = FALSE
  BY <1>1 DEF Does
<1>7. /\ Alone' /\ AllWork'
      /\ errand' \in [Txns -> Errands]
  BY <1>1, <1>4, <1>5, <1>6, EndsWell
<1>8. TaskTypes'
  <2>1. task[errand[t].task].points \in 0..MaxPoints
    BY <1>2 DEF TaskTypes
  <2>2. ledger' \in [ClaimIds -> [points : 0..MaxPoints, press : Presses \cup {0}]]
    BY <1>2, <1>3, <2>1 DEF TaskTypes
  <2>3. claim' \in [ClaimIds -> [task : TaskIds \cup {0}, status : {"none", "pending", "confirmed", "declined"}]]
    BY <1>2, <1>3 DEF TaskTypes
  <2> QED BY <1>1, <1>2, <1>7, <2>2, <2>3, Answered DEF TaskTypes
<1>9. Pressed' /\ PointsStated'
  BY <1>1, <1>2, PressStays DEF PointsStated
<1>10. Claims'
  BY <1>1, <1>2, <1>4 DEF Claims, NoClaim
<1>11. press'[p].done /\ \A q \in Presses : press[q].done => press'[q].done
  BY <1>1, <1>2 DEF TaskTypes
<1>12. ledger[c] = NoEntry
  BY <1>1, <1>2 DEF Entries
<1>13. \A d \in ClaimIds : ledger[d].press # p
  BY <1>2, TaskAssumption DEF Entries, NoEntry
<1>14. Entries'
  <2>1. CASE word = "declined"
    BY <2>1, <1>1, <1>3, <1>4, <1>11, <1>12 DEF Entries
  <2>2. CASE word = "confirmed"
    <3>1. /\ ledger'[c] = [points |-> task[errand[t].task].points, press |-> p]
          /\ \A d \in ClaimIds \ {c} : ledger'[d] = ledger[d]
      BY <2>2, <1>2, <1>3 DEF TaskTypes
    <3>2. ledger'[c] # NoEntry
      BY <3>1, <1>2, TaskAssumption DEF NoEntry
    <3>3. ASSUME NEW d \in ClaimIds
          PROVE  ledger[d].press # ledger'[c].press
      BY <3>1, <1>13
    <3> QED BY <2>2, <3>1, <3>2, <3>3, <1>1, <1>2, <1>4, <1>11, <1>13 DEF Entries
  <2> QED BY <2>1, <2>2
<1> QED BY <1>7, <1>8, <1>9, <1>10, <1>14

LEMMA OthersKeep ==
  ASSUME TaskInv, UNCHANGED <<hold, taskRows, press, errand>>
  PROVE  TaskInv'
<1> USE DEF taskRows
<1>1. TaskTypes' /\ Alone' /\ Pressed' /\ PointsStated' /\ Claims' /\ Entries'
  BY DEF TaskInv, TaskTypes, Alone, Pressed, PointsStated, Claims, Entries
<1>2. ASSUME NEW u \in Txns PROVE Works(u)'
  BY DEF TaskInv, AllWork, Works, WaitingClaims
<1> QED BY <1>1, <1>2 DEF TaskInv, AllWork

-----------------------------------------------------------------------------
(* The theorems.                                                           *)

LEMMA InitInv == TasksInit => TaskInv
<1> SUFFICES ASSUME TasksInit PROVE TaskInv
  OBVIOUS
<1>1. TaskTypes
  <2>1. MaxPoints \in Nat
    BY TaskAssumption
  <2>2. Unsent \in Requests
    BY DEF Unsent, Requests
  <2>3. NoClaim \in [task : TaskIds \cup {0}, status : {"none", "pending", "confirmed", "declined"}]
    BY DEF NoClaim
  <2>4. NoEntry \in [points : 0..MaxPoints, press : Presses \cup {0}]
    BY <2>1 DEF NoEntry
  <2> QED BY <2>2, <2>3, <2>4, HomeTypes DEF TasksInit, TaskTypes
<1>2. Alone /\ AllWork /\ Pressed
  BY DEF TasksInit, Alone, AllWork, Works, Home, Pressed
<1>3. PointsStated /\ Claims /\ Entries
  BY DEF TasksInit, PointsStated, Claims, Entries, NoClaim
<1> QED BY <1>1, <1>2, <1>3 DEF TaskInv

LEMMA StepInv == TaskInv /\ [TasksNext]_taskVars => TaskInv'
<1> SUFFICES ASSUME TaskInv, [TasksNext]_taskVars PROVE TaskInv'
  OBVIOUS
<1>1. ASSUME NEW t \in Txns, TaskWork(t) PROVE TaskInv'
  BY <1>1, PressSentKeeps, TaskCountedKeeps, TaskStatedKeeps, TaskFoundKeeps, ClaimedKeeps,
     JudgedKeeps, RewardedKeeps, RollbackKeeps DEF TaskWork
<1>2. CASE CircleTurns /\ UNCHANGED <<minute, hold, taskRows, press, errand>>
  BY <1>2, OthersKeep
<1>3. CASE UNCHANGED taskVars
  BY <1>3, OthersKeep DEF taskVars
<1> QED BY <1>1, <1>2, <1>3 DEF TasksNext

THEOREM TasksInvariant == TasksSpec => []TaskInv
<1> QED BY InitInv, StepInv, PTL DEF TasksSpec

\* However often a press is sent again, and whatever is claimed meanwhile, its points are
\* entered once and are those the task names (decideFamilyTask, the slot of the press).
THEOREM PressAwardsOnce == TasksSpec => []OnePressOneAward
<1>1. TaskInv => OnePressOneAward
  BY DEF TaskInv, Entries, OnePressOneAward
<1> QED BY <1>1, TasksInvariant, PTL

\* Between the look for a claim that waits and the insertion nobody else claims the task
\* (claimFamilyTask, readTask FOR UPDATE).
THEOREM ClaimsOneAtATime == TasksSpec => []OneClaimWaits
<1>1. ASSUME TaskInv PROVE OneClaimWaits
  <2>1. ASSUME NEW t \in Txns, Does(t, "claiming")
        PROVE  /\ errand[t].task \in TaskIds /\ <<<<"task", errand[t].task>>, t>> \in hold
               /\ WaitingClaims(errand[t].task) = {}
    BY <1>1, <2>1 DEF TaskInv, AllWork, Works, Does
  <2> QED BY <1>1, <2>1 DEF OneClaimWaits, TaskInv, Alone, TaskRows
<1> QED BY <1>1, TasksInvariant, PTL

-----------------------------------------------------------------------------
(* The calendar.                                                           *)

Events == [version : Nat, status : {"none", "scheduled", "cancelled"}, starts : Int, audience : BOOLEAN]
ChangesUnderWay == [step : {"idle", "keep", "replace"}, by : Guardians \cup {"nobody"},
                    row : Events, kids : SUBSET Kids]

CalendarTypes ==
  /\ minute \in Nat
  /\ event \in Events
  /\ read \in [Guardians -> [event : Events, invited : SUBSET Kids]]
  /\ change \in [Txns -> ChangesUnderWay]
  /\ invited \subseteq Kids

\* An event that is stated has a version; of one that is not there is nothing.
OfWhatIsStated == IF event.version = 0 THEN event = NoEvent /\ answered = {} /\ attended = {}
          ELSE event.status # "none"

\* A version is one event with one audience, and no screen has read one that was not stored.
ReadsKnow ==
  \A g \in Guardians :
    /\ read[g].event.version <= event.version
    /\ read[g].event.version = event.version /\ event.version > 0 => read[g] = Stored
    /\ read[g].event.version = 0 => read[g].event = NoEvent

\* A change under way is alone, and about what its author read.
OneChange ==
  /\ \A t \in Txns : change[t] # Idle =>
       /\ <<EventRow, t>> \in hold
       /\ change[t].step # "idle"
       /\ change[t].by \in Guardians /\ read[change[t].by] = Stored
       /\ event.version > 0 /\ change[t].row.status # "none"
  /\ \A g \in hold, h \in hold : g[1] = h[1] => g[2] = h[2]

CalendarInv == CalendarTypes /\ OfWhatIsStated /\ ReadsKnow /\ OneChange /\ answered \cup attended \subseteq invited

AnswersKept ==
  /\ answered \subseteq answered' /\ attended \subseteq attended'
  /\ answered' \cup attended' \subseteq invited'

-----------------------------------------------------------------------------
LEMMA NoEventTypes == NoEvent \in Events /\ NoEvent.version = 0 /\ NoEvent.status = "none"
BY DEF NoEvent, Events

LEMMA IdleTypes == Idle \in ChangesUnderWay /\ Idle.step = "idle"
BY NoEventTypes DEF Idle, ChangesUnderWay

LEMMA EventFields ==
  ASSUME NEW e \in Events
  PROVE  /\ \A n \in Nat : /\ [e EXCEPT !.version = n] \in Events
                           /\ [e EXCEPT !.version = n].version = n
                           /\ [e EXCEPT !.version = n].status = e.status
         /\ \A n \in Int : /\ [e EXCEPT !.starts = n] \in Events
                           /\ [e EXCEPT !.starts = n].status = e.status
         /\ \A a \in BOOLEAN : /\ [e EXCEPT !.audience = a] \in Events
                               /\ [e EXCEPT !.audience = a].status = e.status
         /\ [e EXCEPT !.status = "cancelled"] \in Events
BY DEF Events

\* Who may write about the event while nobody changes it, and who is the one that does.
LEMMA HolderIsAlone ==
  ASSUME OneChange, NEW t \in Txns, change[t] # Idle
  PROVE  \A u \in Txns : u # t => change[u] = Idle
BY DEF OneChange, EventRow

LEMMA FreeRowIsFree ==
  ASSUME OneChange, RowIsFree
  PROVE  \A u \in Txns : change[u] = Idle
BY DEF OneChange, RowIsFree

LEMMA ObtainedRow ==
  ASSUME OneChange, NEW t \in Txns, change[t] = Idle, Obtainable(t, EventRow)
  PROVE  \A u \in Txns : change[u] = Idle
BY DEF OneChange, Obtainable

\* A transaction that changed the event ends.
LEMMA ChangeEnds ==
  ASSUME CalendarInv, NEW t \in Txns, change[t] # Idle, EndsChange(t)
  PROVE  /\ change' \in [Txns -> ChangesUnderWay] /\ OneChange'
         /\ \A u \in Txns : change'[u] = Idle
<1>1. change' = [change EXCEPT ![t] = Idle] /\ Releases(t)
  BY DEF EndsChange
<1>2. \A u \in Txns : change'[u] = Idle
  BY <1>1, HolderIsAlone DEF CalendarInv, CalendarTypes
<1>3. \A g \in hold', h \in hold' : g[1] = h[1] => g[2] = h[2]
  BY <1>1 DEF Releases, CalendarInv, OneChange
<1> QED BY <1>1, <1>2, <1>3, IdleTypes DEF OneChange, CalendarInv, CalendarTypes

-----------------------------------------------------------------------------
(* The steps that do not write the event.                                  *)

LEMMA OthersKeepTheEvent ==
  ASSUME CalendarInv,
         \/ ClockTicks /\ UNCHANGED <<circle, planRows, read, change>>
         \/ CircleTurns /\ UNCHANGED <<minute, hold, planRows, read, change>>
         \/ ChildIsArchived \/ UNCHANGED calendarVars
  PROVE  CalendarInv' /\ AnswersKept
<1>1. UNCHANGED <<event, invited, answered, attended, read, change, hold>> /\ minute' \in Nat
  <2>1. CASE ClockTicks /\ UNCHANGED <<circle, planRows, read, change>>
    BY <2>1 DEF ClockTicks, planRows, CalendarInv, CalendarTypes
  <2> QED BY <2>1 DEF ChildIsArchived, planRows, calendarVars, CalendarInv, CalendarTypes
<1> QED BY <1>1 DEF CalendarInv, CalendarTypes, OfWhatIsStated, ReadsKnow, Stored, OneChange, AnswersKept

LEMMA ScreenListsKeeps ==
  ASSUME CalendarInv, NEW g \in Guardians, ScreenLists(g)
  PROVE  CalendarInv' /\ AnswersKept
<1>1. UNCHANGED <<minute, hold, event, invited, answered, attended, change>>
  BY DEF ScreenLists, planRows
<1>2. /\ read' \in [Guardians -> [event : Events, invited : SUBSET Kids]]
      /\ \A h \in Guardians : read'[h] = read[h] \/ read'[h] = Stored
  BY DEF ScreenLists, CalendarInv, CalendarTypes, Stored
<1>3. Stored' = Stored /\ Stored.event = event /\ event.version \in Nat
  BY <1>1 DEF Stored, CalendarInv, CalendarTypes, Events
<1>4. event # NoEvent /\ event.version # 0
  BY DEF ScreenLists, CalendarInv, OfWhatIsStated
<1>5. ReadsKnow'
  BY <1>1, <1>2, <1>3, <1>4 DEF ReadsKnow, CalendarInv
<1>6. OneChange'
  BY <1>1, <1>2, <1>3 DEF OneChange, CalendarInv
<1> QED BY <1>1, <1>2, <1>5, <1>6 DEF CalendarInv, CalendarTypes, OfWhatIsStated, AnswersKept

LEMMA AnswersAdded ==
  ASSUME CalendarInv,
         \/ \E by, k : Responds(by, k)
         \/ \E g, k : AttendanceRecorded(g, k)
  PROVE  CalendarInv' /\ AnswersKept
<1>1. UNCHANGED <<minute, hold, event, invited, read, change>>
  BY DEF Responds, AttendanceRecorded
<1>2. /\ answered \subseteq answered' /\ attended \subseteq attended'
      /\ answered' \cup attended' \subseteq invited
  BY DEF Responds, AttendanceRecorded, CalendarInv
<1>3. event.version # 0
  BY NoEventTypes DEF Responds, AttendanceRecorded, Stands, CalendarInv, OfWhatIsStated
<1> QED BY <1>1, <1>2, <1>3 DEF CalendarInv, CalendarTypes, OfWhatIsStated, ReadsKnow, Stored, OneChange, AnswersKept

LEMMA ChangeOpensKeeps ==
  ASSUME CalendarInv, NEW t \in Txns, NEW g \in Guardians, ChangeOpens(t, g)
  PROVE  CalendarInv' /\ AnswersKept
<1> USE DEF CalendarInv
<1>1. /\ UNCHANGED <<minute, event, invited, answered, attended, read>>
      /\ change[t] = Idle /\ Stands /\ Obtainable(t, EventRow) /\ Takes(t, {EventRow})
      /\ read[g].event # NoEvent /\ event.version = read[g].event.version
  BY DEF ChangeOpens, StatesAVersion, Changes, planRows
<1>2. event.version > 0 /\ read[g] = Stored
  BY <1>1 DEF ReadsKnow, CalendarTypes, Events
<1>3. PICK v \in ChangesUnderWay : /\ change' = [change EXCEPT ![t] = v]
                                   /\ v.step # "idle" /\ v.by = g /\ v.row.status # "none"
  <2>1. event \in Events /\ event.status # "none"
    BY <1>2 DEF CalendarTypes, OfWhatIsStated
  <2>2. ASSUME NEW starts \in 0..MaxStart,
               change' = [change EXCEPT ![t] = [step |-> "keep", by |-> g, kids |-> invited,
                                                row |-> [event EXCEPT !.starts = starts]]]
        PROVE  \E v \in ChangesUnderWay : /\ change' = [change EXCEPT ![t] = v]
                                          /\ v.step # "idle" /\ v.by = g /\ v.row.status # "none"
    <3>1. [event EXCEPT !.starts = starts] \in Events /\ [event EXCEPT !.starts = starts].status # "none"
      <4>1. starts \in Int
        OBVIOUS
      <4> QED BY <2>1, <4>1, EventFields
    <3> DEFINE row == [event EXCEPT !.starts = starts]
               v == [step |-> "keep", by |-> g, kids |-> invited, row |-> row]
    <3> HIDE DEF row
    <3>2. v \in ChangesUnderWay
      BY <3>1 DEF ChangesUnderWay, CalendarTypes, row
    <3> QED BY <2>2, <3>1, <3>2 DEF row
  <2>3. ASSUME NEW p \in Audiences(g),
               change' = [change EXCEPT ![t] = [step |-> "replace", by |-> g, kids |-> p.kids,
                                                row |-> [event EXCEPT !.audience = p.audience]]]
        PROVE  \E v \in ChangesUnderWay : /\ change' = [change EXCEPT ![t] = v]
                                          /\ v.step # "idle" /\ v.by = g /\ v.row.status # "none"
    <3>1. p.audience \in BOOLEAN /\ p.kids \subseteq Kids
      BY DEF Audiences, Answerers
    <3> DEFINE row == [event EXCEPT !.audience = p.audience]
               v == [step |-> "replace", by |-> g, kids |-> p.kids, row |-> row]
    <3>2. row \in Events /\ row.status # "none"
      BY <2>1, <3>1, EventFields
    <3> HIDE DEF row
    <3>3. v \in ChangesUnderWay
      BY <3>1, <3>2 DEF ChangesUnderWay
    <3> QED BY <2>3, <3>2, <3>3 DEF row
  <2> QED BY <2>2, <2>3 DEF ChangeOpens, StatesAVersion, Changes
<1>4. /\ change' \in [Txns -> ChangesUnderWay] /\ change'[t] = v
      /\ \A u \in Txns \ {t} : change'[u] = Idle
  BY <1>1, <1>3, ObtainedRow DEF CalendarTypes
<1>5. <<EventRow, t>> \in hold' /\ \A a \in hold', b \in hold' : a[1] = b[1] => a[2] = b[2]
  BY <1>1 DEF Takes, Obtainable, OneChange
<1>6. OneChange'
  BY <1>1, <1>2, <1>3, <1>4, <1>5 DEF OneChange, Stored
<1> QED BY <1>1, <1>4, <1>6 DEF CalendarTypes, OfWhatIsStated, ReadsKnow, Stored, AnswersKept

LEMMA ChangeRollbackKeeps ==
  ASSUME CalendarInv, NEW t \in Txns, ChangeRollback(t)
  PROVE  CalendarInv' /\ AnswersKept
<1>1. UNCHANGED <<minute, event, invited, answered, attended, read>>
  BY DEF ChangeRollback, planRows
<1>2. change' \in [Txns -> ChangesUnderWay] /\ OneChange'
  BY ChangeEnds DEF ChangeRollback
<1> QED BY <1>1, <1>2 DEF CalendarInv, CalendarTypes, OfWhatIsStated, ReadsKnow, Stored, AnswersKept

-----------------------------------------------------------------------------
(* The steps that write it.                                                *)

\* A new version is one that no screen has read.
LEMMA NewVersionIsUnread ==
  ASSUME CalendarInv, event' \in Events, event'.version = event.version + 1, event'.status # "none", read' = read
  PROVE  OfWhatIsStated' /\ ReadsKnow'
<1>1. event.version \in Nat
  BY DEF CalendarInv, CalendarTypes, Events
<1>2. OfWhatIsStated'
  BY <1>1 DEF OfWhatIsStated
<1>3. ASSUME NEW g \in Guardians
      PROVE  /\ read'[g].event.version <= event'.version /\ read'[g].event.version # event'.version
             /\ read'[g].event.version = 0 => read'[g].event = NoEvent
  <2>1. read[g].event.version \in Nat /\ read[g].event.version <= event.version
    BY DEF CalendarInv, CalendarTypes, ReadsKnow, Events
  <2> QED BY <1>1, <2>1 DEF CalendarInv, ReadsKnow
<1> QED BY <1>2, <1>3 DEF ReadsKnow

LEMMA EventStatedKeeps ==
  ASSUME CalendarInv, NEW g \in Guardians, EventStated(g)
  PROVE  CalendarInv' /\ AnswersKept
<1> USE DEF CalendarInv
<1>1. PICK starts \in minute..MaxStart, audience \in BOOLEAN, kids \in SUBSET Kids :
        /\ event' = [version |-> 1, status |-> "scheduled", starts |-> starts, audience |-> audience]
        /\ invited' = kids
  BY DEF EventStated, Invites
<1>2. event = NoEvent /\ UNCHANGED <<minute, hold, answered, attended, read, change>>
  BY DEF EventStated, Invites
<1>3. event' \in Events /\ event'.version = event.version + 1 /\ event'.status # "none"
  BY <1>1, <1>2, NoEventTypes DEF Events
<1>4. OfWhatIsStated' /\ ReadsKnow'
  BY <1>2, <1>3, NewVersionIsUnread
<1>5. \A t \in Txns : change[t] = Idle
  BY <1>2, NoEventTypes DEF OneChange
<1>6. answered = {} /\ attended = {}
  BY <1>2, NoEventTypes DEF OfWhatIsStated
<1>7. OneChange'
  BY <1>2, <1>5 DEF OneChange
<1> QED BY <1>1, <1>2, <1>3, <1>4, <1>6, <1>7 DEF CalendarTypes, AnswersKept

LEMMA EventCancelledKeeps ==
  ASSUME CalendarInv, NEW g \in Guardians, EventCancelled(g)
  PROVE  CalendarInv' /\ AnswersKept
<1> USE DEF CalendarInv
<1>1. /\ RowIsFree /\ UNCHANGED <<minute, hold, invited, answered, attended, read, change>>
      /\ event' = [event EXCEPT !.status = "cancelled", !.version = event.version + 1]
  BY DEF EventCancelled
<1>2. event' \in Events /\ event'.version = event.version + 1 /\ event'.status # "none"
  <2> DEFINE gone == [event EXCEPT !.status = "cancelled"]
  <2>1. event.version + 1 \in Nat
    BY DEF CalendarTypes, Events
  <2>2. gone \in Events /\ gone.status = "cancelled"
    BY DEF CalendarTypes, Events
  <2>3. event' = [gone EXCEPT !.version = event.version + 1]
    BY <1>1
  <2> HIDE DEF gone
  <2> QED BY <2>1, <2>2, <2>3, EventFields
<1>3. OfWhatIsStated' /\ ReadsKnow'
  BY <1>1, <1>2, NewVersionIsUnread
<1>4. OneChange'
  BY <1>1, FreeRowIsFree DEF OneChange
<1> QED BY <1>1, <1>2, <1>3, <1>4 DEF CalendarTypes, AnswersKept

\* What a change writes was read by its author, and it takes no answer away: an audience that
\* somebody answered about is not deleted.
LEMMA ChangeWritesKeeps ==
  ASSUME CalendarInv, NEW t \in Txns, ChangeKeeps(t) \/ ChangeReplaces(t)
  PROVE  CalendarInv' /\ AnswersKept
<1> USE DEF CalendarInv
<1>1. /\ EndsChange(t) /\ change[t] # Idle /\ UNCHANGED <<minute, answered, attended, read>>
      /\ event' = [change[t].row EXCEPT !.version = event.version + 1]
  BY IdleTypes DEF ChangeKeeps, ChangeReplaces, Invites
<1>2. change[t].row \in Events /\ change[t].row.status # "none" /\ event.version + 1 \in Nat /\ change[t].kids \subseteq Kids
  <2>1. change[t] \in ChangesUnderWay /\ event.version \in Nat
    BY DEF CalendarTypes, Events
  <2>2. change[t].row.status # "none"
    BY <1>1 DEF OneChange
  <2> QED BY <2>1, <2>2 DEF ChangesUnderWay
<1>3. event' \in Events /\ event'.version = event.version + 1 /\ event'.status # "none"
  BY <1>1, <1>2, EventFields
<1>4. OfWhatIsStated' /\ ReadsKnow'
  BY <1>1, <1>3, NewVersionIsUnread
<1>5. change' \in [Txns -> ChangesUnderWay] /\ OneChange'
  BY <1>1, ChangeEnds
<1>6. invited' \subseteq Kids /\ answered \cup attended \subseteq invited'
  BY <1>2 DEF ChangeKeeps, ChangeReplaces, Invites, Answerers, CalendarTypes
<1> QED BY <1>1, <1>3, <1>4, <1>5, <1>6 DEF CalendarTypes, AnswersKept

-----------------------------------------------------------------------------
LEMMA CalendarBegins == CalendarInit => CalendarInv
BY NoEventTypes, IdleTypes
   DEF CalendarInit, CalendarInv, CalendarTypes, OfWhatIsStated, ReadsKnow, OneChange

LEMMA CalendarSteps == CalendarInv /\ [CalendarNext]_calendarVars => CalendarInv' /\ AnswersKept
<1> SUFFICES ASSUME CalendarInv, [CalendarNext]_calendarVars PROVE CalendarInv' /\ AnswersKept
  OBVIOUS
<1> QED BY OthersKeepTheEvent, ScreenListsKeeps, AnswersAdded, ChangeOpensKeeps, ChangeRollbackKeeps,
           EventStatedKeeps, EventCancelledKeeps, ChangeWritesKeeps DEF CalendarNext

\* What an event, its screens and its changes know of each other stands at every moment.
THEOREM CalendarInvariant == CalendarSpec => []CalendarInv
<1>1. CalendarInv /\ [CalendarNext]_calendarVars => CalendarInv'
  BY CalendarSteps
<1> QED BY <1>1, CalendarBegins, PTL DEF CalendarSpec

\* No change of an event takes an answer or an attendance away, and nobody who answered is
\* dropped from it (updateFamilyEvent, deleteAudience, the foreign keys).
THEOREM AnswersAreKept == CalendarSpec => AnswersStand
<1>1. CalendarInv /\ [CalendarNext]_calendarVars =>
        /\ answered \subseteq answered' /\ attended \subseteq attended'
        /\ answered' \cup attended' \subseteq invited'
  BY CalendarSteps DEF AnswersKept
<1> QED BY <1>1, CalendarInvariant, PTL DEF CalendarSpec, AnswersStand

\* An event is changed as its author's screen read it, whatever guardians did since
\* (updateFamilyEvent, the version it is given).
THEOREM ChangesAreOfWhatWasRead == CalendarSpec => ChangesWhatWasRead
<1>1. CalendarInv => \A t \in Txns : (change[t] # Idle /\ change'[t] = Idle /\ event' # event) =>
                                        read[change[t].by] = Stored \/ event = NoEvent
  BY DEF CalendarInv, OneChange
<1> QED BY <1>1, CalendarInvariant, PTL DEF CalendarSpec, ChangesWhatWasRead
=============================================================================
