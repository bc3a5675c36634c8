---------------------------- MODULE MCHousehold ----------------------------
(***************************************************************************)
(* Instances of the household for TLC.  The screen time, the web filter,   *)
(* the tasks and the calendar share no row, and neither do the parts of    *)
(* the first two named here: they are checked side by side, so that their  *)
(* states add up instead of multiplying.                                   *)
(*   policies, rules, locks, asks, usage - ScreenTime;                     *)
(*   saves, doors, health         - WebFilter;                             *)
(*   tasks                        - FamilyTasks;                           *)
(*   calendar                     - FamilyCalendar.                        *)
(***************************************************************************)
EXTENDS ScreenTime, WebFilter, FamilyTasks, FamilyCalendar, TLC

CONSTANTS g1, g2, k1, k2, wide, narrow
VARIABLE part

Parts == {"policies", "rules", "locks", "asks", "usage", "saves", "doors", "health", "tasks", "calendar"}

screenOnly == <<screenRows, deed>>
webOnly == <<webRows, visit>>
tasksOnly == <<taskRows, press, errand>>
calendarOnly == <<planRows, read, change>>

\* narrow lies under wide: example.com and play.example.com.
Under == [h \in Hosts |-> {h, wide}]

\* A task, two claims of it and two decisions.
Buttons == <<{"create"}, {"claim"}, {"claim"}, {"confirm"}, {"confirm", "decline"}>>

Deeds(steps) == \A t \in Txns : deed'[t].step \in steps \cup {"free"}
Visits(steps) == \A t \in Txns : visit'[t].step \in steps \cup {"away"}

OnScreen ==
  /\ ScreenNext
  /\ \/ part = "policies" /\ Deeds({"save"}) /\ minute' = 0
     \/ part = "locks" /\ Deeds({"press", "pressed", "unlock", "release"}) /\ minute' = 0
     \/ /\ part = "asks" /\ Deeds({"report", "ask", "asked", "decide", "decided"}) /\ minute' < 3
        /\ \A t \in Txns : deed'[t].on # "none" =>
             deed'[t].asks > 0 /\ deed'[t].minutes = 0 /\ deed'[t].day = 0 /\ deed'[t].lists = "unseen"
     \/ /\ part = "usage" /\ Deeds({"report", "asked"})
        /\ \A t \in Txns : deed'[t].asks = 0 /\ deed'[t].lists = "unseen"
     \/ /\ part = "rules" /\ Deeds({"report", "asked"}) /\ minute' = 0
        /\ \A t \in Txns : deed'[t].asks = 0 /\ deed'[t].minutes = 0
  /\ part # "rules" => rule' = rule
  /\ UNCHANGED <<webOnly, circle, tasksOnly, calendarOnly>>

OnWeb ==
  /\ WebNext
  /\ \/ part = "saves" /\ Visits({"save"}) /\ minute' = 0
     \/ part = "doors" /\ Visits({"ask", "decide"}) /\ shown' = shown
     \/ part = "health" /\ Visits({"report"}) /\ shown' = shown
  /\ UNCHANGED <<screenOnly, circle, tasksOnly, calendarOnly>>

OnTasks ==
  /\ part = "tasks" /\ TasksNext /\ {g1, g2, k2} \subseteq circle'
  /\ \A p \in Presses :
       /\ press'[p].by # g2
       /\ press'[p].asks \in Buttons[p] \cup {"nothing"}
       /\ (p > 1 /\ press'[p] # Unsent) => press'[1].done
  /\ UNCHANGED <<screenOnly, webOnly, calendarOnly>>

OnCalendar ==
  /\ part = "calendar" /\ CalendarNext /\ {g1, k2} \subseteq circle' /\ minute' < 2 /\ k1 \notin archived'
  /\ UNCHANGED <<screenOnly, webOnly, tasksOnly>>

Sym == Permutations(Txns) \cup Permutations(Screens)

Init ==
  /\ ScreenInit /\ WebInit /\ TasksInit /\ CalendarInit
  /\ part \in Parts
  /\ setting.version = 1 <=> part = "asks"
Next == (OnScreen \/ OnWeb \/ OnTasks \/ OnCalendar) /\ part' = part
Spec == Init /\ [][Next]_<<screenVars, webVars, taskVars, calendarVars, part>>
=============================================================================
