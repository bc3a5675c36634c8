------------------------------ MODULE ScreenTime ------------------------------
(***************************************************************************)
(* The screen time of one child, as screen-time.js keeps it: the policy,   *)
(* the rules of apps, the one live lock, the questions for more minutes,   *)
(* the usage handsets report, and what may be opened by these rows.        *)
(*                                                                         *)
(* An operation that reads a row FOR UPDATE and writes later is a deed in  *)
(* steps; while it waits for a row, the row it looked for may go and       *)
(* another may come.  Each also settles the questions whose time was over  *)
(* when it began.                                                          *)
(***************************************************************************)
EXTENDS Transactions, FiniteSetsExt

CONSTANTS Fields,      \* the settings of the policy, each changed by one patch
          Handsets,    \* the paired handsets of the child
          Apps,
          MaxMinutes,  \* bound: minutes of an app or a request
          MaxLocks, MaxAsks,  \* bounds: rows
          DayLength,   \* 1440
          Offset,      \* timezone_offset_minutes
          Lifetime     \* REQUEST_MINIMUM_LIFETIME_MINUTES

ASSUME ScreenAssumption ==
  /\ {MaxMinutes, MaxLocks, MaxAsks, Lifetime} \subseteq Nat
  /\ Offset \in Int /\ DayLength \in Nat \ {0}
  /\ "cap" \in Fields

VARIABLES
  setting,    \* family_child_screen_time_policies: its version and the fields somebody chose
  rule,       \* family_child_app_rules
  inventory,  \* family_child_apps: the category a handset last reported, "unseen" where none did
  lock,       \* family_child_lock_state
  ask,        \* family_child_time_requests
  used,       \* family_child_app_usage_daily, of the first two days
  told,       \* history: what handsets have reported, and were answered
  deed        \* deed[t]: a transaction: its step, its beginning and what it read

screenRows == <<setting, rule, inventory, lock, ask, used, told>>
screenVars == <<minute, screenRows, hold, deed>>

-----------------------------------------------------------------------------
(* The clock in the family's own offset, and the windows of its day.       *)

\* familyLocalParts.
LocalDate(now) == (now + Offset) \div DayLength
LocalMinute(now) == (now + Offset) % DayLength
\* endOfFamilyDay.
EndOfFamilyDay(now) == (LocalDate(now) + 1) * DayLength - Offset

\* windowContains: a window may cross midnight.
WindowContains(start, end, m) ==
  \/ start < end /\ start <= m /\ m < end
  \/ end < start /\ (start <= m \/ m < end)

\* remainingMinutes, of a policy with a cap.
Remaining(cap, granted, spent) == IF cap + granted <= spent THEN 0 ELSE cap + granted - spent

\* evaluateScreenState: the reason of a block, or none.  school and bedtime say whether the
\* minute is in the window; cap is 0 where the family set none.
ScreenReason(locked, bedtime, school, cap, granted, spent) ==
  IF locked THEN "instant_lock"
  ELSE IF bedtime THEN "bedtime"
  ELSE IF school THEN "school_mode"
  ELSE IF cap > 0 /\ Remaining(cap, granted, spent) = 0 THEN "daily_limit" ELSE "none"

\* evaluateAppAccess: the reason why an app may not be opened, or none.  An app is a status, a
\* category, a limit (0 for none) and whether the cap leaves it alone.
AppReason(app, spentOnApp, reason) ==
  IF app.status = "blocked" THEN "app_blocked"
  ELSE IF app.status = "pending" THEN "awaiting_decision"
  ELSE IF app.status = "free" \/ app.category = "edu"
       THEN IF reason = "instant_lock" THEN reason ELSE "none"
  ELSE IF reason \notin {"none", "daily_limit"} THEN reason
  ELSE IF app.limit > 0 /\ spentOnApp >= app.limit THEN "app_limit"
  ELSE IF app.unlimited THEN "none" ELSE reason

\* appRuleInput and the checks of the table: a limit and the exemption are of allowed apps.
Rulings == {r \in [status : {"pending", "free", "blocked", "allowed"}, limit : 0..MaxMinutes, unlimited : BOOLEAN] :
              r.status # "allowed" => r.limit = 0 /\ ~r.unlimited}
Unruled == [status |-> "pending", limit |-> 0, unlimited |-> FALSE]
Categories == {"edu", "games"}   \* one that the cap leaves alone, one that it counts

-----------------------------------------------------------------------------
LockIds == 1..MaxLocks
AskIds == 1..MaxAsks
Days == {LocalDate(0), LocalDate(0) + 1}
PolicyRow == <<"policy", 0>>
LockEntry == <<"live", 0>>      \* family_child_lock_state_one_live_per_child
AskEntry == <<"pending", 0>>    \* family_child_time_requests_one_pending_per_child
NoAsk == [status |-> "none", asked |-> 0, granted |-> 0, expires |-> 0, day |-> 0]
Free == [step |-> "free", began |-> 0, row |-> 0,   \* the row it looked for
         fields |-> {},                             \* the merged policy
         on |-> "none", minutes |-> 0, day |-> 0, lists |-> "unseen",  \* what it reports of the app on
         asks |-> 0, at |-> 0]                       \* the minutes it asks for, and when

ScreenInit ==
  /\ minute = 0
  /\ \/ setting = [version |-> 0, fields |-> {}]  \* no row
     \/ setting = [version |-> 1, fields |-> {"cap"}]
  /\ rule = [a \in Apps |-> Unruled]
  /\ inventory = [a \in Apps |-> "unseen"]
  /\ lock = [i \in LockIds |-> "none"]
  /\ ask = [i \in AskIds |-> NoAsk]
  /\ used = [at \in Apps \X Days |-> 0]
  /\ told = [at \in Apps \X Days |-> {}]
  /\ hold = {}
  /\ deed = [t \in Txns |-> Free]

Ended(t) == /\ Releases(t)
            /\ deed' = [deed EXCEPT ![t] = Free]
On(t, step) == deed[t].step = step

Live == {i \in LockIds : lock[i] = "live"}
Pending == {i \in AskIds : ask[i].status = "pending"}

\* expirePendingRequests of a transaction that began then: NOW() is when it began.
Due(began) == {i \in Pending : ask[i].expires <= began}
Settled(began) == [i \in AskIds |-> IF i \in Due(began) THEN [ask[i] EXCEPT !.status = "expired"] ELSE ask[i]]
DueAreFree(t, began) == \A i \in Due(began) : Obtainable(t, <<"ask", i>>)

\* A refusal, an error of the database, a deadlock it broke, or a server that stopped.
ScreenRollback(t) ==
  /\ ~On(t, "free")
  /\ Ended(t)
  /\ UNCHANGED <<minute, screenRows>>

Settles ==
  /\ Due(minute) # {}
  /\ \A i \in Due(minute) : \A h \in hold : h[1] # <<"ask", i>>
  /\ ask' = Settled(minute)
  /\ UNCHANGED <<minute, setting, rule, inventory, lock, used, told, hold, deed>>

\* Whoever reads settles the questions whose time is over: a guardian who reads the screen or
\* lists the questions.
ReadScreen == Settles
ListRequests == Settles

\* readDeviceScreenTime: the row of the handset is locked.
DeviceReadsScreen(h) ==
  /\ \A held \in hold : held[1] # <<"handset", h>>
  /\ Settles

-----------------------------------------------------------------------------
(* What the rows say.                                                      *)

\* isCountable, effectiveCategory: an app nobody reported counts.
Countable(a) == rule[a].status # "free" /\ inventory[a] # "edu"
\* countableMinutes.
Spent(day) == MapThenSumSet(LAMBDA a : used[a, day], {a \in Apps : Countable(a)})
\* readGrantedMinutes.
Granted(day) ==
  MapThenSumSet(LAMBDA i : ask[i].granted, {i \in AskIds : ask[i].status = "approved" /\ ask[i].day = day})

\* readScreenTimeInside: why the screen is blocked on a day, where the cap, the bedtime and the
\* school hours are these.
ScreenOn(day, cap, bedtime, school) ==
  ScreenReason(Live # {}, bedtime, school, cap, Granted(day), Spent(day))

\* appsInside: why an app may not be opened then.
AppOn(a, day, cap, bedtime, school) ==
  AppReason([status |-> rule[a].status, category |-> inventory[a],
             limit |-> rule[a].limit, unlimited |-> rule[a].unlimited],
            used[a, day], ScreenOn(day, cap, bedtime, school))

\* upsertRule: ON CONFLICT DO UPDATE.
Ruled(a, ruling) == [rule EXCEPT ![a] = ruling]

\* updateFamilyAppRule: the last one stands.
RuleUpdated(a, ruling) ==
  /\ rule' = Ruled(a, ruling)
  /\ UNCHANGED <<minute, setting, inventory, lock, ask, used, told, hold, deed>>

-----------------------------------------------------------------------------
(* The policy.                                                             *)

\* mergePolicy: what a patch leaves out keeps the value the family chose.
Patched(fields, f) == fields \cup {f}

\* updateFamilyScreenTimePolicy: the row is locked, if there is one; a version may be stated.
PolicyOpen(t) ==
  /\ On(t, "free")
  /\ setting.version < Cardinality(Fields)
  /\ setting.version > 0 => Obtainable(t, PolicyRow)
  /\ \E f \in Fields \ setting.fields :
       deed' = [deed EXCEPT ![t] = [Free EXCEPT !.step = "save", !.fields = Patched(setting.fields, f)]]
  /\ IF setting.version > 0 THEN Takes(t, {PolicyRow}) ELSE hold' = hold
  /\ UNCHANGED <<minute, screenRows>>

\* upsertPolicy: all fields of the merged policy, whatever version it finds.
PolicySave(t) ==
  /\ On(t, "save")
  /\ Obtainable(t, PolicyRow)
  /\ setting' = [version |-> setting.version + 1, fields |-> deed[t].fields]
  /\ Ended(t)
  /\ UNCHANGED <<minute, rule, inventory, lock, ask, used, told>>

-----------------------------------------------------------------------------
(* The instant lock.                                                       *)

\* readLiveLock FOR UPDATE, as its statement begins: the row it will wait for.
SeeLock(t) ==
  /\ On(t, "free")
  /\ \E press \in {"press", "unlock"}, i \in Live \cup {0} :
       /\ i = 0 => Live = {} /\ press = "press"
       /\ deed' = [deed EXCEPT ![t] = [Free EXCEPT !.step = press, !.began = minute, !.row = i]]
  /\ UNCHANGED <<minute, screenRows, hold>>

\* Mutant of LockFound: the row is read without FOR UPDATE.
LockSeen(t, press, found) ==
  /\ On(t, press) /\ deed[t].row \in Live
  /\ deed' = [deed EXCEPT ![t].step = found]
  /\ UNCHANGED <<minute, screenRows, hold>>

\* The row is there, and stays until the transaction ends.
LockFound(t, press, found) ==
  /\ On(t, press) /\ deed[t].row \in Live
  /\ Obtainable(t, <<"lock", deed[t].row>>)
  /\ Takes(t, {<<"lock", deed[t].row>>})
  /\ deed' = [deed EXCEPT ![t].step = found]
  /\ UNCHANGED <<minute, screenRows>>

PressFinds(t) == LockFound(t, "press", "pressed")
UnlockFinds(t) == LockFound(t, "unlock", "release")

\* There was none, or it was released during the wait: insertLock, which waits for another
\* that is not committed, and fails beside one that is.
PressInserts(t) ==
  /\ On(t, "press") /\ deed[t].row \notin Live
  /\ Obtainable(t, LockEntry) /\ Live = {}
  /\ \E i \in LockIds : lock[i] = "none"
  /\ Takes(t, {LockEntry})
  /\ deed' = [deed EXCEPT ![t].step = "pressed", ![t].row = 0]
  /\ UNCHANGED <<minute, screenRows>>

\* The answer to a press: the lock it found, or the one it made.
PressAnswered(t) ==
  /\ On(t, "pressed")
  /\ DueAreFree(t, deed[t].began)
  /\ ask' = Settled(deed[t].began)
  /\ lock' = IF deed[t].row # 0 THEN lock
             ELSE [lock EXCEPT ![CHOOSE i \in LockIds : lock[i] = "none"] = "live"]
  /\ Ended(t)
  /\ UNCHANGED <<minute, setting, rule, inventory, used, told>>

\* releaseLock, WHERE released_at IS NULL, and the answer.
UnlockAnswered(t) ==
  /\ On(t, "release")
  /\ DueAreFree(t, deed[t].began)
  /\ ask' = Settled(deed[t].began)
  /\ lock' = IF deed[t].row \in Live THEN [lock EXCEPT ![deed[t].row] = "released"] ELSE lock
  /\ Ended(t)
  /\ UNCHANGED <<minute, setting, rule, inventory, used, told>>

-----------------------------------------------------------------------------
(* Questions for more minutes.                                             *)

Later(a, b) == IF a < b THEN b ELSE a
ExpiresAt(now) == Later(EndOfFamilyDay(now), now + Lifetime)

\* createFamilyTimeRequest by a guardian or a handset: only under a cap; then the pending one
\* is looked for.
AskBegins(t) ==
  /\ On(t, "free")
  /\ "cap" \in setting.fields
  /\ \E n \in 1..MaxMinutes, i \in Pending \cup {0} :
       /\ i = 0 => Pending = {}
       /\ deed' = [deed EXCEPT ![t] = [Free EXCEPT !.step = "ask", !.began = minute, !.row = i, !.asks = n]]
  /\ UNCHANGED <<minute, screenRows, hold>>

\* reportDeviceScreenTime, before the row of the handset is its own.
ReportArrives(t) ==
  /\ On(t, "free")
  /\ deed' = [deed EXCEPT ![t] = [Free EXCEPT !.step = "report", !.began = minute]]
  /\ UNCHANGED <<minute, screenRows, hold>>

\* The handset's row, the clock, then the rows of the usage and of the app, of a day in the
\* last 48 hours; it may ask as well.
ReportBegins(t) ==
  /\ On(t, "report")
  /\ \E h \in Handsets, a \in Apps, d \in Days, n \in 0..MaxMinutes, asks \in 0..MaxMinutes, i \in Pending \cup {0},
        lists \in Categories \cup {"unseen"} :
       /\ Obtainable(t, <<"handset", h>>) /\ Obtainable(t, <<"usage", a>>)
       /\ LocalDate(minute - 2 * DayLength) <= d /\ d <= LocalDate(minute)
       /\ i = 0 => Pending = {}
       /\ asks > 0 => "cap" \in setting.fields
       /\ Takes(t, {<<"handset", h>>, <<"usage", a>>})
       /\ deed' = [deed EXCEPT ![t] =
            [@ EXCEPT !.step = IF asks = 0 THEN "asked" ELSE "ask", !.row = i, !.at = minute,
                      !.on = a, !.day = d, !.minutes = n, !.lists = lists, !.asks = asks]]
  /\ UNCHANGED <<minute, screenRows>>

\* A handset that reports is answered with the question that waits; another asker is refused.
AskFinds(t) ==
  /\ On(t, "ask") /\ deed[t].on # "none"
  /\ deed[t].row \in Pending \ Due(deed[t].began)
  /\ Obtainable(t, <<"ask", deed[t].row>>)
  /\ Takes(t, {<<"ask", deed[t].row>>})
  /\ deed' = [deed EXCEPT ![t].step = "asked", ![t].asks = 0]
  /\ UNCHANGED <<minute, screenRows>>

\* None waits, once what was due is settled: insertRequest, beside no other.  Outside a report
\* the clock is read before the wait for another's insertion, at some minute since it began.
AskInserts(t) ==
  /\ On(t, "ask")
  /\ deed[t].row \notin Pending \ Due(deed[t].began)
  /\ DueAreFree(t, deed[t].began)
  /\ Obtainable(t, AskEntry) /\ Pending = Due(deed[t].began)
  /\ \E i \in AskIds : ask[i] = NoAsk
  /\ Takes(t, {AskEntry} \cup ({"ask"} \X Due(deed[t].began)))
  /\ \E now \in deed[t].began..minute :
       deed' = [deed EXCEPT ![t].step = "asked", ![t].at = IF deed[t].on = "none" THEN now ELSE @]
  /\ UNCHANGED <<minute, screenRows>>

Asked(t) ==
  [NoAsk EXCEPT !.status = "pending", !.asked = deed[t].asks, !.expires = ExpiresAt(deed[t].at),
                !.day = LocalDate(deed[t].at)]

\* upsertApps: the last report of an app says what it is, and one without it says nothing.
Reported(a, lists) == IF lists = "unseen" THEN inventory ELSE [inventory EXCEPT ![a] = lists]

\* Mutant of Greatest: the last report wins.
Newest(stored, reported) == reported
\* upsertUsage.
Greatest(stored, reported) == Later(stored, reported)

AskAnswered(t) ==
  LET at == <<deed[t].on, deed[t].day>>
      settled == Settled(deed[t].began)
  IN /\ On(t, "asked")
     /\ DueAreFree(t, deed[t].began)
     /\ ask' = IF deed[t].asks = 0 THEN settled
               ELSE [settled EXCEPT ![CHOOSE i \in AskIds : ask[i] = NoAsk] = Asked(t)]
     /\ IF deed[t].on = "none" THEN UNCHANGED <<inventory, used, told>>
        ELSE /\ inventory' = Reported(deed[t].on, deed[t].lists)
             /\ used' = [used EXCEPT ![at] = Greatest(@, deed[t].minutes)]
             /\ told' = [told EXCEPT ![at] = @ \cup {deed[t].minutes}]
     /\ Ended(t)
     /\ UNCHANGED <<minute, setting, rule, lock>>

\* decideFamilyTimeRequest: what is due is settled first, then the row is read.
DecisionBegins(t) ==
  /\ On(t, "free")
  /\ \E i \in AskIds :
       /\ ask[i] # NoAsk
       /\ deed' = [deed EXCEPT ![t] = [Free EXCEPT !.step = "decide", !.began = minute, !.row = i]]
  /\ UNCHANGED <<minute, screenRows, hold>>

\* Mutant of DecisionFinds: what is due was not settled before.
DecisionFindsLate(t) ==
  /\ On(t, "decide")
  /\ deed[t].row \in Pending
  /\ Obtainable(t, <<"ask", deed[t].row>>)
  /\ Takes(t, {<<"ask", deed[t].row>>})
  /\ deed' = [deed EXCEPT ![t].step = "decided"]
  /\ UNCHANGED <<minute, screenRows>>

\* readRequest FOR UPDATE: one that is decided or over is refused.
DecisionFinds(t) ==
  /\ On(t, "decide")
  /\ deed[t].row \in Pending \ Due(deed[t].began)
  /\ Obtainable(t, <<"ask", deed[t].row>>)
  /\ Takes(t, {<<"ask", deed[t].row>>})
  /\ deed' = [deed EXCEPT ![t].step = "decided"]
  /\ UNCHANGED <<minute, screenRows>>

\* decideRequest, WHERE status = 'pending': denied, or approved with no more minutes than were
\* asked for.  Where it finds no such row the request fails.
DecisionAnswered(t) ==
  LET i == deed[t].row
  IN /\ On(t, "decided") /\ i \in Pending
     /\ \/ ask' = [ask EXCEPT ![i].status = "denied"]
        \/ \E n \in 1..ask[i].asked : ask' = [ask EXCEPT ![i].status = "approved", ![i].granted = n]
     /\ Ended(t)
     /\ UNCHANGED <<minute, setting, rule, inventory, lock, used, told>>

ScreenWork(t) ==
  \/ PolicyOpen(t) \/ PolicySave(t)
  \/ SeeLock(t) \/ PressFinds(t) \/ UnlockFinds(t) \/ PressInserts(t)
  \/ PressAnswered(t) \/ UnlockAnswered(t)
  \/ AskBegins(t) \/ ReportArrives(t) \/ ReportBegins(t) \/ AskFinds(t) \/ AskInserts(t) \/ AskAnswered(t)
  \/ DecisionBegins(t) \/ DecisionFinds(t) \/ DecisionAnswered(t)
  \/ ScreenRollback(t)

ScreenNext ==
  \/ ClockTicks /\ UNCHANGED <<screenRows, deed>>
  \/ ReadScreen \/ ListRequests
  \/ \E h \in Handsets : DeviceReadsScreen(h)
  \/ \E a \in Apps, ruling \in Rulings : RuleUpdated(a, ruling)
  \/ \E t \in Txns : ScreenWork(t)

ScreenSpec == ScreenInit /\ [][ScreenNext]_screenVars

-----------------------------------------------------------------------------
(* Properties.                                                             *)

\* Every variable stays in the set of values its column or field can hold.
ScreenTypeOK ==
  /\ minute \in 0..MaxMinute
  /\ setting \in [version : 0..Cardinality(Fields), fields : SUBSET Fields]
  /\ rule \in [Apps -> Rulings] /\ inventory \in [Apps -> Categories \cup {"unseen"}]
  /\ lock \in [LockIds -> {"none", "live", "released"}]
  /\ \A i \in AskIds : /\ ask[i].status \in {"none", "pending", "approved", "denied", "expired"}
                       /\ ask[i].granted <= ask[i].asked /\ ask[i].asked <= MaxMinutes
  /\ used \in [Apps \X Days -> 0..MaxMinutes] /\ told \in [Apps \X Days -> SUBSET (0..MaxMinutes)]

\* "Lock now" leaves a lock: when a press is answered, with the lock it made or with the one it
\* found, the screen is locked, whatever releases and presses run beside it (readLiveLock FOR
\* UPDATE, the unique index).
PressLeavesALock == [][\A t \in Txns : PressAnswered(t) => Live' # {}]_screenVars

\* Each answer is of a question that waited and of a decision that found it in time, and stands.
AnswersStepwise ==
  /\ Cardinality(Pending') <= 1
  /\ \A i \in AskIds :
       /\ ask[i].status \in {"approved", "denied", "expired"} => ask'[i] = ask[i]
       /\ ask[i].status = "pending" /\ ask'[i].status \in {"approved", "denied"} =>
            \E t \in Txns : /\ On(t, "decided") /\ deed[t].row = i
                            /\ deed[t].began < ask[i].expires /\ deed'[t] = Free
\* A question is answered once: by one guardian who began before its time was over, or by the
\* clock; and no more than one waits at a time.
OneAnswer == [][AnswersStepwise]_screenVars

\* Minutes never shrink and are never made up: what is stored of an app and a day is the
\* greatest that a handset was answered for, in whatever order reports and repeats commit.
UsageIsTheGreatest ==
  \A a \in Apps, d \in Days :
    LET reports == told[a, d] \cup {0}
    IN used[a, d] \in reports /\ \A n \in reports : n <= used[a, d]
=============================================================================
