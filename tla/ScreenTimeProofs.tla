--------------------------- MODULE ScreenTimeProofs ---------------------------
(***************************************************************************)
(* For any number of apps, handsets, rows and transactions: a press leaves *)
(* a lock, a question is answered once, and minutes are the greatest that  *)
(* was reported; and a lock closes every app.  The first three follow from *)
(* ScreenInv: a transaction holds the row or the entry of an index that it *)
(* will write, so what it knows of them stands until it ends.              *)
(***************************************************************************)
EXTENDS ScreenTime, FiniteSetTheorems, TLAPS

Steps == {"free", "save", "press", "unlock", "pressed", "release", "report", "ask", "asked", "decide", "decided"}
AskRows == [status : {"none", "pending", "approved", "denied", "expired"},
            asked : Int, granted : Int, expires : Int, day : Int]
Deeds == [step : Steps, began : Int, row : Int, fields : SUBSET Fields, on : Apps \cup {"none"},
          minutes : Nat, day : Int, lists : Categories \cup {"unseen"}, asks : Nat, at : Int]

ScreenTypes ==
  /\ minute \in Nat
  /\ setting.fields \subseteq Fields
  /\ lock \in [LockIds -> {"none", "live", "released"}]
  /\ ask \in [AskIds -> AskRows]
  /\ used \in [Apps \X Days -> Nat] /\ told \in [Apps \X Days -> SUBSET Nat]
  /\ deed \in [Txns -> Deeds]

\* No two transactions hold one row.
Alone == \A g \in hold, h \in hold : g[1] = h[1] => g[2] = h[2]

NoneIsLeft == \A i \in LockIds : lock[i] # "none"

\* What a transaction has found, it holds.
Knows(t) ==
  LET e == deed[t]
  IN /\ (e.step = "pressed" /\ e.row # 0) \/ e.step = "release" =>
          e.row \in Live /\ <<<<"lock", e.row>>, t>> \in hold
     /\ e.step = "pressed" /\ e.row = 0 => <<LockEntry, t>> \in hold /\ ~NoneIsLeft
     /\ e.step = "decided" =>
          e.row \in Pending /\ e.began < ask[e.row].expires /\ <<<<"ask", e.row>>, t>> \in hold
     /\ e.step = "asked" /\ e.asks # 0 =>
          /\ <<AskEntry, t>> \in hold
          /\ \A i \in Pending : ask[i].expires <= e.began
          /\ \E i \in AskIds : ask[i] = NoAsk
     /\ e.step \in {"ask", "asked"} /\ e.on # "none" => e.on \in Apps /\ e.day \in Days

AllKnow == \A t \in Txns : Knows(t)
OnePending == \A i \in Pending, j \in Pending : i = j

ScreenInv == ScreenTypes /\ Alone /\ AllKnow /\ OnePending /\ UsageIsTheGreatest

-----------------------------------------------------------------------------
(* The laws of what may be opened.                                         *)

\* A lock closes every app, whatever the family decided about it (evaluateAppAccess).
THEOREM LockClosesEveryApp ==
  ASSUME NEW app, NEW spent
  PROVE  AppReason(app, spent, "instant_lock") # "none"
BY DEF AppReason

\* An app that nobody decided about, and one that is blocked, stays closed at every hour.
THEOREM UndecidedStaysClosed ==
  ASSUME NEW app, app.status \in {"pending", "blocked"}, NEW spent, NEW reason
  PROVE  AppReason(app, spent, reason) # "none"
BY DEF AppReason

\* While there is a live lock no app of the child may be opened (appsInside).
THEOREM LockedIsClosed ==
  ASSUME Live # {}, NEW a \in Apps, NEW day, NEW cap, NEW bedtime, NEW school
  PROVE  AppOn(a, day, cap, bedtime, school) # "none"
<1>1. ScreenOn(day, cap, bedtime, school) = "instant_lock"
  BY DEF ScreenOn, ScreenReason
<1> QED BY <1>1, LockClosesEveryApp DEF AppOn

\* A window that crosses midnight and the window of the other hours part the day.
THEOREM WindowsPartTheDay ==
  ASSUME NEW start \in Nat, NEW end \in Nat, start # end, NEW m \in Nat
  PROVE  WindowContains(start, end, m) <=> ~WindowContains(end, start, m)
BY DEF WindowContains

-----------------------------------------------------------------------------
(* What a step leaves alone.                                               *)

LEMMA KnowsOn ==
  ASSUME ScreenTypes, NEW u \in Txns, Knows(u), deed'[u] = deed[u],
         \A row : <<row, u>> \in hold => <<row, u>> \in hold',
         \A i \in Live : <<<<"lock", i>>, u>> \in hold => i \in Live',
         <<LockEntry, u>> \in hold /\ ~NoneIsLeft => ~NoneIsLeft',
         \A i \in Pending : <<<<"ask", i>>, u>> \in hold =>
           i \in Pending' /\ ask'[i].expires = ask[i].expires,
         <<AskEntry, u>> \in hold => /\ \A i \in Pending' : i \in Pending /\ ask'[i].expires = ask[i].expires
                                     /\ \A i \in AskIds : ask[i] = NoAsk => ask'[i] = NoAsk
  PROVE  Knows(u)'
BY DEF Knows, LockEntry, AskEntry

LEMMA TakesAlone ==
  ASSUME Alone, NEW t \in Txns, NEW rows, \A row \in rows : Obtainable(t, row), Takes(t, rows)
  PROVE  /\ Alone' /\ \A row \in rows : <<row, t>> \in hold'
         /\ \A row, u : <<row, u>> \in hold => <<row, u>> \in hold'
BY DEF Alone, Takes, Obtainable

LEMMA ReleasesAlone ==
  ASSUME Alone, NEW t \in Txns, Releases(t)
  PROVE  /\ Alone'
         /\ \A row, u : u # t /\ <<row, u>> \in hold => <<row, u>> \in hold'
BY DEF Alone, Releases

LEMMA HeldByOne ==
  ASSUME Alone, NEW row, NEW t, NEW u, <<row, t>> \in hold, <<row, u>> \in hold
  PROVE  t = u
BY DEF Alone

LEMMA ObtainableIsFree ==
  ASSUME NEW row, NEW t, NEW u, Obtainable(t, row), <<row, u>> \in hold
  PROVE  t = u
BY DEF Obtainable

\* What is due is settled, and nothing else changes.
LEMMA SettledIs ==
  ASSUME ScreenTypes, NEW began \in Int
  PROVE  /\ Settled(began) \in [AskIds -> AskRows]
         /\ \A i \in AskIds : /\ Settled(began)[i].expires = ask[i].expires
                              /\ i \notin Due(began) => Settled(began)[i] = ask[i]
                              /\ i \in Due(began) => Settled(began)[i].status = "expired"
                              /\ i \in Due(began) => ask[i].status = "pending"
<1>1. ASSUME NEW i \in AskIds, i \in Due(began)
      PROVE  /\ Settled(began)[i] = [ask[i] EXCEPT !.status = "expired"]
             /\ ask[i] \in AskRows /\ ask[i].status = "pending"
  BY <1>1 DEF Settled, Due, Pending, ScreenTypes
<1>2. ASSUME NEW i \in AskIds, i \notin Due(began)
      PROVE  Settled(began)[i] = ask[i] /\ ask[i] \in AskRows
  BY <1>2 DEF Settled, ScreenTypes
<1>3. \A row \in AskRows : [row EXCEPT !.status = "expired"] \in AskRows
  BY DEF AskRows
<1>4. Settled(began) \in [AskIds -> AskRows]
  BY <1>1, <1>2, <1>3 DEF Settled
<1> QED BY <1>1, <1>2, <1>4 DEF AskRows

LEMMA FreeTypes == Free \in Deeds
BY DEF Free, Deeds, Steps

\* A deed stays a deed, one field after another.
LEMMA DeedFields ==
  ASSUME NEW d \in Deeds
  PROVE  /\ \A step \in Steps : [d EXCEPT !.step = step] \in Deeds
         /\ \A n \in Int : /\ [d EXCEPT !.began = n] \in Deeds /\ [d EXCEPT !.row = n] \in Deeds
                          /\ [d EXCEPT !.day = n] \in Deeds /\ [d EXCEPT !.at = n] \in Deeds
         /\ \A n \in Nat : [d EXCEPT !.minutes = n] \in Deeds /\ [d EXCEPT !.asks = n] \in Deeds
         /\ \A a \in Apps : [d EXCEPT !.on = a] \in Deeds
         /\ \A lists \in Categories \cup {"unseen"} : [d EXCEPT !.lists = lists] \in Deeds
BY DEF Deeds

LEMMA DeedChanges ==
  ASSUME NEW d \in Deeds, NEW step \in Steps
  PROVE  /\ \A n \in Int : [d EXCEPT !.step = step, !.row = n] \in Deeds
         /\ \A b \in Int : [d EXCEPT !.step = step, !.began = b] \in Deeds
         /\ \A b \in Int, n \in Int : [d EXCEPT !.step = step, !.began = b, !.row = n] \in Deeds
<1> DEFINE f == [d EXCEPT !.step = step]
<1>1. f \in Deeds
  BY DeedFields
<1>2. ASSUME NEW n \in Int PROVE [f EXCEPT !.row = n] \in Deeds
  BY <1>1, DeedFields
<1>3. ASSUME NEW b \in Int PROVE [f EXCEPT !.began = b] \in Deeds
  BY <1>1, DeedFields
<1>4. ASSUME NEW b \in Int, NEW n \in Int PROVE [[f EXCEPT !.began = b] EXCEPT !.row = n] \in Deeds
  BY <1>3, DeedFields
<1> QED BY <1>2, <1>3, <1>4

\* Knows is a matter of a deed, the rows and what is held.
LEMMA FreeKnows ==
  ASSUME NEW t \in Txns, deed[t].step \in {"free", "save", "press", "unlock", "report", "decide"}
  PROVE  Knows(t)
BY DEF Knows

\* A transaction takes rows and goes on, and writes nothing.
LEMMA GoesOn ==
  ASSUME ScreenInv, NEW t \in Txns, NEW rows, \A row \in rows : Obtainable(t, row), Takes(t, rows),
         NEW e \in Deeds, deed' = [deed EXCEPT ![t] = e], UNCHANGED <<minute, screenRows>>,
         Knows(t)'
  PROVE  ScreenInv'
<1> USE DEF ScreenInv
<1>1. /\ Alone'
      /\ \A row, u : <<row, u>> \in hold => <<row, u>> \in hold'
  BY TakesAlone
<1>2. UNCHANGED <<minute, setting, lock, ask, used, told>>
  BY DEF screenRows
<1>3. ASSUME NEW u \in Txns PROVE Knows(u)'
  <2>1. CASE u = t
    BY <2>1
  <2>2. CASE u # t
    <3>1. deed'[u] = deed[u]
      BY <2>2 DEF ScreenTypes
    <3> QED BY <3>1, <1>1, <1>2, KnowsOn DEF AllKnow, Live, Pending, NoneIsLeft
  <2> QED BY <2>1, <2>2
<1>4. ScreenTypes'
  BY <1>2 DEF ScreenTypes
<1> QED BY <1>1, <1>2, <1>3, <1>4 DEF AllKnow, OnePending, Pending, UsageIsTheGreatest

\* The same, where it takes nothing.
LEMMA GoesOnFreely ==
  ASSUME ScreenInv, NEW t \in Txns, NEW e \in Deeds, deed' = [deed EXCEPT ![t] = e],
         UNCHANGED <<minute, screenRows, hold>>, Knows(t)'
  PROVE  ScreenInv'
<1>1. Takes(t, {})
  BY DEF Takes
<1> QED BY <1>1, GoesOn

\* A transaction ends, and leaves the others what they hold and know.
LEMMA Ends ==
  ASSUME ScreenTypes, Alone, AllKnow, NEW t \in Txns, Ended(t),
         \A u \in Txns \ {t} :
           /\ \A i \in Live : <<<<"lock", i>>, u>> \in hold => i \in Live'
           /\ <<LockEntry, u>> \in hold /\ ~NoneIsLeft => ~NoneIsLeft'
           /\ \A i \in Pending : <<<<"ask", i>>, u>> \in hold =>
                i \in Pending' /\ ask'[i].expires = ask[i].expires
           /\ <<AskEntry, u>> \in hold =>
                /\ \A i \in Pending' : i \in Pending /\ ask'[i].expires = ask[i].expires
                /\ \A i \in AskIds : ask[i] = NoAsk => ask'[i] = NoAsk
  PROVE  Alone' /\ AllKnow' /\ deed' \in [Txns -> Deeds]
<1>1. /\ Alone' /\ deed' = [deed EXCEPT ![t] = Free]
      /\ \A row, u : u # t /\ <<row, u>> \in hold => <<row, u>> \in hold'
  BY ReleasesAlone DEF Ended
<1>2. ASSUME NEW u \in Txns PROVE Knows(u)'
  <2>1. CASE u = t
    BY <2>1, <1>1 DEF Knows, ScreenTypes, Free
  <2>2. CASE u # t
    <3>1. deed'[u] = deed[u]
      BY <1>1, <2>2 DEF ScreenTypes
    <3> QED BY <3>1, <1>1, <2>2, KnowsOn DEF AllKnow
  <2> QED BY <2>1, <2>2
<1> QED BY <1>1, <1>2, FreeTypes DEF AllKnow, ScreenTypes

\* What is settled is nobody else's: it was obtainable.
LEMMA SettlesWell ==
  ASSUME ScreenTypes, OnePending, NEW t, NEW began \in Int, DueAreFree(t, began), ask' = Settled(began)
  PROVE  /\ ask' \in [AskIds -> AskRows] /\ OnePending'
         /\ \A u : u # t => \A i \in Pending : <<<<"ask", i>>, u>> \in hold =>
              i \in Pending' /\ ask'[i].expires = ask[i].expires
         /\ \A i \in Pending' : i \in Pending /\ ask'[i].expires = ask[i].expires
         /\ \A i \in AskIds : ask[i] = NoAsk => ask'[i] = NoAsk
<1>1. /\ \A i \in AskIds : /\ ask'[i].expires = ask[i].expires
                           /\ i \notin Due(began) => ask'[i] = ask[i]
                           /\ i \in Due(began) => ask'[i].status = "expired" /\ ask[i].status = "pending"
      /\ ask' \in [AskIds -> AskRows]
  BY SettledIs
<1>2. \A i \in Pending' : i \in Pending
  BY <1>1 DEF Pending
<1>3. ASSUME NEW u, u # t, NEW i \in Pending, <<<<"ask", i>>, u>> \in hold
      PROVE  i \in Pending'
  <2>1. i \notin Due(began)
    BY <1>3, ObtainableIsFree DEF DueAreFree
  <2> QED BY <2>1, <1>1 DEF Pending
<1>4. \A i \in AskIds : ask[i] = NoAsk => ask'[i] = NoAsk
  BY <1>1 DEF NoAsk
<1> QED BY <1>1, <1>2, <1>3, <1>4 DEF OnePending, Pending

-----------------------------------------------------------------------------
(* The steps that go on.                                                   *)

LEMMA PolicyOpenKeeps ==
  ASSUME ScreenInv, NEW t \in Txns, PolicyOpen(t)
  PROVE  ScreenInv'
<1>1. PICK f \in Fields \ setting.fields :
        deed' = [deed EXCEPT ![t] = [Free EXCEPT !.step = "save", !.fields = setting.fields \cup {f}]]
  BY DEF PolicyOpen, Patched
<1> DEFINE e == [Free EXCEPT !.step = "save", !.fields = setting.fields \cup {f}]
<1>2. e \in Deeds
  BY FreeTypes DEF Deeds, Steps, ScreenInv, ScreenTypes
<1>3. Knows(t)'
  BY <1>1 DEF Knows, ScreenInv, ScreenTypes, Free
<1>4. CASE setting.version > 0
  <2>1. \A row \in {PolicyRow} : Obtainable(t, row)
    BY <1>4 DEF PolicyOpen
  <2>2. Takes(t, {PolicyRow}) /\ UNCHANGED <<minute, screenRows>>
    BY <1>4 DEF PolicyOpen
  <2> QED BY <1>1, <1>2, <1>3, <2>1, <2>2, GoesOn
<1>5. CASE ~(setting.version > 0)
  <2>1. UNCHANGED <<minute, screenRows, hold>>
    BY <1>5 DEF PolicyOpen
  <2> QED BY <1>1, <1>2, <1>3, <2>1, GoesOnFreely
<1> QED BY <1>4, <1>5

LEMMA SeeLockKeeps ==
  ASSUME ScreenInv, NEW t \in Txns, SeeLock(t)
  PROVE  ScreenInv'
<1>1. PICK press \in {"press", "unlock"}, i \in Live \cup {0} :
        deed' = [deed EXCEPT ![t] = [Free EXCEPT !.step = press, !.began = minute, !.row = i]]
  BY DEF SeeLock
<1> DEFINE e == [Free EXCEPT !.step = press, !.began = minute, !.row = i]
<1>2. e \in Deeds
  <2>1. press \in Steps /\ i \in Int /\ minute \in Int
    BY DEF Steps, ScreenInv, ScreenTypes, Live, LockIds
  <2> QED BY <2>1, FreeTypes, DeedChanges
<1>3. Knows(t)'
  BY <1>1 DEF Knows, ScreenInv, ScreenTypes, Free
<1> QED BY <1>1, <1>2, <1>3, GoesOnFreely DEF SeeLock

LEMMA LockFoundKeeps ==
  ASSUME ScreenInv, NEW t \in Txns, PressFinds(t) \/ UnlockFinds(t)
  PROVE  ScreenInv'
<1>1. PICK found \in {"pressed", "release"} :
        /\ deed' = [deed EXCEPT ![t].step = found]
        /\ deed[t].row \in Live /\ Obtainable(t, <<"lock", deed[t].row>>)
        /\ Takes(t, {<<"lock", deed[t].row>>}) /\ UNCHANGED <<minute, screenRows>>
  BY DEF PressFinds, UnlockFinds, LockFound
<1> DEFINE e == [deed[t] EXCEPT !.step = found]
<1>2. deed[t] \in Deeds
  BY DEF ScreenInv, ScreenTypes
<1>3. e \in Deeds /\ e.step = found /\ e.row = deed[t].row
  BY <1>2 DEF Deeds, Steps
<1>4. deed' = [deed EXCEPT ![t] = e] /\ deed'[t] = e
  BY <1>1 DEF ScreenInv, ScreenTypes
<1>5. <<<<"lock", e.row>>, t>> \in hold' /\ e.row \in Live' /\ e.row # 0
  BY <1>1, <1>3 DEF Takes, Live, screenRows, LockIds
<1>6. Knows(t)'
  BY <1>3, <1>4, <1>5 DEF Knows
<1> QED BY <1>1, <1>3, <1>4, <1>6, GoesOn

LEMMA PressInsertsKeeps ==
  ASSUME ScreenInv, NEW t \in Txns, PressInserts(t)
  PROVE  ScreenInv'
<1> DEFINE e == [deed[t] EXCEPT !.step = "pressed", !.row = 0]
<1>1. deed[t] \in Deeds
  BY DEF ScreenInv, ScreenTypes
<1>2. e \in Deeds /\ e.step = "pressed" /\ e.row = 0
  <2>1. "pressed" \in Steps /\ 0 \in Int
    BY DEF Steps
  <2>2. e \in Deeds
    BY <1>1, <2>1, DeedChanges
  <2> QED BY <1>1, <2>2 DEF Deeds
<1>3. deed' = [deed EXCEPT ![t] = e] /\ deed'[t] = e
  BY DEF ScreenInv, ScreenTypes, PressInserts
<1>4. <<LockEntry, t>> \in hold' /\ ~NoneIsLeft'
  BY DEF PressInserts, Takes, NoneIsLeft, screenRows
<1>5. Knows(t)'
  BY <1>2, <1>3, <1>4 DEF Knows
<1> QED BY <1>2, <1>3, <1>5, GoesOn DEF PressInserts

LEMMA ClockTypes ==
  ASSUME minute \in Nat
  PROVE  /\ \A n \in Int : LocalDate(n) \in Int /\ ExpiresAt(n) \in Int
         /\ Days \subseteq Int /\ MaxMinutes \in Nat
<1>1. Offset \in Int /\ DayLength \in Nat \ {0} /\ Lifetime \in Nat /\ MaxMinutes \in Nat
  BY ScreenAssumption
<1>2. \A n \in Int : LocalDate(n) \in Int
  BY <1>1 DEF LocalDate
<1>3. ASSUME NEW n \in Int PROVE ExpiresAt(n) \in Int
  <2>1. EndOfFamilyDay(n) \in Int
    BY <1>1, <1>2 DEF EndOfFamilyDay
  <2> QED BY <1>1, <2>1 DEF ExpiresAt, Later
<1> QED BY <1>1, <1>2, <1>3 DEF Days

LEMMA AskBeginsKeeps ==
  ASSUME ScreenInv, NEW t \in Txns, AskBegins(t)
  PROVE  ScreenInv'
<1>1. PICK n \in 1..MaxMinutes, i \in Pending \cup {0} :
        deed' = [deed EXCEPT ![t] = [Free EXCEPT !.step = "ask", !.began = minute, !.row = i, !.asks = n]]
  BY DEF AskBegins
<1> DEFINE e == [Free EXCEPT !.step = "ask", !.began = minute, !.row = i, !.asks = n]
<1>2. e \in Deeds
  <2>1. minute \in Nat /\ i \in Int /\ n \in Nat
    BY ScreenAssumption DEF ScreenInv, ScreenTypes, Pending, AskIds
  <2>2. [Free EXCEPT !.step = "ask", !.began = minute, !.row = i] \in Deeds
    <3>1. "ask" \in Steps /\ minute \in Int
      BY <2>1 DEF Steps
    <3> QED BY <2>1, <3>1, FreeTypes, DeedChanges
  <2>3. e = [[Free EXCEPT !.step = "ask", !.began = minute, !.row = i] EXCEPT !.asks = n]
    OBVIOUS
  <2> QED BY <2>1, <2>2, <2>3, DeedFields
<1>3. e.step = "ask" /\ e.on = "none" /\ deed'[t] = e
  BY <1>1 DEF Free, ScreenInv, ScreenTypes
<1>4. Knows(t)'
  BY <1>3 DEF Knows
<1> QED BY <1>1, <1>2, <1>4, GoesOnFreely DEF AskBegins

LEMMA ReportArrivesKeeps ==
  ASSUME ScreenInv, NEW t \in Txns, ReportArrives(t)
  PROVE  ScreenInv'
<1> DEFINE e == [Free EXCEPT !.step = "report", !.began = minute]
<1>1. e \in Deeds
  <2>1. "report" \in Steps /\ minute \in Int
    BY DEF Steps, ScreenInv, ScreenTypes
  <2> QED BY <2>1, FreeTypes, DeedChanges
<1>2. deed' = [deed EXCEPT ![t] = e] /\ deed'[t] = e /\ e.step = "report"
  BY DEF ReportArrives, ScreenInv, ScreenTypes, Free
<1>3. Knows(t)'
  BY <1>2 DEF Knows
<1> QED BY <1>1, <1>2, <1>3, GoesOnFreely DEF ReportArrives

LEMMA ReportBeginsKeeps ==
  ASSUME ScreenInv, NEW t \in Txns, ReportBegins(t)
  PROVE  ScreenInv'
<1>1. PICK h \in Handsets, a \in Apps, d \in Days, n \in 0..MaxMinutes, asks \in 0..MaxMinutes, i \in Pending \cup {0},
           lists \in Categories \cup {"unseen"} :
        /\ Obtainable(t, <<"handset", h>>) /\ Obtainable(t, <<"usage", a>>)
        /\ LocalDate(minute - 2 * DayLength) <= d /\ d <= LocalDate(minute)
        /\ i = 0 => Pending = {}
        /\ asks > 0 => "cap" \in setting.fields
        /\ Takes(t, {<<"handset", h>>, <<"usage", a>>})
        /\ deed' = [deed EXCEPT ![t] =
             [@ EXCEPT !.step = IF asks = 0 THEN "asked" ELSE "ask", !.row = i, !.at = minute,
                       !.on = a, !.day = d, !.minutes = n, !.lists = lists, !.asks = asks]]
  BY Zenon DEF ReportBegins
<1> DEFINE step == IF asks = 0 THEN "asked" ELSE "ask"
           e == [deed[t] EXCEPT !.step = step, !.row = i, !.at = minute,
                       !.on = a, !.day = d, !.minutes = n, !.lists = lists, !.asks = asks]
<1>2. deed[t] \in Deeds /\ deed' = [deed EXCEPT ![t] = e] /\ deed'[t] = e
  BY <1>1 DEF ScreenInv, ScreenTypes
<1>3. minute \in Int /\ i \in Int /\ n \in Nat /\ asks \in Nat /\ d \in Int /\ step \in Steps
  BY ClockTypes DEF ScreenInv, ScreenTypes, Pending, AskIds, Steps
<1>4. e \in Deeds
  <2>1. [deed[t] EXCEPT !.step = step, !.row = i] \in Deeds
    BY <1>2, <1>3, DeedChanges
  <2> DEFINE f == [deed[t] EXCEPT !.step = step, !.row = i]
             g == [[[f EXCEPT !.at = minute] EXCEPT !.on = a] EXCEPT !.day = d]
             k == [[[g EXCEPT !.minutes = n] EXCEPT !.lists = lists] EXCEPT !.asks = asks]
  <2>2. g \in Deeds
    <3>1. [f EXCEPT !.at = minute] \in Deeds
      BY <2>1, <1>3, DeedFields
    <3>2. [[f EXCEPT !.at = minute] EXCEPT !.on = a] \in Deeds
      BY <3>1, DeedFields
    <3> QED BY <3>2, <1>3, DeedFields
  <2>3. k \in Deeds
    <3> HIDE DEF g
    <3>1. [g EXCEPT !.minutes = n] \in Deeds
      BY <2>2, <1>3, DeedFields
    <3>2. [[g EXCEPT !.minutes = n] EXCEPT !.lists = lists] \in Deeds
      BY <3>1, DeedFields
    <3> QED BY <3>2, <1>3, DeedFields
  <2>4. e = k
    OBVIOUS
  <2> QED BY <2>3, <2>4
<1>5. /\ e.step = step /\ e.asks = asks /\ e.on = a /\ e.day = d
  BY <1>2 DEF Deeds
<1>6. Knows(t)'
  <2>1. step \in {"ask", "asked"} /\ (step = "asked" => asks = 0)
    OBVIOUS
  <2> HIDE DEF e, step
  <2> QED BY <1>2, <1>5, <2>1 DEF Knows
<1>7. \A row \in {<<"handset", h>>, <<"usage", a>>} : Obtainable(t, row)
  BY <1>1
<1>8. UNCHANGED <<minute, screenRows>>
  BY DEF ReportBegins
<1> QED BY <1>1, <1>2, <1>4, <1>6, <1>7, <1>8, GoesOn

LEMMA AskFindsKeeps ==
  ASSUME ScreenInv, NEW t \in Txns, AskFinds(t)
  PROVE  ScreenInv'
<1> DEFINE e == [deed[t] EXCEPT !.step = "asked", !.asks = 0]
<1>1. deed[t] \in Deeds
  BY DEF ScreenInv, ScreenTypes
<1>2. e \in Deeds /\ e.step = "asked" /\ e.asks = 0 /\ e.on = deed[t].on /\ e.day = deed[t].day
  BY <1>1 DEF Deeds, Steps
<1>3. deed' = [deed EXCEPT ![t] = e] /\ deed'[t] = e
  BY DEF ScreenInv, ScreenTypes, AskFinds
<1>4. Knows(t)'
  BY <1>2, <1>3 DEF Knows, ScreenInv, AllKnow, AskFinds, On
<1> QED BY <1>2, <1>3, <1>4, GoesOn DEF AskFinds

LEMMA AskInsertsKeeps ==
  ASSUME ScreenInv, NEW t \in Txns, AskInserts(t)
  PROVE  ScreenInv'
<1>0. PICK now \in deed[t].began..minute :
        deed' = [deed EXCEPT ![t].step = "asked",
                             ![t].at = IF deed[t].on = "none" THEN now ELSE @]
  BY DEF AskInserts
<1> DEFINE at == IF deed[t].on = "none" THEN now ELSE deed[t].at
           e == [deed[t] EXCEPT !.step = "asked", !.at = at]
           rows == {AskEntry} \cup ({"ask"} \X Due(deed[t].began))
<1>1. deed[t] \in Deeds /\ at \in Int
  BY DEF ScreenInv, ScreenTypes, Deeds
<1>2. e \in Deeds /\ e.step = "asked" /\ e.asks = deed[t].asks /\ e.on = deed[t].on
      /\ e.day = deed[t].day /\ e.began = deed[t].began
  BY <1>1 DEF Deeds, Steps
<1>3. deed' = [deed EXCEPT ![t] = e] /\ deed'[t] = e
  BY <1>0 DEF ScreenInv, ScreenTypes
<1>4. \A row \in rows : Obtainable(t, row)
  BY DEF AskInserts, DueAreFree
<1>5. Takes(t, rows) /\ UNCHANGED <<minute, screenRows>>
  BY DEF AskInserts
<1>6. /\ <<AskEntry, t>> \in hold' /\ \A i \in Pending' : ask'[i].expires <= e.began
      /\ \E i \in AskIds : ask'[i] = NoAsk
  <2>1. <<AskEntry, t>> \in hold'
    BY <1>5 DEF Takes
  <2> QED BY <2>1, <1>2 DEF AskInserts, Due, Pending, screenRows
<1>7. Knows(t)'
  <2>1. Knows(t) /\ deed[t].step = "ask"
    BY DEF ScreenInv, AllKnow, AskInserts, On
  <2> QED BY <2>1, <1>2, <1>3, <1>6 DEF Knows
<1> QED BY <1>2, <1>3, <1>4, <1>5, <1>7, GoesOn

LEMMA DecisionBeginsKeeps ==
  ASSUME ScreenInv, NEW t \in Txns, DecisionBegins(t)
  PROVE  ScreenInv'
<1>1. PICK i \in AskIds :
        deed' = [deed EXCEPT ![t] = [Free EXCEPT !.step = "decide", !.began = minute, !.row = i]]
  BY DEF DecisionBegins
<1> DEFINE e == [Free EXCEPT !.step = "decide", !.began = minute, !.row = i]
<1>2. e \in Deeds
  <2>1. minute \in Int /\ i \in Int /\ "decide" \in Steps
    BY DEF Steps, ScreenInv, ScreenTypes, AskIds
  <2> QED BY <2>1, FreeTypes, DeedChanges
<1>3. deed'[t] = e /\ e.step = "decide"
  BY <1>1 DEF ScreenInv, ScreenTypes, Free
<1>4. Knows(t)'
  BY <1>3 DEF Knows
<1> QED BY <1>1, <1>2, <1>4, GoesOnFreely DEF DecisionBegins

LEMMA DecisionFindsKeeps ==
  ASSUME ScreenInv, NEW t \in Txns, DecisionFinds(t)
  PROVE  ScreenInv'
<1> DEFINE e == [deed[t] EXCEPT !.step = "decided"]
<1>1. deed[t] \in Deeds
  BY DEF ScreenInv, ScreenTypes
<1>2. e \in Deeds /\ e.step = "decided" /\ e.row = deed[t].row /\ e.began = deed[t].began
  BY <1>1 DEF Deeds, Steps
<1>3. deed' = [deed EXCEPT ![t] = e] /\ deed'[t] = e
  BY DEF ScreenInv, ScreenTypes, DecisionFinds
<1>4. /\ <<<<"ask", e.row>>, t>> \in hold' /\ UNCHANGED ask
      /\ e.row \in Pending /\ ~(ask[e.row].expires <= e.began)
  BY <1>2 DEF DecisionFinds, Takes, Due, screenRows
<1>5. e.began < ask'[e.row].expires
  BY <1>1, <1>2, <1>4 DEF ScreenInv, ScreenTypes, Pending, AskRows, Deeds
<1>6. Knows(t)'
  BY <1>2, <1>3, <1>4, <1>5 DEF Knows, Pending
<1> QED BY <1>2, <1>3, <1>6, GoesOn DEF DecisionFinds

-----------------------------------------------------------------------------
(* The steps that end, and those of no transaction.                        *)

LEMMA ScreenRollbackKeeps ==
  ASSUME ScreenInv, NEW t \in Txns, ScreenRollback(t)
  PROVE  ScreenInv'
<1> USE DEF ScreenInv
<1>1. UNCHANGED <<minute, setting, lock, ask, used, told>> /\ Ended(t)
  BY DEF ScreenRollback, screenRows
<1>2. Alone' /\ AllKnow' /\ deed' \in [Txns -> Deeds]
  BY <1>1, Ends DEF Live, Pending, NoneIsLeft
<1> QED BY <1>1, <1>2 DEF ScreenTypes, OnePending, Pending, UsageIsTheGreatest

LEMMA PolicySaveKeeps ==
  ASSUME ScreenInv, NEW t \in Txns, PolicySave(t)
  PROVE  ScreenInv'
<1> USE DEF ScreenInv
<1>1. /\ UNCHANGED <<minute, lock, ask, used, told>> /\ Ended(t)
      /\ setting' = [version |-> setting.version + 1, fields |-> deed[t].fields]
  BY DEF PolicySave
<1>2. Alone' /\ AllKnow' /\ deed' \in [Txns -> Deeds]
  BY <1>1, Ends DEF Live, Pending, NoneIsLeft
<1>3. setting'.fields \subseteq Fields
  BY <1>1 DEF ScreenTypes, Deeds
<1> QED BY <1>1, <1>2, <1>3 DEF ScreenTypes, OnePending, Pending, UsageIsTheGreatest

LEMMA PressAnsweredKeeps ==
  ASSUME ScreenInv, NEW t \in Txns, PressAnswered(t)
  PROVE  ScreenInv' /\ Live' # {}
<1> USE DEF ScreenInv
<1> DEFINE n == CHOOSE i \in LockIds : lock[i] = "none"
<1>1. /\ UNCHANGED <<minute, setting, used, told>> /\ Ended(t)
      /\ DueAreFree(t, deed[t].began) /\ ask' = Settled(deed[t].began) /\ deed[t].began \in Int
      /\ lock' = IF deed[t].row # 0 THEN lock ELSE [lock EXCEPT ![n] = "live"]
  BY DEF PressAnswered, ScreenTypes, Deeds
<1>2. Knows(t) /\ deed[t].step = "pressed"
  BY DEF AllKnow, PressAnswered, On
<1>3. deed[t].row = 0 => n \in LockIds /\ lock[n] = "none"
  BY <1>2 DEF Knows, NoneIsLeft
<1>4. /\ lock' \in [LockIds -> {"none", "live", "released"}]
      /\ \A i \in Live : i \in Live'
  BY <1>1, <1>3 DEF ScreenTypes, Live
<1>5. Live' # {}
  <2>1. CASE deed[t].row = 0
    BY <2>1, <1>1, <1>3 DEF Live, ScreenTypes
  <2>2. CASE deed[t].row # 0
    BY <2>2, <1>2, <1>4 DEF Knows
  <2> QED BY <2>1, <2>2
<1>6. ASSUME NEW u \in Txns \ {t}, <<LockEntry, u>> \in hold, ~NoneIsLeft
      PROVE  ~NoneIsLeft'
  <2>1. deed[t].row # 0
    BY <1>2, <1>6, HeldByOne DEF Knows
  <2> QED BY <1>1, <1>6, <2>1 DEF NoneIsLeft
<1>7. /\ ask' \in [AskIds -> AskRows] /\ OnePending'
      /\ \A u : u # t => \A i \in Pending : <<<<"ask", i>>, u>> \in hold =>
           i \in Pending' /\ ask'[i].expires = ask[i].expires
      /\ \A i \in Pending' : i \in Pending /\ ask'[i].expires = ask[i].expires
      /\ \A i \in AskIds : ask[i] = NoAsk => ask'[i] = NoAsk
  BY <1>1, SettlesWell
<1>8. Alone' /\ AllKnow' /\ deed' \in [Txns -> Deeds]
  BY <1>1, <1>4, <1>6, <1>7, Ends
<1> QED BY <1>1, <1>4, <1>5, <1>7, <1>8 DEF ScreenTypes, UsageIsTheGreatest

LEMMA UnlockAnsweredKeeps ==
  ASSUME ScreenInv, NEW t \in Txns, UnlockAnswered(t)
  PROVE  ScreenInv'
<1> USE DEF ScreenInv
<1> DEFINE n == deed[t].row
<1>1. n \in Live /\ <<<<"lock", n>>, t>> \in hold
  BY DEF AllKnow, UnlockAnswered, On, Knows
<1>2. /\ UNCHANGED <<minute, setting, used, told>> /\ Ended(t)
      /\ DueAreFree(t, deed[t].began) /\ ask' = Settled(deed[t].began) /\ deed[t].began \in Int
      /\ lock' = [lock EXCEPT ![n] = "released"]
  BY <1>1 DEF UnlockAnswered, ScreenTypes, Deeds
<1>3. /\ lock' \in [LockIds -> {"none", "live", "released"}]
      /\ \A i \in Live \ {n} : i \in Live'
      /\ ~NoneIsLeft => ~NoneIsLeft'
  BY <1>2, <1>1 DEF ScreenTypes, Live, NoneIsLeft
<1>4. ASSUME NEW u \in Txns \ {t}, NEW i \in Live, <<<<"lock", i>>, u>> \in hold
      PROVE  i \in Live'
  BY <1>1, <1>3, <1>4, HeldByOne
<1>5. /\ ask' \in [AskIds -> AskRows] /\ OnePending'
      /\ \A u : u # t => \A i \in Pending : <<<<"ask", i>>, u>> \in hold =>
           i \in Pending' /\ ask'[i].expires = ask[i].expires
      /\ \A i \in Pending' : i \in Pending /\ ask'[i].expires = ask[i].expires
      /\ \A i \in AskIds : ask[i] = NoAsk => ask'[i] = NoAsk
  BY <1>2, SettlesWell
<1>6. Alone' /\ AllKnow' /\ deed' \in [Txns -> Deeds]
  BY <1>2, <1>3, <1>4, <1>5, Ends
<1> QED BY <1>2, <1>3, <1>5, <1>6 DEF ScreenTypes, UsageIsTheGreatest

\* What is stored of an app and a day stays the greatest that was reported.
LEMMA GreatestStands ==
  ASSUME NEW reports \in SUBSET Nat, NEW stored \in reports \cup {0}, NEW n \in Nat,
         \A m \in reports \cup {0} : m <= stored
  PROVE  /\ Greatest(stored, n) \in reports \cup {n, 0}
         /\ \A m \in reports \cup {n, 0} : m <= Greatest(stored, n)
BY DEF Greatest, Later

LEMMA GreatestOfPairs ==
  /\ UsageIsTheGreatest <=>
       \A p \in Apps \X Days : used[p] \in told[p] \cup {0} /\ \A n \in told[p] \cup {0} : n <= used[p]
  /\ UsageIsTheGreatest' <=>
       \A p \in Apps \X Days : used'[p] \in told'[p] \cup {0} /\ \A n \in told'[p] \cup {0} : n <= used'[p]
<1>1. UsageIsTheGreatest <=>
        \A a \in Apps, d \in Days : /\ used[<<a, d>>] \in told[<<a, d>>] \cup {0}
                                    /\ \A n \in told[<<a, d>>] \cup {0} : n <= used[<<a, d>>]
  BY Zenon DEF UsageIsTheGreatest
<1>2. UsageIsTheGreatest' <=>
        \A a \in Apps, d \in Days : /\ used'[<<a, d>>] \in told'[<<a, d>>] \cup {0}
                                    /\ \A n \in told'[<<a, d>>] \cup {0} : n <= used'[<<a, d>>]
  BY Zenon DEF UsageIsTheGreatest
<1> QED BY <1>1, <1>2

LEMMA AskAnsweredKeeps ==
  ASSUME ScreenInv, NEW t \in Txns, AskAnswered(t)
  PROVE  ScreenInv'
<1> USE DEF ScreenInv
<1> DEFINE e == deed[t]
           at == <<e.on, e.day>>
           new == CHOOSE i \in AskIds : ask[i] = NoAsk
           settled == Settled(e.began)
<1>1. /\ UNCHANGED <<minute, setting, lock>> /\ Ended(t)
      /\ DueAreFree(t, e.began) /\ e.began \in Int /\ e.minutes \in Nat /\ e.asks \in Nat /\ e.at \in Int
      /\ e.step = "asked" /\ Knows(t)
  BY DEF AskAnswered, Reported, ScreenTypes, Deeds, On, AllKnow
<1>2. /\ settled \in [AskIds -> AskRows]
      /\ \A i \in AskIds : /\ settled[i].expires = ask[i].expires
                           /\ i \notin Due(e.began) => settled[i] = ask[i]
                           /\ i \in Due(e.began) => settled[i].status = "expired" /\ ask[i].status = "pending"
  BY <1>1, SettledIs
<1>3. /\ ask' \in [AskIds -> AskRows] /\ OnePending'
      /\ \A u : u # t => \A i \in Pending : <<<<"ask", i>>, u>> \in hold =>
           i \in Pending' /\ ask'[i].expires = ask[i].expires
      /\ \A u : u # t /\ <<AskEntry, u>> \in hold =>
           /\ \A i \in Pending' : i \in Pending /\ ask'[i].expires = ask[i].expires
           /\ \A i \in AskIds : ask[i] = NoAsk => ask'[i] = NoAsk
  <2>1. CASE e.asks = 0
    <3>1. ask' = Settled(e.began)
      BY <2>1 DEF AskAnswered
    <3> QED BY <3>1, <1>1, SettlesWell
  <2>2. CASE e.asks # 0
    <3>1. ask' = [settled EXCEPT ![new] = Asked(t)]
      BY <2>2 DEF AskAnswered
    <3>2. /\ <<AskEntry, t>> \in hold /\ new \in AskIds /\ ask[new] = NoAsk
          /\ \A i \in Pending : i \in Due(e.began)
      BY <2>2, <1>1 DEF Knows, Due
    <3>3. Asked(t) \in AskRows /\ Asked(t).status = "pending"
      <4>1. ExpiresAt(e.at) \in Int /\ LocalDate(e.at) \in Int
        BY <1>1, ClockTypes DEF ScreenTypes
      <4>2. Asked(t) = [status |-> "pending", asked |-> e.asks, granted |-> 0,
                        expires |-> ExpiresAt(e.at), day |-> LocalDate(e.at)]
        <5> HIDE DEF e
        <5>1. Asked(t) = [NoAsk EXCEPT !.status = "pending", !.asked = e.asks, !.expires = ExpiresAt(e.at),
                                       !.day = LocalDate(e.at)]
          BY DEF Asked, e
        <5> QED BY <5>1, Zenon DEF NoAsk
      <4> HIDE DEF e
      <4> QED BY <1>1, <4>1, <4>2 DEF AskRows
    <3>4. ask' \in [AskIds -> AskRows]
      BY <1>2, <3>1, <3>2, <3>3
    <3>5. \A i \in Pending' : i = new
      BY <1>2, <3>1, <3>2 DEF Pending
    <3>6. ASSUME NEW u, u # t, NEW i \in Pending, <<<<"ask", i>>, u>> \in hold
          PROVE  FALSE
      BY <3>2, <3>6, <1>1, ObtainableIsFree DEF DueAreFree
    <3>7. ASSUME NEW u, u # t, <<AskEntry, u>> \in hold
          PROVE  FALSE
      BY <3>2, <3>7, HeldByOne
    <3>8. OnePending'
      BY <3>5 DEF OnePending
    <3> QED BY <3>4, <3>6, <3>7, <3>8
  <2> QED BY <2>1, <2>2
<1>4. Alone' /\ AllKnow' /\ deed' \in [Txns -> Deeds]
  BY <1>1, <1>3, Ends DEF Live, NoneIsLeft
<1>5. /\ used' \in [Apps \X Days -> Nat] /\ told' \in [Apps \X Days -> SUBSET Nat]
      /\ UsageIsTheGreatest'
  <2>1. CASE e.on = "none"
    BY <2>1 DEF AskAnswered, Reported, ScreenTypes, UsageIsTheGreatest
  <2>2. CASE e.on # "none"
    <3>1. /\ at \in Apps \X Days /\ used[at] \in Nat /\ told[at] \in SUBSET Nat
          /\ used' = [used EXCEPT ![at] = Greatest(used[at], e.minutes)]
          /\ told' = [told EXCEPT ![at] = told[at] \cup {e.minutes}]
      BY <2>2, <1>1 DEF AskAnswered, Reported, Knows, ScreenTypes
    <3>2. used[at] \in told[at] \cup {0} /\ \A n \in told[at] \cup {0} : n <= used[at]
      BY <3>1, GreatestOfPairs
    <3>3. /\ Greatest(used[at], e.minutes) \in told[at] \cup {e.minutes, 0}
          /\ \A n \in told[at] \cup {e.minutes, 0} : n <= Greatest(used[at], e.minutes)
      BY <3>1, <3>2, <1>1, GreatestStands
    <3>4. Greatest(used[at], e.minutes) \in Nat
      BY <3>1, <1>1 DEF Greatest, Later
    <3>5. used' \in [Apps \X Days -> Nat] /\ told' \in [Apps \X Days -> SUBSET Nat]
      BY <3>1, <3>4, <1>1 DEF ScreenTypes
    <3>6. ASSUME NEW p \in Apps \X Days
          PROVE  used'[p] \in told'[p] \cup {0} /\ \A n \in told'[p] \cup {0} : n <= used'[p]
      <4>1. CASE p = at
        BY <4>1, <3>1, <3>3 DEF ScreenTypes
      <4>2. CASE p # at
        <5>1. used'[p] = used[p] /\ told'[p] = told[p]
          BY <4>2, <3>1 DEF ScreenTypes
        <5> QED BY <5>1, GreatestOfPairs
      <4> QED BY <4>1, <4>2
    <3> QED BY <3>5, <3>6, GreatestOfPairs
  <2> QED BY <2>1, <2>2
<1> QED BY <1>1, <1>3, <1>4, <1>5 DEF ScreenTypes

LEMMA DecisionAnsweredKeeps ==
  ASSUME ScreenInv, NEW t \in Txns, DecisionAnswered(t)
  PROVE  ScreenInv'
<1> USE DEF ScreenInv
<1> DEFINE i == deed[t].row
<1>1. /\ UNCHANGED <<minute, setting, rule, inventory, lock, used, told>> /\ Ended(t)
      /\ i \in Pending /\ i \in AskIds /\ <<<<"ask", i>>, t>> \in hold
  BY DEF DecisionAnswered, AllKnow, Knows, On, Pending
<1>2. PICK row \in AskRows : /\ ask' = [ask EXCEPT ![i] = row]
                             /\ row.status # "pending" /\ row.expires = ask[i].expires
  <2>1. ask[i] \in AskRows
    BY <1>1 DEF ScreenTypes
  <2>2. CASE ask' = [ask EXCEPT ![i].status = "denied"]
    <3>1. [ask[i] EXCEPT !.status = "denied"] \in AskRows
      BY <2>1 DEF AskRows
    <3> QED BY <2>1, <2>2, <3>1 DEF AskRows
  <2>3. CASE \E n \in 1..ask[i].asked : ask' = [ask EXCEPT ![i].status = "approved", ![i].granted = n]
    <3>1. PICK n \in 1..ask[i].asked : ask' = [ask EXCEPT ![i].status = "approved", ![i].granted = n]
      BY <2>3
    <3> DEFINE row == [ask[i] EXCEPT !.status = "approved", !.granted = n]
    <3>2. n \in Int
      BY <2>1 DEF AskRows
    <3>3. row \in AskRows /\ row.status # "pending" /\ row.expires = ask[i].expires
      BY <2>1, <3>2 DEF AskRows
    <3>4. ask' = [ask EXCEPT ![i] = row]
      BY <3>1, <1>1 DEF ScreenTypes
    <3> QED BY <3>3, <3>4
  <2> QED BY <2>2, <2>3 DEF DecisionAnswered
<1>3. /\ ask' \in [AskIds -> AskRows]
      /\ \A j \in AskIds : /\ ask'[j].expires = ask[j].expires
                           /\ j # i => ask'[j] = ask[j]
      /\ i \notin Pending'
  BY <1>1, <1>2 DEF ScreenTypes, Pending
<1>4. \A j \in Pending' : j \in Pending
  BY <1>3 DEF Pending
<1>5. ASSUME NEW u, u # t, NEW j \in Pending, <<<<"ask", j>>, u>> \in hold
      PROVE  j \in Pending'
  <2>1. j # i
    BY <1>1, <1>5, HeldByOne
  <2> QED BY <2>1, <1>3, <1>5 DEF Pending
<1>6. \A j \in AskIds : ask[j] = NoAsk => ask'[j] = NoAsk
  BY <1>1, <1>3 DEF Pending, NoAsk
<1>7. \A j \in Pending' : ask'[j].expires = ask[j].expires
  BY <1>3 DEF Pending
<1>8. \A j \in Pending : ask'[j].expires = ask[j].expires
  BY <1>3 DEF Pending
<1>9. Alone' /\ AllKnow' /\ deed' \in [Txns -> Deeds]
  BY <1>1, <1>4, <1>5, <1>6, <1>7, <1>8, Ends DEF Live, NoneIsLeft
<1>10. OnePending'
  BY <1>4 DEF OnePending
<1> QED BY <1>1, <1>3, <1>9, <1>10 DEF ScreenTypes, UsageIsTheGreatest

-----------------------------------------------------------------------------
(* The steps of no transaction.                                            *)

LEMMA ClockKeeps ==
  ASSUME ScreenInv, ClockTicks, UNCHANGED <<screenRows, deed>>
  PROVE  ScreenInv'
<1> USE DEF ScreenInv
<1>1. minute' = minute + 1 /\ UNCHANGED <<setting, lock, ask, used, told, hold, deed>>
  BY DEF ClockTicks, screenRows
<1>2. ASSUME NEW u \in Txns PROVE Knows(u)'
  BY <1>1, KnowsOn DEF AllKnow, Live, NoneIsLeft, Pending
<1>3. ScreenTypes'
  BY <1>1 DEF ScreenTypes
<1>4. Alone' /\ OnePending'
  BY <1>1 DEF Alone, OnePending, Pending
<1>5. UsageIsTheGreatest'
  BY <1>1, GreatestOfPairs
<1> QED BY <1>2, <1>3, <1>4, <1>5 DEF AllKnow

LEMMA SettlesKeeps ==
  ASSUME ScreenInv, Settles
  PROVE  ScreenInv'
<1> USE DEF ScreenInv
<1>1. /\ UNCHANGED <<minute, setting, lock, used, told, hold, deed>> /\ ask' = Settled(minute)
      /\ minute \in Int
      /\ \A t : DueAreFree(t, minute)
  BY DEF Settles, DueAreFree, Obtainable, ScreenTypes
<1>2. ASSUME NEW u \in Txns PROVE Knows(u)'
  <2>1. PICK t : t # u
    <3>1. 0 # u \/ 1 # u
      OBVIOUS
    <3> QED BY <3>1
  <2>2. /\ \A i \in Pending : <<<<"ask", i>>, u>> \in hold => i \in Pending' /\ ask'[i].expires = ask[i].expires
        /\ \A i \in Pending' : i \in Pending /\ ask'[i].expires = ask[i].expires
        /\ \A i \in AskIds : ask[i] = NoAsk => ask'[i] = NoAsk
    BY <1>1, <2>1, SettlesWell
  <2> QED BY <1>1, <2>2, KnowsOn DEF AllKnow, Live, NoneIsLeft
<1>3. ask' \in [AskIds -> AskRows] /\ OnePending'
  BY <1>1, SettlesWell
<1> QED BY <1>1, <1>2, <1>3 DEF AllKnow, ScreenTypes, Alone, UsageIsTheGreatest

LEMMA OthersKeep ==
  ASSUME ScreenInv, UNCHANGED <<minute, setting, lock, ask, used, told, hold, deed>>
  PROVE  ScreenInv'
BY DEF ScreenInv, ScreenTypes, Alone, AllKnow, Knows, Live, NoneIsLeft, Pending, OnePending, UsageIsTheGreatest

-----------------------------------------------------------------------------
LEMMA ScreenBegins == ScreenInit => ScreenInv
<1> SUFFICES ASSUME ScreenInit PROVE ScreenInv
  OBVIOUS
<1>1. NoAsk \in AskRows /\ NoAsk.status # "pending"
  BY DEF NoAsk, AskRows
<1>2. ScreenTypes
  <2>1. setting.fields \subseteq Fields
    BY ScreenAssumption DEF ScreenInit
  <2>2. ask \in [AskIds -> AskRows] /\ deed \in [Txns -> Deeds] /\ minute \in Nat
    BY <1>1, FreeTypes DEF ScreenInit
  <2>3. used = [at \in Apps \X Days |-> 0] /\ told = [at \in Apps \X Days |-> {}]
    BY DEF ScreenInit
  <2>4. lock \in [LockIds -> {"none", "live", "released"}]
    BY DEF ScreenInit
  <2> QED BY <2>1, <2>2, <2>3, <2>4 DEF ScreenTypes
<1>3. Pending = {}
  BY <1>1 DEF ScreenInit, Pending
<1>4. Alone /\ OnePending
  BY <1>3 DEF ScreenInit, Alone, OnePending
<1>5. AllKnow
  BY FreeKnows DEF AllKnow, ScreenInit, Free
<1>6. UsageIsTheGreatest
  <2>1. used = [at \in Apps \X Days |-> 0] /\ told = [at \in Apps \X Days |-> {}]
    BY DEF ScreenInit
  <2> QED BY <2>1, GreatestOfPairs
<1> QED BY <1>2, <1>4, <1>5, <1>6 DEF ScreenInv

LEMMA ScreenSteps == ScreenInv /\ [ScreenNext]_screenVars => ScreenInv'
<1> SUFFICES ASSUME ScreenInv, [ScreenNext]_screenVars PROVE ScreenInv'
  OBVIOUS
<1>1. ASSUME ClockTicks, UNCHANGED <<screenRows, deed>> PROVE ScreenInv'
  BY <1>1, ClockKeeps
<1>2. ASSUME Settles PROVE ScreenInv'
  BY <1>2, SettlesKeeps
<1>3. ASSUME NEW a, NEW ruling, RuleUpdated(a, ruling) PROVE ScreenInv'
  BY <1>3, OthersKeep DEF RuleUpdated, Ruled
<1>4. ASSUME NEW t \in Txns, ScreenWork(t) PROVE ScreenInv'
  BY <1>4, PolicyOpenKeeps, PolicySaveKeeps, SeeLockKeeps, LockFoundKeeps, PressInsertsKeeps,
     PressAnsweredKeeps, UnlockAnsweredKeeps, AskBeginsKeeps, ReportArrivesKeeps, ReportBeginsKeeps,
     AskFindsKeeps, AskInsertsKeeps, AskAnsweredKeeps, DecisionBeginsKeeps, DecisionFindsKeeps,
     DecisionAnsweredKeeps, ScreenRollbackKeeps DEF ScreenWork
<1>5. ASSUME UNCHANGED screenVars PROVE ScreenInv'
  BY <1>5, OthersKeep DEF screenVars, screenRows
<1> QED BY <1>1, <1>2, <1>3, <1>4, <1>5 DEF ScreenNext, ReadScreen, ListRequests, DeviceReadsScreen

\* What the rows and the transactions of a screen know of each other stands at every moment.
THEOREM ScreenInvariant == ScreenSpec => []ScreenInv
<1>1. ScreenInit => ScreenInv
  BY ScreenBegins
<1>2. ScreenInv /\ [ScreenNext]_screenVars => ScreenInv'
  BY ScreenSteps
<1> QED BY <1>1, <1>2, PTL DEF ScreenSpec

\* Whatever order reports and their repeats commit in, what is stored of an app and a day is the
\* greatest that a handset was answered for (upsertUsage).
THEOREM MinutesAreTheGreatest == ScreenSpec => []UsageIsTheGreatest
<1>1. ScreenInv => UsageIsTheGreatest
  BY DEF ScreenInv
<1> QED BY <1>1, ScreenInvariant, PTL

\* A press that is answered leaves a live lock (lockFamilyScreen).
THEOREM PressLocks == ScreenSpec => PressLeavesALock
<1>1. ASSUME ScreenInv, [ScreenNext]_screenVars
      PROVE  \A t \in Txns : PressAnswered(t) => Live' # {}
  BY <1>1, PressAnsweredKeeps
<1> QED BY <1>1, ScreenInvariant, PTL DEF ScreenSpec, PressLeavesALock

-----------------------------------------------------------------------------
(* A question is answered once.                                            *)

Answers == {"approved", "denied", "expired"}
KeepsAnswers ==
  \A i \in AskIds :
    /\ ask[i].status \in Answers => ask'[i] = ask[i]
    /\ ask[i].status = "pending" => ask'[i].status \notin {"approved", "denied"}

LEMMA SettledKeepsAnswers ==
  ASSUME ScreenTypes, NEW began \in Int, ask' = Settled(began)
  PROVE  KeepsAnswers
<1>1. \A i \in AskIds : /\ i \notin Due(began) => ask'[i] = ask[i]
                        /\ i \in Due(began) => ask'[i].status = "expired" /\ ask[i].status = "pending"
  BY SettledIs
<1> QED BY <1>1 DEF KeepsAnswers, Answers

\* Every step but a guardian's answer keeps the answers, and gives none.
LEMMA OnlyDecisionsAnswer ==
  ASSUME ScreenInv, [ScreenNext]_screenVars, \A t \in Txns : ~DecisionAnswered(t)
  PROVE  KeepsAnswers
<1>1. CASE ask' = ask
  BY <1>1 DEF KeepsAnswers, Answers
<1>2. CASE Settles
  BY <1>2, SettledKeepsAnswers DEF Settles, ScreenInv, ScreenTypes
<1>3. ASSUME NEW t \in Txns, PressAnswered(t) \/ UnlockAnswered(t)
      PROVE  KeepsAnswers
  <2>1. ask' = Settled(deed[t].began) /\ deed[t].began \in Int
    BY <1>3 DEF PressAnswered, UnlockAnswered, ScreenInv, ScreenTypes, Deeds
  <2> QED BY <2>1, SettledKeepsAnswers DEF ScreenInv
<1>4. ASSUME NEW t \in Txns, AskAnswered(t)
      PROVE  KeepsAnswers
  <2>1. deed[t].began \in Int /\ Knows(t) /\ ScreenTypes
    BY DEF ScreenInv, ScreenTypes, Deeds, AllKnow
  <2>2. CASE deed[t].asks = 0
    BY <1>4, <2>1, <2>2, SettledKeepsAnswers DEF AskAnswered
  <2>3. CASE deed[t].asks # 0
    <3> DEFINE new == CHOOSE i \in AskIds : ask[i] = NoAsk
               settled == Settled(deed[t].began)
    <3>1. new \in AskIds /\ ask[new] = NoAsk
      BY <1>4, <2>1, <2>3 DEF Knows, AskAnswered, On
    <3>2. ask' = [settled EXCEPT ![new] = Asked(t)]
      BY <1>4, <2>3 DEF AskAnswered
    <3>3. /\ settled \in [AskIds -> AskRows]
          /\ \A i \in AskIds : /\ i \notin Due(deed[t].began) => settled[i] = ask[i]
                               /\ i \in Due(deed[t].began) =>
                                    settled[i].status = "expired" /\ ask[i].status = "pending"
      BY <2>1, SettledIs
    <3> HIDE DEF new, settled
    <3>4. ASSUME NEW i \in AskIds, i # new
          PROVE  /\ ask[i].status \in Answers => ask'[i] = ask[i]
                 /\ ask[i].status = "pending" => ask'[i].status \notin {"approved", "denied"}
      BY <3>2, <3>3, <3>4 DEF Answers
    <3>5. ask[new].status = "none"
      BY <3>1 DEF NoAsk
    <3> QED BY <3>4, <3>5 DEF KeepsAnswers, Answers
  <2> QED BY <2>2, <2>3
<1>5. ASSUME NEW t \in Txns, ScreenWork(t)
      PROVE  ask' = ask \/ PressAnswered(t) \/ UnlockAnswered(t) \/ AskAnswered(t)
  BY <1>5, Zenon DEF ScreenWork, PolicyOpen, PolicySave, SeeLock, PressFinds, UnlockFinds, LockFound, PressInserts,
     AskBegins, ReportArrives, ReportBegins, AskFinds, AskInserts, DecisionBegins, DecisionFinds,
     ScreenRollback, screenRows
<1>6. Settles \/ ask' = ask \/ \E t \in Txns : ScreenWork(t)
  BY DEF ScreenNext, screenVars, screenRows, ReadScreen, ListRequests, DeviceReadsScreen, RuleUpdated
<1> QED BY <1>1, <1>2, <1>3, <1>4, <1>5, <1>6

\* A guardian's answer is about a question that waits and was not over when it began.
LEMMA DecisionsAnswerOnce ==
  ASSUME ScreenInv, NEW t \in Txns, DecisionAnswered(t), NEW i \in AskIds
  PROVE  /\ ask[i].status \in Answers => ask'[i] = ask[i]
         /\ ask[i].status = "pending" /\ ask'[i].status \in {"approved", "denied"} =>
              On(t, "decided") /\ deed[t].row = i /\ deed[t].began < ask[i].expires /\ deed'[t] = Free
<1>1. /\ deed[t].row \in Pending /\ deed[t].began < ask[deed[t].row].expires
      /\ On(t, "decided") /\ deed'[t] = Free
  BY DEF ScreenInv, ScreenTypes, AllKnow, Knows, DecisionAnswered, On, Ended
<1>2. i # deed[t].row => ask'[i] = ask[i]
  BY DEF DecisionAnswered, ScreenInv, ScreenTypes
<1>3. CASE i = deed[t].row
  BY <1>1, <1>3 DEF Pending, Answers
<1>4. CASE i # deed[t].row
  BY <1>2, <1>4
<1> QED BY <1>3, <1>4

LEMMA AtMostOne ==
  ASSUME NEW S, \A i \in S, j \in S : i = j
  PROVE  Cardinality(S) <= 1
<1>1. CASE S = {}
  BY <1>1, FS_EmptySet
<1>2. CASE S # {}
  <2>1. PICK i \in S : TRUE
    BY <1>2
  <2>2. S = {i}
    BY <2>1
  <2>3. Cardinality({i}) = 1
    BY FS_Singleton
  <2> QED BY <2>2, <2>3
<1> QED BY <1>1, <1>2

\* A question is answered once, in time, by one guardian or by the clock, and no more than one
\* waits at a time (createFamilyTimeRequest, decideFamilyTimeRequest, expirePendingRequests).
THEOREM QuestionsAreAnsweredOnce == ScreenSpec => OneAnswer
<1>1. ASSUME ScreenInv, [ScreenNext]_screenVars
      PROVE  AnswersStepwise
  <2>1. \A i \in Pending', j \in Pending' : i = j
    BY <1>1, ScreenSteps DEF ScreenInv, OnePending
  <2>2. Cardinality(Pending') <= 1
    BY <2>1, AtMostOne
  <2>3. CASE \E t \in Txns : DecisionAnswered(t)
    BY <1>1, <2>2, <2>3, DecisionsAnswerOnce DEF Answers, AnswersStepwise
  <2>4. CASE \A t \in Txns : ~DecisionAnswered(t)
    BY <1>1, <2>2, <2>4, OnlyDecisionsAnswer DEF KeepsAnswers, Answers, AnswersStepwise
  <2> QED BY <2>3, <2>4
<1> QED BY <1>1, ScreenInvariant, PTL DEF ScreenSpec, OneAnswer

=============================================================================
