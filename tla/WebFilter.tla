------------------------------ MODULE WebFilter ------------------------------
(***************************************************************************)
(* The web filter of one child, as web-filter.js keeps it: the policy that *)
(* screens read and save, the questions that open one host for some        *)
(* minutes, and what handsets report of their protection.                  *)
(***************************************************************************)
EXTENDS Transactions

CONSTANTS Hosts,         \* normalized hosts, as they are asked for and listed
          Within,        \* Within[h]: the entries of a list that h is or lies under
          Screens,       \* of guardians
          Devices,
          MaxSaves, MaxDoors, MaxReports,  \* bounds: rows
          MaxGrant,      \* bound: TEMP_ALLOW_MINUTES_CEILING
          Freshness      \* PROTECTION_FRESHNESS_MINUTES

ASSUME WebAssumption ==
  /\ {MaxSaves, MaxDoors, MaxReports, MaxGrant, Freshness} \subseteq Nat
  /\ Within \in [Hosts -> SUBSET Hosts]

VARIABLES
  filter,   \* family_web_filter_policies, version 0 where there is no row
  shown,    \* shown[s]: the policy a screen read, the version it was told and its last answer
  door,     \* family_web_filter_temp_allows
  spoken,   \* family_device_protection_reports
  visit     \* visit[t]: a transaction

webRows == <<filter, shown, door, spoken>>
webVars == <<minute, hold, webRows, visit>>

-----------------------------------------------------------------------------
(* The laws.                                                               *)

\* hostInList.
Listed(host, list) == Within[host] \cap list # {}

\* evaluateWebRequest: why a host is denied, or "none".  word and category say whether the
\* dictionary or an enabled category hits it.
DenySource(host, block, open, allow, word, category) ==
  IF Listed(host, block) THEN "blocklist"
  ELSE IF Listed(host, open) \/ Listed(host, allow) THEN "none"
  ELSE IF word THEN "dictionary"
  ELSE IF category THEN "category" ELSE "none"

\* tempAllowState, at a minute.
DoorState(d, now) ==
  IF d.status = "approved" THEN IF d.expires <= now THEN "expired" ELSE "active" ELSE d.status
\* activeTempAllowHosts.
OpenHosts(doors, now) == {d.host : d \in {e \in doors : DoorState(e, now) = "active"}}

\* computeProtectionHealth, of the newest report of a device; a tamper state is one word.
Health(latest, now) ==
  IF latest.says = "nothing" THEN "unverified"
  ELSE IF latest.says = "unsupported" THEN "unsupported"
  ELSE IF now - latest.at > Freshness THEN "unverified"
  ELSE IF latest.says = "tampered" THEN "at_risk"
  ELSE IF latest.says = "healthy" THEN "protected" ELSE "unverified"

-----------------------------------------------------------------------------
DoorIds == 1..MaxDoors
FilterRow == <<"filter", 0>>
NoDoor == [status |-> "none", host |-> "none", asked |-> 0, granted |-> 0, expires |-> 0]
Silence == [says |-> "nothing", order |-> 0, at |-> 0, observed |-> 0]
Away == [step |-> "away", on |-> 0, states |-> FALSE, at |-> 0,
         policy |-> [version |-> 0, allow |-> {}, block |-> {}],  \* the row it read, merged
         door |-> NoDoor, report |-> Silence]

WebInit ==
  /\ minute = 0 /\ hold = {}
  /\ filter = Away.policy
  /\ shown = [s \in Screens |-> [of |-> filter, version |-> 0, answer |-> "none"]]
  /\ door = [i \in DoorIds |-> NoDoor]
  /\ spoken = [d \in Devices |-> {}]
  /\ visit = [t \in Txns |-> Away]

In(t, step) == visit[t].step = step
Leaves(t) == /\ Releases(t)
             /\ visit' = [visit EXCEPT ![t] = Away]

\* A refusal, an error, or a server that stopped.
WebRollback(t) ==
  /\ ~In(t, "away")
  /\ Leaves(t)
  /\ UNCHANGED <<minute, webRows>>

-----------------------------------------------------------------------------
(* The policy.                                                             *)

\* policyView of the row or, where there is none, of the default, which is version 1.
PolicyView == [of |-> filter, answer |-> "read", version |-> IF filter.version = 0 THEN 1 ELSE filter.version]

\* readWebFilterPolicy.
ScreenReads(s) ==
  /\ shown' = [shown EXCEPT ![s] = PolicyView]
  /\ UNCHANGED <<minute, hold, filter, door, spoken, visit>>

\* mergePolicy: a patch replaces one list; requireCoherentPolicy: no host is on both.
Merged(policy) ==
  {p \in {[policy EXCEPT !.allow = hosts] : hosts \in SUBSET Hosts}
         \cup {[policy EXCEPT !.block = hosts] : hosts \in SUBSET Hosts} :
     p.allow \cap p.block = {}}

\* The version a save states is not the one that is stored (0 where there is no row).
Stale(s, states) == states /\ shown[s].version # filter.version

\* Mutant of SaveOpens: the stated version is not compared.
SaveOpensUnchecked(t, s, states) ==
  /\ In(t, "away") /\ shown[s].answer = "read"
  /\ \A u \in Txns : In(u, "save") => visit[u].on # s
  /\ filter.version < MaxSaves
  /\ Obtainable(t, FilterRow)
  /\ \E p \in Merged(filter) :
       visit' = [visit EXCEPT ![t] = [Away EXCEPT !.step = "save", !.on = s, !.states = states, !.policy = p]]
  /\ IF filter.version > 0 THEN Takes(t, {FilterRow}) ELSE hold' = hold
  /\ UNCHANGED <<minute, webRows>>

\* updateWebFilterPolicy up to the write: the row is read FOR UPDATE, if there is one.
SaveOpens(t, s, states) ==
  /\ In(t, "away") /\ shown[s].answer = "read"
  /\ \A u \in Txns : In(u, "save") => visit[u].on # s
  /\ filter.version < MaxSaves
  /\ Obtainable(t, FilterRow) /\ ~Stale(s, states)
  /\ \E p \in Merged(filter) :
       visit' = [visit EXCEPT ![t] = [Away EXCEPT !.step = "save", !.on = s, !.states = states, !.policy = p]]
  /\ IF filter.version > 0 THEN Takes(t, {FilterRow}) ELSE hold' = hold
  /\ UNCHANGED <<minute, webRows>>

\* web_filter_stale_version.
SaveRefused(s) ==
  /\ shown[s].answer = "read"
  /\ \A u \in Txns : In(u, "save") => visit[u].on # s
  /\ \A h \in hold : h[1] # FilterRow
  /\ Stale(s, TRUE)
  /\ shown' = [shown EXCEPT ![s].answer = "stale"]
  /\ UNCHANGED <<minute, hold, filter, door, spoken, visit>>

\* upsertPolicy: the whole merged policy, whatever version it finds.
SaveWrites(t) ==
  /\ In(t, "save") /\ Obtainable(t, FilterRow)
  /\ filter' = [visit[t].policy EXCEPT !.version = filter.version + 1]
  /\ shown' = [shown EXCEPT ![visit[t].on].answer = "saved"]
  /\ Leaves(t)
  /\ UNCHANGED <<minute, door, spoken>>

-----------------------------------------------------------------------------
(* Questions for one host.                                                 *)

\* lockOpenQuestion: the advisory lock of the child and a host.
Question(host) == <<"question", host>>
Waiting(host) == {i \in DoorIds : door[i].status = "pending" /\ door[i].host = host}

\* Mutant of DoorLooks: without the advisory lock.
DoorLooksUnlocked(t) ==
  /\ In(t, "away")
  /\ \E host \in Hosts, n \in 1..MaxGrant :
       /\ Waiting(host) = {}
       /\ visit' = [visit EXCEPT ![t] = [Away EXCEPT !.step = "ask",
                      !.door = [NoDoor EXCEPT !.status = "pending", !.host = host, !.asked = n]]]
  /\ UNCHANGED <<minute, hold, webRows>>

\* requestTempAllow of a handset or a guardian: lockOpenQuestion, then readOpenQuestion, which
\* refuses where one waits.
DoorLooks(t) ==
  /\ In(t, "away")
  /\ \E host \in Hosts, n \in 1..MaxGrant :
       /\ Obtainable(t, Question(host)) /\ Waiting(host) = {}
       /\ Takes(t, {Question(host)})
       /\ visit' = [visit EXCEPT ![t] = [Away EXCEPT !.step = "ask",
                      !.door = [NoDoor EXCEPT !.status = "pending", !.host = host, !.asked = n]]]
  /\ UNCHANGED <<minute, webRows>>

\* insertTempAllow; a unique index refuses a second question that waits.
DoorAsked(t) ==
  /\ In(t, "ask") /\ Waiting(visit[t].door.host) = {}
  /\ \E i \in DoorIds : /\ door[i] = NoDoor /\ \A j \in 1..i - 1 : door[j] # NoDoor
                        /\ door' = [door EXCEPT ![i] = visit[t].door]
  /\ Leaves(t)
  /\ UNCHANGED <<minute, filter, shown, spoken>>

\* decideTempAllow: the question FOR UPDATE, then the clock of the server.
DoorFound(t) ==
  /\ In(t, "away")
  /\ \E i \in DoorIds :
       /\ Obtainable(t, <<"door", i>>) /\ DoorState(door[i], minute) = "pending"
       /\ Takes(t, {<<"door", i>>})
       /\ visit' = [visit EXCEPT ![t] = [Away EXCEPT !.step = "decide", !.on = i, !.at = minute]]
  /\ UNCHANGED <<minute, webRows>>

\* No more minutes than were asked for, from the clock it read.
DoorAnswered(t) ==
  LET i == visit[t].on
  IN /\ In(t, "decide") /\ door[i].status = "pending"
     /\ \/ door' = [door EXCEPT ![i].status = "denied"]
        \/ \E n \in 1..door[i].asked :
             door' = [door EXCEPT ![i].status = "approved", ![i].granted = n, ![i].expires = visit[t].at + n]
     /\ Leaves(t)
     /\ UNCHANGED <<minute, filter, shown, spoken>>

-----------------------------------------------------------------------------
(* What handsets say of their protection.                                  *)

Orders(d) == {0} \cup {r.order : r \in spoken[d]}
             \cup {visit[t].report.order : t \in {u \in Txns : visit[u].on = d}}

\* reportDeviceProtection: reported_at is the beginning of the transaction; observed_at is the
\* handset's own clock.
ReportOpens(t, d) ==
  /\ In(t, "away")
  /\ \E n \in 1..MaxReports, says \in {"healthy", "tampered", "unsupported"}, observed \in 0..1 :
       /\ n - 1 \in Orders(d) /\ \A o \in Orders(d) : o < n
       /\ visit' = [visit EXCEPT ![t] = [Away EXCEPT !.step = "report", !.on = d,
            !.report = [says |-> says, order |-> n, at |-> minute, observed |-> observed]]]
  /\ UNCHANGED <<minute, hold, webRows>>

\* insertProtectionReport, touchDeviceSeen and the commit, in any order of the beginnings.
ReportStands(t, d) ==
  /\ In(t, "report") /\ visit[t].on = d
  /\ Obtainable(t, <<"seen", d>>)
  /\ spoken' = [spoken EXCEPT ![d] = @ \cup {visit[t].report}]
  /\ Leaves(t)
  /\ UNCHANGED <<minute, filter, shown, door>>

\* Mutant of Latest: the handset's clock orders its reports.
LatestObserved(reports) ==
  IF reports = {} THEN Silence ELSE CHOOSE r \in reports : \A q \in reports : q.observed <= r.observed
\* readLatestProtectionReport.
Latest(reports) ==
  IF reports = {} THEN Silence ELSE CHOOSE r \in reports : \A q \in reports : q.order <= r.order

Shield(d) == Health(Latest(spoken[d]), minute)

WebWork(t) ==
  \/ \E s \in Screens, states \in BOOLEAN : SaveOpens(t, s, states)
  \/ SaveWrites(t)
  \/ DoorLooks(t) \/ DoorAsked(t) \/ DoorFound(t) \/ DoorAnswered(t)
  \/ \E d \in Devices : ReportOpens(t, d) \/ ReportStands(t, d)
  \/ WebRollback(t)

WebNext ==
  \/ ClockTicks /\ UNCHANGED <<webRows, visit>>
  \/ \E s \in Screens : ScreenReads(s) \/ SaveRefused(s)
  \/ \E t \in Txns : WebWork(t)

WebSpec == WebInit /\ [][WebNext]_webVars

-----------------------------------------------------------------------------
(* Properties.                                                             *)

\* The policy a screen read or, where it was shown the default as version 1, the first row.
Foreseen(policy, of) == policy = of \/ (of.version = 0 /\ policy.version = 1)

\* A save that states a version overwrites the policy its screen read: of what other guardians
\* saved since, at most the very first policy of the child is lost, over which a screen that was
\* shown the default states its version 1 (policyView of no row, updateWebFilterPolicy).
StatedSaveLosesOnlyTheFirst ==
  [][\A t \in Txns :
       (SaveWrites(t) /\ visit[t].states) => Foreseen(filter, shown[visit[t].on].of)]_webVars

\* A save is refused as stale only when the policy changed since the screen read it.
RefusedOnlyWhenChanged ==
  [][\A s \in Screens :
       (shown[s].answer = "read" /\ shown'[s].answer = "stale") => filter # shown[s].of]_webVars

\* Two presses about one host are one question and one clean refusal: an insertion never meets
\* another question, waiting or about to be inserted, for the unique index to refuse.
OneQuestionPerDoor ==
  \A t \in Txns : In(t, "ask") =>
    /\ Waiting(visit[t].door.host) = {}
    /\ \A u \in Txns \ {t} : In(u, "ask") => visit[u].door.host # visit[t].door.host

\* A report of tampering is not hidden: a handset is shown as protected only by a fresh report
\* that began after every report of tampering, whatever the handset's clock says and in
\* whatever order the reports commit.
TamperIsNotHidden ==
  \A d \in Devices : Shield(d) = "protected" =>
    \E r \in spoken[d] : /\ r.says = "healthy" /\ minute - r.at <= Freshness
                         /\ \A q \in spoken[d] : q.says = "tampered" => q.order < r.order
=============================================================================
