---------------------------- MODULE FamilyCalendar ----------------------------
(***************************************************************************)
(* One family event, as calendar.js keeps it: stated, changed by guardians *)
(* from what their screens read, answered, attended and called off.  Every *)
(* operation but the first holds the row of the event from its first read  *)
(* to its end, so an answer, a record and a cancellation are one step; a   *)
(* change of the audience writes in more than one statement.               *)
(***************************************************************************)
EXTENDS FamilyCircle

CONSTANTS MaxVersions,  \* bound: changes of the event
          MaxStart      \* bound: the times it may be planned for

ASSUME CalendarAssumption == MaxVersions \in Nat /\ MaxStart \in Nat

VARIABLES
  event,      \* family_events: its version (0 before it is stated), status, start and audience
  invited,    \* family_event_audience
  answered,   \* family_event_responses: the children who answered
  attended,   \* family_event_attendance: the children somebody recorded
  archived,   \* the children who left the family
  read,       \* read[g]: the event and its audience, as a guardian's screen last read them
  change      \* change[t]: a transaction that changes the event

planRows == <<event, invited, answered, attended, archived>>
calendarVars == <<minute, hold, circle, planRows, read, change>>

EventRow == <<"event", 0>>
NoEvent == [version |-> 0, status |-> "none", starts |-> 0, audience |-> FALSE]
Stored == [event |-> event, invited |-> invited]
Idle == [step |-> "idle", by |-> "nobody", row |-> NoEvent, kids |-> {}]

CalendarInit ==
  /\ minute = 0 /\ hold = {} /\ CircleInit
  /\ event = NoEvent
  /\ invited = {} /\ answered = {} /\ attended = {} /\ archived = {}
  /\ read = [g \in Guardians |-> [event |-> NoEvent, invited |-> {}]]
  /\ change = [t \in Txns |-> Idle]

Stands == event.status = "scheduled"
RowIsFree == \A h \in hold : h[1] # EventRow
EndsChange(t) == /\ Releases(t)
                 /\ change' = [change EXCEPT ![t] = Idle]

\* A refusal, an error of a statement, or a server that stopped.
ChangeRollback(t) ==
  /\ change[t] # Idle
  /\ EndsChange(t)
  /\ UNCHANGED <<minute, circle, planRows, read>>

\* removeChild, as far as a calendar sees it.
ChildIsArchived ==
  /\ \E k \in Kids \ archived : archived' = archived \cup {k}
  /\ UNCHANGED <<minute, hold, circle, event, invited, answered, attended, read, change>>

\* insertAudience: the children who are invited from now on.
Invites(kids) == invited' = kids

\* createFamilyEvent: not in the past, for children of the family and, where there is an
\* audience, of it; without names, for all children in it.
EventStated(g) ==
  /\ event = NoEvent
  /\ \E starts \in minute..MaxStart, audience \in BOOLEAN, kids \in SUBSET Kids :
       /\ Included(audience, {g} \cup kids)
       /\ IF audience THEN kids # {} \/ Kids \cap circle = {} ELSE kids # {}
       /\ kids \cap archived = {}
       /\ event' = [version |-> 1, status |-> "scheduled", starts |-> starts, audience |-> audience]
       /\ Invites(kids)
  /\ UNCHANGED <<minute, hold, circle, answered, attended, archived, read, change>>

\* listFamilyEvents, for a guardian who sits in the audience with one of its children.
ScreenLists(g) ==
  /\ event # NoEvent
  /\ event.audience => g \in circle /\ invited \cap circle # {}
  /\ read' = [read EXCEPT ![g] = Stored]
  /\ UNCHANGED <<minute, hold, circle, planRows, change>>

\* recordEventResponse, by the child's handset or by a guardian: before the event starts.
Responds(by, k) ==
  /\ RowIsFree /\ Stands
  /\ Included(event.audience, {by, k})
  /\ k \in invited /\ minute < event.starts
  /\ answered' = answered \cup {k}
  /\ UNCHANGED <<minute, hold, circle, event, invited, attended, archived, read, change>>

\* recordEventAttendance, requireRecordableAt: once it has started.
AttendanceRecorded(g, k) ==
  /\ RowIsFree /\ Stands
  /\ Included(event.audience, {g, k})
  /\ k \in invited /\ event.starts <= minute
  /\ attended' = attended \cup {k}
  /\ UNCHANGED <<minute, hold, circle, event, invited, answered, archived, read, change>>

\* cancelFamilyEvent.
EventCancelled(g) ==
  /\ RowIsFree /\ Stands
  /\ Included(event.audience, {g})
  /\ event.version < MaxVersions
  /\ event' = [event EXCEPT !.status = "cancelled", !.version = @ + 1]
  /\ UNCHANGED <<minute, hold, circle, invited, answered, attended, archived, read, change>>

-----------------------------------------------------------------------------
(* updateFamilyEvent.                                                      *)

\* audienceAnswerCount: the children of the audience of whom something is known.
Answerers == (answered \cup attended) \cap invited

\* The audience a change names, and its children: stated, those of the group, or those it has;
\* nobody is dropped who answered or attended.
Audiences(g) ==
  {p \in [audience : BOOLEAN, kids : SUBSET Kids] :
     /\ Included(p.audience, {g} \cup p.kids)
     /\ ~p.audience => p.kids # {}
     /\ p.kids \cap archived = {}
     /\ Answerers \subseteq p.kids}

\* expectedVersion: a change states a version, and so comes from who has read the event.
StatesAVersion(g) == read[g].event # NoEvent

Changes(t, g) ==
  /\ change[t] = Idle /\ Stands
  /\ event.version < MaxVersions
  /\ Obtainable(t, EventRow) /\ Included(event.audience, {g})
  /\ Takes(t, {EventRow})
  /\ \/ \E starts \in 0..MaxStart :
          change' = [change EXCEPT ![t] = [step |-> "keep", by |-> g, kids |-> invited,
                                           row |-> [event EXCEPT !.starts = starts]]]
     \/ \E p \in Audiences(g) :
          change' = [change EXCEPT ![t] = [step |-> "replace", by |-> g, kids |-> p.kids,
                                           row |-> [event EXCEPT !.audience = p.audience]]]
  /\ UNCHANGED <<minute, circle, planRows, read>>

\* Mutant of ChangeOpens: the version is not compared.
ChangeOpensBlindly(t, g) ==
  /\ StatesAVersion(g)
  /\ Changes(t, g)

\* The event FOR UPDATE, at the version that was read.
ChangeOpens(t, g) ==
  /\ StatesAVersion(g)
  /\ event.version = read[g].event.version
  /\ Changes(t, g)

\* updateEvent alone.
ChangeKeeps(t) ==
  /\ change[t].step = "keep"
  /\ event' = [change[t].row EXCEPT !.version = event.version + 1]
  /\ EndsChange(t)
  /\ UNCHANGED <<minute, circle, invited, answered, attended, archived, read>>

\* Mutant of ChangeReplaces: the answers go with the rows they refer to.
ChangeCascades(t) ==
  /\ change[t].step = "replace"
  /\ event' = [change[t].row EXCEPT !.version = event.version + 1]
  /\ Invites(change[t].kids)
  /\ answered' = {} /\ attended' = {}
  /\ EndsChange(t)
  /\ UNCHANGED <<minute, circle, archived, read>>

\* updateEvent, then deleteAudience and insertAudience: every row of the audience is deleted,
\* which the foreign keys of answers and attendance refuse.
ChangeReplaces(t) ==
  /\ change[t].step = "replace"
  /\ Answerers = {}
  /\ event' = [change[t].row EXCEPT !.version = event.version + 1]
  /\ Invites(change[t].kids)
  /\ EndsChange(t)
  /\ UNCHANGED <<minute, circle, answered, attended, archived, read>>

CalendarNext ==
  \/ ClockTicks /\ UNCHANGED <<circle, planRows, read, change>>
  \/ CircleTurns /\ UNCHANGED <<minute, hold, planRows, read, change>>
  \/ ChildIsArchived
  \/ \E g \in Guardians :
       \/ EventStated(g) \/ ScreenLists(g) \/ EventCancelled(g)
       \/ \E k \in Kids : Responds(g, k) \/ AttendanceRecorded(g, k)
       \/ \E t \in Txns : ChangeOpens(t, g)
  \/ \E k \in Kids : Responds(k, k)
  \/ \E t \in Txns : ChangeKeeps(t) \/ ChangeReplaces(t) \/ ChangeRollback(t)

CalendarSpec == CalendarInit /\ [][CalendarNext]_calendarVars

-----------------------------------------------------------------------------
(* Properties.                                                             *)

\* What was answered and recorded stands, and is about children who are invited: no change of
\* the event takes either away, and no child who answered is dropped from it.
AnswersStand ==
  [][/\ answered \subseteq answered' /\ attended \subseteq attended'
     /\ answered' \cup attended' \subseteq invited']_calendarVars

\* A change is made to the event and the audience that its author's screen read: what somebody
\* else changed or called off since is not overwritten.
ChangesWhatWasRead ==
  [][\A t \in Txns : (change[t] # Idle /\ change'[t] = Idle /\ event' # event) =>
       read[change[t].by] = Stored \/ event = NoEvent]_calendarVars

\* By the time the audience is deleted, every row of it is one that nobody has answered about
\* or attended.
DeletedAudienceIsUnanswered ==
  \A t \in Txns : change[t].step = "replace" => Answerers = {}
=============================================================================
