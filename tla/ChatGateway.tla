----------------------------- MODULE ChatGateway -----------------------------
(***************************************************************************)
(* The gateway of chat-realtime.js: WebSockets that carry hints, each only *)
(* the name of a room and a number.  The server asks the database before   *)
(* it keeps a subscription and again before it sends a hint; the answer to *)
(* such a question comes later, while members come and go, sockets close   *)
(* and other frames are handled.                                           *)
(***************************************************************************)
EXTENDS Naturals, FiniteSets

CONSTANTS Callers,           \* persons and paired handsets
          Rooms,
          Sockets,           \* the connections that are ever made
          NoRoom, NoCaller,
          MaxHints,          \* bound: the changes that are published
          MaxPerCaller, MaxSubscriptions, MaxBuffered  \* CHAT_REALTIME_LIMITS

ASSUME GatewayAssumption ==
  /\ {MaxHints, MaxPerCaller, MaxSubscriptions, MaxBuffered} \subseteq Nat
  /\ NoRoom \notin Rooms /\ NoCaller \notin Callers

VARIABLES
  mayRead,   \* who may read which room: FamilyChat says how that changes
  socket,    \* socket[s]: its state, its caller, its subscriptions and its buffer
  question,  \* the checks under way: for a socket and a room, after a hint or, 0, for a subscription
  hint,      \* hint[n]: the room of a published change; history: who could read it since
  heard      \* history: the caller and the hint of every hint that was sent

gatewayVars == <<mayRead, socket, question, hint, heard>>

Hints == 1..MaxHints
Unmade == [state |-> "unmade", of |-> NoCaller, rooms |-> {}, buffered |-> 0, alive |-> TRUE]
Unpublished == [room |-> NoRoom, could |-> {}]

GatewayInit ==
  /\ mayRead = Callers \X Rooms
  /\ socket = [s \in Sockets |-> Unmade]
  /\ question = {}
  /\ hint = [n \in Hints |-> Unpublished]
  /\ heard = {}

Open == {s \in Sockets : socket[s].state = "open"}
Closed(s) == [socket[s] EXCEPT !.state = "closed"]

\* A member is added or removed, a guardian leaves, a handset is unpaired or paired.
MemberComes(c, r) ==
  /\ mayRead' = mayRead \cup {<<c, r>>}
  /\ hint' = [n \in Hints |-> IF hint[n].room = r THEN [hint[n] EXCEPT !.could = @ \cup {c}] ELSE hint[n]]
  /\ UNCHANGED <<socket, question, heard>>

MemberGoes(c, r) ==
  /\ mayRead' = mayRead \ {<<c, r>>}
  /\ UNCHANGED <<socket, question, hint, heard>>

\* onUpgrade, register: a caller has so many sockets and no more.
Connects(s, c) ==
  /\ socket[s] = Unmade
  /\ Cardinality({o \in Open : socket[o].of = c}) < MaxPerCaller
  /\ socket' = [socket EXCEPT ![s].state = "open", ![s].of = c]
  /\ UNCHANGED <<mayRead, question, hint, heard>>

\* The client closes, floods the server with frames, or is gone; what it asked goes on.
Closes(s) ==
  /\ s \in Open
  /\ socket' = [socket EXCEPT ![s] = Closed(s)]
  /\ UNCHANGED <<mayRead, question, hint, heard>>

\* handleFrame: the subscriptions are counted, then the check is awaited.
SubscribeAsks(s, r) ==
  /\ s \in Open
  /\ r \in socket[s].rooms \/ Cardinality(socket[s].rooms) < MaxSubscriptions
  /\ question' = question \cup {[socket |-> s, room |-> r, hint |-> 0, answer |-> "waits"]}
  /\ UNCHANGED <<mayRead, socket, hint, heard>>

Unsubscribes(s, r) ==
  /\ s \in Open /\ r \in socket[s].rooms
  /\ socket' = [socket EXCEPT ![s].rooms = @ \ {r}]
  /\ UNCHANGED <<mayRead, question, hint, heard>>

Published(n, r, answer) ==
  /\ hint[n] = Unpublished /\ \A m \in 1..n - 1 : hint[m] # Unpublished
  /\ hint' = [hint EXCEPT ![n] = [room |-> r, could |-> {c \in Callers : <<c, r>> \in mayRead}]]
  /\ question' = question \cup {[socket |-> s, room |-> r, hint |-> n, answer |-> answer] :
                                  s \in {o \in Open : r \in socket[o].rooms}}
  /\ UNCHANGED <<mayRead, socket, heard>>

\* Mutant of Publishes: the check of the subscription is trusted.
PublishesAtOnce(n, r) == Published(n, r, "yes")

\* A change of a room is committed and published: every socket that holds the room is checked.
Publishes(n, r) == Published(n, r, "waits")

\* canReadThread, in a transaction of its own.
Checks(q) ==
  /\ q \in question /\ q.answer = "waits"
  /\ question' = (question \ {q}) \cup
       {[q EXCEPT !.answer = IF <<socket[q.socket].of, q.room>> \in mayRead THEN "yes" ELSE "no"]}
  /\ UNCHANGED <<mayRead, socket, hint, heard>>

\* It fails: the hint is withheld, the subscription is not made.
CheckFails(q) ==
  /\ q \in question /\ q.answer = "waits"
  /\ question' = question \ {q}
  /\ UNCHANGED <<mayRead, socket, hint, heard>>

SubscribeAnswered(q) ==
  /\ q \in question /\ q.hint = 0 /\ q.answer # "waits"
  /\ question' = question \ {q}
  /\ socket' = IF q.answer = "yes" THEN [socket EXCEPT ![q.socket].rooms = @ \cup {q.room}] ELSE socket
  /\ UNCHANGED <<mayRead, hint, heard>>

\* The caller may not read the room any more: the socket is unsubscribed.
HintRefused(q) ==
  /\ q \in question /\ q.hint # 0 /\ q.answer = "no"
  /\ question' = question \ {q}
  /\ socket' = [socket EXCEPT ![q.socket].rooms = @ \ {q.room}]
  /\ UNCHANGED <<mayRead, hint, heard>>

\* send: a socket whose reader fell behind is cut off.
HintSent(q) ==
  LET s == q.socket
  IN /\ q \in question /\ q.hint # 0 /\ q.answer = "yes"
     /\ question' = question \ {q}
     /\ IF s \notin Open THEN UNCHANGED <<socket, heard>>
        ELSE IF socket[s].buffered > MaxBuffered
             THEN socket' = [socket EXCEPT ![s] = Closed(s)] /\ heard' = heard
             ELSE /\ socket' = [socket EXCEPT ![s].buffered = @ + 1]
                  /\ heard' = heard \cup {<<socket[s].of, q.hint>>}
     /\ UNCHANGED <<mayRead, hint>>

Reads(s) ==
  /\ s \in Open /\ socket[s].buffered > 0
  /\ socket' = [socket EXCEPT ![s].buffered = 0]
  /\ UNCHANGED <<mayRead, question, hint, heard>>

\* The heartbeat: who has not answered the last ping is cut off.
Beats ==
  /\ socket' = [s \in Sockets |->
       IF s \notin Open THEN socket[s]
       ELSE IF socket[s].alive THEN [socket[s] EXCEPT !.alive = FALSE] ELSE Closed(s)]
  /\ UNCHANGED <<mayRead, question, hint, heard>>

Pongs(s) ==
  /\ s \in Open
  /\ socket' = [socket EXCEPT ![s].alive = TRUE]
  /\ UNCHANGED <<mayRead, question, hint, heard>>

GatewayNext ==
  \/ \E c \in Callers, r \in Rooms : MemberComes(c, r) \/ MemberGoes(c, r)
  \/ \E s \in Sockets :
       \/ Closes(s) \/ Reads(s) \/ Pongs(s)
       \/ \E c \in Callers : Connects(s, c)
       \/ \E r \in Rooms : SubscribeAsks(s, r) \/ Unsubscribes(s, r)
  \/ \E n \in Hints, r \in Rooms : Publishes(n, r)
  \/ \E q \in question : Checks(q) \/ CheckFails(q) \/ SubscribeAnswered(q) \/ HintRefused(q) \/ HintSent(q)
  \/ Beats

GatewaySpec == GatewayInit /\ [][GatewayNext]_gatewayVars

-----------------------------------------------------------------------------
(* Properties.                                                             *)

\* A hint is sent to nobody who could not read the room at some moment since the change was
\* published: a member who was removed before hears of no later change on a connection that
\* is still open, whatever checks were under way and whatever was subscribed.
NoHintToStrangers == \A h \in heard : h[1] \in hint[h[2]].could
=============================================================================
