--------------------------- MODULE FamilyChatProofs ---------------------------
(***************************************************************************)
(* What TLAPS proves of the chat, for every family, every number of        *)
(* transactions, requests and connections, and every bound: of the         *)
(* conversation of FamilyChat, the media of ChatMedia and the hints of     *)
(* ChatGateway.                                                            *)
(*                                                                         *)
(* The conversation rests on what a transaction knows while it holds a row:*)
(* a send that the number it took is the next one and unused, an addition  *)
(* the members it read, an edit the revision it read.  The media rest on   *)
(* keys that are drawn once.  The hints rest on the order of a change, its *)
(* publication and the check: who may read now could read since.           *)
(***************************************************************************)
EXTENDS FamilyChat, ChatMedia, ChatGateway, FiniteSetTheorems, TLAPS

(***************************************************************************)
(* The conversation.                                                       *)
(***************************************************************************)

\* The messages are numbered without a gap, up to the number that comes next.
Numbered == \A s \in Seqs : message[s] # NoMessage <=> s < nextSeq

\* A client message id is the id of one message, and the server names no other for it.
SentOnce ==
  /\ \A s, r \in Stored : message[s].send = message[r].send => s = r
  /\ \A c \in Sends : answer[c] \subseteq SentAs(c)

\* The earlier texts of a message are those of its lower revisions.
TextsAreEarlier ==
  \A s \in Seqs, n \in Revisions :
    [seq |-> s, revision |-> n] \in revision <=>
      s \in Stored /\ ~message[s].deleted /\ n < message[s].revision

\* Before it is opened, nobody is in the conversation and nothing has been said.
Unopened ==
  shape = "none" => /\ Members = {} /\ nextSeq = 1
                    /\ \A p \in People : delivered[p] = 0 /\ read[p] = 0

\* A cursor stands on a message, or at the beginning; who is no member has not moved it.
CursorsStand ==
  \A p \in Readers : cursor[p] < nextSeq /\ (p \notin Members => cursor[p] = 0)

\* A change of the policy that is under way read a version that is not the last one.
PolicyKnows(t) == job[t].step = "policy" => job[t].base < MaxVersion

\* Who adds a member knows the mode of the policy the conversation was opened under, if it still
\* stands.
JoinKnows(t) ==
  job[t].step \in {"join", "insert"} =>
    /\ shape # "none" /\ job[t].on \in People
    /\ policy.version = openedUnder => job[t].mode = policy.mode

\* The rows it will insert seat every guardian the newcomer brings with it, of those who were
\* counted before or are now.
InsertKnows(t) ==
  LET x == job[t].on
  IN job[t].step = "insert" =>
       /\ threadLock = t /\ job[t].base = nextSeq
       /\ x \in job[t].adds /\ job[t].adds \cap Kids \subseteq {x}
       /\ job[t].saw \subseteq active \cup gone
       /\ x \in Kids => Seated(job[t].mode, (Members \cap Kids) \cup {x}) \cap (counted \cup job[t].saw)
                          \subseteq Members \cup job[t].adds

\* A send holds the thread row: the number it will write is free, and its id is unused.
SendKnows(t) ==
  job[t].step = "send" =>
    /\ shape # "none" /\ threadLock = t /\ job[t].seq = nextSeq /\ nextSeq \in Seqs
    /\ job[t].on \in Sends /\ SentAs(job[t].on) = {}

\* An edit holds the message it read.
EditKnows(t) ==
  LET s == job[t].seq
  IN job[t].step = "edit" =>
       /\ s \in Stored /\ messageLock[s] = t
       /\ ~message[s].deleted /\ message[s].revision = job[t].base

\* All that a transaction knows of the rows, whatever step it is at.
Knows(t) == PolicyKnows(t) /\ JoinKnows(t) /\ InsertKnows(t) /\ SendKnows(t) /\ EditKnows(t)

\* What a transaction may have read and mean to write.
Jobs == [step : {"rest", "policy", "join", "insert", "send", "edit"},
         on : People \cup Sends \cup {Nobody},
         seq : 0..MaxSeq, base : Nat, mode : Modes, adds : SUBSET People,
         saw : SUBSET Guardians]

\* It was opened under a version that was in force; who was counted was in the family.
OpenedBefore == openedUnder <= policy.version /\ counted \subseteq active \cup gone

\* What the rows of the conversation and its clients know of each other.
RoomInv ==
  /\ Numbered /\ SentOnce /\ TextsAreEarlier /\ Unopened
  /\ OpenedBefore
  /\ CursorsStand /\ NothingMissed /\ MarksStayInside
  /\ GuardiansSitIn

\* The inductive invariant of the conversation.
ChatInv == ChatTypeOK /\ RoomInv /\ \A t \in ChatTxns : Knows(t)

-----------------------------------------------------------------------------
\* The bounds are positive numbers.
LEMMA Bounds ==
  /\ MaxSeq \in Nat /\ MaxRevision \in Nat /\ MaxVersion \in Nat /\ PageSize \in Nat \ {0}
  /\ MaxSeq > 0 /\ MaxRevision > 0 /\ MaxVersion > 0
BY ChatBoundsAssumption

\* The record of a transaction that is not under way, field by field.
LEMMA RestingIs ==
  Resting = [step |-> "rest", on |-> Nobody, seq |-> 0, base |-> 0, mode |-> "none", adds |-> {},
              saw |-> {}]
BY DEF Resting

\* A transaction that is not under way knows nothing.
LEMMA RestingKnows ==
  /\ Resting \in Jobs
  /\ \A t : job'[t] = Resting => Knows(t)'
<1>1. Resting \in Jobs
  BY Bounds DEF Resting, Jobs, Modes
<1>2. Resting.step = "rest"
  BY DEF Resting
<1>3. ASSUME NEW t, job'[t] = Resting PROVE Knows(t)'
  BY <1>2, <1>3 DEF Knows, PolicyKnows, JoinKnows, InsertKnows, SendKnows, EditKnows
<1> QED BY <1>1, <1>3

\* The stored messages are the numbers below the one that comes next.
LEMMA StoredIs ==
  ASSUME ChatInv
  PROVE  /\ nextSeq \in 1..MaxSeq + 1
         /\ Stored = 1..nextSeq - 1
         /\ HighestSeq = nextSeq - 1
<1>1. nextSeq \in 1..MaxSeq + 1
  BY DEF ChatInv, ChatTypeOK
<1>2. Stored = 1..nextSeq - 1
  BY <1>1, Bounds DEF ChatInv, RoomInv, Numbered, Stored, Seqs
<1>3. CASE nextSeq = 1
  BY <1>1, <1>2, <1>3 DEF HighestSeq
<1>4. CASE nextSeq # 1
  <2>1. nextSeq - 1 \in Stored /\ \A r \in Stored : r <= nextSeq - 1
    BY <1>1, <1>2, <1>4
  <2>2. \A s \in Stored : (\A r \in Stored : r <= s) => s = nextSeq - 1
    BY <1>1, <1>2, <2>1
  <2> QED BY <1>1, <1>2, <1>4, <2>1, <2>2 DEF HighestSeq
<1> QED BY <1>1, <1>2, <1>3, <1>4

\* What a transaction knows stands while others work: what it has locked, they leave alone.
LEMMA OthersKnow ==
  ASSUME ChatInv, NEW u \in ChatTxns, job'[u] = job[u], JoinKnows(u)',
         active' \cap (active \cup gone) \subseteq active, active \cup gone \subseteq active' \cup gone',
         shape = "none" \/ UNCHANGED shape,
         threadLock = u => /\ UNCHANGED <<threadLock, nextSeq>>
                           /\ job[u].step = "insert" => UNCHANGED <<member, counted>>
                           /\ \A c \in Sends : SentAs(c) = {} => SentAs(c)' = {},
         \A s \in Stored : messageLock[s] = u => messageLock'[s] = u /\ message'[s] = message[s]
  PROVE  Knows(u)'
<1> USE DEF ChatInv, Knows
<1>1. PolicyKnows(u)'
  BY DEF PolicyKnows
<1>2. InsertKnows(u)'
  <2>1. SUFFICES ASSUME job[u].step = "insert" PROVE InsertKnows(u)'
    BY DEF InsertKnows
  <2>2. UNCHANGED <<threadLock, nextSeq, member, counted>> /\ Members' = Members
    BY <2>1 DEF InsertKnows, Members
  <2> DEFINE old == counted \cup job[u].saw
             kids == (Members \cap Kids) \cup {job[u].on}
  <2>3. old \subseteq active \cup gone
    BY <2>1 DEF InsertKnows, RoomInv, OpenedBefore
  <2>4. Seated(job[u].mode, kids)' \cap old \subseteq Seated(job[u].mode, kids) \cap old
    BY <2>2, <2>3 DEF Seated
  <2> QED BY <2>1, <2>2, <2>3, <2>4 DEF InsertKnows, Seated
<1>3. SendKnows(u)'
  BY DEF SendKnows
<1>4. EditKnows(u)'
  <2>1. SUFFICES ASSUME job[u].step = "edit" PROVE EditKnows(u)'
    BY DEF EditKnows
  <2>2. job[u].seq \in Stored /\ messageLock[job[u].seq] = u
    BY <2>1 DEF EditKnows
  <2>3. messageLock'[job[u].seq] = u /\ message'[job[u].seq] = message[job[u].seq]
    BY <2>2
  <2>4. job[u].seq \in Stored'
    BY <2>2, <2>3 DEF Stored
  <2> QED BY <2>1, <2>3, <2>4 DEF EditKnows
<1> QED BY <1>1, <1>2, <1>3, <1>4

\* Who adds a member knows as much of a conversation and a policy that stand.
LEMMA SameRoomJoins ==
  ASSUME ChatInv, NEW u \in ChatTxns, job'[u] = job[u], UNCHANGED <<shape, openedUnder, policy>>
  PROVE  JoinKnows(u)'
BY DEF JoinKnows, ChatInv, Knows
-----------------------------------------------------------------------------
(* The steps that write no row but a lock.                                 *)

\* The rows and clients of the conversation stay right where nobody joins or writes.
LEMMA RoomStands ==
  ASSUME RoomInv,
         active' \cap (active \cup gone) \subseteq active, active \cup gone \subseteq active' \cup gone',
         UNCHANGED <<policy, shape, openedUnder, counted, member, delivered, read, nextSeq, message, revision,
                     chatClients>>
  PROVE  RoomInv'
<1>1. Stored' = Stored /\ Members' = Members /\ \A c : SentAs(c)' = SentAs(c)
  BY DEF Stored, Members, SentAs
<1>2. counted \subseteq active \cup gone
  BY DEF RoomInv, OpenedBefore
<1>3. Seated(policy.mode, Members \cap Kids)' \cap counted \subseteq Seated(policy.mode, Members \cap Kids) \cap counted
  BY <1>1, <1>2 DEF Seated
<1>4. GuardiansSitIn' /\ OpenedBefore'
  BY <1>1, <1>2, <1>3 DEF RoomInv, GuardiansSitIn, OpenedBefore
<1> QED BY <1>1, <1>4
   DEF RoomInv, Numbered, SentOnce, TextsAreEarlier, Unopened, CursorsStand, NothingMissed,
       MarksStayInside, chatClients

\* A step that changes one transaction and its locks keeps the invariant when what that
\* transaction knows is true.
LEMMA JobChanges ==
  ASSUME ChatInv, NEW t \in ChatTxns, NEW v \in Jobs, job' = [job EXCEPT ![t] = v],
         UNCHANGED <<chatRows, chatClients>>,
         threadLock' \in ChatTxns \cup {Nobody}, messageLock' \in [Seqs -> ChatTxns \cup {Nobody}],
         \A u \in ChatTxns \ {t} : /\ threadLock = u => threadLock' = u
                                   /\ \A s \in Seqs : messageLock[s] = u => messageLock'[s] = u,
         Knows(t)'
  PROVE  ChatInv'
<1>1. ChatTypeOK'
  BY DEF ChatInv, ChatTypeOK, Jobs, chatRows, chatClients
<1>2. RoomInv'
  BY RoomStands DEF ChatInv, chatRows
<1>3. ASSUME NEW u \in ChatTxns \ {t} PROVE Knows(u)'
  <2>1. job'[u] = job[u]
    BY DEF ChatInv, ChatTypeOK
  <2>2. JoinKnows(u)'
    BY <2>1, SameRoomJoins DEF chatRows
  <2>3. \A c : SentAs(c)' = SentAs(c)
    BY DEF SentAs, Stored, chatRows
  <2>4. \A s \in Stored : s \in Seqs
    BY DEF Stored
  <2> QED BY <2>1, <2>2, <2>3, <2>4, OthersKnow DEF chatRows
<1> QED BY <1>1, <1>2, <1>3 DEF ChatInv

\* The policy is read for a change.
LEMMA PolicyReadKeeps ==
  ASSUME ChatInv, NEW t \in ChatTxns, PolicyRead(t)
  PROVE  ChatInv'
<1> DEFINE v == [Resting EXCEPT !.step = "policy", !.base = policy.version]
<1>2. policy.version \in Nat /\ policy.version < MaxVersion
  BY Bounds DEF PolicyRead, ChatInv, ChatTypeOK
<1>3. v \in Jobs /\ v.step = "policy" /\ v.base = policy.version
  BY <1>2, RestingKnows DEF Jobs
<1>4. job' = [job EXCEPT ![t] = v] /\ job'[t] = v
  BY DEF PolicyRead, ChatInv, ChatTypeOK
<1> HIDE DEF v
<1>5. Knows(t)'
  BY <1>2, <1>3, <1>4 DEF Knows, PolicyKnows, JoinKnows, InsertKnows, SendKnows, EditKnows
<1> QED BY <1>3, <1>4, <1>5, JobChanges DEF PolicyRead, chatLocks, ChatInv, ChatTypeOK

\* The policy is read for a new member, before the thread row is locked.
LEMMA JoinBeginKeeps ==
  ASSUME ChatInv, NEW t \in ChatTxns, JoinBegin(t)
  PROVE  ChatInv'
<1>1. PICK x \in People :
        job' = [job EXCEPT ![t] = [Resting EXCEPT !.step = "join", !.on = x, !.mode = policy.mode]]
  BY DEF JoinBegin
<1> DEFINE v == [Resting EXCEPT !.step = "join", !.on = x, !.mode = policy.mode]
<1>2. policy.mode \in Modes
  BY DEF ChatInv, ChatTypeOK
<1>3. v \in Jobs /\ v.step = "join" /\ v.on = x /\ v.mode = policy.mode
  BY <1>2, RestingKnows DEF Jobs
<1>4. job' = [job EXCEPT ![t] = v] /\ job'[t] = v
  BY <1>1 DEF ChatInv, ChatTypeOK
<1> HIDE DEF v
<1>5. Knows(t)'
  BY <1>3, <1>4 DEF JoinBegin, chatRows, Knows, PolicyKnows, JoinKnows, InsertKnows, SendKnows,
                    EditKnows
<1> QED BY <1>3, <1>4, <1>5, JobChanges DEF JoinBegin, chatLocks, ChatInv, ChatTypeOK

\* What is chosen under the lock seats the guardians of the newcomer and of who is there already.
LEMMA JoinCheckKeeps ==
  ASSUME ChatInv, NEW t \in ChatTxns, JoinCheck(t)
  PROVE  ChatInv'
<1>1. PICK x \in People, mode \in Modes : x = job[t].on /\ mode = job[t].mode
  BY DEF ChatInv, ChatTypeOK, Knows, JoinKnows, JoinCheck
<1> DEFINE adds == ({x} \cup Accompany(mode, x)) \ LiveMembers
           v == [job[t] EXCEPT !.step = "insert", !.adds = adds, !.saw = active, !.base = nextSeq]
<1>0. job[t] \in Jobs /\ job[t].step = "join" /\ JoinKnows(t)
  BY DEF ChatInv, ChatTypeOK, Jobs, Knows, JoinCheck
<1>2. job' = [job EXCEPT ![t] = v] /\ job'[t] = v
  BY <1>1 DEF JoinCheck, ChatInv, ChatTypeOK
<1>3. Accompany(mode, x) \subseteq active /\ active \subseteq Guardians
  BY DEF Accompany, Seated, ChatInv, ChatTypeOK
<1>4. adds \subseteq People /\ adds \cap Kids \subseteq {x}
  BY <1>3, PeopleAssumption DEF People
<1>5. x \in adds
  BY <1>1 DEF JoinCheck, LiveMembers
<1>6. x \in Kids => Seated(mode, (Members \cap Kids) \cup {x}) \subseteq Members \cup adds
  <2>1. LiveMembers \cap Kids = Members \cap Kids /\ LiveMembers \subseteq Members
    BY DEF LiveMembers
  <2> QED BY <2>1 DEF Accompany
<1>7. nextSeq \in Nat
  BY Bounds DEF ChatInv, ChatTypeOK
<1> HIDE DEF adds
<1>8. /\ v \in Jobs /\ v.step = "insert" /\ v.on = x /\ v.base = nextSeq /\ v.mode = mode /\ v.adds = adds
      /\ v.saw = active
  BY <1>0, <1>1, <1>3, <1>4, <1>7 DEF Jobs
<1>9. /\ threadLock = Nobody /\ threadLock' = t /\ UNCHANGED <<chatRows, chatClients, messageLock>>
  BY DEF JoinCheck
<1> HIDE DEF v
<1>10. InsertKnows(t)'
  <2>1. Seated(mode, (Members \cap Kids) \cup {x})' = Seated(mode, (Members \cap Kids) \cup {x})
    BY <1>9 DEF Seated, Members, chatRows
  <2>2. active' = active /\ gone' = gone
    BY <1>9 DEF chatRows
  <2> QED BY <1>2, <2>2, <1>4, <1>5, <1>6, <1>8, <1>9, <2>1 DEF InsertKnows, Members, chatRows
<1>11. JoinKnows(t)'
  BY <1>0, <1>1, <1>2, <1>8, <1>9 DEF JoinKnows, chatRows
<1>12. Knows(t)'
  BY <1>2, <1>8, <1>10, <1>11 DEF Knows, PolicyKnows, SendKnows, EditKnows
<1>13. Nobody \notin ChatTxns
  BY SendsAssumption
<1> QED BY <1>2, <1>8, <1>9, <1>12, <1>13, JobChanges DEF ChatInv, ChatTypeOK

\* A send locks the thread row and takes the number that comes next.
LEMMA SendBeginKeeps ==
  ASSUME ChatInv, NEW t \in ChatTxns, SendBegin(t)
  PROVE  ChatInv'
<1>1. PICK c \in Sends :
        /\ SentAs(c) = {} /\ AuthorOf[c] \in Members
        /\ job' = [job EXCEPT ![t] = [Resting EXCEPT !.step = "send", !.on = c, !.seq = nextSeq]]
  BY DEF SendBegin
<1> DEFINE v == [Resting EXCEPT !.step = "send", !.on = c, !.seq = nextSeq]
<1>2. nextSeq \in Seqs /\ nextSeq \in 0..MaxSeq
  BY Bounds DEF SendBegin, ChatInv, ChatTypeOK, Seqs
<1>3. v \in Jobs /\ v.step = "send" /\ v.on = c /\ v.seq = nextSeq
  BY <1>2, RestingKnows DEF Jobs
<1>4. job' = [job EXCEPT ![t] = v] /\ job'[t] = v
  BY <1>1 DEF ChatInv, ChatTypeOK
<1> HIDE DEF v
<1>5. threadLock = Nobody /\ threadLock' = t /\ UNCHANGED <<chatRows, chatClients, messageLock>>
  BY DEF SendBegin
<1>6. SentAs(c)' = {} /\ shape' # "none"
  BY <1>1, <1>5 DEF SentAs, Stored, chatRows, ChatInv, RoomInv, Unopened
<1>7. Knows(t)'
  BY <1>2, <1>3, <1>4, <1>5, <1>6
     DEF Knows, PolicyKnows, JoinKnows, InsertKnows, SendKnows, EditKnows, chatRows
<1>8. Nobody \notin ChatTxns
  BY SendsAssumption
<1> QED BY <1>3, <1>4, <1>5, <1>7, <1>8, JobChanges DEF ChatInv, ChatTypeOK

\* An edit locks a message whose revision is the one its author read.
LEMMA EditBeginKeeps ==
  ASSUME ChatInv, NEW t \in ChatTxns, EditBegin(t)
  PROVE  ChatInv'
<1>1. PICK s \in Stored, stated \in Revisions :
        /\ messageLock[s] = Nobody /\ ~message[s].deleted /\ message[s].revision = stated
        /\ messageLock' = [messageLock EXCEPT ![s] = t]
        /\ job' = [job EXCEPT ![t] = [Resting EXCEPT !.step = "edit", !.seq = s, !.base = stated]]
  BY DEF EditBegin
<1> DEFINE v == [Resting EXCEPT !.step = "edit", !.seq = s, !.base = stated]
<1>2. s \in Seqs /\ s \in 0..MaxSeq /\ stated \in Nat
  BY Bounds DEF Stored, Seqs, Revisions
<1>3. v \in Jobs /\ v.step = "edit" /\ v.seq = s /\ v.base = stated
  BY <1>2, RestingKnows DEF Jobs
<1>4. job' = [job EXCEPT ![t] = v] /\ job'[t] = v
  BY <1>1 DEF ChatInv, ChatTypeOK
<1> HIDE DEF v
<1>5. UNCHANGED <<chatRows, chatClients, threadLock>>
  BY DEF EditBegin
<1>6. /\ messageLock \in [Seqs -> ChatTxns \cup {Nobody}] /\ messageLock' \in [Seqs -> ChatTxns \cup {Nobody}]
      /\ messageLock'[s] = t /\ \A r \in Seqs \ {s} : messageLock'[r] = messageLock[r]
  BY <1>1, <1>2 DEF ChatInv, ChatTypeOK
<1>7. s \in Stored'
  BY <1>5 DEF Stored, chatRows
<1>8. Knows(t)'
  BY <1>1, <1>3, <1>4, <1>5, <1>6, <1>7
     DEF Knows, PolicyKnows, JoinKnows, InsertKnows, SendKnows, EditKnows, chatRows
<1>9. \A u \in ChatTxns \ {t}, r \in Seqs : messageLock[r] = u => messageLock'[r] = u
  BY <1>1, <1>6, SendsAssumption
<1>10. threadLock \in ChatTxns \cup {Nobody}
  BY DEF ChatInv, ChatTypeOK
<1> QED BY <1>3, <1>4, <1>5, <1>6, <1>8, <1>9, <1>10, JobChanges

\* A transaction that fails gives its locks back and writes nothing.
LEMMA ChatRollbackKeeps ==
  ASSUME ChatInv, NEW t \in ChatTxns, ChatRollback(t)
  PROVE  ChatInv'
<1>1. job' = [job EXCEPT ![t] = Resting] /\ job'[t] = Resting
  BY DEF ChatRollback, ChatInv, ChatTypeOK
<1>2. UNCHANGED <<chatRows, chatClients>>
  BY DEF ChatRollback
<1>3. /\ threadLock' \in ChatTxns \cup {Nobody}
      /\ messageLock' \in [Seqs -> ChatTxns \cup {Nobody}]
      /\ \A u \in ChatTxns \ {t} : /\ threadLock = u => threadLock' = u
                                   /\ \A s \in Seqs : messageLock[s] = u => messageLock'[s] = u
  BY DEF ChatRollback, ChatInv, ChatTypeOK
<1> QED BY <1>1, <1>2, <1>3, RestingKnows, JobChanges

-----------------------------------------------------------------------------
(* The policy, the family, and who sits in the conversation.               *)

\* A guardian who comes was not counted before, and one who leaves is seated by no rule any more.
LEMMA FamilyKeeps ==
  ASSUME ChatInv, GuardianJoins \/ GuardianLeaves
  PROVE  ChatInv'
<1>1. /\ active' \cap (active \cup gone) \subseteq active /\ active \cup gone \subseteq active' \cup gone'
      /\ active' \subseteq Guardians /\ gone' \subseteq Guardians
  BY DEF GuardianJoins, GuardianLeaves, ChatInv, ChatTypeOK
<1>2. UNCHANGED <<policy, shape, openedUnder, counted, member, delivered, read, nextSeq, message,
                  revision, chatClients, chatLocks, job>>
  BY DEF GuardianJoins, GuardianLeaves
<1>3. ChatTypeOK' /\ RoomInv'
  BY <1>1, <1>2, RoomStands DEF ChatInv, ChatTypeOK, chatClients, chatLocks
<1>4. ASSUME NEW u \in ChatTxns PROVE Knows(u)'
  <2>1. \A c : SentAs(c)' = SentAs(c)
    BY <1>2 DEF SentAs, Stored
  <2> QED BY <1>1, <1>2, <2>1, SameRoomJoins, OthersKnow DEF chatLocks
<1> QED BY <1>3, <1>4 DEF ChatInv

\* A change makes a version that no conversation was opened under.
LEMMA PolicyWriteKeeps ==
  ASSUME ChatInv, NEW t \in ChatTxns, PolicyWrite(t)
  PROVE  ChatInv'
<1>1. PICK mode \in Modes : policy' = [version |-> job[t].base + 1, mode |-> mode]
  BY DEF PolicyWrite
<1>2. /\ job' = [job EXCEPT ![t] = Resting] /\ policy.version = job[t].base
      /\ UNCHANGED <<active, gone, shape, openedUnder, counted, member, delivered, read, nextSeq, message, revision,
                     chatClients, chatLocks>>
  BY DEF PolicyWrite
<1>3. /\ policy'.version \in 0..MaxVersion /\ policy.version \in Nat /\ openedUnder \in Nat
      /\ policy'.version = policy.version + 1 /\ openedUnder <= policy.version
  BY <1>1, <1>2, Bounds DEF PolicyWrite, ChatInv, RoomInv, OpenedBefore, ChatTypeOK, Knows, PolicyKnows
<1>4. OpenedBefore' /\ policy'.version # openedUnder'
  BY <1>2, <1>3 DEF ChatInv, RoomInv, OpenedBefore
<1>5. ChatTypeOK'
  BY <1>1, <1>2, <1>3, RestingKnows DEF ChatInv, ChatTypeOK, Jobs, chatClients, chatLocks
<1>6. RoomInv'
  BY <1>2, <1>4
     DEF ChatInv, RoomInv, Numbered, SentOnce, SentAs, Stored, TextsAreEarlier, Unopened, Members,
         CursorsStand, NothingMissed, MarksStayInside, GuardiansSitIn, chatClients
<1>7. ASSUME NEW u \in ChatTxns \ {t} PROVE Knows(u)'
  <2>1. job'[u] = job[u]
    BY <1>2 DEF ChatInv, ChatTypeOK
  <2>2. JoinKnows(u)'
    BY <1>2, <1>4, <2>1 DEF ChatInv, Knows, JoinKnows
  <2>3. \A c : SentAs(c)' = SentAs(c)
    BY <1>2 DEF SentAs, Stored
  <2> QED BY <1>2, <2>1, <2>2, <2>3, OthersKnow DEF chatLocks
<1>8. Knows(t)'
  BY <1>2, RestingKnows DEF ChatInv, ChatTypeOK
<1> QED BY <1>5, <1>6, <1>7, <1>8 DEF ChatInv

\* The rule is applied to all who are asked into a new conversation.
LEMMA OpenThreadKeeps ==
  ASSUME ChatInv, OpenThread
  PROVE  ChatInv'
<1>1. PICK p \in People, others \in SUBSET (Kids \cup active) :
        LET base == others \cup {p}
            all == base \cup Seated(policy.mode, base \cap Kids)
        IN /\ ThreadInserted(IF Cardinality(others) = 1 THEN "direct" ELSE "group")
           /\ member' = [q \in People |-> IF q \in all THEN 1 ELSE 0]
  BY DEF OpenThread
<1> DEFINE base == others \cup {p}
           all == base \cup Seated(policy.mode, base \cap Kids)
<1>2. /\ shape = "none" /\ shape' \in {"direct", "group"} /\ openedUnder' = policy.version
      /\ counted' = active
      /\ member' = [q \in People |-> IF q \in all THEN 1 ELSE 0]
      /\ UNCHANGED <<active, gone, policy, delivered, read, nextSeq, message, revision,
                     chatClients, chatLocks, job>>
  BY <1>1 DEF OpenThread, ThreadInserted
<1>3. Members = {} /\ nextSeq = 1
  BY <1>2 DEF ChatInv, RoomInv, Unopened
<1>4. active \subseteq Guardians /\ active \subseteq People /\ all \subseteq People
  BY DEF People, Seated, ChatInv, ChatTypeOK
<1>5. all \cap Kids = base \cap Kids
  BY <1>4, PeopleAssumption DEF Seated
<1>6. Members' = all
  BY <1>2, <1>4 DEF Members
<1> HIDE DEF base
<1>7. Seated(policy.mode, base \cap Kids)' = Seated(policy.mode, base \cap Kids)
  BY <1>2 DEF Seated, base
<1>8. GuardiansSitIn'
  BY <1>2, <1>5, <1>6, <1>7 DEF GuardiansSitIn
<1> HIDE DEF all
<1>9. ChatTypeOK'
  BY <1>2, Bounds DEF ChatInv, ChatTypeOK, chatClients, chatLocks
<1>10. \A q \in People : member'[q] \in {0, 1}
  BY <1>2
<1>11. \A q \in Readers : cursor[q] = 0
  BY <1>3 DEF ChatInv, RoomInv, CursorsStand
<1>12. NothingMissed' /\ CursorsStand' /\ Unopened'
  BY <1>2, <1>3, <1>11 DEF NothingMissed, CursorsStand, Unopened, chatClients
<1>13. MarksStayInside'
  <2>1. \A q \in People : read[q] = 0 /\ delivered[q] = 0
    BY <1>2 DEF ChatInv, RoomInv, Unopened
  <2> QED BY <1>2, <1>3, <1>10, <2>1 DEF MarksStayInside, Members
<1>14. Numbered' /\ SentOnce' /\ TextsAreEarlier' /\ OpenedBefore'
  <2>1. policy.version <= policy.version
    BY Bounds DEF ChatInv, ChatTypeOK
  <2> QED BY <1>2, <2>1 DEF ChatInv, RoomInv, ChatTypeOK, Numbered, SentOnce, SentAs, Stored,
                            TextsAreEarlier, OpenedBefore, chatClients
<1>15. ASSUME NEW u \in ChatTxns PROVE Knows(u)'
  <2>1. \A c : SentAs(c)' = SentAs(c)
    BY <1>2 DEF SentAs, Stored
  <2>2. JoinKnows(u)' /\ job[u].step # "insert"
    BY <1>2 DEF ChatInv, Knows, JoinKnows
  <2> QED BY <1>2, <2>1, <2>2, OthersKnow DEF chatLocks
<1> QED BY <1>8, <1>9, <1>12, <1>13, <1>14, <1>15 DEF ChatInv, RoomInv

\* The new members start behind the newest message, and every guardian they bring is seated.
LEMMA JoinInsertKeeps ==
  ASSUME ChatInv, NEW t \in ChatTxns, JoinInsert(t)
  PROVE  ChatInv'
<1>1. PICK new \in SUBSET People, mark \in Nat :
        /\ new = job[t].adds \ Members /\ mark = job[t].base
        /\ member' = [p \in People |-> IF p \in new THEN mark ELSE member[p]]
        /\ delivered' = [p \in People |-> IF p \in new THEN mark - 1 ELSE delivered[p]]
        /\ read' = [p \in People |-> IF p \in new THEN mark - 1 ELSE read[p]]
  BY DEF JoinInsert, ChatInv, ChatTypeOK
<1>2. /\ job[t].step = "insert" /\ job' = [job EXCEPT ![t] = Resting] /\ threadLock' = Nobody
      /\ counted' = IF job[t].on \in Kids THEN counted \cup job[t].saw ELSE counted
      /\ UNCHANGED <<active, gone, policy, shape, openedUnder, nextSeq, message, revision,
                     messageLock, chatClients>>
  BY DEF JoinInsert
<1>3. /\ threadLock = t /\ mark = nextSeq /\ shape # "none" /\ nextSeq \in 1..MaxSeq + 1
      /\ InsertKnows(t) /\ JoinKnows(t)
  BY <1>1, <1>2, Bounds DEF ChatInv, ChatTypeOK, Knows, InsertKnows, JoinKnows
<1>4. Members' = Members \cup job[t].adds /\ Members \cap new = {}
  BY <1>1, <1>3 DEF Members, ChatInv, ChatTypeOK
<1>5. ChatTypeOK'
  <2>1. /\ member' \in [People -> 0..MaxSeq + 1] /\ delivered' \in [People -> 0..MaxSeq]
        /\ read' \in [People -> 0..MaxSeq]
    BY <1>1, <1>3, Bounds DEF ChatInv, ChatTypeOK
  <2>2. job' \in [ChatTxns -> Jobs]
    BY <1>2, RestingKnows DEF ChatInv, ChatTypeOK, Jobs
  <2>3. counted' \subseteq Guardians
    BY <1>2 DEF ChatInv, ChatTypeOK
  <2> QED BY <1>2, <2>1, <2>2, <2>3 DEF ChatInv, ChatTypeOK, Jobs, chatClients
<1>6. GuardiansSitIn'
  <2> SUFFICES ASSUME policy.version = openedUnder
               PROVE  Seated(policy.mode, Members \cap Kids)' \cap counted' \subseteq Members'
    BY <1>2 DEF GuardiansSitIn
  <2>1. /\ Seated(policy.mode, Members \cap Kids) \cap counted \subseteq Members
        /\ job[t].mode = policy.mode
    BY <1>2, <1>3 DEF ChatInv, RoomInv, GuardiansSitIn, JoinKnows
  <2>2. Seated(policy.mode, Members \cap Kids)' = Seated(policy.mode, Members' \cap Kids)
    BY <1>2 DEF Seated
  <2>3. CASE job[t].on \in Kids
    <3>1. Members' \cap Kids = (Members \cap Kids) \cup {job[t].on}
      BY <1>2, <1>3, <1>4, <2>3 DEF InsertKnows
    <3> QED BY <1>2, <1>3, <1>4, <2>1, <2>2, <2>3, <3>1 DEF InsertKnows
  <2>4. CASE job[t].on \notin Kids
    <3>1. Members' \cap Kids = Members \cap Kids
      BY <1>2, <1>3, <1>4, <2>4 DEF InsertKnows
    <3> QED BY <1>2, <1>4, <2>1, <2>2, <2>4, <3>1
  <2> QED BY <2>3, <2>4
<1>7. MarksStayInside'
  BY <1>1, <1>2, <1>3, <1>4 DEF MarksStayInside, Members, ChatInv, RoomInv, ChatTypeOK
<1>8. CursorsStand' /\ NothingMissed'
  <2>1. ASSUME NEW p \in Readers PROVE cursor[p] < nextSeq /\ (p \in new => cursor[p] = 0)
    BY <1>1 DEF ChatInv, RoomInv, CursorsStand
  <2>2. Stored' = Stored
    BY <1>2 DEF Stored
  <2>3. Readers \subseteq People
    BY PeopleAssumption
  <2> QED BY <1>1, <1>2, <1>4, <2>1, <2>2, <2>3 DEF CursorsStand, NothingMissed, ChatInv, RoomInv, chatClients
<1>9. Numbered' /\ SentOnce' /\ TextsAreEarlier' /\ Unopened' /\ OpenedBefore'
  <2>1. OpenedBefore'
    BY <1>2, <1>3 DEF ChatInv, RoomInv, OpenedBefore, InsertKnows
  <2> QED BY <1>2, <1>3, <2>1 DEF ChatInv, RoomInv, Numbered, SentOnce, SentAs, Stored,
                                  TextsAreEarlier, Unopened, chatClients
<1>10. ASSUME NEW u \in ChatTxns \ {t} PROVE Knows(u)'
  <2>1. job'[u] = job[u] /\ threadLock # u
    BY <1>2, <1>3 DEF ChatInv, ChatTypeOK
  <2>2. JoinKnows(u)'
    BY <1>2, <2>1, SameRoomJoins
  <2> QED BY <1>2, <2>1, <2>2, OthersKnow
<1>11. Knows(t)'
  BY <1>2, RestingKnows DEF ChatInv, ChatTypeOK
<1> QED BY <1>5, <1>6, <1>7, <1>8, <1>9, <1>10, <1>11 DEF ChatInv, RoomInv

-----------------------------------------------------------------------------
(* The messages.                                                           *)

\* A message sent again is answered with the number it has.
LEMMA SendAgainKeeps ==
  ASSUME ChatInv, SendAgain
  PROVE  ChatInv'
<1>1. PICK c \in Sends, s \in Seqs : s \in SentAs(c) /\ answer' = [answer EXCEPT ![c] = @ \cup {s}]
  BY DEF SendAgain, SentAs, Stored
<1>2. UNCHANGED <<chatRows, cursor, fetched, chatLocks, job>>
  BY DEF SendAgain
<1>3. Stored' = Stored /\ Members' = Members /\ \A d : SentAs(d)' = SentAs(d)
  BY <1>2 DEF Stored, Members, SentAs, chatRows
<1>4. /\ answer' \in [Sends -> SUBSET Seqs]
      /\ \A d \in Sends : answer'[d] \subseteq SentAs(d)
  BY <1>1 DEF ChatInv, ChatTypeOK, RoomInv, SentOnce, SentAs, Stored
<1>5. ChatTypeOK'
  BY <1>2, <1>4 DEF ChatInv, ChatTypeOK, chatRows, chatLocks
<1>6. GuardiansSitIn' /\ OpenedBefore'
  BY <1>2, <1>3 DEF ChatInv, RoomInv, GuardiansSitIn, OpenedBefore, Seated, chatRows
<1>7. RoomInv'
  BY <1>2, <1>3, <1>4, <1>6
     DEF ChatInv, RoomInv, Numbered, SentOnce, TextsAreEarlier, Unopened, CursorsStand,
         NothingMissed, MarksStayInside, chatRows
<1>8. ASSUME NEW u \in ChatTxns PROVE Knows(u)'
  BY <1>2, <1>3, SameRoomJoins, OthersKnow DEF chatRows, chatLocks
<1> QED BY <1>5, <1>7, <1>8 DEF ChatInv
\* The steps that write messages leave the members, and what seats them, as they are.
LEMMA SeatsStand ==
  ASSUME RoomInv, UNCHANGED <<active, gone, policy, shape, openedUnder, counted, member>>
  PROVE  Members' = Members /\ GuardiansSitIn' /\ OpenedBefore'
BY DEF RoomInv, GuardiansSitIn, OpenedBefore, Seated, Members

\* A send writes the number it took under the lock, which no message has.
LEMMA SendCommitKeeps ==
  ASSUME ChatInv, NEW t \in ChatTxns, SendCommit(t)
  PROVE  ChatInv'
<1>1. PICK s \in Seqs, c \in Sends :
        /\ s = job[t].seq /\ s = nextSeq /\ c = job[t].on /\ SentAs(c) = {} /\ threadLock = t
        /\ shape # "none"
        /\ message' = [message EXCEPT ![s] = [send |-> c, revision |-> 1, deleted |-> FALSE]]
        /\ nextSeq' = s + 1
        /\ answer' \in {answer, [answer EXCEPT ![c] = @ \cup {s}]}
  BY DEF SendCommit, ChatInv, Knows, SendKnows
<1>2. /\ threadLock' = Nobody /\ job' = [job EXCEPT ![t] = Resting]
      /\ UNCHANGED <<active, gone, policy, shape, openedUnder, counted, member, delivered, read, revision,
                     cursor, fetched, messageLock>>
  BY DEF SendCommit
<1>3. /\ message'[s] = [send |-> c, revision |-> 1, deleted |-> FALSE]
      /\ message'[s] # NoMessage /\ \A r \in Seqs \ {s} : message'[r] = message[r]
  <2>1. c # Nobody
    BY SendsAssumption
  <2> QED BY <1>1, <2>1 DEF ChatInv, ChatTypeOK, NoMessage
<1>4. Stored = 1..s - 1 /\ Stored' = Stored \cup {s} /\ s \notin Stored
  BY <1>1, <1>3, StoredIs DEF Stored
<1>5. /\ SentAs(c)' = {s}
      /\ \A d : SentAs(d) \subseteq SentAs(d)' /\ (d # c => SentAs(d)' = SentAs(d))
  BY <1>1, <1>3, <1>4 DEF SentAs, Stored
<1>15. /\ answer' \in [Sends -> SUBSET Seqs]
       /\ \A d \in Sends : answer'[d] \subseteq SentAs(d)'
  <2>1. answer \in [Sends -> SUBSET Seqs] /\ \A d \in Sends : answer[d] \subseteq SentAs(d)
    BY DEF ChatInv, ChatTypeOK, RoomInv, SentOnce
  <2>2. CASE answer' = answer
    BY <1>5, <2>1, <2>2
  <2>3. CASE answer' = [answer EXCEPT ![c] = @ \cup {s}]
    BY <1>1, <1>5, <2>1, <2>3
  <2> QED BY <1>1, <2>2, <2>3
<1>6. ChatTypeOK'
  <2>1. message' \in [Seqs -> [send : Sends, revision : Revisions, deleted : BOOLEAN] \cup {NoMessage}]
    <3>1. [send |-> c, revision |-> 1, deleted |-> FALSE] \in [send : Sends, revision : Revisions, deleted : BOOLEAN]
      BY Bounds DEF Revisions
    <3> QED BY <1>1, <3>1 DEF ChatInv, ChatTypeOK
  <2>2. nextSeq' \in 1..MaxSeq + 1
    BY <1>1, Bounds DEF Seqs
  <2>3. job' \in [ChatTxns -> Jobs]
    BY <1>2, RestingKnows DEF ChatInv, ChatTypeOK, Jobs
  <2> QED BY <1>2, <1>15, <2>1, <2>2, <2>3 DEF ChatInv, ChatTypeOK, Jobs
<1>7. Numbered'
  <2>1. \A r \in Seqs \ {s} : message'[r] # NoMessage <=> r < s
    BY <1>1, <1>3 DEF ChatInv, RoomInv, Numbered
  <2> QED BY <1>1, <1>3, <2>1, Bounds DEF Numbered, Seqs
<1>8. SentOnce'
  <2>1. \A r \in Stored : message[r].send # c
    BY <1>1 DEF SentAs
  <2>2. \A r, q \in Stored' : message'[r].send = message'[q].send => r = q
    <3>1. \A r \in Stored : message'[r] = message[r]
      BY <1>3, <1>4 DEF Stored
    <3> QED BY <1>3, <1>4, <2>1, <3>1 DEF ChatInv, RoomInv, SentOnce
  <2> QED BY <1>15, <2>2 DEF SentOnce
<1>9. TextsAreEarlier'
  <2>1. \A n \in Revisions : [seq |-> s, revision |-> n] \notin revision
    BY <1>1, <1>4 DEF ChatInv, RoomInv, TextsAreEarlier
  <2>2. \A n \in Revisions : ~ (n < 1)
    BY DEF Revisions
  <2>3. \A r \in Seqs \ {s}, n \in Revisions :
          [seq |-> r, revision |-> n] \in revision' <=>
            r \in Stored' /\ ~message'[r].deleted /\ n < message'[r].revision
    BY <1>2, <1>3, <1>4 DEF ChatInv, RoomInv, TextsAreEarlier
  <2>4. message'[s].revision = 1
    BY <1>3
  <2>5. \A n \in Revisions : [seq |-> s, revision |-> n] \notin revision' /\ ~ (n < message'[s].revision)
    BY <1>2, <2>1, <2>2, <2>4
  <2> QED BY <2>3, <2>5 DEF TextsAreEarlier
<1>10. Members' = Members /\ GuardiansSitIn' /\ OpenedBefore'
  BY <1>2, SeatsStand DEF ChatInv
<1>11. Unopened'
  BY <1>1, <1>2 DEF Unopened
<1>12. CursorsStand' /\ NothingMissed' /\ MarksStayInside'
  <2>1. nextSeq < nextSeq' /\ nextSeq \in Nat /\ nextSeq' \in Nat
    BY <1>1 DEF Seqs
  <2>2. CursorsStand'
    BY <1>2, <1>10, <2>1 DEF ChatInv, RoomInv, CursorsStand, ChatTypeOK
  <2>3. NothingMissed'
    BY <1>2, <1>4 DEF ChatInv, RoomInv, NothingMissed
  <2>4. MarksStayInside'
    BY <1>2, <1>10, <2>1 DEF ChatInv, RoomInv, MarksStayInside, ChatTypeOK, Members
  <2> QED BY <2>2, <2>3, <2>4
<1>13. ASSUME NEW u \in ChatTxns \ {t} PROVE Knows(u)'
  <2>1. job'[u] = job[u] /\ threadLock # u
    BY <1>1, <1>2 DEF ChatInv, ChatTypeOK
  <2>2. JoinKnows(u)'
    BY <1>2, <2>1, SameRoomJoins
  <2>3. \A r \in Stored : message'[r] = message[r]
    BY <1>3, <1>4 DEF Stored
  <2> QED BY <1>2, <2>1, <2>2, <2>3, OthersKnow
<1>14. Knows(t)'
  BY <1>2, RestingKnows DEF ChatInv, ChatTypeOK
<1> QED BY <1>6, <1>7, <1>8, <1>9, <1>10, <1>11, <1>12, <1>13, <1>14 DEF ChatInv, RoomInv

\* An edit makes the text it replaces a row, on the message it has locked.
LEMMA EditCommitKeeps ==
  ASSUME ChatInv, NEW t \in ChatTxns, EditCommit(t)
  PROVE  ChatInv'
<1>1. PICK s \in Seqs :
        /\ s = job[t].seq /\ s \in Stored /\ messageLock[s] = t
        /\ ~message[s].deleted /\ message[s].revision < MaxRevision
        /\ revision' = revision \cup {[seq |-> s, revision |-> message[s].revision]}
        /\ message' = [message EXCEPT ![s].revision = @ + 1]
        /\ messageLock' = [messageLock EXCEPT ![s] = Nobody]
  BY DEF EditCommit, ChatInv, Knows, EditKnows, Stored
<1>2. /\ job' = [job EXCEPT ![t] = Resting]
      /\ UNCHANGED <<active, gone, policy, shape, openedUnder, counted, member, delivered, read, nextSeq,
                     chatClients, threadLock>>
  BY DEF EditCommit
<1>3. /\ message[s] \in [send : Sends, revision : Revisions, deleted : BOOLEAN]
      /\ message[s].revision \in Nat /\ message[s].revision + 1 \in Revisions
  <2>1. message[s] \in [send : Sends, revision : Revisions, deleted : BOOLEAN]
    BY <1>1 DEF ChatInv, ChatTypeOK, Stored
  <2> QED BY <1>1, <2>1, Bounds DEF Revisions
<1>4. /\ message'[s] \in [send : Sends, revision : Revisions, deleted : BOOLEAN]
      /\ message'[s].send = message[s].send /\ ~message'[s].deleted
      /\ message'[s].revision = message[s].revision + 1
      /\ \A r \in Seqs \ {s} : message'[r] = message[r]
  BY <1>1, <1>3 DEF ChatInv, ChatTypeOK
<1>5. message'[s] # NoMessage
  BY <1>4, SendsAssumption DEF NoMessage
<1>6. Stored' = Stored /\ \A r \in Stored : message'[r].send = message[r].send
  BY <1>1, <1>4, <1>5 DEF Stored
<1>7. \A d : SentAs(d)' = SentAs(d)
  BY <1>6 DEF SentAs
<1>8. ChatTypeOK'
  <2>1. message' \in [Seqs -> [send : Sends, revision : Revisions, deleted : BOOLEAN] \cup {NoMessage}]
    BY <1>1, <1>4 DEF ChatInv, ChatTypeOK
  <2>2. revision' \subseteq [seq : Seqs, revision : Revisions]
    BY <1>1, <1>3 DEF ChatInv, ChatTypeOK
  <2>3. job' \in [ChatTxns -> Jobs]
    BY <1>2, RestingKnows DEF ChatInv, ChatTypeOK, Jobs
  <2>4. messageLock' \in [Seqs -> ChatTxns \cup {Nobody}]
    BY <1>1 DEF ChatInv, ChatTypeOK
  <2> QED BY <1>2, <2>1, <2>2, <2>3, <2>4 DEF ChatInv, ChatTypeOK, Jobs, chatClients
<1>9. Numbered'
  BY <1>1, <1>2, <1>4, <1>5 DEF ChatInv, RoomInv, Numbered, Stored
<1>10. SentOnce'
  BY <1>2, <1>6, <1>7 DEF ChatInv, RoomInv, SentOnce, chatClients
<1>11. TextsAreEarlier'
  <2>1. ASSUME NEW r \in Seqs \ {s}, NEW n \in Revisions
        PROVE  [seq |-> r, revision |-> n] \in revision' <=>
                 r \in Stored' /\ ~message'[r].deleted /\ n < message'[r].revision
    BY <1>1, <1>4, <1>6 DEF ChatInv, RoomInv, TextsAreEarlier
  <2>2. ASSUME NEW n \in Revisions
        PROVE  [seq |-> s, revision |-> n] \in revision' <=> n < message'[s].revision
    <3>1. [seq |-> s, revision |-> n] \in revision <=> n < message[s].revision
      BY <1>1 DEF ChatInv, RoomInv, TextsAreEarlier
    <3>2. [seq |-> s, revision |-> n] \in revision' <=> n < message[s].revision \/ n = message[s].revision
      BY <1>1, <3>1
    <3> QED BY <1>3, <1>4, <3>2 DEF Revisions
  <2> QED BY <1>1, <1>4, <1>6, <2>1, <2>2 DEF TextsAreEarlier
<1>12. Members' = Members /\ GuardiansSitIn' /\ OpenedBefore'
  BY <1>2, SeatsStand DEF ChatInv
<1>13. Unopened' /\ CursorsStand' /\ NothingMissed' /\ MarksStayInside'
  BY <1>2, <1>6, <1>12
     DEF ChatInv, RoomInv, Unopened, CursorsStand, NothingMissed, MarksStayInside, chatClients
<1>14. ASSUME NEW u \in ChatTxns \ {t} PROVE Knows(u)'
  <2>1. job'[u] = job[u]
    BY <1>2 DEF ChatInv, ChatTypeOK
  <2>2. JoinKnows(u)'
    BY <1>2, <2>1, SameRoomJoins
  <2>3. \A r \in Stored : messageLock[r] = u => messageLock'[r] = u /\ message'[r] = message[r]
    BY <1>1, <1>4 DEF Stored, ChatInv, ChatTypeOK
  <2> QED BY <1>2, <1>7, <2>1, <2>2, <2>3, OthersKnow
<1>15. Knows(t)'
  BY <1>2, RestingKnows DEF ChatInv, ChatTypeOK
<1> QED BY <1>8, <1>9, <1>10, <1>11, <1>12, <1>13, <1>14, <1>15 DEF ChatInv, RoomInv

\* A deletion takes the earlier texts of its message and no other.
LEMMA DeleteMessageKeeps ==
  ASSUME ChatInv, DeleteMessage
  PROVE  ChatInv'
<1>1. PICK s \in Seqs :
        /\ s \in Stored /\ messageLock[s] = Nobody
        /\ message' = [message EXCEPT ![s].deleted = TRUE]
        /\ revision' = {r \in revision : r.seq # s}
  BY DEF DeleteMessage, Stored
<1>2. UNCHANGED <<active, gone, policy, shape, openedUnder, counted, member, delivered, read, nextSeq,
                  chatClients, chatLocks, job>>
  BY DEF DeleteMessage
<1>3. message[s] \in [send : Sends, revision : Revisions, deleted : BOOLEAN]
  BY <1>1 DEF ChatInv, ChatTypeOK, Stored
<1>4. /\ message'[s] \in [send : Sends, revision : Revisions, deleted : BOOLEAN]
      /\ message'[s].send = message[s].send /\ message'[s].deleted
      /\ \A r \in Seqs \ {s} : message'[r] = message[r]
  BY <1>1, <1>3 DEF ChatInv, ChatTypeOK
<1>5. message'[s] # NoMessage
  BY <1>4, SendsAssumption DEF NoMessage
<1>6. Stored' = Stored /\ \A r \in Stored : message'[r].send = message[r].send
  BY <1>1, <1>4, <1>5 DEF Stored
<1>7. \A d : SentAs(d)' = SentAs(d)
  BY <1>6 DEF SentAs
<1>8. ChatTypeOK'
  <2>1. message' \in [Seqs -> [send : Sends, revision : Revisions, deleted : BOOLEAN] \cup {NoMessage}]
    BY <1>1, <1>4 DEF ChatInv, ChatTypeOK
  <2> QED BY <1>1, <1>2, <2>1 DEF ChatInv, ChatTypeOK, chatClients, chatLocks
<1>9. Numbered'
  BY <1>1, <1>2, <1>4, <1>5 DEF ChatInv, RoomInv, Numbered, Stored
<1>10. SentOnce'
  BY <1>2, <1>6, <1>7 DEF ChatInv, RoomInv, SentOnce, chatClients
<1>11. TextsAreEarlier'
  <2>1. ASSUME NEW r \in Seqs \ {s}, NEW n \in Revisions
        PROVE  [seq |-> r, revision |-> n] \in revision' <=>
                 r \in Stored' /\ ~message'[r].deleted /\ n < message'[r].revision
    BY <1>1, <1>4, <1>6 DEF ChatInv, RoomInv, TextsAreEarlier
  <2>2. \A n \in Revisions : [seq |-> s, revision |-> n] \notin revision'
    BY <1>1
  <2> QED BY <1>4, <2>1, <2>2 DEF TextsAreEarlier
<1>12. Members' = Members /\ GuardiansSitIn' /\ OpenedBefore'
  BY <1>2, SeatsStand DEF ChatInv
<1>13. Unopened' /\ CursorsStand' /\ NothingMissed' /\ MarksStayInside'
  BY <1>2, <1>6, <1>12
     DEF ChatInv, RoomInv, Unopened, CursorsStand, NothingMissed, MarksStayInside, chatClients
<1>14. ASSUME NEW u \in ChatTxns PROVE Knows(u)'
  <2>1. \A r \in Stored : messageLock[r] = u => message'[r] = message[r]
    BY <1>1, <1>4, SendsAssumption DEF Stored
  <2> QED BY <1>2, <1>7, <2>1, SameRoomJoins, OthersKnow DEF chatLocks
<1> QED BY <1>8, <1>9, <1>10, <1>11, <1>12, <1>13, <1>14 DEF ChatInv, RoomInv

-----------------------------------------------------------------------------
(* What the clients fetch and mark.                                        *)

\* The first rows after a position, of rows that are numbered without a gap, are the PageSize
\* numbers that follow it.
LEMMA PageIs ==
  ASSUME NEW from \in Nat, NEW last \in Nat
  PROVE  Page(from + 1..last) = {s \in from + 1..last : s - from <= PageSize}
<1> DEFINE rows == from + 1..last
<1>1. ASSUME NEW s \in rows PROVE Cardinality({r \in rows : r <= s}) = s - from
  <2>1. {r \in rows : r <= s} = from + 1..s
    OBVIOUS
  <2>2. Cardinality(from + 1..s) = s - from
    BY FS_Interval
  <2> QED BY <2>1, <2>2
<1> QED BY <1>1 DEF Page

\* A step that moves what clients have, and their marks, and nothing else.
LEMMA ReadersMove ==
  ASSUME ChatInv, ChatTypeOK',
         UNCHANGED <<active, gone, policy, shape, openedUnder, counted, member, nextSeq, message, revision, answer,
                     chatLocks, job>>,
         shape = "none" => UNCHANGED <<delivered, read>>,
         CursorsStand', NothingMissed', MarksStayInside'
  PROVE  ChatInv'
<1>1. Members' = Members /\ GuardiansSitIn' /\ OpenedBefore'
  BY SeatsStand DEF ChatInv
<1>2. Stored' = Stored /\ \A d : SentAs(d)' = SentAs(d)
  BY DEF Stored, SentAs
<1>3. RoomInv'
  BY <1>1, <1>2 DEF ChatInv, RoomInv, Numbered, SentOnce, TextsAreEarlier, Unopened
<1>4. ASSUME NEW u \in ChatTxns PROVE Knows(u)'
  BY <1>2, SameRoomJoins, OthersKnow DEF chatLocks
<1> QED BY <1>3, <1>4 DEF ChatInv

\* A page holds the numbers that follow the cursor, so the cursor skips none.
LEMMA FetchKeeps ==
  ASSUME ChatInv, Fetch
  PROVE  ChatInv'
<1> DEFINE From(p) == IF cursor[p] < member[p] - 1 THEN member[p] - 1 ELSE cursor[p]
           New(p) == Page({s \in Stored : s > From(p)})
<1>1. PICK p \in Readers :
        /\ p \in Members /\ New(p) # {}
        /\ cursor' = [cursor EXCEPT ![p] = CHOOSE s \in New(p) : \A r \in New(p) : r <= s]
        /\ fetched' = [fetched EXCEPT ![p] = @ \cup New(p)]
  BY DEF Fetch
<1>2. /\ UNCHANGED <<active, gone, policy, shape, openedUnder, counted, member, delivered, read, nextSeq, message,
                     revision, answer, chatLocks, job>>
  BY DEF Fetch, chatRows
<1>3. PICK from \in Nat : from = From(p)
  BY <1>1, PeopleAssumption, Bounds DEF ChatInv, ChatTypeOK, Members
<1>4. nextSeq \in 1..MaxSeq + 1 /\ nextSeq - 1 \in Nat /\ Stored = 1..nextSeq - 1
  BY StoredIs, Bounds
<1>5. New(p) = {s \in from + 1..nextSeq - 1 : s - from <= PageSize}
  <2>1. {s \in Stored : s > From(p)} = from + 1..nextSeq - 1
    BY <1>3, <1>4
  <2> QED BY <1>4, <2>1, PageIs
<1> HIDE DEF New
<1>6. PICK last \in Stored :
        /\ last \in New(p) /\ \A r \in New(p) : r <= last
        /\ New(p) = from + 1..last
  <2>1. from + 1 \in New(p)
    BY <1>1, <1>4, <1>5, Bounds
  <2>2. CASE nextSeq - 1 <= from + PageSize
    BY <1>4, <1>5, <2>1, <2>2, Bounds
  <2>3. CASE ~ (nextSeq - 1 <= from + PageSize)
    BY <1>4, <1>5, <2>1, <2>3, Bounds
  <2> QED BY <2>2, <2>3
<1>7. cursor' = [cursor EXCEPT ![p] = last]
  <2>1. (CHOOSE s \in New(p) : \A r \in New(p) : r <= s) = last
    BY <1>4, <1>5, <1>6
  <2> QED BY <1>1, <2>1
<1>8. cursor \in [Readers -> 0..MaxSeq] /\ fetched \in [Readers -> SUBSET Seqs]
  BY DEF ChatInv, ChatTypeOK
<1>9. Stored \subseteq Seqs /\ New(p) \subseteq Seqs /\ last \in 0..MaxSeq
  BY <1>4, <1>6, Bounds DEF Seqs
<1>10. ChatTypeOK'
  BY <1>1, <1>2, <1>7, <1>8, <1>9 DEF ChatInv, ChatTypeOK, chatLocks
<1>11. Members' = Members /\ Stored' = Stored
  BY <1>2 DEF Members, Stored
<1>12. CursorsStand'
  <2>1. cursor'[p] = last /\ \A q \in Readers \ {p} : cursor'[q] = cursor[q]
    BY <1>7, <1>8
  <2>2. last < nextSeq
    BY <1>4, <1>6
  <2> QED BY <1>1, <1>2, <1>11, <2>1, <2>2 DEF ChatInv, RoomInv, CursorsStand
<1>13. NothingMissed'
  <2>1. ASSUME NEW s \in 1..last, s >= member[p] PROVE s \in fetched'[p] /\ s \in Stored
    <3>1. s \in fetched[p] \/ s \in New(p)
      <4>1. CASE s <= from
        <5>1. s <= cursor[p]
          BY <1>3, <1>8, <2>1, <4>1, PeopleAssumption, Bounds DEF ChatInv, ChatTypeOK
        <5> QED BY <1>4, <1>8, <2>1, <5>1 DEF ChatInv, RoomInv, NothingMissed
      <4>2. CASE s > from
        BY <1>6, <1>4, <4>2
      <4> QED BY <1>4, <4>1, <4>2
    <3> QED BY <1>1, <1>4, <1>8, <3>1
  <2>2. \A q \in Readers \ {p} : cursor'[q] = cursor[q] /\ fetched'[q] = fetched[q]
    BY <1>1, <1>7, <1>8
  <2>3. cursor'[p] = last
    BY <1>7, <1>8
  <2> QED BY <1>2, <1>11, <2>1, <2>2, <2>3 DEF ChatInv, RoomInv, NothingMissed
<1>14. MarksStayInside'
  BY <1>2, <1>11 DEF ChatInv, RoomInv, MarksStayInside
<1> QED BY <1>2, <1>10, <1>12, <1>13, <1>14, ReadersMove

\* A mark goes forward, to a number between the join of its reader and the newest message.
LEMMA MarksKeep ==
  ASSUME ChatInv, MarkDelivered \/ MarkRead
  PROVE  ChatInv'
<1>1. PICK p \in Readers, n \in 0..MaxSeq :
        /\ MayMark(p, n)
        /\ delivered' = [delivered EXCEPT ![p] = Larger(@, n)]
        /\ read' = read \/ read' = [read EXCEPT ![p] = Larger(@, n)]
  BY DEF MarkDelivered, MarkRead
<1>2. UNCHANGED <<active, gone, policy, shape, openedUnder, counted, member, nextSeq, message, revision,
                  chatClients, chatLocks, job>>
  BY DEF MarkDelivered, MarkRead
<1>3. /\ p \in People /\ p \in Members
      /\ member[p] \in Nat /\ n \in Nat /\ member[p] - 1 <= n /\ n < nextSeq
  BY <1>1, StoredIs, PeopleAssumption, Bounds DEF MayMark, ChatInv, ChatTypeOK
<1>4. /\ delivered \in [People -> 0..MaxSeq] /\ read \in [People -> 0..MaxSeq]
      /\ delivered' \in [People -> 0..MaxSeq] /\ read' \in [People -> 0..MaxSeq]
  BY <1>1, <1>3 DEF ChatInv, ChatTypeOK, Larger
<1>5. ChatTypeOK'
  BY <1>2, <1>4 DEF ChatInv, ChatTypeOK, chatClients, chatLocks
<1>6. shape # "none" /\ Members' = Members /\ Stored' = Stored
  BY <1>2, <1>3 DEF ChatInv, RoomInv, Unopened, Members, Stored
<1>7. MarksStayInside'
  <2>1. nextSeq \in Nat
    BY StoredIs, Bounds
  <2>2. /\ member[p] - 1 <= read[p] /\ read[p] <= delivered[p] /\ delivered[p] < nextSeq
    BY <1>3 DEF ChatInv, RoomInv, MarksStayInside
  <2>3. /\ member[p] - 1 <= read'[p] /\ read'[p] <= delivered'[p] /\ delivered'[p] < nextSeq
    BY <1>1, <1>3, <1>4, <2>1, <2>2 DEF Larger
  <2>4. \A q \in People \ {p} : read'[q] = read[q] /\ delivered'[q] = delivered[q]
    BY <1>1, <1>4
  <2>5. \A q \in Members : q \in People
    BY DEF Members
  <2> QED BY <1>2, <1>6, <2>3, <2>4, <2>5 DEF ChatInv, RoomInv, MarksStayInside
<1>8. CursorsStand' /\ NothingMissed'
  BY <1>2, <1>6 DEF ChatInv, RoomInv, CursorsStand, NothingMissed, chatClients
<1> QED BY <1>2, <1>5, <1>6, <1>7, <1>8, ReadersMove DEF chatClients
-----------------------------------------------------------------------------
\* The invariant holds of a conversation that was not opened.
LEMMA ChatBegins == ChatInit => ChatInv
<1> SUFFICES ASSUME ChatInit PROVE ChatInv
  OBVIOUS
<1>1. Stored = {} /\ Members = {}
  BY DEF ChatInit, Stored, Members
<1>2. ChatTypeOK
  <2>1. Resting \in Jobs
    BY Bounds DEF Resting, Jobs, Modes
  <2> QED BY <2>1, Bounds DEF ChatInit, ChatTypeOK, Jobs, Modes, Unset
<1>3. OpenedBefore
  BY <1>2, Bounds DEF ChatInit, ChatTypeOK, OpenedBefore
<1>4. Numbered /\ SentOnce /\ TextsAreEarlier /\ Unopened
  BY <1>1 DEF ChatInit, Numbered, SentOnce, SentAs, TextsAreEarlier, Unopened, Seqs
<1>5. CursorsStand /\ NothingMissed /\ MarksStayInside /\ GuardiansSitIn
  BY <1>1 DEF ChatInit, CursorsStand, NothingMissed, MarksStayInside, GuardiansSitIn
<1>6. \A t \in ChatTxns : job[t].step = "rest"
  BY DEF ChatInit, Resting
<1>7. \A t \in ChatTxns : Knows(t)
  BY <1>6 DEF Knows, PolicyKnows, JoinKnows, InsertKnows, SendKnows, EditKnows
<1> QED BY <1>2, <1>3, <1>4, <1>5, <1>7 DEF ChatInv, RoomInv

\* Every step keeps the invariant.
LEMMA ChatSteps == ChatInv /\ [ChatNext]_chatVars => ChatInv'
<1> SUFFICES ASSUME ChatInv, [ChatNext]_chatVars PROVE ChatInv'
  OBVIOUS
<1>1. ASSUME NEW t \in ChatTxns, ChatWork(t) PROVE ChatInv'
  BY <1>1, PolicyReadKeeps, PolicyWriteKeeps, JoinBeginKeeps, JoinCheckKeeps, JoinInsertKeeps,
     SendBeginKeeps, SendCommitKeeps, EditBeginKeeps, EditCommitKeeps, ChatRollbackKeeps
     DEF ChatWork
<1>2. CASE UNCHANGED chatVars
  <2>1. \A u \in ChatTxns : Knows(u)'
    BY <1>2, SameRoomJoins, OthersKnow DEF chatVars, chatRows, chatLocks, SentAs, Stored
  <2> QED BY <1>2, <2>1, RoomStands DEF chatVars, chatRows, chatClients, chatLocks, ChatInv, ChatTypeOK
<1> QED BY <1>1, <1>2, OpenThreadKeeps, FamilyKeeps, SendAgainKeeps, DeleteMessageKeeps,
           FetchKeeps, MarksKeep DEF ChatNext

\* What the rows of a conversation, its transactions and its clients know of each other stands
\* at every moment (createThreadMemberAdd, createMessageSend, createMessageEdit, createMessageList).
THEOREM ChatInvariant == ChatSpec => []ChatInv
BY ChatBegins, ChatSteps, PTL DEF ChatSpec

\* A client that reads on from its cursor has every message since its participant joined:
\* allocateSeq numbers under the lock of the thread row, and createMessageList pages in order.
THEOREM ReadersMissNothing == ChatSpec => []NothingMissed
<1>1. ChatInv => NothingMissed
  BY DEF ChatInv, RoomInv
<1> QED BY <1>1, ChatInvariant, PTL

\* A message is one row however often it is sent, and is answered with its one number
\* (readMessageByClientId under the lock of the thread row).
THEOREM ResendsMakeNothing == ChatSpec => []OneSendOneMessage
<1>1. ChatInv => OneSendOneMessage
  <2> SUFFICES ASSUME ChatInv, NEW c \in Sends
               PROVE  Cardinality(SentAs(c)) <= 1 /\ answer[c] \subseteq SentAs(c)
    BY DEF OneSendOneMessage
  <2>1. \A s, r \in SentAs(c) : s = r
    BY DEF ChatInv, RoomInv, SentOnce, SentAs
  <2>2. CASE SentAs(c) = {}
    BY <2>2, FS_EmptySet DEF ChatInv, RoomInv, SentOnce
  <2>3. ASSUME NEW s \in SentAs(c) PROVE Cardinality(SentAs(c)) = 1
    <3>1. SentAs(c) = {s}
      BY <2>1
    <3> QED BY <3>1, FS_Singleton
  <2> QED BY <2>2, <2>3 DEF ChatInv, RoomInv, SentOnce
<1> QED BY <1>1, ChatInvariant, PTL

\* Of the guardians who were in the family when the conversation was opened or a child was asked
\* in, those the policy seats are in it while they stay, through guardians who come and go and
\* two members added at once: in createThreadMemberAdd the policy is read before the lock and the
\* members under it.
THEOREM GuardiansAreSeated == ChatSpec => []GuardiansSitIn
<1>1. ChatInv => GuardiansSitIn
  BY DEF ChatInv, RoomInv
<1> QED BY <1>1, ChatInvariant, PTL

\* No receipt counts a message its reader could not see (requireReadableSeq,
\* requireDeliverableSeq).
THEOREM MarksAreTrue == ChatSpec => []MarksStayInside
<1>1. ChatInv => MarksStayInside
  BY DEF ChatInv, RoomInv
<1> QED BY <1>1, ChatInvariant, PTL

\* A deleted message leaves no earlier text, a live one all of them (updateMessageBody,
\* markMessageDeleted).
THEOREM TextsAreKeptOrGone == ChatSpec => []TextsStandOrGo
<1>1. ChatInv => TextsStandOrGo
  <2> SUFFICES ASSUME ChatInv, NEW s \in Stored
               PROVE  {r.revision : r \in {q \in revision : q.seq = s}}
                        = IF message[s].deleted THEN {} ELSE 1..message[s].revision - 1
    BY DEF TextsStandOrGo
  <2>1. message[s].revision \in 1..MaxRevision /\ s \in Seqs /\ Revisions = 1..MaxRevision
    BY DEF ChatInv, ChatTypeOK, Stored, Revisions, Seqs
  <2>2. \A n \in Revisions : [seq |-> s, revision |-> n] \in revision <=>
                               ~message[s].deleted /\ n < message[s].revision
    BY <2>1 DEF ChatInv, RoomInv, TextsAreEarlier
  <2>3. revision \subseteq [seq : Seqs, revision : Revisions]
    BY DEF ChatInv, ChatTypeOK
  <2>4. \A n : n \in {r.revision : r \in {q \in revision : q.seq = s}} <=>
                 n \in Revisions /\ [seq |-> s, revision |-> n] \in revision
    <3>1. ASSUME NEW r \in revision, r.seq = s
          PROVE  r.revision \in Revisions /\ r = [seq |-> s, revision |-> r.revision]
      BY <2>3, <3>1
    <3>2. ASSUME NEW n \in Revisions, [seq |-> s, revision |-> n] \in revision
          PROVE  \E r \in revision : r.seq = s /\ n = r.revision
      BY <3>2
    <3> QED BY <3>1, <3>2
  <2>5. \A n : n \in 1..message[s].revision - 1 <=> n \in Revisions /\ n < message[s].revision
    BY <2>1, Bounds
  <2> QED BY <2>2, <2>4, <2>5
<1> QED BY <1>1, ChatInvariant, PTL

-----------------------------------------------------------------------------
\* What a step other than an edit leaves of the revisions of the messages.
LEMMA RevisionsStand ==
  ASSUME ChatInv, [ChatNext]_chatVars, \A t \in ChatTxns : ~EditCommit(t), NEW s \in Stored
  PROVE  message'[s].revision = message[s].revision
<1>1. message[s] \in [send : Sends, revision : Revisions, deleted : BOOLEAN] /\ s \in Seqs
  BY DEF ChatInv, ChatTypeOK, Stored
<1>2. ASSUME NEW t \in ChatTxns, SendCommit(t) PROVE message'[s] = message[s]
  <2>1. job[t].seq # s
    BY <1>2, StoredIs DEF SendCommit, ChatInv, Knows, SendKnows
  <2> QED BY <1>1, <1>2, <2>1 DEF SendCommit, ChatInv, ChatTypeOK
<1>3. CASE DeleteMessage
  BY <1>1, <1>3 DEF DeleteMessage, ChatInv, ChatTypeOK, Stored
<1>4. ASSUME NEW t \in ChatTxns, ChatWork(t) PROVE message'[s] = message[s]
  BY <1>2, <1>4 DEF ChatWork, PolicyRead, PolicyWrite, JoinBegin, JoinCheck, JoinInsert, SendBegin,
                    EditBegin, ChatRollback, chatRows
<1> QED BY <1>3, <1>4
   DEF ChatNext, OpenThread, GuardianJoins, GuardianLeaves, SendAgain, Fetch, MarkDelivered,
       MarkRead, chatVars, chatRows

\* Only the change of a policy changes it.
LEMMA PolicyStands ==
  ASSUME [ChatNext]_chatVars, \A t \in ChatTxns : ~PolicyWrite(t)
  PROVE  policy' = policy
<1>1. ASSUME NEW t \in ChatTxns, ChatWork(t) PROVE policy' = policy
  BY <1>1 DEF ChatWork, PolicyRead, JoinBegin, JoinCheck, JoinInsert, SendBegin, SendCommit,
              EditBegin, EditCommit, ChatRollback, chatRows
<1> QED BY <1>1
   DEF ChatNext, OpenThread, GuardianJoins, GuardianLeaves, SendAgain, DeleteMessage, Fetch,
       MarkDelivered, MarkRead, chatVars, chatRows

\* No edit and no change of the policy overwrites what its author had not read (updateMessageBody
\* on the locked row, the WHERE of the policy's upsert).
THEOREM NothingIsOverwritten == ChatSpec => NoLostUpdate
<1>1. ASSUME ChatInv, [ChatNext]_chatVars, NEW s \in Stored, message'[s].revision # message[s].revision
      PROVE  \E t \in ChatTxns : /\ job[t].step = "edit" /\ job[t].seq = s
                                 /\ job[t].base = message[s].revision /\ job'[t] = Resting
  <2>1. PICK t \in ChatTxns : EditCommit(t)
    BY <1>1, RevisionsStand
  <2>2. EditKnows(t) /\ job[t].step = "edit" /\ job'[t] = Resting
    BY <1>1, <2>1 DEF EditCommit, ChatInv, Knows, ChatTypeOK
  <2>3. job[t].seq = s
    BY <1>1, <2>1 DEF EditCommit, ChatInv, ChatTypeOK, Stored
  <2> QED BY <2>2, <2>3 DEF EditKnows
<1>2. ASSUME ChatInv, [ChatNext]_chatVars, policy' # policy
      PROVE  \E t \in ChatTxns : /\ job[t].step = "policy" /\ job[t].base = policy.version
                                 /\ policy'.version = policy.version + 1 /\ job'[t] = Resting
  <2>1. PICK t \in ChatTxns : PolicyWrite(t)
    BY <1>2, PolicyStands
  <2>2. job'[t] = Resting
    BY <1>2, <2>1 DEF PolicyWrite, ChatInv, ChatTypeOK
  <2> QED BY <2>1, <2>2 DEF PolicyWrite
<1>3. ChatInv /\ [ChatNext]_chatVars =>
        /\ \A s \in Stored : message'[s].revision # message[s].revision =>
             \E t \in ChatTxns : /\ job[t].step = "edit" /\ job[t].seq = s
                                 /\ job[t].base = message[s].revision /\ job'[t] = Resting
        /\ policy' # policy =>
             \E t \in ChatTxns : /\ job[t].step = "policy" /\ job[t].base = policy.version
                                 /\ policy'.version = policy.version + 1 /\ job'[t] = Resting
  BY <1>1, <1>2
<1> QED BY <1>3, ChatInvariant, PTL DEF ChatSpec, NoLostUpdate

-----------------------------------------------------------------------------
(***************************************************************************)
(* The media.                                                              *)
(***************************************************************************)

\* What a row says of its key, its carrier and the keys it hands back.
RowsAgree ==
  \A f \in Files :
    /\ media[f].state = "none" => /\ held[f] = NoKey /\ media[f].key = NoKey
                                  /\ carrier[f] = "none"
    /\ media[f].state = "live" => /\ held[f] # NoKey /\ media[f].key = held[f]
                                  /\ carrier[f] # "deleted"
    /\ media[f].state = "removed" => /\ held[f] # NoKey /\ media[f].key = NoKey
                                     /\ carrier[f] = "deleted" /\ purge[f] = held[f]

\* A key is drawn once: for one row at most, and for one upload.
KeysAreOnes ==
  /\ bytes \subseteq drawn
  /\ \A f \in Files : held[f] # NoKey => held[f] \in drawn
  /\ \A f, g \in Files : held[f] = held[g] /\ held[f] # NoKey => f = g

\* The steps of an upload, and the steps that account for bytes without a row.
Uploading == {"put", "insert", "discard"}
Writing == {"insert", "discard", "purge"}

\* What a request has in hand: an upload a key of its own, which no row has unless the commit
\* of that row was taken for a failure; a deletion and a download the key of their file's row.
InHand ==
  \A r \in Requests :
    LET f == request[r].file
        k == request[r].key
    IN /\ request[r].step = "idle" => request[r] = Idle
       /\ request[r].step # "idle" => f \in Files /\ k \in drawn
       /\ request[r].step = "put" => k \notin bytes
       /\ request[r].step = "insert" => k \in bytes
       /\ request[r].step \in {"put", "insert"} => \A g \in Files : held[g] # k
       /\ request[r].step = "discard" => lost > 0 \/ \A g \in Files : held[g] # k
       /\ request[r].step \in {"purge", "read"} => k = held[f]
       /\ request[r].step = "purge" => media[f].state = "removed"
       /\ request[r].step = "read" => media[f].state # "none"

\* No two uploads have drawn the same key.
OwnKeys ==
  \A r, q \in Requests :
    /\ request[r].step \in Uploading /\ request[q].step \in Uploading
    /\ request[r].key = request[q].key
    => r = q

\* Bytes have a row, or a request that will give them one or delete them, or a failure left them.
BytesAccounted ==
  \A k \in bytes : \/ \E f \in Files : media[f].key = k
                   \/ \E r \in Requests : request[r].key = k /\ request[r].step \in Writing
                   \/ crashes > 0

\* A deletion whose caller was answered left no bytes.
ConfirmedAreGone ==
  \A f \in confirmed : media[f].state = "removed" /\ held[f] \notin bytes

\* The inductive invariant of the media.
MediaInv ==
  /\ MediaTypeOK /\ RowsAgree /\ KeysAreOnes /\ InHand /\ OwnKeys
  /\ BytesAccounted /\ ConfirmedAreGone /\ MissingOnlyWhenDeleted

\* An upload begins with a key that nobody has drawn.
LEMMA UploadLookKeeps ==
  ASSUME MediaInv, NEW r \in Requests, UploadLook(r)
  PROVE  MediaInv'
<1>1. MediaTypeOK'
  BY DEF UploadLook, Undrawn, Goes, mediaRows, mediaHistory, MediaInv, MediaTypeOK
<1>2. RowsAgree' /\ KeysAreOnes'
  BY DEF UploadLook, mediaRows, mediaHistory, MediaInv, RowsAgree, KeysAreOnes
<1>3. InHand' /\ OwnKeys'
  BY MediaAssumption DEF UploadLook, Undrawn, Goes, mediaRows, mediaHistory, MediaInv,
                         KeysAreOnes, InHand, OwnKeys, Uploading
<1>4. BytesAccounted' /\ ConfirmedAreGone' /\ MissingOnlyWhenDeleted'
  BY DEF UploadLook, Goes, At, mediaRows, mediaHistory, MediaInv, Writing, BytesAccounted,
         ConfirmedAreGone, MissingOnlyWhenDeleted, LiveMediaHasBytes
<1> QED BY <1>1, <1>2, <1>3, <1>4 DEF MediaInv

\* The bytes of an upload are put under its own key.
LEMMA UploadPutKeeps ==
  ASSUME MediaInv, NEW r \in Requests, UploadPut(r)
  PROVE  MediaInv'
<1>1. MediaTypeOK'
  BY DEF UploadPut, Goes, At, mediaRows, mediaHistory, MediaInv, MediaTypeOK, InHand
<1>2. RowsAgree' /\ KeysAreOnes'
  BY DEF UploadPut, At, mediaRows, mediaHistory, MediaInv, RowsAgree, KeysAreOnes, InHand
<1>3. InHand' /\ OwnKeys'
  BY DEF UploadPut, Goes, At, mediaRows, mediaHistory, MediaInv, MediaTypeOK, InHand, OwnKeys,
         Uploading
<1>4. BytesAccounted' /\ ConfirmedAreGone' /\ MissingOnlyWhenDeleted'
  BY DEF UploadPut, Goes, At, mediaRows, mediaHistory, MediaInv, MediaTypeOK, RowsAgree, InHand,
         Uploading, Writing, BytesAccounted, ConfirmedAreGone, MissingOnlyWhenDeleted,
         LiveMediaHasBytes
<1> QED BY <1>1, <1>2, <1>3, <1>4 DEF MediaInv

\* The row is made live over bytes that are there.
LEMMA UploadInsertKeeps ==
  ASSUME MediaInv, NEW r \in Requests, UploadInsert(r)
  PROVE  MediaInv'
<1>1. MediaTypeOK'
  BY DEF UploadInsert, Inserts, Ends, Idle, MediaInv, MediaTypeOK
<1>2. RowsAgree' /\ KeysAreOnes'
  BY DEF UploadInsert, Inserts, At, MediaInv, MediaTypeOK, RowsAgree, KeysAreOnes, InHand
<1>3. InHand' /\ OwnKeys'
  BY MediaAssumption DEF UploadInsert, Inserts, Ends, Idle, MediaInv, MediaTypeOK, InHand,
                         OwnKeys, Uploading
<1>4. BytesAccounted' /\ ConfirmedAreGone' /\ MissingOnlyWhenDeleted'
  BY MediaAssumption DEF UploadInsert, Inserts, Ends, At, MediaInv, MediaTypeOK, RowsAgree,
                         InHand, Writing, BytesAccounted, ConfirmedAreGone,
                         MissingOnlyWhenDeleted, LiveMediaHasBytes
<1> QED BY <1>1, <1>2, <1>3, <1>4 DEF MediaInv

\* An upload that lost has a key no row has.
LEMMA UploadRefusedKeeps ==
  ASSUME MediaInv, NEW r \in Requests, UploadRefused(r)
  PROVE  MediaInv'
<1>1. MediaTypeOK'
  BY DEF UploadRefused, Goes, mediaRows, mediaHistory, MediaInv, MediaTypeOK
<1>2. RowsAgree' /\ KeysAreOnes'
  BY DEF UploadRefused, mediaRows, mediaHistory, MediaInv, RowsAgree, KeysAreOnes
<1>3. InHand' /\ OwnKeys'
  BY DEF UploadRefused, Goes, At, mediaRows, mediaHistory, MediaInv, InHand, OwnKeys, Uploading
<1>4. BytesAccounted' /\ ConfirmedAreGone' /\ MissingOnlyWhenDeleted'
  BY DEF UploadRefused, Goes, mediaRows, mediaHistory, MediaInv, Writing, BytesAccounted,
         ConfirmedAreGone, MissingOnlyWhenDeleted, LiveMediaHasBytes
<1> QED BY <1>1, <1>2, <1>3, <1>4 DEF MediaInv

\* A commit that is taken for a failure leaves a row whose bytes the upload will delete.
LEMMA UploadCommitLostKeeps ==
  ASSUME MediaInv, NEW r \in Requests, UploadCommitLost(r)
  PROVE  MediaInv'
<1>1. MediaTypeOK'
  BY MediaAssumption DEF UploadCommitLost, Inserts, Goes, At, MediaInv, MediaTypeOK, InHand
<1>2. RowsAgree' /\ KeysAreOnes'
  BY DEF UploadCommitLost, Inserts, At, MediaInv, MediaTypeOK, RowsAgree, KeysAreOnes, InHand
<1>3. InHand' /\ OwnKeys'
  BY DEF UploadCommitLost, Inserts, Goes, At, MediaInv, MediaTypeOK, InHand, OwnKeys, Uploading
<1>4. BytesAccounted' /\ ConfirmedAreGone' /\ MissingOnlyWhenDeleted'
  BY MediaAssumption DEF UploadCommitLost, Inserts, Goes, At, MediaInv, MediaTypeOK, RowsAgree,
                         KeysAreOnes, OwnKeys, Uploading, Writing, BytesAccounted,
                         ConfirmedAreGone, MissingOnlyWhenDeleted
<1> QED BY <1>1, <1>2, <1>3, <1>4 DEF MediaInv

\* The copy that lost is deleted, and only where a commit was lost the bytes of a row.
LEMMA UploadDiscardKeeps ==
  ASSUME MediaInv, NEW r \in Requests, UploadDiscard(r)
  PROVE  MediaInv'
<1>1. MediaTypeOK'
  BY DEF UploadDiscard, Erased, Ends, Idle, mediaRows, mediaHistory, MediaInv, MediaTypeOK
<1>2. RowsAgree' /\ KeysAreOnes'
  BY DEF UploadDiscard, Erased, mediaRows, mediaHistory, MediaInv, RowsAgree, KeysAreOnes
<1>3. InHand' /\ OwnKeys'
  BY MediaAssumption DEF UploadDiscard, Erased, Ends, Idle, mediaRows, mediaHistory, MediaInv,
                         MediaTypeOK, InHand, OwnKeys, Uploading
<1>4. BytesAccounted' /\ ConfirmedAreGone' /\ MissingOnlyWhenDeleted'
  BY DEF UploadDiscard, Erased, Ends, At, mediaRows, mediaHistory, MediaInv, RowsAgree, InHand,
         BytesAccounted, ConfirmedAreGone, MissingOnlyWhenDeleted, LiveMediaHasBytes
<1> QED BY <1>1, <1>2, <1>3, <1>4 DEF MediaInv

\* A deletion takes the key out of the row and keeps it in its answer.
LEMMA DeleteCarrierKeeps ==
  ASSUME MediaInv, NEW r \in Requests, DeleteCarrier(r)
  PROVE  MediaInv'
<1>1. MediaTypeOK'
  BY DEF DeleteCarrier, MarksRemoved, Goes, mediaHistory, MediaInv, MediaTypeOK
<1>2. RowsAgree' /\ KeysAreOnes'
  BY DEF DeleteCarrier, MarksRemoved, mediaHistory, MediaInv, MediaTypeOK, RowsAgree, KeysAreOnes
<1>3. InHand' /\ OwnKeys'
  BY DEF DeleteCarrier, MarksRemoved, Goes, mediaHistory, MediaInv, MediaTypeOK, RowsAgree,
         KeysAreOnes, InHand, OwnKeys, Uploading
<1>4. BytesAccounted'
  BY DEF DeleteCarrier, MarksRemoved, Goes, At, Idle, mediaHistory, MediaInv, MediaTypeOK,
         RowsAgree, KeysAreOnes, InHand, Uploading, Writing, BytesAccounted, ConfirmedAreGone,
         MissingOnlyWhenDeleted, LiveMediaHasBytes
<1>5. ConfirmedAreGone'
  BY DEF DeleteCarrier, MarksRemoved, Goes, At, Idle, mediaHistory, MediaInv, MediaTypeOK,
         RowsAgree, KeysAreOnes, InHand, Uploading, Writing, BytesAccounted, ConfirmedAreGone,
         MissingOnlyWhenDeleted, LiveMediaHasBytes
<1>6. MissingOnlyWhenDeleted'
  BY DEF DeleteCarrier, MarksRemoved, Goes, At, Idle, mediaHistory, MediaInv, MediaTypeOK,
         RowsAgree, KeysAreOnes, InHand, Uploading, Writing, BytesAccounted, ConfirmedAreGone,
         MissingOnlyWhenDeleted, LiveMediaHasBytes
<1> QED BY <1>1, <1>2, <1>3, <1>4, <1>5, <1>6 DEF MediaInv

\* The stored answer names the key the row had.
LEMMA DeleteAgainKeeps ==
  ASSUME MediaInv, NEW r \in Requests, DeleteAgain(r)
  PROVE  MediaInv'
<1>1. MediaTypeOK'
  BY DEF DeleteAgain, Goes, mediaRows, mediaHistory, MediaInv, MediaTypeOK
<1>2. RowsAgree' /\ KeysAreOnes'
  BY DEF DeleteAgain, mediaRows, mediaHistory, MediaInv, RowsAgree, KeysAreOnes
<1>3. InHand' /\ OwnKeys'
  BY DEF DeleteAgain, Goes, mediaRows, mediaHistory, MediaInv, MediaTypeOK, RowsAgree,
         KeysAreOnes, InHand, OwnKeys, Uploading
<1>4. BytesAccounted' /\ ConfirmedAreGone' /\ MissingOnlyWhenDeleted'
  BY DEF DeleteAgain, Goes, At, mediaRows, mediaHistory, MediaInv, Writing, BytesAccounted,
         ConfirmedAreGone, MissingOnlyWhenDeleted, LiveMediaHasBytes
<1> QED BY <1>1, <1>2, <1>3, <1>4 DEF MediaInv

\* The bytes are deleted before the caller is answered.
LEMMA PurgeAndAnswerKeeps ==
  ASSUME MediaInv, NEW r \in Requests, PurgeAndAnswer(r)
  PROVE  MediaInv'
<1>1. MediaTypeOK'
  BY DEF PurgeAndAnswer, Erased, Ends, At, Idle, mediaRows, MediaInv, MediaTypeOK, InHand
<1>2. RowsAgree' /\ KeysAreOnes'
  BY DEF PurgeAndAnswer, Erased, mediaRows, MediaInv, RowsAgree, KeysAreOnes
<1>3. InHand' /\ OwnKeys'
  BY MediaAssumption DEF PurgeAndAnswer, Erased, Ends, Idle, mediaRows, MediaInv, MediaTypeOK,
                         InHand, OwnKeys, Uploading
<1>4. BytesAccounted' /\ ConfirmedAreGone' /\ MissingOnlyWhenDeleted'
  BY DEF PurgeAndAnswer, Erased, Ends, At, mediaRows, MediaInv, RowsAgree, KeysAreOnes, InHand,
         BytesAccounted, ConfirmedAreGone, MissingOnlyWhenDeleted, LiveMediaHasBytes
<1> QED BY <1>1, <1>2, <1>3, <1>4 DEF MediaInv

\* Leave to read is given for a row that is live.
LEMMA ContentGrantKeeps ==
  ASSUME MediaInv, NEW r \in Requests, ContentGrant(r)
  PROVE  MediaInv'
<1>1. MediaTypeOK'
  BY DEF ContentGrant, Goes, mediaRows, mediaHistory, MediaInv, MediaTypeOK
<1>2. RowsAgree' /\ KeysAreOnes'
  BY DEF ContentGrant, mediaRows, mediaHistory, MediaInv, RowsAgree, KeysAreOnes
<1>3. InHand' /\ OwnKeys'
  BY DEF ContentGrant, Goes, mediaRows, mediaHistory, MediaInv, RowsAgree, KeysAreOnes, InHand,
         OwnKeys, Uploading
<1>4. BytesAccounted' /\ ConfirmedAreGone' /\ MissingOnlyWhenDeleted'
  BY DEF ContentGrant, Goes, At, mediaRows, mediaHistory, MediaInv, Writing, BytesAccounted,
         ConfirmedAreGone, MissingOnlyWhenDeleted, LiveMediaHasBytes
<1> QED BY <1>1, <1>2, <1>3, <1>4 DEF MediaInv

\* Bytes that are missing belong to a row that was deleted, or a commit was lost.
LEMMA ContentReadKeeps ==
  ASSUME MediaInv, NEW r \in Requests, ContentRead(r)
  PROVE  MediaInv'
<1>1. MediaTypeOK'
  BY DEF ContentRead, Ends, At, Idle, mediaRows, MediaInv, MediaTypeOK, InHand
<1>2. RowsAgree' /\ KeysAreOnes'
  BY DEF ContentRead, mediaRows, MediaInv, RowsAgree, KeysAreOnes
<1>3. InHand' /\ OwnKeys'
  BY DEF ContentRead, Ends, Idle, mediaRows, MediaInv, InHand, OwnKeys, Uploading
<1>4. BytesAccounted' /\ ConfirmedAreGone' /\ MissingOnlyWhenDeleted'
  BY DEF ContentRead, Ends, At, mediaRows, MediaInv, MediaTypeOK, RowsAgree, InHand, Writing,
         BytesAccounted, ConfirmedAreGone, MissingOnlyWhenDeleted, LiveMediaHasBytes
<1> QED BY <1>1, <1>2, <1>3, <1>4 DEF MediaInv

\* A request that fails leaves bytes without a row at most.
LEMMA RequestFailsKeeps ==
  ASSUME MediaInv, NEW r \in Requests, RequestFails(r)
  PROVE  MediaInv'
<1>1. MediaTypeOK'
  BY MediaAssumption DEF RequestFails, Ends, Idle, mediaRows, mediaHistory, MediaInv, MediaTypeOK
<1>2. RowsAgree' /\ KeysAreOnes'
  BY DEF RequestFails, mediaRows, mediaHistory, MediaInv, RowsAgree, KeysAreOnes
<1>3. InHand' /\ OwnKeys'
  BY DEF RequestFails, Ends, Idle, mediaRows, mediaHistory, MediaInv, InHand, OwnKeys, Uploading
<1>4. BytesAccounted' /\ ConfirmedAreGone' /\ MissingOnlyWhenDeleted'
  BY DEF RequestFails, mediaRows, mediaHistory, MediaInv, MediaTypeOK, BytesAccounted,
         ConfirmedAreGone, MissingOnlyWhenDeleted, LiveMediaHasBytes
<1> QED BY <1>1, <1>2, <1>3, <1>4 DEF MediaInv

\* A message may take a file that is live and that no message carries.
LEMMA SendMediaKeeps ==
  ASSUME MediaInv, SendMedia
  PROVE  MediaInv'
<1>1. PICK f \in Files : /\ media[f].state = "live" /\ carrier[f] = "none"
                         /\ carrier' = [carrier EXCEPT ![f] = "sent"]
  BY DEF SendMedia
<1>2. UNCHANGED <<media, purge, bytes, drawn, request, held, confirmed, unreadable, lost, crashes>>
  BY DEF SendMedia, mediaHistory
<1>3. MediaTypeOK' /\ RowsAgree'
  BY <1>1, <1>2 DEF MediaInv, MediaTypeOK, RowsAgree
<1> QED
  BY <1>2, <1>3 DEF MediaInv, KeysAreOnes, InHand, OwnKeys, BytesAccounted, ConfirmedAreGone,
                    MissingOnlyWhenDeleted, LiveMediaHasBytes

\* The invariant holds where nothing was uploaded.
LEMMA MediaBegins == MediaInit => MediaInv
BY MediaAssumption
   DEF MediaInit, MediaInv, MediaTypeOK, RowsAgree, KeysAreOnes, InHand, OwnKeys, Uploading, BytesAccounted,
       ConfirmedAreGone, MissingOnlyWhenDeleted, LiveMediaHasBytes, NoMedia, Idle

\* Every step keeps the invariant.
LEMMA MediaSteps == MediaInv /\ [MediaNext]_mediaVars => MediaInv'
<1> SUFFICES ASSUME MediaInv, [MediaNext]_mediaVars PROVE MediaInv'
  OBVIOUS
<1>1. CASE UNCHANGED mediaVars
  BY <1>1 DEF mediaVars, mediaRows, mediaHistory, MediaInv, MediaTypeOK, RowsAgree, KeysAreOnes,
              InHand, OwnKeys,
              BytesAccounted, ConfirmedAreGone, MissingOnlyWhenDeleted, LiveMediaHasBytes
<1>2. ASSUME NEW r \in Requests, MediaWork(r) PROVE MediaInv'
  BY <1>2, UploadLookKeeps, UploadPutKeeps, UploadInsertKeeps, UploadRefusedKeeps, UploadCommitLostKeeps,
     UploadDiscardKeeps, DeleteCarrierKeeps, DeleteAgainKeeps, PurgeAndAnswerKeeps, ContentGrantKeeps,
     ContentReadKeeps, RequestFailsKeeps DEF MediaWork
<1> QED BY <1>1, <1>2, SendMediaKeeps DEF MediaNext

\* The rows of media, the keys that requests have in hand and the bytes of the object store
\* agree, at every step of every upload, deletion and download (createMediaUpload,
\* markMediaRemoved, withChatHints, createMediaContent).
THEOREM MediaInvariant == MediaSpec => []MediaInv
BY MediaBegins, MediaSteps, PTL DEF MediaSpec

\* Where no commit was taken for a failure, a row that is live has its bytes, and content is
\* found missing only of a file that was deleted meanwhile (createMediaContent).
THEOREM MissingMeansDeleted == MediaSpec => []MissingOnlyWhenDeleted
<1>1. MediaInv => MissingOnlyWhenDeleted
  BY DEF MediaInv
<1> QED BY <1>1, MediaInvariant, PTL

\* Once the caller of a deletion is answered no bytes of the file are left, whether the first
\* answer arrived or the stored one (withChatHints, the Idempotency-Key of createMessageDelete).
THEOREM DeletedBytesAreGone == MediaSpec => []NoBytesOutlive
<1>1. MediaInv => NoBytesOutlive
  BY DEF MediaInv, ConfirmedAreGone, BytesAccounted, NoBytesOutlive
<1> QED BY <1>1, MediaInvariant, PTL

-----------------------------------------------------------------------------
(***************************************************************************)
(* The hints.                                                              *)
(***************************************************************************)

\* What a connection may be.
SocketStates == [state : {"unmade", "open", "closed"}, of : Callers \cup {NoCaller},
                 rooms : SUBSET Rooms, buffered : Nat, alive : BOOLEAN]

\* What is asked of the store: may the caller of a connection read a room?
Questions == [socket : Sockets, room : Rooms, hint : 0..MaxHints, answer : {"waits", "yes", "no"}]

\* Every variable stays in its set.
GatewayTypes ==
  /\ mayRead \subseteq Callers \X Rooms
  /\ socket \in [Sockets -> SocketStates]
  /\ question \subseteq Questions
  /\ hint \in [Hints -> [room : Rooms \cup {NoRoom}, could : SUBSET Callers]]
  /\ heard \subseteq Callers \X Hints

\* Who may read the room of a published change now is among those who could since.
ReadersCould ==
  \A n \in Hints, c \in Callers : <<c, hint[n].room>> \in mayRead => c \in hint[n].could

\* A question is about a connection that was made, and a hint of the room it names; it is only
\* answered yes for a caller who could read that room since the change.
AnswersAreTrue ==
  \A q \in question :
    /\ socket[q.socket].state # "unmade"
    /\ q.hint # 0 => hint[q.hint].room = q.room
    /\ q.hint # 0 /\ q.answer = "yes" => socket[q.socket].of \in hint[q.hint].could

\* What was sent was published.
HeardArePublished == \A h \in heard : hint[h[2]].room # NoRoom

\* The inductive invariant of the gateway.
GatewayInv ==
  /\ GatewayTypes /\ ReadersCould /\ AnswersAreTrue /\ HeardArePublished /\ NoHintToStrangers
  /\ \A s \in Sockets : socket[s].state # "unmade" => socket[s].of \in Callers

-----------------------------------------------------------------------------
\* A step that changes sockets, but the caller of none that is made, and drops questions.
LEMMA ConnectionsMove ==
  ASSUME GatewayInv, UNCHANGED <<mayRead, hint>>, socket' \in [Sockets -> SocketStates],
         \A s \in Sockets : socket[s].state # "unmade" =>
           socket'[s].state # "unmade" /\ socket'[s].of = socket[s].of,
         \A s \in Sockets : socket'[s].state # "unmade" => socket'[s].of \in Callers,
         question' \subseteq question, heard' \subseteq Callers \X Hints,
         \A h \in heard' \ heard : /\ hint[h[2]].room # NoRoom
                                   /\ h[1] \in hint[h[2]].could
  PROVE  GatewayInv'
<1>1. GatewayTypes'
  BY DEF GatewayInv, GatewayTypes
<1>2. AnswersAreTrue'
  <2>1. \A q \in question : q.socket \in Sockets
    BY DEF GatewayInv, GatewayTypes, Questions
  <2> QED BY <2>1 DEF GatewayInv, AnswersAreTrue
<1> QED BY <1>1, <1>2 DEF GatewayInv, ReadersCould, HeardArePublished, NoHintToStrangers

\* A connection is made for one caller.
LEMMA ConnectsKeeps ==
  ASSUME GatewayInv, NEW s \in Sockets, NEW c \in Callers, Connects(s, c)
  PROVE  GatewayInv'
<1>1. socket' = [socket EXCEPT ![s].state = "open", ![s].of = c] /\ socket[s].state = "unmade"
  BY DEF Connects, Unmade
<1>2. /\ socket'[s] \in SocketStates /\ socket'[s].of = c
      /\ \A r \in Sockets \ {s} : socket'[r] = socket[r]
  BY <1>1 DEF GatewayInv, GatewayTypes, SocketStates
<1>3. socket' \in [Sockets -> SocketStates]
  BY <1>1, <1>2 DEF GatewayInv, GatewayTypes
<1> QED BY <1>1, <1>2, <1>3, ConnectionsMove DEF Connects, GatewayInv, GatewayTypes

\* A socket that is closed, cut off, read, subscribed or unsubscribed keeps its caller.
LEMMA SocketChanges ==
  ASSUME GatewayInv, UNCHANGED <<mayRead, hint, heard>>, question' \subseteq question,
         \/ \E s \in Open : \/ socket' = [socket EXCEPT ![s] = Closed(s)]
                            \/ socket' = [socket EXCEPT ![s].buffered = 0]
                            \/ socket' = [socket EXCEPT ![s].alive = TRUE]
         \/ \E s \in Sockets, r \in Rooms : \/ socket' = [socket EXCEPT ![s].rooms = @ \ {r}]
                                            \/ socket' = [socket EXCEPT ![s].rooms = @ \cup {r}]
         \/ socket' = socket
  PROVE  GatewayInv'
<1>1. socket \in [Sockets -> SocketStates] /\ Open \subseteq Sockets
  BY DEF GatewayInv, GatewayTypes, Open
<1>2. /\ socket' \in [Sockets -> SocketStates]
      /\ \A s \in Sockets : /\ socket'[s].of = socket[s].of
                            /\ socket'[s].state # "unmade" <=> socket[s].state # "unmade"
  <2>1. ASSUME NEW s \in Sockets, NEW v \in SocketStates, socket' = [socket EXCEPT ![s] = v],
               v.of = socket[s].of, v.state # "unmade" <=> socket[s].state # "unmade"
        PROVE  /\ socket' \in [Sockets -> SocketStates]
               /\ \A r \in Sockets : /\ socket'[r].of = socket[r].of
                                     /\ socket'[r].state # "unmade" <=> socket[r].state # "unmade"
    BY <1>1, <2>1
  <2>2. CASE \E s \in Open : \/ socket' = [socket EXCEPT ![s] = Closed(s)]
                            \/ socket' = [socket EXCEPT ![s].buffered = 0]
                            \/ socket' = [socket EXCEPT ![s].alive = TRUE]
    BY <1>1, <2>1, <2>2 DEF SocketStates, Closed, Open
  <2>3. CASE \E s \in Sockets, r \in Rooms : \/ socket' = [socket EXCEPT ![s].rooms = @ \ {r}]
                                            \/ socket' = [socket EXCEPT ![s].rooms = @ \cup {r}]
    BY <1>1, <2>1, <2>3 DEF SocketStates
  <2> QED BY <1>1, <2>2, <2>3
<1> QED BY <1>2, ConnectionsMove DEF GatewayInv, GatewayTypes

\* A beat closes connections and makes none.
LEMMA BeatsKeeps ==
  ASSUME GatewayInv, Beats
  PROVE  GatewayInv'
<1>1. socket \in [Sockets -> SocketStates] /\ Open \subseteq Sockets
  BY DEF GatewayInv, GatewayTypes, Open
<1>2. /\ socket' \in [Sockets -> SocketStates]
      /\ \A s \in Sockets : /\ socket'[s].of = socket[s].of
                            /\ socket'[s].state # "unmade" <=> socket[s].state # "unmade"
  BY <1>1 DEF Beats, SocketStates, Closed, Open
<1> QED BY <1>2, ConnectionsMove DEF Beats, GatewayInv, GatewayTypes

\* A hint goes to the caller the last check was about.
LEMMA HintSentKeeps ==
  ASSUME GatewayInv, NEW q \in question, HintSent(q)
  PROVE  GatewayInv'
<1>1. q \in Questions /\ q.hint # 0 /\ q.hint \in Hints /\ q.socket \in Sockets
  BY GatewayAssumption DEF HintSent, GatewayInv, GatewayTypes, Questions, Hints
<1>2. CASE q.socket \notin Open \/ socket[q.socket].buffered > MaxBuffered
  BY <1>2, SocketChanges DEF HintSent
<1>3. CASE q.socket \in Open /\ ~ (socket[q.socket].buffered > MaxBuffered)
  <2>1. /\ socket' = [socket EXCEPT ![q.socket].buffered = @ + 1]
        /\ heard' = heard \cup {<<socket[q.socket].of, q.hint>>}
        /\ UNCHANGED <<mayRead, hint>> /\ question' \subseteq question /\ q.answer = "yes"
    BY <1>3 DEF HintSent
  <2>2. /\ socket' \in [Sockets -> SocketStates]
        /\ \A s \in Sockets : /\ socket'[s].of = socket[s].of
                              /\ socket'[s].state # "unmade" <=> socket[s].state # "unmade"
    BY <1>1, <2>1 DEF GatewayInv, GatewayTypes, SocketStates
  <2>3. /\ socket[q.socket].of \in hint[q.hint].could
        /\ socket[q.socket].of \in Callers /\ hint[q.hint].room = q.room /\ q.room # NoRoom
    BY <1>1, <2>1, GatewayAssumption DEF GatewayInv, AnswersAreTrue, Questions
  <2> QED BY <1>1, <2>1, <2>2, <2>3, ConnectionsMove DEF GatewayInv, GatewayTypes
<1> QED BY <1>2, <1>3

\* A check is answered yes for who may read the room now, who is among those who could since.
LEMMA ChecksKeeps ==
  ASSUME GatewayInv, NEW q \in question, Checks(q)
  PROVE  GatewayInv'
<1> DEFINE can == <<socket[q.socket].of, q.room>> \in mayRead
           new == [q EXCEPT !.answer = IF can THEN "yes" ELSE "no"]
<1>1. q \in Questions /\ q.socket \in Sockets
  BY DEF GatewayInv, GatewayTypes, Questions
<1>2. /\ question' = (question \ {q}) \cup {new} /\ UNCHANGED <<mayRead, socket, hint, heard>>
  BY DEF Checks
<1>3. /\ new \in Questions /\ new.socket = q.socket /\ new.room = q.room /\ new.hint = q.hint
      /\ new.answer = IF can THEN "yes" ELSE "no"
  BY <1>1 DEF Questions
<1> HIDE DEF new
<1>4. q.hint # 0 /\ can => socket[q.socket].of \in hint[q.hint].could
  <2>1. q.hint # 0 => q.hint \in Hints /\ hint[q.hint].room = q.room
    BY <1>1, GatewayAssumption DEF GatewayInv, AnswersAreTrue, Questions, Hints
  <2>2. can => socket[q.socket].of \in Callers
    BY DEF GatewayInv, GatewayTypes
  <2> QED BY <2>1, <2>2 DEF GatewayInv, ReadersCould
<1> HIDE DEF can
<1>5. AnswersAreTrue'
  BY <1>2, <1>3, <1>4 DEF GatewayInv, AnswersAreTrue
<1> QED BY <1>2, <1>3, <1>5 DEF GatewayInv, GatewayTypes, ReadersCould, HeardArePublished, NoHintToStrangers

\* A subscription asks about no hint.
LEMMA SubscribeAsksKeeps ==
  ASSUME GatewayInv, NEW s \in Sockets, NEW r \in Rooms, SubscribeAsks(s, r)
  PROVE  GatewayInv'
<1> DEFINE new == [socket |-> s, room |-> r, hint |-> 0, answer |-> "waits"]
<1>1. question' = question \cup {new} /\ UNCHANGED <<mayRead, socket, hint, heard>> /\ s \in Open
  BY DEF SubscribeAsks
<1>2. new \in Questions /\ new.socket = s /\ new.hint = 0
  BY GatewayAssumption DEF Questions
<1> HIDE DEF new
<1> QED BY <1>1, <1>2
   DEF Open, GatewayInv, GatewayTypes, AnswersAreTrue, ReadersCould, HeardArePublished, NoHintToStrangers

\* A change is published once, and asked about for the connections subscribed to its room.
LEMMA PublishesKeeps ==
  ASSUME GatewayInv, NEW n \in Hints, NEW r \in Rooms, Publishes(n, r)
  PROVE  GatewayInv'
<1>1. /\ hint[n].room = NoRoom
      /\ hint' = [hint EXCEPT ![n] = [room |-> r, could |-> {c \in Callers : <<c, r>> \in mayRead}]]
      /\ question' = question \cup {[socket |-> s, room |-> r, hint |-> n, answer |-> "waits"] :
                                      s \in {o \in Open : r \in socket[o].rooms}}
      /\ UNCHANGED <<mayRead, socket, heard>>
  BY DEF Publishes, Published, Unpublished
<1>2. /\ hint'[n].room = r /\ hint'[n].could = {c \in Callers : <<c, r>> \in mayRead}
      /\ \A m \in Hints \ {n} : hint'[m] = hint[m]
  BY <1>1 DEF GatewayInv, GatewayTypes
<1>3. hint' \in [Hints -> [room : Rooms \cup {NoRoom}, could : SUBSET Callers]]
  BY <1>1 DEF GatewayInv, GatewayTypes
<1>4. \A q \in question' \ question : /\ q \in Questions /\ q.socket \in Open
                                      /\ q.room = r /\ q.hint = n /\ q.answer = "waits"
  BY <1>1, GatewayAssumption DEF Questions, Open, Hints
<1>5. AnswersAreTrue'
  <2>1. ASSUME NEW q \in question, q.hint # 0 PROVE q.hint \in Hints \ {n}
    BY <1>1, <2>1, GatewayAssumption DEF GatewayInv, GatewayTypes, AnswersAreTrue, Questions, Hints
  <2> QED BY <1>1, <1>2, <1>4, <2>1 DEF GatewayInv, AnswersAreTrue, Open
<1>6. ReadersCould'
  BY <1>1, <1>2 DEF GatewayInv, ReadersCould
<1>7. HeardArePublished' /\ NoHintToStrangers'
  <2>1. \A h \in heard : h[2] \in Hints \ {n}
    BY <1>1 DEF GatewayInv, GatewayTypes, HeardArePublished
  <2> QED BY <1>1, <1>2, <2>1 DEF GatewayInv, HeardArePublished, NoHintToStrangers
<1>8. GatewayTypes'
  BY <1>1, <1>3, <1>4 DEF GatewayInv, GatewayTypes
<1> QED BY <1>1, <1>5, <1>6, <1>7, <1>8 DEF GatewayInv

\* Who comes could read since; who goes still could.
LEMMA MembersChange ==
  ASSUME GatewayInv, NEW c \in Callers, NEW r \in Rooms, MemberComes(c, r) \/ MemberGoes(c, r)
  PROVE  GatewayInv'
<1>1. /\ mayRead' \subseteq mayRead \cup {<<c, r>>} /\ UNCHANGED <<socket, question, heard>>
      /\ hint' \in [Hints -> [room : Rooms \cup {NoRoom}, could : SUBSET Callers]]
      /\ \A n \in Hints : hint'[n].room = hint[n].room /\ hint[n].could \subseteq hint'[n].could
  BY DEF MemberComes, MemberGoes, GatewayInv, GatewayTypes
<1>2. ReadersCould'
  BY DEF MemberComes, MemberGoes, GatewayInv, GatewayTypes, ReadersCould
<1>3. AnswersAreTrue'
  <2>1. \A q \in question : q.hint # 0 => q.hint \in Hints
    BY GatewayAssumption DEF GatewayInv, GatewayTypes, Questions, Hints
  <2> QED BY <1>1, <2>1 DEF GatewayInv, AnswersAreTrue
<1>4. HeardArePublished' /\ NoHintToStrangers'
  <2>1. \A h \in heard : h[2] \in Hints
    BY DEF GatewayInv, GatewayTypes
  <2> QED BY <1>1, <2>1 DEF GatewayInv, HeardArePublished, NoHintToStrangers
<1> QED BY <1>1, <1>2, <1>3, <1>4 DEF GatewayInv, GatewayTypes

\* The invariant holds where nobody is connected.
LEMMA GatewayBegins == GatewayInit => GatewayInv
BY GatewayAssumption
   DEF GatewayInit, GatewayInv, GatewayTypes, SocketStates, ReadersCould, AnswersAreTrue, HeardArePublished,
       NoHintToStrangers, Unmade, Unpublished

\* Every step keeps the invariant.
LEMMA GatewaySteps == GatewayInv /\ [GatewayNext]_gatewayVars => GatewayInv'
<1> SUFFICES ASSUME GatewayInv, [GatewayNext]_gatewayVars PROVE GatewayInv'
  OBVIOUS
<1>1. ASSUME NEW s \in Sockets, Closes(s) \/ Reads(s) \/ Pongs(s) \/ \E r \in Rooms : Unsubscribes(s, r)
      PROVE  GatewayInv'
  BY <1>1, SocketChanges DEF Closes, Reads, Pongs, Unsubscribes
<1>2. ASSUME NEW q \in question, CheckFails(q) \/ SubscribeAnswered(q) \/ HintRefused(q)
      PROVE  GatewayInv'
  <2>1. q.socket \in Sockets /\ q.room \in Rooms
    BY DEF GatewayInv, GatewayTypes, Questions
  <2> QED BY <1>2, <2>1, SocketChanges DEF CheckFails, SubscribeAnswered, HintRefused
<1>3. CASE UNCHANGED gatewayVars
  BY <1>3, SocketChanges DEF gatewayVars
<1> QED BY <1>1, <1>2, <1>3, ConnectsKeeps, BeatsKeeps, HintSentKeeps, ChecksKeeps, SubscribeAsksKeeps,
           PublishesKeeps, MembersChange DEF GatewayNext

\* What connections ask, what they are answered and what they were sent agree with who may read
\* the rooms, at every step of a connection, a check and a publication (chat-realtime.js).
THEOREM GatewayInvariant == GatewaySpec => []GatewayInv
BY GatewayBegins, GatewaySteps, PTL DEF GatewaySpec

\* A hint of a change is sent to nobody who could not read the room at some moment since: the
\* check is made after the change, for the caller of that connection (deliver, authorize).
THEOREM StrangersHearNothing == GatewaySpec => []NoHintToStrangers
<1>1. GatewayInv => NoHintToStrangers
  BY DEF GatewayInv
<1> QED BY <1>1, GatewayInvariant, PTL
=============================================================================
