------------------------------ MODULE FamilyChat ------------------------------
(***************************************************************************)
(* One conversation of a family: its opening and its members, the messages *)
(* and their numbers, edits, deletions, receipt marks, and the policy that *)
(* says who sits in it - as the transactions of family-chat.js and         *)
(* collaboration-policy.js run them at READ COMMITTED.                     *)
(*                                                                         *)
(* A request that waits once, at its start, is one step.  Sending, editing,*)
(* adding a member and changing the policy are two or three: what they read*)
(* first may be old when they write.                                       *)
(***************************************************************************)
EXTENDS Integers, FiniteSets

CONSTANTS Guardians, Kids,
          Readers,      \* the participants whose clients fetch and mark
          Sends,        \* client message ids
          AuthorOf,     \* who composed a message
          ChatTxns,     \* transactions that run at once
          MaxSeq,       \* bound: messages of the conversation
          MaxRevision,  \* bound: edits of a message
          MaxVersion,   \* bound: changes of the policy
          GroupSize,    \* maximum_group_size
          PageSize,     \* messages a fetch returns
          Nobody

People == Guardians \cup Kids
Modes == {"none", "all_child_chats", "child_to_child"}

ASSUME PeopleAssumption ==
  /\ Guardians \cap Kids = {}
  /\ IsFiniteSet(People) /\ Readers \subseteq People
ASSUME SendsAssumption == AuthorOf \in [Sends -> People] /\ Nobody \notin Sends \cup ChatTxns \cup People
ASSUME ChatBoundsAssumption ==
  {MaxSeq, MaxRevision, MaxVersion, GroupSize, PageSize} \subseteq Nat \ {0}

VARIABLES
  active,     \* the guardians whose membership is active
  gone,       \* those whose membership ended: an invitation after it is a new membership
  policy,     \* family_collaboration_policies: its version and inclusion mode
  shape,      \* kind of the conversation, none before it is opened
  openedUnder, \* history: the version of the policy it was opened under
  counted,    \* history: the guardians active when it was opened or a child was asked in
  member,     \* member[p]: joined_seq, 0 for who is not a member
  delivered,  \* last_delivered_seq
  read,       \* last_read_seq
  nextSeq,    \* next_seq of the thread row
  message,    \* message[s]: the row numbered s
  revision,   \* family_chat_message_revisions
  threadLock, messageLock,  \* the transaction that holds the row
  job,        \* job[t]: what a transaction has read and will write
  answer,     \* answer[c]: the numbers the server gave for client message id c
  cursor,     \* cursor[p]: afterSeq of the next fetch
  fetched     \* fetched[p]: the numbers the client of p has been sent

chatRows == <<active, gone, policy, shape, openedUnder, counted, member, delivered, read,
              nextSeq, message, revision>>
chatClients == <<answer, cursor, fetched>>
chatLocks == <<threadLock, messageLock>>
chatVars == <<chatRows, chatClients, chatLocks, job>>

-----------------------------------------------------------------------------
Seqs == 1..MaxSeq
Revisions == 1..MaxRevision
NoMessage == [send |-> Nobody, revision |-> 0, deleted |-> FALSE]
Resting == [step |-> "rest", on |-> Nobody, seq |-> 0, base |-> 0, mode |-> "none", adds |-> {},
            saw |-> {}]

\* collaborationPolicyView of no row.
Unset == [version |-> 0, mode |-> "none"]

ChatInit ==
  /\ active \in SUBSET Guardians \ {{}}
  /\ gone = {}
  /\ counted = {}
  /\ \/ policy = Unset
     \/ \E mode \in Modes : policy = [version |-> 1, mode |-> mode]
  /\ shape = "none"
  /\ openedUnder = 0
  /\ member = [p \in People |-> 0]
  /\ delivered = [p \in People |-> 0]
  /\ read = [p \in People |-> 0]
  /\ nextSeq = 1
  /\ message = [s \in Seqs |-> NoMessage]
  /\ revision = {}
  /\ threadLock = Nobody
  /\ messageLock = [s \in Seqs |-> Nobody]
  /\ job = [t \in ChatTxns |-> Resting]
  /\ answer = [c \in Sends |-> {}]
  /\ cursor = [p \in Readers |-> 0]
  /\ fetched = [p \in Readers |-> {}]

Stored == {s \in Seqs : message[s] # NoMessage}
\* MAX(seq), and 0 for a conversation without messages.
HighestSeq == IF Stored = {} THEN 0 ELSE CHOOSE s \in Stored : \A r \in Stored : r <= s
Members == {p \in People : member[p] # 0}
\* The rows listThreadMembers returns: a membership that ended does not count.
LiveMembers == Members \cap (Kids \cup active)
\* A guardian is authorised by an active membership, a child by its handset; the default
\* policy keeps no operation from any of them.
MayAct(p) == p \in Kids \cup active
\* The guardians a safety rule seats in a conversation with these children.
Seated(mode, kids) ==
  IF \/ mode = "all_child_chats" /\ kids # {}
     \/ mode = "child_to_child" /\ Cardinality(kids) > 1
  THEN active ELSE {}

-----------------------------------------------------------------------------
(* Opening the conversation, and the family around it.                     *)

\* insertThread.
ThreadInserted(kind) ==
  /\ shape' = kind
  /\ openedUnder' = policy.version
  /\ counted' = active

\* createThreadInTransaction: a pair, or a group of at least three.
OpenThread ==
  /\ shape = "none"
  /\ \E p \in People, others \in SUBSET (Kids \cup active) :
       LET base == others \cup {p}
           all == base \cup Seated(policy.mode, base \cap Kids)
       IN /\ MayAct(p) /\ p \notin others
          /\ others # {}
          /\ Cardinality(all) <= GroupSize
          /\ ThreadInserted(IF Cardinality(others) = 1 THEN "direct" ELSE "group")
          /\ member' = [q \in People |-> IF q \in all THEN 1 ELSE 0]
  /\ UNCHANGED <<active, gone, policy, delivered, read, nextSeq, message, revision, chatClients,
                 chatLocks, job>>

\* An invitation is accepted or a code redeemed: the family has one more guardian, and whoever
\* is in a conversation stays as they are.
GuardianJoins ==
  /\ \E g \in Guardians \ (active \cup gone) : active' = active \cup {g}
  /\ UNCHANGED <<gone, policy, shape, openedUnder, counted, member, delivered, read, nextSeq,
                 message, revision, chatClients, chatLocks, job>>

\* A membership that ends while it is read FOR SHARE waits; every other read is plain.
GuardianLeaves ==
  /\ \E g \in active : active' = active \ {g} /\ gone' = gone \cup {g}
  /\ UNCHANGED <<policy, shape, openedUnder, counted, member, delivered, read, nextSeq, message,
                 revision, chatClients, chatLocks, job>>

Rest(t) == job[t] = Resting

\* A transaction that fails, or whose caller or server is gone before it commits.
ChatRollback(t) ==
  /\ job[t] # Resting
  /\ job' = [job EXCEPT ![t] = Resting]
  /\ threadLock' = IF threadLock = t THEN Nobody ELSE threadLock
  /\ messageLock' = [s \in Seqs |-> IF messageLock[s] = t THEN Nobody ELSE messageLock[s]]
  /\ UNCHANGED <<chatRows, chatClients>>

\* collaborationPolicyFor.update: FOR UPDATE finds no row to lock before the first change.
PolicyRead(t) ==
  /\ Rest(t)
  /\ policy.version < MaxVersion
  /\ \A u \in ChatTxns : job[u].step = "policy" => job[u].base = 0
  /\ job' = [job EXCEPT ![t] = [Resting EXCEPT !.step = "policy", !.base = policy.version]]
  /\ UNCHANGED <<chatRows, chatClients, chatLocks>>

\* Mutant of PolicyWrite: an ON CONFLICT DO UPDATE without its WHERE.
BlindPolicyWrite(t) ==
  /\ job[t].step = "policy"
  /\ \E mode \in Modes : policy' = [version |-> job[t].base + 1, mode |-> mode]
  /\ job' = [job EXCEPT ![t] = Resting]
  /\ UNCHANGED <<active, gone, shape, openedUnder, counted, member, delivered, read, nextSeq,
                 message, revision, chatClients, chatLocks>>

\* ON CONFLICT DO UPDATE ... WHERE version = the version it read.
PolicyWrite(t) ==
  /\ job[t].step = "policy"
  /\ policy.version = job[t].base
  /\ \E mode \in Modes : policy' = [version |-> job[t].base + 1, mode |-> mode]
  /\ job' = [job EXCEPT ![t] = Resting]
  /\ UNCHANGED <<active, gone, shape, openedUnder, counted, member, delivered, read, nextSeq,
                 message, revision, chatClients, chatLocks>>

-----------------------------------------------------------------------------
(* Members: the policy is read before the thread row is locked.            *)

JoinBegin(t) ==
  /\ Rest(t)
  /\ shape # "none"
  /\ \E x \in People :
       job' = [job EXCEPT ![t] = [Resting EXCEPT !.step = "join", !.on = x, !.mode = policy.mode]]
  /\ UNCHANGED <<chatRows, chatClients, chatLocks>>

\* Who adds: a guardian of the group, or the handset of a child in it, which the default policy
\* allows as well.
GuardianManages == Members \cap active # {}
ChildManages == Members \cap Kids # {}

\* The guardians an added child brings with it, by the children who are there already.
Accompany(mode, x) ==
  IF x \in Kids THEN Seated(mode, (LiveMembers \cap Kids) \cup {x}) ELSE {}

\* Mutant of JoinCheck: the thread row is read without FOR UPDATE.
JoinCheckUnlocked(t) ==
  LET x == job[t].on
      adds == ({x} \cup Accompany(job[t].mode, x)) \ LiveMembers
  IN /\ job[t].step = "join"
     /\ shape = "group"
     /\ GuardianManages \/ ChildManages
     /\ x \in (Kids \cup active) \ Members
     /\ Cardinality(LiveMembers) + Cardinality(adds) <= GroupSize
     /\ job' = [job EXCEPT ![t].step = "insert", ![t].adds = adds, ![t].saw = active,
                           ![t].base = nextSeq]
     /\ UNCHANGED <<chatRows, chatClients, chatLocks>>

\* The thread row is locked; the checks are made and the new rows chosen under the lock.
JoinCheck(t) ==
  LET x == job[t].on
      adds == ({x} \cup Accompany(job[t].mode, x)) \ LiveMembers
  IN /\ job[t].step = "join"
     /\ threadLock = Nobody
     /\ shape = "group"
     /\ GuardianManages \/ ChildManages
     /\ x \in (Kids \cup active) \ Members
     /\ Cardinality(LiveMembers) + Cardinality(adds) <= GroupSize
     /\ threadLock' = t
     /\ job' = [job EXCEPT ![t].step = "insert", ![t].adds = adds, ![t].saw = active,
                           ![t].base = nextSeq]
     /\ UNCHANGED <<chatRows, chatClients, messageLock>>

\* insertThreadMembers: a new member starts at the sequence that comes next.
JoinInsert(t) ==
  LET new == job[t].adds \ Members
      enters(old, mark) == [p \in People |-> IF p \in new THEN mark ELSE old[p]]
  IN /\ job[t].step = "insert"
     /\ member' = enters(member, job[t].base)
     /\ delivered' = enters(delivered, job[t].base - 1)
     /\ read' = enters(read, job[t].base - 1)
     /\ counted' = IF job[t].on \in Kids THEN counted \cup job[t].saw ELSE counted
     /\ threadLock' = Nobody
     /\ job' = [job EXCEPT ![t] = Resting]
     /\ UNCHANGED <<active, gone, policy, shape, openedUnder, nextSeq, message, revision,
                    messageLock, chatClients>>

-----------------------------------------------------------------------------
(* Messages.                                                               *)

\* readMessageByClientId.
SentAs(c) == {s \in Stored : message[s].send = c}

\* createMessageSend with a client message id the thread holds: the answer is that message.
SendAgain ==
  /\ threadLock = Nobody
  /\ \E c \in Sends : \E s \in SentAs(c) :
       /\ MayAct(AuthorOf[c])
       /\ answer' = [answer EXCEPT ![c] = @ \cup {s}]
  /\ UNCHANGED <<chatRows, cursor, fetched, chatLocks, job>>

\* Mutant of SendBegin: the thread is not searched for the client message id.
SendBeginUnread(t) ==
  /\ Rest(t)
  /\ threadLock = Nobody
  /\ nextSeq <= MaxSeq
  /\ \E c \in Sends :
       /\ AuthorOf[c] \in Members /\ MayAct(AuthorOf[c])
       /\ job' = [job EXCEPT ![t] = [Resting EXCEPT !.step = "send", !.on = c, !.seq = nextSeq]]
  /\ threadLock' = t
  /\ UNCHANGED <<chatRows, chatClients, messageLock>>

\* createMessageSend up to allocateSeq: the thread row is locked from here to the commit.
SendBegin(t) ==
  /\ Rest(t)
  /\ threadLock = Nobody
  /\ nextSeq <= MaxSeq
  /\ \E c \in Sends :
       /\ SentAs(c) = {}
       /\ AuthorOf[c] \in Members /\ MayAct(AuthorOf[c])
       /\ job' = [job EXCEPT ![t] = [Resting EXCEPT !.step = "send", !.on = c, !.seq = nextSeq]]
  /\ threadLock' = t
  /\ UNCHANGED <<chatRows, chatClients, messageLock>>

\* The commit of the message and of the counter; its answer may be lost on the way.
SendCommit(t) ==
  LET s == job[t].seq
  IN /\ job[t].step = "send"
     /\ message' = [message EXCEPT ![s] = [send |-> job[t].on, revision |-> 1, deleted |-> FALSE]]
     /\ nextSeq' = s + 1
     /\ answer' \in {answer, [answer EXCEPT ![job[t].on] = @ \cup {s}]}
     /\ threadLock' = Nobody
     /\ job' = [job EXCEPT ![t] = Resting]
     /\ UNCHANGED <<active, gone, policy, shape, openedUnder, counted, member, delivered, read,
                    revision, cursor, fetched, messageLock>>

Author(s) == AuthorOf[message[s].send]

\* createMessageEdit up to the check of the revision the client read, on the locked row.
EditBegin(t) ==
  /\ Rest(t)
  /\ \E s \in Stored, stated \in Revisions :
       /\ messageLock[s] = Nobody
       /\ MayAct(Author(s)) /\ ~message[s].deleted
       /\ message[s].revision = stated
       /\ messageLock' = [messageLock EXCEPT ![s] = t]
       /\ job' = [job EXCEPT ![t] = [Resting EXCEPT !.step = "edit", !.seq = s, !.base = stated]]
  /\ UNCHANGED <<chatRows, chatClients, threadLock>>

\* updateMessageBody: the body it replaces becomes a row.  Both rows refuse a second of a kind
\* and a body on a deleted message.
EditCommit(t) ==
  LET s == job[t].seq
  IN /\ job[t].step = "edit"
     /\ ~message[s].deleted /\ message[s].revision < MaxRevision
     /\ revision' = revision \cup {[seq |-> s, revision |-> message[s].revision]}
     /\ message' = [message EXCEPT ![s].revision = @ + 1]
     /\ messageLock' = [messageLock EXCEPT ![s] = Nobody]
     /\ job' = [job EXCEPT ![t] = Resting]
     /\ UNCHANGED <<active, gone, policy, shape, openedUnder, counted, member, delivered, read,
                    nextSeq, chatClients, threadLock>>

\* createMessageDelete and markMessageDeleted: the row stays, its text and earlier texts go.
DeleteMessage ==
  /\ \E s \in Stored :
       /\ messageLock[s] = Nobody
       /\ MayAct(Author(s)) /\ ~message[s].deleted
       /\ message' = [message EXCEPT ![s].deleted = TRUE]
       /\ revision' = {r \in revision : r.seq # s}
  /\ UNCHANGED <<active, gone, policy, shape, openedUnder, counted, member, delivered, read,
                 nextSeq, chatClients, chatLocks, job>>

-----------------------------------------------------------------------------
(* What a participant's client does: fetch from its cursor, and mark.      *)

\* Mutant of Page: the newest rows first.
NewestPage(rows) == {s \in rows : Cardinality({r \in rows : r >= s}) <= PageSize}

\* listMessages: the first rows, ORDER BY seq ASC LIMIT.
Page(rows) == {s \in rows : Cardinality({r \in rows : r <= s}) <= PageSize}

\* createMessageList: the rows after the cursor, none from before the member joined.
Fetch ==
  /\ \E p \in Readers :
       LET from == IF cursor[p] < member[p] - 1 THEN member[p] - 1 ELSE cursor[p]
           rows == {s \in Stored : s > from}
           page == Page(rows)
       IN /\ p \in Members /\ MayAct(p)
          /\ page # {}
          /\ cursor' = [cursor EXCEPT ![p] = CHOOSE s \in page : \A r \in page : r <= s]
          /\ fetched' = [fetched EXCEPT ![p] = @ \cup page]
  /\ UNCHANGED <<chatRows, answer, chatLocks, job>>

Larger(a, b) == IF a < b THEN b ELSE a
\* requireReadableSeq, requireDeliverableSeq.
MayMark(p, n) == p \in Members /\ MayAct(p) /\ n \in (member[p] - 1)..HighestSeq

\* createDeliveredMark, advanceLastDeliveredSeq.
MarkDelivered ==
  /\ threadLock = Nobody
  /\ \E p \in Readers, n \in 0..MaxSeq :
       /\ MayMark(p, n)
       /\ delivered' = [delivered EXCEPT ![p] = Larger(@, n)]
  /\ UNCHANGED <<active, gone, policy, shape, openedUnder, counted, member, read, nextSeq, message,
                 revision, chatClients, chatLocks, job>>

\* createReadMark, advanceLastReadSeq: what is read has been delivered.
MarkRead ==
  /\ threadLock = Nobody
  /\ \E p \in Readers, n \in 0..MaxSeq :
       /\ MayMark(p, n)
       /\ read' = [read EXCEPT ![p] = Larger(@, n)]
       /\ delivered' = [delivered EXCEPT ![p] = Larger(@, n)]
  /\ UNCHANGED <<active, gone, policy, shape, openedUnder, counted, member, nextSeq, message,
                 revision, chatClients, chatLocks, job>>

ChatWork(t) ==
  \/ PolicyRead(t) \/ PolicyWrite(t)
  \/ JoinBegin(t) \/ JoinCheck(t) \/ JoinInsert(t)
  \/ SendBegin(t) \/ SendCommit(t) \/ EditBegin(t) \/ EditCommit(t)
  \/ ChatRollback(t)

ChatNext ==
  \/ OpenThread \/ GuardianJoins \/ GuardianLeaves
  \/ SendAgain \/ DeleteMessage
  \/ Fetch \/ MarkDelivered \/ MarkRead
  \/ \E t \in ChatTxns : ChatWork(t)

ChatSpec == ChatInit /\ [][ChatNext]_chatVars

-----------------------------------------------------------------------------
(* Properties.                                                             *)

\* Every variable stays in the set of values its column or field can hold.
ChatTypeOK ==
  /\ active \subseteq Guardians /\ gone \subseteq Guardians /\ counted \subseteq Guardians
  /\ policy \in [version : 0..MaxVersion, mode : Modes]
  /\ shape \in {"none", "direct", "group"} /\ openedUnder \in 0..MaxVersion
  /\ member \in [People -> 0..MaxSeq + 1]
  /\ delivered \in [People -> 0..MaxSeq] /\ read \in [People -> 0..MaxSeq]
  /\ nextSeq \in 1..MaxSeq + 1
  /\ message \in [Seqs -> [send : Sends, revision : Revisions, deleted : BOOLEAN] \cup {NoMessage}]
  /\ revision \subseteq [seq : Seqs, revision : Revisions]
  /\ threadLock \in ChatTxns \cup {Nobody}
  /\ messageLock \in [Seqs -> ChatTxns \cup {Nobody}]
  /\ job \in [ChatTxns -> [step : {"rest", "policy", "join", "insert", "send", "edit"},
                           on : People \cup Sends \cup {Nobody},
                           seq : 0..MaxSeq, base : Nat, mode : Modes, adds : SUBSET People,
                           saw : SUBSET Guardians]]
  /\ answer \in [Sends -> SUBSET Seqs]
  /\ cursor \in [Readers -> 0..MaxSeq]
  /\ fetched \in [Readers -> SUBSET Seqs]

\* A client that fetches from its cursor misses nothing it may see: every message up to the
\* cursor, from the one its participant joined at, has been sent to it, whatever sends were
\* under way or rolled back meanwhile (allocateSeq under the lock of the thread row).
NothingMissed ==
  \A p \in Readers : \A s \in 1..cursor[p] : s >= member[p] => s \in fetched[p] /\ s \in Stored

\* A message that is sent again, at once or later, is one message, and every answer to it
\* names the same number (readMessageByClientId under the lock of the thread row).
OneSendOneMessage ==
  \A c \in Sends : Cardinality(SentAs(c)) <= 1 /\ answer[c] \subseteq SentAs(c)

\* While the policy it was opened under stands, the guardians that policy seats with the
\* children of the conversation are in it, however the children came to be there: every
\* guardian whose membership was active when it was opened or a child was asked in
\* (createThreadInTransaction; listThreadMembers under the lock in createThreadMemberAdd).
\* A guardian accepted since is seated by nothing until the next child comes.
GuardiansSitIn ==
  shape # "none" /\ policy.version = openedUnder =>
    Seated(policy.mode, Members \cap Kids) \cap counted \subseteq Members

\* What replaces a text or a policy was written by somebody who had read what it replaces:
\* a change made meanwhile is never overwritten unseen.
NoLostUpdate ==
  [][/\ \A s \in Stored : message'[s].revision # message[s].revision =>
          \E t \in ChatTxns : /\ job[t].step = "edit" /\ job[t].seq = s
                              /\ job[t].base = message[s].revision /\ job'[t] = Resting
     /\ policy' # policy =>
          \E t \in ChatTxns : /\ job[t].step = "policy" /\ job[t].base = policy.version
                              /\ policy'.version = policy.version + 1 /\ job'[t] = Resting]_chatVars

\* A deleted message leaves no earlier text, and a live one all of them (updateMessageBody,
\* markMessageDeleted).
TextsStandOrGo ==
  \A s \in Stored :
    {r.revision : r \in {q \in revision : q.seq = s}}
      = IF message[s].deleted THEN {} ELSE 1..message[s].revision - 1

\* Marks lie between the number before the join and the newest message, and what was read was
\* delivered: no receipt counts a message its reader could not see.
MarksStayInside ==
  \A p \in Members : /\ member[p] - 1 <= read[p]
                     /\ read[p] <= delivered[p] /\ delivered[p] < nextSeq
=============================================================================
