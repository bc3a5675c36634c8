# Family OS: TLA+ models

Models of the Family OS backend (`backend/src`, `backend/db/migrations`), the
properties that make its components correct, the configurations that check them
on small instances, and proofs of the most important ones for every instance.

The backend is a Node process (or several) over PostgreSQL. Every route handler
is one transaction at READ COMMITTED: it reads some rows without a lock, takes
others with `SELECT ... FOR UPDATE`, writes, and commits. What goes wrong in such
code goes wrong between two of its statements, while another handler runs, so the
models keep the statements apart that another transaction can come between, and
keep together those it cannot.

1. [Inventory](#inventory)
2. [Modules](#modules): what each models and how it corresponds to the code
3. [Checks](#checks): runs, bounds, fairness
4. [Proofs](#proofs)
5. [Disagreements met](#disagreements-met-while-modelling)
6. [Not modelled](#not-modelled)
7. [What is left](#what-is-left)

## Inventory

All paths are below `backend/src` unless they say otherwise.

| Component | State | Operations | What is hard, what makes it correct |
| --- | --- | --- | --- |
| Notification dispatcher (`notification-dispatcher.js`, `fcm-sender.js`) | `outbox_events`, `outbox_delivery_attempts`, `family_sos_alert_deliveries` | `notify`, `sweep`, `bootSweep` | Leases that are taken over, crashes between Firebase's acceptance and the row, retries, lost registrations. At most one push per event and handset; `delivered` only with evidence; every event is closed; closed stays closed. |
| Membership and continuity (`store/postgres-foundation-store.js`) | `accounts`, `families`, `family_memberships`, `guardian_continuity_cases` | create a family, invite, accept, revoke, create / accept / cancel a guardian transfer | Authority read without a lock, four rows swapped at once, locks taken in several orders. One primary guardian, always; transfers are the primary's own; a removed member stays out. |
| Invite codes (`family-invite-codes.js`) | `family_invite_codes` | issue, revoke, redeem | Counts and inserts of two issuers, two redeemers, codes that expire. Ceiling of open codes; a code makes one member; one current membership per account. |
| SOS (`sos-emergency.js`) | `family_sos_alerts`, `family_sos_alert_deliveries`, `family_sos_backup_contacts` | press, acknowledge, escalate, resolve, add / change / archive a contact | Two doors for one press, retries under a key, devices revoked meanwhile. One incident in flight per child; one incident per press; first acknowledgement and closure stand. |
| Device revocation, erasure (`device-revocation.js`, `data-erasure.js`) | `family_child_devices`, positions, consents, `family_children` | revoke a device, remove a child | Several tables in one order, against reports and presses under way. Nothing erased remains or comes back. |
| Idempotency slots (store, `acquireIdempotencySlot`) | `idempotency_records` | acquire, complete | An advisory lock, a row, an answer that is replayed. One effect per key, the same answer every time. |
| Children, pairing, devices (store, `device-lifecycle.js`) | `family_children`, `family_device_pairings`, `family_child_devices` | add and edit a child, start pairing, claim, report telemetry | A code claimed twice or after the child left; reports of a revoked device. One device per code; no live device of a removed child. |
| Consents (`child-consents.js`) | `family_child_consents` | grant, withdraw, read | Locks are per device, consents per child. One active consent per capability; withdrawn means nothing more is collected. |
| Location (`location-telemetry.js`, `safe-zones.js`) | `family_child_location_fixes`, `family_geofence_events`, `family_safe_zones` | ingest a fix, prune, write zones | Fixes out of order, twice, from two devices. Crossings alternate per zone; one notice per crossing; no fix without consent. |
| Chat (`family-chat.js`, `collaboration-policy.js`) | `family_chat_threads`, members, messages, revisions, marks, `family_collaboration_policies` | open, join, send, edit, delete, fetch, mark; change the policy | Numbers taken by sends that roll back, retries of a send under another key, members added while the policy changes, edits from old readings. No gap for a client that fetches; a retry makes one message; the guardians the policy seats; no overwritten policy. |
| Chat media (`family-chat-media.js`, `chat-media-store*.js`) | `family_chat_media` and an object store | upload, send, delete, read | Bytes and rows live in two places that no transaction covers. A live row has its bytes; a deletion that is answered leaves none. |
| Realtime hints (`chat-realtime.js`) | sockets and subscriptions in memory | connect, subscribe, publish, heartbeat | The answer to a check arrives after members went and sockets closed. No hint to who could not read the room. |
| Screen time (`screen-time.js`) | policy, rules, inventory, lock, usage, time requests | change, lock, unlock, ask, decide, report | A lock released while another presses, a question answered while it expires, reports late, twice and from two handsets. A press leaves a lock; one answer per question; minutes never shrink. |
| Web filter (`web-filter.js`) | policy, temporary allows, protection reports | read, save, ask, decide, report | Two screens save one policy, two ask for one host, reports commit in another order than they began. No lost save; one question per host; tampering is not hidden. |
| Tasks (`tasks.js`) | `family_tasks`, `family_task_claims`, `family_point_ledger` | create, claim, decide | Every button may be pressed again, when the task was claimed anew meanwhile. Points once per press and claim; one pending claim. |
| Calendar (`calendar.js`) | `family_events`, audience, responses, attendance | state, change, call off, answer, record | Changes from what a screen read, audiences that change under answers. Nothing overwritten unread; answers stand. |
| Commands (`command-lifecycle.js`, `device-capabilities.js`) | `family_commands`, `family_command_receipts` | create, pull, receipt, expire | Not modelled: see "Not modelled". |
| Push registrations (`push-registrations.js`) | `family_push_registrations`, `family_push_nudges` | register, unregister, nudge | A handset that changes hands; a nudge claimed and lost. |
| Migrations (`migration-runner.js`) | `schema_migrations` | migrate | Two deployments at once, a failure half way. |
| HTTP surface (`app.js`, `server.js`, `auth/`) | none of its own | routing, validation, sweeps after responses and at boot | Decides when sweeps run. |
| Flutter app, Android agent (`app/`) | on the handset | calls the routes | Clients; the modules let them send what the routes accept, again and in any order. |

How they interact. Handlers share the tables above through one pool; there are no
calls between components within a transaction except for the audit row and the
outbox event each handler appends, which the dispatcher reads after the commit.
The shared-state couplings are the family row (membership, invite codes,
and every audit row's foreign key), the device row (SOS, location, consents,
revocation, telemetry, reports of usage), the outbox (everybody, dispatcher), the
members of a conversation (chat, media, hints; audiences of tasks and events) and
the idempotency slots. The first four modules below follow the first three of
these, `FamilyChat` and its neighbours the fourth, and what a family does around
one child (`ScreenTime`, `WebFilter`, `FamilyTasks`, `FamilyCalendar`) shares the
transactions and the clock of `Transactions` and the group of `FamilyCircle`.

## Modules

| Module | Models | Abstract specification | Proofs |
| --- | --- | --- | --- |
| `NotificationDispatch` | the dispatcher | `PushLedger` | `NotificationDispatchProofs` |
| `FamilyMembership` | membership, continuity, invite codes | `FamilyRoster` | `FamilyMembershipProofs` |
| `SosEmergency` | SOS, device revocation as incidents see it | `IncidentBook` | `SosEmergencyProofs` |
| `ChildLocation` | pairing, consents, positions and crossings, revocation, erasure, removal of a child | | `ChildLocationProofs` |
| `FamilyChat` | one conversation and the policy of who sits in it | | `FamilyChatProofs` |
| `ChatMedia` | rows and bytes of the media | | `FamilyChatProofs` |
| `ChatGateway` | the WebSocket gateway | | `FamilyChatProofs` |
| `Transactions` | rows that transactions hold, and the clock; extended by the next five | | |
| `ScreenTime` | the screen time of a child | | `ScreenTimeProofs` |
| `WebFilter` | the web filter of a child | | `WebFilterProofs` |
| `FamilyCircle` | the group that tasks and events name | | |
| `FamilyTasks` | tasks, claims and points of a child | | `FamilyPlansProofs` |
| `FamilyCalendar` | one event | | `FamilyPlansProofs` |

`MC*` modules give the constants their values. Definitions whose comment begins
with `Mutant:` are the specification with one plausible bug; none is part of
`Next`, and each property has one that breaks it.

### NotificationDispatch

Code: `notification-dispatcher.js`, with `fcm-sender.js`, the boot and
post-response sweeps of `server.js` and `app.js`, and the registrations that
`push-registrations.js` writes.

A *worker* is one run of `notify`, `sweep` or `bootSweep`, in this process or in
another one. It leases a batch of committed outbox events in one transaction
(`Claim`) and then dispatches them one after the other with one autocommitted
statement per step; `pc[w]` names the statement it is at, and the other worker
variables are the JavaScript locals that live across an `await`. Between any two
statements other workers, guardians, the clock and failures may act.

| State | Code |
| --- | --- |
| `status`, `available`, `aged` | `outbox_events.status`, `available_at <= NOW()`, `processing_at` older than 120 s |
| `outcome[e][r][n]`, `due[e][r]` | `outbox_delivery_attempts`, one row per event, registration and attempt number, and `retry_after_at <= NOW()` |
| `delivery[e][g]` | `family_sos_alert_deliveries` of channel `push` |
| `registration[r]` | what the target query sees of `family_push_registrations`: live, hidden by membership or preference, deleted |
| `accepted[e][r]` | the attempts FCM took; a fact about Firebase, no row says it |
| `sender` | whether the process was started with FCM settings |

Failures are actions of their own: a statement on the attempts fails
(`LoseStatement`, which keeps the lease), no connection can be had or another
statement fails (`LoseConnection`, which closes the event as failed), the closing
UPDATE of the catch block fails too (`LoseGiveUp`), the process ends (`Crash`),
and a deployment starts it with or without FCM settings (`Reconfigure`).
`MaxFaults` bounds their number.

Abstractions. `ORDER BY ... LIMIT` of the lease is any batch up to `BatchLimit`.
Time is three Booleans that only time sets. The owner of a registration and the
recipients of an SOS are constants. The subject and target queries are one step. `notify` refuses
an event of another type than it was called with (`event_type_mismatch`); it is called with the id
and the type of the row that the same transaction inserted, and no statement changes a type, so that
this refusal is never taken. FCM is assumed
not to have taken a message it refused with a status other than 200
(`fcm-sender.js` calls exactly these transient, permanent or unregistered); a
lost or unreadable answer may hide an acceptance.

`PushLedger` is the abstract specification: per event and handset at most one
push is taken, `delivered` is recorded only behind one, closed stays closed.
`KeepsLedger` is the refinement, with the pushes counted from `accepted`, the
evidence read from `outcome` and the closed events from `status`.

### FamilyMembership

Code: the membership and continuity operations of
`store/postgres-foundation-store.js`, and `family-invite-codes.js`.

A *transaction* `t` is one request. `Begin*` is its first statement, the
unlocked read that authorizes it (`activeActorMembership`). Each later step is one
wait: for the lock of a row (`SELECT ... FOR UPDATE`, which reads the row as it is
once the lock is had), for the family row that the foreign key of an inserted row
needs, or for an uncommitted entry of a unique index. What follows a wait without another
is part of the same step. Writes take effect with the last step, as READ COMMITTED
shows them to others, and `End` lets go of every lock.

| State | Code |
| --- | --- |
| `role`, `status` | `family_memberships` |
| `primary` | `families.primary_membership_id` |
| `case` | `guardian_continuity_cases` |
| `code` | `family_invite_codes` |
| `lapsed` | the cases and codes whose `expires_at` has passed |
| `joinedBy` | which code made a membership; the audit rows tell |
| `lock` | the row locks |
| `op`, `pc`, `self`, `who`, `item`, `asOf` | a transaction: operation, next statement, the membership that authorized it, account and row it is about, and `lapsed` at its start, because `NOW()` is the start of a transaction |

The database acts too: `DeadlockDetected` ends one transaction of a circle,
`ConnectionLost` ends any, `Lapse` is the clock.

Abstractions. One family. The rows the tables may get are given
(`Members`, `Cases`, `Codes`); a request that finds none left is refused. An
idempotency slot is not modelled: each of these operations decides by the state of its row, and
two slots with different keys do not exclude each other. Of the locks that
foreign keys take, the one on the family row is modelled; those on the
membership rows that an audit row names are taken by nobody else in a
conflicting order. After a wait, PostgreSQL re-evaluates the query of
`lockedFamilyPrimary` and may find no row, which is answered 404 rather than 409:
both are `Refuse`.

`FamilyRoster` is the abstract specification: members join and leave, the office
of the primary guardian moves from its holder to another active member and
nobody leaves while holding it.

### SosEmergency

Code: `sos-emergency.js`, and the part of `device-revocation.js` that incidents
see. Transactions as in `FamilyMembership`.

| State | Code |
| --- | --- |
| `alert` | `family_sos_alerts`: status, child, the press it answers, the device whose position it names, who acknowledged, climbed the ladder and closed it, terminal reason |
| `rung` | the `sms` rows of `family_sos_alert_deliveries` |
| `slot` | the stored answer of a press (`idempotency_records`) |
| `revoked` | `family_child_devices.credential_revoked_at` |
| `contact` | `family_sos_backup_contacts` |
| `failed` | operations that a constraint ended with an error the client reads as 500 |
| `lock`; `op`, `pc`, `by`, `via`, `item`, `arg`, `chosen` | row and slot locks; a transaction |

A press has a sender (`By`), a door (`Via`: a device route, or the account route) and
may name a stored position (`Fix`). The three waits of `fireAlert` are the
slot, the device row and the unique index `family_sos_alerts_one_open_per_child`.
A revocation locks the device, then clears the references (`RevokeLocksAlerts`), then deletes
the positions (`CommitRevoke`): a press may store a reference between the two.

Abstractions. The idempotency slots of the other operations are left out: the
state of the row answers their retries. Guardians stay guardians. The `push` rows of
`family_sos_alert_deliveries` belong to `NotificationDispatch`. A device's
positions are one, erased with its revocation; positions that age out and
children that are removed are `ChildLocation`'s. A
renumbering meets the unique index of numbers as an addition does (`UpdateContact`); an archival
changes no number and waits for nobody there.

`Wanted`, `Meets` and `WaitsFor` say for whom a transaction waits: for the holder of a row its next
statement locks, or for the uncommitted row it meets in a unique index or a foreign key.

`IncidentBook` is the abstract specification: a child has one incident in
flight, an incident stays with its child, a closed one stays closed.

### ChildLocation

Code: `location-telemetry.js` (reports), `child-consents.js`,
`device-revocation.js`, `data-erasure.js`, and the device operations of
`store/postgres-foundation-store.js` (pairing, claim, registration, telemetry).

A request that waits at most once, at its start, is one action, as is whatever
a handset does. Four operations are transactions of several steps: a report
(`BeginIngest` under the device's lock, `InsertFix`, `JudgeFix`,
`CommitIngest`, which prunes), a revocation, an erasure and a removal
(`BeginErase`, `CutFixes`, `CutSnapshots`, `CutDevices`, and their commits). An
erasure takes no lock before its first DELETE: it runs against reports under way
and is held together by the foreign key from a crossing to its fix.

| State | Code |
| --- | --- |
| `device` | `family_child_devices`: no row, no credential, a live one, a revoked one |
| `snapshot` | the devices whose row has a position (`location_lat`) |
| `pairing` | `family_device_pairings` |
| `archived` | `family_children.archived_at` |
| `consent` | the children with an active `location` row in `family_child_consents` |
| `fix` | `family_child_location_fixes`, and the device of each row |
| `aged` | the fixes with `recorded_at` before the ninety days |
| `crossing` | `family_geofence_events` |
| `answered` | the stored answers of a handset's reports; its key is made of the fix's id (`LocationFixProtocol.kt:62`) |
| `lock`, `cut`, `made`, `emptied` | row locks; the crossings a transaction has deleted and inserted, the positions it has emptied |
| `op`, `pc`, `by`, `own`, `item` | a transaction: operation, next statement, the device, whether by its credential, the fix or child |

Abstractions. A guardian who reports for a device does so under a fresh key. A fix
has the zones it lies in as data (`Inside`); zones, their assignment and their
shapes do not change, and two fixes are never recorded at the same instant. What a
crossing announces is left out. A statement that waits for a row is one that has
not run: a row committed while it waits is seen by it, where PostgreSQL shows the
rows as of its start; what is left behind by this is also left behind by a commit
just after. A withdrawal of consent and its wait for the consent's row are one
step. References of incidents to fixes are `SosEmergency`'s: here no incident names a fix, so that a
prune spares those of crossings only, and the statement of an erasure that takes the fixes out of the
child's incidents, between its two DELETEs, changes nothing.

What erasure cannot reach, and the model does not have: `completeIdempotencySlot`
keeps the answer to a report, with its coordinates, in `idempotency_records`, and
no code deletes from that table.

### FamilyChat

Code: `family-chat.js`, `collaboration-policy.js`. One conversation. A request that waits
once, at its start, is one action; a send, an edit, the addition of a member and a change of
the policy are two or three, because what they read first may be old when they write.

| State | Code |
| --- | --- |
| `active`, `gone` | the guardians with an active membership, and those whose membership ended, for good |
| `policy` | version and inclusion mode of `family_collaboration_policies`, version 0 where there is no row |
| `shape`, `openedUnder` | `family_chat_threads.kind`; history: the version of the policy it was opened under |
| `counted` | history: the guardians who were in the family when the room was opened or a child was last added |
| `member`, `delivered`, `read` | `joined_seq`, `last_delivered_seq`, `last_read_seq` of `family_chat_thread_members` |
| `nextSeq`, `message`, `revision` | `next_seq`, `family_chat_messages`, `family_chat_message_revisions` |
| `threadLock`, `messageLock` | the rows taken with `FOR UPDATE`, or by the UPDATE of `allocateSeq` |
| `job` | a transaction: its next statement, and what it has read |
| `answer`, `cursor`, `fetched` | the clients: the numbers answered for a client message id, `afterSeq` of the next fetch, what was fetched |

A send takes its number by an UPDATE of the thread row (`SendBegin`), which it holds to its
commit (`SendCommit`) or rollback (`ChatRollback`). `PolicyRead` locks the row only where there
is one, and `PolicyWrite` has the `WHERE version =` of the upsert. Guardians are accepted
(`GuardianJoins`) and removed (`GuardianLeaves`) at any moment; only the opening of a room and the
addition of a child read who they are and seat them, and `GuardiansSitIn` is about those who were
read. Abstractions: bodies, titles,
previews and receipt counts; legacy rooms; the default policy keeps no operation from anybody.

### ChatMedia

Code: `family-chat-media.js`, `chat-media-store.js`, `chat-media-store-s3.js`, the deletion of a
message in `family-chat.js`, and `withChatHints` in `app.js`. A request is in one of the steps
between which another may come, or the process end: the first look, the bytes, the row, the
discard; the deletion, the purge; the grant, the read.

| State | Code |
| --- | --- |
| `media`, `carrier` | `family_chat_media` (state and `storage_key`) and the message that carries it |
| `purge` | `purgeStorageKeys` in the stored answer to a deletion |
| `bytes`, `drawn` | the keys the store holds, and those that were ever drawn |
| `request` | a request under way |
| `held`, `confirmed`, `unreadable`, `lost`, `crashes` | histories and bounds |

`UploadCommitLost` is a COMMIT that PostgreSQL makes and whose answer the server does not get;
`withTransaction` throws then, as for a failure. `RequestFails` is a process that ends or a
store that refuses. The inspection of the bytes (`chat-media-format.js`) keeps no state.

### ChatGateway

Code: `chat-realtime.js` and the publication in `withChatHints`. A frame or a published change
asks the database whether a caller may read a room, in a transaction of its own; the question is
a record that other events come before and after. Who may read is any relation that changes at
any moment (`MemberComes`, `MemberGoes`), of which `FamilyChat` is a special case.

| State | Code |
| --- | --- |
| `mayRead` | what `canReadThread` would answer |
| `socket` | a connection: state, caller, `rooms`, `bufferedAmount`, `isAlive` |
| `question` | the awaits under way |
| `hint`, `heard` | the changes published and who could read them since; the hints sent |

### Transactions, ScreenTime

`Transactions` has the clock and the relation `hold` between rows and transactions: a row is held
from the statement that locks or writes it to the end of the transaction. An advisory lock and an
entry of a unique index that is not committed are rows as well. `Obtainable`, `Takes` and
`Releases` are its three operators.

`ScreenTime` is `screen-time.js` for one child. `deed[t]` is a transaction: its step, when it
began (`NOW()`), and what it read. `SeeLock` is the moment a `SELECT ... FOR UPDATE` begins and
finds the row it will wait for; when it stops waiting the row may be released and another be
there (`LockFound`, `PressInserts`).

| State | Code |
| --- | --- |
| `setting` | `family_child_screen_time_policies`: version and the fields somebody chose |
| `rule`, `inventory` | `family_child_app_rules`, `family_child_apps` |
| `lock` | `family_child_lock_state` |
| `ask` | `family_child_time_requests` |
| `used` | `family_child_app_usage_daily`, of two days |
| `told` | history: what handsets were answered for |

The laws of the file are operators: `windowContains`, `remainingMinutes`, `evaluateScreenState`
(`ScreenReason`) and `evaluateAppAccess` (`AppReason`), `familyLocalParts`, `endOfFamilyDay`; the
rows feed them in `ScreenOn` and `AppOn`. Abstractions: fields of the policy are named, not
valued, so that a lost update is one that forgets a field; of weekdays and window minutes the laws
take the outcome; a report is of one app. Time is minutes, the day `DayLength` of them.

### WebFilter

Code: `web-filter.js`, for one child. `visit[t]` is a transaction; `shown[s]` is what a guardian's
screen last read, and the version it was told, which is 1 where there is no row.

| State | Code |
| --- | --- |
| `filter` | `family_web_filter_policies`: version, `allow_hosts`, `block_hosts` |
| `door` | `family_web_filter_temp_allows` |
| `spoken` | `family_device_protection_reports`, per handset |

`lockOpenQuestion` is an advisory lock, the row `Question(host)`. A report has the place in the
order of `reported_at` that its transaction had when it began, while it commits whenever it
commits. A host is a model value and `Within[host]` the hosts above it, which is what
`hostMatches` tells apart. `DenySource` is `evaluateWebRequest`, `Health`
`computeProtectionHealth`, `DoorState` `tempAllowState`. Levels, categories and keywords are the
two Booleans they come down to.

### FamilyCircle, FamilyTasks, FamilyCalendar

`FamilyCircle` is the group a task or an event may name as its audience: its members change at
any moment, because `tasks.js` and `calendar.js` read them without a lock; `Included` is
`requireTaskThreadMember`.

`FamilyTasks` is `tasks.js` for one child. `press[p]` is an Idempotency-Key with the button it
belongs to: what a press asks for is fixed when it is first sent, and it may be sent again at any
time, to the same server or another. `errand[t]` is a transaction. `task`, `claim`, `ledger` are
`family_tasks`, `family_task_claims`, `family_point_ledger` (an entry has the id of its claim, which
`UNIQUE (claim_id)` makes its key). The decision is three steps: the task's row
(`TaskFound`), the pending claim and the points (`Judged`), the writes (`Rewarded`).

`FamilyCalendar` is one event of `calendar.js`. `event`, `invited`, `answered`, `attended` are the
rows of `family_events`, its audience, responses and attendance; `read[g]` is what a guardian's
screen read last, `change[t]` a change between its first read and its last statement. All
operations but the first hold the row of the event; a change of the audience deletes every row of
it, and the foreign keys of answers refuse to lose theirs (`ChangeReplaces`). Titles, places,
reminders and the end of an event are left out.

## Checks

Every run explores its whole state space. `pass` runs find no error; a `violation` run has one
property, which a comment or a document of the repository states, and finds it violated.

| Run | What it shows | Instance |
| --- | --- | --- |
| `notification_theft` | `PushLedger` is implemented when a lease is taken over: no second push, no false evidence; a guardian's row says delivered only when it is so; closed events stay closed | two workers, one SOS event, one handset, two attempts, one failure |
| `notification_live` | every event is closed in the end; where no run failed or was overtaken, a closed event leaves no attempt open and no guardian's row unanswered | one worker, an SOS for two guardians and an event that cannot be rendered, two failures |
| `family_requests` | one primary guardian; removed members stay out; `FamilyRoster` is implemented; the ceiling of codes; a code makes a member only while it is open and is then spent; transfers form no circle of locks | part *transfers*: the founder and an account with two rows, two cases; part *codes*: one row to fill, one case, two codes, ceiling 1; two transactions |
| `sos_requests` | one incident per press, none by a revoked handset, no erased position named; records stand; `IncidentBook` is implemented; no circle of transactions that wait for each other | part *presses*: two handsets of two children, two presses for one child; part *ladder*: one press that names a position, one contact; part *numbers*: two contacts and two numbers, added, renumbered and archived; part *guardians*: two guardians and a handset who acknowledge, escalate, close and revoke; two incidents, two transactions |
| `sos_raced_press` | violation: the second of two presses ends in an error | as *presses* |
| `location_reports` | crossings keep their fixes, and those of a lone handset alternate; what was cut off, withdrawn or erased does not come back | one child, two handsets, two fixes of the first, two zones, one pairing, two transactions |
| `location_removed_child` | violation: a removed child has a handset with a live credential | the same |
| `chat` | a client that fetches misses no message; one send is one message; the guardians the policy seats sit in; no overwritten policy; bytes stay as long as their row and no longer; no hint to who was removed before the change | parts *members* (four guardians who come and go, two children, every policy), *policy* (two changes at once), *messages* (a group of three and a child that joins, two sends, three revisions), *media* (two files, three keys, two requests, one lost commit, one crash), *gateway* (two connections of one caller, two hints) |
| `chat_lost_commit` | violation: a live row without bytes | as *media* |
| `household` | a press leaves a lock; one answer per question; usage is the greatest that was reported; a stated save overwrites what its screen read or, read as a default, a first row; one question per host; tampering is not hidden; one award per press; one claim waits; answers stand; an event is changed as its author read it | ten parts, named in `MCHousehold`; two transactions |
| `web_first_save` | violation: the first save of a policy is refused as stale, though nothing changed | the same |
| `calendar_answered_audience` | violation: the audience that is deleted has answered | the same |

*Parts.* Components that share no row are checked side by side: the variable `part` of an MC module
is chosen in the initial state and says which actions are taken, so that state spaces add up
instead of multiplying. What the parts leave out is written in the MC module, action by action; the
specification of each component, and its theorems, know nothing of parts.

Bounds, and why they are enough to meet the cases:

- *Two transactions, workers or requests.* Every hazard in the inventory is between two: one reads
  or waits, the other commits. A third matters for circles of three locks; the theorems are for any
  number, `SwapsNeverDeadlock` and `NobodyWaitsInACircle` too.
- *`MaxFaults`, `MaxCrashes`, `MaxLost`.* One failure is enough to leave an attempt in flight, a
  file without a purge or a commit unanswered; liveness has two, so that the recovery fails once too.
- *`MaxAttempts` = 2* (the code has 5): a first attempt, a retry, and the ceiling.
- *`BatchLimit`* 1 or 2 (3 after a response, 20 at boot): a batch with an event that fails before
  another, and two batches.
- *Ceilings at 1*: `MaxOpenCodes` (5), `OpenCeiling` of tasks,
  `MaxPerCaller`, `MaxSubscriptions`, `PageSize`: two requests at the last place, and a second page.
- *Rows.* `Members`, `Cases`, `Codes`, `Alerts`, `Contacts`, `MaxLocks` = 3, `MaxAsks` = 2, `MaxDoors` = 2,
  `MaxClaims` = 2, `MaxSeq` = 2 bound how many rows a table may get: one, and another after it or beside
  it. Three locks let two presses meet a release. Two fixes and two zones show an entry, an exit, a fix
  that comes late, one that is sent again and one that grows old (`Ageing`).
- *Versions.* `MaxRevision` = 3, `MaxVersion` = 2, `MaxSaves` = 3, `MaxVersions` = 3: two changes from one reading,
  of a row as well as of the default. `MaxContacts` = 2, so that two contacts may ask for each
  other's number.
- *Guardians.* Four in the chat: a group of three that has no child leaves one to be seated when
  children are added to it at once. Two over an incident: the second who acknowledges is another.
- *Reports.* `MaxReports` = 3: a tampered one between two healthy ones, in every order.
- *Presses.* Five buttons of `FamilyTasks`: one task, two claims and two decisions, each sent
  any number of times.
- *Time.* `MaxMinute` = 3 with `DayLength` = 2 crosses a midnight; a question lives `Lifetime` = 1, a
  report of protection is fresh for 1.

Histories that only bound or observe (`lost`, `crashes`, `told`, `held`, `heard`...) guard no step of the code.

`CHECK_DEADLOCK FALSE` stands where the system may really stop: in the notification
configurations (every event closed, failures used up), in the location configurations (a family
without devices need not get one), and in the chat and household configurations, where the
bounds on rows, versions and minutes are reached. The membership and SOS transactions always may
begin again.

Symmetry is used in runs without liveness properties, over transactions, workers, requests and the
rows that are interchangeable.

Fairness is stated of the dispatcher only (`FairSpec`): weak fairness of each worker's next
statement, since a run that started goes on and its statements and waits end; and of the sweep and
the clock that make an event due, because `app.js` sweeps after every response, `server.js` at
boot, and a timer for what is due later. None is assumed of handsets, guardians, failures or
crashes. The other components promise nothing that must eventually happen without a caller: every
request of theirs is some client's, and nothing wakes up by itself.

## Proofs

The proofs are for every value of the constants under the assumptions stated
beside them (`...Assumption` in each module: rows of different tables are different,
`MaxAttempts` is a positive number, a device has a child, and so on), hence for any number of
transactions, workers, rows and handsets. Each run's module extends the assumptions it has, so TLC
evaluates them.

| Theorem | Establishes |
| --- | --- |
| `NotificationDispatchProofs!PushInvariant` | `PushInv`, the inductive invariant |
| `TypeCorrect`, `NoSecondPush`, `EvidenceIsReal`, `LedgerKept` | `TypeOK`, `AtMostOnePush`, `DeliveredHasEvidence`, the refinement of `PushLedger` |
| `ClosedEventsStay`; `SosInvariant`, `SosRowsAreTrue` | `ClosedStaysClosed`; `SosInv`, the inductive invariant of what guardians read, and `SosDeliveredIsTrue` |
| `CalmInvariant`, `ClosedIsAnswered`, `GuardiansRowsSettle` | `CalmInv`, the inductive invariant of a dispatcher in which nothing fails; `ClosedLeavesNothingOpen`, `SosRowsSettled` |
| `FamilyMembershipProofs!FamilyInvariant` | `FamilyInv`, the inductive invariant |
| `TypeCorrect`, `AlwaysOnePrimary`, `PendingCaseIsThePrimarys`, `StaysOut`, `OnlyPrimaryCancels`, `RosterKept` | `TypeOK`, `OnePrimary`, `PendingIsThePrimarys`, `RemovedStaysOut`, `CancelledByPrimary`, the refinement of `FamilyRoster` |
| `CodesInvariant`, `CeilingHolds`, `CodeMakesOneMember`, `SwapsNeverDeadlock` | `CodeInv`, the inductive invariant of codes and locks; `OpenCodesBounded`, `CodeSpentOnce`, `NoRoleSwapDeadlock` |
| `OneMembershipEach` | `OneCurrentMembership`, from `SeatInv` |
| `SosEmergencyProofs!SosInvariant` | `SosInv`, the inductive invariant |
| `TypeCorrect`, `AtMostOneInFlight`, `RetriesMakeNothing`, `ErasureIsComplete`, `HandsetClosesItsOwn`, `NumbersDistinct`, `CutOffRaisesNothing`, `HistoryIsKept`, `BookKept` | `TypeOK`, `OneOpenIncident`, `OnePressOneIncident`, `NoErasedPosition`, `DeviceClosesOwnFalseAlarm`, `LivePhonesDistinct`, `RevokedDeviceRaisesNothing`, `IncidentHistoryStands`, the refinement of `IncidentBook` |
| `OrderInvariant`, `WaitingIsForSomebody`, `NobodyWaitsInACircle` | `OrderInv`, the inductive invariant of the locks; who waits for nobody finds every lock and constraint of its next statement free; `NoCircleOfWaits` |
| `ChildLocationProofs!LocationInvariant` | `LocationInv`, the inductive invariant |
| `TypeCorrect`, `CrossingsKeepFixes`, `CutOffStoresNothing`, `RetriesRestoreNothing`, `RevocationIsComplete` | `TypeOK`, `CrossingHasFix`, `CutOffHandsetStoresNothing`, `ErasedStaysErased`, `RevocationErases` |
| `ConsentInvariant`, `ConsentIsKept` | `ConsentInv`, the inductive invariant of consent; `StoredByConsent` |
| `TellInvariant`, `ZonesAreLeftBeforeEntered` | `TellInv`, the inductive invariant of crossings; `CrossingsAlternate` |
| `FamilyChatProofs!ChatInvariant` | `ChatInv`, the inductive invariant of a conversation |
| `ReadersMissNothing`, `ResendsMakeNothing`, `GuardiansAreSeated`, `MarksAreTrue`, `TextsAreKeptOrGone`, `NothingIsOverwritten` | `NothingMissed`, `OneSendOneMessage`, `GuardiansSitIn`, `MarksStayInside`, `TextsStandOrGo`, `NoLostUpdate` |
| `MediaInvariant`, `MissingMeansDeleted`, `DeletedBytesAreGone` | `MediaInv`, the inductive invariant of media; `MissingOnlyWhenDeleted`, `NoBytesOutlive` |
| `GatewayInvariant`, `StrangersHearNothing` | `GatewayInv`, the inductive invariant of the gateway; `NoHintToStrangers` |
| `ScreenTimeProofs!ScreenInvariant` | `ScreenInv`, the inductive invariant |
| `PressLocks`, `QuestionsAreAnsweredOnce`, `MinutesAreTheGreatest` | `PressLeavesALock`, `OneAnswer`, `UsageIsTheGreatest` |
| `LockClosesEveryApp`, `LockedIsClosed`, `UndecidedStaysClosed`, `WindowsPartTheDay` | a live lock closes every app whatever else is decided; an app nobody decided about is closed at every hour; a window and the window from its end to its start part the day |
| `WebFilterProofs!WebInvariant` | `WebInv`, the inductive invariant |
| `DoorsAreAskedOnce`, `StatedSavesLoseOnlyTheFirst`, `TamperingIsSeen` | `OneQuestionPerDoor`, `StatedSaveLosesOnlyTheFirst`, `TamperIsNotHidden` |
| `DoorsOnlyOpen`, `DoorsClose` | a door denies nothing; an opened door closes by itself |
| `FamilyPlansProofs!TasksInvariant`, `PressAwardsOnce`, `ClaimsOneAtATime` | `TaskInv`, the inductive invariant; `OnePressOneAward`, `OneClaimWaits` |
| `CalendarInvariant`, `AnswersAreKept`, `ChangesAreOfWhatWasRead` | `CalendarInv`, the inductive invariant; `AnswersStand`, `ChangesWhatWasRead` |

The arguments:

- *One push.* That a handset gets one push is not inductive: it holds because the
  attempts of an event and handset are numbered, because a number has one sender
  (the INSERT of its row has one winner), and because a number is only begun when all
  before it were clearly refused; a write-off closes the attempt for good. `PushInv`
  says this of the rows and of what each worker's locals remember of them.
- *One primary guardian.* `FamilyInv` adds to the roster what each
  transaction knows at each statement: what it checked of a row under a lock it
  still holds is still true. A handover holds the family row and the old primary's
  row; a removal holds the row of somebody who is not the primary guardian; nobody
  becomes primary while that row is held.
- *Incidents.* As above for what is locked; what is read without a lock (the open
  incident, the stored position, the number of contacts) is decided again by a constraint, at
  the INSERT or at the DELETE, and `SosInv` records the entries of uncommitted rows
  (`OneAtATime`).
- *Positions.* A report holds its device from its first statement to its commit, so a
  revocation and an answer to the same handset wait for it (`ReportHolds`). An erasure
  holds nothing when it begins: between its two DELETEs a report may commit a crossing,
  and the foreign key then refuses the second DELETE; `ErasureHolds` is what that
  leaves, that no crossing stands on a fix the erasure has locked unless it deleted
  it. A fix has one report under way (`OneReport`) and nobody locks a fix before it is
  stored (`LockedFixIsStored`), so that what a report commits was nobody's.
- *The household.* The four invariants are of one form: no two transactions hold one row, and a
  transaction that is past its read holds the row, the index entry or the advisory lock it will
  write, so that what it knows of it stands until it ends (`Knows`, `Asking`, `Works`, `OneChange`).
  A lemma per module says that a step of one transaction leaves what the others know. To that,
  `WebFilter` adds what screens know (`ScreensKnow`: a version is one policy) and that the reports
  of a handset, made and under way, have places of their own in the order (`Reporting`), without which the
  newest of them would not be one; `FamilyTasks`, that a press whose slot is answered is under way no
  more, and that every entry of the ledger names such a press (`Entries`); `FamilyCalendar`, that a
  version identifies one event with one audience (`ReadsKnow`), so that equal versions mean nothing was
  overwritten.
- *What a guardian reads of an alert* (`SosInv`). "Delivered" goes from Firebase's answer to the
  attempt, from there to what a worker saw, to the verdict it is about to write and to the row; each
  of the four conjuncts follows it one step further, and what FCM took is never taken back.
- *What a closed event leaves* (`CalmInv`). Under `Calm` (nothing failed, one run at a time) the run that
  closes an event holds its lease, every attempt it found open has been answered or written off by its
  own repair loop, and what it read of the event is still so. With a failure it is
  false: an event that is closed as failed because no connection could be had leaves what was open.
- *Codes and the office* (`CodeInv`). Who redeems or revokes a code has locked it and knows it is open.
  An issuer counts with the clock of its start, `asOf`, which is never ahead, so that it counts
  every code that is open when it writes. Handovers lock memberships only behind
  the family's row: in a circle of handovers and codes somebody would wait for the holder of that row,
  who waits for none of them.
- *One membership per account* (`SeatInv`). An invitation has its index entry before it waits for the
  family's row: while it waits its account has no current membership and no other entry.
- *The locks of the emergency surface* (`OrderInv`). The row a transaction holds says which statements it
  has passed: press before device before incident before contact. `Stage` puts them on six levels,
  `Wanted` and `Meets` name what the next statement locks or meets in an index or a foreign key, and
  `WaitsForFurther` shows that one waits only for a transaction of a higher level, so that the furthest of
  any set waits for none of it. `WaitingIsForSomebody` ties these definitions to the guards of the actions.
- *Consent* (`ConsentInv`). A report holds its device and was begun with consent; a withdrawal through
  that device waits for it, so that consent goes meanwhile only through another device of the child or
  with the child's removal, and these are the two exceptions of `StoredByConsent`.
- *Crossings* (`TellInv`). A fix that is judged is the newest of its device until its report ends, what
  it tells continues what was told, and an erasure deletes the oldest crossings first, so that what remains
  still alternates. The last crossing before a fix exists by well-founded induction on the
  times of the fixes.
- *Conversations* (`ChatInv`). A send that took its number holds the thread and the number is the next
  and unused; hence numbers appear in order and a page never skips one. A key is looked up under the same
  lock. An addition knows the members and the policy it read, an edit the revision. An addition of a child
  counts the guardians under the lock of the room (`counted`); one who is accepted later is no part of
  it, and one who left was in it but is seated no more.
- *Media* (`MediaInv`). A key is drawn once and is of one row or one request; every stored object has its row, or
  a request that has it in hand, or was left by a crash; who is told of a deletion was told after
  the purge.
- *Hints* (`GatewayInv`). A check is asked after the change was published, and who may read while it is
  answered could read since.

Only model-checked: the liveness property `EveryEventCloses`, which is outside what the prover can
do. Every other property of a passing run is a theorem.

## Disagreements met while modelling

Each of these has a run that ends in the behaviour.

1. *A raced press* (`sos_raced_press`, `sos-emergency.js:225`). The header promises
   the incident that exists; the second press is answered 500.
2. *A child who is gone, and a handset that reports* (`location_removed_child`,
   `postgres-foundation-store.js:788`). A removal leaves the open pairing codes of
   the child, and a claim does not look at the child. Consent can then be recorded, and
   positions stored.
3. *A commit whose answer is lost* (`chat_lost_commit`, `family-chat-media.js:188`). The catch
   of an upload deletes the bytes of a row that was committed.
4. *The first save of a web policy* (`web_first_save`, `web-filter.js:518`). A family without a row
   reads version 1 and is compared with version 0: who states what it read is refused.
5. *The audience of an answered event* (`calendar_answered_audience`, `calendar.js:889`). Every row
   is deleted, those of children who answered included, which their foreign keys refuse: once
   somebody has answered, the audience can never be changed.

Disagreements of code and words without a run of their own:

- *A late removal* (`postgres-foundation-store.js:1031`, against `backend/README.md:94`). The
  authority of the caller is read without a lock, and may be gone at the commit. The same window is in
  `createInviteCode` and in the invitation. `FamilyMembership` has it.
- *A guardian at a device's route* (`sos-emergency.js:630`). The branch writes two closers, which the
  check `family_sos_alerts_resolution_single_closer` refuses. `SosEmergency` has it (`failed`).
- *The first change of a screen policy* (`screen-time.js:552`, against the comment at 307-312). There
  is no row to lock, and the upsert writes all fields: of two first changes one is lost.
  `ScreenTime` has it (`PolicyOpen`, `PolicySave`).
- *The first save of a web policy that is lost* (`web-filter.js:518`, against the comment at 520-521, "the
  second save is refused rather than silently overwriting the first"). Two screens are shown the default
  as version 1 (486); one saves without stating a version and makes the row, of version 1; the other
  states the 1 it was shown, which matches, and overwrites it. `StatedSaveLosesOnlyTheFirst`
  says that nothing else is lost this way: every later save is refused.
- *The ceiling of subscriptions* (`chat-realtime.js:222-232`, against line 18). It is counted before
  the check is awaited: frames sent together pass it together. `ChatGateway` has it.
- *The date of a report* (`screen-time.js:1045-1058`). The floor of 48 hours admits two days before,
  where the message says "today or the day before". `ScreenTime` has it (`ReportBegins`).
- *Ceilings read without a lock*: points and open tasks (`tasks.js:240`, `Judged`, `TaskCounted`), and
  contacts (`sos-emergency.js:690`): two at once pass together. The ceiling of open questions per child of
  `web-filter.js:130` is counted by `countOpenQuestions` (1008), which nothing calls.
- *A renumbered contact* stays verified unless the request says otherwise (`sos-emergency.js:1134`).
- *Rule 3* in the header of `sos-emergency.js` and migration 121 differ on what a delivery row may say.

Behaviours the models show that contradict nothing:

- an attempt in flight is written off as interrupted (`notification-dispatcher.js:637,734`)
  while its sender still waits, since no timeout ends the call to Firebase;
- a report under way while a child is removed may commit between the DELETE of the
  trail and the end of the removal, and its position stays (`data-erasure.js:154`);
- a crossing judged before an erasure and committed after it tells of an exit whose
  entry was erased;
- two handsets of one child hold different locks: each may tell the same entry, and a report by
  one is not stopped by a consent that is withdrawn through the other;
- a guardian's report for a revoked device fills what its revocation emptied;
- a restart without FCM settings closes waiting events as not configured;
- an expired transfer stays pending, and blocks the next one, until somebody tries to accept it
  or the primary guardian cancels it;
- a database failure while the targets are read closes an event as failed;
- a guardian who is accepted after a room with a child was opened sits in it only from the next
  addition of a child on, or when somebody adds the guardian (`family-chat.js:401-417,596-611`).

## Not modelled

- *Commands* (`command-lifecycle.js`, `device-capabilities.js`). A command cannot be created on
  PostgreSQL: the request hash it stores is an object, as JSON longer than the 64 characters the
  column's check admits (`001_foundation.sql:109`). Receipts of the kind `limited` contradict a check
  of the table, and the transition to `expired` is rolled back by the error that follows it. Every later
  state is therefore unreachable, and a model of it would show what the program cannot do.
- *Safe zones* (`safe-zones.js`): written under one lock; `ChildLocation` takes them as inputs.
- *Chat nudges and registrations that change hands* (`push-registrations.js`): a nudge is sent once,
  after the commit, and a lost one is not made up for; of a registration `NotificationDispatch` has
  what its target query sees.
- *Children's names, titles, previews, legacy rooms, receipt counts, reminders, alert flags*: data
  without control that the properties tell apart.
- *Migrations* (`migration-runner.js`): two runners are kept apart by one advisory lock, and each
  migration is one transaction.
- *HTTP routing, validation, authentication* (`app.js`, `validation.js`, `auth/`) keep no state; what
  `app.js` and `server.js` start after a response and at boot belongs to `NotificationDispatch` and
  `ChatMedia`.
- *Derived views, staging verifiers, infrastructure, prototypes*: no state of the service.
- *The Flutter application and the Android agent*: clients. The modules let them send what the routes
  accept, again, late and in any order. The agent's own queue of fixes (`ResilientFixQueue.kt`) is
  sequential code over a file, tested by its own unit tests.

## What is left

1. The queue of the Android agent with the server's ingest: fixes evicted, expired, retried,
   restarted, re-paired; what is lost is counted.
2. An abstract specification of `ChildLocation`: positions come by consent and go with an erasure
   or a revocation; and its refinement, proved as those of the first three modules are.
3. Nudges of chat messages, once their loss is something the code handles.
