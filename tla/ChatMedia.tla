------------------------------- MODULE ChatMedia -------------------------------
(***************************************************************************)
(* The media of a conversation: a row of PostgreSQL that says what a file  *)
(* is, and bytes in an object store that no transaction covers, as         *)
(* family-chat-media.js, chat-media-store.js and the deletion of a message *)
(* in family-chat.js and app.js keep the two together.                     *)
(*                                                                         *)
(* Bytes are put before their row and deleted after it, so that a failure  *)
(* between the two leaves bytes without a row and never a row without      *)
(* bytes.  MaxLost counts the commits whose answer the server loses: it    *)
(* takes them for failures.                                                *)
(***************************************************************************)
EXTENDS Integers, FiniteSets

CONSTANTS Files,       \* client media ids, each of one uploader and one room
          Keys,        \* storage keys, drawn at random: no two requests share one
          Requests,    \* requests that are under way at once
          MaxLost,     \* bound: commits whose answer is lost
          MaxCrashes,  \* bound: servers that stop, object stores that fail
          NoKey

ASSUME MediaAssumption ==
  /\ NoKey \notin Keys \cup Files
  /\ MaxLost \in Nat /\ MaxCrashes \in Nat

VARIABLES
  media,     \* media[f]: family_chat_media, its state and its storage_key
  carrier,   \* carrier[f]: the message that carries it
  purge,     \* purge[f]: purgeStorageKeys in the stored answer to the deletion
  bytes,     \* the keys the object store holds
  drawn,     \* the keys that were ever used
  request,   \* request[r]: what a request does next, for which file and key
  held,      \* history: held[f], the key the row of f has had
  confirmed, \* history: the deletions whose caller was answered
  unreadable, \* history: the files whose content was answered chat_media_integrity_failed
  lost, crashes

mediaRows == <<media, carrier, purge>>
mediaHistory == <<held, confirmed, unreadable>>
mediaVars == <<mediaRows, bytes, drawn, request, mediaHistory, lost, crashes>>

-----------------------------------------------------------------------------
NoMedia == [state |-> "none", key |-> NoKey]
Idle == [step |-> "idle", file |-> NoKey, key |-> NoKey]

MediaInit ==
  /\ media = [f \in Files |-> NoMedia]
  /\ carrier = [f \in Files |-> "none"]
  /\ purge = [f \in Files |-> NoKey]
  /\ bytes = {}
  /\ drawn = {}
  /\ request = [r \in Requests |-> Idle]
  /\ held = [f \in Files |-> NoKey]
  /\ confirmed = {}
  /\ unreadable = {}
  /\ lost = 0
  /\ crashes = 0

Goes(r, step, f, k) == request' = [request EXCEPT ![r] = [step |-> step, file |-> f, key |-> k]]
Ends(r) == request' = [request EXCEPT ![r] = Idle]
At(r, step) == request[r].step = step

-----------------------------------------------------------------------------
(* createMediaUpload.                                                      *)

\* newStorageKey: a key that no other request has drawn.
Undrawn == Keys \ drawn

\* The first look: a file whose row is there is answered from it; another draws a key.
UploadLook(r) ==
  /\ At(r, "idle")
  /\ \E f \in Files, k \in Undrawn :
       /\ media[f].state = "none"
       /\ Goes(r, "put", f, k)
       /\ drawn' = drawn \cup {k}
  /\ UNCHANGED <<mediaRows, bytes, mediaHistory, lost, crashes>>

\* The bytes, outside any transaction.
UploadPut(r) ==
  /\ At(r, "put")
  /\ bytes' = bytes \cup {request[r].key}
  /\ Goes(r, "insert", request[r].file, request[r].key)
  /\ UNCHANGED <<mediaRows, drawn, mediaHistory, lost, crashes>>

Inserts(f, k) ==
  /\ media' = [media EXCEPT ![f] = [state |-> "live", key |-> k]]
  /\ held' = [held EXCEPT ![f] = k]

\* The row, unless another upload of the file was first.
UploadInsert(r) ==
  LET f == request[r].file
  IN /\ At(r, "insert")
     /\ media[f].state = "none"
     /\ Inserts(f, request[r].key)
     /\ Ends(r)
     /\ UNCHANGED <<carrier, purge, bytes, drawn, confirmed, unreadable, lost, crashes>>

\* ON CONFLICT DO NOTHING returned no row, or the transaction was refused or failed.
UploadRefused(r) ==
  /\ At(r, "insert")
  /\ Goes(r, "discard", request[r].file, request[r].key)
  /\ UNCHANGED <<mediaRows, bytes, drawn, mediaHistory, lost, crashes>>

\* withTransaction throws although PostgreSQL has committed: the catch of the upload runs.
UploadCommitLost(r) ==
  LET f == request[r].file
  IN /\ At(r, "insert")
     /\ media[f].state = "none"
     /\ lost < MaxLost
     /\ Inserts(f, request[r].key)
     /\ Goes(r, "discard", f, request[r].key)
     /\ lost' = lost + 1
     /\ UNCHANGED <<carrier, purge, bytes, drawn, confirmed, unreadable, crashes>>

\* Mutant of UploadDiscard: every copy of the file goes, the winner's included.
DiscardEveryCopy(r) ==
  /\ At(r, "discard")
  /\ bytes' = bytes \ {request[r].key, media[request[r].file].key}
  /\ Ends(r)
  /\ UNCHANGED <<mediaRows, drawn, mediaHistory, lost, crashes>>

\* delete of the store: removing what is gone is success.
Erased(k) == bytes \ {k}

\* The copy that lost, or the catch: its bytes go.
UploadDiscard(r) ==
  /\ At(r, "discard")
  /\ bytes' = Erased(request[r].key)
  /\ Ends(r)
  /\ UNCHANGED <<mediaRows, drawn, mediaHistory, lost, crashes>>

-----------------------------------------------------------------------------
(* Messages that carry media.                                              *)

\* createMessageSend with a mediaId: live and not sent (UNIQUE (media_id) as well).
SendMedia ==
  /\ \E f \in Files :
       /\ media[f].state = "live"
       /\ carrier[f] = "none"
       /\ carrier' = [carrier EXCEPT ![f] = "sent"]
  /\ UNCHANGED <<media, purge, bytes, drawn, request, mediaHistory, lost, crashes>>

\* markMediaRemoved: the row stays without its key, which is handed back.
MarksRemoved(f) ==
  /\ media' = [media EXCEPT ![f] = [state |-> "removed", key |-> NoKey]]
  /\ purge' = [purge EXCEPT ![f] = media[f].key]

\* createMessageDelete: the key leaves the row and is kept in the answer of
\* the request, which the same transaction stores under its Idempotency-Key.
DeleteCarrier(r) ==
  /\ At(r, "idle")
  /\ \E f \in Files :
       /\ carrier[f] = "sent"
       /\ carrier' = [carrier EXCEPT ![f] = "deleted"]
       /\ MarksRemoved(f)
       /\ Goes(r, "purge", f, media[f].key)
  /\ UNCHANGED <<bytes, drawn, mediaHistory, lost, crashes>>

\* Mutant of DeleteAgain: the stored answer without the keys to purge.
DeleteAgainWithoutKeys(r) ==
  /\ At(r, "idle")
  /\ \E f \in Files \ confirmed :
       /\ carrier[f] = "deleted"
       /\ Goes(r, "purge", f, NoKey)
  /\ UNCHANGED <<mediaRows, bytes, drawn, mediaHistory, lost, crashes>>

\* The same deletion again under its Idempotency-Key: the stored answer, keys included.
DeleteAgain(r) ==
  /\ At(r, "idle")
  /\ \E f \in Files \ confirmed :
       /\ carrier[f] = "deleted"
       /\ Goes(r, "purge", f, purge[f])
  /\ UNCHANGED <<mediaRows, bytes, drawn, mediaHistory, lost, crashes>>

\* withChatHints: the bytes are deleted, and then the caller is answered.
PurgeAndAnswer(r) ==
  /\ At(r, "purge")
  /\ bytes' = Erased(request[r].key)
  /\ confirmed' = confirmed \cup {request[r].file}
  /\ Ends(r)
  /\ UNCHANGED <<mediaRows, drawn, held, unreadable, lost, crashes>>

-----------------------------------------------------------------------------
(* createMediaContent: leave is given in a transaction, the bytes are read after it.        *)

ContentGrant(r) ==
  /\ At(r, "idle")
  /\ \E f \in Files :
       /\ media[f].state = "live"
       /\ Goes(r, "read", f, media[f].key)
  /\ UNCHANGED <<mediaRows, bytes, drawn, mediaHistory, lost, crashes>>

ContentRead(r) ==
  /\ At(r, "read")
  /\ unreadable' = IF request[r].key \in bytes THEN unreadable
                   ELSE unreadable \cup {request[r].file}
  /\ Ends(r)
  /\ UNCHANGED <<mediaRows, bytes, drawn, held, confirmed, lost, crashes>>

\* The server stops, or the object store refuses, in the middle of a request.
RequestFails(r) ==
  /\ ~At(r, "idle")
  /\ crashes < MaxCrashes
  /\ crashes' = crashes + 1
  /\ Ends(r)
  /\ UNCHANGED <<mediaRows, bytes, drawn, mediaHistory, lost>>

MediaWork(r) ==
  \/ UploadLook(r) \/ UploadPut(r) \/ UploadInsert(r) \/ UploadRefused(r)
  \/ UploadCommitLost(r) \/ UploadDiscard(r)
  \/ DeleteCarrier(r) \/ DeleteAgain(r) \/ PurgeAndAnswer(r)
  \/ ContentGrant(r) \/ ContentRead(r)
  \/ RequestFails(r)

MediaNext == SendMedia \/ \E r \in Requests : MediaWork(r)

MediaSpec == MediaInit /\ [][MediaNext]_mediaVars

-----------------------------------------------------------------------------
(* Properties.                                                             *)

\* Every variable stays in the set of values its column or field can hold.
MediaTypeOK ==
  /\ media \in [Files -> [state : {"none", "live", "removed"}, key : Keys \cup {NoKey}]]
  /\ carrier \in [Files -> {"none", "sent", "deleted"}]
  /\ purge \in [Files -> Keys \cup {NoKey}]
  /\ bytes \subseteq Keys /\ drawn \subseteq Keys
  /\ request \in [Requests -> [step : {"idle", "put", "insert", "discard", "purge", "read"},
                               file : Files \cup {NoKey}, key : Keys \cup {NoKey}]]
  /\ held \in [Files -> Keys \cup {NoKey}]
  /\ confirmed \subseteq Files /\ unreadable \subseteq Files
  /\ lost \in 0..MaxLost /\ crashes \in 0..MaxCrashes

\* A media row that is live has its bytes: "bytes exist while the media is live".  However
\* uploads of one file race, none discards the bytes of another (createMediaUpload).
LiveMediaHasBytes == \A f \in Files : media[f].state = "live" => media[f].key \in bytes

\* The same where no commit was lost, and the content of a file is found missing only when it
\* was deleted meanwhile (createMediaContent).
MissingOnlyWhenDeleted ==
  lost = 0 => LiveMediaHasBytes /\ \A f \in unreadable : media[f].state = "removed"

\* Once the caller of a deletion is answered, at the first try or at a later one, no bytes of
\* the file are left; and bytes no row describes are those a request still has in hand, or
\* those a failure left (withChatHints, the stored answer of createMessageDelete).
NoBytesOutlive ==
  /\ \A f \in confirmed : held[f] \notin bytes
  /\ \A k \in bytes : \/ \E f \in Files : media[f].key = k
                      \/ \E r \in Requests : request[r].key = k
                      \/ crashes > 0
=============================================================================
