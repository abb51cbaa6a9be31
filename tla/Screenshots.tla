---------------------------- MODULE Screenshots ----------------------------
(***************************************************************************)
(* The screenshot service and the desktop tracker's upload loop.  For each *)
(* captured time slice the tracker asks for an upload slot, puts the       *)
(* ciphertext into the object store and confirms; any call may fail, or    *)
(* time out while the server still executes it, and the loop then starts   *)
(* the screenshot over.                                                    *)
(***************************************************************************)
EXTENDS Integers, FiniteSets

CONSTANTS
  Slices,       \* captures, each with the time slice it belongs to
  ClientDEK,    \* those that were encrypted on the device before upload
  Keys,         \* object keys; a request draws an unused one
  Late,         \* bound: calls the server still executes after a timeout
  MaxFaults,    \* bound on calls that fail or time out
  MaxViews,     \* bound on the views of a screenshot
  PartyUsers, Auditors, Strangers,   \* who asks to see the contract's screenshots
  None

VARIABLES
  queue,      \* pending_screenshots.upload_state on the device, "gone" once deleted
  dev,        \* what the upload loop is doing
  calls,      \* the device's current call, and late ones
  rows,       \* screenshots with their metadata
  objects,    \* the key each object was encrypted with
  ingested,   \* screenshot.ingested events of each slice
  faults

vars == <<queue, dev, calls, rows, objects, ingested, faults>>

Resting == [at |-> "rest", slice |-> None, reply |-> None]
Slots == {"live"} \cup Late

Init ==
  /\ queue = [s \in Slices |-> "queued"]
  /\ dev = Resting
  /\ calls = [c \in Slots |-> None]
  /\ rows = {}
  /\ objects = [k \in Keys |-> None]
  /\ ingested = [s \in Slices |-> 0]
  /\ faults = 0

-----------------------------------------------------------------------------
(* Service *)

RowsOf(s) == {r \in rows : r.slice = s}

(* randomKeySuffix: no row and no request in flight has it. *)
Unused(k) == (\A r \in rows : r.key # k) /\ \A c \in Slots : calls[c] # None => calls[c].key # k

(* Mutant: the device's key is ignored and one is minted for every request. *)
DEKMinted(s, key) == <<"minted", key>>

(* The DEK whose wrapping is stored, and a minted one, which goes back in
   plaintext. *)
DEKOf(s, key) == IF s \in ClientDEK THEN <<"client", s>> ELSE <<"minted", key>>

(* The answer reaches the device only if it still waits for it. *)
AnswerCall(c, reply) ==
  /\ calls' = [calls EXCEPT ![c] = None]
  /\ dev' = IF c = "live" THEN [dev EXCEPT !.reply = reply] ELSE dev

SlotAnswer(row, key) == [ok |-> TRUE, id |-> row.key, dek |-> DEKOf(row.slice, key)]

(* The row of the slice is looked for; the presigned URL is for its key. *)
CreateSlotLookup(c) ==
  /\ calls[c] # None /\ calls[c].at = "slot"
  /\ IF RowsOf(calls[c].slice) # {}
     THEN \E row \in RowsOf(calls[c].slice) : AnswerCall(c, SlotAnswer(row, calls[c].key))
     ELSE calls' = [calls EXCEPT ![c].at = "insert"] /\ UNCHANGED dev
  /\ UNCHANGED <<queue, rows, objects, ingested, faults>>

NewSlot(s, key) ==
  [slice |-> s, key |-> key, status |-> "pending_upload", dek |-> DEKOf(s, key), nonce |-> None, views |-> 0]

(* Mutant: no unique index on the slice. *)
NoUniqueSlice(s) == TRUE

(* The unique index on the slice refuses the second of two inserts. *)
UniqueSlice(s) == RowsOf(s) = {}

CreateSlotInsert(c) ==
  LET row == NewSlot(calls[c].slice, calls[c].key) IN
  /\ calls[c] # None /\ calls[c].at = "insert"
  /\ IF UniqueSlice(row.slice)
     THEN rows' = rows \cup {row} /\ AnswerCall(c, SlotAnswer(row, row.key))
     ELSE UNCHANGED rows /\ AnswerCall(c, [ok |-> FALSE])
  /\ UNCHANGED <<queue, objects, ingested, faults>>

(* What the device signs and what the service signs it against: the nonce
   and hash of the request, and the capture recorded with the slot. *)
confirmSignedMessage(nonce, slice) == <<nonce, slice>>

ConfirmUpload(c) ==
  LET call == calls[c]
      found == {r \in rows : r.key = call.id /\ r.status = "pending_upload"
                  /\ call.signature = confirmSignedMessage(call.nonce, r.slice)} IN
  /\ call # None /\ call.at = "confirm"
  /\ IF found = {} THEN AnswerCall(c, [ok |-> FALSE]) /\ UNCHANGED <<rows, ingested>>
     ELSE \E row \in found :
            /\ rows' = (rows \ {row}) \cup {[row EXCEPT !.status = "stored", !.nonce = call.nonce]}
            /\ ingested' = [ingested EXCEPT ![row.slice] = @ + 1]
            /\ AnswerCall(c, [ok |-> TRUE])
  /\ UNCHANGED <<queue, objects, faults>>

IsContractParty(u) == u \in PartyUsers
MayView(u) == u \in Auditors \/ IsContractParty(u)

ListByContract(u) == IF MayView(u) THEN {r \in rows : r.status = "stored"} ELSE {}

GetForView(r) == [object |-> objects[r.key], dek |-> r.dek, nonce |-> r.nonce]

RecordView(r) == (rows \ {r}) \cup {[r EXCEPT !.views = @ + 1]}

GetScreenshot(u, r) ==
  /\ MayView(u)
  /\ r.views < MaxViews
  /\ rows' = RecordView(r)
  /\ UNCHANGED <<queue, dev, calls, objects, ingested, faults>>

-----------------------------------------------------------------------------
(* Tracker *)

(* process_screenshot begins: whatever the row's state, a slot is asked for. *)
RequestUploadSlot(s) ==
  /\ dev = Resting /\ queue[s] # "gone"
  /\ \E k \in Keys :
       /\ Unused(k)
       /\ calls' = [calls EXCEPT !["live"] = [at |-> "slot", slice |-> s, key |-> k]]
  /\ dev' = [at |-> "slot", slice |-> s, reply |-> None]
  /\ UNCHANGED <<queue, rows, objects, ingested, faults>>

Answered(at) == dev.at = at /\ dev.reply # None /\ dev.reply.ok

SetSlot ==
  /\ Answered("slot")
  /\ queue' = [queue EXCEPT ![dev.slice] = IF @ = "queued" THEN "slotted" ELSE @]
  /\ dev' = [dev EXCEPT !.at = "put"]
  /\ UNCHANGED <<calls, rows, objects, ingested, faults>>

(* The PUT to the presigned URL, then the call to confirm. *)
PutBlob ==
  LET s == dev.slice IN
  /\ dev.at = "put"
  /\ objects' = [objects EXCEPT ![dev.reply.id] = dev.reply.dek]
  /\ queue' = [queue EXCEPT ![s] = "uploaded"]
  /\ calls' = [calls EXCEPT !["live"] = [at |-> "confirm", id |-> dev.reply.id, key |-> None,
                 nonce |-> s, signature |-> confirmSignedMessage(s, s)]]
  /\ dev' = [at |-> "confirm", slice |-> s, reply |-> None]
  /\ UNCHANGED <<rows, ingested, faults>>

DeleteScreenshot ==
  /\ Answered("confirm")
  /\ queue' = [queue EXCEPT ![dev.slice] = "gone"]
  /\ dev' = Resting
  /\ UNCHANGED <<calls, rows, objects, ingested, faults>>

(* An error answer leaves the row as it is until it is due again. *)
Backoff ==
  /\ dev.reply # None /\ ~dev.reply.ok
  /\ dev' = Resting
  /\ UNCHANGED <<queue, calls, rows, objects, ingested, faults>>

(* A call times out: the server never got it, still executes it, or did and
   the answer is lost.  A PUT that fails may have been stored. *)
Fail ==
  /\ dev.at # "rest" /\ faults < MaxFaults
  /\ faults' = faults + 1
  /\ dev' = Resting
  /\ \/ calls' = [calls EXCEPT !["live"] = None] /\ UNCHANGED objects
     \/ /\ calls["live"] # None
        /\ \E c \in Late : calls[c] = None
             /\ calls' = [calls EXCEPT ![c] = calls["live"], !["live"] = None]
        /\ UNCHANGED objects
     \/ /\ dev.at = "put"
        /\ objects' = [objects EXCEPT ![dev.reply.id] = dev.reply.dek]
        /\ UNCHANGED calls
  /\ UNCHANGED <<queue, rows, ingested>>

Serve(c) == CreateSlotLookup(c) \/ CreateSlotInsert(c) \/ ConfirmUpload(c)
Upload == (\E s \in Slices : RequestUploadSlot(s)) \/ SetSlot \/ PutBlob \/ DeleteScreenshot \/ Backoff

Next ==
  \/ \E c \in Slots : Serve(c)
  \/ \E u \in PartyUsers \cup Auditors \cup Strangers : \E r \in rows : GetScreenshot(u, r)
  \/ Upload
  \/ Fail

(* The upload loop runs for ever and a server executes what it received. *)
Fairness ==
  /\ WF_vars(Upload)
  /\ \A s \in Slices : SF_vars(RequestUploadSlot(s))
  /\ \A c \in Slots : WF_vars(Serve(c))

Spec == Init /\ [][Next]_vars
FairSpec == Spec /\ Fairness

-----------------------------------------------------------------------------
(* A slice has at most one screenshot and is announced for billing and fraud
   checks exactly once, when that is stored, however often slots and
   confirms are retried or executed late; and a screenshot the device has
   deleted is stored. *)
IngestedOnce ==
  \A s \in Slices :
    /\ Cardinality(RowsOf(s)) <= 1
    /\ ingested[s] = Cardinality({r \in RowsOf(s) : r.status = "stored"})
    /\ queue[s] = "gone" => ingested[s] = 1

(* Whoever may look through a contract's screenshots can decrypt each one:
   the object under the row's key was encrypted with the key whose wrapping
   is in the row. *)
StoredReadable ==
  \A u \in PartyUsers \cup Auditors \cup Strangers : \A r \in ListByContract(u) :
    GetForView(r).object = GetForView(r).dek /\ r.nonce = r.slice

(* Uploads are resumable: every captured screenshot is confirmed in the end
   and leaves the device.  Refuted: a confirm whose answer was lost is refused
   when it is repeated, and the row stays in the queue. *)
Resumable == \A s \in Slices : <>(queue[s] = "gone")
=============================================================================
