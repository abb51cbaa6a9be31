--------------------------- MODULE Notifications ---------------------------
(***************************************************************************)
(* The notification service.  An event becomes one notification and one    *)
(* delivery attempt per channel its recipient has enabled, in one          *)
(* transaction that also hands the notification to the channels' senders.  *)
(* Events come from the consumer, which repeats one whose processing it    *)
(* could not record, or from other services by the dispatch call.          *)
(***************************************************************************)
EXTENDS Integers, Sequences, FiniteSets

CONSTANTS
  Events,         \* events on the bus, and calls of dispatch
  Dispatched,     \* the events that come by dispatch, without dedupe
  RecipientOf,    \* the user an event's payload names, None if it names none
  Users, Channels,
  MaxRows,        \* bound on the notifications
  MaxFaults,      \* bound on failed transactions and on crashes
  None

VARIABLES
  prefs,          \* notification_preferences: "on", "off" or "unset"
  notifications,  \* committed rows with their delivery attempts
  delivered,      \* how often a sender took an event, by event and channel
  handling,       \* the transaction of each event
  processed,      \* processed_events
  faults

vars == <<prefs, notifications, delivered, handling, processed, faults>>

defaultChannel == "in_app"
Resting == [at |-> "rest"]

Init ==
  /\ prefs = [u \in Users |-> [ch \in Channels |-> "unset"]]
  /\ notifications = <<>>
  /\ delivered = [e \in Events |-> [ch \in Channels |-> 0]]
  /\ handling = [e \in Events |-> Resting]
  /\ processed = {}
  /\ faults = 0

Fault == faults < MaxFaults /\ faults' = faults + 1
Enabled(p, u) == {ch \in Channels : p[u][ch] = "on"}
InTx(e) == handling[e].at \in {"insert", "send"}

-----------------------------------------------------------------------------
recipient(e) == RecipientOf[e]
Begun(u) == [at |-> "insert", ever |-> Enabled(prefs, u), always |-> Enabled(prefs, u)]

(* An event that names nobody is skipped and counts as handled. *)
HandleRawEvent(e) ==
  /\ e \notin Dispatched \cup processed
  /\ handling[e].at = "rest"
  /\ Len(notifications) < MaxRows
  /\ handling' = [handling EXCEPT ![e] = IF recipient(e) = None THEN [at |-> "mark"] ELSE Begun(recipient(e))]
  /\ UNCHANGED <<prefs, notifications, delivered, processed, faults>>

(* The same by HTTP, as often as the caller likes. *)
dispatch(e) ==
  /\ e \in Dispatched /\ recipient(e) # None
  /\ handling[e].at = "rest"
  /\ Len(notifications) < MaxRows
  /\ handling' = [handling EXCEPT ![e] = Begun(recipient(e))]
  /\ UNCHANGED <<prefs, notifications, delivered, processed, faults>>

EnabledChannels(e) == Enabled(prefs, recipient(e))

ChannelsOf(e) == IF EnabledChannels(e) = {} THEN {defaultChannel} ELSE EnabledChannels(e)

(* The row is inserted and the channels are read. *)
HandleEvent(e) ==
  /\ handling[e].at = "insert"
  /\ handling' = [handling EXCEPT ![e] =
       [at |-> "send", ever |-> @.ever, always |-> @.always, todo |-> ChannelsOf(e), sent |-> {}, queued |-> {}]]
  /\ UNCHANGED <<prefs, notifications, delivered, processed, faults>>

(* Mutant: the sender's error is ignored. *)
MarkAlwaysSent(t, ch, ok) == [t EXCEPT !.todo = @ \ {ch}, !.sent = @ \cup {ch}]

(* An attempt is queued and handed to the sender, and marked when the sender
   took it. *)
MarkDeliveryStatus(t, ch, ok) ==
  IF ok THEN [t EXCEPT !.todo = @ \ {ch}, !.sent = @ \cup {ch}]
  ELSE [t EXCEPT !.todo = @ \ {ch}, !.queued = @ \cup {ch}]

Send(e, ch, ok) ==
  /\ handling[e].at = "send" /\ ch \in handling[e].todo
  /\ handling' = [handling EXCEPT ![e] = MarkDeliveryStatus(@, ch, ok)]
  /\ delivered' = IF ok THEN [delivered EXCEPT ![e][ch] = @ + 1] ELSE delivered
  /\ UNCHANGED <<prefs, notifications, processed, faults>>

InsertNotification(e) ==
  LET t == handling[e] IN
  Append(notifications, [event |-> e, user |-> recipient(e), read |-> FALSE, sent |-> t.sent,
                         queued |-> t.queued, ever |-> t.ever, always |-> t.always])

Commit(e) ==
  /\ handling[e].at = "send" /\ handling[e].todo = {}
  /\ notifications' = InsertNotification(e)
  /\ handling' = [handling EXCEPT ![e] = IF e \in Dispatched THEN Resting ELSE [at |-> "mark"]]
  /\ UNCHANGED <<prefs, delivered, processed, faults>>

(* The transaction fails at any point; what a sender took is out. *)
Rollback(e) ==
  /\ InTx(e)
  /\ Fault
  /\ handling' = [handling EXCEPT ![e] = Resting]
  /\ UNCHANGED <<prefs, notifications, delivered, processed>>

(* The consumer records the event. *)
MarkProcessed(e) ==
  /\ handling[e].at = "mark"
  /\ processed' = processed \cup {e}
  /\ handling' = [handling EXCEPT ![e] = Resting]
  /\ UNCHANGED <<prefs, notifications, delivered, faults>>

(* A crash before the record: the event comes again. *)
Repeat(e) ==
  /\ handling[e].at = "mark"
  /\ Fault
  /\ handling' = [handling EXCEPT ![e] = Resting]
  /\ UNCHANGED <<prefs, notifications, delivered, processed>>

-----------------------------------------------------------------------------
UpsertPreference(u, ch, enabled) == [prefs EXCEPT ![u][ch] = IF enabled THEN "on" ELSE "off"]

(* Transactions that are running keep which channels were on at some time
   and which all the time since they began. *)
SetPreference(u, ch, enabled) ==
  /\ prefs' = UpsertPreference(u, ch, enabled)
  /\ handling' = [e \in Events |->
       IF InTx(e) /\ recipient(e) = u
       THEN [handling[e] EXCEPT !.ever = @ \cup Enabled(prefs', u), !.always = @ \cap Enabled(prefs', u)]
       ELSE handling[e]]
  /\ UNCHANGED <<notifications, delivered, processed, faults>>

MarkRead(i, u) ==
  /\ i \in DOMAIN notifications
  /\ notifications[i].user = u /\ ~notifications[i].read
  /\ notifications' = [notifications EXCEPT ![i].read = TRUE]
  /\ UNCHANGED <<prefs, delivered, handling, processed, faults>>

MarkAllRead(u) ==
  /\ notifications' = [i \in DOMAIN notifications |->
       IF notifications[i].user = u THEN [notifications[i] EXCEPT !.read = TRUE] ELSE notifications[i]]
  /\ UNCHANGED <<prefs, delivered, handling, processed, faults>>

ListNotifications(u, unreadOnly) ==
  {i \in DOMAIN notifications : notifications[i].user = u /\ (unreadOnly => ~notifications[i].read)}

GetPreferences(u) == {ch \in Channels : prefs[u][ch] # "unset"}

Next ==
  \/ \E e \in Events : \/ HandleRawEvent(e) \/ dispatch(e) \/ HandleEvent(e) \/ Commit(e) \/ Rollback(e)
                        \/ \E ch \in Channels, ok \in BOOLEAN : Send(e, ch, ok)
                        \/ MarkProcessed(e) \/ Repeat(e)
  \/ \E u \in Users : \/ \E ch \in Channels, enabled \in BOOLEAN : SetPreference(u, ch, enabled)
                       \/ \E i \in 1..MaxRows : MarkRead(i, u)
                       \/ MarkAllRead(u)

Spec == Init /\ [][Next]_vars

-----------------------------------------------------------------------------
(* Preferences may change while an event is handled, senders fail, and
   transactions are rolled back after a sender took the notification.  Each
   notification a user can list was attempted on every channel that was on
   all the time, on no channel that was off all the time, except in-app when
   it is the only one; an attempt marked sent was really taken by the sender,
   once per row; and without a fault an event of the bus gives one
   notification. *)
AttemptsHonest ==
  /\ \A u \in Users : \A i \in ListNotifications(u, FALSE) :
       LET n == notifications[i]  tried == n.sent \cup n.queued IN
       /\ n.always \subseteq tried
       /\ tried \subseteq n.ever \/ (tried = {defaultChannel} /\ n.always = {})
       /\ tried # {} /\ n.sent \cap n.queued = {}
  /\ \A e \in Events, ch \in Channels :
       Cardinality({i \in DOMAIN notifications : notifications[i].event = e /\ ch \in notifications[i].sent})
         <= delivered[e][ch]
  /\ faults = 0 => \A i, j \in DOMAIN notifications :
       notifications[i].event = notifications[j].event => i = j \/ notifications[i].event \in Dispatched

(* A sender takes an event at most once.  Refuted: Send is called inside the
   transaction and again when that is repeated. *)
SentOnce == \A e \in Events, ch \in Channels : delivered[e][ch] <= 1
=============================================================================
