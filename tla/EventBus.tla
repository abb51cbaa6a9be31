------------------------------ MODULE EventBus ------------------------------
(***************************************************************************)
(* Domain events from a service's transaction to a consumer's effect: rows *)
(* of the outbox table written with the state change, relay replicas that  *)
(* publish them, one Kafka partition, and the replicas of one consumer     *)
(* group with the processed_events table.  Failures (errors, crashes,      *)
(* restarts, rebalances) strike anywhere, MaxFaults times.                 *)
(***************************************************************************)
EXTENDS Integers, FiniteSets, Sequences

CONSTANTS
  Events,       \* domain events of one database with keys of one partition
  Relays,       \* relay replicas of the database
  Batch,        \* RELAY_BATCH
  Consumers,    \* replicas of the consumer group
  MaxRetries,   \* attempts at a message
  HasDLQ,       \* whether the consumer was built WithDLQ
  ClaimsInTx,   \* whether the handler claims the event in its transaction
  MaxFaults     \* how many failures happen

ASSUME EventBusAssumption ==
  /\ IsFiniteSet(Events)
  /\ Batch \in Nat \ {0} /\ MaxRetries \in Nat \ {0} /\ MaxFaults \in Nat
  /\ HasDLQ \in BOOLEAN /\ ClaimsInTx \in BOOLEAN

VARIABLES
  txn,         \* the producing transaction of each event
  rowId,       \* outbox.id, drawn when the row is inserted
  lastId,      \* the IDENTITY sequence, which no rollback undoes
  earlier,     \* history: events committed when each row was inserted
  published,   \* rows with published_at, committed
  batch,       \* rows each relay's open drain has locked
  sent,        \* rows of the batch already published and updated
  log,         \* the partition
  committed,   \* the group's committed offset
  owner,       \* the replica the partition is assigned to
  position,    \* offset up to which the owner's reader has fetched
  pc, cur,     \* each replica's step and the offset of its message
  attempt,     \* attempts made at that message
  processed,   \* processed_events
  counted,     \* committed effects of each event
  dead,        \* events published to the dlq topic
  gaveUp,      \* history: events some replica left without an effect
  faults       \* failures so far

producer == <<txn, rowId, lastId, earlier>>
relay    == <<published, batch, sent>>
reader   == <<committed, owner, position>>
replica  == <<pc, cur, attempt>>
effects  == <<processed, counted, dead, gaveUp>>
vars == <<producer, relay, log, reader, replica, effects, faults>>

Init ==
  /\ txn = [e \in Events |-> "none"]
  /\ rowId = [e \in Events |-> 0]
  /\ lastId = 0
  /\ earlier = [e \in Events |-> {}]
  /\ published = {}
  /\ batch = [r \in Relays |-> {}]
  /\ sent = [r \in Relays |-> {}]
  /\ log = << >>
  /\ committed = 0
  /\ owner \in Consumers
  /\ position = 0
  /\ pc = [c \in Consumers |-> "fetch"]
  /\ cur = [c \in Consumers |-> 0]
  /\ attempt = [c \in Consumers |-> 0]
  /\ processed = {}
  /\ counted = [e \in Events |-> 0]
  /\ dead = {}
  /\ gaveUp = {}
  /\ faults = 0

Fault == faults < MaxFaults /\ faults' = faults + 1

-----------------------------------------------------------------------------
(* Producers. *)

(* The INSERT into outbox, in the caller's transaction.  Any number of
   transactions may be open, also on one aggregate: most producers hold no
   lock on it. *)
Enqueue(e) ==
  /\ txn[e] = "none"
  /\ txn' = [txn EXCEPT ![e] = "open"]
  /\ lastId' = lastId + 1
  /\ rowId' = [rowId EXCEPT ![e] = lastId']
  /\ earlier' = [earlier EXCEPT ![e] = {f \in Events : txn[f] = "committed"}]
  /\ UNCHANGED <<relay, log, reader, replica, effects, faults>>

EndTx(e, outcome) ==
  /\ txn[e] = "open"
  /\ txn' = [txn EXCEPT ![e] = outcome]
  /\ UNCHANGED <<rowId, lastId, earlier, relay, log, reader, replica, effects, faults>>

-----------------------------------------------------------------------------
(* The relay's drain, in one transaction. *)

(* Mutant: no SKIP LOCKED, and no wait either. *)
CandidatesLocked ==
  {e \in Events : txn[e] = "committed" /\ e \notin published}

(* WHERE published_at IS NULL ... FOR UPDATE SKIP LOCKED: committed rows that
   no other drain has locked. *)
Candidates ==
  {e \in Events : /\ txn[e] = "committed" /\ e \notin published
                  /\ \A r \in Relays : e \notin batch[r]}

(* ORDER BY id LIMIT batch. *)
FirstBatch(rows) ==
  {e \in rows : Cardinality({f \in rows : rowId[f] < rowId[e]}) < Batch}

SelectBatch(r) ==
  /\ batch[r] = {}
  /\ Candidates # {}
  /\ batch' = [batch EXCEPT ![r] = FirstBatch(Candidates)]
  /\ UNCHANGED <<producer, published, sent, log, reader, replica, effects,
                 faults>>

(* Mutant: no ORDER BY. *)
AnyRow(r, e) == e \in batch[r] \ sent[r]

(* Rows go out in the order of the query. *)
NextRow(r, e) ==
  /\ e \in batch[r] \ sent[r]
  /\ \A f \in batch[r] \ sent[r] : rowId[e] <= rowId[f]

(* Publish waits for the broker's acknowledgement, then the row is updated.
   A publish that fails after the broker stored the message is this step
   followed by DrainFails. *)
Publish(r, e) ==
  /\ NextRow(r, e)
  /\ log' = Append(log, e)
  /\ sent' = [sent EXCEPT ![r] = @ \cup {e}]
  /\ UNCHANGED <<producer, published, batch, reader, replica, effects, faults>>

CommitDrain(r) ==
  /\ batch[r] # {} /\ sent[r] = batch[r]
  /\ published' = published \cup sent[r]
  /\ batch' = [batch EXCEPT ![r] = {}]
  /\ sent' = [sent EXCEPT ![r] = {}]
  /\ UNCHANGED <<producer, log, reader, replica, effects, faults>>

(* Mutant: a failed drain keeps its marks. *)
DrainFailsMarking(r) ==
  /\ batch[r] # {}
  /\ sent' = [sent EXCEPT ![r] = batch[r]]
  /\ Fault
  /\ UNCHANGED <<producer, published, batch, log, reader, replica, effects>>

(* An error or a crash rolls the drain back; what was published stays in the
   log and its rows are selected again at a later tick. *)
DrainFails(r) ==
  /\ batch[r] # {}
  /\ Fault
  /\ batch' = [batch EXCEPT ![r] = {}]
  /\ sent' = [sent EXCEPT ![r] = {}]
  /\ UNCHANGED <<producer, published, log, reader, replica, effects>>

drain(r) ==
  \/ SelectBatch(r) \/ CommitDrain(r)
  \/ \E e \in Events : Publish(r, e)

-----------------------------------------------------------------------------
(* The consumer's Run loop and process. *)

Message(c) == log[cur[c]]

Goto(c, l) == pc' = [pc EXCEPT ![c] = l]

(* FetchMessage and AlreadyProcessed.  The check may fail, and is then taken
   as "not processed". *)
FetchMessage(c) ==
  /\ pc[c] = "fetch" /\ owner = c /\ position < Len(log)
  /\ position' = position + 1
  /\ cur' = [cur EXCEPT ![c] = position + 1]
  /\ attempt' = [attempt EXCEPT ![c] = 1]
  /\ UNCHANGED <<producer, relay, log, committed, owner>>

(* Mutant: the check marks the event before its handler ran. *)
AlreadyProcessedMarking(c) ==
  /\ FetchMessage(c)
  /\ processed' = processed \cup {log[position + 1]}
  /\ Goto(c, IF log[position + 1] \in processed THEN "commit" ELSE "handle")
  /\ UNCHANGED <<counted, dead, gaveUp, faults>>

AlreadyProcessed(c) ==
  /\ FetchMessage(c)
  /\ Goto(c, IF log[position + 1] \in processed THEN "commit" ELSE "handle")
  /\ UNCHANGED <<effects, faults>>

CheckFails(c) ==
  /\ FetchMessage(c)
  /\ Goto(c, "handle")
  /\ Fault
  /\ UNCHANGED effects

(* Mutant: the claim is not tested. *)
ClaimAlways(e) == TRUE

(* The handler's transaction.  Analytics claims the event in it, and the
   insert waits for any other transaction that claims the same event. *)
Claimed(e) == ClaimsInTx => e \notin processed

Handle(e) ==
  /\ counted' = [counted EXCEPT ![e] = IF Claimed(e) THEN @ + 1 ELSE @]
  /\ processed' = IF ClaimsInTx THEN processed \cup {e} ELSE processed

HandlerSucceeds(c) ==
  /\ pc[c] = "handle"
  /\ Handle(Message(c))
  /\ Goto(c, "mark")
  /\ UNCHANGED <<producer, relay, log, reader, cur, attempt, dead, gaveUp, faults>>

(* The handler reports an error, before its transaction had an effect or
   after a commit whose answer was lost.  After MaxRetries the message goes
   to the dlq or is left uncommitted. *)
HandlerFails(c) ==
  /\ pc[c] = "handle"
  /\ Fault
  /\ Handle(Message(c)) \/ UNCHANGED <<counted, processed>>
  /\ IF attempt[c] < MaxRetries
     THEN /\ attempt' = [attempt EXCEPT ![c] = @ + 1]
          /\ UNCHANGED <<pc, gaveUp>>
     ELSE /\ Goto(c, IF HasDLQ THEN "dlq" ELSE "fetch")
          /\ gaveUp' = IF HasDLQ THEN gaveUp ELSE gaveUp \cup {Message(c)}
          /\ UNCHANGED attempt
  /\ UNCHANGED <<producer, relay, log, reader, cur, dead>>

toDLQ(c) ==
  /\ pc[c] = "dlq"
  /\ dead' = dead \cup {Message(c)}
  /\ Goto(c, "mark")
  /\ UNCHANGED <<producer, relay, log, reader, cur, attempt, processed, counted,
                 gaveUp, faults>>

toDLQFails(c) ==
  /\ pc[c] = "dlq"
  /\ Fault
  /\ gaveUp' = gaveUp \cup {Message(c)}
  /\ Goto(c, "fetch")
  /\ UNCHANGED <<producer, relay, log, reader, cur, attempt, processed, counted,
                 dead>>

(* MarkProcessed, whose error is ignored. *)
MarkProcessed(c) ==
  /\ pc[c] = "mark"
  /\ \/ processed' = processed \cup {Message(c)} /\ UNCHANGED faults
     \/ Fault /\ UNCHANGED processed
  /\ Goto(c, "commit")
  /\ UNCHANGED <<producer, relay, log, reader, cur, attempt, counted, dead, gaveUp>>

(* A replica that lost the partition may still have its commit accepted, also
   one that takes the group's offset back. *)
CommitMessages(c) ==
  /\ pc[c] = "commit"
  /\ committed' = cur[c]
  /\ Goto(c, "fetch")
  /\ UNCHANGED <<producer, relay, log, owner, position, cur, attempt, effects,
                 faults>>

(* The commit is refused, Run returns its error, or the process dies: the
   replica starts again, its reader at the committed offset. *)
Restart(c) ==
  /\ Fault
  /\ Goto(c, "fetch")
  /\ position' = IF owner = c THEN committed ELSE position
  /\ UNCHANGED <<producer, relay, log, committed, owner, cur, attempt, effects>>

(* The group moves the partition; a message in hand is not interrupted. *)
Rebalance(c) ==
  /\ owner # c
  /\ Fault
  /\ owner' = c
  /\ position' = committed
  /\ UNCHANGED <<producer, relay, log, committed, replica, effects>>

process(c) ==
  \/ AlreadyProcessed(c) \/ HandlerSucceeds(c) \/ toDLQ(c)
  \/ MarkProcessed(c) \/ CommitMessages(c)

-----------------------------------------------------------------------------
Next ==
  \/ \E e \in Events :
       Enqueue(e) \/ EndTx(e, "committed") \/ EndTx(e, "aborted")
  \/ \E r \in Relays : drain(r) \/ DrainFails(r)
  \/ \E c \in Consumers :
       \/ process(c) \/ CheckFails(c) \/ HandlerFails(c) \/ toDLQFails(c)
       \/ Restart(c) \/ Rebalance(c)

(* The relay's ticker and the consumer's loop never stop for good. *)
Fairness ==
  /\ \A r \in Relays : WF_vars(drain(r))
  /\ \A c \in Consumers : WF_vars(process(c))

Spec == Init /\ [][Next]_vars /\ Fairness

-----------------------------------------------------------------------------
(* Properties. *)

(* Type correctness of the tables, the partition and the replicas. *)
TypeOK ==
  /\ txn \in [Events -> {"none", "open", "committed", "aborted"}]
  /\ rowId \in [Events -> 0 .. lastId] /\ lastId \in Nat
  /\ earlier \in [Events -> SUBSET Events]
  /\ published \subseteq Events
  /\ batch \in [Relays -> SUBSET Events]
  /\ sent \in [Relays -> SUBSET Events]
  /\ log \in Seq(Events)
  /\ committed \in 0 .. Len(log)
  /\ owner \in Consumers
  /\ position \in 0 .. Len(log)
  /\ pc \in [Consumers -> {"fetch", "handle", "dlq", "mark", "commit"}]
  /\ cur \in [Consumers -> 0 .. Len(log)]
  /\ attempt \in [Consumers -> 0 .. MaxRetries]
  /\ processed \subseteq Events
  /\ counted \in [Events -> Nat]
  /\ dead \subseteq Events
  /\ gaveUp \subseteq Events
  /\ faults \in 0 .. MaxFaults

(* No event of a transaction that is still open, or was rolled back, reaches
   the bus: consumers never react to what did not happen. *)
OnlyCommittedPublished ==
  \A o \in 1 .. Len(log) : txn[log[o]] = "committed"

(* A row the relay no longer selects is in the partition, whatever failed in
   between: marking a row published never loses its event. *)
PublishedIsLogged ==
  \A e \in published : \E o \in 1 .. Len(log) : log[o] = e

(* Relay replicas share the rows without publishing one twice: an event is in
   the partition again only because a drain that had sent it failed. *)
RepeatedOnlyAfterFault ==
  \A e \in Events : Cardinality({o \in 1 .. Len(log) : log[o] = e}) <= 1 + faults

Follows(f, e) ==
  \A o \in 1 .. Len(log) : log[o] = f => \E p \in 1 .. o - 1 : log[p] = e

(* With one relay replica, an event whose transaction had committed when
   another's row was inserted comes first in the partition, whatever commits
   in between, however the rows fall into batches and also when drains fail
   and publish again.  Producers that serialise on a row lock (escrow, contract
   status) thereby have their events in order. *)
CommittedOrder ==
  \A f \in Events : \A e \in earlier[f] : Follows(f, e)

(* What the relay's comment promises consumers of one relay replica:
   events of one key in the order of their outbox ids. *)
IdOrder ==
  \A e, f \in Events :
    txn[e] = "committed" /\ rowId[e] < rowId[f] => Follows(f, e)

(* Duplicates on the bus, replicas that handle the same message, retries
   after a lost commit answer: an event whose handler claims it in its
   transaction has at most one effect. *)
EffectOnce ==
  \A e \in Events : counted[e] <= 1

Handled(e) == counted[e] > 0 \/ e \in dead

(* The group's offset passes a message only once it has had its effect, was
   dead-lettered, or was given up on after MaxRetries failures: neither the
   dedupe table nor a rebalance skips a message nobody handled. *)
PassedIsSettled ==
  \A o \in 1 .. committed : Handled(log[o]) \/ log[o] \in gaveUp

(* A message that keeps failing is left uncommitted, to be delivered again. *)
PassedIsHandled ==
  \A o \in 1 .. committed : Handled(log[o])

(* Every committed event is published and settled in the end. *)
Delivered ==
  \A e \in Events :
    txn[e] = "committed" ~> Handled(e) \/ e \in gaveUp
=============================================================================
