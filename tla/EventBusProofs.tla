--------------------------- MODULE EventBusProofs ---------------------------
(***************************************************************************)
(* Proofs about the event bus, for any number of events, replicas and      *)
(* failures.  The inductive invariant has three parts: what the relay has  *)
(* sent is committed and in the partition (Outbox), what the group's       *)
(* readers have passed is settled (Group), and an effect is recorded with  *)
(* its claim (Claims).  The order of the partition needs a fourth (Order), *)
(* which holds for a single relay replica, and the bound on repeats a      *)
(* fifth (Repeats), which holds for any number.                            *)
(***************************************************************************)
EXTENDS EventBus, FiniteSetTheorems, TLAPS

Logged(e) == \E o \in 1 .. Len(log) : log[o] = e

(* Rows in a drain are committed, and those it sent are in the partition. *)
RowsCommitted ==
  \A r \in Relays : sent[r] \subseteq batch[r] /\ \A e \in batch[r] : txn[e] = "committed"

SentIsLogged == \A r \in Relays : \A e \in sent[r] : Logged(e)

Outbox ==
  RowsCommitted /\ SentIsLogged /\ OnlyCommittedPublished /\ PublishedIsLogged

(* An effect whose handler claims the event left its claim behind. *)
Claims ==
  ClaimsInTx => \A e \in Events : counted[e] <= 1 /\ (counted[e] = 1 => e \in processed)

Settled(o) == Handled(log[o]) \/ log[o] \in gaveUp

ProcessedIsHandled == \A e \in processed : Handled(e)

(* The owner's reader is ahead of what is settled by the message it holds. *)
ReadIsSettled ==
  \A o \in 1 .. position :
    Settled(o) \/ (o = cur[owner] /\ pc[owner] \in {"handle", "dlq"})

(* A replica holds a real message, everything before it is settled, and it
   marks and commits only a message that was handled. *)
InHandIsSettled ==
  \A c \in Consumers : pc[c] # "fetch" =>
    /\ cur[c] \in 1 .. Len(log)
    /\ \A o \in 1 .. cur[c] - 1 : Settled(o)
    /\ pc[c] \in {"mark", "commit"} => Handled(Message(c))

Group ==
  ProcessedIsHandled /\ ReadIsSettled /\ InHandIsSettled /\ PassedIsSettled

IInv == TypeOK /\ Outbox /\ Claims /\ Group

-----------------------------------------------------------------------------
(* What was committed when a row was inserted has a lower id, and stays
   committed. *)
EarlierIds ==
  \A f \in Events : \A e \in earlier[f] :
    txn[e] = "committed" /\ txn[f] # "none" /\ rowId[e] < rowId[f]

(* A drain that holds a row holds the rows that were committed before it, or
   they are in the partition. *)
BatchesComplete ==
  \A r \in Relays : \A f \in batch[r] : \A e \in earlier[f] :
    e \in batch[r] \/ Logged(e)

Order == EarlierIds /\ BatchesComplete /\ CommittedOrder

-----------------------------------------------------------------------------
(* Appending to the partition keeps what it held. *)
LEMMA AppendKeeps ==
  ASSUME NEW s \in Seq(Events), NEW e \in Events
  PROVE  /\ Append(s, e) \in Seq(Events)
         /\ Len(s) \in Nat
         /\ Len(Append(s, e)) = Len(s) + 1
         /\ \A o \in 1 .. Len(s) : Append(s, e)[o] = s[o]
         /\ Append(s, e)[Len(s) + 1] = e
  OBVIOUS

(* What the consumers' steps leave to producers and relays. *)
BusUnchanged == UNCHANGED <<producer, relay, log>>

ConsumerStep(c) ==
  \/ process(c) \/ CheckFails(c) \/ HandlerFails(c) \/ toDLQFails(c)
  \/ Restart(c) \/ Rebalance(c)

(* Consumers touch neither the outbox, the relays nor the partition. *)
LEMMA ConsumerFrame ==
  ASSUME NEW c \in Consumers, ConsumerStep(c)
  PROVE  BusUnchanged
  BY DEF ConsumerStep, process, AlreadyProcessed, FetchMessage, HandlerSucceeds,
         toDLQ, MarkProcessed, CommitMessages, CheckFails, HandlerFails,
         toDLQFails, Restart, Rebalance, BusUnchanged, producer, relay

ProducerStep(e) == Enqueue(e) \/ EndTx(e, "committed") \/ EndTx(e, "aborted")
RelayStep(r) == drain(r) \/ DrainFails(r)

(* Every step is a producer's, a relay's or a consumer's. *)
LEMMA NextSplit ==
  ASSUME Next
  PROVE  \/ \E e \in Events : ProducerStep(e)
         \/ \E r \in Relays : RelayStep(r)
         \/ \E c \in Consumers : ConsumerStep(c)
  BY DEF Next, ProducerStep, RelayStep, ConsumerStep

-----------------------------------------------------------------------------
(* A fault stays within its bound. *)
LEMMA FaultType ==
  ASSUME TypeOK, Fault
  PROVE  faults' \in 0 .. MaxFaults
  BY EventBusAssumption DEF TypeOK, Fault

(* Enqueue and the end of its transaction keep the types. *)
LEMMA ProducerType ==
  ASSUME TypeOK, NEW e \in Events, ProducerStep(e)
  PROVE  TypeOK'
<1>1. CASE Enqueue(e)
  BY <1>1 DEF TypeOK, Enqueue, relay, reader, replica, effects
<1>2. ASSUME NEW x \in {"committed", "aborted"}, EndTx(e, x) PROVE TypeOK'
  BY <1>2 DEF TypeOK, EndTx, relay, reader, replica, effects
<1> QED  BY <1>1, <1>2 DEF ProducerStep

(* A drain, also one that fails, keeps the types. *)
LEMMA RelayType ==
  ASSUME TypeOK, NEW r \in Relays, RelayStep(r)
  PROVE  TypeOK'
<1>1. CASE SelectBatch(r)
  BY <1>1 DEF TypeOK, SelectBatch, FirstBatch, Candidates, producer, reader,
              replica, effects
<1>2. CASE CommitDrain(r)
  BY <1>2 DEF TypeOK, CommitDrain, producer, reader, replica, effects
<1>3. ASSUME NEW e \in Events, Publish(r, e) PROVE TypeOK'
  <2>1. log' \in Seq(Events) /\ Len(log') = Len(log) + 1 /\ Len(log) \in Nat
    BY <1>3, AppendKeeps DEF TypeOK, Publish
  <2> QED
    BY <1>3, <2>1 DEF TypeOK, Publish, producer, reader, replica, effects
<1>4. CASE DrainFails(r)
  BY <1>4, FaultType DEF TypeOK, DrainFails, producer, reader, replica, effects
<1> QED  BY <1>1, <1>2, <1>3, <1>4 DEF RelayStep, drain

(* The event of a message in hand. *)
LEMMA MessageType ==
  ASSUME TypeOK, InHandIsSettled, NEW c \in Consumers, pc[c] # "fetch"
  PROVE  Message(c) \in Events
  BY DEF TypeOK, InHandIsSettled, Message

(* A handler's transaction keeps the types of its tables. *)
LEMMA HandleType ==
  ASSUME TypeOK, NEW e \in Events, Handle(e)
  PROVE  counted' \in [Events -> Nat] /\ processed' \subseteq Events
  BY DEF TypeOK, Handle

(* A fetch keeps the reader within the partition. *)
LEMMA FetchType ==
  ASSUME TypeOK, NEW c \in Consumers, FetchMessage(c)
  PROVE  /\ position' \in 0 .. Len(log) /\ cur' \in [Consumers -> 0 .. Len(log)]
         /\ attempt' \in [Consumers -> 0 .. MaxRetries]
  BY EventBusAssumption DEF TypeOK, FetchMessage

(* The consumer's loop, restarts and rebalances keep the types. *)
LEMMA ConsumerType ==
  ASSUME TypeOK, InHandIsSettled, NEW c \in Consumers, ConsumerStep(c)
  PROVE  TypeOK'
<1> USE EventBusAssumption
<1>0. BusUnchanged  BY ConsumerFrame
<1>1. CASE AlreadyProcessed(c)
  <2>1. /\ FetchMessage(c) /\ UNCHANGED <<effects, faults, committed, owner>>
        /\ pc' = [pc EXCEPT ![c] = IF log[position + 1] \in processed THEN "commit"
                                                                   ELSE "handle"]
    BY <1>1 DEF AlreadyProcessed, FetchMessage, Goto
  <2>2. /\ position' \in 0 .. Len(log) /\ cur' \in [Consumers -> 0 .. Len(log)]
        /\ attempt' \in [Consumers -> 0 .. MaxRetries]
    BY <2>1, FetchType
  <2>3. pc' \in [Consumers -> {"fetch", "handle", "dlq", "mark", "commit"}]
    BY <2>1 DEF TypeOK
  <2> QED
    BY <1>0, <2>1, <2>2, <2>3 DEF TypeOK, BusUnchanged, producer, relay, effects
<1>2. CASE HandlerSucceeds(c)
  BY <1>0, <1>2, MessageType, HandleType
     DEF TypeOK, HandlerSucceeds, Goto, BusUnchanged, producer, relay, reader
<1>3. CASE toDLQ(c)
  BY <1>0, <1>3, MessageType
     DEF TypeOK, toDLQ, Goto, BusUnchanged, producer, relay, reader
<1>4. CASE MarkProcessed(c)
  <2>1. processed' \subseteq Events /\ faults' \in 0 .. MaxFaults
    BY <1>4, MessageType, FaultType DEF TypeOK, MarkProcessed
  <2> QED
    BY <1>0, <1>4, <2>1
       DEF TypeOK, MarkProcessed, Goto, BusUnchanged, producer, relay, reader
<1>5. CASE CommitMessages(c)
  BY <1>0, <1>5 DEF TypeOK, CommitMessages, Goto, BusUnchanged, producer, relay,
                    effects
<1>6. CASE CheckFails(c)
  <2>1. faults' \in 0 .. MaxFaults  BY <1>6, FaultType DEF CheckFails
  <2>2. FetchMessage(c) /\ pc' = [pc EXCEPT ![c] = "handle"] /\ UNCHANGED effects
    BY <1>6 DEF CheckFails, Goto
  <2> QED
    <3>1. UNCHANGED <<committed, owner>>  BY <2>2 DEF FetchMessage
    <3>2. /\ position' \in 0 .. Len(log) /\ cur' \in [Consumers -> 0 .. Len(log)]
          /\ attempt' \in [Consumers -> 0 .. MaxRetries]
      BY <2>2, FetchType
    <3> QED
      BY <1>0, <2>1, <2>2, <3>1, <3>2 DEF TypeOK, BusUnchanged, producer, relay, effects
<1>7. CASE HandlerFails(c)
  <2>1. Message(c) \in Events  BY <1>7, MessageType DEF HandlerFails
  <2>2. counted' \in [Events -> Nat] /\ processed' \subseteq Events
    BY <1>7, <2>1, HandleType DEF TypeOK, HandlerFails
  <2>3. /\ attempt' \in [Consumers -> 0 .. MaxRetries] /\ gaveUp' \subseteq Events
        /\ pc' \in [Consumers -> {"fetch", "handle", "dlq", "mark", "commit"}]
    <3>1. CASE attempt[c] < MaxRetries
      <4>1. /\ attempt' = [attempt EXCEPT ![c] = attempt[c] + 1]
            /\ pc' = pc /\ gaveUp' = gaveUp
        BY <1>7, <3>1 DEF HandlerFails
      <4>2. attempt[c] + 1 \in 0 .. MaxRetries  BY <3>1 DEF TypeOK
      <4> QED  BY <4>1, <4>2 DEF TypeOK
    <3>2. CASE ~ (attempt[c] < MaxRetries)
      <4>1. /\ attempt' = attempt
            /\ pc' = [pc EXCEPT ![c] = IF HasDLQ THEN "dlq" ELSE "fetch"]
            /\ gaveUp' = IF HasDLQ THEN gaveUp ELSE gaveUp \cup {Message(c)}
        BY <1>7, <3>2 DEF HandlerFails, Goto
      <4> QED  BY <2>1, <4>1 DEF TypeOK
    <3> QED  BY <3>1, <3>2
  <2>4. faults' \in 0 .. MaxFaults  BY <1>7, FaultType DEF HandlerFails
  <2> QED
    BY <1>0, <1>7, <2>2, <2>3, <2>4
       DEF TypeOK, HandlerFails, BusUnchanged, producer, relay, reader
<1>8. CASE toDLQFails(c)
  <2>1. gaveUp' \subseteq Events  BY <1>8, MessageType DEF TypeOK, toDLQFails
  <2> QED
    BY <1>0, <1>8, <2>1, FaultType
       DEF TypeOK, toDLQFails, Goto, BusUnchanged, producer, relay, reader
<1>9. CASE Restart(c)
  BY <1>0, <1>9, FaultType
     DEF TypeOK, Restart, Goto, BusUnchanged, producer, relay, effects
<1>10. CASE Rebalance(c)
  BY <1>0, <1>10, FaultType
     DEF TypeOK, Rebalance, BusUnchanged, producer, relay, replica, effects
<1> QED
  BY <1>1, <1>2, <1>3, <1>4, <1>5, <1>6, <1>7, <1>8, <1>9, <1>10
     DEF ConsumerStep, process

-----------------------------------------------------------------------------
(* Outbox. *)

(* A committed row stays committed. *)
LEMMA ProducerOutbox ==
  ASSUME TypeOK, Outbox, NEW e \in Events, ProducerStep(e)
  PROVE  Outbox'
<1>1. UNCHANGED <<published, batch, sent, log>>
  BY DEF ProducerStep, Enqueue, EndTx, relay
<1>2. \A f \in Events : txn[f] = "committed" => txn'[f] = "committed"
  BY DEF ProducerStep, Enqueue, EndTx, TypeOK
<1>3. RowsCommitted'
  BY <1>1, <1>2 DEF TypeOK, Outbox, RowsCommitted
<1>4. SentIsLogged' /\ PublishedIsLogged'
  BY <1>1 DEF Outbox, SentIsLogged, Logged, PublishedIsLogged
<1>5. OnlyCommittedPublished'
  <2>1. \A o \in 1 .. Len(log) : log[o] \in Events /\ txn[log[o]] = "committed"
    BY DEF TypeOK, Outbox, OnlyCommittedPublished
  <2> QED BY <1>1, <1>2, <2>1 DEF OnlyCommittedPublished
<1> QED BY <1>3, <1>4, <1>5 DEF Outbox

(* The relay publishes committed rows before it marks them. *)
LEMMA RelayOutbox ==
  ASSUME TypeOK, Outbox, NEW r \in Relays, RelayStep(r)
  PROVE  Outbox'
<1>0. UNCHANGED txn
  BY DEF RelayStep, drain, SelectBatch, CommitDrain, Publish, DrainFails, producer
<1>1. CASE SelectBatch(r)
  BY <1>0, <1>1 DEF SelectBatch, FirstBatch, Candidates, TypeOK, Outbox,
       RowsCommitted, SentIsLogged, Logged, OnlyCommittedPublished, PublishedIsLogged
<1>2. CASE CommitDrain(r)
  BY <1>0, <1>2 DEF CommitDrain, TypeOK, Outbox,
       RowsCommitted, SentIsLogged, Logged, OnlyCommittedPublished, PublishedIsLogged
<1>3. ASSUME NEW e \in Events, Publish(r, e) PROVE Outbox'
  <2>1. /\ log' = Append(log, e) /\ sent' = [sent EXCEPT ![r] = @ \cup {e}]
        /\ UNCHANGED <<published, batch>> /\ e \in batch[r]
    BY <1>3 DEF Publish, NextRow
  <2>2. /\ Len(log) \in Nat /\ Len(log') = Len(log) + 1
        /\ \A o \in 1 .. Len(log) : log'[o] = log[o]
        /\ log'[Len(log) + 1] = e
    BY <2>1, AppendKeeps DEF TypeOK
  <2>3. \A f \in Events : Logged(f) => Logged(f)'
    BY <2>2 DEF Logged
  <2>4. Logged(e)'  BY <2>2 DEF Logged
  <2>5. RowsCommitted'
    BY <1>0, <2>1 DEF TypeOK, Outbox, RowsCommitted
  <2>6. SentIsLogged'
    BY <2>1, <2>3, <2>4 DEF TypeOK, Outbox, SentIsLogged
  <2>7. OnlyCommittedPublished'
    <3> SUFFICES ASSUME NEW o \in 1 .. Len(log) + 1
                 PROVE  txn[log'[o]] = "committed"
      BY <1>0, <2>2 DEF OnlyCommittedPublished
    <3>1. CASE o \in 1 .. Len(log)
      BY <2>2, <3>1 DEF Outbox, OnlyCommittedPublished
    <3>2. CASE o = Len(log) + 1
      BY <2>1, <2>2, <3>2 DEF Outbox, RowsCommitted
    <3> QED  BY <2>2, <3>1, <3>2
  <2>8. PublishedIsLogged'
    BY <2>1, <2>3 DEF TypeOK, Outbox, PublishedIsLogged, Logged
  <2> QED  BY <2>5, <2>6, <2>7, <2>8 DEF Outbox
<1>4. CASE DrainFails(r)
  BY <1>0, <1>4 DEF DrainFails, TypeOK, Outbox,
       RowsCommitted, SentIsLogged, Logged, OnlyCommittedPublished, PublishedIsLogged
<1> QED  BY <1>1, <1>2, <1>3, <1>4 DEF RelayStep, drain

(* Consumers leave the outbox as it is. *)
LEMMA ConsumerOutbox ==
  ASSUME Outbox, NEW c \in Consumers, ConsumerStep(c)
  PROVE  Outbox'
  BY ConsumerFrame DEF BusUnchanged, producer, relay, Outbox, RowsCommitted,
       SentIsLogged, Logged, OnlyCommittedPublished, PublishedIsLogged

-----------------------------------------------------------------------------
(* Claims. *)

(* A handler that claims its event counts it once. *)
LEMMA HandleClaims ==
  ASSUME TypeOK, Claims, NEW e \in Events, Handle(e)
  PROVE  Claims'
  BY DEF TypeOK, Claims, Handle, Claimed

(* Steps other than a handler's only add to processed. *)
LEMMA ConsumerClaims ==
  ASSUME TypeOK, InHandIsSettled, Claims, NEW c \in Consumers, ConsumerStep(c)
  PROVE  Claims'
<1>1. CASE UNCHANGED counted /\ processed \subseteq processed'
  BY <1>1 DEF TypeOK, Claims
<1>2. CASE HandlerSucceeds(c)
  BY <1>2, MessageType, HandleClaims DEF HandlerSucceeds
<1>3. CASE HandlerFails(c)
  <2>1. Message(c) \in Events  BY <1>3, MessageType DEF HandlerFails
  <2> QED  BY <1>1, <1>3, <2>1, HandleClaims DEF HandlerFails
<1> QED
  BY <1>1, <1>2, <1>3
     DEF ConsumerStep, process, AlreadyProcessed, toDLQ, MarkProcessed,
         CommitMessages, CheckFails, toDLQFails, Restart, Rebalance, effects

-----------------------------------------------------------------------------
(* Group. *)

(* A partition that only grows keeps what was settled. *)
LEMMA GroupFrame ==
  ASSUME TypeOK, Group, UNCHANGED <<reader, replica, effects>>,
         Len(log') \in Nat, Len(log) <= Len(log'),
         \A o \in 1 .. Len(log) : log'[o] = log[o]
  PROVE  Group'
<1>1. \A o \in 1 .. Len(log) : Settled(o) = Settled(o)'
  BY DEF Settled, Handled, effects
<1>2. ProcessedIsHandled'
  BY DEF Group, ProcessedIsHandled, Handled, effects
<1>3. ReadIsSettled'
  <2> SUFFICES ASSUME NEW o \in 1 .. position
               PROVE  Settled(o)' \/ (o = cur[owner] /\ pc[owner] \in {"handle", "dlq"})
    BY DEF ReadIsSettled, reader, replica
  <2>1. o \in 1 .. Len(log)  BY DEF TypeOK
  <2> QED  BY <1>1, <2>1 DEF Group, ReadIsSettled
<1>4. PassedIsSettled'
  <2> SUFFICES ASSUME NEW o \in 1 .. committed
               PROVE  Settled(o)'
    BY DEF PassedIsSettled, Settled, Handled, reader
  <2>1. o \in 1 .. Len(log)  BY DEF TypeOK
  <2>2. Settled(o)  BY DEF Group, PassedIsSettled, Settled
  <2> QED  BY <1>1, <2>1, <2>2
<1>5. InHandIsSettled'
  <2> SUFFICES ASSUME NEW c \in Consumers, pc[c] # "fetch"
               PROVE  /\ cur[c] \in 1 .. Len(log')
                      /\ \A o \in 1 .. cur[c] - 1 : Settled(o)'
                      /\ pc[c] \in {"mark", "commit"} => Handled(Message(c))'
    BY DEF InHandIsSettled, replica
  <2>1. cur[c] \in 1 .. Len(log)  BY DEF Group, InHandIsSettled
  <2>2. Message(c)' = Message(c)
    BY <2>1 DEF Message, replica
  <2>3. cur[c] \in 1 .. Len(log')  BY <2>1 DEF TypeOK
  <2>4. \A o \in 1 .. cur[c] - 1 : o \in 1 .. Len(log)  BY <2>1 DEF TypeOK
  <2>5. \A o \in 1 .. cur[c] - 1 : Settled(o)'
    BY <1>1, <2>4 DEF Group, InHandIsSettled
  <2> QED
    BY <2>2, <2>3, <2>5 DEF Group, InHandIsSettled, Handled, effects
<1> QED  BY <1>2, <1>3, <1>4, <1>5 DEF Group

(* Producers leave the group as it is. *)
LEMMA ProducerGroup ==
  ASSUME TypeOK, Group, NEW e \in Events, ProducerStep(e)
  PROVE  Group'
<1>1. UNCHANGED <<log, reader, replica, effects>>
  BY DEF ProducerStep, Enqueue, EndTx
<1>2. Len(log) \in Nat  BY DEF TypeOK
<1> QED  BY <1>1, <1>2, GroupFrame

(* The relay only appends to the partition. *)
LEMMA RelayGroup ==
  ASSUME TypeOK, Group, NEW r \in Relays, RelayStep(r)
  PROVE  Group'
<1>1. UNCHANGED <<reader, replica, effects>>
  BY DEF RelayStep, drain, SelectBatch, CommitDrain, Publish, DrainFails
<1>2. UNCHANGED log \/ \E e \in Events : log' = Append(log, e)
  BY DEF RelayStep, drain, SelectBatch, CommitDrain, Publish, DrainFails
<1>3. /\ Len(log') \in Nat /\ Len(log) <= Len(log')
      /\ \A o \in 1 .. Len(log) : log'[o] = log[o]
  BY <1>2, AppendKeeps DEF TypeOK
<1> QED  BY <1>1, <1>3, GroupFrame

(* No step of a consumer takes an effect back. *)
LEMMA HandleEffect ==
  ASSUME TypeOK, ProcessedIsHandled, NEW e \in Events, Handle(e), UNCHANGED dead
  PROVE  /\ \A f \in Events : Handled(f) => Handled(f)'
         /\ Handled(e)' /\ ProcessedIsHandled'
<1>1. \A f \in Events : counted[f] <= counted'[f]
  BY DEF TypeOK, Handle
<1>2. \A f \in Events : Handled(f) => Handled(f)'
  BY <1>1, HandleType DEF Handled, TypeOK
<1>3. Handled(e)'
  <2>1. CASE Claimed(e)
    BY <2>1 DEF Handled, Handle, TypeOK
  <2>2. CASE ~ Claimed(e)
    BY <1>2, <2>2 DEF Claimed, ProcessedIsHandled
  <2> QED  BY <2>1, <2>2
<1> QED
  BY <1>2, <1>3 DEF ProcessedIsHandled, Handle, TypeOK

(* What is handled or settled stays so through every consumer step. *)
LEMMA EffectsGrow ==
  ASSUME TypeOK, Group, NEW c \in Consumers, ConsumerStep(c)
  PROVE  /\ \A e \in Events : Handled(e) => Handled(e)'
         /\ \A o \in 1 .. Len(log) : Settled(o) => Settled(o)'
<1>0. UNCHANGED log  BY ConsumerFrame DEF BusUnchanged
<1>1. gaveUp \subseteq gaveUp'
  BY DEF ConsumerStep, process, AlreadyProcessed, HandlerSucceeds, toDLQ,
         MarkProcessed, CommitMessages, CheckFails, HandlerFails, toDLQFails,
         Restart, Rebalance, effects
<1>2. \A e \in Events : Handled(e) => Handled(e)'
  <2>1. CASE UNCHANGED counted /\ dead \subseteq dead'
    BY <2>1 DEF Handled
  <2>2. CASE HandlerSucceeds(c) \/ HandlerFails(c)
    <3>1. Message(c) \in Events
      BY <2>2, MessageType DEF Group, HandlerSucceeds, HandlerFails
    <3>2. UNCHANGED dead /\ (Handle(Message(c)) \/ UNCHANGED counted)
      BY <2>2 DEF HandlerSucceeds, HandlerFails
    <3> QED  BY <2>1, <3>1, <3>2, HandleEffect DEF Group
  <2> QED
    BY <2>1, <2>2
       DEF ConsumerStep, process, AlreadyProcessed, toDLQ, MarkProcessed,
           CommitMessages, CheckFails, toDLQFails, Restart, Rebalance, effects
<1> QED
  BY <1>0, <1>1, <1>2 DEF Settled, TypeOK

(* The replicas that do not step keep their messages. *)
LEMMA OthersInHand ==
  ASSUME TypeOK, Group, NEW c \in Consumers, ConsumerStep(c),
         pc'[c] # "fetch" =>
           /\ cur'[c] \in 1 .. Len(log)
           /\ \A o \in 1 .. cur'[c] - 1 : Settled(o)
           /\ pc'[c] \in {"mark", "commit"} => Handled(Message(c))'
  PROVE  InHandIsSettled'
<1>0. UNCHANGED log  BY ConsumerFrame DEF BusUnchanged
<1>1. \A d \in Consumers \ {c} : pc'[d] = pc[d] /\ cur'[d] = cur[d]
  BY DEF ConsumerStep, process, AlreadyProcessed, FetchMessage, HandlerSucceeds,
         toDLQ, MarkProcessed, CommitMessages, CheckFails, HandlerFails,
         toDLQFails, Restart, Rebalance, replica, Goto, TypeOK
<1> SUFFICES ASSUME NEW d \in Consumers, pc'[d] # "fetch"
             PROVE  /\ cur'[d] \in 1 .. Len(log)
                    /\ \A o \in 1 .. cur'[d] - 1 : Settled(o)'
                    /\ pc'[d] \in {"mark", "commit"} => Handled(Message(d))'
  BY <1>0 DEF InHandIsSettled
<1>2. CASE d = c
  <2>1. \A o \in 1 .. cur'[c] - 1 : o \in 1 .. Len(log)  BY <1>2 DEF TypeOK
  <2> QED  BY <1>2, <2>1, EffectsGrow
<1>3. CASE d # c
  <2>1. cur'[d] = cur[d] /\ pc'[d] = pc[d]  BY <1>1, <1>3
  <2>2. /\ cur[d] \in 1 .. Len(log)
        /\ \A o \in 1 .. cur[d] - 1 : Settled(o)
        /\ pc[d] \in {"mark", "commit"} => Handled(Message(d))
    BY <2>1 DEF Group, InHandIsSettled
  <2>3. \A o \in 1 .. cur[d] - 1 : o \in 1 .. Len(log)  BY <2>2 DEF TypeOK
  <2>4. Message(d)' = Message(d) /\ Message(d) \in Events
    BY <1>0, <2>1, <2>2 DEF Message, TypeOK
  <2>5. pc[d] \in {"mark", "commit"} => Handled(Message(d))'
    BY <2>2, <2>4, EffectsGrow DEF Handled
  <2> QED  BY <2>1, <2>2, <2>3, <2>5, EffectsGrow
<1> QED  BY <1>2, <1>3

(* A replica fetches from behind settled messages. *)
LEMMA FetchIsSettled ==
  ASSUME TypeOK, Group, NEW c \in Consumers, FetchMessage(c)
  PROVE  /\ cur'[c] = position + 1 /\ position + 1 \in 1 .. Len(log)
         /\ \A o \in 1 .. position : Settled(o)
  BY DEF TypeOK, Group, ReadIsSettled, FetchMessage

(* Each consumer step leaves replicas with messages they may commit. *)
LEMMA ConsumerInHand ==
  ASSUME TypeOK, Group, NEW c \in Consumers, ConsumerStep(c)
  PROVE  InHandIsSettled'
<1>0. UNCHANGED log  BY ConsumerFrame DEF BusUnchanged
<1>1. CASE AlreadyProcessed(c)
  <2>1. /\ cur'[c] = position + 1 /\ position + 1 \in 1 .. Len(log)
        /\ \A o \in 1 .. position : Settled(o)
    BY <1>1, FetchIsSettled DEF AlreadyProcessed
  <2>3. pc'[c] \in {"mark", "commit"} => Handled(log[position + 1])
    BY <1>1 DEF AlreadyProcessed, Goto, TypeOK, Group, ProcessedIsHandled
  <2>4. log[position + 1] \in Events  BY <2>1 DEF TypeOK
  <2>5. pc'[c] \in {"mark", "commit"} => Handled(Message(c))'
    BY <1>0, <2>1, <2>3, <2>4, EffectsGrow DEF Handled, Message
  <2>6. cur'[c] - 1 = position  BY <2>1 DEF TypeOK
  <2> QED  BY <2>1, <2>5, <2>6, OthersInHand
<1>2. CASE CheckFails(c)
  <2>1. /\ cur'[c] = position + 1 /\ position + 1 \in 1 .. Len(log)
        /\ \A o \in 1 .. position : Settled(o)
    BY <1>2, FetchIsSettled DEF CheckFails
  <2>3. pc'[c] = "handle"  BY <1>2 DEF CheckFails, Goto, TypeOK
  <2>4. cur'[c] - 1 = position  BY <2>1 DEF TypeOK
  <2> QED  BY <2>1, <2>3, <2>4, OthersInHand
<1>3. ASSUME pc[c] # "fetch", cur' = cur,
             pc'[c] \in {"mark", "commit"} => Handled(Message(c))'
      PROVE  InHandIsSettled'
  BY <1>0, <1>3, OthersInHand DEF Group, InHandIsSettled, Message, Handled
<1>4. CASE HandlerSucceeds(c)
  BY <1>3, <1>4, HandleEffect, MessageType DEF HandlerSucceeds, Group, Handled, Message
<1>5. CASE HandlerFails(c)
  <2>1. pc'[c] \in {"handle", "dlq", "fetch"}
    BY <1>5 DEF HandlerFails, Goto, TypeOK
  <2> QED  BY <1>3, <1>5, <2>1 DEF HandlerFails
<1>6. CASE toDLQ(c)
  BY <1>0, <1>3, <1>6 DEF toDLQ, Handled, Message
<1>7. CASE MarkProcessed(c)
  <2>1. Handled(Message(c)) /\ Message(c) \in Events
    BY <1>7, MessageType DEF MarkProcessed, Group, InHandIsSettled
  <2>2. Message(c)' = Message(c)
    BY <1>0, <1>7 DEF MarkProcessed, Message
  <2> QED
    BY <1>3, <1>7, <2>1, <2>2, EffectsGrow DEF MarkProcessed, Handled
<1>8. CASE pc'[c] = "fetch"
  BY <1>8, OthersInHand
<1>9. CASE Rebalance(c)
  <2>1. UNCHANGED <<pc, cur, counted, dead>>
    BY <1>9 DEF Rebalance, replica, effects
  <2>2. Message(c)' = Message(c)  BY <1>0, <2>1 DEF Message
  <2>3. pc[c] # "fetch" => InHandIsSettled'
    BY <1>3, <2>1, <2>2 DEF Group, InHandIsSettled, Handled
  <2> QED  BY <1>8, <2>1, <2>3
<1> QED
  BY <1>1, <1>2, <1>4, <1>5, <1>6, <1>7, <1>8, <1>9
     DEF ConsumerStep, process, CommitMessages, toDLQFails, Restart, Goto, TypeOK

(* Only handled events enter processed_events. *)
LEMMA ConsumerProcessed ==
  ASSUME TypeOK, Group, NEW c \in Consumers, ConsumerStep(c)
  PROVE  ProcessedIsHandled'
<1>1. CASE processed' = processed
  BY <1>1, EffectsGrow DEF TypeOK, Group, ProcessedIsHandled
<1>2. CASE MarkProcessed(c)
  <2>1. Handled(Message(c)) /\ Message(c) \in Events
    BY <1>2, MessageType DEF MarkProcessed, Group, InHandIsSettled
  <2>2. processed' \subseteq processed \cup {Message(c)}
    BY <1>2 DEF MarkProcessed
  <2>3. UNCHANGED <<counted, dead>>  BY <1>2 DEF MarkProcessed
  <2> QED  BY <2>1, <2>2, <2>3 DEF Group, ProcessedIsHandled, Handled
<1>3. CASE HandlerSucceeds(c) \/ HandlerFails(c)
  <2>1. Message(c) \in Events
    BY <1>3, MessageType DEF Group, HandlerSucceeds, HandlerFails
  <2>2. UNCHANGED dead /\ (Handle(Message(c)) \/ UNCHANGED processed)
    BY <1>3 DEF HandlerSucceeds, HandlerFails
  <2> QED  BY <1>1, <2>1, <2>2, HandleEffect DEF Group
<1> QED
  BY <1>1, <1>2, <1>3
     DEF ConsumerStep, process, AlreadyProcessed, toDLQ, CommitMessages,
         CheckFails, toDLQFails, Restart, Rebalance, effects

(* A commit passes settled messages only. *)
LEMMA ConsumerPassed ==
  ASSUME TypeOK, Group, NEW c \in Consumers, ConsumerStep(c)
  PROVE  PassedIsSettled'
<1>0. UNCHANGED log  BY ConsumerFrame DEF BusUnchanged
<1>1. \A o \in 1 .. committed' : Settled(o) /\ o \in 1 .. Len(log)
  <2>1. CASE committed' = committed
    BY <2>1 DEF TypeOK, Group, PassedIsSettled, Settled
  <2>2. CASE CommitMessages(c)
    <3>1. /\ committed' = cur[c] /\ cur[c] \in 1 .. Len(log)
          /\ \A o \in 1 .. cur[c] - 1 : Settled(o)
          /\ Handled(Message(c))
      BY <2>2 DEF CommitMessages, Group, InHandIsSettled
    <3>2. Settled(cur[c])  BY <3>1 DEF Settled, Message
    <3>3. \A o \in 1 .. cur[c] : o \in 1 .. cur[c] - 1 \/ o = cur[c]
      BY <3>1 DEF TypeOK
    <3>4. \A o \in 1 .. cur[c] : o \in 1 .. Len(log)
      BY <3>1 DEF TypeOK
    <3> QED  BY <3>1, <3>2, <3>3, <3>4
  <2> QED
    BY <2>1, <2>2
       DEF ConsumerStep, process, AlreadyProcessed, FetchMessage, HandlerSucceeds,
           toDLQ, MarkProcessed, CheckFails, HandlerFails, toDLQFails, Restart,
           Rebalance, reader
<1>2. \A o \in 1 .. committed' : Settled(o)'
  BY <1>1, EffectsGrow
<1> QED  BY <1>2 DEF PassedIsSettled, Settled, Handled

(* The owner's reader runs ahead by at most the message in hand. *)
LEMMA ConsumerRead ==
  ASSUME TypeOK, Group, NEW c \in Consumers, ConsumerStep(c)
  PROVE  ReadIsSettled'
<1>0. UNCHANGED log  BY ConsumerFrame DEF BusUnchanged
<1>1. CASE position' = committed
  <2>1. \A o \in 1 .. committed : Settled(o) /\ o \in 1 .. Len(log)
    BY DEF TypeOK, Group, PassedIsSettled, Settled
  <2> QED  BY <1>1, <2>1, EffectsGrow DEF ReadIsSettled
<1>2. CASE AlreadyProcessed(c) \/ CheckFails(c)
  <2>1. /\ FetchMessage(c) /\ owner' = c /\ position' = position + 1
        /\ pc'[c] \in {"handle", "commit"}
        /\ pc'[c] = "commit" => log[position + 1] \in processed
    BY <1>2 DEF AlreadyProcessed, CheckFails, FetchMessage, Goto, TypeOK
  <2>2. /\ cur'[c] = position + 1 /\ position + 1 \in 1 .. Len(log)
        /\ \A o \in 1 .. position : Settled(o)
    BY <2>1, FetchIsSettled
  <2>3. \A o \in 1 .. position + 1 : o \in 1 .. position \/ o = position + 1
    BY DEF TypeOK
  <2>4. pc'[c] = "commit" => Settled(position + 1)
    BY <2>1 DEF Group, ProcessedIsHandled, Settled
  <2>5. \A o \in 1 .. position : o \in 1 .. Len(log)
    BY DEF TypeOK
  <2>6. \A o \in 1 .. position + 1 :
          Settled(o)' \/ (o = position + 1 /\ pc'[c] = "handle")
    BY <2>1, <2>2, <2>3, <2>4, <2>5, EffectsGrow
  <2> QED  BY <2>1, <2>2, <2>6 DEF ReadIsSettled
<1>3. ASSUME UNCHANGED <<owner, position>>,
             \A o \in 1 .. position :
               o = cur[owner] /\ pc[owner] \in {"handle", "dlq"} =>
                 Settled(o)' \/ (o = cur'[owner] /\ pc'[owner] \in {"handle", "dlq"})
      PROVE  ReadIsSettled'
  <2> SUFFICES ASSUME NEW o \in 1 .. position
               PROVE  Settled(o)' \/ (o = cur'[owner] /\ pc'[owner] \in {"handle", "dlq"})
    BY <1>3 DEF ReadIsSettled
  <2>1. o \in 1 .. Len(log)  BY DEF TypeOK
  <2> QED  BY <1>3, <2>1, EffectsGrow DEF Group, ReadIsSettled
<1>4. ASSUME UNCHANGED <<owner, position, cur>>,
             pc' = [pc EXCEPT ![c] = pc'[c]],
             pc[c] \in {"handle", "dlq"} =>
               pc'[c] \in {"handle", "dlq"} \/ Settled(cur[c])'
      PROVE  ReadIsSettled'
  BY <1>3, <1>4 DEF TypeOK
<1>5. CASE HandlerSucceeds(c)
  <2>1. Handled(Message(c))'
    BY <1>5, HandleEffect, MessageType DEF HandlerSucceeds, Group, Handled, Message
  <2>2. Settled(cur[c])'
    BY <1>0, <1>5, <2>1 DEF HandlerSucceeds, Settled, Handled, Message
  <2> QED  BY <1>4, <1>5, <2>2 DEF HandlerSucceeds, Goto, reader, TypeOK
<1>6. CASE HandlerFails(c)
  <2>1. pc'[c] \in {"handle", "dlq"} \/ Settled(cur[c])'
    BY <1>0, <1>6 DEF HandlerFails, Goto, Settled, Message, TypeOK
  <2>2. pc' = [pc EXCEPT ![c] = pc'[c]]
    BY <1>6 DEF HandlerFails, Goto, TypeOK
  <2> QED  BY <1>4, <1>6, <2>1, <2>2 DEF HandlerFails, reader
<1>7. CASE toDLQ(c)
  <2>1. Settled(cur[c])'
    BY <1>0, <1>7 DEF toDLQ, Settled, Handled, Message
  <2> QED  BY <1>4, <1>7, <2>1 DEF toDLQ, Goto, reader, TypeOK
<1>8. CASE toDLQFails(c)
  <2>1. Settled(cur[c])'
    BY <1>0, <1>8 DEF toDLQFails, Settled, Message
  <2> QED  BY <1>4, <1>8, <2>1 DEF toDLQFails, Goto, reader, TypeOK
<1>9. CASE MarkProcessed(c)
  BY <1>4, <1>9 DEF MarkProcessed, Goto, reader, TypeOK
<1>10. CASE CommitMessages(c)
  BY <1>4, <1>10 DEF CommitMessages, Goto, TypeOK
<1>11. CASE Restart(c)
  <2>1. CASE owner = c  BY <1>1, <1>11, <2>1 DEF Restart
  <2>2. CASE owner # c
    BY <1>3, <1>11, <2>2 DEF Restart, Goto, TypeOK
  <2> QED  BY <2>1, <2>2
<1>12. CASE Rebalance(c)
  BY <1>1, <1>12 DEF Rebalance
<1> QED
  BY <1>2, <1>5, <1>6, <1>7, <1>8, <1>9, <1>10, <1>11, <1>12
     DEF ConsumerStep, process

-----------------------------------------------------------------------------
(* The invariant of the specification. *)

(* The initial states satisfy the invariant. *)
LEMMA InitIInv ==
  ASSUME Init
  PROVE  IInv
<1>1. TypeOK  BY EventBusAssumption DEF Init, TypeOK
<1>2. Outbox
  BY DEF Init, Outbox, RowsCommitted, SentIsLogged, OnlyCommittedPublished,
         PublishedIsLogged
<1>3. Claims  BY DEF Init, Claims
<1>4. Group
  BY DEF Init, Group, ProcessedIsHandled, ReadIsSettled, InHandIsSettled,
         PassedIsSettled
<1> QED  BY <1>1, <1>2, <1>3, <1>4 DEF IInv

(* Every step preserves the invariant. *)
LEMMA NextIInv ==
  ASSUME IInv, [Next]_vars
  PROVE  IInv'
<1> USE DEF IInv
<1>1. ASSUME NEW e \in Events, ProducerStep(e) PROVE IInv'
  <2>1. Claims'
    BY <1>1 DEF ProducerStep, Enqueue, EndTx, effects, Claims
  <2> QED  BY <1>1, <2>1, ProducerType, ProducerOutbox, ProducerGroup
<1>2. ASSUME NEW r \in Relays, RelayStep(r) PROVE IInv'
  <2>1. Claims'
    BY <1>2 DEF RelayStep, drain, SelectBatch, CommitDrain, Publish, DrainFails,
                effects, Claims
  <2> QED  BY <1>2, <2>1, RelayType, RelayOutbox, RelayGroup
<1>3. ASSUME NEW c \in Consumers, ConsumerStep(c) PROVE IInv'
  <2>1. InHandIsSettled  BY DEF Group
  <2>2. TypeOK'  BY <1>3, <2>1, ConsumerType
  <2>3. Claims'  BY <1>3, <2>1, ConsumerClaims
  <2>4. Group'
    BY <1>3, ConsumerInHand, ConsumerProcessed, ConsumerPassed, ConsumerRead DEF Group
  <2> QED  BY <1>3, <2>2, <2>3, <2>4, ConsumerOutbox
<1>4. CASE UNCHANGED vars
  BY <1>4 DEF vars, producer, relay, reader, replica, effects, TypeOK, Outbox,
       RowsCommitted, SentIsLogged, Logged, OnlyCommittedPublished,
       PublishedIsLogged, Claims, Group, ProcessedIsHandled, ReadIsSettled,
       InHandIsSettled, PassedIsSettled, Settled, Handled, Message
<1> QED  BY <1>1, <1>2, <1>3, <1>4, NextSplit

(* The inductive invariant holds in every reachable state. *)
THEOREM Invariance == Spec => []IInv
  BY InitIInv, NextIInv, PTL DEF Spec

(* The tables, the partition and the replicas keep their types. *)
THEOREM TypeCorrect == Spec => []TypeOK
<1>1. IInv => TypeOK  BY DEF IInv
<1> QED  BY <1>1, Invariance, PTL

(* The bus carries committed events only, and all that the relay marks as
   published. *)
THEOREM OutboxSafe == Spec => []OnlyCommittedPublished /\ []PublishedIsLogged
<1>1. IInv => OnlyCommittedPublished /\ PublishedIsLogged  BY DEF IInv, Outbox
<1> QED  BY <1>1, Invariance, PTL

(* A consumer that claims events in its transaction counts each once, for any
   number of failures, duplicates and replicas. *)
THEOREM ClaimedOnce ==
  ASSUME ClaimsInTx
  PROVE  Spec => []EffectOnce
<1>1. IInv => EffectOnce  BY DEF IInv, Claims, EffectOnce
<1> QED  BY <1>1, Invariance, PTL

(* The group's offset passes no message that nobody handled or gave up on. *)
THEOREM OffsetsSafe == Spec => []PassedIsSettled
<1>1. IInv => PassedIsSettled  BY DEF IInv, Group
<1> QED  BY <1>1, Invariance, PTL

-----------------------------------------------------------------------------
(* The order of the partition, for one relay replica. *)

(* Of two candidate rows, a batch that takes the later takes the earlier. *)
LEMMA FirstBatchIsInitial ==
  ASSUME NEW rows \in SUBSET Events, TypeOK, NEW e \in rows,
         NEW f \in FirstBatch(rows), rowId[e] < rowId[f]
  PROVE  e \in FirstBatch(rows)
<1> DEFINE Before(g) == {x \in rows : rowId[x] < rowId[g]}
<1>1. \A x \in Events : rowId[x] \in Int  BY DEF TypeOK
<1>2. Before(e) \subseteq Before(f)  BY <1>1 DEF FirstBatch
<1>3. IsFiniteSet(Before(f))
  <2>1. Before(f) \subseteq Events  OBVIOUS
  <2> QED  BY <2>1, FS_Subset, EventBusAssumption
<1>4. /\ Cardinality(Before(e)) <= Cardinality(Before(f))
      /\ Cardinality(Before(e)) \in Nat /\ Cardinality(Before(f)) \in Nat
  BY <1>2, <1>3, FS_Subset, FS_CardinalityType
<1>5. Cardinality(Before(f)) < Batch  BY DEF FirstBatch
<1>6. Cardinality(Before(e)) < Batch  BY <1>4, <1>5, EventBusAssumption
<1> QED  BY <1>6 DEF FirstBatch

(* An insert draws the highest id, and only events that are in no drain and
   not in the partition get a new row. *)
LEMMA ProducerOrder ==
  ASSUME IInv, Order, NEW e \in Events, ProducerStep(e)
  PROVE  Order'
<1> USE DEF IInv
<1>0. UNCHANGED <<batch, log>>  BY DEF ProducerStep, Enqueue, EndTx, relay
<1>1. CASE Enqueue(e)
  <2>1. /\ txn' = [txn EXCEPT ![e] = "open"] /\ lastId' = lastId + 1
        /\ rowId' = [rowId EXCEPT ![e] = lastId + 1] /\ txn[e] = "none"
        /\ earlier' = [earlier EXCEPT ![e] = {f \in Events : txn[f] = "committed"}]
    BY <1>1 DEF Enqueue
  <2>2. \A f \in Events : rowId[f] \in Int /\ rowId[f] < lastId + 1
    BY DEF TypeOK
  <2>3. EarlierIds'
    <3> SUFFICES ASSUME NEW f \in Events, NEW g \in earlier'[f]
                 PROVE  txn'[g] = "committed" /\ txn'[f] # "none" /\ rowId'[g] < rowId'[f]
      BY DEF EarlierIds
    <3>1. CASE f = e
      <4>1. g \in Events /\ txn[g] = "committed" /\ g # e
        BY <2>1, <3>1 DEF TypeOK
      <4> QED  BY <2>1, <2>2, <3>1, <4>1 DEF TypeOK
    <3>2. CASE f # e
      <4>1. g \in earlier[f]  BY <2>1, <3>2 DEF TypeOK
      <4>2. g \in Events /\ txn[g] = "committed" /\ txn[f] # "none" /\ rowId[g] < rowId[f]
        BY <4>1 DEF Order, EarlierIds, TypeOK
      <4> QED  BY <2>1, <3>2, <4>2 DEF TypeOK
    <3> QED  BY <3>1, <3>2
  <2>4. BatchesComplete'
    <3> SUFFICES ASSUME NEW r \in Relays, NEW f \in batch[r], NEW g \in earlier'[f]
                 PROVE  g \in batch[r] \/ Logged(g)
      BY <1>0 DEF BatchesComplete, Logged
    <3>1. f \in Events /\ f # e
      BY <2>1 DEF TypeOK, Outbox, RowsCommitted
    <3>2. g \in earlier[f]  BY <2>1, <3>1 DEF TypeOK
    <3> QED  BY <3>2 DEF Order, BatchesComplete
  <2>5. CommittedOrder'
    <3> SUFFICES ASSUME NEW f \in Events, NEW g \in earlier'[f],
                        NEW o \in 1 .. Len(log), log[o] = f
                 PROVE  \E p \in 1 .. o - 1 : log[p] = g
      BY <1>0 DEF CommittedOrder, Follows
    <3>1. f # e
      BY <2>1 DEF TypeOK, Outbox, OnlyCommittedPublished
    <3>2. g \in earlier[f]  BY <2>1, <3>1 DEF TypeOK
    <3> QED  BY <3>2 DEF Order, CommittedOrder, Follows
  <2> QED  BY <2>3, <2>4, <2>5 DEF Order
<1>2. ASSUME NEW x \in {"committed", "aborted"}, EndTx(e, x) PROVE Order'
  <2>1. /\ txn' = [txn EXCEPT ![e] = x] /\ txn[e] = "open"
        /\ UNCHANGED <<rowId, earlier>>
    BY <1>2 DEF EndTx
  <2>2. \A f \in Events : /\ txn[f] = "committed" => txn'[f] = "committed"
                          /\ txn[f] # "none" => txn'[f] # "none"
    BY <2>1 DEF TypeOK
  <2>3. \A f \in Events : earlier[f] \subseteq Events  BY DEF TypeOK
  <2>4. EarlierIds'  BY <2>1, <2>2, <2>3 DEF Order, EarlierIds
  <2>5. BatchesComplete'  BY <1>0, <2>1 DEF Order, BatchesComplete, Logged
  <2>6. CommittedOrder'  BY <1>0, <2>1 DEF Order, CommittedOrder, Follows
  <2> QED  BY <2>4, <2>5, <2>6 DEF Order
<1> QED  BY <1>1, <1>2 DEF ProducerStep

(* A single relay takes a row together with those committed before it and
   sends the lower id first. *)
LEMMA RelayOrder ==
  ASSUME IInv, Order, NEW r \in Relays, Relays = {r}, RelayStep(r)
  PROVE  Order'
<1> USE DEF IInv
<1>0. UNCHANGED <<txn, rowId, earlier>>
  BY DEF RelayStep, drain, SelectBatch, CommitDrain, Publish, DrainFails, producer
<1>1. EarlierIds'  BY <1>0 DEF Order, EarlierIds
<1>2. CASE SelectBatch(r)
  <2>1. /\ batch[r] = {} /\ batch' = [batch EXCEPT ![r] = FirstBatch(Candidates)]
        /\ UNCHANGED log
    BY <1>2 DEF SelectBatch
  <2>2. BatchesComplete'
    <3> SUFFICES ASSUME NEW f \in FirstBatch(Candidates), NEW e \in earlier[f]
                 PROVE  e \in FirstBatch(Candidates) \/ Logged(e)
      BY <1>0, <2>1 DEF BatchesComplete, Logged, TypeOK
    <3>0. f \in Events  BY DEF FirstBatch, Candidates
    <3>1. e \in Events /\ txn[e] = "committed" /\ rowId[e] < rowId[f]
      BY <3>0 DEF Order, EarlierIds, TypeOK
    <3>2. CASE e \in published
      BY <3>2 DEF Outbox, PublishedIsLogged, Logged
    <3>3. CASE e \notin published
      <4>1. e \in Candidates  BY <2>1, <3>1, <3>3 DEF Candidates
      <4>2. Candidates \in SUBSET Events  BY DEF Candidates
      <4> QED  BY <3>1, <4>1, <4>2, FirstBatchIsInitial
    <3> QED  BY <3>2, <3>3
  <2>3. CommittedOrder'  BY <1>0, <2>1 DEF Order, CommittedOrder, Follows
  <2> QED  BY <1>1, <2>2, <2>3 DEF Order
<1>3. CASE CommitDrain(r) \/ DrainFails(r)
  <2>1. batch' = [batch EXCEPT ![r] = {}] /\ UNCHANGED log
    BY <1>3 DEF CommitDrain, DrainFails
  <2>2. BatchesComplete'  BY <1>0, <2>1 DEF BatchesComplete, TypeOK
  <2>3. CommittedOrder'  BY <1>0, <2>1 DEF Order, CommittedOrder, Follows
  <2> QED  BY <1>1, <2>2, <2>3 DEF Order
<1>4. ASSUME NEW f \in Events, Publish(r, f) PROVE Order'
  <2>1. log' = Append(log, f) /\ UNCHANGED batch /\ NextRow(r, f)
    BY <1>4 DEF Publish
  <2>2. /\ Len(log) \in Nat /\ Len(log') = Len(log) + 1
        /\ \A o \in 1 .. Len(log) : log'[o] = log[o]
        /\ log'[Len(log) + 1] = f
    BY <2>1, AppendKeeps DEF TypeOK
  <2>3. \A e \in Events : Logged(e) => Logged(e)'
    BY <2>2 DEF Logged
  <2>4. BatchesComplete'
    <3> SUFFICES ASSUME NEW g \in batch[r], NEW e \in earlier[g]
                 PROVE  e \in batch[r] \/ Logged(e)'
      BY <1>0, <2>1 DEF BatchesComplete
    <3>1. e \in Events  BY DEF TypeOK
    <3> QED  BY <2>3, <3>1 DEF Order, BatchesComplete
  <2>5. \A e \in earlier[f] : Logged(e)
    <3> SUFFICES ASSUME NEW e \in earlier[f], ~ Logged(e)
                 PROVE  FALSE
      OBVIOUS
    <3>1. f \in batch[r]  BY <2>1 DEF NextRow
    <3>2. e \in batch[r]  BY <3>1 DEF Order, BatchesComplete
    <3>3. e \notin sent[r]  BY DEF Outbox, SentIsLogged
    <3>4. rowId[f] <= rowId[e]  BY <2>1, <3>2, <3>3 DEF NextRow
    <3>5. e \in Events /\ rowId[e] < rowId[f]  BY DEF Order, EarlierIds, TypeOK
    <3> QED  BY <3>4, <3>5 DEF TypeOK
  <2>6. CommittedOrder'
    <3> SUFFICES ASSUME NEW g \in Events, NEW e \in earlier[g],
                        NEW o \in 1 .. Len(log) + 1, log'[o] = g
                 PROVE  \E p \in 1 .. o - 1 : log'[p] = e
      BY <1>0, <2>2 DEF CommittedOrder, Follows
    <3>1. CASE o \in 1 .. Len(log)
      <4>1. PICK p \in 1 .. o - 1 : log[p] = e
        BY <2>2, <3>1 DEF Order, CommittedOrder, Follows
      <4>2. p \in 1 .. Len(log)  BY <2>2, <3>1
      <4> QED  BY <2>2, <4>1, <4>2
    <3>2. CASE o = Len(log) + 1
      <4>1. g = f  BY <2>2, <3>2
      <4>2. PICK p \in 1 .. Len(log) : log[p] = e  BY <2>5, <4>1 DEF Logged
      <4>3. o - 1 = Len(log)  BY <2>2, <3>2
      <4> QED  BY <2>2, <4>2, <4>3
    <3> QED  BY <2>2, <3>1, <3>2
  <2> QED  BY <1>1, <2>4, <2>6 DEF Order
<1> QED  BY <1>2, <1>3, <1>4 DEF RelayStep, drain

(* Order is preserved by every step. *)
LEMMA NextOrder ==
  ASSUME IInv, Order, [Next]_vars, NEW r0, Relays = {r0}
  PROVE  Order'
<1>1. ASSUME NEW e \in Events, ProducerStep(e) PROVE Order'
  BY <1>1, ProducerOrder
<1>2. ASSUME NEW r \in Relays, RelayStep(r) PROVE Order'
  <2>1. Relays = {r}  OBVIOUS
  <2> QED  BY <1>2, <2>1, RelayOrder
<1>3. CASE UNCHANGED <<txn, rowId, earlier, batch, log>>
  BY <1>3 DEF Order, EarlierIds, BatchesComplete, CommittedOrder, Follows, Logged
<1>4. ASSUME NEW c \in Consumers, ConsumerStep(c) PROVE Order'
  BY <1>3, <1>4, ConsumerFrame DEF BusUnchanged, producer, relay
<1>5. CASE UNCHANGED vars
  BY <1>3, <1>5 DEF vars, producer, relay
<1> QED  BY <1>1, <1>2, <1>4, <1>5, NextSplit

(* With one relay replica, an event that was committed before another's row
   was inserted comes before it in the partition. *)
THEOREM OrderSafe ==
  ASSUME NEW r0, Relays = {r0}
  PROVE  Spec => []CommittedOrder
<1>1. Init => Order
  BY DEF Init, Order, EarlierIds, BatchesComplete, CommittedOrder
<1>2. IInv /\ Order /\ [Next]_vars => Order'
  BY NextOrder
<1>3. Order => CommittedOrder  BY DEF Order
<1> QED  BY <1>1, <1>2, <1>3, Invariance, PTL DEF Spec

-----------------------------------------------------------------------------
(* Repeats in the partition, for any number of relay replicas. *)

(* SKIP LOCKED: no row is in two drains, and none in a drain is marked. *)
BatchesApart ==
  \A r \in Relays :
    /\ batch[r] \cap published = {}
    /\ \A q \in Relays \ {r} : batch[r] \cap batch[q] = {}

Places(e) == {o \in 1 .. Len(log) : log[o] = e}

(* The row of e is marked, or will be when its drain commits. *)
Out(e) == e \in published \/ \E r \in Relays : e \in sent[r]

(* Every place of an event but one is owed to a failure; the one is there
   only while the row is marked or its drain is open. *)
PlacesOwed ==
  \A e \in Events : Cardinality(Places(e)) <= faults + (IF Out(e) THEN 1 ELSE 0)

Repeats == BatchesApart /\ PlacesOwed

(* The places of an event are finitely many. *)
LEMMA PlacesType ==
  ASSUME TypeOK, NEW e
  PROVE  IsFiniteSet(Places(e)) /\ Cardinality(Places(e)) \in Nat
<1>1. Len(log) \in Nat  BY DEF TypeOK
<1>2. IsFiniteSet(1 .. Len(log))  BY <1>1, FS_Interval
<1>3. Places(e) \subseteq 1 .. Len(log)  BY DEF Places
<1>4. IsFiniteSet(Places(e))  BY <1>2, <1>3, FS_Subset
<1> QED  BY <1>4, FS_CardinalityType

(* Faults only grow. *)
LEMMA FaultsGrow ==
  ASSUME TypeOK, faults' = faults \/ Fault
  PROVE  faults \in Nat /\ faults' \in Nat /\ faults <= faults'
  BY EventBusAssumption DEF TypeOK, Fault

(* A step that leaves the relays and the partition alone. *)
LEMMA RepeatsFrame ==
  ASSUME TypeOK, Repeats, UNCHANGED <<relay, log>>, faults' = faults \/ Fault
  PROVE  Repeats'
<1>1. BatchesApart'  BY DEF Repeats, BatchesApart, relay
<1>2. ASSUME NEW e \in Events
      PROVE  Cardinality(Places(e)') <= faults' + (IF Out(e)' THEN 1 ELSE 0)
  <2>1. Places(e)' = Places(e) /\ Out(e)' = Out(e)  BY DEF Places, Out, relay
  <2>2. Cardinality(Places(e)) \in Nat  BY PlacesType
  <2>3. faults \in Nat /\ faults' \in Nat /\ faults <= faults'  BY FaultsGrow
  <2>4. Cardinality(Places(e)) <= faults + (IF Out(e) THEN 1 ELSE 0)
    BY DEF Repeats, PlacesOwed
  <2> QED  BY <2>1, <2>2, <2>3, <2>4
<1> QED  BY <1>1, <1>2 DEF Repeats, PlacesOwed

(* A drain takes rows that are neither marked nor in another drain. *)
LEMMA SelectRepeats ==
  ASSUME IInv, Repeats, NEW r \in Relays, SelectBatch(r)
  PROVE  Repeats'
<1>1. /\ batch' = [batch EXCEPT ![r] = FirstBatch(Candidates)]
      /\ UNCHANGED <<published, sent, log, faults>>
  BY DEF SelectBatch
<1>2. \A e \in FirstBatch(Candidates) :
        e \notin published /\ \A q \in Relays : e \notin batch[q]
  BY DEF FirstBatch, Candidates
<1>3. BatchesApart'
  BY <1>1, <1>2 DEF IInv, TypeOK, Repeats, BatchesApart
<1>4. PlacesOwed'
  BY <1>1 DEF Repeats, PlacesOwed, Places, Out
<1> QED  BY <1>3, <1>4 DEF Repeats

(* A published row was not out before: its drain alone holds it. *)
LEMMA PublishRepeats ==
  ASSUME IInv, Repeats, NEW r \in Relays, NEW f \in Events, Publish(r, f)
  PROVE  Repeats'
<1> USE DEF IInv
<1>1. /\ log' = Append(log, f) /\ sent' = [sent EXCEPT ![r] = @ \cup {f}]
      /\ UNCHANGED <<published, batch, faults>> /\ f \in batch[r] /\ f \notin sent[r]
  BY DEF Publish, NextRow
<1>2. /\ Len(log) \in Nat /\ Len(log') = Len(log) + 1
      /\ \A o \in 1 .. Len(log) : log'[o] = log[o]
      /\ log'[Len(log) + 1] = f
  BY <1>1, AppendKeeps DEF TypeOK
<1>3. BatchesApart'  BY <1>1 DEF Repeats, BatchesApart
<1>4. ~ Out(f)
  BY <1>1 DEF Repeats, BatchesApart, Out, Outbox, RowsCommitted
<1>5. ASSUME NEW e \in Events
      PROVE  Cardinality(Places(e)') <= faults' + (IF Out(e)' THEN 1 ELSE 0)
  <2>1. Cardinality(Places(e)) <= faults + (IF Out(e) THEN 1 ELSE 0)
    BY DEF Repeats, PlacesOwed
  <2>2. faults' = faults /\ faults \in Nat
    BY <1>1, EventBusAssumption DEF TypeOK
  <2>3. IsFiniteSet(Places(e)) /\ Cardinality(Places(e)) \in Nat  BY PlacesType
  <2>4. CASE e = f
    <3>1. Places(e)' = Places(e) \cup {Len(log) + 1}
      BY <1>2, <2>4 DEF Places
    <3>2. Len(log) + 1 \notin Places(e)  BY <1>2 DEF Places
    <3>3. Cardinality(Places(e) \cup {Len(log) + 1}) = Cardinality(Places(e)) + 1
      BY <2>3, <3>2, FS_AddElement
    <3>4. Out(e)'  BY <1>1, <2>4 DEF Out, TypeOK
    <3> QED  BY <1>4, <2>1, <2>2, <2>3, <2>4, <3>1, <3>3, <3>4
  <2>5. CASE e # f
    <3>1. Places(e)' = Places(e)
      BY <1>2, <2>5 DEF Places
    <3>2. Out(e) => Out(e)'
      BY <1>1 DEF Out, TypeOK
    <3> QED  BY <2>1, <2>2, <2>3, <3>1, <3>2
  <2> QED  BY <2>4, <2>5
<1> QED  BY <1>3, <1>5 DEF Repeats, PlacesOwed

(* A commit marks what was sent. *)
LEMMA CommitRepeats ==
  ASSUME IInv, Repeats, NEW r \in Relays, CommitDrain(r)
  PROVE  Repeats'
<1>1. /\ sent[r] = batch[r] /\ published' = published \cup sent[r]
      /\ batch' = [batch EXCEPT ![r] = {}] /\ sent' = [sent EXCEPT ![r] = {}]
      /\ UNCHANGED <<log, faults>>
  BY DEF CommitDrain
<1>2. BatchesApart'
  BY <1>1 DEF IInv, TypeOK, Repeats, BatchesApart
<1>3. \A e \in Events : Out(e)' = Out(e)
  BY <1>1 DEF IInv, TypeOK, Out
<1>4. PlacesOwed'
  BY <1>1, <1>3 DEF Repeats, PlacesOwed, Places
<1> QED  BY <1>2, <1>4 DEF Repeats

(* A failure pays for the rows that its drain had sent. *)
LEMMA FailRepeats ==
  ASSUME IInv, Repeats, NEW r \in Relays, DrainFails(r)
  PROVE  Repeats'
<1>1. /\ batch' = [batch EXCEPT ![r] = {}] /\ sent' = [sent EXCEPT ![r] = {}]
      /\ UNCHANGED <<published, log>> /\ Fault
  BY DEF DrainFails
<1>2. BatchesApart'
  BY <1>1 DEF IInv, TypeOK, Repeats, BatchesApart
<1>3. ASSUME NEW e \in Events
      PROVE  Cardinality(Places(e)') <= faults' + (IF Out(e)' THEN 1 ELSE 0)
  <2>1. Cardinality(Places(e)) <= faults + (IF Out(e) THEN 1 ELSE 0)
    BY DEF Repeats, PlacesOwed
  <2>2. faults' = faults + 1 /\ faults \in Nat
    BY <1>1, EventBusAssumption DEF IInv, TypeOK, Fault
  <2>3. Cardinality(Places(e)) \in Nat  BY PlacesType DEF IInv
  <2>4. Places(e)' = Places(e)  BY <1>1 DEF Places
  <2> QED  BY <2>1, <2>2, <2>3, <2>4
<1> QED  BY <1>2, <1>3 DEF Repeats, PlacesOwed

LEMMA NextRepeats ==
  ASSUME IInv, Repeats, [Next]_vars
  PROVE  Repeats'
<1>1. TypeOK  BY DEF IInv
<1>2. ASSUME NEW e \in Events, ProducerStep(e) PROVE Repeats'
  BY <1>1, <1>2, RepeatsFrame DEF ProducerStep, Enqueue, EndTx
<1>3. ASSUME NEW r \in Relays, RelayStep(r) PROVE Repeats'
  BY <1>3, SelectRepeats, PublishRepeats, CommitRepeats, FailRepeats
     DEF RelayStep, drain
<1>4. ASSUME NEW c \in Consumers, ConsumerStep(c) PROVE Repeats'
  <2>1. UNCHANGED <<relay, log>>
    BY <1>4, ConsumerFrame DEF BusUnchanged
  <2>2. faults' = faults \/ Fault
    BY <1>4 DEF ConsumerStep, process, AlreadyProcessed, HandlerSucceeds, toDLQ,
         MarkProcessed, CommitMessages, CheckFails, HandlerFails, toDLQFails,
         Restart, Rebalance
  <2> QED  BY <1>1, <2>1, <2>2, RepeatsFrame
<1>5. CASE UNCHANGED vars
  BY <1>1, <1>5, RepeatsFrame DEF vars
<1> QED  BY <1>2, <1>3, <1>4, <1>5, NextSplit

(* However many relay replicas drain one outbox, an event is in the partition
   more than once only because a failure undid the drain that had sent it. *)
THEOREM RepeatsSafe == Spec => []RepeatedOnlyAfterFault
<1>1. Init => Repeats
  <2> SUFFICES ASSUME Init PROVE Repeats  OBVIOUS
  <2>1. BatchesApart  BY DEF Init, BatchesApart
  <2>2. faults = 0  BY DEF Init
  <2>3. PlacesOwed
    <3> SUFFICES ASSUME NEW e \in Events
                 PROVE  Cardinality(Places(e)) <= faults + (IF Out(e) THEN 1 ELSE 0)
      BY DEF PlacesOwed
    <3>1. Places(e) = {}  BY DEF Init, Places
    <3>2. Cardinality(Places(e)) = 0  BY <3>1, FS_EmptySet
    <3> QED  BY <2>2, <3>2
  <2> QED  BY <2>1, <2>3 DEF Repeats
<1>2. IInv /\ Repeats /\ [Next]_vars => Repeats'  BY NextRepeats
<1>3. IInv /\ Repeats => RepeatedOnlyAfterFault
  <2> SUFFICES ASSUME IInv, Repeats, NEW e \in Events
               PROVE  Cardinality({o \in 1 .. Len(log) : log[o] = e}) <= 1 + faults
    BY DEF RepeatedOnlyAfterFault
  <2>1. TypeOK  BY DEF IInv
  <2>2. Cardinality(Places(e)) \in Nat  BY <2>1, PlacesType
  <2>3. faults \in Nat  BY <2>1, EventBusAssumption DEF TypeOK
  <2>4. Cardinality(Places(e)) <= 1 + faults
    BY <2>2, <2>3 DEF Repeats, PlacesOwed
  <2> QED  BY <2>4 DEF Places
<1> QED  BY <1>1, <1>2, <1>3, Invariance, PTL DEF Spec
=============================================================================
