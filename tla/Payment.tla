------------------------------ MODULE Payment ------------------------------
(***************************************************************************)
(* The payment service: PaymentIntents created at Stripe, payments rows in *)
(* status 'processing', and their capture, which the client's confirm call *)
(* and Stripe's webhook race to perform.  A row is named by its intent (a  *)
(* unique index).  Each request runs in a handler, statement by statement; *)
(* any transaction may roll back, and Stripe delivers an event any number  *)
(* of times until it is acknowledged.                                      *)
(***************************************************************************)
EXTENDS Integers, FiniteSets, Cents

CONSTANTS
  Intents,      \* PaymentIntents Stripe may create
  Keys,         \* non-empty idempotency keys
  Amounts,      \* amount_cents of requests
  Handlers,     \* requests served concurrently
  WebhookPath,  \* the path Stripe's endpoint is configured with
  ViaGateway,   \* whether webhooks enter through the gateway
  None

ASSUME PaymentAssumption ==
  /\ IsFiniteSet(Intents) /\ Amounts \subseteq Nat \ {0}
  /\ None \notin Intents /\ None \notin Keys /\ None \notin Handlers
  /\ ViaGateway \in BOOLEAN

VARIABLES
  stripe,      \* each intent at Stripe: "none", "created" or "charged"
  intentKey, intentCents, \* what the intent was created with
  acked,       \* intents whose event Stripe need not deliver again
  row,         \* payments.status by intent, "none" without a row
  rowKey, rowCents,
  recorded,    \* stripe_events, committed
  deposits,    \* committed deposit groups of each payment
  rowLock,     \* transaction with an uncommitted update of the row
  eventLock,   \* transaction with an uncommitted insert of the event
  pc, req      \* each handler's progress and request

stripeSide == <<stripe, intentKey, intentCents, acked>>
tables == <<row, rowKey, rowCents, recorded, deposits>>
locks == <<rowLock, eventLock>>
vars == <<stripeSide, tables, locks, pc, req>>

(* A handler's request: create (by key and amount), confirm or webhook (of an
   intent).  create.intent is the intent Stripe returned. *)
Requests ==
  [op : {"create"}, key : Keys \cup {None}, cents : Amounts,
   intent : Intents \cup {None}]
    \cup [op : {"confirm", "webhook"}, intent : Intents]

Init ==
  /\ stripe = [i \in Intents |-> "none"]
  /\ intentKey = [i \in Intents |-> None]
  /\ intentCents = [i \in Intents |-> 0]
  /\ acked = {}
  /\ row = [i \in Intents |-> "none"]
  /\ rowKey = [i \in Intents |-> None]
  /\ rowCents = [i \in Intents |-> 0]
  /\ recorded = {}
  /\ deposits = [i \in Intents |-> 0]
  /\ rowLock = [i \in Intents |-> None]
  /\ eventLock = [i \in Intents |-> None]
  /\ pc = [h \in Handlers |-> "idle"]
  /\ req = [h \in Handlers |-> None]

Goto(h, l) == pc' = [pc EXCEPT ![h] = l]

Unlock(l, h) == [i \in Intents |-> IF l[i] = h THEN None ELSE l[i]]

(* Mutant: a failed delivery's event stays locked. *)
AnswerKeepingEvent(h) ==
  /\ Goto(h, "idle")
  /\ req' = [req EXCEPT ![h] = None]
  /\ rowLock' = Unlock(rowLock, h)
  /\ UNCHANGED eventLock

(* The handler answers; its transaction, if any, has ended. *)
Answer(h) ==
  /\ Goto(h, "idle")
  /\ req' = [req EXCEPT ![h] = None]
  /\ rowLock' = Unlock(rowLock, h)
  /\ eventLock' = Unlock(eventLock, h)

-----------------------------------------------------------------------------
(* CreatePaymentIntent. *)

KeyRows(k) == {i \in Intents : row[i] # "none" /\ rowKey[i] = k}

(* The fast path returns the payment already stored under the key. *)
CreateLookup(h) ==
  \E k \in Keys \cup {None}, a \in Amounts :
    /\ pc[h] = "idle"
    /\ k = None \/ KeyRows(k) = {}
    /\ req' = [req EXCEPT ![h] = [op |-> "create", key |-> k, cents |-> a,
                                  intent |-> None]]
    /\ Goto(h, "intent")
    /\ UNCHANGED <<stripeSide, tables, locks>>

(* The call to Stripe, outside any transaction.  A fresh intent, or the one
   Stripe created before under the same key and amount. *)
CreateIntent(h) ==
  \E i \in Intents :
    /\ pc[h] = "intent"
    /\ \/ /\ stripe[i] = "none"
          /\ stripe' = [stripe EXCEPT ![i] = "created"]
          /\ intentKey' = [intentKey EXCEPT ![i] = req[h].key]
          /\ intentCents' = [intentCents EXCEPT ![i] = req[h].cents]
       \/ /\ stripe[i] # "none" /\ req[h].key # None
          /\ intentKey[i] = req[h].key /\ intentCents[i] = req[h].cents
          /\ UNCHANGED <<stripe, intentKey, intentCents>>
    /\ req' = [req EXCEPT ![h].intent = i]
    /\ Goto(h, "insert")
    /\ UNCHANGED <<acked, tables, locks>>

(* The unique indexes on idempotency_key and on the intent. *)
InsertAdmits(h) ==
  /\ row[req[h].intent] = "none"
  /\ req[h].key = None \/ KeyRows(req[h].key) = {}

InsertPayment(h) ==
  LET i == req[h].intent
  IN /\ pc[h] = "insert" /\ req[h].op = "create"
     /\ InsertAdmits(h)
     /\ row' = [row EXCEPT ![i] = "processing"]
     /\ rowKey' = [rowKey EXCEPT ![i] = req[h].key]
     /\ rowCents' = [rowCents EXCEPT ![i] = req[h].cents]
     /\ Answer(h)
     /\ UNCHANGED <<stripeSide, recorded, deposits>>

(* A duplicate rolls back and answers with the row that won. *)
InsertDuplicate(h) ==
  /\ pc[h] = "insert"
  /\ ~ InsertAdmits(h)
  /\ Answer(h)
  /\ UNCHANGED <<stripeSide, tables>>

-----------------------------------------------------------------------------
(* The guarded update both captures share. *)

(* Mutant: the update has no condition on the status. *)
MarksAnyStatus(h) == rowLock[req[h].intent] = None

(* UPDATE ... WHERE status = 'processing' waits for an uncommitted update of
   the row and then looks at the status again. *)
Marks(h) ==
  /\ rowLock[req[h].intent] = None
  /\ row[req[h].intent] = "processing"

MissesMark(h) ==
  /\ rowLock[req[h].intent] = None
  /\ row[req[h].intent] # "processing"

MarkSucceeded(h) ==
  /\ pc[h] = "mark"
  /\ Marks(h)
  /\ rowLock' = [rowLock EXCEPT ![req[h].intent] = h]
  /\ Goto(h, "marked")
  /\ UNCHANGED <<stripeSide, tables, eventLock, req>>

(* No row matched: ErrNotFound, the transaction rolls back. *)
MarkNotFound(h) ==
  /\ pc[h] = "mark"
  /\ MissesMark(h)
  /\ Answer(h)
  /\ UNCHANGED <<stripeSide, tables>>

(* The commit of the update and of writeDepositLedger's legs and event. *)
Capture(h) ==
  /\ row' = [row EXCEPT ![req[h].intent] = "succeeded"]
  /\ deposits' = [deposits EXCEPT ![req[h].intent] = @ + 1]

(* ConfirmPayment: a call by payment id, which a caller has once a row is
   committed.  Stripe is not consulted. *)
ConfirmReceive(h) ==
  \E i \in Intents :
    /\ pc[h] = "idle"
    /\ row[i] # "none"
    /\ req' = [req EXCEPT ![h] = [op |-> "confirm", intent |-> i]]
    /\ Goto(h, "mark")
    /\ UNCHANGED <<stripeSide, tables, locks>>

ConfirmPayment(h) ==
  /\ pc[h] = "marked" /\ req[h].op = "confirm"
  /\ Capture(h)
  /\ Answer(h)
  /\ UNCHANGED <<stripeSide, rowKey, rowCents, recorded>>

-----------------------------------------------------------------------------
(* HandleWebhook. *)

(* The paths on which the gateway lets an unauthenticated POST through, and
   the path the payment service serves webhooks on. *)
publicRoutes == {"/v1/payments/webhook/stripe"}
Routes == {"/v1/payments/webhooks/stripe"}

WebhookReaches ==
  /\ WebhookPath \in Routes
  /\ ViaGateway => WebhookPath \in publicRoutes

(* Stripe posts the event of a charged intent, again and again until it is
   acknowledged, and possibly once more after that. *)
WebhookReceive(h, i) ==
  /\ pc[h] = "idle"
  /\ WebhookReaches
  /\ stripe[i] = "charged"
  /\ req' = [req EXCEPT ![h] = [op |-> "webhook", intent |-> i]]
  /\ Goto(h, "event")
  /\ UNCHANGED <<stripeSide, tables, locks>>

(* INSERT ... ON CONFLICT DO NOTHING waits for an uncommitted insert of the
   same event.  A recorded event is acknowledged without effect. *)
InsertStripeEvent(h) ==
  LET i == req[h].intent
  IN /\ pc[h] = "event" /\ eventLock[i] = None
     /\ i \notin recorded
     /\ eventLock' = [eventLock EXCEPT ![i] = h]
     /\ Goto(h, "read")
     /\ UNCHANGED <<stripeSide, tables, rowLock, req>>

DuplicateEvent(h) ==
  LET i == req[h].intent
  IN /\ pc[h] = "event" /\ eventLock[i] = None
     /\ i \in recorded
     /\ acked' = acked \cup {i}
     /\ Answer(h)
     /\ UNCHANGED <<stripe, intentKey, intentCents, tables>>

(* Mutant: an event without a row is taken as handled. *)
ReadRowAcceptingNone(h) ==
  LET i == req[h].intent
  IN /\ pc[h] = "read"
     /\ Goto(h, IF row[i] = "processing" THEN "mark" ELSE "captured")
     /\ UNCHANGED <<req, locks, stripeSide, tables>>

(* GetPaymentByIntent: without a row the error makes Stripe retry. *)
ReadRow(h) ==
  LET i == req[h].intent
  IN /\ pc[h] = "read"
     /\ \/ /\ row[i] = "none"
           /\ Answer(h)
        \/ /\ row[i] # "none"
           /\ Goto(h, IF row[i] = "processing" THEN "mark" ELSE "captured")
           /\ UNCHANGED <<req, locks>>
     /\ UNCHANGED <<stripeSide, tables>>

RecordEvent(h) ==
  /\ recorded' = recorded \cup {req[h].intent}
  /\ acked' = acked \cup {req[h].intent}

HandleWebhook(h) ==
  /\ \/ pc[h] = "marked" /\ req[h].op = "webhook" /\ Capture(h)
     \/ pc[h] = "captured" /\ UNCHANGED <<row, deposits>>
  /\ RecordEvent(h)
  /\ Answer(h)
  /\ UNCHANGED <<stripe, intentKey, intentCents, rowKey, rowCents>>

-----------------------------------------------------------------------------
(* A failed statement or commit, an ended context or a crash. *)
Rollback(h) ==
  /\ pc[h] # "idle"
  /\ Answer(h)
  /\ UNCHANGED <<stripeSide, tables>>

(* The client pays the intent. *)
Charge(i) ==
  /\ stripe[i] = "created"
  /\ stripe' = [stripe EXCEPT ![i] = "charged"]
  /\ UNCHANGED <<intentKey, intentCents, acked, tables, locks, pc, req>>

(* What a handler does with a request it has. *)
Step(h) ==
  \/ CreateIntent(h) \/ InsertPayment(h) \/ InsertDuplicate(h)
  \/ MarkSucceeded(h) \/ MarkNotFound(h) \/ ConfirmPayment(h)
  \/ InsertStripeEvent(h) \/ DuplicateEvent(h) \/ ReadRow(h) \/ HandleWebhook(h)

Next ==
  \/ \E h \in Handlers :
       \/ CreateLookup(h) \/ ConfirmReceive(h)
       \/ \E i \in Intents : WebhookReceive(h, i)
       \/ Step(h) \/ Rollback(h)
  \/ \E i \in Intents : Charge(i)

(* Stripe delivers an event until it is acknowledged, and failures are not
   forever: a step attempted again and again is eventually taken. *)
Fairness ==
  \A h \in Handlers :
    /\ \A i \in Intents : SF_vars(WebhookReceive(h, i) /\ i \notin acked)
    /\ SF_vars(CreateIntent(h)) /\ SF_vars(InsertPayment(h) \/ InsertDuplicate(h))
    /\ SF_vars(MarkSucceeded(h) \/ MarkNotFound(h)) /\ SF_vars(ConfirmPayment(h))
    /\ SF_vars(InsertStripeEvent(h) \/ DuplicateEvent(h)) /\ SF_vars(ReadRow(h))
    /\ SF_vars(HandleWebhook(h))
    /\ WF_vars(Rollback(h))

Spec == Init /\ [][Next]_vars /\ Fairness

-----------------------------------------------------------------------------
(* Properties. *)

(* Type correctness of Stripe's side, the tables and the handlers. *)
TypeOK ==
  /\ stripe \in [Intents -> {"none", "created", "charged"}]
  /\ intentKey \in [Intents -> Keys \cup {None}]
  /\ intentCents \in [Intents -> Nat]
  /\ acked \subseteq Intents
  /\ row \in [Intents -> {"none", "processing", "succeeded"}]
  /\ rowKey \in [Intents -> Keys \cup {None}]
  /\ rowCents \in [Intents -> Nat]
  /\ recorded \subseteq Intents
  /\ deposits \in [Intents -> Nat]
  /\ rowLock \in [Intents -> Handlers \cup {None}]
  /\ eventLock \in [Intents -> Handlers \cup {None}]
  /\ pc \in [Handlers -> {"idle", "intent", "insert", "mark", "marked",
                          "event", "read", "captured"}]
  /\ req \in [Handlers -> Requests \cup {None}]

(* However confirm calls, webhook deliveries and their retries interleave, a
   payment's deposit reaches the ledger exactly when it succeeds, and once. *)
OneDepositPerPayment ==
  \A i \in Intents : deposits[i] = IF row[i] = "succeeded" THEN 1 ELSE 0

(* Two creations that race under one idempotency key leave one payment. *)
OnePaymentPerKey ==
  \A k \in Keys : Cardinality(KeyRows(k)) <= 1

(* Stripe stops retrying only once the deposit is in the ledger: an event
   that overtakes the payment's row, or loses to a confirm, is not lost. *)
AcknowledgedIsCaptured ==
  \A i \in acked : row[i] = "succeeded"

(* A payment the client paid is captured in the end. *)
CapturedWhenCharged ==
  \A i \in Intents :
    stripe[i] = "charged" /\ row[i] = "processing" ~> row[i] = "succeeded"
=============================================================================
