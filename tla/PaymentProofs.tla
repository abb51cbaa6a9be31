--------------------------- MODULE PaymentProofs ---------------------------
(***************************************************************************)
(* The payment service's safety for any number of intents, keys and        *)
(* concurrent handlers: the guarded update is a lock on the capture.       *)
(***************************************************************************)
EXTENDS Payment, FiniteSetTheorems, TLAPS

(* A handler's progress fits its request. *)
Progress ==
  \A h \in Handlers :
    /\ pc[h] # "idle" => req[h] \in Requests
    /\ pc[h] \in {"intent", "insert"} => req[h].op = "create"
    /\ pc[h] \in {"mark", "marked"} => req[h].op \in {"confirm", "webhook"}
    /\ pc[h] \in {"event", "read", "captured"} => req[h].op = "webhook"
    /\ pc[h] = "insert" => req[h].intent \in Intents

(* Whoever marked a row holds it, and it is still 'processing' for others. *)
MarkedOwned ==
  \A h \in Handlers : pc[h] = "marked" =>
    rowLock[req[h].intent] = h /\ row[req[h].intent] = "processing"

(* A webhook that found the payment captured was right, for good. *)
CapturedSeen ==
  \A h \in Handlers : pc[h] = "captured" => row[req[h].intent] = "succeeded"

(* A key names one row. *)
KeysUnique ==
  \A i, j \in Intents :
    row[i] # "none" /\ row[j] # "none" /\ rowKey[i] = rowKey[j] /\ rowKey[i] # None
      => i = j

(* A recorded event's payment is captured. *)
RecordedCaptured == \A i \in recorded : row[i] = "succeeded"

IInv ==
  /\ TypeOK /\ Progress /\ MarkedOwned /\ CapturedSeen
  /\ OneDepositPerPayment /\ KeysUnique
  /\ AcknowledgedIsCaptured /\ RecordedCaptured

(* The parts of a request that its operation fixes. *)
LEMMA RequestParts ==
  ASSUME NEW r \in Requests
  PROVE  /\ r.op \in {"create", "confirm", "webhook"}
         /\ r.op \in {"confirm", "webhook"} => r.intent \in Intents
         /\ r.op = "create" =>
              /\ r.key \in Keys \cup {None} /\ r.cents \in Nat
              /\ r.intent \in Intents \cup {None}
  BY PaymentAssumption DEF Requests

(* A step of h that leaves tables and other handlers alone, and after which h
   knows nothing it must keep true, preserves the invariant. *)
Quiet(h) ==
  /\ \A g \in Handlers \ {h} :
       /\ pc'[g] = pc[g] /\ req'[g] = req[g]
       /\ \A i \in Intents : rowLock[i] = g => rowLock'[i] = g
  /\ pc'[h] # "marked"

(* An answer leaves the other handlers their progress and their rows. *)
LEMMA AnswerFrame ==
  ASSUME TypeOK, NEW h \in Handlers, Answer(h)
  PROVE  /\ pc' \in [Handlers -> {"idle", "intent", "insert", "mark", "marked",
                                  "event", "read", "captured"}]
         /\ req' \in [Handlers -> Requests \cup {None}]
         /\ rowLock' \in [Intents -> Handlers \cup {None}]
         /\ eventLock' \in [Intents -> Handlers \cup {None}]
         /\ pc'[h] = "idle" /\ Quiet(h)
  BY PaymentAssumption DEF TypeOK, Answer, Goto, Unlock, Quiet

(* What a marked handler knows of its row. *)
LEMMA MarkedFacts ==
  ASSUME IInv, NEW h \in Handlers, pc[h] = "marked"
  PROVE  /\ req[h].intent \in Intents
         /\ row[req[h].intent] = "processing"
         /\ \A g \in Handlers \ {h} : pc[g] = "marked" =>
              req[g].intent # req[h].intent
  BY RequestParts DEF IInv, Progress, MarkedOwned

(* A capture moves one payment, once. *)
LEMMA CaptureOK ==
  ASSUME IInv, NEW h \in Handlers, pc[h] = "marked", Capture(h), Answer(h),
         UNCHANGED <<stripe, intentKey, intentCents, rowKey, rowCents>>,
         \/ UNCHANGED <<recorded, acked>>
         \/ RecordEvent(h)
  PROVE  IInv'
<1> DEFINE i == req[h].intent
<1>1. /\ i \in Intents /\ row[i] = "processing"
      /\ \A g \in Handlers \ {h} : pc[g] = "marked" => req[g].intent # i
  BY MarkedFacts
<1>2. TypeOK /\ TypeOK'
  <2>1. /\ row' \in [Intents -> {"none", "processing", "succeeded"}]
        /\ deposits' \in [Intents -> Nat]
        /\ recorded' \subseteq Intents /\ acked' \subseteq Intents
    BY <1>1 DEF Capture, RecordEvent, IInv, TypeOK
  <2> QED BY <2>1, AnswerFrame DEF IInv, TypeOK
<1>3. /\ row'[i] = "succeeded" /\ deposits'[i] = deposits[i] + 1
      /\ \A j \in Intents \ {i} : row'[j] = row[j] /\ deposits'[j] = deposits[j]
      /\ pc'[h] = "idle" /\ Quiet(h)
  BY <1>1, <1>2, AnswerFrame DEF Capture, TypeOK
<1>4. Progress'
  BY <1>3 DEF IInv, Progress, Quiet
<1>5. MarkedOwned'
  <2> SUFFICES ASSUME NEW g \in Handlers \ {h}, pc[g] = "marked"
               PROVE  rowLock'[req[g].intent] = g /\ row'[req[g].intent] = "processing"
    BY <1>3 DEF MarkedOwned, Quiet
  <2>1. /\ req[g].intent \in Intents /\ req[g].intent # i
        /\ rowLock[req[g].intent] = g /\ row[req[g].intent] = "processing"
    BY <1>1, MarkedFacts DEF IInv, MarkedOwned
  <2> QED BY <1>3, <2>1 DEF Quiet
<1>6. CapturedSeen'
  <2> SUFFICES ASSUME NEW g \in Handlers \ {h}, pc[g] = "captured"
               PROVE  row'[req[g].intent] = "succeeded"
    BY <1>3 DEF CapturedSeen, Quiet
  <2>1. req[g].intent \in Intents /\ row[req[g].intent] = "succeeded"
    BY RequestParts DEF IInv, Progress, CapturedSeen
  <2> QED BY <1>3, <2>1
<1>7. OneDepositPerPayment'
  BY <1>1, <1>3 DEF IInv, OneDepositPerPayment
<1>8. KeysUnique'
  BY <1>1, <1>3 DEF IInv, KeysUnique
<1>9. AcknowledgedIsCaptured' /\ RecordedCaptured'
  BY <1>1, <1>2, <1>3
  DEF IInv, AcknowledgedIsCaptured, RecordedCaptured, RecordEvent, TypeOK
<1> QED BY <1>2, <1>4, <1>5, <1>6, <1>7, <1>8, <1>9 DEF IInv

(* A step that leaves the payments alone, and records or acknowledges only
   events of captured ones, keeps the invariant when what it says of h's own
   progress holds. *)
LEMMA ControlOK ==
  ASSUME IInv, NEW h \in Handlers, TypeOK',
         UNCHANGED <<row, rowKey, rowCents, deposits>>,
         recorded' \subseteq recorded \cup {i \in Intents : row[i] = "succeeded"},
         acked' \subseteq acked \cup {i \in Intents : row[i] = "succeeded"},
         \A g \in Handlers \ {h} :
           /\ pc'[g] = pc[g] /\ req'[g] = req[g]
           /\ \A i \in Intents : rowLock[i] = g => rowLock'[i] = g,
         pc'[h] # "idle" => req'[h] \in Requests,
         pc'[h] \in {"intent", "insert"} => req'[h].op = "create",
         pc'[h] \in {"mark", "marked"} => req'[h].op \in {"confirm", "webhook"},
         pc'[h] \in {"event", "read", "captured"} => req'[h].op = "webhook",
         pc'[h] = "insert" => req'[h].intent \in Intents,
         pc'[h] = "marked" => rowLock'[req'[h].intent] = h
                              /\ row[req'[h].intent] = "processing",
         pc'[h] = "captured" => row[req'[h].intent] = "succeeded"
  PROVE  IInv'
<1>1. Progress'
  BY DEF IInv, Progress
<1>2. MarkedOwned'
  <2>1. \A g \in Handlers \ {h} : pc[g] = "marked" => req[g].intent \in Intents
    BY MarkedFacts
  <2> QED BY <2>1 DEF IInv, MarkedOwned
<1>3. CapturedSeen'
  BY DEF IInv, CapturedSeen
<1>4. /\ OneDepositPerPayment' /\ KeysUnique'
      /\ AcknowledgedIsCaptured' /\ RecordedCaptured'
  BY DEF IInv, OneDepositPerPayment, KeysUnique, AcknowledgedIsCaptured,
         RecordedCaptured
<1> QED BY <1>1, <1>2, <1>3, <1>4 DEF IInv

(* Inserting a payment keeps keys unique. *)
LEMMA InsertOK ==
  ASSUME IInv, NEW h \in Handlers, InsertPayment(h)
  PROVE  IInv'
<1> DEFINE i == req[h].intent
<1>1. /\ i \in Intents /\ req[h].key \in Keys \cup {None} /\ req[h].cents \in Nat
      /\ row[i] = "none" /\ InsertAdmits(h)
  BY RequestParts DEF IInv, Progress, InsertPayment, InsertAdmits
<1>2. TypeOK /\ TypeOK'
  <2>1. /\ row' \in [Intents -> {"none", "processing", "succeeded"}]
        /\ rowKey' \in [Intents -> Keys \cup {None}]
        /\ rowCents' \in [Intents -> Nat]
    BY <1>1 DEF InsertPayment, IInv, TypeOK
  <2> QED BY <2>1, AnswerFrame DEF InsertPayment, IInv, TypeOK, stripeSide
<1>3. /\ row'[i] = "processing" /\ rowKey'[i] = req[h].key
      /\ \A j \in Intents \ {i} : row'[j] = row[j] /\ rowKey'[j] = rowKey[j]
      /\ pc'[h] = "idle" /\ Quiet(h)
      /\ UNCHANGED <<recorded, deposits, acked>>
  BY <1>1, <1>2, AnswerFrame DEF InsertPayment, TypeOK, stripeSide
<1>4. Progress'
  BY <1>3 DEF IInv, Progress, Quiet
<1>5. MarkedOwned'
  <2> SUFFICES ASSUME NEW g \in Handlers \ {h}, pc[g] = "marked"
               PROVE  rowLock'[req[g].intent] = g /\ row'[req[g].intent] = "processing"
    BY <1>3 DEF MarkedOwned, Quiet
  <2>1. /\ req[g].intent \in Intents /\ row[req[g].intent] = "processing"
        /\ rowLock[req[g].intent] = g
    BY MarkedFacts DEF IInv, MarkedOwned
  <2> QED BY <1>1, <1>3, <2>1 DEF Quiet
<1>6. CapturedSeen'
  <2> SUFFICES ASSUME NEW g \in Handlers \ {h}, pc[g] = "captured"
               PROVE  row'[req[g].intent] = "succeeded"
    BY <1>3 DEF CapturedSeen, Quiet
  <2>1. req[g].intent \in Intents /\ row[req[g].intent] = "succeeded"
    BY RequestParts DEF IInv, Progress, CapturedSeen
  <2> QED BY <1>1, <1>3, <2>1
<1>7. OneDepositPerPayment'
  BY <1>1, <1>3 DEF IInv, OneDepositPerPayment
<1>8. KeysUnique'
  BY <1>1, <1>3 DEF IInv, KeysUnique, InsertAdmits, KeyRows
<1>9. AcknowledgedIsCaptured' /\ RecordedCaptured'
  BY <1>1, <1>2, <1>3 DEF IInv, AcknowledgedIsCaptured, RecordedCaptured, TypeOK
<1> QED BY <1>2, <1>4, <1>5, <1>6, <1>7, <1>8, <1>9 DEF IInv

(* The initial state satisfies the inductive invariant. *)
LEMMA InitIInv ==
  ASSUME Init
  PROVE  IInv
  BY PaymentAssumption
  DEF Init, IInv, TypeOK, Progress, MarkedOwned, CapturedSeen,
      OneDepositPerPayment, KeysUnique, AcknowledgedIsCaptured, RecordedCaptured

(* Every step of a handler preserves the inductive invariant. *)
LEMMA HandlerOK ==
  ASSUME IInv, NEW h \in Handlers,
         \/ CreateLookup(h) \/ ConfirmReceive(h)
         \/ \E i \in Intents : WebhookReceive(h, i)
         \/ Step(h) \/ Rollback(h)
  PROVE  IInv'
<1> USE DEF tables, stripeSide, locks
<1>0. TypeOK
  BY DEF IInv
<1>1. CASE CreateLookup(h)
  <2>1. PICK k \in Keys \cup {None}, a \in Amounts :
          /\ req' = [req EXCEPT ![h] = [op |-> "create", key |-> k, cents |-> a,
                                        intent |-> None]]
          /\ pc' = [pc EXCEPT ![h] = "intent"]
          /\ UNCHANGED <<stripeSide, tables, locks>>
    BY <1>1 DEF CreateLookup, Goto
  <2>2. [op |-> "create", key |-> k, cents |-> a, intent |-> None] \in Requests
    BY DEF Requests
  <2>3. TypeOK'
    BY <1>0, <2>1, <2>2 DEF TypeOK
  <2> QED BY <1>0, <2>1, <2>2, <2>3, ControlOK DEF TypeOK
<1>2. CASE ConfirmReceive(h) \/ \E i \in Intents : WebhookReceive(h, i)
  <2>1. PICK i \in Intents, o \in {"confirm", "webhook"} :
          /\ req' = [req EXCEPT ![h] = [op |-> o, intent |-> i]]
          /\ pc' = [pc EXCEPT ![h] = IF o = "confirm" THEN "mark" ELSE "event"]
          /\ UNCHANGED <<stripeSide, tables, locks>>
    BY <1>2 DEF ConfirmReceive, WebhookReceive, Goto
  <2>2. [op |-> o, intent |-> i] \in Requests
    BY DEF Requests
  <2>3. TypeOK'
    BY <1>0, <2>1, <2>2 DEF TypeOK
  <2> QED BY <1>0, <2>1, <2>2, <2>3, ControlOK DEF TypeOK
<1>3. CASE CreateIntent(h)
  <2>1. PICK i \in Intents :
          /\ req' = [req EXCEPT ![h].intent = i]
          /\ pc[h] = "intent" /\ pc' = [pc EXCEPT ![h] = "insert"]
          /\ UNCHANGED <<acked, tables, locks>>
          /\ \/ /\ stripe' = [stripe EXCEPT ![i] = "created"]
                /\ intentKey' = [intentKey EXCEPT ![i] = req[h].key]
                /\ intentCents' = [intentCents EXCEPT ![i] = req[h].cents]
             \/ UNCHANGED <<stripe, intentKey, intentCents>>
    BY <1>3 DEF CreateIntent, Goto
  <2>2. /\ req[h] \in Requests /\ req[h].op = "create"
        /\ req[h].key \in Keys \cup {None} /\ req[h].cents \in Nat
    BY <2>1, RequestParts DEF IInv, Progress
  <2>3. /\ [req[h] EXCEPT !.intent = i] \in Requests
        /\ [req[h] EXCEPT !.intent = i].op = "create"
        /\ [req[h] EXCEPT !.intent = i].intent = i
    BY <2>2 DEF Requests
  <2>4. req' = [req EXCEPT ![h] = [req[h] EXCEPT !.intent = i]]
    BY <1>0, <2>1
  <2>5. /\ req' \in [Handlers -> Requests \cup {None}]
        /\ req'[h] = [req[h] EXCEPT !.intent = i]
        /\ \A g \in Handlers \ {h} : req'[g] = req[g]
    <3> DEFINE r == [req[h] EXCEPT !.intent = i]
    <3>1. r \in Requests /\ req' = [req EXCEPT ![h] = r]
      BY <2>3, <2>4
    <3> HIDE DEF r
    <3>2. /\ req' \in [Handlers -> Requests \cup {None}]
          /\ req'[h] = r
          /\ \A g \in Handlers \ {h} : req'[g] = req[g]
      BY <1>0, <3>1 DEF TypeOK
    <3> QED BY <3>2 DEF r
  <2>6. TypeOK'
    BY <1>0, <2>1, <2>2, <2>5 DEF TypeOK
  <2> QED BY <1>0, <2>1, <2>3, <2>5, <2>6, ControlOK DEF TypeOK
<1>4. CASE InsertPayment(h)
  BY <1>4, InsertOK
<1>5. CASE Answer(h) /\ UNCHANGED <<stripeSide, tables>>
  <2>1. TypeOK'
    BY <1>0, <1>5, AnswerFrame DEF TypeOK
  <2> QED BY <1>0, <1>5, <2>1, AnswerFrame, ControlOK DEF Quiet
<1>6. CASE MarkSucceeded(h)
  <2>1. req[h].intent \in Intents
    BY <1>6, RequestParts DEF IInv, Progress, MarkSucceeded
  <2>2. TypeOK'
    BY <1>0, <1>6, <2>1 DEF TypeOK, MarkSucceeded, Goto
  <2>3. \A g \in Handlers : g # None
    BY PaymentAssumption
  <2> QED BY <1>0, <1>6, <2>1, <2>2, <2>3, ControlOK
      DEF MarkSucceeded, Marks, Goto, TypeOK, IInv, Progress
<1>7. CASE ConfirmPayment(h)
  BY <1>7, CaptureOK DEF ConfirmPayment
<1>8. CASE InsertStripeEvent(h)
  <2>1. req[h].intent \in Intents
    BY <1>8, RequestParts DEF IInv, Progress, InsertStripeEvent
  <2>2. TypeOK'
    BY <1>0, <1>8, <2>1 DEF TypeOK, InsertStripeEvent, Goto
  <2> QED BY <1>0, <1>8, <2>2, ControlOK
      DEF InsertStripeEvent, Goto, TypeOK, IInv, Progress
<1>9. CASE DuplicateEvent(h)
  <2>1. /\ req[h].intent \in recorded
        /\ acked' = acked \cup {req[h].intent} /\ Answer(h)
        /\ UNCHANGED <<stripe, intentKey, intentCents, tables>>
    BY <1>9 DEF DuplicateEvent
  <2>2. req[h].intent \in Intents /\ row[req[h].intent] = "succeeded"
    BY <1>0, <2>1 DEF IInv, RecordedCaptured, TypeOK
  <2>3. TypeOK'
    BY <1>0, <2>1, <2>2, AnswerFrame DEF TypeOK
  <2> QED BY <1>0, <2>1, <2>2, <2>3, AnswerFrame, ControlOK DEF Quiet
<1>10. CASE ReadRow(h) /\ ~ Answer(h)
  <2>1. /\ pc[h] = "read" /\ row[req[h].intent] # "none"
        /\ pc' = [pc EXCEPT ![h] = IF row[req[h].intent] = "processing"
                                   THEN "mark" ELSE "captured"]
        /\ UNCHANGED <<req, locks, stripeSide, tables>>
    BY <1>10 DEF ReadRow, Goto
  <2>2. req[h].intent \in Intents /\ req[h].op = "webhook"
    BY <2>1, RequestParts DEF IInv, Progress
  <2>3. TypeOK'
    BY <1>0, <2>1 DEF TypeOK
  <2>4. row[req[h].intent] \in {"processing", "succeeded"}
    BY <1>0, <2>1, <2>2 DEF TypeOK
  <2> QED BY <1>0, <2>1, <2>2, <2>3, <2>4, ControlOK DEF TypeOK, IInv, Progress
<1>11. CASE HandleWebhook(h)
  <2>1. CASE pc[h] = "marked" /\ Capture(h)
    BY <1>11, <2>1, CaptureOK DEF HandleWebhook
  <2>2. CASE pc[h] = "captured" /\ UNCHANGED <<row, deposits>>
    <3>1. req[h].intent \in Intents /\ row[req[h].intent] = "succeeded"
      BY <2>2, RequestParts DEF IInv, Progress, CapturedSeen
    <3>2. /\ recorded' = recorded \cup {req[h].intent}
          /\ acked' = acked \cup {req[h].intent} /\ Answer(h)
          /\ UNCHANGED <<stripe, intentKey, intentCents, row, rowKey, rowCents,
                         deposits>>
      BY <1>11, <2>2 DEF HandleWebhook, RecordEvent
    <3>3. TypeOK'
      BY <1>0, <3>1, <3>2, AnswerFrame DEF TypeOK
    <3> QED BY <1>0, <3>1, <3>2, <3>3, AnswerFrame, ControlOK DEF Quiet
  <2> QED BY <1>11, <2>1, <2>2 DEF HandleWebhook
<1>12. ReadRow(h) /\ Answer(h) => UNCHANGED <<stripeSide, tables>>
  BY DEF ReadRow
<1> QED BY <1>1, <1>2, <1>3, <1>4, <1>5, <1>6, <1>7, <1>8, <1>9, <1>10, <1>11,
           <1>12
    DEF Step, Rollback, InsertDuplicate, MarkNotFound

(* Every step preserves the inductive invariant. *)
LEMMA NextIInv ==
  ASSUME IInv, [Next]_vars
  PROVE  IInv'
<1>1. CASE UNCHANGED vars
  BY <1>1 DEF vars, stripeSide, tables, locks, IInv, TypeOK, Progress,
     MarkedOwned, CapturedSeen, OneDepositPerPayment, KeysUnique,
     AcknowledgedIsCaptured, RecordedCaptured
<1>2. CASE \E i \in Intents : Charge(i)
  <2>1. TypeOK'
    BY <1>2 DEF Charge, IInv, TypeOK, tables, locks
  <2> QED BY <1>2, <2>1
    DEF Charge, tables, locks, IInv, Progress, MarkedOwned, CapturedSeen,
        OneDepositPerPayment, KeysUnique, AcknowledgedIsCaptured,
        RecordedCaptured
<1>3. ASSUME NEW h \in Handlers,
             \/ CreateLookup(h) \/ ConfirmReceive(h)
             \/ \E i \in Intents : WebhookReceive(h, i)
             \/ Step(h) \/ Rollback(h)
      PROVE  IInv'
  BY <1>3, HandlerOK
<1> QED BY <1>1, <1>2, <1>3 DEF Next

(* Every reachable state satisfies the inductive invariant. *)
THEOREM Invariance == Spec => []IInv
  BY InitIInv, NextIInv, PTL DEF Spec

(* Stripe's side, the tables and the handlers are always well-typed. *)
THEOREM TypeCorrect == Spec => []TypeOK
<1>1. IInv => TypeOK
  BY DEF IInv
<1> QED BY <1>1, Invariance, PTL

(* The confirm call and the webhook never both deposit a payment, whatever
   the number of handlers, deliveries, retries and rollbacks. *)
THEOREM DepositsSafe == Spec => []OneDepositPerPayment
<1>1. IInv => OneDepositPerPayment
  BY DEF IInv
<1> QED BY <1>1, Invariance, PTL

(* An acknowledged event is never one whose deposit is missing. *)
THEOREM AcknowledgementsSafe == Spec => []AcknowledgedIsCaptured
<1>1. IInv => AcknowledgedIsCaptured
  BY DEF IInv
<1> QED BY <1>1, Invariance, PTL

(* An idempotency key names at most one payment. *)
THEOREM KeysSafe == Spec => []OnePaymentPerKey
<1>1. IInv => OnePaymentPerKey
  <2> SUFFICES ASSUME IInv, NEW k \in Keys
               PROVE  Cardinality(KeyRows(k)) <= 1
    BY DEF OnePaymentPerKey
  <2>1. CASE KeyRows(k) = {}
    BY <2>1, FS_EmptySet
  <2>2. CASE KeyRows(k) # {}
    <3>1. PICK i \in KeyRows(k) : TRUE
      BY <2>2
    <3>2. KeyRows(k) = {i}
      BY <3>1, PaymentAssumption DEF IInv, KeysUnique, KeyRows
    <3> QED BY <3>2, FS_Singleton
  <2> QED BY <2>1, <2>2
<1> QED BY <1>1, Invariance, PTL
=============================================================================
