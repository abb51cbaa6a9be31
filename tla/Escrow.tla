------------------------------- MODULE Escrow -------------------------------
(***************************************************************************)
(* The escrow service: one account per contract whose held cents are       *)
(* funded, reserved for milestones, released to the freelancer or refunded *)
(* to the client.  Every operation is one Postgres transaction that locks  *)
(* the account row (SELECT ... FOR UPDATE), decides from what it reads     *)
(* under the lock, and writes balances, allocations, ledger legs and an    *)
(* outbox event in one commit.  Requests run concurrently in handlers; a   *)
(* transaction may roll back at any point before its commit.               *)
(***************************************************************************)
EXTENDS Integers, FiniteSets, Cents

CONSTANTS
  Contracts,    \* contracts, each with at most one escrow account
  Milestones,   \* milestone ids an allocation may name
  Weeks,        \* billing weeks an hourly release may name
  Keys,         \* non-empty idempotency keys of fund requests
  Amounts,      \* amount_cents of requests
  Handlers,     \* requests served concurrently
  MaxCents,     \* the largest BIGINT
  None          \* no key, no holder, no contract

ASSUME EscrowAssumption ==
  /\ IsFiniteSet(Milestones) /\ IsFiniteSet(Weeks)
  /\ Milestones \cap Weeks = {}
  /\ Amounts \subseteq Int
  /\ MaxCents \in Nat
  /\ None \notin Contracts /\ None \notin Keys /\ None \notin Handlers

VARIABLES
  exists,         \* whether the contract's escrow_accounts row is committed
  heldCents, releasedCents, refundedCents,
  status,         \* escrow_accounts.status
  allocStatus,    \* escrow_allocations.status by milestone or week
  allocCents,     \* escrow_allocations.amount_cents
  fundKeys,       \* escrow_fund_idempotency
  keyFunds,       \* history: committed funds by key
  ledger,         \* balance of each ledger account, the sum of its legs
  outbox,         \* cents announced by event type
  lock,           \* holder of the account's row lock
  pc, req,        \* each handler's progress and request
  snap            \* held_cents as LockEscrow returned it

account == <<exists, heldCents, releasedCents, refundedCents, status,
             allocStatus, allocCents, fundKeys, keyFunds, ledger, outbox>>
vars == <<account, lock, pc, req, snap>>

Targets == Milestones \cup Weeks

Statuses == {"held", "partially_released", "released", "refunded"}
Events   == {"escrow.funded", "escrow.released", "escrow.refunded"}
Kinds    == {"escrow", "escrow_contract", "freelancer_balance", "refunds"}

(* A ledger account: an account_kind, of a contract or of the platform. *)
LedgerAccounts == Kinds \X (Contracts \cup {None})

(* Requests that passed authentication, requireClient and decoding. *)
Requests ==
  [op : {"fund"}, contract : Contracts, target : Keys \cup {None},
   amount : Amounts]
    \cup [op : {"allocate", "releaseMilestone"}, contract : Contracts,
          target : Milestones, amount : Amounts]
    \cup [op : {"releaseHours"}, contract : Contracts, target : Weeks,
          amount : Amounts]
    \cup [op : {"refund"}, contract : Contracts, target : {None},
          amount : Amounts]

Init ==
  /\ exists = [c \in Contracts |-> FALSE]
  /\ heldCents = [c \in Contracts |-> 0]
  /\ releasedCents = [c \in Contracts |-> 0]
  /\ refundedCents = [c \in Contracts |-> 0]
  /\ status = [c \in Contracts |-> "held"]
  /\ allocStatus = [c \in Contracts |-> [t \in Targets |-> "none"]]
  /\ allocCents = [c \in Contracts |-> [t \in Targets |-> 0]]
  /\ fundKeys = [c \in Contracts |-> {}]
  /\ keyFunds = [c \in Contracts |-> [k \in Keys |-> 0]]
  /\ ledger = [a \in LedgerAccounts |-> 0]
  /\ outbox = [c \in Contracts |-> [e \in Events |-> 0]]
  /\ lock = [c \in Contracts |-> None]
  /\ pc = [h \in Handlers |-> "idle"]
  /\ req = [h \in Handlers |-> None]
  /\ snap = [h \in Handlers |-> 0]

-----------------------------------------------------------------------------
(* What a transaction reads under the row lock. *)

AllocationsIn(c, s) == {t \in Targets : allocStatus[c][t] = s}

SumHeldAllocations(c) == SumCents(AllocationsIn(c, "held"), allocCents[c])

(* Mutant: the reservations are not taken off. *)
AvailableIgnoringReservations(h) == snap[h]

(* held_cents - SUM(held allocations), from the row LockEscrow returned. *)
Available(h) == snap[h] - SumHeldAllocations(req[h].contract)

(* Mutant: a milestone's release takes the caller's amount. *)
CallerAmount(h) == req[h].amount

(* The amount a request moves: a milestone's release takes the allocation's
   amount, never the caller's. *)
MoveCents(h) == IF req[h].op = "releaseMilestone"
                THEN allocCents[req[h].contract][req[h].target]
                ELSE req[h].amount

(* Mutant: the idempotency key is not looked up. *)
AdmitsFundAlways(h) == req[h].op = "fund"

AdmitsFund(h) ==
  /\ req[h].op = "fund"
  /\ req[h].target \notin fundKeys[req[h].contract]

AdmitsAllocate(h) ==
  /\ req[h].op = "allocate"
  /\ allocStatus[req[h].contract][req[h].target] = "none"
  /\ req[h].amount <= Available(h)

AdmitsReleaseMilestone(h) ==
  /\ req[h].op = "releaseMilestone"
  /\ allocStatus[req[h].contract][req[h].target] = "held"
  /\ allocCents[req[h].contract][req[h].target] <= snap[h]
  /\ SumHeldAllocations(req[h].contract) <= snap[h]

AdmitsReleaseHours(h) ==
  /\ req[h].op = "releaseHours"
  /\ allocStatus[req[h].contract][req[h].target] = "none"
  /\ req[h].amount <= Available(h)

AdmitsRefund(h) ==
  /\ req[h].op = "refund"
  /\ req[h].amount <= Available(h)

Admits(h) ==
  \/ AdmitsFund(h) \/ AdmitsAllocate(h) \/ AdmitsReleaseMilestone(h)
  \/ AdmitsReleaseHours(h) \/ AdmitsRefund(h)

-----------------------------------------------------------------------------
(* The steps of a handler. *)

(* The handler starts on a request.  An amount that is not positive is
   refused before a transaction begins; {id} routes load the escrow first
   and answer 404 when it is missing. *)
Receive(h, r) ==
  /\ pc[h] = "idle"
  /\ r.amount > 0 \/ r.op = "releaseMilestone"
  /\ r.op = "fund" \/ exists[r.contract]
  /\ req' = [req EXCEPT ![h] = r]
  /\ pc' = [pc EXCEPT ![h] = "begun"]
  /\ UNCHANGED <<account, lock, snap>>

(* Mutant: a plain SELECT, without FOR UPDATE. *)
LockEscrowWithoutWaiting(h) ==
  /\ pc[h] = "begun"
  /\ lock' = [lock EXCEPT ![req[h].contract] = h]
  /\ snap' = [snap EXCEPT ![h] = heldCents[req[h].contract]]
  /\ pc' = [pc EXCEPT ![h] = "locked"]
  /\ UNCHANGED <<account, req>>

(* SELECT ... FOR UPDATE waits for the row's holder.  A fund's upsert takes
   the same lock, on the existing row or on the new row's unique key. *)
LockEscrow(h) ==
  /\ pc[h] = "begun"
  /\ lock[req[h].contract] = None
  /\ lock' = [lock EXCEPT ![req[h].contract] = h]
  /\ snap' = [snap EXCEPT ![h] = heldCents[req[h].contract]]
  /\ pc' = [pc EXCEPT ![h] = "locked"]
  /\ UNCHANGED <<account, req>>

(* The transaction's checks pass: it goes on to its writes. *)
Check(h) ==
  /\ pc[h] = "locked"
  /\ Admits(h)
  /\ pc' = [pc EXCEPT ![h] = "writing"]
  /\ UNCHANGED <<account, lock, req, snap>>

(* Mutant: the row lock outlives the transaction. *)
EndTxKeepingLock(h) ==
  /\ pc' = [pc EXCEPT ![h] = "idle"]
  /\ req' = [req EXCEPT ![h] = None]
  /\ snap' = [snap EXCEPT ![h] = 0]
  /\ UNCHANGED lock

(* The end of h's transaction, committed or rolled back. *)
EndTx(h) ==
  /\ lock' = [c \in Contracts |-> IF lock[c] = h THEN None ELSE lock[c]]
  /\ pc' = [pc EXCEPT ![h] = "idle"]
  /\ req' = [req EXCEPT ![h] = None]
  /\ snap' = [snap EXCEPT ![h] = 0]

(* A replay of what was already done, or a refusal: nothing is written. *)
Refuse(h) ==
  /\ pc[h] = "locked"
  /\ ~ Admits(h)
  /\ EndTx(h)
  /\ UNCHANGED account

(* A statement or the commit fails, the request's context ends, or the
   process dies: Postgres rolls the transaction back. *)
Rollback(h) ==
  /\ pc[h] # "idle"
  /\ EndTx(h)
  /\ UNCHANGED account

(* One balanced pair of ledger legs. *)
WriteLegs(from, to, a) ==
  ledger' = [ledger EXCEPT ![from] = @ - a, ![to] = @ + a]

Enqueue(c, e, a) == outbox' = [outbox EXCEPT ![c][e] = @ + a]

statusAfterRelease(remainingHeld) ==
  IF remainingHeld <= 0 THEN "released" ELSE "partially_released"

(* Mutant: a refund leaves the account 'held'. *)
StatusHeld(remainingHeld) == "held"

(* The status a refund leaves. *)
statusAfterRefund(remainingHeld) ==
  IF remainingHeld = 0 THEN "refunded" ELSE "held"

(* A fund adds to the balance and never looks at the status. *)
FundEscrow(h) ==
  LET c == req[h].contract
      k == req[h].target
      a == req[h].amount
  IN /\ pc[h] = "writing" /\ req[h].op = "fund"
     /\ heldCents[c] + a <= MaxCents
     /\ exists' = [exists EXCEPT ![c] = TRUE]
     /\ heldCents' = [heldCents EXCEPT ![c] = @ + a]
     /\ fundKeys' = [fundKeys EXCEPT ![c] = @ \cup ({k} \ {None})]
     /\ keyFunds' = [keyFunds EXCEPT ![c] =
                       [q \in Keys |-> IF q = k THEN @[q] + 1 ELSE @[q]]]
     /\ WriteLegs(<<"escrow", None>>, <<"escrow_contract", c>>, a)
     /\ Enqueue(c, "escrow.funded", a)
     /\ EndTx(h)
     /\ UNCHANGED <<releasedCents, refundedCents, status, allocStatus,
                    allocCents>>

AllocateToMilestone(h) ==
  LET c == req[h].contract
      t == req[h].target
  IN /\ pc[h] = "writing" /\ req[h].op = "allocate"
     /\ allocStatus[c][t] = "none"
     /\ allocStatus' = [allocStatus EXCEPT ![c][t] = "held"]
     /\ allocCents' = [allocCents EXCEPT ![c][t] = req[h].amount]
     /\ EndTx(h)
     /\ UNCHANGED <<exists, heldCents, releasedCents, refundedCents, status,
                    fundKeys, keyFunds, ledger, outbox>>

(* Mutant: released grows, held does not shrink. *)
ReleaseWithoutDebit(h, c, a) ==
  /\ releasedCents' = [releasedCents EXCEPT ![c] = @ + a]
  /\ releasedCents[c] + a <= MaxCents
  /\ status' = [status EXCEPT ![c] = statusAfterRelease(snap[h] - a)]
  /\ WriteLegs(<<"escrow", c>>, <<"freelancer_balance", c>>, a)
  /\ Enqueue(c, "escrow.released", a)
  /\ UNCHANGED heldCents

(* MoveHeldToReleased, the escrow_release legs and emitReleased.  The CHECK
   on held_cents and the BIGINT range refuse a row they exclude. *)
MoveHeldToReleased(h, c, a) ==
  /\ heldCents[c] >= a /\ releasedCents[c] + a <= MaxCents
  /\ heldCents' = [heldCents EXCEPT ![c] = @ - a]
  /\ releasedCents' = [releasedCents EXCEPT ![c] = @ + a]
  /\ status' = [status EXCEPT ![c] = statusAfterRelease(snap[h] - a)]
  /\ WriteLegs(<<"escrow", c>>, <<"freelancer_balance", c>>, a)
  /\ Enqueue(c, "escrow.released", a)

ReleaseMilestone(h) ==
  LET c == req[h].contract
      t == req[h].target
  IN /\ pc[h] = "writing" /\ req[h].op = "releaseMilestone"
     /\ allocStatus[c][t] = "held"
     /\ allocStatus' = [allocStatus EXCEPT ![c][t] = "released"]
     /\ MoveHeldToReleased(h, c, MoveCents(h))
     /\ EndTx(h)
     /\ UNCHANGED <<exists, refundedCents, allocCents, fundKeys, keyFunds>>

(* The allocation of a week is inserted and released in one transaction. *)
ReleaseHours(h) ==
  LET c == req[h].contract
      t == req[h].target
  IN /\ pc[h] = "writing" /\ req[h].op = "releaseHours"
     /\ allocStatus[c][t] = "none"
     /\ allocStatus' = [allocStatus EXCEPT ![c][t] = "released"]
     /\ allocCents' = [allocCents EXCEPT ![c][t] = MoveCents(h)]
     /\ MoveHeldToReleased(h, c, MoveCents(h))
     /\ EndTx(h)
     /\ UNCHANGED <<exists, refundedCents, fundKeys, keyFunds>>

(* Only unreserved cents go back to the client. *)
RefundEscrow(h) ==
  LET c == req[h].contract
      a == req[h].amount
  IN /\ pc[h] = "writing" /\ req[h].op = "refund"
     /\ heldCents[c] >= a /\ refundedCents[c] + a <= MaxCents
     /\ heldCents' = [heldCents EXCEPT ![c] = @ - a]
     /\ refundedCents' = [refundedCents EXCEPT ![c] = @ + a]
     /\ status' = [status EXCEPT ![c] = statusAfterRefund(snap[h] - a)]
     /\ WriteLegs(<<"escrow", c>>, <<"refunds", c>>, a)
     /\ Enqueue(c, "escrow.refunded", a)
     /\ EndTx(h)
     /\ UNCHANGED <<exists, releasedCents, allocStatus, allocCents, fundKeys,
                    keyFunds>>

Commit(h) ==
  \/ FundEscrow(h) \/ AllocateToMilestone(h) \/ ReleaseMilestone(h)
  \/ ReleaseHours(h) \/ RefundEscrow(h)

Step(h) == Check(h) \/ Refuse(h) \/ Commit(h) \/ Rollback(h)

Next ==
  \E h \in Handlers :
    \/ \E r \in Requests : Receive(h, r)
    \/ LockEscrow(h)
    \/ Step(h)

(* Postgres queues the waiters of a row lock, and a transaction that holds
   its lock runs to its end: by commit, by refusal or by rollback. *)
Fairness ==
  \A h \in Handlers : SF_vars(LockEscrow(h)) /\ WF_vars(Step(h) /\ pc[h] # "begun")

Spec == Init /\ [][Next]_vars /\ Fairness

-----------------------------------------------------------------------------
(* Properties. *)

(* Type correctness of the stored rows and of the handlers' progress. *)
TypeOK ==
  /\ exists \in [Contracts -> BOOLEAN]
  /\ heldCents \in [Contracts -> 0 .. MaxCents]
  /\ releasedCents \in [Contracts -> 0 .. MaxCents]
  /\ refundedCents \in [Contracts -> 0 .. MaxCents]
  /\ status \in [Contracts -> Statuses]
  /\ allocStatus \in [Contracts -> [Targets -> {"none", "held", "released"}]]
  /\ allocCents \in [Contracts -> [Targets -> Nat]]
  /\ fundKeys \in [Contracts -> SUBSET Keys]
  /\ keyFunds \in [Contracts -> [Keys -> Nat]]
  /\ ledger \in [LedgerAccounts -> Int]
  /\ outbox \in [Contracts -> [Events -> Nat]]
  /\ lock \in [Contracts -> Handlers \cup {None}]
  /\ pc \in [Handlers -> {"idle", "begun", "locked", "writing"}]
  /\ req \in [Handlers -> Requests \cup {None}]
  /\ snap \in [Handlers -> Nat]

(* What the milestones reserve is really held, whatever allocations, hourly
   releases and refunds of other handlers interleave with it: the same cents
   are never promised twice. *)
ReservationsCovered ==
  \A c \in Contracts : SumHeldAllocations(c) <= heldCents[c]

(* A reservation is a promise: a release that finds its allocation held is
   never refused for insufficient funds by ReleaseMilestone's drift guard. *)
ReservedIsReleasable ==
  \A h \in Handlers :
    /\ pc[h] = "locked"
    /\ req[h].op = "releaseMilestone"
    /\ allocStatus[req[h].contract][req[h].target] = "held"
    => Admits(h)

(* The freelancer received exactly what the released allocations say: no
   replay of a milestone or a week and no caller's amount moves more. *)
ReleasedAsAllocated ==
  \A c \in Contracts :
    releasedCents[c] = SumCents(AllocationsIn(c, "released"), allocCents[c])

(* Balances, ledger and events tell one story: the freelancer's and the
   refund accounts mirror the columns, the contract's sub-account holds all
   that was ever funded, and every cent that moved was announced. *)
BooksAgree ==
  \A c \in Contracts :
    /\ ledger[<<"freelancer_balance", c>>] = releasedCents[c]
    /\ ledger[<<"refunds", c>>] = refundedCents[c]
    /\ ledger[<<"escrow_contract", c>>]
         = heldCents[c] + releasedCents[c] + refundedCents[c]
    /\ outbox[c]["escrow.funded"] = ledger[<<"escrow_contract", c>>]
    /\ outbox[c]["escrow.released"] = releasedCents[c]
    /\ outbox[c]["escrow.refunded"] = refundedCents[c]

(* A fund request retried under its idempotency key credits the account once,
   also when the retry overlaps the first attempt. *)
FundOncePerKey ==
  \A c \in Contracts, k \in Keys : keyFunds[c][k] <= 1

(* The status follows the money: an account with nothing left is settled,
   and a partially released one has both paid and kept something. *)
StatusFollowsMoney ==
  \A c \in Contracts :
    /\ exists[c] /\ heldCents[c] = 0 => status[c] \in {"released", "refunded"}
    /\ status[c] = "partially_released" => releasedCents[c] > 0 /\ heldCents[c] > 0

(* Every request is answered: no lock is leaked and no waiter starves. *)
RequestsAnswered ==
  \A h \in Handlers : pc[h] = "begun" ~> pc[h] = "idle"

(* The account a client and a freelancer rely on: reserved cents are part of
   the held cents and only leave through a release. *)
ReservedCents == [c \in Contracts |-> SumHeldAllocations(c)]
Account == INSTANCE EscrowAccount WITH
  held <- heldCents, reserved <- ReservedCents,
  released <- releasedCents, refunded <- refundedCents
RefinesAccount == Account!Spec
=============================================================================
