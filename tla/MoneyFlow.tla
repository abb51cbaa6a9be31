----------------------------- MODULE MoneyFlow -----------------------------
(***************************************************************************)
(* The payment and escrow services over the one `transactions` ledger that *)
(* both append to.  Nothing else connects them: capturing a payment posts  *)
(* a deposit, funding an escrow posts a hold, and neither reads what the   *)
(* other stored.                                                           *)
(***************************************************************************)
EXTENDS Integers, FiniteSets, Cents

CONSTANTS Contracts, Milestones, Weeks, Keys, Amounts, Handlers, MaxCents,
          Intents, WebhookPath, ViaGateway, None

VARIABLES
  exists, heldCents, releasedCents, refundedCents, status, allocStatus,
  allocCents, fundKeys, keyFunds, ledger, outbox, lock, escrowPc, escrowReq,
  snap,
  stripe, intentKey, intentCents, acked, row, rowKey, rowCents, recorded,
  deposits, rowLock, eventLock, paymentPc, paymentReq

E == INSTANCE Escrow WITH pc <- escrowPc, req <- escrowReq
P == INSTANCE Payment WITH pc <- paymentPc, req <- paymentReq

escrowVars ==
  <<exists, heldCents, releasedCents, refundedCents, status, allocStatus,
    allocCents, fundKeys, keyFunds, ledger, outbox, lock, escrowPc, escrowReq,
    snap>>
paymentVars ==
  <<stripe, intentKey, intentCents, acked, row, rowKey, rowCents, recorded,
    deposits, rowLock, eventLock, paymentPc, paymentReq>>
vars == <<escrowVars, paymentVars>>

Init == E!Init /\ P!Init

Next ==
  \/ E!Next /\ UNCHANGED paymentVars
  \/ P!Next /\ UNCHANGED escrowVars

Spec == Init /\ [][Next]_vars

-----------------------------------------------------------------------------
(* The cents that captures credited to the 'escrow' kind, by payment. *)
Deposited ==
  SumCents(Intents, [i \in Intents |-> deposits[i] * rowCents[i]])

PaidOut == SumCents(Contracts, releasedCents) + SumCents(Contracts, refundedCents)

-----------------------------------------------------------------------------
(* Properties. *)

(* A contract's escrow never holds or pays out money that no client paid. *)
HeldIsDeposited ==
  SumCents(Contracts, heldCents) + PaidOut <= Deposited
=============================================================================
