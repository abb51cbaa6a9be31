---------------------------- MODULE MCMoneyFlow ----------------------------
(* Payment and escrow together, one request at a time in each service. *)
EXTENDS MoneyFlow

CONSTANTS c1, m1, w1, k1, h1, i1

ServicePath == "/v1/payments/webhooks/stripe"
=============================================================================
