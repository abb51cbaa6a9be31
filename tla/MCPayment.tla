----------------------------- MODULE MCPayment -----------------------------
(* The payment service on a small instance. *)
EXTENDS Payment, TLC

CONSTANTS i1, i2, k1, h1, h2

MCIntents == {i1, i2}
MCHandlers == {h1, h2}
Symmetry == Permutations(MCIntents) \cup Permutations(MCHandlers)

(* Where Stripe posts its events. *)
ServicePath == "/v1/payments/webhooks/stripe"
GatewayPath == "/v1/payments/webhook/stripe"
=============================================================================
