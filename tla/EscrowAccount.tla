--------------------------- MODULE EscrowAccount ---------------------------
(***************************************************************************)
(* What an escrow account promises, without rows, locks or transactions:   *)
(* cents are deposited, set aside, paid out or given back, one movement at *)
(* a time, and what is set aside is never paid out or given back by        *)
(* another movement than its own release.                                  *)
(***************************************************************************)
EXTENDS Integers

CONSTANTS Contracts, MaxCents

VARIABLES held, reserved, released, refunded

balances == <<held, reserved, released, refunded>>

Init ==
  /\ held = [c \in Contracts |-> 0]
  /\ reserved = [c \in Contracts |-> 0]
  /\ released = [c \in Contracts |-> 0]
  /\ refunded = [c \in Contracts |-> 0]

Deposit(c, a) ==
  /\ held' = [held EXCEPT ![c] = @ + a]
  /\ UNCHANGED <<reserved, released, refunded>>

(* The cents nobody was promised. *)
Free(c) == held[c] - reserved[c]

Reserve(c, a) ==
  /\ a <= Free(c)
  /\ reserved' = [reserved EXCEPT ![c] = @ + a]
  /\ UNCHANGED <<held, released, refunded>>

ReleaseReserved(c, a) ==
  /\ a <= reserved[c]
  /\ reserved' = [reserved EXCEPT ![c] = @ - a]
  /\ held' = [held EXCEPT ![c] = @ - a]
  /\ released' = [released EXCEPT ![c] = @ + a]
  /\ UNCHANGED refunded

ReleaseFree(c, a) ==
  /\ a <= Free(c)
  /\ held' = [held EXCEPT ![c] = @ - a]
  /\ released' = [released EXCEPT ![c] = @ + a]
  /\ UNCHANGED <<reserved, refunded>>

Refund(c, a) ==
  /\ a <= Free(c)
  /\ held' = [held EXCEPT ![c] = @ - a]
  /\ refunded' = [refunded EXCEPT ![c] = @ + a]
  /\ UNCHANGED <<reserved, released>>

Next ==
  \E c \in Contracts, a \in 1 .. MaxCents :
    \/ Deposit(c, a) \/ Reserve(c, a) \/ ReleaseReserved(c, a)
    \/ ReleaseFree(c, a) \/ Refund(c, a)

Spec == Init /\ [][Next]_balances
=============================================================================
