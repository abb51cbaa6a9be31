---------------------------- MODULE EscrowProofs ----------------------------
(***************************************************************************)
(* The escrow service's safety for every number of contracts, milestones,  *)
(* weeks, keys and concurrent handlers.  The inductive invariant says what *)
(* the row lock buys: what a transaction read under it still holds when it *)
(* writes.                                                                 *)
(***************************************************************************)
EXTENDS Escrow, CentsProofs

Critical(h) == pc[h] \in {"locked", "writing"}

(* A running handler has a well-formed request with a positive amount. *)
RequestsValid ==
  \A h \in Handlers : pc[h] # "idle" =>
    /\ req[h] \in Requests
    /\ req[h].amount > 0 \/ req[h].op = "releaseMilestone"

(* A transaction past LockEscrow holds its account's row lock. *)
LocksHeld ==
  \A h \in Handlers : Critical(h) => lock[req[h].contract] = h

(* The balance read under the lock is still the account's balance. *)
SnapsFresh ==
  \A h \in Handlers : Critical(h) => snap[h] = heldCents[req[h].contract]

(* What the transaction checked still holds when it writes. *)
ChecksStand == \A h \in Handlers : pc[h] = "writing" => Admits(h)

Control == TypeOK /\ RequestsValid /\ LocksHeld /\ SnapsFresh /\ ChecksStand

(* An allocation that exists has a positive amount. *)
AllocationsPositive(c) ==
  \A t \in Targets : allocStatus[c][t] # "none" => allocCents[c][t] > 0

(* A key was funded once if it is recorded, and never otherwise. *)
KeysCounted(c) ==
  \A k \in Keys : keyFunds[c][k] = IF k \in fundKeys[c] THEN 1 ELSE 0

(* The invariants of one account's rows. *)
Covered(c) ==
  /\ SumHeldAllocations(c) <= heldCents[c]
  /\ releasedCents[c] = SumCents(AllocationsIn(c, "released"), allocCents[c])

Booked(c) ==
  /\ ledger[<<"freelancer_balance", c>>] = releasedCents[c]
  /\ ledger[<<"refunds", c>>] = refundedCents[c]
  /\ ledger[<<"escrow_contract", c>>]
       = heldCents[c] + releasedCents[c] + refundedCents[c]
  /\ outbox[c]["escrow.funded"] = ledger[<<"escrow_contract", c>>]
  /\ outbox[c]["escrow.released"] = releasedCents[c]
  /\ outbox[c]["escrow.refunded"] = refundedCents[c]

Settled(c) ==
  /\ exists[c] /\ heldCents[c] = 0 => status[c] \in {"released", "refunded"}
  /\ status[c] = "partially_released" => releasedCents[c] > 0 /\ heldCents[c] > 0

AccountOK(c) ==
  /\ AllocationsPositive(c) /\ KeysCounted(c)
  /\ Covered(c) /\ Booked(c) /\ Settled(c)

IInv == Control /\ \A c \in Contracts : AccountOK(c)

-----------------------------------------------------------------------------
(* Facts about sums of allocations. *)

(* The allocations of an account are finitely many rows. *)
LEMMA AllocationsFinite ==
  ASSUME NEW c, NEW s
  PROVE  IsFiniteSet(AllocationsIn(c, s))
<1>1. IsFiniteSet(Targets)
  BY EscrowAssumption, FS_Union DEF Targets
<1>2. AllocationsIn(c, s) \subseteq Targets
  BY DEF AllocationsIn
<1> QED BY <1>1, <1>2, FS_Subset

(* Sums of allocations are naturals. *)
LEMMA AllocationSums ==
  ASSUME TypeOK, NEW c \in Contracts, NEW s
  PROVE  SumCents(AllocationsIn(c, s), allocCents[c]) \in Nat
<1>1. \A t \in AllocationsIn(c, s) : allocCents[c][t] \in Nat
  BY DEF TypeOK, AllocationsIn
<1> QED BY <1>1, AllocationsFinite, SumType

(* An account whose allocations a step leaves alone keeps their sums. *)
LEMMA SumsUnchanged ==
  ASSUME NEW c, allocStatus'[c] = allocStatus[c], allocCents'[c] = allocCents[c]
  PROVE  \A s : SumCents(AllocationsIn(c, s), allocCents[c])'
                  = SumCents(AllocationsIn(c, s), allocCents[c])
<1> TAKE s
<1>1. AllocationsIn(c, s)' = AllocationsIn(c, s)
  BY DEF AllocationsIn
<1> QED BY <1>1, Zenon DEF SumCents, CentsOf

(* Inserting the allocation of t with status s adds its amount to the sum of
   the s allocations and leaves the sum of the others. *)
LEMMA SumsInserted ==
  ASSUME TypeOK, NEW c \in Contracts, NEW t \in Targets, NEW a \in Nat,
         NEW s \in {"held", "released"},
         allocStatus[c][t] = "none",
         allocStatus' = [allocStatus EXCEPT ![c][t] = s],
         allocCents' = [allocCents EXCEPT ![c][t] = a]
  PROVE  \A q \in {"held", "released"} :
           SumCents(AllocationsIn(c, q), allocCents[c])'
             = SumCents(AllocationsIn(c, q), allocCents[c])
                 + (IF q = s THEN a ELSE 0)
<1> TAKE q \in {"held", "released"}
<1> DEFINE S == AllocationsIn(c, q)
           f == allocCents[c]
           g == allocCents'[c]
<1>1. t \notin S /\ IsFiniteSet(S)
  BY AllocationsFinite DEF AllocationsIn
<1>2. /\ \A u \in S : f[u] \in Nat /\ g[u] = f[u]
      /\ g[t] = a
  BY DEF TypeOK, AllocationsIn
<1>3. SumCents(S, g) = SumCents(S, f)
  BY <1>2, SumSame, Zenon
<1>4. SumCents(S, f) \in Nat
  BY <1>1, <1>2, SumType
<1>5. CASE q = s
  <2>1. S' = S \cup {t}
    BY <1>5 DEF TypeOK, AllocationsIn
  <2>2. SumCents(S \cup {t}, g) = SumCents(S, g) + g[t]
    <3>1. \A u \in S \cup {t} : g[u] \in Nat
      BY <1>2
    <3> HIDE DEF S, g
    <3> QED BY <1>1, <3>1, SumAdd
  <2>3. SumCents(S', g) = SumCents(S, f) + a
    BY <1>2, <1>3, <2>1, <2>2
  <2> QED BY <2>3, <1>5
<1>6. CASE q # s
  <2>1. S' = S
    BY <1>6 DEF TypeOK, AllocationsIn
  <2>2. SumCents(S', g) = SumCents(S, f)
    BY <1>3, <2>1
  <2> QED BY <2>2, <1>4, <1>6
<1> QED BY <1>5, <1>6

(* Releasing t's held allocation moves its amount between the sums. *)
LEMMA SumsReleased ==
  ASSUME TypeOK, NEW c \in Contracts, NEW t \in Targets,
         allocStatus[c][t] = "held",
         allocStatus' = [allocStatus EXCEPT ![c][t] = "released"],
         allocCents' = allocCents
  PROVE  /\ SumCents(AllocationsIn(c, "held"), allocCents[c])
              = SumCents(AllocationsIn(c, "held"), allocCents[c])'
                  + allocCents[c][t]
         /\ SumCents(AllocationsIn(c, "released"), allocCents[c])'
              = SumCents(AllocationsIn(c, "released"), allocCents[c])
                  + allocCents[c][t]
         /\ SumCents(AllocationsIn(c, "held"), allocCents[c])' \in Nat
<1> DEFINE H == AllocationsIn(c, "held")
           R == AllocationsIn(c, "released")
           f == allocCents[c]
<1>1. /\ IsFiniteSet(H) /\ IsFiniteSet(R)
      /\ t \in H /\ t \notin R
  BY AllocationsFinite DEF AllocationsIn
<1>2. H' = H \ {t} /\ R' = R \cup {t}
  BY DEF TypeOK, AllocationsIn
<1>3. \A u \in Targets : f[u] \in Nat
  BY DEF TypeOK
<1>4. H \subseteq Targets /\ R \subseteq Targets
  BY DEF AllocationsIn
<1>5. allocCents'[c] = f
  OBVIOUS
<1> HIDE DEF H, R, f
<1>6. /\ SumCents(H, f) = SumCents(H \ {t}, f) + f[t]
      /\ SumCents(H \ {t}, f) \in Nat
  BY <1>1, <1>3, <1>4, SumRemove
<1>7. SumCents(R \cup {t}, f) = SumCents(R, f) + f[t]
  BY <1>1, <1>3, <1>4, SumAdd
<1>8. /\ SumCents(H', allocCents'[c]) = SumCents(H \ {t}, f)
      /\ SumCents(R', allocCents'[c]) = SumCents(R \cup {t}, f)
  BY <1>2, <1>5
<1> QED BY <1>6, <1>7, <1>8 DEF H, R, f

-----------------------------------------------------------------------------
(* Control: types, locks, and what a transaction read under its lock. *)

(* The parts of a request that its operation fixes. *)
LEMMA RequestParts ==
  ASSUME NEW r \in Requests
  PROVE  /\ r.contract \in Contracts
         /\ r.amount \in Int
         /\ r.op \in {"fund", "allocate", "releaseMilestone", "releaseHours",
                      "refund"}
         /\ r.op = "fund" => r.target \in Keys \cup {None}
         /\ r.op \in {"allocate", "releaseMilestone", "releaseHours"}
              => r.target \in Targets
  BY EscrowAssumption DEF Requests, Targets

(* What a commit on c leaves alone: every other account. *)
Untouched(d) ==
  /\ heldCents'[d] = heldCents[d]
  /\ releasedCents'[d] = releasedCents[d]
  /\ refundedCents'[d] = refundedCents[d]
  /\ status'[d] = status[d]
  /\ exists'[d] = exists[d]
  /\ allocStatus'[d] = allocStatus[d]
  /\ allocCents'[d] = allocCents[d]
  /\ fundKeys'[d] = fundKeys[d]
  /\ keyFunds'[d] = keyFunds[d]
  /\ outbox'[d] = outbox[d]
  /\ \A k \in Kinds \ {"escrow"} : ledger'[<<k, d>>] = ledger[<<k, d>>]

(* A commit ends its transaction and touches its own account only. *)
LEMMA CommitFrame ==
  ASSUME TypeOK, RequestsValid, NEW h \in Handlers, Commit(h)
  PROVE  /\ EndTx(h)
         /\ pc[h] = "writing" /\ req[h] \in Requests
         /\ \A d \in Contracts \ {req[h].contract} : Untouched(d)
<1>1. pc[h] = "writing" /\ EndTx(h)
  BY DEF Commit, FundEscrow, AllocateToMilestone, ReleaseMilestone,
         ReleaseHours, RefundEscrow
<1>2. req[h] \in Requests
  BY <1>1 DEF RequestsValid
<1> SUFFICES ASSUME NEW d \in Contracts \ {req[h].contract}
             PROVE  Untouched(d)
  BY <1>1, <1>2
<1>3. d # None
  BY EscrowAssumption
<1>4. CASE FundEscrow(h)
  BY <1>2, <1>3, <1>4, RequestParts
  DEF FundEscrow, TypeOK, Untouched, WriteLegs, Enqueue, Kinds, LedgerAccounts
<1>5. CASE AllocateToMilestone(h)
  BY <1>2, <1>5, RequestParts DEF AllocateToMilestone, TypeOK, Untouched
<1>6. CASE ReleaseMilestone(h)
  BY <1>2, <1>3, <1>6, RequestParts
  DEF ReleaseMilestone, MoveHeldToReleased, TypeOK, Untouched, WriteLegs,
      Enqueue, Kinds, LedgerAccounts
<1>7. CASE ReleaseHours(h)
  BY <1>2, <1>3, <1>7, RequestParts
  DEF ReleaseHours, MoveHeldToReleased, TypeOK, Untouched, WriteLegs,
      Enqueue, Kinds, LedgerAccounts
<1>8. CASE RefundEscrow(h)
  BY <1>2, <1>3, <1>8, RequestParts
  DEF RefundEscrow, TypeOK, Untouched, WriteLegs, Enqueue, Kinds,
      LedgerAccounts
<1> QED BY <1>4, <1>5, <1>6, <1>7, <1>8 DEF Commit

(* The lock excludes: two transactions past LockEscrow are on two accounts. *)
LEMMA Exclusion ==
  ASSUME LocksHeld, NEW h \in Handlers, NEW g \in Handlers \ {h},
         Critical(h), Critical(g)
  PROVE  req[g].contract # req[h].contract
  BY DEF LocksHeld

(* Whether a request is admitted depends on its own account only. *)
LEMMA AdmitsStable ==
  ASSUME NEW g \in Handlers, req'[g] = req[g], snap'[g] = snap[g],
         allocStatus'[req[g].contract] = allocStatus[req[g].contract],
         allocCents'[req[g].contract] = allocCents[req[g].contract],
         fundKeys'[req[g].contract] = fundKeys[req[g].contract]
  PROVE  Admits(g)' = Admits(g)
<1>1. SumHeldAllocations(req[g].contract)' = SumHeldAllocations(req[g].contract)
  BY SumsUnchanged DEF SumHeldAllocations
<1> QED BY <1>1
  DEF Admits, AdmitsFund, AdmitsAllocate, AdmitsReleaseMilestone,
      AdmitsReleaseHours, AdmitsRefund, Available

(* A step of h keeps the other handlers' progress, and leaves every lock
   that h does not hold or take. *)
OthersKept(h) ==
  \A g \in Handlers \ {h} :
    /\ pc'[g] = pc[g] /\ req'[g] = req[g] /\ snap'[g] = snap[g]
    /\ \A c \in Contracts : lock[c] = g => lock'[c] = g

(* The end of a transaction is type-correct and frees no other's lock. *)
LEMMA EndTxFrame ==
  ASSUME TypeOK, NEW h \in Handlers, EndTx(h)
  PROVE  /\ lock' \in [Contracts -> Handlers \cup {None}]
         /\ pc' \in [Handlers -> {"idle", "begun", "locked", "writing"}]
         /\ req' \in [Handlers -> Requests \cup {None}]
         /\ snap' \in [Handlers -> Nat]
         /\ pc'[h] = "idle"
         /\ OthersKept(h)
  BY EscrowAssumption DEF TypeOK, EndTx, OthersKept

(* What a pair of legs does to the ledger. *)
LEMMA LegsEffect ==
  ASSUME TypeOK, NEW from \in LedgerAccounts, NEW to \in LedgerAccounts \ {from},
         NEW a \in Int, WriteLegs(from, to, a)
  PROVE  /\ ledger' \in [LedgerAccounts -> Int]
         /\ ledger'[to] = ledger[to] + a
         /\ \A l \in LedgerAccounts \ {from, to} : ledger'[l] = ledger[l]
  BY DEF TypeOK, WriteLegs

(* What an event does to the announced totals. *)
LEMMA EnqueueEffect ==
  ASSUME TypeOK, NEW c \in Contracts, NEW e \in Events, NEW a \in Nat,
         Enqueue(c, e, a)
  PROVE  /\ outbox' \in [Contracts -> [Events -> Nat]]
         /\ outbox'[c][e] = outbox[c][e] + a
         /\ \A q \in Events \ {e} : outbox'[c][q] = outbox[c][q]
<1>1. /\ outbox \in [Contracts -> [Events -> Nat]]
      /\ outbox' = [outbox EXCEPT ![c] = [outbox[c] EXCEPT ![e] = outbox[c][e] + a]]
  BY DEF TypeOK, Enqueue
<1>2. [outbox[c] EXCEPT ![e] = outbox[c][e] + a] \in [Events -> Nat]
  BY <1>1
<1> QED BY <1>1, <1>2

(* Commits are type-correct. *)
LEMMA CommitTypes ==
  ASSUME TypeOK, RequestsValid, NEW h \in Handlers, Commit(h)
  PROVE  TypeOK'
<1> DEFINE c == req[h].contract
<1>1. /\ EndTx(h) /\ pc[h] = "writing" /\ req[h] \in Requests
  BY CommitFrame
<1>2. /\ c \in Contracts /\ req[h].amount \in Int
      /\ req[h].op # "releaseMilestone" => req[h].amount \in Nat
      /\ req[h].op = "fund" => req[h].target \in Keys \cup {None}
      /\ req[h].op \in {"allocate", "releaseMilestone", "releaseHours"}
              => req[h].target \in Targets
  BY <1>1, RequestParts DEF RequestsValid
<1>3. /\ <<"escrow", None>> \in LedgerAccounts
      /\ \A k \in Kinds : <<k, c>> \in LedgerAccounts
      /\ \A k \in Kinds \ {"escrow"} : <<k, c>> # <<"escrow", None>>
      /\ \A k \in Kinds \ {"escrow"} : <<k, c>> # <<"escrow", c>>
      /\ {"escrow", "escrow_contract", "freelancer_balance", "refunds"} \subseteq Kinds
      /\ {"escrow.funded", "escrow.released", "escrow.refunded"} \subseteq Events
  BY <1>2 DEF LedgerAccounts, Kinds, Events
<1>4. CASE FundEscrow(h)
  <2>1. keyFunds' \in [Contracts -> [Keys -> Nat]]
    BY <1>2, <1>4 DEF FundEscrow, TypeOK
  <2>2. fundKeys' \in [Contracts -> SUBSET Keys]
    BY <1>2, <1>4 DEF FundEscrow, TypeOK
  <2>3. /\ exists' \in [Contracts -> BOOLEAN]
        /\ heldCents' \in [Contracts -> 0 .. MaxCents]
    BY <1>2, <1>4, EscrowAssumption DEF FundEscrow, TypeOK
  <2>4. /\ ledger' \in [LedgerAccounts -> Int]
        /\ outbox' \in [Contracts -> [Events -> Nat]]
    BY <1>2, <1>3, <1>4, LegsEffect, EnqueueEffect DEF FundEscrow
  <2> QED BY <1>1, <1>4, <2>1, <2>2, <2>3, <2>4, EndTxFrame
      DEF FundEscrow, TypeOK
<1>5. CASE AllocateToMilestone(h)
  <2>1. /\ allocStatus' \in [Contracts -> [Targets -> {"none", "held", "released"}]]
        /\ allocCents' \in [Contracts -> [Targets -> Nat]]
    BY <1>2, <1>5 DEF AllocateToMilestone, TypeOK
  <2> QED BY <1>1, <1>5, <2>1, EndTxFrame DEF AllocateToMilestone, TypeOK
<1>6. ASSUME NEW a \in Nat, MoveHeldToReleased(h, c, a)
      PROVE  /\ heldCents' \in [Contracts -> 0 .. MaxCents]
             /\ releasedCents' \in [Contracts -> 0 .. MaxCents]
             /\ status' \in [Contracts -> Statuses]
             /\ ledger' \in [LedgerAccounts -> Int]
             /\ outbox' \in [Contracts -> [Events -> Nat]]
  <2>1. /\ heldCents' \in [Contracts -> 0 .. MaxCents]
        /\ releasedCents' \in [Contracts -> 0 .. MaxCents]
        /\ status' \in [Contracts -> Statuses]
    BY <1>2, <1>6, EscrowAssumption
    DEF MoveHeldToReleased, TypeOK, statusAfterRelease, Statuses
  <2>2. /\ ledger' \in [LedgerAccounts -> Int]
        /\ outbox' \in [Contracts -> [Events -> Nat]]
    BY <1>2, <1>3, <1>6, LegsEffect, EnqueueEffect DEF MoveHeldToReleased
  <2> QED BY <2>1, <2>2
<1>7. CASE ReleaseMilestone(h)
  <2>1. MoveCents(h) \in Nat
    BY <1>2, <1>7 DEF ReleaseMilestone, MoveCents, TypeOK
  <2>2. allocStatus' \in [Contracts -> [Targets -> {"none", "held", "released"}]]
    BY <1>2, <1>7 DEF ReleaseMilestone, TypeOK
  <2>3. MoveHeldToReleased(h, c, MoveCents(h))
    BY <1>7 DEF ReleaseMilestone
  <2> QED BY <1>1, <1>6, <1>7, <2>1, <2>2, <2>3, EndTxFrame
      DEF ReleaseMilestone, TypeOK
<1>8. CASE ReleaseHours(h)
  <2>1. MoveCents(h) \in Nat
    BY <1>2, <1>8 DEF ReleaseHours, MoveCents
  <2>2. /\ allocStatus' \in [Contracts -> [Targets -> {"none", "held", "released"}]]
        /\ allocCents' \in [Contracts -> [Targets -> Nat]]
    BY <1>2, <1>8, <2>1 DEF ReleaseHours, TypeOK
  <2>3. MoveHeldToReleased(h, c, MoveCents(h))
    BY <1>8 DEF ReleaseHours
  <2> QED BY <1>1, <1>6, <1>8, <2>1, <2>2, <2>3, EndTxFrame
      DEF ReleaseHours, TypeOK
<1>9. CASE RefundEscrow(h)
  <2>1. /\ heldCents' \in [Contracts -> 0 .. MaxCents]
        /\ refundedCents' \in [Contracts -> 0 .. MaxCents]
        /\ status' \in [Contracts -> Statuses]
    BY <1>2, <1>9, EscrowAssumption
    DEF RefundEscrow, TypeOK, statusAfterRefund, Statuses
  <2>2. /\ ledger' \in [LedgerAccounts -> Int]
        /\ outbox' \in [Contracts -> [Events -> Nat]]
    BY <1>2, <1>3, <1>9, LegsEffect, EnqueueEffect DEF RefundEscrow
  <2> QED BY <1>1, <1>9, <2>1, <2>2, EndTxFrame DEF RefundEscrow, TypeOK
<1> QED BY <1>4, <1>5, <1>7, <1>8, <1>9 DEF Commit

(* Control is preserved by every step. *)
LEMMA ControlStep ==
  ASSUME Control, [Next]_vars
  PROVE  Control'
<1> USE DEF Control
<1>1. CASE UNCHANGED vars
  <2>1. \A g \in Handlers : Admits(g)' = Admits(g)
    BY <1>1, AdmitsStable DEF vars, account
  <2> QED BY <1>1, <2>1
    DEF vars, account, TypeOK, RequestsValid, LocksHeld, SnapsFresh,
        ChecksStand, Critical
<1> SUFFICES ASSUME NEW h \in Handlers,
                    \/ \E r \in Requests : Receive(h, r)
                    \/ LockEscrow(h)
                    \/ Step(h)
             PROVE  Control'
  BY <1>1 DEF Next
(* A step that leaves the accounts alone and other handlers their progress
   preserves what the others know; what h knows is left to show. *)
<1>2. ASSUME UNCHANGED account, OthersKept(h), TypeOK',
             pc'[h] # "idle" =>
               /\ req'[h] \in Requests
               /\ req'[h].amount > 0 \/ req'[h].op = "releaseMilestone",
             Critical(h)' =>
               /\ lock'[req'[h].contract] = h
               /\ snap'[h] = heldCents[req'[h].contract],
             pc'[h] = "writing" => Admits(h)'
      PROVE  Control'
  <2>1. \A g \in Handlers \ {h} : Admits(g)' = Admits(g)
    BY <1>2, AdmitsStable DEF OthersKept, account
  <2>2. \A g \in Handlers \ {h} : Critical(g) => req[g].contract \in Contracts
    BY RequestParts DEF RequestsValid, Critical
  <2>3. RequestsValid'
    BY <1>2 DEF RequestsValid, OthersKept
  <2>4. LocksHeld'
    BY <1>2, <2>2 DEF LocksHeld, OthersKept, Critical
  <2>5. SnapsFresh'
    BY <1>2 DEF SnapsFresh, OthersKept, Critical, account
  <2>6. ChecksStand'
    BY <1>2, <2>1 DEF ChecksStand, OthersKept
  <2> QED BY <1>2, <2>3, <2>4, <2>5, <2>6
<1>3. ASSUME NEW r \in Requests, Receive(h, r)
      PROVE  Control'
  <2>1. TypeOK' /\ OthersKept(h)
    BY <1>3 DEF TypeOK, Receive, OthersKept, account
  <2> QED BY <1>2, <1>3, <2>1 DEF Receive, Critical, TypeOK
<1>4. CASE LockEscrow(h)
  <2>1. req[h] \in Requests /\ req[h].contract \in Contracts
    BY <1>4, RequestParts DEF LockEscrow, RequestsValid
  <2>2. TypeOK' /\ OthersKept(h)
    BY <1>4, <2>1, EscrowAssumption
    DEF TypeOK, LockEscrow, OthersKept, account
  <2> QED BY <1>2, <1>4, <2>1, <2>2
    DEF LockEscrow, Critical, TypeOK, RequestsValid
<1>5. CASE Check(h)
  <2>1. TypeOK' /\ OthersKept(h)
    BY <1>5 DEF TypeOK, Check, OthersKept, account
  <2>2. Admits(h)'
    BY <1>5, AdmitsStable DEF Check, account
  <2> QED BY <1>2, <1>5, <2>1, <2>2
    DEF Check, Critical, TypeOK, RequestsValid, LocksHeld, SnapsFresh
<1>6. CASE EndTx(h) /\ UNCHANGED account
  <2>1. TypeOK'
    BY <1>6, EndTxFrame DEF TypeOK, account
  <2> QED BY <1>2, <1>6, <2>1, EndTxFrame DEF Critical
<1>7. CASE Commit(h)
  <2>1. /\ pc'[h] = "idle" /\ OthersKept(h) /\ Critical(h)
        /\ \A d \in Contracts \ {req[h].contract} : Untouched(d)
    BY <1>7, CommitFrame, EndTxFrame DEF Critical
  <2>2. \A g \in Handlers \ {h} : Critical(g) =>
          /\ req[g].contract \in Contracts \ {req[h].contract}
          /\ Untouched(req[g].contract)
    BY <2>1, Exclusion, RequestParts DEF RequestsValid, Critical
  <2>3. \A g \in Handlers \ {h} : Critical(g) => Admits(g)' = Admits(g)
    BY <2>1, <2>2, AdmitsStable DEF OthersKept, Untouched
  <2>4. RequestsValid'
    BY <2>1 DEF RequestsValid, OthersKept
  <2>5. LocksHeld'
    BY <2>1, <2>2 DEF LocksHeld, OthersKept, Critical
  <2>6. SnapsFresh'
    BY <2>1, <2>2 DEF SnapsFresh, OthersKept, Critical, Untouched
  <2>7. ChecksStand'
    BY <2>1, <2>3 DEF ChecksStand, OthersKept, Critical
  <2> QED BY <1>7, <2>4, <2>5, <2>6, <2>7, CommitTypes
<1> QED BY <1>3, <1>4, <1>5, <1>6, <1>7 DEF Step, Refuse, Rollback

-----------------------------------------------------------------------------
(* Money: what each commit does to its account. *)

(* An account that a step does not touch stays in order. *)
LEMMA UntouchedOK ==
  ASSUME NEW d \in Contracts, Untouched(d), AccountOK(d)
  PROVE  AccountOK(d)'
<1>1. \A s : SumCents(AllocationsIn(d, s), allocCents[d])'
               = SumCents(AllocationsIn(d, s), allocCents[d])
  BY SumsUnchanged DEF Untouched
<1>2. Covered(d)'
  BY <1>1 DEF AccountOK, Covered, SumHeldAllocations, Untouched
<1>3. Booked(d)'
  BY DEF AccountOK, Booked, Untouched, Kinds
<1>4. AllocationsPositive(d)' /\ KeysCounted(d)' /\ Settled(d)'
  BY DEF AccountOK, AllocationsPositive, KeysCounted, Settled, Untouched
<1> QED BY <1>2, <1>3, <1>4 DEF AccountOK

(* A release moves a cents from held to released in all books at once. *)
LEMMA ReleaseBooks ==
  ASSUME TypeOK, NEW h \in Handlers, NEW c \in Contracts, NEW a \in Nat, a > 0,
         snap[h] = heldCents[c], MoveHeldToReleased(h, c, a), AccountOK(c)
  PROVE  /\ heldCents'[c] = heldCents[c] - a
         /\ releasedCents'[c] = releasedCents[c] + a
         /\ refundedCents' = refundedCents => Booked(c)'
         /\ exists' = exists => Settled(c)'
<1>1. /\ heldCents'[c] = heldCents[c] - a /\ heldCents'[c] >= 0
      /\ releasedCents'[c] = releasedCents[c] + a
      /\ status'[c] = statusAfterRelease(heldCents[c] - a)
  BY DEF MoveHeldToReleased, TypeOK
<1>2. /\ heldCents[c] \in Nat /\ releasedCents[c] \in Nat
      /\ refundedCents[c] \in Nat
  BY EscrowAssumption DEF TypeOK
<1>3. ASSUME refundedCents' = refundedCents PROVE Booked(c)'
  <2>1. /\ <<"escrow", c>> \in LedgerAccounts
        /\ \A k \in Kinds \ {"escrow"} : <<k, c>> \in LedgerAccounts \ {<<"escrow", c>>}
    BY DEF LedgerAccounts, Kinds
  <2>2. /\ ledger'[<<"freelancer_balance", c>>] = ledger[<<"freelancer_balance", c>>] + a
        /\ ledger'[<<"refunds", c>>] = ledger[<<"refunds", c>>]
        /\ ledger'[<<"escrow_contract", c>>] = ledger[<<"escrow_contract", c>>]
    BY <2>1, LegsEffect DEF MoveHeldToReleased, Kinds
  <2>3. /\ outbox'[c]["escrow.released"] = outbox[c]["escrow.released"] + a
        /\ outbox'[c]["escrow.funded"] = outbox[c]["escrow.funded"]
        /\ outbox'[c]["escrow.refunded"] = outbox[c]["escrow.refunded"]
    BY EnqueueEffect DEF MoveHeldToReleased, Events
  <2> QED BY <1>1, <1>2, <1>3, <2>2, <2>3 DEF AccountOK, Booked
<1>4. ASSUME exists' = exists PROVE Settled(c)'
  BY <1>1, <1>2, <1>4 DEF AccountOK, Settled, statusAfterRelease
<1> QED BY <1>1, <1>3, <1>4

(* What a transaction that writes knows of its request. *)
LEMMA WritingFacts ==
  ASSUME Control, NEW h \in Handlers, pc[h] = "writing"
  PROVE  /\ req[h].contract \in Contracts
         /\ snap[h] = heldCents[req[h].contract]
         /\ req[h].op # "releaseMilestone" => req[h].amount \in Nat /\ req[h].amount > 0
         /\ req[h].op = "fund" => req[h].target \in Keys \cup {None}
         /\ req[h].op \in {"allocate", "releaseMilestone", "releaseHours"}
              => req[h].target \in Targets
         /\ req[h].op = "fund" => AdmitsFund(h)
         /\ req[h].op = "allocate" => AdmitsAllocate(h)
         /\ req[h].op = "releaseMilestone" => AdmitsReleaseMilestone(h)
         /\ req[h].op = "releaseHours" => AdmitsReleaseHours(h)
         /\ req[h].op = "refund" => AdmitsRefund(h)
<1>1. /\ req[h] \in Requests
      /\ req[h].amount > 0 \/ req[h].op = "releaseMilestone"
      /\ snap[h] = heldCents[req[h].contract]
  BY DEF Control, RequestsValid, SnapsFresh, Critical
<1>2. Admits(h)
  BY DEF Control, ChecksStand
<1>3. /\ req[h].op = "fund" => AdmitsFund(h)
      /\ req[h].op = "allocate" => AdmitsAllocate(h)
      /\ req[h].op = "releaseMilestone" => AdmitsReleaseMilestone(h)
      /\ req[h].op = "releaseHours" => AdmitsReleaseHours(h)
      /\ req[h].op = "refund" => AdmitsRefund(h)
  BY <1>2 DEF Admits, AdmitsFund, AdmitsAllocate, AdmitsReleaseMilestone,
              AdmitsReleaseHours, AdmitsRefund
<1> QED BY <1>1, <1>3, RequestParts

(* The columns of an account are naturals, and so are its sums. *)
LEMMA AccountTypes ==
  ASSUME TypeOK, NEW c \in Contracts
  PROVE  /\ heldCents[c] \in Nat /\ releasedCents[c] \in Nat
         /\ refundedCents[c] \in Nat
         /\ SumHeldAllocations(c) \in Nat
         /\ SumCents(AllocationsIn(c, "released"), allocCents[c]) \in Nat
<1>1. /\ heldCents[c] \in Nat /\ releasedCents[c] \in Nat
      /\ refundedCents[c] \in Nat
  BY EscrowAssumption DEF TypeOK
<1> QED BY <1>1, AllocationSums DEF SumHeldAllocations

(* Funding keeps its account in order. *)
LEMMA FundOK ==
  ASSUME Control, NEW h \in Handlers, FundEscrow(h),
         NEW c \in Contracts, c = req[h].contract, AccountOK(c)
  PROVE  AccountOK(c)'
<1> DEFINE a == req[h].amount
           k == req[h].target
<1>1. /\ a \in Nat /\ a > 0 /\ k \in Keys \cup {None} /\ AdmitsFund(h)
  BY WritingFacts DEF FundEscrow
<1>2. /\ heldCents'[c] = heldCents[c] + a
      /\ UNCHANGED <<releasedCents, refundedCents, status, allocStatus, allocCents>>
  BY DEF FundEscrow, Control, TypeOK
<1>3. TypeOK
  BY DEF Control
<1>4. \A s : SumCents(AllocationsIn(c, s), allocCents[c])'
               = SumCents(AllocationsIn(c, s), allocCents[c])
  BY <1>2, SumsUnchanged
<1>5. Covered(c)'
  BY <1>1, <1>2, <1>3, <1>4, AccountTypes
  DEF AccountOK, Covered, SumHeldAllocations
<1>6. Booked(c)'
  <2>1. /\ <<"escrow", None>> \in LedgerAccounts
        /\ \A q \in Kinds \ {"escrow"} : <<q, c>> \in LedgerAccounts \ {<<"escrow", None>>}
    BY DEF LedgerAccounts, Kinds
  <2>2. /\ ledger'[<<"freelancer_balance", c>>] = ledger[<<"freelancer_balance", c>>]
        /\ ledger'[<<"refunds", c>>] = ledger[<<"refunds", c>>]
        /\ ledger'[<<"escrow_contract", c>>] = ledger[<<"escrow_contract", c>>] + a
    BY <1>1, <1>3, <2>1, LegsEffect DEF FundEscrow, Kinds
  <2>3. /\ outbox'[c]["escrow.funded"] = outbox[c]["escrow.funded"] + a
        /\ outbox'[c]["escrow.released"] = outbox[c]["escrow.released"]
        /\ outbox'[c]["escrow.refunded"] = outbox[c]["escrow.refunded"]
    BY <1>1, <1>3, EnqueueEffect DEF FundEscrow, Events
  <2> QED BY <1>1, <1>2, <1>3, <2>2, <2>3, AccountTypes DEF AccountOK, Booked
<1>7. KeysCounted(c)'
  <2>1. /\ fundKeys'[c] = fundKeys[c] \cup ({k} \ {None})
        /\ keyFunds'[c] = [q \in Keys |-> IF q = k THEN keyFunds[c][q] + 1
                                                    ELSE keyFunds[c][q]]
    BY DEF FundEscrow, Control, TypeOK
  <2> QED BY <1>1, <2>1, EscrowAssumption DEF AccountOK, KeysCounted, AdmitsFund
<1>8. Settled(c)'
  BY <1>1, <1>2, <1>3, AccountTypes DEF AccountOK, Settled
<1>9. AllocationsPositive(c)'
  BY <1>2 DEF AccountOK, AllocationsPositive
<1> QED BY <1>5, <1>6, <1>7, <1>8, <1>9 DEF AccountOK

(* Reserving keeps its account in order. *)
LEMMA AllocateOK ==
  ASSUME Control, NEW h \in Handlers, AllocateToMilestone(h),
         NEW c \in Contracts, c = req[h].contract, AccountOK(c)
  PROVE  /\ AccountOK(c)'
         /\ SumHeldAllocations(c)' = SumHeldAllocations(c) + req[h].amount
<1> DEFINE a == req[h].amount
           t == req[h].target
<1>1. /\ TypeOK /\ a \in Nat /\ a > 0 /\ t \in Targets
      /\ a <= heldCents[c] - SumHeldAllocations(c)
  BY WritingFacts DEF AllocateToMilestone, AdmitsAllocate, Available, Control
<1>2. /\ allocStatus[c][t] = "none"
      /\ allocStatus' = [allocStatus EXCEPT ![c][t] = "held"]
      /\ allocCents' = [allocCents EXCEPT ![c][t] = a]
      /\ UNCHANGED <<exists, heldCents, releasedCents, refundedCents, status,
                     fundKeys, keyFunds, ledger, outbox>>
  BY DEF AllocateToMilestone
<1>3. \A q \in {"held", "released"} :
        SumCents(AllocationsIn(c, q), allocCents[c])'
          = SumCents(AllocationsIn(c, q), allocCents[c])
              + (IF q = "held" THEN a ELSE 0)
  BY <1>1, <1>2, SumsInserted
<1>4. /\ SumHeldAllocations(c)' = SumHeldAllocations(c) + a
      /\ SumCents(AllocationsIn(c, "released"), allocCents[c])'
           = SumCents(AllocationsIn(c, "released"), allocCents[c])
  BY <1>1, <1>3, AccountTypes DEF SumHeldAllocations
<1>5. Covered(c)'
  BY <1>1, <1>2, <1>4, AccountTypes DEF AccountOK, Covered
<1>6. AllocationsPositive(c)'
  BY <1>1, <1>2 DEF AccountOK, AllocationsPositive, TypeOK
<1>7. Booked(c)' /\ Settled(c)' /\ KeysCounted(c)'
  BY <1>2 DEF AccountOK, Booked, Settled, KeysCounted
<1> QED BY <1>4, <1>5, <1>6, <1>7 DEF AccountOK

(* Releasing a milestone keeps its account in order. *)
LEMMA ReleaseMilestoneOK ==
  ASSUME Control, NEW h \in Handlers, ReleaseMilestone(h),
         NEW c \in Contracts, c = req[h].contract, AccountOK(c)
  PROVE  /\ AccountOK(c)'
         /\ SumHeldAllocations(c) = SumHeldAllocations(c)' + MoveCents(h)
         /\ MoveCents(h) \in Nat /\ MoveCents(h) > 0
<1> DEFINE a == MoveCents(h)
           t == req[h].target
<1>1. /\ TypeOK /\ t \in Targets /\ snap[h] = heldCents[c]
      /\ req[h].op = "releaseMilestone"
  BY WritingFacts DEF ReleaseMilestone, Control
<1>2. /\ allocStatus[c][t] = "held"
      /\ allocStatus' = [allocStatus EXCEPT ![c][t] = "released"]
      /\ MoveHeldToReleased(h, c, a)
      /\ UNCHANGED <<exists, refundedCents, allocCents, fundKeys, keyFunds>>
  BY DEF ReleaseMilestone
<1>3. a = allocCents[c][t] /\ a \in Nat /\ a > 0
  BY <1>1, <1>2 DEF MoveCents, TypeOK, AccountOK, AllocationsPositive
<1>4. /\ SumHeldAllocations(c) = SumHeldAllocations(c)' + a
      /\ SumCents(AllocationsIn(c, "released"), allocCents[c])'
           = SumCents(AllocationsIn(c, "released"), allocCents[c]) + a
  BY <1>1, <1>2, <1>3, SumsReleased DEF SumHeldAllocations
<1>5. /\ heldCents'[c] = heldCents[c] - a
      /\ releasedCents'[c] = releasedCents[c] + a
      /\ Booked(c)' /\ Settled(c)'
  BY <1>1, <1>2, <1>3, ReleaseBooks
<1>6. SumHeldAllocations(c)' \in Nat
  BY <1>1, <1>2, SumsReleased DEF SumHeldAllocations
<1>7. Covered(c)'
  BY <1>1, <1>3, <1>4, <1>5, <1>6, AccountTypes DEF AccountOK, Covered
<1>8. AllocationsPositive(c)' /\ KeysCounted(c)'
  BY <1>1, <1>2 DEF AccountOK, AllocationsPositive, KeysCounted, TypeOK
<1> QED BY <1>3, <1>4, <1>5, <1>7, <1>8 DEF AccountOK

(* Releasing a week's hours keeps its account in order. *)
LEMMA ReleaseHoursOK ==
  ASSUME Control, NEW h \in Handlers, ReleaseHours(h),
         NEW c \in Contracts, c = req[h].contract, AccountOK(c)
  PROVE  /\ AccountOK(c)'
         /\ SumHeldAllocations(c)' = SumHeldAllocations(c)
         /\ MoveCents(h) \in Nat /\ MoveCents(h) > 0
         /\ MoveCents(h) <= heldCents[c] - SumHeldAllocations(c)
<1> DEFINE a == MoveCents(h)
           t == req[h].target
<1>1. /\ TypeOK /\ t \in Targets /\ snap[h] = heldCents[c]
      /\ req[h].op = "releaseHours"
      /\ a = req[h].amount /\ a \in Nat /\ a > 0
      /\ a <= heldCents[c] - SumHeldAllocations(c)
  BY WritingFacts
  DEF ReleaseHours, Control, MoveCents, AdmitsReleaseHours, Available
<1>2. /\ allocStatus[c][t] = "none"
      /\ allocStatus' = [allocStatus EXCEPT ![c][t] = "released"]
      /\ allocCents' = [allocCents EXCEPT ![c][t] = a]
      /\ MoveHeldToReleased(h, c, a)
      /\ UNCHANGED <<exists, refundedCents, fundKeys, keyFunds>>
  BY DEF ReleaseHours
<1> HIDE DEF a
<1>3. \A q \in {"held", "released"} :
        SumCents(AllocationsIn(c, q), allocCents[c])'
          = SumCents(AllocationsIn(c, q), allocCents[c])
              + (IF q = "released" THEN a ELSE 0)
  BY <1>1, <1>2, SumsInserted
<1>4. /\ SumHeldAllocations(c)' = SumHeldAllocations(c)
      /\ SumCents(AllocationsIn(c, "released"), allocCents[c])'
           = SumCents(AllocationsIn(c, "released"), allocCents[c]) + a
  BY <1>1, <1>3, AccountTypes DEF SumHeldAllocations
<1>5. /\ heldCents'[c] = heldCents[c] - a
      /\ releasedCents'[c] = releasedCents[c] + a
      /\ Booked(c)' /\ Settled(c)'
  BY <1>1, <1>2, ReleaseBooks
<1>6. Covered(c)'
  BY <1>1, <1>4, <1>5, AccountTypes DEF AccountOK, Covered
<1>7. AllocationsPositive(c)' /\ KeysCounted(c)'
  BY <1>1, <1>2 DEF AccountOK, AllocationsPositive, KeysCounted, TypeOK
<1> QED BY <1>1, <1>4, <1>5, <1>6, <1>7 DEF AccountOK, a

(* Refunding keeps its account in order. *)
LEMMA RefundOK ==
  ASSUME Control, NEW h \in Handlers, RefundEscrow(h),
         NEW c \in Contracts, c = req[h].contract, AccountOK(c)
  PROVE  /\ AccountOK(c)'
         /\ SumHeldAllocations(c)' = SumHeldAllocations(c)
         /\ req[h].amount <= heldCents[c] - SumHeldAllocations(c)
<1> DEFINE a == req[h].amount
<1>1. /\ TypeOK /\ a \in Nat /\ a > 0 /\ snap[h] = heldCents[c]
      /\ a <= heldCents[c] - SumHeldAllocations(c)
  BY WritingFacts DEF RefundEscrow, AdmitsRefund, Available, Control
<1>2. /\ heldCents'[c] = heldCents[c] - a
      /\ refundedCents'[c] = refundedCents[c] + a
      /\ status'[c] = statusAfterRefund(heldCents[c] - a)
      /\ UNCHANGED <<exists, releasedCents, allocStatus, allocCents, fundKeys,
                     keyFunds>>
  BY <1>1 DEF RefundEscrow, TypeOK
<1>3. \A s : SumCents(AllocationsIn(c, s), allocCents[c])'
               = SumCents(AllocationsIn(c, s), allocCents[c])
  BY <1>2, SumsUnchanged
<1>4. Covered(c)'
  BY <1>1, <1>2, <1>3, AccountTypes DEF AccountOK, Covered, SumHeldAllocations
<1>5. Booked(c)'
  <2>1. /\ <<"escrow", c>> \in LedgerAccounts
        /\ \A q \in Kinds \ {"escrow"} : <<q, c>> \in LedgerAccounts \ {<<"escrow", c>>}
    BY DEF LedgerAccounts, Kinds
  <2>2. /\ ledger'[<<"refunds", c>>] = ledger[<<"refunds", c>>] + a
        /\ ledger'[<<"freelancer_balance", c>>] = ledger[<<"freelancer_balance", c>>]
        /\ ledger'[<<"escrow_contract", c>>] = ledger[<<"escrow_contract", c>>]
    BY <1>1, <2>1, LegsEffect DEF RefundEscrow, Kinds
  <2>3. /\ outbox'[c]["escrow.refunded"] = outbox[c]["escrow.refunded"] + a
        /\ outbox'[c]["escrow.funded"] = outbox[c]["escrow.funded"]
        /\ outbox'[c]["escrow.released"] = outbox[c]["escrow.released"]
    BY <1>1, EnqueueEffect DEF RefundEscrow, Events
  <2> QED BY <1>1, <1>2, <2>2, <2>3, AccountTypes DEF AccountOK, Booked
<1>6. Settled(c)'
  BY <1>1, <1>2, AccountTypes DEF AccountOK, Settled, statusAfterRefund
<1>7. AllocationsPositive(c)' /\ KeysCounted(c)'
  BY <1>2 DEF AccountOK, AllocationsPositive, KeysCounted
<1> QED BY <1>1, <1>3, <1>4, <1>5, <1>6, <1>7
    DEF AccountOK, SumHeldAllocations

-----------------------------------------------------------------------------
(* The theorems. *)

(* The initial state satisfies the inductive invariant. *)
LEMMA InitIInv ==
  ASSUME Init
  PROVE  IInv
<1>1. TypeOK
  BY EscrowAssumption
  DEF Init, TypeOK, Statuses, LedgerAccounts, Events
<1>2. Control
  BY <1>1 DEF Init, Control, RequestsValid, LocksHeld, SnapsFresh, ChecksStand,
              Critical
<1>3. \A c \in Contracts : AccountOK(c)
  <2> TAKE c \in Contracts
  <2>1. AllocationsIn(c, "held") = {} /\ AllocationsIn(c, "released") = {}
    BY DEF Init, AllocationsIn
  <2>2. Covered(c)
    <3>1. SumCents({}, allocCents[c]) = 0
      BY SumOfNone
    <3>2. heldCents[c] = 0 /\ releasedCents[c] = 0
      BY DEF Init
    <3> QED BY <2>1, <3>1, <3>2 DEF Covered, SumHeldAllocations
  <2>3. Booked(c)
    BY DEF Init, Booked, LedgerAccounts, Kinds, Events
  <2>4. AllocationsPositive(c) /\ KeysCounted(c) /\ Settled(c)
    BY DEF Init, AllocationsPositive, KeysCounted, Settled
  <2> QED BY <2>2, <2>3, <2>4 DEF AccountOK
<1> QED BY <1>2, <1>3 DEF IInv

(* Every step preserves the inductive invariant. *)
LEMMA NextIInv ==
  ASSUME IInv, [Next]_vars
  PROVE  IInv'
<1>1. Control'
  BY ControlStep DEF IInv
<1>2. ASSUME NEW c \in Contracts PROVE AccountOK(c)'
  <2>1. CASE UNCHANGED account
    BY <2>1, UntouchedOK DEF IInv, Untouched, account
  <2>2. ASSUME NEW h \in Handlers, Commit(h) PROVE AccountOK(c)'
    <3>1. CASE req[h].contract = c
      BY <2>2, <3>1, FundOK, AllocateOK, ReleaseMilestoneOK, ReleaseHoursOK,
         RefundOK DEF Commit, IInv
    <3>2. CASE req[h].contract # c
      BY <2>2, <3>2, CommitFrame, UntouchedOK DEF IInv, Control
    <3> QED BY <3>1, <3>2
  <2> QED BY <2>1, <2>2
    DEF Next, vars, Receive, LockEscrow, Step, Check, Refuse, Rollback
<1> QED BY <1>1, <1>2 DEF IInv

(* Every reachable state satisfies the inductive invariant. *)
THEOREM Invariance == Spec => []IInv
  BY InitIInv, NextIInv, PTL DEF Spec

(* The rows and the handlers' progress are always well-typed: no interleaving
   drives a balance below 0 or out of the BIGINT range. *)
THEOREM TypeCorrect == Spec => []TypeOK
<1>1. IInv => TypeOK
  BY DEF IInv, Control
<1> QED BY <1>1, Invariance, PTL

(* No interleaving of funds, allocations, releases and refunds promises the
   same cents twice, for any number of handlers, milestones and weeks. *)
THEOREM ReservationsSafe == Spec => []ReservationsCovered
<1>1. IInv => ReservationsCovered
  BY DEF IInv, AccountOK, Covered, ReservationsCovered
<1> QED BY <1>1, Invariance, PTL

(* ReleaseMilestone's guard against a drifted balance never refuses a held
   allocation. *)
THEOREM ReservationsHonoured == Spec => []ReservedIsReleasable
<1>1. IInv => ReservedIsReleasable
  <2> SUFFICES ASSUME IInv, NEW h \in Handlers, pc[h] = "locked",
                      req[h].op = "releaseMilestone",
                      allocStatus[req[h].contract][req[h].target] = "held"
               PROVE  AdmitsReleaseMilestone(h)
    BY DEF ReservedIsReleasable, Admits
  <2> DEFINE c == req[h].contract
             t == req[h].target
  <2>1. /\ TypeOK /\ c \in Contracts /\ t \in Targets /\ snap[h] = heldCents[c]
    BY RequestParts DEF IInv, Control, RequestsValid, SnapsFresh, Critical
  <2>2. SumHeldAllocations(c) <= heldCents[c]
    BY <2>1 DEF IInv, AccountOK, Covered
  <2>3. allocCents[c][t] <= SumHeldAllocations(c)
    <3> DEFINE H == AllocationsIn(c, "held")
               f == allocCents[c]
    <3>1. IsFiniteSet(H) /\ t \in H /\ \A u \in H : f[u] \in Nat
      <4>1. IsFiniteSet(H)
        BY AllocationsFinite
      <4>2. t \in H /\ \A u \in H : f[u] \in Nat
        BY <2>1 DEF AllocationsIn, TypeOK
      <4> QED BY <4>1, <4>2
    <3> HIDE DEF H, f
    <3>2. SumCents(H, f) = SumCents(H \ {t}, f) + f[t] /\ SumCents(H \ {t}, f) \in Nat
      BY <3>1, SumRemove
    <3> QED BY <3>1, <3>2 DEF SumHeldAllocations, H, f
  <2>4. heldCents[c] \in Nat /\ SumHeldAllocations(c) \in Nat
        /\ allocCents[c][t] \in Nat
    BY <2>1, AccountTypes DEF TypeOK
  <2> QED BY <2>1, <2>2, <2>3, <2>4 DEF AdmitsReleaseMilestone
<1> QED BY <1>1, Invariance, PTL

(* The released balance is the sum of the released allocations. *)
THEOREM ReleasesSafe == Spec => []ReleasedAsAllocated
<1>1. IInv => ReleasedAsAllocated
  BY DEF IInv, AccountOK, Covered, ReleasedAsAllocated
<1> QED BY <1>1, Invariance, PTL

(* Balances, ledger and outbox always agree. *)
THEOREM BooksSafe == Spec => []BooksAgree
<1>1. IInv => BooksAgree
  BY DEF IInv, AccountOK, Booked, BooksAgree
<1> QED BY <1>1, Invariance, PTL

(* An idempotency key credits its contract at most once. *)
THEOREM FundingIdempotent == Spec => []FundOncePerKey
<1>1. IInv => FundOncePerKey
  BY DEF IInv, AccountOK, KeysCounted, FundOncePerKey
<1> QED BY <1>1, Invariance, PTL

(* The status column never contradicts the balances. *)
THEOREM StatusSafe == Spec => []StatusFollowsMoney
<1>1. IInv => StatusFollowsMoney
  BY DEF IInv, AccountOK, Settled, StatusFollowsMoney
<1> QED BY <1>1, Invariance, PTL

-----------------------------------------------------------------------------
(* The escrow service implements the abstract account. *)

(* A commit on c changes the reservations of c only. *)
LEMMA ReservedChange ==
  ASSUME NEW c \in Contracts, NEW n,
         SumHeldAllocations(c)' = n,
         \A d \in Contracts \ {c} : Untouched(d)
  PROVE  ReservedCents' = [ReservedCents EXCEPT ![c] = n]
<1>1. \A d \in Contracts \ {c} : SumHeldAllocations(d)' = SumHeldAllocations(d)
  BY SumsUnchanged DEF Untouched, SumHeldAllocations
<1> QED BY <1>1 DEF ReservedCents

(* Every commit is one movement of the abstract account. *)
LEMMA CommitRefines ==
  ASSUME IInv, NEW h \in Handlers, Commit(h)
  PROVE  Account!Next
<1> DEFINE c == req[h].contract
           R == SumHeldAllocations(c)
<1>1. /\ TypeOK /\ Control /\ RequestsValid /\ pc[h] = "writing"
      /\ c \in Contracts /\ AccountOK(c)
      /\ \A d \in Contracts \ {c} : Untouched(d)
  BY CommitFrame, RequestParts DEF IInv, Control
<1>2. PICK x \in Contracts : x = c
  BY <1>1
<1>3. /\ heldCents[x] \in 0 .. MaxCents /\ SumHeldAllocations(x) \in Nat
      /\ ReservedCents[x] = SumHeldAllocations(x)
      /\ SumHeldAllocations(x) <= heldCents[x]
      /\ MaxCents \in Nat
  BY <1>1, <1>2, AccountTypes, EscrowAssumption
  DEF TypeOK, ReservedCents, AccountOK, Covered
<1>4. ASSUME NEW n, SumHeldAllocations(x)' = n
      PROVE  ReservedCents' = [ReservedCents EXCEPT ![x] = n]
  BY <1>1, <1>2, <1>4, ReservedChange
<1>5. CASE FundEscrow(h)
  <2>1. req[h].amount \in 1 .. MaxCents
    BY <1>1, <1>3, <1>2, <1>5, WritingFacts DEF FundEscrow
  <2>2. UNCHANGED ReservedCents
    BY <1>5, SumsUnchanged DEF FundEscrow, ReservedCents, SumHeldAllocations
  <2>3. Account!Deposit(x, req[h].amount)
    BY <1>2, <1>5, <2>2 DEF FundEscrow, Account!Deposit
  <2> QED BY <2>1, <2>3 DEF Account!Next
<1>6. CASE AllocateToMilestone(h)
  <2>1. /\ req[h].amount \in 1 .. MaxCents
        /\ req[h].amount <= heldCents[x] - SumHeldAllocations(x)
    BY <1>1, <1>2, <1>3, <1>6, WritingFacts
    DEF AllocateToMilestone, AdmitsAllocate, Available
  <2>2. ReservedCents' = [ReservedCents EXCEPT ![x] = ReservedCents[x] + req[h].amount]
    BY <1>1, <1>2, <1>3, <1>4, <1>6, AllocateOK
  <2>3. Account!Reserve(x, req[h].amount)
    BY <1>3, <1>6, <2>1, <2>2
    DEF AllocateToMilestone, Account!Reserve, Account!Free
  <2> QED BY <2>1, <2>3 DEF Account!Next
<1>7. CASE ReleaseMilestone(h)
  <2>1. /\ MoveCents(h) \in Nat /\ MoveCents(h) > 0
        /\ SumHeldAllocations(x) = SumHeldAllocations(x)' + MoveCents(h)
    BY <1>1, <1>2, <1>7, ReleaseMilestoneOK
  <2>2. SumHeldAllocations(x)' \in Nat
    <3>1. req[h].target \in Targets
      BY <1>1, <1>7, WritingFacts DEF ReleaseMilestone
    <3> QED BY <1>1, <1>2, <1>7, <3>1, SumsReleased
        DEF ReleaseMilestone, SumHeldAllocations
  <2>3. ReservedCents' = [ReservedCents EXCEPT ![x] = ReservedCents[x] - MoveCents(h)]
    BY <1>3, <1>4, <2>1, <2>2
  <2>4. /\ MoveCents(h) \in 1 .. MaxCents
        /\ MoveCents(h) <= ReservedCents[x]
    BY <1>3, <2>1, <2>2
  <2>5. Account!ReleaseReserved(x, MoveCents(h))
    BY <1>2, <1>7, <2>3, <2>4
    DEF ReleaseMilestone, MoveHeldToReleased, Account!ReleaseReserved
  <2> QED BY <2>4, <2>5 DEF Account!Next
<1>8. CASE ReleaseHours(h)
  <2>1. /\ MoveCents(h) \in Nat /\ MoveCents(h) > 0
        /\ SumHeldAllocations(x)' = SumHeldAllocations(x)
        /\ MoveCents(h) <= heldCents[x] - SumHeldAllocations(x)
    BY <1>1, <1>2, <1>8, ReleaseHoursOK
  <2>2. ReservedCents' = ReservedCents
    BY <1>3, <1>4, <2>1 DEF ReservedCents
  <2>3. MoveCents(h) \in 1 .. MaxCents
    BY <1>3, <2>1
  <2>4. Account!ReleaseFree(x, MoveCents(h))
    BY <1>2, <1>3, <1>8, <2>1, <2>2
    DEF ReleaseHours, MoveHeldToReleased, Account!ReleaseFree, Account!Free
  <2> QED BY <2>3, <2>4 DEF Account!Next
<1>9. CASE RefundEscrow(h)
  <2>1. /\ req[h].amount \in Nat /\ req[h].amount > 0
        /\ req[h].amount <= heldCents[x] - SumHeldAllocations(x)
    BY <1>1, <1>2, <1>9, WritingFacts DEF RefundEscrow, AdmitsRefund, Available
  <2>2. UNCHANGED ReservedCents
    BY <1>9, SumsUnchanged DEF RefundEscrow, ReservedCents, SumHeldAllocations
  <2>3. req[h].amount \in 1 .. MaxCents
    BY <1>3, <2>1
  <2>4. Account!Refund(x, req[h].amount)
    BY <1>2, <1>3, <1>9, <2>1, <2>2
    DEF RefundEscrow, Account!Refund, Account!Free
  <2> QED BY <2>3, <2>4 DEF Account!Next
<1> QED BY <1>5, <1>6, <1>7, <1>8, <1>9 DEF Commit

(* The escrow service implements the abstract account: every behaviour of the
   transactions, locks and rows is one of deposits, reservations, releases
   and refunds that never spend what is reserved. *)
THEOREM Refinement == Spec => RefinesAccount
<1>1. Init => Account!Init
  <2> SUFFICES ASSUME Init PROVE ReservedCents = [c \in Contracts |-> 0]
    BY DEF Init, Account!Init
  <2>1. \A c \in Contracts : SumHeldAllocations(c) = 0
    <3> TAKE c \in Contracts
    <3>1. AllocationsIn(c, "held") = {}
      BY DEF Init, AllocationsIn
    <3> QED BY <3>1, SumOfNone DEF SumHeldAllocations
  <2> QED BY <2>1 DEF ReservedCents
<1>2. IInv /\ [Next]_vars => [Account!Next]_(Account!balances)
  <2> SUFFICES ASSUME IInv, [Next]_vars
               PROVE  [Account!Next]_(Account!balances)
    OBVIOUS
  <2>1. CASE UNCHANGED account
    <3>1. UNCHANGED ReservedCents
      BY <2>1, SumsUnchanged DEF account, ReservedCents, SumHeldAllocations
    <3> QED BY <2>1, <3>1 DEF account, Account!balances
  <2>2. ASSUME NEW h \in Handlers, Commit(h)
        PROVE  Account!Next
    BY <2>2, CommitRefines
  <2> QED BY <2>1, <2>2
    DEF Next, vars, Receive, LockEscrow, Step, Check, Refuse, Rollback
<1> QED BY <1>1, <1>2, Invariance, PTL DEF Spec, RefinesAccount, Account!Spec
=============================================================================
