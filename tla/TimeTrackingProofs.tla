------------------------- MODULE TimeTrackingProofs -------------------------
(***************************************************************************)
(* Billing by the time-tracking service for any sessions, weeks, scores,   *)
(* rates and number of overlapping stops.                                  *)
(***************************************************************************)
EXTENDS TimeTracking, CentsProofs

(* A stop in progress has its session, and past CloseSession the session's
   row lock, which keeps the number of stops where the guard found it. *)
StopsOwned ==
  \A h \in Handlers :
    /\ pc[h] # "idle" => session[h] \in Sessions
    /\ pc[h] \in {"accrue", "commit"} =>
         sessionLock[session[h]] = h /\ stops[session[h]] < MaxStops

(* Nothing is billed for a session that was never stopped. *)
UnstoppedUnbilled == \A s \in Sessions : stops[s] = 0 => billed[s] = 0

IInv ==
  /\ TypeOK /\ StopsOwned /\ UnstoppedUnbilled
  /\ AccrualsAnnounced /\ SheetBillsSessions /\ AmountFollowsSeconds
  /\ FlaggedAnnounced

-----------------------------------------------------------------------------
(* Division by the hour rounds down by less than an hour. *)
LEMMA RoundsDown ==
  ASSUME NEW a \in Nat, NEW n \in Nat \ {0}
  PROVE  /\ a \div n \in Nat
         /\ (a \div n) * n <= a
         /\ a - (a \div n) * n <= n - 1
  OBVIOUS

(* Changing one row changes the sum by as much. *)
LEMMA SumUpdate ==
  ASSUME NEW S, IsFiniteSet(S), NEW x \in S, NEW f, NEW g,
         \A s \in S : f[s] \in Nat /\ g[s] \in Nat,
         \A s \in S \ {x} : f[s] = g[s]
  PROVE  /\ SumCents(S, f) \in Nat /\ SumCents(S, g) \in Nat
         /\ SumCents(S, g) + f[x] = SumCents(S, f) + g[x]
         /\ SumCents(S, f) >= f[x]
<1>1. /\ SumCents(S, f) = SumCents(S \ {x}, f) + f[x]
      /\ SumCents(S \ {x}, f) \in Nat
  BY SumRemove
<1>2. SumCents(S, g) = SumCents(S \ {x}, g) + g[x]
  BY SumRemove
<1>3. SumCents(S \ {x}, f) = SumCents(S \ {x}, g)
  BY SumSame
<1> QED BY <1>1, <1>2, <1>3

(* The sessions of a week are finitely many rows of the session tables. *)
LEMMA WeekRows ==
  ASSUME TypeOK, NEW w \in Sheets
  PROVE  /\ IsFiniteSet(SessionsOf(w)) /\ SessionsOf(w) \subseteq Sessions
         /\ \A s \in SessionsOf(w) : billed[s] \in Nat /\ stops[s] \in Nat
         /\ SumCents(SessionsOf(w), billed) \in Nat
         /\ StopsOf(w) \in Nat
<1>1. IsFiniteSet(SessionsOf(w)) /\ SessionsOf(w) \subseteq Sessions
  BY FS_Subset, TimeTrackingAssumption DEF SessionsOf
<1>2. \A s \in SessionsOf(w) : billed[s] \in Nat /\ stops[s] \in Nat
  BY <1>1, TimeTrackingAssumption DEF TypeOK
<1> QED BY <1>1, <1>2, SumType DEF StopsOf

(* An upsert of a batch keeps slices well-typed. *)
LEMMA BatchParts ==
  ASSUME NEW batch \in Batches
  PROVE  /\ DOMAIN batch \subseteq Starts
         /\ \A t \in DOMAIN batch :
              batch[t].seconds \in Nat /\ batch[t].suspicious \in BOOLEAN
<1>1. PICK S \in SUBSET Starts : batch \in [S -> Scores]
  BY DEF Batches
<1> QED BY <1>1, TimeTrackingAssumption

(* Ending a transaction leaves the other handlers their locks. *)
LEMMA EndTxFrame ==
  ASSUME TypeOK, NEW h \in Handlers, EndTx(h)
  PROVE  /\ pc' \in [Handlers -> {"idle", "close", "accrue", "commit"}]
         /\ session' \in [Handlers -> Sessions \cup {None}]
         /\ sum' \in [Handlers -> Nat]
         /\ sessionLock' \in [Sessions -> Handlers \cup {None}]
         /\ sheetLock' \in [Sheets -> Handlers \cup {None}]
         /\ pc'[h] = "idle"
         /\ \A g \in Handlers \ {h} :
              /\ pc'[g] = pc[g] /\ session'[g] = session[g]
              /\ \A s \in Sessions : sessionLock[s] = g => sessionLock'[s] = g
  BY TimeTrackingAssumption DEF TypeOK, EndTx, Goto

(* The books do not depend on locks, handlers, statuses or slices. *)
LEMMA BillsFrame ==
  ASSUME IInv, UNCHANGED bills
  PROVE  /\ UnstoppedUnbilled' /\ AccrualsAnnounced'
         /\ SheetBillsSessions' /\ AmountFollowsSeconds'
  BY DEF IInv, bills, UnstoppedUnbilled, AccrualsAnnounced, SheetBillsSessions,
         AmountFollowsSeconds, StopsOf

-----------------------------------------------------------------------------
LEMMA InitIInv == Init => IInv
<1> SUFFICES ASSUME Init PROVE IInv
  OBVIOUS
<1>1. TypeOK
  BY TimeTrackingAssumption DEF Init, TypeOK
<1>2. StopsOwned /\ UnstoppedUnbilled /\ AccrualsAnnounced /\ FlaggedAnnounced
  BY DEF Init, StopsOwned, UnstoppedUnbilled, AccrualsAnnounced, FlaggedAnnounced
<1>3. ASSUME NEW w \in Sheets
      PROVE  SumCents(SessionsOf(w), billed) = 0 /\ StopsOf(w) = 0
  <2>1. \A s \in SessionsOf(w) : billed[s] = 0 /\ stops[s] = 0
    BY DEF Init, SessionsOf
  <2>2. CentsOf(SessionsOf(w), billed) = {} /\ CentsOf(SessionsOf(w), stops) = {}
    BY <2>1 DEF CentsOf
  <2> QED BY <2>2, FS_EmptySet DEF SumCents, StopsOf
<1>4. SheetBillsSessions
  BY <1>3 DEF SheetBillsSessions, Init
<1>5. AmountFollowsSeconds
  BY <1>3, TimeTrackingAssumption DEF AmountFollowsSeconds, Init
<1> QED BY <1>1, <1>2, <1>4, <1>5 DEF IInv

LEMMA StartKeeps ==
  ASSUME IInv, NEW s \in Sessions, StartSession(s)
  PROVE  IInv'
<1>1. TypeOK'
  BY DEF IInv, TypeOK, StartSession, slices, bills, locks, txs
<1>2. StopsOwned' /\ FlaggedAnnounced'
  BY DEF IInv, StopsOwned, FlaggedAnnounced, StartSession, slices, bills, locks, txs
<1> QED BY <1>1, <1>2, BillsFrame DEF IInv, StartSession

LEMMA IngestKeeps ==
  ASSUME IInv, NEW s \in Sessions, NEW batch \in Batches, IngestSlices(s, batch)
  PROVE  IInv'
<1>1. /\ seconds' \in [Sessions -> [Starts -> Nat]]
      /\ flagged' \in [Sessions -> SUBSET Starts]
      /\ reported' \in [Sessions -> SUBSET Starts]
  BY BatchParts DEF IInv, TypeOK, IngestSlices, UpsertSlice, Suspicious
<1>2. TypeOK'
  BY <1>1 DEF IInv, TypeOK, IngestSlices, bills, locks, txs
<1>3. StopsOwned'
  BY DEF IInv, StopsOwned, IngestSlices, bills, locks, txs
<1>4. FlaggedAnnounced'
  <2> SUFFICES ASSUME NEW r \in Sessions, NEW t \in flagged'[r]
               PROVE  t \in reported'[r]
    BY DEF FlaggedAnnounced
  <2>1. CASE r = s
    BY <2>1 DEF IInv, TypeOK, FlaggedAnnounced, IngestSlices, UpsertSlice, Suspicious
  <2>2. CASE r # s
    BY <2>2 DEF IInv, TypeOK, FlaggedAnnounced, IngestSlices, UpsertSlice
  <2> QED BY <2>1, <2>2
<1> QED BY <1>2, <1>3, <1>4, BillsFrame DEF IInv, IngestSlices

LEMMA SumKeeps ==
  ASSUME IInv, NEW h \in Handlers, NEW s \in Sessions, SumSlices(h, s)
  PROVE  IInv'
<1>1. SumCents(Starts, seconds[s]) \in Nat
  BY SumType, TimeTrackingAssumption DEF IInv, TypeOK
<1>2. TypeOK'
  BY <1>1 DEF IInv, TypeOK, SumSlices, Goto, slices, bills, locks
<1>3. StopsOwned' /\ FlaggedAnnounced'
  BY DEF IInv, TypeOK, StopsOwned, FlaggedAnnounced, SumSlices, Goto, slices, bills,
         locks
<1> QED BY <1>2, <1>3, BillsFrame DEF IInv, SumSlices

LEMMA CloseKeeps ==
  ASSUME IInv, NEW h \in Handlers, CloseSession(h)
  PROVE  IInv'
<1>1. session[h] \in Sessions
  BY DEF IInv, StopsOwned, CloseSession
<1>2. TypeOK'
  BY <1>1 DEF IInv, TypeOK, CloseSession, Goto, slices, bills
<1>3. StopsOwned' /\ FlaggedAnnounced'
  BY <1>1, TimeTrackingAssumption
  DEF IInv, TypeOK, StopsOwned, FlaggedAnnounced, CloseSession, Goto, slices, bills
<1> QED BY <1>2, <1>3, BillsFrame DEF IInv, CloseSession

LEMMA LockKeeps ==
  ASSUME IInv, NEW h \in Handlers, LockTimesheet(h)
  PROVE  IInv'
<1>1. session[h] \in Sessions
  BY DEF IInv, StopsOwned, LockTimesheet
<1>2. TypeOK'
  BY <1>1, TimeTrackingAssumption DEF IInv, TypeOK, LockTimesheet, Goto, slices, bills
<1>3. StopsOwned' /\ FlaggedAnnounced'
  BY DEF IInv, TypeOK, StopsOwned, FlaggedAnnounced, LockTimesheet, Goto, slices, bills
<1> QED BY <1>2, <1>3, BillsFrame DEF IInv, LockTimesheet

LEMMA RollbackKeeps ==
  ASSUME IInv, NEW h \in Handlers, Rollback(h)
  PROVE  IInv'
<1>1. EndTx(h)
  BY DEF Rollback
<1>2. TypeOK'
  BY <1>1, EndTxFrame DEF IInv, TypeOK, Rollback, slices, bills
<1>3. StopsOwned' /\ FlaggedAnnounced'
  BY <1>1, EndTxFrame DEF IInv, TypeOK, StopsOwned, FlaggedAnnounced, Rollback, slices, bills
<1> QED BY <1>2, <1>3, BillsFrame DEF IInv, Rollback

(* The commit of a stop: its session's row is replaced, its week's row grows. *)
LEMMA StopKeeps ==
  ASSUME IInv, NEW h \in Handlers, StopSession(h)
  PROVE  IInv'
<1> DEFINE s == session[h]
           w == SheetOf[s]
           n == sum[h]
<1>1. s \in Sessions /\ w \in Sheets /\ n \in Nat /\ stops[s] < MaxStops
      /\ sessionLock[s] = h
  BY TimeTrackingAssumption DEF IInv, TypeOK, StopsOwned, StopSession
<1>2. EndTx(h)
  BY DEF StopSession
<1>3. AmountCents(n) \in Nat /\ RateCents * n \in Nat
      /\ AmountCents(n) * Hour <= RateCents * n
      /\ RateCents * n - AmountCents(n) * Hour <= Hour - 1
  <2>1. RateCents * n \in Nat
    BY <1>1, TimeTrackingAssumption
  <2> QED BY <2>1, RoundsDown, TimeTrackingAssumption DEF AmountCents
<1>4. /\ status' = [status EXCEPT ![s] = "closed"]
      /\ billed' = [billed EXCEPT ![s] = n]
      /\ sheetSeconds' = [sheetSeconds EXCEPT ![w] = @ + n]
      /\ sheetCents' = [sheetCents EXCEPT ![w] = @ + AmountCents(n)]
      /\ announced' = [announced EXCEPT ![w] = @ + n]
      /\ stops' = [stops EXCEPT ![s] = @ + 1]
      /\ UNCHANGED <<seconds, flagged, reported>>
  BY DEF StopSession, AccrueTimesheet, slices
<1> HIDE DEF s, w, n
<1>5. TypeOK'
  BY <1>1, <1>2, <1>3, <1>4, EndTxFrame, TimeTrackingAssumption DEF IInv, TypeOK
<1>6. StopsOwned'
  BY <1>1, <1>2, <1>4, EndTxFrame DEF IInv, TypeOK, StopsOwned
<1>7. UnstoppedUnbilled' /\ AccrualsAnnounced' /\ FlaggedAnnounced'
  BY <1>1, <1>4, TimeTrackingAssumption
  DEF IInv, TypeOK, UnstoppedUnbilled, AccrualsAnnounced, FlaggedAnnounced
<1>8. ASSUME NEW v \in Sheets
      PROVE  /\ v = w => /\ SumCents(SessionsOf(v), billed') + billed[s]
                              = SumCents(SessionsOf(v), billed) + n
                         /\ SumCents(SessionsOf(v), stops') = StopsOf(v) + 1
                         /\ sheetSeconds'[v] = sheetSeconds[v] + n
                         /\ sheetCents'[v] = sheetCents[v] + AmountCents(n)
             /\ v # w => /\ SumCents(SessionsOf(v), billed')
                              = SumCents(SessionsOf(v), billed)
                         /\ SumCents(SessionsOf(v), stops') = StopsOf(v)
                         /\ sheetSeconds'[v] = sheetSeconds[v]
                         /\ sheetCents'[v] = sheetCents[v]
  <2>0. TypeOK
    BY DEF IInv
  <2>1. /\ IsFiniteSet(SessionsOf(v)) /\ SessionsOf(v) \subseteq Sessions
        /\ \A r \in SessionsOf(v) : /\ billed[r] \in Nat /\ stops[r] \in Nat
                                    /\ billed'[r] \in Nat /\ stops'[r] \in Nat
    BY <2>0, WeekRows, <1>1, <1>4 DEF TypeOK
  <2>2. /\ billed'[s] = n /\ stops'[s] = stops[s] + 1
        /\ \A r \in Sessions \ {s} : billed'[r] = billed[r] /\ stops'[r] = stops[r]
    BY <2>0, <1>1, <1>4 DEF TypeOK
  <2>3. CASE v = w
    <3>1. s \in SessionsOf(v)
      BY <1>1, <2>3 DEF SessionsOf, w
    <3>2. SumCents(SessionsOf(v), billed') + billed[s]
            = SumCents(SessionsOf(v), billed) + n
      BY <2>1, <2>2, <3>1, SumUpdate
    <3>3. /\ SumCents(SessionsOf(v), stops) \in Nat
          /\ SumCents(SessionsOf(v), stops') \in Nat
          /\ SumCents(SessionsOf(v), stops') + stops[s]
               = SumCents(SessionsOf(v), stops) + (stops[s] + 1)
      BY <2>1, <2>2, <3>1, SumUpdate
    <3>4. SumCents(SessionsOf(v), stops') = StopsOf(v) + 1
      BY <3>3, <2>1, <3>1 DEF StopsOf
    <3> QED BY <2>3, <3>2, <3>4, <1>1, <1>4, <2>0 DEF TypeOK
  <2>4. CASE v # w
    <3>1. s \notin SessionsOf(v)
      BY <2>4 DEF SessionsOf, w
    <3>2. /\ SumCents(SessionsOf(v), billed') = SumCents(SessionsOf(v), billed)
          /\ SumCents(SessionsOf(v), stops') = SumCents(SessionsOf(v), stops)
      BY <2>1, <2>2, <3>1, SumSame
    <3> QED BY <2>4, <3>2, <1>1, <1>4, <2>0 DEF TypeOK, StopsOf
  <2> QED BY <2>3, <2>4
<1>9. SheetBillsSessions'
  <2> SUFFICES ASSUME NEW v \in Sheets
               PROVE  LET due == SumCents(SessionsOf(v), billed')
                      IN /\ sheetSeconds'[v] >= due
                         /\ (\A r \in SessionsOf(v) : stops'[r] <= 1)
                               => sheetSeconds'[v] = due
    BY DEF SheetBillsSessions, SessionsOf
  <2>0. /\ TypeOK /\ SumCents(SessionsOf(v), billed) \in Nat
        /\ sheetSeconds[v] >= SumCents(SessionsOf(v), billed)
        /\ (\A r \in SessionsOf(v) : stops[r] <= 1)
              => sheetSeconds[v] = SumCents(SessionsOf(v), billed)
    BY WeekRows DEF IInv, SheetBillsSessions
  <2>1. \A r \in Sessions : stops[r] \in Nat /\ stops'[r] >= stops[r]
    BY <1>1, <1>4, <2>0, TimeTrackingAssumption DEF TypeOK
  <2>2. SessionsOf(v) \subseteq Sessions
    BY DEF SessionsOf
  <2>3. CASE v = w
    <3>1. /\ SumCents(SessionsOf(v), billed') + billed[s]
               = SumCents(SessionsOf(v), billed) + n
          /\ sheetSeconds'[v] = sheetSeconds[v] + n
      BY <1>8, <2>3
    <3>2. SumCents(SessionsOf(v), billed') \in Nat
      <4>1. \A r \in SessionsOf(v) : billed'[r] \in Nat
        BY <1>5, <2>2 DEF TypeOK
      <4> QED BY <4>1, <2>0, WeekRows, SumType
    <3>3. billed[s] \in Nat /\ sheetSeconds[v] \in Nat
      BY <1>1, <2>0 DEF TypeOK
    <3>4. ASSUME \A r \in SessionsOf(v) : stops'[r] <= 1
          PROVE  sheetSeconds'[v] = SumCents(SessionsOf(v), billed')
      <4>1. s \in SessionsOf(v)
        BY <1>1, <2>3 DEF SessionsOf, w
      <4>2. stops[s] = 0
        BY <3>4, <4>1, <1>1, <1>4, <2>0, <2>1 DEF TypeOK
      <4>3. billed[s] = 0
        BY <4>2, <1>1 DEF IInv, UnstoppedUnbilled
      <4>4. \A r \in SessionsOf(v) : stops[r] <= 1
        <5> SUFFICES ASSUME NEW r \in SessionsOf(v) PROVE stops[r] <= 1
          OBVIOUS
        <5>1. stops[r] \in Nat /\ stops'[r] \in Nat /\ stops[r] <= stops'[r]
          BY <2>1, <2>2, <1>5, TimeTrackingAssumption DEF TypeOK
        <5> QED BY <5>1, <3>4
      <4> QED BY <3>1, <3>2, <3>3, <4>3, <4>4, <2>0
    <3> QED BY <1>1, <3>1, <3>2, <3>3, <3>4, <2>0
  <2>4. CASE v # w
    <3>1. ASSUME \A r \in SessionsOf(v) : stops'[r] <= 1
          PROVE  \A r \in SessionsOf(v) : stops[r] <= 1
      <4> SUFFICES ASSUME NEW r \in SessionsOf(v) PROVE stops[r] <= 1
        OBVIOUS
      <4>1. stops[r] \in Nat /\ stops'[r] \in Nat /\ stops[r] <= stops'[r]
        BY <2>1, <2>2, <1>5, TimeTrackingAssumption DEF TypeOK
      <4> QED BY <4>1, <3>1
    <3> QED BY <1>8, <2>4, <2>0, <3>1
  <2> QED BY <2>3, <2>4
<1>10. AmountFollowsSeconds'
  <2> SUFFICES ASSUME NEW v \in Sheets
               PROVE  LET short == RateCents * sheetSeconds'[v]
                                     - sheetCents'[v] * Hour
                      IN /\ 0 <= short
                         /\ short <= (Hour - 1) * SumCents(SessionsOf(v), stops')
    BY DEF AmountFollowsSeconds, StopsOf, SessionsOf
  <2> DEFINE short == RateCents * sheetSeconds[v] - sheetCents[v] * Hour
  <2>1. /\ sheetSeconds[v] \in Nat /\ sheetCents[v] \in Nat /\ StopsOf(v) \in Nat
        /\ 0 <= short /\ short <= (Hour - 1) * StopsOf(v)
    BY WeekRows DEF IInv, TypeOK, AmountFollowsSeconds
  <2>2. CASE v = w
    <3>1. RateCents * (sheetSeconds[v] + n)
            = RateCents * sheetSeconds[v] + RateCents * n
      BY <1>1, <2>1, TimeTrackingAssumption
    <3>2. (sheetCents[v] + AmountCents(n)) * Hour
            = sheetCents[v] * Hour + AmountCents(n) * Hour
      BY <1>3, <2>1, TimeTrackingAssumption
    <3>3. (Hour - 1) * (StopsOf(v) + 1) = (Hour - 1) * StopsOf(v) + (Hour - 1)
      BY <2>1, TimeTrackingAssumption
    <3>4. /\ RateCents * sheetSeconds[v] \in Int /\ sheetCents[v] * Hour \in Int
          /\ AmountCents(n) * Hour \in Int /\ (Hour - 1) * StopsOf(v) \in Int
          /\ Hour - 1 \in Int
      BY <1>3, <2>1, TimeTrackingAssumption
    <3>5. RateCents * sheetSeconds'[v] - sheetCents'[v] * Hour
            = short + (RateCents * n - AmountCents(n) * Hour)
      BY <1>3, <1>8, <2>2, <3>1, <3>2, <3>4
    <3> HIDE DEF short
    <3>6. short \in Int
      BY <3>4 DEF short
    <3> QED BY <1>3, <1>8, <2>1, <2>2, <3>3, <3>4, <3>5, <3>6
  <2>3. CASE v # w
    BY <1>8, <2>1, <2>3
  <2> QED BY <2>2, <2>3
<1> QED BY <1>5, <1>6, <1>7, <1>9, <1>10 DEF IInv

LEMMA NextIInv == IInv /\ [Next]_vars => IInv'
<1> SUFFICES ASSUME IInv, [Next]_vars PROVE IInv'
  OBVIOUS
<1>1. CASE UNCHANGED vars
  <2>1. TypeOK' /\ StopsOwned' /\ FlaggedAnnounced'
    BY <1>1 DEF IInv, TypeOK, StopsOwned, FlaggedAnnounced, vars, slices, bills, locks,
                txs
  <2> QED BY <1>1, <2>1, BillsFrame DEF IInv, vars
<1>2. ASSUME NEW s \in Sessions, StartSession(s) PROVE IInv'
  BY <1>2, StartKeeps
<1>3. ASSUME NEW s \in Sessions, NEW batch \in Batches, IngestSlices(s, batch)
      PROVE  IInv'
  BY <1>3, IngestKeeps
<1>4. ASSUME NEW h \in Handlers, NEW s \in Sessions, SumSlices(h, s) PROVE IInv'
  BY <1>4, SumKeeps
<1>5. ASSUME NEW h \in Handlers, CloseSession(h) PROVE IInv'
  BY <1>5, CloseKeeps
<1>6. ASSUME NEW h \in Handlers, LockTimesheet(h) PROVE IInv'
  BY <1>6, LockKeeps
<1>7. ASSUME NEW h \in Handlers, StopSession(h) PROVE IInv'
  BY <1>7, StopKeeps
<1>8. ASSUME NEW h \in Handlers, Rollback(h) PROVE IInv'
  BY <1>8, RollbackKeeps
<1> QED BY <1>1, <1>2, <1>3, <1>4, <1>5, <1>6, <1>7, <1>8 DEF Next

LEMMA Invariant == Spec => []IInv
  BY InitIInv, NextIInv, PTL DEF Spec

-----------------------------------------------------------------------------
(* Sessions, slices, timesheets and stops in progress stay well-typed, and a
   session is closed exactly when a stop of it committed. *)
THEOREM TypeCorrect == Spec => []TypeOK
<1>1. IInv => TypeOK
  BY DEF IInv
<1> QED BY <1>1, Invariant, PTL

(* However stops of a week overlap or roll back, its timesheet and its
   worksession.closed events agree. *)
THEOREM AccrualsSafe == Spec => []AccrualsAnnounced
<1>1. IInv => AccrualsAnnounced
  BY DEF IInv
<1> QED BY <1>1, Invariant, PTL

(* A timesheet bills at least its sessions, and exactly them as long as none
   was stopped twice. *)
THEOREM SheetsSafe == Spec => []SheetBillsSessions
<1>1. IInv => SheetBillsSessions
  BY DEF IInv
<1> QED BY <1>1, Invariant, PTL

(* Rounding costs a week less than one cent per stop, never the client. *)
THEOREM AmountsSafe == Spec => []AmountFollowsSeconds
<1>1. IInv => AmountFollowsSeconds
  BY DEF IInv
<1> QED BY <1>1, Invariant, PTL

(* Every flagged slice was announced. *)
THEOREM FlagsSafe == Spec => []FlaggedAnnounced
<1>1. IInv => FlaggedAnnounced
  BY DEF IInv
<1> QED BY <1>1, Invariant, PTL
=============================================================================
