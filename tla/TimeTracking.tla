---------------------------- MODULE TimeTracking ----------------------------
(***************************************************************************)
(* The time-tracking service: work sessions, the time slices the desktop   *)
(* tracker syncs (in batches, again after a lost answer, also after the    *)
(* session was stopped), and the weekly timesheet that a stop accrues to.  *)
(* A start and an ingest are single-lock transactions, so they are single  *)
(* steps.  A stop reads, then takes the session's and the timesheet's row  *)
(* lock, and may roll back between any two statements.                     *)
(***************************************************************************)
EXTENDS Integers, FiniteSets, Cents

CONSTANTS
  Sessions,     \* work sessions
  Starts,       \* slice_start of the slices of a session
  Scores,       \* what Compute makes of a slice's samples
  Sheets,       \* timesheets, one per contract and billing week
  SheetOf,      \* the timesheet of each session
  RateCents,    \* hourly_rate_cents of the contract
  Hour,         \* seconds in an hour
  Handlers,     \* stop requests served concurrently
  MaxStops,     \* bound on the committed stops of a session
  None

ASSUME TimeTrackingAssumption ==
  /\ IsFiniteSet(Sessions) /\ IsFiniteSet(Starts)
  /\ Scores \subseteq [seconds : Nat, suspicious : BOOLEAN]
  /\ SheetOf \in [Sessions -> Sheets]
  /\ RateCents \in Nat /\ Hour \in Nat \ {0} /\ MaxStops \in Nat
  /\ None \notin Handlers /\ None \notin Sessions

VARIABLES
  status,       \* work_sessions.status, "none" without a row
  seconds,      \* time_slices.active_seconds, 0 without a row
  flagged,      \* slices whose row is flagged
  billed,       \* work_sessions.billed_seconds
  sheetSeconds, \* timesheets.billable_seconds
  sheetCents,   \* timesheets.amount_cents
  stops,        \* committed stops of each session
  announced,    \* seconds announced by worksession.closed, by timesheet
  reported,     \* slices announced by activity.suspicious
  sessionLock,  \* holder of the session's row lock
  sheetLock,    \* holder of the timesheet's row lock
  pc, session,  \* each stop's progress and session
  sum           \* the seconds CloseSession read

slices == <<seconds, flagged, reported>>
bills == <<billed, sheetSeconds, sheetCents, stops, announced>>
locks == <<sessionLock, sheetLock>>
txs == <<pc, session, sum>>
vars == <<status, slices, bills, locks, txs>>

(* The scored slices of a request, by start. *)
Batches == UNION {[S -> Scores] : S \in SUBSET Starts \ {{}}}

Init ==
  /\ status = [s \in Sessions |-> "none"]
  /\ seconds = [s \in Sessions |-> [t \in Starts |-> 0]]
  /\ flagged = [s \in Sessions |-> {}]
  /\ billed = [s \in Sessions |-> 0]
  /\ sheetSeconds = [w \in Sheets |-> 0]
  /\ sheetCents = [w \in Sheets |-> 0]
  /\ stops = [s \in Sessions |-> 0]
  /\ announced = [w \in Sheets |-> 0]
  /\ reported = [s \in Sessions |-> {}]
  /\ sessionLock = [s \in Sessions |-> None]
  /\ sheetLock = [w \in Sheets |-> None]
  /\ pc = [h \in Handlers |-> "idle"]
  /\ session = [h \in Handlers |-> None]
  /\ sum = [h \in Handlers |-> 0]

-----------------------------------------------------------------------------
(* The contract is active and the caller its freelancer. *)
StartSession(s) ==
  /\ status[s] = "none"
  /\ status' = [status EXCEPT ![s] = "open"]
  /\ UNCHANGED <<slices, bills, locks, txs>>

(* The last batch that names a slice wins. *)
UpsertSlice(s, batch) ==
  /\ seconds' = [seconds EXCEPT ![s] =
                   [t \in Starts |-> IF t \in DOMAIN batch THEN batch[t].seconds
                                                           ELSE @[t]]]
  /\ flagged' = [flagged EXCEPT ![s] =
                   {t \in Starts : IF t \in DOMAIN batch THEN batch[t].suspicious
                                                         ELSE t \in @}]

(* The slices of a batch for which activity.suspicious is enqueued. *)
Suspicious(batch) == {t \in DOMAIN batch : batch[t].suspicious}

(* An ingest asks for a session of the caller's, open or closed.  Its rows
   and its events commit together; row locks order two batches that name the
   same slice. *)
IngestSlices(s, batch) ==
  /\ status[s] # "none"
  /\ UpsertSlice(s, batch)
  /\ reported' = [reported EXCEPT ![s] = @ \cup Suspicious(batch)]
  /\ UNCHANGED <<status, bills, locks, txs>>

-----------------------------------------------------------------------------
Goto(h, l) == pc' = [pc EXCEPT ![h] = l]

(* The transaction of h ends and its locks are released. *)
EndTx(h) ==
  /\ Goto(h, "idle")
  /\ session' = [session EXCEPT ![h] = None]
  /\ sum' = [sum EXCEPT ![h] = 0]
  /\ sessionLock' = [s \in Sessions |->
                       IF sessionLock[s] = h THEN None ELSE sessionLock[s]]
  /\ sheetLock' = [w \in Sheets |->
                     IF sheetLock[w] = h THEN None ELSE sheetLock[w]]

(* CloseSession's SELECT over the committed slices.  No lock is held and no
   status is asked for. *)
SumSlices(h, s) ==
  /\ pc[h] = "idle" /\ status[s] # "none"
  /\ session' = [session EXCEPT ![h] = s]
  /\ sum' = [sum EXCEPT ![h] = SumCents(Starts, seconds[s])]
  /\ Goto(h, "close")
  /\ UNCHANGED <<status, slices, bills, locks>>

(* CloseSession's UPDATE, whose WHERE names only the id.  MaxStops bounds
   the stops that get this far. *)
CloseSession(h) ==
  LET s == session[h]
  IN /\ pc[h] = "close" /\ sessionLock[s] = None /\ stops[s] < MaxStops
     /\ sessionLock' = [sessionLock EXCEPT ![s] = h]
     /\ Goto(h, "accrue")
     /\ UNCHANGED <<status, slices, bills, sheetLock, session, sum>>

(* The upsert on the timesheet waits for its row lock. *)
LockTimesheet(h) ==
  LET w == SheetOf[session[h]]
  IN /\ pc[h] = "accrue" /\ sheetLock[w] = None
     /\ sheetLock' = [sheetLock EXCEPT ![w] = h]
     /\ Goto(h, "commit")
     /\ UNCHANGED <<status, slices, bills, sessionLock, session, sum>>

(* Mutant: rounded to the next cent. *)
AmountCentsUp(billable) == (RateCents * billable + Hour - 1) \div Hour

AmountCents(billable) == (RateCents * billable) \div Hour

(* Mutant: the upsert replaces the week's rollup, as its comment suggests. *)
AccrueTimesheetReplacing(w, billable) ==
  /\ sheetSeconds' = [sheetSeconds EXCEPT ![w] = billable]
  /\ sheetCents' = [sheetCents EXCEPT ![w] = AmountCents(billable)]

AccrueTimesheet(w, billable) ==
  /\ sheetSeconds' = [sheetSeconds EXCEPT ![w] = @ + billable]
  /\ sheetCents' = [sheetCents EXCEPT ![w] = @ + AmountCents(billable)]

(* Mutant: the event announces the session's seconds so far, not the sum. *)
StopSessionAnnouncingOld(h) ==
  LET s == session[h]
  IN /\ pc[h] = "commit"
     /\ status' = [status EXCEPT ![s] = "closed"]
     /\ billed' = [billed EXCEPT ![s] = sum[h]]
     /\ AccrueTimesheet(SheetOf[s], sum[h])
     /\ announced' = [announced EXCEPT ![SheetOf[s]] = @ + billed[s]]
     /\ stops' = [stops EXCEPT ![s] = @ + 1]
     /\ EndTx(h)
     /\ UNCHANGED slices

(* The commit makes the session's summary, the accrual and the event
   worksession.closed visible together. *)
StopSession(h) ==
  LET s == session[h]
  IN /\ pc[h] = "commit"
     /\ status' = [status EXCEPT ![s] = "closed"]
     /\ billed' = [billed EXCEPT ![s] = sum[h]]
     /\ AccrueTimesheet(SheetOf[s], sum[h])
     /\ announced' = [announced EXCEPT ![SheetOf[s]] = @ + sum[h]]
     /\ stops' = [stops EXCEPT ![s] = @ + 1]
     /\ EndTx(h)
     /\ UNCHANGED slices

(* An error, an ended request context or a crash. *)
Rollback(h) ==
  /\ pc[h] # "idle"
  /\ EndTx(h)
  /\ UNCHANGED <<status, slices, bills>>

Next ==
  \/ \E s \in Sessions :
       \/ StartSession(s)
       \/ \E batch \in Batches : IngestSlices(s, batch)
  \/ \E h \in Handlers :
       \/ \E s \in Sessions : SumSlices(h, s)
       \/ CloseSession(h) \/ LockTimesheet(h) \/ StopSession(h) \/ Rollback(h)

Spec == Init /\ [][Next]_vars

-----------------------------------------------------------------------------
SessionsOf(w) == {s \in Sessions : SheetOf[s] = w}

StopsOf(w) == SumCents(SessionsOf(w), stops)

(* Rows and handlers are well-typed, and a session is closed exactly when a
   stop of it committed. *)
TypeOK ==
  /\ status \in [Sessions -> {"none", "open", "closed"}]
  /\ seconds \in [Sessions -> [Starts -> Nat]]
  /\ flagged \in [Sessions -> SUBSET Starts]
  /\ reported \in [Sessions -> SUBSET Starts]
  /\ billed \in [Sessions -> Nat]
  /\ sheetSeconds \in [Sheets -> Nat]
  /\ sheetCents \in [Sheets -> Nat]
  /\ announced \in [Sheets -> Nat]
  /\ stops \in [Sessions -> 0 .. MaxStops]
  /\ sessionLock \in [Sessions -> Handlers \cup {None}]
  /\ sheetLock \in [Sheets -> Handlers \cup {None}]
  /\ pc \in [Handlers -> {"idle", "close", "accrue", "commit"}]
  /\ session \in [Handlers -> Sessions \cup {None}]
  /\ sum \in [Handlers -> Nat]
  /\ \A s \in Sessions : status[s] = "closed" <=> stops[s] > 0

(* What a week's timesheet bills is what the worksession.closed events said:
   the accrual and the event of a stop commit together or not at all, and
   overlapping stops of one week lose no addition. *)
AccrualsAnnounced == sheetSeconds = announced

(* A timesheet never bills less than its sessions' billed seconds, and bills
   exactly those as long as no session of the week was stopped twice.  The
   stops of two sessions of one week may overlap. *)
SheetBillsSessions ==
  \A w \in Sheets :
    LET due == SumCents(SessionsOf(w), billed)
    IN /\ sheetSeconds[w] >= due
       /\ (\A s \in SessionsOf(w) : stops[s] <= 1) => sheetSeconds[w] = due

(* Each stop is priced on its own and rounded down: the amount never exceeds
   the rate for the billed seconds, and falls short of it by less than one
   cent for each stop of the week. *)
AmountFollowsSeconds ==
  \A w \in Sheets :
    LET exact == RateCents * sheetSeconds[w]
        short == exact - sheetCents[w] * Hour
    IN 0 <= short /\ short <= (Hour - 1) * StopsOf(w)

(* A slice whose stored row is flagged was announced to the fraud service,
   also when an earlier or later batch scored it differently. *)
FlaggedAnnounced == \A s \in Sessions : flagged[s] \subseteq reported[s]

(* A timesheet bills each of its sessions once. *)
BilledOnce ==
  \A w \in Sheets : sheetSeconds[w] = SumCents(SessionsOf(w), billed)
=============================================================================
