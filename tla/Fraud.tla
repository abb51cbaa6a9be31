------------------------------- MODULE Fraud -------------------------------
(***************************************************************************)
(* The fraud service.  A signal on a subject is stored, the subject's      *)
(* risk score is recomputed from its most recent signals, and a score at   *)
(* or above the threshold opens a case unless one is open.  Ingests of one *)
(* subject overlap under READ COMMITTED: the sum is read first, and only   *)
(* the upsert of the score waits for the other transaction.                *)
(***************************************************************************)
EXTENDS Access, Cents, Integers, Sequences

CONSTANTS
  Subjects, Screenshots,  \* Screenshots: the subjects that are screenshots
  Weights,                \* weights of a request, in hundredths
  recentSignalCount,      \* how many signals a score looks at
  MaxSignals,             \* bound on the signals
  MaxResolutions,         \* bound on the resolutions of a case
  Requests

VARIABLES
  signals,    \* committed fraud_signals: stamp (observed_at, id), subject, weight
  risk,       \* risk_scores: score by subject, None without a row
  cases,      \* fraud_cases of each subject, oldest first
  outbox,     \* events of each subject, in commit order
  clock,      \* stamps given out
  tx          \* the transaction of each request

vars == <<signals, risk, cases, outbox, clock, tx>>
tables == <<signals, risk, cases, outbox, clock>>

caseThreshold == 85
Idle == [at |-> "idle", subject |-> None]

Init ==
  /\ signals = {}
  /\ risk = [s \in Subjects |-> None]
  /\ cases = [s \in Subjects |-> <<>>]
  /\ outbox = [s \in Subjects |-> <<>>]
  /\ clock = 0
  /\ tx = [r \in Requests |-> Idle]

-----------------------------------------------------------------------------
band(score) ==
  CASE score < 30 -> "low"
    [] score < 60 -> "medium"
    [] score < 85 -> "high"
    [] OTHER -> "critical"

(* The newest recentSignalCount signals of a subject. *)
Recent(seen, s) ==
  {g \in seen : g.subject = s
     /\ Cardinality({h \in seen : h.subject = s /\ h.stamp > g.stamp}) < recentSignalCount}

Total(rows) == SumCents(rows, [g \in rows |-> g.weight])

RecentSignalSum(seen, s) ==
  LET sum == Total(Recent(seen, s)) IN
  IF sum > 100 THEN 100 ELSE IF sum < 0 THEN 0 ELSE sum

ingestSignal(u, weight) == authorize(u, "fraud.signal.ingest") /\ weight \in 0..100

InsertSignal(s, weight) == [stamp |-> clock + 1, subject |-> s, weight |-> weight]

(* The insert and the sum over what is committed and the own row. *)
IngestSignal(r, u, s, weight) ==
  LET g == InsertSignal(s, weight) IN
  /\ tx[r] = Idle
  /\ ingestSignal(u, weight)
  /\ clock < MaxSignals
  /\ clock' = clock + 1
  /\ tx' = [tx EXCEPT ![r] = [at |-> "summed", subject |-> s, signal |-> g,
                              score |-> RecentSignalSum(signals \cup {g}, s)]]
  /\ UNCHANGED <<signals, risk, cases, outbox>>

(* Mutant: the score row is not locked, so ingests check for a case together. *)
UpsertWithoutWaiting(r) ==
  /\ tx[r].at = "summed"
  /\ tx' = [tx EXCEPT ![r].at = "upserted"]
  /\ UNCHANGED tables

(* ON CONFLICT waits for another transaction on the same score row. *)
UpsertRiskScore(r) ==
  /\ tx[r].at = "summed"
  /\ \A o \in Requests : tx[o].subject = tx[r].subject => tx[o].at \notin {"upserted", "checked"}
  /\ tx' = [tx EXCEPT ![r].at = "upserted"]
  /\ UNCHANGED tables

IsOpen(status) == status \in {"open", "investigating"}

HasOpenCase(r) ==
  LET t == tx[r] IN
  /\ t.at = "upserted"
  /\ tx' = [tx EXCEPT ![r] =
       [at |-> "checked", subject |-> t.subject, signal |-> t.signal, score |-> t.score,
        open |-> t.score >= caseThreshold /\ \A i \in DOMAIN cases[t.subject] : ~IsOpen(cases[t.subject][i])]]
  /\ UNCHANGED tables

InsertCase(s) == [cases EXCEPT ![s] = Append(@, "open")]

(* The events of a new case; a screenshot's are two. *)
openCaseTx(s) ==
  [outbox EXCEPT ![s] = @ \o <<"fraud.case_opened">>
                          \o IF s \in Screenshots THEN <<"screenshot.flagged">> ELSE <<>>]

Commit(r) ==
  LET t == tx[r] IN
  /\ t.at = "checked"
  /\ signals' = signals \cup {t.signal}
  /\ risk' = [risk EXCEPT ![t.subject] = t.score]
  /\ cases' = IF t.open THEN InsertCase(t.subject) ELSE cases
  /\ outbox' = IF t.open THEN openCaseTx(t.subject) ELSE outbox
  /\ tx' = [tx EXCEPT ![r] = Idle]
  /\ UNCHANGED clock

Rollback(r) == tx[r] # Idle /\ tx' = [tx EXCEPT ![r] = Idle] /\ UNCHANGED tables

-----------------------------------------------------------------------------
resolveCase(u) == authorize(u, "fraud.case.resolve")

UpdateCase(s, i, status) == [cases EXCEPT ![s][i] = status]

(* Any case, resolved or not, by its id. *)
ResolveCase(u, s, i, status) ==
  /\ resolveCase(u)
  /\ status \in {"confirmed", "dismissed"}
  /\ i \in DOMAIN cases[s]
  /\ CountOf(outbox[s], "fraud.case_resolved") < MaxResolutions
  /\ cases' = UpdateCase(s, i, status)
  /\ outbox' = [outbox EXCEPT ![s] = Append(@, "fraud.case_resolved")]
  /\ UNCHANGED <<signals, risk, clock, tx>>

readRequest(u) == authorize(u, "fraud.case.read")

ListOpenCases(u) ==
  IF readRequest(u) THEN {c \in Subjects \X (1..MaxSignals) :
                            c[2] \in DOMAIN cases[c[1]] /\ IsOpen(cases[c[1]][c[2]])} ELSE {}

GetRiskScore(s) == IF risk[s] = None THEN "unknown" ELSE band(risk[s])

ListSignalsForSubject(s) == {g \in signals : g.subject = s}

Next ==
  \/ \E r \in Requests :
       \/ \E u \in Callers, s \in Subjects, weight \in Weights : IngestSignal(r, u, s, weight)
       \/ UpsertRiskScore(r)
       \/ HasOpenCase(r)
       \/ Commit(r)
       \/ Rollback(r)
  \/ \E u \in Callers, s \in Subjects, i \in 1..MaxSignals, status \in {"open", "confirmed", "dismissed"} :
       ResolveCase(u, s, i, status)

Spec == Init /\ [][Next]_vars

-----------------------------------------------------------------------------
(* Ingests of one subject overlap, and cases are resolved at any moment.
   The list an analyst reads has at most one open case per subject.  Every
   case was announced, to the screenshot topic too when it is about a
   screenshot, and a subject whose stored score is critical has had a case,
   with the signals that explain it. *)
OneOpenCase ==
  \A s \in Subjects :
    /\ \A u \in Callers : Cardinality({c \in ListOpenCases(u) : c[1] = s}) <= 1
    /\ CountOf(outbox[s], "fraud.case_opened") = Len(cases[s])
    /\ CountOf(outbox[s], "screenshot.flagged") = IF s \in Screenshots THEN Len(cases[s]) ELSE 0
    /\ GetRiskScore(s) = "critical" =>
         cases[s] # <<>> /\ Total(ListSignalsForSubject(s)) >= caseThreshold

(* When the signals that were ingested add up to the threshold, a case has
   been opened.  Refuted: each of two overlapping transactions sums without
   the other's signal. *)
CrossingOpensCase ==
  \A s \in Subjects :
    (\A r \in Requests : tx[r].subject # s) /\ RecentSignalSum(signals, s) >= caseThreshold => cases[s] # <<>>
=============================================================================
