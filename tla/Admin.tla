------------------------------- MODULE Admin -------------------------------
(***************************************************************************)
(* The admin service.  Admins suspend and reinstate users, resolve         *)
(* disputes and look through screenshots; every one of these leaves a row  *)
(* in audit_logs, and the first three one in admin_actions.  Two admins    *)
(* may work on one user or dispute at the same time: the UPDATE takes the  *)
(* row's lock, which is kept until the commit.  Rows carry now(), which is *)
(* the start of their transaction: who began first may commit last.        *)
(***************************************************************************)
EXTENDS Access, Integers, Sequences, FiniteSets

CONSTANTS
  Users, Disputes,    \* the rows that can be named
  Requests,
  MaxActions          \* bound on the audit log

VARIABLES
  status,     \* users.status
  dispute,    \* disputes.status
  actions,    \* admin_actions
  audit,      \* audit_logs
  outbox,     \* admin.events; those of one row in the order of its lock
  shown,      \* screenshot lists that left the service
  clock,      \* transactions begun; the order of their now()
  ended,      \* history: the clock when each committed action did
  tx          \* the transaction of each request

vars == <<status, dispute, actions, audit, outbox, shown, clock, ended, tx>>
tables == <<status, dispute, actions, audit, outbox, shown, ended>>

Idle == [at |-> "idle", row |-> None]

Init ==
  /\ status = [u \in Users |-> "active"]
  /\ dispute = [d \in Disputes |-> "open"]
  /\ actions = {} /\ audit = {} /\ outbox = <<>>
  /\ shown = 0
  /\ clock = 0
  /\ ended = [n \in {} |-> 0]
  /\ tx = [r \in Requests |-> Idle]

(* Bounds *)
Room == Cardinality(audit) < MaxActions /\ clock <= MaxActions

(* pool.Begin, which fixes the transaction's now(). *)
Begin(r, t) ==
  /\ tx[r] = Idle
  /\ Room
  /\ clock' = clock + 1
  /\ tx' = [tx EXCEPT ![r] = t]
  /\ UNCHANGED tables

-----------------------------------------------------------------------------
(* User moderation and disputes *)

moderationRequest(a) == authorize(a, "admin.user.suspend")
resolveDispute(a) == authorize(a, "admin.dispute.resolve")
validResolutions == {"resolved_client", "resolved_freelancer", "split"}

moderateUser(r, a, u, to, action) ==
  /\ moderationRequest(a)
  /\ u \in Users      \* UserExists
  /\ Begin(r, [at |-> "update", row |-> u, by |-> a, to |-> to, action |-> action,
               now |-> clock + 1])

SuspendUser(r, a, u) == moderateUser(r, a, u, "suspended", "user.suspend")
ReinstateUser(r, a, u) == moderateUser(r, a, u, "active", "user.reinstate")

ResolveDispute(r, a, d, resolution) ==
  /\ resolveDispute(a)
  /\ resolution \in validResolutions
  /\ Begin(r, [at |-> "update", row |-> d, by |-> a, to |-> resolution, action |-> "dispute.resolve",
               now |-> clock + 1])

(* UPDATE ... WHERE id = $1, whatever the row's present status. *)
SetRowStatus(r) ==
  /\ tx[r].at = "update"
  /\ \A o \in Requests : tx[o].at = "commit" => tx[o].row # tx[r].row
  /\ tx' = [tx EXCEPT ![r].at = "commit"]
  /\ UNCHANGED <<tables, clock>>

(* The rows do not say which resolution was given; the event does. *)
ActionRow(t) == [by |-> t.by, action |-> t.action, target |-> t.row, created_at |-> t.now]
AuditRow(by, action, row, now) == [by |-> by, action |-> action, resource |-> row, occurred_at |-> now]

(* Reinstatement is the one action that is not announced. *)
EventOf(t) ==
  IF t.action = "user.suspend" THEN [type |-> "user.suspended", id |-> t.row, resolution |-> None]
  ELSE [type |-> "dispute.resolved", id |-> t.row, resolution |-> t.to]

Commit(r) ==
  LET t == tx[r] IN
  /\ t.at = "commit"
  /\ status' = IF t.row \in Users THEN [status EXCEPT ![t.row] = t.to] ELSE status
  /\ dispute' = IF t.row \in Disputes THEN [dispute EXCEPT ![t.row] = t.to] ELSE dispute
  /\ actions' = actions \cup {ActionRow(t)}
  /\ audit' = audit \cup {AuditRow(t.by, t.action, t.row, t.now)}
  /\ outbox' = IF t.action = "user.reinstate" THEN outbox ELSE Append(outbox, EventOf(t))
  /\ ended' = [n \in DOMAIN ended \cup {t.now} |-> IF n = t.now THEN clock ELSE ended[n]]
  /\ tx' = [tx EXCEPT ![r] = Idle]
  /\ UNCHANGED <<shown, clock>>

Rollback(r) ==
  /\ tx[r] # Idle
  /\ tx' = [tx EXCEPT ![r] = Idle]
  /\ UNCHANGED <<tables, clock>>

-----------------------------------------------------------------------------
(* The screenshot audit: the list is read and a transaction begun, the access
   is recorded and committed, and only then is the list sent. *)

listScreenshots(a) == authorize(a, "admin.screenshot.audit")

(* Mutant: the list is sent without a record of the access. *)
ListScreenshotsUnrecorded(r, a) ==
  /\ listScreenshots(a)
  /\ Begin(r, [at |-> "send", row |-> None, by |-> a, now |-> clock + 1])

ListScreenshotsForAudit(r, a) ==
  /\ listScreenshots(a)
  /\ Begin(r, [at |-> "record", row |-> None, by |-> a, now |-> clock + 1])

RecordAccess(r) ==
  /\ tx[r].at = "record"
  /\ audit' = audit \cup {AuditRow(tx[r].by, "screenshot.audit_list", None, tx[r].now)}
  /\ tx' = [tx EXCEPT ![r].at = "send"]
  /\ UNCHANGED <<status, dispute, actions, outbox, shown, clock, ended>>

SendScreenshots(r) ==
  /\ tx[r].at = "send"
  /\ shown' = shown + 1
  /\ tx' = [tx EXCEPT ![r] = Idle]
  /\ UNCHANGED <<status, dispute, actions, audit, outbox, clock, ended>>

(* The lists, ordered by the stamp that each row carries: ORDER BY created_at
   and ORDER BY occurred_at.  The pages hold all rows. *)
ListAdminActions(a) == IF authorize(a, "admin.audit.read") THEN actions ELSE {}

ListAuditLogs(a, action) ==
  IF authorize(a, "admin.audit.read")
  THEN {x \in audit : action \in {None, x.action}} ELSE {}

Next ==
  \E r \in Requests :
    \/ \E a \in Callers :
         \/ \E u \in Users \cup {None} : SuspendUser(r, a, u) \/ ReinstateUser(r, a, u)
         \/ \E d \in Disputes, resolution \in {"open", "split", "resolved_client"} : ResolveDispute(r, a, d, resolution)
         \/ ListScreenshotsForAudit(r, a)
    \/ SetRowStatus(r)
    \/ Commit(r)
    \/ RecordAccess(r)
    \/ SendScreenshots(r)
    \/ Rollback(r)

Spec == Init /\ [][Next]_vars

-----------------------------------------------------------------------------
(* What an action says of its user. *)
StatusAfter(x) == IF x.action = "user.suspend" THEN "suspended" ELSE "active"

(* Action y began after x had committed. *)
Supersedes(y, x) == y.created_at > ended[x.created_at]

ActionsOn(log, type, row) == {x \in log : x.action = type /\ x.target = row}
EventsOn(type, row) == {i \in DOMAIN outbox : outbox[i].type = type /\ outbox[i].id = row}

(* A user nobody acted on is active; another has the status that one of the
   actions on it gave, one that no action on it began after. *)
StatusTold(log, u) ==
  LET on == {x \in log : x.target = u} IN
  IF on = {} THEN status[u] = "active"
  ELSE \E x \in on : status[u] = StatusAfter(x) /\ \A y \in on : ~ Supersedes(y, x)

(* A dispute has the resolution of the last event on it. *)
ResolutionTold(d) ==
  LET on == EventsOn("dispute.resolved", d) IN
  IF on = {} THEN dispute[d] = "open"
  ELSE \E i \in on : dispute[d] = outbox[i].resolution /\ \A j \in on : j <= i

(* Accountability, for two admins who work on one row at the same time and
   for transactions that fail at any point: the listed actions tell the status
   of every user, and the events the resolution of every dispute.  The audit
   log without the screenshot accesses is the list of actions: same admins,
   same targets, same stamps.  A suspension and a resolution are announced
   once each.  No screenshot list was sent that is not in the log. *)
ActionsExplainStatus ==
  \A a \in {x \in DOMAIN Perms : authorize(x, "admin.audit.read")} :
    LET log == ListAdminActions(a)
        accesses == ListAuditLogs(a, "screenshot.audit_list") IN
    /\ \A u \in Users : StatusTold(log, u)
    /\ \A d \in Disputes : ResolutionTold(d)
    /\ ListAuditLogs(a, None) \ accesses = {AuditRow(x.by, x.action, x.target, x.created_at) : x \in log}
    /\ \A u \in Users : Cardinality(EventsOn("user.suspended", u)) = Cardinality(ActionsOn(log, "user.suspend", u))
    /\ \A d \in Disputes : Cardinality(EventsOn("dispute.resolved", d)) = Cardinality(ActionsOn(log, "dispute.resolve", d))
    /\ shown <= Cardinality(accesses)

(* The newest action of the list on a user gave it its status.  Refuted: it is
   the action that began last, and an earlier one may have committed after
   it. *)
NewestIsStatus ==
  \A x \in actions :
    x.target \in Users /\ (\A y \in actions : y.target = x.target => y.created_at <= x.created_at)
    => status[x.target] = StatusAfter(x)

(* A resolution is terminal: no later step gives the dispute another one.
   Refuted: ResolveDispute's UPDATE asks nothing of the old status. *)
ResolutionIsFinal ==
  [][\A d \in Disputes : dispute[d] # "open" => dispute'[d] = dispute[d]]_vars
=============================================================================
