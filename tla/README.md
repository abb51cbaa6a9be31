# A TLA+ model of the Aizorix freelancer marketplace

Aizorix is a marketplace built as Go microservices over PostgreSQL (READ
COMMITTED), Kafka and Redis, with a Rust desktop tracker and a web client. This
directory models the services: first those that move and account for money and the
bus that carries their events (escrow accounts, payment capture, weekly timesheets,
the transactional outbox, its relay, the Kafka consumers) and the login sessions
that guard it all; then the services around them, from a project's draft to an
approved milestone, reviews, fraud cases, admin actions, screenshots, chat and its
websocket hub, notifications, profiles with their search index, and the gateway.
The modules are checked with TLC on small instances, and the safety properties of
all of them are proved with TLAPS for all instances.
`PROJECT.json` lists components, runs, mutants, the lines each definition stands
for, findings, hazards and theorems.

## 1. Inventory

Every service lives under `src/services/<name>` as `internal/httpapi` (routes,
decoding, authorisation), `internal/service` (transactions) and `internal/store`
(SQL). Constraints come from `src/db/migrations`.

| Component | State | Operations | What makes it correct |
|---|---|---|---|
| escrow | `escrow_accounts`, `escrow_allocations`, `escrow_fund_idempotency`, ledger legs | fund, allocate to milestone, release milestone, release hours, refund | the same cent is never promised or paid twice; books and events agree; a retried fund credits once |
| payment | `payments`, `stripe_events`, deposit legs | create intent, confirm, Stripe webhook | a captured payment is deposited once; an acknowledged event is captured; a charged payment is captured in the end |
| ledger | `transactions` | legs appended by payment and escrow | what is held was deposited |
| outbox and relay (`pkg/outbox`, `relay`) | `outbox` | enqueue, drain, publish, mark | only committed events, none lost, an event that began after another's commit follows it |
| Kafka producer and consumer (`pkg/kafka`) | partition, offsets, `processed_events` | fetch, dedupe, retry, dead-letter, mark, commit | no offset passes an unsettled message; effects happen once |
| analytics | rollups | consume | the effect of an event is counted once |
| notification | notifications, delivery attempts, preferences | handle an event, dispatch, mark read, set preference | attempts say what was sent, on the channels the user chose |
| time tracking | `work_sessions`, `time_slices`, `timesheets` | start, ingest slices, stop | what is billed is what was tracked, once, at the contract's rate |
| activity scoring | none (pure) | `Compute` | score and suspicion from samples |
| desktop tracker | local SQLite queue, scheduler task | start, stop, sample, sync, back off | nothing lost, nothing billed twice |
| screenshot | `screenshots`, `screenshot_metadata`, objects | request slot, confirm, list, view | one row and one event per slice; what is stored can be decrypted |
| auth | users, sessions, refresh tokens | login with lockout, refresh rotation, reuse detection, logout | a burned family never gets a live token; a rotation leaves one; requests end; lockout bounds guesses |
| project, proposal | projects, attachments; proposals, their milestones | draft, publish, close; submit, withdraw, shortlist | lists show what was announced; one proposal per freelancer and project |
| contract | contracts, milestones, deliverables, disputes, timeline | create from proposal, activate, fund, submit, approve, dispute | worth the bid; the timeline explains the status; a milestone is approved once |
| review | reviews, responses, reputations | review, publish (both in, or window closed), respond | published only when both are in or the window closed; announced once |
| fraud | signals, scores, cases | ingest signal, resolve | one open case per subject |
| admin | user and dispute status, admin actions, audit log | suspend, reinstate, resolve dispute, look at screenshots | the actions explain every status; nothing is shown unrecorded |
| messaging | conversations, participants, messages, read marks | create, post, read, attach | history, events and the conversation list agree |
| websocket gateway | connections, conversations, Redis subscriptions, presence | register, join, leave, send, deliver, drop | the maps agree; only members receive; presence settles |
| user, search | profiles, KYC, skills, portfolio, devices; index documents | save, verify, replace, register; index, delete, query | the search shows who may be shown |
| gateway | Redis token buckets, routes | admit, verify, forward | no more than capacity and rate; public routes reach their service |
| shared libraries, web, tools, infrastructure | none of their own | conversions, UI, test data, configuration | only `pkg/rbac`'s check is modelled |

How the parts meet:

* a service changes its rows and inserts an outbox row in **one** transaction;
  the relay of its database publishes the row to Kafka; consumers (analytics,
  notification, fraud, search) apply it. Delivery is at-least-once at every hop;
* synchronous HTTP lookups (contract parties, proposals) happen **before** the
  transaction of the caller;
* payment and escrow meet only in the `transactions` table;
* the tracker meets the platform by start, batched slices, upload slots, confirms
  and stop, all of which it repeats when an answer is lost;
* the websocket gateway asks messaging for membership and posts through it, and
  reaches the connections of other replicas by Redis publish/subscribe;
* the gateway verifies the token once and tells every service the identity in
  headers.

What is hard: overlapping transactions that decide from a row and then write;
commits whose answer is lost, and the retries that follow; a crash between the
broker's acknowledgement and the relay's commit, or between a handler's effect
and its dedupe mark; a rebalance while a message is in hand; two services that
each believe the other one posted the money; a count or a sum read before another
transaction's row becomes visible; a goroutine that lives on the context of somebody
else's request. `hazards` in `PROJECT.json` lists
them with the line where each one bites and the property aimed at it.

## 2. Modules

| Module | Models | Used by |
|---|---|---|
| `Cents` | `coalesce(sum(amount), 0)` over a set of rows | all |
| `EscrowAccount` | abstract: what an account promises | refined by `Escrow` |
| `Escrow` | the escrow service, transaction by transaction | `MCEscrow`, `MoneyFlow`, `EscrowProofs` |
| `Payment` | the payment service against Stripe | `MCPayment`, `MoneyFlow`, `PaymentProofs` |
| `MoneyFlow` | payment and escrow composed over the one ledger | `MCMoneyFlow` |
| `TimeTracking` | sessions, slices and the weekly accrual | `MCTimeTracking`, `TimeTrackingProofs` |
| `EventBus` | outbox, relay replicas, a partition, a consumer group | `MCEventBus`, `EventBusProofs` |
| `Sessions` | the auth service: logins, rotation, revocation | `MCSessions`, `SessionsProofs` |
| `Marketplace` | the project and the proposal service | `Contracts` |
| `Contracts` | the contract service over `Marketplace` | `Services` |
| `Reviews` | the review service | `MCReviews`, `Services` |
| `Access` | callers and `pkg/rbac`'s permission check | `Fraud`, `Admin`, `Profiles` |
| `Fraud`, `Admin` | the fraud and the admin service | `Services` |
| `Screenshots` | the screenshot service and the tracker's upload loop | `Services` |
| `Messaging` | the messaging service | `Hub`, `Services` |
| `Hub` | the websocket gateway over `Messaging` | `MCHub`, `Services` |
| `Notifications` | the notification service behind its consumer | `Services` |
| `Profiles` | the user service and the search index it feeds | `Services` |
| `Gateway` | rate limiter and request pipeline | `Services` |
| `Services` | the services from `Contracts` to `Gateway`, side by side | `MCServices`, `HiringProofs`, `ServicesProofs` |
| `CentsProofs`, `EscrowProofs`, `PaymentProofs`, `TimeTrackingProofs`, `EventBusProofs`, `SessionsProofs`, `HiringProofs`, `ServicesProofs` | the theorems | |

Each `MC` module only names constants and bounds of the instances. `Services` joins
the services that share no state, each by `INSTANCE`, into one specification, whose
variable `part` says which service a behaviour is about; a variable that two of them have
under one name (`tx`, `outbox`) is used by both. Its properties are those of the services,
each for the behaviours of its `part`. Definitions whose comment
begins with "Mutant:" are plausible bugs of the code below them; nothing uses
them, and for each property one of them, put in the place of the real definition,
makes TLC find a violation.

### Escrow

A handler's request goes `idle -> begun -> locked -> writing -> idle`
(`pc`). `LockEscrow` is the `SELECT ... FOR UPDATE` (or the upsert of a first
fund): it waits for `lock[c]`, then keeps `held_cents` as read in `snap`.
`locked` is where the code decides (`Admits`: the idempotency key, the held sum of
allocations, the allocation's status, the drift guard of `ReleaseMilestone`);
`Refuse` is every early return. `FundEscrow`, `AllocateToMilestone`,
`ReleaseMilestone`, `ReleaseHours` and `RefundEscrow` are the commits, with
balances, allocation, ledger legs and outbox event in one step. `Rollback`
stands for a failed statement, an ended context or a crash and is possible until
the commit. Amounts are any integers of the request, zero and negative ones
included, and balances live in `0 .. MaxCents`, the BIGINT column with its CHECK:
a movement outside is refused, as the database refuses it.

A ledger account is an account kind with a contract or none; the model keeps its
balance, not its legs, and of an event its type and cents. Currencies are left
out: the model is the single-currency service.

### Payment

`CreateLookup`, `CreateIntent` (outside any transaction), `InsertPayment` or
`InsertDuplicate` follow `CreatePaymentIntent`. Both captures meet in the guarded
update `MarkSucceeded` (`... WHERE status = 'processing'`), which waits for an
uncommitted update of the row (`rowLock`) and looks at the status again. The
webhook first inserts its event (`eventLock`: a second delivery waits for the
first), then reads the row, captures or finds it captured, and records. Stripe is
external: it creates an intent or returns the one of the same key and amount,
is paid (`Charge`), and delivers the event of a charged intent any number of times.
`publicRoutes` and `Routes` are the two path tables through which a delivery must
pass. Signature verification, and webhook types the service records without
effect, are left out.

### TimeTracking

Start and ingest commit rows under their own locks and are single steps. A stop is
three: `SumSlices` reads the committed slices without a lock, `CloseSession`
takes the session's row lock, `LockTimesheet` the timesheet's; `StopSession` is
the commit. A slice is its score, the active seconds and the suspicion `Compute`
found. A batch may name any slices again, with another score, and may arrive
after the stop. Seconds are naturals: the INT columns would refuse, not wrap, a
week of more than 2^31 seconds.

### EventBus

`Enqueue` draws the outbox id in the producer's transaction and `EndTx` commits or
aborts it. Any number of transactions may be open, also on one aggregate: the escrow
and the contract's status have a row lock, but `milestone.approved` locks only its
milestone, and `activity.suspicious`, `worksession.closed` and `session.created` no
aggregate at all. So a later id may commit, and be published, first. `earlier`
remembers what was committed when a row was inserted. A relay's drain selects a locked batch
(`SelectBatch`, SKIP LOCKED), publishes row by row in id order (`Publish`) and
commits the marks (`CommitDrain`); `DrainFails` loses the marks and not the
messages. A consumer replica fetches, checks the dedupe table, tries its handler up
to `MaxRetries` times, dead-letters if it has a dead-letter topic, marks and
commits the offset. `ClaimsInTx` tells analytics (claims the event in the
transaction of its effect) from notification (effect and mark are two commits).
Errors whose answer is lost although the effect committed, restarts and rebalances
are faults; a replica that lost the partition still finishes and commits.
The events of the model are those whose keys fall into one partition: Kafka orders
nothing across partitions. The key is not always that of the aggregate:
`proposal.submitted` is keyed by its project (`proposal/.../service.go:148`), its
withdrawal and shortlisting by the proposal (183, 221), so these may come in any order.

### Sessions

A session's tokens are numbered as they are minted: `issued`, and the sets `used`
(`used_at`) and `dead` (`revoked_at`). A refresh locks its token's row
(`LookupRefreshToken`), then the session's (`SessionRevokedForUpdate`), and mints; a
logout, or a refresh with a used token, locks its token, then the session
(`RevokeSessionRow`), then waits for the session's other tokens (`RevokeFamily`).
The `UPDATE` of the tokens sees the tokens of the moment it began, which `seen`
keeps: without the session's lock a token minted while it waits would survive.
The two orders cross, and `Deadlock` is Postgres aborting one of the two. Each
session is its own family (`family_id` has a default and is never assigned), so
"all sessions" and one session are the same revocation. An expired token is
refused at any time. A login reads the lock (`LoginRead`), verifies, and then
records a failure or a success; the two are single `UPDATE`s, whose errors are
ignored. Password hashing, roles and access tokens are data and left out, and so is
the bounded connection pool.

### Marketplace and Contracts

An operation of the project and the proposal service is one transaction on one row
that it locks or guards first, so each is one step; a principal the handler refuses
takes none. A proposal's key is project and freelancer, the table's unique key. A
request to the contract service is a record in `work`: `LookupProposal` is the HTTP
read and the comparison of the request with the bid, `CreateFromProposal` the later
transaction. `milestoneInfo` and `CurrentStatus` are the `SELECT ... FOR UPDATE`s that
begin a milestone's transition and a dispute, `TransitionContract` the guarded
`UPDATE` of the activation, which waits for a dispute that holds the row. Nothing in
the repository completes a contract; `Reviews` takes its status from outside.

### Reviews

A statement of a transaction is a step: insert, count, publish, aggregate and
upsert. A row of another open transaction is not visible to the count; `UPDATE` and
upsert wait for the row's lock and then look again, the aggregate does not. A
reputation is the set of reviews it was computed from: score and success rate are
functions of it. There are two readers: `ListPublishedForUser` gives what is published,
`GetReview` (`GET /v1/reviews/{id}`) any review to any caller, hidden ones too. What
is double-blind is therefore the publication, and `PublishedAfterBoth` is said of it.

### Fraud and Admin

`Access` gives both the callers and the permissions. An ingest reads the sum of the
newest signals first, its own included, and then waits in the upsert of the score,
whose lock it keeps to the commit: that lock, and nothing else, lets at most one of
two ingests open a case. An admin's `UPDATE` takes the row's lock; action, audit row
and event come with the commit. The rows are stamped with `now()`, the start of their
transaction (`Begin` counts `clock`), and the lists are ordered by these stamps: of two
admins at one user, the one who began first may commit last and be listed below.
`ended` remembers when each action committed. An action row of a dispute does not say which
resolution was given; its event does. The reading of screenshots records its access before
the answer leaves.

### Screenshots

The device's loop asks for a slot, puts the object, confirms and deletes, one call at
a time. A call may be lost, lost after it was executed, or still be executed while
the loop has begun anew (`Late`). `CreateSlotLookup` and `CreateSlotInsert` are two
statements; a unique index decides between two inserts of one slice. The content of
an object is the key it was encrypted with.

### Messaging and Hub

A post's `now()` is the start of its transaction, and posts of one conversation
commit one after the other on the conversation's row. `Hub` extends `Messaging`: a
connection has a read loop (`op` is what it is doing), a write pump and a bounded
queue; `convs`, `userConns` and the `joined` set of each connection are the maps
behind the mutex; a subscription has a reader goroutine that delivers one frame to
one connection after the other. `closeOnce` looks and closes in two steps: a second
close in the connection's goroutine leaks the connection (`net/http` recovers the
panic), in the reader's it ends the replica (`Crashed`). Presence keys expire, are
set by pongs, and are deleted by the last connection of a replica. Only the mode with
Redis is modelled.

### Notifications

An event's transaction inserts the notification, reads the enabled channels, calls
the senders one by one and commits. `ever` and `always` follow the channels enabled
at some time and all the time of the transaction, so that `AttemptsHonest` can be
said of preferences that change meanwhile. Senders are external and may take a
notification whose transaction is then rolled back.

### Profiles

Saving a profile reads the KYC status, then upserts; a KYC decision updates the row.
The events of one user form a partition, read by a consumer that retries, is
restarted and loses the partition while it applies an event (`late`). `route` maps
an event to an index operation. `disturbed` are the users for whom the code promises
nothing: an event of theirs was given up on, or applied late.

### Gateway

Time is counted in ticks of Redis's clock, rates are whole tokens per tick, and both
policies use one Redis hash per caller, as in the code. A request in `flight` asks the
bucket of its address and, behind the token check, that of its user. For each it
reads its replica's clock (`ReadClock`, `ratelimit.go:178`), which may differ from
Redis's by `Skews`, and the script (`allow`) runs at some later time, with the scripts of
others in between. The script stores the time it was given, older or not than the one it
found. Its answer may be lost (the request passes), or the client may run it again; when
Redis is down (`Unavailable`) the request passes and is not counted. `drift` adds up by
how much the clocks given to the scripts of a key were off.

Headers are not modelled: `StripTrustedHeaders` and `injectIdentity` rewrite the
headers named in `trustedHeaders`, `X-Internal-Service` not among them.

## 3. Runs

| Run | Instance | Shows |
|---|---|---|
| `escrow` | 1 contract, 2 milestones, 1 week, 1 key, amounts {0,1}, balance at most 2, 2 handlers | five invariants, the refinement of `EscrowAccount`, and that every request is answered |
| `payment` | 2 intents, 1 key, amounts {1,2}, 2 handlers | one deposit per payment, acknowledged is captured |
| `payment_live` | 1 intent, 2 handlers, webhook on the service's path | a charged payment is captured in the end |
| `bus` | 3 events, 1 relay with batch 2, 2 replicas, 3 faults, no dead letters | an event never overtakes one committed before it began, one effect, no passed message unsettled |
| `bus_replicas` | 2 events, 2 relays, 2 replicas, 3 faults, dead letters | repeats only after faults; delivery in the end |
| `timetracking` | 2 sessions of one week, 2 slices, 2 scores, 2 stops in parallel, 2 stops each, hours of 2 seconds at 3 cents | accruals and prices |
| `sessions` | 1 user, 1 session of up to 3 tokens, lockout at 2 of at most 3 failures, 2 requests | revocation, rotation, lockout, and that crossing waits end |
| `services` | each service on its own instance, listed at the head of `MCServices`: 2 overlapping requests throughout | sixteen invariants, below |
| `presence` | 2 replicas with a connection of one user each, 1 conversation, 1 frame | presence settles on the truth |

What `services` shows, service by service:

* hiring: `ListsFollowEvents` (public and private lists, dates and events agree),
  `TimelineExplainsStatus` (every transition starts where the last one ended, also when
  a dispute and an activation race), `ContractHonoursBid` (a contract is worth the bid,
  whatever the body said), `ApprovedOnce`;
* reviews: `PublishedAfterBoth` (both wrote one, or the window closed), `AnnouncedOnce` (with the reputation drawn from
  published reviews), although reviews and window closings overlap;
* fraud and admin: `OneOpenCase` per subject, `ActionsExplainStatus` (the status of
  a user is that of a listed action that no other one began after, the resolution of a
  dispute that of its last event; audit log and actions agree; no unrecorded view);
* screenshots: `IngestedOnce` and `StoredReadable`, under lost, repeated and late calls;
* messaging and hub: `HistoryAnnounced`; `MapsAgree` and `DeliveredTrue` through
  joins, leaves, full queues, double closes and crashes;
* notifications: `AttemptsHonest`; profiles: `SearchFollowsProfile`; gateway:
  `AdmittedWithinLimits` in every window of time, lengthened by the errors of the clocks.

Why the bounds are enough for the cases: two handlers are the two parties of every
race here (a third only waits on the same row); a balance of two with unit amounts
lets two reservations compete for one cent and lets a release be partial; three
faults are a crash, the crash of its recovery, and one elsewhere; an hour of two
seconds at an odd rate makes every second price round; three tokens let a rotation
follow a reuse of the first and still have a successor; a queue of one frame is full
after one frame; a bucket of two tokens is emptied, refilled and expires within two
ticks, and four scripts with two clocks are an admission, a late or early script and what
it lets pass; three profile events are an indexing, a removal and one to be repeated. The
constraints of `MCServices` keep apart steps that share no state, or put one kind of
them at an end: events of the bus and calls of dispatch; skills, portfolio and devices,
and a profile's later events; a consumer's fault after the last request; read marks and
responses while nothing is being written; attachments before the contract; the bucket of a
user next to the first script of its address. One only bounds: the errors of the clocks
of a key are one tick in all. The
theorems of section 5 remove the bounds for the properties they name.

### Where code and text disagree

Three runs expect a violation. Each checks what a comment or document says of the
program, and TLC's trace is what the code does instead.

* `money_deposit` (`HeldIsDeposited`): an escrow is funded "for a real client
  deposit", but funding looks at no payment.
* `reviews_blind` (`BothReviewedPublished`): "when both parties on the contract have
  now reviewed, both reviews are published", but two reviews in overlapping
  transactions each count one, and neither publishes.
* `hub_reader` (`SubscribersServed`): a conversation with local subscribers has one
  Redis subscription whose messages reach all of them, but its reader lives on the
  context of the connection that joined first and ends with it.

Six more configurations are kept beside the runs, and each is violated:

* `PaymentGateway.cfg` with `MCPayment` (`CapturedWhenCharged`): the gateway's public
  webhook path (`proxy.go:39`) and the payment service's differ in one letter. A
  webhook on the first has no route, on the second no token.
* `EventBusLost.cfg` with `MCEventBus` (`PassedIsHandled`): without dead letters a
  failing message is "left uncommitted and redelivered" (`consumer.go:72`), but the next
  message's commit passes it.
* `TimeTrackingBilled.cfg` with `MCTimeTracking` (`BilledOnce`): a stop that is sent
  again accrues the session a second time (`timetracking/.../store.go:105`).
* `SessionsReuse.cfg` with `MCSessions` (`ReuseBurnsFamily`): the revocation after a
  reuse may be the victim of a deadlock with a rotation, and its error is ignored
  (`auth/.../service.go:162`).
* `EventBusOrder.cfg` with `MCEventBus` (`IdOrder`): "run EXACTLY ONE relay
  replica per source database when consumers rely on per-aggregate ordering"
  (`outbox.go:66`), but one relay does not give the order of outbox ids: they are drawn
  at the insert, and a later id that commits first is published first.
* `ReviewsRead.cfg` with `MCReviews` (`BlindToReaders`): reviews are "hidden until both
  sides submit or the window closes" (`000009_reviews_messaging_notifications.up.sql:14`),
  but `getReview` returns them (`review/.../handlers.go:73`, `store.go:150`).

Properties whose comment says "Refuted" state further expectations of the code's
comments that TLC refutes on the services' instances (`Resumable` under `FairSpec`):
`Contracts!ContractedIsContractable`,
`Fraud!CrossingOpensCase`, `Admin!ResolutionIsFinal`, `Admin!NewestIsStatus`,
`Reviews!ReputationCurrent`,
`Screenshots!Resumable`, `Notifications!SentOnce`, `Profiles!SearchableIsVerified`,
`Profiles!SkillsOfOneRequest`, `Gateway!AccurateLimit` ("share one accurate limit",
`ratelimit.go:2-3`; with `Skews = {0}` too), `Gateway!AuthWithinLimits` (with bursts of 6
and 2 in a window of two ticks). Also met on the way:

* the comment of `FundEscrow` says the net credit of the `escrow` account kind "stays
  exactly +amount", while its hold debits the kind the capture credited;
* `EffectOnce` needs `ClaimsInTx`: notification's effect and mark are two commits;
* with `ClientDEK = {}` (a tracker that lets the service mint the key) a repeated
  slot request answers with a new key for the old row, and `StoredReadable` fails;
* `handleSend` fans a message out although messaging refused it, and nobody consumes
  `message.sent` in the websocket gateway, nor `screenshot.flagged` anywhere;
* a KYC decision for a user without a profile is recorded and announced although no
  row was updated; `last_message_at` may go back, since `now()` is the start;
* the channel for users "without preferences" also serves those who disabled all;
* a script that runs late sets the bucket's time back, and the next one is refilled for
  an interval that was used before; a replica whose clock is ahead refills early.

## 4. Fairness

* Escrow: strong fairness of `LockEscrow` (Postgres queues the waiters of a row
  lock), weak fairness of the steps of a transaction that holds the lock (commit,
  refusal and deferred rollback all end it). Nothing is assumed of `Receive`.
* Payment: strong fairness of each step: a statement attempted again and again
  does not fail for ever. Stripe delivers until it is acknowledged. Weak fairness of
  `Rollback` ends a request that can take no other step. No fairness of `Charge` or
  of confirm calls: capture must not depend on the client.
* EventBus: weak fairness of the relay's drain (a ticker) and of the consumer's
  loop; failures are bounded by `MaxFaults`, so they stop at some point, which is
  the only promise `Delivered` needs.
* Hub: weak fairness of the goroutines' own steps and of Redis expiry; strong fairness
  of `Heartbeat`, since pongs keep arriving between the frames of an open connection,
  each of whose handlers ends. Nothing is assumed of clients.
* Sessions: strong fairness of the steps that wait for a row lock (Postgres queues the
  waiters), weak fairness of the others and of `Deadlock` (the detector runs after
  `deadlock_timeout`). Nothing is assumed of `Receive`, of a rollback or of logins.

## 5. Proofs

Every safety property of the passing runs is a theorem, for every value of the
constants that the named assumptions, or the theorem's hypotheses, allow. So are facts
that no run repeats: the type invariants (`TypeCorrect` of each module, with balances
inside BIGINT), `ReservedIsReleasable` (the drift guard never refuses a held
allocation), `OnePaymentPerKey`, `PublishedIsLogged` with `OnlyCommittedPublished`,
`ReputationFromPublished` and `FlaggedAnnounced`.

* **Escrow.** `ReservationsCovered` is not inductive: between the check and the
  commit of one handler, another one must not have changed the balance. `Control`
  adds that a handler past `begun` holds its account's lock (`LocksHeld`), that what
  it read is what is stored (`SnapsFresh`) and that its check still stands
  (`ChecksStand`). `AccountOK(c)` is the books of one account: positive allocations,
  keys counted once, reservations covered, ledger and events booked, status settled.
  A commit disturbs only its own account, and the others' checks stand because the
  lock keeps two handlers off one account. `Refinement` maps reserved cents to the
  sum of held allocations and shows each commit to be one step of `EscrowAccount`.
* **Payment.** `MarkedOwned` (whoever marked a row holds it, still `processing` to
  others) makes the guarded update a lock on the capture; `CapturedSeen` makes the
  webhook's reading of a captured row stable; with `KeysUnique` and
  `RecordedCaptured` the invariant is inductive.
* **TimeTracking.** `StopsOwned` (a stop past `CloseSession` holds its session, whose
  stops are still below the bound) and `UnstoppedUnbilled`. The arithmetic is
  `RoundsDown` (what integer division loses) and `SumUpdate` (changing one row
  changes the sum by as much).
* **EventBus.** `Outbox` (batches are committed; what was sent is
  logged), `Claims` (effects and claims agree), `Group` (positions, offsets and what
  each replica knows of its message). `OrderSafe` is for exactly one relay: it adds that
  what was committed when a row was inserted has a lower id (`EarlierIds`) and that a
  drain that holds a row holds those too, or they are in the partition
  (`BatchesComplete`). Nothing is asked of the producers' locks. `RepeatsSafe` is
  for any number of relays: no row is in two drains or both marked and in a drain
  (`BatchesApart`), and every place of an event in the partition but one is paid for by
  a failure, the one being there only while its row is marked or its drain is open
  (`PlacesOwed`).
* **Sessions.** Per handler: `HoldsToken` (a refresh that goes on holds its token's
  row and the token is live), `HoldsSession` (one that mints holds the session's row,
  which is not revoked), `SnapshotExact` (the tokens a revocation saw are still all
  the tokens) and `RoomOK`. Per session, `TokensOK`: all tokens but the newest are
  used. A mint and a pending revocation exclude each other by the session's lock; a
  revocation and a refresh that goes on exclude each other by the token's.
  `LateGuessesSafe` counts: while a user is locked, the guesses already judged and
  those still being verified are together fewer than the handlers (`LateOK`), since
  the failure that set the lock was one of them and nobody passes the lock afterwards.
* **Cents.** A sum is the number of individual cents, so its laws (`SumAdd`,
  `SumRemove`, `SumSame`, `SumType`) follow from those of finite cardinality,
  without induction; so do the laws of `CountOf`, the occurrences of an event in a log.

The services of the run `services` are proved about in `HiringProofs` and
`ServicesProofs`, over the same specification the run checks, `ServicesSpec`. For each
service one lemma (`HiringPart`, `ReviewPart`, ...) says that a behaviour of
`ServicesSpec` either never has that `part`, or is one of the service's own
specification; the rest of the argument is about the service alone.

* **Hiring.** `MarketInv` ties each project's and proposal's row to its log of events.
  For a contract, `Terms` ties row and milestones to the bid, `Story` the status to the
  timeline and to the events, `MilestoneStory` a milestone's status to the approvals
  announced and the deliverables. A request in `work` still reads what is stored
  (`ReadStill`), because no two requests hold one row; what `LookupProposal` compared
  stays true because a bid is never changed (`Asked`, `MarketGrows`). Hypothesis:
  `HiringConstants`, the module's own `ContractsConstants` (which `MCServices` has TLC
  evaluate on its instance) and that NULL is no row.
* **Messaging.** `Announced` (the log is the history) and `Touched` (a conversation's
  `last_message_at` is one of its messages' times).
* **Hub.** `MapsHold`: for each replica and conversation the entry's subscribers are
  exactly the registered connections that joined, with exactly one open subscription;
  the count of a user's connections is their number. `Delivering`: a frame in an
  inbox, with a reader, or in a queue is true of history and may reach that user, and no
  connection that has seen a frame is still to be given it. Hypothesis: `HubConstants`
  (finitely many connections, each with a user and able to post, NULL distinct).
* **Reviews.** `RowsOwned` (what a transaction inserted or is publishing is its own and
  hidden to others), `BothWritten`, `Scored` (a reputation in the making is drawn from
  what is published or about to be), `ReviewsApart` (no two transactions publish one
  review).
* **Fraud.** `ScoresLocked` (one transaction past its upsert per subject) makes
  `CheckStands` (no open case seen is no open case) stable; `CasesOK` counts events.
* **Admin.** `AdminStamps`: stamps lie in the past, and no two transactions, nor a row
  and a transaction still to write, share one. `StatusExplained`: the action that
  committed last ended at the newest clock, so none began after it. `Trail` aligns
  actions and audit rows without the accesses, which are counted against what was shown.
  Hypotheses: finitely many requests, users and disputes distinct, NULL no action.
* **Screenshots.** `RowsUnique`, `KeysApart` (calls in the making have keys of their own),
  `CallOK` and `DevOK` (what the device knows of the server at each step of its loop).
  `ScreenshotsReadable` needs `Slices \subseteq ClientDEK`: the tracker makes the key.
  That is what the tracker does; section 3 says what happens otherwise.
* **Notifications.** `HandlingOK` and `NoticeOK` (tried channels lie between `always` and
  `ever`), `AttemptsDelivered` (recorded as sent was sent), `HandledOnce`. Hypothesis:
  a recipient is a user or none.
* **Profiles.** `ProfileOK` (the log's last word on a user is the row's), `SaveOK` and
  `RowKept` for transactions under way, and for the consumer `Reflects`: the index is
  what the events up to its place in the log say, unless the user is `disturbed`.
  Hypothesis: completeness is a natural, NULL is no row.
* **Gateway.** `Credited` is the time, with all errors of clocks, up to which a bucket
  was refilled, less what a clock that was behind lets the next script refill again.
  `Spent`: for every admission since, tokens left and admissions made are within the burst
  and the refill up to that time; so no window exceeds the limit. Hypothesis:
  `LimitConstants`, that is whole tokens per tick and the auth policy no larger than the
  general one. Nothing is asked of the clocks or of the delay of a script.

The instances of the runs satisfy these hypotheses, and TLC finds the inductive
invariants of the services true in every reachable state of theirs. Checked by TLC
only: the liveness properties `RequestsAnswered`, `CapturedWhenCharged`, `Delivered`,
`RequestsEnd` and `PresenceSettles` (fairness and ENABLED are out of the prover's reach).

## 6. Plan

What remains to prove:

1. The services' type invariants and the parts of their inductive invariants that
   say something by themselves (`ScoresLocked`, `ReviewsApart`, `ReadStill`), as
   theorems of their own.
2. Action properties: an audit row, a timeline entry and an event are never taken back
   (the logs only grow), a burned session never revives.
3. The composition `MoneyFlow`: that payment and escrow, over one ledger, keep each
   the invariants proved of it alone.

## 7. Not modelled, and why

* The gateway's rewriting of identity headers, one assignment per header and request.
* Cryptography, token encoding, key-set refresh and configuration are conversions of
  data; the gateway's verified token and `Screenshots`' wrapped keys are taken as given.
* Activity scoring is floating-point arithmetic on one slice; its verdict is an input
  of `TimeTracking`.
* The tracker's scheduler and its start and stop commands: two starts across one await
  open two sessions (`commands.rs:78`), which is known and has no model.
* The connection pool: `Refresh` and `StopSession` take a second connection while their
  transaction holds one, so a full pool waits for itself until the gateway's timeout.
* The search service's project index, index creation and ranking; analytics' rollup
  columns; the wording of notifications and the guess of an event's type.
* The hub without Redis: one replica, where `deliverLocal` is called directly.
* A currency per escrow account, an intent that has no row, and colliding row ids of
  two relays with an empty `RELAY_SOURCE`.
* The web client, the seed and simulation tools, and `src/infra`.
