------------------------------ MODULE Profiles ------------------------------
(***************************************************************************)
(* The user service and the search consumer.  Saving a freelancer profile  *)
(* decides from the KYC status whether the profile is searchable, and the  *)
(* event it leaves adds the freelancer to the search index or takes them   *)
(* out.  The KYC status is read without a lock and may change before the   *)
(* profile is written; the write locks the row until the commit, so the    *)
(* events of one profile are in commit order.                              *)
(***************************************************************************)
EXTENDS Access, Integers, Sequences, FiniteSets

CONSTANTS
  Users, Skills,
  Filled,       \* how many core fields a request fills
  Statuses,     \* KYC statuses of a request
  Requests,
  Keys,         \* attestation keys; "short" is one of the wrong size
  MaxItems,     \* bound on the portfolio of a user
  MaxEvents,    \* bound on the events of a user
  MaxRetries,   \* the consumer's attempts at one message
  MaxFaults     \* bound on failed calls, restarts and takeovers of the consumer

VARIABLES
  profile,      \* freelancer_profiles, None without a row
  clients,      \* users with a client profile
  kycRecords,   \* kyc_records: users and the statuses they were given
  skills,       \* freelancer_skills
  portfolio,    \* portfolio items of each user
  devices,      \* devices and the attestation key of each
  events,       \* user.events of each user, in partition order
  tx,           \* the transaction of each request
  index,        \* users with a document in the freelancers index
  consumer,     \* the search consumer's place in the partition of each user
  processed,    \* processed_events
  late,         \* an event a replica still applies after it lost the partition
  disturbed,    \* users one of whose events was given up on, or applied late
  faults

rest == <<clients, kycRecords, skills, portfolio, devices>>
search == <<index, consumer, processed, late, disturbed, faults>>
vars == <<profile, rest, events, tx, search>>

Idle == [at |-> "idle", user |-> None]
Start(n) == [at |-> "fetch", committed |-> n, next |-> n + 1, attempt |-> 1]

Init ==
  /\ profile = [u \in Users |-> None]
  /\ clients = {} /\ kycRecords = {} /\ skills = {} /\ devices = {}
  /\ portfolio = [u \in Users |-> 0]
  /\ events = [u \in Users |-> <<>>]
  /\ tx = [r \in Requests |-> Idle]
  /\ index = {}
  /\ consumer = [u \in Users |-> Start(0)]
  /\ processed = {}
  /\ late = [u \in Users |-> None]
  /\ disturbed = {}
  /\ faults = 0

Fault == faults < MaxFaults /\ faults' = faults + 1
Room(u) == Len(events[u]) < MaxEvents   \* bound
Announce(u, e) == events' = [events EXCEPT ![u] = Append(@, e)]

-----------------------------------------------------------------------------
(* Freelancer and client profiles *)

completenessFields == 6
Completeness(filled) == (filled * 100) \div completenessFields
Searchable(filled, kyc) == Completeness(filled) >= 60 /\ kyc = "verified"

KYCStatusOf(u) == IF profile[u] = None THEN None ELSE profile[u].kyc

UpsertFreelancerProfile(r, u, filled) ==
  /\ tx[r] = Idle
  /\ Room(u)
  /\ tx' = [tx EXCEPT ![r] = [at |-> "upsert", user |-> u, filled |-> filled,
                              searchable |-> Searchable(filled, KYCStatusOf(u))]]
  /\ UNCHANGED <<profile, rest, events, search>>

(* A writer keeps the row until it commits.  An UPDATE that finds no row
   has nothing to wait for and nothing to lock. *)
RowFree(r) ==
  \A o \in Requests \ {r} : tx[o].user = tx[r].user => tx[o].at \notin {"upserted", "updated"}

UpsertRow(r) ==
  /\ tx[r].at = "upsert"
  /\ RowFree(r)
  /\ tx' = [tx EXCEPT ![r].at = "upserted"]
  /\ UNCHANGED <<profile, rest, events, search>>

FreelancerEvent(t) == [type |-> "profile.updated", kind |-> "freelancer", searchable |-> t.searchable]

(* The columns of the request; kyc_status keeps its value or its default. *)
CommitProfile(r) ==
  LET t == tx[r] IN
  /\ t.at = "upserted"
  /\ profile' = [profile EXCEPT ![t.user] =
       [completeness |-> Completeness(t.filled), searchable |-> t.searchable,
        kyc |-> IF @ = None THEN "not_started" ELSE @.kyc]]
  /\ Announce(t.user, FreelancerEvent(t))
  /\ tx' = [tx EXCEPT ![r] = Idle]
  /\ UNCHANGED <<rest, search>>

ClientEvent == [type |-> "profile.updated", kind |-> "client", searchable |-> FALSE]

UpsertClientProfile(u) ==
  /\ Room(u)
  /\ clients' = clients \cup {u}
  /\ Announce(u, ClientEvent)
  /\ UNCHANGED <<profile, kycRecords, skills, portfolio, devices, tx, search>>

-----------------------------------------------------------------------------
(* KYC *)

validKYCStatuses == {"not_started", "pending", "verified", "rejected"}

(* An internal service, or a privileged user other than the subject. *)
setKYCStatus(a, internal, u) ==
  /\ a # None
  /\ internal \/ (Can(a, "user:kyc_update") /\ a # u)

SetKYCStatus(r, a, internal, u, status) ==
  /\ tx[r] = Idle
  /\ Room(u)
  /\ setKYCStatus(a, internal, u)
  /\ status \in validKYCStatuses
  /\ tx' = [tx EXCEPT ![r] = [at |-> "update", user |-> u, status |-> status]]
  /\ UNCHANGED <<profile, rest, events, search>>

UpdateStatus(r) ==
  LET u == tx[r].user IN
  /\ tx[r].at = "update"
  /\ profile[u] # None => RowFree(r)
  /\ tx' = [tx EXCEPT ![r].at = IF profile[u] = None THEN "missed" ELSE "updated"]
  /\ UNCHANGED <<profile, rest, events, search>>

(* Recorded and announced also when no profile was updated; the profile's
   is_searchable stays what it was. *)
CommitKYC(r) ==
  LET t == tx[r] IN
  /\ t.at \in {"updated", "missed"}
  /\ profile' = IF t.at = "missed" THEN profile ELSE [profile EXCEPT ![t.user].kyc = t.status]
  /\ kycRecords' = kycRecords \cup {<<t.user, t.status>>}
  /\ Announce(t.user, [type |-> "user.kyc_updated", kind |-> None, searchable |-> FALSE])
  /\ tx' = [tx EXCEPT ![r] = Idle]
  /\ UNCHANGED <<clients, skills, portfolio, devices, search>>

Rollback(r) ==
  /\ tx[r] # Idle
  /\ tx' = [tx EXCEPT ![r] = Idle]
  /\ UNCHANGED <<profile, rest, events, search>>

-----------------------------------------------------------------------------
(* Skills, portfolio and devices belong to the caller. *)

OwnOnly(a, u) == a # None /\ a = u

(* The DELETE sees the rows committed when it starts; the new ones are
   inserted next to those that others commit meanwhile.  A row that another
   request deletes first is gone, its successor was not seen. *)
SetFreelancerSkills(r, a, u, wanted) ==
  /\ tx[r] = Idle
  /\ OwnOnly(a, u)
  /\ wanted # {} => profile[u] # None     \* foreign key
  /\ tx' = [tx EXCEPT ![r] = [at |-> "replace", user |-> u, wanted |-> wanted,
                              deleted |-> {k \in skills : k[1] = u}]]
  /\ UNCHANGED <<profile, rest, events, search>>

CommitSkills(r) ==
  LET t == tx[r] IN
  /\ t.at = "replace"
  /\ skills' = (skills \ t.deleted) \cup ({t.user} \X t.wanted)
  /\ tx' = [o \in Requests |->
              IF o = r THEN Idle
              ELSE IF tx[o].at = "replace" THEN [tx[o] EXCEPT !.deleted = @ \ t.deleted] ELSE tx[o]]
  /\ UNCHANGED <<profile, clients, kycRecords, portfolio, devices, events, search>>

ListFreelancerSkills(u) == {k[2] : k \in {x \in skills : x[1] = u}}

AddPortfolioItem(a, u) ==
  /\ OwnOnly(a, u)
  /\ profile[u] # None
  /\ portfolio[u] < MaxItems
  /\ portfolio' = [portfolio EXCEPT ![u] = @ + 1]
  /\ UNCHANGED <<profile, clients, kycRecords, skills, devices, events, tx, search>>

(* One row per user and fingerprint; a later enrolment replaces the key.  A
   key of the wrong size is refused. *)
RegisterDevice(u, key) ==
  /\ u # None
  /\ key # "short"
  /\ devices' = {d \in devices : d[1] # u} \cup {<<u, key>>}
  /\ UNCHANGED <<profile, clients, kycRecords, skills, portfolio, events, tx, search>>

-----------------------------------------------------------------------------
(* The search consumer, one message of a partition at a time *)

(* Mutant: is_searchable is not looked at. *)
RouteAlwaysIndex(e) ==
  IF e.type # "profile.updated" \/ e.kind # "freelancer" THEN "ignore" ELSE "index"

route(e) ==
  IF e.type # "profile.updated" \/ e.kind # "freelancer" THEN "ignore"
  ELSE IF e.searchable THEN "index" ELSE "delete"

indexEvent(u, e) ==
  CASE route(e) = "index" -> index \cup {u}
    [] route(e) = "delete" -> index \ {u}
    [] OTHER -> index

Fetched(u) == consumer[u].next <= Len(events[u])
Goto(u, at) == consumer' = [consumer EXCEPT ![u].at = at]

AlreadyProcessed(u) ==
  /\ consumer[u].at = "fetch" /\ Fetched(u)
  /\ Goto(u, IF <<u, consumer[u].next>> \in processed THEN "commit" ELSE "handle")
  /\ UNCHANGED <<profile, rest, events, tx, index, processed, late, disturbed, faults>>

HandleEvent(u) ==
  /\ consumer[u].at = "handle"
  /\ index' = indexEvent(u, events[u][consumer[u].next])
  /\ Goto(u, "mark")
  /\ UNCHANGED <<profile, rest, events, tx, processed, late, disturbed, faults>>

(* The engine does not answer.  After the last attempt the message is left
   uncommitted and the next one is fetched. *)
HandlerFails(u) ==
  /\ consumer[u].at = "handle"
  /\ route(events[u][consumer[u].next]) # "ignore"
  /\ Fault
  /\ IF consumer[u].attempt < MaxRetries
     THEN consumer' = [consumer EXCEPT ![u].attempt = @ + 1] /\ UNCHANGED disturbed
     ELSE /\ consumer' = [consumer EXCEPT ![u].at = "fetch", ![u].attempt = 1, ![u].next = @ + 1]
          /\ disturbed' = disturbed \cup {u}
  /\ UNCHANGED <<profile, rest, events, tx, index, processed, late>>

(* An error of the mark is ignored. *)
MarkProcessed(u, marked) ==
  /\ consumer[u].at = "mark"
  /\ IF marked THEN processed' = processed \cup {<<u, consumer[u].next>>} /\ UNCHANGED faults
     ELSE UNCHANGED processed /\ Fault
  /\ Goto(u, "commit")
  /\ UNCHANGED <<profile, rest, events, tx, index, late, disturbed>>

CommitMessages(u) ==
  /\ consumer[u].at = "commit"
  /\ consumer' = [consumer EXCEPT ![u] = Start(@.next)]
  /\ UNCHANGED <<profile, rest, events, tx, index, processed, late, disturbed, faults>>

(* The consumer stops, or loses the partition; its successor starts after
   the committed offset.  A replica that lost the partition may still be
   applying its message. *)
Takeover(u) ==
  /\ consumer[u].at # "fetch"
  /\ Fault
  /\ consumer' = [consumer EXCEPT ![u] = Start(@.committed)]
  /\ \/ UNCHANGED late
     \/ /\ consumer[u].at = "handle" /\ late[u] = None
        /\ late' = [late EXCEPT ![u] = consumer[u].next]
  /\ UNCHANGED <<profile, rest, events, tx, index, processed, disturbed>>

ApplyLate(u) ==
  /\ late[u] # None
  /\ index' = indexEvent(u, events[u][late[u]])
  /\ late' = [late EXCEPT ![u] = None]
  /\ disturbed' = disturbed \cup {u}
  /\ UNCHANGED <<profile, rest, events, tx, consumer, processed, faults>>

SearchFreelancers == index

-----------------------------------------------------------------------------
Request(r) ==
  \/ \E u \in Users, filled \in Filled : UpsertFreelancerProfile(r, u, filled)
  \/ UpsertRow(r)
  \/ CommitProfile(r)
  \/ \E a \in Callers, internal \in BOOLEAN, u \in Users, status \in Statuses :
       SetKYCStatus(r, a, internal, u, status)
  \/ UpdateStatus(r)
  \/ CommitKYC(r)
  \/ \E a \in Callers, u \in Users, wanted \in SUBSET Skills : SetFreelancerSkills(r, a, u, wanted)
  \/ CommitSkills(r)
  \/ Rollback(r)

Own ==
  \/ \E u \in Users : UpsertClientProfile(u)
  \/ \E a \in Callers, u \in Users : AddPortfolioItem(a, u)
  \/ \E a \in Callers, key \in Keys : RegisterDevice(a, key)

Consume(u) ==
  \/ AlreadyProcessed(u) \/ HandleEvent(u) \/ HandlerFails(u)
  \/ \E marked \in BOOLEAN : MarkProcessed(u, marked)
  \/ CommitMessages(u) \/ Takeover(u) \/ ApplyLate(u)

Next == (\E r \in Requests : Request(r)) \/ Own \/ \E u \in Users : Consume(u)

Spec == Init /\ [][Next]_vars

-----------------------------------------------------------------------------
EverVerified(u) == <<u, "verified">> \in kycRecords
CaughtUp(u) == consumer[u].committed = Len(events[u]) /\ u \notin disturbed

(* What a search finds, for profiles saved while their KYC status changes
   and for a consumer that is restarted, replayed and repeats messages: a
   profile that is searchable is complete and its owner was verified at some
   time; and once the events of a user are consumed, none of them given up
   on or applied late, the search finds the user exactly when the profile
   says so.  A client profile, or a KYC decision, never adds nor removes
   anybody. *)
SearchFollowsProfile ==
  \A u \in Users :
    /\ (profile[u] # None /\ profile[u].searchable) =>
         profile[u].completeness >= 60 /\ EverVerified(u)
    /\ CaughtUp(u) => (u \in SearchFreelancers <=> profile[u] # None /\ profile[u].searchable)

(* A searchable profile is verified now.  Refuted: SetKYCStatus leaves
   is_searchable as it is. *)
SearchableIsVerified ==
  \A u \in Users : (profile[u] # None /\ profile[u].searchable) => profile[u].kyc = "verified"

(* The skill set of a freelancer with no request running is the set some
   request asked for: here, never two skills when each request names one.
   Refuted: the DELETE of each of two replacements misses the other's rows. *)
SkillsOfOneRequest ==
  \A u \in Users : (\A r \in Requests : tx[r].at # "replace") => Cardinality(ListFreelancerSkills(u)) <= 1
=============================================================================
