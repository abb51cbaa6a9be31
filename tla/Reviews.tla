------------------------------ MODULE Reviews ------------------------------
(***************************************************************************)
(* The review service.  The two parties of a completed contract review     *)
(* each other blindly: both reviews are published when the second arrives, *)
(* or when the window is closed.  Publishing recomputes the reputation of  *)
(* each reviewee.  Transactions run under READ COMMITTED: a statement sees *)
(* what is committed when it starts and what its own transaction wrote, an *)
(* UPDATE waits for the row locks of others and then looks at the row      *)
(* again, and an upsert waits for the lock of its row only after the value *)
(* it writes was read.                                                     *)
(***************************************************************************)
EXTENDS Integers, FiniteSets

CONSTANTS
  Contracts, ClientOf, FreelancerOf,
  StatusOf,     \* contracts.status, which no service sets to 'completed'
  Requests,     \* requests served concurrently
  None

VARIABLES
  hidden,       \* committed reviews with is_published = false
  published,    \* committed reviews with is_published = true
  responses,    \* reviews with a response
  reputation,   \* reputation_scores: the reviews a user's score aggregates
  announced,    \* review.published events of each review
  closed,       \* contracts whose window somebody asked to close
  tx            \* the transaction of each request

vars == <<hidden, published, responses, reputation, announced, closed, tx>>

Users == {ClientOf[k] : k \in Contracts} \cup {FreelancerOf[k] : k \in Contracts}

(* A review is a contract and its reviewer: UNIQUE (contract_id, reviewer_id). *)
IsParty(k, u) == u \in {ClientOf[k], FreelancerOf[k]}
Opposite(k, u) == IF u = ClientOf[k] THEN FreelancerOf[k] ELSE ClientOf[k]
AllReviews == {v \in Contracts \X Users : IsParty(v[1], v[2])}
Reviewee(v) == Opposite(v[1], v[2])

Idle == [at |-> "idle", inserted |-> {}, candidates |-> {}, publishing |-> {},
         todo |-> {}, user |-> None, read |-> {}, scores |-> [u \in {} |-> {}]]

Init ==
  /\ hidden = {} /\ published = {} /\ responses = {}
  /\ reputation = [u \in Users |-> {}]
  /\ announced = [v \in AllReviews |-> 0]
  /\ closed = {}
  /\ tx = [r \in Requests |-> Idle]

tables == <<hidden, published, responses, reputation, announced, closed>>
Others(r) == Requests \ {r}
Step(r, t) == tx' = [tx EXCEPT ![r] = t] /\ UNCHANGED tables

-----------------------------------------------------------------------------
(* The request; nobody reviews anonymously or themselves. *)
createReview(u, about) == u # None /\ about # None /\ about # u

(* The contract service's answer, fetched before the transaction.  An error
   or a timeout refuses the review. *)
PartiesGet(k) == [client |-> ClientOf[k], freelancer |-> FreelancerOf[k], status |-> StatusOf[k]]

completedContractStatuses == {"completed"}

MayReview(v, about, rating) ==
  /\ rating \in 1..5
  /\ IsParty(v[1], v[2])
  /\ about = Opposite(v[1], v[2])
  /\ PartiesGet(v[1]).status \in completedContractStatuses

(* Hidden reviews of contract k that a statement of this transaction sees. *)
Unpublished(k, inserted) == {v \in hidden \cup inserted : v[1] = k}

(* Mutant: the count forgets the contract. *)
CountAllReviews(k, inserted) == Cardinality(hidden \cup published \cup inserted)

CountReviews(k, inserted) ==
  Cardinality({v \in hidden \cup published \cup inserted : v[1] = k})

(* INSERT, which waits for a concurrent insert of the same key and fails on
   a committed one. *)
InsertReview(r, v) ==
  /\ v \notin hidden \cup published
  /\ \A o \in Others(r) : v \notin tx[o].inserted

(* The insert and the count; with both reviews there, publishing starts. *)
CreateReview(r, v, about, rating) ==
  /\ tx[r] = Idle
  /\ createReview(v[2], about)
  /\ MayReview(v, about, rating)
  /\ InsertReview(r, v)
  /\ Step(r, IF CountReviews(v[1], {v}) >= 2
             THEN [Idle EXCEPT !.at = "publish", !.inserted = {v}, !.candidates = Unpublished(v[1], {v})]
             ELSE [Idle EXCEPT !.at = "commit", !.inserted = {v}])

PublishWindowClosed(r, k) ==
  /\ tx[r] = Idle
  /\ tx' = [tx EXCEPT ![r] = [Idle EXCEPT !.at = "publish", !.candidates = Unpublished(k, {})]]
  /\ closed' = closed \cup {k}
  /\ UNCHANGED <<hidden, published, responses, reputation, announced>>

(* Mutant: rows that were published meanwhile are published again. *)
PublishStale(r) ==
  /\ tx[r].at = "publish"
  /\ \A o \in Others(r) : tx[o].publishing \cap tx[r].candidates = {}
  /\ LET rows == tx[r].candidates IN
     Step(r, [tx[r] EXCEPT !.at = IF rows = {} THEN "commit" ELSE "score",
                           !.publishing = rows, !.todo = {Reviewee(v) : v \in rows}])

(* The UPDATE takes the rows it saw that are still unpublished once their
   locks are free. *)
PublishUnpublished(r) ==
  /\ tx[r].at = "publish"
  /\ \A o \in Others(r) : tx[o].publishing \cap tx[r].candidates = {}
  /\ LET rows == tx[r].candidates \ published IN
     Step(r, [tx[r] EXCEPT !.at = IF rows = {} THEN "commit" ELSE "score",
                           !.publishing = rows, !.todo = {Reviewee(v) : v \in rows}])

(* The aggregate over the user's published reviews. *)
Aggregate(r, u) == {v \in published \cup tx[r].publishing : Reviewee(v) = u}

RecomputeReputation(r, u) ==
  /\ tx[r].at = "score" /\ u \in tx[r].todo
  /\ Step(r, [tx[r] EXCEPT !.at = "upsert", !.user = u, !.read = Aggregate(r, u)])

UpsertReputation(r) ==
  LET u == tx[r].user  todo == tx[r].todo \ {u} IN
  /\ tx[r].at = "upsert"
  /\ \A o \in Others(r) : u \notin DOMAIN tx[o].scores
  /\ Step(r, [tx[r] EXCEPT !.at = IF todo = {} THEN "commit" ELSE "score", !.todo = todo,
                           !.user = None, !.read = {},
                           !.scores = [w \in DOMAIN @ \cup {u} |-> IF w = u THEN tx[r].read ELSE @[w]]])

Commit(r) ==
  LET t == tx[r] IN
  /\ t.at = "commit"
  /\ published' = published \cup t.publishing
  /\ hidden' = (hidden \cup t.inserted) \ t.publishing
  /\ reputation' = [u \in Users |-> IF u \in DOMAIN t.scores THEN t.scores[u] ELSE reputation[u]]
  /\ announced' = [v \in AllReviews |-> announced[v] + IF v \in t.publishing THEN 1 ELSE 0]
  /\ tx' = [tx EXCEPT ![r] = Idle]
  /\ UNCHANGED <<responses, closed>>

(* An error, a lost connection, or the victim of a deadlock between two
   publications that score the same users in different orders. *)
Rollback(r) == tx[r] # Idle /\ Step(r, Idle)

addResponse(u) == u # None

GetRevieweeID(v) == IF v \in hidden \cup published THEN Reviewee(v) ELSE None

UpsertResponse(v) == responses \cup {v}

AddResponse(v, u) ==
  /\ addResponse(u)
  /\ u = GetRevieweeID(v)
  /\ responses' = UpsertResponse(v)
  /\ UNCHANGED <<hidden, published, reputation, announced, closed, tx>>

(* GET by id, which asks neither who reads nor whether it is published. *)
GetReview(v) == IF v \in hidden \cup published THEN v ELSE None

ListPublishedForUser(u) == {v \in published : Reviewee(v) = u}

GetReputation(u) == reputation[u]

Next ==
  \/ \E r \in Requests :
       \/ \E v \in AllReviews, about \in Users \cup {None}, rating \in {0, 5} : CreateReview(r, v, about, rating)
       \/ \E k \in Contracts : PublishWindowClosed(r, k)
       \/ PublishUnpublished(r)
       \/ \E u \in Users : RecomputeReputation(r, u)
       \/ UpsertReputation(r)
       \/ Commit(r)
       \/ Rollback(r)
  \/ \E v \in AllReviews, u \in Users \cup {None} : AddResponse(v, u)

Spec == Init /\ [][Next]_vars

-----------------------------------------------------------------------------
TypeOK ==
  /\ hidden \subseteq AllReviews /\ published \subseteq AllReviews
  /\ hidden \cap published = {}
  /\ responses \subseteq hidden \cup published
  /\ \A u \in Users : reputation[u] \subseteq AllReviews
  /\ closed \subseteq Contracts

(* The other party has reviewed too, or the window was closed. *)
BothOrClosed(v) ==
  v[1] \in closed \/ <<v[1], Reviewee(v)>> \in hidden \cup published

(* Blind publication: a review is in the public list, announced on the bus or
   part of a reputation only when the other party has reviewed too, or the
   window was closed.  The reviews of both parties and the closing may be in
   flight together.  It says nothing of the GET by id: see BlindToReaders. *)
PublishedAfterBoth ==
  \A v \in AllReviews :
    \/ v \in ListPublishedForUser(Reviewee(v))
    \/ announced[v] > 0
    \/ v \in GetReputation(Reviewee(v))
    => BothOrClosed(v)

(* Double blind: nobody reads a review before the other party has reviewed
   too or the window was closed.  Refuted: GetReview returns hidden ones. *)
BlindToReaders ==
  \A v \in AllReviews : GetReview(v) # None => BothOrClosed(v)

(* A publication is announced exactly once, although the second review and
   any number of window closings publish the same rows concurrently. *)
AnnouncedOnce ==
  \A v \in AllReviews : announced[v] = IF v \in published THEN 1 ELSE 0

(* A reputation is built from published reviews about that user, and once
   one is published the user has a reputation.  It may lack a review that
   was published concurrently, but it never loses everything. *)
ReputationFromPublished ==
  \A u \in Users :
    /\ GetReputation(u) \subseteq ListPublishedForUser(u)
    /\ ListPublishedForUser(u) # {} => GetReputation(u) # {}

(* When both parties have reviewed and no request is running, both reviews
   are published. *)
BothReviewedPublished ==
  (\A r \in Requests : tx[r] = Idle) =>
    \A v \in hidden : <<v[1], Reviewee(v)>> \notin hidden

(* When no request is running, a user's reputation is computed from all the
   published reviews about them.  Refuted: two publications about one user
   each aggregate without the other's review, and the later upsert wins. *)
ReputationCurrent ==
  (\A r \in Requests : tx[r] = Idle) =>
    \A u \in Users : GetReputation(u) = ListPublishedForUser(u)
=============================================================================
