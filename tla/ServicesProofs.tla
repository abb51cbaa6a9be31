--------------------------- MODULE ServicesProofs ----------------------------
(***************************************************************************)
(* The services around the money, for every value of their constants: the  *)
(* reviews, the fraud cases, the administration, the screenshots, the      *)
(* notifications, the profiles with their search index, and the limits of  *)
(* the gateway.  Each section is about one service; its `Part' lemma takes *)
(* what is proved there to the specification of all of them.  What a       *)
(* theorem needs of the constants is its hypothesis.                       *)
(***************************************************************************)
EXTENDS Services, CentsProofs

-----------------------------------------------------------------------------
(* Reviews *)

ReviewTxs ==
  [at : {"idle", "publish", "score", "upsert", "commit"},
   inserted : SUBSET Review!AllReviews, candidates : SUBSET Review!AllReviews,
   publishing : SUBSET Review!AllReviews, todo : SUBSET Review!Users,
   user : Review!Users \cup {None}, read : SUBSET Review!AllReviews,
   scores : UNION {[U -> SUBSET Review!AllReviews] : U \in SUBSET Review!Users}]

ReviewTypes ==
  /\ Review!TypeOK
  /\ reputation \in [Review!Users -> SUBSET Review!AllReviews]
  /\ announced \in [Review!AllReviews -> Nat]
  /\ tx \in [Requests -> ReviewTxs]

(* A review in the database or in transaction t. *)
Written(t) == hidden \cup published \cup t.inserted

(* What is inserted is new, what is published is hidden or new. *)
RowsOwned(t) ==
  /\ t.inserted \cap (hidden \cup published) = {}
  /\ t.publishing \subseteq hidden \cup t.inserted
  /\ t.publishing \subseteq t.candidates
  /\ t.candidates \subseteq Written(t)

(* A review is published after its answer, or after the window. *)
BothWritten(t) ==
  \A v \in t.candidates : v[1] \in closed \/ <<v[1], Review!Reviewee(v)>> \in Written(t)

(* Reviews about u that are published once t has committed. *)
PublishedAbout(t, u) == {v \in published \cup t.publishing : Review!Reviewee(v) = u}

(* Every reviewee of t is scored, or on the list, from published reviews. *)
Scored(t) ==
  /\ t.at \in {"idle", "publish"} => t.publishing = {} /\ t.todo = {} /\ DOMAIN t.scores = {}
  /\ t.at = "commit" => t.todo = {}
  /\ \A u \in t.todo : \E v \in t.publishing : Review!Reviewee(v) = u
  /\ \A v \in t.publishing : Review!Reviewee(v) \in t.todo \cup DOMAIN t.scores
  /\ t.at = "upsert" => t.user \in t.todo /\ t.read # {} /\ t.read \subseteq PublishedAbout(t, t.user)
  /\ \A u \in DOMAIN t.scores : t.scores[u] # {} /\ t.scores[u] \subseteq PublishedAbout(t, u)

ReviewTxOK(t) == RowsOwned(t) /\ BothWritten(t) /\ Scored(t)

(* Row locks and the unique key keep two transactions apart. *)
ReviewsApart ==
  \A r, o \in Requests : r # o =>
    tx[r].inserted \cap tx[o].inserted = {} /\ tx[r].publishing \cap tx[o].publishing = {}

(* What is published had its answer, or its window closed. *)
ListedAfterBoth == \A v \in published : Review!BothOrClosed(v)

ReviewIInv ==
  /\ ReviewTypes /\ ReviewsApart
  /\ \A r \in Requests : ReviewTxOK(tx[r])
  /\ ListedAfterBoth /\ Review!AnnouncedOnce /\ Review!ReputationFromPublished

(* The instance counts with the same operator. *)
LEMMA ReviewCardinality ==
  ASSUME NEW S PROVE Review!Cardinality(S) = Cardinality(S)
BY DEF Review!Cardinality, Cardinality, Review!IsFiniteSet, IsFiniteSet

(* A party's opposite is a party. *)
LEMMA RevieweeIsUser ==
  ASSUME NEW v \in Review!AllReviews
  PROVE  v[1] \in Completed /\ v[2] \in Review!Users /\ v = <<v[1], v[2]>> /\ Review!Reviewee(v) \in Review!Users
BY DEF Review!AllReviews, Review!Users, Review!Reviewee, Review!Opposite, Review!IsParty

(* Two reviews of a contract are those of its two parties. *)
LEMMA CountedBoth ==
  ASSUME NEW k \in Completed, NEW v \in Review!AllReviews, v[1] = k, Review!TypeOK,
         Review!CountReviews(k, {v}) >= 2,
         NEW w \in Review!AllReviews, w[1] = k
  PROVE  <<k, Review!Reviewee(w)>> \in hidden \cup published \cup {v}
<1> DEFINE S == {x \in hidden \cup published \cup {v} : x[1] = k}
<1>1. S \subseteq {<<k, ClientOf[k]>>, <<k, FreelancerOf[k]>>}
  BY DEF Review!TypeOK, Review!AllReviews, Review!IsParty
<1>2. IsFiniteSet({<<k, ClientOf[k]>>, <<k, FreelancerOf[k]>>})
  <2>1. IsFiniteSet({<<k, ClientOf[k]>>}) BY FS_Singleton
  <2>2. IsFiniteSet({<<k, ClientOf[k]>>} \cup {<<k, FreelancerOf[k]>>}) BY <2>1, FS_AddElement
  <2>3. {<<k, ClientOf[k]>>} \cup {<<k, FreelancerOf[k]>>} = {<<k, ClientOf[k]>>, <<k, FreelancerOf[k]>>}
    OBVIOUS
  <2> QED BY <2>2, <2>3
<1>3. IsFiniteSet(S) BY <1>1, <1>2, FS_Subset
<1>4. Cardinality(S) >= 2 BY ReviewCardinality DEF Review!CountReviews
<1>5. v \in S BY DEF Review!TypeOK
<1> HIDE DEF S
<1>6. S # {v}
  BY <1>4, FS_Singleton
<1>7. PICK x \in S : x # v BY <1>5, <1>6
<1>8. \/ v = <<k, ClientOf[k]>> /\ x = <<k, FreelancerOf[k]>>
      \/ v = <<k, FreelancerOf[k]>> /\ x = <<k, ClientOf[k]>>
  BY <1>1, <1>5, <1>7
<1>9. Review!Reviewee(w) \in {ClientOf[k], FreelancerOf[k]}
  BY DEF Review!Reviewee, Review!Opposite
<1> QED BY <1>5, <1>7, <1>8, <1>9 DEF S

(* A request that does nothing satisfies what is said of requests. *)
LEMMA IdleReviewTx == Review!Idle \in ReviewTxs /\ ReviewTxOK(Review!Idle)
<1>1. [u \in {} |-> {}] \in [{} -> SUBSET Review!AllReviews] OBVIOUS
<1>2. Review!Idle.scores \in UNION {[U -> SUBSET Review!AllReviews] : U \in SUBSET Review!Users}
  BY <1>1 DEF Review!Idle
<1>3. Review!Idle \in ReviewTxs BY <1>2 DEF Review!Idle, ReviewTxs
<1> QED BY <1>3 DEF Review!Idle, ReviewTxOK, RowsOwned, BothWritten, Scored

(* The invariant of the review service holds at first. *)
LEMMA ReviewInit == Review!Init => ReviewIInv
<1> SUFFICES ASSUME Review!Init PROVE ReviewIInv OBVIOUS
<1>1. ReviewTypes BY IdleReviewTx DEF Review!Init, ReviewTypes, Review!TypeOK
<1>2. \A r \in Requests : ReviewTxOK(tx[r]) BY IdleReviewTx DEF Review!Init
<1>3. ReviewsApart BY DEF Review!Init, ReviewsApart, Review!Idle
<1> QED BY <1>1, <1>2, <1>3 DEF Review!Init, ReviewIInv, ListedAfterBoth, Review!BothOrClosed, Review!AnnouncedOnce,
     Review!ReputationFromPublished, Review!ListPublishedForUser, Review!GetReputation

(* A step that changes no table and only r's transaction. *)
LEMMA ReviewStep ==
  ASSUME ReviewIInv, NEW r \in Requests, NEW t \in ReviewTxs, Review!Step(r, t), ReviewTxOK(t),
         \A o \in Requests \ {r} : t.inserted \cap tx[o].inserted = {} /\ t.publishing \cap tx[o].publishing = {}
  PROVE  ReviewIInv'
<1>1. tx' = [tx EXCEPT ![r] = t] /\ tx' \in [Requests -> ReviewTxs] /\ UNCHANGED Review!tables
  BY DEF Review!Step, ReviewIInv, ReviewTypes
<1>2. UNCHANGED <<hidden, published, responses, reputation, announced, closed>>
  BY <1>1 DEF Review!tables
<1>3. ReviewTypes' BY <1>1, <1>2 DEF ReviewIInv, ReviewTypes, Review!TypeOK
<1>4. ReviewsApart' BY <1>1 DEF ReviewIInv, ReviewsApart, ReviewTypes
<1>5. ASSUME NEW x PROVE ReviewTxOK(x) <=> ReviewTxOK(x)'
  BY <1>2 DEF ReviewTxOK, RowsOwned, BothWritten, Scored, Written, PublishedAbout
<1>6. \A o \in Requests : ReviewTxOK(tx'[o]) BY <1>1 DEF ReviewIInv, ReviewTypes
<1>7. ListedAfterBoth' /\ Review!AnnouncedOnce' /\ Review!ReputationFromPublished'
  BY <1>2 DEF ReviewIInv, ListedAfterBoth, Review!BothOrClosed, Review!AnnouncedOnce,
     Review!ReputationFromPublished, Review!ListPublishedForUser, Review!GetReputation
<1> QED BY <1>2, <1>3, <1>4, <1>6, <1>7 DEF ReviewIInv, ReviewTxOK, RowsOwned, BothWritten, Scored, Written, PublishedAbout

(* A review is inserted hidden, under its request's advisory lock. *)
LEMMA CreateReviewStep ==
  ASSUME ReviewIInv, NEW r \in Requests, NEW v \in Review!AllReviews, NEW about, NEW rating,
         Review!CreateReview(r, v, about, rating)
  PROVE  ReviewIInv'
<1> DEFINE both == Review!CountReviews(v[1], {v}) >= 2
           t == IF both
                THEN [Review!Idle EXCEPT !.at = "publish", !.inserted = {v},
                                         !.candidates = Review!Unpublished(v[1], {v})]
                ELSE [Review!Idle EXCEPT !.at = "commit", !.inserted = {v}]
<1>1. Review!Step(r, t) BY DEF Review!CreateReview
<1>2. /\ v \notin hidden \cup published
      /\ \A o \in Requests \ {r} : v \notin tx[o].inserted
  BY DEF Review!CreateReview, Review!InsertReview, Review!Others
<1>3. /\ t.at = (IF both THEN "publish" ELSE "commit") /\ t.inserted = {v}
      /\ t.candidates = (IF both THEN Review!Unpublished(v[1], {v}) ELSE {})
      /\ t.publishing = {} /\ t.todo = {} /\ t.scores = [u \in {} |-> {}]
  BY DEF Review!Idle
<1>4. Review!Unpublished(v[1], {v}) \subseteq Review!AllReviews
  BY DEF ReviewIInv, ReviewTypes, Review!TypeOK, Review!Unpublished
<1>5. t \in ReviewTxs BY <1>4, IdleReviewTx DEF ReviewTxs, Review!Idle
<1> HIDE DEF t
<1>6. RowsOwned(t) BY <1>2, <1>3 DEF RowsOwned, Written, Review!Unpublished
<1>7. BothWritten(t)
  <2> SUFFICES ASSUME NEW w \in t.candidates PROVE <<w[1], Review!Reviewee(w)>> \in Written(t)
    BY DEF BothWritten
  <2>1. both /\ w \in Review!AllReviews /\ w[1] = v[1] BY <1>3, <1>4 DEF Review!Unpublished
  <2>2. <<w[1], Review!Reviewee(w)>> \in hidden \cup published \cup {v}
    BY <2>1, CountedBoth, RevieweeIsUser DEF ReviewIInv, ReviewTypes
  <2> QED BY <2>2, <1>3 DEF Written
<1>8. Scored(t) BY <1>3 DEF Scored
<1> QED BY <1>1, <1>2, <1>3, <1>5, <1>6, <1>7, <1>8, ReviewStep DEF ReviewTxOK

(* Closing a window publishes nothing yet and answers for its reviews. *)
LEMMA WindowStep ==
  ASSUME ReviewIInv, NEW r \in Requests, NEW k \in Completed, Review!PublishWindowClosed(r, k)
  PROVE  ReviewIInv'
<1> DEFINE t == [Review!Idle EXCEPT !.at = "publish", !.candidates = Review!Unpublished(k, {})]
<1>1. /\ tx' = [tx EXCEPT ![r] = t] /\ closed' = closed \cup {k}
      /\ UNCHANGED <<hidden, published, responses, reputation, announced>>
  BY DEF Review!PublishWindowClosed
<1>2. /\ t.at = "publish" /\ t.inserted = {} /\ t.candidates = Review!Unpublished(k, {})
      /\ t.publishing = {} /\ t.todo = {} /\ t.scores = [u \in {} |-> {}]
  BY DEF Review!Idle
<1>3. Review!Unpublished(k, {}) \subseteq Review!AllReviews
  BY DEF ReviewIInv, ReviewTypes, Review!TypeOK, Review!Unpublished
<1>4. t \in ReviewTxs BY <1>3, IdleReviewTx DEF ReviewTxs, Review!Idle
<1> HIDE DEF t
<1>5. ReviewTypes' BY <1>1, <1>4 DEF ReviewIInv, ReviewTypes, Review!TypeOK
<1>6. ReviewsApart' BY <1>1, <1>2 DEF ReviewIInv, ReviewsApart, ReviewTypes
<1>7. ReviewTxOK(tx[r])'
  BY <1>1, <1>2 DEF ReviewIInv, ReviewTypes, ReviewTxOK, RowsOwned, BothWritten, Scored, Written, Review!Unpublished
<1>8. ASSUME NEW o \in Requests \ {r} PROVE ReviewTxOK(tx[o])'
  <2>1. tx'[o] = tx[o] /\ ReviewTxOK(tx[o]) BY <1>1 DEF ReviewIInv, ReviewTypes
  <2> QED BY <2>1, <1>1 DEF ReviewTxOK, RowsOwned, BothWritten, Scored, Written, PublishedAbout
<1>9. ListedAfterBoth' /\ Review!AnnouncedOnce' /\ Review!ReputationFromPublished'
  BY <1>1 DEF ReviewIInv, ListedAfterBoth, Review!BothOrClosed, Review!AnnouncedOnce,
     Review!ReputationFromPublished, Review!ListPublishedForUser, Review!GetReputation
<1> QED BY <1>5, <1>6, <1>7, <1>8, <1>9 DEF ReviewIInv

(* Only rows that are still hidden, and that nobody else publishes. *)
LEMMA PublishStep ==
  ASSUME ReviewIInv, NEW r \in Requests, Review!PublishUnpublished(r)
  PROVE  ReviewIInv'
<1> DEFINE fresh == tx[r].candidates \ published
           t == [tx[r] EXCEPT !.at = IF fresh = {} THEN "commit" ELSE "score",
                              !.publishing = fresh, !.todo = {Review!Reviewee(v) : v \in fresh}]
<1>1. Review!Step(r, t) /\ tx[r].at = "publish"
  BY DEF Review!PublishUnpublished
<1>2. \A o \in Requests \ {r} : tx[o].publishing \cap tx[r].candidates = {}
  BY DEF Review!PublishUnpublished, Review!Others
<1>3. tx[r] \in ReviewTxs /\ ReviewTxOK(tx[r]) BY DEF ReviewIInv, ReviewTypes
<1>4. /\ t.at = (IF fresh = {} THEN "commit" ELSE "score") /\ t.inserted = tx[r].inserted
      /\ t.candidates = tx[r].candidates /\ t.publishing = fresh
      /\ t.todo = {Review!Reviewee(v) : v \in fresh} /\ t.scores = tx[r].scores
  BY <1>3 DEF ReviewTxs
<1>5. fresh \subseteq Review!AllReviews BY <1>3 DEF ReviewTxs
<1>6. t \in ReviewTxs
  <2>1. {Review!Reviewee(v) : v \in fresh} \subseteq Review!Users BY <1>5, RevieweeIsUser
  <2> QED BY <2>1, <1>3, <1>5 DEF ReviewTxs
<1> HIDE DEF t
<1>7. RowsOwned(t) BY <1>3, <1>4 DEF ReviewTxOK, RowsOwned, Written
<1>8. BothWritten(t) BY <1>3, <1>4 DEF ReviewTxOK, BothWritten, Written
<1>9. Scored(t) BY <1>1, <1>3, <1>4 DEF ReviewTxOK, Scored
<1>10. ASSUME NEW o \in Requests \ {r}
       PROVE  t.inserted \cap tx[o].inserted = {} /\ t.publishing \cap tx[o].publishing = {}
  BY <1>2, <1>4 DEF ReviewIInv, ReviewsApart
<1> QED BY <1>1, <1>6, <1>7, <1>8, <1>9, <1>10, ReviewStep DEF ReviewTxOK

(* The aggregate of a reviewee has at least the review being published. *)
LEMMA RecomputeStep ==
  ASSUME ReviewIInv, NEW r \in Requests, NEW u \in Review!Users, Review!RecomputeReputation(r, u)
  PROVE  ReviewIInv'
<1> DEFINE t == [tx[r] EXCEPT !.at = "upsert", !.user = u, !.read = Review!Aggregate(r, u)]
<1>1. Review!Step(r, t) /\ tx[r].at = "score" /\ u \in tx[r].todo
  BY DEF Review!RecomputeReputation
<1>2. tx[r] \in ReviewTxs /\ ReviewTxOK(tx[r]) BY DEF ReviewIInv, ReviewTypes
<1>3. /\ t.at = "upsert" /\ t.inserted = tx[r].inserted /\ t.candidates = tx[r].candidates
      /\ t.publishing = tx[r].publishing /\ t.todo = tx[r].todo /\ t.user = u
      /\ t.read = PublishedAbout(tx[r], u) /\ t.scores = tx[r].scores
  BY <1>2 DEF ReviewTxs, Review!Aggregate, PublishedAbout
<1>4. PublishedAbout(tx[r], u) \subseteq Review!AllReviews
  BY <1>2 DEF ReviewTxs, PublishedAbout, ReviewIInv, ReviewTypes, Review!TypeOK
<1>5. t \in ReviewTxs BY <1>2, <1>4 DEF ReviewTxs, Review!Aggregate, PublishedAbout
<1> HIDE DEF t
<1>6. ReviewTxOK(t)
  <2>1. RowsOwned(t) /\ BothWritten(t) BY <1>2, <1>3 DEF ReviewTxOK, RowsOwned, BothWritten, Written
  <2>2. PublishedAbout(tx[r], u) # {} BY <1>1, <1>2 DEF ReviewTxOK, Scored, PublishedAbout
  <2>3. Scored(t) BY <2>2, <1>1, <1>2, <1>3 DEF ReviewTxOK, Scored, PublishedAbout
  <2> QED BY <2>1, <2>3 DEF ReviewTxOK
<1> QED BY <1>1, <1>3, <1>5, <1>6, ReviewStep DEF ReviewIInv, ReviewsApart

(* The second review publishes both and the averages are written. *)
LEMMA UpsertStep ==
  ASSUME ReviewIInv, NEW r \in Requests, Review!UpsertReputation(r)
  PROVE  ReviewIInv'
<1> DEFINE u == tx[r].user
           todo == tx[r].todo \ {u}
           scores == [w \in DOMAIN tx[r].scores \cup {u} |-> IF w = u THEN tx[r].read ELSE tx[r].scores[w]]
           t == [tx[r] EXCEPT !.at = IF todo = {} THEN "commit" ELSE "score", !.todo = todo,
                              !.user = None, !.read = {}, !.scores = scores]
<1>1. tx[r] \in ReviewTxs /\ ReviewTxOK(tx[r]) BY DEF ReviewIInv, ReviewTypes
<1>2. tx[r].at = "upsert" /\ Review!Step(r, t)
  BY <1>1 DEF Review!UpsertReputation, ReviewTxs
<1>3. u \in tx[r].todo /\ u \in Review!Users BY <1>1, <1>2 DEF ReviewTxOK, Scored, ReviewTxs
<1>4. scores \in UNION {[U -> SUBSET Review!AllReviews] : U \in SUBSET Review!Users}
  <2>1. PICK U \in SUBSET Review!Users : tx[r].scores \in [U -> SUBSET Review!AllReviews]
    BY <1>1 DEF ReviewTxs
  <2>2. U \cup {u} \in SUBSET Review!Users BY <1>3
  <2>3. scores \in [U \cup {u} -> SUBSET Review!AllReviews] BY <2>1, <1>1 DEF ReviewTxs
  <2> QED BY <2>2, <2>3
<1>5. t \in ReviewTxs BY <1>1, <1>4 DEF ReviewTxs
<1>6. /\ t.at = (IF todo = {} THEN "commit" ELSE "score") /\ t.inserted = tx[r].inserted
      /\ t.candidates = tx[r].candidates /\ t.publishing = tx[r].publishing
      /\ t.todo = todo /\ t.scores = scores
  BY <1>1 DEF ReviewTxs
<1> HIDE DEF t
<1>7. RowsOwned(t) /\ BothWritten(t) BY <1>1, <1>6 DEF ReviewTxOK, RowsOwned, BothWritten, Written
<1>8. Scored(t) BY <1>1, <1>2, <1>3, <1>6 DEF ReviewTxOK, Scored, PublishedAbout
<1> QED BY <1>2, <1>5, <1>6, <1>7, <1>8, ReviewStep DEF ReviewTxOK, ReviewIInv, ReviewsApart

(* A rolled back request leaves what was there before it. *)
LEMMA RollbackReviewStep ==
  ASSUME ReviewIInv, NEW r \in Requests, Review!Rollback(r)
  PROVE  ReviewIInv'
BY IdleReviewTx, ReviewStep DEF Review!Rollback, Review!Idle

(* What the others hold is neither inserted nor published by the commit. *)
LEMMA CommitReviewStep ==
  ASSUME ReviewIInv, NEW r \in Requests, Review!Commit(r)
  PROVE  ReviewIInv'
<1> DEFINE t == tx[r]
<1>1. t \in ReviewTxs /\ ReviewTxOK(t) /\ t.at = "commit" BY DEF ReviewIInv, ReviewTypes, Review!Commit
<1>2. /\ published' = published \cup t.publishing
      /\ hidden' = (hidden \cup t.inserted) \ t.publishing
      /\ reputation' = [u \in Review!Users |-> IF u \in DOMAIN t.scores THEN t.scores[u] ELSE reputation[u]]
      /\ announced' = [v \in Review!AllReviews |-> announced[v] + IF v \in t.publishing THEN 1 ELSE 0]
      /\ tx' = [tx EXCEPT ![r] = Review!Idle] /\ responses' = responses /\ closed' = closed
  BY DEF Review!Commit
<1>3. t.publishing \subseteq hidden \cup t.inserted /\ t.inserted \cap (hidden \cup published) = {}
  BY <1>1 DEF ReviewTxOK, RowsOwned
<1>4. /\ hidden \subseteq Review!AllReviews /\ published \subseteq Review!AllReviews
      /\ t.inserted \subseteq Review!AllReviews /\ t.publishing \subseteq Review!AllReviews
      /\ hidden \cap published = {} /\ responses \subseteq hidden \cup published
  BY <1>1 DEF ReviewIInv, ReviewTypes, Review!TypeOK, ReviewTxs
<1>5. hidden' \cup published' = Written(t) BY <1>2, <1>3 DEF Written
<1>6. ReviewTypes'
  <2>1. \A u \in DOMAIN t.scores : t.scores[u] \subseteq Review!AllReviews BY <1>1 DEF ReviewTxs
  <2>2. reputation' \in [Review!Users -> SUBSET Review!AllReviews]
    BY <2>1, <1>2 DEF ReviewIInv, ReviewTypes
  <2>3. announced' \in [Review!AllReviews -> Nat] BY <1>2 DEF ReviewIInv, ReviewTypes
  <2>4. tx' \in [Requests -> ReviewTxs] BY <1>2, IdleReviewTx DEF ReviewIInv, ReviewTypes
  <2>5. Review!TypeOK' BY <2>2, <1>2, <1>3, <1>4 DEF ReviewIInv, ReviewTypes, Review!TypeOK
  <2> QED BY <2>2, <2>3, <2>4, <2>5 DEF ReviewTypes
<1>7. ReviewsApart'
  BY <1>2 DEF ReviewIInv, ReviewsApart, ReviewTypes, Review!Idle
<1>8. ASSUME NEW o \in Requests PROVE ReviewTxOK(tx[o])'
  <2>1. CASE o = r
    <3>1. tx'[o] = Review!Idle BY <2>1, <1>2 DEF ReviewIInv, ReviewTypes
    <3> QED BY <3>1 DEF ReviewTxOK, RowsOwned, BothWritten, Scored, Review!Idle
  <2>2. CASE o # r
    <3>1. tx'[o] = tx[o] /\ ReviewTxOK(tx[o]) BY <2>2, <1>2 DEF ReviewIInv, ReviewTypes
    <3>2. tx[o].inserted \cap t.inserted = {} /\ tx[o].publishing \cap t.publishing = {}
      BY <2>2 DEF ReviewIInv, ReviewsApart
    <3>3. RowsOwned(tx[o])' BY <3>1, <3>2, <1>2, <1>3, <1>5 DEF ReviewTxOK, RowsOwned, Written
    <3>4. BothWritten(tx[o])' BY <3>1, <1>2, <1>5 DEF ReviewTxOK, BothWritten, Written
    <3>5. Scored(tx[o])' BY <3>1, <1>2 DEF ReviewTxOK, Scored, PublishedAbout
    <3> QED BY <3>3, <3>4, <3>5 DEF ReviewTxOK
  <2> QED BY <2>1, <2>2
<1>9. ListedAfterBoth'
  <2> SUFFICES ASSUME NEW v \in published' PROVE v[1] \in closed \/ <<v[1], Review!Reviewee(v)>> \in Written(t)
    BY <1>2, <1>5 DEF ListedAfterBoth, Review!BothOrClosed
  <2>1. CASE v \in published
    BY <2>1 DEF ReviewIInv, ListedAfterBoth, Review!BothOrClosed, Written
  <2>2. CASE v \in t.publishing BY <2>2, <1>1 DEF ReviewTxOK, RowsOwned, BothWritten
  <2> QED BY <2>1, <2>2, <1>2
<1>10. Review!AnnouncedOnce'
  BY <1>2, <1>3, <1>4 DEF ReviewIInv, Review!AnnouncedOnce
<1>11. Review!ReputationFromPublished'
  <2> SUFFICES ASSUME NEW u \in Review!Users
               PROVE  /\ reputation'[u] \subseteq PublishedAbout(t, u)
                      /\ PublishedAbout(t, u) # {} => reputation'[u] # {}
    BY <1>2 DEF Review!ReputationFromPublished, Review!GetReputation, Review!ListPublishedForUser, PublishedAbout
  <2>1. CASE u \in DOMAIN t.scores BY <2>1, <1>1, <1>2 DEF ReviewTxOK, Scored
  <2>2. CASE u \notin DOMAIN t.scores
    <3>1. \A v \in t.publishing : Review!Reviewee(v) # u BY <2>2, <1>1 DEF ReviewTxOK, Scored
    <3> QED BY <3>1, <2>2, <1>2 DEF ReviewIInv, Review!ReputationFromPublished, Review!GetReputation,
              Review!ListPublishedForUser, PublishedAbout
  <2> QED BY <2>1, <2>2
<1> QED BY <1>6, <1>7, <1>8, <1>9, <1>10, <1>11 DEF ReviewIInv

(* A response belongs to a stored review and changes nothing else. *)
LEMMA ResponseStep ==
  ASSUME ReviewIInv, NEW v \in Review!AllReviews, NEW u, Review!AddResponse(v, u)
  PROVE  ReviewIInv'
<1>1. /\ responses' = responses \cup {v} /\ v \in hidden \cup published
      /\ UNCHANGED <<hidden, published, reputation, announced, closed, tx>>
  BY DEF Review!AddResponse, Review!addResponse, Review!GetRevieweeID, Review!UpsertResponse
<1> QED BY <1>1 DEF ReviewIInv, ReviewTypes, Review!TypeOK, ReviewsApart, ReviewTxOK, RowsOwned, BothWritten,
     Scored, Written, PublishedAbout, ListedAfterBoth, Review!BothOrClosed, Review!AnnouncedOnce,
     Review!ReputationFromPublished, Review!ListPublishedForUser, Review!GetReputation

(* So the invariant of the review service always holds. *)
LEMMA ReviewInvariant == Review!Spec => []ReviewIInv
<1>1. Review!Init => ReviewIInv BY ReviewInit
<1>2. ReviewIInv /\ Review!Next => ReviewIInv'
  BY CreateReviewStep, WindowStep, PublishStep, RecomputeStep, UpsertStep, CommitReviewStep,
     RollbackReviewStep, ResponseStep DEF Review!Next
<1>3. ReviewIInv /\ UNCHANGED Review!vars => ReviewIInv'
  BY DEF Review!vars, ReviewIInv, ReviewTypes, Review!TypeOK, ReviewsApart, ReviewTxOK, RowsOwned, BothWritten,
     Scored, Written, PublishedAbout, ListedAfterBoth, Review!BothOrClosed, Review!AnnouncedOnce,
     Review!ReputationFromPublished, Review!ListPublishedForUser, Review!GetReputation
<1> QED BY <1>1, <1>2, <1>3, PTL DEF Review!Spec

(* The behaviours of the review service. *)
LEMMA ReviewPart == ServicesSpec => []~(part = "reviews") \/ ([](part = "reviews") /\ Review!Spec)
<1>1. ServicesInit /\ part = "reviews" => Review!Init BY DEF ServicesInit
<1>2. part = "reviews" /\ [ServicesNext]_allVars => (part = "reviews")' /\ [Review!Next]_(Review!vars)
  <2>1. part = "reviews" /\ ServicesNext => part' = "reviews" /\ Review!Next BY DEF ServicesNext
  <2>2. UNCHANGED allVars => UNCHANGED part /\ UNCHANGED Review!vars
    BY DEF allVars, reviewVars, sharedVars, Review!vars
  <2> QED BY <2>1, <2>2
<1>3. ~(part = "reviews") /\ [ServicesNext]_allVars => (~(part = "reviews"))' BY DEF ServicesNext, allVars
<1> QED BY <1>1, <1>2, <1>3, PTL DEF ServicesSpec, Review!Spec

(* A review of a contract is listed, announced or counted in a reputation only
   after both parties wrote theirs or the window closed, in every interleaving
   of the requests of the review service. *)
THEOREM ReviewsPublishedBlind == ServicesSpec => []PublishedAfterBoth
<1>1. ReviewIInv => Review!PublishedAfterBoth
  <2> SUFFICES ASSUME ReviewIInv, NEW v \in Review!AllReviews,
                      \/ v \in Review!ListPublishedForUser(Review!Reviewee(v))
                      \/ announced[v] > 0
                      \/ v \in Review!GetReputation(Review!Reviewee(v))
               PROVE  Review!BothOrClosed(v)
    BY DEF Review!PublishedAfterBoth
  <2>1. Review!GetReputation(Review!Reviewee(v)) \subseteq Review!ListPublishedForUser(Review!Reviewee(v))
    BY RevieweeIsUser DEF ReviewIInv, Review!ReputationFromPublished
  <2>2. announced[v] > 0 => v \in published BY DEF ReviewIInv, Review!AnnouncedOnce
  <2>3. v \in published BY <2>1, <2>2 DEF Review!ListPublishedForUser
  <2> QED BY <2>3 DEF ReviewIInv, ListedAfterBoth
<1> QED BY <1>1, ReviewInvariant, ReviewPart, PTL DEF PublishedAfterBoth

(* A review is announced once, when it is published; a reputation is built from
   published reviews only, and never loses all of them. *)
THEOREM ReviewsAnnounced == ServicesSpec => []AnnouncedOnce
BY ReviewInvariant, ReviewPart, PTL DEF AnnouncedOnce, ReviewIInv

-----------------------------------------------------------------------------
(* Fraud cases *)

FraudSignals == [stamp : Nat, subject : Subjects, weight : 0 .. 100]
SummedTxs ==
  [at : {"summed", "upserted"}, subject : Subjects, signal : FraudSignals, score : Nat]
CheckedTxs ==
  [at : {"checked"}, subject : Subjects, signal : FraudSignals, score : Nat, open : BOOLEAN]

FraudEvents == {"fraud.case_opened", "screenshot.flagged", "fraud.case_resolved"}
CaseStatuses == {"open", "confirmed", "dismissed"}

FraudTypes ==
  /\ signals \subseteq FraudSignals /\ IsFiniteSet(signals)
  /\ risk \in [Subjects -> Nat \cup {None}]
  /\ cases \in [Subjects -> Seq(CaseStatuses)] /\ outbox \in [Subjects -> Seq(FraudEvents)]
  /\ clock \in Nat
  /\ tx \in [Requests -> {Fraud!Idle} \cup SummedTxs \cup CheckedTxs]

SignalsAbout(seen, s) == {g \in seen : g.subject = s}
NoOpenCase(s) == \A i \in DOMAIN cases[s] : ~Fraud!IsOpen(cases[s][i])

(* The score of an ingest in flight is explained by the signals it saw. *)
ScoreExplained(t) ==
  /\ t.signal.subject = t.subject
  /\ t.score >= Fraud!caseThreshold =>
       Fraud!Total(SignalsAbout(signals \cup {t.signal}, t.subject)) >= Fraud!caseThreshold

(* What a check found still holds: the score's row is locked. *)
CheckStands(t) ==
  /\ t.open => NoOpenCase(t.subject)
  /\ t.score >= Fraud!caseThreshold /\ ~t.open => cases[t.subject] # <<>>

FraudTxOK(t) ==
  /\ t.at # "idle" => ScoreExplained(t)
  /\ t.at = "checked" => CheckStands(t)

Holds(t, s) == t.at \in {"upserted", "checked"} /\ t.subject = s

ScoresLocked ==
  \A r, o \in Requests, s \in Subjects : Holds(tx[r], s) /\ Holds(tx[o], s) => r = o

CasesOK(s) ==
  /\ \A i, j \in DOMAIN cases[s] : Fraud!IsOpen(cases[s][i]) /\ Fraud!IsOpen(cases[s][j]) => i = j
  /\ CountOf(outbox[s], "fraud.case_opened") = Len(cases[s])
  /\ CountOf(outbox[s], "screenshot.flagged") = IF s \in Screenshots THEN Len(cases[s]) ELSE 0
  /\ risk[s] # None /\ risk[s] >= Fraud!caseThreshold =>
       cases[s] # <<>> /\ Fraud!Total(SignalsAbout(signals, s)) >= Fraud!caseThreshold

FraudIInv ==
  /\ FraudTypes /\ ScoresLocked
  /\ \A r \in Requests : FraudTxOK(tx[r])
  /\ \A s \in Subjects : CasesOK(s)

(* The instance counts with the same operator. *)
LEMMA FraudCardinality ==
  ASSUME NEW S PROVE Fraud!Cardinality(S) = Cardinality(S)
BY DEF Fraud!Cardinality, Cardinality, Fraud!IsFiniteSet, IsFiniteSet

(* And so it counts log entries. *)
LEMMA FraudCountOf ==
  ASSUME NEW log, NEW e PROVE Fraud!CountOf(log, e) = CountOf(log, e)
BY FraudCardinality DEF Fraud!CountOf, CountOf

(* The weights are summed as cents are. *)
LEMMA TotalIsSum ==
  ASSUME NEW S PROVE Fraud!Total(S) = SumCents(S, [g \in S |-> g.weight])
BY FraudCardinality DEF Fraud!Total, Fraud!SumCents, SumCents, Fraud!CentsOf, CentsOf

(* Totals are naturals, and more signals never weigh less. *)
LEMMA TotalGrows ==
  ASSUME NEW T \in SUBSET FraudSignals, IsFiniteSet(T), NEW S \in SUBSET T
  PROVE  Fraud!Total(S) \in Nat /\ Fraud!Total(T) \in Nat /\ Fraud!Total(S) <= Fraud!Total(T)
<1> DEFINE f == [g \in T |-> g.weight]
           h == [g \in S |-> g.weight]
<1>1. \A g \in T : f[g] \in Nat BY DEF FraudSignals
<1>2. \A g \in S : h[g] \in Nat /\ h[g] = f[g] BY DEF FraudSignals
<1>3. IsFiniteSet(S) BY FS_Subset
<1> HIDE DEF f, h
<1>4. SumCents(S, h) = SumCents(S, f) BY <1>2, SumSame
<1>5. SumCents(S, f) <= SumCents(T, f) BY <1>1, SumSubset
<1>6. SumCents(T, f) \in Nat /\ SumCents(S, h) \in Nat BY <1>1, <1>2, <1>3, SumType
<1> QED BY <1>4, <1>5, <1>6, TotalIsSum DEF f, h

(* A score over the threshold means that all signals together are. *)
LEMMA RecentSum ==
  ASSUME NEW seen \in SUBSET FraudSignals, IsFiniteSet(seen), NEW s \in Subjects
  PROVE  /\ Fraud!RecentSignalSum(seen, s) \in Nat
         /\ Fraud!RecentSignalSum(seen, s) >= Fraud!caseThreshold =>
              Fraud!Total(SignalsAbout(seen, s)) >= Fraud!caseThreshold
<1>1. /\ SignalsAbout(seen, s) \in SUBSET FraudSignals
      /\ Fraud!Recent(seen, s) \in SUBSET SignalsAbout(seen, s)
  BY DEF SignalsAbout, Fraud!Recent
<1>2. IsFiniteSet(SignalsAbout(seen, s)) BY FS_Subset DEF SignalsAbout
<1>3. /\ Fraud!Total(Fraud!Recent(seen, s)) \in Nat /\ Fraud!Total(SignalsAbout(seen, s)) \in Nat
      /\ Fraud!Total(Fraud!Recent(seen, s)) <= Fraud!Total(SignalsAbout(seen, s))
  BY <1>1, <1>2, TotalGrows
<1> QED BY <1>3 DEF Fraud!RecentSignalSum, Fraud!caseThreshold

(* The invariant of the fraud service holds at first. *)
LEMMA FraudInit == Fraud!Init => FraudIInv
<1> SUFFICES ASSUME Fraud!Init PROVE FraudIInv OBVIOUS
<1>1. FraudTypes BY FS_EmptySet DEF Fraud!Init, FraudTypes
<1>2. \A s \in Subjects : CasesOK(s) BY CountOfNone DEF Fraud!Init, CasesOK
<1> QED BY <1>1, <1>2 DEF Fraud!Init, FraudIInv, ScoresLocked, Holds, FraudTxOK, Fraud!Idle

(* Facts about one transaction survive a step that only adds signals and
   leaves its subject's cases alone. *)
LEMMA FraudTxKept ==
  ASSUME FraudTypes, NEW o \in Requests, tx[o] \in SummedTxs \cup CheckedTxs, FraudTxOK(tx[o]), tx'[o] = tx[o],
         NEW new \in SUBSET FraudSignals, IsFiniteSet(new), signals' = signals \cup new,
         tx[o].at = "checked" => cases'[tx[o].subject] = cases[tx[o].subject]
  PROVE  FraudTxOK(tx[o])'
<1> DEFINE S == SignalsAbout(signals \cup {tx[o].signal}, tx[o].subject)
           T == SignalsAbout(signals \cup new \cup {tx[o].signal}, tx[o].subject)
<1>1. tx[o].signal \in FraudSignals BY DEF SummedTxs, CheckedTxs
<1>2. T \subseteq FraudSignals /\ S \subseteq T BY <1>1 DEF SignalsAbout, FraudTypes
<1>3. IsFiniteSet(T)
  <2>1. IsFiniteSet(signals \cup new) BY FS_Union DEF FraudTypes
  <2>2. IsFiniteSet(signals \cup new \cup {tx[o].signal}) BY <2>1, FS_AddElement
  <2> QED BY <2>2, FS_Subset DEF SignalsAbout
<1>4. Fraud!Total(S) \in Nat /\ Fraud!Total(T) \in Nat /\ Fraud!Total(S) <= Fraud!Total(T)
  BY <1>2, <1>3, TotalGrows
<1> HIDE DEF S, T
<1>5. tx[o].at # "idle" => ScoreExplained(tx[o])' BY <1>4 DEF FraudTxOK, ScoreExplained, S, T, Fraud!caseThreshold
<1>6. tx[o].at = "checked" => CheckStands(tx[o])' BY DEF FraudTxOK, CheckStands, NoOpenCase
<1> QED BY <1>5, <1>6 DEF FraudTxOK

(* A step of r that changes no table. *)
LEMMA FraudStep ==
  ASSUME FraudIInv, NEW r \in Requests, NEW t \in {Fraud!Idle} \cup SummedTxs \cup CheckedTxs,
         tx' = [tx EXCEPT ![r] = t], UNCHANGED <<signals, risk, cases, outbox>>, clock' \in Nat,
         FraudTxOK(t), \A s \in Subjects : Holds(t, s) => \A o \in Requests \ {r} : ~Holds(tx[o], s)
  PROVE  FraudIInv'
<1>1. FraudTypes' BY DEF FraudIInv, FraudTypes
<1>2. ScoresLocked' BY DEF FraudIInv, FraudTypes, ScoresLocked, Holds
<1>3. \A o \in Requests : FraudTxOK(tx[o])'
  BY DEF FraudIInv, FraudTypes, FraudTxOK, ScoreExplained, CheckStands, NoOpenCase
<1>4. \A s \in Subjects : CasesOK(s)' BY DEF FraudIInv, CasesOK
<1> QED BY <1>1, <1>2, <1>3, <1>4 DEF FraudIInv

(* A signal is inserted, and its subject is locked. *)
LEMMA IngestStep ==
  ASSUME FraudIInv, NEW r \in Requests, NEW u, NEW s \in Subjects, NEW weight,
         Fraud!IngestSignal(r, u, s, weight)
  PROVE  FraudIInv'
<1> DEFINE g == Fraud!InsertSignal(s, weight)
           t == [at |-> "summed", subject |-> s, signal |-> g,
                 score |-> Fraud!RecentSignalSum(signals \cup {g}, s)]
<1>1. /\ tx' = [tx EXCEPT ![r] = t] /\ clock' = clock + 1 /\ weight \in 0 .. 100
      /\ UNCHANGED <<signals, risk, cases, outbox>>
  BY DEF Fraud!IngestSignal, Fraud!ingestSignal
<1>2. g \in FraudSignals /\ g.subject = s
  BY <1>1 DEF Fraud!InsertSignal, FraudSignals, FraudIInv, FraudTypes
<1> HIDE DEF g
<1>3. signals \cup {g} \in SUBSET FraudSignals /\ IsFiniteSet(signals \cup {g})
  BY <1>2, FS_AddElement DEF FraudIInv, FraudTypes
<1>4. t \in SummedTxs /\ FraudTxOK(t)
  BY <1>2, <1>3, RecentSum DEF SummedTxs, FraudTxOK, ScoreExplained
<1>5. \A x : ~Holds(t, x) BY DEF Holds
<1>6. clock' \in Nat BY <1>1 DEF FraudIInv, FraudTypes
<1> HIDE DEF t
<1> QED BY <1>1, <1>4, <1>5, <1>6, FraudStep

(* The risk score is written under the lock. *)
LEMMA UpsertRiskStep ==
  ASSUME FraudIInv, NEW r \in Requests, Fraud!UpsertRiskScore(r)
  PROVE  FraudIInv'
<1> DEFINE t == [tx[r] EXCEPT !.at = "upserted"]
<1>1. /\ tx' = [tx EXCEPT ![r] = t] /\ tx[r].at = "summed"
      /\ \A o \in Requests : tx[o].subject = tx[r].subject => tx[o].at \notin {"upserted", "checked"}
      /\ UNCHANGED <<signals, risk, cases, outbox, clock>>
  BY DEF Fraud!UpsertRiskScore, Fraud!tables
<1>2. tx[r] \in SummedTxs /\ FraudTxOK(tx[r])
  BY <1>1 DEF FraudIInv, FraudTypes, CheckedTxs, Fraud!Idle
<1>3. /\ t \in SummedTxs /\ t.at = "upserted" /\ t.subject = tx[r].subject
      /\ t.signal = tx[r].signal /\ t.score = tx[r].score
  BY <1>2 DEF SummedTxs
<1> HIDE DEF t
<1>4. FraudTxOK(t) BY <1>1, <1>2, <1>3 DEF FraudTxOK, ScoreExplained
<1> QED BY <1>1, <1>3, <1>4, FraudStep DEF FraudIInv, FraudTypes, Holds

(* The open case is looked for under the lock. *)
LEMMA CheckCaseStep ==
  ASSUME FraudIInv, NEW r \in Requests, Fraud!HasOpenCase(r)
  PROVE  FraudIInv'
<1> DEFINE t == [at |-> "checked", subject |-> tx[r].subject, signal |-> tx[r].signal, score |-> tx[r].score,
                 open |-> tx[r].score >= Fraud!caseThreshold
                            /\ \A i \in DOMAIN cases[tx[r].subject] : ~Fraud!IsOpen(cases[tx[r].subject][i])]
<1>1. /\ tx' = [tx EXCEPT ![r] = t] /\ tx[r].at = "upserted"
      /\ UNCHANGED <<signals, risk, cases, outbox, clock>>
  BY DEF Fraud!HasOpenCase, Fraud!tables
<1>2. tx[r] \in SummedTxs /\ FraudTxOK(tx[r])
  BY <1>1 DEF FraudIInv, FraudTypes, CheckedTxs, Fraud!Idle
<1>3. t \in CheckedTxs /\ tx[r].subject \in Subjects BY <1>2 DEF SummedTxs, CheckedTxs
<1>4. cases[tx[r].subject] \in Seq(CaseStatuses) BY <1>3 DEF FraudIInv, FraudTypes
<1>5. FraudTxOK(t)
  <2>1. ScoreExplained(t) BY <1>1, <1>2 DEF FraudTxOK, ScoreExplained
  <2>2. tx[r].score >= Fraud!caseThreshold /\ ~NoOpenCase(tx[r].subject) => cases[tx[r].subject] # <<>>
    BY <1>4 DEF NoOpenCase
  <2>3. CheckStands(t) BY <2>2 DEF CheckStands, NoOpenCase
  <2> QED BY <2>1, <2>3 DEF FraudTxOK
<1>6. ASSUME NEW s \in Subjects, Holds(t, s), NEW o \in Requests \ {r} PROVE ~Holds(tx[o], s)
  <2>1. Holds(tx[r], s) BY <1>1, <1>6 DEF Holds
  <2> QED BY <2>1 DEF FraudIInv, ScoresLocked
<1> HIDE DEF t
<1> QED BY <1>1, <1>3, <1>5, <1>6, FraudStep DEF FraudIInv, FraudTypes

(* A rolled back signal leaves no trace. *)
LEMMA RollbackFraudStep ==
  ASSUME FraudIInv, NEW r \in Requests, Fraud!Rollback(r)
  PROVE  FraudIInv'
<1>1. tx' = [tx EXCEPT ![r] = Fraud!Idle] /\ UNCHANGED <<signals, risk, cases, outbox, clock>>
  BY DEF Fraud!Rollback, Fraud!tables
<1>2. FraudTxOK(Fraud!Idle) /\ \A s : ~Holds(Fraud!Idle, s) BY DEF FraudTxOK, Holds, Fraud!Idle
<1> QED BY <1>1, <1>2, FraudStep DEF FraudIInv, FraudTypes

(* The events of a new case. *)
LEMMA CaseOpened ==
  ASSUME FraudTypes, NEW s \in Subjects, outbox' = Fraud!openCaseTx(s)
  PROVE  /\ outbox' \in [Subjects -> Seq(FraudEvents)]
         /\ \A x \in Subjects \ {s} : outbox'[x] = outbox[x]
         /\ CountOf(outbox[s], "fraud.case_opened") \in Nat /\ CountOf(outbox[s], "screenshot.flagged") \in Nat
         /\ CountOf(outbox'[s], "fraud.case_opened") = CountOf(outbox[s], "fraud.case_opened") + 1
         /\ CountOf(outbox'[s], "screenshot.flagged")
              = CountOf(outbox[s], "screenshot.flagged") + IF s \in Screenshots THEN 1 ELSE 0
<1> DEFINE q == Append(outbox[s], "fraud.case_opened")
           p == Append(q, "screenshot.flagged")
<1>1. outbox[s] \in Seq(FraudEvents) /\ q \in Seq(FraudEvents) /\ p \in Seq(FraudEvents)
  BY DEF FraudTypes, FraudEvents
<1>2. /\ outbox[s] \o <<"fraud.case_opened">> \o <<"screenshot.flagged">> = p
      /\ outbox[s] \o <<"fraud.case_opened">> \o <<>> = q
  BY <1>1
<1>3. outbox'[s] = IF s \in Screenshots THEN p ELSE q
  BY <1>2 DEF Fraud!openCaseTx, FraudTypes
<1>4. \A x \in Subjects \ {s} : outbox'[x] = outbox[x] BY DEF Fraud!openCaseTx, FraudTypes
<1>5. outbox' \in [Subjects -> Seq(FraudEvents)]
  BY <1>1, <1>3, <1>4 DEF Fraud!openCaseTx, FraudTypes
<1>6. /\ CountOf(outbox[s], "fraud.case_opened") \in Nat
      /\ CountOf(q, "fraud.case_opened") = CountOf(outbox[s], "fraud.case_opened") + 1
  BY <1>1, CountAppend
<1>7. /\ CountOf(outbox[s], "screenshot.flagged") \in Nat
      /\ CountOf(q, "screenshot.flagged") = CountOf(outbox[s], "screenshot.flagged") + 0
  <2>1. "fraud.case_opened" # "screenshot.flagged" OBVIOUS
  <2> QED BY <1>1, <2>1, CountAppend
<1>8. "fraud.case_opened" \in FraudEvents /\ "screenshot.flagged" \in FraudEvents BY DEF FraudEvents
<1> HIDE DEF q
<1>9. CountOf(p, "fraud.case_opened") = CountOf(q, "fraud.case_opened") + 0
  <2>1. "fraud.case_opened" # "screenshot.flagged" OBVIOUS
  <2> QED BY <1>1, <1>8, <2>1, CountAppend
<1>10. CountOf(p, "screenshot.flagged") = CountOf(q, "screenshot.flagged") + 1
  BY <1>1, <1>8, CountAppend
<1> HIDE DEF p
<1> QED BY <1>3, <1>4, <1>5, <1>6, <1>7, <1>9, <1>10

(* A commit makes the signal, the score and the case visible together. *)
LEMMA CommitFraudStep ==
  ASSUME FraudIInv, NEW r \in Requests, Fraud!Commit(r)
  PROVE  FraudIInv'
<1>0. tx[r].at = "checked" BY DEF Fraud!Commit
<1>1. PICK t \in CheckedTxs : t = tx[r]
  BY <1>0 DEF FraudIInv, FraudTypes, SummedTxs, Fraud!Idle
<1>2. PICK s \in Subjects : s = t.subject BY DEF CheckedTxs
<1>3. /\ signals' = signals \cup {t.signal} /\ risk' = [risk EXCEPT ![s] = t.score]
      /\ cases' = IF t.open THEN [cases EXCEPT ![s] = Append(@, "open")] ELSE cases
      /\ outbox' = IF t.open THEN Fraud!openCaseTx(s) ELSE outbox
      /\ tx' = [tx EXCEPT ![r] = Fraud!Idle] /\ clock' = clock
  BY <1>1, <1>2 DEF Fraud!Commit, Fraud!InsertCase
<1>4. /\ t.signal \in FraudSignals /\ t.score \in Nat /\ t.open \in BOOLEAN
      /\ ScoreExplained(t) /\ CheckStands(t)
  BY <1>0, <1>1 DEF CheckedTxs, FraudIInv, FraudTxOK
<1>5. FraudTypes /\ cases[s] \in Seq(CaseStatuses) /\ CasesOK(s) /\ Append(cases[s], "open") \in Seq(CaseStatuses)
  BY DEF FraudIInv, FraudTypes, CaseStatuses
<1>6. FraudTypes'
  <2>1. signals' \subseteq FraudSignals /\ IsFiniteSet(signals')
    BY <1>3, <1>4, <1>5, FS_AddElement DEF FraudTypes
  <2>2. outbox' \in [Subjects -> Seq(FraudEvents)] BY <1>3, <1>4, <1>5, CaseOpened DEF FraudTypes
  <2>3. cases' \in [Subjects -> Seq(CaseStatuses)] BY <1>3, <1>4, <1>5 DEF FraudTypes
  <2>4. risk' \in [Subjects -> Nat \cup {None}] BY <1>3, <1>4, <1>5 DEF FraudTypes
  <2>5. tx' \in [Requests -> {Fraud!Idle} \cup SummedTxs \cup CheckedTxs] BY <1>3, <1>5 DEF FraudTypes
  <2> QED BY <2>1, <2>2, <2>3, <2>4, <2>5, <1>3, <1>5 DEF FraudTypes
<1>7. ScoresLocked' BY <1>3 DEF FraudIInv, FraudTypes, ScoresLocked, Holds, Fraud!Idle
<1>8. ASSUME NEW o \in Requests PROVE FraudTxOK(tx[o])'
  <2>1. CASE tx'[o] = Fraud!Idle BY <2>1 DEF FraudTxOK, Fraud!Idle
  <2>2. CASE o # r /\ tx[o] # Fraud!Idle
    <3>1. tx'[o] = tx[o] /\ tx[o] \in SummedTxs \cup CheckedTxs /\ FraudTxOK(tx[o])
      BY <2>2, <1>3 DEF FraudIInv, FraudTypes
    <3>2. ASSUME tx[o].at = "checked" PROVE cases'[tx[o].subject] = cases[tx[o].subject]
      <4>1. tx[o].subject \in Subjects BY <3>1 DEF SummedTxs, CheckedTxs
      <4>2. tx[o].subject # s
        BY <2>2, <3>2, <4>1, <1>0, <1>1, <1>2 DEF FraudIInv, ScoresLocked, Holds
      <4> QED BY <4>1, <4>2, <1>3, <1>5 DEF FraudTypes
    <3>3. IsFiniteSet({t.signal}) BY FS_Singleton
    <3> QED BY <3>1, <3>2, <3>3, <1>3, <1>4, <1>5, FraudTxKept
  <2> QED BY <2>1, <2>2, <1>3, <1>5 DEF FraudTypes
<1>9. ASSUME NEW x \in Subjects, x # s PROVE CasesOK(x)'
  <2>1. cases'[x] = cases[x] /\ outbox'[x] = outbox[x] /\ risk'[x] = risk[x]
    BY <1>3, <1>4, <1>5, <1>9, CaseOpened DEF FraudTypes
  <2>2. t.signal.subject # x BY <1>2, <1>4, <1>9 DEF ScoreExplained
  <2>3. SignalsAbout(signals', x) = SignalsAbout(signals, x) BY <2>2, <1>3 DEF SignalsAbout
  <2>4. CasesOK(x) BY DEF FraudIInv
  <2> QED BY <2>1, <2>3, <2>4 DEF CasesOK
<1>10. CasesOK(s)'
  <2>1. \A i, j \in DOMAIN cases'[s] : Fraud!IsOpen(cases'[s][i]) /\ Fraud!IsOpen(cases'[s][j]) => i = j
    <3>1. CASE t.open
      <4>1. cases'[s] = Append(cases[s], "open") BY <3>1, <1>3, <1>4, <1>5 DEF FraudTypes
      <4>2. \A i \in DOMAIN cases[s] : ~Fraud!IsOpen(cases[s][i]) BY <1>2, <3>1, <1>4 DEF CheckStands, NoOpenCase
      <4> QED BY <4>1, <4>2, <1>5
    <3>2. CASE ~t.open BY <3>2, <1>3, <1>5 DEF CasesOK
    <3> QED BY <3>1, <3>2
  <2>2. /\ CountOf(outbox'[s], "fraud.case_opened") = Len(cases'[s])
        /\ CountOf(outbox'[s], "screenshot.flagged") = IF s \in Screenshots THEN Len(cases'[s]) ELSE 0
    <3>1. CASE t.open
      <4>1. cases'[s] = Append(cases[s], "open") BY <3>1, <1>3, <1>4, <1>5 DEF FraudTypes
      <4>2. Len(cases'[s]) = Len(cases[s]) + 1 BY <4>1, <1>5
      <4> QED BY <4>2, <3>1, <1>3, <1>4, <1>5, CaseOpened DEF CasesOK
    <3>2. CASE ~t.open BY <3>2, <1>3, <1>5 DEF CasesOK
    <3> QED BY <3>1, <3>2
  <2>3. risk'[s] = t.score BY <1>3, <1>4, <1>5 DEF FraudTypes
  <2>4. ASSUME t.score >= Fraud!caseThreshold
        PROVE cases'[s] # <<>> /\ Fraud!Total(SignalsAbout(signals', s)) >= Fraud!caseThreshold
    <3>1. Fraud!Total(SignalsAbout(signals', s)) >= Fraud!caseThreshold
      BY <1>2, <2>4, <1>3, <1>4 DEF ScoreExplained
    <3>2. cases'[s] # <<>>
      <4>1. CASE t.open
        <5>1. cases'[s] = Append(cases[s], "open") BY <4>1, <1>3, <1>4, <1>5 DEF FraudTypes
        <5> QED BY <5>1, <1>5
      <4>2. CASE ~t.open BY <1>2, <2>4, <4>2, <1>3, <1>4 DEF CheckStands
      <4> QED BY <4>1, <4>2
    <3> QED BY <3>1, <3>2
  <2> QED BY <2>1, <2>2, <2>3, <2>4 DEF CasesOK
<1> QED BY <1>6, <1>7, <1>8, <1>9, <1>10 DEF FraudIInv

(* A resolution closes a case, whatever its status, and opens none. *)
LEMMA ResolveStep ==
  ASSUME FraudIInv, NEW u, NEW s \in Subjects, NEW i, NEW verdict, Fraud!ResolveCase(u, s, i, verdict)
  PROVE  FraudIInv'
<1>1. /\ verdict \in {"confirmed", "dismissed"} /\ i \in DOMAIN cases[s]
      /\ cases' = [cases EXCEPT ![s] = [@ EXCEPT ![i] = verdict]]
      /\ outbox' = [outbox EXCEPT ![s] = Append(@, "fraud.case_resolved")]
      /\ UNCHANGED <<signals, risk, clock, tx>>
  BY DEF Fraud!ResolveCase, Fraud!UpdateCase
<1>2. FraudTypes /\ cases[s] \in Seq(CaseStatuses) /\ outbox[s] \in Seq(FraudEvents) BY DEF FraudIInv, FraudTypes
<1>3. /\ cases'[s] = [cases[s] EXCEPT ![i] = verdict]
      /\ outbox'[s] = Append(outbox[s], "fraud.case_resolved")
      /\ \A x \in Subjects \ {s} : cases'[x] = cases[x] /\ outbox'[x] = outbox[x]
  BY <1>1, <1>2 DEF FraudTypes
<1>4. /\ DOMAIN cases'[s] = DOMAIN cases[s] /\ Len(cases'[s]) = Len(cases[s]) /\ cases'[s] \in Seq(CaseStatuses)
      /\ \A j \in DOMAIN cases[s] : Fraud!IsOpen(cases'[s][j]) => Fraud!IsOpen(cases[s][j])
  <2>1. cases[s] \in [1..Len(cases[s]) -> CaseStatuses] /\ Len(cases[s]) \in Nat BY <1>2
  <2>2. verdict \in CaseStatuses /\ ~Fraud!IsOpen(verdict) BY <1>1 DEF CaseStatuses, Fraud!IsOpen
  <2>3. cases'[s] \in [1..Len(cases[s]) -> CaseStatuses] BY <1>3, <2>1, <2>2
  <2>4. cases'[s] \in Seq(CaseStatuses) /\ Len(cases'[s]) = Len(cases[s]) BY <2>1, <2>3
  <2>5. \A j \in DOMAIN cases[s] : cases'[s][j] = verdict \/ cases'[s][j] = cases[s][j] BY <1>3
  <2> QED BY <2>1, <2>2, <2>3, <2>4, <2>5
<1>5. FraudTypes'
  <2>1. cases' \in [Subjects -> Seq(CaseStatuses)] BY <1>1, <1>2, <1>3, <1>4 DEF FraudTypes
  <2>2. outbox' \in [Subjects -> Seq(FraudEvents)] BY <1>1, <1>2 DEF FraudTypes, FraudEvents
  <2> QED BY <2>1, <2>2, <1>1, <1>2 DEF FraudTypes
<1>6. ASSUME NEW r \in Requests PROVE FraudTxOK(tx[r])'
  <2>1. FraudTxOK(tx[r]) /\ tx'[r] = tx[r] BY <1>1 DEF FraudIInv
  <2>2. tx[r].at # "idle" => ScoreExplained(tx[r])' BY <2>1, <1>1 DEF FraudTxOK, ScoreExplained
  <2>3. ASSUME tx[r].at = "checked" PROVE CheckStands(tx[r])'
    <3>1. CheckStands(tx[r]) /\ tx[r].subject \in Subjects
      BY <2>1, <2>3, <1>2 DEF FraudTxOK, FraudTypes, SummedTxs, CheckedTxs, Fraud!Idle
    <3>2. cases[tx[r].subject] # <<>> => cases'[tx[r].subject] # <<>>
      BY <3>1, <1>1, <1>2, <1>3, <1>4
    <3> QED BY <3>1, <3>2, <1>1, <1>3, <1>4 DEF CheckStands, NoOpenCase
  <2> QED BY <2>1, <2>2, <2>3, <1>1 DEF FraudTxOK
<1>7. CasesOK(s)'
  <2>1. CasesOK(s) BY DEF FraudIInv
  <2>2. /\ CountOf(outbox'[s], "fraud.case_opened") = CountOf(outbox[s], "fraud.case_opened")
        /\ CountOf(outbox'[s], "screenshot.flagged") = CountOf(outbox[s], "screenshot.flagged")
    <3>1. "fraud.case_resolved" # "fraud.case_opened" /\ "fraud.case_resolved" # "screenshot.flagged" OBVIOUS
    <3>2. "fraud.case_resolved" \in FraudEvents BY DEF FraudEvents
    <3>3. /\ CountOf(outbox[s], "fraud.case_opened") \in Nat /\ CountOf(outbox[s], "screenshot.flagged") \in Nat
          /\ CountOf(outbox'[s], "fraud.case_opened") = CountOf(outbox[s], "fraud.case_opened") + 0
          /\ CountOf(outbox'[s], "screenshot.flagged") = CountOf(outbox[s], "screenshot.flagged") + 0
      BY <3>1, <3>2, <1>2, <1>3, CountAppend
    <3> QED BY <3>3
  <2>3. cases[s] # <<>> => cases'[s] # <<>> BY <1>1, <1>2, <1>4
  <2> QED BY <2>1, <2>2, <2>3, <1>1, <1>4 DEF CasesOK
<1>8. ASSUME NEW x \in Subjects, x # s PROVE CasesOK(x)'
  <2>1. CasesOK(x) BY DEF FraudIInv
  <2> QED BY <2>1, <1>1, <1>3, <1>8 DEF CasesOK
<1>9. ScoresLocked' BY <1>1 DEF FraudIInv, ScoresLocked
<1> QED BY <1>5, <1>6, <1>7, <1>8, <1>9 DEF FraudIInv

(* So the invariant of the fraud service always holds. *)
LEMMA FraudInvariant == Fraud!Spec => []FraudIInv
<1>1. Fraud!Init => FraudIInv BY FraudInit
<1>2. FraudIInv /\ Fraud!Next => FraudIInv'
  BY IngestStep, UpsertRiskStep, CheckCaseStep, CommitFraudStep, RollbackFraudStep, ResolveStep DEF Fraud!Next
<1>3. FraudIInv /\ UNCHANGED Fraud!vars => FraudIInv'
  BY DEF Fraud!vars, FraudIInv, FraudTypes, ScoresLocked, FraudTxOK, ScoreExplained, CheckStands, NoOpenCase, CasesOK
<1> QED BY <1>1, <1>2, <1>3, PTL DEF Fraud!Spec

(* An administrator is shown at most one open case of a subject. *)
LEMMA OneCaseListed ==
  ASSUME FraudIInv, NEW s \in Subjects, NEW u
  PROVE  Fraud!Cardinality({c \in Fraud!ListOpenCases(u) : c[1] = s}) <= 1
<1> DEFINE C == {c \in Fraud!ListOpenCases(u) : c[1] = s}
<1> SUFFICES Cardinality(C) <= 1 BY FraudCardinality
<1>1. \A c, d \in C : c = d
  BY DEF Fraud!ListOpenCases, FraudIInv, CasesOK
<1> HIDE DEF C
<1>2. CASE C = {} BY <1>2, FS_EmptySet
<1>3. CASE C # {}
  <2>1. PICK c \in C : C = {c} BY <1>1, <1>3
  <2> QED BY <2>1, FS_Singleton
<1> QED BY <1>2, <1>3

(* The behaviours of the fraud service. *)
LEMMA FraudPart == ServicesSpec => []~(part = "fraud") \/ ([](part = "fraud") /\ Fraud!Spec)
<1>1. ServicesInit /\ part = "fraud" => Fraud!Init BY DEF ServicesInit
<1>2. part = "fraud" /\ [ServicesNext]_allVars => (part = "fraud")' /\ [Fraud!Next]_(Fraud!vars)
  <2>1. part = "fraud" /\ ServicesNext => part' = "fraud" /\ Fraud!Next BY DEF ServicesNext
  <2>2. UNCHANGED allVars => UNCHANGED part /\ UNCHANGED Fraud!vars
    BY DEF allVars, fraudVars, sharedVars, Fraud!vars
  <2> QED BY <2>1, <2>2
<1>3. ~(part = "fraud") /\ [ServicesNext]_allVars => (~(part = "fraud"))' BY DEF ServicesNext, allVars
<1> QED BY <1>1, <1>2, <1>3, PTL DEF ServicesSpec, Fraud!Spec

(* The list an analyst reads has at most one open case of a subject, however
   many signals arrive at the same time; every case was announced, and a
   critical score has had a case and the signals that explain it. *)
THEOREM FraudOneOpenCase == ServicesSpec => []OneOpenCase
<1>1. FraudIInv => Fraud!OneOpenCase
  <2> SUFFICES ASSUME FraudIInv, NEW s \in Subjects
               PROVE  /\ Fraud!CountOf(outbox[s], "fraud.case_opened") = Len(cases[s])
                      /\ Fraud!CountOf(outbox[s], "screenshot.flagged") = IF s \in Screenshots THEN Len(cases[s]) ELSE 0
                      /\ Fraud!GetRiskScore(s) = "critical" =>
                           cases[s] # <<>> /\ Fraud!Total(Fraud!ListSignalsForSubject(s)) >= Fraud!caseThreshold
    BY OneCaseListed DEF Fraud!OneOpenCase
  <2>1. CasesOK(s) /\ risk[s] \in Nat \cup {None} BY DEF FraudIInv, FraudTypes
  <2>2. Fraud!ListSignalsForSubject(s) = SignalsAbout(signals, s)
    BY DEF Fraud!ListSignalsForSubject, SignalsAbout
  <2>3. Fraud!GetRiskScore(s) = "critical" => risk[s] # None /\ risk[s] >= Fraud!caseThreshold
    BY <2>1 DEF Fraud!GetRiskScore, Fraud!band, Fraud!caseThreshold
  <2> QED BY <2>1, <2>2, <2>3, FraudCountOf DEF CasesOK
<1> QED BY <1>1, FraudInvariant, FraudPart, PTL DEF OneOpenCase

-----------------------------------------------------------------------------
(* Administration *)

Listing == "screenshot.audit_list"
UserStatuses == {"active", "suspended"}
DisputeStatuses == {"open"} \cup Admin!validResolutions
Moderations == {"user.suspend", "user.reinstate", "dispute.resolve"}

ActionRows ==
  [by : Admin!Callers, action : Moderations, target : Accounts \cup Disputes, created_at : Nat]
AuditRows ==
  [by : Admin!Callers, action : Moderations \cup {Listing}, resource : Accounts \cup Disputes \cup {None},
   occurred_at : Nat]
AdminEvents ==
  [type : {"user.suspended", "dispute.resolved"}, id : Accounts \cup Disputes,
   resolution : DisputeStatuses \cup {None}]

UserTxs ==
  {t \in [at : {"update", "commit"}, row : Accounts, by : Admin!Callers, to : UserStatuses,
          action : {"user.suspend", "user.reinstate"}, now : Nat] :
     t.to = IF t.action = "user.suspend" THEN "suspended" ELSE "active"}
DisputeTxs ==
  [at : {"update", "commit"}, row : Disputes, by : Admin!Callers, to : DisputeStatuses,
   action : {"dispute.resolve"}, now : Nat]
ListTxs == [at : {"record", "send"}, row : {None}, by : Admin!Callers, now : Nat]
AdminTxs == {Admin!Idle} \cup UserTxs \cup DisputeTxs \cup ListTxs

AdminTypes ==
  /\ status \in [Accounts -> UserStatuses] /\ dispute \in [Disputes -> DisputeStatuses]
  /\ actions \in SUBSET ActionRows /\ IsFiniteSet(actions)
  /\ audit \in SUBSET AuditRows /\ IsFiniteSet(audit)
  /\ outbox \in Seq(AdminEvents)
  /\ shown \in Nat /\ clock \in Nat
  /\ ended \in [DOMAIN ended -> Nat]
  /\ tx \in [Requests -> AdminTxs]

(* No row has the stamp of a transaction that is still to write. *)
FreshStamp(n) == \A x \in audit : x.occurred_at # n

(* Stamps lie in the past, and no two transactions share one. *)
ActionStamped(x) ==
  x.created_at \in DOMAIN ended /\ x.created_at <= clock /\ ended[x.created_at] <= clock
TxStamped(t) ==
  /\ t.at # "idle" => t.now <= clock
  /\ t.at \in {"update", "commit", "record"} => FreshStamp(t.now)
StampsApart ==
  \A r, o \in Requests : r # o /\ tx[r].at # "idle" /\ tx[o].at # "idle" => tx[r].now # tx[o].now
AdminStamps ==
  /\ \A x \in actions : ActionStamped(x)
  /\ \A x \in audit : x.occurred_at <= clock
  /\ \A r \in Requests : TxStamped(tx[r])
  /\ StampsApart

RestOf(log) == {x \in log : x.action # Listing}
AccessesOf(log) == {x \in log : x.action = Listing}
AuditOf(x) == Admin!AuditRow(x.by, x.action, x.target, x.created_at)

(* The audit log without the accesses is the list of actions. *)
Trail(acts, log) == RestOf(log) = {AuditOf(x) : x \in acts}

(* Suspensions and resolutions are announced. *)
EventsOf(out, type, row) == {i \in DOMAIN out : out[i].type = type /\ out[i].id = row}
AnnouncedActions(acts, out) ==
  /\ \A u \in Accounts :
       Cardinality(EventsOf(out, "user.suspended", u)) = Cardinality(Admin!ActionsOn(acts, "user.suspend", u))
  /\ \A d \in Disputes :
       Cardinality(EventsOf(out, "dispute.resolved", d)) = Cardinality(Admin!ActionsOn(acts, "dispute.resolve", d))

(* The operators of the property, of given tables. *)
StatusFrom(log, end, u, v) ==
  LET on == {x \in log : x.target = u} IN
  IF on = {} THEN v = "active"
  ELSE \E x \in on : v = Admin!StatusAfter(x) /\ \A y \in on : ~ (y.created_at > end[x.created_at])
ResolutionFrom(out, d, v) ==
  LET on == EventsOf(out, "dispute.resolved", d) IN
  IF on = {} THEN v = "open"
  ELSE \E i \in on : v = out[i].resolution /\ \A j \in on : j <= i

StatusExplained ==
  /\ \A u \in Accounts : StatusFrom(actions, ended, u, status[u])
  /\ \A d \in Disputes : ResolutionFrom(outbox, d, dispute[d])

Sending == {r \in Requests : tx[r].at = "send"}
ShownRecorded == shown + Cardinality(Sending) <= Cardinality(AccessesOf(audit))

AdminIInv ==
  /\ AdminTypes /\ AdminStamps /\ StatusExplained
  /\ Trail(actions, audit) /\ AnnouncedActions(actions, outbox)
  /\ ShownRecorded

(* The admin module counts with its own instance of FiniteSets. *)
LEMMA AdminCardinality ==
  ASSUME NEW S PROVE Admin!Cardinality(S) = Cardinality(S)
BY DEF Admin!Cardinality, Cardinality, Admin!IsFiniteSet, IsFiniteSet

(* An action has the stamp of its audit row. *)
LEMMA ActionsFresh ==
  ASSUME NEW n, FreshStamp(n), Trail(actions, audit), NEW x \in actions
  PROVE  x.created_at # n
<1>1. AuditOf(x) \in audit BY DEF Trail, RestOf
<1>2. AuditOf(x).occurred_at = x.created_at BY DEF AuditOf, Admin!AuditRow
<1> QED BY <1>1, <1>2 DEF FreshStamp

(* How a further action is counted. *)
LEMMA ActionsOnGrows ==
  ASSUME NEW log, IsFiniteSet(log), NEW a, a \notin log, NEW type, NEW row
  PROVE  /\ Cardinality(Admin!ActionsOn(log, type, row)) \in Nat
         /\ Cardinality(Admin!ActionsOn(log \cup {a}, type, row))
              = Cardinality(Admin!ActionsOn(log, type, row)) + IF a.action = type /\ a.target = row THEN 1 ELSE 0
<1>1. PICK old : old = Admin!ActionsOn(log, type, row) OBVIOUS
<1>2. old \in SUBSET log /\ a \notin old BY <1>1 DEF Admin!ActionsOn
<1>3. IsFiniteSet(old) /\ Cardinality(old) \in Nat BY <1>2, FS_Subset, FS_CardinalityType
<1>4. Admin!ActionsOn(log \cup {a}, type, row) = IF a.action = type /\ a.target = row THEN old \cup {a} ELSE old
  BY <1>1 DEF Admin!ActionsOn
<1>5. Cardinality(old \cup {a}) = Cardinality(old) + 1 BY <1>2, <1>3, FS_AddElement
<1> QED BY <1>1, <1>3, <1>4, <1>5

(* How a further event is counted, and where it stands. *)
EventAdded(out, e, more, n, type, row) ==
  /\ Cardinality(EventsOf(out, type, row)) \in Nat
  /\ Cardinality(EventsOf(more, type, row))
       = Cardinality(EventsOf(out, type, row)) + IF e.type = type /\ e.id = row THEN 1 ELSE 0
  /\ EventsOf(more, type, row)
       = IF e.type = type /\ e.id = row THEN EventsOf(out, type, row) \cup {n} ELSE EventsOf(out, type, row)

LEMMA EventsOfGrows ==
  ASSUME NEW out \in Seq(AdminEvents), NEW e \in AdminEvents, NEW more, more = Append(out, e),
         NEW n, n = Len(out) + 1, NEW type, NEW row
  PROVE  EventAdded(out, e, more, n, type, row)
<1>1. /\ DOMAIN out = 1 .. Len(out) /\ Len(out) \in Nat
      /\ DOMAIN more = DOMAIN out \cup {n} /\ n \notin DOMAIN out /\ more[n] = e
      /\ \A j \in DOMAIN out : more[j] = out[j]
  OBVIOUS
<1>2. PICK old : old = EventsOf(out, type, row) OBVIOUS
<1>3. old \in SUBSET (1 .. Len(out)) /\ n \notin old BY <1>1, <1>2 DEF EventsOf
<1>4. IsFiniteSet(1 .. Len(out)) BY <1>1, FS_Interval
<1>5. IsFiniteSet(old) /\ Cardinality(old) \in Nat BY <1>3, <1>4, FS_Subset, FS_CardinalityType
<1>6. EventsOf(more, type, row) = IF e.type = type /\ e.id = row THEN old \cup {n} ELSE old
  BY <1>1, <1>2 DEF EventsOf
<1>7. Cardinality(old \cup {n}) = Cardinality(old) + 1 BY <1>3, <1>5, FS_AddElement
<1> QED BY <1>2, <1>5, <1>6, <1>7 DEF EventAdded

(* The shapes of the transactions tell their kinds. *)
LEMMA AdminShapes ==
  ASSUME NEW t \in AdminTxs
  PROVE  /\ t.at \in {"idle", "update", "commit", "record", "send"}
         /\ t.at \in {"update", "commit"} => t \in UserTxs \cup DisputeTxs
         /\ t.at \in {"record", "send"} => t \in ListTxs
         /\ t.at # "idle" => t.now \in Nat
<1>1. \A x \in UserTxs : x.at \in {"update", "commit"} /\ x.now \in Nat BY DEF UserTxs
<1>2. \A x \in DisputeTxs : x.at \in {"update", "commit"} /\ x.now \in Nat BY DEF DisputeTxs
<1>3. \A x \in ListTxs : x.at \in {"record", "send"} /\ x.now \in Nat BY DEF ListTxs
<1>4. Admin!Idle.at = "idle" BY DEF Admin!Idle
<1> QED BY <1>1, <1>2, <1>3, <1>4 DEF AdminTxs

(* The senders of a list are finitely many, and so are the accesses. *)
LEMMA SendersFinite ==
  ASSUME IsFiniteSet(Requests)
  PROVE  IsFiniteSet(Sending) /\ Cardinality(Sending) \in Nat
<1>1. Sending \in SUBSET Requests BY DEF Sending
<1>2. IsFiniteSet(Sending) BY <1>1, FS_Subset
<1> QED BY <1>2, FS_CardinalityType

LEMMA AccessesFinite ==
  ASSUME AdminTypes
  PROVE  IsFiniteSet(AccessesOf(audit)) /\ Cardinality(AccessesOf(audit)) \in Nat
<1>1. AccessesOf(audit) \in SUBSET audit /\ IsFiniteSet(audit) BY DEF AccessesOf, AdminTypes
<1>2. IsFiniteSet(AccessesOf(audit)) BY <1>1, FS_Subset
<1> QED BY <1>2, FS_CardinalityType

(* A step of r that writes no table and does not start to send. *)
LEMMA AdminStill ==
  ASSUME AdminIInv, IsFiniteSet(Requests), NEW r \in Requests, NEW t \in AdminTxs, t.at # "send",
         tx' = [tx EXCEPT ![r] = t], UNCHANGED Admin!tables, clock' \in Nat, clock <= clock',
         TxStamped(t)', \A o \in Requests \ {r} : t.at # "idle" /\ tx[o].at # "idle" => tx[o].now # t.now
  PROVE  AdminIInv'
<1>0. AdminTypes /\ AdminStamps /\ StatusExplained /\ Trail(actions, audit) /\ AnnouncedActions(actions, outbox)
      /\ ShownRecorded
  BY DEF AdminIInv
<1>1. /\ status' = status /\ dispute' = dispute /\ actions' = actions /\ audit' = audit /\ outbox' = outbox
      /\ shown' = shown /\ ended' = ended
  BY DEF Admin!tables
<1>2. AdminTypes' BY <1>0, <1>1 DEF AdminTypes
<1>3. StatusExplained' BY <1>0, <1>1 DEF StatusExplained
<1>4. AdminStamps'
  <2>1. \A x \in actions : ActionStamped(x)'
    <3> SUFFICES ASSUME NEW x \in actions PROVE ActionStamped(x)' OBVIOUS
    <3>1. ActionStamped(x) /\ x.created_at \in Nat BY <1>0 DEF AdminStamps, AdminTypes, ActionRows
    <3>2. ended[x.created_at] \in Nat BY <1>0, <3>1 DEF AdminTypes, ActionStamped
    <3> QED BY <1>0, <1>1, <3>1, <3>2 DEF ActionStamped, AdminTypes
  <2>2. \A x \in audit : x.occurred_at <= clock'
    BY <1>0 DEF AdminStamps, AdminTypes, AuditRows
  <2>3. ASSUME NEW o \in Requests PROVE TxStamped(tx[o])'
    <3>1. CASE o = r
      <4>1. tx'[o] = t BY <3>1, <1>0 DEF AdminTypes
      <4> QED BY <4>1 DEF TxStamped, FreshStamp
    <3>2. CASE o # r
      <4>1. tx'[o] = tx[o] BY <3>2, <1>0 DEF AdminTypes
      <4>2. TxStamped(tx[o]) BY <1>0 DEF AdminStamps
      <4>3. tx[o].at # "idle" => tx[o].now \in Nat BY <1>0, AdminShapes DEF AdminTypes
      <4> QED BY <1>0, <1>1, <4>1, <4>2, <4>3 DEF TxStamped, FreshStamp, AdminTypes
    <3> QED BY <3>1, <3>2
  <2>4. StampsApart' BY <1>0 DEF AdminStamps, StampsApart, AdminTypes
  <2> QED BY <1>1, <2>1, <2>2, <2>3, <2>4 DEF AdminStamps
<1>5. (Sending)' \subseteq Sending BY <1>0 DEF AdminTypes, Sending
<1>6. Cardinality((Sending)') <= Cardinality(Sending) /\ Cardinality((Sending)') \in Nat /\ Cardinality(Sending) \in Nat
  <2>1. IsFiniteSet(Sending) /\ Cardinality(Sending) \in Nat BY SendersFinite
  <2>2. IsFiniteSet((Sending)') BY <1>5, <2>1, FS_Subset
  <2> QED BY <1>5, <2>1, <2>2, FS_Subset, FS_CardinalityType
<1>7. shown' + Cardinality((Sending)') <= Cardinality(AccessesOf(audit'))
  <2>1. Cardinality(AccessesOf(audit)) \in Nat /\ shown \in Nat BY <1>0, AccessesFinite DEF AdminTypes
  <2> QED BY <1>0, <1>1, <1>6, <2>1 DEF ShownRecorded
<1>8. Trail(actions', audit') /\ AnnouncedActions(actions', outbox') BY <1>0, <1>1
<1>9. ShownRecorded' BY <1>7 DEF ShownRecorded
<1>10. Trail(actions, audit)' /\ AnnouncedActions(actions, outbox)' BY <1>8
<1> QED BY <1>2, <1>3, <1>4, <1>9, <1>10 DEF AdminIInv

(* The step of Begin: the newest stamp is nobody else's. *)
LEMMA AdminBegin ==
  ASSUME AdminIInv, IsFiniteSet(Requests), NEW r \in Requests, NEW t \in AdminTxs, t.at \notin {"send", "idle"},
         t.now = clock + 1, Admin!Begin(r, t)
  PROVE  AdminIInv'
<1>0. AdminTypes /\ AdminStamps BY DEF AdminIInv
<1>1. tx' = [tx EXCEPT ![r] = t] /\ UNCHANGED Admin!tables /\ clock' = clock + 1 BY DEF Admin!Begin
<1>2. clock' \in Nat /\ clock <= clock' BY <1>0, <1>1 DEF AdminTypes
<1>3. TxStamped(t)'
  <2>1. \A x \in audit : x.occurred_at # clock + 1 BY <1>0 DEF AdminStamps, AdminTypes, AuditRows
  <2>2. audit' = audit BY <1>1 DEF Admin!tables
  <2> QED BY <1>0, <1>1, <2>1, <2>2 DEF TxStamped, FreshStamp, AdminTypes
<1>4. \A o \in Requests \ {r} : t.at # "idle" /\ tx[o].at # "idle" => tx[o].now # t.now
  <2> SUFFICES ASSUME NEW o \in Requests \ {r}, tx[o].at # "idle" PROVE tx[o].now # t.now OBVIOUS
  <2>1. tx[o].now \in Nat BY <1>0, AdminShapes DEF AdminTypes
  <2>2. tx[o].now <= clock BY <1>0 DEF AdminStamps, TxStamped
  <2> QED BY <1>0, <2>1, <2>2 DEF AdminTypes
<1> QED BY <1>1, <1>2, <1>3, <1>4, AdminStill

(* A step of r that writes its audit row, and needs its stamp no more. *)
LEMMA StampUsed ==
  ASSUME AdminTypes, AdminStamps, NEW r \in Requests, NEW t, t = tx[r], t.at \in {"commit", "record"},
         NEW x \in AuditRows, x.occurred_at = t.now, audit' = audit \cup {x},
         NEW s \in AdminTxs, s.at \in {"idle", "send"}, s.at = "send" => s.now = t.now,
         tx' = [tx EXCEPT ![r] = s], clock' = clock
  PROVE  /\ \A y \in audit' : y.occurred_at <= clock'
         /\ \A o \in Requests : TxStamped(tx[o])'
         /\ StampsApart'
<1>1. t \in AdminTxs /\ TxStamped(t) BY DEF AdminTypes, AdminStamps
<1>2. t.at # "idle" /\ t.now \in Nat /\ t.now <= clock /\ clock \in Nat
  BY <1>1, AdminShapes DEF TxStamped, AdminTypes
<1>3. \A y \in audit' : y.occurred_at <= clock' BY <1>2 DEF AdminStamps
<1>4. ASSUME NEW o \in Requests PROVE TxStamped(tx[o])'
  <2>1. CASE o = r
    <3>1. tx'[o] = s BY <2>1 DEF AdminTypes
    <3> QED BY <3>1, <1>2 DEF TxStamped
  <2>2. CASE o # r
    <3>1. tx'[o] = tx[o] BY <2>2 DEF AdminTypes
    <3>2. PICK q \in AdminTxs : q = tx[o] BY DEF AdminTypes
    <3>3. TxStamped(q) BY <3>2 DEF AdminStamps
    <3>4. q.at # "idle" => q.now # t.now BY <2>2, <3>2, <1>2 DEF AdminStamps, StampsApart
    <3>5. q.at # "idle" => q.now <= clock' BY <3>3 DEF TxStamped
    <3>6. q.at \in {"update", "commit", "record"} => \A y \in audit' : y.occurred_at # q.now
      BY <3>3, <3>4 DEF TxStamped, FreshStamp
    <3> QED BY <3>1, <3>2, <3>5, <3>6 DEF TxStamped, FreshStamp
  <2> QED BY <2>1, <2>2
<1>5. StampsApart'
  <2>1. ASSUME NEW p \in Requests, NEW o \in Requests, p # o, tx'[p].at # "idle", tx'[o].at # "idle"
        PROVE  tx'[p].now # tx'[o].now
    <3>1. /\ p # r => tx'[p] = tx[p]
          /\ o # r => tx'[o] = tx[o]
          /\ tx'[r] = s
      BY DEF AdminTypes
    <3>2. CASE p = r
      <4>1. s.now = tx[r].now /\ tx[r].at # "idle" BY <2>1, <3>1, <3>2, <1>2
      <4> QED BY <2>1, <3>1, <3>2, <4>1 DEF AdminStamps, StampsApart
    <3>3. CASE o = r
      <4>1. s.now = tx[r].now /\ tx[r].at # "idle" BY <2>1, <3>1, <3>3, <1>2
      <4> QED BY <2>1, <3>1, <3>3, <4>1 DEF AdminStamps, StampsApart
    <3>4. CASE p # r /\ o # r BY <2>1, <3>1, <3>4 DEF AdminStamps, StampsApart
    <3> QED BY <3>2, <3>3, <3>4
  <2> QED BY <2>1 DEF StampsApart
<1> QED BY <1>3, <1>4, <1>5

(* Rows of actions, audit rows and events of a transaction. *)
LEMMA AdminRows ==
  ASSUME NEW t \in UserTxs \cup DisputeTxs
  PROVE  /\ Admin!ActionRow(t) \in ActionRows
         /\ AuditOf(Admin!ActionRow(t)) \in AuditRows
         /\ AuditOf(Admin!ActionRow(t)) = Admin!AuditRow(t.by, t.action, t.row, t.now)
         /\ t.action # "user.reinstate" => Admin!EventOf(t) \in AdminEvents
<1>1. /\ t.by \in Admin!Callers /\ t.action \in Moderations /\ t.row \in Accounts \cup Disputes /\ t.now \in Nat
  BY DEF UserTxs, DisputeTxs, Moderations
<1>2. Admin!ActionRow(t) \in ActionRows BY <1>1 DEF Admin!ActionRow, ActionRows
<1>3. AuditOf(Admin!ActionRow(t)) = Admin!AuditRow(t.by, t.action, t.row, t.now)
  BY DEF AuditOf, Admin!ActionRow, Admin!AuditRow
<1>4. Admin!AuditRow(t.by, t.action, t.row, t.now) \in AuditRows BY <1>1 DEF Admin!AuditRow, AuditRows
<1>5. t.action # "user.reinstate" => Admin!EventOf(t) \in AdminEvents
  <2>1. CASE t \in UserTxs BY <2>1 DEF UserTxs, Admin!EventOf, AdminEvents
  <2>2. CASE t \in DisputeTxs BY <2>2 DEF DisputeTxs, Admin!EventOf, AdminEvents
  <2> QED BY <2>1, <2>2
<1> QED BY <1>2, <1>3, <1>4, <1>5

(* The action of a commit is announced, and its event tells the resolution. *)
LEMMA AnnouncedGrows ==
  ASSUME AdminTypes, Accounts \cap Disputes = {}, AnnouncedActions(actions, outbox),
         NEW t \in UserTxs \cup DisputeTxs, NEW a, a = Admin!ActionRow(t), a \notin actions,
         NEW out, out = IF t.action = "user.reinstate" THEN outbox ELSE Append(outbox, Admin!EventOf(t))
  PROVE  /\ AnnouncedActions(actions \cup {a}, out)
         /\ \A d \in Disputes : \A v : d # t.row /\ ResolutionFrom(outbox, d, v) => ResolutionFrom(out, d, v)
         /\ t.row \in Disputes => ResolutionFrom(out, t.row, t.to)
<1>1. a.action = t.action /\ a.target = t.row BY DEF Admin!ActionRow
<1>2. outbox \in Seq(AdminEvents) /\ IsFiniteSet(actions) BY DEF AdminTypes
<1>3. \A type, row :
        /\ Cardinality(Admin!ActionsOn(actions, type, row)) \in Nat
        /\ Cardinality(Admin!ActionsOn(actions \cup {a}, type, row))
             = Cardinality(Admin!ActionsOn(actions, type, row)) + IF t.action = type /\ t.row = row THEN 1 ELSE 0
  BY <1>1, <1>2, ActionsOnGrows
<1>4. CASE t.action = "user.reinstate"
  <2>1. out = outbox /\ t.row \notin Disputes BY <1>4 DEF UserTxs, DisputeTxs
  <2>2. ASSUME NEW type, NEW row, type # t.action
        PROVE  Cardinality(Admin!ActionsOn(actions \cup {a}, type, row)) = Cardinality(Admin!ActionsOn(actions, type, row))
    <3>1. PICK c : c = Cardinality(Admin!ActionsOn(actions, type, row)) OBVIOUS
    <3>2. c \in Nat /\ Cardinality(Admin!ActionsOn(actions \cup {a}, type, row)) = c + 0 BY <1>3, <2>2, <3>1
    <3> QED BY <3>1, <3>2
  <2> QED BY <1>4, <2>1, <2>2 DEF AnnouncedActions
<1>5. CASE t.action # "user.reinstate"
  <2>1. PICK e \in AdminEvents : e = Admin!EventOf(t) BY <1>5, AdminRows
  <2>2. out = Append(outbox, e) BY <1>5, <2>1
  <2>3. PICK n : n = Len(outbox) + 1 OBVIOUS
  <2>4. \A type, row : EventAdded(outbox, e, out, n, type, row) BY <1>2, <2>2, <2>3, EventsOfGrows
  <2>5. /\ e.id = t.row
        /\ t \in UserTxs => t.action = "user.suspend" /\ e.type = "user.suspended" /\ t.row \notin Disputes
        /\ t \in DisputeTxs => /\ t.action = "dispute.resolve" /\ e.type = "dispute.resolved"
                               /\ e.resolution = t.to /\ t.row \notin Accounts
    <3>1. CASE t \in UserTxs
      <4>1. t.action = "user.suspend" /\ t.row \in Accounts /\ t \notin DisputeTxs BY <3>1, <1>5 DEF UserTxs, DisputeTxs
      <4> QED BY <2>1, <3>1, <4>1 DEF Admin!EventOf
    <3>2. CASE t \in DisputeTxs
      <4>1. t.action = "dispute.resolve" /\ t.row \in Disputes /\ t \notin UserTxs BY <3>2 DEF UserTxs, DisputeTxs
      <4> QED BY <2>1, <3>2, <4>1 DEF Admin!EventOf
    <3> QED BY <3>1, <3>2
  <2>6. AnnouncedActions(actions \cup {a}, out)
    <3>1. ASSUME NEW u \in Accounts
          PROVE  Cardinality(EventsOf(out, "user.suspended", u))
                   = Cardinality(Admin!ActionsOn(actions \cup {a}, "user.suspend", u))
      <4>1. EventAdded(outbox, e, out, n, "user.suspended", u) BY <2>4
      <4>2. (e.type = "user.suspended" /\ e.id = u) <=> (t.action = "user.suspend" /\ t.row = u) BY <2>5
      <4>3. Cardinality(EventsOf(outbox, "user.suspended", u)) = Cardinality(Admin!ActionsOn(actions, "user.suspend", u))
        BY DEF AnnouncedActions
      <4> QED BY <1>3, <4>1, <4>2, <4>3 DEF EventAdded
    <3>2. ASSUME NEW d \in Disputes
          PROVE  Cardinality(EventsOf(out, "dispute.resolved", d))
                   = Cardinality(Admin!ActionsOn(actions \cup {a}, "dispute.resolve", d))
      <4>1. EventAdded(outbox, e, out, n, "dispute.resolved", d) BY <2>4
      <4>2. (e.type = "dispute.resolved" /\ e.id = d) <=> (t.action = "dispute.resolve" /\ t.row = d) BY <2>5
      <4>3. Cardinality(EventsOf(outbox, "dispute.resolved", d)) = Cardinality(Admin!ActionsOn(actions, "dispute.resolve", d))
        BY DEF AnnouncedActions
      <4> QED BY <1>3, <4>1, <4>2, <4>3 DEF EventAdded
    <3> QED BY <3>1, <3>2 DEF AnnouncedActions
  <2>7. /\ DOMAIN outbox = 1 .. Len(outbox) /\ Len(outbox) \in Nat
        /\ \A i \in DOMAIN outbox : out[i] = outbox[i]
        /\ out[n] = e
    BY <1>2, <2>2, <2>3
  <2>8. ASSUME NEW d \in Disputes, NEW v, d # t.row, ResolutionFrom(outbox, d, v) PROVE ResolutionFrom(out, d, v)
    <3>1. EventsOf(out, "dispute.resolved", d) = EventsOf(outbox, "dispute.resolved", d)
      BY <2>4, <2>5, <2>8 DEF EventAdded
    <3>2. \A i \in EventsOf(outbox, "dispute.resolved", d) : out[i] = outbox[i] BY <2>7 DEF EventsOf
    <3> QED BY <2>8, <3>1, <3>2 DEF ResolutionFrom
  <2>9. ASSUME t.row \in Disputes PROVE ResolutionFrom(out, t.row, t.to)
    <3>1. t \in DisputeTxs BY <2>5, <2>9
    <3>2. EventsOf(out, "dispute.resolved", t.row) = EventsOf(outbox, "dispute.resolved", t.row) \cup {n}
      BY <2>4, <2>5, <3>1 DEF EventAdded
    <3>3. \A i \in EventsOf(outbox, "dispute.resolved", t.row) : i <= n BY <2>3, <2>7 DEF EventsOf
    <3>4. out[n].resolution = t.to /\ n <= n BY <2>3, <2>5, <2>7, <3>1
    <3> QED BY <3>2, <3>3, <3>4 DEF ResolutionFrom
  <2> QED BY <2>6, <2>8, <2>9
<1> QED BY <1>4, <1>5

(* The status that a commit gives, of the user and of the others. *)
LEMMA StatusGrows ==
  ASSUME AdminTypes, AdminStamps, Trail(actions, audit), NEW n, FreshStamp(n),
         NEW a \in ActionRows, a.created_at = n, n <= clock,
         NEW end, end = [m \in DOMAIN ended \cup {n} |-> IF m = n THEN clock ELSE ended[m]]
  PROVE  /\ StatusFrom(actions \cup {a}, end, a.target, Admin!StatusAfter(a))
         /\ \A u, v : u # a.target /\ StatusFrom(actions, ended, u, v) => StatusFrom(actions \cup {a}, end, u, v)
         /\ \A x \in actions \cup {a} : /\ x.created_at \in DOMAIN end /\ x.created_at <= clock
                                        /\ end[x.created_at] <= clock
         /\ end \in [DOMAIN end -> Nat]
<1>1. \A x \in actions : x.created_at # n /\ x.created_at \in Nat BY ActionsFresh DEF AdminTypes, ActionRows
<1>2. \A x \in actions : ActionStamped(x) BY DEF AdminStamps
<1>3. end[n] = clock /\ clock \in Nat /\ n \in Nat BY DEF AdminTypes, ActionRows
<1>4. \A x \in actions : end[x.created_at] = ended[x.created_at] /\ x.created_at \in DOMAIN end
  BY <1>1, <1>2 DEF ActionStamped
<1>5. \A x \in actions \cup {a} : /\ x.created_at \in DOMAIN end /\ x.created_at <= clock
                                  /\ end[x.created_at] <= clock
  BY <1>2, <1>3, <1>4 DEF ActionStamped
<1>6. StatusFrom(actions \cup {a}, end, a.target, Admin!StatusAfter(a))
  <2>1. \A y \in actions \cup {a} : ~ (y.created_at > end[a.created_at]) BY <1>1, <1>3, <1>5
  <2>2. a \in {x \in actions \cup {a} : x.target = a.target} OBVIOUS
  <2> QED BY <2>1, <2>2 DEF StatusFrom
<1>7. ASSUME NEW u, NEW v, u # a.target, StatusFrom(actions, ended, u, v)
      PROVE  StatusFrom(actions \cup {a}, end, u, v)
  <2>1. {x \in actions \cup {a} : x.target = u} = {x \in actions : x.target = u} BY <1>7
  <2> QED BY <1>4, <1>7, <2>1 DEF StatusFrom
<1>8. end \in [DOMAIN end -> Nat]
  <2>1. ASSUME NEW m \in DOMAIN end PROVE end[m] \in Nat BY <1>3 DEF AdminTypes
  <2> QED BY <2>1
<1> QED BY <1>5, <1>6, <1>7, <1>8

(* The commit of a moderation or a resolution: the row, its action, its audit
   row and its event become visible together. *)
LEMMA AdminCommit ==
  ASSUME AdminIInv, IsFiniteSet(Requests), Accounts \cap Disputes = {}, NEW r \in Requests, Admin!Commit(r)
  PROVE  AdminIInv'
<1>0. AdminTypes /\ AdminStamps /\ StatusExplained /\ Trail(actions, audit) /\ AnnouncedActions(actions, outbox)
      /\ ShownRecorded
  BY DEF AdminIInv
<1>1. PICK t \in AdminTxs : t = tx[r] BY <1>0 DEF AdminTypes
<1>2. t.at = "commit" BY <1>1 DEF Admin!Commit
<1>3. t \in UserTxs \cup DisputeTxs BY <1>2, AdminShapes
<1>4. t.now \in Nat /\ t.now <= clock /\ FreshStamp(t.now) /\ clock \in Nat
  BY <1>0, <1>1, <1>2, AdminShapes DEF AdminStamps, TxStamped, AdminTypes
<1>5. PICK a \in ActionRows : a = Admin!ActionRow(t) BY <1>3, AdminRows
<1>6. PICK x \in AuditRows : x = AuditOf(a) BY <1>3, <1>5, AdminRows
<1>7. /\ a.by = t.by /\ a.action = t.action /\ a.target = t.row /\ a.created_at = t.now
      /\ x.action = t.action /\ x.occurred_at = t.now
  BY <1>5, <1>6 DEF Admin!ActionRow, AuditOf, Admin!AuditRow
<1>8. PICK out : out = IF t.action = "user.reinstate" THEN outbox ELSE Append(outbox, Admin!EventOf(t)) OBVIOUS
<1>9. PICK end : end = [n \in DOMAIN ended \cup {t.now} |-> IF n = t.now THEN clock ELSE ended[n]] OBVIOUS
<1>10. /\ status' = IF t.row \in Accounts THEN [status EXCEPT ![t.row] = t.to] ELSE status
       /\ dispute' = IF t.row \in Disputes THEN [dispute EXCEPT ![t.row] = t.to] ELSE dispute
       /\ actions' = actions \cup {a} /\ outbox' = out /\ ended' = end
       /\ tx' = [tx EXCEPT ![r] = Admin!Idle] /\ shown' = shown /\ clock' = clock
  BY <1>1, <1>5, <1>8, <1>9 DEF Admin!Commit
<1>11. audit' = audit \cup {x} BY <1>1, <1>3, <1>5, <1>6, AdminRows DEF Admin!Commit
<1>12. a \notin actions BY <1>0, <1>4, <1>7, ActionsFresh
<1>13. /\ StatusFrom(actions \cup {a}, end, a.target, Admin!StatusAfter(a))
       /\ \A u, v : u # a.target /\ StatusFrom(actions, ended, u, v) => StatusFrom(actions \cup {a}, end, u, v)
       /\ \A y \in actions \cup {a} : /\ y.created_at \in DOMAIN end /\ y.created_at <= clock
                                      /\ end[y.created_at] <= clock
       /\ end \in [DOMAIN end -> Nat]
  BY <1>0, <1>4, <1>7, <1>9, StatusGrows
<1>14. /\ AnnouncedActions(actions \cup {a}, out)
       /\ \A d \in Disputes : \A v : d # t.row /\ ResolutionFrom(outbox, d, v) => ResolutionFrom(out, d, v)
       /\ t.row \in Disputes => ResolutionFrom(out, t.row, t.to)
  BY <1>0, <1>3, <1>5, <1>8, <1>12, AnnouncedGrows
<1>15. /\ t \in UserTxs => t.row \in Accounts /\ t.to = Admin!StatusAfter(a) /\ t.to \in UserStatuses
       /\ t \in DisputeTxs => t.row \in Disputes /\ t.to \in DisputeStatuses
  BY <1>7 DEF UserTxs, DisputeTxs, Admin!StatusAfter
<1>16. AdminTypes'
  <2>1. status' \in [Accounts -> UserStatuses]
    BY <1>0, <1>3, <1>10, <1>15 DEF AdminTypes
  <2>2. dispute' \in [Disputes -> DisputeStatuses]
    BY <1>0, <1>3, <1>10, <1>15 DEF AdminTypes
  <2>3. actions' \in SUBSET ActionRows /\ audit' \in SUBSET AuditRows BY <1>0, <1>10, <1>11 DEF AdminTypes
  <2>4. IsFiniteSet(actions') /\ IsFiniteSet(audit') BY <1>0, <1>10, <1>11, FS_AddElement DEF AdminTypes
  <2>5. outbox' \in Seq(AdminEvents)
    <3>1. CASE t.action = "user.reinstate" BY <3>1, <1>0, <1>8, <1>10 DEF AdminTypes
    <3>2. CASE t.action # "user.reinstate" BY <3>2, <1>0, <1>3, <1>8, <1>10, AdminRows DEF AdminTypes
    <3> QED BY <3>1, <3>2
  <2>6. tx' \in [Requests -> AdminTxs] BY <1>0, <1>10 DEF AdminTypes, AdminTxs
  <2>7. ended' \in [DOMAIN ended' -> Nat] BY <1>10, <1>13
  <2> QED BY <1>0, <1>10, <2>1, <2>2, <2>3, <2>4, <2>5, <2>6, <2>7 DEF AdminTypes
<1>17. AdminStamps'
  <2>1. Admin!Idle \in AdminTxs /\ Admin!Idle.at = "idle" BY DEF AdminTxs, Admin!Idle
  <2>2. /\ \A y \in audit' : y.occurred_at <= clock'
        /\ \A o \in Requests : TxStamped(tx[o])'
        /\ StampsApart'
    BY <1>0, <1>1, <1>2, <1>7, <1>10, <1>11, <2>1, StampUsed
  <2>3. \A y \in actions' : ActionStamped(y)' BY <1>10, <1>13 DEF ActionStamped
  <2> QED BY <2>2, <2>3 DEF AdminStamps
<1>18. ASSUME NEW u \in Accounts PROVE StatusFrom(actions', ended', u, status'[u])
  <2>1. CASE u = t.row
    <3>1. t \in UserTxs BY <2>1, <1>3, <1>15
    <3>2. status'[u] = Admin!StatusAfter(a) BY <2>1, <3>1, <1>0, <1>10, <1>15 DEF AdminTypes
    <3> QED BY <2>1, <3>2, <1>7, <1>10, <1>13
  <2>2. CASE u # t.row
    <3>1. status'[u] = status[u] BY <2>2, <1>0, <1>10 DEF AdminTypes
    <3> QED BY <2>2, <3>1, <1>0, <1>7, <1>10, <1>13 DEF StatusExplained
  <2> QED BY <2>1, <2>2
<1>19. ASSUME NEW d \in Disputes PROVE ResolutionFrom(outbox', d, dispute'[d])
  <2>1. CASE d = t.row
    <3>1. dispute'[d] = t.to BY <2>1, <1>0, <1>10 DEF AdminTypes
    <3> QED BY <2>1, <3>1, <1>10, <1>14
  <2>2. CASE d # t.row
    <3>1. dispute'[d] = dispute[d] BY <2>2, <1>0, <1>10 DEF AdminTypes
    <3> QED BY <2>2, <3>1, <1>0, <1>10, <1>14 DEF StatusExplained
  <2> QED BY <2>1, <2>2
<1>20. x.action # Listing BY <1>3, <1>7 DEF UserTxs, DisputeTxs, Listing
<1>21. Trail(actions', audit')
  <2>1. RestOf(audit') = RestOf(audit) \cup {x} BY <1>11, <1>20 DEF RestOf
  <2>2. {AuditOf(y) : y \in actions'} = {AuditOf(y) : y \in actions} \cup {x} BY <1>6, <1>10
  <2> QED BY <1>0, <2>1, <2>2 DEF Trail
<1>22. AccessesOf(audit') = AccessesOf(audit) BY <1>11, <1>20 DEF AccessesOf
<1>23. (Sending)' = Sending
  <2>1. Admin!Idle.at = "idle" BY DEF Admin!Idle
  <2> QED BY <1>0, <1>1, <1>2, <1>10, <2>1 DEF AdminTypes, Sending
<1>24. ShownRecorded'
  <2>1. shown' + Cardinality((Sending)') <= Cardinality(AccessesOf(audit')) BY <1>0, <1>10, <1>22, <1>23 DEF ShownRecorded
  <2> QED BY <2>1 DEF ShownRecorded
<1>25. StatusExplained' BY <1>18, <1>19 DEF StatusExplained
<1>26. AnnouncedActions(actions', outbox') BY <1>10, <1>14
<1>27. Trail(actions, audit)' /\ AnnouncedActions(actions, outbox)' BY <1>21, <1>26
<1> QED BY <1>16, <1>17, <1>24, <1>25, <1>27 DEF AdminIInv

(* The access is in the log before the list is sent. *)
LEMMA AdminAccess ==
  ASSUME AdminIInv, IsFiniteSet(Requests), NEW r \in Requests, Admin!RecordAccess(r)
  PROVE  AdminIInv'
<1>0. AdminTypes /\ AdminStamps /\ StatusExplained /\ Trail(actions, audit) /\ AnnouncedActions(actions, outbox)
      /\ ShownRecorded
  BY DEF AdminIInv
<1>1. PICK t \in AdminTxs : t = tx[r] BY <1>0 DEF AdminTypes
<1>2. t.at = "record" BY <1>1 DEF Admin!RecordAccess
<1>3. t \in ListTxs BY <1>2, AdminShapes
<1>4. PICK x \in AuditRows : x = Admin!AuditRow(t.by, Listing, None, t.now)
  BY <1>3 DEF Admin!AuditRow, AuditRows, ListTxs
<1>5. x.action = Listing /\ x.occurred_at = t.now BY <1>4 DEF Admin!AuditRow
<1>6. audit' = audit \cup {x} BY <1>1, <1>4 DEF Admin!RecordAccess, Listing
<1>7. x \notin audit BY <1>0, <1>1, <1>2, <1>5 DEF AdminStamps, TxStamped, FreshStamp
<1>8. PICK s : s = [t EXCEPT !.at = "send"] OBVIOUS
<1>9. s \in ListTxs /\ s.at = "send" /\ s.now = t.now BY <1>3, <1>8 DEF ListTxs
<1>10. tx' = [tx EXCEPT ![r] = s] BY <1>1, <1>8 DEF Admin!RecordAccess
<1>11. s \in AdminTxs BY <1>9 DEF AdminTxs
<1>12. /\ status' = status /\ dispute' = dispute /\ actions' = actions /\ outbox' = outbox /\ shown' = shown
       /\ clock' = clock /\ ended' = ended
  BY DEF Admin!RecordAccess
<1>13. AdminTypes'
  <2>1. audit' \in SUBSET AuditRows BY <1>0, <1>6 DEF AdminTypes
  <2>2. IsFiniteSet(audit') BY <1>0, <1>6, FS_AddElement DEF AdminTypes
  <2>3. tx' \in [Requests -> AdminTxs] BY <1>0, <1>10, <1>11 DEF AdminTypes
  <2> QED BY <1>0, <1>12, <2>1, <2>2, <2>3 DEF AdminTypes
<1>14. AdminStamps'
  <2>1. /\ \A y \in audit' : y.occurred_at <= clock'
        /\ \A o \in Requests : TxStamped(tx[o])'
        /\ StampsApart'
    BY <1>0, <1>1, <1>2, <1>5, <1>6, <1>9, <1>10, <1>11, <1>12, StampUsed
  <2>2. \A y \in actions' : ActionStamped(y)' BY <1>0, <1>12 DEF AdminStamps, ActionStamped
  <2> QED BY <2>1, <2>2 DEF AdminStamps
<1>15. StatusExplained' BY <1>0, <1>12 DEF StatusExplained
<1>16. Trail(actions, audit)' /\ AnnouncedActions(actions, outbox)'
  <2>1. RestOf(audit') = RestOf(audit) BY <1>5, <1>6 DEF RestOf
  <2>2. Trail(actions', audit') BY <1>0, <1>12, <2>1 DEF Trail
  <2>3. AnnouncedActions(actions', outbox') BY <1>0, <1>12
  <2> QED BY <2>2, <2>3
<1>17. Cardinality(AccessesOf(audit')) = Cardinality(AccessesOf(audit)) + 1 /\ Cardinality(AccessesOf(audit)) \in Nat
  <2>1. AccessesOf(audit') = AccessesOf(audit) \cup {x} /\ x \notin AccessesOf(audit)
    BY <1>5, <1>6, <1>7 DEF AccessesOf
  <2> QED BY <1>0, <2>1, AccessesFinite, FS_AddElement
<1>18. (Sending)' = Sending \cup {r} /\ r \notin Sending
  BY <1>0, <1>1, <1>2, <1>9, <1>10 DEF AdminTypes, Sending
<1>19. Cardinality((Sending)') = Cardinality(Sending) + 1 /\ Cardinality(Sending) \in Nat
  BY <1>18, SendersFinite, FS_AddElement
<1>20. shown' + Cardinality((Sending)') <= Cardinality(AccessesOf(audit'))
  BY <1>0, <1>12, <1>17, <1>19 DEF ShownRecorded, AdminTypes
<1>21. ShownRecorded' BY <1>20 DEF ShownRecorded
<1> QED BY <1>13, <1>14, <1>15, <1>16, <1>21 DEF AdminIInv

(* A list that is sent was recorded. *)
LEMMA AdminSend ==
  ASSUME AdminIInv, IsFiniteSet(Requests), NEW r \in Requests, Admin!SendScreenshots(r)
  PROVE  AdminIInv'
<1>0. AdminTypes /\ AdminStamps /\ StatusExplained /\ Trail(actions, audit) /\ AnnouncedActions(actions, outbox)
      /\ ShownRecorded
  BY DEF AdminIInv
<1>1. Admin!Idle.at = "idle" /\ Admin!Idle \in AdminTxs BY DEF Admin!Idle, AdminTxs
<1>2. /\ status' = status /\ dispute' = dispute /\ actions' = actions /\ audit' = audit /\ outbox' = outbox
      /\ clock' = clock /\ ended' = ended /\ shown' = shown + 1
      /\ tx[r].at = "send" /\ tx' = [tx EXCEPT ![r] = Admin!Idle]
  BY DEF Admin!SendScreenshots
<1>3. AdminTypes' BY <1>0, <1>1, <1>2 DEF AdminTypes
<1>4. (Sending)' = Sending \ {r} /\ r \in Sending BY <1>0, <1>1, <1>2 DEF AdminTypes, Sending
<1>5. Cardinality((Sending)') = Cardinality(Sending) - 1 /\ Cardinality(Sending) \in Nat
  BY <1>4, SendersFinite, FS_RemoveElement
<1>6. shown' + Cardinality((Sending)') = shown + Cardinality(Sending) BY <1>0, <1>2, <1>5 DEF AdminTypes
<1>7. shown' + Cardinality((Sending)') <= Cardinality(AccessesOf(audit')) BY <1>0, <1>2, <1>6 DEF ShownRecorded
<1>8. Trail(actions', audit') /\ AnnouncedActions(actions', outbox') BY <1>0, <1>2
<1>9. StatusExplained' BY <1>0, <1>2 DEF StatusExplained
<1>10. ShownRecorded' BY <1>7 DEF ShownRecorded
<1>11. Trail(actions, audit)' /\ AnnouncedActions(actions, outbox)' BY <1>8
<1>12. AdminStamps'
  <2>1. \A y \in actions' : ActionStamped(y)' BY <1>0, <1>2 DEF AdminStamps, ActionStamped
  <2>2. \A y \in audit' : y.occurred_at <= clock' BY <1>0, <1>2 DEF AdminStamps
  <2>3. ASSUME NEW o \in Requests PROVE TxStamped(tx[o])'
    <3>1. tx'[o] = tx[o] \/ tx'[o] = Admin!Idle BY <1>0, <1>2 DEF AdminTypes
    <3> QED BY <1>0, <1>1, <1>2, <3>1 DEF AdminStamps, TxStamped, FreshStamp
  <2>4. StampsApart' BY <1>0, <1>1, <1>2 DEF AdminStamps, StampsApart, AdminTypes
  <2> QED BY <2>1, <2>2, <2>3, <2>4 DEF AdminStamps
<1> QED BY <1>3, <1>9, <1>10, <1>11, <1>12 DEF AdminIInv

(* The behaviours of the admin service. *)
LEMMA AdminPart == ServicesSpec => []~(part = "admin") \/ ([](part = "admin") /\ Admin!Spec)
<1>1. ServicesInit /\ part = "admin" => Admin!Init BY DEF ServicesInit
<1>2. part = "admin" /\ [ServicesNext]_allVars => (part = "admin")' /\ [Admin!Next]_(Admin!vars)
  <2>1. part = "admin" /\ ServicesNext => part' = "admin" /\ Admin!Next BY DEF ServicesNext
  <2>2. UNCHANGED allVars => UNCHANGED part /\ UNCHANGED Admin!vars
    BY DEF allVars, adminVars, sharedVars, Admin!vars
  <2> QED BY <2>1, <2>2
<1>3. ~(part = "admin") /\ [ServicesNext]_allVars => (~(part = "admin"))' BY DEF ServicesNext, allVars
<1> QED BY <1>1, <1>2, <1>3, PTL DEF ServicesSpec, Admin!Spec

(* Accountability of the admin service: for any number of admins at work on
   the same rows, whoever began first, and transactions that fail anywhere,
   the actions, audit rows and events that moderateUser, ResolveDispute and
   ListScreenshotsForAudit commit explain every status, every announcement and
   every list that was sent. *)
THEOREM AdminAccountable ==
  ASSUME IsFiniteSet(Requests), Accounts \cap Disputes = {}, None # Listing
  PROVE  ServicesSpec => []ActionsExplainStatus
<1>1. Admin!Init => AdminIInv
  <2> SUFFICES ASSUME Admin!Init PROVE AdminIInv OBVIOUS
  <2>1. /\ actions = {} /\ audit = {} /\ outbox = <<>> /\ shown = 0 /\ clock = 0 /\ ended = [n \in {} |-> 0]
        /\ \A r \in Requests : tx[r] = Admin!Idle
        /\ Admin!Idle.at = "idle" /\ Admin!Idle \in AdminTxs
    BY DEF Admin!Init, Admin!Idle, AdminTxs
  <2>2. AdminTypes
    <3>1. IsFiniteSet({}) BY FS_EmptySet
    <3>2. ended \in [DOMAIN ended -> Nat] BY <2>1
    <3>3. outbox \in Seq(AdminEvents) BY <2>1
    <3> QED BY <2>1, <3>1, <3>2, <3>3 DEF Admin!Init, AdminTypes, UserStatuses, DisputeStatuses
  <2>3. AdminStamps
    <3>1. \A r \in Requests : TxStamped(tx[r]) BY <2>1 DEF TxStamped
    <3>2. StampsApart BY <2>1 DEF StampsApart
    <3> QED BY <2>1, <3>1, <3>2 DEF AdminStamps
  <2>4. DOMAIN <<>> = {} OBVIOUS
  <2>5. \A type, row : EventsOf(outbox, type, row) = {} /\ Admin!ActionsOn(actions, type, row) = {}
    BY <2>1, <2>4 DEF EventsOf, Admin!ActionsOn
  <2>6. StatusExplained
    <3>1. ASSUME NEW u \in Accounts PROVE StatusFrom(actions, ended, u, status[u])
      <4>1. {x \in actions : x.target = u} = {} BY <2>1
      <4>2. status[u] = "active" BY DEF Admin!Init
      <4> QED BY <4>1, <4>2 DEF StatusFrom
    <3>2. \A d \in Disputes : ResolutionFrom(outbox, d, dispute[d]) BY <2>5 DEF ResolutionFrom, Admin!Init
    <3> QED BY <3>1, <3>2 DEF StatusExplained
  <2>7. Trail(actions, audit) BY <2>1 DEF Trail, RestOf
  <2>8. AnnouncedActions(actions, outbox) BY <2>5 DEF AnnouncedActions
  <2>9. ShownRecorded
    <3>1. Sending = {} /\ AccessesOf(audit) = {} BY <2>1 DEF Sending, AccessesOf
    <3>2. Cardinality({}) = 0 BY FS_EmptySet
    <3>3. shown = 0 /\ Cardinality(Sending) = 0 /\ Cardinality(AccessesOf(audit)) = 0 BY <2>1, <3>1, <3>2
    <3> QED BY <3>3 DEF ShownRecorded
  <2> QED BY <2>2, <2>3, <2>6, <2>7, <2>8, <2>9 DEF AdminIInv
<1>2. AdminIInv /\ [Admin!Next]_Admin!vars => AdminIInv'
  <2> SUFFICES ASSUME AdminIInv, [Admin!Next]_Admin!vars PROVE AdminIInv' OBVIOUS
  <2>t. AdminTypes /\ AdminStamps BY DEF AdminIInv
  <2>1. ASSUME NEW r \in Requests, NEW a \in Admin!Callers, NEW u,
               Admin!SuspendUser(r, a, u) \/ Admin!ReinstateUser(r, a, u)
        PROVE  AdminIInv'
    <3>1. PICK action \in {"user.suspend", "user.reinstate"}, to \in UserStatuses :
            /\ to = IF action = "user.suspend" THEN "suspended" ELSE "active"
            /\ Admin!moderateUser(r, a, u, to, action)
      BY <2>1 DEF Admin!SuspendUser, Admin!ReinstateUser, UserStatuses
    <3>2. PICK t : t = [at |-> "update", row |-> u, by |-> a, to |-> to, action |-> action, now |-> clock + 1] OBVIOUS
    <3>3. u \in Accounts /\ Admin!Begin(r, t) BY <3>1, <3>2 DEF Admin!moderateUser
    <3>4. clock + 1 \in Nat BY <2>t DEF AdminTypes
    <3>5. t \in AdminTxs /\ t.at = "update" /\ t.now = clock + 1 BY <3>1, <3>2, <3>3, <3>4 DEF AdminTxs, UserTxs
    <3> QED BY <3>3, <3>5, AdminBegin
  <2>2. ASSUME NEW r \in Requests, NEW a \in Admin!Callers, NEW d \in Disputes, NEW resolution,
               Admin!ResolveDispute(r, a, d, resolution)
        PROVE  AdminIInv'
    <3>1. PICK t : t = [at |-> "update", row |-> d, by |-> a, to |-> resolution, action |-> "dispute.resolve",
                        now |-> clock + 1]
      OBVIOUS
    <3>2. resolution \in DisputeStatuses /\ Admin!Begin(r, t)
      BY <2>2, <3>1 DEF Admin!ResolveDispute, Admin!validResolutions, DisputeStatuses
    <3>3. clock + 1 \in Nat BY <2>t DEF AdminTypes
    <3>4. t \in AdminTxs /\ t.at = "update" /\ t.now = clock + 1 BY <3>1, <3>2, <3>3 DEF AdminTxs, DisputeTxs
    <3> QED BY <3>2, <3>4, AdminBegin
  <2>3. ASSUME NEW r \in Requests, NEW a \in Admin!Callers, Admin!ListScreenshotsForAudit(r, a)
        PROVE  AdminIInv'
    <3>1. PICK t : t = [at |-> "record", row |-> None, by |-> a, now |-> clock + 1] OBVIOUS
    <3>2. Admin!Begin(r, t) BY <2>3, <3>1 DEF Admin!ListScreenshotsForAudit
    <3>3. clock + 1 \in Nat BY <2>t DEF AdminTypes
    <3>4. t \in AdminTxs /\ t.at = "record" /\ t.now = clock + 1 BY <3>1, <3>3 DEF AdminTxs, ListTxs
    <3> QED BY <3>2, <3>4, AdminBegin
  <2>4. ASSUME NEW r \in Requests, Admin!SetRowStatus(r) PROVE AdminIInv'
    <3>1. PICK s \in AdminTxs : s = tx[r] BY <2>t DEF AdminTypes
    <3>2. s.at = "update" BY <2>4, <3>1 DEF Admin!SetRowStatus
    <3>3. s \in UserTxs \cup DisputeTxs BY <3>2, AdminShapes
    <3>4. PICK t : t = [s EXCEPT !.at = "commit"] OBVIOUS
    <3>5. t \in UserTxs \cup DisputeTxs /\ t.at = "commit" /\ t.now = s.now
      <4>1. CASE s \in UserTxs BY <4>1, <3>4 DEF UserTxs
      <4>2. CASE s \in DisputeTxs BY <4>2, <3>4 DEF DisputeTxs
      <4> QED BY <3>3, <4>1, <4>2
    <3>6. tx' = [tx EXCEPT ![r] = t] /\ UNCHANGED Admin!tables /\ clock' = clock
      BY <2>4, <3>1, <3>4 DEF Admin!SetRowStatus
    <3>7. TxStamped(t)'
      <4>1. TxStamped(s) BY <2>t, <3>1 DEF AdminStamps
      <4>2. audit' = audit BY <3>6 DEF Admin!tables
      <4> QED BY <3>2, <3>5, <3>6, <4>1, <4>2 DEF TxStamped, FreshStamp
    <3>8. \A o \in Requests \ {r} : t.at # "idle" /\ tx[o].at # "idle" => tx[o].now # t.now
      BY <2>t, <3>1, <3>2, <3>5 DEF AdminStamps, StampsApart
    <3>9. clock' \in Nat /\ clock <= clock' BY <2>t, <3>6 DEF AdminTypes
    <3> QED BY <3>5, <3>6, <3>7, <3>8, <3>9, AdminStill DEF AdminTxs
  <2>5. ASSUME NEW r \in Requests, Admin!Commit(r) PROVE AdminIInv' BY <2>5, AdminCommit
  <2>6. ASSUME NEW r \in Requests, Admin!RecordAccess(r) PROVE AdminIInv' BY <2>6, AdminAccess
  <2>7. ASSUME NEW r \in Requests, Admin!SendScreenshots(r) PROVE AdminIInv' BY <2>7, AdminSend
  <2>8. ASSUME NEW r \in Requests, Admin!Rollback(r) PROVE AdminIInv'
    <3>1. PICK t \in AdminTxs : t = Admin!Idle BY DEF AdminTxs
    <3>2. t.at = "idle" BY <3>1 DEF Admin!Idle
    <3>3. tx' = [tx EXCEPT ![r] = t] /\ UNCHANGED Admin!tables /\ clock' = clock BY <2>8, <3>1 DEF Admin!Rollback
    <3>4. TxStamped(t)' BY <3>2 DEF TxStamped
    <3>5. clock' \in Nat /\ clock <= clock' BY <2>t, <3>3 DEF AdminTypes
    <3> QED BY <3>2, <3>3, <3>4, <3>5, AdminStill
  <2>9. CASE UNCHANGED Admin!vars
    <3>1. /\ status' = status /\ dispute' = dispute /\ actions' = actions /\ audit' = audit /\ outbox' = outbox
          /\ shown' = shown /\ clock' = clock /\ ended' = ended /\ tx' = tx
      BY <2>9 DEF Admin!vars
    <3>2. AdminTypes' BY <2>t, <3>1 DEF AdminTypes
    <3>3. AdminStamps'
      BY <2>t, <3>1 DEF AdminStamps, ActionStamped, TxStamped, FreshStamp, StampsApart
    <3>4. StatusExplained' BY <3>1 DEF AdminIInv, StatusExplained
    <3>5. Trail(actions', audit') /\ AnnouncedActions(actions', outbox') BY <3>1 DEF AdminIInv
    <3>6. (Sending)' = Sending BY <3>1 DEF Sending
    <3>7. shown' + Cardinality((Sending)') <= Cardinality(AccessesOf(audit')) BY <3>1, <3>6 DEF AdminIInv, ShownRecorded
    <3>8. ShownRecorded' BY <3>7 DEF ShownRecorded
    <3>9. Trail(actions, audit)' /\ AnnouncedActions(actions, outbox)' BY <3>5
    <3> QED BY <3>2, <3>3, <3>4, <3>8, <3>9 DEF AdminIInv
  <2> QED BY <2>1, <2>2, <2>3, <2>4, <2>5, <2>6, <2>7, <2>8, <2>9 DEF Admin!Next
<1>3. AdminIInv => Admin!ActionsExplainStatus
  <2> SUFFICES ASSUME AdminIInv, NEW a \in {x \in DOMAIN Perms : Admin!authorize(x, "admin.audit.read")}
               PROVE  LET log == Admin!ListAdminActions(a)
                          accesses == Admin!ListAuditLogs(a, "screenshot.audit_list") IN
                      /\ \A u \in Accounts : Admin!StatusTold(log, u)
                      /\ \A d \in Disputes : Admin!ResolutionTold(d)
                      /\ Admin!ListAuditLogs(a, None) \ accesses
                           = {Admin!AuditRow(x.by, x.action, x.target, x.created_at) : x \in log}
                      /\ \A u \in Accounts :
                           Admin!Cardinality(Admin!EventsOn("user.suspended", u))
                             = Admin!Cardinality(Admin!ActionsOn(log, "user.suspend", u))
                      /\ \A d \in Disputes :
                           Admin!Cardinality(Admin!EventsOn("dispute.resolved", d))
                             = Admin!Cardinality(Admin!ActionsOn(log, "dispute.resolve", d))
                      /\ shown <= Admin!Cardinality(accesses)
    BY DEF Admin!ActionsExplainStatus
  <2>1. Admin!authorize(a, "admin.audit.read") OBVIOUS
  <2>2. Admin!ListAdminActions(a) = actions BY <2>1 DEF Admin!ListAdminActions
  <2>3. Admin!ListAuditLogs(a, "screenshot.audit_list") = AccessesOf(audit)
    BY <2>1 DEF Admin!ListAuditLogs, AccessesOf, Listing
  <2>4. Admin!ListAuditLogs(a, None) \ AccessesOf(audit) = RestOf(audit)
    BY <2>1 DEF Admin!ListAuditLogs, AccessesOf, RestOf
  <2>5. AdminTypes /\ StatusExplained /\ Trail(actions, audit) /\ AnnouncedActions(actions, outbox) /\ ShownRecorded
    BY DEF AdminIInv
  <2>6. shown <= Cardinality(AccessesOf(audit))
    <3>1. Cardinality(Sending) \in Nat BY SendersFinite
    <3>2. shown \in Nat BY <2>5 DEF AdminTypes
    <3>3. Cardinality(AccessesOf(audit)) \in Nat BY <2>5, AccessesFinite
    <3> QED BY <2>5, <3>1, <3>2, <3>3 DEF ShownRecorded
  <2>7. \A type, row : Admin!EventsOn(type, row) = EventsOf(outbox, type, row) BY DEF Admin!EventsOn, EventsOf
  <2>8. PICK log, accesses :
          /\ log = Admin!ListAdminActions(a)
          /\ accesses = Admin!ListAuditLogs(a, "screenshot.audit_list")
    OBVIOUS
  <2>9. log = actions /\ accesses = AccessesOf(audit) BY <2>2, <2>3, <2>8
  <2>10. \A u \in Accounts : Admin!StatusTold(log, u)
    BY <2>5, <2>9 DEF StatusExplained, StatusFrom, Admin!StatusTold, Admin!Supersedes
  <2>11. \A d \in Disputes : Admin!ResolutionTold(d)
    BY <2>5, <2>7 DEF StatusExplained, ResolutionFrom, Admin!ResolutionTold
  <2>12. Admin!ListAuditLogs(a, None) \ accesses = {Admin!AuditRow(x.by, x.action, x.target, x.created_at) : x \in log}
    BY <2>4, <2>5, <2>9 DEF Trail, AuditOf
  <2>13. \A u \in Accounts : Admin!Cardinality(Admin!EventsOn("user.suspended", u))
                            = Admin!Cardinality(Admin!ActionsOn(log, "user.suspend", u))
    BY <2>5, <2>7, <2>9, AdminCardinality DEF AnnouncedActions
  <2>14. \A d \in Disputes : Admin!Cardinality(Admin!EventsOn("dispute.resolved", d))
                               = Admin!Cardinality(Admin!ActionsOn(log, "dispute.resolve", d))
    BY <2>5, <2>7, <2>9, AdminCardinality DEF AnnouncedActions
  <2>15. shown <= Admin!Cardinality(accesses) BY <2>6, <2>9, AdminCardinality
  <2> HIDE DEF Listing
  <2> QED BY <2>8, <2>10, <2>11, <2>12, <2>13, <2>14, <2>15
<1> QED BY <1>1, <1>2, <1>3, AdminPart, PTL DEF ActionsExplainStatus, Admin!Spec

-----------------------------------------------------------------------------
(* Screenshots: the tracker and its service *)

(* Screenshots *)

(* A slice has one row and a key belongs to one row. *)
RowsUnique ==
  \A r, q \in rows : r.slice = q.slice \/ r.key = q.key => r = q

RowOK(r) ==
  /\ r.slice \in Slices /\ r.dek = Tracker!DEKOf(r.slice, r.key)
  /\ r.status \in {"pending_upload", "stored"}
  /\ r.status = "stored" => r.nonce = r.slice
  /\ r = [slice |-> r.slice, key |-> r.key, status |-> r.status, dek |-> r.dek,
          nonce |-> r.nonce, views |-> r.views]

IsStored(s) == \E r \in rows : r.slice = s /\ r.status = "stored"
HasRow(k, s) == \E r \in rows : r.key = k /\ r.slice = s

(* A slot that is being made has a key of its own. *)
Making(c) == calls[c] # None /\ calls[c].at \in {"slot", "insert"}
CallOK(c) ==
  calls[c] # None =>
    \/ /\ calls[c].at \in {"slot", "insert"} /\ calls[c].slice \in Slices
       /\ calls[c] = [at |-> calls[c].at, slice |-> calls[c].slice, key |-> calls[c].key]
       /\ \A r \in rows : r.key # calls[c].key
    \/ /\ calls[c].at = "confirm" /\ calls[c].nonce \in Slices
       /\ calls[c].signature = <<calls[c].nonce, calls[c].nonce>>
       /\ HasRow(calls[c].id, calls[c].nonce)

KeysApart == \A c, d \in Tracker!Slots : Making(c) /\ Making(d) /\ calls[c].key = calls[d].key => c = d

(* What the device waits for, and what an answer told it. *)
DevOK ==
  /\ dev = [at |-> dev.at, slice |-> dev.slice, reply |-> dev.reply]
  /\ dev.at \in {"rest", "slot", "put", "confirm"}
  /\ dev.at # "rest" => dev.slice \in Slices
  /\ dev.at = "rest" => dev.reply = None
  /\ calls["live"] # None =>
       /\ dev.reply = None
       /\ Making("live") => dev.at = "slot" /\ dev.slice = calls["live"].slice
       /\ ~Making("live") => dev.at = "confirm" /\ dev.slice = calls["live"].nonce
  /\ dev.at = "slot" /\ dev.reply # None /\ dev.reply.ok => HasRow(dev.reply.id, dev.slice)
  /\ dev.at = "put" => dev.reply # None /\ HasRow(dev.reply.id, dev.slice)
  /\ dev.at = "confirm" /\ dev.reply # None /\ dev.reply.ok => IsStored(dev.slice)

TrackerTypes ==
  /\ calls = [c \in Tracker!Slots |-> calls[c]]
  /\ queue \in [Slices -> {"queued", "slotted", "uploaded", "gone"}]
  /\ ingested = [s \in Slices |-> IF IsStored(s) THEN 1 ELSE 0]

TrackerIInv ==
  /\ TrackerTypes /\ RowsUnique /\ KeysApart /\ DevOK
  /\ \A r \in rows : RowOK(r)
  /\ \A c \in Tracker!Slots : CallOK(c)
  /\ \A s \in Slices : queue[s] = "gone" => IsStored(s)

(* The invariant of the upload protocol holds at first. *)
LEMMA TrackerInit == Tracker!Init => TrackerIInv
<1> SUFFICES ASSUME Tracker!Init PROVE TrackerIInv OBVIOUS
<1>1. /\ queue = [s \in Slices |-> "queued"] /\ dev = Tracker!Resting
      /\ calls = [c \in Tracker!Slots |-> None] /\ rows = {} /\ ingested = [s \in Slices |-> 0]
  BY DEF Tracker!Init
<1>2. TrackerTypes BY <1>1 DEF TrackerTypes, IsStored
<1>3. "live" \in Tracker!Slots BY DEF Tracker!Slots
<1>4. DevOK BY <1>1, <1>3 DEF DevOK, Tracker!Resting
<1> QED BY <1>1, <1>2, <1>4 DEF TrackerIInv, RowsUnique, KeysApart, Making, CallOK

(* An answer ends the call and reaches the device of the live one only. *)
LEMMA CallAnswered ==
  ASSUME TrackerIInv, NEW c \in Tracker!Slots, NEW reply, Tracker!AnswerCall(c, reply)
  PROVE  /\ calls' = [d \in Tracker!Slots |-> calls'[d]] /\ calls'[c] = None
         /\ \A d \in Tracker!Slots \ {c} : calls'[d] = calls[d]
         /\ c # "live" => dev' = dev
         /\ c = "live" => dev' = [at |-> dev.at, slice |-> dev.slice, reply |-> reply]
         /\ "live" \in Tracker!Slots
BY DEF Tracker!AnswerCall, TrackerIInv, TrackerTypes, DevOK, Tracker!Slots

(* Answering a request for a slot with a row of the slice. *)
LEMMA AnswerStep ==
  ASSUME TrackerIInv, NEW c \in Tracker!Slots, calls[c] # None, NEW reply, Tracker!AnswerCall(c, reply),
         \A r \in rows : \E q \in rows' : q.key = r.key /\ q.slice = r.slice,
         \A r \in rows : r.status = "stored" => \E q \in rows' : q.slice = r.slice /\ q.status = "stored",
         \A d \in Tracker!Slots \ {c} : \A q \in rows' :
            Making(d) => q.key # calls[d].key,
         reply.ok /\ calls[c].at \in {"slot", "insert"} => \E q \in rows' : q.key = reply.id /\ q.slice = calls[c].slice,
         reply.ok /\ calls[c].at = "confirm" => \E q \in rows' : q.slice = calls[c].nonce /\ q.status = "stored"
  PROVE  DevOK' /\ KeysApart' /\ \A d \in Tracker!Slots : CallOK(d)'
<1> USE CallAnswered
<1>1. KeysApart'
  BY DEF TrackerIInv, KeysApart, Making
<1>2. ASSUME NEW d \in Tracker!Slots PROVE CallOK(d)'
  <2>1. CASE d = c BY <2>1 DEF CallOK
  <2>2. CASE d # c
    <3>1. calls'[d] = calls[d] /\ CallOK(d) BY <2>2 DEF TrackerIInv
    <3>2. \A k, s : HasRow(k, s) => HasRow(k, s)' BY DEF HasRow
    <3> QED BY <3>1, <3>2, <2>2 DEF CallOK, Making
  <2> QED BY <2>1, <2>2
<1>3. DevOK'
  <2>0. DevOK /\ CallOK(c) BY DEF TrackerIInv
  <2>1. \A k, s : HasRow(k, s) => HasRow(k, s)' BY DEF HasRow
  <2>2. \A s : IsStored(s) => IsStored(s)' BY DEF IsStored
  <2>3. CASE c # "live"
    <3>1. dev' = dev /\ calls'["live"] = calls["live"] BY <2>3
    <3> QED BY <3>1, <2>0, <2>1, <2>2 DEF DevOK, Making
  <2>4. CASE c = "live" /\ calls[c].at \in {"slot", "insert"}
    <3>1. dev.at = "slot" /\ dev.slice = calls[c].slice BY <2>0, <2>4 DEF DevOK, Making
    <3>2. dev'.at = "slot" /\ dev'.slice = calls[c].slice /\ dev'.reply = reply /\ calls'["live"] = None
          /\ dev' = [at |-> dev'.at, slice |-> dev'.slice, reply |-> dev'.reply] /\ dev'.slice \in Slices
      BY <3>1, <2>4, <2>0 DEF DevOK
    <3>3. PICK s : s = calls[c].slice OBVIOUS
    <3>4. reply.ok => HasRow(reply.id, s)' BY <2>4, <3>3 DEF HasRow
    <3> QED BY <3>2, <3>3, <3>4 DEF DevOK
  <2>5. CASE c = "live" /\ calls[c].at = "confirm"
    <3>1. dev.at = "confirm" /\ dev.slice = calls[c].nonce BY <2>0, <2>5 DEF DevOK, Making
    <3>2. dev'.at = "confirm" /\ dev'.slice = calls[c].nonce /\ dev'.reply = reply /\ calls'["live"] = None
          /\ dev' = [at |-> dev'.at, slice |-> dev'.slice, reply |-> dev'.reply] /\ dev'.slice \in Slices
      BY <3>1, <2>5, <2>0 DEF DevOK
    <3>3. PICK s : s = calls[c].nonce OBVIOUS
    <3>4. reply.ok => IsStored(s)' BY <2>5, <3>3 DEF IsStored
    <3> QED BY <3>2, <3>3, <3>4 DEF DevOK
  <2> QED BY <2>0, <2>3, <2>4, <2>5 DEF CallOK
<1> QED BY <1>1, <1>2, <1>3

(* Looking for the slice's row. *)
LEMMA LookupStep ==
  ASSUME TrackerIInv, NEW c \in Tracker!Slots, Tracker!CreateSlotLookup(c)
  PROVE  TrackerIInv'
<1>1. /\ calls[c] # None /\ calls[c].at = "slot"
      /\ UNCHANGED <<queue, rows, objects, ingested, faults>>
  BY DEF Tracker!CreateSlotLookup
<1>2. TrackerIInv /\ CallOK(c) BY DEF TrackerIInv
<1>3. RowsUnique' /\ (\A r \in rows' : RowOK(r)') /\ (\A s \in Slices : queue'[s] = "gone" => IsStored(s)')
      /\ queue' \in [Slices -> {"queued", "slotted", "uploaded", "gone"}]
      /\ ingested' = [s \in Slices |-> IF IsStored(s)' THEN 1 ELSE 0]
  BY <1>1 DEF TrackerIInv, TrackerTypes, RowsUnique, RowOK, IsStored
<1>4. CASE Tracker!RowsOf(calls[c].slice) # {}
  <2>1. PICK row \in Tracker!RowsOf(calls[c].slice) : Tracker!AnswerCall(c, Tracker!SlotAnswer(row, calls[c].key))
    BY <1>4 DEF Tracker!CreateSlotLookup
  <2>2. row \in rows /\ row.slice = calls[c].slice BY DEF Tracker!RowsOf
  <2>3. PICK reply : reply = Tracker!SlotAnswer(row, calls[c].key) OBVIOUS
  <2>4. reply.ok /\ reply.id = row.key BY <2>3 DEF Tracker!SlotAnswer
  <2>5. \A d \in Tracker!Slots : \A q \in rows : Making(d) => q.key # calls[d].key
    BY <1>2 DEF TrackerIInv, CallOK, Making
  <2>6. DevOK' /\ KeysApart' /\ \A d \in Tracker!Slots : CallOK(d)'
    BY <1>1, <1>2, <2>1, <2>2, <2>3, <2>4, <2>5, AnswerStep
  <2> QED BY <2>6, <1>3, <2>1, CallAnswered DEF TrackerIInv, TrackerTypes
<1>5. CASE Tracker!RowsOf(calls[c].slice) = {}
  <2>1. calls' = [calls EXCEPT ![c].at = "insert"] /\ dev' = dev BY <1>5 DEF Tracker!CreateSlotLookup
  <2>2. /\ \A d \in Tracker!Slots \ {c} : calls'[d] = calls[d]
        /\ calls'[c] = [at |-> "insert", slice |-> calls[c].slice, key |-> calls[c].key]
        /\ calls' = [d \in Tracker!Slots |-> calls'[d]]
    BY <1>1, <1>2, <2>1 DEF TrackerIInv, TrackerTypes, CallOK
  <2>3. KeysApart' BY <1>1, <2>2 DEF TrackerIInv, KeysApart, Making
  <2>4. ASSUME NEW d \in Tracker!Slots PROVE CallOK(d)'
    <3>1. CASE d # c
      <4>1. CallOK(d) /\ calls'[d] = calls[d] /\ rows' = rows BY <1>1, <2>2, <3>1 DEF TrackerIInv
      <4> QED BY <4>1 DEF CallOK, HasRow
    <3>2. CASE d = c BY <1>1, <1>2, <2>2, <3>2 DEF CallOK
    <3> QED BY <3>1, <3>2
  <2>5. DevOK'
    <3>1. "live" \in Tracker!Slots BY DEF Tracker!Slots
    <3> QED BY <1>1, <1>2, <2>1, <2>2, <3>1 DEF TrackerIInv, DevOK, Making, HasRow, IsStored
  <2> QED BY <1>3, <2>2, <2>3, <2>4, <2>5 DEF TrackerIInv, TrackerTypes
<1> QED BY <1>4, <1>5

(* Replacing a row by one of the same slice and key. *)
LEMMA RowReplaced ==
  ASSUME TrackerIInv, NEW r \in rows, NEW q, rows' = (rows \ {r}) \cup {q},
         q.slice = r.slice, q.key = r.key, RowOK(q), r.status = "stored" => q.status = "stored"
  PROVE  /\ RowsUnique' /\ \A x \in rows' : RowOK(x)'
         /\ \A x \in rows : \E y \in rows' : y.key = x.key /\ y.slice = x.slice
         /\ \A x \in rows' : \E y \in rows : y.key = x.key /\ y.slice = x.slice
         /\ \A x \in rows : x.status = "stored" => \E y \in rows' : y.slice = x.slice /\ y.status = "stored"
         /\ \A s : IsStored(s)' <=> IsStored(s) \/ (s = r.slice /\ q.status = "stored")
<1>1. RowsUnique /\ \A x \in rows : RowOK(x) BY DEF TrackerIInv
<1>2. RowsUnique' BY <1>1 DEF RowsUnique
<1>3. \A x \in rows' : RowOK(x)' BY <1>1 DEF RowOK
<1>4. \A x \in rows : \E y \in rows' : y.key = x.key /\ y.slice = x.slice OBVIOUS
<1>5. \A x \in rows' : \E y \in rows : y.key = x.key /\ y.slice = x.slice OBVIOUS
<1>6. \A x \in rows : x.status = "stored" => \E y \in rows' : y.slice = x.slice /\ y.status = "stored" OBVIOUS
<1>7. \A s : IsStored(s)' <=> IsStored(s) \/ (s = r.slice /\ q.status = "stored")
  BY <1>1 DEF IsStored, RowsUnique
<1> QED BY <1>2, <1>3, <1>4, <1>5, <1>6, <1>7

(* The insert: the unique slice and the request's own key. *)
LEMMA InsertStep ==
  ASSUME TrackerIInv, NEW c \in Tracker!Slots, Tracker!CreateSlotInsert(c)
  PROVE  TrackerIInv'
<1>1. PICK row : row = Tracker!NewSlot(calls[c].slice, calls[c].key) OBVIOUS
<1>2. /\ calls[c] # None /\ calls[c].at = "insert"
      /\ IF Tracker!RowsOf(row.slice) = {}
         THEN rows' = rows \cup {row} /\ Tracker!AnswerCall(c, Tracker!SlotAnswer(row, row.key))
         ELSE UNCHANGED rows /\ Tracker!AnswerCall(c, [ok |-> FALSE])
      /\ UNCHANGED <<queue, objects, ingested, faults>>
  BY <1>1 DEF Tracker!CreateSlotInsert, Tracker!UniqueSlice
<1>3. /\ row.slice = calls[c].slice /\ row.key = calls[c].key /\ row.status = "pending_upload"
      /\ row.dek = Tracker!DEKOf(row.slice, row.key) /\ Making(c)
      /\ row = [slice |-> row.slice, key |-> row.key, status |-> row.status, dek |-> row.dek,
                nonce |-> row.nonce, views |-> row.views]
  BY <1>1, <1>2 DEF Tracker!NewSlot, Making
<1>4. CallOK(c) /\ row.slice \in Slices /\ \A r \in rows : r.key # row.key
  BY <1>2, <1>3 DEF TrackerIInv, CallOK
<1>5. \A d \in Tracker!Slots : \A q \in rows : Making(d) => q.key # calls[d].key
  BY DEF TrackerIInv, CallOK, Making
<1>6. CASE Tracker!RowsOf(row.slice) = {}
  <2>1. PICK reply : reply = Tracker!SlotAnswer(row, row.key) OBVIOUS
  <2>2. reply.id = row.key BY <2>1 DEF Tracker!SlotAnswer
  <2>3. rows' = rows \cup {row} /\ Tracker!AnswerCall(c, reply) BY <1>2, <1>6, <2>1
  <2>4. \A r \in rows : r.slice # row.slice BY <1>6 DEF Tracker!RowsOf
  <2>5. RowsUnique' BY <1>4, <2>3, <2>4 DEF TrackerIInv, RowsUnique
  <2>6. \A r \in rows' : RowOK(r)' BY <1>3, <1>4, <2>3 DEF TrackerIInv, RowOK
  <2>7. \A s : IsStored(s)' <=> IsStored(s) BY <1>3, <2>3 DEF IsStored
  <2>8. \A d \in Tracker!Slots \ {c} : \A q \in rows' : Making(d) => q.key # calls[d].key
    BY <1>3, <1>5, <2>3 DEF TrackerIInv, KeysApart
  <2>9. DevOK' /\ KeysApart' /\ \A d \in Tracker!Slots : CallOK(d)'
    BY <1>2, <1>3, <2>2, <2>3, <2>8, AnswerStep
  <2> QED BY <1>2, <2>3, <2>5, <2>6, <2>7, <2>9, CallAnswered DEF TrackerIInv, TrackerTypes
<1>7. CASE Tracker!RowsOf(row.slice) # {}
  <2>1. PICK reply : reply = [ok |-> FALSE] OBVIOUS
  <2>2. ~reply.ok /\ rows' = rows /\ Tracker!AnswerCall(c, reply) BY <1>2, <1>7, <2>1
  <2>3. DevOK' /\ KeysApart' /\ \A d \in Tracker!Slots : CallOK(d)'
    BY <1>2, <1>5, <2>2, AnswerStep
  <2>4. RowsUnique' /\ (\A r \in rows' : RowOK(r)') /\ \A s : IsStored(s)' <=> IsStored(s)
    BY <2>2 DEF TrackerIInv, RowsUnique, RowOK, IsStored
  <2> QED BY <1>2, <2>2, <2>3, <2>4, CallAnswered DEF TrackerIInv, TrackerTypes
<1> QED BY <1>6, <1>7

(* A confirm stores the one row of its slice, once. *)
LEMMA ConfirmStep ==
  ASSUME TrackerIInv, NEW c \in Tracker!Slots, Tracker!ConfirmUpload(c)
  PROVE  TrackerIInv'
<1> DEFINE found == {r \in rows : r.key = calls[c].id /\ r.status = "pending_upload"
                       /\ calls[c].signature = Tracker!confirmSignedMessage(calls[c].nonce, r.slice)}
<1>1. /\ calls[c] # None /\ calls[c].at = "confirm" /\ UNCHANGED <<queue, objects, faults>>
      /\ IF found = {} THEN Tracker!AnswerCall(c, [ok |-> FALSE]) /\ UNCHANGED <<rows, ingested>>
         ELSE \E row \in found :
            /\ rows' = (rows \ {row}) \cup {[row EXCEPT !.status = "stored", !.nonce = calls[c].nonce]}
            /\ ingested' = [ingested EXCEPT ![row.slice] = @ + 1]
            /\ Tracker!AnswerCall(c, [ok |-> TRUE])
  BY DEF Tracker!ConfirmUpload
<1>2. CallOK(c) /\ calls[c].nonce \in Slices /\ calls[c].signature = <<calls[c].nonce, calls[c].nonce>>
  BY <1>1 DEF TrackerIInv, CallOK
<1>3. \A d \in Tracker!Slots : \A q \in rows : Making(d) => q.key # calls[d].key
  BY DEF TrackerIInv, CallOK, Making
<1>4. CASE found = {}
  <2>1. PICK reply : reply = [ok |-> FALSE] OBVIOUS
  <2>2. ~reply.ok /\ rows' = rows /\ ingested' = ingested /\ Tracker!AnswerCall(c, reply) BY <1>1, <1>4, <2>1
  <2>3. DevOK' /\ KeysApart' /\ \A d \in Tracker!Slots : CallOK(d)'
    BY <1>1, <1>3, <2>2, AnswerStep
  <2>4. RowsUnique' /\ (\A r \in rows' : RowOK(r)') /\ \A s : IsStored(s)' <=> IsStored(s)
    BY <2>2 DEF TrackerIInv, RowsUnique, RowOK, IsStored
  <2> QED BY <1>1, <2>2, <2>3, <2>4, CallAnswered DEF TrackerIInv, TrackerTypes
<1>5. CASE found # {}
  <2>1. PICK row \in found :
            /\ rows' = (rows \ {row}) \cup {[row EXCEPT !.status = "stored", !.nonce = calls[c].nonce]}
            /\ ingested' = [ingested EXCEPT ![row.slice] = @ + 1]
            /\ Tracker!AnswerCall(c, [ok |-> TRUE])
    BY <1>1, <1>5
  <2>2. PICK q : q = [row EXCEPT !.status = "stored", !.nonce = calls[c].nonce] OBVIOUS
  <2>3. /\ row \in rows /\ RowOK(row) /\ row.status = "pending_upload" /\ row.slice = calls[c].nonce
        /\ row.slice \in Slices
    BY <1>2 DEF TrackerIInv, RowOK, Tracker!confirmSignedMessage
  <2>4. /\ q.slice = row.slice /\ q.key = row.key /\ q.status = "stored" /\ q.nonce = row.slice /\ RowOK(q)
        /\ rows' = (rows \ {row}) \cup {q}
    <3>1. q = [slice |-> row.slice, key |-> row.key, status |-> "stored", dek |-> row.dek,
               nonce |-> row.slice, views |-> row.views]
      BY <2>2, <2>3 DEF RowOK
    <3> QED BY <3>1, <2>1, <2>2, <2>3 DEF RowOK
  <2> HIDE DEF found
  <2>5. /\ RowsUnique' /\ \A x \in rows' : RowOK(x)'
        /\ \A x \in rows : \E y \in rows' : y.key = x.key /\ y.slice = x.slice
        /\ \A x \in rows' : \E y \in rows : y.key = x.key /\ y.slice = x.slice
        /\ \A x \in rows : x.status = "stored" => \E y \in rows' : y.slice = x.slice /\ y.status = "stored"
        /\ \A s : IsStored(s)' <=> IsStored(s) \/ s = row.slice
    BY <2>3, <2>4, RowReplaced
  <2>6. PICK reply : reply = [ok |-> TRUE] OBVIOUS
  <2>7. \A d \in Tracker!Slots : \A x \in rows' : Making(d) => x.key # calls[d].key BY <1>3, <2>5
  <2>8. \E x \in rows' : x.slice = calls[c].nonce /\ x.status = "stored" BY <2>3, <2>4
  <2>9. DevOK' /\ KeysApart' /\ \A d \in Tracker!Slots : CallOK(d)'
    BY <1>1, <2>1, <2>5, <2>6, <2>7, <2>8, AnswerStep
  <2>10. ~IsStored(row.slice) BY <2>3 DEF IsStored, TrackerIInv, RowsUnique
  <2>11. ingested' = [s \in Slices |-> IF IsStored(s)' THEN 1 ELSE 0]
    BY <2>1, <2>3, <2>5, <2>10 DEF TrackerIInv, TrackerTypes
  <2> QED BY <1>1, <2>1, <2>5, <2>9, <2>11, CallAnswered DEF TrackerIInv, TrackerTypes
<1> QED BY <1>4, <1>5

(* A view is counted on the row and changes nothing else of it. *)
LEMMA ViewStep ==
  ASSUME TrackerIInv, NEW u, NEW r \in rows, Tracker!GetScreenshot(u, r)
  PROVE  TrackerIInv'
<1>1. /\ rows' = (rows \ {r}) \cup {[r EXCEPT !.views = @ + 1]}
      /\ UNCHANGED <<queue, dev, calls, objects, ingested, faults>>
  BY DEF Tracker!GetScreenshot, Tracker!RecordView
<1>2. PICK q : q = [r EXCEPT !.views = @ + 1] OBVIOUS
<1>3. RowOK(r) BY DEF TrackerIInv
<1>4. q = [slice |-> r.slice, key |-> r.key, status |-> r.status, dek |-> r.dek,
           nonce |-> r.nonce, views |-> r.views + 1]
  BY <1>2, <1>3 DEF RowOK
<1>5. /\ q.slice = r.slice /\ q.key = r.key /\ q.status = r.status /\ RowOK(q)
      /\ rows' = (rows \ {r}) \cup {q}
  BY <1>1, <1>2, <1>3, <1>4 DEF RowOK
<1>6. /\ RowsUnique' /\ \A x \in rows' : RowOK(x)'
      /\ \A x \in rows : \E y \in rows' : y.key = x.key /\ y.slice = x.slice
      /\ \A x \in rows' : \E y \in rows : y.key = x.key /\ y.slice = x.slice
      /\ \A s : IsStored(s)' <=> IsStored(s)
  <2>1. \A s : IsStored(s)' <=> IsStored(s) \/ (s = r.slice /\ q.status = "stored")
    BY <1>5, RowReplaced
  <2>2. \A s : s = r.slice /\ q.status = "stored" => IsStored(s) BY <1>5 DEF IsStored
  <2> QED BY <2>1, <2>2, <1>5, RowReplaced
<1>7. \A k, s : HasRow(k, s) => HasRow(k, s)' BY <1>6 DEF HasRow
<1>8. ASSUME NEW c \in Tracker!Slots PROVE CallOK(c)'
  <2>1. CallOK(c) /\ calls' = calls BY <1>1 DEF TrackerIInv
  <2> QED BY <2>1, <1>6, <1>7 DEF CallOK
<1>9. DevOK' BY <1>1, <1>6, <1>7 DEF TrackerIInv, DevOK, Making
<1>10. KeysApart' BY <1>1 DEF TrackerIInv, KeysApart, Making
<1> QED BY <1>1, <1>6, <1>8, <1>9, <1>10 DEF TrackerIInv, TrackerTypes

(* The device's steps leave the rows alone. *)
LEMMA RowsKept ==
  ASSUME TrackerIInv, UNCHANGED <<rows, ingested>>
  PROVE  /\ RowsUnique' /\ (\A r \in rows' : RowOK(r)') /\ \A s : IsStored(s)' <=> IsStored(s)
         /\ ingested' = [s \in Slices |-> IF IsStored(s)' THEN 1 ELSE 0]
         /\ \A k, s : HasRow(k, s)' <=> HasRow(k, s)
BY DEF TrackerIInv, TrackerTypes, RowsUnique, RowOK, IsStored, HasRow

(* Calls that end disturb neither keys nor the other calls. *)
LEMMA CallsKept ==
  ASSUME TrackerIInv, UNCHANGED rows, calls' = [c \in Tracker!Slots |-> calls'[c]],
         \A c \in Tracker!Slots : calls'[c] = calls[c] \/ calls'[c] = None
  PROVE  KeysApart' /\ \A c \in Tracker!Slots : CallOK(c)'
<1>1. KeysApart' BY DEF TrackerIInv, KeysApart, Making
<1> QED BY <1>1 DEF TrackerIInv, CallOK, HasRow

(* The tracker asks for an upload slot. *)
LEMMA RequestSlotStep ==
  ASSUME TrackerIInv, NEW s \in Slices, Tracker!RequestUploadSlot(s)
  PROVE  TrackerIInv'
<1>1. PICK k \in DataKeys : /\ Tracker!Unused(k)
                        /\ calls' = [calls EXCEPT !["live"] = [at |-> "slot", slice |-> s, key |-> k]]
  BY DEF Tracker!RequestUploadSlot
<1>2. /\ dev' = [at |-> "slot", slice |-> s, reply |-> None]
      /\ UNCHANGED <<queue, rows, objects, ingested, faults>>
  BY DEF Tracker!RequestUploadSlot
<1>3. "live" \in Tracker!Slots BY DEF Tracker!Slots
<1>4. /\ calls'["live"] = [at |-> "slot", slice |-> s, key |-> k]
      /\ \A c \in Tracker!Slots \ {"live"} : calls'[c] = calls[c]
      /\ calls' = [c \in Tracker!Slots |-> calls'[c]]
  BY <1>1, <1>3 DEF TrackerIInv, TrackerTypes
<1>5. KeysApart' BY <1>1, <1>4 DEF TrackerIInv, KeysApart, Making, Tracker!Unused
<1>6. ASSUME NEW c \in Tracker!Slots PROVE CallOK(c)'
  <2>1. CASE c # "live" BY <2>1, <1>2, <1>4 DEF TrackerIInv, CallOK, HasRow
  <2>2. CASE c = "live" BY <2>2, <1>1, <1>2, <1>4 DEF CallOK, Tracker!Unused
  <2> QED BY <2>1, <2>2
<1>7. DevOK' BY <1>2, <1>4 DEF DevOK, Making
<1> QED BY <1>2, <1>4, <1>5, <1>6, <1>7, RowsKept DEF TrackerIInv, TrackerTypes

(* The tracker keeps the slot it was given. *)
LEMMA SetSlotStep ==
  ASSUME TrackerIInv, Tracker!SetSlot
  PROVE  TrackerIInv'
<1>1. /\ dev.at = "slot" /\ dev.reply # None /\ dev.reply.ok
      /\ queue' = [queue EXCEPT ![dev.slice] = IF @ = "queued" THEN "slotted" ELSE @]
      /\ dev' = [dev EXCEPT !.at = "put"]
      /\ UNCHANGED <<calls, rows, objects, ingested, faults>>
  BY DEF Tracker!SetSlot, Tracker!Answered
<1>2. DevOK /\ TrackerTypes BY DEF TrackerIInv
<1>3. dev' = [at |-> "put", slice |-> dev.slice, reply |-> dev.reply] BY <1>1, <1>2 DEF DevOK
<1>4. HasRow(dev.reply.id, dev.slice) /\ dev.slice \in Slices /\ calls["live"] = None BY <1>1, <1>2 DEF DevOK
<1>5. DevOK' BY <1>1, <1>3, <1>4 DEF DevOK, HasRow
<1>6. /\ queue' \in [Slices -> {"queued", "slotted", "uploaded", "gone"}]
      /\ \A s \in Slices : queue'[s] = "gone" => queue[s] = "gone"
  BY <1>1, <1>2 DEF TrackerTypes
<1> QED BY <1>1, <1>5, <1>6, RowsKept, CallsKept DEF TrackerIInv, TrackerTypes

(* The tracker puts the encrypted blob. *)
LEMMA PutBlobStep ==
  ASSUME TrackerIInv, Tracker!PutBlob
  PROVE  TrackerIInv'
<1>1. PICK s : s = dev.slice OBVIOUS
<1>2. /\ dev.at = "put"
      /\ queue' = [queue EXCEPT ![s] = "uploaded"]
      /\ calls' = [calls EXCEPT !["live"] = [at |-> "confirm", id |-> dev.reply.id, key |-> None,
                 nonce |-> s, signature |-> Tracker!confirmSignedMessage(s, s)]]
      /\ dev' = [at |-> "confirm", slice |-> s, reply |-> None]
      /\ UNCHANGED <<rows, ingested, faults>>
  BY <1>1 DEF Tracker!PutBlob
<1>3. DevOK /\ TrackerTypes /\ s \in Slices /\ HasRow(dev.reply.id, s) /\ "live" \in Tracker!Slots
  BY <1>1, <1>2 DEF TrackerIInv, DevOK, Tracker!Slots
<1>4. /\ calls'["live"].at = "confirm" /\ calls'["live"].id = dev.reply.id
      /\ calls'["live"].nonce = s /\ calls'["live"].signature = <<s, s>>
      /\ \A c \in Tracker!Slots \ {"live"} : calls'[c] = calls[c]
      /\ calls' = [c \in Tracker!Slots |-> calls'[c]]
  BY <1>2, <1>3 DEF TrackerTypes, Tracker!confirmSignedMessage
<1>5. KeysApart' BY <1>4 DEF TrackerIInv, KeysApart, Making
<1>6. ASSUME NEW c \in Tracker!Slots PROVE CallOK(c)'
  <2>1. CASE c # "live" BY <2>1, <1>2, <1>4 DEF TrackerIInv, CallOK, HasRow
  <2>2. CASE c = "live" BY <2>2, <1>2, <1>3, <1>4 DEF CallOK, HasRow
  <2> QED BY <2>1, <2>2
<1>7. DevOK' BY <1>2, <1>3, <1>4 DEF DevOK, Making
<1>8. /\ queue' \in [Slices -> {"queued", "slotted", "uploaded", "gone"}]
      /\ \A x \in Slices : queue'[x] = "gone" => queue[x] = "gone"
  BY <1>2, <1>3 DEF TrackerTypes
<1> QED BY <1>2, <1>4, <1>5, <1>6, <1>7, <1>8, RowsKept DEF TrackerIInv, TrackerTypes

(* The tracker deletes what was confirmed. *)
LEMMA DeleteStep ==
  ASSUME TrackerIInv, Tracker!DeleteScreenshot
  PROVE  TrackerIInv'
<1>1. /\ dev.at = "confirm" /\ dev.reply # None /\ dev.reply.ok
      /\ queue' = [queue EXCEPT ![dev.slice] = "gone"]
      /\ dev' = Tracker!Resting
      /\ UNCHANGED <<calls, rows, objects, ingested, faults>>
  BY DEF Tracker!DeleteScreenshot, Tracker!Answered
<1>2. IsStored(dev.slice) /\ calls["live"] = None /\ TrackerTypes BY <1>1 DEF TrackerIInv, DevOK
<1>3. DevOK' BY <1>1, <1>2 DEF DevOK, Tracker!Resting
<1>4. /\ queue' \in [Slices -> {"queued", "slotted", "uploaded", "gone"}]
      /\ \A s \in Slices : queue'[s] = "gone" => queue[s] = "gone" \/ s = dev.slice
  BY <1>1, <1>2 DEF TrackerTypes
<1> QED BY <1>1, <1>2, <1>3, <1>4, RowsKept, CallsKept DEF TrackerIInv, TrackerTypes

(* The tracker gives up for a while. *)
LEMMA BackoffStep ==
  ASSUME TrackerIInv, Tracker!Backoff
  PROVE  TrackerIInv'
<1>1. /\ dev.reply # None /\ dev' = Tracker!Resting
      /\ UNCHANGED <<queue, calls, rows, objects, ingested, faults>>
  BY DEF Tracker!Backoff
<1>2. calls["live"] = None BY <1>1 DEF TrackerIInv, DevOK
<1>3. DevOK' BY <1>1, <1>2 DEF DevOK, Tracker!Resting
<1> QED BY <1>1, <1>3, RowsKept, CallsKept DEF TrackerIInv, TrackerTypes

(* A call that timed out is dropped or runs on in a late slot. *)
LEMMA FailStep ==
  ASSUME TrackerIInv, Tracker!Fail, "live" \notin Late
  PROVE  TrackerIInv'
<1>1. dev' = Tracker!Resting /\ UNCHANGED <<queue, rows, ingested>> BY DEF Tracker!Fail
<1>2. "live" \in Tracker!Slots /\ Late \subseteq Tracker!Slots /\ TrackerTypes
  BY DEF Tracker!Slots, TrackerIInv
<1>3. CASE calls' = [calls EXCEPT !["live"] = None]
  <2>1. /\ calls' = [c \in Tracker!Slots |-> calls'[c]] /\ calls'["live"] = None
        /\ \A c \in Tracker!Slots : calls'[c] = calls[c] \/ calls'[c] = None
    BY <1>2, <1>3 DEF TrackerTypes
  <2>2. DevOK' BY <1>1, <2>1 DEF DevOK, Tracker!Resting
  <2> QED BY <1>1, <2>1, <2>2, RowsKept, CallsKept DEF TrackerIInv, TrackerTypes
<1>4. CASE \E c \in Late : calls[c] = None /\ calls' = [calls EXCEPT ![c] = calls["live"], !["live"] = None]
  <2>1. PICK c \in Late : calls[c] = None /\ calls' = [calls EXCEPT ![c] = calls["live"], !["live"] = None]
    BY <1>4
  <2>2. c # "live" /\ c \in Tracker!Slots BY <1>2
  <2>3. /\ calls'[c] = calls["live"] /\ calls'["live"] = None
        /\ \A d \in Tracker!Slots \ {c, "live"} : calls'[d] = calls[d]
        /\ calls' = [d \in Tracker!Slots |-> calls'[d]]
    BY <1>2, <2>1, <2>2 DEF TrackerTypes
  <2>4. KeysApart' BY <1>2, <2>2, <2>3 DEF TrackerIInv, KeysApart, Making
  <2>5. ASSUME NEW d \in Tracker!Slots PROVE CallOK(d)'
    <3>1. CASE d = c BY <1>1, <1>2, <2>3, <3>1 DEF TrackerIInv, CallOK, HasRow
    <3>2. CASE d = "live" BY <2>3, <3>2 DEF CallOK
    <3>3. CASE d \notin {c, "live"} BY <1>1, <2>3, <3>3 DEF TrackerIInv, CallOK, HasRow
    <3> QED BY <3>1, <3>2, <3>3
  <2>6. DevOK' BY <1>1, <2>3 DEF DevOK, Tracker!Resting
  <2> QED BY <1>1, <2>3, <2>4, <2>5, <2>6, RowsKept DEF TrackerIInv, TrackerTypes
<1>5. CASE dev.at = "put" /\ UNCHANGED calls
  <2>1. calls["live"] = None BY <1>5 DEF TrackerIInv, DevOK, Making
  <2>2. DevOK' BY <1>1, <1>5, <2>1 DEF DevOK, Tracker!Resting
  <2> QED BY <1>1, <1>5, <2>2, RowsKept, CallsKept DEF TrackerIInv, TrackerTypes
<1> QED BY <1>3, <1>4, <1>5 DEF Tracker!Fail

(* So the invariant of the upload protocol always holds. *)
LEMMA TrackerInvariant == ASSUME "live" \notin Late PROVE Tracker!Spec => []TrackerIInv
<1>1. Tracker!Init => TrackerIInv BY TrackerInit
<1>2. TrackerIInv /\ Tracker!Next => TrackerIInv'
  BY LookupStep, InsertStep, ConfirmStep, ViewStep, RequestSlotStep, SetSlotStep, PutBlobStep, DeleteStep,
     BackoffStep, FailStep DEF Tracker!Next, Tracker!Serve, Tracker!Upload
<1>3. TrackerIInv /\ UNCHANGED Tracker!vars => TrackerIInv'
  <2> SUFFICES ASSUME TrackerIInv, UNCHANGED Tracker!vars PROVE TrackerIInv' OBVIOUS
  <2>1. UNCHANGED <<queue, dev, calls, rows, ingested>> BY DEF Tracker!vars
  <2>2. DevOK' BY <2>1 DEF TrackerIInv, DevOK, Making, HasRow, IsStored
  <2> QED BY <2>1, <2>2, RowsKept, CallsKept DEF TrackerIInv, TrackerTypes
<1> QED BY <1>1, <1>2, <1>3, PTL DEF Tracker!Spec

(* The instance counts with the same operator. *)
LEMMA TrackerCardinality ==
  ASSUME NEW S PROVE Tracker!Cardinality(S) = Cardinality(S)
BY DEF Tracker!Cardinality, Cardinality, Tracker!IsFiniteSet, IsFiniteSet

(* A set without two different members has at most one. *)
LEMMA AtMostOne ==
  ASSUME NEW S, \A x, y \in S : x = y
  PROVE  Cardinality(S) = IF S = {} THEN 0 ELSE 1
<1>1. CASE S = {} BY <1>1, FS_EmptySet
<1>2. CASE S # {}
  <2>1. PICK x \in S : S = {x} BY <1>2
  <2> QED BY <2>1, FS_Singleton
<1> QED BY <1>1, <1>2

(* The behaviours of the tracker and the screenshot service. *)
LEMMA TrackerPart == ServicesSpec => []~(part = "screenshots") \/ ([](part = "screenshots") /\ Tracker!Spec)
<1>1. ServicesInit /\ part = "screenshots" => Tracker!Init BY DEF ServicesInit
<1>2. part = "screenshots" /\ [ServicesNext]_allVars => (part = "screenshots")' /\ [Tracker!Next]_(Tracker!vars)
  <2>1. part = "screenshots" /\ ServicesNext => part' = "screenshots" /\ Tracker!Next BY DEF ServicesNext
  <2>2. UNCHANGED allVars => UNCHANGED part /\ UNCHANGED Tracker!vars
    BY DEF allVars, trackerVars, sharedVars, Tracker!vars
  <2> QED BY <2>1, <2>2
<1>3. ~(part = "screenshots") /\ [ServicesNext]_allVars => (~(part = "screenshots"))' BY DEF ServicesNext, allVars
<1> QED BY <1>1, <1>2, <1>3, PTL DEF ServicesSpec, Tracker!Spec

(* A screenshot is stored and announced once, although the tracker repeats
   calls that were lost or are served late, and what the tracker deleted is stored. *)
THEOREM ScreenshotsIngestedOnce ==
  ASSUME "live" \notin Late PROVE ServicesSpec => []IngestedOnce
<1>1. TrackerIInv => Tracker!IngestedOnce
  <2> SUFFICES ASSUME TrackerIInv, NEW s \in Slices
               PROVE  /\ Cardinality(Tracker!RowsOf(s)) <= 1
                      /\ ingested[s] = Cardinality({r \in Tracker!RowsOf(s) : r.status = "stored"})
                      /\ queue[s] = "gone" => ingested[s] = 1
    BY TrackerCardinality DEF Tracker!IngestedOnce
  <2>1. \A x, y \in Tracker!RowsOf(s) : x = y BY DEF TrackerIInv, RowsUnique, Tracker!RowsOf
  <2>2. Cardinality(Tracker!RowsOf(s)) <= 1 BY <2>1, AtMostOne
  <2>3. Cardinality({r \in Tracker!RowsOf(s) : r.status = "stored"})
          = IF {r \in Tracker!RowsOf(s) : r.status = "stored"} = {} THEN 0 ELSE 1
    BY <2>1, AtMostOne
  <2>4. {r \in Tracker!RowsOf(s) : r.status = "stored"} = {} <=> ~IsStored(s)
    BY DEF Tracker!RowsOf, IsStored
  <2> QED BY <2>2, <2>3, <2>4 DEF TrackerIInv, TrackerTypes
<1> QED BY <1>1, TrackerInvariant, TrackerPart, PTL DEF IngestedOnce

-----------------------------------------------------------------------------
(* What the device is told to encrypt with is what the row's key wraps. *)

Encrypts(k, s) == \E r \in rows : r.key = k /\ r.slice = s /\ objects[k] = r.dek

Readable ==
  /\ objects = [k \in DataKeys |-> objects[k]]
  /\ \A r \in rows : r.key \in DataKeys /\ (r.status = "stored" => objects[r.key] = r.dek)
  /\ \A c \in Tracker!Slots : Making(c) => calls[c].key \in DataKeys
  /\ \A c \in Tracker!Slots : calls[c] # None /\ calls[c].at = "confirm" => Encrypts(calls[c].id, calls[c].nonce)
  /\ dev.at = "slot" /\ dev.reply # None /\ dev.reply.ok => dev.reply.dek = <<"client", dev.slice>>
  /\ dev.at = "put" => dev.reply.dek = <<"client", dev.slice>>

ReadableIInv == TrackerIInv /\ Readable

(* A put of the client's own key into a row's object keeps all rows readable. *)
LEMMA PutReadable ==
  ASSUME ReadableIInv, Slices \subseteq ClientDEK, dev.at = "put",
         objects' = [objects EXCEPT ![dev.reply.id] = dev.reply.dek], UNCHANGED rows
  PROVE  /\ objects' = [k \in DataKeys |-> objects'[k]]
         /\ \A r \in rows' : r.key \in DataKeys /\ (r.status = "stored" => objects'[r.key] = r.dek)
         /\ \A k, s : Encrypts(k, s) => Encrypts(k, s)'
         /\ \A k, s : k = dev.reply.id /\ s = dev.slice => Encrypts(k, s)'
<1>1. PICK x \in rows : x.key = dev.reply.id /\ x.slice = dev.slice
  BY DEF ReadableIInv, TrackerIInv, DevOK, HasRow
<1>2. x.dek = dev.reply.dek /\ x.key \in DataKeys
  BY <1>1 DEF ReadableIInv, TrackerIInv, Readable, RowOK, Tracker!DEKOf
<1>3. objects' = [k \in DataKeys |-> objects'[k]] BY DEF ReadableIInv, Readable
<1>4. objects'[x.key] = x.dek /\ \A k \in DataKeys \ {x.key} : objects'[k] = objects[k]
  BY <1>1, <1>2 DEF ReadableIInv, Readable
<1>5. \A r \in rows : r.key \in DataKeys /\ (r.key = x.key => r = x) BY DEF ReadableIInv, Readable, TrackerIInv, RowsUnique
<1>6. \A r \in rows' : r.key \in DataKeys /\ (r.status = "stored" => objects'[r.key] = r.dek)
  BY <1>4, <1>5 DEF ReadableIInv, Readable
<1>7. \A k, s : Encrypts(k, s) => Encrypts(k, s)' BY <1>4, <1>5 DEF Encrypts
<1>8. \A k, s : k = dev.reply.id /\ s = dev.slice => Encrypts(k, s)' BY <1>1, <1>4 DEF Encrypts
<1> QED BY <1>3, <1>6, <1>7, <1>8

(* An answer, with the rows kept, one added, or one replaced. *)
LEMMA AnswerReadable ==
  ASSUME ReadableIInv, NEW c \in Tracker!Slots, calls[c] # None, NEW reply, Tracker!AnswerCall(c, reply),
         UNCHANGED objects,
         \A r \in rows : \E q \in rows' : q.key = r.key /\ q.slice = r.slice /\ q.dek = r.dek,
         \A q \in rows' : q.key \in DataKeys /\ (q.status = "stored" => objects[q.key] = q.dek),
         calls[c].at \in {"slot", "insert"} /\ reply.ok => reply.dek = <<"client", calls[c].slice>>
  PROVE  Readable'
<1>1. /\ calls' = [d \in Tracker!Slots |-> calls'[d]] /\ calls'[c] = None
      /\ \A d \in Tracker!Slots \ {c} : calls'[d] = calls[d]
      /\ c # "live" => dev' = dev
      /\ c = "live" => dev' = [at |-> dev.at, slice |-> dev.slice, reply |-> reply]
      /\ TrackerIInv /\ Readable /\ DevOK
  BY CallAnswered DEF ReadableIInv, TrackerIInv
<1>2. \A k, s : Encrypts(k, s) => Encrypts(k, s)' BY DEF Encrypts
<1>3. \A d \in Tracker!Slots : calls'[d] # None => calls'[d] = calls[d] BY <1>1
<1>4. \A d \in Tracker!Slots : Making(d)' => calls'[d].key \in DataKeys BY <1>1, <1>3 DEF Making, Readable
<1>5. ASSUME NEW d \in Tracker!Slots, calls'[d] # None /\ calls'[d].at = "confirm"
      PROVE  Encrypts(calls[d].id, calls[d].nonce)'
  <2>1. calls'[d] = calls[d] BY <1>3, <1>5
  <2>2. PICK k, s : k = calls[d].id /\ s = calls[d].nonce OBVIOUS
  <2>3. Encrypts(k, s) BY <1>1, <1>5, <2>1, <2>2 DEF Readable
  <2>4. Encrypts(k, s)' BY <1>2, <2>3
  <2> QED BY <2>1, <2>2, <2>4
<1>6. /\ dev'.at = "slot" /\ dev'.reply # None /\ dev'.reply.ok => dev'.reply.dek = <<"client", dev'.slice>>
      /\ dev'.at = "put" => dev'.reply.dek = <<"client", dev'.slice>>
  <2>1. CASE c # "live" BY <1>1, <2>1 DEF Readable
  <2>2. CASE c = "live"
    <3>1. dev'.at = dev.at /\ dev'.slice = dev.slice /\ dev'.reply = reply BY <1>1, <2>2
    <3>2. dev.at # "put" /\ (dev.at = "slot" => calls[c].at \in {"slot", "insert"} /\ dev.slice = calls[c].slice)
      BY <1>1, <2>2 DEF DevOK, Making
    <3> QED BY <3>1, <3>2
  <2> QED BY <2>1, <2>2
<1> QED BY <1>1, <1>4, <1>5, <1>6 DEF Readable

(* A served call keeps what is stored readable. *)
LEMMA ServeReadable ==
  ASSUME ReadableIInv, Slices \subseteq ClientDEK, NEW c \in Tracker!Slots, Tracker!Serve(c)
  PROVE  Readable'
<1>0. TrackerIInv /\ Readable /\ CallOK(c) BY DEF ReadableIInv, TrackerIInv
<1>1. CASE Tracker!CreateSlotLookup(c)
  <2>1. /\ calls[c] # None /\ calls[c].at = "slot" /\ UNCHANGED <<rows, objects>>
    BY <1>1 DEF Tracker!CreateSlotLookup
  <2>2. CASE Tracker!RowsOf(calls[c].slice) # {}
    <3>1. PICK row \in Tracker!RowsOf(calls[c].slice) : Tracker!AnswerCall(c, Tracker!SlotAnswer(row, calls[c].key))
      BY <1>1, <2>2 DEF Tracker!CreateSlotLookup
    <3>2. PICK reply : reply = Tracker!SlotAnswer(row, calls[c].key) OBVIOUS
    <3>3. row \in rows /\ row.slice = calls[c].slice /\ row.slice \in Slices
      BY <1>0 DEF Tracker!RowsOf, TrackerIInv, RowOK
    <3>4. reply.dek = <<"client", calls[c].slice>> BY <3>2, <3>3 DEF Tracker!SlotAnswer, Tracker!DEKOf
    <3> QED BY <1>0, <2>1, <3>1, <3>2, <3>4, AnswerReadable DEF Readable
  <2>3. CASE Tracker!RowsOf(calls[c].slice) = {}
    <3>1. calls' = [calls EXCEPT ![c].at = "insert"] /\ dev' = dev
      BY <1>1, <2>3 DEF Tracker!CreateSlotLookup
    <3>2. /\ \A d \in Tracker!Slots \ {c} : calls'[d] = calls[d]
          /\ calls'[c] = [at |-> "insert", slice |-> calls[c].slice, key |-> calls[c].key]
      BY <2>1, <1>0, <3>1 DEF TrackerIInv, TrackerTypes, CallOK
    <3>3. \A d \in Tracker!Slots : Making(d)' => calls'[d].key \in DataKeys BY <1>0, <2>1, <3>2 DEF Making, Readable
    <3>4. \A d \in Tracker!Slots : calls'[d] # None /\ calls'[d].at = "confirm" => calls'[d] = calls[d] BY <3>2
    <3>5. \A k, s : Encrypts(k, s)' <=> Encrypts(k, s) BY <2>1 DEF Encrypts
    <3> QED BY <1>0, <2>1, <3>1, <3>3, <3>4, <3>5 DEF Readable
  <2> QED BY <2>2, <2>3
<1>2. CASE Tracker!CreateSlotInsert(c)
  <2>1. PICK row : row = Tracker!NewSlot(calls[c].slice, calls[c].key) OBVIOUS
  <2>2. /\ calls[c] # None /\ calls[c].at = "insert" /\ objects' = objects
        /\ IF Tracker!UniqueSlice(row.slice)
           THEN rows' = rows \cup {row} /\ Tracker!AnswerCall(c, Tracker!SlotAnswer(row, row.key))
           ELSE UNCHANGED rows /\ Tracker!AnswerCall(c, [ok |-> FALSE])
    BY <1>2, <2>1 DEF Tracker!CreateSlotInsert
  <2>3. /\ row.slice = calls[c].slice /\ row.key = calls[c].key /\ row.status = "pending_upload"
        /\ row.slice \in Slices /\ row.key \in DataKeys
    BY <1>0, <2>1, <2>2 DEF Tracker!NewSlot, CallOK, Readable, Making
  <2>4. CASE Tracker!UniqueSlice(row.slice)
    <3>1. PICK reply : reply = Tracker!SlotAnswer(row, row.key) OBVIOUS
    <3>2. reply.dek = <<"client", calls[c].slice>> BY <3>1, <2>3 DEF Tracker!SlotAnswer, Tracker!DEKOf
    <3>3. /\ rows' = rows \cup {row} /\ Tracker!AnswerCall(c, reply)
          /\ \A r \in rows : \E q \in rows' : q.key = r.key /\ q.slice = r.slice /\ q.dek = r.dek
          /\ \A q \in rows' : q.key \in DataKeys /\ (q.status = "stored" => objects[q.key] = q.dek)
      BY <1>0, <2>2, <2>3, <2>4, <3>1 DEF Readable
    <3> QED BY <2>2, <3>2, <3>3, AnswerReadable
  <2>5. CASE ~Tracker!UniqueSlice(row.slice)
    <3>1. PICK reply : reply = [ok |-> FALSE] OBVIOUS
    <3>2. ~reply.ok /\ rows' = rows /\ Tracker!AnswerCall(c, reply) BY <2>2, <2>5, <3>1
    <3> QED BY <1>0, <2>2, <3>2, AnswerReadable DEF Readable
  <2> QED BY <2>4, <2>5
<1>3. CASE Tracker!ConfirmUpload(c)
  <2> DEFINE found == {r \in rows : r.key = calls[c].id /\ r.status = "pending_upload"
                         /\ calls[c].signature = Tracker!confirmSignedMessage(calls[c].nonce, r.slice)}
  <2>1. /\ calls[c] # None /\ calls[c].at = "confirm" /\ objects' = objects
        /\ IF found = {} THEN Tracker!AnswerCall(c, [ok |-> FALSE]) /\ UNCHANGED <<rows, ingested>>
           ELSE \E row \in found :
              /\ rows' = (rows \ {row}) \cup {[row EXCEPT !.status = "stored", !.nonce = calls[c].nonce]}
              /\ Tracker!AnswerCall(c, [ok |-> TRUE])
    BY <1>3 DEF Tracker!ConfirmUpload
  <2>2. CASE found = {}
    <3>1. PICK reply : reply = [ok |-> FALSE] OBVIOUS
    <3>2. ~reply.ok /\ rows' = rows /\ Tracker!AnswerCall(c, reply) BY <2>1, <2>2, <3>1
    <3> QED BY <1>0, <2>1, <3>2, AnswerReadable DEF Readable
  <2>3. CASE found # {}
    <3>1. PICK row \in found :
              /\ rows' = (rows \ {row}) \cup {[row EXCEPT !.status = "stored", !.nonce = calls[c].nonce]}
              /\ Tracker!AnswerCall(c, [ok |-> TRUE])
      BY <2>1, <2>3
    <3>2. PICK q : q = [row EXCEPT !.status = "stored", !.nonce = calls[c].nonce] OBVIOUS
    <3>3. row \in rows /\ RowOK(row) /\ row.key = calls[c].id BY <1>0 DEF TrackerIInv
    <3>4. q.slice = row.slice /\ q.key = row.key /\ q.dek = row.dek BY <3>2, <3>3 DEF RowOK
    <3>5. objects[row.key] = row.dek
      BY <1>0, <2>1, <3>3 DEF Readable, Encrypts, TrackerIInv, RowsUnique
    <3>6. /\ rows' = (rows \ {row}) \cup {q}
          /\ \A r \in rows : \E x \in rows' : x.key = r.key /\ x.slice = r.slice /\ x.dek = r.dek
          /\ \A x \in rows' : x.key \in DataKeys /\ (x.status = "stored" => objects[x.key] = x.dek)
      BY <1>0, <3>1, <3>2, <3>3, <3>4, <3>5 DEF Readable
    <3>7. PICK reply : reply = [ok |-> TRUE] OBVIOUS
    <3> QED BY <2>1, <3>1, <3>6, <3>7, AnswerReadable
  <2> QED BY <2>2, <2>3
<1> QED BY <1>1, <1>2, <1>3 DEF Tracker!Serve

(* A view keeps what is stored readable. *)
LEMMA ViewReadable ==
  ASSUME ReadableIInv, NEW u, NEW r \in rows, Tracker!GetScreenshot(u, r)
  PROVE  Readable'
<1>1. /\ rows' = (rows \ {r}) \cup {[r EXCEPT !.views = @ + 1]} /\ UNCHANGED <<dev, calls, objects>>
  BY DEF Tracker!GetScreenshot, Tracker!RecordView
<1>2. PICK q : q = [r EXCEPT !.views = @ + 1] OBVIOUS
<1>3. RowOK(r) /\ Readable BY DEF ReadableIInv, TrackerIInv
<1>4. q.slice = r.slice /\ q.key = r.key /\ q.dek = r.dek /\ q.status = r.status /\ rows' = (rows \ {r}) \cup {q}
  BY <1>1, <1>2, <1>3 DEF RowOK
<1>5. \A k, s : Encrypts(k, s) => Encrypts(k, s)' BY <1>1, <1>4 DEF Encrypts
<1>6. \A x \in rows' : x.key \in DataKeys /\ (x.status = "stored" => objects'[x.key] = x.dek)
  BY <1>1, <1>3, <1>4 DEF Readable
<1> QED BY <1>1, <1>3, <1>5, <1>6 DEF Readable, Making

(* A step of the tracker keeps what is stored readable. *)
LEMMA DeviceReadable ==
  ASSUME ReadableIInv, Slices \subseteq ClientDEK, "live" \notin Late, Tracker!Upload \/ Tracker!Fail
  PROVE  Readable'
<1>0. /\ TrackerIInv /\ Readable /\ DevOK /\ TrackerTypes /\ "live" \in Tracker!Slots /\ Late \subseteq Tracker!Slots
  BY DEF ReadableIInv, TrackerIInv, Tracker!Slots
<1>1. ASSUME NEW s \in Slices, Tracker!RequestUploadSlot(s) PROVE Readable'
  <2>1. PICK k \in DataKeys : calls' = [calls EXCEPT !["live"] = [at |-> "slot", slice |-> s, key |-> k]]
    BY <1>1 DEF Tracker!RequestUploadSlot
  <2>2. dev' = [at |-> "slot", slice |-> s, reply |-> None] /\ UNCHANGED <<rows, objects>>
    BY <1>1 DEF Tracker!RequestUploadSlot
  <2>3. /\ calls'["live"] = [at |-> "slot", slice |-> s, key |-> k]
        /\ \A c \in Tracker!Slots \ {"live"} : calls'[c] = calls[c]
    BY <2>1, <1>0 DEF TrackerTypes
  <2>4. \A d \in Tracker!Slots : Making(d)' => calls'[d].key \in DataKeys BY <1>0, <2>3 DEF Making, Readable
  <2>5. \A d \in Tracker!Slots : calls'[d] # None /\ calls'[d].at = "confirm" => calls'[d] = calls[d] BY <2>3
  <2>6. \A i, j : Encrypts(i, j)' <=> Encrypts(i, j) BY <2>2 DEF Encrypts
  <2>7. dev'.at = "slot" /\ dev'.reply = None BY <2>2
  <2> QED BY <1>0, <2>2, <2>4, <2>5, <2>6, <2>7 DEF Readable
<1>2. CASE Tracker!SetSlot
  <2>1. /\ dev.at = "slot" /\ dev.reply # None /\ dev.reply.ok /\ dev' = [dev EXCEPT !.at = "put"]
        /\ UNCHANGED <<calls, rows, objects>>
    BY <1>2 DEF Tracker!SetSlot, Tracker!Answered
  <2>2. dev'.at = "put" /\ dev'.reply = dev.reply /\ dev'.slice = dev.slice BY <2>1, <1>0 DEF DevOK
  <2> QED BY <1>0, <2>1, <2>2 DEF Readable, Making, Encrypts
<1>3. CASE Tracker!PutBlob
  <2>1. PICK s : s = dev.slice OBVIOUS
  <2>2. /\ dev.at = "put" /\ UNCHANGED rows
        /\ objects' = [objects EXCEPT ![dev.reply.id] = dev.reply.dek]
        /\ calls' = [calls EXCEPT !["live"] = [at |-> "confirm", id |-> dev.reply.id, key |-> None,
                   nonce |-> s, signature |-> Tracker!confirmSignedMessage(s, s)]]
        /\ dev' = [at |-> "confirm", slice |-> s, reply |-> None]
    BY <1>3, <2>1 DEF Tracker!PutBlob
  <2>3. /\ objects' = [k \in DataKeys |-> objects'[k]]
        /\ \A r \in rows' : r.key \in DataKeys /\ (r.status = "stored" => objects'[r.key] = r.dek)
        /\ \A k, x : Encrypts(k, x) => Encrypts(k, x)'
        /\ \A k, x : k = dev.reply.id /\ x = dev.slice => Encrypts(k, x)'
    BY <2>2, PutReadable
  <2>4. /\ calls'["live"].at = "confirm" /\ calls'["live"].id = dev.reply.id /\ calls'["live"].nonce = s
        /\ \A c \in Tracker!Slots \ {"live"} : calls'[c] = calls[c]
    BY <2>2, <1>0 DEF TrackerTypes
  <2>5. \A d \in Tracker!Slots : Making(d)' => calls'[d].key \in DataKeys BY <1>0, <2>4 DEF Making, Readable
  <2>6. ASSUME NEW d \in Tracker!Slots, calls'[d] # None /\ calls'[d].at = "confirm"
        PROVE  Encrypts(calls[d].id, calls[d].nonce)'
    <3>1. CASE d = "live" BY <3>1, <2>1, <2>3, <2>4
    <3>2. CASE d # "live" BY <3>2, <2>3, <2>4, <2>6, <1>0 DEF Readable
    <3> QED BY <3>1, <3>2
  <2>7. dev'.at = "confirm" BY <2>2
  <2> QED BY <2>3, <2>5, <2>6, <2>7 DEF Readable
<1>4. CASE Tracker!DeleteScreenshot \/ Tracker!Backoff
  <2>1. dev' = Tracker!Resting /\ UNCHANGED <<calls, rows, objects>>
    BY <1>4 DEF Tracker!DeleteScreenshot, Tracker!Backoff
  <2>2. dev'.at = "rest" BY <2>1 DEF Tracker!Resting
  <2> QED BY <1>0, <2>1, <2>2 DEF Readable, Making, Encrypts
<1>5. CASE Tracker!Fail
  <2>1. dev' = Tracker!Resting /\ UNCHANGED <<queue, rows, ingested>> /\ dev'.at = "rest"
    BY <1>5 DEF Tracker!Fail, Tracker!Resting
  <2>2. CASE dev.at = "put" /\ UNCHANGED calls /\ objects' = [objects EXCEPT ![dev.reply.id] = dev.reply.dek]
    <3>1. /\ objects' = [k \in DataKeys |-> objects'[k]]
          /\ \A r \in rows' : r.key \in DataKeys /\ (r.status = "stored" => objects'[r.key] = r.dek)
          /\ \A k, x : Encrypts(k, x) => Encrypts(k, x)'
      BY <2>1, <2>2, PutReadable
    <3> QED BY <1>0, <2>1, <2>2, <3>1 DEF Readable, Making
  <2>3. CASE objects' = objects /\ \A c \in Tracker!Slots : calls'[c] # None => \E d \in Tracker!Slots : calls'[c] = calls[d]
    <3>1. \A d \in Tracker!Slots : Making(d)' => calls'[d].key \in DataKeys BY <1>0, <2>3 DEF Making, Readable
    <3>2. \A i, j : Encrypts(i, j)' <=> Encrypts(i, j) BY <2>1, <2>3 DEF Encrypts
    <3> QED BY <1>0, <2>1, <2>3, <3>1, <3>2 DEF Readable
  <2>4. CASE calls' = [calls EXCEPT !["live"] = None] /\ UNCHANGED objects
    BY <2>3, <2>4, <1>0 DEF TrackerTypes
  <2>5. CASE /\ UNCHANGED objects
             /\ \E c \in Late : calls[c] = None /\ calls' = [calls EXCEPT ![c] = calls["live"], !["live"] = None]
    BY <2>3, <2>5, <1>0 DEF TrackerTypes
  <2> QED BY <1>5, <2>2, <2>4, <2>5 DEF Tracker!Fail
<1> QED BY <1>1, <1>2, <1>3, <1>4, <1>5 DEF Tracker!Upload

(* What is stored can be decrypted with the key the row names, when every
   tracker sends its data key. *)
THEOREM ScreenshotsReadable ==
  ASSUME "live" \notin Late, Slices \subseteq ClientDEK
  PROVE  ServicesSpec => []StoredReadable
<1>1. Tracker!Init /\ TrackerIInv => ReadableIInv
  BY DEF Tracker!Init, ReadableIInv, Readable, Making, Tracker!Resting
<1>2. ReadableIInv /\ TrackerIInv' /\ Tracker!Next => ReadableIInv'
  BY ServeReadable, ViewReadable, DeviceReadable DEF Tracker!Next, ReadableIInv
<1>3. ReadableIInv /\ TrackerIInv' /\ UNCHANGED Tracker!vars => ReadableIInv'
  BY DEF Tracker!vars, ReadableIInv, Readable, Making, Encrypts
<1>4. ReadableIInv => Tracker!StoredReadable
  BY DEF ReadableIInv, TrackerIInv, Readable, RowOK, Tracker!StoredReadable, Tracker!ListByContract, Tracker!GetForView
<1> QED BY <1>1, <1>2, <1>3, <1>4, TrackerInvariant, TrackerPart, PTL DEF StoredReadable, Tracker!Spec

-----------------------------------------------------------------------------
(* Notifications *)

NoticeRows ==
  [event : Events, user : Accounts, read : BOOLEAN, sent : SUBSET Channels, queued : SUBSET Channels,
   ever : SUBSET Channels, always : SUBSET Channels]

InsertTxs == [at : {"insert"}, ever : SUBSET Channels, always : SUBSET Channels]
SendTxs ==
  [at : {"send"}, ever : SUBSET Channels, always : SUBSET Channels,
   todo : SUBSET (Channels \cup {Notice!defaultChannel}), sent : SUBSET Channels, queued : SUBSET Channels]
HandlingTxs == {[at |-> "rest"], [at |-> "mark"]} \cup InsertTxs \cup SendTxs

NoticeTypes ==
  /\ prefs \in [Accounts -> [Channels -> {"unset", "on", "off"}]]
  /\ notifications \in Seq(NoticeRows)
  /\ delivered \in [Events -> [Channels -> Nat]]
  /\ handling \in [Events -> HandlingTxs]
  /\ faults \in Nat

(* The channels tried are the ones enabled, or the default one. *)
TriedOK(tried, ever, always) ==
  /\ always \subseteq tried /\ tried # {}
  /\ tried \subseteq ever \/ (tried = {Notice!defaultChannel} /\ always = {})

InFlight(e) == handling[e].at \in {"insert", "send"}

(* A transaction in flight knows the preferences since it began. *)
HandlingOK(e) ==
  /\ handling[e].at = "mark" => e \notin Dispatched
  /\ InFlight(e) =>
       /\ RecipientOf[e] \in Accounts
       /\ handling[e].always \subseteq Notice!Enabled(prefs, RecipientOf[e])
       /\ Notice!Enabled(prefs, RecipientOf[e]) \subseteq handling[e].ever
  /\ handling[e].at = "send" =>
       /\ TriedOK(handling[e].todo \cup handling[e].sent \cup handling[e].queued, handling[e].ever, handling[e].always)
       /\ handling[e].todo \cap (handling[e].sent \cup handling[e].queued) = {}
       /\ handling[e].sent \cap handling[e].queued = {}

NoticeOK(n) == TriedOK(n.sent \cup n.queued, n.ever, n.always) /\ n.sent \cap n.queued = {}

SentRows(e, ch) == {i \in DOMAIN notifications : notifications[i].event = e /\ ch \in notifications[i].sent}
SentNow(e, ch) == IF handling[e].at = "send" /\ ch \in handling[e].sent THEN 1 ELSE 0

(* Marked attempts, those of the transaction in flight too, were delivered. *)
AttemptsDelivered(e, ch) == Cardinality(SentRows(e, ch)) + SentNow(e, ch) <= delivered[e][ch]

(* Without a fault an event with a row is never handled again. *)
HandledOnce ==
  /\ \A e \in processed : handling[e].at = "rest"
  /\ \A i \in DOMAIN notifications : notifications[i].event \notin Dispatched =>
       notifications[i].event \in processed \/ handling[notifications[i].event].at = "mark"
  /\ \A i, j \in DOMAIN notifications :
       notifications[i].event = notifications[j].event => i = j \/ notifications[i].event \in Dispatched

NoticeIInv ==
  /\ NoticeTypes
  /\ \A e \in Events : HandlingOK(e)
  /\ \A i \in DOMAIN notifications : NoticeOK(notifications[i])
  /\ \A e \in Events, ch \in Channels : AttemptsDelivered(e, ch)
  /\ processed \subseteq Events \ Dispatched
  /\ faults = 0 => HandledOnce

Recipients == \A e \in Events : RecipientOf[e] \in Accounts \cup {None}

(* The invariant of the notification service holds at first. *)
LEMMA NoticeInit == Notice!Init => NoticeIInv
<1> SUFFICES ASSUME Notice!Init PROVE NoticeIInv OBVIOUS
<1>1. /\ notifications = <<>> /\ processed = {} /\ faults = 0
      /\ handling = [e \in Events |-> [at |-> "rest"]] /\ delivered = [e \in Events |-> [ch \in Channels |-> 0]]
      /\ prefs = [u \in Accounts |-> [ch \in Channels |-> "unset"]]
  BY DEF Notice!Init, Notice!Resting
<1>2. NoticeTypes BY <1>1 DEF NoticeTypes, HandlingTxs
<1>3. \A e \in Events : HandlingOK(e) BY <1>1 DEF HandlingOK, InFlight
<1>4. ASSUME NEW e \in Events, NEW ch \in Channels PROVE AttemptsDelivered(e, ch)
  <2>1. SentRows(e, ch) = {} /\ SentNow(e, ch) = 0 BY <1>1 DEF SentRows, SentNow
  <2>2. Cardinality(SentRows(e, ch)) = 0 BY <2>1, FS_EmptySet
  <2> QED BY <2>1, <2>2, <1>1 DEF AttemptsDelivered
<1>5. HandledOnce BY <1>1 DEF HandledOnce
<1> QED BY <1>1, <1>2, <1>3, <1>4, <1>5 DEF NoticeIInv

(* The attempts recorded for an event are finitely many. *)
LEMMA SentRowsFinite ==
  ASSUME NoticeTypes, NEW e, NEW ch
  PROVE  IsFiniteSet(SentRows(e, ch)) /\ Cardinality(SentRows(e, ch)) \in Nat
<1>1. SentRows(e, ch) \in SUBSET DOMAIN notifications BY DEF SentRows
<1> QED BY <1>1, PlacesFinite DEF NoticeTypes

(* What a transaction holds depends on where it is. *)
LEMMA HandlingShape ==
  ASSUME NoticeTypes, NEW e \in Events
  PROVE  /\ handling[e].at = "insert" => handling[e] \in InsertTxs
         /\ handling[e].at = "send" => handling[e] \in SendTxs
<1>1. handling[e] \in HandlingTxs BY DEF NoticeTypes
<1>2. \A t \in {[at |-> "rest"], [at |-> "mark"]} : t.at \in {"rest", "mark"} OBVIOUS
<1>3. \A t \in InsertTxs : t.at = "insert" BY DEF InsertTxs
<1>4. \A t \in SendTxs : t.at = "send" BY DEF SendTxs
<1> QED BY <1>1, <1>2, <1>3, <1>4 DEF HandlingTxs

(* A step of one event's transaction that changes neither rows nor preferences. *)
LEMMA HandlingStep ==
  ASSUME NoticeIInv, NEW e \in Events, NEW t \in HandlingTxs, handling' = [handling EXCEPT ![e] = t],
         UNCHANGED <<prefs, notifications>>, delivered' \in [Events -> [Channels -> Nat]], faults' \in Nat,
         HandlingOK(e)',
         \A ch \in Channels : AttemptsDelivered(e, ch)',
         \A o \in Events \ {e}, ch \in Channels : delivered'[o][ch] = delivered[o][ch],
         processed' \subseteq Events \ Dispatched,
         faults' = 0 => HandledOnce'
  PROVE  NoticeIInv'
<1>1. \A o \in Events \ {e} : handling'[o] = handling[o] BY DEF NoticeIInv, NoticeTypes
<1>2. NoticeTypes' BY DEF NoticeIInv, NoticeTypes
<1>3. ASSUME NEW o \in Events PROVE HandlingOK(o)'
  <2>1. CASE o # e
    <3>1. HandlingOK(o) /\ handling'[o] = handling[o] /\ prefs' = prefs BY <2>1, <1>1 DEF NoticeIInv
    <3> QED BY <3>1 DEF HandlingOK, InFlight
  <2> QED BY <2>1
<1>4. ASSUME NEW o \in Events, NEW ch \in Channels PROVE AttemptsDelivered(o, ch)'
  <2>1. CASE o # e
    <3>1. AttemptsDelivered(o, ch) /\ handling'[o] = handling[o] /\ delivered'[o][ch] = delivered[o][ch]
          /\ notifications' = notifications
      BY <2>1, <1>1 DEF NoticeIInv
    <3> QED BY <3>1 DEF AttemptsDelivered, SentRows, SentNow
  <2> QED BY <2>1
<1> QED BY <1>2, <1>3, <1>4 DEF NoticeIInv, NoticeOK

(* A transaction begins. *)
LEMMA BeginStep ==
  ASSUME NoticeIInv, Recipients, NEW e \in Events, handling[e].at = "rest",
         e \notin Dispatched => e \notin processed, RecipientOf[e] # None,
         handling' = [handling EXCEPT ![e] = Notice!Begun(RecipientOf[e])],
         UNCHANGED <<prefs, notifications, delivered, processed, faults>>
  PROVE  NoticeIInv'
<1>1. PICK t : t = Notice!Begun(RecipientOf[e]) OBVIOUS
<1>2. /\ t.at = "insert" /\ t.ever = Notice!Enabled(prefs, RecipientOf[e])
      /\ t.always = Notice!Enabled(prefs, RecipientOf[e]) /\ RecipientOf[e] \in Accounts /\ t \in HandlingTxs
  BY <1>1 DEF Notice!Begun, Notice!Enabled, HandlingTxs, InsertTxs, Recipients
<1>3. handling'[e] = t /\ handling' = [handling EXCEPT ![e] = t] /\ \A o \in Events \ {e} : handling'[o] = handling[o]
  BY <1>1 DEF NoticeIInv, NoticeTypes
<1>4. HandlingOK(e)' BY <1>2, <1>3 DEF HandlingOK, InFlight
<1>5. \A ch \in Channels : AttemptsDelivered(e, ch)'
  BY <1>2, <1>3 DEF NoticeIInv, AttemptsDelivered, SentRows, SentNow
<1>6. faults' = 0 => HandledOnce'
  <2> SUFFICES ASSUME faults = 0 PROVE HandledOnce' OBVIOUS
  <2>0. \A i \in DOMAIN notifications : notifications[i] \in NoticeRows BY DEF NoticeIInv, NoticeTypes
  <2>1. HandledOnce /\ \A i \in DOMAIN notifications : notifications[i].event \in Events
    BY <2>0 DEF NoticeIInv, NoticeRows
  <2>2. e \in Dispatched \/ \A i \in DOMAIN notifications : notifications[i].event # e BY <2>1 DEF HandledOnce
  <2>3. CASE e \in Dispatched BY <2>1, <2>3, <1>3 DEF HandledOnce, NoticeIInv
  <2>4. CASE e \notin Dispatched BY <2>1, <2>2, <2>4, <1>3 DEF HandledOnce, NoticeIInv
  <2> QED BY <2>3, <2>4
<1> QED BY <1>2, <1>3, <1>4, <1>5, <1>6, HandlingStep DEF NoticeIInv, NoticeTypes

(* A step that leaves the rows alone and records no attempt of e. *)
LEMMA RawEventStep ==
  ASSUME NoticeIInv, Recipients, NEW e \in Events, Notice!HandleRawEvent(e)
  PROVE  NoticeIInv'
<1>1. /\ e \notin Dispatched \cup processed /\ handling[e].at = "rest"
      /\ handling' = [handling EXCEPT ![e] = IF RecipientOf[e] = None THEN [at |-> "mark"] ELSE Notice!Begun(RecipientOf[e])]
      /\ UNCHANGED <<prefs, notifications, delivered, processed, faults>>
  BY DEF Notice!HandleRawEvent, Notice!recipient
<1>2. CASE RecipientOf[e] # None BY <1>1, <1>2, BeginStep
<1>3. CASE RecipientOf[e] = None
  <2>1. PICK t : t = [at |-> "mark"] OBVIOUS
  <2>2. /\ t \in HandlingTxs /\ t.at = "mark" /\ handling' = [handling EXCEPT ![e] = t] /\ handling'[e] = t
        /\ \A o \in Events \ {e} : handling'[o] = handling[o]
    BY <1>1, <1>3, <2>1 DEF HandlingTxs, NoticeIInv, NoticeTypes
  <2>3. HandlingOK(e)' BY <1>1, <2>2 DEF HandlingOK, InFlight
  <2>4. \A ch \in Channels : AttemptsDelivered(e, ch)'
    BY <1>1, <2>2 DEF NoticeIInv, AttemptsDelivered, SentRows, SentNow
  <2>5. \A i \in DOMAIN notifications : notifications[i] \in NoticeRows BY DEF NoticeIInv, NoticeTypes
  <2>6. \A i \in DOMAIN notifications : notifications[i].event \in Events BY <2>5 DEF NoticeRows
  <2>7. faults' = 0 => HandledOnce'
    BY <1>1, <2>2, <2>6 DEF NoticeIInv, HandledOnce
  <2> QED BY <1>1, <2>2, <2>3, <2>4, <2>7, HandlingStep DEF NoticeIInv, NoticeTypes
<1> QED BY <1>2, <1>3

(* An event is handled from its first channel on. *)
LEMMA DispatchStep ==
  ASSUME NoticeIInv, Recipients, NEW e \in Events, Notice!dispatch(e)
  PROVE  NoticeIInv'
BY BeginStep DEF Notice!dispatch, Notice!recipient

(* The channels are read: those on now were on at some time, and those on
   all the time are on now. *)
LEMMA HandleEventStep ==
  ASSUME NoticeIInv, NEW e \in Events, Notice!HandleEvent(e)
  PROVE  NoticeIInv'
<1>1. /\ handling[e].at = "insert"
      /\ handling' = [handling EXCEPT ![e] =
           [at |-> "send", ever |-> @.ever, always |-> @.always, todo |-> Notice!ChannelsOf(e), sent |-> {}, queued |-> {}]]
      /\ UNCHANGED <<prefs, notifications, delivered, processed, faults>>
  BY DEF Notice!HandleEvent
<1>2. PICK on : on = Notice!ChannelsOf(e) OBVIOUS
<1>3. PICK t : t = [at |-> "send", ever |-> handling[e].ever, always |-> handling[e].always,
                    todo |-> on, sent |-> {}, queued |-> {}]
  OBVIOUS
<1>4. handling[e] \in InsertTxs /\ HandlingOK(e)
  BY <1>1, HandlingShape DEF NoticeIInv
<1>5. /\ t \in HandlingTxs /\ handling' = [handling EXCEPT ![e] = t] /\ handling'[e] = t
      /\ \A o \in Events \ {e} : handling'[o] = handling[o]
  <2>1. on \subseteq Channels \cup {Notice!defaultChannel}
    BY <1>2 DEF Notice!ChannelsOf, Notice!EnabledChannels, Notice!Enabled
  <2>2. t \in HandlingTxs BY <1>3, <1>4, <2>1 DEF HandlingTxs, SendTxs, InsertTxs
  <2> QED BY <1>1, <1>2, <1>3, <2>2 DEF NoticeIInv, NoticeTypes
<1>6. /\ t.at = "send" /\ t.todo = on /\ t.sent = {} /\ t.queued = {}
      /\ t.ever = handling[e].ever /\ t.always = handling[e].always
  BY <1>3
<1>7. TriedOK(on, t.ever, t.always)
  BY <1>1, <1>2, <1>4, <1>6
     DEF TriedOK, HandlingOK, InFlight, Notice!ChannelsOf, Notice!EnabledChannels, Notice!recipient
<1>8. on \cup {} \cup {} = on OBVIOUS
<1>9. HandlingOK(e)' BY <1>1, <1>4, <1>5, <1>6, <1>7, <1>8 DEF HandlingOK, InFlight
<1>10. \A ch \in Channels : AttemptsDelivered(e, ch)'
  BY <1>1, <1>5, <1>6 DEF NoticeIInv, AttemptsDelivered, SentRows, SentNow
<1>11. \A i \in DOMAIN notifications : notifications[i] \in NoticeRows BY DEF NoticeIInv, NoticeTypes
<1>12. \A i \in DOMAIN notifications : notifications[i].event \in Events BY <1>11 DEF NoticeRows
<1>13. faults' = 0 => HandledOnce'
  BY <1>1, <1>5, <1>12 DEF NoticeIInv, HandledOnce
<1> QED BY <1>1, <1>5, <1>9, <1>10, <1>13, HandlingStep DEF NoticeIInv, NoticeTypes

(* A sender takes the attempt, or fails and leaves it queued. *)
LEMMA SendStep ==
  ASSUME NoticeIInv, NEW e \in Events, NEW ch \in Channels, NEW ok \in BOOLEAN, Notice!Send(e, ch, ok)
  PROVE  NoticeIInv'
<1>1. /\ handling[e].at = "send" /\ ch \in handling[e].todo
      /\ handling' = [handling EXCEPT ![e] = Notice!MarkDeliveryStatus(@, ch, ok)]
      /\ delivered' = IF ok THEN [delivered EXCEPT ![e][ch] = @ + 1] ELSE delivered
      /\ UNCHANGED <<prefs, notifications, processed, faults>>
  BY DEF Notice!Send
<1>2. PICK h \in SendTxs : h = handling[e] BY <1>1, HandlingShape DEF NoticeIInv
<1>3. PICK t : t = [at |-> "send", ever |-> h.ever, always |-> h.always, todo |-> h.todo \ {ch},
                    sent |-> IF ok THEN h.sent \cup {ch} ELSE h.sent,
                    queued |-> IF ok THEN h.queued ELSE h.queued \cup {ch}]
  OBVIOUS
<1>4. t = Notice!MarkDeliveryStatus(h, ch, ok) BY <1>2, <1>3 DEF SendTxs, Notice!MarkDeliveryStatus
<1>5. /\ t \in HandlingTxs /\ handling' = [handling EXCEPT ![e] = t] /\ handling'[e] = t
      /\ \A o \in Events \ {e} : handling'[o] = handling[o]
  <2>1. t \in SendTxs BY <1>2, <1>3 DEF SendTxs
  <2>2. t \in HandlingTxs BY <2>1 DEF HandlingTxs
  <2> QED BY <1>1, <1>2, <1>4, <2>2 DEF NoticeIInv, NoticeTypes
<1>6. /\ t.at = "send" /\ t.todo = h.todo \ {ch} /\ t.ever = h.ever /\ t.always = h.always
      /\ t.sent = (IF ok THEN h.sent \cup {ch} ELSE h.sent)
      /\ t.queued = (IF ok THEN h.queued ELSE h.queued \cup {ch})
  BY <1>3
<1>7. HandlingOK(e)'
  <2>1. HandlingOK(e) BY DEF NoticeIInv
  <2>2. t.todo \cup t.sent \cup t.queued = h.todo \cup h.sent \cup h.queued BY <1>1, <1>2, <1>6
  <2>3. /\ t.todo \cap (t.sent \cup t.queued) = {} /\ t.sent \cap t.queued = {}
    BY <2>1, <1>1, <1>2, <1>6 DEF HandlingOK
  <2> QED BY <2>1, <2>2, <2>3, <1>1, <1>2, <1>5, <1>6 DEF HandlingOK, InFlight
<1>8. /\ delivered' \in [Events -> [Channels -> Nat]]
      /\ \A o \in Events, x \in Channels :
           delivered'[o][x] = IF ok /\ o = e /\ x = ch THEN delivered[o][x] + 1 ELSE delivered[o][x]
  BY <1>1 DEF NoticeIInv, NoticeTypes
<1>9. ASSUME NEW x \in Channels PROVE AttemptsDelivered(e, x)'
  <2>1. AttemptsDelivered(e, x) /\ Cardinality(SentRows(e, x)) \in Nat /\ delivered[e][x] \in Nat
    BY SentRowsFinite DEF NoticeIInv, NoticeTypes
  <2>2. SentRows(e, x)' = SentRows(e, x) BY <1>1 DEF SentRows
  <2>3. ch \notin h.sent BY <1>1, <1>2 DEF NoticeIInv, HandlingOK
  <2>4. /\ SentNow(e, x)' = (IF x \in t.sent THEN 1 ELSE 0) /\ SentNow(e, x) = (IF x \in h.sent THEN 1 ELSE 0)
    BY <1>1, <1>2, <1>5, <1>6 DEF SentNow
  <2>5. SentNow(e, x)' = IF ok /\ x = ch THEN 1 ELSE SentNow(e, x) BY <2>4, <1>6
  <2>6. ok /\ x = ch => SentNow(e, x) = 0 BY <2>3, <2>4
  <2>7. SentNow(e, x) \in {0, 1} BY <2>4
  <2>8. delivered'[e][x] = IF ok /\ x = ch THEN delivered[e][x] + 1 ELSE delivered[e][x] BY <1>8
  <2> QED BY <2>1, <2>2, <2>5, <2>6, <2>7, <2>8 DEF AttemptsDelivered
<1>10. \A i \in DOMAIN notifications : notifications[i] \in NoticeRows BY DEF NoticeIInv, NoticeTypes
<1>11. \A i \in DOMAIN notifications : notifications[i].event \in Events BY <1>10 DEF NoticeRows
<1>12. faults' = 0 => HandledOnce'
  BY <1>1, <1>5, <1>11 DEF NoticeIInv, HandledOnce
<1> QED BY <1>1, <1>5, <1>7, <1>8, <1>9, <1>12, HandlingStep DEF NoticeIInv, NoticeTypes

(* A fault drops the transaction or the record of it. *)
LEMMA FaultStep ==
  ASSUME NoticeIInv, NEW e \in Events, Notice!Rollback(e) \/ Notice!Repeat(e)
  PROVE  NoticeIInv'
<1>1. /\ handling' = [handling EXCEPT ![e] = Notice!Resting] /\ faults' = faults + 1
      /\ UNCHANGED <<prefs, notifications, delivered, processed>>
  BY DEF Notice!Rollback, Notice!Repeat, Notice!Fault
<1>2. PICK t : t = Notice!Resting OBVIOUS
<1>3. /\ t \in HandlingTxs /\ t.at = "rest" /\ handling' = [handling EXCEPT ![e] = t] /\ handling'[e] = t
  BY <1>1, <1>2 DEF HandlingTxs, NoticeIInv, NoticeTypes, Notice!Resting
<1>4. HandlingOK(e)' BY <1>3 DEF HandlingOK, InFlight
<1>5. ASSUME NEW ch \in Channels PROVE AttemptsDelivered(e, ch)'
  <2>1. AttemptsDelivered(e, ch) /\ Cardinality(SentRows(e, ch)) \in Nat /\ delivered[e][ch] \in Nat
    BY SentRowsFinite DEF NoticeIInv, NoticeTypes
  <2>2. SentRows(e, ch)' = SentRows(e, ch) /\ SentNow(e, ch)' = 0 /\ delivered' = delivered BY <1>1, <1>3 DEF SentRows, SentNow
  <2>3. SentNow(e, ch) \in {0, 1} BY DEF SentNow
  <2> QED BY <2>1, <2>2, <2>3 DEF AttemptsDelivered
<1>6. faults \in Nat /\ faults' # 0 /\ faults' \in Nat BY <1>1 DEF NoticeIInv, NoticeTypes
<1> QED BY <1>1, <1>3, <1>4, <1>5, <1>6, HandlingStep DEF NoticeIInv, NoticeTypes

(* An event is marked when all of its channels were tried. *)
LEMMA MarkProcessedStep ==
  ASSUME NoticeIInv, NEW e \in Events, Notice!MarkProcessed(e)
  PROVE  NoticeIInv'
<1>1. /\ handling[e].at = "mark" /\ processed' = processed \cup {e}
      /\ handling' = [handling EXCEPT ![e] = Notice!Resting]
      /\ UNCHANGED <<prefs, notifications, delivered, faults>>
  BY DEF Notice!MarkProcessed
<1>2. PICK t : t = Notice!Resting OBVIOUS
<1>3. /\ t \in HandlingTxs /\ t.at = "rest" /\ handling' = [handling EXCEPT ![e] = t] /\ handling'[e] = t
      /\ \A o \in Events \ {e} : handling'[o] = handling[o]
  BY <1>1, <1>2 DEF HandlingTxs, NoticeIInv, NoticeTypes, Notice!Resting
<1>4. HandlingOK(e)' BY <1>3 DEF HandlingOK, InFlight
<1>5. \A ch \in Channels : AttemptsDelivered(e, ch)'
  BY <1>1, <1>3 DEF NoticeIInv, AttemptsDelivered, SentRows, SentNow
<1>6. e \notin Dispatched BY <1>1 DEF NoticeIInv, HandlingOK
<1>7. \A i \in DOMAIN notifications : notifications[i] \in NoticeRows BY DEF NoticeIInv, NoticeTypes
<1>8. \A i \in DOMAIN notifications : notifications[i].event \in Events BY <1>7 DEF NoticeRows
<1>9. faults' = 0 => HandledOnce'
  BY <1>1, <1>3, <1>8 DEF NoticeIInv, HandledOnce
<1> QED BY <1>1, <1>3, <1>4, <1>5, <1>6, <1>9, HandlingStep DEF NoticeIInv, NoticeTypes

(* The commit turns the transaction in flight into a row. *)
LEMMA CommitNoticeStep ==
  ASSUME NoticeIInv, NEW e \in Events, Notice!Commit(e)
  PROVE  NoticeIInv'
<1>1. PICK h \in SendTxs : h = handling[e]
  BY HandlingShape DEF NoticeIInv, Notice!Commit
<1>2. PICK n : n = [event |-> e, user |-> RecipientOf[e], read |-> FALSE, sent |-> h.sent,
                    queued |-> h.queued, ever |-> h.ever, always |-> h.always]
  OBVIOUS
<1>3. PICK t : t = IF e \in Dispatched THEN Notice!Resting ELSE [at |-> "mark"] OBVIOUS
<1>4. /\ h.at = "send" /\ h.todo = {} /\ notifications' = Append(notifications, n)
      /\ handling' = [handling EXCEPT ![e] = t]
      /\ UNCHANGED <<prefs, delivered, processed, faults>>
  BY <1>1, <1>2, <1>3 DEF Notice!Commit, Notice!InsertNotification, Notice!recipient
<1>6. HandlingOK(e) /\ NoticeTypes /\ RecipientOf[e] \in Accounts
  BY <1>1, <1>4 DEF NoticeIInv, HandlingOK, InFlight
<1>7. /\ n \in NoticeRows /\ n.event = e /\ n.sent = h.sent /\ n.queued = h.queued /\ n.ever = h.ever
      /\ n.always = h.always
  BY <1>1, <1>2, <1>6 DEF NoticeRows, SendTxs
<1>8. NoticeOK(n)
  <2>1. h.todo \cup h.sent \cup h.queued = h.sent \cup h.queued BY <1>4
  <2> QED BY <2>1, <1>1, <1>4, <1>6, <1>7 DEF HandlingOK, NoticeOK
<1>9. /\ t \in HandlingTxs /\ t.at = (IF e \in Dispatched THEN "rest" ELSE "mark") /\ handling'[e] = t
      /\ \A o \in Events \ {e} : handling'[o] = handling[o]
  BY <1>3, <1>4, <1>6 DEF HandlingTxs, NoticeTypes, Notice!Resting
<1>10. /\ notifications \in Seq(NoticeRows) /\ notifications' \in Seq(NoticeRows)
       /\ DOMAIN notifications' = DOMAIN notifications \cup {Len(notifications) + 1}
       /\ Len(notifications) + 1 \notin DOMAIN notifications
       /\ \A i \in DOMAIN notifications : notifications'[i] = notifications[i]
       /\ notifications'[Len(notifications) + 1] = n
  BY <1>4, <1>6, <1>7 DEF NoticeTypes
<1>11. NoticeTypes' BY <1>4, <1>6, <1>9, <1>10 DEF NoticeTypes
<1>12. \A i \in DOMAIN notifications' : NoticeOK(notifications'[i]) BY <1>8, <1>10 DEF NoticeIInv
<1>13. ASSUME NEW o \in Events PROVE HandlingOK(o)'
  <2>1. CASE o # e
    <3>1. HandlingOK(o) /\ handling'[o] = handling[o] /\ prefs' = prefs BY <2>1, <1>4, <1>9 DEF NoticeIInv
    <3> QED BY <3>1 DEF HandlingOK, InFlight
  <2>2. CASE o = e BY <2>2, <1>9 DEF HandlingOK, InFlight
  <2> QED BY <2>1, <2>2
<1>14. ASSUME NEW o \in Events, NEW ch \in Channels PROVE AttemptsDelivered(o, ch)'
  <2> DEFINE k == Len(notifications) + 1
  <2>1. AttemptsDelivered(o, ch) /\ Cardinality(SentRows(o, ch)) \in Nat /\ IsFiniteSet(SentRows(o, ch))
        /\ delivered[o][ch] \in Nat /\ delivered' = delivered
    BY <1>4, <1>6, SentRowsFinite DEF NoticeIInv, NoticeTypes
  <2>2. SentRows(o, ch)' = IF o = e /\ ch \in h.sent THEN SentRows(o, ch) \cup {k} ELSE SentRows(o, ch)
    BY <1>7, <1>10 DEF SentRows
  <2>3. k \notin SentRows(o, ch) BY <1>10 DEF SentRows
  <2> HIDE DEF k
  <2>4. Cardinality(SentRows(o, ch) \cup {k}) = Cardinality(SentRows(o, ch)) + 1 BY <2>1, <2>3, FS_AddElement
  <2>5. Cardinality(SentRows(o, ch)') = IF o = e /\ ch \in h.sent THEN Cardinality(SentRows(o, ch)) + 1
                                         ELSE Cardinality(SentRows(o, ch))
    BY <2>2, <2>4
  <2>6. CASE o = e
    <3>1. SentNow(e, ch)' = 0 /\ SentNow(e, ch) = (IF ch \in h.sent THEN 1 ELSE 0)
      BY <1>1, <1>4, <1>9 DEF SentNow
    <3> QED BY <2>1, <2>5, <2>6, <3>1 DEF AttemptsDelivered
  <2>7. CASE o # e
    <3>1. SentNow(o, ch)' = SentNow(o, ch) BY <2>7, <1>9 DEF SentNow
    <3> QED BY <2>1, <2>5, <2>7, <3>1 DEF AttemptsDelivered
  <2> QED BY <2>6, <2>7
<1>15. faults' = 0 => HandledOnce'
  <2> SUFFICES ASSUME faults = 0 PROVE HandledOnce' BY <1>4
  <2>1. HandledOnce BY DEF NoticeIInv
  <2>2. \A i \in DOMAIN notifications : notifications[i].event \in Events
    <3>1. \A i \in DOMAIN notifications : notifications[i] \in NoticeRows BY <1>10
    <3> QED BY <3>1 DEF NoticeRows
  <2>3. e \notin processed /\ (e \in Dispatched \/ \A i \in DOMAIN notifications : notifications[i].event # e)
    BY <2>1, <1>1, <1>4 DEF HandledOnce
  <2>4. \A x \in processed' : handling'[x].at = "rest"
    BY <2>1, <2>3, <1>4, <1>9 DEF HandledOnce, NoticeIInv
  <2>5. \A i \in DOMAIN notifications' : notifications'[i].event \notin Dispatched =>
          notifications'[i].event \in processed' \/ handling'[notifications'[i].event].at = "mark"
    BY <2>1, <2>2, <2>3, <1>4, <1>7, <1>9, <1>10 DEF HandledOnce
  <2>6. \A i, j \in DOMAIN notifications' :
          notifications'[i].event = notifications'[j].event => i = j \/ notifications'[i].event \in Dispatched
    BY <2>1, <2>3, <1>7, <1>10 DEF HandledOnce
  <2> QED BY <2>4, <2>5, <2>6 DEF HandledOnce
<1> QED BY <1>4, <1>11, <1>12, <1>13, <1>14, <1>15 DEF NoticeIInv

(* Reading changes nothing that matters of a row. *)
LEMMA ReadStep ==
  ASSUME NoticeIInv, notifications' \in Seq(NoticeRows), DOMAIN notifications' = DOMAIN notifications,
         \A i \in DOMAIN notifications :
           /\ notifications'[i].event = notifications[i].event /\ notifications'[i].sent = notifications[i].sent
           /\ notifications'[i].queued = notifications[i].queued /\ notifications'[i].ever = notifications[i].ever
           /\ notifications'[i].always = notifications[i].always,
         UNCHANGED <<prefs, delivered, handling, processed, faults>>
  PROVE  NoticeIInv'
<1>1. NoticeTypes' BY DEF NoticeIInv, NoticeTypes
<1>2. \A e \in Events : HandlingOK(e)' BY DEF NoticeIInv, HandlingOK, InFlight
<1>3. \A i \in DOMAIN notifications' : NoticeOK(notifications'[i]) BY DEF NoticeIInv, NoticeOK
<1>4. ASSUME NEW e \in Events, NEW ch \in Channels PROVE AttemptsDelivered(e, ch)'
  <2>1. SentRows(e, ch)' = SentRows(e, ch) BY DEF SentRows
  <2> QED BY <2>1 DEF NoticeIInv, AttemptsDelivered, SentNow
<1>5. faults' = 0 => HandledOnce' BY DEF NoticeIInv, HandledOnce
<1> QED BY <1>1, <1>2, <1>3, <1>4, <1>5 DEF NoticeIInv

(* Reading a notification changes no attempt. *)
LEMMA MarkReadStep ==
  ASSUME NoticeIInv, NEW u, (\E i : Notice!MarkRead(i, u)) \/ Notice!MarkAllRead(u)
  PROVE  NoticeIInv'
<1>1. UNCHANGED <<prefs, delivered, handling, processed, faults>> BY DEF Notice!MarkRead, Notice!MarkAllRead
<1>2. notifications \in [1 .. Len(notifications) -> NoticeRows] /\ Len(notifications) \in Nat
  BY DEF NoticeIInv, NoticeTypes
<1>3. /\ DOMAIN notifications' = DOMAIN notifications
      /\ \A i \in DOMAIN notifications :
           \/ notifications'[i] = notifications[i] \/ notifications'[i] = [notifications[i] EXCEPT !.read = TRUE]
      /\ notifications' = [i \in DOMAIN notifications |-> notifications'[i]]
  BY <1>2 DEF Notice!MarkRead, Notice!MarkAllRead
<1>4. ASSUME NEW i \in DOMAIN notifications
      PROVE  /\ notifications'[i] \in NoticeRows
             /\ notifications'[i].event = notifications[i].event /\ notifications'[i].sent = notifications[i].sent
             /\ notifications'[i].queued = notifications[i].queued /\ notifications'[i].ever = notifications[i].ever
             /\ notifications'[i].always = notifications[i].always
  <2>1. notifications[i] \in NoticeRows BY <1>2
  <2> QED BY <2>1, <1>3 DEF NoticeRows
<1>5. notifications' \in Seq(NoticeRows)
  <2>1. notifications' \in [1 .. Len(notifications) -> NoticeRows] BY <1>2, <1>3, <1>4
  <2> QED BY <2>1, <1>2
<1> QED BY <1>1, <1>3, <1>4, <1>5, ReadStep

(* A preference changes under the transactions in flight. *)
LEMMA SetPreferenceStep ==
  ASSUME NoticeIInv, NEW u \in Accounts, NEW ch \in Channels, NEW enabled \in BOOLEAN,
         Notice!SetPreference(u, ch, enabled)
  PROVE  NoticeIInv'
<1>1. /\ prefs' = [prefs EXCEPT ![u][ch] = IF enabled THEN "on" ELSE "off"]
      /\ handling' = [e \in Events |->
           IF InFlight(e) /\ RecipientOf[e] = u
           THEN [handling[e] EXCEPT !.ever = @ \cup Notice!Enabled(prefs', u), !.always = @ \cap Notice!Enabled(prefs', u)]
           ELSE handling[e]]
      /\ UNCHANGED <<notifications, delivered, processed, faults>>
  BY DEF Notice!SetPreference, Notice!UpsertPreference, Notice!InTx, Notice!recipient, InFlight
<1>2. NoticeTypes BY DEF NoticeIInv
<1>3. prefs' \in [Accounts -> [Channels -> {"unset", "on", "off"}]] /\ \A x \in Accounts \ {u} : prefs'[x] = prefs[x]
  BY <1>1, <1>2 DEF NoticeTypes
<1>4. PICK on : on = Notice!Enabled(prefs', u) OBVIOUS
<1>5. on \subseteq Channels BY <1>4 DEF Notice!Enabled
<1>6. ASSUME NEW e \in Events, InFlight(e), RecipientOf[e] = u
      PROVE  /\ handling'[e] \in HandlingTxs /\ handling'[e].at = handling[e].at
             /\ handling'[e].ever = handling[e].ever \cup on /\ handling'[e].always = handling[e].always \cap on
             /\ handling[e].at = "send" => /\ handling'[e].todo = handling[e].todo
                                           /\ handling'[e].sent = handling[e].sent
                                           /\ handling'[e].queued = handling[e].queued
  <2>1. handling'[e] = [handling[e] EXCEPT !.ever = @ \cup on, !.always = @ \cap on] BY <1>1, <1>4, <1>6
  <2>2. handling[e] \in InsertTxs \/ handling[e] \in SendTxs
    BY <1>2, <1>6, HandlingShape DEF InFlight
  <2>3. CASE handling[e] \in InsertTxs
    <3>1. handling'[e] \in InsertTxs BY <2>1, <2>3, <1>5 DEF InsertTxs
    <3> QED BY <2>1, <2>3, <3>1 DEF InsertTxs, HandlingTxs
  <2>4. CASE handling[e] \in SendTxs
    <3>1. handling'[e] \in SendTxs BY <2>1, <2>4, <1>5 DEF SendTxs
    <3> QED BY <2>1, <2>4, <3>1 DEF SendTxs, HandlingTxs
  <2> QED BY <2>2, <2>3, <2>4
<1>7. \A e \in Events : ~(InFlight(e) /\ RecipientOf[e] = u) => handling'[e] = handling[e] BY <1>1
<1>8. \A e \in Events : handling'[e].at = handling[e].at BY <1>6, <1>7
<1>9. NoticeTypes'
  <2>1. \A e \in Events : handling'[e] \in HandlingTxs BY <1>2, <1>6, <1>7 DEF NoticeTypes
  <2>2. handling' \in [Events -> HandlingTxs] BY <2>1, <1>1
  <2> QED BY <1>1, <1>2, <1>3, <2>2 DEF NoticeTypes
<1>10. ASSUME NEW e \in Events PROVE HandlingOK(e)'
  <2>1. HandlingOK(e) BY DEF NoticeIInv
  <2>2. CASE InFlight(e) /\ RecipientOf[e] = u
    <3>1. TriedOK(handling[e].todo \cup handling[e].sent \cup handling[e].queued, handling[e].ever, handling[e].always)
          => TriedOK(handling[e].todo \cup handling[e].sent \cup handling[e].queued, handling[e].ever \cup on,
                     handling[e].always \cap on)
      BY DEF TriedOK
    <3> QED BY <2>1, <2>2, <3>1, <1>4, <1>6 DEF HandlingOK, InFlight
  <2>3. CASE ~InFlight(e) BY <2>1, <2>3, <1>7 DEF HandlingOK, InFlight
  <2>4. CASE InFlight(e) /\ RecipientOf[e] # u
    <3>1. handling'[e] = handling[e] /\ RecipientOf[e] \in Accounts \ {u} BY <2>1, <2>4, <1>7 DEF HandlingOK
    <3>2. Notice!Enabled(prefs', RecipientOf[e]) = Notice!Enabled(prefs, RecipientOf[e])
      BY <3>1, <1>3 DEF Notice!Enabled
    <3> QED BY <2>1, <3>1, <3>2 DEF HandlingOK, InFlight
  <2> QED BY <2>2, <2>3, <2>4
<1>11. ASSUME NEW e \in Events, NEW x \in Channels PROVE AttemptsDelivered(e, x)'
  <2>1. SentRows(e, x)' = SentRows(e, x) /\ delivered' = delivered BY <1>1 DEF SentRows
  <2>2. handling[e].at = "send" => handling'[e].sent = handling[e].sent BY <1>6, <1>7
  <2>3. SentNow(e, x)' = SentNow(e, x) BY <2>2, <1>8 DEF SentNow
  <2> QED BY <2>1, <2>3 DEF NoticeIInv, AttemptsDelivered
<1>12. \A i \in DOMAIN notifications : notifications[i] \in NoticeRows BY <1>2 DEF NoticeTypes
<1>13. \A i \in DOMAIN notifications : notifications[i].event \in Events BY <1>12 DEF NoticeRows
<1>14. faults' = 0 => HandledOnce'
  BY <1>1, <1>8, <1>13 DEF NoticeIInv, HandledOnce
<1>15. \A i \in DOMAIN notifications' : NoticeOK(notifications[i])' BY <1>1 DEF NoticeIInv, NoticeOK
<1> QED BY <1>1, <1>9, <1>10, <1>11, <1>14, <1>15 DEF NoticeIInv

(* So the invariant of the notification service always holds. *)
LEMMA NoticeInvariant == ASSUME Recipients PROVE Notice!Spec => []NoticeIInv
<1>1. Notice!Init => NoticeIInv BY NoticeInit
<1>2. NoticeIInv /\ Notice!Next => NoticeIInv'
  BY RawEventStep, DispatchStep, HandleEventStep, SendStep, CommitNoticeStep, FaultStep, MarkProcessedStep,
     MarkReadStep, SetPreferenceStep DEF Notice!Next
<1>3. NoticeIInv /\ UNCHANGED Notice!vars => NoticeIInv'
  BY DEF Notice!vars, NoticeIInv, NoticeTypes, HandlingOK, InFlight, NoticeOK, AttemptsDelivered, SentRows, SentNow,
     HandledOnce
<1> QED BY <1>1, <1>2, <1>3, PTL DEF Notice!Spec

(* The instance counts with the same operator. *)
LEMMA NoticeCardinality ==
  ASSUME NEW S PROVE Notice!Cardinality(S) = Cardinality(S)
BY DEF Notice!Cardinality, Cardinality, Notice!IsFiniteSet, IsFiniteSet

(* The behaviours of the notification service. *)
LEMMA NoticePart == ServicesSpec => []~(part = "notifications") \/ ([](part = "notifications") /\ Notice!Spec)
<1>1. ServicesInit /\ part = "notifications" => Notice!Init BY DEF ServicesInit
<1>2. part = "notifications" /\ [ServicesNext]_allVars => (part = "notifications")' /\ [Notice!Next]_(Notice!vars)
  <2>1. part = "notifications" /\ ServicesNext => part' = "notifications" /\ Notice!Next BY DEF ServicesNext
  <2>2. UNCHANGED allVars => UNCHANGED part /\ UNCHANGED Notice!vars
    BY DEF allVars, noticeVars, sharedVars, Notice!vars
  <2> QED BY <2>1, <2>2
<1>3. ~(part = "notifications") /\ [ServicesNext]_allVars => (~(part = "notifications"))' BY DEF ServicesNext, allVars
<1> QED BY <1>1, <1>2, <1>3, PTL DEF ServicesSpec, Notice!Spec

(* A notification was tried on every channel that was on all the time and on
   none that was off all the time; one marked sent was taken by its sender; and
   without a fault an event of the bus gives one notification. *)
THEOREM NotificationsHonest ==
  ASSUME \A e \in Events : RecipientOf[e] \in Accounts \cup {None}
  PROVE  ServicesSpec => []AttemptsHonest
<1>1. NoticeIInv => Notice!AttemptsHonest
  <2> SUFFICES ASSUME NoticeIInv PROVE Notice!AttemptsHonest OBVIOUS
  <2>1. \A i \in DOMAIN notifications : NoticeOK(notifications[i]) BY DEF NoticeIInv
  <2>2. ASSUME NEW e \in Events, NEW ch \in Channels
        PROVE  Notice!Cardinality({i \in DOMAIN notifications :
                  notifications[i].event = e /\ ch \in notifications[i].sent}) <= delivered[e][ch]
    <3>1. AttemptsDelivered(e, ch) /\ Cardinality(SentRows(e, ch)) \in Nat /\ delivered[e][ch] \in Nat
      BY SentRowsFinite DEF NoticeIInv, NoticeTypes
    <3>2. SentNow(e, ch) \in {0, 1} BY DEF SentNow
    <3> QED BY <3>1, <3>2, NoticeCardinality DEF AttemptsDelivered, SentRows
  <2>3. faults = 0 => \A i, j \in DOMAIN notifications :
          notifications[i].event = notifications[j].event => i = j \/ notifications[i].event \in Dispatched
    BY DEF NoticeIInv, HandledOnce
  <2> QED BY <2>1, <2>2, <2>3 DEF Notice!AttemptsHonest, Notice!ListNotifications, NoticeOK, TriedOK
<1> QED BY <1>1, NoticeInvariant, NoticePart, PTL DEF AttemptsHonest, Recipients

-----------------------------------------------------------------------------
(* Profiles and the search index *)

ProfileRows == [completeness : Nat, searchable : BOOLEAN, kyc : Profile!validKYCStatuses]
ProfileEvents ==
  [type : {"profile.updated", "user.kyc_updated"}, kind : {"freelancer", "client", None}, searchable : BOOLEAN]

SaveTxs == [at : {"upsert", "upserted"}, user : Accounts, filled : Filled, searchable : BOOLEAN]
KycTxs == [at : {"update", "updated", "missed"}, user : Accounts, status : Profile!validKYCStatuses]
SkillTxs ==
  [at : {"replace"}, user : Accounts, wanted : SUBSET Skills, deleted : SUBSET (Accounts \X Skills)]
ProfileTxs == {Profile!Idle} \cup SaveTxs \cup KycTxs \cup SkillTxs

(* None is no row and no status, and a request fills a number of fields. *)
ProfileConstants == Filled \subseteq Nat /\ None \notin ProfileRows \cup Profile!validKYCStatuses

ProfileTypes ==
  /\ profile \in [Accounts -> ProfileRows \cup {None}]
  /\ skills \subseteq Accounts \X Skills
  /\ events \in [Accounts -> Seq(ProfileEvents)]
  /\ tx \in [Requests -> ProfileTxs]

(* A save that is searchable is complete and of somebody verified. *)
SaveOK(t) ==
  t.at \in {"upsert", "upserted"} /\ t.searchable => Profile!Completeness(t.filled) >= 60 /\ Profile!EverVerified(t.user)

RowKept(t) == t.at = "updated" => profile[t.user] # None

IsSearchable(u) == profile[u] # None /\ profile[u].searchable

(* Whether the first n events of a log leave the freelancer in the index. *)
InAfter(log, n) ==
  \E i \in 1 .. n : Profile!route(log[i]) = "index" /\ \A j \in (i + 1) .. n : Profile!route(log[j]) # "delete"

ProfileOK(u) ==
  /\ IsSearchable(u) => profile[u].completeness >= 60 /\ Profile!EverVerified(u)
  /\ profile[u] # None /\ profile[u].kyc = "verified" => Profile!EverVerified(u)
  /\ IsSearchable(u) <=> InAfter(events[u], Len(events[u]))

ProfileInv ==
  /\ ProfileTypes
  /\ \A r \in Requests : SaveOK(tx[r]) /\ RowKept(tx[r])
  /\ \A u \in Accounts : ProfileOK(u)

(* The invariant of the user service holds at first. *)
LEMMA ProfileInit == ProfileConstants /\ Profile!Init => ProfileInv
<1> SUFFICES ASSUME Profile!Init PROVE ProfileInv OBVIOUS
<1>1. ProfileTypes BY DEF Profile!Init, ProfileTypes, ProfileTxs
<1>2. \A r \in Requests : tx[r].at = "idle" BY DEF Profile!Init, Profile!Idle
<1>3. \A u \in Accounts : profile[u] = None /\ events[u] = <<>> BY DEF Profile!Init
<1>4. ~InAfter(<<>>, Len(<<>>)) BY DEF InAfter
<1>5. \A u \in Accounts : ProfileOK(u) BY <1>3, <1>4 DEF ProfileOK, IsSearchable
<1> QED BY <1>1, <1>2, <1>5 DEF ProfileInv, SaveOK, RowKept

(* One event more. *)
LEMMA AfterNext ==
  ASSUME NEW log, NEW n \in Nat
  PROVE  /\ Profile!route(log[n + 1]) = "index" => InAfter(log, n + 1)
         /\ Profile!route(log[n + 1]) = "delete" => ~InAfter(log, n + 1)
         /\ Profile!route(log[n + 1]) = "ignore" => (InAfter(log, n + 1) <=> InAfter(log, n))
<1> DEFINE R(i) == Profile!route(log[i])
<1>1. R(n + 1) = "index" => InAfter(log, n + 1) BY DEF InAfter
<1>2. R(n + 1) = "delete" => ~InAfter(log, n + 1)
  <2> SUFFICES ASSUME R(n + 1) = "delete", NEW i \in 1 .. (n + 1), R(i) = "index", \A j \in (i + 1) .. (n + 1) : R(j) # "delete"
               PROVE  FALSE
    BY DEF InAfter
  <2>1. CASE i = n + 1 BY <2>1
  <2>2. CASE i # n + 1
    <3>1. n + 1 \in (i + 1) .. (n + 1) BY <2>2
    <3> QED BY <3>1
  <2> QED BY <2>1, <2>2
<1>3. ASSUME R(n + 1) = "ignore" PROVE InAfter(log, n + 1) <=> InAfter(log, n)
  <2>1. ASSUME InAfter(log, n) PROVE InAfter(log, n + 1)
    <3>1. PICK i \in 1 .. n : R(i) = "index" /\ \A j \in (i + 1) .. n : R(j) # "delete" BY <2>1 DEF InAfter
    <3>2. i \in 1 .. (n + 1) /\ \A j \in (i + 1) .. (n + 1) : j = n + 1 \/ j \in (i + 1) .. n OBVIOUS
    <3>3. \A j \in (i + 1) .. (n + 1) : R(j) # "delete" BY <3>1, <3>2, <1>3
    <3> QED BY <3>1, <3>2, <3>3 DEF InAfter
  <2>2. ASSUME InAfter(log, n + 1) PROVE InAfter(log, n)
    <3>1. PICK i \in 1 .. (n + 1) : R(i) = "index" /\ \A j \in (i + 1) .. (n + 1) : R(j) # "delete" BY <2>2 DEF InAfter
    <3>2. i # n + 1 BY <3>1, <1>3
    <3>3. i \in 1 .. n /\ \A j \in (i + 1) .. n : j \in (i + 1) .. (n + 1) BY <3>2
    <3> QED BY <3>1, <3>3 DEF InAfter
  <2> QED BY <2>1, <2>2
<1> QED BY <1>1, <1>2, <1>3

(* Later events do not change what the first ones say. *)
LEMMA AfterSame ==
  ASSUME NEW log, NEW longer, NEW n \in Nat, \A i \in 1 .. n : longer[i] = log[i]
  PROVE  InAfter(longer, n) <=> InAfter(log, n)
<1>1. \A i \in 1 .. n : \A j \in (i + 1) .. n : j \in 1 .. n OBVIOUS
<1> QED BY <1>1 DEF InAfter

(* Whether a freelancer is searchable after one event more. *)
LEMMA AnnounceAfter ==
  ASSUME NEW log \in Seq(ProfileEvents), NEW e \in ProfileEvents
  PROVE  /\ Len(Append(log, e)) = Len(log) + 1 /\ Len(log) \in Nat
         /\ \A n \in 0 .. Len(log) : InAfter(Append(log, e), n) <=> InAfter(log, n)
         /\ Profile!route(e) = "index" => InAfter(Append(log, e), Len(log) + 1)
         /\ Profile!route(e) = "delete" => ~InAfter(Append(log, e), Len(log) + 1)
         /\ Profile!route(e) = "ignore" => (InAfter(Append(log, e), Len(log) + 1) <=> InAfter(log, Len(log)))
<1> DEFINE longer == Append(log, e)
<1>1. /\ Len(longer) = Len(log) + 1 /\ longer[Len(log) + 1] = e /\ Len(log) \in Nat
      /\ \A i \in 1 .. Len(log) : longer[i] = log[i]
  OBVIOUS
<1> HIDE DEF longer
<1>2. ASSUME NEW n \in 0 .. Len(log) PROVE InAfter(longer, n) <=> InAfter(log, n)
  <2>1. n \in Nat /\ \A i \in 1 .. n : longer[i] = log[i] BY <1>1
  <2> QED BY <2>1, AfterSame
<1>3. InAfter(longer, Len(log)) <=> InAfter(log, Len(log)) BY <1>1, <1>2
<1>4. /\ Profile!route(e) = "index" => InAfter(longer, Len(log) + 1)
      /\ Profile!route(e) = "delete" => ~InAfter(longer, Len(log) + 1)
      /\ Profile!route(e) = "ignore" => (InAfter(longer, Len(log) + 1) <=> InAfter(longer, Len(log)))
  BY <1>1, AfterNext
<1>5. /\ Len(longer) = Len(log) + 1 /\ Len(log) \in Nat
      /\ \A n \in 0 .. Len(log) : InAfter(longer, n) <=> InAfter(log, n)
      /\ Profile!route(e) = "index" => InAfter(longer, Len(log) + 1)
      /\ Profile!route(e) = "delete" => ~InAfter(longer, Len(log) + 1)
      /\ Profile!route(e) = "ignore" => (InAfter(longer, Len(log) + 1) <=> InAfter(log, Len(log)))
  BY <1>1, <1>2, <1>3, <1>4
<1> QED BY <1>5 DEF longer

(* What a request holds at each of its steps. *)
LEMMA ProfileTxShape ==
  ASSUME ProfileTypes, NEW r \in Requests
  PROVE  /\ tx[r] \in ProfileTxs
         /\ tx[r].at \in {"upsert", "upserted"} => tx[r] \in SaveTxs
         /\ tx[r].at \in {"update", "updated", "missed"} => tx[r] \in KycTxs
         /\ tx[r].at = "replace" => tx[r] \in SkillTxs
<1>1. tx[r] \in ProfileTxs BY DEF ProfileTypes
<1>2. Profile!Idle.at = "idle" BY DEF Profile!Idle
<1>3. \A t \in SaveTxs : t.at \in {"upsert", "upserted"} BY DEF SaveTxs
<1>4. \A t \in KycTxs : t.at \in {"update", "updated", "missed"} BY DEF KycTxs
<1>5. \A t \in SkillTxs : t.at = "replace" BY DEF SkillTxs
<1> QED BY <1>1, <1>2, <1>3, <1>4, <1>5 DEF ProfileTxs

(* A request moves on; nothing is written yet. *)
LEMMA ProfileTxStep ==
  ASSUME ProfileInv, NEW r \in Requests, NEW t \in ProfileTxs, tx' = [tx EXCEPT ![r] = t],
         SaveOK(t), RowKept(t), UNCHANGED <<profile, kycRecords, skills, events>>
  PROVE  ProfileInv'
<1>1. ProfileTypes' BY DEF ProfileInv, ProfileTypes
<1>2. \A u \in Accounts : ProfileOK(u)' BY DEF ProfileInv, ProfileOK, IsSearchable, Profile!EverVerified
<1>3. \A o \in Requests : tx'[o] = t \/ tx'[o] = tx[o] BY DEF ProfileInv, ProfileTypes
<1>4. \A o \in Requests : SaveOK(tx[o])' BY <1>3 DEF ProfileInv, SaveOK, Profile!EverVerified
<1>5. \A o \in Requests : RowKept(tx[o])' BY <1>3 DEF ProfileInv, RowKept
<1> QED BY <1>1, <1>2, <1>4, <1>5 DEF ProfileInv

(* A request that does nothing satisfies what is said of requests. *)
LEMMA IdleTx ==
  /\ Profile!Idle \in ProfileTxs
  /\ SaveOK(Profile!Idle) /\ RowKept(Profile!Idle) /\ SaveOK(Profile!Idle)' /\ RowKept(Profile!Idle)'
BY DEF ProfileTxs, Profile!Idle, SaveOK, RowKept

(* Searchability is decided from the KYC status that is stored. *)
LEMMA UpsertProfileStep ==
  ASSUME ProfileConstants, ProfileInv, NEW r \in Requests, NEW u \in Accounts, NEW filled \in Filled,
         Profile!UpsertFreelancerProfile(r, u, filled)
  PROVE  ProfileInv'
<1>1. PICK b : b = Profile!Searchable(filled, Profile!KYCStatusOf(u)) OBVIOUS
<1>2. PICK t : t = [at |-> "upsert", user |-> u, filled |-> filled, searchable |-> b] OBVIOUS
<1>3. tx' = [tx EXCEPT ![r] = t] /\ UNCHANGED <<profile, kycRecords, skills, events>>
  BY <1>1, <1>2 DEF Profile!UpsertFreelancerProfile, Profile!rest
<1>4. b \in BOOLEAN BY <1>1 DEF Profile!Searchable
<1>5. t \in ProfileTxs
  <2>1. t \in SaveTxs BY <1>2, <1>4 DEF SaveTxs
  <2> QED BY <2>1 DEF ProfileTxs
<1>6. b => Profile!Completeness(filled) >= 60 /\ Profile!EverVerified(u)
  <2> SUFFICES ASSUME b PROVE Profile!Completeness(filled) >= 60 /\ Profile!EverVerified(u) OBVIOUS
  <2>1. Profile!Completeness(filled) >= 60 /\ Profile!KYCStatusOf(u) = "verified" BY <1>1 DEF Profile!Searchable
  <2>2. "verified" # None BY DEF ProfileConstants, Profile!validKYCStatuses
  <2>3. profile[u] # None /\ profile[u].kyc = "verified" BY <2>1, <2>2 DEF Profile!KYCStatusOf
  <2> QED BY <2>1, <2>3 DEF ProfileInv, ProfileOK
<1>7. t.at = "upsert" /\ t.searchable = b /\ t.filled = filled /\ t.user = u BY <1>2
<1>8. SaveOK(t) /\ RowKept(t) BY <1>6, <1>7 DEF SaveOK, RowKept
<1> QED BY <1>3, <1>5, <1>8, ProfileTxStep

(* The profile row is written, and stays locked. *)
LEMMA UpsertRowStep ==
  ASSUME ProfileInv, NEW r \in Requests, Profile!UpsertRow(r)
  PROVE  ProfileInv'
<1>1. /\ tx[r].at = "upsert" /\ tx' = [tx EXCEPT ![r].at = "upserted"]
      /\ UNCHANGED <<profile, kycRecords, skills, events>>
  BY DEF Profile!UpsertRow, Profile!rest
<1>2. PICK h \in SaveTxs : h = tx[r] BY <1>1, ProfileTxShape DEF ProfileInv
<1>3. PICK t : t = [at |-> "upserted", user |-> h.user, filled |-> h.filled, searchable |-> h.searchable] OBVIOUS
<1>4. tx' = [tx EXCEPT ![r] = t]
  <2>1. t = [h EXCEPT !.at = "upserted"] BY <1>2, <1>3 DEF SaveTxs
  <2> QED BY <2>1, <1>1, <1>2 DEF ProfileInv, ProfileTypes
<1>5. t \in ProfileTxs
  <2>1. t \in SaveTxs BY <1>2, <1>3 DEF SaveTxs
  <2> QED BY <2>1 DEF ProfileTxs
<1>6. t.at = "upserted" /\ t.user = h.user /\ t.filled = h.filled /\ t.searchable = h.searchable BY <1>3
<1>7. SaveOK(t) /\ RowKept(t) BY <1>1, <1>2, <1>6 DEF ProfileInv, SaveOK, RowKept
<1> QED BY <1>1, <1>4, <1>5, <1>7, ProfileTxStep

(* The identity check's result arrives. *)
LEMMA SetKYCStep ==
  ASSUME ProfileInv, NEW r \in Requests, NEW a, NEW internal, NEW u \in Accounts, NEW verdict,
         Profile!SetKYCStatus(r, a, internal, u, verdict)
  PROVE  ProfileInv'
<1>1. PICK t : t = [at |-> "update", user |-> u, status |-> verdict] OBVIOUS
<1>2. /\ tx' = [tx EXCEPT ![r] = t] /\ UNCHANGED <<profile, kycRecords, skills, events>>
      /\ verdict \in Profile!validKYCStatuses
  BY <1>1 DEF Profile!SetKYCStatus, Profile!rest
<1>3. t \in ProfileTxs
  <2>1. t \in KycTxs BY <1>1, <1>2 DEF KycTxs
  <2> QED BY <2>1 DEF ProfileTxs
<1>4. SaveOK(t) /\ RowKept(t) BY <1>1 DEF SaveOK, RowKept
<1> QED BY <1>2, <1>3, <1>4, ProfileTxStep

(* The status is written to the profile, if there is one. *)
LEMMA UpdateStatusStep ==
  ASSUME ProfileInv, NEW r \in Requests, Profile!UpdateStatus(r)
  PROVE  ProfileInv'
<1>1. /\ tx[r].at = "update"
      /\ tx' = [tx EXCEPT ![r].at = IF profile[tx[r].user] = None THEN "missed" ELSE "updated"]
      /\ UNCHANGED <<profile, kycRecords, skills, events>>
  BY DEF Profile!UpdateStatus, Profile!rest
<1>2. PICK h \in KycTxs : h = tx[r] BY <1>1, ProfileTxShape DEF ProfileInv
<1>3. PICK to : to = IF profile[h.user] = None THEN "missed" ELSE "updated" OBVIOUS
<1>4. PICK t : t = [at |-> to, user |-> h.user, status |-> h.status] OBVIOUS
<1>5. tx' = [tx EXCEPT ![r] = t]
  <2>1. t = [h EXCEPT !.at = to] BY <1>2, <1>4 DEF KycTxs
  <2> QED BY <2>1, <1>1, <1>2, <1>3 DEF ProfileInv, ProfileTypes
<1>6. t \in ProfileTxs
  <2>1. to \in {"missed", "updated"} BY <1>3
  <2>2. t \in KycTxs BY <1>2, <1>4, <2>1 DEF KycTxs
  <2> QED BY <2>2 DEF ProfileTxs
<1>7. t.at = to /\ t.user = h.user BY <1>4
<1>8. SaveOK(t) /\ RowKept(t) BY <1>3, <1>7 DEF SaveOK, RowKept
<1> QED BY <1>1, <1>5, <1>6, <1>8, ProfileTxStep

(* The skills are replaced in a transaction. *)
LEMMA SetSkillsStep ==
  ASSUME ProfileInv, NEW r \in Requests, NEW a, NEW u \in Accounts, NEW wanted \in SUBSET Skills,
         Profile!SetFreelancerSkills(r, a, u, wanted)
  PROVE  ProfileInv'
<1>1. PICK t : t = [at |-> "replace", user |-> u, wanted |-> wanted, deleted |-> {k \in skills : k[1] = u}] OBVIOUS
<1>2. tx' = [tx EXCEPT ![r] = t] /\ UNCHANGED <<profile, kycRecords, skills, events>>
  BY <1>1 DEF Profile!SetFreelancerSkills, Profile!rest
<1>3. t \in ProfileTxs
  <2>1. {k \in skills : k[1] = u} \in SUBSET (Accounts \X Skills) BY DEF ProfileInv, ProfileTypes
  <2>2. t \in SkillTxs BY <1>1, <2>1 DEF SkillTxs
  <2> QED BY <2>2 DEF ProfileTxs
<1>4. SaveOK(t) /\ RowKept(t) BY <1>1 DEF SaveOK, RowKept
<1> QED BY <1>2, <1>3, <1>4, ProfileTxStep

(* And that transaction commits. *)
LEMMA CommitSkillsStep ==
  ASSUME ProfileInv, NEW r \in Requests, Profile!CommitSkills(r)
  PROVE  ProfileInv'
<1>1. /\ tx[r].at = "replace" /\ skills' = (skills \ tx[r].deleted) \cup ({tx[r].user} \X tx[r].wanted)
      /\ tx' = [o \in Requests |->
              IF o = r THEN Profile!Idle
              ELSE IF tx[o].at = "replace" THEN [tx[o] EXCEPT !.deleted = @ \ tx[r].deleted] ELSE tx[o]]
      /\ UNCHANGED <<profile, kycRecords, events>>
  BY DEF Profile!CommitSkills
<1>2. tx[r] \in SkillTxs /\ ProfileTypes BY <1>1, ProfileTxShape DEF ProfileInv
<1>3. skills' \subseteq Accounts \X Skills BY <1>1, <1>2 DEF SkillTxs, ProfileTypes
<1>4. ASSUME NEW o \in Requests PROVE tx'[o] \in ProfileTxs /\ SaveOK(tx[o])' /\ RowKept(tx[o])'
  <2>1. CASE o = r
    <3>1. tx'[o] = Profile!Idle BY <1>1, <2>1
    <3> QED BY <3>1, IdleTx
  <2>2. CASE o # r /\ tx[o].at = "replace"
    <3>1. PICK h \in SkillTxs : h = tx[o] BY <1>2, <2>2, ProfileTxShape
    <3>2. tx'[o] = [h EXCEPT !.deleted = @ \ tx[r].deleted] BY <1>1, <2>2, <3>1
    <3>3. tx'[o] \in SkillTxs BY <3>1, <3>2 DEF SkillTxs
    <3>4. tx'[o].at = "replace" BY <3>3 DEF SkillTxs
    <3> QED BY <3>3, <3>4 DEF ProfileTxs, SaveOK, RowKept
  <2>3. CASE o # r /\ tx[o].at # "replace"
    <3>1. tx'[o] = tx[o] /\ SaveOK(tx[o]) /\ RowKept(tx[o]) /\ tx[o] \in ProfileTxs
      BY <1>1, <2>3, <1>2 DEF ProfileInv, ProfileTypes
    <3> QED BY <3>1, <1>1 DEF SaveOK, RowKept, Profile!EverVerified
  <2> QED BY <2>1, <2>2, <2>3
<1>5. ProfileTypes' BY <1>1, <1>2, <1>3, <1>4 DEF ProfileTypes
<1>6. \A u \in Accounts : ProfileOK(u)' BY <1>1 DEF ProfileInv, ProfileOK, IsSearchable, Profile!EverVerified
<1> QED BY <1>4, <1>5, <1>6 DEF ProfileInv

(* A rolled back request writes nothing. *)
LEMMA ProfileRollbackStep ==
  ASSUME ProfileInv, NEW r \in Requests, Profile!Rollback(r)
  PROVE  ProfileInv'
<1>1. tx' = [tx EXCEPT ![r] = Profile!Idle] /\ UNCHANGED <<profile, kycRecords, skills, events>>
  BY DEF Profile!Rollback, Profile!rest
<1> QED BY <1>1, IdleTx, ProfileTxStep

(* A commit: one user's row, its events and perhaps a KYC record. *)
LEMMA ProfileCommitted ==
  ASSUME ProfileInv, NEW u \in Accounts, NEW row \in ProfileRows \cup {None}, NEW e \in ProfileEvents,
         profile' = [profile EXCEPT ![u] = row], events' = [events EXCEPT ![u] = Append(@, e)],
         tx' \in [Requests -> ProfileTxs],
         \A r \in Requests : tx'[r] = tx[r] \/ tx'[r] = Profile!Idle,
         kycRecords \subseteq kycRecords', UNCHANGED skills,
         profile[u] # None => row # None,
         row # None /\ row.searchable => row.completeness >= 60 /\ Profile!EverVerified(u)',
         row # None /\ row.kyc = "verified" => Profile!EverVerified(u)',
         (row # None /\ row.searchable) <=> InAfter(events'[u], Len(events'[u]))
  PROVE  ProfileInv'
<1>1. ProfileTypes' BY DEF ProfileInv, ProfileTypes
<1>2. \A x : Profile!EverVerified(x) => Profile!EverVerified(x)' BY DEF Profile!EverVerified
<1>3. profile'[u] = row /\ \A x \in Accounts \ {u} : profile'[x] = profile[x] /\ events'[x] = events[x]
  BY DEF ProfileInv, ProfileTypes
<1>4. \A r \in Requests : SaveOK(tx[r])'
  <2> SUFFICES ASSUME NEW r \in Requests PROVE SaveOK(tx[r])' OBVIOUS
  <2>1. CASE tx'[r] = Profile!Idle BY <2>1, IdleTx
  <2>2. CASE tx'[r] = tx[r]
    <3>1. SaveOK(tx[r]) BY DEF ProfileInv
    <3> QED BY <2>2, <3>1, <1>2 DEF SaveOK
  <2> QED BY <2>1, <2>2
<1>5. \A r \in Requests : RowKept(tx[r])'
  <2> SUFFICES ASSUME NEW r \in Requests PROVE RowKept(tx[r])' OBVIOUS
  <2>1. CASE tx'[r] = Profile!Idle BY <2>1, IdleTx
  <2>2. CASE tx'[r] = tx[r]
    <3>1. RowKept(tx[r]) BY DEF ProfileInv
    <3>2. tx[r].at = "updated" => tx[r].user \in Accounts BY ProfileTxShape DEF ProfileInv, KycTxs
    <3> QED BY <2>2, <3>1, <3>2, <1>3 DEF RowKept
  <2> QED BY <2>1, <2>2
<1>6. ASSUME NEW x \in Accounts PROVE ProfileOK(x)'
  <2>1. CASE x = u BY <2>1, <1>3 DEF ProfileOK, IsSearchable
  <2>2. CASE x # u
    <3>1. ProfileOK(x) /\ profile'[x] = profile[x] /\ events'[x] = events[x] BY <2>2, <1>3 DEF ProfileInv
    <3> QED BY <3>1, <1>2 DEF ProfileOK, IsSearchable
  <2> QED BY <2>1, <2>2
<1> QED BY <1>1, <1>4, <1>5, <1>6 DEF ProfileInv

(* The profile is committed with its event. *)
LEMMA CommitProfileStep ==
  ASSUME ProfileConstants, ProfileInv, NEW r \in Requests, Profile!CommitProfile(r)
  PROVE  ProfileInv'
<1>1. PICK t \in SaveTxs : t = tx[r] BY ProfileTxShape DEF ProfileInv, Profile!CommitProfile
<1>2. PICK u \in Accounts : u = t.user BY DEF SaveTxs
<1>3. PICK row : row = [completeness |-> Profile!Completeness(t.filled), searchable |-> t.searchable,
                        kyc |-> IF profile[u] = None THEN "not_started" ELSE profile[u].kyc]
  OBVIOUS
<1>4. PICK e : e = Profile!FreelancerEvent(t) OBVIOUS
<1>5. /\ t.at = "upserted" /\ profile' = [profile EXCEPT ![u] = row]
      /\ events' = [events EXCEPT ![u] = Append(@, e)] /\ tx' = [tx EXCEPT ![r] = Profile!Idle]
      /\ UNCHANGED <<kycRecords, skills>>
  BY <1>1, <1>2, <1>3, <1>4 DEF Profile!CommitProfile, Profile!Announce, Profile!rest, ProfileInv, ProfileTypes
<1>6. ProfileTypes /\ ProfileOK(u) /\ SaveOK(t) /\ profile[u] \in ProfileRows \cup {None}
  BY <1>1 DEF ProfileInv, ProfileTypes
<1>7. row.completeness = Profile!Completeness(t.filled) /\ row.searchable = t.searchable
      /\ row.kyc = (IF profile[u] = None THEN "not_started" ELSE profile[u].kyc)
  BY <1>3
<1>8. row \in ProfileRows /\ row # None
  <2>1. Profile!Completeness(t.filled) \in Nat
    <3>0. t.filled \in Filled BY DEF SaveTxs
    <3>1. t.filled \in Nat BY <3>0 DEF ProfileConstants
    <3>2. \A n \in Nat : (n * 100) \div 6 \in Nat OBVIOUS
    <3> QED BY <3>1, <3>2 DEF Profile!Completeness, Profile!completenessFields
  <2>2. (IF profile[u] = None THEN "not_started" ELSE profile[u].kyc) \in Profile!validKYCStatuses
    BY <1>6 DEF ProfileRows, Profile!validKYCStatuses
  <2>3. t.searchable \in BOOLEAN BY DEF SaveTxs
  <2>4. row \in ProfileRows BY <1>3, <2>1, <2>2, <2>3 DEF ProfileRows
  <2> QED BY <2>4 DEF ProfileConstants
<1>9. e \in ProfileEvents BY <1>4 DEF ProfileEvents, Profile!FreelancerEvent, SaveTxs
<1>10. Profile!EverVerified(u)' <=> Profile!EverVerified(u) BY <1>5 DEF Profile!EverVerified
<1>11. row.searchable => row.completeness >= 60 /\ Profile!EverVerified(u)
  BY <1>2, <1>5, <1>6, <1>7 DEF SaveOK
<1>12. row.kyc = "verified" => Profile!EverVerified(u) BY <1>6, <1>7 DEF ProfileOK
<1>13. row.searchable <=> InAfter(events'[u], Len(events'[u]))
  <2>1. events'[u] = Append(events[u], e) /\ events[u] \in Seq(ProfileEvents) BY <1>5, <1>6 DEF ProfileTypes
  <2>2. t.searchable \in BOOLEAN BY DEF SaveTxs
  <2>3. Profile!route(e) = IF t.searchable THEN "index" ELSE "delete"
    BY <1>4 DEF Profile!route, Profile!FreelancerEvent
  <2> QED BY <2>1, <2>2, <2>3, <1>7, <1>9, AnnounceAfter
<1>14. tx' \in [Requests -> ProfileTxs] /\ \A o \in Requests : tx'[o] = tx[o] \/ tx'[o] = Profile!Idle
  BY <1>5, <1>6, IdleTx DEF ProfileTypes
<1> QED BY <1>5, <1>8, <1>9, <1>10, <1>11, <1>12, <1>13, <1>14, ProfileCommitted

(* An event that the search ignores leaves the verdict of the log. *)
LEMMA IgnoredEvent ==
  ASSUME ProfileInv, NEW u \in Accounts, NEW e \in ProfileEvents, Profile!route(e) = "ignore",
         events' = [events EXCEPT ![u] = Append(@, e)]
  PROVE  IsSearchable(u) <=> InAfter(events'[u], Len(events'[u]))
<1>1. events'[u] = Append(events[u], e) /\ events[u] \in Seq(ProfileEvents) BY DEF ProfileInv, ProfileTypes
<1> QED BY <1>1, AnnounceAfter DEF ProfileInv, ProfileOK

(* The verdict is committed with its event. *)
LEMMA CommitKYCStep ==
  ASSUME ProfileConstants, ProfileInv, NEW r \in Requests, Profile!CommitKYC(r)
  PROVE  ProfileInv'
<1>1. PICK t \in KycTxs : t = tx[r] BY ProfileTxShape DEF ProfileInv, Profile!CommitKYC
<1>2. PICK u \in Accounts : u = t.user BY DEF KycTxs
<1>3. PICK e : e = [type |-> "user.kyc_updated", kind |-> None, searchable |-> FALSE] OBVIOUS
<1>4. /\ t.at \in {"updated", "missed"}
      /\ profile' = IF t.at = "missed" THEN profile ELSE [profile EXCEPT ![u].kyc = t.status]
      /\ kycRecords' = kycRecords \cup {<<u, t.status>>}
      /\ events' = [events EXCEPT ![u] = Append(@, e)] /\ tx' = [tx EXCEPT ![r] = Profile!Idle]
      /\ UNCHANGED skills
  BY <1>1, <1>2, <1>3 DEF Profile!CommitKYC, Profile!Announce
<1>5. ProfileTypes /\ ProfileOK(u) /\ RowKept(t) /\ profile[u] \in ProfileRows \cup {None}
  BY <1>1 DEF ProfileInv, ProfileTypes
<1>6. e \in ProfileEvents /\ Profile!route(e) = "ignore" BY <1>3 DEF ProfileEvents, Profile!route
<1>7. IsSearchable(u) <=> InAfter(events'[u], Len(events'[u])) BY <1>4, <1>6, IgnoredEvent
<1>8. tx' \in [Requests -> ProfileTxs] /\ \A o \in Requests : tx'[o] = tx[o] \/ tx'[o] = Profile!Idle
  BY <1>4, <1>5, IdleTx DEF ProfileTypes
<1>9. kycRecords \subseteq kycRecords' /\ (Profile!EverVerified(u) => Profile!EverVerified(u)')
  BY <1>4 DEF Profile!EverVerified
<1>10. CASE t.at = "missed"
  <2>1. profile' = [profile EXCEPT ![u] = profile[u]] BY <1>4, <1>5, <1>10 DEF ProfileTypes
  <2>2. profile[u] # None /\ profile[u].searchable => profile[u].completeness >= 60 /\ Profile!EverVerified(u)'
    BY <1>5, <1>9 DEF ProfileOK, IsSearchable
  <2>3. profile[u] # None /\ profile[u].kyc = "verified" => Profile!EverVerified(u)' BY <1>5, <1>9 DEF ProfileOK
  <2> QED BY <1>4, <1>5, <1>6, <1>7, <1>8, <1>9, <2>1, <2>2, <2>3, ProfileCommitted DEF IsSearchable
<1>11. CASE t.at = "updated"
  <2>1. profile[u] \in ProfileRows BY <1>2, <1>5, <1>11 DEF RowKept
  <2>2. PICK row : row = [profile[u] EXCEPT !.kyc = t.status] OBVIOUS
  <2>3. profile' = [profile EXCEPT ![u] = row] BY <1>4, <1>5, <1>11, <2>2 DEF ProfileTypes
  <2>4. row \in ProfileRows /\ row.searchable = profile[u].searchable /\ row.completeness = profile[u].completeness
        /\ row.kyc = t.status
    BY <2>1, <2>2, <1>1 DEF ProfileRows, KycTxs
  <2>5. row # None /\ profile[u] # None BY <2>1, <2>4 DEF ProfileConstants
  <2>6. row.searchable => row.completeness >= 60 /\ Profile!EverVerified(u)'
    BY <1>5, <1>9, <2>4, <2>5 DEF ProfileOK, IsSearchable
  <2>7. row.kyc = "verified" => Profile!EverVerified(u)' BY <1>4, <2>4 DEF Profile!EverVerified
  <2>8. row.searchable <=> InAfter(events'[u], Len(events'[u])) BY <1>7, <2>4, <2>5 DEF IsSearchable
  <2> QED BY <1>4, <1>6, <1>8, <1>9, <2>3, <2>4, <2>5, <2>6, <2>7, <2>8, ProfileCommitted
<1> QED BY <1>4, <1>10, <1>11

(* A client profile is one statement. *)
LEMMA UpsertClientStep ==
  ASSUME ProfileConstants, ProfileInv, NEW u \in Accounts, Profile!UpsertClientProfile(u)
  PROVE  ProfileInv'
<1>1. PICK e : e = Profile!ClientEvent OBVIOUS
<1>2. events' = [events EXCEPT ![u] = Append(@, e)] /\ UNCHANGED <<profile, kycRecords, skills, tx>>
  BY <1>1 DEF Profile!UpsertClientProfile, Profile!Announce
<1>3. ProfileTypes /\ ProfileOK(u) /\ profile[u] \in ProfileRows \cup {None} BY DEF ProfileInv, ProfileTypes
<1>4. e \in ProfileEvents /\ Profile!route(e) = "ignore"
  BY <1>1 DEF ProfileEvents, Profile!route, Profile!ClientEvent
<1>5. IsSearchable(u) <=> InAfter(events'[u], Len(events'[u])) BY <1>2, <1>4, IgnoredEvent
<1>6. Profile!EverVerified(u) => Profile!EverVerified(u)' BY <1>2 DEF Profile!EverVerified
<1>7. profile' = [profile EXCEPT ![u] = profile[u]] BY <1>2, <1>3 DEF ProfileTypes
<1>8. profile[u] # None /\ profile[u].searchable => profile[u].completeness >= 60 /\ Profile!EverVerified(u)'
  BY <1>3, <1>6 DEF ProfileOK, IsSearchable
<1>9. profile[u] # None /\ profile[u].kyc = "verified" => Profile!EverVerified(u)' BY <1>3, <1>6 DEF ProfileOK
<1>10. tx' \in [Requests -> ProfileTxs] /\ tx' = tx BY <1>2, <1>3 DEF ProfileTypes
<1> QED BY <1>2, <1>3, <1>4, <1>5, <1>7, <1>8, <1>9, <1>10, ProfileCommitted DEF IsSearchable

(* Everything else leaves the profiles alone. *)
LEMMA ProfileKept ==
  ASSUME ProfileInv, UNCHANGED <<profile, kycRecords, skills, events, tx>>
  PROVE  ProfileInv'
<1>1. ProfileTypes' BY DEF ProfileInv, ProfileTypes
<1>2. \A u \in Accounts : ProfileOK(u)' BY DEF ProfileInv, ProfileOK, IsSearchable, Profile!EverVerified
<1>3. \A r \in Requests : SaveOK(tx[r])' /\ RowKept(tx[r])' BY DEF ProfileInv, SaveOK, RowKept, Profile!EverVerified
<1> QED BY <1>1, <1>2, <1>3 DEF ProfileInv

(* Every step of the user service keeps its invariant. *)
LEMMA ProfileNext ==
  ASSUME ProfileConstants, ProfileInv, Profile!Next
  PROVE  ProfileInv'
<1>1. ASSUME NEW r \in Requests, Profile!Request(r) PROVE ProfileInv'
  BY <1>1, UpsertProfileStep, UpsertRowStep, CommitProfileStep, SetKYCStep, UpdateStatusStep, CommitKYCStep,
     SetSkillsStep, CommitSkillsStep, ProfileRollbackStep DEF Profile!Request
<1>2. CASE Profile!Own
  <2>1. ASSUME NEW a, NEW u, Profile!AddPortfolioItem(a, u) \/ Profile!RegisterDevice(a, u) PROVE ProfileInv'
    BY <2>1, ProfileKept DEF Profile!AddPortfolioItem, Profile!RegisterDevice
  <2> QED BY <1>2, <2>1, UpsertClientStep DEF Profile!Own
<1>3. ASSUME NEW u \in Accounts, Profile!Consume(u) PROVE ProfileInv'
  <2>1. UNCHANGED <<profile, kycRecords, skills, events, tx>>
    BY <1>3 DEF Profile!Consume, Profile!AlreadyProcessed, Profile!HandleEvent, Profile!HandlerFails,
       Profile!MarkProcessed, Profile!CommitMessages, Profile!Takeover, Profile!ApplyLate, Profile!rest
  <2> QED BY <2>1, ProfileKept
<1> QED BY <1>1, <1>2, <1>3 DEF Profile!Next

(* So the invariant of the user service always holds. *)
LEMMA ProfileInvariant == ASSUME ProfileConstants PROVE Profile!Spec => []ProfileInv
<1>1. Profile!Init => ProfileInv BY ProfileInit
<1>2. ProfileInv /\ Profile!Next => ProfileInv' BY ProfileNext
<1>3. ProfileInv /\ UNCHANGED Profile!vars => ProfileInv' BY ProfileKept DEF Profile!vars, Profile!rest
<1> QED BY <1>1, <1>2, <1>3, PTL DEF Profile!Spec

-----------------------------------------------------------------------------
(* The search consumer *)

Consumers == [at : {"fetch", "handle", "mark", "commit"}, committed : Nat, next : Nat, attempt : Nat]

(* The index holds what the first n events say. *)
Reflects(u, n) == u \in index <=> InAfter(events[u], n)

ConsumerOK(u) ==
  /\ consumer[u].next = consumer[u].committed + 1
  /\ consumer[u].committed <= Len(events[u])
  /\ consumer[u].at # "fetch" => consumer[u].next <= Len(events[u])
  /\ consumer[u].at \in {"mark", "commit"} => Reflects(u, consumer[u].next)
  /\ \/ Reflects(u, consumer[u].committed)
     \/ consumer[u].next <= Len(events[u]) /\ Reflects(u, consumer[u].next)
  /\ \A n \in Nat : <<u, n>> \in processed => n <= consumer[u].next
  /\ <<u, consumer[u].next>> \in processed => consumer[u].next <= Len(events[u]) /\ Reflects(u, consumer[u].next)

ConsumerInv ==
  /\ consumer \in [Accounts -> Consumers]
  /\ \A u \in Accounts : u \notin disturbed => ConsumerOK(u)

(* The consumer of the search service starts with nothing read. *)
LEMMA ConsumerInit == Profile!Init => ConsumerInv
<1> SUFFICES ASSUME Profile!Init PROVE ConsumerInv OBVIOUS
<1>1. consumer \in [Accounts -> Consumers] BY DEF Profile!Init, Profile!Start, Consumers
<1>2. ASSUME NEW u \in Accounts PROVE ConsumerOK(u)
  <2>1. /\ consumer[u].at = "fetch" /\ consumer[u].committed = 0 /\ consumer[u].next = 1
        /\ events[u] = <<>> /\ index = {} /\ processed = {}
    BY DEF Profile!Init, Profile!Start
  <2>2. Reflects(u, 0) BY <2>1 DEF Reflects, InAfter
  <2> QED BY <2>1, <2>2 DEF ConsumerOK
<1> QED BY <1>1, <1>2 DEF ConsumerInv

(* Events that are added do not disturb the consumer. *)
LEMMA ConsumerKept ==
  ASSUME ProfileTypes, ConsumerInv, UNCHANGED <<index, consumer, processed, disturbed>>,
         \A u \in Accounts : events'[u] = events[u] \/ \E e \in ProfileEvents : events'[u] = Append(events[u], e)
  PROVE  ConsumerInv'
<1>1. ASSUME NEW u \in Accounts, u \notin disturbed PROVE ConsumerOK(u)'
  <2>1. ConsumerOK(u) /\ consumer[u] \in Consumers /\ events[u] \in Seq(ProfileEvents) BY <1>1 DEF ConsumerInv, ProfileTypes
  <2>2. /\ Len(events[u]) \in Nat /\ Len(events'[u]) \in Nat /\ Len(events[u]) <= Len(events'[u])
        /\ \A n \in 0 .. Len(events[u]) : InAfter(events'[u], n) <=> InAfter(events[u], n)
    <3>1. CASE events'[u] = events[u] BY <2>1, <3>1
    <3>2. CASE \E e \in ProfileEvents : events'[u] = Append(events[u], e) BY <2>1, <3>2, AnnounceAfter
    <3> QED BY <3>1, <3>2
  <2>3. consumer[u].committed \in Nat /\ consumer[u].next \in Nat BY <2>1 DEF Consumers
  <2>4. \A n \in 0 .. Len(events[u]) : Reflects(u, n) <=> Reflects(u, n)' BY <2>2 DEF Reflects
  <2>5. PICK c : c = consumer[u] /\ c = consumer'[u] OBVIOUS
  <2>6. PICK m, k \in Nat : m = c.committed /\ k = c.next BY <2>3, <2>5
  <2>7. /\ k = m + 1 /\ m <= Len(events[u]) /\ (c.at # "fetch" => k <= Len(events[u]))
        /\ c.at \in {"mark", "commit"} => Reflects(u, k)
        /\ Reflects(u, m) \/ (k <= Len(events[u]) /\ Reflects(u, k))
        /\ \A n \in Nat : <<u, n>> \in processed => n <= k
        /\ <<u, k>> \in processed => k <= Len(events[u]) /\ Reflects(u, k)
    BY <2>1, <2>5, <2>6 DEF ConsumerOK
  <2>8. /\ Reflects(u, m) => Reflects(u, m)'
        /\ k <= Len(events[u]) /\ Reflects(u, k) => Reflects(u, k)'
    BY <2>2, <2>4, <2>7
  <2>9. /\ k = m + 1 /\ m <= Len(events'[u]) /\ (c.at # "fetch" => k <= Len(events'[u]))
        /\ c.at \in {"mark", "commit"} => Reflects(u, k)'
        /\ Reflects(u, m)' \/ (k <= Len(events'[u]) /\ Reflects(u, k)')
        /\ \A n \in Nat : <<u, n>> \in processed' => n <= k
        /\ <<u, k>> \in processed' => k <= Len(events'[u]) /\ Reflects(u, k)'
    BY <2>2, <2>7, <2>8
  <2> QED BY <2>5, <2>6, <2>9 DEF ConsumerOK
<1> QED BY <1>1 DEF ConsumerInv

(* One event applied: the index says what the log says after it. *)
LEMMA EventApplied ==
  ASSUME ProfileTypes, NEW u \in Accounts, NEW n \in Nat, n + 1 <= Len(events[u]),
         Reflects(u, n) \/ Reflects(u, n + 1), UNCHANGED events,
         index' = Profile!indexEvent(u, events[u][n + 1])
  PROVE  Reflects(u, n + 1)'
<1>1. PICK e : e = events[u][n + 1] OBVIOUS
<1>2. Profile!route(e) \in {"index", "delete", "ignore"} BY DEF Profile!route
<1>3. CASE Profile!route(e) = "index" BY <1>1, <1>3, AfterNext DEF Reflects, Profile!indexEvent
<1>4. CASE Profile!route(e) = "delete" BY <1>1, <1>4, AfterNext DEF Reflects, Profile!indexEvent
<1>5. CASE Profile!route(e) = "ignore"
  <2>1. index' = index BY <1>1, <1>5 DEF Profile!indexEvent
  <2>2. InAfter(events[u], n + 1) <=> InAfter(events[u], n) BY <1>1, <1>5, AfterNext
  <2> QED BY <2>1, <2>2 DEF Reflects
<1> QED BY <1>2, <1>3, <1>4, <1>5

(* A step of one user's consumer. *)
LEMMA ConsumerStep ==
  ASSUME ConsumerInv, NEW u \in Accounts, NEW c \in Consumers, consumer' = [consumer EXCEPT ![u] = c],
         UNCHANGED events, disturbed \subseteq disturbed',
         \A x \in Accounts \ {u} : /\ x \in index' <=> x \in index
                                /\ \A n : <<x, n>> \in processed' <=> <<x, n>> \in processed,
         u \notin disturbed' => ConsumerOK(u)'
  PROVE  ConsumerInv'
<1>1. consumer' \in [Accounts -> Consumers] BY DEF ConsumerInv
<1>2. ASSUME NEW x \in Accounts \ {u}, x \notin disturbed' PROVE ConsumerOK(x)'
  <2>1. ConsumerOK(x) /\ consumer'[x] = consumer[x] BY <1>2 DEF ConsumerInv
  <2>2. \A n : Reflects(x, n)' <=> Reflects(x, n) BY DEF Reflects
  <2> QED BY <2>1, <2>2 DEF ConsumerOK
<1> QED BY <1>1, <1>2 DEF ConsumerInv

(* The consumer applies the next event of a freelancer. *)
LEMMA ConsumeStep ==
  ASSUME ProfileTypes, ConsumerInv, NEW u \in Accounts, Profile!Consume(u)
  PROVE  ConsumerInv'
<1>0. PICK c \in Consumers : c = consumer[u] BY DEF ConsumerInv
<1>1. /\ consumer \in [Accounts -> Consumers] /\ c.committed \in Nat /\ c.next \in Nat /\ c.attempt \in Nat
      /\ Len(events[u]) \in Nat /\ c.at \in {"fetch", "handle", "mark", "commit"}
  BY DEF ConsumerInv, Consumers, ProfileTypes
<1>2. ASSUME u \notin disturbed
      PROVE  /\ c.next = c.committed + 1 /\ c.committed <= Len(events[u])
             /\ c.at # "fetch" => c.next <= Len(events[u])
             /\ c.at \in {"mark", "commit"} => Reflects(u, c.next)
             /\ Reflects(u, c.committed) \/ (c.next <= Len(events[u]) /\ Reflects(u, c.next))
             /\ \A n \in Nat : <<u, n>> \in processed => n <= c.next
             /\ <<u, c.next>> \in processed => c.next <= Len(events[u]) /\ Reflects(u, c.next)
  BY <1>0, <1>2 DEF ConsumerInv, ConsumerOK
<1>3. CASE Profile!AlreadyProcessed(u)
  <2>1. PICK to : to = IF <<u, c.next>> \in processed THEN "commit" ELSE "handle" OBVIOUS
  <2>2. PICK d : d = [at |-> to, committed |-> c.committed, next |-> c.next, attempt |-> c.attempt] OBVIOUS
  <2>3. d = [c EXCEPT !.at = to] /\ d \in Consumers BY <2>1, <2>2 DEF Consumers
  <2>4. /\ c.next <= Len(events[u]) /\ consumer' = [consumer EXCEPT ![u] = d]
        /\ UNCHANGED <<events, index, processed, disturbed>>
    BY <1>0, <1>3, <2>1, <2>3 DEF Profile!AlreadyProcessed, Profile!Fetched, Profile!Goto
  <2>5. \A n : Reflects(u, n)' <=> Reflects(u, n) BY <2>4 DEF Reflects
  <2>6. consumer'[u] = d /\ d.at = to /\ d.committed = c.committed /\ d.next = c.next BY <1>1, <2>2, <2>4
  <2>7. u \notin disturbed' => ConsumerOK(u)'
    BY <1>2, <2>1, <2>4, <2>5, <2>6 DEF ConsumerOK
  <2> QED BY <2>3, <2>4, <2>7, ConsumerStep
<1>4. CASE Profile!HandleEvent(u)
  <2>2. PICK d : d = [at |-> "mark", committed |-> c.committed, next |-> c.next, attempt |-> c.attempt] OBVIOUS
  <2>3. d = [c EXCEPT !.at = "mark"] /\ d \in Consumers BY <2>2 DEF Consumers
  <2>4. /\ c.at = "handle" /\ consumer' = [consumer EXCEPT ![u] = d]
        /\ UNCHANGED <<events, processed, disturbed>>
        /\ index' = Profile!indexEvent(u, events[u][c.next])
    BY <1>0, <1>4, <2>3 DEF Profile!HandleEvent, Profile!Goto
  <2>5. \A x \in Accounts \ {u} : x \in index' <=> x \in index BY <2>4 DEF Profile!indexEvent
  <2>6. consumer'[u] = d /\ d.at = "mark" /\ d.committed = c.committed /\ d.next = c.next BY <1>1, <2>2, <2>4
  <2>7. ASSUME u \notin disturbed' PROVE ConsumerOK(u)'
    <3>1. PICK n \in Nat : n = c.committed BY <1>1
    <3>2. c.next = n + 1 /\ n + 1 <= Len(events[u]) /\ (Reflects(u, n) \/ Reflects(u, n + 1))
      BY <1>2, <2>4, <2>7, <3>1
    <3>3. Reflects(u, n + 1)' BY <2>4, <3>2, EventApplied
    <3>4. \A i \in Nat : <<u, i>> \in processed' => i <= n + 1 BY <1>2, <2>4, <2>7, <3>2
    <3> QED BY <2>4, <2>6, <3>1, <3>2, <3>3, <3>4 DEF ConsumerOK
  <2> QED BY <2>3, <2>4, <2>5, <2>7, ConsumerStep
<1>5. CASE Profile!HandlerFails(u)
  <2>1. UNCHANGED <<events, index, processed>> /\ c.at = "handle"
    BY <1>0, <1>5 DEF Profile!HandlerFails
  <2>2. \A n : Reflects(u, n)' <=> Reflects(u, n) BY <2>1 DEF Reflects
  <2>3. CASE c.attempt < MaxRetries
    <3>1. PICK d : d = [at |-> "handle", committed |-> c.committed, next |-> c.next, attempt |-> c.attempt + 1] OBVIOUS
    <3>2. d = [c EXCEPT !.attempt = @ + 1] /\ d \in Consumers BY <1>1, <2>1, <3>1 DEF Consumers
    <3>3. consumer' = [consumer EXCEPT ![u] = d] /\ disturbed' = disturbed
      BY <1>0, <1>1, <1>5, <2>3, <3>2 DEF Profile!HandlerFails
    <3>4. consumer'[u] = d /\ d.at = "handle" /\ d.committed = c.committed /\ d.next = c.next BY <1>1, <3>1, <3>3
    <3>5. u \notin disturbed' => ConsumerOK(u)' BY <1>2, <2>1, <2>2, <3>3, <3>4 DEF ConsumerOK
    <3> QED BY <2>1, <3>2, <3>3, <3>5, ConsumerStep
  <2>4. CASE ~(c.attempt < MaxRetries)
    <3>1. PICK d : d = [at |-> "fetch", committed |-> c.committed, next |-> c.next + 1, attempt |-> 1] OBVIOUS
    <3>0. d \in Consumers BY <1>1, <3>1 DEF Consumers
    <3>2. d = [c EXCEPT !.at = "fetch", !.attempt = 1, !.next = @ + 1]
      <4>1. c = [at |-> c.at, committed |-> c.committed, next |-> c.next, attempt |-> c.attempt] BY DEF Consumers
      <4>2. PICK k : k = c.next + 1 OBVIOUS
      <4>3. PICK b : b = [c EXCEPT !.at = "fetch"] OBVIOUS
      <4>4. b = [at |-> "fetch", committed |-> c.committed, next |-> c.next, attempt |-> c.attempt] BY <4>1, <4>3
      <4>5. PICK a : a = [b EXCEPT !.attempt = 1] OBVIOUS
      <4>6. a = [at |-> "fetch", committed |-> c.committed, next |-> c.next, attempt |-> 1] BY <4>4, <4>5
      <4>7. d = [a EXCEPT !.next = k] BY <3>1, <4>2, <4>6
      <4> QED BY <4>2, <4>3, <4>5, <4>7
    <3>3. consumer' = [consumer EXCEPT ![u] = d] /\ disturbed' = disturbed \cup {u}
      BY <1>0, <1>1, <1>5, <2>4, <3>2 DEF Profile!HandlerFails
    <3> QED BY <2>1, <3>0, <3>3, ConsumerStep
  <2> QED BY <2>3, <2>4
<1>6. ASSUME NEW marked \in BOOLEAN, Profile!MarkProcessed(u, marked) PROVE ConsumerInv'
  <2>2. PICK d : d = [at |-> "commit", committed |-> c.committed, next |-> c.next, attempt |-> c.attempt] OBVIOUS
  <2>3. d = [c EXCEPT !.at = "commit"] /\ d \in Consumers BY <2>2 DEF Consumers
  <2>4. /\ c.at = "mark" /\ consumer' = [consumer EXCEPT ![u] = d]
        /\ UNCHANGED <<events, index, disturbed>>
        /\ processed' = processed \/ processed' = processed \cup {<<u, c.next>>}
    BY <1>0, <1>6, <2>3 DEF Profile!MarkProcessed, Profile!Goto
  <2>5. \A n : Reflects(u, n)' <=> Reflects(u, n) BY <2>4 DEF Reflects
  <2>6. consumer'[u] = d /\ d.at = "commit" /\ d.committed = c.committed /\ d.next = c.next BY <1>1, <2>2, <2>4
  <2>7. \A x \in Accounts \ {u} : \A n : <<x, n>> \in processed' <=> <<x, n>> \in processed BY <2>4
  <2>8. u \notin disturbed => \A n \in Nat : <<u, n>> \in processed' => n <= c.next BY <1>1, <1>2, <2>4
  <2>9. u \notin disturbed' => ConsumerOK(u)'
    BY <1>2, <2>4, <2>5, <2>6, <2>8 DEF ConsumerOK
  <2> QED BY <2>3, <2>4, <2>7, <2>9, ConsumerStep
<1>7. CASE Profile!CommitMessages(u)
  <2>2. PICK d : d = [at |-> "fetch", committed |-> c.next, next |-> c.next + 1, attempt |-> 1] OBVIOUS
  <2>3. d = Profile!Start(c.next) /\ d \in Consumers BY <1>1, <2>2 DEF Consumers, Profile!Start
  <2>4. /\ c.at = "commit" /\ consumer' = [consumer EXCEPT ![u] = d]
        /\ UNCHANGED <<events, index, disturbed, processed>>
    BY <1>0, <1>7, <2>3 DEF Profile!CommitMessages
  <2>5. \A n : Reflects(u, n)' <=> Reflects(u, n) BY <2>4 DEF Reflects
  <2>6. consumer'[u] = d /\ d.at = "fetch" /\ d.committed = c.next /\ d.next = c.next + 1 BY <1>1, <2>2, <2>4
  <2>7. ASSUME u \notin disturbed' PROVE ConsumerOK(u)'
    <3>1. PICK k \in Nat : k = c.next BY <1>1
    <3>2. /\ k <= Len(events[u]) /\ Reflects(u, k)' /\ \A n \in Nat : <<u, n>> \in processed => n <= k
      BY <1>2, <2>4, <2>5, <2>7, <3>1
    <3>3. <<u, k + 1>> \notin processed
      <4>1. k + 1 \in Nat /\ ~(k + 1 <= k) OBVIOUS
      <4> QED BY <3>2, <4>1
    <3>4. \A n \in Nat : n <= k => n <= k + 1 OBVIOUS
    <3> QED BY <2>4, <2>6, <3>1, <3>2, <3>3, <3>4 DEF ConsumerOK
  <2> QED BY <2>3, <2>4, <2>7, ConsumerStep
<1>8. CASE Profile!Takeover(u)
  <2>2. PICK d : d = [at |-> "fetch", committed |-> c.committed, next |-> c.committed + 1, attempt |-> 1] OBVIOUS
  <2>3. d = Profile!Start(c.committed) /\ d \in Consumers BY <1>1, <2>2 DEF Consumers, Profile!Start
  <2>4. consumer' = [consumer EXCEPT ![u] = d] /\ UNCHANGED <<events, index, disturbed, processed>>
    BY <1>0, <1>8, <2>3 DEF Profile!Takeover
  <2>5. \A n : Reflects(u, n)' <=> Reflects(u, n) BY <2>4 DEF Reflects
  <2>6. consumer'[u] = d /\ d.at = "fetch" /\ d.committed = c.committed /\ d.next = c.committed + 1 BY <1>1, <2>2, <2>4
  <2>7. u \notin disturbed' => ConsumerOK(u)' BY <1>2, <2>4, <2>5, <2>6 DEF ConsumerOK
  <2> QED BY <2>3, <2>4, <2>7, ConsumerStep
<1>9. CASE Profile!ApplyLate(u)
  <2>1. /\ index' = Profile!indexEvent(u, events[u][late[u]]) /\ disturbed' = disturbed \cup {u}
        /\ UNCHANGED <<events, consumer, processed>>
    BY <1>9 DEF Profile!ApplyLate
  <2>2. \A x \in Accounts \ {u} : x \in index' <=> x \in index BY <2>1 DEF Profile!indexEvent
  <2>3. consumer' = [consumer EXCEPT ![u] = c] BY <1>0, <1>1, <2>1
  <2> QED BY <2>1, <2>2, <2>3, ConsumerStep
<1> QED BY <1>3, <1>4, <1>5, <1>6, <1>7, <1>8, <1>9 DEF Profile!Consume

(* Every step keeps the index in line with the events consumed. *)
LEMMA ConsumerNext ==
  ASSUME ProfileInv, ProfileInv', ConsumerInv, Profile!Next
  PROVE  ConsumerInv'
<1>0. ProfileTypes BY DEF ProfileInv
<1>1. ASSUME NEW r \in Requests, Profile!Request(r) PROVE ConsumerInv'
  <2>1. UNCHANGED <<index, consumer, processed, disturbed>>
    BY <1>1 DEF Profile!Request, Profile!UpsertFreelancerProfile, Profile!UpsertRow, Profile!CommitProfile,
       Profile!SetKYCStatus, Profile!UpdateStatus, Profile!CommitKYC, Profile!SetFreelancerSkills,
       Profile!CommitSkills, Profile!Rollback, Profile!search
  <2>2. CASE UNCHANGED events BY <1>0, <2>1, <2>2, ConsumerKept
  <2>3. CASE Profile!CommitProfile(r)
    <3>1. PICK t \in SaveTxs : t = tx[r] BY <1>0, <2>3, ProfileTxShape DEF Profile!CommitProfile
    <3>2. events' = [events EXCEPT ![t.user] = Append(@, Profile!FreelancerEvent(t))] /\ t.user \in Accounts
      BY <2>3, <3>1 DEF Profile!CommitProfile, Profile!Announce, SaveTxs
    <3>3. Profile!FreelancerEvent(t) \in ProfileEvents BY DEF ProfileEvents, Profile!FreelancerEvent, SaveTxs
    <3>4. \A u \in Accounts : events'[u] = events[u] \/ events'[u] = Append(events[u], Profile!FreelancerEvent(t))
      BY <1>0, <3>2 DEF ProfileTypes
    <3> QED BY <1>0, <2>1, <3>3, <3>4, ConsumerKept
  <2>4. CASE Profile!CommitKYC(r)
    <3>1. PICK t \in KycTxs : t = tx[r] BY <1>0, <2>4, ProfileTxShape DEF Profile!CommitKYC
    <3>2. PICK e : e = [type |-> "user.kyc_updated", kind |-> None, searchable |-> FALSE] OBVIOUS
    <3>3. events' = [events EXCEPT ![t.user] = Append(@, e)] /\ t.user \in Accounts
      BY <2>4, <3>1, <3>2 DEF Profile!CommitKYC, Profile!Announce, KycTxs
    <3>4. e \in ProfileEvents BY <3>2 DEF ProfileEvents
    <3>5. \A u \in Accounts : events'[u] = events[u] \/ events'[u] = Append(events[u], e)
      BY <1>0, <3>3 DEF ProfileTypes
    <3> QED BY <1>0, <2>1, <3>4, <3>5, ConsumerKept
  <2> QED BY <1>1, <2>2, <2>3, <2>4
      DEF Profile!Request, Profile!UpsertFreelancerProfile, Profile!UpsertRow,
       Profile!SetKYCStatus, Profile!UpdateStatus, Profile!SetFreelancerSkills,
       Profile!CommitSkills, Profile!Rollback
<1>2. CASE Profile!Own
  <2>1. UNCHANGED <<index, consumer, processed, disturbed>>
    BY <1>2 DEF Profile!Own, Profile!UpsertClientProfile, Profile!AddPortfolioItem, Profile!RegisterDevice, Profile!search
  <2>2. CASE UNCHANGED events BY <1>0, <2>1, <2>2, ConsumerKept
  <2>3. ASSUME NEW u \in Accounts, Profile!UpsertClientProfile(u) PROVE ConsumerInv'
    <3>1. events' = [events EXCEPT ![u] = Append(@, Profile!ClientEvent)]
      BY <2>3 DEF Profile!UpsertClientProfile, Profile!Announce
    <3>2. Profile!ClientEvent \in ProfileEvents BY DEF ProfileEvents, Profile!ClientEvent
    <3>3. \A x \in Accounts : events'[x] = events[x] \/ events'[x] = Append(events[x], Profile!ClientEvent)
      BY <1>0, <3>1 DEF ProfileTypes
    <3> QED BY <1>0, <2>1, <3>2, <3>3, ConsumerKept
  <2> QED BY <1>2, <2>2, <2>3 DEF Profile!Own, Profile!AddPortfolioItem, Profile!RegisterDevice
<1>3. ASSUME NEW u \in Accounts, Profile!Consume(u) PROVE ConsumerInv' BY <1>0, <1>3, ConsumeStep
<1> QED BY <1>1, <1>2, <1>3 DEF Profile!Next

(* The behaviours of the user service and the search consumer. *)
LEMMA ProfilePart == ServicesSpec => []~(part = "profiles") \/ ([](part = "profiles") /\ Profile!Spec)
<1>1. ServicesInit /\ part = "profiles" => Profile!Init BY DEF ServicesInit
<1>2. part = "profiles" /\ [ServicesNext]_allVars => (part = "profiles")' /\ [Profile!Next]_(Profile!vars)
  <2>1. part = "profiles" /\ ServicesNext => part' = "profiles" /\ Profile!Next BY DEF ServicesNext
  <2>2. UNCHANGED allVars => UNCHANGED part /\ UNCHANGED Profile!vars
    BY DEF allVars, profileVars, sharedVars, Profile!vars, Profile!rest, Profile!search
  <2> QED BY <2>1, <2>2
<1>3. ~(part = "profiles") /\ [ServicesNext]_allVars => (~(part = "profiles"))' BY DEF ServicesNext, allVars
<1> QED BY <1>1, <1>2, <1>3, PTL DEF ServicesSpec, Profile!Spec

(* A searchable profile is complete and was verified at some time, and once the
   events of a user are consumed undisturbed, the search finds the user exactly
   when the profile says so. *)
THEOREM SearchFollows ==
  ASSUME Filled \subseteq Nat, None \notin ProfileRows \cup Profile!validKYCStatuses
  PROVE  ServicesSpec => []SearchFollowsProfile
<1>1. Profile!Init => ConsumerInv BY ConsumerInit
<1>2. ProfileInv /\ ProfileInv' /\ ConsumerInv /\ Profile!Next => ConsumerInv' BY ConsumerNext
<1>3. ProfileInv /\ ConsumerInv /\ UNCHANGED Profile!vars => ConsumerInv'
  BY ConsumerKept DEF Profile!vars, Profile!search, ProfileInv
<1>4. ProfileInv /\ ConsumerInv => Profile!SearchFollowsProfile
  <2> SUFFICES ASSUME ProfileInv, ConsumerInv, NEW u \in Accounts
               PROVE  /\ IsSearchable(u) => profile[u].completeness >= 60 /\ Profile!EverVerified(u)
                      /\ Profile!CaughtUp(u) => (u \in index <=> IsSearchable(u))
    BY DEF Profile!SearchFollowsProfile, Profile!SearchFreelancers, IsSearchable
  <2>1. ProfileOK(u) /\ Len(events[u]) \in Nat BY DEF ProfileInv, ProfileTypes
  <2>2. ASSUME Profile!CaughtUp(u) PROVE Reflects(u, Len(events[u]))
    <3>1. ConsumerOK(u) /\ consumer[u].committed = Len(events[u]) BY <2>2 DEF Profile!CaughtUp, ConsumerInv
    <3> QED BY <2>1, <3>1 DEF ConsumerOK
  <2> QED BY <2>1, <2>2 DEF ProfileOK, Reflects
<1> QED BY <1>1, <1>2, <1>3, <1>4, ProfileInvariant, ProfilePart, PTL DEF SearchFollowsProfile, Profile!Spec, ProfileConstants

-----------------------------------------------------------------------------
(* The limits of the gateway *)

Classes == {"general", "auth"}
Buckets == [tokens : Nat, ts : Int, expires : Nat]
Admissions == [at : Nat, drift : Nat, error : Nat, class : Classes]
Flights ==
  {f \in [class : Classes, keys : Seq(Limits!Keys), clock : Int \cup {None}] : f.keys # <<>>}

General == Capacity["general"]
Rate == Limits!ratePerSecond("general")

(* A bucket refills by whole tokens, and the auth routes have the smaller
   one.  Nothing is asked of the clocks. *)
LimitConstants ==
  /\ Skews \subseteq Int /\ Window \in Nat \ {0} /\ None \notin Buckets
  /\ \A class \in Classes :
       Capacity[class] \in Nat /\ Capacity[class] = Limits!ratePerSecond(class) * Window
  /\ Capacity["auth"] <= Capacity["general"]

LimitTypes ==
  /\ bucket \in [Limits!Keys -> Buckets \cup {None}]
  /\ admitted \in [Limits!Keys -> Seq(Admissions)]
  /\ drift \in [Limits!Keys -> Nat]
  /\ now \in Nat
  /\ flight \in [Requests -> Flights \cup {Limits!Idle}]

(* When the last script on a bucket ran, by how much its clock was behind, and
   the time up to which it was refilled: a clock that was behind will let the
   next script refill the interval again. *)
Ran(b) == b.expires - Limits!TTL
Behind(t, at) == IF t < at THEN at - t ELSE 0
Credited(b, d) == (Ran(b) + d) - Behind(b.ts, Ran(b))

(* A bucket remembers, for every admission since, what was left of the burst
   and what was refilled. *)
Spent(log, tokens, x) ==
  \A i \in DOMAIN log : (Len(log) - i + 1) + tokens <= General + Rate * (x - Limits!From(log[i]))

KeyOK(k) ==
  /\ bucket[k] = None => admitted[k] = <<>>
  /\ bucket[k] # None =>
       /\ Ran(bucket[k]) <= now
       /\ Spent(admitted[k], bucket[k].tokens, Credited(bucket[k], drift[k]))
  /\ Limits!Within(admitted[k], General, Rate)

LimitIInv ==
  /\ LimitTypes
  /\ \A k \in Limits!Keys : KeyOK(k)

(* The rates are naturals and the general one is the larger. *)
LEMMA Rates ==
  ASSUME LimitConstants, NEW class \in Classes
  PROVE  /\ General \in Nat /\ Rate \in Nat /\ General = Rate * Window
         /\ Capacity[class] \in Nat /\ Capacity[class] <= General
         /\ Limits!ratePerSecond(class) \in Nat /\ Limits!ratePerSecond(class) <= Rate
<1>1. \A c \in Classes : Capacity[c] \in Nat /\ Capacity[c] = Limits!ratePerSecond(c) * Window
  BY DEF LimitConstants
<1>2. Window \in Nat \ {0} BY DEF LimitConstants
<1>3. \A m \in Nat : m \div Window \in Nat BY <1>2
<1>4. \A c \in Classes : Limits!ratePerSecond(c) \in Nat BY <1>1, <1>3 DEF Limits!ratePerSecond
<1>5. Capacity[class] <= General BY <1>1 DEF LimitConstants, General, Classes
<1>6. ASSUME NEW x \in Nat, NEW y \in Nat, x * Window <= y * Window PROVE x <= y
  <2> SUFFICES ASSUME x >= y + 1 PROVE FALSE OBVIOUS
  <2>1. x * Window = y * Window + (x - y) * Window BY <1>2
  <2>2. (x - y) * Window >= 1
    <3>1. x - y >= 1 /\ Window >= 1 /\ x - y \in Nat BY <1>2
    <3> QED BY <3>1, <1>2
  <2> QED BY <2>1, <2>2, <1>2, <1>6
<1>7. Limits!ratePerSecond(class) <= Rate
  BY <1>1, <1>4, <1>5, <1>6 DEF General, Rate, Classes
<1> QED BY <1>1, <1>4, <1>5, <1>7 DEF General, Rate, Classes

(* An admission's times are numbers. *)
LEMMA AdmissionTimes ==
  ASSUME NEW a \in Admissions
  PROVE  Limits!From(a) \in Nat /\ Limits!To(a) \in Nat
BY DEF Admissions, Limits!From, Limits!To

(* What the Lua script refills never exceeds what the invariant allows, by the
   time y that the next one may count from. *)
LEMMA RefillBounded ==
  ASSUME LimitConstants, LimitTypes, NEW k \in Limits!Keys, KeyOK(k), NEW class \in Classes, NEW t \in Int,
         NEW y, y = (now + (drift[k] + Limits!Error(t))) - Behind(t, now)
  PROVE  /\ y \in Int
         /\ Limits!Refilled(k, class, t) \in Nat
         /\ Limits!Refilled(k, class, t) <= General
         /\ \A i \in DOMAIN admitted[k] :
              (Len(admitted[k]) - i + 1) + Limits!Refilled(k, class, t)
                <= General + Rate * (y - Limits!From(admitted[k][i]))
<1>0. PICK L : L = admitted[k] OBVIOUS
<1>1. L \in Seq(Admissions) /\ now \in Nat /\ Len(L) \in Nat BY <1>0 DEF LimitTypes
<1>2. \A i \in DOMAIN L : Limits!From(L[i]) \in Nat /\ i \in Nat
  <2>1. \A i \in DOMAIN L : L[i] \in Admissions BY <1>1
  <2> QED BY <2>1, <1>1, AdmissionTimes
<1>3. PICK G, g, W, C, c \in Nat :
        /\ G = General /\ g = Rate /\ W = Window /\ C = Capacity[class] /\ c = Limits!ratePerSecond(class)
  BY Rates DEF LimitConstants
<1>4. G = g * W /\ C <= G /\ c <= g BY <1>3, Rates
<1>5. PICK D, e, w \in Nat : D = drift[k] /\ e = Limits!Error(t) /\ w = Behind(t, now)
  <2>1. drift[k] \in Nat BY DEF LimitTypes
  <2>2. Limits!Error(t) \in Nat /\ Behind(t, now) \in Nat BY <1>1 DEF Limits!Error, Behind
  <2> QED BY <2>1, <2>2
<1>6. y = (now + (D + e)) - w /\ y \in Int BY <1>1, <1>5
<1>7. CASE bucket[k] = None
  <2>1. Limits!Refilled(k, class, t) = C
    BY <1>3, <1>7 DEF Limits!Refilled, Limits!Stored
  <2>2. L = <<>> BY <1>0, <1>7 DEF KeyOK
  <2>3. DOMAIN L = {} BY <2>2
  <2> QED BY <1>0, <1>3, <1>4, <1>6, <2>1, <2>3
<1>8. CASE bucket[k] # None
  <2>1. PICK b \in Buckets : b = bucket[k] BY <1>8 DEF LimitTypes
  <2>2. PICK n \in Nat, ts \in Int, ex \in Nat : n = b.tokens /\ ts = b.ts /\ ex = b.expires BY DEF Buckets
  <2>3. PICK at \in Int : at = Ran(b) /\ at = ex - (W + 1) BY <1>3, <2>2 DEF Ran, Limits!TTL
  <2>4. PICK v \in Nat : v = Behind(ts, at) BY <2>2, <2>3 DEF Behind
  <2>5. PICK x \in Int : x = (at + D) - v /\ x = Credited(b, drift[k])
    BY <1>5, <2>2, <2>3, <2>4 DEF Credited
  <2>6. at <= now /\ Spent(L, n, x) BY <1>0, <1>8, <2>1, <2>2, <2>3, <2>5 DEF KeyOK
  <2>7. PICK d \in Nat : d = y - x /\ d >= now - at /\ (t >= ts => d >= t - ts)
    <3>1. now - at >= 0 BY <1>1, <2>3, <2>6
    <3>2. e - w >= 0 /\ (t >= now => e - w = t - now) /\ (t < now => e - w = 0 /\ w = now - t)
      BY <1>1, <1>5 DEF Limits!Error, Behind
    <3>3. v >= 0 /\ v >= at - ts BY <2>2, <2>3, <2>4 DEF Behind
    <3>n. PICK T \in Nat : T = now BY <1>1
    <3>0. y = (T + (D + e)) - w /\ x = (at + D) - v BY <1>6, <2>5, <3>n
    <3>4. y - x = (T - at) + (e - w) + v BY <3>0
    <3>c. T - at >= 0 /\ e - w >= 0 /\ (t >= T => e - w = t - T) BY <3>1, <3>2, <3>n
    <3>5. y - x \in Nat /\ y - x >= now - at BY <3>3, <3>4, <3>c, <3>n
    <3>6. ASSUME t >= ts PROVE y - x >= t - ts
      <4>1. y - x >= (T - at) + (e - w) + (at - ts) BY <3>3, <3>4, <3>c
      <4>2. T + (e - w) >= t BY <3>c
      <4> QED BY <4>1, <4>2, <3>0
    <3> QED BY <3>5, <3>6
  <2>8. ASSUME NEW i \in DOMAIN L
        PROVE  /\ (Len(L) - i + 1) + n <= G + g * (x - Limits!From(L[i]))
               /\ g * (y - Limits!From(L[i])) = g * (x - Limits!From(L[i])) + g * d
    <3>1. PICK z \in Nat : z = Limits!From(L[i]) BY <1>2
    <3>2. y - z = (x - z) + d BY <1>6, <2>5, <2>7, <3>1
    <3>3. PICK p \in Int : p = x - z BY <2>5, <3>1
    <3>4. g * (p + d) = g * p + g * d OBVIOUS
    <3>5. g * (y - z) = g * (x - z) + g * d BY <3>2, <3>3, <3>4
    <3> QED BY <2>6, <3>1, <3>5, <1>3 DEF Spent
  <2>9. CASE now < b.expires
    <3>1. Limits!Stored(k) = b /\ b # None BY <1>8, <2>1, <2>9 DEF Limits!Stored
    <3>2. PICK q \in Nat : q = (IF t < ts THEN 0 ELSE t - ts) /\ q <= d
      <4>1. CASE t < ts BY <4>1, <2>7
      <4>2. CASE ~(t < ts)
        <5>1. t - ts \in Nat /\ t >= ts BY <4>2, <2>2
        <5> QED BY <4>2, <5>1, <2>7
      <4> QED BY <4>1, <4>2
    <3>3. Limits!Refilled(k, class, t) = IF n + q * c > C THEN C ELSE n + q * c
      BY <1>3, <2>2, <3>1, <3>2 DEF Limits!Refilled
    <3>4. q * c \in Nat /\ q * c <= g * d
      <4>1. \A a1, a2 \in Nat : a1 * a2 \in Nat OBVIOUS
      <4>2. d - q \in Nat /\ g - c \in Nat BY <1>4, <3>2
      <4>3. g * d = g * q + g * (d - q) BY <3>2
      <4>4. g * q = q * c + q * (g - c) BY <1>4
      <4>5. g * (d - q) \in Nat /\ q * (g - c) \in Nat /\ q * c \in Nat BY <4>1, <4>2
      <4>6. PICK s1, s2, s3 \in Nat : s1 = q * c /\ s2 = q * (g - c) /\ s3 = g * (d - q) BY <4>5
      <4>7. g * d = s1 + s2 + s3 BY <4>3, <4>4, <4>6
      <4> QED BY <4>6, <4>7
    <3>5. PICK m \in Nat : m = Limits!Refilled(k, class, t) /\ m <= C /\ m <= n + q * c BY <3>3, <3>4
    <3>6. ASSUME NEW i \in DOMAIN L PROVE (Len(L) - i + 1) + m <= G + g * (y - Limits!From(L[i]))
      <4>1. PICK z \in Nat : z = Limits!From(L[i]) BY <1>2
      <4>2. PICK p, r, u \in Int : p = g * (x - z) /\ r = g * d /\ u = q * c BY <3>4, <4>1
      <4>3. (Len(L) - i + 1) + n <= G + p /\ g * (y - z) = p + r BY <2>8, <4>1, <4>2
      <4>4. u <= r /\ m <= n + u BY <3>4, <3>5, <4>2
      <4>5. PICK o, h \in Int : o = g * (y - z) /\ h = Len(L) - i + 1 BY <1>1, <1>2, <1>6, <4>1
      <4>6. h + n <= G + p /\ o = p + r BY <4>3, <4>5
      <4>7. h + m <= G + o BY <4>4, <4>6
      <4>8. (Len(L) - i + 1) + m <= G + g * (y - z) BY <4>5, <4>7
      <4> QED BY <4>1, <4>8
    <3>7. m <= General BY <1>3, <1>4, <3>5
    <3>8. \A i \in DOMAIN L : (Len(L) - i + 1) + m <= General + Rate * (y - Limits!From(L[i]))
      BY <1>3, <3>6
    <3> QED BY <1>0, <1>6, <3>5, <3>7, <3>8
  <2>10. CASE ~(now < b.expires)
    <3>1. Limits!Stored(k) = None BY <1>8, <2>1, <2>10 DEF Limits!Stored
    <3>2. Limits!Refilled(k, class, t) = C BY <1>3, <3>1 DEF Limits!Refilled
    <3>3. d >= W
      <4>1. PICK T \in Nat : T = now BY <1>1
      <4>2. T >= ex BY <2>2, <2>10, <4>1
      <4>3. d >= T - at /\ at = ex - (W + 1) BY <2>3, <2>7, <4>1
      <4> QED BY <4>2, <4>3
    <3>4. g * d >= G
      <4>1. g * d = g * W + g * (d - W) OBVIOUS
      <4>2. d - W \in Nat BY <3>3
      <4>3. \A a1, a2 \in Nat : a1 * a2 \in Nat OBVIOUS
      <4>4. g * (d - W) \in Nat BY <4>2, <4>3
      <4> QED BY <4>1, <4>4, <1>4
    <3>5. ASSUME NEW i \in DOMAIN L PROVE (Len(L) - i + 1) + C <= G + g * (y - Limits!From(L[i]))
      <4>1. PICK z \in Nat : z = Limits!From(L[i]) BY <1>2
      <4>2. PICK p, r \in Int : p = g * (x - z) /\ r = g * d BY <4>1
      <4>3. (Len(L) - i + 1) + n <= G + p /\ g * (y - z) = p + r BY <2>8, <4>1, <4>2
      <4>4. r >= G BY <3>4, <4>2
      <4>5. PICK o, h \in Int : o = g * (y - z) /\ h = Len(L) - i + 1 BY <1>1, <1>2, <1>6, <4>1
      <4>6. h + n <= G + p /\ o = p + r BY <4>3, <4>5
      <4>7. h + C <= G + o BY <1>4, <4>4, <4>6
      <4>8. (Len(L) - i + 1) + C <= G + g * (y - z) BY <4>5, <4>7
      <4> QED BY <4>1, <4>8
    <3>6. \A i \in DOMAIN L : (Len(L) - i + 1) + C <= General + Rate * (y - Limits!From(L[i]))
      BY <1>3, <3>5
    <3> QED BY <1>0, <1>3, <1>4, <1>6, <3>2, <3>6
  <2> QED BY <2>9, <2>10
<1> QED BY <1>7, <1>8

(* A bucket that is not asked keeps its bounds as time passes. *)
LEMMA KeyKept ==
  ASSUME LimitTypes, NEW k \in Limits!Keys, KeyOK(k), bucket'[k] = bucket[k], admitted'[k] = admitted[k],
         drift'[k] = drift[k], now' \in Nat, now <= now', Window \in Nat
  PROVE  KeyOK(k)'
<1>1. General' = General /\ Rate' = Rate BY DEF General, Rate, Limits!ratePerSecond
<1>2. PICK b, L, d : b = bucket[k] /\ L = admitted[k] /\ d = drift[k] OBVIOUS
<1>3. /\ b = None => L = <<>>
      /\ b # None => Ran(b) <= now /\ Spent(L, b.tokens, Credited(b, d))
      /\ Limits!Within(L, General, Rate)
  BY <1>2 DEF KeyOK
<1>4. ASSUME b # None PROVE Ran(b) <= now'
  <2>1. b \in Buckets BY <1>2, <1>4 DEF LimitTypes
  <2>2. Ran(b) \in Int BY <2>1 DEF Buckets, Ran, Limits!TTL
  <2> QED BY <1>3, <1>4, <2>2 DEF LimitTypes
<1>5. bucket'[k] = b /\ admitted'[k] = L /\ drift'[k] = d BY <1>2
<1> QED BY <1>1, <1>3, <1>4, <1>5 DEF KeyOK, Spent, Credited, Ran, Behind, Limits!Within, Limits!TTL, Limits!From, Limits!To

(* What the script takes from a bucket it has just refilled. *)
LEMMA SpentAppend ==
  ASSUME NEW L \in Seq(Admissions), NEW m \in Nat, NEW a \in Admissions, NEW y \in Int,
         Limits!From(a) <= y, y <= Limits!To(a),
         General \in Nat, Rate \in Nat, m <= General,
         Limits!Within(L, General, Rate),
         \A i \in DOMAIN L : (Len(L) - i + 1) + m <= General + Rate * (y - Limits!From(L[i]))
  PROVE  /\ Spent(L, m, y)
         /\ m >= 1 => Spent(Append(L, a), m - 1, y) /\ Limits!Within(Append(L, a), General, Rate)
<1>1. Spent(L, m, y) BY DEF Spent
<1> SUFFICES ASSUME m >= 1
             PROVE  Spent(Append(L, a), m - 1, y) /\ Limits!Within(Append(L, a), General, Rate)
  BY <1>1
<1>2. PICK M : M = Append(L, a) OBVIOUS
<1>3. PICK n \in Nat : n = Len(L) OBVIOUS
<1>4. Len(M) = n + 1 /\ DOMAIN M = 1..(n + 1) /\ DOMAIN L = 1..n BY <1>2, <1>3
<1>5. M[n + 1] = a /\ \A i \in 1..n : M[i] = L[i] BY <1>2, <1>3
<1>6. PICK fr, to \in Nat : fr = Limits!From(a) /\ to = Limits!To(a) BY AdmissionTimes
<1>7. fr <= y /\ y <= to BY <1>6
<1>8. \A z1, z2 \in Nat : z1 * z2 \in Nat OBVIOUS
<1>9. ASSUME NEW i \in 1..n
      PROVE  /\ Limits!From(M[i]) \in Nat
             /\ (n - i + 1) + m <= General + Rate * (y - Limits!From(M[i]))
  <2>1. M[i] = L[i] /\ L[i] \in Admissions BY <1>4, <1>5
  <2> QED BY <2>1, <1>3, <1>4, AdmissionTimes
<1>10. Spent(M, m - 1, y)
  <2> SUFFICES ASSUME NEW i \in 1..(n + 1)
               PROVE  ((n + 1) - i + 1) + (m - 1) <= General + Rate * (y - Limits!From(M[i]))
    BY <1>4 DEF Spent
  <2>1. CASE i = n + 1
    <3>1. Limits!From(M[i]) = fr BY <2>1, <1>5, <1>6
    <3>2. ((n + 1) - i + 1) + (m - 1) = m BY <2>1
    <3>3. PICK w \in Nat : w = Rate * (y - fr)
      <4>1. y - fr \in Nat BY <1>7
      <4> QED BY <4>1, <1>8
    <3>4. m <= General + w BY <3>3
    <3> QED BY <3>1, <3>2, <3>3, <3>4
  <2>2. CASE i \in 1..n
    <3>1. ((n + 1) - i + 1) + (m - 1) = (n - i + 1) + m BY <2>2
    <3> QED BY <2>2, <3>1, <1>9
  <2> QED BY <2>1, <2>2
<1>11. Limits!Within(M, General, Rate)
  <2> SUFFICES ASSUME NEW i \in 1..(n + 1), NEW j \in 1..(n + 1), i <= j
               PROVE  j - i + 1 <= General + Rate * (Limits!To(M[j]) - Limits!From(M[i]))
    BY <1>4 DEF Limits!Within
  <2>1. CASE j \in 1..n
    <3>1. i \in 1..n BY <2>1
    <3>2. j - i + 1 <= General + Rate * (Limits!To(L[j]) - Limits!From(L[i])) BY <3>1, <2>1, <1>4 DEF Limits!Within
    <3> QED BY <3>1, <3>2, <2>1, <1>5
  <2>2. CASE j = n + 1
    <3>1. Limits!To(M[j]) = to BY <2>2, <1>5, <1>6
    <3>2. CASE i = n + 1
      <4>1. Limits!From(M[i]) = fr BY <3>2, <1>5, <1>6
      <4>2. to - fr \in Nat BY <1>7
      <4>3. PICK w \in Nat : w = Rate * (to - fr) BY <4>2, <1>8
      <4>4. j - i + 1 <= General + w BY <2>2, <3>2
      <4> QED BY <3>1, <4>1, <4>3, <4>4
    <3>3. CASE i \in 1..n
      <4>1. PICK z \in Nat : z = Limits!From(M[i]) BY <3>3, <1>9
      <4>2. PICK w, v \in Int : w = Rate * (y - z) /\ v = Rate * (to - z) BY <1>6, <4>1
      <4>3. (n - i + 1) + m <= General + w BY <4>1, <4>2, <3>3, <1>9
      <4>4. w <= v
        <5>1. PICK p \in Int, q \in Nat : p = y - z /\ q = to - y BY <1>6, <1>7, <4>1
        <5>2. to - z = p + q BY <5>1, <1>6, <4>1
        <5>3. Rate * (p + q) = Rate * p + Rate * q OBVIOUS
        <5>4. PICK u \in Nat : u = Rate * q BY <5>1, <1>8
        <5> QED BY <4>2, <5>1, <5>2, <5>3, <5>4
      <4>5. j - i + 1 <= General + v BY <4>3, <4>4, <2>2
      <4> QED BY <4>1, <4>2, <4>5, <3>1
    <3> QED BY <3>2, <3>3
  <2> QED BY <2>1, <2>2
<1> QED BY <1>2, <1>10, <1>11

(* The script keeps the bounds of the bucket it works on. *)
LEMMA KeyAsked ==
  ASSUME LimitConstants, LimitTypes, NEW k \in Limits!Keys, KeyOK(k), NEW class \in Classes, NEW t \in Int,
         bucket'[k] = Limits!tokenBucket(k, class, t).hash,
         admitted'[k] = IF Limits!tokenBucket(k, class, t).allowed
                        THEN Append(admitted[k], [at |-> now, drift |-> drift[k], error |-> Limits!Error(t), class |-> class])
                        ELSE admitted[k],
         drift'[k] = drift[k] + Limits!Error(t), now' = now
  PROVE  KeyOK(k)' /\ bucket'[k] \in Buckets /\ admitted'[k] \in Seq(Admissions) /\ drift'[k] \in Nat
<1>0. now \in Nat /\ admitted[k] \in Seq(Admissions) /\ drift[k] \in Nat BY DEF LimitTypes
<1>c. General \in Nat /\ Rate \in Nat /\ Limits!TTL \in Nat BY Rates DEF Classes, Limits!TTL, LimitConstants
<1>1. PICK e, w \in Nat : e = Limits!Error(t) /\ w = Behind(t, now) /\ w <= e
  BY <1>0 DEF Limits!Error, Behind
<1>2. PICK y : y = (now + (drift[k] + Limits!Error(t))) - Behind(t, now) OBVIOUS
<1>3. PICK L : L = admitted[k] OBVIOUS
<1>4. PICK m \in Nat : m = Limits!Refilled(k, class, t) BY <1>2, RefillBounded
<1>5. m <= General /\ Limits!Within(L, General, Rate) /\ y \in Int BY <1>2, <1>3, <1>4, RefillBounded DEF KeyOK
<1>6. \A i \in DOMAIN L : (Len(L) - i + 1) + m <= General + Rate * (y - Limits!From(L[i]))
  BY <1>2, <1>3, <1>4, RefillBounded
<1>7. PICK a \in Admissions : a = [at |-> now, drift |-> drift[k], error |-> e, class |-> class]
  BY <1>0, <1>1 DEF Admissions
<1>8. Limits!From(a) <= y /\ y <= Limits!To(a)
  <2>1. Limits!From(a) = now + drift[k] /\ Limits!To(a) = now + drift[k] + e BY <1>7 DEF Limits!From, Limits!To
  <2>2. PICK T, D \in Nat : T = now /\ D = drift[k] BY <1>0
  <2>3. y = (T + (D + e)) - w BY <1>1, <1>2, <2>2
  <2>4. T + D <= y /\ y <= T + D + e BY <1>1, <2>3
  <2> QED BY <2>1, <2>2, <2>4
<1>9. /\ Spent(L, m, y)
      /\ m >= 1 => Spent(Append(L, a), m - 1, y) /\ Limits!Within(Append(L, a), General, Rate)
  BY <1>0, <1>c, <1>3, <1>5, <1>6, <1>8, SpentAppend
<1>10. /\ Limits!tokenBucket(k, class, t).allowed = (m >= 1)
       /\ Limits!tokenBucket(k, class, t).hash
            = [tokens |-> IF m >= 1 THEN m - 1 ELSE m, ts |-> t, expires |-> now + Limits!TTL]
  BY <1>4 DEF Limits!tokenBucket
<1>11. PICK b : b = bucket'[k] OBVIOUS
<1>12. b.tokens = (IF m >= 1 THEN m - 1 ELSE m) /\ b.ts = t /\ b.expires = now + Limits!TTL
  BY <1>10, <1>11
<1>13. b \in Buckets
  <2>1. (IF m >= 1 THEN m - 1 ELSE m) \in Nat /\ now + Limits!TTL \in Nat BY <1>c, <1>0
  <2> QED BY <2>1, <1>10, <1>11 DEF Buckets
<1>14. PICK M : M = admitted'[k] OBVIOUS
<1>15. M = IF m >= 1 THEN Append(L, a) ELSE L BY <1>1, <1>3, <1>7, <1>10, <1>14
<1>16. M \in Seq(Admissions) BY <1>0, <1>3, <1>15
<1>17. PICK d \in Nat : d = drift'[k] /\ d = drift[k] + e BY <1>0, <1>1
<1>18. Ran(b) = now BY <1>0, <1>c, <1>12 DEF Ran
<1>19. Credited(b, d) = y BY <1>0, <1>1, <1>2, <1>12, <1>17, <1>18 DEF Credited
<1>20. Spent(M, b.tokens, Credited(b, d)) /\ Limits!Within(M, General, Rate)
  BY <1>5, <1>9, <1>12, <1>15, <1>19
<1>21. General' = General /\ Rate' = Rate BY DEF General, Rate, Limits!ratePerSecond
<1>22. b # None BY <1>13 DEF LimitConstants
<1>23. Ran(b) <= now' BY <1>0, <1>18
<1>24. KeyOK(k)'
  BY <1>11, <1>14, <1>17, <1>20, <1>21, <1>22, <1>23
  DEF KeyOK, Spent, Credited, Ran, Behind, Limits!Within, Limits!TTL, Limits!From, Limits!To
<1> QED BY <1>11, <1>13, <1>14, <1>16, <1>17, <1>24

(* A step of one request leaves the others under way. *)
LEMMA FlightKept ==
  ASSUME LimitTypes, NEW r \in Requests, NEW f \in Flights \cup {Limits!Idle}, flight' = [flight EXCEPT ![r] = f]
  PROVE  flight' \in [Requests -> Flights \cup {Limits!Idle}]
BY DEF LimitTypes

(* What is left to do after a key was asked. *)
LEMMA PassedOK ==
  ASSUME NEW f \in Flights
  PROVE  Limits!Passed(f) \in Flights \cup {Limits!Idle} /\ Head(f.keys) \in Limits!Keys
<1>1. PICK K \in Seq(Limits!Keys) : K = f.keys /\ K # <<>> BY DEF Flights
<1>2. Len(K) \in Nat \ {0} /\ Head(K) \in Limits!Keys BY <1>1
<1>3. ASSUME Len(K) # 1 PROVE [class |-> f.class, keys |-> Tail(f.keys), clock |-> None] \in Flights
  <2>t. Tail(K) \in Seq(Limits!Keys) /\ Len(Tail(K)) = Len(K) - 1 BY <1>1, <1>2
  <2>1. PICK K2 \in Seq(Limits!Keys) : K2 = Tail(K) /\ Len(K2) = Len(K) - 1 BY <2>t
  <2>2. Len(K2) # 0 /\ Len(<<>>) = 0 BY <1>2, <1>3, <2>1
  <2>3. K2 # <<>> BY <2>2
  <2>4. f.class \in Classes BY DEF Flights
  <2> QED BY <1>1, <2>1, <2>3, <2>4 DEF Flights
<1> QED BY <1>1, <1>2, <1>3 DEF Limits!Passed

(* A step that runs no script: nothing but requests and time change. *)
LEMMA LimitStill ==
  ASSUME LimitConstants, LimitIInv, UNCHANGED <<bucket, admitted, drift>>, now' \in Nat, now <= now',
         flight' \in [Requests -> Flights \cup {Limits!Idle}]
  PROVE  LimitIInv'
<1>1. \A k \in Limits!Keys : KeyOK(k)' BY KeyKept DEF LimitIInv, LimitConstants
<1>2. LimitTypes'
  <2>1. LimitTypes BY DEF LimitIInv
  <2> QED BY <2>1 DEF LimitTypes, Limits!Keys, Flights, Limits!Idle
<1>3. (\A k \in Limits!Keys : KeyOK(k))' BY <1>1 DEF Limits!Keys
<1> QED BY <1>2, <1>3 DEF LimitIInv

(* A script changes the bucket it asks and no other. *)
LEMMA LimitScript ==
  ASSUME LimitConstants, LimitIInv, NEW r \in Requests, NEW answer, Limits!allow(r, answer)
  PROVE  LimitIInv'
<1>0. LimitTypes /\ \A k \in Limits!Keys : KeyOK(k) BY DEF LimitIInv
<1>1. PICK f \in Flights \cup {Limits!Idle} : f = flight[r] BY <1>0 DEF LimitTypes
<1>2. f.clock # None BY <1>1 DEF Limits!allow
<1>3. f \in Flights BY <1>1, <1>2 DEF Limits!Idle
<1>4. PICK class \in Classes, t \in Int : class = f.class /\ t = f.clock BY <1>2, <1>3 DEF Flights
<1>5. PICK k \in Limits!Keys : k = Head(f.keys) BY <1>3, PassedOK
<1>6. PICK run : run = Limits!tokenBucket(k, class, t) OBVIOUS
<1>7. PICK a : a = [at |-> now, drift |-> drift[k], error |-> Limits!Error(t), class |-> class] OBVIOUS
<1>8. /\ bucket' = [bucket EXCEPT ![k] = run.hash]
      /\ admitted' = [admitted EXCEPT ![k] = IF run.allowed THEN Append(admitted[k], a) ELSE admitted[k]]
      /\ drift' = [drift EXCEPT ![k] = drift[k] + Limits!Error(t)]
      /\ now' = now
  BY <1>1, <1>4, <1>5, <1>6, <1>7 DEF Limits!allow
<1>9. flight' \in [Requests -> Flights \cup {Limits!Idle}]
  <2>1. PICK g : /\ flight' = [flight EXCEPT ![r] = g]
                 /\ g = CASE answer = "repeat" -> f
                          [] answer = "lost" \/ run.allowed -> Limits!Passed(f)
                          [] OTHER -> Limits!Idle
    BY <1>1, <1>4, <1>5, <1>6 DEF Limits!allow
  <2>2. g \in {f, Limits!Passed(f), Limits!Idle} BY <2>1
  <2>3. g \in Flights \cup {Limits!Idle} BY <1>3, <2>2, PassedOK
  <2> QED BY <1>0, <2>1, <2>3, FlightKept
<1>10. ASSUME NEW o \in Limits!Keys, o # k
       PROVE  bucket'[o] = bucket[o] /\ admitted'[o] = admitted[o] /\ drift'[o] = drift[o]
  BY <1>0, <1>8, <1>10 DEF LimitTypes
<1>11. /\ bucket'[k] = run.hash
       /\ admitted'[k] = IF run.allowed THEN Append(admitted[k], a) ELSE admitted[k]
       /\ drift'[k] = drift[k] + Limits!Error(t)
  BY <1>0, <1>8 DEF LimitTypes
<1>12. KeyOK(k)' /\ bucket'[k] \in Buckets /\ admitted'[k] \in Seq(Admissions) /\ drift'[k] \in Nat
  BY <1>0, <1>6, <1>7, <1>8, <1>11, KeyAsked
<1>13. ASSUME NEW o \in Limits!Keys
       PROVE  KeyOK(o)' /\ bucket'[o] \in Buckets \cup {None} /\ admitted'[o] \in Seq(Admissions) /\ drift'[o] \in Nat
  <2>1. CASE o = k BY <2>1, <1>12
  <2>2. CASE o # k
    <3>1. now \in Nat /\ now <= now BY <1>0 DEF LimitTypes
    <3>2. KeyOK(o)' BY <1>0, <1>8, <1>10, <2>2, <3>1, KeyKept DEF LimitConstants
    <3> QED BY <1>0, <1>10, <2>2, <3>2 DEF LimitTypes
  <2> QED BY <2>1, <2>2
<1>14. LimitTypes'
  <2>1. bucket' \in [Limits!Keys -> Buckets \cup {None}] BY <1>0, <1>8, <1>12 DEF LimitTypes
  <2>2. admitted' \in [Limits!Keys -> Seq(Admissions)]
    <3>1. PICK z \in Seq(Admissions) : z = IF run.allowed THEN Append(admitted[k], a) ELSE admitted[k]
      BY <1>11, <1>12
    <3> QED BY <1>0, <1>8, <3>1 DEF LimitTypes
  <2>3. drift' \in [Limits!Keys -> Nat]
    <3>1. PICK z \in Nat : z = drift[k] + Limits!Error(t) BY <1>11, <1>12
    <3> QED BY <1>0, <1>8, <3>1 DEF LimitTypes
  <2>4. now' \in Nat BY <1>0, <1>8 DEF LimitTypes
  <2> QED BY <1>9, <2>1, <2>2, <2>3, <2>4 DEF LimitTypes, Limits!Keys, Flights, Limits!Idle
<1>15. (\A o \in Limits!Keys : KeyOK(o))' BY <1>13 DEF Limits!Keys
<1> QED BY <1>14, <1>15 DEF LimitIInv

(* The behaviours of the gateway. *)
LEMMA LimitsPart == ServicesSpec => []~(part = "gateway") \/ ([](part = "gateway") /\ Limits!Spec)
<1>1. ServicesInit /\ part = "gateway" => Limits!Init BY DEF ServicesInit
<1>2. part = "gateway" /\ [ServicesNext]_allVars => (part = "gateway")' /\ [Limits!Next]_(Limits!vars)
  <2>1. part = "gateway" /\ ServicesNext => part' = "gateway" /\ Limits!Next BY DEF ServicesNext
  <2>2. UNCHANGED allVars => UNCHANGED part /\ UNCHANGED Limits!vars
    BY DEF allVars, gatewayVars, Limits!vars
  <2> QED BY <2>1, <2>2
<1>3. ~(part = "gateway") /\ [ServicesNext]_allVars => (~(part = "gateway"))' BY DEF ServicesNext, allVars
<1> QED BY <1>1, <1>2, <1>3, PTL DEF ServicesSpec, Limits!Spec

(* Whatever the mix of routes, the delays between the reading of a clock and
   the run of its script, the clocks of the replicas, idle times, expired
   buckets, lost answers and repeated scripts: in every window a caller is
   given at most the general burst and the refill of the window, lengthened by
   the errors of the clocks its scripts were given (the Lua script of the
   gateway's limiter and the pipeline around it). *)
THEOREM GatewayWithinLimits ==
  ASSUME LimitConstants
  PROVE  ServicesSpec => []AdmittedWithinLimits
<1>1. Limits!Init => LimitIInv
  <2> SUFFICES ASSUME Limits!Init PROVE LimitIInv OBVIOUS
  <2>1. LimitTypes BY DEF LimitTypes, Limits!Init
  <2>2. \A k \in Limits!Keys : bucket[k] = None /\ admitted[k] = <<>> BY DEF Limits!Init
  <2>3. DOMAIN <<>> = {} OBVIOUS
  <2>4. Limits!Within(<<>>, General, Rate) BY <2>3 DEF Limits!Within
  <2>5. \A k \in Limits!Keys : KeyOK(k) BY <2>2, <2>4 DEF KeyOK
  <2> QED BY <2>1, <2>5 DEF LimitIInv
<1>2. LimitIInv /\ [Limits!Next]_Limits!vars => LimitIInv'
  <2> SUFFICES ASSUME LimitIInv, [Limits!Next]_Limits!vars PROVE LimitIInv' OBVIOUS
  <2>0. LimitTypes BY DEF LimitIInv
  <2>1. ASSUME NEW r \in Requests, NEW a \in Addresses, NEW token \in Accounts \cup {None}, NEW class \in Classes,
               NEW public \in BOOLEAN, Limits!proxyPipeline(r, a, token, class, public)
        PROVE  LimitIInv'
    <3>1. PICK K : K = IF public \/ token = None THEN <<Limits!classify(a, None)>>
                       ELSE <<Limits!classify(a, None), Limits!classify(a, token)>>
      OBVIOUS
    <3>2. Limits!classify(a, None) \in Limits!Keys BY DEF Limits!classify, Limits!Keys
    <3>3. token # None => Limits!classify(a, token) \in Limits!Keys BY DEF Limits!classify, Limits!Keys
    <3>4. K \in Seq(Limits!Keys) /\ K # <<>> BY <3>1, <3>2, <3>3
    <3>5. PICK f : f = [class |-> class, clock |-> None, keys |-> K] OBVIOUS
    <3>6. f \in Flights BY <3>4, <3>5 DEF Flights
    <3>7. flight' = [flight EXCEPT ![r] = f] /\ UNCHANGED <<bucket, admitted, drift, now>>
      BY <2>1, <3>1, <3>5 DEF Limits!proxyPipeline
    <3>8. flight' \in [Requests -> Flights \cup {Limits!Idle}] BY <2>0, <3>6, <3>7, FlightKept
    <3>9. now' \in Nat /\ now <= now' BY <2>0, <3>7 DEF LimitTypes
    <3> QED BY <3>7, <3>8, <3>9, LimitStill
  <2>2. ASSUME NEW r \in Requests, NEW skew \in Skews, Limits!ReadClock(r, skew) PROVE LimitIInv'
    <3>1. PICK g \in Flights : g = flight[r] BY <2>0, <2>2 DEF Limits!ReadClock, LimitTypes
    <3>2. PICK f : f = [g EXCEPT !.clock = now + skew] OBVIOUS
    <3>3. now + skew \in Int BY <2>0 DEF LimitTypes, LimitConstants
    <3>4. f \in Flights BY <3>1, <3>2, <3>3 DEF Flights
    <3>5. flight' = [flight EXCEPT ![r] = f] /\ UNCHANGED <<bucket, admitted, drift, now>>
      BY <2>2, <3>1, <3>2 DEF Limits!ReadClock
    <3>6. flight' \in [Requests -> Flights \cup {Limits!Idle}] BY <2>0, <3>4, <3>5, FlightKept
    <3>7. now' \in Nat /\ now <= now' BY <2>0, <3>5 DEF LimitTypes
    <3> QED BY <3>5, <3>6, <3>7, LimitStill
  <2>3. ASSUME NEW r \in Requests, NEW answer, Limits!allow(r, answer) PROVE LimitIInv'
    BY <2>3, LimitScript
  <2>4. ASSUME NEW r \in Requests, Limits!Unavailable(r) PROVE LimitIInv'
    <3>1. PICK g \in Flights \cup {Limits!Idle} : g = flight[r] BY <2>0 DEF LimitTypes
    <3>2. g \in Flights BY <2>4, <3>1 DEF Limits!Unavailable, Limits!Idle
    <3>3. PICK f \in Flights \cup {Limits!Idle} : f = Limits!Passed(g) BY <3>2, PassedOK
    <3>4. flight' = [flight EXCEPT ![r] = f] /\ UNCHANGED <<bucket, admitted, drift, now>>
      BY <2>4, <3>1, <3>3 DEF Limits!Unavailable
    <3>5. flight' \in [Requests -> Flights \cup {Limits!Idle}] BY <2>0, <3>4, FlightKept
    <3>6. now' \in Nat /\ now <= now' BY <2>0, <3>4 DEF LimitTypes
    <3> QED BY <3>4, <3>5, <3>6, LimitStill
  <2>5. CASE Limits!Tick
    <3>1. now' = now + 1 /\ UNCHANGED <<bucket, flight, admitted, drift>> BY <2>5 DEF Limits!Tick
    <3> QED BY <2>0, <3>1, LimitStill DEF LimitTypes
  <2>6. CASE UNCHANGED Limits!vars
    <3>1. UNCHANGED <<bucket, flight, admitted, drift, now>> BY <2>6 DEF Limits!vars
    <3> QED BY <2>0, <3>1, LimitStill DEF LimitTypes
  <2> QED BY <2>1, <2>2, <2>3, <2>4, <2>5, <2>6 DEF Limits!Next, Classes
<1>3. LimitIInv => Limits!AdmittedWithinLimits
  BY DEF LimitIInv, KeyOK, Limits!AdmittedWithinLimits, General, Rate
<1> QED BY <1>1, <1>2, <1>3, LimitsPart, PTL DEF AdmittedWithinLimits, Limits!Spec
=============================================================================
