------------------------------ MODULE Services ------------------------------
(***************************************************************************)
(* The services around the money.  They share no state, so every behaviour *)
(* is one of one service: `part' says which, and the variables of the      *)
(* others keep the value None.  A variable that two modules have under one *)
(* name is used by both, and so is a constant, unless an instance says     *)
(* otherwise.                                                              *)
(***************************************************************************)
EXTENDS Integers, Sequences

CONSTANTS
  None, Requests, Accounts, Perms,
  Projects, Clients, Freelancers, Budgets, Bids, Plans, MaxFiles, MaxProposals,
  Contracts, Breakdowns, MaxSeq, MaxDisputes,
  Completed, ClientOf, FreelancerOf, StatusOf,
  Subjects, Screenshots, Weights, recentSignalCount, MaxSignals, MaxResolutions,
  Disputes, MaxActions,
  Slices, ClientDEK, DataKeys, Late, MaxFaults, MaxViews, PartyUsers, Auditors, Strangers,
  Members, Conversations, Posters, MaxPosts,
  MaxMessages, Conns, UserOf, ReplicaOf, SendBuffer, MaxFrames, MaxSubs, Watched,
  Events, Dispatched, RecipientOf, Channels, MaxRows, MaxConsumerFaults,
  Skills, Filled, Statuses, AttestationKeys, MaxItems, MaxEvents, MaxRetries, OwnerPerms,
  Addresses, Capacity, Window, Skews, MaxNow, MaxRuns

VARIABLES
  part,
  project, projectOutbox, proposal, proposalOutbox,
  contract, milestones, deliverables, timeline, disputes, contractOutbox, work,
  tx, outbox, clock, faults, processed,
  hidden, published, responses, reputation, announced, closed,
  signals, risk, cases,
  status, dispute, actions, audit, shown, ended,
  queue, dev, calls, rows, objects, ingested,
  participants, messages, lastMessageAt, lastRead, attached, msgOutbox, posting,
  conn, convs, userConns, sub, presence, frames,
  prefs, notifications, delivered, handling,
  profile, clients, kycRecords, skills, portfolio, devices, events, index, consumer, late, disturbed,
  bucket, flight, admitted, drift, ran, now

hiringVars == <<project, projectOutbox, proposal, proposalOutbox,
                contract, milestones, deliverables, timeline, disputes, contractOutbox, work>>
reviewVars == <<hidden, published, responses, reputation, announced, closed>>
fraudVars == <<signals, risk, cases>>
adminVars == <<status, dispute, actions, audit, shown, ended>>
trackerVars == <<queue, dev, calls, rows, objects, ingested>>
chatVars == <<participants, messages, lastMessageAt, lastRead, attached, msgOutbox, posting>>
hubVars == <<conn, convs, userConns, sub, presence, frames>>
noticeVars == <<prefs, notifications, delivered, handling>>
profileVars == <<profile, clients, kycRecords, skills, portfolio, devices, events, index, consumer,
                 late, disturbed>>
gatewayVars == <<bucket, flight, admitted, drift, ran, now>>
sharedVars == <<tx, outbox, clock, faults, processed>>
allVars == <<part, hiringVars, sharedVars, reviewVars, fraudVars, adminVars, trackerVars, chatVars,
             hubVars, noticeVars, profileVars, gatewayVars>>

-----------------------------------------------------------------------------
Hiring == INSTANCE Contracts
Review == INSTANCE Reviews WITH Contracts <- Completed
Fraud == INSTANCE Fraud
Admin == INSTANCE Admin WITH Users <- Accounts
Tracker == INSTANCE Screenshots WITH Keys <- DataKeys
Hub == INSTANCE Hub WITH Users <- Accounts
Chat == INSTANCE Messaging WITH Users <- Members, MaxMessages <- MaxPosts
Notice == INSTANCE Notifications WITH Users <- Accounts, MaxFaults <- MaxConsumerFaults
Profile == INSTANCE Profiles WITH
  Users <- Accounts, Perms <- OwnerPerms, Keys <- AttestationKeys, MaxFaults <- MaxConsumerFaults
Limits == INSTANCE Gateway WITH Users <- Accounts

-----------------------------------------------------------------------------
(* The services that a behaviour is not about. *)

NoHiring ==
  /\ project = None /\ projectOutbox = None /\ proposal = None /\ proposalOutbox = None
  /\ contract = None /\ milestones = None /\ deliverables = None /\ timeline = None
  /\ disputes = None /\ contractOutbox = None /\ work = None
NoReviews ==
  /\ hidden = None /\ published = None /\ responses = None /\ reputation = None
  /\ announced = None /\ closed = None
NoFraud == signals = None /\ risk = None /\ cases = None
NoAdmin ==
  /\ status = None /\ dispute = None /\ actions = None /\ audit = None /\ shown = None
  /\ ended = None
NoTracker ==
  /\ queue = None /\ dev = None /\ calls = None /\ rows = None
  /\ objects = None /\ ingested = None
NoChat ==
  /\ participants = None /\ messages = None /\ lastMessageAt = None /\ lastRead = None
  /\ attached = None /\ msgOutbox = None /\ posting = None
NoHub ==
  /\ conn = None /\ convs = None /\ userConns = None /\ sub = None
  /\ presence = None /\ frames = None
NoNotices == prefs = None /\ notifications = None /\ delivered = None /\ handling = None
NoProfiles ==
  /\ profile = None /\ clients = None /\ kycRecords = None /\ skills = None
  /\ portfolio = None /\ devices = None /\ events = None /\ index = None
  /\ consumer = None /\ late = None /\ disturbed = None
NoGateway == bucket = None /\ flight = None /\ admitted = None /\ drift = None /\ ran = None /\ now = None

ServicesInit ==
  \/ /\ part = "hiring" /\ Hiring!Init
     /\ tx = None /\ outbox = None /\ clock = None /\ faults = None /\ processed = None
     /\ NoReviews /\ NoFraud /\ NoAdmin /\ NoTracker /\ NoChat /\ NoHub /\ NoNotices /\ NoProfiles /\ NoGateway
  \/ /\ part = "reviews" /\ Review!Init
     /\ outbox = None /\ clock = None /\ faults = None /\ processed = None
     /\ NoHiring /\ NoFraud /\ NoAdmin /\ NoTracker /\ NoChat /\ NoHub /\ NoNotices /\ NoProfiles /\ NoGateway
  \/ /\ part = "fraud" /\ Fraud!Init
     /\ faults = None /\ processed = None
     /\ NoHiring /\ NoReviews /\ NoAdmin /\ NoTracker /\ NoChat /\ NoHub /\ NoNotices /\ NoProfiles /\ NoGateway
  \/ /\ part = "admin" /\ Admin!Init
     /\ faults = None /\ processed = None
     /\ NoHiring /\ NoReviews /\ NoFraud /\ NoTracker /\ NoChat /\ NoHub /\ NoNotices /\ NoProfiles /\ NoGateway
  \/ /\ part = "screenshots" /\ Tracker!Init
     /\ tx = None /\ outbox = None /\ clock = None /\ processed = None
     /\ NoHiring /\ NoReviews /\ NoFraud /\ NoAdmin /\ NoChat /\ NoHub /\ NoNotices /\ NoProfiles /\ NoGateway
  \/ /\ part = "messaging" /\ Chat!InitMessaging
     /\ tx = None /\ outbox = None /\ faults = None /\ processed = None
     /\ NoHiring /\ NoReviews /\ NoFraud /\ NoAdmin /\ NoTracker /\ NoHub /\ NoNotices /\ NoProfiles /\ NoGateway
  \/ /\ part = "hub" /\ Hub!Init
     /\ tx = None /\ outbox = None /\ faults = None /\ processed = None
     /\ NoHiring /\ NoReviews /\ NoFraud /\ NoAdmin /\ NoTracker /\ NoNotices /\ NoProfiles /\ NoGateway
  \/ /\ part = "notifications" /\ Notice!Init
     /\ tx = None /\ outbox = None /\ clock = None
     /\ NoHiring /\ NoReviews /\ NoFraud /\ NoAdmin /\ NoTracker /\ NoChat /\ NoHub /\ NoProfiles /\ NoGateway
  \/ /\ part = "profiles" /\ Profile!Init
     /\ outbox = None /\ clock = None
     /\ NoHiring /\ NoReviews /\ NoFraud /\ NoAdmin /\ NoTracker /\ NoChat /\ NoHub /\ NoNotices /\ NoGateway
  \/ /\ part = "gateway" /\ Limits!Init
     /\ tx = None /\ outbox = None /\ clock = None /\ faults = None /\ processed = None
     /\ NoHiring /\ NoReviews /\ NoFraud /\ NoAdmin /\ NoTracker /\ NoChat /\ NoHub /\ NoNotices /\ NoProfiles

ServicesNext ==
  /\ UNCHANGED part
  /\ \/ part = "hiring" /\ Hiring!Next /\ UNCHANGED <<
            tx, outbox, clock, faults, processed, reviewVars, fraudVars, adminVars, trackerVars,
            chatVars, hubVars, noticeVars, profileVars, gatewayVars>>
     \/ part = "reviews" /\ Review!Next /\ UNCHANGED <<
            outbox, clock, faults, processed, hiringVars, fraudVars, adminVars, trackerVars, chatVars,
            hubVars, noticeVars, profileVars, gatewayVars>>
     \/ part = "fraud" /\ Fraud!Next /\ UNCHANGED <<
            faults, processed, hiringVars, reviewVars, adminVars, trackerVars, chatVars, hubVars,
            noticeVars, profileVars, gatewayVars>>
     \/ part = "admin" /\ Admin!Next /\ UNCHANGED <<
            faults, processed, hiringVars, reviewVars, fraudVars, trackerVars, chatVars, hubVars,
            noticeVars, profileVars, gatewayVars>>
     \/ part = "screenshots" /\ Tracker!Next /\ UNCHANGED <<
            tx, outbox, clock, processed, hiringVars, reviewVars, fraudVars, adminVars, chatVars,
            hubVars, noticeVars, profileVars, gatewayVars>>
     \/ part = "messaging" /\ Chat!MessagingNext /\ UNCHANGED <<
            tx, outbox, faults, processed, hiringVars, reviewVars, fraudVars, adminVars, trackerVars,
            hubVars, noticeVars, profileVars, gatewayVars>>
     \/ part = "hub" /\ Hub!Next /\ UNCHANGED <<
            tx, outbox, faults, processed, hiringVars, reviewVars, fraudVars, adminVars, trackerVars,
            noticeVars, profileVars, gatewayVars>>
     \/ part = "notifications" /\ Notice!Next /\ UNCHANGED <<
            tx, outbox, clock, hiringVars, reviewVars, fraudVars, adminVars, trackerVars, chatVars,
            hubVars, profileVars, gatewayVars>>
     \/ part = "profiles" /\ Profile!Next /\ UNCHANGED <<
            outbox, clock, hiringVars, reviewVars, fraudVars, adminVars, trackerVars, chatVars,
            hubVars, noticeVars, gatewayVars>>
     \/ part = "gateway" /\ Limits!Next /\ UNCHANGED <<
            tx, outbox, clock, faults, processed, hiringVars, reviewVars, fraudVars, adminVars,
            trackerVars, chatVars, hubVars, noticeVars, profileVars>>

ServicesSpec == ServicesInit /\ [][ServicesNext]_allVars

-----------------------------------------------------------------------------
(* The properties of the services, each for the behaviours of its part; the
   service's module says what each is made of. *)

(* A project is listed publicly, and a proposal shown to the client, exactly
   as its last announced event says, although publishing, closing, withdrawing
   and shortlisting race in the project and proposal services. *)
ListsFollowEvents == part = "hiring" => Hiring!ListsFollowEvents

(* The timeline that the contract service shows a party leads, transition by
   transition, to the contract's status and to what its outbox announced,
   although an activation and a dispute race for the row. *)
TimelineExplainsStatus == part = "hiring" => Hiring!TimelineExplainsStatus

(* A contract created from a proposal is worth what the freelancer bid, and
   the milestones of a fixed price add up to it, whatever the request says. *)
ContractHonoursBid == part = "hiring" => Hiring!ContractHonoursBid

(* milestone.approved, on which escrow releases money, is announced once for
   an approved milestone and never for another, under overlapping requests. *)
ApprovedOnce == part = "hiring" => Hiring!ApprovedOnce

(* The review service lists, announces and counts no review before the other
   party wrote theirs or the window was closed, although both reviews and the
   closing overlap. *)
PublishedAfterBoth == part = "reviews" => Review!PublishedAfterBoth

(* review.published comes exactly once for a published review, whoever
   publishes it, and a reputation is recomputed from published reviews only and
   never loses all of them. *)
AnnouncedOnce == part = "reviews" => Review!AnnouncedOnce /\ Review!ReputationFromPublished

(* Overlapping ingests of the fraud service open at most one case at a time
   for a subject, announce each, and leave no critical score without one. *)
OneOpenCase == part = "fraud" => Fraud!OneOpenCase

(* The admin service's actions and audit rows, each stamped with the start of
   its transaction, and its events explain the status of every user and
   dispute, and every screenshot list that was sent. *)
ActionsExplainStatus == part = "admin" => Admin!ActionsExplainStatus

(* However often the tracker's slots and confirms are lost, repeated or late,
   a slice has at most one screenshot, is announced exactly when that is
   stored, and is deleted from the device only then. *)
IngestedOnce == part = "screenshots" => Tracker!IngestedOnce

(* Whoever may view a contract's screenshots can decrypt each stored one with
   the key of its row. *)
StoredReadable == part = "screenshots" => Tracker!StoredReadable

(* Every message that the messaging service lists was announced once, in the
   order of the commits and from a participant, and the conversation shows the
   time of its last one, although posts overlap and fail. *)
HistoryAnnounced == part = "messaging" => Chat!HistoryAnnounced

(* The websocket hub's maps of connections, conversations and users agree with
   each other and with the open Redis subscriptions through joins, leaves,
   double closes and crashes. *)
MapsAgree == part = "hub" => Hub!MapsAgree

(* The hub sends a connection only frames of its user's conversations, never
   the user's own typing, messages with an id only from the history, and no
   frame twice. *)
DeliveredTrue == part = "hub" => Hub!DeliveredTrue

(* The notification service tried each notification on the channels its
   recipient had on and on no other but the default; what is marked sent was
   taken by its sender; without a fault an event gives one notification. *)
AttemptsHonest == part = "notifications" => Notice!AttemptsHonest

(* A searchable profile is complete and was once verified, and after its events
   were consumed undisturbed the search index holds its user exactly when the
   profile is searchable, although saves and KYC decisions overlap and the
   consumer repeats messages. *)
SearchFollowsProfile == part = "profiles" => Profile!SearchFollowsProfile

(* In no window of time does the gateway's limiter give a caller more than the
   burst and the refill of the window, lengthened by the errors of the clocks
   that its scripts were given. *)
AdmittedWithinLimits == part = "gateway" => Limits!AdmittedWithinLimits
=============================================================================
