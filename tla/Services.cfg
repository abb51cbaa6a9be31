CONSTANTS
  None = None
  Requests = {r1, r2}
  Accounts = {"u1"}
  Perms <- MCPerms
  Projects = {"p1"}
  Clients = {"c1"}
  Freelancers = {"f1"}
  Budgets <- MCBudgets
  Bids = {0, 2}
  Plans <- MCPlans
  MaxFiles = 1
  MaxProposals = 1
  Contracts = {k1}
  Breakdowns <- MCBreakdowns
  MaxSeq = 2
  MaxDisputes = 1
  Completed = {"k1", "k2"}
  ClientOf <- MCClientOf
  FreelancerOf <- MCFreelancerOf
  StatusOf <- MCStatusOf
  Subjects = {"s1"}
  Screenshots = {"s1"}
  Weights = {40, 60, 101}
  recentSignalCount = 2
  MaxSignals = 3
  MaxResolutions = 2
  Disputes = {"d1"}
  MaxActions = 2
  Slices = {"s1", "s2"}
  ClientDEK = {"s1", "s2"}
  DataKeys <- MCKeys
  Late = {"late"}
  MaxFaults = 2
  MaxViews = 1
  PartyUsers = {"c1"}
  Auditors = {"a1"}
  Strangers = {"x1"}
  Members = {"u1", "u2"}
  Conversations = {"v1"}
  Posters = {"x", "y"}
  MaxPosts = 2
  MaxMessages = 1
  Conns = {"x", "y"}
  UserOf <- MCUserOf
  ReplicaOf <- MCReplicaOf
  SendBuffer = 1
  MaxFrames = 1
  MaxSubs = 2
  Watched = {}
  Events = {"e1", "e2", "e3"}
  Dispatched = {"e3"}
  RecipientOf <- MCRecipientOf
  Channels = {"in_app", "email"}
  MaxRows = 2
  MaxConsumerFaults = 1
  Skills = {"k1", "k2"}
  Filled = {3, 4}
  Statuses = {"verified", "rejected", "bogus"}
  AttestationKeys = {"short", "key"}
  MaxItems = 1
  MaxEvents = 3
  MaxRetries = 1
  OwnerPerms <- MCOwnerPerms
  Addresses = {"i1"}
  Capacity <- MCCapacity
  Window = 1
  Skews = {0, 1}
  MaxNow = 2
  MaxRuns = 4
SYMMETRY MCSymmetry
SPECIFICATION ServicesSpec
CONSTRAINTS
  FilesThenContract
  ResponsesLast
  BusOrDispatch
  WrittenThenRead
  ProfileOrBelongings
  RequestsThenFaults
  AddressOrUser
  FewClockErrors
INVARIANTS
  ListsFollowEvents
  TimelineExplainsStatus
  ContractHonoursBid
  ApprovedOnce
  PublishedAfterBoth
  AnnouncedOnce
  OneOpenCase
  ActionsExplainStatus
  IngestedOnce
  StoredReadable
  HistoryAnnounced
  MapsAgree
  DeliveredTrue
  AttemptsHonest
  SearchFollowsProfile
  AdmittedWithinLimits
CHECK_DEADLOCK FALSE
