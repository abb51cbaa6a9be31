\* A connection of one user on each of two replicas, one conversation.
CONSTANTS
  c1 = c1  c2 = c2  c3 = c3  None = None
  Users = {"u1"}
  Conversations = {"v1"}
  Posters <- MCPosters
  MaxMessages = 1
  Conns = {c1, c3}
  UserOf <- MCUserOf
  ReplicaOf <- TwoReplicas
  SendBuffer = 1
  MaxFrames = 1
  MaxSubs = 1
  Watched = {"u1"}
SPECIFICATION FairSpec
PROPERTY PresenceSettles
\* Every connection may have come and gone.
CHECK_DEADLOCK FALSE
