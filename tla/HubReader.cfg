\* Two connections of a user on one replica join one conversation.
CONSTANTS
  c1 = c1  c2 = c2  c3 = c3  None = None
  Users = {"u1"}
  Conversations = {"v1"}
  Posters <- MCPosters
  MaxMessages = 1
  Conns = {c1, c2}
  UserOf <- MCUserOf
  ReplicaOf <- OneReplica
  SendBuffer = 1
  MaxFrames = 1
  MaxSubs = 2
  Watched = {"u1"}
SPECIFICATION Spec
INVARIANT SubscribersServed
CHECK_DEADLOCK FALSE
