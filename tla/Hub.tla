-------------------------------- MODULE Hub --------------------------------
(***************************************************************************)
(* The websocket gateway: on every replica a hub with its connections and  *)
(* one Redis subscription per conversation that somebody there has joined, *)
(* read by a goroutine of its own.  Frames go through Redis to every       *)
(* replica and into a bounded queue per connection; a connection whose     *)
(* queue is full is closed.  Presence is one Redis key per user.           *)
(***************************************************************************)
EXTENDS Messaging, FiniteSets

CONSTANTS
  Conns, UserOf, ReplicaOf,   \* connections that will be opened, each once
  SendBuffer,                 \* cfg.SendBuffer
  MaxFrames,                  \* bound on the frames published
  MaxSubs,                    \* bound on the Redis subscriptions opened
  Watched                     \* users whose presence is followed

VARIABLES
  conn,       \* the connections, each with the state of its read loop
  convs,      \* Hub.convs of each replica: the subscribers and the subscription
  userConns,  \* Hub.userConns of each replica
  sub,        \* subscriptions and their reader goroutines
  presence,   \* watched users with a presence key
  frames      \* frames published so far

hubVars == <<conn, convs, userConns, sub, presence, frames>>
vars == <<msgVars, hubVars>>

Replicas == {ReplicaOf[c] : c \in Conns}
Subs == 1..MaxSubs
NewConn == [at |-> "new", closed |-> FALSE, joined |-> {}, queue |-> <<>>, got |-> {}, op |-> None]
Gone == [NewConn EXCEPT !.at = "gone"]

(* A subscription that is closed and whose reader has returned. *)
Ended == [open |-> FALSE, running |-> FALSE, todo |-> {}, closing |-> None]
CloseSub(s) == IF s.running THEN [s EXCEPT !.open = FALSE] ELSE Ended

Init ==
  /\ InitMessaging
  /\ conn = [c \in Conns |-> NewConn]
  /\ convs = [r \in Replicas |-> [cv \in Conversations |-> None]]
  /\ userConns = [r \in Replicas |-> [u \in Users |-> 0]]
  /\ sub = [i \in Subs |-> None]
  /\ presence = {}
  /\ frames = 0

Frame(type, cv, u, id) == [n |-> frames + 1, type |-> type, conv |-> cv, sender |-> u, id |-> id]
Notice == [n |-> 0, type |-> "notice", conv |-> None, sender |-> None, id |-> None]   \* ack or error

(* The request's context ends when its handler returns or panics. *)
CtxDone(c) == conn[c].at \in {"gone", "leaked"}
Inactive(c) == conn[c].at \in {"closed", "clear", "gone", "leaked"}   \* nothing is written any more

(* A frame of the connection's own goroutine.  A full queue closes the
   connection: closeOnce looks at the channel, and closes it in a second
   step. *)
Reply(k) ==
  IF Len(k.queue) < SendBuffer THEN [k EXCEPT !.queue = Append(@, Notice), !.op = None]
  ELSE [k EXCEPT !.op = IF k.closed THEN None ELSE [do |-> "close"]]

-----------------------------------------------------------------------------
(* Connections *)

(* serveWS: an unauthenticated upgrade is refused. *)
Register(c) ==
  /\ conn[c].at = "new"
  /\ conn' = [conn EXCEPT ![c].at = "registered"]
  /\ userConns' = [userConns EXCEPT ![ReplicaOf[c]][UserOf[c]] = @ + 1]
  /\ UNCHANGED <<msgVars, convs, sub, presence, frames>>

(* run's first heartbeat; Redis may fail. *)
Start(c) ==
  /\ conn[c].at = "registered"
  /\ conn' = [conn EXCEPT ![c].at = "open"]
  /\ presence' \in {presence, presence \cup ({UserOf[c]} \cap Watched)}
  /\ UNCHANGED <<msgVars, convs, userConns, sub, frames>>

Reading(c) == conn[c].at = "open" /\ conn[c].op = None

(* Mutant: a pong does not refresh the key. *)
HeartbeatOnlyAtStart(c) == Reading(c) /\ UserOf[c] \in Watched /\ UNCHANGED vars

(* The pong handler runs in the read loop. *)
Heartbeat(c) ==
  /\ Reading(c)
  /\ UserOf[c] \in Watched
  /\ presence' = presence \cup {UserOf[c]}
  /\ UNCHANGED <<msgVars, conn, convs, userConns, sub, frames>>

(* The key of a user without a connection is not refreshed. *)
Expire(u) ==
  /\ u \in presence
  /\ \A c \in Conns : UserOf[c] = u => conn[c].at # "open"
  /\ presence' = presence \ {u}
  /\ UNCHANGED <<msgVars, conn, convs, userConns, sub, frames>>

writePump(c) ==
  /\ conn[c].at \in {"open", "closing"} /\ conn[c].queue # <<>>
  /\ conn' = [conn EXCEPT ![c].queue = Tail(@), ![c].got = @ \cup ({Head(conn[c].queue).n} \ {0})]
  /\ UNCHANGED <<msgVars, convs, userConns, sub, presence, frames>>

(* The client leaves, its keepalive lapses, or the write pump has closed the
   socket: closeOnce looks at the channel. *)
ReadEnds(c) ==
  /\ Reading(c)
  /\ conn' = [conn EXCEPT ![c].at = IF conn[c].closed THEN "closed" ELSE "closing", ![c].queue = <<>>]
  /\ UNCHANGED <<msgVars, convs, userConns, sub, presence, frames>>

(* close(c.closed) of the connection's goroutine.  Closed before, it panics;
   net/http recovers, and the connection is never unregistered. *)
CloseOwn(c) ==
  /\ \/ conn[c].at = "closing"
     \/ conn[c].at = "open" /\ conn[c].op # None /\ conn[c].op.do = "close"
  /\ conn' = [conn EXCEPT ![c].closed = TRUE, ![c].op = None,
                          ![c].at = IF conn[c].closed THEN "leaked" ELSE IF @ = "closing" THEN "closed" ELSE @]
  /\ UNCHANGED <<msgVars, convs, userConns, sub, presence, frames>>

(* Mutant: the entry of a conversation stays when its last subscriber leaves. *)
WithoutKeepingEmpty(c, cvs) ==
  LET row == convs[ReplicaOf[c]] IN
  [convs EXCEPT ![ReplicaOf[c]] = [cv \in Conversations |->
     IF row[cv] = None \/ cv \notin cvs THEN row[cv] ELSE [row[cv] EXCEPT !.subscribers = @ \ {c}]]]

(* convs and the subscriptions without connection c in the conversations. *)
Without(c, cvs) ==
  LET row == convs[ReplicaOf[c]] IN
  [convs EXCEPT ![ReplicaOf[c]] = [cv \in Conversations |->
     IF row[cv] = None \/ cv \notin cvs THEN row[cv]
     ELSE IF row[cv].subscribers \subseteq {c} THEN None
     ELSE [row[cv] EXCEPT !.subscribers = @ \ {c}]]]

TornDown(c, cvs) ==
  {i \in Subs : \E cv \in cvs : LET cs == convs[ReplicaOf[c]][cv] IN
                  cs # None /\ cs.sub = i /\ cs.subscribers \subseteq {c}}

leaveLocked(c, cvs) ==
  /\ convs' = Without(c, cvs)
  /\ sub' = [i \in Subs |-> IF i \in TornDown(c, cvs) THEN CloseSub(sub[i]) ELSE sub[i]]

unregister(c) ==
  LET n == userConns[ReplicaOf[c]][UserOf[c]] - 1 IN
  /\ conn[c].at = "closed"
  /\ leaveLocked(c, conn[c].joined)
  /\ userConns' = [userConns EXCEPT ![ReplicaOf[c]][UserOf[c]] = n]
  /\ conn' = [conn EXCEPT ![c] = [Gone EXCEPT !.at = IF n = 0 THEN "clear" ELSE "gone"]]
  /\ UNCHANGED <<msgVars, presence, frames>>

ClearPresence(c) ==
  /\ conn[c].at = "clear"
  /\ presence' = presence \ {UserOf[c]}
  /\ conn' = [conn EXCEPT ![c] = Gone]
  /\ UNCHANGED <<msgVars, convs, userConns, sub, frames>>

-----------------------------------------------------------------------------
(* Joining: asked of the messaging service first, without the lock. *)

(* Mutant: the messaging service is not asked. *)
CheckNobody(c, cv) == TRUE

CheckMembership(c, cv) == IsParticipant(cv, UserOf[c])

AuthorizeJoin(c, cv) ==
  /\ Reading(c) /\ cv \notin conn[c].joined
  /\ conn' = [conn EXCEPT ![c] = IF CheckMembership(c, cv) THEN [@ EXCEPT !.op = [do |-> "join", conv |-> cv]]
                                 ELSE Reply(@)]
  /\ UNCHANGED <<msgVars, convs, userConns, sub, presence, frames>>

NewSub(c, cv) ==
  [replica |-> ReplicaOf[c], conv |-> cv, opener |-> c, open |-> TRUE, running |-> TRUE,
   inbox |-> <<>>, frame |-> None, todo |-> {}, closing |-> None]

join(c) ==
  LET r == ReplicaOf[c]  cv == conn[c].op.conv  cs == convs[r][cv] IN
  /\ conn[c].at = "open" /\ conn[c].op # None /\ conn[c].op.do = "join"
  /\ \/ /\ cs # None
        /\ convs' = [convs EXCEPT ![r][cv].subscribers = @ \cup {c}]
        /\ conn' = [conn EXCEPT ![c] = Reply([conn[c] EXCEPT !.joined = @ \cup {cv}])]
        /\ UNCHANGED sub
     \/ /\ cs = None
        /\ \E i \in Subs :
             /\ sub[i] = None /\ \A j \in 1..(i - 1) : sub[j] # None
             /\ sub' = [sub EXCEPT ![i] = NewSub(c, cv)]
             /\ convs' = [convs EXCEPT ![r][cv] = [subscribers |-> {c}, sub |-> i]]
        /\ conn' = [conn EXCEPT ![c] = Reply([conn[c] EXCEPT !.joined = @ \cup {cv}])]
     \/ /\ cs = None    \* Redis refuses
        /\ conn' = [conn EXCEPT ![c] = Reply(@)]
        /\ UNCHANGED <<convs, sub>>
  /\ UNCHANGED <<msgVars, userConns, presence, frames>>

leave(c, cv) ==
  /\ Reading(c)
  /\ leaveLocked(c, {cv})
  /\ conn' = [conn EXCEPT ![c].joined = @ \ {cv}]
  /\ UNCHANGED <<msgVars, userConns, presence, frames>>

-----------------------------------------------------------------------------
(* Publishing *)

(* Every open subscription gets the frame, or Redis fails and nobody does. *)
Publish(f) ==
  /\ frames' = frames + 1
  /\ \/ sub' = [i \in Subs |-> IF sub[i] # None /\ sub[i].open /\ sub[i].running /\ sub[i].conv = f.conv
                               THEN [sub[i] EXCEPT !.inbox = Append(@, f)] ELSE sub[i]]
     \/ UNCHANGED sub

(* Bound: the frames published and those on their way. *)
Sending == {c \in Conns : conn[c].op # None /\ conn[c].op.do = "persist"}
Room == frames + Cardinality(Sending) < MaxFrames

(* handleSend persists first.  A refusal or a timeout does not stop it; a
   post that timed out may still commit. *)
handleSend(c, cv) ==
  /\ Reading(c) /\ Room
  /\ conn' = [conn EXCEPT ![c].op = [do |-> "persist", conv |-> cv, id |-> None]]
  /\ BeginPost(c, cv, UserOf[c]) \/ UNCHANGED msgVars
  /\ UNCHANGED <<convs, userConns, sub, presence, frames>>

PostAnswered(c) ==
  /\ c \in Sending
  /\ CommitPost(c)
  /\ conn' = [conn EXCEPT ![c].op.id = Len(messages')]
  /\ UNCHANGED <<convs, userConns, sub, presence, frames>>

FanOut(c) ==
  LET op == conn[c].op IN
  /\ c \in Sending
  /\ posting[c] = None
  /\ Publish(Frame("message.sent", op.conv, UserOf[c], op.id))
  /\ conn' = [conn EXCEPT ![c].op = None]
  /\ UNCHANGED <<msgVars, convs, userConns, presence>>

PostLost(c) ==
  /\ c \in Sending
  /\ CommitPost(c) \/ RollbackPost(c)
  /\ UNCHANGED hubVars

handleEphemeral(c, cv) ==
  /\ Reading(c) /\ Room
  /\ Publish(Frame("typing", cv, UserOf[c], None))
  /\ UNCHANGED <<msgVars, conn, convs, userConns, presence>>

-----------------------------------------------------------------------------
(* The reader goroutine of a subscription *)

Busy(s) == s.todo # {} \/ s.closing # None

Targets(s, f) ==
  LET cs == convs[s.replica][s.conv] IN
  IF cs = None THEN {}
  ELSE {c \in cs.subscribers : ~(f.sender = UserOf[c] /\ f.type = "typing")}

(* The subscribers of the conversation as it is now, although the
   subscription that carried the frame may be an older one. *)
deliverLocal(i) ==
  LET s == sub[i] IN
  /\ s # None /\ s.running /\ ~Busy(s) /\ s.inbox # <<>>
  /\ LET f == Head(s.inbox)  todo == Targets(s, f) IN
     sub' = [sub EXCEPT ![i] = [s EXCEPT !.inbox = Tail(@), !.todo = todo,
                                         !.frame = IF todo = {} THEN None ELSE f]]
  /\ UNCHANGED <<msgVars, conn, convs, userConns, presence, frames>>

(* Once the connection is closed the select may also drop the frame. A queued frame
   need not be written either, so queueing it covers both. *)
trySend(i, c) ==
  LET s == sub[i]  full == Len(conn[c].queue) >= SendBuffer IN
  /\ s # None /\ c \in s.todo /\ s.closing = None
  /\ conn' = IF full \/ Inactive(c) THEN conn ELSE [conn EXCEPT ![c].queue = Append(@, s.frame)]
  /\ sub' = [sub EXCEPT ![i].todo = @ \ {c},
                        ![i].frame = IF s.todo = {c} THEN None ELSE @,
                        ![i].closing = IF full /\ ~conn[c].closed /\ ~Inactive(c) THEN c ELSE None]
  /\ UNCHANGED <<msgVars, convs, userConns, presence, frames>>

Crashed(r) ==
  /\ conn' = [c \in Conns |-> IF ReplicaOf[c] = r /\ conn[c].at # "new"
                              THEN Gone ELSE conn[c]]
  /\ convs' = [convs EXCEPT ![r] = [cv \in Conversations |-> None]]
  /\ userConns' = [userConns EXCEPT ![r] = [u \in Users |-> 0]]
  /\ sub' = [i \in Subs |-> IF sub[i] # None /\ sub[i] # Ended /\ sub[i].replica = r THEN Ended ELSE sub[i]]

(* closeOnce of the reader.  A second close panics, and a panic in a
   goroutine ends the process, which is started again. *)
CloseByReader(i) ==
  LET s == sub[i] IN
  /\ s # None /\ s.closing # None
  /\ IF conn[s.closing].closed
     THEN Crashed(s.replica)
     ELSE /\ conn' = [conn EXCEPT ![s.closing].closed = TRUE]
          /\ sub' = [sub EXCEPT ![i].closing = None]
          /\ UNCHANGED <<convs, userConns>>
  /\ UNCHANGED <<msgVars, presence, frames>>

(* The subscription was closed, or the context it was opened in has ended:
   that of the connection that joined first. *)
ReaderStops(i) ==
  LET s == sub[i] IN
  /\ s # None /\ s.running /\ ~Busy(s)
  /\ ~s.open \/ CtxDone(s.opener)
  /\ sub' = [sub EXCEPT ![i] = IF s.open THEN [s EXCEPT !.running = FALSE, !.inbox = <<>>] ELSE Ended]
  /\ UNCHANGED <<msgVars, conn, convs, userConns, presence, frames>>

-----------------------------------------------------------------------------
FrameEnds(c) == join(c) \/ PostAnswered(c) \/ PostLost(c) \/ FanOut(c)

ConnEnds(c) == CloseOwn(c) \/ unregister(c) \/ ClearPresence(c)

ConnNext(c) ==
  \/ Register(c) \/ Start(c) \/ Heartbeat(c) \/ writePump(c) \/ ReadEnds(c) \/ ConnEnds(c)
  \/ \E cv \in Conversations : AuthorizeJoin(c, cv) \/ leave(c, cv) \/ handleSend(c, cv) \/ handleEphemeral(c, cv)
  \/ FrameEnds(c)

ReaderNext(i) ==
  \/ deliverLocal(i)
  \/ \E c \in Conns : trySend(i, c)
  \/ CloseByReader(i)
  \/ ReaderStops(i)

Next ==
  \/ /\ \E cv \in Conversations, creator \in Users, others \in SUBSET Users : CreateConversation(cv, creator, others)
     /\ UNCHANGED hubVars
  \/ \E c \in Conns : ConnNext(c)
  \/ \E u \in Users : Expire(u)
  \/ \E i \in Subs : ReaderNext(i)

(* Goroutines are scheduled and Redis expires keys.  The read loop handles
   the pongs of a live client between its frames, however many those are. *)
Fairness ==
  /\ \A c \in Conns : /\ WF_vars(Start(c)) /\ WF_vars(FrameEnds(c)) /\ WF_vars(ConnEnds(c))
                       /\ SF_vars(Heartbeat(c))
  /\ \A u \in Users : WF_vars(Expire(u))

Spec == Init /\ [][Next]_vars
FairSpec == Spec /\ Fairness

-----------------------------------------------------------------------------
Registered(c) == conn[c].at \in {"registered", "open", "closing", "closed", "leaked"}

(* The hub's three maps agree, through every order of joins, leaves, dropped
   connections and crashes: a conversation has an entry and an open Redis
   subscription exactly while a local connection has joined it, a connection
   that was unregistered is in none of them, and the count that decides on
   presence is the number of registered connections.  A running reader of a
   dropped conversation is on its way out. *)
MapsAgree ==
  \A r \in Replicas :
    /\ \A u \in Users :
         userConns[r][u] = Cardinality({c \in Conns : ReplicaOf[c] = r /\ UserOf[c] = u /\ Registered(c)})
    /\ \A cv \in Conversations :
         LET joined == {c \in Conns : ReplicaOf[c] = r /\ Registered(c) /\ cv \in conn[c].joined}
             open == {i \in Subs : sub[i] # None /\ sub[i].open /\ sub[i].replica = r /\ sub[i].conv = cv} IN
         IF convs[r][cv] = None THEN joined = {} /\ open = {}
         ELSE convs[r][cv].subscribers = joined /\ joined # {} /\ open = {convs[r][cv].sub}

(* What is sent to a client: only frames of conversations its user takes part
   in; a message with an id is in the history under its sender, who takes
   part as well; no one sees their own typing; and no frame comes twice,
   although a reader outlives its subscription and delivers to whoever has
   joined since. *)
DeliveredTrue ==
  \A c \in Conns :
    LET queued == {conn[c].queue[i] : i \in DOMAIN conn[c].queue} \ {Notice}
        due == {f.n : f \in queued}
        coming == {sub[i].frame.n : i \in {j \in Subs : sub[j] # None /\ c \in sub[j].todo}} IN
    /\ \A f \in queued :
         /\ f.conv \in ListConversations(UserOf[c])
         /\ f.type = "typing" => f.sender # UserOf[c]
         /\ f.id # None => /\ f.id \in ListMessages(f.conv, UserOf[c])
                           /\ messages[f.id].sender = f.sender
                           /\ IsParticipant(f.conv, f.sender)
    /\ conn[c].got \cap due = {}
    /\ (conn[c].got \cup due) \cap coming = {}

(* Once connections stop coming and going, a user is shown online exactly
   while a connection is open: a key deleted by the last connection of
   another replica, or by one that closed while the next was opened, is set
   again by a pong, and a crashed replica's keys expire. *)
PresenceSettles ==
  \A u \in Watched : <>[](u \in presence <=> \E c \in Conns : UserOf[c] = u /\ conn[c].at = "open")

(* A conversation with local subscribers has a subscription whose frames are
   read and delivered. *)
SubscribersServed ==
  \A r \in Replicas, cv \in Conversations :
    convs[r][cv] # None => sub[convs[r][cv].sub].running
=============================================================================
