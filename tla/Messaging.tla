----------------------------- MODULE Messaging -----------------------------
(***************************************************************************)
(* The messaging service: conversations with a fixed set of participants,  *)
(* their messages, read receipts and attachments.  A post is one           *)
(* transaction; now() is its start, and posts to one conversation commit   *)
(* one after the other, because each updates the conversation's row.       *)
(***************************************************************************)
EXTENDS Integers, Sequences

CONSTANTS
  Users, Conversations,
  Posters,        \* who may have a post in flight: connections, REST requests
  MaxMessages,    \* bound on the posts
  None

VARIABLES
  participants,   \* conversation_participants, {} without a conversation
  messages,       \* messages, in commit order
  lastMessageAt,  \* conversations.last_message_at, 0 when NULL
  lastRead,       \* participants with last_read_at
  attached,       \* messages with an attachment
  msgOutbox,      \* message.sent events, in commit order
  posting,        \* posts in flight
  clock           \* transaction starts so far

msgVars == <<participants, messages, lastMessageAt, lastRead, attached, msgOutbox, posting, clock>>

InitMessaging ==
  /\ participants = [cv \in Conversations |-> {}]
  /\ messages = <<>>
  /\ lastMessageAt = [cv \in Conversations |-> 0]
  /\ lastRead = {} /\ attached = {}
  /\ msgOutbox = <<>>
  /\ posting = [x \in Posters |-> None]
  /\ clock = 0

-----------------------------------------------------------------------------
(* The creator and the others, blanks and repetitions dropped; an unknown
   user breaks the foreign key and nothing is created. *)
AddParticipants(creator, others) == {creator} \cup (others \ {None})

CreateConversation(cv, creator, others) ==
  /\ participants[cv] = {}
  /\ AddParticipants(creator, others) \subseteq Users
  /\ participants' = [participants EXCEPT ![cv] = AddParticipants(creator, others)]
  /\ UNCHANGED <<messages, lastMessageAt, lastRead, attached, msgOutbox, posting, clock>>

IsParticipant(cv, u) == u \in participants[cv]

BeginPost(x, cv, u) ==
  /\ posting[x] = None
  /\ clock < MaxMessages
  /\ IsParticipant(cv, u)
  /\ clock' = clock + 1
  /\ posting' = [posting EXCEPT ![x] = [conv |-> cv, sender |-> u, at |-> clock + 1]]
  /\ UNCHANGED <<participants, messages, lastMessageAt, lastRead, attached, msgOutbox>>

InsertMessage(p) == Append(messages, p)

(* Mutant: the conversation's row is not touched. *)
TouchNothing(p) == lastMessageAt

TouchConversation(p) == [lastMessageAt EXCEPT ![p.conv] = p.at]

(* The id of a message is its place in the table. *)
CommitPost(x) ==
  LET p == posting[x] IN
  /\ p # None
  /\ messages' = InsertMessage(p)
  /\ lastMessageAt' = TouchConversation(p)
  /\ msgOutbox' = Append(msgOutbox, [id |-> Len(messages) + 1, conv |-> p.conv, sender |-> p.sender])
  /\ posting' = [posting EXCEPT ![x] = None]
  /\ UNCHANGED <<participants, lastRead, attached, clock>>

RollbackPost(x) ==
  /\ posting[x] # None
  /\ posting' = [posting EXCEPT ![x] = None]
  /\ UNCHANGED <<participants, messages, lastMessageAt, lastRead, attached, msgOutbox, clock>>

MarkRead(cv, u) ==
  /\ IsParticipant(cv, u)
  /\ lastRead' = lastRead \cup {<<cv, u>>}
  /\ UNCHANGED <<participants, messages, lastMessageAt, attached, msgOutbox, posting, clock>>

(* No check of the caller, and no foreign key to the partitioned table. *)
AddAttachment(id) ==
  /\ attached' = attached \cup {id}
  /\ UNCHANGED <<participants, messages, lastMessageAt, lastRead, msgOutbox, posting, clock>>

ListMessages(cv, u) ==
  IF IsParticipant(cv, u) THEN {i \in DOMAIN messages : messages[i].conv = cv} ELSE {}

ListConversations(u) == {cv \in Conversations : IsParticipant(cv, u)}

MessagingNext ==
  \/ \E cv \in Conversations, creator \in Users, others \in SUBSET (Users \cup {None}) :
       CreateConversation(cv, creator, others)
  \/ \E x \in Posters : \/ \E cv \in Conversations, u \in Users : BeginPost(x, cv, u)
                         \/ CommitPost(x)
                         \/ RollbackPost(x)
  \/ \E cv \in Conversations, u \in Users : MarkRead(cv, u)
  \/ \E id \in DOMAIN messages : AddAttachment(id)

MessagingSpec == InitMessaging /\ [][MessagingNext]_msgVars

(* Posts to one conversation overlap and fail.  Every message a participant
   can list was announced, once, in the order of the commits and under a
   sender who takes part; a rolled back post left nothing; and the
   conversation shows the time of its last committed message. *)
HistoryAnnounced ==
  /\ msgOutbox = [i \in DOMAIN messages |->
                    [id |-> i, conv |-> messages[i].conv, sender |-> messages[i].sender]]
  /\ \A cv \in Conversations, u \in Users : cv \in ListConversations(u) =>
       LET history == ListMessages(cv, u)  last == CHOOSE i \in history : \A j \in history : j <= i IN
       /\ \A i \in history : IsParticipant(cv, messages[i].sender)
       /\ lastMessageAt[cv] = IF history = {} THEN 0 ELSE messages[last].at
=============================================================================
