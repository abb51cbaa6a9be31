------------------------------ MODULE Sessions ------------------------------
(***************************************************************************)
(* The auth service: password logins with lockout, and sessions whose      *)
(* refresh token is rotated at every use.  A session's tokens are numbered *)
(* in the order they were minted.  Every session is a family of its own:   *)
(* family_id is drawn with the row and never set again.  A refresh and a   *)
(* logout lock the token's row first and the session's row second; a       *)
(* revocation then locks the session's other tokens, which is a cycle      *)
(* that only Postgres' deadlock detector ends.                             *)
(***************************************************************************)
EXTENDS Integers, FiniteSets

CONSTANTS
  Users,        \* users rows, by email
  AuthSessions, \* sessions rows that may be inserted
  MaxTokens,    \* bound on the refresh tokens of a session
  Threshold,    \* lockoutThreshold
  MaxFailures,  \* bound on failed_login_count
  Handlers,     \* requests served concurrently
  None

ASSUME SessionsAssumption ==
  /\ IsFiniteSet(Handlers)
  /\ MaxTokens \in Nat \ {0} /\ Threshold \in Nat \ {0} /\ MaxFailures \in Nat
  /\ None \notin Handlers

VARIABLES
  known,        \* registered users
  failed,       \* users.failed_login_count
  locked,       \* users whose locked_until lies ahead
  late,         \* history: failures recorded while the account was locked
  issued,       \* tokens of each session, 0 without a session row
  used, dead,   \* tokens with used_at, with revoked_at
  revoked,      \* sessions with revoked_at
  burned,       \* history: sessions revoked together with their tokens
  caught,       \* history: sessions for which ErrTokenReuse was answered
  tokenLock,    \* holder of each token's row lock
  sessionLock,  \* holder of each session's row lock
  pc, req,      \* each handler's progress and request
  seen          \* newest token in the snapshot of the UPDATE of its tokens

accounts == <<known, failed, locked, late>>
tokens == <<issued, used, dead, revoked, burned, caught>>
locks == <<tokenLock, sessionLock>>
vars == <<accounts, tokens, locks, pc, req, seen>>

TokenIds == 1 .. MaxTokens

(* A login names a user, the others carry a refresh token. *)
Requests ==
  [op : {"login"}, user : Users]
    \cup [op : {"refresh", "logout"}, session : AuthSessions, token : TokenIds]

(* Users may have been registered, or seeded, long before. *)
Init ==
  /\ known \in SUBSET Users /\ locked = {}
  /\ failed = [u \in Users |-> 0]
  /\ late = [u \in Users |-> 0]
  /\ issued = [s \in AuthSessions |-> 0]
  /\ used = [s \in AuthSessions |-> {}]
  /\ dead = [s \in AuthSessions |-> {}]
  /\ revoked = {} /\ burned = {} /\ caught = {}
  /\ tokenLock = [s \in AuthSessions |-> [t \in TokenIds |-> None]]
  /\ sessionLock = [s \in AuthSessions |-> None]
  /\ pc = [h \in Handlers |-> "idle"]
  /\ req = [h \in Handlers |-> None]
  /\ seen = [h \in Handlers |-> 0]

Goto(h, l) == pc' = [pc EXCEPT ![h] = l]

(* Mutant: the lock on the session's row outlives the transaction. *)
EndTxKeepingLock(h) ==
  /\ Goto(h, "idle")
  /\ req' = [req EXCEPT ![h] = None]
  /\ seen' = [seen EXCEPT ![h] = 0]
  /\ tokenLock' = [s \in AuthSessions |-> [t \in TokenIds |->
                     IF tokenLock[s][t] = h THEN None ELSE tokenLock[s][t]]]
  /\ UNCHANGED sessionLock

(* The transaction of h ends and the handler answers. *)
EndTx(h) ==
  /\ Goto(h, "idle")
  /\ req' = [req EXCEPT ![h] = None]
  /\ seen' = [seen EXCEPT ![h] = 0]
  /\ tokenLock' = [s \in AuthSessions |-> [t \in TokenIds |->
                     IF tokenLock[s][t] = h THEN None ELSE tokenLock[s][t]]]
  /\ sessionLock' = [s \in AuthSessions |->
                       IF sessionLock[s] = h THEN None ELSE sessionLock[s]]

-----------------------------------------------------------------------------
(* Accounts. *)

(* issueSession: a new session row with its first token. *)
issueSession(s) ==
  /\ issued[s] = 0
  /\ issued' = [issued EXCEPT ![s] = 1]
  /\ UNCHANGED <<used, dead, revoked, burned, caught>>

(* The unique index refuses an email that is registered. *)
Register(u, s) ==
  /\ u \notin known
  /\ known' = known \cup {u}
  /\ issueSession(s)
  /\ UNCHANGED <<failed, locked, late, locks, pc, req, seen>>

(* Mutant: the lock is not looked at. *)
LoginReadAnyway(h, u) ==
  /\ pc[h] = "idle" /\ u \in known
  /\ failed[u] < MaxFailures
  /\ req' = [req EXCEPT ![h] = [op |-> "login", user |-> u]]
  /\ Goto(h, "verify")
  /\ UNCHANGED <<accounts, tokens, locks, seen>>

(* GetUserByEmail: the lock is looked at before the slow verification.
   MaxFailures bounds the logins that begin. *)
LoginRead(h, u) ==
  /\ pc[h] = "idle" /\ u \in known \ locked
  /\ failed[u] < MaxFailures
  /\ req' = [req EXCEPT ![h] = [op |-> "login", user |-> u]]
  /\ Goto(h, "verify")
  /\ UNCHANGED <<accounts, tokens, locks, seen>>

(* One UPDATE counts the failure and locks at the threshold. *)
RecordLoginFailure(h) ==
  LET u == req[h].user
  IN /\ pc[h] = "verify"
     /\ failed' = [failed EXCEPT ![u] = @ + 1]
     /\ locked' = IF failed[u] + 1 >= Threshold THEN locked \cup {u} ELSE locked
     /\ late' = [late EXCEPT ![u] = IF u \in locked THEN @ + 1 ELSE @]
     /\ EndTx(h)
     /\ UNCHANGED <<known, tokens>>

(* The count and the lock are reset, also a lock set since LoginRead, and an
   error of it is ignored; then the session is issued in a transaction of its
   own. *)
RecordLoginSuccess(h) ==
  LET u == req[h].user
  IN /\ pc[h] = "verify"
     /\ \/ /\ failed' = [failed EXCEPT ![u] = 0]
           /\ locked' = locked \ {u}
           /\ late' = [late EXCEPT ![u] = 0]
        \/ UNCHANGED <<failed, locked, late>>
     /\ Goto(h, "issue")
     /\ UNCHANGED <<known, tokens, locks, req, seen>>

Login(h, s) ==
  /\ pc[h] = "issue"
  /\ issueSession(s)
  /\ EndTx(h)
  /\ UNCHANGED accounts

(* locked_until passes; the count stays. *)
LockExpires(u) ==
  /\ u \in locked
  /\ locked' = locked \ {u}
  /\ late' = [late EXCEPT ![u] = 0]
  /\ UNCHANGED <<known, failed, tokens, locks, pc, req, seen>>

-----------------------------------------------------------------------------
(* Refresh and Logout. *)

(* MaxTokens bounds the tokens that are rotated. *)
Receive(h, op, s, t) ==
  /\ pc[h] = "idle" /\ t \in 1 .. issued[s]
  /\ op = "refresh" => issued[s] < MaxTokens \/ t \in used[s] \cup dead[s]
  /\ req' = [req EXCEPT ![h] = [op |-> op, session |-> s, token |-> t]]
  /\ Goto(h, "lookup")
  /\ UNCHANGED <<accounts, tokens, locks, seen>>

(* Where the row that was locked leads: a refresh refuses a revoked or an
   expired token, burns the family of a used one and rotates a live one; a
   logout revokes in any case. *)
AfterLookup(h) ==
  LET s == req[h].session
      t == req[h].token
  IN IF req[h].op = "logout" THEN {"revokeSession"}
     ELSE {"refuse"} \cup (IF t \in dead[s] THEN {}
                          ELSE IF t \in used[s] THEN {"revokeSession"} ELSE {"session"})

(* Mutant: a plain SELECT, without FOR UPDATE OF rt. *)
LookupWithoutWaiting(h) ==
  /\ pc[h] = "lookup"
  /\ \E l \in AfterLookup(h) : Goto(h, l)
  /\ UNCHANGED <<accounts, tokens, locks, req, seen>>

(* SELECT ... FOR UPDATE OF rt. *)
LookupRefreshToken(h) ==
  LET s == req[h].session
      t == req[h].token
  IN /\ pc[h] = "lookup" /\ tokenLock[s][t] = None
     /\ tokenLock' = [tokenLock EXCEPT ![s][t] = h]
     /\ \E l \in AfterLookup(h) : Goto(h, l)
     /\ UNCHANGED <<accounts, tokens, sessionLock, req, seen>>

Refuse(h) ==
  /\ pc[h] = "refuse"
  /\ EndTx(h)
  /\ UNCHANGED <<accounts, tokens>>

(* Mutant: the session is not looked at again. *)
RotateUnchecked(h) ==
  /\ pc[h] = "session"
  /\ Goto(h, "mint")
  /\ UNCHANGED <<accounts, tokens, locks, req, seen>>

(* SELECT revoked_at ... FOR UPDATE. *)
SessionRevokedForUpdate(h) ==
  LET s == req[h].session
  IN /\ pc[h] = "session" /\ sessionLock[s] = None
     /\ sessionLock' = [sessionLock EXCEPT ![s] = h]
     /\ Goto(h, IF s \in revoked THEN "refuse" ELSE "mint")
     /\ UNCHANGED <<accounts, tokens, tokenLock, req, seen>>

(* InsertRefreshToken, MarkTokenUsed and the commit. *)
Refresh(h) ==
  LET s == req[h].session
      t == req[h].token
  IN /\ pc[h] = "mint"
     /\ issued' = [issued EXCEPT ![s] = @ + 1]
     /\ used' = [used EXCEPT ![s] = @ \cup {t}]
     /\ EndTx(h)
     /\ UNCHANGED <<accounts, dead, revoked, burned, caught>>

(* UPDATE sessions ... WHERE revoked_at IS NULL waits for the row's holder,
   unless the row is already revoked and so not its target.  The UPDATE of
   refresh_tokens that follows sees the tokens of this moment. *)
RevokeSessionRow(h) ==
  LET s == req[h].session
  IN /\ pc[h] = "revokeSession"
     /\ \/ s \in revoked /\ UNCHANGED sessionLock
        \/ /\ s \notin revoked /\ sessionLock[s] = None
           /\ sessionLock' = [sessionLock EXCEPT ![s] = h]
     /\ seen' = [seen EXCEPT ![h] = issued[s]]
     /\ Goto(h, "revokeTokens")
     /\ UNCHANGED <<accounts, tokens, tokenLock, req>>

(* Tokens of h's session that another transaction holds and that the UPDATE
   of refresh_tokens would touch. *)
HeldTokens(h) ==
  LET s == req[h].session
  IN {t \in 1 .. seen[h] : t \notin dead[s] /\ tokenLock[s][t] \notin {h, None}}

(* The tokens are revoked and the transaction commits, with ErrTokenReuse as
   a refresh's answer. *)
RevokeFamily(h) ==
  LET s == req[h].session
  IN /\ pc[h] = "revokeTokens" /\ HeldTokens(h) = {}
     /\ dead' = [dead EXCEPT ![s] = @ \cup (1 .. seen[h])]
     /\ revoked' = revoked \cup {s}
     /\ burned' = burned \cup {s}
     /\ caught' = IF req[h].op = "refresh" THEN caught \cup {s} ELSE caught
     /\ EndTx(h)
     /\ UNCHANGED <<accounts, issued, used>>

(* A user revokes a session of theirs by id: one statement, which leaves the
   tokens as they are. *)
RevokeSession(s) ==
  /\ issued[s] > 0 /\ s \notin revoked /\ sessionLock[s] = None
  /\ revoked' = revoked \cup {s}
  /\ UNCHANGED <<accounts, issued, used, dead, burned, caught, locks, pc, req, seen>>

-----------------------------------------------------------------------------
(* h waits for a row that g has locked. *)
WaitsFor(h, g) ==
  LET s == req[h].session
  IN \/ pc[h] = "lookup" /\ tokenLock[s][req[h].token] = g
     \/ pc[h] \in {"session", "revokeSession"} /\ sessionLock[s] = g
     \/ pc[h] = "revokeTokens" /\ \E t \in HeldTokens(h) : tokenLock[s][t] = g

(* Postgres aborts the statement of one of the transactions in a cycle, which
   is one of two here: whoever revokes waits for every other holder.  A
   refresh that was revoking the family ignores the error, and that its
   commit then rolls back, and answers ErrTokenReuse. *)
Deadlock(h) ==
  /\ \E g \in Handlers \ {h} : WaitsFor(h, g) /\ WaitsFor(g, h)
  /\ caught' = IF /\ req[h].op = "refresh"
                  /\ pc[h] \in {"revokeSession", "revokeTokens"}
               THEN caught \cup {req[h].session} ELSE caught
  /\ EndTx(h)
  /\ UNCHANGED <<accounts, issued, used, dead, revoked, burned>>

(* A crash or an ended request context: rolled back, nobody is answered. *)
Rollback(h) ==
  /\ pc[h] # "idle"
  /\ EndTx(h)
  /\ UNCHANGED <<accounts, tokens>>

(* What the handler of a refresh or a logout does next. *)
Step(h) ==
  \/ LookupRefreshToken(h) \/ Refuse(h)
  \/ SessionRevokedForUpdate(h) \/ Refresh(h)
  \/ RevokeSessionRow(h) \/ RevokeFamily(h) \/ Deadlock(h)

Next ==
  \/ \E h \in Handlers :
       \/ \E u \in Users : LoginRead(h, u)
       \/ RecordLoginFailure(h) \/ RecordLoginSuccess(h)
       \/ \E s \in AuthSessions : Login(h, s)
       \/ \E op \in {"refresh", "logout"}, s \in AuthSessions, t \in TokenIds :
            Receive(h, op, s, t)
       \/ Step(h) \/ Rollback(h)
  \/ \E u \in Users : LockExpires(u) \/ \E s \in AuthSessions : Register(u, s)
  \/ \E s \in AuthSessions : RevokeSession(s)

(* Postgres queues the waiters of a lock and looks for deadlocks. *)
Fairness ==
  \A h \in Handlers :
    /\ SF_vars(LookupRefreshToken(h)) /\ SF_vars(SessionRevokedForUpdate(h))
    /\ SF_vars(RevokeSessionRow(h)) /\ SF_vars(RevokeFamily(h))
    /\ WF_vars(Refuse(h)) /\ WF_vars(Refresh(h)) /\ WF_vars(Deadlock(h))

Spec == Init /\ [][Next]_vars /\ Fairness

-----------------------------------------------------------------------------
(* Properties. *)

(* Type correctness of accounts, sessions, tokens and handlers. *)
TypeOK ==
  /\ known \subseteq Users /\ locked \subseteq known
  /\ failed \in [Users -> Nat] /\ late \in [Users -> Nat]
  /\ issued \in [AuthSessions -> 0 .. MaxTokens]
  /\ used \in [AuthSessions -> SUBSET TokenIds]
  /\ dead \in [AuthSessions -> SUBSET TokenIds]
  /\ revoked \subseteq AuthSessions /\ burned \subseteq AuthSessions
  /\ caught \subseteq AuthSessions
  /\ tokenLock \in [AuthSessions -> [TokenIds -> Handlers \cup {None}]]
  /\ sessionLock \in [AuthSessions -> Handlers \cup {None}]
  /\ pc \in [Handlers -> {"idle", "verify", "issue", "lookup", "refuse", "session",
                          "mint", "revokeSession", "revokeTokens"}]
  /\ req \in [Handlers -> Requests \cup {None}]
  /\ seen \in [Handlers -> 0 .. MaxTokens]

(* A burned family hands out nothing: once a reuse or a logout revoked a
   session with its tokens, no token of it is live, also one whose rotation
   was under way. *)
BurnedIsDead ==
  \A s \in burned : s \in revoked /\ dead[s] = 1 .. issued[s]

(* A rotation leaves one live token: two refreshes with the same token, or
   with a token and its successor, never leave the session two. *)
OneLiveToken ==
  \A s \in AuthSessions : Cardinality((1 .. issued[s]) \ (used[s] \cup dead[s])) <= 1

(* No token is minted for a session that is revoked at that moment, be it by
   a reuse, a logout or the session list, which leaves the tokens alone. *)
NoMintOnRevoked ==
  [][\A s \in revoked : issued'[s] = issued[s]]_vars

(* The lock is read before the password is verified, so a guess may be
   judged while the account is locked, but only by requests that were in
   flight when the lock was set: fewer than the concurrent requests. *)
LateGuessesBounded ==
  \A u \in Users : late[u] < Cardinality(Handlers)

(* Every refresh and logout comes to an end, although revocations and
   rotations of one session lock its rows in opposite order. *)
RequestsEnd ==
  \A h \in Handlers : pc[h] = "lookup" ~> pc[h] = "idle"

(* A refresh that is answered with ErrTokenReuse has burned the family. *)
ReuseBurnsFamily == caught \subseteq revoked
=============================================================================
