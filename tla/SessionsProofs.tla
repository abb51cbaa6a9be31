--------------------------- MODULE SessionsProofs ---------------------------
(***************************************************************************)
(* Proofs about Sessions, for any number of users, sessions and concurrent *)
(* requests.  What has to be carried through every step is who holds which *)
(* row lock at which point of a request, and what a request knows of the   *)
(* rows it has locked; for the lockout, how many requests that passed the  *)
(* lock have yet to be judged.                                             *)
(***************************************************************************)
EXTENDS Sessions, FiniteSetTheorems, TLAPS

TokenSteps == {"lookup", "refuse", "session", "mint", "revokeSession", "revokeTokens"}

TokenRequests == [op : {"refresh", "logout"}, session : AuthSessions, token : TokenIds]

(* A handler that is busy has a request of the kind its progress says. *)
RequestOK(h) ==
  /\ pc[h] \in {"verify", "issue"} =>
       req[h] \in [op : {"login"}, user : Users] /\ req[h].user \in known
  /\ pc[h] \in TokenSteps =>
       req[h] \in TokenRequests /\ req[h].token <= issued[req[h].session]

(* A refresh whose token is live finds room for its successor. *)
RoomOK(h) ==
  /\ pc[h] \in {"lookup", "session", "mint"}
  /\ req[h].op = "refresh"
  /\ req[h].token \notin used[req[h].session] \cup dead[req[h].session]
  => issued[req[h].session] < MaxTokens

(* A refresh that goes on holds its token's row, and the token is live. *)
HoldsToken(h) ==
  pc[h] \in {"session", "mint"} =>
    /\ req[h].op = "refresh"
    /\ tokenLock[req[h].session][req[h].token] = h
    /\ req[h].token \notin used[req[h].session] \cup dead[req[h].session]

(* A refresh that mints holds the session's row, and it is not revoked. *)
HoldsSession(h) ==
  pc[h] = "mint" =>
    sessionLock[req[h].session] = h /\ req[h].session \notin revoked

(* The snapshot of a revocation is exact while it waits for the tokens. *)
SnapshotExact(h) ==
  pc[h] = "revokeTokens" =>
    /\ seen[h] = issued[req[h].session]
    /\ req[h].session \in revoked \/ sessionLock[req[h].session] = h

(* All tokens but the newest are used, and a revoked session has tokens. *)
TokensOK ==
  \A s \in AuthSessions :
    /\ used[s] = 1 .. (issued[s] - 1)
    /\ dead[s] \subseteq 1 .. issued[s]
    /\ s \in revoked => issued[s] > 0

HandlerOK(h) ==
  RequestOK(h) /\ RoomOK(h) /\ HoldsToken(h) /\ HoldsSession(h) /\ SnapshotExact(h)

IInv ==
  /\ TypeOK /\ TokensOK /\ BurnedIsDead
  /\ \A h \in Handlers : HandlerOK(h)

(* What a step of another handler leaves to g. *)
Spared(g) ==
  /\ pc'[g] = pc[g] /\ req'[g] = req[g] /\ seen'[g] = seen[g]
  /\ \A s \in AuthSessions : sessionLock[s] = g => sessionLock'[s] = g
  /\ \A s \in AuthSessions, t \in TokenIds : tokenLock[s][t] = g => tokenLock'[s][t] = g

-----------------------------------------------------------------------------
(* Facts used for every action. *)

(* EndTx answers h's request, releases its locks and spares the others. *)
LEMMA EndTxEffect ==
  ASSUME TypeOK, NEW h \in Handlers, EndTx(h)
  PROVE  /\ pc' \in [Handlers -> {"idle", "verify", "issue", "lookup", "refuse",
                       "session", "mint", "revokeSession", "revokeTokens"}]
         /\ req' \in [Handlers -> Requests \cup {None}]
         /\ seen' \in [Handlers -> 0 .. MaxTokens]
         /\ tokenLock' \in [AuthSessions -> [TokenIds -> Handlers \cup {None}]]
         /\ sessionLock' \in [AuthSessions -> Handlers \cup {None}]
         /\ pc'[h] = "idle"
         /\ \A g \in Handlers \ {h} : Spared(g)
<1>1. pc'[h] = "idle" BY DEF TypeOK, EndTx, Goto
<1>2. pc' \in [Handlers -> {"idle", "verify", "issue", "lookup", "refuse",
                 "session", "mint", "revokeSession", "revokeTokens"}]
  BY DEF TypeOK, EndTx, Goto
<1>3. req' \in [Handlers -> Requests \cup {None}]
  BY DEF TypeOK, EndTx
<1>4. seen' \in [Handlers -> 0 .. MaxTokens]
  BY SessionsAssumption DEF TypeOK, EndTx
<1>5. tokenLock' \in [AuthSessions -> [TokenIds -> Handlers \cup {None}]]
  BY DEF TypeOK, EndTx
<1>6. sessionLock' \in [AuthSessions -> Handlers \cup {None}]
  BY DEF TypeOK, EndTx
<1>7. ASSUME NEW g \in Handlers \ {h} PROVE Spared(g)
  BY <1>7, SessionsAssumption DEF TypeOK, EndTx, Goto, Spared
<1> QED BY <1>1, <1>2, <1>3, <1>4, <1>5, <1>6, <1>7

(* A handler that is spared keeps its facts while no token, session or user
   changes. *)
LEMMA SparedHandler ==
  ASSUME IInv, NEW g \in Handlers, Spared(g), known \subseteq known',
         issued' = issued, used' = used, dead' = dead, revoked' = revoked
  PROVE  HandlerOK(g)'
<1>1. RequestOK(g)'
  BY DEF IInv, HandlerOK, RequestOK, Spared
<1>2. RoomOK(g)'
  BY DEF IInv, HandlerOK, RoomOK, Spared
<1>3. HoldsToken(g)'
  <2>1. pc[g] \in {"session", "mint"} =>
          req[g].session \in AuthSessions /\ req[g].token \in TokenIds
    BY DEF IInv, HandlerOK, RequestOK, TokenRequests, TokenSteps
  <2> QED BY <2>1 DEF IInv, HandlerOK, HoldsToken, Spared
<1>4. pc[g] \in {"mint", "revokeTokens"} => req[g].session \in AuthSessions
  BY DEF IInv, HandlerOK, RequestOK, TokenRequests, TokenSteps
<1>5. HoldsSession(g)' BY <1>4 DEF IInv, HandlerOK, HoldsSession, Spared
<1>6. SnapshotExact(g)' BY <1>4 DEF IInv, HandlerOK, SnapshotExact, Spared
<1> QED BY <1>1, <1>2, <1>3, <1>5, <1>6 DEF HandlerOK

(* An idle handler has nothing to show. *)
LEMMA IdleHandler ==
  ASSUME NEW g \in Handlers, pc'[g] = "idle"
  PROVE  HandlerOK(g)'
BY DEF HandlerOK, RequestOK, RoomOK, HoldsToken, HoldsSession, SnapshotExact, TokenSteps

(* A step that ends h's transaction and changes accounts only. *)
LEMMA EndTxStep ==
  ASSUME IInv, NEW h \in Handlers, EndTx(h), known' = known,
         locked' \subseteq known, failed' \in [Users -> Nat], late' \in [Users -> Nat],
         UNCHANGED <<issued, used, dead, revoked, burned>>, caught' \subseteq AuthSessions
  PROVE  IInv'
<1> USE EndTxEffect DEF IInv
<1>1. TypeOK' BY DEF TypeOK
<1>2. TokensOK' /\ BurnedIsDead' BY DEF TokensOK, BurnedIsDead
<1>3. ASSUME NEW g \in Handlers PROVE HandlerOK(g)'
  BY <1>3, SparedHandler, IdleHandler
<1> QED BY <1>1, <1>2, <1>3

(* A step that moves h within its request and may take a lock. *)
LEMMA MoveStep ==
  ASSUME IInv, NEW h \in Handlers, TypeOK', HandlerOK(h)',
         \A g \in Handlers \ {h} : Spared(g), known' = known,
         UNCHANGED <<issued, used, dead, revoked, burned>>
  PROVE  IInv'
<1> USE DEF IInv
<1>1. TokensOK' /\ BurnedIsDead' BY DEF TokensOK, BurnedIsDead
<1>2. ASSUME NEW g \in Handlers PROVE HandlerOK(g)'
  BY <1>2, SparedHandler
<1> QED BY <1>1, <1>2

-----------------------------------------------------------------------------
(* The initial states and the actions, one lemma each. *)

LEMMA InitOK == Init => IInv
<1> SUFFICES ASSUME Init PROVE IInv OBVIOUS
<1> USE SessionsAssumption DEF Init
<1>1. TypeOK BY DEF TypeOK
<1>2. TokensOK /\ BurnedIsDead BY DEF TokensOK, BurnedIsDead
<1>3. ASSUME NEW h \in Handlers PROVE HandlerOK(h)
  BY <1>3 DEF HandlerOK, RequestOK, RoomOK, HoldsToken, HoldsSession, SnapshotExact,
             TokenSteps
<1> QED BY <1>1, <1>2, <1>3 DEF IInv

LEMMA LoginReadOK ==
  ASSUME IInv, NEW h \in Handlers, NEW u \in Users, LoginRead(h, u)
  PROVE  IInv'
<1> USE DEF LoginRead, Goto, accounts, tokens, locks
<1>1. TypeOK' BY DEF IInv, TypeOK, Requests
<1>2. \A g \in Handlers \ {h} : Spared(g) BY DEF IInv, TypeOK, Spared
<1>3. HandlerOK(h)'
  BY DEF IInv, TypeOK, HandlerOK, RequestOK, RoomOK, HoldsToken, HoldsSession,
         SnapshotExact, TokenSteps
<1> QED BY <1>1, <1>2, <1>3, MoveStep

LEMMA RecordLoginFailureOK ==
  ASSUME IInv, NEW h \in Handlers, RecordLoginFailure(h)
  PROVE  IInv'
<1>1. req[h].user \in Users /\ req[h].user \in known
  BY DEF IInv, HandlerOK, RequestOK, RecordLoginFailure
<1>2. locked' \subseteq known /\ failed' \in [Users -> Nat] /\ late' \in [Users -> Nat]
  BY <1>1 DEF IInv, TypeOK, RecordLoginFailure
<1> QED BY <1>2, EndTxStep DEF IInv, TypeOK, RecordLoginFailure, tokens

LEMMA RecordLoginSuccessOK ==
  ASSUME IInv, NEW h \in Handlers, RecordLoginSuccess(h)
  PROVE  IInv'
<1> USE DEF RecordLoginSuccess, Goto, tokens, locks
<1>1. req[h] \in [op : {"login"}, user : Users] /\ req[h].user \in known
  BY DEF IInv, HandlerOK, RequestOK
<1>2. TypeOK'
  <2>1. locked' \subseteq known /\ failed' \in [Users -> Nat] /\ late' \in [Users -> Nat]
    BY <1>1 DEF IInv, TypeOK
  <2> QED BY <2>1 DEF IInv, TypeOK
<1>3. \A g \in Handlers \ {h} : Spared(g) BY DEF IInv, TypeOK, Spared
<1>4. HandlerOK(h)'
  BY <1>1 DEF IInv, TypeOK, HandlerOK, RequestOK, RoomOK, HoldsToken, HoldsSession,
             SnapshotExact, TokenSteps
<1> QED BY <1>2, <1>3, <1>4, MoveStep

LEMMA LockExpiresOK ==
  ASSUME IInv, NEW u \in Users, LockExpires(u)
  PROVE  IInv'
<1> USE DEF LockExpires, tokens, locks
<1>1. TypeOK' BY DEF IInv, TypeOK
<1>2. TokensOK' /\ BurnedIsDead' BY DEF IInv, TokensOK, BurnedIsDead
<1>3. ASSUME NEW g \in Handlers PROVE HandlerOK(g)'
  BY <1>3, SparedHandler DEF Spared
<1> QED BY <1>1, <1>2, <1>3 DEF IInv

LEMMA ReceiveOK ==
  ASSUME IInv, NEW h \in Handlers, NEW op \in {"refresh", "logout"},
         NEW s \in AuthSessions, NEW t \in TokenIds, Receive(h, op, s, t)
  PROVE  IInv'
<1> USE DEF Receive, Goto, accounts, tokens, locks
<1>1. [op |-> op, session |-> s, token |-> t] \in TokenRequests BY DEF TokenRequests
<1>2. TypeOK' BY <1>1 DEF IInv, TypeOK, Requests, TokenRequests
<1>3. \A g \in Handlers \ {h} : Spared(g) BY DEF IInv, TypeOK, Spared
<1>4. pc'[h] = "lookup" /\ req'[h] = [op |-> op, session |-> s, token |-> t]
  BY DEF IInv, TypeOK
<1>5. t <= issued[s] /\ (op = "refresh" => issued[s] < MaxTokens \/ t \in used[s] \cup dead[s])
  BY DEF IInv, TypeOK
<1>6. HandlerOK(h)'
  BY <1>1, <1>4, <1>5 DEF HandlerOK, RequestOK, RoomOK, HoldsToken, HoldsSession,
     SnapshotExact, TokenSteps
<1> QED BY <1>2, <1>3, <1>6, MoveStep

LEMMA LookupRefreshTokenOK ==
  ASSUME IInv, NEW h \in Handlers, LookupRefreshToken(h)
  PROVE  IInv'
<1> USE DEF LookupRefreshToken, Goto, accounts, tokens
<1> DEFINE s == req[h].session
           t == req[h].token
<1>1. req[h] \in TokenRequests /\ t <= issued[s]
  BY DEF IInv, HandlerOK, RequestOK, TokenSteps
<1>2. s \in AuthSessions /\ t \in TokenIds /\ req[h].op \in {"refresh", "logout"}
  BY <1>1 DEF TokenRequests
<1>3. PICK l \in AfterLookup(h) : pc' = [pc EXCEPT ![h] = l]
  OBVIOUS
<1>4. /\ l \in {"refuse", "session", "revokeSession"}
      /\ l = "session" => req[h].op = "refresh" /\ t \notin used[s] \cup dead[s]
  BY <1>2, <1>3 DEF AfterLookup
<1>5. TypeOK' BY <1>2, <1>3, <1>4 DEF IInv, TypeOK
<1>6. \A g \in Handlers \ {h} : Spared(g)
  BY <1>2, <1>3, SessionsAssumption DEF IInv, TypeOK, Spared
<1>7. pc'[h] = l /\ req'[h] = req[h] /\ tokenLock'[s][t] = h
  BY <1>2, <1>3 DEF IInv, TypeOK
<1>8. RequestOK(h)'
  BY <1>1, <1>4, <1>7 DEF RequestOK, TokenSteps
<1>9. RoomOK(h)' /\ HoldsToken(h)'
  BY <1>4, <1>7 DEF IInv, HandlerOK, RoomOK, HoldsToken
<1>10. HoldsSession(h)' /\ SnapshotExact(h)'
  BY <1>4, <1>7 DEF HoldsSession, SnapshotExact
<1> QED BY <1>5, <1>6, <1>8, <1>9, <1>10, MoveStep DEF HandlerOK

LEMMA SessionRevokedForUpdateOK ==
  ASSUME IInv, NEW h \in Handlers, SessionRevokedForUpdate(h)
  PROVE  IInv'
<1> USE DEF SessionRevokedForUpdate, Goto, accounts, tokens
<1> DEFINE s == req[h].session
           t == req[h].token
<1>1. req[h] \in TokenRequests /\ t <= issued[s]
  BY DEF IInv, HandlerOK, RequestOK, TokenSteps
<1>2. s \in AuthSessions /\ t \in TokenIds
  BY <1>1 DEF TokenRequests
<1>3. TypeOK' BY <1>2 DEF IInv, TypeOK
<1>4. \A g \in Handlers \ {h} : Spared(g)
  BY <1>2, SessionsAssumption DEF IInv, TypeOK, Spared
<1>5. /\ pc'[h] \in {"refuse", "mint"} /\ req'[h] = req[h] /\ sessionLock'[s] = h
      /\ pc'[h] = "mint" => s \notin revoked
  BY <1>2 DEF IInv, TypeOK
<1>6. RequestOK(h)' BY <1>1, <1>5 DEF RequestOK, TokenSteps
<1>7. RoomOK(h)' /\ HoldsToken(h)'
  BY <1>5 DEF IInv, HandlerOK, RoomOK, HoldsToken
<1>8. HoldsSession(h)' /\ SnapshotExact(h)'
  BY <1>5 DEF HoldsSession, SnapshotExact
<1> QED BY <1>3, <1>4, <1>6, <1>7, <1>8, MoveStep DEF HandlerOK

LEMMA RevokeSessionRowOK ==
  ASSUME IInv, NEW h \in Handlers, RevokeSessionRow(h)
  PROVE  IInv'
<1> USE DEF RevokeSessionRow, Goto, accounts, tokens
<1> DEFINE s == req[h].session
           t == req[h].token
<1>1. req[h] \in TokenRequests /\ t <= issued[s]
  BY DEF IInv, HandlerOK, RequestOK, TokenSteps
<1>2. s \in AuthSessions /\ t \in TokenIds
  BY <1>1 DEF TokenRequests
<1>3. TypeOK' BY <1>2 DEF IInv, TypeOK
<1>4. \A g \in Handlers \ {h} : Spared(g)
  BY <1>2, SessionsAssumption DEF IInv, TypeOK, Spared
<1>5. /\ pc'[h] = "revokeTokens" /\ req'[h] = req[h] /\ seen'[h] = issued[s]
      /\ s \in revoked \/ sessionLock'[s] = h
  BY <1>2 DEF IInv, TypeOK
<1>6. HandlerOK(h)'
  BY <1>1, <1>5 DEF HandlerOK, RequestOK, RoomOK, HoldsToken, HoldsSession,
     SnapshotExact, TokenSteps
<1> QED BY <1>3, <1>4, <1>6, MoveStep

LEMMA RefuseOK ==
  ASSUME IInv, NEW h \in Handlers, Refuse(h)
  PROVE  IInv'
BY EndTxStep DEF IInv, TypeOK, Refuse, accounts, tokens

LEMMA RollbackOK ==
  ASSUME IInv, NEW h \in Handlers, Rollback(h)
  PROVE  IInv'
BY EndTxStep DEF IInv, TypeOK, Rollback, accounts, tokens

LEMMA DeadlockOK ==
  ASSUME IInv, NEW h \in Handlers, Deadlock(h)
  PROVE  IInv'
<1>1. PICK g \in Handlers : WaitsFor(h, g) BY DEF Deadlock
<1>2. pc[h] \in TokenSteps BY <1>1 DEF WaitsFor, TokenSteps
<1>3. req[h].session \in AuthSessions
  BY <1>2 DEF IInv, HandlerOK, RequestOK, TokenRequests
<1>4. caught' \subseteq AuthSessions BY <1>3 DEF IInv, TypeOK, Deadlock
<1> QED BY <1>4, EndTxStep DEF IInv, TypeOK, Deadlock, accounts

(* A new session has one token and none of the handlers has to do with it. *)
LEMMA IssueSession ==
  ASSUME IInv, NEW s \in AuthSessions, issueSession(s)
  PROVE  /\ issued' \in [AuthSessions -> 0 .. MaxTokens]
         /\ TokensOK' /\ BurnedIsDead'
         /\ \A g \in Handlers : Spared(g) /\ known \subseteq known' => HandlerOK(g)'
<1> USE SessionsAssumption DEF issueSession
<1>1. issued' \in [AuthSessions -> 0 .. MaxTokens] BY DEF IInv, TypeOK
<1>2. TokensOK'
  <2> SUFFICES ASSUME NEW r \in AuthSessions
               PROVE  /\ used[r] = 1 .. (issued'[r] - 1)
                      /\ dead[r] \subseteq 1 .. issued'[r]
                      /\ r \in revoked => issued'[r] > 0
    BY DEF TokensOK
  <2> QED BY DEF IInv, TypeOK, TokensOK
<1>3. BurnedIsDead'
  BY DEF IInv, TypeOK, TokensOK, BurnedIsDead
<1>4. ASSUME NEW g \in Handlers, Spared(g), known \subseteq known'
      PROVE  HandlerOK(g)'
  <2>1. pc[g] \in TokenSteps =>
          /\ req[g] \in TokenRequests /\ req[g].session \in AuthSessions
          /\ req[g].token \in TokenIds /\ req[g].token <= issued[req[g].session]
    BY DEF IInv, HandlerOK, RequestOK, TokenRequests
  <2>2. pc[g] \in TokenSteps => issued'[req[g].session] = issued[req[g].session]
    BY <2>1 DEF IInv, TypeOK, TokenIds
  <2>3. RequestOK(g)' BY <1>4, <2>1, <2>2 DEF IInv, HandlerOK, RequestOK, Spared
  <2>4. RoomOK(g)' BY <1>4, <2>2 DEF IInv, HandlerOK, RoomOK, Spared, TokenSteps
  <2>5. HoldsToken(g)'
    BY <1>4, <2>1 DEF IInv, HandlerOK, HoldsToken, Spared, TokenSteps
  <2>6. HoldsSession(g)' /\ SnapshotExact(g)'
    BY <1>4, <2>1, <2>2 DEF IInv, HandlerOK, HoldsSession, SnapshotExact, Spared,
       TokenSteps
  <2> QED BY <2>3, <2>4, <2>5, <2>6 DEF HandlerOK
<1> QED BY <1>1, <1>2, <1>3, <1>4

LEMMA RegisterOK ==
  ASSUME IInv, NEW u \in Users, NEW s \in AuthSessions, Register(u, s)
  PROVE  IInv'
<1> USE DEF Register, locks
<1>1. issueSession(s) OBVIOUS
<1>2. TypeOK' BY <1>1, IssueSession DEF IInv, TypeOK, issueSession
<1>3. ASSUME NEW g \in Handlers PROVE Spared(g) /\ known \subseteq known'
  BY <1>3 DEF Spared
<1> QED BY <1>1, <1>2, <1>3, IssueSession DEF IInv

LEMMA LoginOK ==
  ASSUME IInv, NEW h \in Handlers, NEW s \in AuthSessions, Login(h, s)
  PROVE  IInv'
<1>1. issueSession(s) /\ EndTx(h) /\ UNCHANGED accounts BY DEF Login
<1>2. TypeOK'
  BY <1>1, IssueSession, EndTxEffect DEF IInv, TypeOK, issueSession, accounts
<1>3. ASSUME NEW g \in Handlers PROVE HandlerOK(g)'
  <2>1. CASE g = h BY <1>1, <2>1, EndTxEffect, IdleHandler DEF IInv
  <2>2. CASE g # h
    <3>1. Spared(g) /\ known \subseteq known'
      BY <1>1, <2>2, EndTxEffect DEF IInv, accounts
    <3> QED BY <1>1, <3>1, IssueSession
  <2> QED BY <2>1, <2>2
<1> QED BY <1>1, <1>2, <1>3, IssueSession DEF IInv

LEMMA RevokeSessionOK ==
  ASSUME IInv, NEW s \in AuthSessions, RevokeSession(s)
  PROVE  IInv'
<1> USE DEF RevokeSession, accounts, locks
<1>1. TypeOK' BY DEF IInv, TypeOK
<1>2. TokensOK' /\ BurnedIsDead' BY DEF IInv, TypeOK, TokensOK, BurnedIsDead
<1>3. ASSUME NEW g \in Handlers PROVE HandlerOK(g)'
  <2>1. RequestOK(g)' BY DEF IInv, HandlerOK, RequestOK
  <2>2. RoomOK(g)' /\ HoldsToken(g)' BY DEF IInv, HandlerOK, RoomOK, HoldsToken
  <2>3. HoldsSession(g)'
    BY SessionsAssumption DEF IInv, HandlerOK, HoldsSession
  <2>4. SnapshotExact(g)' BY DEF IInv, HandlerOK, SnapshotExact
  <2> QED BY <2>1, <2>2, <2>3, <2>4 DEF HandlerOK
<1> QED BY <1>1, <1>2, <1>3 DEF IInv

(* A rotation: h holds the rows of the newest token and of the session, which
   is not revoked, so that no revocation has its snapshot yet. *)
LEMMA RefreshOK ==
  ASSUME IInv, NEW h \in Handlers, Refresh(h)
  PROVE  IInv'
<1> DEFINE s == req[h].session
           t == req[h].token
<1>1. pc[h] = "mint" /\ EndTx(h) /\ UNCHANGED accounts
  BY DEF Refresh
<1>2. /\ issued' = [issued EXCEPT ![s] = @ + 1]
      /\ used' = [used EXCEPT ![s] = @ \cup {t}]
      /\ UNCHANGED <<dead, revoked, burned, caught>>
  BY DEF Refresh
<1>3. s \in AuthSessions /\ t \in TokenIds /\ t <= issued[s] /\ req[h].op = "refresh"
  BY <1>1 DEF IInv, HandlerOK, RequestOK, TokenRequests, TokenSteps, HoldsToken
<1>4. /\ tokenLock[s][t] = h /\ sessionLock[s] = h /\ s \notin revoked
      /\ t \notin used[s] \cup dead[s] /\ issued[s] < MaxTokens
  BY <1>1 DEF IInv, HandlerOK, RoomOK, HoldsToken, HoldsSession
<1>5. issued[s] \in Nat /\ used[s] = 1 .. (issued[s] - 1)
  BY <1>3, SessionsAssumption DEF IInv, TypeOK, TokensOK
<1>6. t = issued[s]
  BY <1>3, <1>4, <1>5 DEF TokenIds
<1>7. TypeOK'
  <2>1. issued' \in [AuthSessions -> 0 .. MaxTokens]
    BY <1>2, <1>3, <1>4, <1>5, SessionsAssumption DEF IInv, TypeOK
  <2>2. used' \in [AuthSessions -> SUBSET TokenIds]
    BY <1>2, <1>3 DEF IInv, TypeOK
  <2> QED BY <1>1, <1>2, <2>1, <2>2, EndTxEffect DEF IInv, TypeOK, accounts
<1>8. TokensOK'
  <2> SUFFICES ASSUME NEW r \in AuthSessions
               PROVE  /\ used'[r] = 1 .. (issued'[r] - 1)
                      /\ dead[r] \subseteq 1 .. issued'[r]
                      /\ r \in revoked => issued'[r] > 0
    BY <1>2 DEF TokensOK
  <2>1. CASE r = s
    <3>1. issued'[s] = issued[s] + 1 /\ used'[s] = used[s] \cup {issued[s]}
      BY <1>2, <1>3, <1>6 DEF IInv, TypeOK
    <3>2. dead[s] \subseteq 1 .. issued[s] BY <1>3 DEF IInv, TokensOK
    <3> QED BY <1>3, <1>5, <1>6, <2>1, <3>1, <3>2 DEF TokenIds
  <2>2. CASE r # s
    BY <1>2, <1>3, <2>2 DEF IInv, TypeOK, TokensOK
  <2> QED BY <2>1, <2>2
<1>9. BurnedIsDead'
  BY <1>2, <1>3, <1>4 DEF IInv, TypeOK, BurnedIsDead
<1>10. ASSUME NEW g \in Handlers PROVE HandlerOK(g)'
  <2>1. CASE g = h BY <1>1, <2>1, EndTxEffect, IdleHandler DEF IInv
  <2>2. CASE g # h
    <3> DEFINE r == req[g].session
               q == req[g].token
    <3>1. Spared(g) /\ known' = known
      BY <1>1, <2>2, EndTxEffect DEF IInv, accounts
    <3>2. pc[g] \in TokenSteps =>
            /\ req[g] \in TokenRequests /\ r \in AuthSessions
            /\ q \in TokenIds /\ q <= issued[r]
      BY DEF IInv, HandlerOK, RequestOK, TokenRequests
    <3>3. pc[g] \in TokenSteps => issued'[r] >= issued[r] /\ (r # s => issued'[r] = issued[r])
      BY <1>2, <1>3, <3>2, SessionsAssumption DEF IInv, TypeOK
    <3>4. pc[g] \in TokenSteps => used'[r] = IF r = s THEN used[s] \cup {t} ELSE used[r]
      BY <1>2, <1>3, <3>2 DEF IInv, TypeOK
    <3>5. RequestOK(g)'
      <4>1. pc[g] \in TokenSteps => q <= issued'[r]
        BY <3>2, <3>3, <1>7, SessionsAssumption DEF IInv, TypeOK, TokenIds
      <4> QED BY <3>1, <3>2, <4>1 DEF IInv, HandlerOK, RequestOK, Spared
    <3>6. RoomOK(g)'
      <4>1. pc[g] \in TokenSteps /\ r = s => q \in used'[r]
        BY <1>3, <1>5, <1>6, <3>2, <3>4 DEF TokenIds
      <4> QED BY <1>2, <3>1, <3>3, <3>4, <4>1 DEF IInv, HandlerOK, RoomOK, Spared, TokenSteps
    <3>7. HoldsToken(g)'
      <4>1. pc[g] \in {"session", "mint"} => r # s
        BY <1>3, <1>4, <1>5, <1>6, <2>2, <3>2
           DEF IInv, HandlerOK, HoldsToken, TokenSteps, TokenIds
      <4> QED BY <1>2, <3>1, <3>2, <3>4, <4>1
              DEF IInv, HandlerOK, HoldsToken, Spared, TokenSteps
    <3>8. HoldsSession(g)'
      BY <1>2, <3>1, <3>2 DEF IInv, HandlerOK, HoldsSession, Spared, TokenSteps
    <3>9. SnapshotExact(g)'
      <4>1. pc[g] = "revokeTokens" => r # s
        BY <1>4, <2>2 DEF IInv, HandlerOK, SnapshotExact
      <4> QED BY <1>2, <3>1, <3>2, <3>3, <4>1
              DEF IInv, HandlerOK, SnapshotExact, Spared, TokenSteps
    <3> QED BY <3>5, <3>6, <3>7, <3>8, <3>9 DEF HandlerOK
  <2> QED BY <2>1, <2>2
<1> QED BY <1>7, <1>8, <1>9, <1>10 DEF IInv

(* A revocation: nobody else holds a live token of the session, so that no
   refresh of it goes on. *)
LEMMA RevokeFamilyOK ==
  ASSUME IInv, NEW h \in Handlers, RevokeFamily(h)
  PROVE  IInv'
<1> DEFINE s == req[h].session
<1>1. pc[h] = "revokeTokens" /\ HeldTokens(h) = {} /\ EndTx(h)
  BY DEF RevokeFamily
<1>2. /\ dead' = [dead EXCEPT ![s] = @ \cup (1 .. seen[h])]
      /\ revoked' = revoked \cup {s} /\ burned' = burned \cup {s}
      /\ caught' \subseteq caught \cup {s}
      /\ UNCHANGED <<accounts, issued, used>>
  BY DEF RevokeFamily
<1>3. /\ s \in AuthSessions /\ req[h].token \in TokenIds /\ req[h].token <= issued[s]
      /\ seen[h] = issued[s]
  BY <1>1 DEF IInv, HandlerOK, RequestOK, TokenRequests, TokenSteps, SnapshotExact
<1>4. issued[s] \in Nat /\ issued[s] > 0 /\ issued[s] <= MaxTokens
      /\ dead[s] \subseteq 1 .. issued[s]
  BY <1>3, SessionsAssumption DEF IInv, TypeOK, TokensOK, TokenIds
<1>5. dead'[s] = 1 .. issued[s] /\ \A r \in AuthSessions \ {s} : dead'[r] = dead[r]
  BY <1>2, <1>3, <1>4 DEF IInv, TypeOK
<1>6. TypeOK'
  <2>1. dead' \in [AuthSessions -> SUBSET TokenIds]
    <3>1. 1 .. seen[h] \subseteq TokenIds
      BY <1>3, <1>4, SessionsAssumption DEF TokenIds
    <3> QED BY <1>2, <1>3, <3>1 DEF IInv, TypeOK
  <2> QED BY <1>1, <1>2, <1>3, <2>1, EndTxEffect DEF IInv, TypeOK, accounts
<1>7. TokensOK'
  BY <1>2, <1>4, <1>5 DEF IInv, TokensOK
<1>8. BurnedIsDead'
  BY <1>2, <1>3, <1>5 DEF IInv, TypeOK, BurnedIsDead
<1>9. ASSUME NEW g \in Handlers PROVE HandlerOK(g)'
  <2>1. CASE g = h BY <1>1, <2>1, EndTxEffect, IdleHandler DEF IInv
  <2>2. CASE g # h
    <3> DEFINE r == req[g].session
               q == req[g].token
    <3>1. Spared(g) /\ known' = known
      BY <1>1, <1>2, <2>2, EndTxEffect DEF IInv, accounts
    <3>2. pc[g] \in TokenSteps =>
            /\ req[g] \in TokenRequests /\ r \in AuthSessions
            /\ q \in TokenIds /\ q <= issued[r]
      BY DEF IInv, HandlerOK, RequestOK, TokenRequests
    <3>3. pc[g] \in {"session", "mint"} => r # s
      <4> SUFFICES ASSUME pc[g] \in {"session", "mint"}, r = s PROVE FALSE OBVIOUS
      <4>1. q \in 1 .. seen[h] BY <1>3, <3>2 DEF TokenSteps, TokenIds
      <4>2. tokenLock[s][q] = g /\ q \notin dead[s]
        BY DEF IInv, HandlerOK, HoldsToken
      <4>3. g \notin {h, None} BY <2>2, SessionsAssumption
      <4> QED BY <1>1, <4>1, <4>2, <4>3 DEF HeldTokens
    <3>4. RequestOK(g)' BY <1>2, <3>1, <3>2 DEF IInv, HandlerOK, RequestOK, Spared
    <3>5. RoomOK(g)'
      BY <1>2, <1>5, <3>1, <3>2, <1>4 DEF IInv, HandlerOK, RoomOK, Spared, TokenSteps, TokenIds
    <3>6. HoldsToken(g)'
      BY <1>2, <1>5, <3>1, <3>2, <3>3 DEF IInv, HandlerOK, HoldsToken, Spared, TokenSteps
    <3>7. HoldsSession(g)'
      BY <1>2, <3>1, <3>2, <3>3 DEF IInv, HandlerOK, HoldsSession, Spared, TokenSteps
    <3>8. SnapshotExact(g)'
      BY <1>2, <3>1, <3>2 DEF IInv, HandlerOK, SnapshotExact, Spared, TokenSteps
    <3> QED BY <3>4, <3>5, <3>6, <3>7, <3>8 DEF HandlerOK
  <2> QED BY <2>1, <2>2
<1> QED BY <1>6, <1>7, <1>8, <1>9 DEF IInv

-----------------------------------------------------------------------------
(* The theorems. *)

(* Every step of the service preserves the inductive invariant. *)
LEMMA NextOK == IInv /\ [Next]_vars => IInv'
<1> SUFFICES ASSUME IInv, [Next]_vars PROVE IInv' OBVIOUS
<1>1. ASSUME NEW h \in Handlers, NEW u \in Users, LoginRead(h, u) PROVE IInv'
  BY <1>1, LoginReadOK
<1>2. ASSUME NEW h \in Handlers, RecordLoginFailure(h) \/ RecordLoginSuccess(h)
      PROVE  IInv'
  BY <1>2, RecordLoginFailureOK, RecordLoginSuccessOK
<1>3. ASSUME NEW h \in Handlers, NEW s \in AuthSessions, Login(h, s) PROVE IInv'
  BY <1>3, LoginOK
<1>4. ASSUME NEW h \in Handlers, NEW op \in {"refresh", "logout"},
             NEW s \in AuthSessions, NEW t \in TokenIds, Receive(h, op, s, t)
      PROVE  IInv'
  BY <1>4, ReceiveOK
<1>5. ASSUME NEW h \in Handlers, Step(h) PROVE IInv'
  BY <1>5, LookupRefreshTokenOK, RefuseOK, SessionRevokedForUpdateOK, RefreshOK,
     RevokeSessionRowOK, RevokeFamilyOK, DeadlockOK DEF Step
<1>6. ASSUME NEW h \in Handlers, Rollback(h) PROVE IInv'
  BY <1>6, RollbackOK
<1>7. ASSUME NEW u \in Users, LockExpires(u) PROVE IInv'
  BY <1>7, LockExpiresOK
<1>8. ASSUME NEW u \in Users, NEW s \in AuthSessions, Register(u, s) PROVE IInv'
  BY <1>8, RegisterOK
<1>9. ASSUME NEW s \in AuthSessions, RevokeSession(s) PROVE IInv'
  BY <1>9, RevokeSessionOK
<1>10. ASSUME UNCHANGED vars PROVE IInv'
  <2> USE <1>10 DEF vars, accounts, tokens, locks
  <2>1. TypeOK' /\ TokensOK' /\ BurnedIsDead'
    BY DEF IInv, TypeOK, TokensOK, BurnedIsDead
  <2>2. ASSUME NEW g \in Handlers PROVE HandlerOK(g)'
    BY <2>2, SparedHandler DEF Spared
  <2> QED BY <2>1, <2>2 DEF IInv
<1> QED BY <1>1, <1>2, <1>3, <1>4, <1>5, <1>6, <1>7, <1>8, <1>9, <1>10 DEF Next

LEMMA Invariant == Spec => []IInv
<1>1. Init => IInv BY InitOK
<1>2. IInv /\ [Next]_vars => IInv' BY NextOK
<1> QED BY <1>1, <1>2, PTL DEF Spec

(* Accounts, sessions, tokens and locks keep their types; in particular a
   session never has more tokens than its requests allowed for. *)
THEOREM TypeCorrect == Spec => []TypeOK
<1>1. IInv => TypeOK BY DEF IInv
<1> QED BY <1>1, Invariant, PTL

(* Once a session was revoked together with its tokens, by a reuse or by a
   logout, it has no live token, whatever rotations were under way. *)
THEOREM BurnedStaysDead == Spec => []BurnedIsDead
<1>1. IInv => BurnedIsDead BY DEF IInv
<1> QED BY <1>1, Invariant, PTL

(* Rotations, also concurrent ones of one token, leave a session at most one
   token that is neither used nor revoked. *)
THEOREM OneLiveTokenPerSession == Spec => []OneLiveToken
<1>1. IInv => OneLiveToken
  <2> SUFFICES ASSUME IInv, NEW s \in AuthSessions
               PROVE  Cardinality((1 .. issued[s]) \ (used[s] \cup dead[s])) <= 1
    BY DEF OneLiveToken
  <2> DEFINE L == (1 .. issued[s]) \ (used[s] \cup dead[s])
  <2>1. issued[s] \in Nat /\ used[s] = 1 .. (issued[s] - 1)
    BY SessionsAssumption DEF IInv, TypeOK, TokensOK
  <2>2. L = {} \/ L = {issued[s]}
    BY <2>1
  <2> HIDE DEF L
  <2>3. Cardinality(L) \in {0, 1}
    <3>1. CASE L = {} BY <3>1, FS_EmptySet, Zenon
    <3>2. CASE L = {issued[s]}
      <4>1. Cardinality({issued[s]}) = 1 BY FS_Singleton, Zenon
      <4> QED BY <3>2, <4>1, Zenon
    <3> QED BY <2>2, <3>1, <3>2
  <2> QED BY <2>3 DEF L
<1> QED BY <1>1, Invariant, PTL

(* No step mints a token for a session that is revoked when it is taken: the
   row lock that the revocation and the rotation both take orders them. *)
THEOREM NoMintAfterRevocation == Spec => NoMintOnRevoked
<1> DEFINE Quiet == \A s \in revoked : issued'[s] = issued[s]
<1>1. IInv /\ [Next]_vars => [Quiet]_vars
  <2> SUFFICES ASSUME IInv, Next, NEW s \in revoked PROVE issued'[s] = issued[s]
    OBVIOUS
  <2>1. s \in AuthSessions /\ issued[s] > 0
    BY DEF IInv, TypeOK, TokensOK
  <2>2. ASSUME NEW r \in AuthSessions, issueSession(r) PROVE issued'[s] = issued[s]
    BY <2>1, <2>2 DEF IInv, TypeOK, issueSession
  <2>3. ASSUME NEW h \in Handlers, Refresh(h) PROVE issued'[s] = issued[s]
    <3>1. req[h].session \notin revoked
      BY <2>3 DEF IInv, HandlerOK, HoldsSession, Refresh
    <3> QED BY <2>1, <2>3, <3>1 DEF IInv, TypeOK, Refresh
  <2>4. ASSUME NEW h \in Handlers, Step(h), ~Refresh(h) PROVE issued' = issued
    BY <2>4 DEF Step, LookupRefreshToken, Refuse, SessionRevokedForUpdate,
       RevokeSessionRow, RevokeFamily, Deadlock, tokens
  <2>5. ASSUME NEW h \in Handlers,
               \/ \E u \in Users : LoginRead(h, u)
               \/ RecordLoginFailure(h) \/ RecordLoginSuccess(h) \/ Rollback(h)
               \/ \E op \in {"refresh", "logout"}, r \in AuthSessions, t \in TokenIds :
                    Receive(h, op, r, t)
        PROVE  issued' = issued
    BY <2>5 DEF LoginRead, RecordLoginFailure, RecordLoginSuccess, Rollback, Receive,
       tokens
  <2>6. ASSUME \/ \E u \in Users : LockExpires(u)
               \/ \E r \in AuthSessions : RevokeSession(r)
        PROVE  issued' = issued
    BY <2>6 DEF LockExpires, RevokeSession, tokens
  <2> QED BY <2>2, <2>3, <2>4, <2>5, <2>6 DEF Next, Login, Register
<1> QED BY <1>1, Invariant, PTL DEF Spec, NoMintOnRevoked

-----------------------------------------------------------------------------
(* Guesses judged under a lock.  The requests that will still be judged are
   those that passed the lock and verify the password now. *)

Verifying(u) == {h \in Handlers : pc[h] = "verify" /\ req[h].user = u}

(* While a user is locked, the guesses judged so far and those still to come
   were all in flight beside the one that set the lock. *)
LateOK(u) ==
  IF u \in locked THEN late[u] + Cardinality(Verifying(u)) < Cardinality(Handlers)
                  ELSE late[u] = 0

LateInv == \A u \in Users : LateOK(u)

(* The handlers other than h keep their progress and their request. *)
OthersStay(h) ==
  \A g \in Handlers \ {h} : pc'[g] = pc[g] /\ req'[g] = req[g]

(* The handlers are finitely many, so are those that verify. *)
LEMMA VerifyingFinite ==
  ASSUME NEW u
  PROVE  /\ IsFiniteSet(Verifying(u)) /\ Cardinality(Verifying(u)) \in Nat
         /\ Cardinality(Handlers) \in Nat
<1>1. Verifying(u) \subseteq Handlers BY DEF Verifying
<1>2. IsFiniteSet(Handlers) BY SessionsAssumption
<1>3. IsFiniteSet(Verifying(u)) BY <1>1, <1>2, FS_Subset
<1> QED BY <1>2, <1>3, FS_CardinalityType

(* A handler that does not verify any more leaves the others to be judged. *)
LEMMA VerifyingLeaves ==
  ASSUME NEW u, NEW h \in Handlers, OthersStay(h), pc'[h] # "verify"
  PROVE  /\ Verifying(u)' = Verifying(u) \ {h}
         /\ Cardinality(Verifying(u)') =
              Cardinality(Verifying(u)) - (IF h \in Verifying(u) THEN 1 ELSE 0)
<1>1. Verifying(u)' = Verifying(u) \ {h}
  BY DEF Verifying, OthersStay
<1>2. Cardinality(Verifying(u) \ {h}) =
        IF h \in Verifying(u) THEN Cardinality(Verifying(u)) - 1
                              ELSE Cardinality(Verifying(u))
  BY VerifyingFinite, FS_RemoveElement
<1> QED BY <1>1, <1>2, VerifyingFinite

(* A step of h that ends its verification, or has nothing to do with one, and
   leaves a user's lock alone. *)
LEMMA LateLeaves ==
  ASSUME IInv, NEW h \in Handlers, OthersStay(h), pc'[h] # "verify",
         NEW u \in Users, LateOK(u),
         late'[u] = late[u], u \in locked' <=> u \in locked
  PROVE  LateOK(u)'
<1>1. Cardinality(Verifying(u)') =
        Cardinality(Verifying(u)) - (IF h \in Verifying(u) THEN 1 ELSE 0)
  BY VerifyingLeaves
<1>2. late[u] \in Nat /\ Cardinality(Verifying(u)) \in Nat /\ Cardinality(Handlers) \in Nat
  BY VerifyingFinite DEF IInv, TypeOK
<1>3. Cardinality(Verifying(u)') <= Cardinality(Verifying(u))
      /\ Cardinality(Verifying(u)') \in Int
  BY <1>1, <1>2
<1>4. CASE u \in locked
  <2>1. late'[u] + Cardinality(Verifying(u)') < Cardinality(Handlers)
    BY <1>2, <1>3, <1>4 DEF LateOK
  <2> QED BY <1>4, <2>1 DEF LateOK
<1>5. CASE u \notin locked
  BY <1>5 DEF LateOK
<1> QED BY <1>4, <1>5

(* A step that leaves the handlers alone and may lift locks. *)
LEMMA LateLifted ==
  ASSUME UNCHANGED <<pc, req>>, NEW u \in Users, LateOK(u),
         \/ late'[u] = late[u] /\ (u \in locked' <=> u \in locked)
         \/ late'[u] = 0 /\ u \notin locked'
  PROVE  LateOK(u)'
BY DEF LateOK, Verifying

(* A login begins for a user who is not locked. *)
LEMMA LateLoginRead ==
  ASSUME IInv, LateInv, NEW h \in Handlers, NEW v \in Users, LoginRead(h, v)
  PROVE  LateInv'
<1> SUFFICES ASSUME NEW u \in Users PROVE LateOK(u)' BY DEF LateInv
<1> USE DEF LoginRead, Goto, accounts
<1>1. LateOK(u) BY DEF LateInv
<1>2. CASE u = v
  BY <1>1, <1>2 DEF LateOK
<1>3. CASE u # v
  <2>1. \A g \in Handlers : g \in Verifying(u)' <=> g \in Verifying(u)
    BY <1>3 DEF IInv, TypeOK, Verifying
  <2>2. Verifying(u)' = Verifying(u)
    BY <2>1 DEF Verifying
  <2> QED BY <1>1, <2>2 DEF LateOK
<1> QED BY <1>2, <1>3

(* A failure is one verification less and at most one late guess more; the
   failure that sets the lock is not late itself. *)
LEMMA LateFailure ==
  ASSUME IInv, LateInv, NEW h \in Handlers, RecordLoginFailure(h)
  PROVE  LateInv'
<1> SUFFICES ASSUME NEW u \in Users PROVE LateOK(u)' BY DEF LateInv
<1> DEFINE v == req[h].user
<1>1. LateOK(u) /\ v \in Users /\ pc[h] = "verify" /\ EndTx(h)
  BY DEF LateInv, IInv, HandlerOK, RequestOK, RecordLoginFailure
<1>2. OthersStay(h) /\ pc'[h] # "verify"
  BY <1>1, EndTxEffect DEF IInv, OthersStay, Spared
<1>3. late[u] \in Nat /\ Cardinality(Verifying(u)) \in Nat /\ Cardinality(Handlers) \in Nat
  BY VerifyingFinite DEF IInv, TypeOK
<1>4. late'[u] = IF u = v /\ u \in locked THEN late[u] + 1 ELSE late[u]
  BY <1>1 DEF IInv, TypeOK, RecordLoginFailure
<1>5. locked' = locked \/ locked' = locked \cup {v}
  BY DEF RecordLoginFailure
<1>6. CASE u = v /\ u \in locked
  <2>1. h \in Verifying(u) BY <1>1, <1>6 DEF Verifying
  <2>2. Cardinality(Verifying(u)') = Cardinality(Verifying(u)) - 1
    BY <1>2, <2>1, VerifyingLeaves
  <2>3. late'[u] + Cardinality(Verifying(u)') < Cardinality(Handlers)
    BY <1>1, <1>3, <1>4, <1>6, <2>2 DEF LateOK
  <2> QED BY <1>5, <1>6, <2>3 DEF LateOK
<1>7. CASE u = v /\ u \notin locked
  <2>1. late'[u] = 0 BY <1>1, <1>4, <1>7 DEF LateOK
  <2>2. Verifying(u)' \subseteq Handlers \ {h}
    <3>1. Verifying(u)' = Verifying(u) \ {h} BY <1>2, VerifyingLeaves
    <3> QED BY <3>1 DEF Verifying
  <2>3. IsFiniteSet(Handlers \ {h}) /\ Cardinality(Handlers \ {h}) = Cardinality(Handlers) - 1
    BY SessionsAssumption, FS_RemoveElement
  <2>4. Cardinality(Verifying(u)') <= Cardinality(Handlers) - 1
        /\ Cardinality(Verifying(u)') \in Nat
    BY <2>2, <2>3, FS_Subset, FS_CardinalityType
  <2>5. late'[u] + Cardinality(Verifying(u)') < Cardinality(Handlers)
    BY <1>3, <2>1, <2>4
  <2> QED BY <2>1, <2>5 DEF LateOK
<1>8. CASE u # v
  <2>1. late'[u] = late[u] /\ (u \in locked' <=> u \in locked)
    BY <1>4, <1>5, <1>8
  <2> QED BY <1>1, <1>2, <2>1, LateLeaves
<1> QED BY <1>6, <1>7, <1>8

(* A success lifts the lock, unless its UPDATE failed. *)
LEMMA LateSuccess ==
  ASSUME IInv, LateInv, NEW h \in Handlers, RecordLoginSuccess(h)
  PROVE  LateInv'
<1> SUFFICES ASSUME NEW u \in Users PROVE LateOK(u)' BY DEF LateInv
<1> DEFINE v == req[h].user
<1>1. LateOK(u) /\ v \in Users
  BY DEF LateInv, IInv, HandlerOK, RequestOK, RecordLoginSuccess
<1>2. OthersStay(h) /\ pc'[h] # "verify"
  BY DEF IInv, TypeOK, RecordLoginSuccess, Goto, OthersStay
<1>3. \/ late'[u] = late[u] /\ (u \in locked' <=> u \in locked)
      \/ late'[u] = 0 /\ u \notin locked'
  BY <1>1 DEF IInv, TypeOK, RecordLoginSuccess
<1>4. CASE late'[u] = 0 /\ u \notin locked' BY <1>4 DEF LateOK
<1> QED BY <1>1, <1>2, <1>3, <1>4, LateLeaves

(* The other steps of a handler leave the accounts alone and do not begin a
   verification. *)
LEMMA LateOther ==
  ASSUME IInv, LateInv, NEW h \in Handlers, OthersStay(h), pc'[h] # "verify",
         UNCHANGED accounts
  PROVE  LateInv'
<1> SUFFICES ASSUME NEW u \in Users PROVE LateOK(u)' BY DEF LateInv
<1>1. LateOK(u) BY DEF LateInv
<1> QED BY <1>1, LateLeaves DEF accounts

(* Which those steps are. *)
LEMMA OtherSteps ==
  ASSUME IInv, NEW h \in Handlers,
         \/ \E s \in AuthSessions : Login(h, s)
         \/ \E op \in {"refresh", "logout"}, s \in AuthSessions, t \in TokenIds :
              Receive(h, op, s, t)
         \/ Step(h) \/ Rollback(h)
  PROVE  OthersStay(h) /\ pc'[h] # "verify" /\ UNCHANGED accounts
<1>1. CASE /\ EndTx(h) /\ UNCHANGED accounts
  BY <1>1, EndTxEffect DEF IInv, OthersStay, Spared
<1>2. CASE \E op \in {"refresh", "logout"}, s \in AuthSessions, t \in TokenIds :
              Receive(h, op, s, t)
  BY <1>2 DEF IInv, TypeOK, Receive, Goto, OthersStay
<1>3. CASE LookupRefreshToken(h)
  <2>1. AfterLookup(h) \subseteq {"refuse", "session", "revokeSession"} BY DEF AfterLookup
  <2>2. PICK l \in AfterLookup(h) : pc' = [pc EXCEPT ![h] = l]
    BY <1>3 DEF LookupRefreshToken, Goto
  <2>3. l # "verify" BY <2>1, <2>2
  <2> QED BY <1>3, <2>2, <2>3 DEF IInv, TypeOK, LookupRefreshToken, OthersStay
<1>4. CASE SessionRevokedForUpdate(h) \/ RevokeSessionRow(h)
  BY <1>4 DEF IInv, TypeOK, SessionRevokedForUpdate, RevokeSessionRow, Goto, OthersStay
<1> QED BY <1>1, <1>2, <1>3, <1>4
        DEF Login, Step, Rollback, Refuse, Refresh, RevokeFamily, Deadlock

LEMMA LateNext == IInv /\ LateInv /\ [Next]_vars => LateInv'
<1> SUFFICES ASSUME IInv, LateInv, [Next]_vars PROVE LateInv' OBVIOUS
<1>1. ASSUME NEW h \in Handlers, NEW u \in Users, LoginRead(h, u) PROVE LateInv'
  BY <1>1, LateLoginRead
<1>2. ASSUME NEW h \in Handlers, RecordLoginFailure(h) \/ RecordLoginSuccess(h)
      PROVE  LateInv'
  BY <1>2, LateFailure, LateSuccess
<1>3. ASSUME NEW h \in Handlers,
             \/ \E s \in AuthSessions : Login(h, s)
             \/ \E op \in {"refresh", "logout"}, s \in AuthSessions, t \in TokenIds :
                  Receive(h, op, s, t)
             \/ Step(h) \/ Rollback(h)
      PROVE  LateInv'
  <2>1. OthersStay(h) /\ pc'[h] # "verify" /\ UNCHANGED accounts
    BY <1>3, OtherSteps
  <2> QED BY <2>1, LateOther
<1>4. ASSUME NEW v \in Users, LockExpires(v) PROVE LateInv'
  <2> SUFFICES ASSUME NEW u \in Users PROVE LateOK(u)' BY DEF LateInv
  <2>1. LateOK(u) /\ UNCHANGED <<pc, req>> BY <1>4 DEF LateInv, LockExpires
  <2>2. \/ late'[u] = late[u] /\ (u \in locked' <=> u \in locked)
        \/ late'[u] = 0 /\ u \notin locked'
    BY <1>4 DEF LockExpires, IInv, TypeOK
  <2> QED BY <2>1, <2>2, LateLifted
<1>5. ASSUME UNCHANGED <<late, locked, pc, req>> PROVE LateInv'
  BY <1>5 DEF LateInv, LateOK, Verifying
<1> QED BY <1>1, <1>2, <1>3, <1>4, <1>5
        DEF Next, Register, RevokeSession, vars, accounts

(* However the logins for a user interleave, fewer guesses are judged during
   one lock than requests can be in flight: the lock is looked at before the
   password is verified, and only a request that passed it beforehand is
   judged late. *)
THEOREM LateGuessesSafe ==
  ASSUME Handlers # {}
  PROVE  Spec => []LateGuessesBounded
<1>1. Init => LateInv
  BY DEF Init, LateInv, LateOK
<1>2. IInv /\ LateInv /\ [Next]_vars => LateInv' BY LateNext
<1>3. IInv /\ LateInv => LateGuessesBounded
  <2> SUFFICES ASSUME IInv, LateInv, NEW u \in Users
               PROVE  late[u] < Cardinality(Handlers)
    BY DEF LateGuessesBounded
  <2>1. Cardinality(Handlers) \in Nat /\ Cardinality(Verifying(u)) \in Nat /\ late[u] \in Nat
    BY VerifyingFinite DEF IInv, TypeOK
  <2>2. Cardinality(Handlers) # 0
    BY SessionsAssumption, FS_EmptySet
  <2>3. LateOK(u) BY DEF LateInv
  <2> QED BY <2>1, <2>2, <2>3 DEF LateOK
<1> QED BY <1>1, <1>2, <1>3, Invariant, PTL DEF Spec
=============================================================================
