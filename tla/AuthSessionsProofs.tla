------------------------- MODULE AuthSessionsProofs -------------------------
(***************************************************************************)
(* Theorems about AuthSessions for any number of users, requests, sessions *)
(* and tokens, with crashes, and whatever the three expiry times are.      *)
(*                                                                         *)
(* The argument: a handler's locals refer to rows, and rows are never      *)
(* deleted nor re-keyed (Extends), so what one request knows survives the  *)
(* steps of the others (LocalsSurvive).  Each step is then a step of one   *)
(* request: it keeps the tables consistent and leaves that request's own   *)
(* locals consistent (Combine).  Versions in rows and locals stay behind   *)
(* those of their users (VersionsNeverAhead).                              *)
(*                                                                         *)
(* The last two parts are about requests served one at a time: a lone      *)
(* request finds the rows as it left them, also after a crash (AloneInv),  *)
(* and where each is served to its end the sweeps it owes are made         *)
(* (SequentialInv).                                                        *)
(***************************************************************************)
EXTENDS AuthSessions, TLAPS

ReqOK(r) == LocalsSet(r) /\ RotationLocals(r) /\ AnswerIsLogged(r)

TablesTyped ==
    /\ clock \in Nat
    /\ users \in [Users -> User]
    /\ DOMAIN sessions \subseteq SessionIds
    /\ \A s \in DOMAIN sessions : sessions[s] \in AuthSession
    /\ DOMAIN tokens \subseteq TokenIds
    /\ \A t \in DOMAIN tokens : tokens[t] \in RefreshToken
    /\ DOMAIN logs \subseteq SessionIds
    /\ \A s \in DOMAIN logs : logs[s] \in ImpersonationLog

TablesOK == TablesTyped /\ RowsLinked /\ RotationWellFormed /\ LogBeforeCredential

(* No row is deleted, and what identifies a row never changes. *)
Extends ==
    /\ DOMAIN sessions \subseteq DOMAIN sessions'
    /\ \A s \in DOMAIN sessions : SameSession(sessions[s], sessions'[s])
    /\ DOMAIN tokens \subseteq DOMAIN tokens'
    /\ \A t \in DOMAIN tokens : tokens'[t].session = tokens[t].session
    /\ DOMAIN logs \subseteq DOMAIN logs'

(* A step of request r as far as reqs goes. *)
OnlyRequest(r) ==
    /\ reqs' \in [Requests -> Request]
    /\ \A x \in Requests \ {r} : reqs'[x] = reqs[x]

(* The invariant is the tables' part and one part per request. *)
LEMMA RowsParts ==
    RowsOK <=> (TablesOK /\ reqs \in [Requests -> Request] /\ \A r \in Requests : ReqOK(r))
  BY DEF RowsOK, TypeOK, TablesOK, TablesTyped, InFlightOK, ReqOK

LEMMA RowsPartsPrimed ==
    RowsOK' <=> (TablesOK' /\ reqs' \in [Requests -> Request] /\ \A r \in Requests : ReqOK(r)')
  BY DEF RowsOK, TypeOK, TablesOK, TablesTyped, InFlightOK, ReqOK

(* What a waiting request knows survives the steps of the others. *)
LEMMA LocalsSurvive ==
    ASSUME TablesOK, Extends, NEW r \in Requests, ReqOK(r), reqs'[r] = reqs[r]
    PROVE  ReqOK(r)'
<1>. DEFINE q == reqs[r]
<1>1. LocalsSet(r)'
  BY DEF ReqOK, LocalsSet, Extends
<1>2. RotationLocals(r)'
  <2>1. q.pc \in RefreshPCs => q.sess \in DOMAIN sessions
    BY DEF ReqOK, LocalsSet
  <2>. QED
    BY <2>1 DEF ReqOK, RotationLocals, Extends, SameSession, RefreshPCs
<1>3. AnswerIsLogged(r)'
  <2>1. q.pc \in RefreshPCs \cup {"respond", "issueToken"} => q.sess \in DOMAIN sessions
    BY DEF ReqOK, LocalsSet, RotationLocals, TablesOK, RowsLinked
  <2>. QED
    BY <2>1 DEF ReqOK, AnswerIsLogged, Extends, SameSession
<1>. QED
  BY <1>1, <1>2, <1>3 DEF ReqOK

LEMMA Combine ==
    ASSUME RowsOK, Extends, TablesOK', NEW r \in Requests, OnlyRequest(r), ReqOK(r)'
    PROVE  RowsOK'
<1>1. \A x \in Requests : ReqOK(x)'
  <2>. SUFFICES ASSUME NEW x \in Requests, x # r PROVE ReqOK(x)'
    OBVIOUS
  <2>. QED
    BY LocalsSurvive, RowsParts DEF OnlyRequest
<1>. QED
  BY <1>1, RowsPartsPrimed DEF OnlyRequest

----------------------------------------------------------------------------
(* What the statements do to the tables *)

LEMMA TablesUnchanged ==
    ASSUME TablesOK, UNCHANGED <<clock, users, sessions, tokens, logs>>
    PROVE  TablesOK' /\ Extends
  BY DEF TablesOK, TablesTyped, RowsLinked, RotationWellFormed, LogBeforeCredential, Extends,
     SameSession

LEMMA UsersWritten ==
    ASSUME TablesOK, users' \in [Users -> User], UNCHANGED <<clock, sessions, tokens, logs>>
    PROVE  TablesOK' /\ Extends
  BY DEF TablesOK, TablesTyped, RowsLinked, RotationWellFormed, LogBeforeCredential, Extends,
     SameSession

LEMMA SessionsRevoked ==
    ASSUME TablesOK, NEW keys, NEW now \in Nat, NEW reason \in Reasons,
           RevokeSessions(keys, now, reason), UNCHANGED <<clock, users, tokens, logs>>
    PROVE  TablesOK' /\ Extends
<1>1. DOMAIN sessions' = DOMAIN sessions
  BY DEF RevokeSessions
<1>2. \A s \in DOMAIN sessions : /\ sessions'[s] \in AuthSession
                                 /\ SameSession(sessions[s], sessions'[s])
  BY DEF RevokeSessions, TablesOK, TablesTyped, AuthSession, Nullable, SameSession
<1>3. \A t \in DOMAIN tokens : tokens[t].session \in DOMAIN sessions
  BY DEF TablesOK, RowsLinked
<1>. QED
  BY <1>1, <1>2, <1>3
  DEF TablesOK, TablesTyped, RowsLinked, RotationWellFormed, LogBeforeCredential, Extends,
     SameSession

LEMMA TokensRevoked ==
    ASSUME TablesOK, NEW keys, NEW now \in Nat,
           RevokeTokens(keys, now), UNCHANGED <<clock, users, sessions, logs>>
    PROVE  TablesOK' /\ Extends
<1>1. DOMAIN tokens' = DOMAIN tokens
  BY DEF RevokeTokens
<1>2. \A t \in DOMAIN tokens :
        /\ tokens'[t] \in RefreshToken
        /\ tokens'[t].session = tokens[t].session
        /\ tokens'[t].sent = tokens[t].sent
        /\ tokens'[t].replacedById = tokens[t].replacedById
        /\ tokens[t].revokedAt # None => tokens'[t].revokedAt # None
  BY NoneAssumption DEF RevokeTokens, TablesOK, TablesTyped, RefreshToken, Nullable
<1>3. RotationWellFormed'
  BY <1>1, <1>2 DEF TablesOK, RotationWellFormed
<1>4. LogBeforeCredential'
  BY <1>1, <1>2 DEF TablesOK, LogBeforeCredential
<1>. QED
  BY <1>1, <1>2, <1>3, <1>4 DEF TablesOK, TablesTyped, RowsLinked, Extends, SameSession

LEMMA SessionInserted ==
    ASSUME TablesOK, NEW s \in SessionIds \ DOMAIN sessions, NEW row \in AuthSession,
           sessions' = Insert(sessions, s, row), UNCHANGED <<clock, users, tokens, logs>>
    PROVE  /\ TablesOK' /\ Extends
           /\ s \in DOMAIN sessions'
           /\ sessions'[s] = row
<1>1. /\ DOMAIN sessions' = DOMAIN sessions \cup {s}
      /\ sessions'[s] = row
      /\ \A x \in DOMAIN sessions : sessions'[x] = sessions[x]
  BY DEF Insert
<1>. QED
  BY <1>1
  DEF TablesOK, TablesTyped, RowsLinked, RotationWellFormed, LogBeforeCredential, Extends,
     SameSession

LEMMA TokenInserted ==
    ASSUME TablesOK, NEW t \in TokenIds \ DOMAIN tokens, NEW row \in RefreshToken,
           row.session \in DOMAIN sessions, row.replacedById = None, ~row.sent,
           tokens' = Insert(tokens, t, row), UNCHANGED <<clock, users, sessions, logs>>
    PROVE  /\ TablesOK' /\ Extends
           /\ t \in DOMAIN tokens'
           /\ tokens'[t] = row
<1>1. /\ DOMAIN tokens' = DOMAIN tokens \cup {t}
      /\ tokens'[t] = row
      /\ \A x \in DOMAIN tokens : tokens'[x] = tokens[x]
  BY DEF Insert
<1>2. RotationWellFormed'
  BY <1>1 DEF TablesOK, RotationWellFormed
<1>3. LogBeforeCredential'
  BY <1>1 DEF TablesOK, LogBeforeCredential
<1>. QED
  BY <1>1, <1>2, <1>3 DEF TablesOK, TablesTyped, RowsLinked, Extends, SameSession

(* A log is inserted for, or dated on, a session that exists. *)
LEMMA LogsWritten ==
    ASSUME TablesOK, DOMAIN logs \subseteq DOMAIN logs', DOMAIN logs' \subseteq DOMAIN sessions,
           \A s \in DOMAIN logs' : logs'[s] \in ImpersonationLog,
           UNCHANGED <<clock, users, sessions, tokens>>
    PROVE  TablesOK' /\ Extends
  BY DEF TablesOK, TablesTyped, RowsLinked, RotationWellFormed, LogBeforeCredential, Extends,
     SameSession

(* A row of the saved token. *)
LEMMA SavedTokenType ==
    ASSUME TablesOK, NEW r \in Requests, reqs[r].sess \in SessionIds,
           reqs[r].version \in Nat, NEW notAfter \in Nullable(Nat)
    PROVE  /\ SavedToken(r, notAfter) \in RefreshToken
           /\ SavedToken(r, notAfter).session = reqs[r].sess
           /\ SavedToken(r, notAfter).replacedById = None
           /\ ~SavedToken(r, notAfter).sent
<1>1. SignRefresh(notAfter) \in Nat
  BY BoundsAssumption DEF SignRefresh, Nullable, TablesOK, TablesTyped
<1>. QED
  BY <1>1 DEF SavedToken, RefreshToken, Nullable, TablesOK, TablesTyped

----------------------------------------------------------------------------
(* Endpoints: reading only, they set up the locals of their request. *)

LEMMA IdleType == Idle \in Request
  BY DEF Idle, Request, Nullable, PCs

LEMMA FinishOK ==
    ASSUME RowsOK, NEW r \in Requests, Finish(r)
    PROVE  OnlyRequest(r) /\ ReqOK(r)'
<1>1. reqs \in [Requests -> Request]
  BY DEF RowsOK, TypeOK
<1>2. reqs' = [reqs EXCEPT ![r] = Idle] /\ reqs'[r] = Idle
  BY <1>1 DEF Finish
<1>3. OnlyRequest(r)
  BY <1>1, <1>2, IdleType DEF OnlyRequest
<1>4. ReqOK(r)'
  BY <1>2, NoneAssumption
  DEF ReqOK, LocalsSet, RotationLocals, AnswerIsLogged, Idle, RefreshPCs, OpNames
<1>. QED
  BY <1>3, <1>4

(* A started request that wrote nothing: the invariant needs its locals only. *)
LEMMA QuietStart ==
    ASSUME RowsOK, NEW r \in Requests, NEW q \in Request, reqs' = [reqs EXCEPT ![r] = q],
           UNCHANGED <<clock, users, sessions, tokens, logs>>,
           reqs'[r] = q => ReqOK(r)'
    PROVE  RowsOK'
<1>1. TablesOK /\ reqs \in [Requests -> Request]
  BY RowsParts
<1>2. reqs'[r] = q /\ OnlyRequest(r)
  BY <1>1 DEF OnlyRequest
<1>. QED
  BY <1>1, <1>2, TablesUnchanged, Combine

LEMMA StartLoginOK ==
    ASSUME RowsOK, NEW r \in Requests, NEW u \in Users, StartLogin(r, u)
    PROVE  RowsOK'
<1>. DEFINE q == [Idle EXCEPT !.pc = IF users[u].weak THEN "rehash" ELSE "issueSession",
                             !.op = "login", !.user = u, !.version = users[u].version,
                             !.pw = users[u].password]
<1>1. TablesOK /\ clock \in Nat /\ users[u] \in User
  BY RowsParts DEF TablesOK, TablesTyped
<1>2. q \in Request
  BY <1>1 DEF Idle, Request, Nullable, PCs, OpNames, Reasons, User
<1>3. /\ q.pc \in {"rehash", "issueSession"} /\ q.op = "login" /\ q.user \in Users
      /\ q.version \in Nat /\ q.pw \in Nat
  BY <1>1, NoneAssumption
  DEF TablesOK, TablesTyped, RowsLinked, Idle, User
<1>4. reqs'[r] = q => ReqOK(r)'
  BY <1>3 DEF ReqOK, LocalsSet, RotationLocals, AnswerIsLogged, RefreshPCs, OpNames
<1>5. reqs' = [reqs EXCEPT ![r] = q] /\ UNCHANGED <<clock, users, sessions, tokens, logs>>
  BY DEF StartLogin
<1>. QED
  BY <1>2, <1>4, <1>5, QuietStart

LEMMA StartResetOK ==
    ASSUME RowsOK, NEW r \in Requests, NEW u \in Users, StartReset(r, u)
    PROVE  RowsOK'
<1>. DEFINE q == [Idle EXCEPT !.pc = "setPassword", !.op = "reset", !.user = u, !.at = clock]
<1>1. TablesOK /\ clock \in Nat /\ users[u] \in User
  BY RowsParts DEF TablesOK, TablesTyped
<1>2. q \in Request
  BY <1>1 DEF Idle, Request, Nullable, PCs, OpNames, Reasons, User
<1>3. q.pc = "setPassword" /\ q.op = "reset" /\ q.user \in Users /\ q.at \in Nat
  BY <1>1, NoneAssumption
  DEF TablesOK, TablesTyped, RowsLinked, Idle, User
<1>4. reqs'[r] = q => ReqOK(r)'
  BY <1>3 DEF ReqOK, LocalsSet, RotationLocals, AnswerIsLogged, RefreshPCs, OpNames
<1>5. reqs' = [reqs EXCEPT ![r] = q] /\ UNCHANGED <<clock, users, sessions, tokens, logs>>
  BY DEF StartReset
<1>. QED
  BY <1>2, <1>4, <1>5, QuietStart

LEMMA StartDeactivateOK ==
    ASSUME RowsOK, NEW r \in Requests, NEW u \in Users, StartDeactivate(r, u)
    PROVE  RowsOK'
<1>. DEFINE q == [Idle EXCEPT !.pc = "setStatus", !.op = "deactivate", !.user = u,
                             !.reason = "deactivated"]
<1>1. TablesOK /\ clock \in Nat /\ users[u] \in User
  BY RowsParts DEF TablesOK, TablesTyped
<1>2. q \in Request
  BY <1>1 DEF Idle, Request, Nullable, PCs, OpNames, Reasons, User
<1>3. q.pc = "setStatus" /\ q.op = "deactivate" /\ q.user \in Users /\ q.reason \in Reasons
  BY <1>1, NoneAssumption
  DEF TablesOK, TablesTyped, RowsLinked, Idle, User, Reasons
<1>4. reqs'[r] = q => ReqOK(r)'
  BY <1>3 DEF ReqOK, LocalsSet, RotationLocals, AnswerIsLogged, RefreshPCs, OpNames
<1>5. reqs' = [reqs EXCEPT ![r] = q] /\ UNCHANGED <<clock, users, sessions, tokens, logs>>
  BY DEF StartDeactivate
<1>. QED
  BY <1>2, <1>4, <1>5, QuietStart

LEMMA StartReactivateOK ==
    ASSUME RowsOK, NEW r \in Requests, NEW u \in Users, StartReactivate(r, u)
    PROVE  RowsOK'
<1>. DEFINE q == [Idle EXCEPT !.pc = "setStatus", !.op = "reactivate", !.user = u]
<1>1. TablesOK /\ clock \in Nat /\ users[u] \in User
  BY RowsParts DEF TablesOK, TablesTyped
<1>2. q \in Request
  BY <1>1 DEF Idle, Request, Nullable, PCs, OpNames, Reasons, User
<1>3. q.pc = "setStatus" /\ q.op = "reactivate" /\ q.user \in Users
  BY <1>1, NoneAssumption
  DEF TablesOK, TablesTyped, RowsLinked, Idle, User
<1>4. reqs'[r] = q => ReqOK(r)'
  BY <1>3 DEF ReqOK, LocalsSet, RotationLocals, AnswerIsLogged, RefreshPCs, OpNames
<1>5. reqs' = [reqs EXCEPT ![r] = q] /\ UNCHANGED <<clock, users, sessions, tokens, logs>>
  BY DEF StartReactivate
<1>. QED
  BY <1>2, <1>4, <1>5, QuietStart

LEMMA StartImpersonationOK ==
    ASSUME RowsOK, NEW r \in Requests, NEW u \in Users, StartImpersonation(r, u)
    PROVE  RowsOK'
<1>. DEFINE q == [Idle EXCEPT !.pc = "issueSession", !.op = "impersonate", !.user = u,
                             !.at = clock, !.version = users[u].version]
<1>1. TablesOK /\ clock \in Nat /\ users[u] \in User
  BY RowsParts DEF TablesOK, TablesTyped
<1>2. q \in Request
  BY <1>1 DEF Idle, Request, Nullable, PCs, OpNames, Reasons, User
<1>3. /\ q.pc = "issueSession" /\ q.op = "impersonate" /\ q.user \in Users
      /\ q.at \in Nat /\ q.version \in Nat
  BY <1>1, NoneAssumption
  DEF TablesOK, TablesTyped, RowsLinked, Idle, User
<1>4. reqs'[r] = q => ReqOK(r)'
  BY <1>3 DEF ReqOK, LocalsSet, RotationLocals, AnswerIsLogged, RefreshPCs, OpNames
<1>5. reqs' = [reqs EXCEPT ![r] = q] /\ UNCHANGED <<clock, users, sessions, tokens, logs>>
  BY DEF StartImpersonation
<1>. QED
  BY <1>2, <1>4, <1>5, QuietStart

LEMMA StartRefreshOK ==
    ASSUME RowsOK, NEW r \in Requests, NEW t \in DOMAIN tokens, StartRefresh(r, t)
    PROVE  RowsOK'
<1>. DEFINE q == [Idle EXCEPT
                  !.pc = IF tokens[t].revokedAt # None \/ tokens[t].replacedById # None
                         THEN "killFamily" ELSE "readSession",
                  !.op = "refresh", !.tok = t, !.sess = tokens[t].session,
                  !.user = sessions[tokens[t].session].user,
                  !.at = IF tokens[t].revokedAt # None \/ tokens[t].replacedById # None
                         THEN clock ELSE None]
<1>1. /\ TablesOK
      /\ clock \in Nat /\ t \in TokenIds
      /\ tokens[t].session \in SessionIds \cap DOMAIN sessions
      /\ sessions[tokens[t].session].user \in Users
      /\ users[sessions[tokens[t].session].user] \in User
  BY RowsParts DEF TablesOK, TablesTyped, RowsLinked, RefreshToken, AuthSession
<1>2. q \in Request
  BY <1>1 DEF Idle, Request, Nullable, PCs, OpNames, Reasons, User
<1>3. /\ q.pc \in {"killFamily", "readSession"} /\ q.op = "refresh" /\ q.user \in Users
      /\ q.tok = t /\ q.sess = tokens[t].session /\ q.sess \in DOMAIN sessions
      /\ q.pc = "killFamily" => q.at \in Nat
      /\ sessions[q.sess].impersonated => q.sess \in DOMAIN logs
  BY <1>1, NoneAssumption
  DEF StartRefresh, LogBeforeCredential, AuthSession, TablesOK, TablesTyped, RowsLinked, Idle,
     User
<1>4. reqs' = [reqs EXCEPT ![r] = q] /\ UNCHANGED <<clock, users, sessions, tokens, logs>>
  BY DEF StartRefresh
<1>5. reqs'[r] = q => ReqOK(r)'
  BY <1>3, <1>4 DEF ReqOK, LocalsSet, RotationLocals, AnswerIsLogged, RefreshPCs, OpNames
<1>. QED
  BY <1>2, <1>4, <1>5, QuietStart

LEMMA StartChangePasswordOK ==
    ASSUME RowsOK, NEW r \in Requests, NEW t \in DOMAIN tokens, StartChangePassword(r, t)
    PROVE  RowsOK'
<1>. DEFINE q == [Idle EXCEPT !.pc = "checkPassword", !.op = "change",
                             !.user = sessions[tokens[t].session].user,
                             !.pw = users[sessions[tokens[t].session].user].password,
                             !.reason = "password-change"]
<1>1. /\ TablesOK
      /\ clock \in Nat /\ t \in TokenIds
      /\ tokens[t].session \in SessionIds \cap DOMAIN sessions
      /\ sessions[tokens[t].session].user \in Users
      /\ users[sessions[tokens[t].session].user] \in User
  BY RowsParts DEF TablesOK, TablesTyped, RowsLinked, RefreshToken, AuthSession
<1>2. q \in Request
  BY <1>1 DEF Idle, Request, Nullable, PCs, OpNames, Reasons, User
<1>3. q.pc = "checkPassword" /\ q.op = "change" /\ q.user \in Users /\ q.reason \in Reasons
  BY <1>1, NoneAssumption
  DEF TablesOK, TablesTyped, RowsLinked, Idle, User, AuthSession, Reasons
<1>4. reqs'[r] = q => ReqOK(r)'
  BY <1>3 DEF ReqOK, LocalsSet, RotationLocals, AnswerIsLogged, RefreshPCs, OpNames
<1>5. reqs' = [reqs EXCEPT ![r] = q] /\ UNCHANGED <<clock, users, sessions, tokens, logs>>
  BY DEF StartChangePassword
<1>. QED
  BY <1>2, <1>4, <1>5, QuietStart

LEMMA StartExitOK ==
    ASSUME RowsOK, NEW r \in Requests, NEW t \in DOMAIN tokens, StartExit(r, t)
    PROVE  RowsOK'
<1>. DEFINE q == [Idle EXCEPT !.pc = "findLogs", !.op = "exit", !.sess = tokens[t].session,
                             !.user = sessions[tokens[t].session].user, !.at = clock]
<1>1. /\ TablesOK
      /\ clock \in Nat /\ t \in TokenIds
      /\ tokens[t].session \in SessionIds \cap DOMAIN sessions
      /\ sessions[tokens[t].session].user \in Users
      /\ users[sessions[tokens[t].session].user] \in User
  BY RowsParts DEF TablesOK, TablesTyped, RowsLinked, RefreshToken, AuthSession
<1>2. q \in Request
  BY <1>1 DEF Idle, Request, Nullable, PCs, OpNames, Reasons, User
<1>3. /\ q.pc = "findLogs" /\ q.op = "exit" /\ q.user \in Users /\ q.at \in Nat
      /\ q.sess \in DOMAIN sessions /\ q.sess \in DOMAIN sessions'
  BY <1>1, NoneAssumption
  DEF StartExit, AuthSession, TablesOK, TablesTyped, RowsLinked, Idle, User
<1>4. reqs'[r] = q => ReqOK(r)'
  BY <1>3 DEF ReqOK, LocalsSet, RotationLocals, AnswerIsLogged, RefreshPCs, OpNames
<1>5. reqs' = [reqs EXCEPT ![r] = q] /\ UNCHANGED <<clock, users, sessions, tokens, logs>>
  BY DEF StartExit
<1>. QED
  BY <1>2, <1>4, <1>5, QuietStart

LEMMA StartHistoryOK ==
    ASSUME RowsOK, NEW r \in Requests, StartHistory(r)
    PROVE  RowsOK'
<1>. DEFINE q == [Idle EXCEPT !.pc = "reconcile", !.op = "history",
                             !.open = {s \in DOMAIN logs : logs[s].endedAt = None},
                             !.at = clock]
<1>1. TablesOK /\ clock \in Nat /\ DOMAIN logs \subseteq SessionIds
  BY RowsParts DEF TablesOK, TablesTyped
<1>2. q \in Request
  BY <1>1 DEF Idle, Request, Nullable, PCs, OpNames, Reasons, User
<1>3. /\ q.pc = "reconcile" /\ q.op = "history" /\ q.at \in Nat
      /\ q.open \subseteq DOMAIN logs'
  BY <1>1, NoneAssumption
  DEF StartHistory, TablesOK, TablesTyped, RowsLinked, Idle, User
<1>4. reqs'[r] = q => ReqOK(r)'
  BY <1>3 DEF ReqOK, LocalsSet, RotationLocals, AnswerIsLogged, RefreshPCs, OpNames
<1>5. reqs' = [reqs EXCEPT ![r] = q] /\ UNCHANGED <<clock, users, sessions, tokens, logs>>
  BY DEF StartHistory
<1>. QED
  BY <1>2, <1>4, <1>5, QuietStart

----------------------------------------------------------------------------
(* One lemma per step of a request in flight. *)

LEMMA RehashOK ==
    ASSUME RowsOK, NEW r \in Requests, Rehash(r)
    PROVE  RowsOK'
<1>. DEFINE q == reqs[r]
<1>1. TablesOK /\ ReqOK(r) /\ reqs \in [Requests -> Request] /\ q \in Request
  BY RowsParts
<1>2. TablesOK' /\ Extends
  <2>1. q.user \in Users /\ q.pw \in Nat
    BY <1>1 DEF Rehash, At, ReqOK, LocalsSet
  <2>2. users' \in [Users -> User]
    BY <1>1, <2>1 DEF Rehash, TablesOK, TablesTyped, User
  <2>. QED
    BY <1>1, <2>2, UsersWritten DEF Rehash
<1>3. OnlyRequest(r)
  BY <1>1 DEF Rehash, SetPc, OnlyRequest, Request, PCs
<1>4. ReqOK(r)'
  BY <1>1, <1>2 DEF Rehash, SetPc, At, ReqOK, LocalsSet, RotationLocals, AnswerIsLogged, Extends,
     SameSession, RefreshPCs
<1>. QED
  BY <1>2, <1>3, <1>4, Combine

LEMMA KillFamilyOK ==
    ASSUME RowsOK, NEW r \in Requests, KillFamily(r)
    PROVE  RowsOK'
<1>. DEFINE q == reqs[r]
<1>1. TablesOK /\ ReqOK(r) /\ reqs \in [Requests -> Request] /\ q \in Request
  BY RowsParts
<1>2. TablesOK' /\ Extends
  <2>1. q.at \in Nat
    BY <1>1 DEF KillFamily, At, ReqOK, LocalsSet
  <2>. QED
    BY <1>1, <2>1, TokensRevoked DEF KillFamily
<1>3. OnlyRequest(r)
  BY <1>1 DEF KillFamily, SetPc, OnlyRequest, Request, PCs
<1>4. ReqOK(r)'
  BY <1>1, <1>2 DEF KillFamily, SetPc, At, ReqOK, LocalsSet, RotationLocals, AnswerIsLogged,
     Extends, SameSession, RefreshPCs
<1>. QED
  BY <1>2, <1>3, <1>4, Combine

LEMMA EndSessionOK ==
    ASSUME RowsOK, NEW r \in Requests, EndSession(r)
    PROVE  RowsOK'
<1>. DEFINE q == reqs[r]
<1>1. TablesOK /\ ReqOK(r) /\ reqs \in [Requests -> Request] /\ q \in Request
  BY RowsParts
<1>2. TablesOK' /\ Extends
  <2>1. q.reason \in Reasons /\ clock \in Nat
    BY <1>1 DEF EndSession, At, ReqOK, LocalsSet, TablesOK, TablesTyped
  <2>. QED
    BY <1>1, <2>1, SessionsRevoked DEF EndSession
<1>3. OnlyRequest(r) /\ ReqOK(r)'
  BY FinishOK DEF EndSession
<1>. QED
  BY <1>2, <1>3, Combine

LEMMA LogoutSessionOK ==
    ASSUME RowsOK, NEW r \in Requests, LogoutSession(r)
    PROVE  RowsOK'
<1>. DEFINE q == reqs[r]
<1>1. TablesOK /\ ReqOK(r) /\ reqs \in [Requests -> Request] /\ q \in Request
  BY RowsParts
<1>2. TablesOK' /\ Extends
  <2>1. q.at \in Nat /\ "logout" \in Reasons
    BY <1>1 DEF LogoutSession, At, ReqOK, LocalsSet, Reasons
  <2>. QED
    BY <1>1, <2>1, SessionsRevoked DEF LogoutSession
<1>3. OnlyRequest(r)
  BY <1>1 DEF LogoutSession, SetPc, OnlyRequest, Request, PCs
<1>4. ReqOK(r)'
  BY <1>1, <1>2 DEF LogoutSession, SetPc, At, ReqOK, LocalsSet, RotationLocals, AnswerIsLogged,
     Extends, SameSession, RefreshPCs
<1>. QED
  BY <1>2, <1>3, <1>4, Combine

LEMMA RevokeAllTokensOK ==
    ASSUME RowsOK, NEW r \in Requests, RevokeAllTokens(r)
    PROVE  RowsOK'
<1>. DEFINE q == reqs[r]
<1>1. TablesOK /\ ReqOK(r) /\ reqs \in [Requests -> Request] /\ q \in Request
  BY RowsParts
<1>2. TablesOK' /\ Extends
  <2>1. q.at \in Nat
    BY <1>1 DEF RevokeAllTokens, At, ReqOK, LocalsSet
  <2>. QED
    BY <1>1, <2>1, TokensRevoked DEF RevokeAllTokens
<1>3. OnlyRequest(r)
  BY <1>1 DEF RevokeAllTokens, SetPc, OnlyRequest, Request, PCs
<1>4. ReqOK(r)'
  BY <1>1, <1>2 DEF RevokeAllTokens, SetPc, At, ReqOK, LocalsSet, RotationLocals, AnswerIsLogged,
     Extends, SameSession, RefreshPCs
<1>. QED
  BY <1>2, <1>3, <1>4, Combine

LEMMA RevokeAllSessionsOK ==
    ASSUME RowsOK, NEW r \in Requests, RevokeAllSessions(r)
    PROVE  RowsOK'
<1>. DEFINE q == reqs[r]
<1>1. TablesOK /\ ReqOK(r) /\ reqs \in [Requests -> Request] /\ q \in Request
  BY RowsParts
<1>2. TablesOK' /\ Extends
  <2>1. q.reason \in Reasons /\ clock \in Nat
    BY <1>1 DEF RevokeAllSessions, At, ReqOK, LocalsSet, TablesOK, TablesTyped
  <2>. QED
    BY <1>1, <2>1, SessionsRevoked DEF RevokeAllSessions
<1>3. OnlyRequest(r)
  <2>. DEFINE p == [q EXCEPT !.pc = "revokeTokens", !.at = clock]
  <2>1. reqs' = [reqs EXCEPT ![r] = p]
    BY <1>1 DEF RevokeAllSessions
  <2>2. p \in Request
    BY <1>1 DEF Request, PCs, Nullable, TablesOK, TablesTyped
  <2>. QED
    BY <1>1, <2>1, <2>2 DEF OnlyRequest
<1>4. ReqOK(r)'
  BY <1>1, <1>2 DEF RevokeAllSessions, At, ReqOK, LocalsSet, RotationLocals, AnswerIsLogged,
                    Extends, SameSession, RefreshPCs, TablesOK, TablesTyped
<1>. QED
  BY <1>2, <1>3, <1>4, Combine

LEMMA ResetSessionsOK ==
    ASSUME RowsOK, NEW r \in Requests, ResetSessions(r)
    PROVE  RowsOK'
<1>. DEFINE q == reqs[r]
<1>1. TablesOK /\ ReqOK(r) /\ reqs \in [Requests -> Request] /\ q \in Request
  BY RowsParts
<1>2. TablesOK' /\ Extends
  <2>1. q.at \in Nat /\ "password-reset" \in Reasons
    BY <1>1 DEF ResetSessions, At, ReqOK, LocalsSet, Reasons
  <2>. QED
    BY <1>1, <2>1, SessionsRevoked DEF ResetSessions
<1>3. OnlyRequest(r) /\ ReqOK(r)'
  BY FinishOK DEF ResetSessions
<1>. QED
  BY <1>2, <1>3, Combine

LEMMA ExitSessionOK ==
    ASSUME RowsOK, NEW r \in Requests, ExitSession(r)
    PROVE  RowsOK'
<1>. DEFINE q == reqs[r]
<1>1. TablesOK /\ ReqOK(r) /\ reqs \in [Requests -> Request] /\ q \in Request
  BY RowsParts
<1>2. TablesOK' /\ Extends
  <2>1. q.at \in Nat /\ "impersonation-exit" \in Reasons
    BY <1>1 DEF ExitSession, At, ReqOK, LocalsSet, Reasons
  <2>. QED
    BY <1>1, <2>1, SessionsRevoked DEF ExitSession
<1>3. OnlyRequest(r)
  BY <1>1 DEF ExitSession, SetPc, OnlyRequest, Request, PCs
<1>4. ReqOK(r)'
  BY <1>1, <1>2 DEF ExitSession, SetPc, At, ReqOK, LocalsSet, RotationLocals, AnswerIsLogged,
     Extends, SameSession, RefreshPCs
<1>. QED
  BY <1>2, <1>3, <1>4, Combine

LEMMA ExitTokensOK ==
    ASSUME RowsOK, NEW r \in Requests, ExitTokens(r)
    PROVE  RowsOK'
<1>. DEFINE q == reqs[r]
<1>1. TablesOK /\ ReqOK(r) /\ reqs \in [Requests -> Request] /\ q \in Request
  BY RowsParts
<1>2. TablesOK' /\ Extends
  <2>1. q.at \in Nat
    BY <1>1 DEF ExitTokens, At, ReqOK, LocalsSet
  <2>. QED
    BY <1>1, <2>1, TokensRevoked DEF ExitTokens
<1>3. OnlyRequest(r) /\ ReqOK(r)'
  BY FinishOK DEF ExitTokens
<1>. QED
  BY <1>2, <1>3, Combine

LEMMA FindLogsOK ==
    ASSUME RowsOK, NEW r \in Requests, FindLogs(r)
    PROVE  RowsOK'
<1>. DEFINE q == reqs[r]
<1>1. TablesOK /\ ReqOK(r) /\ reqs \in [Requests -> Request] /\ q \in Request
  BY RowsParts
<1>2. TablesOK' /\ Extends
  BY <1>1, TablesUnchanged DEF FindLogs
<1>3. OnlyRequest(r)
  BY <1>1 DEF FindLogs, OnlyRequest, Request, PCs, TablesOK, TablesTyped
<1>4. ReqOK(r)'
  BY <1>1, <1>2 DEF FindLogs, At, ReqOK, LocalsSet, RotationLocals, AnswerIsLogged, Extends,
     SameSession,
                    RefreshPCs
<1>. QED
  BY <1>2, <1>3, <1>4, Combine

LEMMA RereadOK ==
    ASSUME RowsOK, NEW r \in Requests, Reread(r)
    PROVE  RowsOK'
<1>. DEFINE q == reqs[r]
<1>1. TablesOK /\ ReqOK(r) /\ reqs \in [Requests -> Request] /\ q \in Request
  BY RowsParts
<1>a. users[q.user].version \in Nat
  BY <1>1 DEF Reread, At, ReqOK, LocalsSet, TablesOK, TablesTyped, User
<1>2. TablesOK' /\ Extends
  BY <1>1, TablesUnchanged DEF Reread
<1>3. OnlyRequest(r)
  <2>. DEFINE p == [q EXCEPT !.pc = "issueSession", !.version = users[q.user].version]
  <2>1. reqs' = [reqs EXCEPT ![r] = p]
    BY <1>1 DEF Reread
  <2>2. p \in Request
    BY <1>1, <1>a DEF Request, PCs, Nullable, TablesOK, TablesTyped
  <2>. QED
    BY <1>1, <2>1, <2>2 DEF OnlyRequest
<1>4. ReqOK(r)'
  BY <1>1, <1>2, <1>a DEF Reread, At, ReqOK, LocalsSet, RotationLocals, AnswerIsLogged,
                          Extends, SameSession, RefreshPCs
<1>. QED
  BY <1>2, <1>3, <1>4, Combine

LEMMA SaveLogOK ==
    ASSUME RowsOK, NEW r \in Requests, SaveLog(r)
    PROVE  RowsOK'
<1>. DEFINE q == reqs[r]
<1>1. TablesOK /\ ReqOK(r) /\ reqs \in [Requests -> Request] /\ q \in Request
  BY RowsParts
<1>2. TablesOK' /\ Extends
  <2>1. q.sess \in DOMAIN sessions /\ q.at \in Nat
    BY <1>1 DEF SaveLog, At, ReqOK, LocalsSet
  <2>2. /\ DOMAIN logs' = DOMAIN logs \cup {q.sess}
        /\ \A s \in DOMAIN logs' : logs'[s] \in ImpersonationLog
    BY <1>1, <2>1 DEF SaveLog, Insert, TablesOK, TablesTyped, ImpersonationLog, Nullable
  <2>. QED
    BY <1>1, <2>1, <2>2, LogsWritten DEF SaveLog, TablesOK, RowsLinked
<1>3. OnlyRequest(r)
  BY <1>1 DEF SaveLog, SetPc, OnlyRequest, Request, PCs
<1>4. ReqOK(r)'
  <2>1. q.sess \in DOMAIN logs'
    BY DEF SaveLog, Insert
  <2>. QED
    BY <1>1, <1>2, <2>1 DEF SaveLog, SetPc, At, ReqOK, LocalsSet, RotationLocals, AnswerIsLogged,
                            Extends, SameSession, RefreshPCs
<1>. QED
  BY <1>2, <1>3, <1>4, Combine

LEMMA CloseLogOK ==
    ASSUME RowsOK, NEW r \in Requests, NEW s \in DOMAIN logs, CloseLog(r, s)
    PROVE  RowsOK'
<1>. DEFINE q == reqs[r]
<1>1. TablesOK /\ ReqOK(r) /\ reqs \in [Requests -> Request] /\ q \in Request
  BY RowsParts
<1>2. TablesOK' /\ Extends
  <2>1. q.at \in Nat /\ s \in DOMAIN logs
    BY <1>1 DEF CloseLog, At, ReqOK, LocalsSet
  <2>2. /\ DOMAIN logs' = DOMAIN logs
        /\ \A x \in DOMAIN logs : logs'[x] \in ImpersonationLog
    BY <1>1, <2>1 DEF CloseLog, TablesOK, TablesTyped, ImpersonationLog, Nullable
  <2>. QED
    BY <1>1, <2>2, LogsWritten DEF CloseLog, TablesOK, RowsLinked
<1>3. OnlyRequest(r)
  BY <1>1 DEF CloseLog, OnlyRequest, Request
<1>4. ReqOK(r)'
  BY <1>1, <1>2 DEF CloseLog, At, ReqOK, LocalsSet, RotationLocals, AnswerIsLogged, Extends,
     SameSession,
                    RefreshPCs
<1>. QED
  BY <1>2, <1>3, <1>4, Combine

LEMMA IssueSessionOK ==
    ASSUME RowsOK, NEW r \in Requests, IssueSession(r)
    PROVE  RowsOK'
<1>. DEFINE q == reqs[r]
<1>1. TablesOK /\ ReqOK(r) /\ reqs \in [Requests -> Request] /\ q \in Request
  BY RowsParts
<1>. DEFINE supervised == q.op = "impersonate"
            row == [user |-> q.user, impersonated |-> supervised,
                    expiresAt |-> IF supervised THEN q.at + ImpersonationTtl ELSE None,
                    lastUsedAt |-> clock, revokedAt |-> None, revokedReason |-> None]
<1>. PICK s \in SessionIds \ DOMAIN sessions :
       /\ sessions' = Insert(sessions, s, row)
       /\ reqs' = [reqs EXCEPT ![r].pc = "issueToken", ![r].sess = s]
  BY DEF IssueSession
<1>a. row \in AuthSession /\ TablesOK
  <2>1. /\ q.user \in Users /\ clock \in Nat
        /\ supervised => q.at + ImpersonationTtl \in Nat
    BY <1>1, BoundsAssumption DEF IssueSession, At, ReqOK, LocalsSet, TablesOK, TablesTyped
  <2>. QED
    BY <1>1, <2>1 DEF AuthSession, Nullable
<1>b. /\ s \in DOMAIN sessions' /\ sessions'[s] = row
      /\ q.op # "impersonate" => ~sessions'[s].impersonated
  <2>1. s \in DOMAIN sessions' /\ sessions'[s] = row
    BY <1>a, SessionInserted DEF IssueSession
  <2>2. row.impersonated = supervised
    OBVIOUS
  <2>. QED
    BY <2>1, <2>2
<1>. DEFINE p == [q EXCEPT !.pc = "issueToken", !.sess = s]
<1>c. reqs' = [reqs EXCEPT ![r] = p] /\ reqs'[r] = p
  BY <1>1
<1>d. p \in Request
  BY <1>1 DEF Request, PCs, Nullable
<1>2. TablesOK' /\ Extends
  BY <1>a, SessionInserted DEF IssueSession
<1>3. OnlyRequest(r)
  BY <1>1, <1>c, <1>d DEF OnlyRequest
<1>4. ReqOK(r)'
  <2>1. /\ reqs'[r].pc = "issueToken" /\ reqs'[r].sess = s /\ reqs'[r].op = q.op
        /\ reqs'[r].user = q.user /\ reqs'[r].at = q.at /\ reqs'[r].version = q.version
    BY <1>1, <1>c DEF Request
  <2>2. LocalsSet(r)'
    BY <1>1, <1>2, <1>b, <2>1 DEF IssueSession, At, ReqOK, LocalsSet, Extends, RefreshPCs
  <2>3. RotationLocals(r)'
    BY <1>1, <1>2, <1>b, <2>1 DEF IssueSession, At, ReqOK, LocalsSet, RotationLocals, Extends,
       SameSession, RefreshPCs
  <2>4. AnswerIsLogged(r)'
    BY <1>1, <1>2, <1>b, <2>1 DEF IssueSession, At, ReqOK, LocalsSet, AnswerIsLogged, Extends,
       SameSession, RefreshPCs
  <2>. QED
    BY <2>2, <2>3, <2>4 DEF ReqOK
<1>. QED
  BY <1>2, <1>3, <1>4, Combine

LEMMA IssueTokenOK ==
    ASSUME RowsOK, NEW r \in Requests, IssueToken(r)
    PROVE  RowsOK'
<1>. DEFINE q == reqs[r]
<1>1. TablesOK /\ ReqOK(r) /\ reqs \in [Requests -> Request] /\ q \in Request
  BY RowsParts
<1>. DEFINE supervised == q.op = "impersonate"
            row == SavedToken(r, IF supervised THEN q.at + ImpersonationTtl ELSE None)
<1>. PICK t \in TokenIds \ DOMAIN tokens :
       /\ tokens' = Insert(tokens, t, row)
       /\ reqs' = [reqs EXCEPT ![r].new = t,
                               ![r].pc = IF supervised THEN "saveLog" ELSE "respond"]
  BY DEF IssueToken
<1>a. /\ TablesOK /\ row \in RefreshToken /\ row.session = q.sess
      /\ q.sess \in DOMAIN sessions /\ row.replacedById = None /\ ~row.sent
  <2>1. q.sess \in DOMAIN sessions /\ q.sess \in SessionIds /\ q.version \in Nat
    BY <1>1 DEF IssueToken, At, ReqOK, LocalsSet, TablesOK, TablesTyped
  <2>2. (IF supervised THEN q.at + ImpersonationTtl ELSE None) \in Nullable(Nat)
    BY <1>1, BoundsAssumption DEF ReqOK, LocalsSet, Nullable
  <2>. QED
    BY <1>1, <2>1, <2>2, SavedTokenType
<1>b. t \in DOMAIN tokens' /\ tokens'[t] = row
  BY <1>a, TokenInserted DEF IssueToken
<1>. PICK next \in {"saveLog", "respond"} : next = IF supervised THEN "saveLog" ELSE "respond"
  OBVIOUS
<1>. DEFINE p == [q EXCEPT !.new = t, !.pc = next]
<1>c. reqs' = [reqs EXCEPT ![r] = p] /\ reqs'[r] = p
  BY <1>1
<1>d. p \in Request
  <2>1. next \in PCs
    BY DEF PCs
  <2>2. ASSUME NEW pc \in PCs PROVE [q EXCEPT !.new = t, !.pc = pc] \in Request
    BY <1>1 DEF Request, Nullable
  <2>. QED
    BY <2>1, <2>2
<1>e. /\ p.pc = "saveLog" => p.op = "impersonate"
      /\ p.pc = "respond" => ~sessions'[p.sess].impersonated
  BY <1>1, <1>c DEF IssueToken, At, ReqOK, AnswerIsLogged
<1>2. TablesOK' /\ Extends
  BY <1>a, TokenInserted DEF IssueToken
<1>3. OnlyRequest(r)
  BY <1>1, <1>c, <1>d DEF OnlyRequest
<1>4. ReqOK(r)'
  <2>1. /\ reqs'[r].pc \in {"saveLog", "respond"} /\ reqs'[r].sess = q.sess
        /\ reqs'[r].new = t /\ reqs'[r].op = q.op /\ reqs'[r].user = q.user
        /\ reqs'[r].at = q.at
    BY <1>1, <1>c DEF Request
  <2>2. LocalsSet(r)'
    BY <1>1, <1>2, <1>a, <1>b, <1>c, <1>e, <2>1 DEF IssueToken, At, ReqOK, LocalsSet, Extends,
       RefreshPCs
  <2>3. RotationLocals(r)'
    BY <1>1, <1>2, <1>a, <1>b, <1>c, <1>e, <2>1 DEF IssueToken, At, ReqOK, LocalsSet,
       RotationLocals, Extends, SameSession, RefreshPCs
  <2>4. AnswerIsLogged(r)'
    BY <1>1, <1>2, <1>a, <1>b, <1>c, <1>e, <2>1 DEF IssueToken, At, ReqOK, LocalsSet,
       AnswerIsLogged, Extends, SameSession, RefreshPCs
  <2>. QED
    BY <2>2, <2>3, <2>4 DEF ReqOK
<1>. QED
  BY <1>2, <1>3, <1>4, Combine

LEMMA SaveTokenOK ==
    ASSUME RowsOK, NEW r \in Requests, SaveToken(r)
    PROVE  RowsOK'
<1>. DEFINE q == reqs[r]
<1>1. TablesOK /\ ReqOK(r) /\ reqs \in [Requests -> Request] /\ q \in Request
  BY RowsParts
<1>. DEFINE row == SavedToken(r, None)
<1>. PICK t \in TokenIds \ DOMAIN tokens :
       /\ tokens' = Insert(tokens, t, row)
       /\ reqs' = [reqs EXCEPT ![r].pc = "retireToken", ![r].new = t]
  BY DEF SaveToken
<1>a. /\ TablesOK /\ row \in RefreshToken /\ row.session = q.sess
      /\ q.sess \in DOMAIN sessions /\ row.replacedById = None /\ ~row.sent
  <2>1. q.sess \in DOMAIN sessions /\ q.sess \in SessionIds /\ q.version \in Nat
    BY <1>1 DEF SaveToken, At, ReqOK, LocalsSet, RefreshPCs, TablesOK, TablesTyped
  <2>. QED
    BY <1>1, <2>1, SavedTokenType DEF Nullable
<1>b. t \in DOMAIN tokens' /\ tokens'[t] = row
  BY <1>a, TokenInserted DEF SaveToken
<1>. DEFINE p == [q EXCEPT !.pc = "retireToken", !.new = t]
<1>c. reqs' = [reqs EXCEPT ![r] = p] /\ reqs'[r] = p
  BY <1>1
<1>d. p \in Request
  BY <1>1 DEF Request, PCs, Nullable
<1>e. q.tok \in DOMAIN tokens /\ q.tok # t
  BY <1>1 DEF SaveToken, At, ReqOK, RotationLocals
<1>2. TablesOK' /\ Extends
  BY <1>a, TokenInserted DEF SaveToken
<1>3. OnlyRequest(r)
  BY <1>1, <1>c, <1>d DEF OnlyRequest
<1>4. ReqOK(r)'
  <2>1. /\ reqs'[r].pc = "retireToken" /\ reqs'[r].sess = q.sess /\ reqs'[r].new = t
        /\ reqs'[r].op = q.op /\ reqs'[r].user = q.user /\ reqs'[r].at = q.at
        /\ reqs'[r].tok = q.tok /\ reqs'[r].seen = q.seen
    BY <1>1, <1>c DEF Request
  <2>2. LocalsSet(r)'
    BY <1>1, <1>2, <1>a, <1>b, <1>e, <2>1 DEF SaveToken, At, ReqOK, LocalsSet, Extends, RefreshPCs
  <2>3. RotationLocals(r)'
    BY <1>1, <1>2, <1>a, <1>b, <1>e, <2>1 DEF SaveToken, At, ReqOK, LocalsSet, RotationLocals,
       Extends, SameSession, RefreshPCs
  <2>4. AnswerIsLogged(r)'
    BY <1>1, <1>2, <1>a, <1>b, <1>e, <2>1 DEF SaveToken, At, ReqOK, LocalsSet, AnswerIsLogged,
       Extends, SameSession, RefreshPCs
  <2>. QED
    BY <2>2, <2>3, <2>4 DEF ReqOK
<1>. QED
  BY <1>2, <1>3, <1>4, Combine

LEMMA RespondOK ==
    ASSUME RowsOK, NEW r \in Requests, Respond(r)
    PROVE  RowsOK'
<1>. DEFINE q == reqs[r]
<1>1. TablesOK /\ ReqOK(r) /\ reqs \in [Requests -> Request] /\ q \in Request
  BY RowsParts
<1>2. TablesOK' /\ Extends
  <2>1. /\ q.new \in DOMAIN tokens
        /\ sessions[tokens[q.new].session].impersonated => tokens[q.new].session \in DOMAIN logs
    BY <1>1 DEF Respond, At, ReqOK, RotationLocals, AnswerIsLogged
  <2>2. /\ DOMAIN tokens' = DOMAIN tokens
        /\ \A t \in DOMAIN tokens :
              /\ tokens'[t] \in RefreshToken
              /\ tokens'[t].session = tokens[t].session
              /\ tokens'[t].revokedAt = tokens[t].revokedAt
              /\ tokens'[t].replacedById = tokens[t].replacedById
              /\ t # q.new => tokens'[t] = tokens[t]
    BY <1>1, <2>1 DEF Respond, TablesOK, TablesTyped, RefreshToken
  <2>3. RotationWellFormed'
    BY <1>1, <2>2 DEF TablesOK, RotationWellFormed
  <2>4. LogBeforeCredential'
    BY <1>1, <2>1, <2>2 DEF Respond, TablesOK, LogBeforeCredential
  <2>. QED
    BY <1>1, <2>2, <2>3, <2>4 DEF Respond, TablesOK, TablesTyped, RowsLinked, Extends, SameSession
<1>3. OnlyRequest(r) /\ ReqOK(r)'
  BY FinishOK DEF Respond
<1>. QED
  BY <1>2, <1>3, Combine

LEMMA RetireTokenOK ==
    ASSUME RowsOK, NEW r \in Requests, RetireToken(r)
    PROVE  RowsOK'
<1>. DEFINE q == reqs[r]
<1>1. TablesOK /\ ReqOK(r) /\ reqs \in [Requests -> Request] /\ q \in Request
  BY RowsParts
<1>2. TablesOK' /\ Extends
  <2>1. /\ q.tok \in DOMAIN tokens /\ q.new \in DOMAIN tokens /\ q.new # q.tok
        /\ tokens[q.tok].session = q.sess /\ tokens[q.new].session = q.sess
        /\ clock \in Nat /\ clock # None
    BY <1>1, NoneAssumption DEF RetireToken, At, ReqOK, RotationLocals, TablesOK, TablesTyped
  <2>2. DOMAIN tokens' = DOMAIN tokens
    BY DEF RetireToken
  <2>3. \A t \in DOMAIN tokens : t # q.tok => tokens'[t] = tokens[t]
    BY DEF RetireToken
  <2>4. tokens'[q.tok] = [tokens[q.tok] EXCEPT !.revokedAt = clock, !.replacedById = q.new]
    BY <2>1 DEF RetireToken
  <2>5. /\ tokens'[q.tok] \in RefreshToken /\ tokens'[q.tok].session = tokens[q.tok].session
        /\ tokens'[q.tok].sent = tokens[q.tok].sent /\ tokens'[q.tok].revokedAt = clock
        /\ tokens'[q.tok].replacedById = q.new
    BY <1>1, <2>1, <2>4 DEF TablesOK, TablesTyped, RefreshToken, Nullable
  <2>6. RotationWellFormed'
    BY <1>1, <2>1, <2>2, <2>3, <2>5 DEF TablesOK, RotationWellFormed
  <2>7. LogBeforeCredential'
    BY <1>1, <2>2, <2>3, <2>5 DEF RetireToken, TablesOK, LogBeforeCredential
  <2>. QED
    BY <1>1, <2>2, <2>3, <2>5, <2>6, <2>7
    DEF RetireToken, TablesOK, TablesTyped, RowsLinked, Extends, SameSession
<1>3. OnlyRequest(r)
  BY <1>1 DEF RetireToken, SetPc, OnlyRequest, Request, PCs
<1>4. ReqOK(r)'
  BY <1>1, <1>2 DEF RetireToken, SetPc, At, ReqOK, LocalsSet, RotationLocals, AnswerIsLogged,
     Extends, SameSession, RefreshPCs
<1>. QED
  BY <1>2, <1>3, <1>4, Combine

LEMMA SaveSessionOK ==
    ASSUME RowsOK, NEW r \in Requests, SaveSession(r)
    PROVE  RowsOK'
<1>. DEFINE q == reqs[r]
<1>1. TablesOK /\ ReqOK(r) /\ reqs \in [Requests -> Request] /\ q \in Request
  BY RowsParts
<1>2. TablesOK' /\ Extends
  <2>1. /\ q.sess \in DOMAIN sessions /\ q.seen \in AuthSession
        /\ SameSession(q.seen, sessions[q.sess]) /\ clock \in Nat
    BY <1>1 DEF SaveSession, At, ReqOK, LocalsSet, RotationLocals, RefreshPCs, TablesOK,
       TablesTyped
  <2>2. /\ DOMAIN sessions' = DOMAIN sessions
        /\ \A s \in DOMAIN sessions : s # q.sess => sessions'[s] = sessions[s]
        /\ sessions'[q.sess] = [q.seen EXCEPT !.lastUsedAt = clock]
    BY <2>1 DEF SaveSession
  <2>3. \A s \in DOMAIN sessions : /\ sessions'[s] \in AuthSession
                                   /\ SameSession(sessions[s], sessions'[s])
    BY <1>1, <2>1, <2>2 DEF TablesOK, TablesTyped, AuthSession, SameSession
  <2>4. \A t \in DOMAIN tokens : tokens[t].session \in DOMAIN sessions
    BY <1>1 DEF TablesOK, RowsLinked
  <2>. QED
    BY <1>1, <2>2, <2>3, <2>4
    DEF SaveSession, TablesOK, TablesTyped, RowsLinked, RotationWellFormed, LogBeforeCredential,
        Extends, SameSession
<1>3. OnlyRequest(r)
  BY <1>1 DEF SaveSession, SetPc, OnlyRequest, Request, PCs
<1>4. ReqOK(r)'
  <2>1. /\ reqs'[r].pc = "respond" /\ reqs'[r].sess = q.sess /\ reqs'[r].new = q.new
        /\ reqs'[r].op = q.op /\ reqs'[r].user = q.user /\ reqs'[r].at = q.at
    BY <1>1 DEF SaveSession, SetPc, Request
  <2>2. LocalsSet(r)'
    BY <1>1, <1>2, <2>1 DEF SaveSession, At, ReqOK, LocalsSet, Extends, RefreshPCs
  <2>3. RotationLocals(r)'
    BY <1>1, <1>2, <2>1 DEF SaveSession, At, ReqOK, LocalsSet, RotationLocals, Extends,
       SameSession, RefreshPCs
  <2>4. AnswerIsLogged(r)'
    BY <1>1, <1>2, <2>1 DEF SaveSession, At, ReqOK, LocalsSet, AnswerIsLogged, Extends,
       SameSession, RefreshPCs
  <2>. QED
    BY <2>2, <2>3, <2>4 DEF ReqOK
<1>. QED
  BY <1>2, <1>3, <1>4, Combine

LEMMA CheckPasswordOK ==
    ASSUME RowsOK, NEW r \in Requests, CheckPassword(r)
    PROVE  RowsOK'
<1>. DEFINE q == reqs[r]
<1>1. TablesOK /\ ReqOK(r) /\ reqs \in [Requests -> Request] /\ q \in Request
  BY RowsParts
<1>2. TablesOK' /\ Extends
  BY <1>1, TablesUnchanged DEF CheckPassword
<1>3. CASE Finish(r)
  BY <1>2, <1>3, FinishOK, Combine
<1>4. CASE SetPc(r, "setPassword")
  <2>1. OnlyRequest(r)
    BY <1>1, <1>4 DEF SetPc, OnlyRequest, Request, PCs
  <2>2. ReqOK(r)'
    BY <1>1, <1>2, <1>4 DEF CheckPassword, SetPc, At, ReqOK, LocalsSet, RotationLocals,
       AnswerIsLogged,
                            Extends, SameSession, RefreshPCs
  <2>. QED
    BY <1>2, <2>1, <2>2, Combine
<1>. QED
  BY <1>3, <1>4 DEF CheckPassword

LEMMA LogsClosedOK ==
    ASSUME RowsOK, NEW r \in Requests, LogsClosed(r)
    PROVE  RowsOK'
<1>. DEFINE q == reqs[r]
<1>1. TablesOK /\ ReqOK(r) /\ reqs \in [Requests -> Request] /\ q \in Request
  BY RowsParts
<1>2. TablesOK' /\ Extends
  BY <1>1, TablesUnchanged DEF LogsClosed
<1>3. CASE Finish(r)
  BY <1>2, <1>3, FinishOK, Combine
<1>4. CASE q.op = "exit" /\ SetPc(r, "exitSession")
  <2>1. OnlyRequest(r)
    BY <1>1, <1>4 DEF SetPc, OnlyRequest, Request, PCs
  <2>2. ReqOK(r)'
    BY <1>1, <1>2, <1>4 DEF LogsClosed, SetPc, At, ReqOK, LocalsSet, RotationLocals,
       AnswerIsLogged,
                            Extends, SameSession, RefreshPCs
  <2>. QED
    BY <1>2, <2>1, <2>2, Combine
<1>5. CASE q.op = "change" /\ SetPc(r, "reread")
  <2>1. OnlyRequest(r)
    BY <1>1, <1>5 DEF SetPc, OnlyRequest, Request, PCs
  <2>2. ReqOK(r)'
    BY <1>1, <1>2, <1>5 DEF LogsClosed, SetPc, At, ReqOK, LocalsSet, RotationLocals,
       AnswerIsLogged,
                            Extends, SameSession, RefreshPCs
  <2>. QED
    BY <1>2, <2>1, <2>2, Combine
<1>. QED
  BY <1>3, <1>4, <1>5 DEF LogsClosed

LEMMA KillSessionOK ==
    ASSUME RowsOK, NEW r \in Requests, KillSession(r)
    PROVE  RowsOK'
<1>. DEFINE q == reqs[r]
<1>1. TablesOK /\ ReqOK(r) /\ reqs \in [Requests -> Request] /\ q \in Request
  BY RowsParts
<1>2. TablesOK' /\ Extends
  <2>1. q.at \in Nat /\ "token-reuse" \in Reasons
    BY <1>1 DEF KillSession, At, ReqOK, LocalsSet, Reasons
  <2>. QED
    BY <1>1, <2>1, SessionsRevoked DEF KillSession
<1>3. CASE Finish(r)
  BY <1>2, <1>3, FinishOK, Combine
<1>4. CASE SetPc(r, "findLogs")
  <2>1. OnlyRequest(r)
    BY <1>1, <1>4 DEF SetPc, OnlyRequest, Request, PCs
  <2>2. ReqOK(r)'
    BY <1>1, <1>2, <1>4 DEF KillSession, SetPc, At, ReqOK, LocalsSet, RotationLocals,
       AnswerIsLogged,
                            Extends, SameSession, RefreshPCs
  <2>. QED
    BY <1>2, <2>1, <2>2, Combine
<1>. QED
  BY <1>3, <1>4 DEF KillSession

LEMMA SetStatusOK ==
    ASSUME RowsOK, NEW r \in Requests, SetStatus(r)
    PROVE  RowsOK'
<1>. DEFINE q == reqs[r]
<1>1. TablesOK /\ ReqOK(r) /\ reqs \in [Requests -> Request] /\ q \in Request
  BY RowsParts
<1>2. TablesOK' /\ Extends
  <2>1. q.user \in Users
    BY <1>1 DEF SetStatus, At, ReqOK, LocalsSet
  <2>2. users' \in [Users -> User]
    BY <1>1, <2>1 DEF SetStatus, TablesOK, TablesTyped, User
  <2>. QED
    BY <1>1, <2>2, UsersWritten DEF SetStatus
<1>3. CASE Finish(r)
  BY <1>2, <1>3, FinishOK, Combine
<1>4. CASE q.op = "deactivate" /\ SetPc(r, "revokeSessions")
  <2>1. OnlyRequest(r)
    BY <1>1, <1>4 DEF SetPc, OnlyRequest, Request, PCs
  <2>2. ReqOK(r)'
    BY <1>1, <1>2, <1>4 DEF SetStatus, SetPc, At, ReqOK, LocalsSet, RotationLocals,
       AnswerIsLogged,
                            Extends, SameSession, RefreshPCs
  <2>. QED
    BY <1>2, <2>1, <2>2, Combine
<1>. QED
  BY <1>3, <1>4 DEF SetStatus

LEMMA SetPasswordOK ==
    ASSUME RowsOK, NEW r \in Requests, SetPassword(r)
    PROVE  RowsOK'
<1>. DEFINE q == reqs[r]
<1>1. TablesOK /\ ReqOK(r) /\ reqs \in [Requests -> Request] /\ q \in Request
  BY RowsParts
<1>2. TablesOK' /\ Extends
  <2>1. q.user \in Users
    BY <1>1 DEF SetPassword, At, ReqOK, LocalsSet
  <2>2. users[q.user] \in User /\ users[q.user].version + 1 \in Nat
    BY <1>1, <2>1 DEF TablesOK, TablesTyped, User
  <2>3. users' \in [Users -> User]
    BY <1>1, <2>1, <2>2 DEF SetPassword, TablesOK, TablesTyped, User
  <2>. QED
    BY <1>1, <2>3, UsersWritten DEF SetPassword
<1>3. OnlyRequest(r)
  BY <1>1 DEF SetPassword, SetPc, OnlyRequest, Request, PCs
<1>4. ReqOK(r)'
  BY <1>1, <1>2 DEF SetPassword, SetPc, At, ReqOK, LocalsSet, RotationLocals, AnswerIsLogged,
     Extends, SameSession, RefreshPCs
<1>. QED
  BY <1>2, <1>3, <1>4, Combine

LEMMA ReadUserOK ==
    ASSUME RowsOK, NEW r \in Requests, ReadUser(r)
    PROVE  RowsOK'
<1>. DEFINE q == reqs[r]
<1>1. TablesOK /\ ReqOK(r) /\ reqs \in [Requests -> Request] /\ q \in Request
  BY RowsParts
<1>2. TablesOK' /\ Extends
  BY <1>1, TablesUnchanged DEF ReadUser
<1>3. CASE Finish(r)
  BY <1>2, <1>3, FinishOK, Combine
<1>4. CASE reqs' = [reqs EXCEPT ![r].pc = "saveToken", ![r].version = users[q.user].version]
  <2>. DEFINE p == [q EXCEPT !.pc = "saveToken", !.version = users[q.user].version]
  <2>a. users[q.user].version \in Nat
    BY <1>1 DEF ReadUser, At, ReqOK, LocalsSet, TablesOK, TablesTyped, User
  <2>b. reqs' = [reqs EXCEPT ![r] = p] /\ reqs'[r] = p
    BY <1>1, <1>4
  <2>c. p \in Request
    BY <1>1, <2>a DEF Request, PCs, Nullable
  <2>1. OnlyRequest(r)
    BY <1>1, <2>b, <2>c DEF OnlyRequest
  <2>d. /\ reqs'[r].pc = "saveToken" /\ reqs'[r].op = q.op /\ reqs'[r].user = q.user
        /\ reqs'[r].at = q.at /\ reqs'[r].sess = q.sess /\ reqs'[r].tok = q.tok
        /\ reqs'[r].seen = q.seen /\ reqs'[r].version = users[q.user].version
    BY <1>1, <2>b DEF Request
  <2>2. ReqOK(r)'
    BY <1>1, <1>2, <2>a, <2>d DEF ReadUser, At, ReqOK, LocalsSet, RotationLocals, AnswerIsLogged,
                            Extends, SameSession, RefreshPCs
  <2>. QED
    BY <1>2, <2>1, <2>2, Combine
<1>. QED
  BY <1>3, <1>4 DEF ReadUser

LEMMA ReadSessionOK ==
    ASSUME RowsOK, NEW r \in Requests, ReadSession(r)
    PROVE  RowsOK'
<1>. DEFINE q == reqs[r]
<1>. DEFINE lapsed == sessions[q.sess].expiresAt # None /\ sessions[q.sess].expiresAt < clock
            why == IF lapsed THEN "expired" ELSE "idle-timeout"
<1>1. TablesOK /\ ReqOK(r) /\ reqs \in [Requests -> Request] /\ q \in Request
  BY RowsParts
<1>2. TablesOK' /\ Extends
  BY <1>1, TablesUnchanged DEF ReadSession
<1>3. CASE Finish(r)
  BY <1>2, <1>3, FinishOK, Combine
<1>4. CASE reqs' = [reqs EXCEPT ![r].pc = "endSession", ![r].reason = why]
  <2>. DEFINE p == [q EXCEPT !.pc = "endSession", !.reason = why]
  <2>a. why \in Reasons
    BY <1>1 DEF Reasons
  <2>b. reqs' = [reqs EXCEPT ![r] = p] /\ reqs'[r] = p
    BY <1>1, <1>4
  <2>c. p \in Request
    <3>1. ASSUME NEW reason \in Reasons
          PROVE  [q EXCEPT !.pc = "endSession", !.reason = reason] \in Request
      BY <1>1 DEF Request, PCs, Nullable
    <3>. QED
      BY <2>a, <3>1
  <2>1. OnlyRequest(r)
    BY <1>1, <2>b, <2>c DEF OnlyRequest
  <2>d. /\ reqs'[r].pc = "endSession" /\ reqs'[r].op = q.op /\ reqs'[r].user = q.user
        /\ reqs'[r].at = q.at /\ reqs'[r].sess = q.sess /\ reqs'[r].tok = q.tok
        /\ reqs'[r].reason = why
    BY <1>1, <2>b DEF Request
  <2>2. ReqOK(r)'
    BY <1>1, <1>2, <2>a, <2>d DEF ReadSession, At, ReqOK, LocalsSet, RotationLocals,
       AnswerIsLogged,
                            Extends, SameSession, RefreshPCs
  <2>. QED
    BY <1>2, <2>1, <2>2, Combine
<1>5. CASE reqs' = [reqs EXCEPT ![r].pc = "readUser", ![r].seen = sessions[q.sess]]
  <2>. DEFINE p == [q EXCEPT !.pc = "readUser", !.seen = sessions[q.sess]]
  <2>a. sessions[q.sess] \in AuthSession
    BY <1>1 DEF ReadSession, At, ReqOK, LocalsSet, RefreshPCs, TablesOK, TablesTyped
  <2>b. reqs' = [reqs EXCEPT ![r] = p] /\ reqs'[r] = p
    BY <1>1, <1>5
  <2>c. p \in Request
    BY <1>1, <2>a DEF Request, PCs, Nullable
  <2>1. OnlyRequest(r)
    BY <1>1, <2>b, <2>c DEF OnlyRequest
  <2>d. /\ reqs'[r].pc = "readUser" /\ reqs'[r].op = q.op /\ reqs'[r].user = q.user
        /\ reqs'[r].at = q.at /\ reqs'[r].sess = q.sess /\ reqs'[r].tok = q.tok
        /\ reqs'[r].seen = sessions[q.sess]
    BY <1>1, <2>b DEF Request
  <2>2. ReqOK(r)'
    BY <1>1, <1>2, <2>a, <2>d DEF ReadSession, At, ReqOK, LocalsSet, RotationLocals,
       AnswerIsLogged,
                            Extends, SameSession, RefreshPCs
  <2>. QED
    BY <1>2, <2>1, <2>2, Combine
<1>. QED
  BY <1>3, <1>4, <1>5 DEF ReadSession

LEMMA ReconcileOpenLogsOK ==
    ASSUME RowsOK, NEW r \in Requests, ReconcileOpenLogs(r)
    PROVE  RowsOK'
<1>. DEFINE q == reqs[r]
<1>1. TablesOK /\ ReqOK(r) /\ reqs \in [Requests -> Request] /\ q \in Request
  BY RowsParts
<1>2. TablesOK' /\ Extends
  <2>. DEFINE due == {s \in q.open : logs[s].endedAt = None /\ Ended(s, q.at)}
              endedAt(s) == IF Live(s) THEN sessions[s].expiresAt ELSE sessions[s].revokedAt
  <2>1. q.open \subseteq DOMAIN logs
    BY <1>1 DEF ReconcileOpenLogs, At, ReqOK, LocalsSet
  <2>2. \A s \in due : endedAt(s) \in Nat
    BY <1>1, <2>1 DEF Ended, Live, TablesOK, TablesTyped, RowsLinked, AuthSession, Nullable
  <2>3. /\ DOMAIN logs' = DOMAIN logs
        /\ \A s \in DOMAIN logs : logs'[s] \in ImpersonationLog
    BY <1>1, <2>2 DEF ReconcileOpenLogs, TablesOK, TablesTyped, ImpersonationLog, Nullable
  <2>. QED
    BY <1>1, <2>3, LogsWritten DEF ReconcileOpenLogs, TablesOK, RowsLinked
<1>3. OnlyRequest(r) /\ ReqOK(r)'
  BY FinishOK DEF ReconcileOpenLogs
<1>. QED
  BY <1>2, <1>3, Combine

LEMMA StartLogoutOK ==
    ASSUME RowsOK, NEW r \in Requests, NEW t \in DOMAIN tokens, StartLogout(r, t)
    PROVE  RowsOK'
<1>. DEFINE q == [Idle EXCEPT !.pc = "logoutSession", !.op = "logout", !.at = clock,
                             !.sess = tokens[t].session,
                             !.user = sessions[tokens[t].session].user]
<1>1. /\ TablesOK /\ reqs \in [Requests -> Request]
      /\ clock \in Nat
      /\ tokens[t].session \in SessionIds \cap DOMAIN sessions
      /\ sessions[tokens[t].session].user \in Users
  BY RowsParts DEF TablesOK, TablesTyped, RowsLinked, RefreshToken, AuthSession
<1>2. TablesOK' /\ Extends
  BY <1>1, TokensRevoked DEF StartLogout
<1>3. q \in Request
  BY <1>1 DEF Idle, Request, Nullable, PCs, OpNames
<1>4. reqs' = [reqs EXCEPT ![r] = q] /\ reqs'[r] = q
  BY <1>1 DEF StartLogout
<1>5. OnlyRequest(r)
  BY <1>1, <1>3, <1>4 DEF OnlyRequest
<1>6. /\ q.pc = "logoutSession" /\ q.op = "logout" /\ q.user \in Users /\ q.at \in Nat
      /\ q.sess \in DOMAIN sessions
  BY <1>1 DEF Idle
<1>7. ReqOK(r)'
  BY <1>2, <1>4, <1>6
  DEF ReqOK, LocalsSet, RotationLocals, AnswerIsLogged, Extends, RefreshPCs, OpNames
<1>. QED
  BY <1>2, <1>5, <1>7, Combine

LEMMA TickOK ==
    ASSUME RowsOK, Tick
    PROVE  RowsOK'
<1>1. TablesOK /\ reqs \in [Requests -> Request] /\ \A r \in Requests : ReqOK(r)
  BY RowsParts
<1>2. TablesOK' /\ Extends
  BY <1>1 DEF Tick, TablesOK, TablesTyped, RowsLinked, RotationWellFormed, LogBeforeCredential,
              Extends, SameSession
<1>3. \A r \in Requests : ReqOK(r)'
  BY <1>1, <1>2, LocalsSurvive DEF Tick
<1>. QED
  BY <1>1, <1>2, <1>3, RowsPartsPrimed DEF Tick

LEMMA CrashOK ==
    ASSUME RowsOK, NEW r \in Requests, Crash(r)
    PROVE  RowsOK'
<1>1. TablesOK' /\ Extends
  BY RowsParts, TablesUnchanged DEF Crash
<1>2. OnlyRequest(r) /\ ReqOK(r)'
  BY FinishOK DEF Crash
<1>. QED
  BY <1>1, <1>2, Combine

LEMMA StutterOK ==
    ASSUME RowsOK, UNCHANGED vars
    PROVE  RowsOK'
<1>1. TablesOK /\ reqs \in [Requests -> Request] /\ \A r \in Requests : ReqOK(r)
  BY RowsParts
<1>2. TablesOK' /\ Extends
  BY <1>1, TablesUnchanged DEF vars
<1>3. \A r \in Requests : ReqOK(r)'
  BY <1>1, <1>2, LocalsSurvive DEF vars
<1>. QED
  BY <1>1, <1>2, <1>3, RowsPartsPrimed DEF vars

----------------------------------------------------------------------------
(* The inductive invariant *)

LEMMA InitOK == Init => RowsOK
<1>. SUFFICES ASSUME Init PROVE RowsOK
  OBVIOUS
<1>1. TablesOK
  <2>1. \A u \in Users : [status |-> "active", password |-> 0, weak |-> u \in WeakHashes,
                          version |-> 0] \in User
    BY DEF User
  <2>2. /\ DOMAIN sessions = {} /\ DOMAIN tokens = {} /\ DOMAIN logs = {} /\ clock = 0
        /\ users \in [Users -> User]
    BY <2>1 DEF Init
  <2>. QED
    BY <2>2 DEF TablesOK, TablesTyped, RowsLinked, RotationWellFormed, LogBeforeCredential
<1>2. reqs \in [Requests -> Request]
  BY IdleType DEF Init
<1>3. \A r \in Requests : ReqOK(r)
  <2>. SUFFICES ASSUME NEW r \in Requests PROVE ReqOK(r)
    OBVIOUS
  <2>1. reqs[r].pc = "idle" /\ reqs[r].op = None
    BY DEF Init, Idle
  <2>. QED
    BY <2>1, NoneAssumption
    DEF ReqOK, LocalsSet, RotationLocals, AnswerIsLogged, RefreshPCs, OpNames
<1>. QED
  BY <1>1, <1>2, <1>3, RowsParts

LEMMA NextOK == RowsOK /\ [Next]_vars => RowsOK'
<1>. SUFFICES ASSUME RowsOK, [Next]_vars PROVE RowsOK'
  OBVIOUS
<1>1. CASE Tick
  BY <1>1, TickOK
<1>2. ASSUME NEW r \in Requests, StartRequest(r) PROVE RowsOK'
  BY <1>2, StartLoginOK, StartResetOK, StartDeactivateOK, StartReactivateOK,
     StartImpersonationOK, StartRefreshOK, StartLogoutOK, StartChangePasswordOK,
     StartExitOK, StartHistoryOK DEF StartRequest
<1>3. ASSUME NEW r \in Requests, Continue(r) PROVE RowsOK'
  BY <1>3, IssueSessionOK, IssueTokenOK, RespondOK, RehashOK, KillFamilyOK, KillSessionOK,
     ReadSessionOK, EndSessionOK, ReadUserOK, SaveTokenOK, RetireTokenOK, SaveSessionOK,
     LogoutSessionOK, FindLogsOK, LogsClosedOK, CloseLogOK, RevokeAllSessionsOK,
     RevokeAllTokensOK, CheckPasswordOK, SetPasswordOK, RereadOK, ResetSessionsOK,
     SetStatusOK, SaveLogOK, ExitSessionOK, ExitTokensOK, ReconcileOpenLogsOK DEF Continue
<1>4. ASSUME NEW r \in Requests, Crash(r) PROVE RowsOK'
  BY <1>4, CrashOK
<1>5. CASE UNCHANGED vars
  BY <1>5, StutterOK
<1>. QED
  BY <1>1, <1>2, <1>3, <1>4, <1>5 DEF Next

(* The rows and the locals of every handler stay consistent in every       *)
(* interleaving and through every crash.                                   *)
THEOREM RowsInvariant == Spec => []RowsOK
  BY InitOK, NextOK, PTL DEF Spec

(* Every row and every in-flight request keeps the shape its handler gives *)
(* it.                                                                     *)
THEOREM TypeCorrect == Spec => []TypeOK
<1>1. RowsOK => TypeOK
  BY DEF RowsOK
<1>. QED
  BY <1>1, RowsInvariant, PTL

(* A refresh token is replaced only by a stored token of the same session, *)
(* and a replaced token is revoked.                                        *)
THEOREM RotationIsWellFormed == Spec => []RotationWellFormed
<1>1. RowsOK => RotationWellFormed
  BY DEF RowsOK
<1>. QED
  BY <1>1, RowsInvariant, PTL

(* No administrator holds a credential for an impersonation without an     *)
(* audit row, whatever crashes.                                            *)
THEOREM ImpersonationIsLogged == Spec => []LogBeforeCredential
<1>1. RowsOK => LogBeforeCredential
  BY DEF RowsOK
<1>. QED
  BY <1>1, RowsInvariant, PTL

----------------------------------------------------------------------------
(* Action properties *)

(* A token keeps its session and its version, and stays revoked. *)
TokenKept(t) ==
    /\ t \in DOMAIN tokens'
    /\ tokens'[t].session = tokens[t].session
    /\ tokens'[t].version = tokens[t].version
    /\ tokens[t].revokedAt # None => tokens'[t].revokedAt # None

LEMMA StepKeepsTokens ==
    ASSUME RowsOK, [Next]_vars, NEW t \in DOMAIN tokens
    PROVE  TokenKept(t)
<1>1. /\ clock \in Nat
      /\ \A r \in Requests : LocalsSet(r) /\ RotationLocals(r)
      /\ tokens[t] \in RefreshToken
      /\ None \notin Nat
  BY NoneAssumption DEF RowsOK, TypeOK, InFlightOK
<1>2. CASE tokens' = tokens
  BY <1>2 DEF TokenKept
<1>3. ASSUME NEW u \in TokenIds \ DOMAIN tokens, NEW row, tokens' = Insert(tokens, u, row)
      PROVE  TokenKept(t)
  BY <1>3 DEF Insert, TokenKept
<1>4. ASSUME NEW keys, NEW now \in Nat, RevokeTokens(keys, now)
      PROVE  TokenKept(t)
  <2>1. /\ t \in DOMAIN tokens'
        /\ tokens'[t] = IF t \in keys THEN [tokens[t] EXCEPT !.revokedAt = now] ELSE tokens[t]
    BY <1>4 DEF RevokeTokens
  <2>2. CASE t \in keys
    BY <1>1, <2>1, <2>2 DEF RefreshToken, TokenKept
  <2>. QED
    BY <2>1, <2>2 DEF TokenKept
<1>5. ASSUME NEW r \in Requests, Respond(r) PROVE TokenKept(t)
  BY <1>1, <1>5 DEF Respond, RefreshToken, TokenKept
<1>6. ASSUME NEW r \in Requests, RetireToken(r) PROVE TokenKept(t)
  BY <1>1, <1>6 DEF RetireToken, RefreshToken, TokenKept
<1>7. ASSUME NEW r \in Requests, KillFamily(r) \/ RevokeAllTokens(r) \/ ExitTokens(r)
      PROVE  TokenKept(t)
  <2>1. reqs[r].at \in Nat
    BY <1>1, <1>7 DEF KillFamily, RevokeAllTokens, ExitTokens, At, LocalsSet
  <2>. QED
    BY <1>4, <1>7, <2>1 DEF KillFamily, RevokeAllTokens, ExitTokens
<1>8. ASSUME NEW r \in Requests, IssueToken(r) \/ SaveToken(r)
      PROVE  TokenKept(t)
  BY <1>3, <1>8 DEF IssueToken, SaveToken
<1>9. ASSUME NEW r \in Requests, NEW u \in DOMAIN tokens, StartLogout(r, u)
      PROVE  TokenKept(t)
  BY <1>1, <1>4, <1>9 DEF StartLogout
<1>10. ASSUME NEW r \in Requests, StartRequest(r) PROVE TokenKept(t)
  BY <1>2, <1>9, <1>10
  DEF StartRequest, StartLogin, StartReset, StartDeactivate, StartReactivate,
      StartImpersonation, StartRefresh, StartChangePassword, StartExit, StartHistory
<1>11. ASSUME NEW r \in Requests, Continue(r) PROVE TokenKept(t)
  BY <1>2, <1>5, <1>6, <1>7, <1>8, <1>11
  DEF Continue, IssueSession, Rehash, KillSession, ReadSession, EndSession, ReadUser,
      SaveSession, LogoutSession, FindLogs, LogsClosed, CloseLog, RevokeAllSessions,
      CheckPassword, SetPassword, Reread, ResetSessions, SetStatus, SaveLog, ExitSession,
      ReconcileOpenLogs
<1>. QED
  BY <1>2, <1>10, <1>11 DEF Next, Tick, Crash, vars

(* Revoking a refresh token is final in every interleaving: no step of any *)
(* request writes over refresh_tokens.revoked_at.                          *)
THEOREM RevocationIsPermanent == Spec => TokenRevocationIsPermanent
<1>1. RowsOK /\ [Next]_vars =>
        [\A t \in DOMAIN tokens :
           tokens[t].revokedAt # None => tokens'[t].revokedAt # None]_vars
  BY StepKeepsTokens DEF TokenKept
<1>. QED
  BY <1>1, RowsInvariant, PTL DEF Spec, TokenRevocationIsPermanent

LEMMA StepKeepsSupervision ==
    ASSUME RowsOK, [Next]_vars, NEW s \in DOMAIN sessions
    PROVE  s \in DOMAIN sessions' /\ SameSession(sessions[s], sessions'[s])
<1>. DEFINE Same == s \in DOMAIN sessions' /\ SameSession(sessions[s], sessions'[s])
<1>1. CASE sessions' = sessions
  BY <1>1 DEF SameSession
<1>2. ASSUME NEW keys, NEW now, NEW reason, RevokeSessions(keys, now, reason) PROVE Same
  <2>1. /\ s \in DOMAIN sessions'
        /\ sessions'[s] = IF s \in keys
                          THEN [sessions[s] EXCEPT !.revokedAt = now,
                                                   !.revokedReason = reason]
                          ELSE sessions[s]
    BY <1>2 DEF RevokeSessions
  <2>2. sessions[s] \in AuthSession
    BY DEF RowsOK, TypeOK
  <2>. QED
    BY <2>1, <2>2 DEF SameSession, AuthSession
<1>3. ASSUME NEW r \in Requests, IssueSession(r) PROVE Same
  BY <1>3 DEF IssueSession, Insert, SameSession
<1>4. ASSUME NEW r \in Requests, SaveSession(r) PROVE Same
  <2>1. /\ reqs[r].seen \in AuthSession
        /\ SameSession(reqs[r].seen, sessions[reqs[r].sess])
    BY <1>4 DEF SaveSession, At, RowsOK, InFlightOK, RotationLocals
  <2>. QED
    BY <1>4, <2>1 DEF SaveSession, SameSession, AuthSession
<1>5. ASSUME NEW r \in Requests, StartRequest(r) PROVE Same
  BY <1>1, <1>5
  DEF StartRequest, StartLogin, StartReset, StartDeactivate, StartReactivate, StartLogout,
      StartImpersonation, StartRefresh, StartChangePassword, StartExit, StartHistory
<1>6. ASSUME NEW r \in Requests, Continue(r) PROVE Same
  BY <1>1, <1>2, <1>3, <1>4, <1>6
  DEF Continue, IssueToken, Respond, Rehash, KillFamily, KillSession, ReadSession, EndSession,
      ReadUser, SaveToken, RetireToken, LogoutSession, FindLogs, LogsClosed, CloseLog,
      RevokeAllSessions, RevokeAllTokens, CheckPassword, SetPassword, Reread, ResetSessions,
      SetStatus, SaveLog, ExitSession, ExitTokens, ReconcileOpenLogs
<1>. QED
  BY <1>1, <1>5, <1>6 DEF Next, Tick, Crash, vars

(* An impersonated session keeps its hard expiry, and an ordinary one never *)
(* becomes an impersonation, for as long as the row exists: no stale save   *)
(* of a refresh lengthens or drops it.                                      *)
THEOREM SupervisionNeverChanges ==
    Spec => [][\A s \in DOMAIN sessions : SameSession(sessions[s], sessions'[s])]_vars
<1>1. RowsOK /\ [Next]_vars =>
        [\A s \in DOMAIN sessions : SameSession(sessions[s], sessions'[s])]_vars
  BY StepKeepsSupervision
<1>. QED
  BY <1>1, RowsInvariant, PTL DEF Spec

----------------------------------------------------------------------------
(* What a step may insert, and what it may do to a user. *)

(* Request r has just stored token t for its own session and version. *)
IssuedBy(t, r) ==
    /\ reqs[r].pc \in {"issueToken", "saveToken"}
    /\ tokens'[t].session = reqs[r].sess
    /\ tokens'[t].version = reqs[r].version
    /\ tokens'[t].revokedAt = None
    /\ ~tokens'[t].sent
    /\ UNCHANGED <<clock, users, sessions, logs>>
    /\ \A x \in DOMAIN tokens : tokens'[x] = tokens[x]

LEMMA StepInsertsTokens ==
    ASSUME RowsOK, [Next]_vars, NEW t \in DOMAIN tokens' \ DOMAIN tokens
    PROVE  \E r \in Requests : IssuedBy(t, r)
<1>1. CASE DOMAIN tokens' = DOMAIN tokens
  BY <1>1
<1>2. ASSUME NEW r \in Requests, IssueToken(r) \/ SaveToken(r) PROVE IssuedBy(t, r)
  <2>1. /\ reqs[r].pc \in {"issueToken", "saveToken"}
        /\ UNCHANGED <<clock, users, sessions, logs>>
        /\ \E u \in TokenIds \ DOMAIN tokens : \E notAfter :
             tokens' = Insert(tokens, u, SavedToken(r, notAfter))
    BY <1>2 DEF IssueToken, SaveToken, At
  <2>2. PICK u \in TokenIds \ DOMAIN tokens :
               \E notAfter : tokens' = Insert(tokens, u, SavedToken(r, notAfter))
    BY <2>1
  <2>3. /\ \E notAfter : tokens'[t] = SavedToken(r, notAfter)
        /\ \A x \in DOMAIN tokens : tokens'[x] = tokens[x]
    BY <2>2 DEF Insert
  <2>4. /\ tokens'[t].session = reqs[r].sess /\ tokens'[t].version = reqs[r].version
        /\ tokens'[t].revokedAt = None /\ ~tokens'[t].sent
    BY <2>3 DEF SavedToken
  <2>. QED
    BY <2>1, <2>3, <2>4 DEF IssuedBy
<1>3. ASSUME NEW r \in Requests, StartRequest(r)
      PROVE  DOMAIN tokens' = DOMAIN tokens
  BY <1>3
  DEF StartRequest, StartLogin, StartReset, StartDeactivate, StartReactivate, StartLogout,
      StartImpersonation, StartRefresh, StartChangePassword, StartExit, StartHistory,
      RevokeTokens
<1>4. ASSUME NEW r \in Requests, Continue(r)
      PROVE  DOMAIN tokens' = DOMAIN tokens \/ IssueToken(r) \/ SaveToken(r)
  BY <1>4
  DEF Continue, IssueSession, Respond, Rehash, KillFamily, KillSession, ReadSession,
      EndSession, ReadUser, RetireToken, SaveSession, LogoutSession, FindLogs, LogsClosed,
      CloseLog, RevokeAllSessions, RevokeAllTokens, CheckPassword, SetPassword, Reread,
      ResetSessions, SetStatus, SaveLog, ExitSession, ExitTokens, ReconcileOpenLogs,
      RevokeTokens
<1>. QED
  BY <1>1, <1>2, <1>3, <1>4 DEF Next, Tick, Crash, vars

(* Versions only grow, a password is raised together with its version, and *)
(* the version never falls behind the password.                            *)
UserKept(u) ==
    /\ users[u].version <= users'[u].version
    /\ users'[u].password > users[u].password => users'[u].version > users[u].version
    /\ users'[u].password <= users'[u].version
    /\ users'[u].weak => users'[u].password = 0

LEMMA StepKeepsUsers ==
    ASSUME RowsOK, VersionsNeverAhead, [Next]_vars, NEW u \in Users
    PROVE  UserKept(u)
<1>1. /\ users \in [Users -> User] /\ users[u] \in User
      /\ users[u].password <= users[u].version
      /\ users[u].weak => users[u].password = 0
      /\ \A r \in Requests : LocalsSet(r) /\ VersionLocals(r)
  BY DEF RowsOK, TypeOK, InFlightOK, VersionsNeverAhead, UserVersions
<1>2. CASE users' = users
  BY <1>1, <1>2 DEF UserKept, User
<1>3. ASSUME NEW r \in Requests, Rehash(r) PROVE UserKept(u)
  <2>1. reqs[r].pw = 0
    BY <1>1, <1>3 DEF Rehash, At, VersionLocals
  <2>. QED
    BY <1>1, <1>3, <2>1 DEF Rehash, UserKept, User
<1>4. ASSUME NEW r \in Requests, SetPassword(r) PROVE UserKept(u)
  <2>1. CASE u = reqs[r].user
    BY <1>1, <1>4, <2>1 DEF SetPassword, UserKept, User
  <2>2. CASE u # reqs[r].user
    BY <1>1, <1>4, <2>2 DEF SetPassword, UserKept, User
  <2>. QED
    BY <2>1, <2>2
<1>5. ASSUME NEW r \in Requests, SetStatus(r) PROVE UserKept(u)
  BY <1>1, <1>5 DEF SetStatus, UserKept, User
<1>6. ASSUME NEW r \in Requests, StartRequest(r) PROVE UserKept(u)
  BY <1>2, <1>6
  DEF StartRequest, StartLogin, StartReset, StartDeactivate, StartReactivate, StartLogout,
      StartImpersonation, StartRefresh, StartChangePassword, StartExit, StartHistory
<1>7. ASSUME NEW r \in Requests, Continue(r) PROVE UserKept(u)
  BY <1>2, <1>3, <1>4, <1>5, <1>7
  DEF Continue, IssueSession, IssueToken, Respond, KillFamily, KillSession, ReadSession,
      EndSession, ReadUser, SaveToken, RetireToken, SaveSession, LogoutSession, FindLogs,
      LogsClosed, CloseLog, RevokeAllSessions, RevokeAllTokens, CheckPassword, Reread,
      ResetSessions, SaveLog, ExitSession, ExitTokens, ReconcileOpenLogs
<1>. QED
  BY <1>2, <1>6, <1>7 DEF Next, Tick, Crash, vars

----------------------------------------------------------------------------
(* No credential is ahead of its user's version *)

LEMMA TokenVersionsKept ==
    ASSUME RowsOK, VersionsNeverAhead, [Next]_vars, RowsOK'
    PROVE  TokenVersions'
<1>. SUFFICES ASSUME NEW t \in DOMAIN tokens'
              PROVE  tokens'[t].version <= users'[sessions'[tokens'[t].session].user].version
  BY DEF TokenVersions
<1>1. /\ \A u \in Users : users[u] \in User /\ users'[u] \in User
      /\ \A s \in DOMAIN sessions : sessions[s].user \in Users
  BY DEF RowsOK, TypeOK, AuthSession
<1>2. CASE t \in DOMAIN tokens
  <2>. DEFINE s == tokens[t].session
  <2>1. /\ s \in DOMAIN sessions
        /\ tokens[t].version \in Nat
        /\ tokens[t].version <= users[sessions[s].user].version
    BY <1>2 DEF RowsOK, TypeOK, RowsLinked, RefreshToken, VersionsNeverAhead, TokenVersions
  <2>2. tokens'[t].session = s /\ tokens'[t].version = tokens[t].version
    BY <1>2, StepKeepsTokens DEF TokenKept
  <2>3. sessions'[s].user = sessions[s].user
    BY <2>1, StepKeepsSupervision DEF SameSession
  <2>4. users[sessions[s].user].version <= users'[sessions[s].user].version
    BY <1>1, <2>1, StepKeepsUsers DEF UserKept
  <2>. QED
    BY <1>1, <2>1, <2>2, <2>3, <2>4 DEF User
<1>3. CASE t \notin DOMAIN tokens
  <2>1. PICK r \in Requests : IssuedBy(t, r)
    BY <1>3, StepInsertsTokens
  <2>2. /\ reqs[r].version <= users[reqs[r].user].version
        /\ sessions[reqs[r].sess].user = reqs[r].user
    BY <2>1 DEF IssuedBy, VersionsNeverAhead, VersionLocals
  <2>. QED
    BY <2>1, <2>2 DEF IssuedBy
<1>. QED
  BY <1>2, <1>3

(* What the others know of versions survives a step. *)
LEMMA VersionLocalsSurvive ==
    ASSUME RowsOK, VersionsNeverAhead, [Next]_vars, RowsOK',
           NEW r \in Requests, reqs'[r] = reqs[r]
    PROVE  VersionLocals(r)'
<1>. DEFINE q == reqs[r]
<1>1. LocalsSet(r) /\ VersionLocals(r)
  BY DEF RowsOK, InFlightOK, VersionsNeverAhead
<1>2. q.pc \in {"rehash", "issueSession", "issueToken", "saveToken"} =>
        /\ q.user \in Users /\ q.version \in Nat
        /\ users[q.user] \in User /\ users'[q.user] \in User
        /\ users[q.user].version <= users'[q.user].version
  BY <1>1, StepKeepsUsers DEF LocalsSet, UserKept, RowsOK, TypeOK
<1>3. q.pc \in {"issueToken", "readSession", "readUser", "saveToken"} =>
        sessions'[q.sess].user = sessions[q.sess].user
  BY <1>1, StepKeepsSupervision DEF LocalsSet, RefreshPCs, SameSession
<1>. QED
  BY <1>1, <1>2, <1>3 DEF VersionLocals, User

(* The two ways in which most steps leave their request. *)
LEMMA AfterSetPc ==
    ASSUME RowsOK, NEW r \in Requests, NEW pc, SetPc(r, pc)
    PROVE  /\ reqs'[r].pc = pc /\ reqs'[r].op = reqs[r].op /\ reqs'[r].user = reqs[r].user
           /\ reqs'[r].sess = reqs[r].sess /\ reqs'[r].tok = reqs[r].tok
           /\ reqs'[r].new = reqs[r].new /\ reqs'[r].at = reqs[r].at
           /\ reqs'[r].seen = reqs[r].seen /\ reqs'[r].version = reqs[r].version
           /\ reqs'[r].pw = reqs[r].pw /\ reqs'[r].open = reqs[r].open
           /\ reqs'[r].reason = reqs[r].reason
  BY DEF RowsOK, TypeOK, SetPc, Request

LEMMA AfterFinish ==
    ASSUME RowsOK, NEW r \in Requests, Finish(r)
    PROVE  reqs'[r] = Idle
  BY DEF RowsOK, TypeOK, Finish

VersionPCs == {"rehash", "issueSession", "issueToken", "saveToken", "readSession", "readUser"}

(* A request's own steps leave it with versions it has just read. *)
LEMMA StartKnowsVersions ==
    ASSUME RowsOK, VersionsNeverAhead, NEW r \in Requests, StartRequest(r)
    PROVE  VersionLocals(r)'
<1>1. /\ reqs \in [Requests -> Request]
      /\ \A u \in Users : users[u] \in User /\ (users[u].weak => users[u].password = 0)
  BY DEF RowsOK, TypeOK, VersionsNeverAhead, UserVersions
<1>2. ASSUME NEW u \in Users, StartLogin(r, u) PROVE VersionLocals(r)'
  <2>1. /\ reqs'[r].pc = IF users[u].weak THEN "rehash" ELSE "issueSession"
        /\ reqs'[r].user = u /\ reqs'[r].version = users[u].version
        /\ reqs'[r].pw = users[u].password /\ users' = users
    BY <1>1, <1>2 DEF StartLogin, Idle
  <2>. QED
    BY <1>1, <2>1 DEF VersionLocals, User
<1>3. ASSUME NEW u \in Users, StartImpersonation(r, u) PROVE VersionLocals(r)'
  <2>1. /\ reqs'[r].pc = "issueSession" /\ reqs'[r].user = u
        /\ reqs'[r].version = users[u].version /\ users' = users
    BY <1>1, <1>3 DEF StartImpersonation, Idle
  <2>. QED
    BY <1>1, <2>1 DEF VersionLocals, User
<1>4. ASSUME NEW t \in DOMAIN tokens, StartRefresh(r, t) PROVE VersionLocals(r)'
  <2>1. /\ reqs'[r].pc \in {"killFamily", "readSession"} /\ sessions' = sessions
        /\ reqs'[r].user = sessions[reqs'[r].sess].user
    BY <1>1, <1>4 DEF StartRefresh, Idle
  <2>. QED
    BY <2>1 DEF VersionLocals
<1>5. ASSUME NEW u \in Users, StartReset(r, u) \/ StartDeactivate(r, u) \/ StartReactivate(r, u)
      PROVE  reqs'[r].pc \notin VersionPCs
  BY <1>1, <1>5 DEF StartReset, StartDeactivate, StartReactivate, Idle, VersionPCs
<1>6. ASSUME NEW t \in DOMAIN tokens,
             StartLogout(r, t) \/ StartChangePassword(r, t) \/ StartExit(r, t)
      PROVE  reqs'[r].pc \notin VersionPCs
  <2>1. CASE StartLogout(r, t)
    BY <1>1, <2>1 DEF StartLogout, Idle, VersionPCs
  <2>2. CASE StartChangePassword(r, t)
    BY <1>1, <2>2 DEF StartChangePassword, Idle, VersionPCs
  <2>3. CASE StartExit(r, t)
    BY <1>1, <2>3 DEF StartExit, Idle, VersionPCs
  <2>. QED
    BY <1>6, <2>1, <2>2, <2>3
<1>7. ASSUME StartHistory(r) PROVE reqs'[r].pc \notin VersionPCs
  BY <1>1, <1>7 DEF StartHistory, Idle, VersionPCs
<1>8. reqs'[r].pc \notin VersionPCs => VersionLocals(r)'
  BY DEF VersionLocals, VersionPCs
<1>. QED
  BY <1>2, <1>3, <1>4, <1>5, <1>6, <1>7, <1>8 DEF StartRequest

LEMMA StepKnowsVersions ==
    ASSUME RowsOK, VersionsNeverAhead, NEW r \in Requests, Continue(r)
    PROVE  VersionLocals(r)'
<1>. DEFINE q == reqs[r]
<1>1. /\ reqs \in [Requests -> Request] /\ q \in Request
      /\ LocalsSet(r) /\ VersionLocals(r)
      /\ users \in [Users -> User]
  BY DEF RowsOK, TypeOK, InFlightOK, VersionsNeverAhead
<1>2. ASSUME Rehash(r) PROVE VersionLocals(r)'
  <2>1. /\ reqs'[r].pc = "issueSession" /\ reqs'[r].user = q.user
        /\ reqs'[r].version = q.version /\ users'[q.user].version = users[q.user].version
        /\ q.version <= users[q.user].version
    BY <1>1, <1>2 DEF Rehash, At, SetPc, LocalsSet, VersionLocals, User
  <2>. QED
    BY <2>1 DEF VersionLocals
<1>3. ASSUME IssueSession(r) PROVE VersionLocals(r)'
  <2>1. PICK s : /\ sessions'[s].user = q.user
                 /\ reqs' = [reqs EXCEPT ![r].pc = "issueToken", ![r].sess = s]
    <3>1. PICK s, row :
                 /\ s \in SessionIds
                 /\ row.user = q.user
                 /\ sessions' = Insert(sessions, s, row)
                 /\ reqs' = [reqs EXCEPT ![r].pc = "issueToken", ![r].sess = s]
      BY <1>3 DEF IssueSession
    <3>2. sessions'[s] = row
      BY <3>1 DEF Insert
    <3>. QED
      BY <3>1, <3>2
  <2>2. /\ reqs'[r].pc = "issueToken" /\ reqs'[r].sess = s /\ reqs'[r].user = q.user
        /\ reqs'[r].version = q.version /\ q.version <= users[q.user].version
        /\ users' = users
    BY <1>1, <1>3, <2>1 DEF IssueSession, At, VersionLocals, Request
  <2>. QED
    BY <2>1, <2>2 DEF VersionLocals
<1>4. ASSUME ReadSession(r) PROVE VersionLocals(r)'
  <2>1. /\ reqs'[r].pc \in {"idle", "endSession", "readUser"} /\ sessions' = sessions
        /\ reqs'[r].pc = "readUser" => reqs'[r].sess = q.sess /\ reqs'[r].user = q.user
        /\ sessions[q.sess].user = q.user
    BY <1>1, <1>4 DEF ReadSession, At, Finish, Idle, VersionLocals, Request
  <2>. QED
    BY <2>1 DEF VersionLocals
<1>5. ASSUME ReadUser(r) PROVE VersionLocals(r)'
  <2>1. /\ reqs'[r].pc \in {"idle", "saveToken"} /\ sessions' = sessions /\ users' = users
        /\ reqs'[r].pc = "saveToken" =>
             /\ reqs'[r].sess = q.sess /\ reqs'[r].user = q.user
             /\ reqs'[r].version = users[q.user].version
        /\ sessions[q.sess].user = q.user
        /\ users[q.user].version \in Nat
    BY <1>1, <1>5 DEF ReadUser, At, Finish, Idle, LocalsSet, VersionLocals, Request, User
  <2>. QED
    BY <2>1 DEF VersionLocals
<1>6. ASSUME Reread(r) PROVE VersionLocals(r)'
  <2>1. /\ reqs'[r].pc = "issueSession" /\ reqs'[r].user = q.user
        /\ reqs'[r].version = users[q.user].version /\ users' = users
        /\ users[q.user].version \in Nat
    BY <1>1, <1>6 DEF Reread, At, LocalsSet, Request, User
  <2>. QED
    BY <2>1 DEF VersionLocals
<1>7. ASSUME IssueToken(r) \/ Respond(r) \/ KillFamily(r) \/ KillSession(r) \/ EndSession(r)
      PROVE  reqs'[r].pc \notin VersionPCs
  <2>1. CASE IssueToken(r)
    BY <1>1, <2>1 DEF IssueToken, SetPc, Finish, Idle, VersionPCs
  <2>2. CASE Respond(r)
    BY <1>1, <2>2 DEF Respond, SetPc, Finish, Idle, VersionPCs
  <2>3. CASE KillFamily(r)
    BY <1>1, <2>3 DEF KillFamily, SetPc, Finish, Idle, VersionPCs
  <2>4. CASE KillSession(r)
    BY <2>4, AfterSetPc, AfterFinish DEF KillSession, Idle, VersionPCs
  <2>5. CASE EndSession(r)
    BY <1>1, <2>5 DEF EndSession, SetPc, Finish, Idle, VersionPCs
  <2>. QED
    BY <1>7, <2>1, <2>2, <2>3, <2>4, <2>5
<1>8. ASSUME SaveToken(r) \/ RetireToken(r) \/ SaveSession(r) \/ LogoutSession(r) \/ SaveLog(r)
      PROVE  reqs'[r].pc \notin VersionPCs
  <2>1. CASE SaveToken(r)
    BY <1>1, <2>1 DEF SaveToken, SetPc, Finish, Idle, VersionPCs
  <2>2. CASE RetireToken(r)
    BY <1>1, <2>2 DEF RetireToken, SetPc, Finish, Idle, VersionPCs
  <2>3. CASE SaveSession(r)
    BY <1>1, <2>3 DEF SaveSession, SetPc, Finish, Idle, VersionPCs
  <2>4. CASE LogoutSession(r)
    BY <1>1, <2>4 DEF LogoutSession, SetPc, Finish, Idle, VersionPCs
  <2>5. CASE SaveLog(r)
    BY <1>1, <2>5 DEF SaveLog, SetPc, Finish, Idle, VersionPCs
  <2>. QED
    BY <1>8, <2>1, <2>2, <2>3, <2>4, <2>5
<1>9. ASSUME FindLogs(r) \/ LogsClosed(r) \/ CheckPassword(r) \/ SetPassword(r) \/ SetStatus(r)
      PROVE  reqs'[r].pc \notin VersionPCs
  <2>1. CASE FindLogs(r)
    BY <1>1, <2>1 DEF FindLogs, SetPc, Finish, Idle, VersionPCs
  <2>2. CASE LogsClosed(r)
    BY <2>2, AfterSetPc, AfterFinish DEF LogsClosed, Idle, VersionPCs
  <2>3. CASE CheckPassword(r)
    BY <2>3, AfterSetPc, AfterFinish DEF CheckPassword, Idle, VersionPCs
  <2>4. CASE SetPassword(r)
    BY <1>1, <2>4 DEF SetPassword, SetPc, Finish, Idle, VersionPCs
  <2>5. CASE SetStatus(r)
    BY <2>5, AfterSetPc, AfterFinish DEF SetStatus, Idle, VersionPCs
  <2>. QED
    BY <1>9, <2>1, <2>2, <2>3, <2>4, <2>5
<1>10. ASSUME \/ RevokeAllSessions(r) \/ RevokeAllTokens(r) \/ ResetSessions(r)
              \/ ExitSession(r) \/ ExitTokens(r) \/ ReconcileOpenLogs(r)
      PROVE  reqs'[r].pc \notin VersionPCs
  <2>1. CASE RevokeAllSessions(r)
    BY <1>1, <2>1 DEF RevokeAllSessions, SetPc, Finish, Idle, VersionPCs
  <2>2. CASE RevokeAllTokens(r)
    BY <1>1, <2>2 DEF RevokeAllTokens, SetPc, Finish, Idle, VersionPCs
  <2>3. CASE ResetSessions(r)
    BY <1>1, <2>3 DEF ResetSessions, SetPc, Finish, Idle, VersionPCs
  <2>4. CASE ExitSession(r)
    BY <1>1, <2>4 DEF ExitSession, SetPc, Finish, Idle, VersionPCs
  <2>5. CASE ExitTokens(r)
    BY <1>1, <2>5 DEF ExitTokens, SetPc, Finish, Idle, VersionPCs
  <2>6. CASE ReconcileOpenLogs(r)
    BY <1>1, <2>6 DEF ReconcileOpenLogs, SetPc, Finish, Idle, VersionPCs
  <2>. QED
    BY <1>10, <2>1, <2>2, <2>3, <2>4, <2>5, <2>6
<1>11. ASSUME NEW s \in DOMAIN logs, CloseLog(r, s) PROVE reqs'[r].pc \notin VersionPCs
  BY <1>1, <1>11 DEF CloseLog, At, VersionPCs
<1>12. reqs'[r].pc \notin VersionPCs => VersionLocals(r)'
  BY DEF VersionLocals, VersionPCs
<1>. QED
  BY <1>2, <1>3, <1>4, <1>5, <1>6, <1>7, <1>8, <1>9, <1>10, <1>11, <1>12 DEF Continue

(* Each step is a step of at most one request. *)
LEMMA OthersWait ==
    ASSUME RowsOK, NEW r \in Requests, StartRequest(r) \/ Continue(r) \/ Crash(r),
           NEW x \in Requests \ {r}
    PROVE  reqs'[x] = reqs[x]
<1>1. reqs \in [Requests -> Request]
  BY DEF RowsOK, TypeOK
<1>2. CASE StartRequest(r)
  BY <1>1, <1>2
  DEF StartRequest, StartLogin, StartReset, StartDeactivate, StartReactivate, StartLogout,
      StartImpersonation, StartRefresh, StartChangePassword, StartExit, StartHistory
<1>3. CASE Continue(r)
  BY <1>1, <1>3
  DEF Continue, IssueSession, IssueToken, Respond, Rehash, KillFamily, KillSession,
      ReadSession, EndSession, ReadUser, SaveToken, RetireToken, SaveSession, LogoutSession,
      FindLogs, LogsClosed, CloseLog, RevokeAllSessions, RevokeAllTokens, CheckPassword,
      SetPassword, Reread, ResetSessions, SetStatus, SaveLog, ExitSession, ExitTokens,
      ReconcileOpenLogs, SetPc, Finish
<1>4. CASE Crash(r)
  BY <1>1, <1>4 DEF Crash, Finish
<1>. QED
  BY <1>2, <1>3, <1>4

LEMMA VersionsNextOK == RowsOK /\ VersionsNeverAhead /\ [Next]_vars => VersionsNeverAhead'
<1>. SUFFICES ASSUME RowsOK, VersionsNeverAhead, [Next]_vars PROVE VersionsNeverAhead'
  OBVIOUS
<1>1. RowsOK'
  BY NextOK
<1>2. UserVersions'
  BY StepKeepsUsers DEF UserKept, UserVersions
<1>3. TokenVersions'
  BY <1>1, TokenVersionsKept
<1>4. ASSUME NEW x \in Requests PROVE VersionLocals(x)'
  <2>1. CASE reqs'[x] = reqs[x]
    BY <1>1, <2>1, VersionLocalsSurvive
  <2>2. CASE StartRequest(x) \/ Continue(x)
    BY <2>2, StartKnowsVersions, StepKnowsVersions
  <2>3. CASE Crash(x)
    <3>1. reqs'[x].pc = "idle"
      BY <2>3 DEF Crash, Finish, Idle, RowsOK, TypeOK
    <3>. QED
      BY <3>1 DEF VersionLocals
  <2>. QED
    BY <2>1, <2>2, <2>3, OthersWait DEF Next, Tick, vars
<1>. QED
  BY <1>2, <1>3, <1>4 DEF VersionsNeverAhead

LEMMA VersionsInitOK == Init => VersionsNeverAhead
<1>. SUFFICES ASSUME Init PROVE VersionsNeverAhead
  OBVIOUS
<1>1. UserVersions
  BY DEF Init, UserVersions
<1>2. TokenVersions
  BY DEF Init, TokenVersions
<1>3. \A r \in Requests : VersionLocals(r)
  BY DEF Init, Idle, VersionLocals
<1>. QED
  BY <1>1, <1>2, <1>3 DEF VersionsNeverAhead

(* In every interleaving and through every crash, the rows and the locals  *)
(* of the handlers stay consistent, and no stored or carried credential is *)
(* ahead of its user's token_version.                                      *)
THEOREM Invariance == Spec => []IInv
<1>1. Init => IInv
  BY InitOK, VersionsInitOK DEF IInv
<1>2. IInv /\ [Next]_vars => IInv'
  BY NextOK, VersionsNextOK DEF IInv
<1>. QED
  BY <1>1, <1>2, PTL DEF Spec

LEMMA NewPasswordLeavesTokensBehind ==
    ASSUME IInv, [Next]_vars, NEW u \in Users, users'[u].password > users[u].password,
           NEW t \in DOMAIN tokens, sessions[tokens[t].session].user = u
    PROVE  ~Authorised(t)'
<1>1. RowsOK /\ VersionsNeverAhead /\ users[u] \in User /\ tokens[t] \in RefreshToken
  BY DEF IInv, RowsOK, TypeOK
<1>2. users'[u].version > users[u].version
  BY <1>1, StepKeepsUsers DEF UserKept
<1>3. tokens[t].version <= users[u].version /\ tokens[t].session \in DOMAIN sessions
  BY <1>1 DEF VersionsNeverAhead, TokenVersions, RowsOK, RowsLinked
<1>4. tokens'[t].session = tokens[t].session /\ tokens'[t].version = tokens[t].version
  BY <1>1, StepKeepsTokens DEF TokenKept
<1>5. sessions'[tokens[t].session].user = u
  BY <1>1, <1>3, StepKeepsSupervision DEF SameSession
<1>6. users'[u].version \in Nat
  BY <1>1, NextOK DEF RowsOK, TypeOK, User
<1>7. users'[u].version # tokens'[t].version
  BY <1>1, <1>2, <1>3, <1>4, <1>6 DEF User, RefreshToken
<1>. QED
  BY <1>4, <1>5, <1>7 DEF Authorised

(* In every interleaving, the step that raises a user's password leaves no *)
(* access token of that user working: a rehash that was under way cannot   *)
(* raise it, and the UPDATE that does raises token_version past every      *)
(* token stored so far.                                                    *)
THEOREM NewPasswordShutsOut == Spec => NewPasswordEndsAccess
<1>1. IInv /\ [Next]_vars =>
        [\A u \in Users : users'[u].password > users[u].password =>
           \A t \in DOMAIN tokens :
             sessions[tokens[t].session].user = u => ~Authorised(t)']_vars
  BY NewPasswordLeavesTokensBehind
<1>. QED
  BY <1>1, Invariance, PTL DEF Spec, NewPasswordEndsAccess

----------------------------------------------------------------------------
(* The hour of an impersonation: its session expires an hour after the     *)
(* start that its audit row records.                                       *)

CapOf(r) ==
    LET q == reqs[r] IN
    q.pc = "saveLog" \/ (q.pc = "issueToken" /\ q.op = "impersonate") =>
      sessions[q.sess].expiresAt = q.at + ImpersonationTtl

CapInv ==
    /\ \A s \in DOMAIN logs : sessions[s].expiresAt = logs[s].startedAt + ImpersonationTtl
    /\ \A r \in Requests : CapOf(r)

CapPCs == {"issueToken", "saveLog"}

LEMMA CapSurvives ==
    ASSUME RowsOK, [Next]_vars, NEW r \in Requests, CapOf(r), reqs'[r] = reqs[r]
    PROVE  CapOf(r)'
<1>1. reqs[r].pc \in CapPCs => reqs[r].sess \in DOMAIN sessions
  BY DEF RowsOK, InFlightOK, LocalsSet, CapPCs
<1>2. reqs[r].pc \in CapPCs =>
        sessions'[reqs[r].sess].expiresAt = sessions[reqs[r].sess].expiresAt
  BY <1>1, StepKeepsSupervision DEF SameSession
<1>. QED
  BY <1>2 DEF CapOf, CapPCs

(* A request's own steps: only IssueSession comes to mint a first token,   *)
(* and only IssueToken goes on to the log.                                 *)
LEMMA StartHasNoCap ==
    ASSUME RowsOK, NEW r \in Requests, StartRequest(r)
    PROVE  reqs'[r].pc \notin CapPCs
<1>1. reqs \in [Requests -> Request]
  BY DEF RowsOK, TypeOK
<1>2. ASSUME NEW u \in Users, StartLogin(r, u) \/ StartImpersonation(r, u)
      PROVE  reqs'[r].pc \notin CapPCs
  <2>1. reqs'[r].pc \in {"rehash", "issueSession"}
    <3>1. CASE StartLogin(r, u)
      BY <1>1, <3>1 DEF StartLogin, Idle
    <3>2. CASE StartImpersonation(r, u)
      BY <1>1, <3>2 DEF StartImpersonation, Idle
    <3>. QED
      BY <1>2, <3>1, <3>2
  <2>. QED
    BY <2>1 DEF CapPCs
<1>3. ASSUME NEW u \in Users, StartReset(r, u) \/ StartDeactivate(r, u) \/ StartReactivate(r, u)
      PROVE  reqs'[r].pc \notin CapPCs
  <2>1. reqs'[r].pc \in {"setPassword", "setStatus"}
    <3>1. CASE StartReset(r, u)
      BY <1>1, <3>1 DEF StartReset, Idle
    <3>2. CASE StartDeactivate(r, u)
      BY <1>1, <3>2 DEF StartDeactivate, Idle
    <3>3. CASE StartReactivate(r, u)
      BY <1>1, <3>3 DEF StartReactivate, Idle
    <3>. QED
      BY <1>3, <3>1, <3>2, <3>3
  <2>. QED
    BY <2>1 DEF CapPCs
<1>4. ASSUME NEW t \in DOMAIN tokens, StartRefresh(r, t) \/ StartLogout(r, t)
      PROVE  reqs'[r].pc \notin CapPCs
  <2>1. CASE StartRefresh(r, t)
    <3>1. reqs'[r].pc \in {"killFamily", "readSession"}
      BY <1>1, <2>1 DEF StartRefresh, Idle
    <3>. QED
      BY <3>1 DEF CapPCs
  <2>2. CASE StartLogout(r, t)
    BY <1>1, <2>2 DEF StartLogout, Idle, CapPCs
  <2>. QED
    BY <1>4, <2>1, <2>2
<1>5. ASSUME NEW t \in DOMAIN tokens, StartChangePassword(r, t) \/ StartExit(r, t)
      PROVE  reqs'[r].pc \notin CapPCs
  <2>1. CASE StartChangePassword(r, t)
    BY <1>1, <2>1 DEF StartChangePassword, Idle, CapPCs
  <2>2. CASE StartExit(r, t)
    BY <1>1, <2>2 DEF StartExit, Idle, CapPCs
  <2>. QED
    BY <1>5, <2>1, <2>2
<1>6. ASSUME StartHistory(r) PROVE reqs'[r].pc \notin CapPCs
  BY <1>1, <1>6 DEF StartHistory, Idle, CapPCs
<1>. QED
  BY <1>2, <1>3, <1>4, <1>5, <1>6 DEF StartRequest

LEMMA StepSetsCap ==
    ASSUME RowsOK, [Next]_vars, NEW r \in Requests, CapOf(r), Continue(r)
    PROVE  CapOf(r)'
<1>. DEFINE q == reqs[r]
<1>1. reqs \in [Requests -> Request] /\ q \in Request /\ LocalsSet(r)
  BY DEF RowsOK, TypeOK, InFlightOK
<1>2. ASSUME IssueSession(r) PROVE CapOf(r)'
  <2>1. PICK s, row :
          /\ row.expiresAt = IF q.op = "impersonate" THEN q.at + ImpersonationTtl ELSE None
          /\ sessions' = Insert(sessions, s, row)
          /\ reqs' = [reqs EXCEPT ![r].pc = "issueToken", ![r].sess = s]
    BY <1>2 DEF IssueSession
  <2>2. sessions'[s] = row
    BY <2>1 DEF Insert
  <2>3. /\ reqs'[r].pc = "issueToken" /\ reqs'[r].sess = s /\ reqs'[r].op = q.op
        /\ reqs'[r].at = q.at
    BY <1>1, <2>1 DEF Request
  <2>. QED
    BY <2>1, <2>2, <2>3 DEF CapOf
<1>3. ASSUME IssueToken(r) PROVE CapOf(r)'
  <2>1. PICK t : reqs' = [reqs EXCEPT ![r].new = t,
                                      ![r].pc = IF q.op = "impersonate"
                                                THEN "saveLog" ELSE "respond"]
    BY <1>3 DEF IssueToken
  <2>2. /\ reqs'[r].pc = IF q.op = "impersonate" THEN "saveLog" ELSE "respond"
        /\ reqs'[r].sess = q.sess /\ reqs'[r].at = q.at
    BY <1>1, <2>1 DEF Request
  <2>3. q.pc = "issueToken" /\ sessions' = sessions
    BY <1>3 DEF IssueToken, At
  <2>. QED
    BY <2>2, <2>3 DEF CapOf
<1>4. ASSUME Respond(r) \/ Rehash(r) \/ KillFamily(r) \/ KillSession(r) \/ ReadSession(r)
      PROVE  reqs'[r].pc \notin CapPCs
  <2>1. CASE Respond(r)
    BY <2>1, AfterFinish DEF Respond, Idle, CapPCs
  <2>2. CASE Rehash(r)
    BY <2>2, AfterSetPc DEF Rehash, CapPCs
  <2>3. CASE KillFamily(r)
    BY <2>3, AfterSetPc DEF KillFamily, CapPCs
  <2>4. CASE KillSession(r)
    BY <2>4, AfterSetPc, AfterFinish DEF KillSession, Idle, CapPCs
  <2>5. CASE ReadSession(r)
    <3>1. reqs'[r].pc \in {"idle", "endSession", "readUser"}
      BY <1>1, <2>5 DEF ReadSession, Finish, Idle, Request
    <3>. QED
      BY <3>1 DEF CapPCs
  <2>. QED
    BY <1>4, <2>1, <2>2, <2>3, <2>4, <2>5
<1>5. ASSUME EndSession(r) \/ ReadUser(r) \/ SaveToken(r) \/ RetireToken(r) \/ SaveSession(r)
      PROVE  reqs'[r].pc \notin CapPCs
  <2>1. CASE EndSession(r)
    BY <2>1, AfterFinish DEF EndSession, Idle, CapPCs
  <2>2. CASE ReadUser(r)
    <3>1. reqs'[r].pc \in {"idle", "saveToken"}
      BY <1>1, <2>2 DEF ReadUser, Finish, Idle, Request
    <3>. QED
      BY <3>1 DEF CapPCs
  <2>3. CASE SaveToken(r)
    BY <1>1, <2>3 DEF SaveToken, CapPCs
  <2>4. CASE RetireToken(r)
    BY <2>4, AfterSetPc DEF RetireToken, CapPCs
  <2>5. CASE SaveSession(r)
    BY <2>5, AfterSetPc DEF SaveSession, CapPCs
  <2>. QED
    BY <1>5, <2>1, <2>2, <2>3, <2>4, <2>5
<1>6. ASSUME LogoutSession(r) \/ FindLogs(r) \/ LogsClosed(r) \/ CheckPassword(r) \/ SetPassword(r)
      PROVE  reqs'[r].pc \notin CapPCs
  <2>1. CASE LogoutSession(r)
    BY <2>1, AfterSetPc DEF LogoutSession, CapPCs
  <2>2. CASE FindLogs(r)
    BY <1>1, <2>2 DEF FindLogs, CapPCs
  <2>3. CASE LogsClosed(r)
    BY <2>3, AfterSetPc, AfterFinish DEF LogsClosed, Idle, CapPCs
  <2>4. CASE CheckPassword(r)
    BY <2>4, AfterSetPc, AfterFinish DEF CheckPassword, Idle, CapPCs
  <2>5. CASE SetPassword(r)
    BY <1>1, <2>5 DEF SetPassword, SetPc, CapPCs
  <2>. QED
    BY <1>6, <2>1, <2>2, <2>3, <2>4, <2>5
<1>7. ASSUME \/ RevokeAllSessions(r) \/ RevokeAllTokens(r) \/ Reread(r) \/ ResetSessions(r)
             \/ SetStatus(r)
      PROVE  reqs'[r].pc \notin CapPCs
  <2>1. CASE RevokeAllSessions(r)
    BY <1>1, <2>1 DEF RevokeAllSessions, CapPCs
  <2>2. CASE RevokeAllTokens(r)
    BY <2>2, AfterSetPc DEF RevokeAllTokens, CapPCs
  <2>3. CASE Reread(r)
    BY <1>1, <2>3 DEF Reread, CapPCs
  <2>4. CASE ResetSessions(r)
    BY <2>4, AfterFinish DEF ResetSessions, Idle, CapPCs
  <2>5. CASE SetStatus(r)
    BY <2>5, AfterSetPc, AfterFinish DEF SetStatus, Idle, CapPCs
  <2>. QED
    BY <1>7, <2>1, <2>2, <2>3, <2>4, <2>5
<1>8. ASSUME SaveLog(r) \/ ExitSession(r) \/ ExitTokens(r) \/ ReconcileOpenLogs(r)
      PROVE  reqs'[r].pc \notin CapPCs
  <2>1. CASE SaveLog(r)
    BY <2>1, AfterSetPc DEF SaveLog, CapPCs
  <2>2. CASE ExitSession(r)
    BY <2>2, AfterSetPc DEF ExitSession, CapPCs
  <2>3. CASE ExitTokens(r)
    BY <2>3, AfterFinish DEF ExitTokens, Idle, CapPCs
  <2>4. CASE ReconcileOpenLogs(r)
    BY <2>4, AfterFinish DEF ReconcileOpenLogs, Idle, CapPCs
  <2>. QED
    BY <1>8, <2>1, <2>2, <2>3, <2>4
<1>9. ASSUME NEW s \in DOMAIN logs, CloseLog(r, s) PROVE reqs'[r].pc \notin CapPCs
  BY <1>1, <1>9 DEF CloseLog, At, CapPCs
<1>10. reqs'[r].pc \notin CapPCs => CapOf(r)'
  BY DEF CapOf, CapPCs
<1>. QED
  BY <1>2, <1>3, <1>4, <1>5, <1>6, <1>7, <1>8, <1>9, <1>10 DEF Continue

(* An audit row keeps its start, and a new one has that of its request.    *)
LEMMA StepKeepsStarts ==
    ASSUME RowsOK, [Next]_vars, NEW s \in DOMAIN logs'
    PROVE  \/ s \in DOMAIN logs /\ logs'[s].startedAt = logs[s].startedAt
           \/ \E r \in Requests : /\ At(r, "saveLog") /\ reqs[r].sess = s
                                  /\ logs'[s].startedAt = reqs[r].at
                                  /\ sessions' = sessions
<1>. DEFINE Kept == s \in DOMAIN logs /\ logs'[s].startedAt = logs[s].startedAt
<1>. DEFINE New(r) == /\ At(r, "saveLog") /\ reqs[r].sess = s
                      /\ logs'[s].startedAt = reqs[r].at
                      /\ sessions' = sessions
<1>1. \A x \in DOMAIN logs : logs[x] \in ImpersonationLog
  BY DEF RowsOK, TypeOK
<1>2. CASE logs' = logs
  BY <1>2
<1>3. ASSUME NEW r \in Requests, SaveLog(r) PROVE Kept \/ New(r)
  <2>1. /\ logs' = Insert(logs, reqs[r].sess, [startedAt |-> reqs[r].at, endedAt |-> None])
        /\ At(r, "saveLog") /\ sessions' = sessions
    BY <1>3 DEF SaveLog
  <2>2. CASE s = reqs[r].sess
    BY <2>1, <2>2 DEF Insert
  <2>3. CASE s # reqs[r].sess
    BY <2>1, <2>3 DEF Insert
  <2>. QED
    BY <2>2, <2>3
<1>4. ASSUME NEW r \in Requests, NEW x \in DOMAIN logs, CloseLog(r, x) PROVE Kept
  <2>1. s \in DOMAIN logs /\ logs[s] \in ImpersonationLog
    BY <1>1, <1>4 DEF CloseLog
  <2>. QED
    BY <1>4, <2>1 DEF CloseLog, ImpersonationLog
<1>5. ASSUME NEW r \in Requests, ReconcileOpenLogs(r) PROVE Kept
  <2>1. PICK due, end :
          logs' = [x \in DOMAIN logs |->
                     IF x \in due THEN [logs[x] EXCEPT !.endedAt = end[x]] ELSE logs[x]]
    <3>. DEFINE end == [x \in DOMAIN logs |->
                          IF Live(x) THEN sessions[x].expiresAt ELSE sessions[x].revokedAt]
    <3>. DEFINE due == {x \in reqs[r].open : logs[x].endedAt = None /\ Ended(x, reqs[r].at)}
    <3>1. logs' = [x \in DOMAIN logs |->
                     IF x \in due THEN [logs[x] EXCEPT !.endedAt = end[x]] ELSE logs[x]]
      BY <1>5 DEF ReconcileOpenLogs
    <3>. HIDE DEF due, end
    <3>. QED
      BY <3>1
  <2>2. s \in DOMAIN logs /\ logs[s] \in ImpersonationLog
    BY <1>1, <2>1
  <2>. QED
    BY <2>1, <2>2 DEF ImpersonationLog
<1>6. ASSUME NEW r \in Requests, StartRequest(r) PROVE logs' = logs
  BY <1>6
  DEF StartRequest, StartLogin, StartReset, StartDeactivate, StartReactivate, StartLogout,
      StartImpersonation, StartRefresh, StartChangePassword, StartExit, StartHistory
<1>7. ASSUME NEW r \in Requests, Continue(r) PROVE Kept \/ New(r)
  BY <1>2, <1>3, <1>4, <1>5, <1>7
  DEF Continue, IssueSession, IssueToken, Respond, Rehash, KillFamily, KillSession,
      ReadSession, EndSession, ReadUser, SaveToken, RetireToken, SaveSession, LogoutSession,
      FindLogs, LogsClosed, RevokeAllSessions, RevokeAllTokens, CheckPassword, SetPassword,
      Reread, ResetSessions, SetStatus, ExitSession, ExitTokens
<1>. QED
  BY <1>2, <1>6, <1>7 DEF Next, Tick, Crash, vars

LEMMA CapNextOK == RowsOK /\ CapInv /\ [Next]_vars => CapInv'
<1>. SUFFICES ASSUME RowsOK, CapInv, [Next]_vars PROVE CapInv'
  OBVIOUS
<1>1. ASSUME NEW x \in Requests PROVE CapOf(x)'
  <2>1. CASE reqs'[x] = reqs[x]
    BY <2>1, CapSurvives DEF CapInv
  <2>2. CASE StartRequest(x)
    BY <2>2, StartHasNoCap DEF CapOf, CapPCs
  <2>3. CASE Continue(x)
    BY <2>3, StepSetsCap DEF CapInv
  <2>4. CASE Crash(x)
    <3>1. reqs'[x].pc = "idle"
      BY <2>4 DEF Crash, Finish, Idle, RowsOK, TypeOK
    <3>. QED
      BY <3>1 DEF CapOf
  <2>. QED
    BY <2>1, <2>2, <2>3, <2>4, OthersWait DEF Next, Tick, vars
<1>2. ASSUME NEW s \in DOMAIN logs'
      PROVE  sessions'[s].expiresAt = logs'[s].startedAt + ImpersonationTtl
  <2>1. CASE s \in DOMAIN logs /\ logs'[s].startedAt = logs[s].startedAt
    <3>1. sessions'[s].expiresAt = sessions[s].expiresAt
      BY <2>1, StepKeepsSupervision DEF SameSession, RowsOK, RowsLinked
    <3>. QED
      BY <2>1, <3>1 DEF CapInv
  <2>2. ASSUME NEW r \in Requests, At(r, "saveLog"), reqs[r].sess = s,
               logs'[s].startedAt = reqs[r].at, sessions' = sessions
        PROVE  sessions'[s].expiresAt = logs'[s].startedAt + ImpersonationTtl
    BY <2>2 DEF CapInv, CapOf, At
  <2>. QED
    BY <2>1, <2>2, StepKeepsStarts
<1>. QED
  BY <1>1, <1>2 DEF CapInv

(* In every interleaving and through every crash, no credential of an      *)
(* impersonation works an hour after the start that its audit row records, *)
(* however often it was refreshed and with whatever stale row.             *)
THEOREM ImpersonationEndsInTime == Spec => []SupervisionEndsInTime
<1>1. Init => CapInv
  BY DEF Init, Idle, CapInv, CapOf
<1>2. RowsOK /\ CapInv => SupervisionEndsInTime
  <2>. SUFFICES ASSUME RowsOK, CapInv, NEW s \in DOMAIN logs, NEW t \in TokensOf({s}),
                       Authorised(t)
                PROVE  clock < logs[s].startedAt + ImpersonationTtl
    BY DEF SupervisionEndsInTime
  <2>1. tokens[t].session = s
    BY DEF TokensOf
  <2>2. sessions[s].expiresAt = logs[s].startedAt + ImpersonationTtl
    BY DEF CapInv
  <2>3. logs[s].startedAt + ImpersonationTtl \in Nat
    BY BoundsAssumption DEF RowsOK, TypeOK, ImpersonationLog
  <2>. QED
    BY <2>1, <2>2, <2>3, NoneAssumption DEF Authorised
<1>. QED
  BY <1>1, <1>2, CapNextOK, RowsInvariant, PTL DEF Spec

----------------------------------------------------------------------------
(* Requests served one at a time: how rows change *)

(* A session is left as it was or is ended, by reuse detection only once   *)
(* its family has been revoked.                                            *)
EndedBy(s) ==
    \/ /\ sessions'[s].revokedAt = sessions[s].revokedAt
       /\ sessions'[s].revokedReason = sessions[s].revokedReason
    \/ /\ sessions'[s].revokedAt # None
       /\ sessions'[s].revokedReason = "token-reuse" =>
            \E r \in Requests : At(r, "killSession") /\ s = reqs[r].sess /\ tokens' = tokens

LEMMA SweepEnds ==
    ASSUME RowsOK, NEW keys, NEW now \in Nat, NEW reason, RevokeSessions(keys, now, reason),
           reason # "token-reuse", NEW s \in DOMAIN sessions
    PROVE  EndedBy(s)
<1>1. sessions[s] \in AuthSession /\ now # None
  BY NoneAssumption DEF RowsOK, TypeOK
<1>2. sessions'[s] = IF s \in keys
                     THEN [sessions[s] EXCEPT !.revokedAt = now, !.revokedReason = reason]
                     ELSE sessions[s]
  BY DEF RevokeSessions
<1>3. CASE s \in keys
  <2>1. sessions'[s].revokedAt = now /\ sessions'[s].revokedReason = reason
    BY <1>1, <1>2, <1>3 DEF AuthSession
  <2>. QED
    BY <1>1, <2>1 DEF EndedBy
<1>4. CASE s \notin keys
  BY <1>2, <1>4 DEF EndedBy
<1>. QED
  BY <1>3, <1>4

LEMMA StepEndsSessions ==
    ASSUME RowsOK, \A r \in Requests : ServedAlone(r), [Next]_vars, NEW s \in DOMAIN sessions
    PROVE  EndedBy(s)
<1>1. /\ clock \in Nat /\ None \notin Nat
      /\ sessions[s] \in AuthSession
      /\ \A r \in Requests : /\ LocalsSet(r) /\ RotationLocals(r) /\ ServedAlone(r)
                             /\ reqs[r].reason # "token-reuse"
  BY NoneAssumption DEF RowsOK, TypeOK, InFlightOK, ServedAlone
<1>2. CASE sessions' = sessions
  BY <1>2 DEF EndedBy
<1>3. ASSUME NEW r \in Requests, IssueSession(r) PROVE EndedBy(s)
  BY <1>3 DEF IssueSession, Insert, EndedBy
<1>4. ASSUME NEW r \in Requests, KillSession(r) PROVE EndedBy(s)
  <2>1. PICK keys \in {{reqs[r].sess}, {}} : RevokeSessions(keys, reqs[r].at, "token-reuse")
    BY <1>4 DEF KillSession
  <2>2. At(r, "killSession") /\ tokens' = tokens /\ reqs[r].at \in Nat
    BY <1>1, <1>4 DEF KillSession, At, LocalsSet
  <2>3. sessions'[s] = IF s \in keys
                       THEN [sessions[s] EXCEPT !.revokedAt = reqs[r].at,
                                                !.revokedReason = "token-reuse"]
                       ELSE sessions[s]
    BY <2>1 DEF RevokeSessions
  <2>4. CASE s \in keys
    <3>1. s = reqs[r].sess
      BY <2>1, <2>4
    <3>2. sessions'[s].revokedAt = reqs[r].at
      BY <1>1, <2>3, <2>4 DEF AuthSession
    <3>. QED
      BY <1>1, <2>2, <3>1, <3>2 DEF EndedBy
  <2>5. CASE s \notin keys
    BY <2>3, <2>5 DEF EndedBy
  <2>. QED
    BY <2>4, <2>5
<1>5. ASSUME NEW r \in Requests, SaveSession(r) PROVE EndedBy(s)
  <2>1. reqs[r].seen = sessions[reqs[r].sess]
    BY <1>1, <1>5 DEF SaveSession, At, ServedAlone
  <2>2. reqs[r].sess \in DOMAIN sessions
    BY <1>1, <1>5 DEF SaveSession, At, LocalsSet, RefreshPCs
  <2>3. sessions' = [sessions EXCEPT ![reqs[r].sess] =
                       [sessions[reqs[r].sess] EXCEPT !.lastUsedAt = clock]]
    BY <1>5, <2>1 DEF SaveSession
  <2>4. CASE s = reqs[r].sess
    BY <1>1, <2>3, <2>4 DEF EndedBy, AuthSession
  <2>5. CASE s # reqs[r].sess
    BY <2>3, <2>5 DEF EndedBy
  <2>. QED
    BY <2>4, <2>5
<1>6. ASSUME NEW r \in Requests, EndSession(r) \/ RevokeAllSessions(r) PROVE EndedBy(s)
  <2>1. \E keys : RevokeSessions(keys, clock, reqs[r].reason)
    BY <1>6 DEF EndSession, RevokeAllSessions
  <2>. QED
    BY <1>1, <2>1, SweepEnds
<1>7. ASSUME NEW r \in Requests, LogoutSession(r) \/ ResetSessions(r) \/ ExitSession(r)
      PROVE  EndedBy(s)
  <2>1. reqs[r].at \in Nat
    BY <1>1, <1>7 DEF LogoutSession, ResetSessions, ExitSession, At, LocalsSet
  <2>2. CASE LogoutSession(r)
    BY <2>1, <2>2, SweepEnds DEF LogoutSession
  <2>3. CASE ResetSessions(r)
    BY <2>1, <2>3, SweepEnds DEF ResetSessions
  <2>4. CASE ExitSession(r)
    BY <2>1, <2>4, SweepEnds DEF ExitSession
  <2>. QED
    BY <1>7, <2>2, <2>3, <2>4
<1>8. ASSUME NEW r \in Requests, StartRequest(r) PROVE EndedBy(s)
  BY <1>2, <1>8
  DEF StartRequest, StartLogin, StartReset, StartDeactivate, StartReactivate, StartLogout,
      StartImpersonation, StartRefresh, StartChangePassword, StartExit, StartHistory
<1>9. ASSUME NEW r \in Requests, Continue(r) PROVE EndedBy(s)
  BY <1>2, <1>3, <1>4, <1>5, <1>6, <1>7, <1>9
  DEF Continue, IssueToken, Respond, Rehash, KillFamily, ReadSession, ReadUser, SaveToken,
      RetireToken, FindLogs, LogsClosed, CloseLog, RevokeAllTokens, CheckPassword,
      SetPassword, Reread, SetStatus, SaveLog, ExitTokens, ReconcileOpenLogs
<1>. QED
  BY <1>2, <1>8, <1>9 DEF Next, Tick, Crash, vars

(* A session that appears is live, and no token comes with it. *)
LEMMA StepInsertsSessions ==
    ASSUME RowsOK, [Next]_vars, NEW s \in DOMAIN sessions' \ DOMAIN sessions
    PROVE  /\ sessions'[s].revokedAt = None /\ sessions'[s].revokedReason = None
           /\ tokens' = tokens
<1>1. CASE DOMAIN sessions' = DOMAIN sessions
  BY <1>1
<1>2. ASSUME NEW r \in Requests, IssueSession(r)
      PROVE  /\ sessions'[s].revokedAt = None /\ sessions'[s].revokedReason = None
             /\ tokens' = tokens
  BY <1>2 DEF IssueSession, Insert
<1>3. ASSUME NEW r \in Requests, StartRequest(r) PROVE DOMAIN sessions' = DOMAIN sessions
  BY <1>3
  DEF StartRequest, StartLogin, StartReset, StartDeactivate, StartReactivate, StartLogout,
      StartImpersonation, StartRefresh, StartChangePassword, StartExit, StartHistory
<1>4. ASSUME NEW r \in Requests, Continue(r)
      PROVE  DOMAIN sessions' = DOMAIN sessions \/ IssueSession(r)
  BY <1>4
  DEF Continue, IssueToken, Respond, Rehash, KillFamily, KillSession, ReadSession,
      EndSession, ReadUser, SaveToken, RetireToken, SaveSession, LogoutSession, FindLogs,
      LogsClosed, CloseLog, RevokeAllSessions, RevokeAllTokens, CheckPassword, SetPassword,
      Reread, ResetSessions, SetStatus, SaveLog, ExitSession, ExitTokens, ReconcileOpenLogs,
      RevokeSessions
<1>. QED
  BY <1>1, <1>2, <1>3, <1>4 DEF Next, Tick, Crash, vars

(* A client comes to hold a token only by the answer of the request that   *)
(* minted it.                                                              *)
LEMMA StepSendsTokens ==
    ASSUME RowsOK, [Next]_vars, NEW t \in DOMAIN tokens', tokens'[t].sent
    PROVE  /\ t \in DOMAIN tokens
           /\ ~tokens[t].sent => \E r \in Requests : Respond(r) /\ t = reqs[r].new
<1>1. t \in DOMAIN tokens
  BY StepInsertsTokens DEF IssuedBy
<1>. DEFINE Kept == tokens[t].sent
<1>2. tokens[t] \in RefreshToken
  BY <1>1 DEF RowsOK, TypeOK
<1>3. CASE tokens' = tokens
  BY <1>3
<1>4. ASSUME NEW keys, NEW now, RevokeTokens(keys, now) PROVE Kept
  <2>1. tokens'[t] = IF t \in keys THEN [tokens[t] EXCEPT !.revokedAt = now] ELSE tokens[t]
    BY <1>1, <1>4 DEF RevokeTokens
  <2>2. tokens'[t].sent = tokens[t].sent
    BY <1>2, <2>1 DEF RefreshToken
  <2>. QED
    BY <2>2
<1>5. ASSUME NEW r \in Requests, Respond(r), t # reqs[r].new PROVE Kept
  BY <1>1, <1>5 DEF Respond
<1>6. ASSUME NEW r \in Requests, RetireToken(r) PROVE Kept
  <2>1. tokens'[t].sent = tokens[t].sent
    BY <1>1, <1>2, <1>6 DEF RetireToken, RefreshToken
  <2>. QED
    BY <2>1
<1>7. ASSUME NEW r \in Requests, IssueToken(r) \/ SaveToken(r) PROVE Kept
  <2>1. \E u \in TokenIds \ DOMAIN tokens : \E row : tokens' = Insert(tokens, u, row)
    BY <1>7 DEF IssueToken, SaveToken
  <2>2. tokens'[t] = tokens[t]
    BY <1>1, <2>1 DEF Insert
  <2>. QED
    BY <2>2
<1>8. ASSUME NEW r \in Requests, StartRequest(r) PROVE Kept
  BY <1>3, <1>4, <1>8
  DEF StartRequest, StartLogin, StartReset, StartDeactivate, StartReactivate, StartLogout,
      StartImpersonation, StartRefresh, StartChangePassword, StartExit, StartHistory
<1>9. ASSUME NEW r \in Requests, Continue(r) PROVE Kept \/ (Respond(r) /\ t = reqs[r].new)
  BY <1>3, <1>4, <1>5, <1>6, <1>7, <1>9
  DEF Continue, IssueSession, Rehash, KillFamily, KillSession, ReadSession, EndSession,
      ReadUser, SaveSession, LogoutSession, FindLogs, LogsClosed, CloseLog, RevokeAllSessions,
      RevokeAllTokens, CheckPassword, SetPassword, Reread, ResetSessions, SetStatus, SaveLog,
      ExitSession, ExitTokens, ReconcileOpenLogs
<1>. QED
  BY <1>1, <1>3, <1>8, <1>9 DEF Next, Tick, Crash, vars

----------------------------------------------------------------------------
(* Requests served one at a time: what a request knows after each step *)

LEMMA SpentSurvive ==
    ASSUME NEW s, NEW t, OthersSpent(s, t), UNCHANGED tokens
    PROVE  OthersSpent(s, t)'
  BY DEF OthersSpent, TokensOf

(* The places where a request relies on nothing it has read. *)
FreePCs == {"idle", "endSession", "checkPassword", "setPassword", "reread", "resetSessions",
            "setStatus", "exitSession", "exitTokens"}

LEMMA FreeOfLocals ==
    ASSUME NEW r \in Requests, reqs'[r].pc \in FreePCs, reqs'[r].reason # "token-reuse"
    PROVE  ServedAlone(r)'
  BY DEF FreePCs, ServedAlone

LEMMA FinishedAlone ==
    ASSUME RowsOK, NEW r \in Requests, Finish(r)
    PROVE  ServedAlone(r)'
<1>1. reqs'[r].pc = "idle" /\ reqs'[r].reason = None
  BY AfterFinish DEF Idle
<1>. QED
  BY <1>1, NoneAssumption, FreeOfLocals DEF FreePCs, Reasons

LEMMA StartServedAlone ==
    ASSUME RowsOK, OneUsableTokenPerSession, NEW r \in Requests, StartRequest(r)
    PROVE  ServedAlone(r)'
<1>1. /\ reqs \in [Requests -> Request] /\ clock \in Nat
      /\ None # "token-reuse"
  BY NoneAssumption DEF RowsOK, TypeOK, Reasons
<1>2. ASSUME NEW u \in Users, StartLogin(r, u) PROVE ServedAlone(r)'
  <2>1. /\ reqs'[r].pc \in {"rehash", "issueSession"} /\ reqs'[r].reason = None
        /\ reqs'[r].user = u /\ reqs'[r].version = users[u].version
        /\ reqs'[r].pw = users[u].password /\ users' = users
    BY <1>1, <1>2 DEF StartLogin, Idle
  <2>. QED
    BY <1>1, <2>1 DEF ServedAlone
<1>3. ASSUME NEW u \in Users, StartImpersonation(r, u) PROVE ServedAlone(r)'
  <2>1. /\ reqs'[r].pc = "issueSession" /\ reqs'[r].reason = None
        /\ reqs'[r].user = u /\ reqs'[r].version = users[u].version /\ users' = users
    BY <1>1, <1>3 DEF StartImpersonation, Idle
  <2>. QED
    BY <1>1, <2>1 DEF ServedAlone
<1>4. ASSUME NEW t \in DOMAIN tokens, StartRefresh(r, t) PROVE ServedAlone(r)'
  <2>1. /\ reqs'[r].pc \in {"killFamily", "readSession"} /\ reqs'[r].op = "refresh"
        /\ reqs'[r].reason = None
        /\ reqs'[r].tok = t /\ reqs'[r].sess = tokens[t].session /\ tokens' = tokens
        /\ tokens[t].sent
    BY <1>1, <1>4 DEF StartRefresh, Idle
  <2>2. CASE reqs'[r].pc = "killFamily"
    BY <1>1, <2>1, <2>2 DEF ServedAlone
  <2>3. CASE reqs'[r].pc = "readSession"
    <3>1. tokens[t].revokedAt = None
      BY <1>1, <1>4, <2>3 DEF StartRefresh, Idle
    <3>2. OthersSpent(tokens[t].session, t)
      BY <2>1, <3>1 DEF OneUsableTokenPerSession, OthersSpent, TokensOf
    <3>3. OthersSpent(tokens[t].session, t)'
      BY <2>1, <3>2 DEF OthersSpent, TokensOf
    <3>4. OthersSpent(reqs[r].sess, reqs[r].tok)'
      BY <2>1, <3>3 DEF OthersSpent, TokensOf
    <3>. QED
      BY <1>1, <2>1, <2>3, <3>4 DEF ServedAlone
  <2>. QED
    BY <2>1, <2>2, <2>3
<1>5. ASSUME NEW t \in DOMAIN tokens, StartLogout(r, t) PROVE ServedAlone(r)'
  <2>1. reqs'[r].pc = "logoutSession" /\ reqs'[r].op = "logout" /\ reqs'[r].reason = None
    BY <1>1, <1>5 DEF StartLogout, Idle
  <2>. QED
    BY <1>1, <2>1 DEF ServedAlone
<1>6. ASSUME NEW t \in DOMAIN tokens, StartExit(r, t) PROVE ServedAlone(r)'
  <2>1. reqs'[r].pc = "findLogs" /\ reqs'[r].op = "exit" /\ reqs'[r].reason = None
    BY <1>1, <1>6 DEF StartExit, Idle
  <2>. QED
    BY <1>1, <2>1 DEF ServedAlone
<1>7. ASSUME StartHistory(r) PROVE ServedAlone(r)'
  <2>1. /\ reqs'[r].pc = "reconcile" /\ reqs'[r].at = clock /\ reqs'[r].reason = None
        /\ clock' = clock
    BY <1>1, <1>7 DEF StartHistory, Idle
  <2>. QED
    BY <1>1, <2>1 DEF ServedAlone
<1>8. ASSUME NEW t \in DOMAIN tokens, StartChangePassword(r, t) PROVE ServedAlone(r)'
  <2>1. reqs'[r].pc = "checkPassword" /\ reqs'[r].reason = "password-change"
    BY <1>1, <1>8 DEF StartChangePassword, Idle
  <2>. QED
    BY <2>1, FreeOfLocals DEF FreePCs
<1>9. ASSUME NEW u \in Users, StartReset(r, u) \/ StartDeactivate(r, u) \/ StartReactivate(r, u)
      PROVE  ServedAlone(r)'
  <2>1. reqs'[r].pc \in FreePCs /\ reqs'[r].reason \in {None, "deactivated"}
    BY <1>1, <1>9 DEF StartReset, StartDeactivate, StartReactivate, Idle, FreePCs
  <2>. QED
    BY <1>1, <2>1, FreeOfLocals
<1>. QED
  BY <1>2, <1>3, <1>4, <1>5, <1>6, <1>7, <1>8, <1>9 DEF StartRequest

(* Steps after which the request relies on nothing, or on its op alone. *)
LEMMA SettledStepsAlone ==
    ASSUME RowsOK, NEW r \in Requests, ServedAlone(r),
           \/ Respond(r) \/ EndSession(r) \/ CheckPassword(r) \/ LogsClosed(r)
           \/ ResetSessions(r) \/ ExitSession(r) \/ ExitTokens(r) \/ ReconcileOpenLogs(r)
           \/ Crash(r)
    PROVE  ServedAlone(r)'
<1>1. reqs[r].reason # "token-reuse"
  BY DEF ServedAlone
<1>2. CASE Finish(r)
  BY <1>2, FinishedAlone
<1>3. CASE \E pc \in {"setPassword", "reread", "exitSession", "exitTokens"} : SetPc(r, pc)
  <2>1. reqs'[r].pc \in FreePCs /\ reqs'[r].reason = reqs[r].reason
    BY <1>3, AfterSetPc DEF FreePCs
  <2>. QED
    BY <1>1, <2>1, FreeOfLocals
<1>. QED
  BY <1>2, <1>3
  DEF Respond, EndSession, CheckPassword, LogsClosed, ResetSessions, ExitSession, ExitTokens,
      ReconcileOpenLogs, Crash

LEMMA SetPasswordAlone ==
    ASSUME RowsOK, NEW r \in Requests, ServedAlone(r), SetPassword(r)
    PROVE  ServedAlone(r)'
<1>1. /\ reqs'[r].pc = IF reqs[r].op = "change" THEN "revokeSessions" ELSE "resetSessions"
      /\ reqs'[r].op = reqs[r].op /\ reqs'[r].reason = reqs[r].reason
  BY AfterSetPc DEF SetPassword
<1>. QED
  BY <1>1 DEF ServedAlone

LEMMA SetStatusAlone ==
    ASSUME RowsOK, NEW r \in Requests, ServedAlone(r), SetStatus(r)
    PROVE  ServedAlone(r)'
<1>1. CASE Finish(r)
  BY <1>1, FinishedAlone
<1>2. CASE reqs[r].op = "deactivate" /\ SetPc(r, "revokeSessions")
  <2>1. /\ reqs'[r].pc = "revokeSessions" /\ reqs'[r].op = "deactivate"
        /\ reqs'[r].reason = reqs[r].reason
    BY <1>2, AfterSetPc
  <2>. QED
    BY <2>1 DEF ServedAlone
<1>. QED
  BY <1>1, <1>2 DEF SetStatus

LEMMA RehashAlone ==
    ASSUME RowsOK, NEW r \in Requests, ServedAlone(r), Rehash(r)
    PROVE  ServedAlone(r)'
<1>1. /\ reqs'[r].pc = "issueSession" /\ reqs'[r].user = reqs[r].user
      /\ reqs'[r].version = reqs[r].version /\ reqs'[r].reason = reqs[r].reason
  BY AfterSetPc DEF Rehash
<1>2. /\ reqs[r].user \in Users /\ reqs[r].version = users[reqs[r].user].version
      /\ users \in [Users -> User]
  BY DEF Rehash, At, ServedAlone, RowsOK, TypeOK, InFlightOK, LocalsSet
<1>3. users'[reqs[r].user].version = users[reqs[r].user].version
  BY <1>2 DEF Rehash, User
<1>. QED
  BY <1>1, <1>2, <1>3 DEF ServedAlone

LEMMA IssueSessionAlone ==
    ASSUME RowsOK, NEW r \in Requests, ServedAlone(r), IssueSession(r)
    PROVE  ServedAlone(r)'
<1>1. PICK s, row :
             /\ s \in SessionIds \ DOMAIN sessions
             /\ row.revokedAt = None
             /\ sessions' = Insert(sessions, s, row)
             /\ reqs' = [reqs EXCEPT ![r].pc = "issueToken", ![r].sess = s]
  BY DEF IssueSession
<1>2. /\ reqs'[r].pc = "issueToken" /\ reqs'[r].sess = s /\ reqs'[r].user = reqs[r].user
      /\ reqs'[r].version = reqs[r].version /\ reqs'[r].reason = reqs[r].reason
  BY <1>1 DEF RowsOK, TypeOK, Request
<1>3. reqs[r].version = users[reqs[r].user].version /\ users' = users /\ tokens' = tokens
  BY DEF IssueSession, At, ServedAlone
<1>4. Live(s)'
  BY <1>1 DEF Insert, Live
<1>5. TokensOf({s})' = {}
  BY <1>1, <1>3 DEF TokensOf, RowsOK, RowsLinked
<1>6. reqs'[r].reason # "token-reuse"
  BY <1>2 DEF ServedAlone
<1>. QED
  BY <1>2, <1>3, <1>4, <1>5, <1>6 DEF ServedAlone, Live, TokensOf

LEMMA IssueTokenAlone ==
    ASSUME RowsOK, NEW r \in Requests, ServedAlone(r), IssueToken(r)
    PROVE  ServedAlone(r)'
<1>1. PICK t, row :
             /\ t \in TokenIds \ DOMAIN tokens
             /\ tokens' = Insert(tokens, t, row)
             /\ reqs' = [reqs EXCEPT ![r].new = t,
                                     ![r].pc = IF reqs[r].op = "impersonate"
                                               THEN "saveLog" ELSE "respond"]
  BY DEF IssueToken
<1>2. /\ reqs'[r].pc \in {"saveLog", "respond"} /\ reqs'[r].sess = reqs[r].sess
      /\ reqs'[r].new = t /\ reqs'[r].reason = reqs[r].reason
  BY <1>1 DEF RowsOK, TypeOK, Request
<1>3. TokensOf({reqs[r].sess}) = {}
  BY DEF IssueToken, At, ServedAlone
<1>4. \A x \in DOMAIN tokens' : x = t \/ (x \in DOMAIN tokens /\ tokens'[x] = tokens[x])
  BY <1>1 DEF Insert
<1>5. OthersSpent(reqs[r].sess, reqs[r].new)'
  BY <1>2, <1>3, <1>4 DEF OthersSpent, TokensOf
<1>6. reqs'[r].reason # "token-reuse"
  BY <1>2 DEF ServedAlone
<1>. QED
  BY <1>2, <1>5, <1>6 DEF ServedAlone

LEMMA SaveLogAlone ==
    ASSUME RowsOK, NEW r \in Requests, ServedAlone(r), SaveLog(r) \/ SaveSession(r)
    PROVE  ServedAlone(r)'
<1>1. /\ reqs'[r].pc = "respond" /\ reqs'[r].sess = reqs[r].sess
      /\ reqs'[r].new = reqs[r].new /\ reqs'[r].reason = reqs[r].reason
  BY AfterSetPc DEF SaveLog, SaveSession
<1>2. OthersSpent(reqs[r].sess, reqs[r].new) /\ tokens' = tokens
  BY DEF SaveLog, SaveSession, At, ServedAlone
<1>3. OthersSpent(reqs[r].sess, reqs[r].new)'
  BY <1>1, <1>2 DEF OthersSpent, TokensOf
<1>4. reqs'[r].reason # "token-reuse"
  BY <1>1 DEF ServedAlone
<1>. QED
  BY <1>1, <1>3, <1>4 DEF ServedAlone

LEMMA KillFamilyAlone ==
    ASSUME RowsOK, NEW r \in Requests, ServedAlone(r), KillFamily(r)
    PROVE  ServedAlone(r)'
<1>1. /\ reqs'[r].pc = "killSession" /\ reqs'[r].sess = reqs[r].sess
      /\ reqs'[r].op = reqs[r].op /\ reqs'[r].reason = reqs[r].reason
  BY AfterSetPc DEF KillFamily
<1>2. /\ reqs[r].op \notin {"change", "deactivate"} /\ reqs[r].reason # "token-reuse"
      /\ reqs[r].at # None
  BY NoneAssumption DEF KillFamily, At, ServedAlone, RowsOK, InFlightOK, LocalsSet
<1>3. \A t \in DOMAIN tokens' :
        tokens'[t].session = reqs[r].sess => tokens'[t].revokedAt # None
  <2>. SUFFICES ASSUME NEW t \in DOMAIN tokens, tokens'[t].session = reqs[r].sess
                PROVE  tokens'[t].revokedAt # None
    BY DEF KillFamily, RevokeTokens
  <2>1. tokens[t] \in RefreshToken
    BY DEF RowsOK, TypeOK
  <2>2. tokens'[t] = IF t \in TokensOf({reqs[r].sess})
                     THEN [tokens[t] EXCEPT !.revokedAt = reqs[r].at] ELSE tokens[t]
    BY DEF KillFamily, RevokeTokens
  <2>3. t \in TokensOf({reqs[r].sess})
    BY <2>1, <2>2 DEF TokensOf, RefreshToken
  <2>. QED
    BY <1>2, <2>1, <2>2, <2>3 DEF RefreshToken
<1>4. Unrevoked(TokensOf({reqs[r].sess}))' = {}
  BY <1>1, <1>3 DEF Unrevoked, TokensOf
<1>. QED
  BY <1>1, <1>2, <1>4 DEF ServedAlone, Unrevoked, TokensOf

LEMMA RevokedEnds ==
    ASSUME RowsOK, NEW keys, NEW now \in Nat, NEW reason, RevokeSessions(keys, now, reason),
           NEW s \in DOMAIN sessions
    PROVE  /\ Live(s)' => Live(s) /\ s \notin keys
           /\ sessions'[s].user = sessions[s].user
<1>1. sessions[s] \in AuthSession /\ now # None
  BY NoneAssumption DEF RowsOK, TypeOK
<1>2. sessions'[s] = IF s \in keys
                     THEN [sessions[s] EXCEPT !.revokedAt = now, !.revokedReason = reason]
                     ELSE sessions[s]
  BY DEF RevokeSessions
<1>. QED
  BY <1>1, <1>2 DEF Live, AuthSession

(* The session has ended before its log is looked for. *)
LEMMA EndedBeforeLogs ==
    ASSUME RowsOK, NEW r \in Requests, ServedAlone(r),
           At(r, "killSession") \/ At(r, "logoutSession"),
           NEW reason, RevokeSessions({reqs[r].sess}, reqs[r].at, reason), SetPc(r, "findLogs")
    PROVE  ServedAlone(r)'
<1>1. /\ reqs'[r].pc = "findLogs" /\ reqs'[r].sess = reqs[r].sess
      /\ reqs'[r].op = reqs[r].op /\ reqs'[r].reason = reqs[r].reason
  BY AfterSetPc
<1>2. /\ reqs[r].op \notin {"change", "deactivate"} /\ reqs[r].reason # "token-reuse"
      /\ reqs[r].at \in Nat /\ reqs[r].sess \in DOMAIN sessions
  BY DEF At, ServedAlone, RowsOK, InFlightOK, LocalsSet
<1>3. ~Live(reqs[r].sess)'
  <2>. DEFINE s == reqs[r].sess
  <2>1. sessions'[s].revokedAt # None
    BY <1>2, RevokedEnds DEF Live
  <2>. QED
    BY <1>1, <2>1 DEF Live
<1>4. \A s \in LogScope(reqs[r])' : ~Live(s)'
  BY <1>1, <1>2, <1>3 DEF LogScope, Live
<1>. QED
  BY <1>1, <1>2, <1>4 DEF ServedAlone, Live

LEMMA KillSessionAlone ==
    ASSUME RowsOK, NEW r \in Requests, ServedAlone(r), KillSession(r)
    PROVE  ServedAlone(r)'
<1>1. CASE Finish(r)
  BY <1>1, FinishedAlone
<1>2. CASE ~Finish(r)
  <2>1. /\ At(r, "killSession") /\ SetPc(r, "findLogs")
        /\ RevokeSessions({reqs[r].sess}, reqs[r].at, "token-reuse")
    BY <1>2 DEF KillSession
  <2>. QED
    BY <2>1, EndedBeforeLogs
<1>. QED
  BY <1>1, <1>2

LEMMA LogoutSessionAlone ==
    ASSUME RowsOK, NEW r \in Requests, ServedAlone(r), LogoutSession(r)
    PROVE  ServedAlone(r)'
  BY EndedBeforeLogs DEF LogoutSession

LEMMA RevokeAllSessionsAlone ==
    ASSUME RowsOK, NEW r \in Requests, ServedAlone(r), RevokeAllSessions(r)
    PROVE  ServedAlone(r)'
<1>. DEFINE q == reqs[r]
<1>1. /\ reqs'[r].pc = "revokeTokens" /\ reqs'[r].user = q.user
      /\ reqs'[r].op = q.op /\ reqs'[r].reason = q.reason
  BY DEF RevokeAllSessions, RowsOK, TypeOK, Request
<1>2. /\ q.op \in {"change", "deactivate"} /\ q.reason # "token-reuse" /\ clock \in Nat
      /\ RevokeSessions({s \in SessionsOf(q.user) : Live(s)}, clock, q.reason)
  BY DEF RevokeAllSessions, At, ServedAlone, RowsOK, TypeOK
<1>3. \A s \in DOMAIN sessions' : sessions'[s].user = q.user => sessions'[s].revokedAt # None
  <2>1. DOMAIN sessions' = DOMAIN sessions
    BY <1>2 DEF RevokeSessions
  <2>. QED
    BY <1>2, <2>1, RevokedEnds DEF SessionsOf, Live
<1>4. \A s \in LogScope(reqs[r])' : ~Live(s)'
  BY <1>1, <1>2, <1>3 DEF LogScope, SessionsOf, Live
<1>. QED
  BY <1>1, <1>2, <1>4 DEF ServedAlone, Live

LEMMA RevokeAllTokensAlone ==
    ASSUME RowsOK, NEW r \in Requests, ServedAlone(r), RevokeAllTokens(r)
    PROVE  ServedAlone(r)'
<1>1. /\ reqs'[r].pc = "findLogs" /\ reqs'[r].sess = reqs[r].sess
      /\ reqs'[r].user = reqs[r].user /\ reqs'[r].op = reqs[r].op
      /\ reqs'[r].reason = reqs[r].reason /\ sessions' = sessions
  BY AfterSetPc DEF RevokeAllTokens
<1>2. (\A s \in LogScope(reqs[r]) : ~Live(s)) /\ reqs[r].reason # "token-reuse"
  BY DEF RevokeAllTokens, At, ServedAlone
<1>3. \A s \in LogScope(reqs[r])' : ~Live(s)'
  BY <1>1, <1>2 DEF LogScope, SessionsOf, Live
<1>. QED
  BY <1>1, <1>2, <1>3 DEF ServedAlone, Live

LEMMA FindLogsAlone ==
    ASSUME RowsOK, NEW r \in Requests, ServedAlone(r), FindLogs(r)
    PROVE  ServedAlone(r)'
<1>. DEFINE q == reqs[r]
<1>1. /\ reqs'[r].pc = "closeLogs" /\ reqs'[r].sess = q.sess
      /\ reqs'[r].op = q.op /\ reqs'[r].reason = q.reason /\ sessions' = sessions
      /\ reqs'[r].open \subseteq LogScope(q)
  BY DEF FindLogs, RowsOK, TypeOK, Request
<1>2. q.reason # "token-reuse" /\ (q.op # "exit" => \A s \in LogScope(q) : ~Live(s))
  BY DEF FindLogs, At, ServedAlone
<1>3. q.op = "exit" => LogScope(q) = {q.sess}
  BY DEF LogScope
<1>4. \A s \in reqs'[r].open : Live(s)' => q.op = "exit" /\ s = q.sess
  BY <1>1, <1>2, <1>3 DEF Live
<1>. QED
  BY <1>1, <1>2, <1>4 DEF ServedAlone, Live

LEMMA CloseLogAlone ==
    ASSUME RowsOK, NEW r \in Requests, ServedAlone(r), NEW s \in DOMAIN logs, CloseLog(r, s)
    PROVE  ServedAlone(r)'
<1>1. /\ reqs'[r].pc = "closeLogs" /\ reqs'[r].sess = reqs[r].sess
      /\ reqs'[r].op = reqs[r].op /\ reqs'[r].reason = reqs[r].reason
      /\ reqs'[r].open \subseteq reqs[r].open /\ sessions' = sessions
  BY DEF CloseLog, At, RowsOK, TypeOK, Request
<1>2. /\ reqs[r].reason # "token-reuse"
      /\ \A x \in reqs[r].open : Live(x) => reqs[r].op = "exit" /\ x = reqs[r].sess
  BY DEF CloseLog, At, ServedAlone
<1>. QED
  BY <1>1, <1>2 DEF ServedAlone, Live

LEMMA ReadSessionAlone ==
    ASSUME RowsOK, NEW r \in Requests, ServedAlone(r), ReadSession(r)
    PROVE  ServedAlone(r)'
<1>. DEFINE q == reqs[r]
<1>1. /\ reqs \in [Requests -> Request] /\ q \in Request
      /\ OthersSpent(q.sess, q.tok) /\ q.reason # "token-reuse"
      /\ UNCHANGED <<users, sessions, tokens>>
  BY DEF RowsOK, TypeOK, ReadSession, At, ServedAlone
<1>2. CASE Finish(r)
  BY <1>2, FinishedAlone
<1>3. CASE \E why \in {"expired", "idle-timeout"} :
             reqs' = [reqs EXCEPT ![r].pc = "endSession", ![r].reason = why]
  <2>1. reqs'[r].pc = "endSession" /\ reqs'[r].reason \in {"expired", "idle-timeout"}
    BY <1>1, <1>3 DEF Request
  <2>. QED
    BY <2>1, FreeOfLocals DEF FreePCs
<1>4. CASE /\ sessions[q.sess].revokedAt = None
           /\ reqs' = [reqs EXCEPT ![r].pc = "readUser", ![r].seen = sessions[q.sess]]
  <2>1. /\ reqs'[r].pc = "readUser" /\ reqs'[r].seen = sessions[q.sess]
        /\ reqs'[r].sess = q.sess /\ reqs'[r].tok = q.tok /\ reqs'[r].reason = q.reason
    BY <1>1, <1>4 DEF Request
  <2>2. OthersSpent(reqs[r].sess, reqs[r].tok)'
    BY <1>1, <2>1 DEF OthersSpent, TokensOf
  <2>. QED
    BY <1>1, <1>4, <2>1, <2>2 DEF ServedAlone, Live
<1>. QED
  BY <1>2, <1>3, <1>4 DEF ReadSession

LEMMA ReadUserAlone ==
    ASSUME RowsOK, NEW r \in Requests, ServedAlone(r), ReadUser(r)
    PROVE  ServedAlone(r)'
<1>. DEFINE q == reqs[r]
<1>1. /\ reqs \in [Requests -> Request] /\ q \in Request
      /\ OthersSpent(q.sess, q.tok) /\ q.reason # "token-reuse"
      /\ q.seen = sessions[q.sess] /\ Live(q.sess)
      /\ UNCHANGED <<users, sessions, tokens>>
  BY DEF RowsOK, TypeOK, ReadUser, At, ServedAlone
<1>2. CASE Finish(r)
  BY <1>2, FinishedAlone
<1>3. CASE reqs' = [reqs EXCEPT ![r].pc = "saveToken", ![r].version = users[q.user].version]
  <2>1. /\ reqs'[r].pc = "saveToken" /\ reqs'[r].version = users[q.user].version
        /\ reqs'[r].sess = q.sess /\ reqs'[r].tok = q.tok /\ reqs'[r].user = q.user
        /\ reqs'[r].reason = q.reason /\ reqs'[r].seen = q.seen
    BY <1>1, <1>3 DEF Request
  <2>2. OthersSpent(reqs[r].sess, reqs[r].tok)'
    BY <1>1, <2>1 DEF OthersSpent, TokensOf
  <2>. QED
    BY <1>1, <2>1, <2>2 DEF ServedAlone, Live
<1>. QED
  BY <1>2, <1>3 DEF ReadUser

LEMMA SaveTokenAlone ==
    ASSUME RowsOK, NEW r \in Requests, ServedAlone(r), SaveToken(r)
    PROVE  ServedAlone(r)'
<1>. DEFINE q == reqs[r]
<1>1. /\ reqs \in [Requests -> Request] /\ q \in Request
      /\ OthersSpent(q.sess, q.tok) /\ q.reason # "token-reuse"
      /\ q.seen = sessions[q.sess] /\ Live(q.sess) /\ sessions' = sessions
  BY DEF RowsOK, TypeOK, SaveToken, At, ServedAlone
<1>2. PICK t \in TokenIds \ DOMAIN tokens :
             /\ tokens' = Insert(tokens, t, SavedToken(r, None))
             /\ reqs' = [reqs EXCEPT ![r].pc = "retireToken", ![r].new = t]
  BY DEF SaveToken
<1>3. /\ reqs'[r].pc = "retireToken" /\ reqs'[r].sess = q.sess /\ reqs'[r].tok = q.tok
      /\ reqs'[r].reason = q.reason /\ reqs'[r].seen = q.seen
  BY <1>1, <1>2 DEF Request
<1>4. \A x \in DOMAIN tokens' :
        \/ ~tokens'[x].sent
        \/ x \in DOMAIN tokens /\ tokens'[x] = tokens[x]
  <2>1. ~SavedToken(r, None).sent
    BY DEF SavedToken
  <2>. QED
    BY <1>2, <2>1 DEF Insert
<1>5. OthersSpent(reqs[r].sess, reqs[r].tok)'
  BY <1>1, <1>3, <1>4 DEF OthersSpent, TokensOf
<1>. QED
  BY <1>1, <1>3, <1>5 DEF ServedAlone, Live

LEMMA RetireTokenAlone ==
    ASSUME RowsOK, NEW r \in Requests, ServedAlone(r), RetireToken(r)
    PROVE  ServedAlone(r)'
<1>. DEFINE q == reqs[r]
<1>1. /\ OthersSpent(q.sess, q.tok) /\ q.reason # "token-reuse"
      /\ q.seen = sessions[q.sess] /\ Live(q.sess) /\ sessions' = sessions
      /\ clock # None
  BY NoneAssumption DEF RowsOK, TypeOK, RetireToken, At, ServedAlone
<1>2. /\ reqs'[r].pc = "saveSession" /\ reqs'[r].sess = q.sess /\ reqs'[r].new = q.new
      /\ reqs'[r].reason = q.reason /\ reqs'[r].seen = q.seen
  BY AfterSetPc DEF RetireToken
<1>3. \A x \in DOMAIN tokens' :
        /\ x \in DOMAIN tokens
        /\ x # q.tok => tokens'[x] = tokens[x]
        /\ x = q.tok => tokens'[x].revokedAt # None
  <2>1. \A x \in DOMAIN tokens : tokens[x] \in RefreshToken
    BY DEF RowsOK, TypeOK
  <2>. QED
    BY <1>1, <2>1 DEF RetireToken, RefreshToken
<1>4. OthersSpent(q.sess, q.new)'
  BY <1>1, <1>2, <1>3 DEF OthersSpent, TokensOf
<1>. QED
  BY <1>1, <1>2, <1>4 DEF ServedAlone, Live

LEMMA RereadAlone ==
    ASSUME RowsOK, NEW r \in Requests, ServedAlone(r), Reread(r)
    PROVE  ServedAlone(r)'
<1>1. /\ reqs'[r].pc = "issueSession" /\ reqs'[r].user = reqs[r].user
      /\ reqs'[r].version = users[reqs[r].user].version
      /\ reqs'[r].reason = reqs[r].reason /\ users' = users
  BY DEF Reread, RowsOK, TypeOK, Request
<1>. QED
  BY <1>1 DEF ServedAlone

LEMMA WaitAlone ==
    ASSUME RowsOK, NEW r \in Requests, ServedAlone(r),
           UNCHANGED <<users, sessions, tokens, logs, reqs>>, clock' \in Nat, clock <= clock'
    PROVE  ServedAlone(r)'
<1>1. At(r, "reconcile") => reqs[r].at \in Nat /\ clock \in Nat
  BY DEF RowsOK, TypeOK, InFlightOK, LocalsSet, At
<1>2. /\ OthersSpent(reqs[r].sess, reqs[r].tok)' <=> OthersSpent(reqs[r].sess, reqs[r].tok)
      /\ OthersSpent(reqs[r].sess, reqs[r].new)' <=> OthersSpent(reqs[r].sess, reqs[r].new)
      /\ TokensOf({reqs[r].sess})' = TokensOf({reqs[r].sess})
      /\ Unrevoked(TokensOf({reqs[r].sess}))' = Unrevoked(TokensOf({reqs[r].sess}))
      /\ LogScope(reqs[r])' = LogScope(reqs[r])
  BY DEF OthersSpent, TokensOf, Unrevoked, LogScope, SessionsOf
<1>3. \A s : Live(s)' <=> Live(s)
  BY DEF Live
<1>4. reqs[r].pc = "reconcile" => reqs'[r].at <= clock'
  BY <1>1 DEF ServedAlone, At
<1>. QED
  BY <1>2, <1>3, <1>4 DEF ServedAlone

LEMMA StepServedAlone ==
    ASSUME RowsOK, AloneInv, [Next]_vars, OneAtATime, NEW r \in Requests
    PROVE  ServedAlone(r)'
<1>1. ServedAlone(r) /\ OneUsableTokenPerSession /\ clock \in Nat
  BY DEF AloneInv, RowsOK, TypeOK
<1>2. CASE Tick
  BY <1>1, <1>2, WaitAlone DEF Tick
<1>3. CASE UNCHANGED vars
  BY <1>1, <1>3, WaitAlone DEF vars
<1>4. CASE StartRequest(r)
  BY <1>1, <1>4, StartServedAlone
<1>5. CASE Crash(r)
  BY <1>1, <1>5, SettledStepsAlone
<1>6. CASE Continue(r)
  BY <1>1, <1>6, SettledStepsAlone, SetPasswordAlone, SetStatusAlone, RehashAlone,
     IssueSessionAlone, IssueTokenAlone, SaveLogAlone, KillFamilyAlone, KillSessionAlone,
     LogoutSessionAlone, RevokeAllSessionsAlone, RevokeAllTokensAlone, FindLogsAlone,
     CloseLogAlone, ReadSessionAlone, ReadUserAlone, SaveTokenAlone, RetireTokenAlone,
     RereadAlone DEF Continue
<1>. QED
  BY <1>2, <1>3, <1>4, <1>5, <1>6 DEF Next, OneAtATime

----------------------------------------------------------------------------
(* Requests served one at a time: the invariant, whichever requests crash *)

LEMMA EndsExplainedKept ==
    ASSUME RowsOK, AloneInv, [Next]_vars
    PROVE  EndsExplained'
<1>. SUFFICES ASSUME NEW s \in DOMAIN sessions', sessions'[s].revokedReason # None
              PROVE  sessions'[s].revokedAt # None
  BY DEF EndsExplained, Live
<1>1. s \in DOMAIN sessions
  BY StepInsertsSessions
<1>2. EndedBy(s) /\ (sessions[s].revokedReason # None => sessions[s].revokedAt # None)
  BY <1>1, StepEndsSessions DEF AloneInv, EndsExplained, Live
<1>. QED
  BY <1>2 DEF EndedBy

LEMMA OneUsableTokenKept ==
    ASSUME RowsOK, AloneInv, [Next]_vars
    PROVE  OneUsableTokenPerSession'
<1>. SUFFICES ASSUME NEW t1 \in DOMAIN tokens', NEW t2 \in DOMAIN tokens', t1 # t2,
                     tokens'[t1].session = tokens'[t2].session,
                     tokens'[t1].sent, tokens'[t2].sent,
                     tokens'[t1].revokedAt = None, tokens'[t2].revokedAt = None
              PROVE  FALSE
  BY DEF OneUsableTokenPerSession
<1>1. /\ t1 \in DOMAIN tokens /\ t2 \in DOMAIN tokens
      /\ ~tokens[t1].sent => \E r \in Requests : Respond(r) /\ t1 = reqs[r].new
      /\ ~tokens[t2].sent => \E r \in Requests : Respond(r) /\ t2 = reqs[r].new
  BY StepSendsTokens
<1>2. /\ tokens[t1].session = tokens[t2].session
      /\ tokens[t1].revokedAt = None /\ tokens[t2].revokedAt = None
  BY <1>1, StepKeepsTokens DEF TokenKept
<1>3. ~tokens[t1].sent \/ ~tokens[t2].sent
  BY <1>1, <1>2 DEF AloneInv, OneUsableTokenPerSession
<1>4. ASSUME NEW t \in DOMAIN tokens, NEW x \in DOMAIN tokens, t # x,
             tokens[t].session = tokens[x].session, tokens[x].revokedAt = None,
             tokens'[x].sent, NEW r \in Requests, Respond(r), t = reqs[r].new
      PROVE  FALSE
  <2>1. OthersSpent(reqs[r].sess, t) /\ tokens[t].session = reqs[r].sess
    BY <1>4 DEF Respond, At, AloneInv, ServedAlone, RowsOK, InFlightOK, RotationLocals
  <2>2. tokens[x].sent
    BY <1>4 DEF Respond
  <2>. QED
    BY <1>4, <2>1, <2>2 DEF OthersSpent, TokensOf
<1>. QED
  BY <1>1, <1>2, <1>3, <1>4

LEMMA ReuseEndsFamilyKept ==
    ASSUME RowsOK, AloneInv, [Next]_vars
    PROVE  ReuseEndsFamily'
<1>. SUFFICES ASSUME NEW s \in DOMAIN sessions', sessions'[s].revokedReason = "token-reuse",
                     NEW t \in DOMAIN tokens', tokens'[t].session = s
              PROVE  tokens'[t].revokedAt # None
  BY DEF ReuseEndsFamily, Unrevoked, TokensOf
<1>1. s \in DOMAIN sessions
  BY StepInsertsSessions, NoneAssumption DEF Reasons
<1>2. CASE sessions[s].revokedReason = "token-reuse"
  <2>1. \A x \in DOMAIN tokens : tokens[x].session = s => tokens[x].revokedAt # None
    BY <1>1, <1>2 DEF AloneInv, ReuseEndsFamily, Unrevoked, TokensOf
  <2>2. CASE t \in DOMAIN tokens
    BY <2>1, <2>2, StepKeepsTokens DEF TokenKept
  <2>3. CASE t \notin DOMAIN tokens
    <3>1. PICK r \in Requests : IssuedBy(t, r)
      BY <2>3, StepInsertsTokens
    <3>2. Live(s)
      BY <3>1 DEF IssuedBy, AloneInv, ServedAlone
    <3>3. ~Live(s)
      BY <1>1, <1>2, NoneAssumption DEF AloneInv, EndsExplained, Reasons
    <3>. QED
      BY <3>2, <3>3
  <2>. QED
    BY <2>2, <2>3
<1>3. CASE sessions[s].revokedReason # "token-reuse"
  <2>1. PICK r \in Requests : At(r, "killSession") /\ s = reqs[r].sess /\ tokens' = tokens
    BY <1>1, <1>3, StepEndsSessions DEF AloneInv, EndedBy
  <2>2. Unrevoked(TokensOf({s})) = {}
    BY <2>1 DEF At, AloneInv, ServedAlone
  <2>. QED
    BY <2>1, <2>2 DEF Unrevoked, TokensOf
<1>. QED
  BY <1>2, <1>3

LEMMA AloneNextOK == RowsOK /\ AloneInv /\ OneAtATime /\ [Next]_vars => AloneInv'
  BY StepServedAlone, EndsExplainedKept, OneUsableTokenKept, ReuseEndsFamilyKept DEF AloneInv

LEMMA AloneInitOK == Init => AloneInv
<1>. SUFFICES ASSUME Init PROVE AloneInv
  OBVIOUS
<1>1. \A r \in Requests : ServedAlone(r)
  BY NoneAssumption DEF Init, Idle, ServedAlone, Reasons
<1>2. EndsExplained /\ OneUsableTokenPerSession /\ ReuseEndsFamily
  BY DEF Init, EndsExplained, OneUsableTokenPerSession, ReuseEndsFamily
<1>. QED
  BY <1>1, <1>2 DEF AloneInv

(* Requests served one at a time find the rows as they left them, through  *)
(* every crash.                                                            *)
THEOREM AloneInvariance ==
    ASSUME OneAtATime
    PROVE  Spec => []AloneInv
<1>1. Init => AloneInv
  BY AloneInitOK
<1>2. RowsOK /\ AloneInv /\ [Next]_vars => AloneInv'
  BY AloneNextOK
<1>. QED
  BY <1>1, <1>2, RowsInvariant, PTL DEF Spec

(* Requests served one at a time leave a session at most one token that a  *)
(* client holds and can rotate, even when the server dies between the      *)
(* steps of a rotation.                                                    *)
THEOREM OneTokenPerSession ==
    ASSUME OneAtATime
    PROVE  Spec => []OneUsableTokenPerSession
<1>1. AloneInv => OneUsableTokenPerSession
  BY DEF AloneInv
<1>. QED
  BY <1>1, AloneInvariance, PTL

(* Requests served one at a time: a session ended by reuse detection has   *)
(* no token left to rotate, even when the server dies half-way through.    *)
THEOREM ReuseLeavesNoToken ==
    ASSUME OneAtATime
    PROVE  Spec => []ReuseEndsFamily
<1>1. AloneInv => ReuseEndsFamily
  BY DEF AloneInv
<1>. QED
  BY <1>1, AloneInvariance, PTL

(* Requests served one at a time: no step of any of them, refresh's save of *)
(* the whole row included, brings an ended session back.                    *)
THEOREM EndedSessionsStayEnded ==
    ASSUME OneAtATime
    PROVE  Spec => SessionEndIsPermanent
<1>1. RowsOK /\ AloneInv /\ [Next]_vars =>
        [\A s \in DOMAIN sessions :
           sessions[s].revokedAt # None => sessions'[s].revokedAt # None]_vars
  BY StepEndsSessions DEF AloneInv, EndedBy
<1>. QED
  BY <1>1, AloneInvariance, RowsInvariant, PTL DEF Spec, SessionEndIsPermanent

----------------------------------------------------------------------------
(* Requests served one at a time to their end: no crash *)

LEMMA ClockAdvances ==
    ASSUME RowsOK, [Next]_vars
    PROVE  clock \in Nat /\ clock' \in Nat /\ clock <= clock'
<1>1. clock \in Nat
  BY DEF RowsOK, TypeOK
<1>2. ASSUME NEW r \in Requests, StartRequest(r) PROVE clock' = clock
  BY <1>2
  DEF StartRequest, StartLogin, StartReset, StartDeactivate, StartReactivate, StartLogout,
      StartImpersonation, StartRefresh, StartChangePassword, StartExit, StartHistory
<1>3. ASSUME NEW r \in Requests, Continue(r) PROVE clock' = clock
  BY <1>3
  DEF Continue, IssueSession, IssueToken, Respond, Rehash, KillFamily, KillSession,
      ReadSession, EndSession, ReadUser, SaveToken, RetireToken, SaveSession, LogoutSession,
      FindLogs, LogsClosed, CloseLog, RevokeAllSessions, RevokeAllTokens, CheckPassword,
      SetPassword, Reread, ResetSessions, SetStatus, SaveLog, ExitSession, ExitTokens,
      ReconcileOpenLogs
<1>4. CASE Tick
  BY <1>1, <1>4 DEF Tick
<1>5. CASE clock' = clock
  BY <1>1, <1>5
<1>. QED
  BY <1>2, <1>3, <1>4, <1>5 DEF Next, Crash, vars

(* A request in its sweep goes on with it. *)
LEMMA SweepGoesOn ==
    ASSUME NEW r \in Requests, reqs[r].pc \in {"revokeSessions", "resetSessions"},
           StartRequest(r) \/ Continue(r)
    PROVE  RevokeAllSessions(r) \/ ResetSessions(r)
<1>1. ~StartRequest(r)
  BY DEF StartRequest, StartLogin, StartReset, StartDeactivate, StartReactivate, StartLogout,
      StartImpersonation, StartRefresh, StartChangePassword, StartExit, StartHistory, CanStart
<1>. QED
  BY <1>1
  DEF Continue, IssueSession, IssueToken, Respond, Rehash, KillFamily, KillSession,
      ReadSession, EndSession, ReadUser, SaveToken, RetireToken, SaveSession, LogoutSession,
      FindLogs, LogsClosed, CloseLog, RevokeAllTokens, CheckPassword, SetPassword, Reread,
      SetStatus, SaveLog, ExitSession, ExitTokens, ReconcileOpenLogs, At

LEMMA OnlySetPasswordBumps ==
    ASSUME RowsOK, [Next]_vars, NEW u \in Users, users'[u].version # users[u].version
    PROVE  \E r \in Requests : SetPassword(r) /\ u = reqs[r].user
<1>1. users \in [Users -> User] /\ users[u] \in User
  BY DEF RowsOK, TypeOK
<1>2. users' # users
  OBVIOUS
<1>3. ASSUME NEW r \in Requests, Rehash(r) PROVE FALSE
  BY <1>1, <1>3 DEF Rehash, User
<1>4. ASSUME NEW r \in Requests, SetPassword(r) PROVE u = reqs[r].user
  BY <1>1, <1>4 DEF SetPassword
<1>5. ASSUME NEW r \in Requests, SetStatus(r) PROVE FALSE
  BY <1>1, <1>5 DEF SetStatus, User
<1>6. ASSUME NEW r \in Requests, StartRequest(r) PROVE users' = users
  BY <1>6
  DEF StartRequest, StartLogin, StartReset, StartDeactivate, StartReactivate, StartLogout,
      StartImpersonation, StartRefresh, StartChangePassword, StartExit, StartHistory
<1>7. ASSUME NEW r \in Requests, Continue(r)
      PROVE  users' = users \/ Rehash(r) \/ SetPassword(r) \/ SetStatus(r)
  BY <1>7
  DEF Continue, IssueSession, IssueToken, Respond, KillFamily, KillSession, ReadSession,
      EndSession, ReadUser, SaveToken, RetireToken, SaveSession, LogoutSession, FindLogs,
      LogsClosed, CloseLog, RevokeAllSessions, RevokeAllTokens, CheckPassword, Reread,
      ResetSessions, SaveLog, ExitSession, ExitTokens, ReconcileOpenLogs
<1>. QED
  BY <1>2, <1>3, <1>4, <1>5, <1>6, <1>7 DEF Next, Tick, Crash, vars

SweepPending(u) ==
    \E r \in Requests : /\ reqs[r].pc \in {"revokeSessions", "resetSessions"}
                        /\ reqs[r].user = u

(* A sweep that was pending is still to be done, or has just been done. *)
LEMMA PendingSweep ==
    ASSUME RowsOK, [Next]_vars, OneAtATime, ~CanCrash, NEW s \in DOMAIN sessions,
           SweepPending(sessions[s].user)
    PROVE  SweepPending(sessions[s].user)' \/ ~Live(s)'
<1>1. PICK r \in Requests : /\ reqs[r].pc \in {"revokeSessions", "resetSessions"}
                            /\ reqs[r].user = sessions[s].user
  BY DEF SweepPending
<1>2. sessions'[s].user = sessions[s].user
  BY StepKeepsSupervision DEF SameSession
<1>3. CASE UNCHANGED reqs
  BY <1>1, <1>2, <1>3 DEF SweepPending
<1>4. CASE StartRequest(r) \/ Continue(r)
  <2>1. PICK now, reason :
               /\ now \in Nat
               /\ RevokeSessions({x \in SessionsOf(reqs[r].user) : Live(x)}, now, reason)
    <3>1. clock \in Nat /\ LocalsSet(r)
      BY DEF RowsOK, TypeOK, InFlightOK
    <3>2. CASE RevokeAllSessions(r)
      BY <3>1, <3>2 DEF RevokeAllSessions
    <3>3. CASE ResetSessions(r)
      BY <3>1, <3>3 DEF ResetSessions, LocalsSet, At
    <3>. QED
      BY <1>1, <1>4, <3>2, <3>3, SweepGoesOn
  <2>2. Live(s)' => Live(s) /\ s \notin {x \in SessionsOf(reqs[r].user) : Live(x)}
    BY <2>1, RevokedEnds
  <2>. QED
    BY <1>1, <2>2 DEF SessionsOf
<1>. QED
  BY <1>3, <1>4 DEF Next, Tick, Crash, vars, OneAtATime

LEMMA StaleOnlyMidSweepKept ==
    ASSUME IInv, SequentialInv, [Next]_vars, OneAtATime, ~CanCrash
    PROVE  StaleOnlyMidSweep'
<1>. SUFFICES ASSUME NEW t \in DOMAIN tokens', NEW s, s = tokens'[t].session,
                     tokens'[t].revokedAt = None, Live(s)'
              PROVE  \/ tokens'[t].version = users'[sessions'[s].user].version
                     \/ SweepPending(sessions[s].user)' /\ sessions'[s].user = sessions[s].user
  BY DEF StaleOnlyMidSweep, SweepPending, Live
<1>1. RowsOK /\ VersionsNeverAhead /\ AloneInv /\ StaleOnlyMidSweep
  BY DEF IInv, SequentialInv
<1>2. CASE t \notin DOMAIN tokens
  <2>1. PICK r \in Requests : IssuedBy(t, r)
    BY <1>1, <1>2, StepInsertsTokens
  <2>2. /\ reqs[r].version = users[reqs[r].user].version
        /\ sessions[reqs[r].sess].user = reqs[r].user
    BY <1>1, <2>1 DEF IssuedBy, AloneInv, ServedAlone, VersionsNeverAhead, VersionLocals
  <2>. QED
    BY <2>1, <2>2 DEF IssuedBy
<1>3. CASE t \in DOMAIN tokens
  <2>1. /\ tokens[t].session = s /\ tokens'[t].version = tokens[t].version
        /\ tokens[t].revokedAt = None
    BY <1>1, <1>3, StepKeepsTokens DEF TokenKept
  <2>2. s \in DOMAIN sessions /\ sessions[s].user \in Users
    BY <1>1, <1>3, <2>1 DEF RowsOK, TypeOK, RowsLinked, AuthSession
  <2>3. Live(s) /\ sessions'[s].user = sessions[s].user
    BY <1>1, <2>2, StepEndsSessions, StepKeepsSupervision
    DEF AloneInv, EndedBy, Live, SameSession
  <2>4. CASE SweepPending(sessions[s].user)
    BY <1>1, <2>2, <2>3, <2>4, PendingSweep
  <2>5. CASE tokens[t].version = users[sessions[s].user].version
    <3>1. CASE users'[sessions[s].user].version = users[sessions[s].user].version
      BY <2>1, <2>3, <2>5, <3>1
    <3>2. CASE users'[sessions[s].user].version # users[sessions[s].user].version
      <4>1. PICK r \in Requests : SetPassword(r) /\ sessions[s].user = reqs[r].user
        BY <1>1, <2>2, <3>2, OnlySetPasswordBumps
      <4>2. /\ reqs'[r].pc \in {"revokeSessions", "resetSessions"}
            /\ reqs'[r].user = reqs[r].user
        BY <1>1, <4>1, AfterSetPc DEF SetPassword
      <4>. QED
        BY <2>3, <4>1, <4>2 DEF SweepPending
    <3>. QED
      BY <3>1, <3>2
  <2>. QED
    BY <1>1, <1>3, <2>1, <2>3, <2>4, <2>5 DEF StaleOnlyMidSweep, SweepPending
<1>. QED
  BY <1>2, <1>3

(* Logs are dated by the two closers only. *)
LEMMA StepDatesLogs ==
    ASSUME RowsOK, [Next]_vars, NEW s \in DOMAIN logs', logs'[s].endedAt # None
    PROVE  \/ s \in DOMAIN logs /\ logs[s].endedAt # None
           \/ \E r \in Requests : CloseLog(r, s)
           \/ /\ s \in DOMAIN logs
              /\ \E r \in Requests : At(r, "reconcile") /\ Ended(s, reqs[r].at)
<1>. DEFINE Dated == s \in DOMAIN logs /\ logs[s].endedAt # None
<1>1. CASE logs' = logs
  BY <1>1
<1>2. ASSUME NEW r \in Requests, SaveLog(r) PROVE Dated
  BY <1>2 DEF SaveLog, Insert
<1>3. ASSUME NEW r \in Requests, NEW x \in DOMAIN logs, CloseLog(r, x)
      PROVE  Dated \/ CloseLog(r, s)
  BY <1>3 DEF CloseLog
<1>4. ASSUME NEW r \in Requests, ReconcileOpenLogs(r)
      PROVE  Dated \/ (s \in DOMAIN logs /\ At(r, "reconcile") /\ Ended(s, reqs[r].at))
  <2>. DEFINE due == {x \in reqs[r].open : logs[x].endedAt = None /\ Ended(x, reqs[r].at)}
  <2>1. At(r, "reconcile") /\ s \in DOMAIN logs
    BY <1>4 DEF ReconcileOpenLogs
  <2>2. s \notin due => logs'[s] = logs[s]
    BY <1>4, <2>1 DEF ReconcileOpenLogs
  <2>. QED
    BY <2>1, <2>2
<1>5. ASSUME NEW r \in Requests, StartRequest(r) PROVE logs' = logs
  BY <1>5
  DEF StartRequest, StartLogin, StartReset, StartDeactivate, StartReactivate, StartLogout,
      StartImpersonation, StartRefresh, StartChangePassword, StartExit, StartHistory
<1>6. ASSUME NEW r \in Requests, Continue(r)
      PROVE  \/ logs' = logs \/ SaveLog(r) \/ ReconcileOpenLogs(r)
             \/ \E x \in DOMAIN logs : CloseLog(r, x)
  BY <1>6
  DEF Continue, IssueSession, IssueToken, Respond, Rehash, KillFamily, KillSession,
      ReadSession, EndSession, ReadUser, SaveToken, RetireToken, SaveSession, LogoutSession,
      FindLogs, LogsClosed, RevokeAllSessions, RevokeAllTokens, CheckPassword, SetPassword,
      Reread, ResetSessions, SetStatus, ExitSession, ExitTokens
<1>. QED
  BY <1>1, <1>2, <1>3, <1>4, <1>5, <1>6 DEF Next, Tick, Crash, vars

(* An ended session stays ended, by its revocation or by its hard expiry. *)
LEMMA EndedLasts ==
    ASSUME RowsOK, AloneInv, [Next]_vars, NEW s \in DOMAIN sessions,
           NEW now \in Nat, now <= clock, Ended(s, now)
    PROVE  Ended(s, clock)'
<1>1. clock \in Nat /\ clock' \in Nat /\ clock <= clock'
  BY ClockAdvances
<1>2. EndedBy(s) /\ sessions'[s].expiresAt = sessions[s].expiresAt
  BY StepEndsSessions, StepKeepsSupervision DEF AloneInv, SameSession
<1>3. sessions[s].expiresAt \in Nat \cup {None}
  BY DEF RowsOK, TypeOK, AuthSession, Nullable
<1>4. CASE sessions[s].revokedAt # None
  BY <1>2, <1>4 DEF EndedBy, Ended
<1>5. CASE sessions[s].expiresAt # None /\ sessions[s].expiresAt <= now
  BY <1>1, <1>2, <1>3, <1>5 DEF Ended
<1>. QED
  BY <1>4, <1>5 DEF Ended

ExitPending(s) ==
    \E r \in Requests : /\ reqs[r].op = "exit" /\ reqs[r].sess = s
                        /\ reqs[r].pc \in {"closeLogs", "exitSession"}

LEMMA ExitGoesOn ==
    ASSUME NEW r \in Requests, reqs[r].pc \in {"closeLogs", "exitSession"},
           StartRequest(r) \/ Continue(r)
    PROVE  LogsClosed(r) \/ ExitSession(r) \/ \E x \in DOMAIN logs : CloseLog(r, x)
<1>1. ~StartRequest(r)
  BY DEF StartRequest, StartLogin, StartReset, StartDeactivate, StartReactivate, StartLogout,
      StartImpersonation, StartRefresh, StartChangePassword, StartExit, StartHistory, CanStart
<1>. QED
  BY <1>1
  DEF Continue, IssueSession, IssueToken, Respond, Rehash, KillFamily, KillSession,
      ReadSession, EndSession, ReadUser, SaveToken, RetireToken, SaveSession, LogoutSession,
      FindLogs, RevokeAllSessions, RevokeAllTokens, CheckPassword, SetPassword, Reread,
      ResetSessions, SetStatus, SaveLog, ExitTokens, ReconcileOpenLogs, At

(* exit that has closed the log of session s still has the session to end, *)
(* or has just ended it.                                                   *)
LEMMA PendingExit ==
    ASSUME RowsOK, [Next]_vars, OneAtATime, ~CanCrash, NEW s \in DOMAIN sessions,
           ExitPending(s)
    PROVE  ExitPending(s)' \/ Ended(s, clock)'
<1>1. PICK r \in Requests : /\ reqs[r].op = "exit" /\ reqs[r].sess = s
                            /\ reqs[r].pc \in {"closeLogs", "exitSession"}
  BY DEF ExitPending
<1>2. CASE UNCHANGED reqs
  BY <1>1, <1>2 DEF ExitPending
<1>3. CASE LogsClosed(r)
  <2>1. reqs'[r].op = "exit" /\ reqs'[r].sess = s /\ reqs'[r].pc = "exitSession"
    BY <1>1, <1>3, AfterSetPc DEF LogsClosed
  <2>. QED
    BY <2>1 DEF ExitPending
<1>4. ASSUME NEW x \in DOMAIN logs, CloseLog(r, x) PROVE ExitPending(s)'
  <2>1. reqs'[r].op = "exit" /\ reqs'[r].sess = s /\ reqs'[r].pc = "closeLogs"
    BY <1>1, <1>4 DEF CloseLog, At, RowsOK, TypeOK, Request
  <2>. QED
    BY <2>1 DEF ExitPending
<1>5. CASE ExitSession(r)
  <2>1. reqs[r].at \in Nat /\ RevokeSessions({s}, reqs[r].at, "impersonation-exit")
    BY <1>1, <1>5 DEF ExitSession, At, RowsOK, InFlightOK, LocalsSet
  <2>2. sessions'[s].revokedAt # None
    BY <2>1, RevokedEnds DEF Live
  <2>. QED
    BY <2>2 DEF Ended
<1>6. CASE StartRequest(r) \/ Continue(r)
  BY <1>1, <1>3, <1>4, <1>5, <1>6, ExitGoesOn
<1>. QED
  BY <1>2, <1>6 DEF Next, Tick, Crash, vars, OneAtATime

LEMMA ClosedOnlyMidExitKept ==
    ASSUME RowsOK, SequentialInv, [Next]_vars, OneAtATime, ~CanCrash
    PROVE  ClosedOnlyMidExit'
<1>. SUFFICES ASSUME NEW s \in DOMAIN logs', logs'[s].endedAt # None
              PROVE  Ended(s, clock)' \/ ExitPending(s)'
  BY DEF ClosedOnlyMidExit, ExitPending, Ended
<1>1. AloneInv /\ ClosedOnlyMidExit /\ clock \in Nat /\ clock <= clock
  BY DEF SequentialInv, RowsOK, TypeOK
<1>2. ASSUME s \in DOMAIN logs, logs[s].endedAt # None
      PROVE  Ended(s, clock)' \/ ExitPending(s)'
  <2>1. s \in DOMAIN sessions
    BY <1>2 DEF RowsOK, RowsLinked
  <2>2. CASE Ended(s, clock)
    BY <1>1, <2>1, <2>2, EndedLasts
  <2>3. CASE ExitPending(s)
    BY <2>1, <2>3, PendingExit
  <2>. QED
    BY <1>1, <1>2, <2>2, <2>3 DEF ClosedOnlyMidExit, ExitPending
<1>3. ASSUME NEW r \in Requests, CloseLog(r, s) PROVE Ended(s, clock)' \/ ExitPending(s)'
  <2>1. /\ At(r, "closeLogs") /\ s \in reqs[r].open
        /\ Live(s) => reqs[r].op = "exit" /\ s = reqs[r].sess
        /\ s \in DOMAIN sessions
    BY <1>1, <1>3
    DEF CloseLog, At, AloneInv, ServedAlone, RowsOK, RowsLinked, InFlightOK, LocalsSet
  <2>2. CASE ~Live(s)
    <3>1. Ended(s, clock)
      BY <2>2 DEF Live, Ended
    <3>. QED
      BY <1>1, <2>1, <3>1, EndedLasts
  <2>3. CASE Live(s)
    <3>1. reqs'[r].op = "exit" /\ reqs'[r].sess = s /\ reqs'[r].pc = "closeLogs"
      BY <1>3, <2>1, <2>3 DEF CloseLog, At, RowsOK, TypeOK, Request
    <3>. QED
      BY <3>1 DEF ExitPending
  <2>. QED
    BY <2>2, <2>3
<1>4. ASSUME s \in DOMAIN logs, NEW r \in Requests, At(r, "reconcile"), Ended(s, reqs[r].at)
      PROVE  Ended(s, clock)'
  <2>1. reqs[r].at \in Nat /\ reqs[r].at <= clock
    BY <1>1, <1>4 DEF At, AloneInv, ServedAlone, RowsOK, InFlightOK, LocalsSet
  <2>2. s \in DOMAIN sessions
    BY <1>4 DEF RowsOK, RowsLinked
  <2>. QED
    BY <1>1, <1>4, <2>1, <2>2, EndedLasts
<1>. QED
  BY <1>2, <1>3, <1>4, StepDatesLogs

LEMMA SequentialNextOK ==
    IInv /\ SequentialInv /\ OneAtATime /\ ~CanCrash /\ [Next]_vars => SequentialInv'
  BY AloneNextOK, StaleOnlyMidSweepKept, ClosedOnlyMidExitKept DEF IInv, SequentialInv

LEMMA SequentialInitOK == Init => SequentialInv
  BY AloneInitOK DEF Init, SequentialInv, StaleOnlyMidSweep, ClosedOnlyMidExit

(* Requests served one at a time, each to its end: the rows and the locals *)
(* agree at every step of every handler.                                   *)
THEOREM SequentialInvariance ==
    ASSUME OneAtATime, ~CanCrash
    PROVE  Spec => []SequentialInv
<1>1. Init => SequentialInv
  BY SequentialInitOK
<1>2. IInv /\ SequentialInv /\ [Next]_vars => SequentialInv'
  BY SequentialNextOK
<1>. QED
  BY <1>1, <1>2, Invariance, PTL DEF Spec

(* Requests served one at a time, each to its end: between two of them no  *)
(* working credential predates its user's password.                        *)
THEOREM CredentialsFollowPassword ==
    ASSUME OneAtATime, ~CanCrash
    PROVE  Spec => []NoCredentialOutlivesPassword
<1>1. SequentialInv => NoCredentialOutlivesPassword
  BY DEF SequentialInv, StaleOnlyMidSweep, NoCredentialOutlivesPassword, At
<1>. QED
  BY <1>1, SequentialInvariance, PTL

(* Requests served one at a time, each to its end: between two of them a   *)
(* closed impersonation log is the log of an impersonation that is over.   *)
THEOREM ClosedLogsAreOver ==
    ASSUME OneAtATime, ~CanCrash
    PROVE  Spec => []ClosedLogMeansEnded
<1>1. SequentialInv => ClosedLogMeansEnded
  BY DEF SequentialInv, ClosedOnlyMidExit, ClosedLogMeansEnded, At
<1>. QED
  BY <1>1, SequentialInvariance, PTL
============================================================================
