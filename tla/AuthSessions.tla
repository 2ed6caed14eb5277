---------------------------- MODULE AuthSessions ----------------------------
(***************************************************************************)
(* Sessions, refresh-token rotation, password changes and supervised       *)
(* (impersonation) sessions: AuthService, ImpersonationService and         *)
(* ImpersonationLogService over their tables.                              *)
(*                                                                         *)
(* A request is a process of the Node server.  Every await on the database *)
(* is one atomic step, and other requests may run between two of them; a   *)
(* request carries in its record exactly the values its handler keeps in   *)
(* local variables across those awaits.  No handler below opens a          *)
(* transaction, so Crash may end a request between any two steps.          *)
(*                                                                         *)
(* `repo.update(criteria, patch)` is one UPDATE statement: its criteria    *)
(* are evaluated on the current row.  `repo.save(entity)` writes every     *)
(* column whose value in memory differs from the row, so a stale entity    *)
(* puts back whatever changed since it was read.                           *)
(***************************************************************************)
EXTENDS Naturals, FiniteSets

CONSTANTS
    Users,              \* accounts that log in and are impersonated
    Requests,           \* requests the server may have in flight together
    SessionIds,         \* primary keys of auth_session (random uuids)
    TokenIds,           \* primary keys of refresh_tokens: the jti
    None,               \* SQL NULL, or a local not yet assigned
    Ops,                \* the endpoints clients call in this instance
    WeakHashes,         \* users whose stored hash predates the argon2 settings
    CanCrash,           \* whether the process may die inside a request
    ImpersonationTtl,   \* the one-hour cap
    IdleTimeout,        \* SESSION_IDLE_TIMEOUT
    RefreshTtl,         \* JWT_REFRESH_TTL
    AccessTtl,          \* JWT_ACCESS_TTL
    MaxClock,           \* bound on the clock
    MaxVersion          \* bound on password changes per user

OpNames == {"login", "refresh", "logout", "change", "reset", "deactivate",
            "reactivate", "impersonate", "exit", "history"}

Reasons == {"logout", "token-reuse", "expired", "idle-timeout", "deactivated",
            "password-change", "password-reset", "impersonation-exit"}

ASSUME NoneAssumption ==
    None \notin Nat \cup Users \cup SessionIds \cup TokenIds \cup Reasons \cup OpNames

ASSUME BoundsAssumption ==
    /\ ImpersonationTtl \in Nat /\ IdleTimeout \in Nat
    /\ RefreshTtl \in Nat /\ AccessTtl \in Nat
    /\ MaxClock \in Nat /\ MaxVersion \in Nat
    /\ CanCrash \in BOOLEAN
    /\ Ops \subseteq OpNames
    /\ WeakHashes \subseteq Users

VARIABLES
    clock,      \* ClockService.now()
    users,      \* users table: status, password, strength of its hash, token_version
    sessions,   \* auth_session: existing id -> row
    tokens,     \* refresh_tokens: jti -> row, with the access token minted beside it
    logs,       \* impersonation_logs: session id -> row
    reqs        \* the requests in flight and their local variables

vars == <<clock, users, sessions, tokens, logs, reqs>>

----------------------------------------------------------------------------
(* Rows.  A password is the number of the change that set it; the access   *)
(* token minted with a refresh token is kept in the same record (version,  *)
(* issuedAt), and sent says that the response carrying both was written.   *)

Nullable(S) == S \cup {None}

User == [status: {"active", "inactive"}, password: Nat, weak: BOOLEAN, version: Nat]

AuthSession == [user: Users, impersonated: BOOLEAN, expiresAt: Nullable(Nat),
                lastUsedAt: Nat, revokedAt: Nullable(Nat),
                revokedReason: Nullable(Reasons)]

RefreshToken == [session: SessionIds, version: Nat, issuedAt: Nat, expiresAt: Nat,
                 revokedAt: Nullable(Nat), replacedById: Nullable(TokenIds),
                 sent: BOOLEAN]

ImpersonationLog == [startedAt: Nat, endedAt: Nullable(Nat)]

PCs == {"idle", "rehash", "issueSession", "issueToken", "saveLog", "respond",
        "killFamily", "killSession", "findLogs", "closeLogs", "readSession",
        "endSession", "readUser", "saveToken", "retireToken", "saveSession",
        "logoutSession", "exitSession", "exitTokens", "checkPassword",
        "setPassword", "revokeSessions", "revokeTokens", "reread",
        "resetSessions", "setStatus", "reconcile"}

(* The locals: the request's user, session and presented token, the jti it *)
(* mints, the instant it took from the clock, the session entity it loaded,*)
(* the token_version it read, the password typed by the client, the logs   *)
(* it found open and the reason it will write.                             *)
Request == [pc: PCs, op: Nullable(OpNames), user: Nullable(Users),
            sess: Nullable(SessionIds), tok: Nullable(TokenIds),
            new: Nullable(TokenIds), at: Nullable(Nat),
            seen: Nullable(AuthSession), version: Nullable(Nat),
            pw: Nullable(Nat), open: SUBSET SessionIds, reason: Nullable(Reasons)]

Idle == [pc |-> "idle", op |-> None, user |-> None, sess |-> None, tok |-> None,
         new |-> None, at |-> None, seen |-> None, version |-> None,
         pw |-> None, open |-> {}, reason |-> None]

(* INSERT of one row. *)
Insert(table, key, row) ==
    [k \in DOMAIN table \cup {key} |-> IF k = key THEN row ELSE table[k]]

(* UPDATE of the rows whose key is in keys. *)
RevokeTokens(keys, now) ==
    tokens' = [t \in DOMAIN tokens |->
                 IF t \in keys THEN [tokens[t] EXCEPT !.revokedAt = now] ELSE tokens[t]]

RevokeSessions(keys, now, reason) ==
    sessions' = [s \in DOMAIN sessions |->
                   IF s \in keys
                   THEN [sessions[s] EXCEPT !.revokedAt = now, !.revokedReason = reason]
                   ELSE sessions[s]]

Live(s) == sessions[s].revokedAt = None

SessionsOf(u) == {s \in DOMAIN sessions : sessions[s].user = u}

TokensOf(ss) == {t \in DOMAIN tokens : tokens[t].session \in ss}

Unrevoked(ts) == {t \in ts : tokens[t].revokedAt = None}

SetPc(r, pc) == reqs' = [reqs EXCEPT ![r].pc = pc]

Finish(r) == reqs' = [reqs EXCEPT ![r] = Idle]

(* A new request of endpoint op, if the slot is free. *)
CanStart(r, op) == op \in Ops /\ reqs[r].pc = "idle"

At(r, pc) == reqs[r].pc = pc

(* Bounds: a request that will insert rows or set a password starts only   *)
(* while this instance has keys and versions left for one.                 *)
SessionRoom == DOMAIN sessions # SessionIds /\ DOMAIN tokens # TokenIds

TokenRoom == DOMAIN tokens # TokenIds

VersionRoom(u) == users[u].version < MaxVersion

----------------------------------------------------------------------------
(* issueTokensForSession: shared by login, change-password and start.      *)

IssueSession(r) ==
    LET q == reqs[r]
        supervised == q.op = "impersonate"
        row == [user |-> q.user, impersonated |-> supervised,
                expiresAt |-> IF supervised THEN q.at + ImpersonationTtl ELSE None,
                lastUsedAt |-> clock, revokedAt |-> None, revokedReason |-> None]
    IN  /\ At(r, "issueSession")
        /\ \E s \in SessionIds \ DOMAIN sessions :
             /\ sessions' = Insert(sessions, s, row)
             /\ reqs' = [reqs EXCEPT ![r].pc = "issueToken", ![r].sess = s]
        /\ UNCHANGED <<clock, users, tokens, logs>>

(* signRefresh: the expiry is the ordinary one unless notAfter is earlier. *)
SignRefresh(notAfter) ==
    IF notAfter # None /\ notAfter < clock + RefreshTtl THEN notAfter ELSE clock + RefreshTtl

SavedToken(r, notAfter) ==
    [session |-> reqs[r].sess, version |-> reqs[r].version, issuedAt |-> clock,
     expiresAt |-> SignRefresh(notAfter), revokedAt |-> None, replacedById |-> None,
     sent |-> FALSE]

(* Mutant: start() answers as login does, and writes no audit row. *)
IssueTokenUnlogged(r) ==
    /\ At(r, "issueToken")
    /\ \E t \in TokenIds \ DOMAIN tokens :
         /\ tokens' = Insert(tokens, t, SavedToken(r, None))
         /\ reqs' = [reqs EXCEPT ![r].new = t, ![r].pc = "respond"]
    /\ UNCHANGED <<clock, users, sessions, logs>>

IssueToken(r) ==
    LET s == reqs[r].sess IN
    /\ At(r, "issueToken")
    /\ \E t \in TokenIds \ DOMAIN tokens :
         /\ tokens' = Insert(tokens, t, SavedToken(r, IF reqs[r].op = "impersonate"
                                                      THEN reqs[r].at + ImpersonationTtl
                                                      ELSE None))
         /\ reqs' = [reqs EXCEPT ![r].new = t,
                                 ![r].pc = IF reqs[r].op = "impersonate"
                                           THEN "saveLog" ELSE "respond"]
    /\ UNCHANGED <<clock, users, sessions, logs>>

(* Mutant: the answer saves the token entity it created, stale by now. *)
RespondSaving(r) ==
    /\ At(r, "respond")
    /\ tokens' = [tokens EXCEPT ![reqs[r].new].sent = TRUE, ![reqs[r].new].revokedAt = None]
    /\ Finish(r)
    /\ UNCHANGED <<clock, users, sessions, logs>>

(* The response reaches the client: from here on both tokens can be used.  *)
Respond(r) ==
    /\ At(r, "respond")
    /\ tokens' = [tokens EXCEPT ![reqs[r].new].sent = TRUE]
    /\ Finish(r)
    /\ UNCHANGED <<clock, users, sessions, logs>>

----------------------------------------------------------------------------
(* login: the user row is read once, and the password, the status and the  *)
(* token version all come from that read.                                  *)

StartLogin(r, u) ==
    /\ CanStart(r, "login")
    /\ SessionRoom
    /\ users[u].status = "active"
    /\ reqs' = [reqs EXCEPT ![r] =
                  [Idle EXCEPT !.pc = IF users[u].weak THEN "rehash" ELSE "issueSession",
                               !.op = "login", !.user = u, !.version = users[u].version,
                               !.pw = users[u].password]]
    /\ UNCHANGED <<clock, users, sessions, tokens, logs>>

(* updatePasswordHash: the plaintext of this login, under the new settings. *)
Rehash(r) ==
    LET q == reqs[r] IN
    /\ At(r, "rehash")
    /\ users' = [users EXCEPT ![q.user].password = q.pw, ![q.user].weak = FALSE]
    /\ SetPc(r, "issueSession")
    /\ UNCHANGED <<clock, sessions, tokens, logs>>

----------------------------------------------------------------------------
(* refresh *)

(* Mutant: a rotated or revoked token is not told from a current one. *)
StartRefreshAnyToken(r, t) ==
    /\ CanStart(r, "refresh")
    /\ tokens[t].sent
    /\ clock < tokens[t].expiresAt
    /\ TokenRoom
    /\ reqs' = [reqs EXCEPT ![r] =
                  [Idle EXCEPT !.pc = "readSession", !.op = "refresh", !.tok = t,
                               !.sess = tokens[t].session,
                               !.user = sessions[tokens[t].session].user]]
    /\ UNCHANGED <<clock, users, sessions, tokens, logs>>

(* verifyRefresh checks the token's own exp; the row lookup then tells a   *)
(* reused token from a current one.                                        *)
StartRefresh(r, t) ==
    LET row == tokens[t]
        reused == row.revokedAt # None \/ row.replacedById # None
    IN  /\ CanStart(r, "refresh")
        /\ row.sent
        /\ clock < row.expiresAt
        /\ reused \/ TokenRoom
        /\ reqs' = [reqs EXCEPT ![r] =
                      [Idle EXCEPT !.pc = IF reused THEN "killFamily" ELSE "readSession",
                                   !.op = "refresh", !.tok = t, !.sess = row.session,
                                   !.user = sessions[row.session].user,
                                   !.at = IF reused THEN clock ELSE None]]
        /\ UNCHANGED <<clock, users, sessions, tokens, logs>>

(* Mutant: only the reused token is revoked. *)
KillPresented(r) ==
    /\ At(r, "killFamily")
    /\ RevokeTokens({reqs[r].tok}, reqs[r].at)
    /\ SetPc(r, "killSession")
    /\ UNCHANGED <<clock, users, sessions, logs>>

(* The family of a token is its session: issueTokensForSession starts one  *)
(* family per session and refresh keeps it.                                *)
KillFamily(r) ==
    /\ At(r, "killFamily")
    /\ RevokeTokens(TokensOf({reqs[r].sess}), reqs[r].at)
    /\ SetPc(r, "killSession")
    /\ UNCHANGED <<clock, users, sessions, logs>>

KillSession(r) ==
    LET q == reqs[r]
        s == q.sess
        live == Live(s) /\ (sessions[s].expiresAt = None \/ sessions[s].expiresAt > q.at)
    IN  /\ At(r, "killSession")
        /\ RevokeSessions(IF live THEN {s} ELSE {}, q.at, "token-reuse")
        /\ IF live THEN SetPc(r, "findLogs") ELSE Finish(r)
        /\ UNCHANGED <<clock, users, tokens, logs>>

(* The session must be unrevoked, inside its hard expiry and not idle. *)
ReadSession(r) ==
    LET row == sessions[reqs[r].sess]
        lapsed == row.expiresAt # None /\ row.expiresAt < clock
        idle == clock > row.lastUsedAt + IdleTimeout
    IN  /\ At(r, "readSession")
        /\ IF row.revokedAt # None THEN Finish(r)
           ELSE IF lapsed \/ idle
           THEN reqs' = [reqs EXCEPT ![r].pc = "endSession",
                                     ![r].reason = IF lapsed THEN "expired" ELSE "idle-timeout"]
           ELSE reqs' = [reqs EXCEPT ![r].pc = "readUser", ![r].seen = row]
        /\ UNCHANGED <<clock, users, sessions, tokens, logs>>

EndSession(r) ==
    /\ At(r, "endSession")
    /\ RevokeSessions({reqs[r].sess}, clock, reqs[r].reason)
    /\ Finish(r)
    /\ UNCHANGED <<clock, users, tokens, logs>>

ReadUser(r) ==
    LET row == users[reqs[r].user] IN
    /\ At(r, "readUser")
    /\ IF row.status = "active"
       THEN reqs' = [reqs EXCEPT ![r].pc = "saveToken", ![r].version = row.version]
       ELSE Finish(r)
    /\ UNCHANGED <<clock, users, sessions, tokens, logs>>

(* signRefresh is given no notAfter here. *)
SaveToken(r) ==
    /\ At(r, "saveToken")
    /\ \E t \in TokenIds \ DOMAIN tokens :
         /\ tokens' = Insert(tokens, t, SavedToken(r, None))
         /\ reqs' = [reqs EXCEPT ![r].pc = "retireToken", ![r].new = t]
    /\ UNCHANGED <<clock, users, sessions, logs>>

(* Mutant: the old token is linked to its successor but not revoked. *)
RetireTokenLinkOnly(r) ==
    /\ At(r, "retireToken")
    /\ tokens' = [tokens EXCEPT ![reqs[r].tok].replacedById = reqs[r].new]
    /\ SetPc(r, "saveSession")
    /\ UNCHANGED <<clock, users, sessions, logs>>

RetireToken(r) ==
    LET q == reqs[r] IN
    /\ At(r, "retireToken")
    /\ tokens' = [tokens EXCEPT ![q.tok].revokedAt = clock, ![q.tok].replacedById = q.new]
    /\ SetPc(r, "saveSession")
    /\ UNCHANGED <<clock, users, sessions, logs>>

(* sessions.save(session): every column goes back to what ReadSession saw. *)
SaveSession(r) ==
    LET q == reqs[r] IN
    /\ At(r, "saveSession")
    /\ sessions' = [sessions EXCEPT ![q.sess] = [q.seen EXCEPT !.lastUsedAt = clock]]
    /\ SetPc(r, "respond")
    /\ UNCHANGED <<clock, users, tokens, logs>>

----------------------------------------------------------------------------
(* logout and the impersonation log's closers *)

StartLogout(r, t) ==
    /\ CanStart(r, "logout")
    /\ tokens[t].sent
    /\ clock < tokens[t].expiresAt
    /\ RevokeTokens({t}, clock)
    /\ reqs' = [reqs EXCEPT ![r] =
                  [Idle EXCEPT !.pc = "logoutSession", !.op = "logout", !.at = clock,
                               !.sess = tokens[t].session,
                               !.user = sessions[tokens[t].session].user]]
    /\ UNCHANGED <<clock, users, sessions, logs>>

LogoutSession(r) ==
    /\ At(r, "logoutSession")
    /\ RevokeSessions({reqs[r].sess}, reqs[r].at, "logout")
    /\ SetPc(r, "findLogs")
    /\ UNCHANGED <<clock, users, tokens, logs>>

(* closeForSession selects the session's open log; closeForTargetUser      *)
(* selects every open log of the user's sessions.                          *)
LogScope(q) == IF q.op \in {"change", "deactivate"} THEN SessionsOf(q.user) ELSE {q.sess}

FindLogs(r) ==
    /\ At(r, "findLogs")
    /\ reqs' = [reqs EXCEPT ![r].pc = "closeLogs",
                            ![r].open = {s \in LogScope(reqs[r]) \cap DOMAIN logs :
                                           logs[s].endedAt = None}]
    /\ UNCHANGED <<clock, users, sessions, tokens, logs>>

(* UPDATE by id, whatever the row has become since it was selected. *)
CloseLog(r, s) ==
    /\ At(r, "closeLogs")
    /\ s \in reqs[r].open
    /\ logs' = [logs EXCEPT ![s].endedAt = reqs[r].at]
    /\ reqs' = [reqs EXCEPT ![r].open = @ \ {s}]
    /\ UNCHANGED <<clock, users, sessions, tokens>>

LogsClosed(r) ==
    /\ At(r, "closeLogs")
    /\ reqs[r].open = {}
    /\ CASE reqs[r].op = "exit" -> SetPc(r, "exitSession")
         [] reqs[r].op = "change" -> SetPc(r, "reread")
         [] OTHER -> Finish(r)
    /\ UNCHANGED <<clock, users, sessions, tokens, logs>>

----------------------------------------------------------------------------
(* Mutant: at its expiry a session still works, as it does for refresh. *)
AuthorisedAtExpiry(t) ==
    LET s == tokens[t].session
        u == sessions[s].user
    IN  /\ tokens[t].sent
        /\ clock < tokens[t].issuedAt + AccessTtl
        /\ Live(s)
        /\ sessions[s].expiresAt # None => clock <= sessions[s].expiresAt
        /\ users[u].status = "active"
        /\ users[u].version = tokens[t].version

(* The access token that came with refresh token t authenticates: its own  *)
(* exp, then SessionValidator against the rows.                            *)
Authorised(t) ==
    LET s == tokens[t].session
        u == sessions[s].user
    IN  /\ tokens[t].sent
        /\ clock < tokens[t].issuedAt + AccessTtl
        /\ Live(s)
        /\ sessions[s].expiresAt # None => clock < sessions[s].expiresAt
        /\ users[u].status = "active"
        /\ users[u].version = tokens[t].version

(* revokeAllUserSessions *)

RevokeAllSessions(r) ==
    LET q == reqs[r] IN
    /\ At(r, "revokeSessions")
    /\ RevokeSessions({s \in SessionsOf(q.user) : Live(s)}, clock, q.reason)
    /\ reqs' = [reqs EXCEPT ![r].pc = "revokeTokens", ![r].at = clock]
    /\ UNCHANGED <<clock, users, tokens, logs>>

RevokeAllTokens(r) ==
    /\ At(r, "revokeTokens")
    /\ RevokeTokens(Unrevoked(TokensOf(SessionsOf(reqs[r].user))), reqs[r].at)
    /\ SetPc(r, "findLogs")
    /\ UNCHANGED <<clock, users, sessions, logs>>

(* changePassword: refused inside an impersonation. *)
StartChangePassword(r, t) ==
    LET u == sessions[tokens[t].session].user IN
    /\ CanStart(r, "change")
    /\ SessionRoom /\ VersionRoom(u)
    /\ Authorised(t)
    /\ ~sessions[tokens[t].session].impersonated
    /\ reqs' = [reqs EXCEPT ![r] =
                  [Idle EXCEPT !.pc = "checkPassword", !.op = "change", !.user = u,
                               !.pw = users[u].password, !.reason = "password-change"]]
    /\ UNCHANGED <<clock, users, sessions, tokens, logs>>

CheckPassword(r) ==
    /\ At(r, "checkPassword")
    /\ IF users[reqs[r].user].password = reqs[r].pw
       THEN SetPc(r, "setPassword")
       ELSE Finish(r)
    /\ UNCHANGED <<clock, users, sessions, tokens, logs>>

(* Mutant: the new password leaves token_version alone. *)
SetPasswordKeepsVersion(r) ==
    LET q == reqs[r] IN
    /\ At(r, "setPassword")
    /\ users' = [users EXCEPT ![q.user].password = @ + 1, ![q.user].weak = FALSE]
    /\ users[q.user].password < MaxVersion
    /\ SetPc(r, IF q.op = "change" THEN "revokeSessions" ELSE "resetSessions")
    /\ UNCHANGED <<clock, sessions, tokens, logs>>

(* setPasswordAndBumpVersion: each change stores a password never used     *)
(* before, hashed under the current settings.                              *)
SetPassword(r) ==
    LET q == reqs[r]
        next == users[q.user].version + 1
    IN  /\ At(r, "setPassword")
        /\ next <= MaxVersion
        /\ users' = [users EXCEPT ![q.user].password = next, ![q.user].version = next,
                                  ![q.user].weak = FALSE]
        /\ SetPc(r, IF q.op = "change" THEN "revokeSessions" ELSE "resetSessions")
        /\ UNCHANGED <<clock, sessions, tokens, logs>>

(* Mutant: the pair is minted from the principal instead of a fresh read. *)
RereadSkipped(r) ==
    /\ At(r, "reread")
    /\ SetPc(r, "issueSession")
    /\ UNCHANGED <<clock, users, sessions, tokens, logs>>

(* The caller's new pair carries the bumped version. *)
Reread(r) ==
    /\ At(r, "reread")
    /\ reqs' = [reqs EXCEPT ![r].pc = "issueSession",
                            ![r].version = users[reqs[r].user].version]
    /\ UNCHANGED <<clock, users, sessions, tokens, logs>>

(* resetPassword, from the moment its single-use token is spent.  `now` is *)
(* taken before the password is written; refresh tokens and impersonation  *)
(* logs are left as they are.                                              *)
StartReset(r, u) ==
    /\ CanStart(r, "reset")
    /\ VersionRoom(u)
    /\ reqs' = [reqs EXCEPT ![r] = [Idle EXCEPT !.pc = "setPassword", !.op = "reset",
                                                !.user = u, !.at = clock]]
    /\ UNCHANGED <<clock, users, sessions, tokens, logs>>

(* Mutant: a reset relies on the version bump and revokes nothing. *)
ResetNothing(r) ==
    /\ At(r, "resetSessions")
    /\ Finish(r)
    /\ UNCHANGED <<clock, users, sessions, tokens, logs>>

ResetSessions(r) ==
    LET q == reqs[r] IN
    /\ At(r, "resetSessions")
    /\ RevokeSessions({s \in SessionsOf(q.user) : Live(s)}, q.at, "password-reset")
    /\ Finish(r)
    /\ UNCHANGED <<clock, users, tokens, logs>>

----------------------------------------------------------------------------
(* AdminService.changeUserStatus *)

StartDeactivate(r, u) ==
    /\ CanStart(r, "deactivate")
    /\ users[u].status # "inactive"
    /\ reqs' = [reqs EXCEPT ![r] = [Idle EXCEPT !.pc = "setStatus", !.op = "deactivate",
                                                !.user = u, !.reason = "deactivated"]]
    /\ UNCHANGED <<clock, users, sessions, tokens, logs>>

StartReactivate(r, u) ==
    /\ CanStart(r, "reactivate")
    /\ users[u].status # "active"
    /\ reqs' = [reqs EXCEPT ![r] = [Idle EXCEPT !.pc = "setStatus", !.op = "reactivate",
                                                !.user = u]]
    /\ UNCHANGED <<clock, users, sessions, tokens, logs>>

(* Mutant: reactivation gives the user the sessions of before back. *)
SetStatusRestores(r) ==
    LET q == reqs[r] IN
    /\ At(r, "setStatus")
    /\ IF q.op = "deactivate"
       THEN /\ users' = [users EXCEPT ![q.user].status = "inactive"]
            /\ SetPc(r, "revokeSessions")
            /\ UNCHANGED sessions
       ELSE /\ users' = [users EXCEPT ![q.user].status = "active"]
            /\ RevokeSessions(SessionsOf(q.user), None, None)
            /\ Finish(r)
    /\ UNCHANGED <<clock, tokens, logs>>

(* Reactivation revokes nothing: the sweep is deactivation's own hook. *)
SetStatus(r) ==
    LET q == reqs[r] IN
    /\ At(r, "setStatus")
    /\ IF q.op = "deactivate"
       THEN /\ users' = [users EXCEPT ![q.user].status = "inactive"]
            /\ SetPc(r, "revokeSessions")
       ELSE /\ users' = [users EXCEPT ![q.user].status = "active"]
            /\ Finish(r)
    /\ UNCHANGED <<clock, sessions, tokens, logs>>

----------------------------------------------------------------------------
(* ImpersonationService; the administrator's own session is not modelled.  *)

StartImpersonation(r, u) ==
    /\ CanStart(r, "impersonate")
    /\ SessionRoom
    /\ users[u].status = "active"
    /\ reqs' = [reqs EXCEPT ![r] =
                  [Idle EXCEPT !.pc = "issueSession", !.op = "impersonate", !.user = u,
                               !.at = clock, !.version = users[u].version]]
    /\ UNCHANGED <<clock, users, sessions, tokens, logs>>

SaveLog(r) ==
    LET q == reqs[r] IN
    /\ At(r, "saveLog")
    /\ logs' = Insert(logs, q.sess, [startedAt |-> q.at, endedAt |-> None])
    /\ SetPc(r, "respond")
    /\ UNCHANGED <<clock, users, sessions, tokens>>

StartExit(r, t) ==
    LET s == tokens[t].session IN
    /\ CanStart(r, "exit")
    /\ Authorised(t)
    /\ sessions[s].impersonated
    /\ reqs' = [reqs EXCEPT ![r] =
                  [Idle EXCEPT !.pc = "findLogs", !.op = "exit", !.sess = s,
                               !.user = sessions[s].user, !.at = clock]]
    /\ UNCHANGED <<clock, users, sessions, tokens, logs>>

(* Mutant: exit closes the log and revokes the tokens only. *)
ExitKeepsSession(r) ==
    /\ At(r, "exitSession")
    /\ SetPc(r, "exitTokens")
    /\ UNCHANGED <<clock, users, sessions, tokens, logs>>

ExitSession(r) ==
    /\ At(r, "exitSession")
    /\ RevokeSessions({reqs[r].sess}, reqs[r].at, "impersonation-exit")
    /\ SetPc(r, "exitTokens")
    /\ UNCHANGED <<clock, users, tokens, logs>>

ExitTokens(r) ==
    /\ At(r, "exitTokens")
    /\ RevokeTokens(Unrevoked(TokensOf({reqs[r].sess})), reqs[r].at)
    /\ Finish(r)
    /\ UNCHANGED <<clock, users, sessions, logs>>

(* history: the page's open rows are dated from their sessions first. *)
StartHistory(r) ==
    LET open == {s \in DOMAIN logs : logs[s].endedAt = None} IN
    /\ CanStart(r, "history")
    /\ open # {}
    /\ reqs' = [reqs EXCEPT ![r] = [Idle EXCEPT !.pc = "reconcile", !.op = "history",
                                                !.open = open, !.at = clock]]
    /\ UNCHANGED <<clock, users, sessions, tokens, logs>>

(* A session that was revoked, or whose hard expiry has come. *)
Ended(s, now) ==
    \/ sessions[s].revokedAt # None
    \/ sessions[s].expiresAt # None /\ sessions[s].expiresAt <= now

ReconcileOpenLogs(r) ==
    LET q == reqs[r]
        due == {s \in q.open : logs[s].endedAt = None /\ Ended(s, q.at)}
        endedAt(s) == IF Live(s) THEN sessions[s].expiresAt ELSE sessions[s].revokedAt
    IN  /\ At(r, "reconcile")
        /\ logs' = [s \in DOMAIN logs |->
                      IF s \in due THEN [logs[s] EXCEPT !.endedAt = endedAt(s)] ELSE logs[s]]
        /\ Finish(r)
        /\ UNCHANGED <<clock, users, sessions, tokens>>

----------------------------------------------------------------------------
Init ==
    /\ clock = 0
    /\ users = [u \in Users |-> [status |-> "active", password |-> 0,
                                 weak |-> u \in WeakHashes, version |-> 0]]
    /\ sessions = [s \in {} |-> None]
    /\ tokens = [t \in {} |-> None]
    /\ logs = [s \in {} |-> None]
    /\ reqs = [r \in Requests |-> Idle]

Tick ==
    /\ clock < MaxClock
    /\ clock' = clock + 1
    /\ UNCHANGED <<users, sessions, tokens, logs, reqs>>

Crash(r) ==
    /\ CanCrash
    /\ reqs[r].pc # "idle"
    /\ Finish(r)
    /\ UNCHANGED <<clock, users, sessions, tokens, logs>>

StartRequest(r) ==
    \/ \E u \in Users :
         \/ StartLogin(r, u) \/ StartReset(r, u) \/ StartDeactivate(r, u)
         \/ StartReactivate(r, u) \/ StartImpersonation(r, u)
    \/ \E t \in DOMAIN tokens :
         \/ StartRefresh(r, t) \/ StartLogout(r, t)
         \/ StartChangePassword(r, t) \/ StartExit(r, t)
    \/ StartHistory(r)

Continue(r) ==
    \/ IssueSession(r) \/ IssueToken(r) \/ Respond(r) \/ Rehash(r)
    \/ KillFamily(r) \/ KillSession(r) \/ ReadSession(r) \/ EndSession(r)
    \/ ReadUser(r) \/ SaveToken(r) \/ RetireToken(r) \/ SaveSession(r)
    \/ LogoutSession(r) \/ FindLogs(r) \/ LogsClosed(r)
    \/ \E s \in DOMAIN logs : CloseLog(r, s)
    \/ RevokeAllSessions(r) \/ RevokeAllTokens(r) \/ CheckPassword(r)
    \/ SetPassword(r) \/ Reread(r) \/ ResetSessions(r) \/ SetStatus(r)
    \/ SaveLog(r) \/ ExitSession(r) \/ ExitTokens(r) \/ ReconcileOpenLogs(r)

Next == Tick \/ \E r \in Requests : StartRequest(r) \/ Continue(r) \/ Crash(r)

Spec == Init /\ [][Next]_vars

----------------------------------------------------------------------------
(* Properties *)

(* Two versions of a session row that differ at most in its use and end. *)
SameSession(row1, row2) ==
    /\ row1.user = row2.user
    /\ row1.impersonated = row2.impersonated
    /\ row1.expiresAt = row2.expiresAt

(* Every row and every in-flight request has the shape its handler gives it. *)
TypeOK ==
    /\ clock \in Nat
    /\ users \in [Users -> User]
    /\ DOMAIN sessions \subseteq SessionIds
    /\ \A s \in DOMAIN sessions : sessions[s] \in AuthSession
    /\ DOMAIN tokens \subseteq TokenIds
    /\ \A t \in DOMAIN tokens : tokens[t] \in RefreshToken
    /\ DOMAIN logs \subseteq SessionIds
    /\ \A s \in DOMAIN logs : logs[s] \in ImpersonationLog
    /\ reqs \in [Requests -> Request]

(* Foreign keys the handlers rely on without a constraint in the schema. *)
RowsLinked ==
    /\ \A t \in DOMAIN tokens : tokens[t].session \in DOMAIN sessions
    /\ DOMAIN logs \subseteq DOMAIN sessions

(* What a handler may assume about its locals at each of its awaits. *)

RefreshPCs == {"readSession", "readUser", "saveToken", "retireToken", "saveSession"}

LocalsSet(r) ==
    LET q == reqs[r] IN
    /\ q.pc \notin {"idle", "reconcile"} => q.user \in Users /\ q.op \in OpNames
    /\ q.pc \in RefreshPCs \cup {"killFamily", "killSession", "endSession", "logoutSession",
                                 "exitSession", "exitTokens", "issueToken", "saveLog"}
         => q.sess \in DOMAIN sessions
    /\ q.pc \in {"findLogs", "closeLogs"} /\ q.op = "exit" => q.sess \in DOMAIN sessions
    /\ q.pc \in {"killFamily", "killSession", "logoutSession", "exitSession", "exitTokens",
                 "revokeTokens", "findLogs", "closeLogs", "resetSessions", "saveLog",
                 "reconcile"}
         => q.at \in Nat
    /\ q.op = "impersonate" => q.at \in Nat
    /\ q.op = "exit" => q.pc \in {"findLogs", "closeLogs", "exitSession", "exitTokens"}
    /\ q.pc = "checkPassword" => q.op = "change"
    /\ q.pc = "setPassword" /\ q.op # "change" => q.at \in Nat
    /\ q.pc \in {"rehash", "issueSession", "issueToken", "saveToken"} => q.version \in Nat
    /\ q.pc = "rehash" => q.pw \in Nat
    /\ q.pc \in {"endSession", "revokeSessions", "checkPassword"} => q.reason \in Reasons
    /\ q.pc = "setPassword" /\ q.op = "change" => q.reason \in Reasons
    /\ q.pc = "setStatus" /\ q.op = "deactivate" => q.reason \in Reasons
    /\ q.pc \in {"closeLogs", "reconcile"} => q.open \subseteq DOMAIN logs

(* refresh: the token it presents and the one it mints are of its session, *)
(* and the entity it will save back is that session's.                     *)
RotationLocals(r) ==
    LET q == reqs[r] IN
    /\ q.pc \in {"readSession", "readUser", "saveToken", "retireToken"} =>
         q.tok \in DOMAIN tokens /\ tokens[q.tok].session = q.sess
    /\ q.pc \in {"readUser", "saveToken", "retireToken", "saveSession"} =>
         /\ q.seen \in AuthSession
         /\ SameSession(q.seen, sessions[q.sess])
    /\ q.pc \in {"retireToken", "saveSession", "saveLog", "respond"} =>
         q.new \in DOMAIN tokens /\ tokens[q.new].session = q.sess
    /\ q.pc = "retireToken" => q.new # q.tok

(* A request about to answer with credentials for an impersonated session  *)
(* has its audit row.                                                      *)
AnswerIsLogged(r) ==
    LET q == reqs[r] IN
    /\ q.pc \in RefreshPCs \cup {"respond"} =>
         (sessions[q.sess].impersonated => q.sess \in DOMAIN logs)
    /\ q.pc = "issueToken" /\ q.op # "impersonate" => ~sessions[q.sess].impersonated

InFlightOK ==
    \A r \in Requests : LocalsSet(r) /\ RotationLocals(r) /\ AnswerIsLogged(r)

(* A refresh token, once revoked, is never usable again, whatever requests *)
(* interleave: refresh, logout and the bulk sweeps only ever set           *)
(* refresh_tokens.revoked_at, none of them saves a stale row over it.      *)
TokenRevocationIsPermanent ==
    [][\A t \in DOMAIN tokens :
         tokens[t].revokedAt # None => tokens'[t].revokedAt # None]_vars

(* Rotation stays inside one session: a token marked as replaced is        *)
(* revoked, and its successor is a stored token of the same session.  The  *)
(* family kill of refresh() relies on it to reach every descendant.        *)
RotationWellFormed ==
    \A t \in DOMAIN tokens :
      tokens[t].replacedById # None =>
        /\ tokens[t].revokedAt # None
        /\ tokens[t].replacedById \in DOMAIN tokens
        /\ tokens[tokens[t].replacedById].session = tokens[t].session
        /\ tokens[t].replacedById # t

(* No administrator ever holds a credential for an impersonation that has  *)
(* no audit row: start() answers only after logs.save, so a crash between  *)
(* the session and the log leaves a session nobody can use.                *)
LogBeforeCredential ==
    \A t \in DOMAIN tokens :
      (tokens[t].sent /\ sessions[tokens[t].session].impersonated)
        => tokens[t].session \in DOMAIN logs

(* A new password shuts out every access token minted before it, even one  *)
(* whose session survives: the bump of token_version is part of the same   *)
(* UPDATE as the password.                                                 *)
NewPasswordEndsAccess ==
    [][\A u \in Users : users'[u].password > users[u].password =>
         \A t \in DOMAIN tokens : sessions[tokens[t].session].user = u => ~Authorised(t)']_vars

(* Once the hour that began with the start in its audit row is over, no    *)
(* access token of an impersonation works: not one minted by a refresh in  *)
(* the instant of the expiry, which refresh still serves, nor one whose    *)
(* refresh token was given the ordinary lifetime.                          *)
SupervisionEndsInTime ==
    \A s \in DOMAIN logs : \A t \in TokensOf({s}) :
      Authorised(t) => clock < logs[s].startedAt + ImpersonationTtl

(* Once a session is over it stays over: logout, a bulk sweep, reuse       *)
(* detection and the lazy expiries are final.  True of requests that run   *)
(* one at a time; refresh's save of a stale session breaks it otherwise.   *)
SessionEndIsPermanent ==
    [][\A s \in DOMAIN sessions :
         sessions[s].revokedAt # None => sessions'[s].revokedAt # None]_vars

(* Among the tokens clients hold, a session has at most one that can still *)
(* be rotated: the answer to a refresh is the only way to hold the next.   *)
OneUsableTokenPerSession ==
    \A t1, t2 \in DOMAIN tokens :
      ( /\ t1 # t2 /\ tokens[t1].session = tokens[t2].session
        /\ tokens[t1].sent /\ tokens[t2].sent )
      => tokens[t1].revokedAt # None \/ tokens[t2].revokedAt # None

(* When reuse has ended a session, no token of its family can be rotated.  *)
ReuseEndsFamily ==
    \A s \in DOMAIN sessions :
      sessions[s].revokedReason = "token-reuse" => Unrevoked(TokensOf({s})) = {}

(* Between requests, every credential pair that still works was minted     *)
(* under the user's present password: no login or session that predates a  *)
(* change or a reset of the password is left.                              *)
NoCredentialOutlivesPassword ==
    (\A r \in Requests : At(r, "idle")) =>
       \A t \in DOMAIN tokens :
         (tokens[t].revokedAt = None /\ Live(tokens[t].session))
           => tokens[t].version = users[sessions[tokens[t].session].user].version

(* Between requests, an impersonation whose log is closed is over: the     *)
(* report never shows as finished a session an administrator can still use.*)
ClosedLogMeansEnded ==
    (\A r \in Requests : At(r, "idle")) =>
       \A s \in DOMAIN logs : logs[s].endedAt # None => Ended(s, clock)

(* A session that a password change dropped never comes back. *)
PasswordChangeDropsSessions ==
    [][\A s \in DOMAIN sessions :
         sessions[s].revokedReason = "password-change" => sessions'[s].revokedAt # None]_vars

(* The rows and the locals a handler carries across its awaits stay        *)
(* consistent, whatever other requests do to the rows meanwhile.           *)
RowsOK ==
    /\ TypeOK
    /\ RowsLinked
    /\ InFlightOK
    /\ RotationWellFormed
    /\ LogBeforeCredential

(* Nothing stored or carried is ahead of the token_version of its user: a  *)
(* bump therefore leaves every earlier credential behind.  A hash is weak  *)
(* only until the password is first replaced, so a rehash under way holds  *)
(* the first password whatever it has since become.                        *)
UserVersions ==
    \A u \in Users : /\ users[u].password <= users[u].version
                     /\ users[u].weak => users[u].password = 0

TokenVersions ==
    \A t \in DOMAIN tokens :
      tokens[t].version <= users[sessions[tokens[t].session].user].version

VersionLocals(r) ==
    LET q == reqs[r] IN
    /\ q.pc = "rehash" => q.pw = 0
    /\ q.pc \in {"rehash", "issueSession", "issueToken", "saveToken"} =>
         q.version <= users[q.user].version
    /\ q.pc \in {"issueToken", "readSession", "readUser", "saveToken"} =>
         sessions[q.sess].user = q.user

VersionsNeverAhead ==
    UserVersions /\ TokenVersions /\ \A r \in Requests : VersionLocals(r)

(* The inductive invariant behind the theorems of AuthSessionsProofs that  *)
(* hold in every interleaving.                                             *)
IInv == RowsOK /\ VersionsNeverAhead

----------------------------------------------------------------------------
(* Requests served one at a time: the handlers as they were written, each  *)
(* finding the rows as its last read left them.                            *)

OneAtATime == \A r, s \in Requests : r = s

(* Of the tokens of session s, t alone may be usable by a client. *)
OthersSpent(s, t) ==
    \A x \in TokensOf({s}) \ {t} : tokens[x].sent => tokens[x].revokedAt # None

(* What a request still knows of the rows it has read or written. *)
ServedAlone(r) ==
    LET q == reqs[r] IN
    /\ q.reason # "token-reuse"
    /\ q.pc = "rehash" => q.pw = users[q.user].password
    /\ q.pc \in {"rehash", "issueSession", "issueToken", "saveToken"} =>
         q.version = users[q.user].version
    /\ q.pc = "issueToken" => Live(q.sess) /\ TokensOf({q.sess}) = {}
    /\ q.pc \in {"readUser", "saveToken", "retireToken", "saveSession"} =>
         q.seen = sessions[q.sess] /\ Live(q.sess)
    /\ q.pc \in {"readSession", "readUser", "saveToken", "retireToken"} =>
         OthersSpent(q.sess, q.tok)
    /\ q.pc \in {"saveSession", "saveLog", "respond"} => OthersSpent(q.sess, q.new)
    /\ q.pc = "killSession" => Unrevoked(TokensOf({q.sess})) = {}
    /\ q.pc \in {"revokeSessions", "revokeTokens"} => q.op \in {"change", "deactivate"}
    /\ q.pc \in {"killFamily", "killSession", "logoutSession"} =>
         q.op \notin {"change", "deactivate"}
    /\ q.pc = "revokeTokens" \/ (q.pc = "findLogs" /\ q.op # "exit") =>
         \A s \in LogScope(q) : ~Live(s)
    /\ q.pc = "closeLogs" => \A s \in q.open : Live(s) => q.op = "exit" /\ s = q.sess
    /\ q.pc = "reconcile" => q.at <= clock

(* A session that has a reason for its end is over. *)
EndsExplained ==
    \A s \in DOMAIN sessions : sessions[s].revokedReason # None => ~Live(s)

(* The inductive invariant of requests served one at a time, whichever of  *)
(* them crash.                                                             *)
AloneInv ==
    /\ \A r \in Requests : ServedAlone(r)
    /\ EndsExplained
    /\ OneUsableTokenPerSession
    /\ ReuseEndsFamily

(* A working credential predates the password only while the request that  *)
(* replaced it has yet to revoke its user's sessions.                      *)
StaleOnlyMidSweep ==
    \A t \in DOMAIN tokens :
      LET s == tokens[t].session IN
      tokens[t].revokedAt = None /\ Live(s) =>
        \/ tokens[t].version = users[sessions[s].user].version
        \/ \E r \in Requests : /\ reqs[r].pc \in {"revokeSessions", "resetSessions"}
                              /\ reqs[r].user = sessions[s].user

(* A closed log is ahead of its session only while exit is between the two. *)
ClosedOnlyMidExit ==
    \A s \in DOMAIN logs :
      logs[s].endedAt # None =>
        \/ Ended(s, clock)
        \/ \E r \in Requests : /\ reqs[r].op = "exit" /\ reqs[r].sess = s
                              /\ reqs[r].pc \in {"closeLogs", "exitSession"}

(* The same with no crash: every request reaches the end of its handler. *)
SequentialInv == AloneInv /\ StaleOnlyMidSweep /\ ClosedOnlyMidExit
============================================================================
