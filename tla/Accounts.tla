-------------------------------- MODULE Accounts --------------------------------
(***************************************************************************)
(* The life of an account: registration and trainer creation, single-use   *)
(* tokens (verify, reset, setup), child logins, the administrator's status *)
(* changes, and erasure with its cascade.                                  *)
(*                                                                         *)
(* A request is a process and each await on the database a step; a         *)
(* transaction is one step, at its commit, but what its handler read       *)
(* before it began is a local.  A request that dies is one that takes no   *)
(* further step, and a token past its deadline one that nobody redeems:    *)
(* for safety properties neither needs an action.  Sessions are            *)
(* AuthSessions' subject.                                                  *)
(* Refused calls that write nothing are left out, and whether a client may *)
(* redeem a token does not depend on the mail having arrived.              *)
(***************************************************************************)
EXTENDS Naturals, FiniteSets

CONSTANTS
    UserIds,        \* primary keys of users
    Parent,         \* the account that owns the child profiles, there from the start
    Emails,         \* addresses
    ParentEmail,    \* the parent's own
    TokenIds,       \* primary keys of the three token tables
    Profiles,       \* the parent's child profiles
    Requests,       \* requests in flight together
    None,           \* SQL NULL, or a local not yet assigned
    Endpoints       \* the endpoints called in this instance

Ops == {"register", "createTrainer", "createLogin", "revokeLogin", "verify", "resend",
        "forgot", "reset", "setup", "delete", "deactivate", "reactivate"}

ASSUME NoneAssumption ==
    None \notin UserIds \cup Emails \cup TokenIds \cup Profiles \cup Ops

ASSUME ParentAssumption ==
    Parent \in UserIds /\ ParentEmail \in Emails

ASSUME EndpointsAssumption ==
    Endpoints \subseteq Ops

VARIABLES
    users,          \* users: existing id -> row
    profiles,       \* player_profiles.child_user_id of each child profile
    tokens,         \* the three token tables: existing id -> row
    deletionLogs,   \* user_deletion_logs of each user
    reqs            \* the requests in flight and their local variables

vars == <<users, profiles, tokens, deletionLogs, reqs>>

----------------------------------------------------------------------------
Nullable(S) == S \cup {None}

UserStatus == {"active", "inactive", "deleted"}

(* email None is deleted_<id>@example.com.  madeFor is no column: it       *)
(* remembers for which child profile createLogin made the account.         *)
User == [status: UserStatus, email: Nullable(Emails), password: BOOLEAN,
         emailVerified: BOOLEAN, role: {"trainer", "player"}, madeFor: Nullable(Profiles)]

Kinds == {"verification", "reset", "setup"}

Token == [kind: Kinds, user: UserIds, consumed: BOOLEAN]

DeletionLog == [originalEmail: Nullable(Emails), cascadedFrom: Nullable(UserIds)]

PCs == {"idle", "findEmail", "createUser", "issue", "readUser", "consume",
        "setPassword", "markVerified", "findChildren", "findChildUsers", "erase",
        "setStatus", "revokeLogin"}

(* The locals: the account and token at hand, the address and child        *)
(* profile asked for, the status to be written, the children found, and    *)
(* the users to erase as they were read.                                   *)
Target == [user: UserIds, email: Nullable(Emails)]

Request == [pc: PCs, op: Nullable(Ops), user: Nullable(UserIds), token: Nullable(TokenIds),
            email: Nullable(Emails), profile: Nullable(Profiles),
            children: SUBSET UserIds, erase: SUBSET Target]

Idle == [pc |-> "idle", op |-> None, user |-> None, token |-> None, email |-> None,
         profile |-> None, children |-> {}, erase |-> {}]

At(r, pc) == reqs[r].pc = pc

Begin(r, q) == At(r, "idle") /\ q.op \in Endpoints /\ reqs' = [reqs EXCEPT ![r] = q]

SetPc(r, pc) == reqs' = [reqs EXCEPT ![r].pc = pc]

Finish(r) == reqs' = [reqs EXCEPT ![r] = Idle]

Insert(table, key, row) ==
    [k \in DOMAIN table \cup {key} |-> IF k = key THEN row ELSE table[k]]

Taken(e) == \E u \in DOMAIN users : users[u].email = e

Usable(u) == users[u].status = "active"

Logged(u) == deletionLogs[u] # {}

----------------------------------------------------------------------------
(* register, createTrainer, createLogin *)

(* A taken address ends the call: silently for register.                   *)
StartSignup(r, op, e) ==
    /\ ~Taken(e)
    /\ Begin(r, [Idle EXCEPT !.pc = "createUser", !.op = op, !.email = e])
    /\ UNCHANGED <<users, profiles, tokens, deletionLogs>>

StartCreateLogin(r, p, e) ==
    /\ Usable(Parent)
    /\ profiles[p] = None
    /\ Begin(r, [Idle EXCEPT !.pc = "findEmail", !.op = "createLogin", !.email = e,
                             !.profile = p])
    /\ UNCHANGED <<users, profiles, tokens, deletionLogs>>

FindEmail(r) ==
    /\ At(r, "findEmail")
    /\ IF Taken(reqs[r].email) THEN Finish(r) ELSE SetPc(r, "createUser")
    /\ UNCHANGED <<users, profiles, tokens, deletionLogs>>

NewUser(r) ==
    [status |-> "active", email |-> reqs[r].email, password |-> reqs[r].op # "createTrainer",
     emailVerified |-> reqs[r].op = "createLogin",
     role |-> IF reqs[r].op = "createTrainer" THEN "trainer" ELSE "player",
     madeFor |-> reqs[r].profile]

NewToken(kind, u) == [kind |-> kind, user |-> u, consumed |-> FALSE]

(* The user with its verification or setup token, or with the link from    *)
(* the child profile.                                                      *)
InsertUser(r) ==
    \E u \in UserIds \ DOMAIN users :
      /\ users' = Insert(users, u, NewUser(r))
      /\ IF reqs[r].op = "createLogin"
         THEN /\ profiles' = [profiles EXCEPT ![reqs[r].profile] = u]
              /\ UNCHANGED tokens
         ELSE /\ \E t \in TokenIds \ DOMAIN tokens :
                   tokens' = Insert(tokens, t,
                     NewToken(IF reqs[r].op = "register" THEN "verification" ELSE "setup", u))
              /\ UNCHANGED profiles

(* Mutant: users.email is not unique. *)
CreateUserNoIndex(r) ==
    /\ At(r, "createUser")
    /\ InsertUser(r)
    /\ Finish(r)
    /\ UNCHANGED deletionLogs

(* uq_users_email rolls the whole transaction back.                        *)
CreateUser(r) ==
    /\ At(r, "createUser")
    /\ \/ ~Taken(reqs[r].email) /\ InsertUser(r)
       \/ Taken(reqs[r].email) /\ UNCHANGED <<users, profiles, tokens>>
       \/ /\ DOMAIN users = UserIds \/ DOMAIN tokens = TokenIds   \* bound
          /\ UNCHANGED <<users, profiles, tokens>>
    /\ Finish(r)
    /\ UNCHANGED deletionLogs

----------------------------------------------------------------------------
(* SingleUseTokenService and its callers *)

(* resendVerification and forgotPassword look the account up by address.   *)
StartIssue(r, op, u) ==
    /\ Usable(u)
    /\ op = "resend" => ~users[u].emailVerified
    /\ DOMAIN tokens # TokenIds                                    \* bound
    /\ Begin(r, [Idle EXCEPT !.pc = "issue", !.op = op, !.user = u])
    /\ UNCHANGED <<users, profiles, tokens, deletionLogs>>

Issue(r) ==
    /\ At(r, "issue")
    /\ \/ \E t \in TokenIds \ DOMAIN tokens :
            tokens' = Insert(tokens, t,
              NewToken(IF reqs[r].op = "resend" THEN "verification" ELSE "reset", reqs[r].user))
       \/ DOMAIN tokens = TokenIds /\ UNCHANGED tokens             \* bound
    /\ Finish(r)
    /\ UNCHANGED <<users, profiles, deletionLogs>>

KindOf(op) == CASE op = "verify" -> "verification" [] op = "reset" -> "reset"
                [] OTHER -> "setup"

(* validate: verifyEmail and setupPassword go on to look at the account,   *)
(* resetPassword does not.                                                 *)
StartRedeem(r, op, t) ==
    /\ tokens[t].kind = KindOf(op)
    /\ ~tokens[t].consumed
    /\ Begin(r, [Idle EXCEPT !.pc = IF op = "reset" THEN "consume" ELSE "readUser",
                             !.op = op, !.token = t, !.user = tokens[t].user])
    /\ UNCHANGED <<users, profiles, tokens, deletionLogs>>

ReadUser(r) ==
    /\ At(r, "readUser")
    /\ IF Usable(reqs[r].user) THEN SetPc(r, "consume") ELSE Finish(r)
    /\ UNCHANGED <<users, profiles, tokens, deletionLogs>>

Spent(r) ==
    /\ tokens' = [tokens EXCEPT ![reqs[r].token].consumed = TRUE]
    /\ SetPc(r, IF reqs[r].op = "verify" THEN "markVerified" ELSE "setPassword")

(* Mutant: the update is not guarded by consumed_at IS NULL. *)
MarkConsumedAnyway(r) ==
    /\ At(r, "consume")
    /\ Spent(r)
    /\ UNCHANGED <<users, profiles, deletionLogs>>

(* Mutant: the effect goes first and the token is spent by nobody. *)
MarkConsumedLater(r) ==
    /\ At(r, "consume")
    /\ SetPc(r, IF reqs[r].op = "verify" THEN "markVerified" ELSE "setPassword")
    /\ UNCHANGED <<users, profiles, tokens, deletionLogs>>

(* UPDATE ... WHERE consumed_at IS NULL; no row affected is a conflict.    *)
MarkConsumed(r) ==
    /\ At(r, "consume")
    /\ IF tokens[reqs[r].token].consumed
       THEN Finish(r) /\ UNCHANGED tokens
       ELSE Spent(r)
    /\ UNCHANGED <<users, profiles, deletionLogs>>

SetPassword(r) ==
    /\ At(r, "setPassword")
    /\ users' = [users EXCEPT ![reqs[r].user].password = TRUE]
    /\ IF reqs[r].op = "setup" THEN SetPc(r, "markVerified") ELSE Finish(r)
    /\ UNCHANGED <<profiles, tokens, deletionLogs>>

MarkEmailVerified(r) ==
    /\ At(r, "markVerified")
    /\ users' = [users EXCEPT ![reqs[r].user].emailVerified = TRUE]
    /\ Finish(r)
    /\ UNCHANGED <<profiles, tokens, deletionLogs>>

----------------------------------------------------------------------------
(* deleteUser *)

(* Only the parent owns child profiles.                                    *)
StartDelete(r, u) ==
    /\ users[u].status # "deleted"
    /\ Begin(r, [Idle EXCEPT !.pc = "findChildren", !.op = "delete", !.user = u,
                             !.erase = {[user |-> u, email |-> users[u].email]}])
    /\ UNCHANGED <<users, profiles, tokens, deletionLogs>>

FindChildren(r) ==
    /\ At(r, "findChildren")
    /\ reqs' = [reqs EXCEPT ![r].pc = "findChildUsers",
                            ![r].children = IF reqs[r].user = Parent
                                            THEN {profiles[p] : p \in Profiles} \ {None}
                                            ELSE {}]
    /\ UNCHANGED <<users, profiles, tokens, deletionLogs>>

(* Child logins erased already are skipped.                                *)
FindChildUsers(r) ==
    /\ At(r, "findChildUsers")
    /\ reqs' = [reqs EXCEPT
                  ![r].pc = "erase",
                  ![r].children = {},
                  ![r].erase = @ \cup {[user |-> c, email |-> users[c].email] :
                                 c \in {d \in reqs[r].children : users[d].status # "deleted"}}]
    /\ UNCHANGED <<users, profiles, tokens, deletionLogs>>

Erased(row) == [row EXCEPT !.status = "deleted", !.email = None, !.password = FALSE]

Anonymize(targets) ==
    users' = [u \in DOMAIN users |-> IF u \in targets THEN Erased(users[u]) ELSE users[u]]

LogErasure(r, x) ==
    [originalEmail |-> x.email, cascadedFrom |-> IF x.user = reqs[r].user THEN None ELSE reqs[r].user]

(* The deletion logs after those of this erasure are added.                *)
WithLogs(r) ==
    [u \in UserIds |-> deletionLogs[u] \cup
                       {LogErasure(r, x) : x \in {y \in reqs[r].erase : y.user = u}}]

(* Mutant: user_deletion_logs.user_id is not unique. *)
EraseNoIndex(r) ==
    /\ At(r, "erase")
    /\ deletionLogs' = WithLogs(r)
    /\ Anonymize({x.user : x \in reqs[r].erase})
    /\ Finish(r)
    /\ UNCHANGED <<profiles, tokens>>

(* Mutant: the cascade writes no log for the child logins. *)
EraseLogsTargetOnly(r) ==
    /\ At(r, "erase")
    /\ IF \E x \in reqs[r].erase : Logged(x.user)
       THEN UNCHANGED <<users, deletionLogs>>
       ELSE /\ deletionLogs' =
                 [deletionLogs EXCEPT ![reqs[r].user] = WithLogs(r)[reqs[r].user]]
            /\ Anonymize({x.user : x \in reqs[r].erase})
    /\ Finish(r)
    /\ UNCHANGED <<profiles, tokens>>

(* The transaction; uq_user_deletion_logs_user_id rolls it back when one   *)
(* of the users has a log already.                                         *)
Erase(r) ==
    /\ At(r, "erase")
    /\ IF \E x \in reqs[r].erase : Logged(x.user)
       THEN UNCHANGED <<users, deletionLogs>>
       ELSE /\ deletionLogs' = WithLogs(r)
            /\ Anonymize({x.user : x \in reqs[r].erase})
    /\ Finish(r)
    /\ UNCHANGED <<profiles, tokens>>

----------------------------------------------------------------------------
(* deactivateUser, reactivateUser, revokeLogin *)

TargetStatus(op) == IF op = "reactivate" THEN "active" ELSE "inactive"

(* A call that finds the status as it should be writes nothing.            *)
StartStatus(r, op, u) ==
    /\ users[u].status \notin {"deleted", TargetStatus(op)}
    /\ Begin(r, [Idle EXCEPT !.pc = "setStatus", !.op = op, !.user = u])
    /\ UNCHANGED <<users, profiles, tokens, deletionLogs>>

SetStatus(r) ==
    /\ At(r, "setStatus")
    /\ users' = [users EXCEPT ![reqs[r].user].status = TargetStatus(reqs[r].op)]
    /\ Finish(r)
    /\ UNCHANGED <<profiles, tokens, deletionLogs>>

StartRevokeLogin(r, p) ==
    /\ Usable(Parent)
    /\ profiles[p] # None
    /\ Begin(r, [Idle EXCEPT !.pc = "revokeLogin", !.op = "revokeLogin", !.profile = p,
                             !.user = profiles[p]])
    /\ UNCHANGED <<users, profiles, tokens, deletionLogs>>

RevokeLogin(r) ==
    /\ At(r, "revokeLogin")
    /\ profiles' = [profiles EXCEPT ![reqs[r].profile] = None]
    /\ users' = [users EXCEPT ![reqs[r].user].status = "inactive"]
    /\ Finish(r)
    /\ UNCHANGED <<tokens, deletionLogs>>

----------------------------------------------------------------------------
Init ==
    /\ users = [u \in {Parent} |->
                  [status |-> "active", email |-> ParentEmail, password |-> TRUE,
                   emailVerified |-> TRUE, role |-> "player", madeFor |-> None]]
    /\ profiles = [p \in Profiles |-> None]
    /\ tokens = [t \in {} |-> None]
    /\ deletionLogs = [u \in UserIds |-> {}]
    /\ reqs = [r \in Requests |-> Idle]

StartRequest(r) ==
    \/ \E op \in {"register", "createTrainer"}, e \in Emails : StartSignup(r, op, e)
    \/ \E p \in Profiles, e \in Emails : StartCreateLogin(r, p, e)
    \/ \E p \in Profiles : StartRevokeLogin(r, p)
    \/ \E op \in {"resend", "forgot"}, u \in DOMAIN users : StartIssue(r, op, u)
    \/ \E op \in {"verify", "reset", "setup"}, t \in DOMAIN tokens : StartRedeem(r, op, t)
    \/ \E u \in DOMAIN users : StartDelete(r, u)
    \/ \E op \in {"deactivate", "reactivate"}, u \in DOMAIN users : StartStatus(r, op, u)

Continue(r) ==
    \/ FindEmail(r) \/ CreateUser(r) \/ Issue(r) \/ ReadUser(r) \/ MarkConsumed(r)
    \/ SetPassword(r) \/ MarkEmailVerified(r) \/ FindChildren(r) \/ FindChildUsers(r)
    \/ Erase(r) \/ SetStatus(r) \/ RevokeLogin(r)

Next ==
    \E r \in Requests : StartRequest(r) \/ Continue(r)

Spec == Init /\ [][Next]_vars

----------------------------------------------------------------------------
(* Properties *)

(* Every row and every in-flight request has the shape its handler gives it. *)
TypeOK ==
    /\ DOMAIN users \subseteq UserIds /\ Parent \in DOMAIN users
    /\ \A u \in DOMAIN users : users[u] \in User
    /\ profiles \in [Profiles -> Nullable(UserIds)]
    /\ DOMAIN tokens \subseteq TokenIds
    /\ \A t \in DOMAIN tokens : tokens[t] \in Token /\ tokens[t].user \in DOMAIN users
    /\ deletionLogs \in [UserIds -> SUBSET DeletionLog]
    /\ \A u \in UserIds \ DOMAIN users : deletionLogs[u] = {}
    /\ reqs \in [Requests -> Request]

(* However signups, trainer creations and child logins overlap, an address *)
(* names one account.                                                      *)
OneAccountPerEmail ==
    \A u, v \in DOMAIN users : users[u].email # None /\ users[u].email = users[v].email => u = v

(* Two redemptions of one link may both pass validate; one of them at most *)
(* gets to act on it.                                                      *)
Acting(r) == reqs[r].pc \in {"setPassword", "markVerified"}

TokenSpentOnce ==
    \A r, s \in Requests : Acting(r) /\ Acting(s) /\ reqs[r].token = reqs[s].token => r = s

(* A signup is verified, and an account made without a password has one,   *)
(* only because a link mailed to it was spent, whatever crashed between    *)
(* the spending and the writing.                                           *)
SpentToken(u, kinds) ==
    \E t \in DOMAIN tokens : tokens[t].user = u /\ tokens[t].consumed /\ tokens[t].kind \in kinds

CredentialsAreEarned ==
    \A u \in DOMAIN users \ {Parent} :
      /\ users[u].emailVerified /\ users[u].madeFor = None =>
           SpentToken(u, {"verification", "setup"})
      /\ users[u].role = "trainer" /\ users[u].password => SpentToken(u, {"reset", "setup"})

(* The compliance record: an erased account, the cascaded ones included,   *)
(* has one log, and it still names the address.                            *)
ErasureIsLogged ==
    \A u \in DOMAIN users :
      /\ users[u].status = "deleted" \/ users[u].email = None => Logged(u)
      /\ \A l \in deletionLogs[u] : l.originalEmail \in Emails
      /\ \A l, m \in deletionLogs[u] : l = m

(* What a handler may assume about its locals at each of its awaits.       *)
LocalsOK(r) ==
    LET q == reqs[r] IN
    /\ q.user # None => q.user \in DOMAIN users
    /\ q.pc \in {"findEmail", "createUser"} => q.email \in Emails
    /\ q.pc = "findEmail" => q.op = "createLogin"
    /\ q.op = "createLogin" => q.profile \in Profiles
    /\ q.pc = "createUser" => q.op = "createLogin" \/ q.profile = None
    /\ q.pc \in {"issue", "readUser", "consume", "setPassword", "markVerified", "erase",
                 "findChildren", "findChildUsers", "setStatus", "revokeLogin"} =>
         q.user # None
    /\ q.pc \in {"readUser", "consume", "setPassword", "markVerified"} =>
         /\ q.token \in DOMAIN tokens /\ tokens[q.token].user = q.user
         /\ q.op \in {"verify", "reset", "setup"} /\ tokens[q.token].kind = KindOf(q.op)
    /\ Acting(r) => tokens[q.token].consumed
    /\ q.pc = "setPassword" => q.op \in {"reset", "setup"}
    /\ q.pc = "markVerified" => q.op \in {"verify", "setup"}
    /\ q.pc = "revokeLogin" => q.profile \in Profiles
    /\ q.pc # "erase" => \A x \in q.erase : x.user = q.user
    /\ \A c \in q.children : c \in DOMAIN users /\ c # q.user
    /\ \A x, y \in q.erase : x.user = y.user => x = y
    /\ \A x \in q.erase : x.user \in DOMAIN users /\ (x.email = None => Logged(x.user))

(* A child profile points at an account that createLogin made for it.      *)
LinksOK ==
    /\ users[Parent].madeFor = None
    /\ \A p \in Profiles : profiles[p] # None =>
         profiles[p] \in DOMAIN users /\ users[profiles[p]].madeFor = p

(* The inductive invariant behind the theorems of AccountsProofs.          *)
IInv ==
    /\ TypeOK
    /\ OneAccountPerEmail
    /\ TokenSpentOnce
    /\ CredentialsAreEarned
    /\ ErasureIsLogged
    /\ LinksOK
    /\ \A r \in Requests : LocalsOK(r)
=============================================================================
