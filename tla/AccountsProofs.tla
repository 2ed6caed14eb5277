----------------------------- MODULE AccountsProofs -----------------------------
(***************************************************************************)
(* Proofs about Accounts, for any users, addresses, tokens, profiles and   *)
(* number of requests, dead ones included.                                 *)
(*                                                                         *)
(* TablesOK is what IInv says of the tables.  Every step is a RowStep:     *)
(* rows are not removed, a token keeps its kind and user and stays spent,  *)
(* a logged erasure stays logged.  A RowStep keeps the locals of the       *)
(* requests that do not move (LocalsKept), so each action has only its own *)
(* request and the tables it writes to account for (StepOf).               *)
(***************************************************************************)
EXTENDS Accounts, TLAPS

TablesTyped ==
    /\ DOMAIN users \subseteq UserIds /\ Parent \in DOMAIN users
    /\ \A u \in DOMAIN users : users[u] \in User
    /\ profiles \in [Profiles -> Nullable(UserIds)]
    /\ DOMAIN tokens \subseteq TokenIds
    /\ \A t \in DOMAIN tokens : tokens[t] \in Token /\ tokens[t].user \in DOMAIN users
    /\ deletionLogs \in [UserIds -> SUBSET DeletionLog]
    /\ \A u \in UserIds \ DOMAIN users : deletionLogs[u] = {}

TablesOK ==
    TablesTyped /\ OneAccountPerEmail /\ CredentialsAreEarned /\ ErasureIsLogged /\ LinksOK

RowStep ==
    /\ DOMAIN users \subseteq DOMAIN users'
    /\ \A t \in DOMAIN tokens :
         /\ t \in DOMAIN tokens'
         /\ tokens'[t].kind = tokens[t].kind /\ tokens'[t].user = tokens[t].user
         /\ tokens[t].consumed => tokens'[t].consumed
    /\ \A u \in UserIds : Logged(u) => Logged(u)'

LEMMA IInvParts ==
    IInv <=> /\ TablesOK /\ TokenSpentOnce /\ reqs \in [Requests -> Request]
             /\ \A r \in Requests : LocalsOK(r)
BY DEF IInv, TypeOK, TablesOK, TablesTyped

LEMMA Untouched ==
    ASSUME TablesOK, UNCHANGED <<users, profiles, tokens, deletionLogs>>
    PROVE  TablesOK' /\ RowStep
BY DEF TablesOK, TablesTyped, OneAccountPerEmail, CredentialsAreEarned, SpentToken,
       ErasureIsLogged, LinksOK, Logged, RowStep

LEMMA LocalsKept ==
    ASSUME NEW s \in Requests, reqs[s] \in Request, LocalsOK(s), RowStep,
           DOMAIN users \subseteq UserIds, reqs'[s] = reqs[s]
    PROVE  LocalsOK(s)'
<1>1. \A c \in DOMAIN users : c \in DOMAIN users' /\ c \in UserIds
    BY DEF RowStep
<1>2. \A t \in DOMAIN tokens :
        /\ t \in DOMAIN tokens'
        /\ tokens'[t].kind = tokens[t].kind /\ tokens'[t].user = tokens[t].user
        /\ tokens[t].consumed => tokens'[t].consumed
    BY DEF RowStep
<1>3. \A u \in UserIds : Logged(u) => Logged(u)'
    BY DEF RowStep
<1>4. Acting(s)' = Acting(s)
    BY DEF Acting
<1>5. /\ reqs[s].user # None => reqs[s].user \in DOMAIN users'
      /\ \A c \in reqs[s].children : c \in DOMAIN users' /\ c # reqs[s].user
    BY <1>1 DEF LocalsOK
<1>6. \A x \in reqs[s].erase : x.user \in DOMAIN users' /\ (x.email = None => Logged(x.user)')
    BY <1>1, <1>3 DEF LocalsOK
<1>7. reqs[s].pc \in {"readUser", "consume", "setPassword", "markVerified"} =>
         /\ reqs[s].token \in DOMAIN tokens' /\ tokens'[reqs[s].token].user = reqs[s].user
         /\ reqs[s].op \in {"verify", "reset", "setup"}
         /\ tokens'[reqs[s].token].kind = KindOf(reqs[s].op)
    BY <1>2 DEF LocalsOK
<1>8. Acting(s) => reqs[s].token \in DOMAIN tokens /\ tokens'[reqs[s].token].consumed
    BY <1>2 DEF LocalsOK, Acting
<1> QED
    BY <1>4, <1>5, <1>6, <1>7, <1>8 DEF LocalsOK

(* A request that begins to act on a token does so on one not spent so far. *)
LEMMA StepOf ==
    ASSUME IInv, NEW r \in Requests, TablesOK', RowStep,
           NEW q \in Request, reqs' = [reqs EXCEPT ![r] = q], LocalsOK(r)',
           Acting(r)' => \/ Acting(r) /\ q.token = reqs[r].token
                         \/ ~tokens[q.token].consumed
    PROVE  IInv'
<1>1. /\ TablesOK /\ TokenSpentOnce /\ reqs \in [Requests -> Request]
      /\ \A s \in Requests : LocalsOK(s)
    BY IInvParts
<1>2. reqs' \in [Requests -> Request] /\ reqs'[r] = q
    BY <1>1
<1>3. \A s \in Requests \ {r} : reqs'[s] = reqs[s]
    BY <1>1
<1>4. \A s \in Requests : LocalsOK(s)'
    BY <1>1, <1>3, LocalsKept DEF TablesOK, TablesTyped
<1>5. \A s \in Requests \ {r} : Acting(s)' = Acting(s)
    BY <1>3 DEF Acting
<1>6. \A s \in Requests : Acting(s) => tokens[reqs[s].token].consumed
    BY <1>1 DEF LocalsOK
<1>7. TokenSpentOnce'
    <2>1. ASSUME NEW s \in Requests \ {r}, Acting(r)', Acting(s)',
                 reqs'[r].token = reqs'[s].token
          PROVE  FALSE
        BY <2>1, <1>1, <1>2, <1>3, <1>5, <1>6 DEF TokenSpentOnce
    <2>2. \A s, t \in Requests \ {r} :
            Acting(s)' /\ Acting(t)' /\ reqs'[s].token = reqs'[t].token => s = t
        BY <1>1, <1>3, <1>5 DEF TokenSpentOnce
    <2> QED
        BY <2>1, <2>2 DEF TokenSpentOnce
<1> QED
    BY <1>2, <1>4, <1>7 DEF IInv, TypeOK, TablesOK, TablesTyped

LEMMA IdleRequest == Idle \in Request
BY DEF Idle, Request, PCs, Nullable

LEMMA IdleLocals ==
    ASSUME NEW r \in Requests, reqs'[r] = Idle
    PROVE  LocalsOK(r)' /\ ~Acting(r)'
BY NoneAssumption DEF Idle, LocalsOK, Acting, Ops

(* The last step of a handler. *)
LEMMA FinishStep ==
    ASSUME IInv, NEW r \in Requests, Finish(r), TablesOK', RowStep
    PROVE  IInv'
<1>1. reqs' = [reqs EXCEPT ![r] = Idle] /\ reqs'[r] = Idle
    BY IInvParts DEF Finish
<1> QED
    BY <1>1, IdleRequest, IdleLocals, StepOf

LEMMA InitInvariant == Init => IInv
<1> SUFFICES ASSUME Init PROVE IInv
    OBVIOUS
<1>1. /\ DOMAIN users = {Parent} /\ DOMAIN tokens = {}
      /\ users[Parent] = [status |-> "active", email |-> ParentEmail, password |-> TRUE,
                          emailVerified |-> TRUE, role |-> "player", madeFor |-> None]
      /\ \A p \in Profiles : profiles[p] = None
      /\ \A u \in UserIds : deletionLogs[u] = {}
      /\ \A r \in Requests : reqs[r] = Idle
    BY DEF Init
<1>2. users[Parent] \in User
    BY <1>1, ParentAssumption DEF User, UserStatus, Nullable
<1>3. TablesTyped
    BY <1>1, <1>2, ParentAssumption DEF Init, TablesTyped, Nullable
<1>4. OneAccountPerEmail /\ CredentialsAreEarned /\ LinksOK
    BY <1>1 DEF OneAccountPerEmail, CredentialsAreEarned, LinksOK
<1>5. ErasureIsLogged
    BY <1>1, NoneAssumption, ParentAssumption DEF ErasureIsLogged
<1>6. TokenSpentOnce
    BY <1>1 DEF TokenSpentOnce, Acting, Idle
<1>7. \A r \in Requests : LocalsOK(r)
    BY <1>1, NoneAssumption DEF Idle, LocalsOK, Acting, Ops
<1>8. reqs \in [Requests -> Request]
    BY IdleRequest DEF Init
<1> QED
    BY <1>3, <1>4, <1>5, <1>6, <1>7, <1>8, IInvParts DEF TablesOK

----------------------------------------------------------------------------
(* Steps that write no table. *)

LEMMA StartSignupStep ==
    ASSUME IInv, NEW r \in Requests, NEW op \in {"register", "createTrainer"}, NEW e \in Emails,
           StartSignup(r, op, e)
    PROVE  IInv'
<1> DEFINE q == [Idle EXCEPT !.pc = "createUser", !.op = op, !.email = e]
<1>1. /\ q.pc = "createUser" /\ q.op = op /\ q.email = e /\ q.user = None /\ q.profile = None
      /\ q.children = {} /\ q.erase = {}
    BY DEF Idle
<1>2. q \in Request
    BY IdleRequest DEF Request, PCs, Nullable, Ops
<1>3. reqs' = [reqs EXCEPT ![r] = q] /\ UNCHANGED <<users, profiles, tokens, deletionLogs>>
    BY DEF StartSignup, Begin
<1> HIDE DEF q
<1>4. reqs'[r] = q
    BY <1>3, IInvParts
<1>5. LocalsOK(r)' /\ ~Acting(r)'
    BY <1>1, <1>4 DEF LocalsOK, Acting
<1> QED
    BY <1>2, <1>3, <1>5, IInvParts, Untouched, StepOf

LEMMA StartCreateLoginStep ==
    ASSUME IInv, NEW r \in Requests, NEW p \in Profiles, NEW e \in Emails,
           StartCreateLogin(r, p, e)
    PROVE  IInv'
<1> DEFINE q == [Idle EXCEPT !.pc = "findEmail", !.op = "createLogin", !.email = e, !.profile = p]
<1>1. /\ q.pc = "findEmail" /\ q.op = "createLogin" /\ q.email = e /\ q.user = None
      /\ q.profile = p /\ q.children = {} /\ q.erase = {}
    BY DEF Idle
<1>2. q \in Request
    BY IdleRequest DEF Request, PCs, Nullable, Ops
<1>3. reqs' = [reqs EXCEPT ![r] = q] /\ UNCHANGED <<users, profiles, tokens, deletionLogs>>
    BY DEF StartCreateLogin, Begin
<1> HIDE DEF q
<1>4. reqs'[r] = q
    BY <1>3, IInvParts
<1>5. LocalsOK(r)' /\ ~Acting(r)'
    BY <1>1, <1>4 DEF LocalsOK, Acting
<1> QED
    BY <1>2, <1>3, <1>5, IInvParts, Untouched, StepOf

(* A handler goes on from one await to the next with the same locals. *)
LEMMA SetPcStep ==
    ASSUME IInv, NEW r \in Requests, NEW pc \in PCs, SetPc(r, pc), TablesOK', RowStep,
           Acting(r)' => Acting(r) \/ ~tokens[reqs[r].token].consumed,
           LocalsOK(r)'
    PROVE  IInv'
<1> DEFINE q == [reqs[r] EXCEPT !.pc = pc]
<1>1. reqs[r] \in Request
    BY IInvParts
<1>2. q \in Request /\ q.token = reqs[r].token
    BY <1>1 DEF Request
<1>3. reqs' = [reqs EXCEPT ![r] = q]
    BY DEF SetPc
<1> QED
    BY <1>2, <1>3, StepOf

LEMMA SetPcFields ==
    ASSUME IInv, NEW r \in Requests, NEW pc \in PCs, SetPc(r, pc)
    PROVE  /\ reqs'[r].pc = pc /\ reqs'[r].op = reqs[r].op /\ reqs'[r].user = reqs[r].user
           /\ reqs'[r].token = reqs[r].token /\ reqs'[r].email = reqs[r].email
           /\ reqs'[r].profile = reqs[r].profile /\ reqs'[r].children = reqs[r].children
           /\ reqs'[r].erase = reqs[r].erase
<1>1. reqs[r] \in Request /\ reqs \in [Requests -> Request]
    BY IInvParts
<1> QED
    BY <1>1 DEF SetPc, Request

LEMMA FindEmailStep ==
    ASSUME IInv, NEW r \in Requests, FindEmail(r)
    PROVE  IInv'
<1>1. TablesOK' /\ RowStep /\ UNCHANGED <<users, profiles, tokens, deletionLogs>>
    BY IInvParts, Untouched DEF FindEmail
<1>2. CASE Finish(r)
    BY <1>1, <1>2, FinishStep
<1>3. CASE SetPc(r, "createUser")
    <2>1. LocalsOK(r) /\ reqs[r].pc = "findEmail"
        BY IInvParts DEF FindEmail, At
    <2>2. LocalsOK(r)' /\ ~Acting(r)'
        BY <1>1, <1>3, <2>1, SetPcFields DEF LocalsOK, Acting, PCs, Logged
    <2> QED
        BY <1>1, <1>3, <2>2, SetPcStep DEF PCs
<1> QED
    BY <1>2, <1>3 DEF FindEmail

LEMMA StartIssueStep ==
    ASSUME IInv, NEW r \in Requests, NEW op \in {"resend", "forgot"}, NEW u \in DOMAIN users,
           StartIssue(r, op, u)
    PROVE  IInv'
<1> DEFINE q == [Idle EXCEPT !.pc = "issue", !.op = op, !.user = u]
<1>1. q.pc = "issue" /\ q.op = op /\ q.user = u /\ q.children = {} /\ q.erase = {}
    BY DEF Idle
<1>2. u \in UserIds
    BY IInvParts DEF TablesOK, TablesTyped
<1>3. q \in Request
    BY <1>2, IdleRequest DEF Request, PCs, Nullable, Ops
<1>4. reqs' = [reqs EXCEPT ![r] = q] /\ UNCHANGED <<users, profiles, tokens, deletionLogs>>
    BY DEF StartIssue, Begin
<1> HIDE DEF q
<1>5. reqs'[r] = q
    BY <1>4, IInvParts
<1>6. LocalsOK(r)' /\ ~Acting(r)'
    BY <1>1, <1>2, <1>4, <1>5, NoneAssumption DEF LocalsOK, Acting
<1> QED
    BY <1>3, <1>4, <1>6, IInvParts, Untouched, StepOf

LEMMA StartRedeemStep ==
    ASSUME IInv, NEW r \in Requests, NEW op \in {"verify", "reset", "setup"},
           NEW t \in DOMAIN tokens, StartRedeem(r, op, t)
    PROVE  IInv'
<1> DEFINE first == IF op = "reset" THEN "consume" ELSE "readUser"
           q == [Idle EXCEPT !.pc = first, !.op = op, !.token = t, !.user = tokens[t].user]
<1>1. /\ q.pc = first /\ q.op = op /\ q.user = tokens[t].user /\ q.token = t
      /\ q.children = {} /\ q.erase = {}
    BY DEF Idle
<1>2. t \in TokenIds /\ tokens[t].user \in DOMAIN users /\ tokens[t].user \in UserIds
    BY IInvParts DEF TablesOK, TablesTyped
<1>3. q \in Request
    BY <1>2, IdleRequest DEF Request, PCs, Nullable, Ops
<1>4. reqs' = [reqs EXCEPT ![r] = q] /\ UNCHANGED <<users, profiles, tokens, deletionLogs>>
    BY DEF StartRedeem, Begin
<1> HIDE DEF q
<1>5. reqs'[r] = q /\ tokens[t].kind = KindOf(op)
    BY <1>4, IInvParts DEF StartRedeem
<1>6. LocalsOK(r)' /\ ~Acting(r)'
    BY <1>1, <1>2, <1>4, <1>5, NoneAssumption DEF LocalsOK, Acting
<1> QED
    BY <1>3, <1>4, <1>6, IInvParts, Untouched, StepOf

LEMMA ReadUserStep ==
    ASSUME IInv, NEW r \in Requests, ReadUser(r)
    PROVE  IInv'
<1>1. TablesOK' /\ RowStep /\ UNCHANGED <<users, profiles, tokens, deletionLogs>>
    BY IInvParts, Untouched DEF ReadUser
<1>2. CASE Finish(r)
    BY <1>1, <1>2, FinishStep
<1>3. CASE SetPc(r, "consume")
    <2>1. LocalsOK(r) /\ reqs[r].pc = "readUser"
        BY IInvParts DEF ReadUser, At
    <2>2. LocalsOK(r)' /\ ~Acting(r)'
        BY <1>1, <1>3, <2>1, SetPcFields DEF LocalsOK, Acting, PCs, Logged
    <2> QED
        BY <1>1, <1>3, <2>2, SetPcStep DEF PCs
<1> QED
    BY <1>2, <1>3 DEF ReadUser

LEMMA StartDeleteStep ==
    ASSUME IInv, NEW r \in Requests, NEW u \in DOMAIN users, StartDelete(r, u)
    PROVE  IInv'
<1> DEFINE x == [user |-> u, email |-> users[u].email]
           q == [Idle EXCEPT !.pc = "findChildren", !.op = "delete", !.user = u, !.erase = {x}]
<1>1. /\ q.pc = "findChildren" /\ q.op = "delete" /\ q.user = u /\ q.children = {}
      /\ q.erase = {x}
    BY DEF Idle
<1>2. u \in UserIds /\ users[u] \in User /\ (users[u].email = None => Logged(u))
    BY IInvParts DEF TablesOK, TablesTyped, ErasureIsLogged
<1>3. x \in Target
    BY <1>2 DEF User, Target
<1>4. q \in Request
    BY <1>2, <1>3, IdleRequest DEF Request, PCs, Nullable, Ops
<1>5. reqs' = [reqs EXCEPT ![r] = q] /\ UNCHANGED <<users, profiles, tokens, deletionLogs>>
    BY DEF StartDelete, Begin
<1> HIDE DEF q
<1>6. reqs'[r] = q
    BY <1>5, IInvParts
<1>7. LocalsOK(r)' /\ ~Acting(r)'
    BY <1>1, <1>2, <1>5, <1>6, NoneAssumption DEF LocalsOK, Acting, Logged
<1> QED
    BY <1>4, <1>5, <1>7, IInvParts, Untouched, StepOf

LEMMA FindChildrenStep ==
    ASSUME IInv, NEW r \in Requests, FindChildren(r)
    PROVE  IInv'
<1> DEFINE found == IF reqs[r].user = Parent THEN {profiles[p] : p \in Profiles} \ {None} ELSE {}
           q == [reqs[r] EXCEPT !.pc = "findChildUsers", !.children = found]
<1>1. /\ reqs[r] \in Request /\ LocalsOK(r) /\ reqs[r].pc = "findChildren" /\ TablesOK
      /\ reqs' = [reqs EXCEPT ![r] = q] /\ reqs'[r] = q
      /\ UNCHANGED <<users, profiles, tokens, deletionLogs>>
    BY IInvParts DEF FindChildren, At
<1>2. \A c \in found : c \in UserIds /\ c \in DOMAIN users /\ c # reqs[r].user
    BY <1>1, NoneAssumption DEF TablesOK, TablesTyped, LinksOK, Nullable
<1>3. /\ q.pc = "findChildUsers" /\ q.op = reqs[r].op /\ q.user = reqs[r].user
      /\ q.email = reqs[r].email /\ q.profile = reqs[r].profile /\ q.erase = reqs[r].erase
      /\ q.children = found
    BY <1>1 DEF Request
<1>4. q \in Request
    BY <1>1, <1>2 DEF Request, PCs
<1> HIDE DEF q, found
<1>5. LocalsOK(r)' /\ ~Acting(r)'
    BY <1>1, <1>2, <1>3 DEF LocalsOK, Acting, Logged
<1> QED
    BY <1>1, <1>4, <1>5, Untouched, StepOf

LEMMA FindChildUsersStep ==
    ASSUME IInv, NEW r \in Requests, FindChildUsers(r)
    PROVE  IInv'
<1> DEFINE row(c) == [user |-> c, email |-> users[c].email]
           live == {d \in reqs[r].children : users[d].status # "deleted"}
           more == reqs[r].erase \cup {row(c) : c \in live}
           q == [reqs[r] EXCEPT !.pc = "erase", !.children = {}, !.erase = more]
<1>1. /\ reqs[r] \in Request /\ LocalsOK(r) /\ reqs[r].pc = "findChildUsers" /\ TablesOK
      /\ reqs' = [reqs EXCEPT ![r] = q] /\ reqs'[r] = q
      /\ UNCHANGED <<users, profiles, tokens, deletionLogs>>
    BY IInvParts DEF FindChildUsers, At
<1>2. \A c \in live : /\ c \in UserIds /\ c \in DOMAIN users /\ c # reqs[r].user
                      /\ users[c] \in User /\ (users[c].email = None => Logged(c))
    BY <1>1 DEF TablesOK, TablesTyped, ErasureIsLogged, LocalsOK
<1>3. /\ q.pc = "erase" /\ q.op = reqs[r].op /\ q.user = reqs[r].user
      /\ q.email = reqs[r].email /\ q.profile = reqs[r].profile /\ q.erase = more
      /\ q.children = {}
    BY <1>1 DEF Request
<1>4. more \subseteq Target
    <2>1. \A c \in live : row(c) \in Target
        BY <1>2 DEF User, Target
    <2> QED
        BY <2>1, <1>1 DEF Request
<1>5. q \in Request
    BY <1>1, <1>4 DEF Request, PCs
<1>6. \A x \in more : x.user \in DOMAIN users /\ (x.email = None => Logged(x.user))
    BY <1>1, <1>2 DEF LocalsOK
<1>7. \A x, y \in more : x.user = y.user => x = y
    BY <1>1, <1>2 DEF LocalsOK
<1> HIDE DEF q, more
<1>8. LocalsOK(r)' /\ ~Acting(r)'
    BY <1>1, <1>3, <1>6, <1>7 DEF LocalsOK, Acting, Logged
<1> QED
    BY <1>1, <1>5, <1>8, Untouched, StepOf

LEMMA StartStatusStep ==
    ASSUME IInv, NEW r \in Requests, NEW op \in {"deactivate", "reactivate"},
           NEW u \in DOMAIN users, StartStatus(r, op, u)
    PROVE  IInv'
<1> DEFINE q == [Idle EXCEPT !.pc = "setStatus", !.op = op, !.user = u]
<1>1. q.pc = "setStatus" /\ q.op = op /\ q.user = u /\ q.children = {} /\ q.erase = {}
    BY DEF Idle
<1>2. u \in UserIds
    BY IInvParts DEF TablesOK, TablesTyped
<1>3. q \in Request
    BY <1>2, IdleRequest DEF Request, PCs, Nullable, Ops
<1>4. reqs' = [reqs EXCEPT ![r] = q] /\ UNCHANGED <<users, profiles, tokens, deletionLogs>>
    BY DEF StartStatus, Begin
<1> HIDE DEF q
<1>5. reqs'[r] = q
    BY <1>4, IInvParts
<1>6. LocalsOK(r)' /\ ~Acting(r)'
    BY <1>1, <1>2, <1>4, <1>5, NoneAssumption DEF LocalsOK, Acting
<1> QED
    BY <1>3, <1>4, <1>6, IInvParts, Untouched, StepOf

LEMMA StartRevokeLoginStep ==
    ASSUME IInv, NEW r \in Requests, NEW p \in Profiles, StartRevokeLogin(r, p)
    PROVE  IInv'
<1> DEFINE q == [Idle EXCEPT !.pc = "revokeLogin", !.op = "revokeLogin", !.profile = p,
                             !.user = profiles[p]]
<1>1. /\ q.pc = "revokeLogin" /\ q.op = "revokeLogin" /\ q.profile = p /\ q.user = profiles[p]
      /\ q.children = {} /\ q.erase = {}
    BY DEF Idle
<1>2. profiles[p] \in UserIds /\ profiles[p] \in DOMAIN users /\ profiles[p] # None
    BY IInvParts DEF TablesOK, TablesTyped, LinksOK, Nullable, StartRevokeLogin
<1>3. q \in Request
    BY <1>2, IdleRequest DEF Request, PCs, Nullable, Ops
<1>4. reqs' = [reqs EXCEPT ![r] = q] /\ UNCHANGED <<users, profiles, tokens, deletionLogs>>
    BY DEF StartRevokeLogin, Begin
<1> HIDE DEF q
<1>5. reqs'[r] = q
    BY <1>4, IInvParts
<1>6. LocalsOK(r)' /\ ~Acting(r)'
    BY <1>1, <1>2, <1>4, <1>5 DEF LocalsOK, Acting
<1> QED
    BY <1>3, <1>4, <1>6, IInvParts, Untouched, StepOf

----------------------------------------------------------------------------
(* Steps that write a table. *)

(* One account changes status or gains an earned credential, and at most   *)
(* links from profiles are cut.                                            *)
LEMMA EditUser ==
    ASSUME TablesOK, NEW u \in DOMAIN users, NEW row \in User,
           users' = [users EXCEPT ![u] = row],
           row.email = users[u].email, row.madeFor = users[u].madeFor,
           row.role = users[u].role, row.status = "deleted" => Logged(u),
           u # Parent /\ row.emailVerified /\ row.madeFor = None =>
             SpentToken(u, {"verification", "setup"}),
           u # Parent /\ row.role = "trainer" /\ row.password =>
             SpentToken(u, {"reset", "setup"}),
           profiles' \in [Profiles -> Nullable(UserIds)],
           \A p \in Profiles : profiles'[p] \in {profiles[p], None},
           UNCHANGED <<tokens, deletionLogs>>
    PROVE  TablesOK' /\ RowStep
<1>1. /\ DOMAIN users' = DOMAIN users /\ users'[u] = row
      /\ \A v \in DOMAIN users : v # u => users'[v] = users[v]
    OBVIOUS
<1>2. \A v \in DOMAIN users :
        /\ users'[v] \in User /\ users'[v].email = users[v].email
        /\ users'[v].madeFor = users[v].madeFor
    BY <1>1 DEF TablesOK, TablesTyped
<1>3. TablesTyped'
    BY <1>1, <1>2 DEF TablesOK, TablesTyped
<1>4. OneAccountPerEmail'
    BY <1>1, <1>2 DEF TablesOK, OneAccountPerEmail
<1>5. \A v, K : SpentToken(v, K)' <=> SpentToken(v, K)
    BY DEF SpentToken
<1>6. CredentialsAreEarned'
    <2>1. ASSUME NEW v \in DOMAIN users \ {Parent}
          PROVE  /\ users'[v].emailVerified /\ users'[v].madeFor = None =>
                      SpentToken(v, {"verification", "setup"})
                 /\ users'[v].role = "trainer" /\ users'[v].password =>
                      SpentToken(v, {"reset", "setup"})
        <3>1. CASE v = u
            BY <3>1, <1>1, <2>1
        <3>2. CASE v # u
            BY <3>2, <1>1, <2>1 DEF TablesOK, CredentialsAreEarned
        <3> QED
            BY <3>1, <3>2
    <2> QED
        BY <2>1, <1>1 DEF CredentialsAreEarned, SpentToken
<1>7. ErasureIsLogged'
    BY <1>1, <1>2 DEF TablesOK, ErasureIsLogged, Logged
<1>8. LinksOK'
    BY <1>1, <1>2, NoneAssumption DEF TablesOK, TablesTyped, LinksOK
<1>9. RowStep
    BY <1>1 DEF RowStep, Logged
<1> QED
    BY <1>3, <1>4, <1>6, <1>7, <1>8, <1>9 DEF TablesOK

(* A token is inserted or spent. *)
LEMMA TokensGrow ==
    ASSUME TablesOK, DOMAIN tokens' \subseteq TokenIds,
           \A t \in DOMAIN tokens' : tokens'[t] \in Token /\ tokens'[t].user \in DOMAIN users,
           \A t \in DOMAIN tokens :
             /\ t \in DOMAIN tokens'
             /\ tokens'[t].kind = tokens[t].kind /\ tokens'[t].user = tokens[t].user
             /\ tokens[t].consumed => tokens'[t].consumed,
           UNCHANGED <<users, profiles, deletionLogs>>
    PROVE  TablesOK' /\ RowStep
<1>1. TablesTyped' /\ RowStep
    BY DEF TablesOK, TablesTyped, RowStep, Logged
<1>2. OneAccountPerEmail' /\ ErasureIsLogged' /\ LinksOK'
    BY DEF TablesOK, OneAccountPerEmail, ErasureIsLogged, LinksOK, Logged
<1>3. \A u, K : SpentToken(u, K) => SpentToken(u, K)'
    BY DEF SpentToken
<1>4. CredentialsAreEarned'
    BY <1>3 DEF TablesOK, CredentialsAreEarned
<1> QED
    BY <1>1, <1>2, <1>4 DEF TablesOK

LEMMA IssueStep ==
    ASSUME IInv, NEW r \in Requests, Issue(r)
    PROVE  IInv'
<1>1. TablesOK /\ reqs[r].user \in DOMAIN users /\ reqs[r].user \in UserIds
    BY IInvParts DEF TablesOK, TablesTyped, Issue, At, LocalsOK
<1>2. CASE UNCHANGED tokens
    BY <1>1, <1>2, Untouched, FinishStep DEF Issue
<1>3. ASSUME NEW t \in TokenIds \ DOMAIN tokens, NEW kind \in Kinds,
             tokens' = Insert(tokens, t, NewToken(kind, reqs[r].user))
      PROVE  IInv'
    <2>1. /\ DOMAIN tokens' = DOMAIN tokens \cup {t}
          /\ tokens'[t] = NewToken(kind, reqs[r].user)
          /\ \A s \in DOMAIN tokens : tokens'[s] = tokens[s]
        BY <1>3 DEF Insert
    <2>2. NewToken(kind, reqs[r].user) \in Token /\ NewToken(kind, reqs[r].user).user = reqs[r].user
        BY <1>1 DEF NewToken, Token
    <2>3. TablesOK' /\ RowStep
        BY <1>1, <2>1, <2>2, TokensGrow DEF TablesOK, TablesTyped, Issue
    <2> QED
        BY <2>3, FinishStep DEF Issue
<1> QED
    BY <1>2, <1>3 DEF Issue, Kinds

LEMMA MarkConsumedStep ==
    ASSUME IInv, NEW r \in Requests, MarkConsumed(r)
    PROVE  IInv'
<1> DEFINE t == reqs[r].token
           next == IF reqs[r].op = "verify" THEN "markVerified" ELSE "setPassword"
<1>1. /\ TablesOK /\ LocalsOK(r) /\ reqs[r].pc = "consume" /\ t \in DOMAIN tokens
      /\ tokens[t].user = reqs[r].user /\ reqs[r].op \in {"verify", "reset", "setup"}
      /\ tokens[t].kind = KindOf(reqs[r].op) /\ reqs[r].user # None
    BY IInvParts DEF MarkConsumed, At, LocalsOK
<1>2. CASE tokens[t].consumed
    BY <1>1, <1>2, Untouched, FinishStep DEF MarkConsumed
<1>3. CASE ~tokens[t].consumed
    <2>1. /\ tokens' = [tokens EXCEPT ![t].consumed = TRUE] /\ SetPc(r, next)
          /\ UNCHANGED <<users, profiles, deletionLogs>>
        BY <1>3 DEF MarkConsumed, Spent
    <2>2. /\ DOMAIN tokens' = DOMAIN tokens
          /\ \A s \in DOMAIN tokens : s # t => tokens'[s] = tokens[s]
          /\ tokens'[t] \in Token /\ tokens'[t].kind = tokens[t].kind
          /\ tokens'[t].user = tokens[t].user /\ tokens'[t].consumed
        BY <1>1, <2>1 DEF TablesOK, TablesTyped, Token
    <2>3. TablesOK' /\ RowStep
        BY <1>1, <2>1, <2>2, TokensGrow DEF TablesOK, TablesTyped
    <2>4. next \in PCs /\ next \in {"markVerified", "setPassword"}
        BY DEF PCs
    <2> HIDE DEF next
    <2>5. LocalsOK(r)'
        <3>1. reqs'[r].pc = "setPassword" => reqs[r].op \in {"reset", "setup"}
            BY <1>1, <2>1, <2>4, SetPcFields DEF next
        <3>2. reqs'[r].pc = "markVerified" => reqs[r].op \in {"verify", "setup"}
            BY <1>1, <2>1, <2>4, SetPcFields DEF next
        <3> QED
            BY <1>1, <2>1, <2>2, <2>4, <3>1, <3>2, SetPcFields DEF LocalsOK, Acting, Logged
    <2> QED
        BY <1>3, <2>1, <2>3, <2>4, <2>5, SetPcStep
<1> QED
    BY <1>2, <1>3

LEMMA SetPasswordStep ==
    ASSUME IInv, NEW r \in Requests, SetPassword(r)
    PROVE  IInv'
<1> DEFINE u == reqs[r].user
           row == [users[u] EXCEPT !.password = TRUE]
<1>1. /\ TablesOK /\ LocalsOK(r) /\ reqs[r].pc = "setPassword" /\ u \in DOMAIN users
      /\ users[u] \in User /\ reqs[r].op \in {"reset", "setup"}
      /\ reqs[r].token \in DOMAIN tokens /\ tokens[reqs[r].token].user = u
      /\ tokens[reqs[r].token].consumed /\ tokens[reqs[r].token].kind = KindOf(reqs[r].op)
      /\ u # None
    BY IInvParts DEF TablesOK, TablesTyped, SetPassword, At, LocalsOK, Acting
<1>2. SpentToken(u, {"reset", "setup"})
    BY <1>1 DEF SpentToken, KindOf
<1>3. /\ row \in User /\ row.email = users[u].email /\ row.madeFor = users[u].madeFor
      /\ row.role = users[u].role /\ row.status = users[u].status
      /\ row.emailVerified = users[u].emailVerified
    BY <1>1 DEF User
<1>4. users' = [users EXCEPT ![u] = row] /\ UNCHANGED <<profiles, tokens, deletionLogs>>
    BY DEF SetPassword
<1>5. TablesOK' /\ RowStep
    <2> HIDE DEF row
    <2>1. row.status = "deleted" => Logged(u)
        BY <1>1, <1>3 DEF TablesOK, ErasureIsLogged
    <2>2. u # Parent /\ row.emailVerified /\ row.madeFor = None =>
            SpentToken(u, {"verification", "setup"})
        BY <1>1, <1>3 DEF TablesOK, CredentialsAreEarned
    <2>3. profiles' \in [Profiles -> Nullable(UserIds)]
        BY <1>1, <1>4 DEF TablesOK, TablesTyped
    <2> QED
        BY <1>1, <1>2, <1>3, <1>4, <2>1, <2>2, <2>3, EditUser
<1>6. CASE Finish(r)
    BY <1>5, <1>6, FinishStep
<1>7. CASE SetPc(r, "markVerified") /\ reqs[r].op = "setup"
    <2>1. DOMAIN users' = DOMAIN users
        BY <1>4
    <2>2. LocalsOK(r)'
        BY <1>1, <1>4, <1>7, <2>1, SetPcFields DEF LocalsOK, Acting, PCs, Logged
    <2> QED
        BY <1>1, <1>5, <1>7, <2>2, SetPcStep DEF Acting, PCs
<1> QED
    BY <1>6, <1>7 DEF SetPassword

LEMMA MarkEmailVerifiedStep ==
    ASSUME IInv, NEW r \in Requests, MarkEmailVerified(r)
    PROVE  IInv'
<1> DEFINE u == reqs[r].user
           row == [users[u] EXCEPT !.emailVerified = TRUE]
<1>1. /\ TablesOK /\ u \in DOMAIN users
      /\ users[u] \in User /\ reqs[r].op \in {"verify", "setup"}
      /\ reqs[r].token \in DOMAIN tokens /\ tokens[reqs[r].token].user = u
      /\ tokens[reqs[r].token].consumed /\ tokens[reqs[r].token].kind = KindOf(reqs[r].op)
    BY IInvParts DEF TablesOK, TablesTyped, MarkEmailVerified, At, LocalsOK, Acting
<1>2. SpentToken(u, {"verification", "setup"})
    BY <1>1 DEF SpentToken, KindOf
<1>3. /\ row \in User /\ row.email = users[u].email /\ row.madeFor = users[u].madeFor
      /\ row.role = users[u].role /\ row.status = users[u].status
      /\ row.password = users[u].password
    BY <1>1 DEF User
<1>4. users' = [users EXCEPT ![u] = row] /\ UNCHANGED <<profiles, tokens, deletionLogs>>
    BY DEF MarkEmailVerified
<1>5. TablesOK' /\ RowStep
    <2> HIDE DEF row
    <2>1. row.status = "deleted" => Logged(u)
        BY <1>1, <1>3 DEF TablesOK, ErasureIsLogged
    <2>2. u # Parent /\ row.role = "trainer" /\ row.password => SpentToken(u, {"reset", "setup"})
        BY <1>1, <1>3 DEF TablesOK, CredentialsAreEarned
    <2>3. profiles' \in [Profiles -> Nullable(UserIds)]
        BY <1>1, <1>4 DEF TablesOK, TablesTyped
    <2> QED
        BY <1>1, <1>2, <1>3, <1>4, <2>1, <2>2, <2>3, EditUser
<1> QED
    BY <1>5, FinishStep DEF MarkEmailVerified

(* setStatus, from an administrator or from revokeLogin, which also cuts   *)
(* the link.                                                               *)
LEMMA StatusEdit ==
    ASSUME TablesOK, NEW u \in DOMAIN users, NEW st \in {"active", "inactive"},
           users' = [users EXCEPT ![u].status = st],
           profiles' \in [Profiles -> Nullable(UserIds)],
           \A p \in Profiles : profiles'[p] \in {profiles[p], None},
           UNCHANGED <<tokens, deletionLogs>>
    PROVE  TablesOK' /\ RowStep
<1> DEFINE row == [users[u] EXCEPT !.status = st]
<1>1. users[u] \in User
    BY DEF TablesOK, TablesTyped
<1>2. /\ row \in User /\ row.email = users[u].email /\ row.madeFor = users[u].madeFor
      /\ row.role = users[u].role /\ row.status = st
      /\ row.password = users[u].password /\ row.emailVerified = users[u].emailVerified
    BY <1>1 DEF User, UserStatus
<1>3. users' = [users EXCEPT ![u] = row]
    OBVIOUS
<1> HIDE DEF row
<1>4. /\ u # Parent /\ row.emailVerified /\ row.madeFor = None =>
           SpentToken(u, {"verification", "setup"})
      /\ u # Parent /\ row.role = "trainer" /\ row.password => SpentToken(u, {"reset", "setup"})
    BY <1>2 DEF TablesOK, CredentialsAreEarned
<1> QED
    BY <1>2, <1>3, <1>4, EditUser

LEMMA SetStatusStep ==
    ASSUME IInv, NEW r \in Requests, SetStatus(r)
    PROVE  IInv'
<1>1. TablesOK /\ reqs[r].user \in DOMAIN users /\ TargetStatus(reqs[r].op) \in {"active", "inactive"}
    BY IInvParts DEF SetStatus, At, LocalsOK, TargetStatus
<1>2. profiles' \in [Profiles -> Nullable(UserIds)] /\ UNCHANGED <<profiles, tokens, deletionLogs>>
    BY <1>1 DEF SetStatus, TablesOK, TablesTyped
<1>3. TablesOK' /\ RowStep
    BY <1>1, <1>2, StatusEdit DEF SetStatus
<1> QED
    BY <1>3, FinishStep DEF SetStatus

LEMMA RevokeLoginStep ==
    ASSUME IInv, NEW r \in Requests, RevokeLogin(r)
    PROVE  IInv'
<1>1. TablesOK /\ reqs[r].user \in DOMAIN users
    BY IInvParts DEF RevokeLogin, At, LocalsOK
<1>2. /\ profiles' \in [Profiles -> Nullable(UserIds)]
      /\ \A p \in Profiles : profiles'[p] \in {profiles[p], None}
    BY <1>1 DEF RevokeLogin, TablesOK, TablesTyped, Nullable
<1>3. TablesOK' /\ RowStep
    BY <1>1, <1>2, StatusEdit DEF RevokeLogin
<1> QED
    BY <1>3, FinishStep DEF RevokeLogin

LEMMA CreateUserStep ==
    ASSUME IInv, NEW r \in Requests, CreateUser(r)
    PROVE  IInv'
<1> DEFINE e == reqs[r].email
           p == reqs[r].profile
<1>1. /\ TablesOK /\ e \in Emails /\ reqs[r] \in Request
      /\ reqs[r].op = "createLogin" => p \in Profiles
      /\ reqs[r].op # "createLogin" => p = None
      /\ Finish(r) /\ UNCHANGED deletionLogs
    BY IInvParts DEF CreateUser, At, LocalsOK
<1>2. CASE UNCHANGED <<users, profiles, tokens>>
    BY <1>1, <1>2, Untouched, FinishStep
<1>3. ASSUME ~Taken(e), InsertUser(r)
      PROVE  IInv'
    <2>1. PICK u \in UserIds \ DOMAIN users :
            /\ users' = Insert(users, u, NewUser(r))
            /\ IF reqs[r].op = "createLogin"
               THEN profiles' = [profiles EXCEPT ![p] = u] /\ UNCHANGED tokens
               ELSE /\ \E t \in TokenIds \ DOMAIN tokens, kind \in Kinds :
                         tokens' = Insert(tokens, t, NewToken(kind, u))
                    /\ UNCHANGED profiles
        BY <1>3 DEF InsertUser, Kinds
    <2>2. /\ DOMAIN users' = DOMAIN users \cup {u} /\ users'[u] = NewUser(r)
          /\ \A v \in DOMAIN users : users'[v] = users[v]
        BY <2>1 DEF Insert
    <2>3. /\ users'[u].status = "active" /\ users'[u].email = e /\ users'[u].madeFor = p
          /\ users'[u].emailVerified = (reqs[r].op = "createLogin")
          /\ users'[u].password = (reqs[r].op # "createTrainer")
          /\ users'[u].role = (IF reqs[r].op = "createTrainer" THEN "trainer" ELSE "player")
        BY <2>2 DEF NewUser
    <2>4. users'[u] \in User
        <3>1. e \in Nullable(Emails) /\ p \in Nullable(Profiles)
            BY <1>1 DEF Nullable
        <3> QED
            BY <2>2, <3>1 DEF NewUser, User, UserStatus
    <2> DEFINE Grown ==
          /\ DOMAIN tokens' \subseteq TokenIds /\ DOMAIN tokens \subseteq DOMAIN tokens'
          /\ \A t \in DOMAIN tokens : tokens'[t] = tokens[t]
          /\ \A t \in DOMAIN tokens' \ DOMAIN tokens : tokens'[t] \in Token /\ tokens'[t].user = u
    <2>5. Grown
        <3>1. CASE UNCHANGED tokens
            BY <1>1, <3>1 DEF TablesOK, TablesTyped
        <3>2. ASSUME NEW t \in TokenIds \ DOMAIN tokens, NEW kind \in Kinds,
                     tokens' = Insert(tokens, t, NewToken(kind, u))
              PROVE  Grown
            <4>1. NewToken(kind, u) \in Token /\ NewToken(kind, u).user = u
                BY <2>1 DEF NewToken, Token
            <4>2. /\ DOMAIN tokens' = DOMAIN tokens \cup {t} /\ tokens'[t] = NewToken(kind, u)
                  /\ \A s \in DOMAIN tokens : tokens'[s] = tokens[s]
                BY <3>2 DEF Insert
            <4> QED
                BY <4>1, <4>2, <1>1 DEF TablesOK, TablesTyped
        <3> QED
            BY <2>1, <3>1, <3>2
    <2>6. /\ profiles' \in [Profiles -> Nullable(UserIds)]
          /\ \A k \in Profiles : \/ profiles'[k] = profiles[k]
                                 \/ k = p /\ profiles'[k] = u
        BY <1>1, <2>1 DEF TablesOK, TablesTyped, Nullable
    <2>7. TablesTyped'
        BY <1>1, <2>1, <2>2, <2>4, <2>5, <2>6 DEF TablesOK, TablesTyped
    <2>8. OneAccountPerEmail'
        BY <1>1, <1>3, <2>2, <2>3 DEF TablesOK, OneAccountPerEmail, Taken
    <2>9. CredentialsAreEarned'
        <3>1. \A v, K : SpentToken(v, K) => SpentToken(v, K)'
            BY <2>5 DEF SpentToken
        <3>2. ~(users'[u].emailVerified /\ users'[u].madeFor = None)
            BY <1>1, <2>3, NoneAssumption
        <3>3. ~(users'[u].role = "trainer" /\ users'[u].password)
            BY <2>3
        <3> QED
            BY <1>1, <2>2, <3>1, <3>2, <3>3 DEF TablesOK, CredentialsAreEarned
    <2>10. ErasureIsLogged'
        <3>1. deletionLogs[u] = {} /\ users'[u].email # None /\ users'[u].status # "deleted"
            BY <1>1, <2>1, <2>3, NoneAssumption DEF TablesOK, TablesTyped
        <3> QED
            BY <1>1, <2>2, <3>1 DEF TablesOK, ErasureIsLogged, Logged
    <2>11. LinksOK'
        BY <1>1, <2>1, <2>2, <2>3, <2>6 DEF TablesOK, TablesTyped, LinksOK
    <2>12. RowStep
        BY <1>1, <2>2, <2>5 DEF RowStep, Logged
    <2> QED
        BY <1>1, <2>7, <2>8, <2>9, <2>10, <2>11, <2>12, FinishStep DEF TablesOK
<1> QED
    BY <1>2, <1>3, <1>1 DEF CreateUser

(* The transaction logs nobody twice, so each log it writes still has the  *)
(* address.                                                                *)
LEMMA EraseStep ==
    ASSUME IInv, NEW r \in Requests, Erase(r)
    PROVE  IInv'
<1> DEFINE E == reqs[r].erase
           targets == {x.user : x \in E}
<1>1. /\ TablesOK /\ E \subseteq Target /\ reqs[r].user \in UserIds
      /\ \A x, y \in E : x.user = y.user => x = y
      /\ \A x \in E : x.user \in DOMAIN users /\ (x.email = None => Logged(x.user))
    BY IInvParts DEF Erase, At, LocalsOK, Request, TablesOK, TablesTyped
<1>2. CASE UNCHANGED <<users, deletionLogs>>
    BY <1>1, <1>2, Untouched, FinishStep DEF Erase
<1>3. ASSUME \A x \in E : ~Logged(x.user), deletionLogs' = WithLogs(r), Anonymize(targets)
      PROVE  IInv'
    <2>1. DOMAIN users' = DOMAIN users /\ UNCHANGED <<profiles, tokens>> /\ Finish(r)
        BY <1>3 DEF Anonymize, Erase
    <2> DEFINE Kept(u) ==
            /\ users'[u] \in User /\ users'[u].madeFor = users[u].madeFor
            /\ users'[u].role = users[u].role /\ users'[u].emailVerified = users[u].emailVerified
            /\ users'[u].password => users[u].password
            /\ users'[u].email \in {users[u].email, None}
            /\ u \notin targets => users'[u] = users[u]
    <2>2. \A u \in DOMAIN users : Kept(u)
        <3>1. ASSUME NEW u \in DOMAIN users, u \in targets
              PROVE  Kept(u)
            <4>1. users'[u] = Erased(users[u]) /\ users[u] \in User
                BY <1>1, <1>3, <3>1 DEF Anonymize, TablesOK, TablesTyped
            <4> QED
                BY <4>1, <3>1 DEF Erased, User, UserStatus, Nullable
        <3>2. ASSUME NEW u \in DOMAIN users, u \notin targets
              PROVE  Kept(u)
            <4>1. users'[u] = users[u] /\ users[u] \in User
                BY <1>1, <1>3, <3>2 DEF Anonymize, TablesOK, TablesTyped
            <4> QED
                BY <4>1
        <3> QED
            BY <3>1, <3>2
    <2>3. \A x \in E : LogErasure(r, x) \in DeletionLog /\ LogErasure(r, x).originalEmail \in Emails
        BY <1>1, <1>3 DEF LogErasure, DeletionLog, Target, Nullable
    <2>4. \A u \in UserIds :
            deletionLogs'[u] = deletionLogs[u] \cup {LogErasure(r, x) : x \in {y \in E : y.user = u}}
        BY <1>3 DEF WithLogs
    <2>5. \A u \in UserIds \ targets : deletionLogs'[u] = deletionLogs[u]
        BY <2>4
    <2>6. \A x \in E : deletionLogs'[x.user] = {LogErasure(r, x)}
        <3> SUFFICES ASSUME NEW x \in E
                     PROVE  deletionLogs'[x.user] = {LogErasure(r, x)}
            OBVIOUS
        <3>1. x.user \in UserIds /\ deletionLogs[x.user] = {}
            BY <1>1, <1>3 DEF TablesOK, TablesTyped, Logged
        <3>2. {y \in E : y.user = x.user} = {x}
            BY <1>1
        <3> QED
            BY <2>4, <3>1, <3>2
    <2>7. TablesTyped'
        <3>1. \A u \in UserIds : deletionLogs'[u] \in SUBSET DeletionLog
            BY <1>1, <2>3, <2>5, <2>6 DEF TablesOK, TablesTyped
        <3>2. deletionLogs' \in [UserIds -> SUBSET DeletionLog]
            BY <1>3, <3>1 DEF WithLogs
        <3>3. \A u \in UserIds \ DOMAIN users : deletionLogs'[u] = {}
            BY <1>1, <2>5 DEF TablesOK, TablesTyped
        <3> QED
            BY <1>1, <2>1, <2>2, <3>2, <3>3 DEF TablesOK, TablesTyped
    <2>8. OneAccountPerEmail'
        BY <1>1, <2>1, <2>2 DEF TablesOK, OneAccountPerEmail
    <2>9. CredentialsAreEarned'
        <3>1. \A u, K : SpentToken(u, K)' <=> SpentToken(u, K)
            BY <2>1 DEF SpentToken
        <3> QED
            BY <1>1, <2>1, <2>2, <3>1 DEF TablesOK, CredentialsAreEarned
    <2>10. ErasureIsLogged'
        <3>1. \A u \in targets : /\ deletionLogs'[u] # {}
                                 /\ \A l \in deletionLogs'[u] : l.originalEmail \in Emails
                                 /\ \A l, m \in deletionLogs'[u] : l = m
            BY <2>3, <2>6
        <3>2. \A u \in DOMAIN users \ targets : users'[u] = users[u] /\ deletionLogs'[u] = deletionLogs[u]
            BY <1>1, <2>2, <2>5 DEF TablesOK, TablesTyped
        <3> QED
            BY <1>1, <2>1, <3>1, <3>2 DEF TablesOK, ErasureIsLogged, Logged
    <2>11. LinksOK'
        BY <1>1, <2>1, <2>2 DEF TablesOK, TablesTyped, LinksOK
    <2>12. RowStep
        BY <2>1, <2>5, <2>6 DEF RowStep, Logged
    <2> QED
        BY <2>1, <2>7, <2>8, <2>9, <2>10, <2>11, <2>12, FinishStep DEF TablesOK
<1> QED
    BY <1>2, <1>3 DEF Erase

----------------------------------------------------------------------------
LEMMA UnchangedStep ==
    ASSUME IInv, UNCHANGED vars
    PROVE  IInv'
<1>1. TablesOK' /\ UNCHANGED <<users, profiles, tokens, deletionLogs, reqs>>
    BY IInvParts, Untouched DEF vars
<1>2. \A r \in Requests : LocalsOK(r)' <=> LocalsOK(r)
    BY <1>1 DEF LocalsOK, Acting, Logged
<1> QED
    BY <1>1, <1>2, IInvParts
       DEF IInv, TypeOK, TablesOK, TablesTyped, TokenSpentOnce, Acting

LEMMA NextStep ==
    ASSUME IInv, [Next]_vars
    PROVE  IInv'
<1>1. ASSUME NEW r \in Requests, StartRequest(r)
      PROVE  IInv'
    BY <1>1, StartSignupStep, StartCreateLoginStep, StartRevokeLoginStep, StartIssueStep,
       StartRedeemStep, StartDeleteStep, StartStatusStep DEF StartRequest
<1>2. ASSUME NEW r \in Requests, Continue(r)
      PROVE  IInv'
    BY <1>2, FindEmailStep, CreateUserStep, IssueStep, ReadUserStep, MarkConsumedStep,
       SetPasswordStep, MarkEmailVerifiedStep, FindChildrenStep, FindChildUsersStep,
       EraseStep, SetStatusStep, RevokeLoginStep DEF Continue
<1> QED
    BY <1>1, <1>2, UnchangedStep DEF Next

(* The inductive invariant: the properties below, the links of the child   *)
(* profiles, and what each handler may assume of its locals at its awaits. *)
THEOREM Invariance == Spec => []IInv
<1>1. Init => IInv
    BY InitInvariant
<1>2. IInv /\ [Next]_vars => IInv'
    BY NextStep
<1> QED
    BY <1>1, <1>2, PTL DEF Spec

(* Every row and every in-flight request keeps its shape.                  *)
THEOREM TypeCorrect == Spec => []TypeOK
<1>1. IInv => TypeOK
    BY DEF IInv
<1> QED
    BY <1>1, Invariance, PTL

(* However registrations, trainer creations and child logins overlap, no   *)
(* two accounts share an address.                                          *)
THEOREM AddressesAreUnique == Spec => []OneAccountPerEmail
<1>1. IInv => OneAccountPerEmail
    BY DEF IInv
<1> QED
    BY <1>1, Invariance, PTL

(* However many redemptions of one link are in flight, one at most acts.   *)
THEOREM TokensAreSpentOnce == Spec => []TokenSpentOnce
<1>1. IInv => TokenSpentOnce
    BY DEF IInv
<1> QED
    BY <1>1, Invariance, PTL

(* A verified address and a trainer's password come from a spent link, the *)
(* deaths of requests between two awaits included.                         *)
THEOREM CredentialsEarned == Spec => []CredentialsAreEarned
<1>1. IInv => CredentialsAreEarned
    BY DEF IInv
<1> QED
    BY <1>1, Invariance, PTL

(* Every erased account has one log, and it names the address it had.      *)
THEOREM ErasuresAreLogged == Spec => []ErasureIsLogged
<1>1. IInv => ErasureIsLogged
    BY DEF IInv
<1> QED
    BY <1>1, Invariance, PTL
=============================================================================
