# Verification of the AXEL API

TLA+ models, TLC configurations and TLAPS proofs for the NestJS backend in `src/src`
(paths below are relative to it). The backend is a set of stateless HTTP handlers over
one Postgres database. All its state is in tables; everything hard about it comes from
handlers that take several database round trips, that other handlers (and other
instances of the same process) interleave with, and that may die half way.

## 1. Inventory

| component | state | operations | hard because | correct when |
|---|---|---|---|---|
| auth: sessions and tokens (`modules/auth/auth.service.ts`, `token.service.ts`, `session-validator.service.ts`) | `auth_session`, `refresh_tokens`, `users.token_version` | login, refresh (rotation, reuse detection, idle and hard expiry), logout, changePassword, resetPassword, revokeAllUserSessions, validate | no transaction anywhere; an entity is read, kept over several awaits and saved back | a session has one usable token, reuse ends it, a new password ends older access, an impersonation ends within its hour |
| impersonation (`modules/impersonation`) | `impersonation_logs`, supervised sessions | start, exit, history, closeForSession, closeForTargetUser, reconcileOpenLogs | the session, its tokens and its audit row are three writes; expiry is lazy | no credential without its audit row |
| users, admin status (`modules/users`, `modules/admin`) | `users` | create, setStatus, deactivate, reactivate, password writes | status is checked on one read and written by a later update | one account per address; erasure is final |
| registration, single-use tokens | `email_verification_token`, `password_reset_token`, setup tokens | register, verifyEmail, resendVerification, forgotPassword, resetPassword, setupPassword | a token is spent before the effect it authorises | a token is acted on once |
| user erasure (`admin/user-erasure.service.ts`) | every table with personal data, files at the storage provider | deleteUser | reads outside its transaction; must be permanent | logged once; nothing personal left |
| child accounts (`family/child-account.service.ts`) | `player_profiles.child_user_id` | createLogin, revokeLogin | check-then-act on the profile, unconditional status write | one login per child |
| player context (`auth/context.service.ts`) | `auth_session.active_*` | switch, clear, clearForAssociation | a context can outlive the association behind it | a session looks within its family |
| share links, joins (`modules/enrollment`) | `share_links`, `trainer_player_associations` | createForTrainer, deactivate, registerViaShareLink, joinAsExistingPlayer | concurrent redemptions, serialised by a row lock only | a family comes by a code; one self profile |
| associations, roster | `trainer_player_associations` | associate, setStatus, setSkillLevel, remove | unique pair under concurrent joins; an association outlives the account | as above; a trainer adds nothing to an erased player but the level |
| camp submissions (`enrollment/camp-submissions.service.ts`) | `camp_submissions` | submit, convert, sendShareLink, scrubByEmail | the form is saved from a copy read before a mail | a scrubbed form stays scrubbed |
| family | `player_profiles` | createChild, updateChild, addTrainerFromExisting, addTrainerByCode, removeTrainer | families and logins change between the reads | a sibling's trainer is not one's own |
| child records (`shared/validation/calendar-date.ts`, `shared/registration/age-gate.service.ts`, `family/child-similarity.ts`) | none | dates, ages, likeness, refusal of a duplicate | leap years, roll-over, two notions of an exact name | nobody between the age gates; an exact duplicate is reported |
| players and profiles (`modules/profile`, admin edits) | `users`, `player_profiles`, `trainer_profiles` | edits, pictures | some edits update columns, others save an entity | no photo points at a discarded file |
| storage (`modules/storage`) | files at a provider | upload, delete, replaceStoredAsset | cannot be rolled back with the row | as above |
| coach invitations and engagements (`modules/coaches`) | `share_links`, `coach_profiles` | invite, resend, revoke, accept, off-board, edit | one active trainer per coach; stale saves | one engagement per invitation and per coach |
| availability (`modules/availability`) | slots, overrides | setForProfile, setForCoach, trainerView, isCoachFreeFor, record | interval arithmetic on minutes; replacement under a lock | no overlapping windows of a kind |
| events, assignments (`modules/events`) | `events`, `event_coach_assignments` | create, assign, unassign, respond | events across midnight; overrides are written before the assignment, without a transaction | no conflict without an override |
| purchase approvals (`modules/approvals`) | `purchase_approvals` | request, approve, deny, lists (which expire) | lazy 48-hour expiry, stale saves | answered in time, settled for good |
| guards and abilities (`modules/ability`, `modules/org-membership`, `impersonation.service.ts`) | none | the rules of a role, guards, membership, who may impersonate whom | four roles, a child login, impersonated or not; denials after grants | a child, a tenant, a supervised session is confined |
| connection pool (`shared/database`) | pooled connections | a redemption's transaction and the query outside it | it holds one connection while it waits for another | every request is served |
| throttling, audit, mail, migrations, controllers | none that a handler decides by | | see section 7 | |

Components interact by direct calls (admin and coaches call
`AuthService.revokeAllUserSessions`, which calls `ImpersonationLogService`; removing a
trainer calls `ContextService`; erasure calls six services inside one transaction), by
foreign keys without locks, and through the database alone when two requests overlap.
The hazards this leads to, each with its line and the properties about it, are listed
in `PROJECT.json`.

## 2. Plan

Order, most important first; all of it is done. Every module was written to be proved
about: constants with named assumptions, one action per step, no recursive operators.

1. `AuthSessions`, `AuthSessionsProofs`: sessions, tokens, impersonation.
2. `Approvals`, `ApprovalsProofs`, implementing the abstract `PurchaseDecision`.
3. `Accounts`, `AccountsProofs`: accounts, single-use tokens, status, erasure's log.
4. `CoachHiring`, `CoachHiringProofs`: invitations, acceptance, engagements.
5. `Enrollment`, `EnrollmentProofs`: links, joins, associations, contexts, families.
6. `PersonalData`, `PersonalDataProofs`: edits, pictures, camp forms, erasure's scrub.
7. `WeeklyWindows`, `Schedule` (which extends it), `ScheduleProofs`: schedules, events,
   assignments.
8. `RedemptionPool`: the connection pool under redemptions.
9. `Permissions`, `ChildRecords`: the rules without state. The MC modules of 1 and 5
   instantiate them, so that TLC evaluates their claims. `SharedProofs` proves these for
   any values, and what is claimed of the pool of 8.

One table is cut by columns where components share it: `users` is in `AuthSessions`
(password, token version), `Accounts` (status, address, verification) and
`PersonalData` (name, photo), and erasure, one transaction over all of them, is one step
of `Accounts`, `CoachHiring` and `PersonalData` each. A composition of them all is beyond
TLC at any bounds that let two requests overlap; the columns of one module are decided by
none of another's except the status, which each carries.

## 3. The models and the code

### AuthSessions

A *request* is a process. Its record holds a program counter and exactly the values its
handler keeps in local variables over an await (`seen` is the session entity that
refresh loads at `auth.service.ts:408` and saves at line 491). Every await on the
database is one action; between two of them any other request may run and, with
`CanCrash`, the request may die: no handler in this module opens a transaction.

| variable | table |
|---|---|
| `users` | `users`: status, password (the number of the change that set it), `weak` (the stored hash predates the argon2 settings), `token_version` |
| `sessions` | `auth_session`, partial function from the ids inserted so far |
| `tokens` | `refresh_tokens`; the access token minted together is in the same record, `sent` says the response with both was written |
| `logs` | `impersonation_logs`, by session |
| `clock`, `reqs` | `ClockService.now()`, the requests in flight |

`repo.update(criteria, patch)` is evaluated on the current rows. `repo.save(entity)`
writes each column in which memory and row differ, so `SaveSession` puts the whole row
back to what `ReadSession` saw, apart from `lastUsedAt`. A token's family is its
session: `issueTokensForSession` starts one family per session and `refresh` keeps it.
Columns nothing decides by (ip, user agent, last login, duration) are left out.

Handlers as sequences of actions:

- login: `StartLogin`, `Rehash` if the hash is weak, `IssueSession`, `IssueToken`, `Respond`
- refresh: `StartRefresh`; reuse: `KillFamily`, `KillSession`, `FindLogs`, `CloseLog`,
  `LogsClosed`; otherwise `ReadSession` (`EndSession` when lapsed or idle), `ReadUser`,
  `SaveToken`, `RetireToken`, `SaveSession`, `Respond`
- logout: `StartLogout`, `LogoutSession`, then the log closers
- changePassword: `StartChangePassword`, `CheckPassword`, `SetPassword`,
  `RevokeAllSessions`, `RevokeAllTokens`, the log closers, `Reread`, `IssueSession`,
  `IssueToken`, `Respond`
- resetPassword once its token is spent: `StartReset`, `SetPassword`, `ResetSessions`
- deactivate, reactivate: `StartDeactivate` or `StartReactivate`, `SetStatus`, the sweep
- impersonation: `StartImpersonation`, `IssueSession`, `IssueToken`, `SaveLog`,
  `Respond`; `StartExit`, the closers, `ExitSession`, `ExitTokens`; `StartHistory`,
  `ReconcileOpenLogs`

### Approvals

One family: every query of `approvals.service.ts` is scoped to the parent, so two
families share no row. Requests are processes as in `AuthSessions`; the service opens no
transaction, and `save` writes the entity a handler holds over whatever the row became.

| variable | table |
|---|---|
| `approvals` | `purchase_approvals`, partial function from the ids inserted so far |
| `announced` | the audit row and the mail that follow a decision, as the set of decisions announced per id |
| `clock`, `reqs` | `ClockService.now()`, the requests in flight |

- request: `StartPurchase`, the expiry, `FindOpen`, `SaveApproval` (whose guard is the
  partial unique index `uq_purchase_approvals_open_request`)
- expireOverdue: `FindOverdue`, then per row `MarkExpired` and `Announce`, `AllExpired`
- listForParent, listForChild: `StartList`, the expiry, `ReadQueue`
- approve, deny: `StartRespond`, then `SaveAnswer` and `Announce`, or, when the request
  has lapsed, `MarkExpired` and `Announce`

A crashed request stays in its slot: a client that retries does so in another one. The
audit write and the mail are one step, since a failure of the mail is caught and nothing
reads either of them back. Amounts and notes are left out, and so are refusals that
happen before any row is read. `PurchaseDecision` is the promise without clock, requests
or rows: asked once, open until decided, final under a standing permission, announced
only once decided. `KeepsPromise` is the refinement, with `Decision(a)` as the mapping.

### Accounts

One household, the parent and its child profiles, among any number of other accounts.
Requests are processes again, but these handlers do open transactions: a transaction is
one step, at its commit, while what its handler read before it began is a local by then.

| variable | table |
|---|---|
| `users` | `users`: status, email (None once anonymised), whether there is a password, `email_verified`, role; `madeFor` is no column, it remembers the profile for which createLogin made the account |
| `profiles` | `player_profiles.child_user_id` of each child profile |
| `tokens` | the verification, reset and setup token tables |
| `deletionLogs` | `user_deletion_logs`, by user |
| `reqs` | the requests in flight |

- register, createTrainer: `StartSignup`, `CreateUser` (the account with its token)
- createLogin: `StartCreateLogin`, `FindEmail`, `CreateUser` (the account with its link)
- resendVerification, forgotPassword: `StartIssue`, `Issue`
- verifyEmail, resetPassword, setupPassword: `StartRedeem` (validate), `ReadUser` (not
  for a reset), `MarkConsumed`, then `SetPassword`, `MarkEmailVerified` or both
- deleteUser: `StartDelete`, `FindChildren`, `FindChildUsers`, `Erase`
- deactivateUser, reactivateUser: `StartStatus`, `SetStatus`; revokeLogin:
  `StartRevokeLogin`, `RevokeLogin`

`CreateUser` and `Erase` are guarded by the unique indexes of `users.email` and
`user_deletion_logs.user_id`, whose violation rolls the whole step back. A crash needs no
action, because a request may stop for good at any await and all properties here are
safety properties; for the same reason a token that has expired is one nobody redeems.
Calls refused before they write anything are left out, and sessions are `AuthSessions`'
subject, so the sweeps that follow a reset, a deactivation or a revocation are not here.

### CoachHiring

| variable | table |
|---|---|
| `accounts` | `users`: address (None once anonymised) and whether the role is coach |
| `links` | `share_links` of type `coach_unique`: trainer, address, active, lapsed, use count |
| `engagements` | `coach_profiles`: user, trainer, status, whether personal text is left; `via` is no column, it remembers the invitation |
| `reqs` | the requests in flight |

- invite: `Invite`; resendInvitation: `StartResend`, `Replace`; revokeInvitation:
  `StartRevoke`, `Revoke`. The last two check the use count of a row read before.
- accept: `LockForRedemption`, `FindAccount`, then `CheckActive` and `Hire` for an account
  there is, or `CreateCoach`. Its transaction takes several steps, for between its
  statements others write accounts and engagements; what it writes is visible at its
  commit only, and `Locked` keeps others from the link's row meanwhile
- offboardCoach: `StartOffboard`, `Offboard`; updateOwnProfile and
  adminUpdateProfile: `StartEdit` or `StartAdminEdit`, `ReadProfile`, `SaveProfile`
- deleteUser: `Erase`; another sign-up that takes an address: `Register`; the expiry of a
  link: `Lapse`; a crash or a deadlock's victim: `Fail`

`Hire` and `CreateCoach` are guarded by the partial unique index on active engagements
and the unique index on addresses.

### Enrollment

| variable | table |
|---|---|
| `profiles` | `player_profiles`: owner, whether it is a child's; `via` remembers the link whose redemption made it |
| `links` | `share_links`: trainer and type; a player link has no use limit and never expires |
| `assocs` | `trainer_player_associations`, by pair: active, the link on the row; `born` remembers the first |
| `contexts` | `auth_session.active_trainer_profile_id`, `active_player_profile_id` of one session per login |
| `reqs` | the requests in flight |

- createForTrainer: `CreateLink`; register: `Register`
- registerViaShareLink: `StartJoinRegister`, `LockForRedemption`, `FindEmail`,
  `CreateAccount`
- joinAsExistingPlayer, addTrainerByCode: `StartJoin` or `StartAddByCode`,
  `LockForRedemption`, `RequireSelfProfile`, one `Find` per profile, `Commit`;
  addTrainerFromExisting: `StartAddExisting`, `Find`, `Commit`
- createChild: `StartCreateChild`, `CreateChild`
- removeTrainer, the roster's remove: `StartRemove` or `StartRosterRemove`, `FindRemoval`,
  `Deactivate`, `ClearForAssociation`
- context: `StartSwitch`, `Switch`; `ClearContext`; refresh, which saves back the session
  it read: `StartRefresh`, `SaveSession`; a crash: `Fail`

### PersonalData

| variable | table |
|---|---|
| `accounts` | `users.status` |
| `rows` | `users`, `player_profiles`, `trainer_profiles`: whether there is personal text, the file the picture column names, whether a skill level is set; `late` is no column, it remembers a write for an account erased meanwhile, nor is a level's being set `again` after the erasure |
| `assets` | the files at the storage provider; `home` remembers the row one was uploaded for |
| `forms` | `camp_submissions`: whether the address, token and answers are the submitted ones; converted to whom |
| `reqs` | the requests in flight |

- edits: users and children are UPDATEd in place, self profiles and organisations are
  read and saved whole (`UpdatedInPlace`, `Entity`)
- setSkillLevel: `StartSetSkillLevel` (requireRosterMember, which asks for an active
  association only: `Roster`), `SetSkillLevel`; createLogin: `StartCreateLogin`,
  `CreateLogin`
- pictures (replaceStoredAsset): `Upload`, `Persist`, `DiscardAssets`; dying
  after the upload orphans the new file, a discard that fails leaks the old one
- camp forms: `Submit`; `StartConvert`, `RegisterFromForm`, `Convert`;
  `StartSendShareLink`, `SendShareLink`
- deleteUser: `StartErase`, `Erase` (the transaction), `DiscardAssets`

### WeeklyWindows and Schedule

`WeeklyWindows` holds the arithmetic of `availability.service.ts` and
`assignments.service.ts`: minutes, overlap, merging (a recursive function over the
sorted ranges), coverage, the free minute of a day, the pieces of an event. `MCSchedule`
compares each operator with its minute-by-minute definition over every schedule of up to
three windows of a day and every event of a day at most. `Schedule` extends it; times of
day are those the DTO admits, where an end may be 24:00 and a start may not.

| variable | table |
|---|---|
| `slots` | `availability_slots` of each player profile and coach |
| `events` | `events`: start and end |
| `assignments` | `event_coach_assignments`; `past` remembers the schedules the coach had while assign ran |
| `overrides` | `coach_availability_overrides` |
| `reqs` | the requests in flight |

- setForProfile, setForCoach: `SetForProfile` or `SetForCoach` (validation), `LockOwner`,
  `DeleteSlots`, `InsertSlots`: the transaction under the owner's row lock, step by step,
  so that dropping the lock is a mutant TLC can tell
- create: `Create`; assign: `Assign`, `CheckSegment` per piece, then per conflict
  `RecordNext` and `SaveOverride`, `SaveAssignment`; `Fail` between any two
- unassign: `Unassign`, `RemoveAssignment`; respond: `Respond`, `SaveResponse`
- record: `Record`, `SaveOverride`; trainerView: `TrainerView`, which changes nothing

### RedemptionPool

`pc` says where each request is; connections in use and locks held follow from it. A
redeemer takes a connection, the link's row lock, and then for findByEmail (accept,
registerViaShareLink) or findById (requireSelfProfile) a second connection, since these
queries are not given the transaction's manager. Each request is made once. `CanMove`
spells out what each request waits for; in a pool that is `Stuck` no request gets it.

### Permissions and ChildRecords

`Permissions` has the ability factory's rules by role, the guards, the tenancy the
session validator resolves, organisation membership, and the admission of an
impersonation, as operators over a principal: role, ids, own profile for a child login,
whether it is impersonated. Abilities are consulted by the impersonation route and its
service only, as the comment on the factory says; elsewhere guards and membership decide.

`ChildRecords` has parseCalendarDate (with `Date.UTC`'s reading of years below 100),
ageInYears, both age gates, and the similarity of names: words over letters, and whether
they are single-spaced, which is all that tells the report's exact match from the
refusal's. Its properties are operators over sets of dates or families: `MCEnrollment`
evaluates them on small sets, `SharedProofs` proves them for all.

## 4. Runs

| run | instance | shows |
|---|---|---|
| `sequential` | 1 user, 1 request slot, 2 sessions, 3 tokens, clock 0..2, every endpoint | with requests one at a time: at most one rotatable token per session, reuse ends the family, no credential outlives its password, closed logs mean ended sessions, ended sessions stay ended, an impersonation's access ends within the hour its audit row starts; and the rules of `Permissions` |
| `concurrent` | 2 request slots, crashes, login/refresh/logout/change/impersonate, clock 0 | in every interleaving: the inductive invariant, rotation stays in one session, audit row before credential, token revocation is permanent, a new password shuts out older access tokens |
| `stale_save` | as `concurrent`, no crash, login/refresh/change | violation: a swept session comes back |
| `approvals` | 1 child, 2 events, 2 rows, 2 request slots, crashes, clock 0..1 | in every interleaving: the 48-hour rule on both sides of the deadline, one open request per event, no list shows what had lapsed, the refinement of `PurchaseDecision`, and a reader eventually settles what had lapsed |
| `accounts` | parent and 2 more users, 2 addresses, 2 tokens, 1 child profile, 2 request slots, every endpoint but deactivate | in every interleaving: one account per address, a link is acted on once, credentials come from a spent link, each erasure has its one log with the address, and the inductive invariant |
| `coaches` | 2 trainers, 1 address, 3 invitations, 2 users, 2 engagements, 2 request slots | in every interleaving: one active engagement per coach, one acceptance per invitation, hires only of whom a live invitation names, and the inductive invariant |
| `enrollment` | 2 accounts, one from before self profiles, 1 trainer, 2 profiles, 1 link, 2 request slots | in every interleaving: families come by a code, one self profile per link and account, contexts stay in the family, and the inductive invariant; and the rules of `ChildRecords` |
| `pictures` | parent, child with a login or given one, trainer; 4 rows, 2 files, 2 request slots | in every interleaving: no photo's file is discarded while its row points at it, erasure reaches every row (part of the inductive invariant) |
| `camp_forms` | 1 camper with user row and self profile, its trainer, 2 files, 1 form, 2 request slots | personal data of an erased account comes only from a request that had begun before the erasure, or from an administrator, apart from a skill level the trainer sets |
| `scrub_undone` | as `camp_forms`, 1 file, no edits | violation: a scrubbed camp form is restored |
| `schedule` | 1 player, 1 coach, 1 event, 2 assignment ids, 2 override ids, 2 request slots, a week of 2 days of 2 hours of 2 minutes of 2 ticks | in every interleaving: windows of a kind never overlap, no conflict without override, an assignment is marked free or conflicting only as some schedule of its time was, minute by minute, filters follow the minutes, and the inductive invariant; the arithmetic against its definitions |
| `pool_exhausted` | 2 registering by one link, 1 joining by another, 1 reader, pool of 2 | violation: redemptions and pool wait for each other for ever |

Bounds of `AuthSessions`. Two sessions and three tokens are the fewest with which a
user has an old and a new session, a token has been rotated and its successor rotated, and a password change
issues a session beside the ones it sweeps. `MaxClock = 2` passes the cap, the idle
timeout (1 each; a mutant takes the cap's own instant for alive) and, with issue at 0, leaves a token (`RefreshTtl = 3`) that outlives
both. `MaxVersion = 1` allows one change, which separates credentials into before and
after. `SessionRoom`, `TokenRoom` and `VersionRoom` only keep an instance from running
out of keys in mid-request. Ids are symmetric. Deadlock checking is off because the
system may stop: clients owe no further call, and an instance ends when its keys and its
clock are used up.

Bounds of `Approvals`. Two events and two rows let one reader find two rows overdue, and
let it die or be overtaken between them; two slots are two answers, or an answer and an
expiry, or two requests for one event, at once. `MaxClock = Ttl = 1` puts the deadline on
a reachable instant, with an instant before it, and a row asked at 1 stands open beside
one that has lapsed. Deadlock checking is off for the same reason as above.

Bounds of `Accounts`. With two requests, two signups, two redemptions of one link, two
erasures that share a child login, or an erasure and a status change are at once under
way; two more users are a child login and a signup beside the parent, and two addresses
(one the parent's) leave one to be fought over and, once its account is erased, taken
again. Two tokens let a trainer or a signup have the link of its creation and one asked
for later. `deactivate` writes what `revokeLogin` writes, and the run leaves it out.
Deadlock checking is off for the same reason as above.

Bounds of `CoachHiring`. Two trainers with an invitation each for one address fight over
one coach; a third link is what a resend makes of one of them; two users are the account
the address had before an erasure and the one that takes it again; two engagements are
all that two acceptances make. A request that finds no free key leaves its write
out (commented `bound`). Deadlock checking is off in this run and in
the next, which end when their keys are used up, and in `pool_exhausted`, whose requests
are made once; the runs of `PersonalData` and `Schedule` check it.

Bounds of `Enrollment`. One account gets a self profile by registering or by a redemption,
the other had none when accounts were made without one: with two profiles they are two
families, or one with a child. One link and one trainer suffice for two redemptions that
race, an addition of a sibling's trainer, and a removal that races a switch or a refresh.

Bounds of `PersonalData`. Two files let one replace another while an erasure or a second
upload runs; four rows are one of each kind of a family with a child login and of an
organisation. Rows and associations exist from the start (an association that ends only
takes the trainer's access away), and a child's login has one address; an erased address is not registered
again and no new form is filled in for it; an administrator may edit an erased account,
as the code lets it (`late` rows). A child's login owns its users row only. Logos are not
claimed to stay stored: an organisation's row is saved from a stale entity.

Bounds of `Schedule`. The week is as small as lets an event cross midnight from within a
minute to within another and a day have a blackout inside a window; `MCInputs` holds
touching windows, a hole, a day blacked out whole, and one to refuse. Two requests are two saves for one coach, or a save while the coach is assigned
on it, or assign and unassign. Coaches stay active, overrides recorded directly name no
event and the two answers of a coach are not told apart.

Bounds of `RedemptionPool`. A pool of two is the smallest in which a redemption alone
succeeds; two redeemers of one link, then, use it up: one waits for the lock, the other
for the second connection. With one connection more than there are redemptions in flight
(four here) the pool never gets stuck, which is proved for any numbers. No
`connectionTimeoutMillis` is set, and PostgreSQL sees only one lock waited for, not the
wait for the pool, so neither breaks the circle.

Every property of a passing run has a mutant of a mapped definition that breaks it.

Fairness: the safety specifications have none. The liveness property of `Approvals`
assumes weak fairness of `Continue(r)` per request: Node
resumes a handler whose await has settled, and the database settles every await. Nothing
obliges a client to call, the clock to be read at a given instant, or a crash to happen;
`ReaderSettlesOverdue` therefore starts from a request that has begun and gives up when
that request dies. Interference cannot disable `Continue(r)`, so weak fairness is enough.
`RedemptionPool` assumes weak fairness of each request's steps: queries are answered, and
a connection or lock given back goes to some request that waits; each request waits for
each once, so none is passed over for ever.

## 5. What the violations show

`stale_save`: `SessionEndIsPermanent` holds for requests one at a time, which is proved,
and fails when a refresh overlaps a password change. `scrub_undone`: a camp form saved
from a copy read before the erasure is whole again, its token usable. `pool_exhausted`:
section 4. Each disagrees with a comment that `PROJECT.json` quotes.

Further disagreements between code and comments were met, some of them by runs not kept:

- A refresh of an impersonated session mints a refresh token without the session's cap
  (`token.service.ts:29`, against the first one's at `auth.service.ts:460`), and a closed
  log may report an instant past the hour (`auth.service.ts:374`, `:527`).
- The rehash at login writes the hash of a password that a reset replaced meanwhile
  (`auth.service.ts:210-212`). It takes two overlapping requests; a property of the rehash
  for one request at a time would hold by itself, so none is stated.
- A login that verified the old password may issue its session after a change or a reset
  has swept the others (`auth.service.ts:215`). Its access token is stale
  (`NewPasswordEndsAccess`), but its first refresh takes the present token version from
  the row (`auth.service.ts:442-456`), and the session works, although a change "has to
  drop every existing one" (`auth.service.ts:605`).
- A second answer replaces the first of an approval, after the child was told.
  `PurchaseDecision` says what is left: nothing opens again.
- An erased child login becomes inactive when its parent revokes it
  (`admin.service.ts:155,170`, `child-account.service.ts:129`), and two createLogin calls
  at once leave a usable login no profile names (`child-account.service.ts:43,60,93`).
- A coach's profile edit saves back an engagement that an off-boarding or an erasure ended
  meanwhile (`coach-profile.service.ts:260`): hence `NoEdits` in `ErasureLeavesRoster`.
- A trainer may assess a player whose account has been erased: associations stay active,
  and `requireRosterMember` asks for nothing else (`roster.service.ts:108-136`). The skill
  level is among the "PII an erasure has to clear off a trainee profile"
  (`players.service.ts:217-228`), and is there again. A run without `"again"` in `Row`
  refutes the clean statement in six steps; `ErasedIsBlank` says what is left: the erasure
  did clear the level, and it is all that a trainer brings back.
- A login given to a child while its parent is being erased goes on
  (`user-erasure.service.ts:79`, `child-account.service.ts:77-96`), and may edit the
  child's profile, which the erasure had cleared. `ErasedIsBlank` therefore takes such a
  profile for gone (`Gone`) once no login of the child's is active.
- `coach-invitation.service.ts:292` says accepting deactivates the link; the code counts
  a use, which closes it all the same.
- A switch that races the removal of its trainer leaves a context with no association
  (`context.service.ts:136`, `family.service.ts:427`). `ContextsWithinFamily` says what
  remains: the profile is of the family and was once with that trainer.
- `event-coach-assignment.entity.ts` calls `hadConflict` a copy of the override's, which
  recomputes it later and may differ; a late answer re-inserts an assignment that was
  removed (`assignments.service.ts:229`); a failed insert leaves overrides of no
  assignment.
- ADR-001 and the availability document still bound an end minute by 1439; the code
  takes 24:00.
- `child-similarity.ts:18` calls the exact match what the 409 keys on; that match
  collapses inner blanks, the refusal does not. The converse holds (`RefusalsAreForetold`).

## 6. Proofs

Each `...Proofs` module but `SharedProofs` has the same shape: an inductive invariant
`IInv` that adds to the tables' shape what every handler may assume about its locals at
each await, a lemma for each way a table is written, a lemma that such a change keeps
every *other* request's locals valid, and one lemma per action.

`AuthSessionsProofs` proves, for any users, any number of concurrent requests, any ids,
any TTLs and with crashes (assumptions: `NoneAssumption`, `BoundsAssumption`):
`Invariance` (`Spec => []IInv`), `TypeCorrect`, `RotationIsWellFormed`,
`ImpersonationIsLogged`, `RevocationIsPermanent`, `SupervisionNeverChanges`,
`NewPasswordShutsOut` and `ImpersonationEndsInTime`.

The argument. None of the safety properties is inductive alone: each speaks of rows,
while the next write is decided by what a handler remembers of rows it read earlier. So
`IInv` adds what every handler may assume about its locals at each await: `LocalsSet`
(they are assigned and of their type), `RotationLocals` (the token refresh presents and
the one it mints belong to the session it holds, and the entity it will save back is
that session, up to use and end) and `AnswerIsLogged` (a request about to answer for an
impersonated session has its audit row). The proof has a lemma for each way a table is
written (rows only gain revocations; a row is inserted; one row is closed), a lemma that
such a change leaves every *other* request's locals valid, and one lemma per action.
The action properties follow from `IInv` and the same table lemmas. `VersionsNeverAhead`,
the second half of `IInv`, is there for `NewPasswordShutsOut`: no stored token and no
version in a handler's memory is ahead of its user's `token_version`, so the step that
raises it leaves all of them behind, however many requests are about to mint tokens; and
a rehash under way holds the first password, whatever it has since become.

`ImpersonationEndsInTime` speaks of three rows and a clock: the session's hard expiry, the
start its audit row records, and a token that rotation renews at will. `CapInv` ties them
together through the awaits of `start` and of refresh: the session is inserted with a cap
of an hour after the instant that the audit row will record as the start, no stale save
moves it, and the validator refuses at the cap itself, where refresh would not.

The properties of the run `sequential` are those of handlers that do not overlap (section
5 has two that fail when they do), so their theorems have hypotheses, which are the run's:
`OneAtATime` (one request slot, reused any number of times) for `OneTokenPerSession`,
`ReuseLeavesNoToken` and `EndedSessionsStayEnded`, which hold whichever
step the process dies after; and besides no crash (`~CanCrash`) for
`CredentialsFollowPassword` and `ClosedLogsAreOver`, since a password change that dies
before its sweep, or an exit between log and session, leaves what they exclude. Users,
sessions, tokens and times are still any. `AloneInv` says what a lone handler knows: the
row it read is the row that is there, the tokens of its session but the one it works on
are spent or never reached a client, and ends of sessions have reasons (`EndsExplained`).
`SequentialInv` adds the two conditions that hold up to the sweep, or the exit, that is
under way.

`ApprovalsProofs` proves, for any children, events, ids, number of requests, `Ttl` and
clock, with crashes: `Invariance`, `TypeCorrect`, `AnswersAreInTime`,
`OpenRequestsAreUnique`, `ReadersSeeNoOverdue` and the refinement
`Implements` (`Spec => KeepsPromise`). `LocalsOK` says what a handler may assume of rows
it read earlier: they are still there, no standing permission had decided them, the
instant it took is past, an answer about to be saved is in time, and the rows a list has
not yet expired are among those it found. Every step is a `RowStep` (deadlines and
permissions never change, closed rows stay closed, a new row lapses later), which keeps
the locals of all other requests; `ReadersNeverSeeOverdue` and `KeepsPromise` follow.

`AccountsProofs` proves, for any users, addresses, tokens, child profiles and number of
requests (assumptions: `NoneAssumption`, `ParentAssumption`): `Invariance`,
`TypeCorrect`, `AddressesAreUnique`, `TokensAreSpentOnce`, `CredentialsEarned` and
`ErasuresAreLogged`. The unique indexes alone do not give the last three. Erasure logs
the address it read before its transaction, and another erasure may have anonymised the
account since; `LocalsOK` therefore says that whoever it will log has an address on
record or a log already, in which case the index stops it, and that no account is among
those to be erased twice. Likewise a request that is about to set a password holds a
spent token of that account and of the kind its endpoint redeems, and a request that
begins to act found its token unspent, so nobody else can be acting on it (`StepOf`).
`LinksOK` keeps a parent from being its own child. Every step is a `RowStep` (rows stay,
spent tokens stay spent, logged erasures stay logged), which keeps the locals of all
other requests.

`CoachHiringProofs` proves, for any trainers, addresses, ids and number of requests
(`NoneAssumption`, `EndpointsAssumption`): `Invariance`, `TypeCorrect`,
`OneTrainerPerCoach`, `InvitationsAreSpentOnce`, `HiresComeFromInvites` and, without
profile edits, `ErasureLeavesRoster`. The tables are written in four ways (a row is
inserted, a link closed or used, an engagement saved, an account erased). `RowStep` says
what they have in common, and that rows of a locked invitation change by its holder only:
what an acceptance checked at its lock is therefore still so at its commit. A stale save
may bring an engagement back, but the index on active ones guards it too, and a `seen`
entity keeps the user, trainer and invitation of its row.

`EnrollmentProofs` proves, for any accounts, trainers, ids and number of requests
(`NoneAssumption`, `AccountsAssumption`, `RowAssumption`, `EndpointsAssumption`):
`Invariance`, `FamiliesComeByCode`, `OneSelfProfilePerLink`, `ContextsStayInFamily`.
`Evolves` says how tables change (owners are fixed, rows stay, an association keeps the
link it was born with); facts a handler read that are `LastingFacts` survive it. A family
that adds a sibling's trainer holds, by such a fact, an older row of that trainer, so a
code was redeemed once; and a redemption that found no self profile holds the lock that
makes its finding last for redemptions of the same link (`Respects`).

`PersonalDataProofs` proves, for any rows, files, forms and requests (`NoneAssumption`,
`RowsAssumption`, `EndpointsAssumption`): `Invariance`, `PhotosStayStored`,
`ErasureReachesAll`. A file is known to one row only, its `home`; whoever will discard it
took it off that row or never put it there. A row is `Gone` when its owner is erased and no
login of its child's is active. Only an erasure makes it so, and sweeps it in the same
transaction; whoever is served for a row shows that it is not gone, so a request that
writes one that is gone began before, or is an administrator's, or sets a skill level.

`ScheduleProofs` proves, for any sizes of the week, owners, events and requests
(`WeekAssumption`, `ScheduleAssumption`): `Invariance`, `SlotsStayValid`,
`AssignmentsStayAuthorised`, `VerdictsFollowTheMinutes`, `FiltersShowFreePlayers`, and of
the arithmetic `OneOrTwoSegments`, `SegmentsTakeTheMinutes`, `CoverageFollowsTheMinutes`
and `FreeMinutesAreFound`. The lock's exclusivity makes what a transaction deletes all
there is. `Assigning` says of an assignment under way that every piece of its event is
seen free under some schedule of `past`, overridden, found in conflict and still to
record, or still to check. `VerdictsGrounded`, the second half of `IInv`, ties what
`CheckSegment` concluded to minutes: each piece it passed is free minute by minute under
a schedule of `past`, each conflict it noted has a minute that is not. That step rests on
the arithmetic. coversWindow sorts the available ranges, merges them and looks for one
that holds the window; the proof shows that a merged range has no hole, that merging loses
no minute, and that a run of minutes each in some range lies in one merged range.
hasFreeMinuteOnDay and weeklySegmentsOf are compared with the minutes likewise.

These are inductions over ranges and minutes. An induction theorem with an operator for
its parameter cannot be instantiated here; its place is taken by least elements: a set of
naturals that is not empty has a least one (`SmallestOf`, from the library's `WFMin`), so
the least index at which a claim fails is looked at. The recursive function of
`MergeRanges` is shown to exist in the same way (`JoinsExist`): the least length for which
there is no such function would be the successor of one for which there is.

`SharedProofs` proves what has no state or little. Of the rules of `Permissions`, for any
ids: `ImpersonationIsBelow`, `ChildIsConfined`, `TenantsAreConfined`,
`SiblingsAreIgnored`. Of `ChildRecords`, for any dates, names and families:

- `DatesRoundTrip`: what `Date.UTC` makes of a text comes back as that text exactly for
  days there are, from the year 100. Every instant is a day of one year and one month
  (least elements again), so a text that rolls over comes back as another day.
- `InstantsAreOrdered`, `AgesAreBirthdays`: instants are in the order of days, an age is
  the number of birthdays there have been.
- `GatesMeet`: with a minimum age of own accounts up to 19 (the default is 18; the
  environment admits up to 120, and from 20 on there are ages that fit neither gate),
  nobody with a first birthday falls between the gates.
- `LikenessIsSymmetric`, `RefusalsAreReported`, `ChildrenAreKeptApart`: the report of
  similar children and the refusal of duplicates, for one call at a time; two calls at
  once may both insert (`PROJECT.json`, hazards).

Of `RedemptionPool`, for any pool, requests and links: `OnlyRedemptionsStarve` (a stuck
pool is one all of whose connections redemptions hold, one of which waits for another
connection and the others for the lock of such a one) and `LargePoolsNeverStick`. They
rest on `PoolInv`: the pool is never overdrawn and a lock has one holder. These say that
some request can move; that each is served in the end is a liveness property.

Every invariant and action property of a passing run is stated by a theorem. Only
model-checked is the liveness property `ReaderSettlesOverdue` under its fairness, since
liveness and ENABLED are outside the prover's reach. For the same reason `CanMove` repeats
the guards of `RedemptionPool`'s steps instead of naming ENABLED.

## 7. Not modelled

Throttling is a library's counter. Audit rows are never read back to decide. Mail is I/O
behind an interface; where its failure decides what is written it is a step of its
handler. Migrations, seeds, DTOs and controllers carry no behaviour of their own: unique
indexes belong to the models of the tables they protect. Error rendering, listings and
the assembly of views change nothing. Password hashing and JWT signatures are taken as
perfect. Of the parts modelled partly: the last-login
stamp and the profile row that createTrainer adds are single writes that nothing
else decides by.
