--------------------------- MODULE EnrollmentProofs ---------------------------
(***************************************************************************)
(* Proofs about Enrollment, for any accounts, trainers, ids and number of  *)
(* requests in flight.                                                     *)
(*                                                                         *)
(* Every step Evolves the tables: profiles and links stay as they are,     *)
(* associations stay and keep the code they were made with.  What a        *)
(* request remembers is of a kind that outlasts such steps (LastingFacts), *)
(* except that no self profile came of the link it holds, which the row    *)
(* lock protects (Respects).                                               *)
(***************************************************************************)
EXTENDS Enrollment, TLAPS

RowsOK == \A k \in DOMAIN assocs : assocs[k] \in Association /\ RowOK(k[1], assocs[k])

FamiliesOK == \A k \in DOMAIN assocs : Founded(k[1], profiles[k[2]].owner)

TablesOK ==
    /\ DOMAIN profiles \subseteq ProfileIds
    /\ \A p \in DOMAIN profiles : profiles[p] \in PlayerProfile
    /\ DOMAIN links \subseteq LinkIds
    /\ \A l \in DOMAIN links : links[l] \in ShareLink
    /\ DOMAIN assocs \subseteq Trainers \X DOMAIN profiles
    /\ RowsOK
    /\ FamiliesOK
    /\ contexts \in [Viewers -> Nullable(Pairs)]
    /\ SelfProfilePerLink
    /\ ContextsWithinFamily

Evolves ==
    /\ \A p \in DOMAIN profiles : p \in DOMAIN profiles' /\ profiles'[p] = profiles[p]
    /\ \A l \in DOMAIN links : l \in DOMAIN links' /\ links'[l] = links[l]
    /\ \A k \in DOMAIN assocs : k \in DOMAIN assocs' /\ assocs'[k].born = assocs[k].born

(* The step makes no profile of the link that s holds.                     *)
Respects(s) ==
    Redeeming(s) =>
      \A p \in DOMAIN profiles' \ DOMAIN profiles : profiles'[p].via # reqs[s].link

RedeemPCs == {"selfProfile", "find", "commit", "findEmail", "createAccount"}

SeenRows == UNION {[S -> Nullable(Association)] : S \in SUBSET ProfileIds}

LEMMA PartsOfIInv ==
    IInv <=> /\ TablesOK
             /\ reqs \in [Requests -> Request]
             /\ LocksExclusive
             /\ \A r \in Requests : LocalsOK(r)
BY DEF IInv, TablesOK, TypeOK, RowsOK, FamiliesOK

LEMMA SeenRowsAre ==
    ASSUME NEW S \in SUBSET ProfileIds, NEW f \in [S -> Nullable(Association)]
    PROVE  f \in SeenRows
BY DEF SeenRows

LEMMA SeenRowsHave ==
    ASSUME NEW f \in SeenRows
    PROVE  DOMAIN f \subseteq ProfileIds /\ f \in [DOMAIN f -> Nullable(Association)]
BY DEF SeenRows

LEMMA NothingSeen == Nothing \in SeenRows /\ DOMAIN Nothing = {}
<1>1. Nothing \in [{} -> Nullable(Association)] /\ DOMAIN Nothing = {}
    BY DEF Nothing
<1> QED
    BY <1>1, SeenRowsAre

LEMMA IdleRequest ==
    /\ Idle \in Request
    /\ Idle.pc = "idle" /\ Idle.seen = Nothing /\ ~Idle.fresh /\ Idle.todo = {}
    /\ Idle.link = None /\ Idle.trainers = {}
BY NothingSeen DEF Idle, Request, PCs, Nullable, SeenRows

LEMMA InitInvariant == Init => IInv
<1> SUFFICES ASSUME Init PROVE IInv
    OBVIOUS
<1>1. /\ DOMAIN profiles = {} /\ DOMAIN links = {} /\ DOMAIN assocs = {}
      /\ \A v \in Viewers : contexts[v] = None
      /\ contexts \in [Viewers -> Nullable(Pairs)]
      /\ reqs \in [Requests -> Request]
      /\ \A r \in Requests : reqs[r] = Idle
    BY IdleRequest DEF Init, Nothing, Nullable
<1>2. \A r \in Requests : reqs[r].pc = "idle" /\ ~reqs[r].fresh
    BY <1>1, IdleRequest
<1>3. TablesOK
    BY <1>1 DEF TablesOK, SelfProfilePerLink, ContextsWithinFamily, RowsOK, FamiliesOK
<1>4. LocksExclusive /\ \A r \in Requests : LocalsOK(r)
    BY <1>2 DEF LocksExclusive, LocalsOK, Redeeming
<1> QED
    BY <1>1, <1>3, <1>4, PartsOfIInv

----------------------------------------------------------------------------
(* What outlasts a step. *)

LEMMA LastingFacts ==
    ASSUME TablesOK, Evolves
    PROVE  /\ \A t, l : PlayerLinkOf(t, l) => PlayerLinkOf(t, l)'
           /\ \A a : \A p \in Owned(a) : p \in Owned(a)'
           /\ \A t, a : Founded(t, a) => Founded(t, a)'
           /\ \A t, row : RowOK(t, row) => RowOK(t, row)'
           /\ \A t, seen : SeenOK(t, seen) => SeenOK(t, seen)'
           /\ \A v, pair : MayLookThrough(v, pair) => MayLookThrough(v, pair)'
<1>1. \A t, l : PlayerLinkOf(t, l) => PlayerLinkOf(t, l)'
    BY DEF Evolves, PlayerLinkOf
<1>2. \A a : \A p \in Owned(a) : p \in Owned(a)'
    BY DEF Evolves, Owned
<1>3. \A t, a : Founded(t, a) => Founded(t, a)'
    BY <1>2 DEF Evolves, Founded
<1>4. \A t, row : RowOK(t, row) => RowOK(t, row)'
    BY <1>1 DEF RowOK
<1>5. \A t, seen : SeenOK(t, seen) => SeenOK(t, seen)'
    BY <1>4 DEF Evolves, SeenOK
<1>6. \A v, pair : MayLookThrough(v, pair) => MayLookThrough(v, pair)'
    BY <1>2 DEF Evolves, MayLookThrough, Switchable
<1> QED
    BY <1>1, <1>2, <1>3, <1>4, <1>5, <1>6

LEMMA LocalsKept ==
    ASSUME TablesOK, Evolves, NEW s \in Requests, LocalsOK(s), Respects(s), reqs'[s] = reqs[s]
    PROVE  LocalsOK(s)'
<1> DEFINE q == reqs[s]
<1>1. /\ \A t, l : PlayerLinkOf(t, l) => PlayerLinkOf(t, l)'
      /\ \A a : \A p \in Owned(a) : p \in Owned(a)'
      /\ \A t, a : Founded(t, a) => Founded(t, a)'
      /\ \A t, seen : SeenOK(t, seen) => SeenOK(t, seen)'
      /\ \A v, pair : MayLookThrough(v, pair) => MayLookThrough(v, pair)'
    BY LastingFacts
<1>2. q.fresh => \A p \in SelfProfiles(q.viewer)' : profiles'[p].via # q.link
    <2>1. CASE q.fresh
        <3>1. Redeeming(s) /\ \A p \in SelfProfiles(q.viewer) : profiles[p].via # q.link
            BY <2>1 DEF LocalsOK, Redeeming
        <3> QED
            BY <3>1 DEF Respects, Evolves, SelfProfiles, Owned
    <2> QED
        BY <2>1
<1>3. Redeeming(s)' <=> Redeeming(s)
    BY DEF Redeeming
<1>4. q.pc \in {"find", "commit"} =>
        /\ q.todo \cup DOMAIN q.seen \subseteq Owned(q.viewer)'
        /\ q.link = None => Founded(q.trainer, q.viewer)'
        /\ SeenOK(q.trainer, q.seen)'
    BY <1>1 DEF LocalsOK
<1>5. q.pc = "createChild" => \A t \in q.trainers : Founded(t, q.viewer)'
    BY <1>1 DEF LocalsOK
<1>6. q.pc = "deactivate" => q.pair \in DOMAIN assocs' /\ SeenOK(q.pair[1], q.seen)'
    BY <1>1 DEF LocalsOK, Evolves
<1>7. /\ q.pc = "switch" => MayLookThrough(q.viewer, q.pair)'
      /\ q.pc = "saveSession" /\ q.context # None => MayLookThrough(q.viewer, q.context)'
    BY <1>1 DEF LocalsOK
<1>8. Redeeming(s) => PlayerLinkOf(q.trainer, q.link)'
    BY <1>1 DEF LocalsOK
<1> QED
    BY <1>2, <1>3, <1>4, <1>5, <1>6, <1>7, <1>8 DEF LocalsOK

(* A step of one request keeps the invariant when it keeps its own locals  *)
(* in order, respects the others' locks, and takes only a free one.        *)
LEMMA StepOf ==
    ASSUME IInv, NEW r \in Requests, TablesOK', Evolves,
           NEW q \in Request, reqs' = [reqs EXCEPT ![r] = q], LocalsOK(r)',
           \A s \in Requests \ {r} : Respects(s),
           \/ q.pc \notin RedeemPCs \/ q.link = None
           \/ q.link = reqs[r].link /\ Redeeming(r)
           \/ ~Locked(q.link)
    PROVE  IInv'
<1>1. /\ TablesOK /\ reqs \in [Requests -> Request] /\ LocksExclusive
      /\ \A s \in Requests : LocalsOK(s)
    BY PartsOfIInv
<1>2. /\ reqs' \in [Requests -> Request] /\ reqs'[r] = q
      /\ \A s \in Requests \ {r} : reqs'[s] = reqs[s]
    BY <1>1
<1>3. ASSUME NEW s \in Requests PROVE LocalsOK(s)'
    <2>1. CASE s = r
        BY <2>1
    <2>2. CASE s # r
        BY <2>2, <1>1, <1>2, LocalsKept
    <2> QED
        BY <2>1, <2>2
<1>4. LocksExclusive'
    BY <1>1, <1>2 DEF LocksExclusive, Locked, Redeeming, RedeemPCs
<1> QED
    BY <1>2, <1>3, <1>4 DEF IInv, TablesOK, TypeOK, RowsOK, FamiliesOK

(* A step that leaves the requests alone. *)
LEMMA StepOfNone ==
    ASSUME IInv, TablesOK', Evolves, UNCHANGED reqs, \A s \in Requests : Respects(s)
    PROVE  IInv'
<1>1. /\ TablesOK /\ reqs \in [Requests -> Request] /\ LocksExclusive
      /\ \A s \in Requests : LocalsOK(s)
    BY PartsOfIInv
<1>2. \A s \in Requests : LocalsOK(s)'
    BY <1>1, LocalsKept
<1>3. LocksExclusive'
    BY <1>1 DEF LocksExclusive, Redeeming
<1> QED
    BY <1>1, <1>2, <1>3 DEF IInv, TablesOK, TypeOK, RowsOK, FamiliesOK

LEMMA FinishStep ==
    ASSUME IInv, NEW r \in Requests, TablesOK', Evolves, Finish(r),
           \A s \in Requests \ {r} : Respects(s)
    PROVE  IInv'
<1>1. reqs' = [reqs EXCEPT ![r] = Idle] /\ reqs'[r] = Idle /\ Idle \in Request
    BY IdleRequest DEF Finish, IInv, TypeOK
<1>2. Idle.pc = "idle" /\ ~Idle.fresh
    BY IdleRequest
<1>3. LocalsOK(r)'
    BY <1>1, <1>2 DEF LocalsOK, Redeeming
<1> QED
    BY <1>1, <1>2, <1>3, StepOf DEF RedeemPCs

----------------------------------------------------------------------------
(* The ways the tables are written. *)

(* Steps that leave the rows alone. *)
LEMMA RowsKept ==
    ASSUME TablesOK, UNCHANGED <<profiles, links, assocs>>
    PROVE  /\ RowsOK' /\ FamiliesOK' /\ SelfProfilePerLink'
           /\ Evolves /\ \A s \in Requests : Respects(s)
<1>1. Evolves /\ \A s \in Requests : Respects(s)
    BY DEF Evolves, Respects
<1>2. RowsOK'
    BY DEF TablesOK, RowsOK, RowOK, PlayerLinkOf
<1>3. FamiliesOK'
    BY DEF TablesOK, FamiliesOK, Founded, Owned
<1>4. SelfProfilePerLink'
    BY DEF TablesOK, SelfProfilePerLink
<1> QED
    BY <1>1, <1>2, <1>3, <1>4

(* Steps that leave the tables alone. *)
LEMMA TablesKept ==
    ASSUME TablesOK, UNCHANGED <<profiles, links, assocs, contexts>>
    PROVE  TablesOK' /\ Evolves /\ \A s \in Requests : Respects(s)
<1>1. ContextsWithinFamily'
    BY DEF TablesOK, ContextsWithinFamily, Switchable, Owned
<1> QED
    BY <1>1, RowsKept DEF TablesOK

(* Rows are added or written over: each keeps only player links of its     *)
(* trainer, and a new one has a code or joins a family that had one.       *)
LEMMA TablesEvolve ==
    ASSUME TablesOK, Evolves, UNCHANGED contexts,
           DOMAIN profiles' \subseteq ProfileIds,
           \A p \in DOMAIN profiles' : profiles'[p] \in PlayerProfile,
           DOMAIN links' \subseteq LinkIds,
           \A l \in DOMAIN links' : links'[l] \in ShareLink,
           DOMAIN assocs' \subseteq Trainers \X DOMAIN profiles',
           RowsOK',
           \A k \in DOMAIN assocs' \ DOMAIN assocs :
             assocs'[k].born # None \/ Founded(k[1], profiles'[k[2]].owner),
           SelfProfilePerLink'
    PROVE  TablesOK'
<1>1. \A t, a : Founded(t, a) => Founded(t, a)'
    BY LastingFacts
<1>2. ASSUME NEW k \in DOMAIN assocs', NEW a, a = profiles'[k[2]].owner
      PROVE  Founded(k[1], a)'
    <2>1. k = <<k[1], k[2]>> /\ k[2] \in DOMAIN profiles'
        BY <1>2
    <2>2. CASE k \in DOMAIN assocs
        <3>1. Founded(k[1], profiles[k[2]].owner) /\ k[2] \in DOMAIN profiles
            BY <2>2 DEF TablesOK, FamiliesOK
        <3> QED
            BY <1>1, <1>2, <3>1 DEF Evolves
    <2>3. CASE assocs'[k].born # None
        BY <2>1, <2>3, <1>2 DEF Founded, Owned
    <2>4. CASE Founded(k[1], profiles'[k[2]].owner)
        BY <1>1, <1>2, <2>4
    <2> QED
        BY <2>2, <2>3, <2>4, <1>2
<1>3. FamiliesOK'
    <2> SUFFICES ASSUME NEW k \in DOMAIN assocs' PROVE (Founded(k[1], profiles[k[2]].owner))'
        BY DEF FamiliesOK
    <2>1. \A a : a = profiles'[k[2]].owner => Founded(k[1], a)'
        BY <1>2
    <2> QED
        BY <2>1 DEF Founded, Owned
<1>4. ContextsWithinFamily'
    <2>1. \A v, pair : MayLookThrough(v, pair) => MayLookThrough(v, pair)'
        BY LastingFacts
    <2> QED
        BY <2>1 DEF TablesOK, ContextsWithinFamily, MayLookThrough
<1>5. contexts' \in [Viewers -> Nullable(Pairs)]
    BY DEF TablesOK, Nullable, Pairs, Viewers
<1> QED
    BY <1>3, <1>4, <1>5 DEF TablesOK

(* Only contexts are written. *)
LEMMA ContextsWritten ==
    ASSUME TablesOK, UNCHANGED <<profiles, links, assocs>>,
           contexts' \in [Viewers -> Nullable(Pairs)],
           \A v \in Viewers : \/ contexts'[v] \in {contexts[v], None}
                              \/ MayLookThrough(v, contexts'[v])
    PROVE  TablesOK' /\ Evolves /\ \A s \in Requests : Respects(s)
<1>1. ContextsWithinFamily'
    <2>1. \A v, pair : MayLookThrough(v, pair) => MayLookThrough(v, pair)'
        BY RowsKept, LastingFacts
    <2>2. \A v \in Viewers : contexts'[v] # None => MayLookThrough(v, contexts'[v])
        BY DEF TablesOK, ContextsWithinFamily, MayLookThrough
    <2> QED
        BY <2>1, <2>2 DEF ContextsWithinFamily, MayLookThrough
<1>2. contexts' \in [Viewers -> Nullable(Pairs)]'
    BY DEF Nullable, Pairs, Viewers
<1> QED
    BY <1>1, <1>2, RowsKept DEF TablesOK

LEMMA NewAssociationRow ==
    ASSUME NEW l \in Nullable(LinkIds)
    PROVE  /\ NewAssociation(l) \in Association
           /\ NewAssociation(l).born = l /\ NewAssociation(l).link = l
BY DEF NewAssociation, Association, Nullable

(* The rows in place satisfy RowsOK after the step when each is as it was  *)
(* or is a good row.                                                       *)
LEMMA RowsWritten ==
    ASSUME TablesOK, Evolves,
           \A k \in DOMAIN assocs' :
             \/ k \in DOMAIN assocs /\ assocs'[k] = assocs[k]
             \/ assocs'[k] \in Association /\ RowOK(k[1], assocs'[k])
    PROVE  RowsOK'
<1>1. \A t, row : RowOK(t, row) => RowOK(t, row)'
    BY LastingFacts
<1> SUFFICES ASSUME NEW k \in DOMAIN assocs'
             PROVE  assocs'[k] \in Association /\ (RowOK(k[1], assocs[k]))'
    BY DEF RowsOK, Association, Nullable
<1>2. assocs'[k] \in Association /\ RowOK(k[1], assocs'[k])
    BY DEF TablesOK, RowsOK
<1>3. \A row : row = assocs'[k] => RowOK(k[1], row)'
    BY <1>1, <1>2
<1> QED
    BY <1>2, <1>3 DEF RowOK, PlayerLinkOf

(* A redemption makes a self profile: the only one of its account by this  *)
(* link.                                                                   *)
LEMMA NewProfileJoins ==
    ASSUME TablesOK, NEW a \in Accounts, NEW t \in Trainers, NEW l, PlayerLinkOf(t, l),
           \A p \in SelfProfiles(a) : profiles[p].via # l,
           JoinNewProfile(a, t, l), UNCHANGED <<links, contexts>>
    PROVE  /\ TablesOK' /\ Evolves
           /\ \A p \in DOMAIN profiles' \ DOMAIN profiles : profiles'[p].via = l
<1>1. PICK p \in ProfileIds \ DOMAIN profiles :
        /\ profiles' = Insert(profiles, p, [owner |-> a, child |-> FALSE, via |-> l])
        /\ assocs' = Insert(assocs, <<t, p>>, NewAssociation(l))
    BY DEF JoinNewProfile
<1>2. /\ DOMAIN profiles' = DOMAIN profiles \cup {p}
      /\ profiles'[p] = [owner |-> a, child |-> FALSE, via |-> l]
      /\ \A x \in DOMAIN profiles : profiles'[x] = profiles[x]
    BY <1>1 DEF Insert
<1>3. /\ DOMAIN assocs' = DOMAIN assocs \cup {<<t, p>>}
      /\ assocs'[<<t, p>>] = NewAssociation(l)
      /\ \A k \in DOMAIN assocs : k # <<t, p>> /\ assocs'[k] = assocs[k]
    BY <1>1 DEF Insert, TablesOK
<1>4. l \in LinkIds /\ l # None /\ l \in Nullable(LinkIds)
    BY NoneAssumption DEF TablesOK, PlayerLinkOf, Nullable
<1>5. Evolves
    BY <1>2, <1>3 DEF Evolves
<1>6. \A x \in DOMAIN profiles' : profiles'[x] \in PlayerProfile
    <2>1. [owner |-> a, child |-> FALSE, via |-> l] \in PlayerProfile
        BY <1>4 DEF PlayerProfile
    <2> QED
        BY <1>2, <2>1 DEF TablesOK
<1>7. RowsOK'
    <2>1. NewAssociation(l) \in Association /\ RowOK(t, NewAssociation(l))
        BY <1>4, NewAssociationRow DEF RowOK
    <2> QED
        BY <1>3, <1>5, <2>1, RowsWritten
<1>8. \A k \in DOMAIN assocs' \ DOMAIN assocs : assocs'[k].born # None
    BY <1>3, <1>4, NewAssociationRow
<1>9. SelfProfilePerLink'
    <2>1. \A x \in DOMAIN profiles :
            ~profiles[x].child /\ profiles[x].owner = a => profiles[x].via # l
        BY DEF SelfProfiles, Owned
    <2> QED
        BY <1>2, <2>1 DEF TablesOK, SelfProfilePerLink
<1>10. DOMAIN assocs' \subseteq Trainers \X DOMAIN profiles'
    BY <1>2, <1>3 DEF TablesOK
<1>11. TablesOK'
    BY <1>2, <1>5, <1>6, <1>7, <1>8, <1>9, <1>10, TablesEvolve DEF TablesOK
<1> QED
    BY <1>2, <1>5, <1>11

(* associate writes the pairs it found missing or inactive.                *)
LEMMA AssociationsWritten ==
    ASSUME TablesOK, NEW q \in Request, AssociateAll(q), ~Conflict(q),
           q.viewer \in Accounts, q.trainer # None, DOMAIN q.seen \subseteq Owned(q.viewer),
           q.link # None => PlayerLinkOf(q.trainer, q.link),
           q.link = None => Founded(q.trainer, q.viewer),
           SeenOK(q.trainer, q.seen), UNCHANGED <<profiles, links, contexts>>
    PROVE  TablesOK' /\ Evolves /\ \A s \in Requests : Respects(s)
<1> DEFINE t == q.trainer
<1> DEFINE pairs == {<<t, p>> : p \in Saved(q)}
<1>1. /\ t \in Trainers /\ q.link \in Nullable(LinkIds)
      /\ q.seen \in SeenRows
    BY DEF Request, Nullable, SeenRows
<1>2. DOMAIN q.seen \subseteq DOMAIN profiles /\ Saved(q) \subseteq DOMAIN q.seen
    BY DEF Owned, Saved
<1>3. /\ DOMAIN assocs' = DOMAIN assocs \cup pairs
      /\ \A k \in DOMAIN assocs' \ pairs : assocs'[k] = assocs[k]
      /\ \A p \in Saved(q) : assocs'[<<t, p>>] = Associated(q.link, q.seen[p])
    BY DEF AssociateAll
<1>4. ASSUME NEW p \in Saved(q)
      PROVE  /\ Associated(q.link, q.seen[p]) \in Association
             /\ RowOK(t, Associated(q.link, q.seen[p]))
             /\ <<t, p>> \in DOMAIN assocs =>
                  Associated(q.link, q.seen[p]).born = assocs[<<t, p>>].born
             /\ <<t, p>> \notin DOMAIN assocs =>
                  Associated(q.link, q.seen[p]).born = q.link
    <2>1. CASE q.seen[p] = None
        <3>1. <<t, p>> \notin DOMAIN assocs
            BY <2>1, <1>2 DEF Conflict
        <3>2. Associated(q.link, q.seen[p]) = NewAssociation(q.link)
            BY <2>1 DEF Associated
        <3> QED
            BY <3>1, <3>2, <1>1, NewAssociationRow DEF RowOK
    <2>2. CASE q.seen[p] # None
        <3>1. q.seen[p] \in Association
            BY <2>2, <1>1, <1>2, SeenRowsHave DEF Nullable
        <3>2. /\ <<t, p>> \in DOMAIN assocs
              /\ q.seen[p].born = assocs[<<t, p>>].born
              /\ RowOK(t, q.seen[p])
            BY <2>2, <1>2 DEF SeenOK
        <3> DEFINE row == Associated(q.link, q.seen[p])
        <3>3. /\ row \in Association /\ row.born = q.seen[p].born
              /\ row.link = IF q.link = None THEN q.seen[p].link ELSE q.link
            BY <2>2, <3>1, <1>1 DEF Associated, Association
        <3> HIDE DEF row
        <3>4. RowOK(t, row)
            BY <3>2, <3>3 DEF RowOK
        <3> QED
            BY <3>2, <3>3, <3>4 DEF row
    <2> QED
        BY <2>1, <2>2
<1>5. Evolves
    BY <1>3, <1>4 DEF Evolves
<1>6. RowsOK'
    <2>1. \A k \in pairs : assocs'[k] \in Association /\ RowOK(k[1], assocs'[k])
        BY <1>3, <1>4
    <2>2. \A k \in DOMAIN assocs' \ pairs : k \in DOMAIN assocs /\ assocs'[k] = assocs[k]
        BY <1>3
    <2> HIDE DEF pairs
    <2> QED
        BY <2>1, <2>2, <1>5, RowsWritten
<1>7. ASSUME NEW k \in DOMAIN assocs' \ DOMAIN assocs
      PROVE  assocs'[k].born # None \/ Founded(k[1], profiles'[k[2]].owner)
    <2>1. PICK p \in Saved(q) : k = <<t, p>>
        BY <1>3
    <2>2. assocs'[k].born = q.link
        BY <2>1, <1>3, <1>4
    <2>3. profiles'[k[2]].owner = q.viewer
        BY <2>1, <1>2 DEF Owned
    <2> QED
        BY <2>1, <2>2, <2>3
<1>8. DOMAIN assocs' \subseteq Trainers \X DOMAIN profiles'
    BY <1>1, <1>2, <1>3 DEF TablesOK
<1>9. SelfProfilePerLink'
    BY DEF TablesOK, SelfProfilePerLink
<1>10. TablesOK'
    BY <1>5, <1>6, <1>7, <1>8, <1>9, TablesEvolve DEF TablesOK
<1> QED
    BY <1>5, <1>10 DEF Respects

(* A child is made, and joins trainers its family has.                     *)
LEMMA ChildWritten ==
    ASSUME TablesOK, NEW a \in Accounts, NEW ts \in SUBSET Trainers,
           \A t \in ts : Founded(t, a),
           NEW p \in ProfileIds \ DOMAIN profiles,
           profiles' = Insert(profiles, p, [owner |-> a, child |-> TRUE, via |-> None]),
           assocs' = [k \in DOMAIN assocs \cup {<<t, p>> : t \in ts} |->
                        IF k \in {<<t, p>> : t \in ts} THEN NewAssociation(None) ELSE assocs[k]],
           UNCHANGED <<links, contexts>>
    PROVE  TablesOK' /\ Evolves /\ \A s \in Requests : Respects(s)
<1> DEFINE pairs == {<<t, p>> : t \in ts}
<1>1. /\ DOMAIN profiles' = DOMAIN profiles \cup {p}
      /\ profiles'[p] = [owner |-> a, child |-> TRUE, via |-> None]
      /\ \A x \in DOMAIN profiles : profiles'[x] = profiles[x]
    BY DEF Insert
<1>2. /\ DOMAIN assocs' = DOMAIN assocs \cup pairs
      /\ \A k \in pairs : assocs'[k] = NewAssociation(None)
      /\ \A k \in DOMAIN assocs : k \notin pairs /\ assocs'[k] = assocs[k]
    BY DEF TablesOK
<1>3. Evolves
    BY <1>1, <1>2 DEF Evolves
<1>4. \A x \in DOMAIN profiles' : profiles'[x] \in PlayerProfile
    <2>1. [owner |-> a, child |-> TRUE, via |-> None] \in PlayerProfile
        BY DEF PlayerProfile, Nullable
    <2> QED
        BY <1>1, <2>1 DEF TablesOK
<1>5. RowsOK'
    <2>1. /\ NewAssociation(None) \in Association
          /\ \A t : RowOK(t, NewAssociation(None))
        BY NewAssociationRow DEF RowOK, Nullable
    <2> HIDE DEF pairs
    <2> QED
        BY <1>2, <1>3, <2>1, RowsWritten
<1>6. ASSUME NEW k \in DOMAIN assocs' \ DOMAIN assocs
      PROVE  Founded(k[1], profiles'[k[2]].owner)
    <2>1. PICK t \in ts : k = <<t, p>>
        BY <1>2
    <2> QED
        BY <2>1, <1>1
<1>7. DOMAIN assocs' \subseteq Trainers \X DOMAIN profiles'
    <2>1. pairs \subseteq Trainers \X DOMAIN profiles'
        BY <1>1
    <2> HIDE DEF pairs
    <2> QED
        BY <1>1, <1>2, <2>1 DEF TablesOK
<1>8. SelfProfilePerLink'
    <2>1. profiles'[p].child
        BY <1>1
    <2>2. \A x \in DOMAIN profiles' : x # p => x \in DOMAIN profiles /\ profiles'[x] = profiles[x]
        BY <1>1
    <2> SUFFICES ASSUME NEW x \in DOMAIN profiles', NEW y \in DOMAIN profiles',
                        ~profiles'[x].child, ~profiles'[y].child,
                        profiles'[x].owner = profiles'[y].owner,
                        profiles'[x].via # None, profiles'[x].via = profiles'[y].via
                 PROVE  x = y
        BY DEF SelfProfilePerLink
    <2>3. x # p /\ y # p
        BY <2>1
    <2>4. SelfProfilePerLink
        BY DEF TablesOK
    <2> QED
        BY <2>2, <2>3, <2>4 DEF SelfProfilePerLink
<1>9. TablesOK'
    BY <1>1, <1>3, <1>4, <1>5, <1>6, <1>7, <1>8, TablesEvolve DEF TablesOK
<1>10. ASSUME NEW s \in Requests PROVE Respects(s)
    BY <1>1 DEF Respects, Redeeming
<1> QED
    BY <1>3, <1>9, <1>10

(* setStatus writes over a row that is there.                              *)
LEMMA RemovalWritten ==
    ASSUME TablesOK, NEW k \in DOMAIN assocs, NEW row \in Association,
           row.born = assocs[k].born, RowOK(k[1], row),
           assocs' = [assocs EXCEPT ![k] = row], UNCHANGED <<profiles, links, contexts>>
    PROVE  TablesOK' /\ Evolves /\ \A s \in Requests : Respects(s)
<1>1. /\ DOMAIN assocs' = DOMAIN assocs /\ assocs'[k] = row
      /\ \A x \in DOMAIN assocs \ {k} : assocs'[x] = assocs[x]
    OBVIOUS
<1>2. Evolves
    BY <1>1 DEF Evolves
<1>3. RowsOK'
    BY <1>1, <1>2, RowsWritten
<1>4. SelfProfilePerLink'
    BY DEF TablesOK, SelfProfilePerLink
<1>5. TablesOK'
    BY <1>1, <1>2, <1>3, <1>4, TablesEvolve DEF TablesOK
<1> QED
    BY <1>2, <1>5 DEF Respects

----------------------------------------------------------------------------
(* The actions. *)

(* A step of one request that only changes its locals.                     *)
LEMMA QuietStep ==
    ASSUME IInv, NEW r \in Requests, UNCHANGED <<profiles, links, assocs, contexts>>,
           NEW q \in Request, reqs' = [reqs EXCEPT ![r] = q],
           reqs'[r] = q => LocalsOK(r)',
           \/ q.pc \notin RedeemPCs \/ q.link = None
           \/ q.link = reqs[r].link /\ Redeeming(r)
           \/ ~Locked(q.link)
    PROVE  IInv'
<1>1. TablesOK' /\ Evolves /\ \A s \in Requests : Respects(s)
    BY PartsOfIInv, TablesKept
<1>2. reqs'[r] = q
    BY DEF IInv, TypeOK
<1> QED
    BY <1>1, <1>2, StepOf

LEMMA CreateLinkStep ==
    ASSUME IInv, NEW t \in Trainers, NEW type \in {"player", "coach"}, CreateLink(t, type)
    PROVE  IInv'
<1>1. PICK l \in LinkIds \ DOMAIN links :
        links' = Insert(links, l, [trainer |-> t, type |-> type])
    BY DEF CreateLink
<1>2. /\ DOMAIN links' = DOMAIN links \cup {l}
      /\ links'[l] \in ShareLink
      /\ \A x \in DOMAIN links : links'[x] = links[x]
    BY <1>1 DEF Insert, ShareLink
<1>3. TablesOK /\ UNCHANGED <<profiles, assocs, contexts, reqs>>
    BY PartsOfIInv DEF CreateLink
<1>4. Evolves /\ \A s \in Requests : Respects(s)
    BY <1>2, <1>3 DEF Evolves, Respects
<1>5. RowsOK'
    BY <1>3, <1>4, RowsWritten
<1>6. SelfProfilePerLink'
    BY <1>3 DEF TablesOK, SelfProfilePerLink
<1>7. TablesOK'
    BY <1>2, <1>3, <1>4, <1>5, <1>6, TablesEvolve DEF TablesOK
<1> QED
    BY <1>3, <1>4, <1>7, StepOfNone

LEMMA RegisterStep ==
    ASSUME IInv, NEW a \in Accounts, Register(a)
    PROVE  IInv'
<1>1. PICK p \in ProfileIds \ DOMAIN profiles :
        profiles' = Insert(profiles, p, [owner |-> a, child |-> FALSE, via |-> None])
    BY DEF Register
<1>2. /\ DOMAIN profiles' = DOMAIN profiles \cup {p}
      /\ profiles'[p] = [owner |-> a, child |-> FALSE, via |-> None]
      /\ \A x \in DOMAIN profiles : profiles'[x] = profiles[x]
    BY <1>1 DEF Insert
<1>3. TablesOK /\ UNCHANGED <<links, assocs, contexts, reqs>>
    BY PartsOfIInv DEF Register
<1>4. Evolves
    BY <1>2, <1>3 DEF Evolves
<1>5. \A s \in Requests : Respects(s)
    BY <1>2 DEF Respects, Redeeming
<1>6. RowsOK'
    BY <1>3, <1>4, RowsWritten
<1>7. \A x \in DOMAIN profiles' : profiles'[x] \in PlayerProfile
    <2>1. profiles'[p] \in PlayerProfile
        BY <1>2 DEF PlayerProfile, Nullable
    <2> QED
        BY <1>2, <1>3, <2>1 DEF TablesOK
<1>8. SelfProfilePerLink'
    <2>1. profiles'[p].via = None
        BY <1>2
    <2> QED
        BY <1>2, <1>3, <2>1 DEF TablesOK, SelfProfilePerLink
<1>9. DOMAIN assocs' \subseteq Trainers \X DOMAIN profiles'
    BY <1>2, <1>3 DEF TablesOK
<1>10. TablesOK'
    BY <1>2, <1>3, <1>4, <1>6, <1>7, <1>8, <1>9, TablesEvolve DEF TablesOK
<1> QED
    BY <1>3, <1>4, <1>5, <1>10, StepOfNone

LEMMA ClearContextStep ==
    ASSUME IInv, NEW v \in Viewers, ClearContext(v)
    PROVE  IInv'
<1>1. TablesOK /\ UNCHANGED <<profiles, links, assocs, reqs>>
    BY PartsOfIInv DEF ClearContext
<1>2. /\ contexts' \in [Viewers -> Nullable(Pairs)]
      /\ \A x \in Viewers : contexts'[x] \in {contexts[x], None}
    BY <1>1 DEF ClearContext, TablesOK, Nullable
<1> QED
    BY <1>1, <1>2, ContextsWritten, StepOfNone

LEMMA StartJoinRegisterStep ==
    ASSUME IInv, NEW r \in Requests, NEW a \in Accounts, NEW l \in LinkIds,
           StartJoinRegister(r, a, l)
    PROVE  IInv'
<1> DEFINE q == [Idle EXCEPT !.pc = "findEmail", !.viewer = a, !.link = l,
                             !.trainer = links[l].trainer]
<1>1. /\ l \in DOMAIN links /\ ~Locked(l) /\ links[l].type = "player"
      /\ links[l].trainer \in Trainers
    BY PartsOfIInv DEF StartJoinRegister, LockForRedemption, TablesOK, ShareLink
<1>2. q.pc = "findEmail" /\ q.viewer = a /\ q.link = l /\ q.trainer = links[l].trainer /\ ~q.fresh
    BY DEF Idle
<1>3. q \in Request
    BY <1>1, IdleRequest DEF Request, PCs, Nullable, Viewers
<1>4. reqs' = [reqs EXCEPT ![r] = q] /\ UNCHANGED <<profiles, links, assocs, contexts>>
    BY DEF StartJoinRegister, Begin
<1> HIDE DEF q
<1>5. l # None /\ links[l].trainer # None
    BY <1>1, NoneAssumption
<1>6. reqs'[r] = q => LocalsOK(r)'
    BY <1>1, <1>2, <1>4, <1>5 DEF LocalsOK, PlayerLinkOf
<1> QED
    BY <1>1, <1>2, <1>3, <1>4, <1>6, QuietStep

LEMMA FindEmailStep ==
    ASSUME IInv, NEW r \in Requests, FindEmail(r)
    PROVE  IInv'
<1> DEFINE q == [reqs[r] EXCEPT !.pc = "createAccount"]
<1>1. reqs[r] \in Request /\ reqs[r].pc = "findEmail" /\ LocalsOK(r)
    BY PartsOfIInv DEF FindEmail, At
<1>2. CASE Finish(r) /\ UNCHANGED <<profiles, links, assocs, contexts>>
    BY <1>2, PartsOfIInv, TablesKept, FinishStep
<1>3. CASE SetPc(r, "createAccount") /\ UNCHANGED <<profiles, links, assocs, contexts>>
    <2>1. /\ q \in Request /\ q.pc = "createAccount" /\ q.viewer = reqs[r].viewer
          /\ q.link = reqs[r].link /\ q.trainer = reqs[r].trainer /\ q.fresh = reqs[r].fresh
        BY <1>1 DEF Request, PCs
    <2>2. reqs' = [reqs EXCEPT ![r] = q]
        BY <1>3, <1>1 DEF SetPc
    <2> HIDE DEF q
    <2>3. Redeeming(r) /\ reqs[r].viewer \in Accounts /\ ~reqs[r].fresh
        BY <1>1 DEF LocalsOK, Redeeming
    <2>4. reqs'[r] = q => LocalsOK(r)'
        BY <1>1, <1>3, <2>1, <2>3 DEF LocalsOK, Redeeming, PlayerLinkOf
    <2> QED
        BY <1>3, <2>1, <2>2, <2>3, <2>4, QuietStep
<1> QED
    BY <1>2, <1>3 DEF FindEmail

(* A redemption that makes a self profile respects every other one: theirs *)
(* are other links.                                                        *)
LEMMA NewProfileStep ==
    ASSUME IInv, NEW r \in Requests, Redeeming(r), reqs[r].viewer \in Accounts,
           \A p \in SelfProfiles(reqs[r].viewer) : profiles[p].via # reqs[r].link,
           JoinNewProfile(reqs[r].viewer, reqs[r].trainer, reqs[r].link),
           Finish(r), UNCHANGED <<links, contexts>>
    PROVE  IInv'
<1> DEFINE q == reqs[r]
<1>1. TablesOK /\ LocksExclusive /\ LocalsOK(r) /\ q \in Request
    BY PartsOfIInv
<1>2. PlayerLinkOf(q.trainer, q.link) /\ q.trainer \in Trainers
    BY <1>1 DEF LocalsOK, Request, Nullable
<1>3. /\ TablesOK' /\ Evolves
      /\ \A p \in DOMAIN profiles' \ DOMAIN profiles : profiles'[p].via = q.link
    BY <1>1, <1>2, NewProfileJoins
<1>4. ASSUME NEW s \in Requests \ {r} PROVE Respects(s)
    BY <1>1, <1>3 DEF Respects, LocksExclusive
<1> QED
    BY <1>3, <1>4, FinishStep

LEMMA QuietFinish ==
    ASSUME IInv, NEW r \in Requests, Finish(r), UNCHANGED <<profiles, links, assocs, contexts>>
    PROVE  IInv'
BY PartsOfIInv, TablesKept, FinishStep

LEMMA CreateAccountStep ==
    ASSUME IInv, NEW r \in Requests, CreateAccount(r)
    PROVE  IInv'
<1>1. LocalsOK(r) /\ reqs[r].pc = "createAccount" /\ Finish(r) /\ UNCHANGED <<links, contexts>>
    BY PartsOfIInv DEF CreateAccount, At
<1>2. CASE UNCHANGED <<profiles, assocs>>
    BY <1>1, <1>2, QuietFinish
<1>3. CASE /\ ~Registered(reqs[r].viewer)
           /\ JoinNewProfile(reqs[r].viewer, reqs[r].trainer, reqs[r].link)
    <2>1. SelfProfiles(reqs[r].viewer) = {}
        BY <1>3 DEF Registered
    <2>2. Redeeming(r) /\ reqs[r].viewer \in Accounts
        BY <1>1 DEF LocalsOK, Redeeming
    <2> QED
        BY <1>1, <1>3, <2>1, <2>2, NewProfileStep
<1> QED
    BY <1>2, <1>3 DEF CreateAccount

LEMMA RedeemStep ==
    ASSUME IInv, NEW r \in Requests, NEW op, NEW a \in Accounts, NEW ps \in SUBSET Owned(a),
           NEW l \in LinkIds, Redeem(r, op, a, ps, l)
    PROVE  IInv'
<1> DEFINE pc == IF ps = {} THEN "selfProfile" ELSE "find"
<1> DEFINE q == [Idle EXCEPT !.pc = pc, !.viewer = a, !.link = l,
                             !.trainer = links[l].trainer, !.todo = ps]
<1>1. /\ l \in DOMAIN links /\ ~Locked(l) /\ links[l].type = "player"
      /\ links[l].trainer \in Trainers /\ ps \subseteq ProfileIds
    BY PartsOfIInv DEF Redeem, LockForRedemption, TablesOK, ShareLink, Owned
<1>2. /\ q.pc = pc /\ q.viewer = a /\ q.link = l /\ q.trainer = links[l].trainer
      /\ q.fresh = FALSE /\ q.todo = ps /\ q.seen = Nothing
    BY DEF Idle
<1>3. q \in Request
    <2>1. pc \in PCs /\ l \in Nullable(LinkIds) /\ a \in Nullable(Viewers)
          /\ links[l].trainer \in Nullable(Trainers)
        BY <1>1 DEF PCs, Nullable, Viewers
    <2> HIDE DEF pc
    <2> QED
        BY <1>1, <2>1, IdleRequest DEF Request
<1>4. reqs' = [reqs EXCEPT ![r] = q] /\ UNCHANGED <<profiles, links, assocs, contexts>>
    BY DEF Redeem, Begin
<1> HIDE DEF q
<1>5. l # None /\ links[l].trainer # None
    BY <1>1, NoneAssumption
<1>6. /\ ps \subseteq Owned(a)' /\ PlayerLinkOf(links[l].trainer, l)'
      /\ SeenOK(links[l].trainer, Nothing)'
    BY <1>1, <1>4, NothingSeen DEF Owned, PlayerLinkOf, SeenOK
<1>7. CASE ps = {}
    <2>1. q.pc = "selfProfile"
        BY <1>2, <1>7
    <2>2. reqs'[r] = q => LocalsOK(r)'
        BY <1>2, <1>4, <1>5, <1>6, <1>7, <2>1 DEF LocalsOK
    <2> QED
        BY <1>1, <1>2, <1>3, <1>4, <2>2, QuietStep
<1>8. CASE ps # {}
    <2>1. q.pc = "find"
        BY <1>2, <1>8
    <2>2. reqs'[r] = q => LocalsOK(r)'
        BY <1>2, <1>4, <1>5, <1>6, <1>8, <2>1, NothingSeen DEF LocalsOK
    <2> QED
        BY <1>1, <1>2, <1>3, <1>4, <2>2, QuietStep
<1> QED
    BY <1>7, <1>8

LEMMA RequireSelfProfileStep ==
    ASSUME IInv, NEW r \in Requests, RequireSelfProfile(r)
    PROVE  IInv'
<1> DEFINE own == SelfProfiles(reqs[r].viewer)
<1>1. /\ reqs[r] \in Request /\ reqs[r].pc = "selfProfile" /\ LocalsOK(r)
      /\ UNCHANGED <<profiles, links, assocs, contexts>>
    BY PartsOfIInv DEF RequireSelfProfile, At
<1>2. /\ Redeeming(r) /\ reqs[r].viewer \in Accounts /\ ~reqs[r].fresh
      /\ reqs[r].seen = Nothing /\ reqs[r].link # None /\ reqs[r].trainer # None
      /\ PlayerLinkOf(reqs[r].trainer, reqs[r].link)
    BY <1>1 DEF LocalsOK, Redeeming
<1>3. /\ \A t, l : PlayerLinkOf(t, l) => PlayerLinkOf(t, l)'
      /\ \A a : \A p \in Owned(a) : p \in Owned(a)'
      /\ \A t : SeenOK(t, Nothing)'
    BY <1>1, NothingSeen DEF PlayerLinkOf, Owned, SeenOK
<1>4. ASSUME NEW p \in own, reqs' = [reqs EXCEPT ![r].pc = "find", ![r].todo = {p}]
      PROVE  IInv'
    <2> DEFINE q == [reqs[r] EXCEPT !.pc = "find", !.todo = {p}]
    <2>1. p \in ProfileIds /\ p \in Owned(reqs[r].viewer)
        BY PartsOfIInv DEF SelfProfiles, Owned, TablesOK
    <2>2. /\ q \in Request /\ q.pc = "find" /\ q.todo = {p} /\ q.viewer = reqs[r].viewer
          /\ q.link = reqs[r].link /\ q.trainer = reqs[r].trainer
          /\ q.fresh = reqs[r].fresh /\ q.seen = reqs[r].seen
        BY <1>1, <2>1 DEF Request, PCs
    <2>3. reqs' = [reqs EXCEPT ![r] = q]
        BY <1>1, <1>4
    <2> HIDE DEF q
    <2>4. reqs'[r] = q => LocalsOK(r)'
        BY <1>2, <1>3, <2>1, <2>2, NothingSeen DEF LocalsOK
    <2> QED
        BY <1>1, <1>2, <2>2, <2>3, <2>4, QuietStep
<1>5. ASSUME own = {}, reqs' = [reqs EXCEPT ![r].pc = "commit", ![r].fresh = TRUE]
      PROVE  IInv'
    <2> DEFINE q == [reqs[r] EXCEPT !.pc = "commit", !.fresh = TRUE]
    <2>1. /\ q \in Request /\ q.pc = "commit" /\ q.fresh /\ q.viewer = reqs[r].viewer
          /\ q.link = reqs[r].link /\ q.trainer = reqs[r].trainer
          /\ q.todo = reqs[r].todo /\ q.seen = reqs[r].seen
        BY <1>1 DEF Request, PCs
    <2>2. reqs' = [reqs EXCEPT ![r] = q]
        BY <1>1, <1>5
    <2>3. reqs[r].todo = {}
        BY <1>1 DEF LocalsOK
    <2>4. \A a : a = reqs[r].viewer => SelfProfiles(a)' = {}
        BY <1>1, <1>5 DEF SelfProfiles, Owned
    <2> HIDE DEF q
    <2>5. reqs'[r] = q => LocalsOK(r)'
        BY <1>2, <1>3, <2>1, <2>3, <2>4, NothingSeen DEF LocalsOK
    <2> QED
        BY <1>1, <1>2, <2>1, <2>2, <2>5, QuietStep
<1> QED
    BY <1>4, <1>5 DEF RequireSelfProfile

LEMMA StartAddExistingStep ==
    ASSUME IInv, NEW r \in Requests, NEW a \in Accounts, NEW p \in ProfileIds, NEW t \in Trainers,
           StartAddExisting(r, a, p, t)
    PROVE  IInv'
<1> DEFINE q == [Idle EXCEPT !.pc = "find", !.viewer = a, !.trainer = t, !.todo = {p}]
<1>1. /\ p \in Owned(a) /\ t \in FamilyTrainers(a) /\ t # None /\ TablesOK
      /\ UNCHANGED <<profiles, links, assocs, contexts>>
    BY PartsOfIInv, NoneAssumption DEF StartAddExisting
<1>2. /\ q.pc = "find" /\ q.viewer = a /\ q.link = None /\ q.trainer = t
      /\ q.fresh = FALSE /\ q.todo = {p} /\ q.seen = Nothing
    BY DEF Idle
<1>3. q \in Request
    BY IdleRequest DEF Request, PCs, Nullable, Viewers
<1>4. reqs' = [reqs EXCEPT ![r] = q]
    BY DEF StartAddExisting, Begin
<1> HIDE DEF q
<1>5. Founded(t, a)
    <2>1. PICK x \in Owned(a) : <<t, x>> \in DOMAIN assocs
        BY <1>1 DEF FamilyTrainers
    <2>2. Founded(t, profiles[x].owner)
        BY <1>1, <2>1 DEF TablesOK, FamiliesOK
    <2> QED
        BY <2>1, <2>2 DEF Owned
<1>6. {p} \subseteq Owned(a)' /\ Founded(t, a)' /\ SeenOK(t, Nothing)'
    BY <1>1, <1>5, NothingSeen DEF Owned, Founded, SeenOK
<1>7. reqs'[r] = q => LocalsOK(r)'
    BY <1>1, <1>2, <1>6, NothingSeen DEF LocalsOK, Redeeming
<1> QED
    BY <1>1, <1>2, <1>3, <1>4, <1>7, QuietStep

(* Looking one association up adds what is there to what was seen.         *)
LEMMA SeenInserted ==
    ASSUME TablesOK, NEW t, NEW seen \in SeenRows, SeenOK(t, seen), NEW p \in ProfileIds,
           NEW row, row = IF <<t, p>> \in DOMAIN assocs THEN assocs[<<t, p>>] ELSE None
    PROVE  /\ Insert(seen, p, row) \in SeenRows
           /\ DOMAIN Insert(seen, p, row) = DOMAIN seen \cup {p}
           /\ SeenOK(t, Insert(seen, p, row))
<1>1. DOMAIN seen \subseteq ProfileIds /\ seen \in [DOMAIN seen -> Nullable(Association)]
    BY SeenRowsHave
<1>2. row \in Nullable(Association)
    BY DEF TablesOK, RowsOK, Nullable
<1> DEFINE new == Insert(seen, p, row)
<1>3. /\ new \in [DOMAIN seen \cup {p} -> Nullable(Association)]
      /\ DOMAIN new = DOMAIN seen \cup {p}
      /\ new[p] = row /\ \A x \in DOMAIN seen \ {p} : new[x] = seen[x]
    BY <1>1, <1>2 DEF Insert
<1> HIDE DEF new
<1>4. new \in SeenRows
    BY <1>1, <1>3, SeenRowsAre
<1>5. row # None => <<t, p>> \in DOMAIN assocs /\ row = assocs[<<t, p>>] /\ RowOK(t, row)
    BY DEF TablesOK, RowsOK
<1>6. SeenOK(t, new)
    BY <1>3, <1>5 DEF SeenOK
<1> QED
    BY <1>3, <1>4, <1>6 DEF new

LEMMA FindStep ==
    ASSUME IInv, NEW r \in Requests, Find(r)
    PROVE  IInv'
<1> DEFINE o == reqs[r]
<1>1. /\ o \in Request /\ o.pc = "find" /\ LocalsOK(r) /\ TablesOK
      /\ UNCHANGED <<profiles, links, assocs, contexts>>
    BY PartsOfIInv DEF Find, At
<1>2. PICK p \in o.todo :
        reqs' = [reqs EXCEPT ![r].todo = @ \ {p},
                             ![r].seen = Insert(@, p, IF <<o.trainer, p>> \in DOMAIN assocs
                                                      THEN assocs[<<o.trainer, p>>] ELSE None),
                             ![r].pc = IF o.todo = {p} THEN "commit" ELSE @]
    BY DEF Find
<1> DEFINE row == IF <<o.trainer, p>> \in DOMAIN assocs THEN assocs[<<o.trainer, p>>] ELSE None
<1> DEFINE seen == Insert(o.seen, p, row)
<1> DEFINE pc == IF o.todo = {p} THEN "commit" ELSE "find"
<1> DEFINE q == [o EXCEPT !.todo = @ \ {p}, !.seen = seen, !.pc = pc]
<1>3. /\ o.viewer \in Accounts /\ o.trainer # None /\ ~o.fresh
      /\ o.todo \cup DOMAIN o.seen \subseteq Owned(o.viewer)
      /\ o.link = None => Founded(o.trainer, o.viewer)
      /\ SeenOK(o.trainer, o.seen)
      /\ o.link # None => PlayerLinkOf(o.trainer, o.link)
    BY <1>1 DEF LocalsOK, Redeeming
<1>4. o.seen \in SeenRows /\ o.todo \subseteq ProfileIds
    BY <1>1 DEF Request, SeenRows
<1>5. seen \in SeenRows /\ DOMAIN seen = DOMAIN o.seen \cup {p} /\ SeenOK(o.trainer, seen)
    BY <1>1, <1>3, <1>4, SeenInserted
<1>6. reqs' = [reqs EXCEPT ![r] = q]
    BY <1>1, <1>2
<1> HIDE DEF seen
<1>7. pc \in {"find", "commit"} /\ (pc = "find" => o.todo \ {p} # {})
    BY <1>2
<1> HIDE DEF pc
<1>8. /\ q \in Request /\ q.pc = pc /\ q.todo = o.todo \ {p} /\ q.seen = seen
      /\ q.viewer = o.viewer /\ q.trainer = o.trainer /\ q.link = o.link /\ q.fresh = o.fresh
    BY <1>1, <1>4, <1>5, <1>7 DEF Request, PCs, SeenRows
<1> HIDE DEF q
<1>9. /\ \A t, l : PlayerLinkOf(t, l) => PlayerLinkOf(t, l)'
      /\ \A a : \A x \in Owned(a) : x \in Owned(a)'
      /\ \A t, a : Founded(t, a) => Founded(t, a)'
      /\ \A t, s : SeenOK(t, s) => SeenOK(t, s)'
    BY <1>1, TablesKept, LastingFacts
<1>10. reqs'[r] = q => LocalsOK(r)'
    BY <1>3, <1>5, <1>7, <1>8, <1>9 DEF LocalsOK, Redeeming
<1>11. o.link # None => Redeeming(r)
    BY <1>1 DEF Redeeming
<1> QED
    BY <1>1, <1>6, <1>8, <1>10, <1>11, QuietStep

LEMMA CommitStep ==
    ASSUME IInv, NEW r \in Requests, Commit(r)
    PROVE  IInv'
<1> DEFINE q == reqs[r]
<1>1. /\ q \in Request /\ q.pc = "commit" /\ LocalsOK(r) /\ TablesOK
      /\ Finish(r) /\ UNCHANGED <<links, contexts>>
    BY PartsOfIInv DEF Commit, At
<1>2. CASE UNCHANGED <<profiles, assocs>>
    BY <1>1, <1>2, QuietFinish
<1>3. CASE ~Conflict(q) /\ AssociateAll(q) /\ UNCHANGED profiles
    <2>1. /\ q.viewer \in Accounts /\ q.trainer # None /\ DOMAIN q.seen \subseteq Owned(q.viewer)
          /\ q.link # None => PlayerLinkOf(q.trainer, q.link)
          /\ q.link = None => Founded(q.trainer, q.viewer)
          /\ SeenOK(q.trainer, q.seen)
        BY <1>1 DEF LocalsOK, Redeeming
    <2>2. TablesOK' /\ Evolves /\ \A s \in Requests : Respects(s)
        BY <1>1, <1>3, <2>1, AssociationsWritten
    <2> QED
        BY <1>1, <2>2, FinishStep
<1>4. CASE q.fresh /\ JoinNewProfile(q.viewer, q.trainer, q.link)
    <2>1. /\ q.viewer \in Accounts /\ Redeeming(r)
          /\ \A p \in SelfProfiles(q.viewer) : profiles[p].via # q.link
        BY <1>1, <1>4 DEF LocalsOK, Redeeming
    <2> QED
        BY <1>1, <1>4, <2>1, NewProfileStep
<1> QED
    BY <1>2, <1>3, <1>4 DEF Commit

LEMMA StartCreateChildStep ==
    ASSUME IInv, NEW r \in Requests, NEW a \in Accounts, NEW ts \in SUBSET Trainers,
           StartCreateChild(r, a, ts)
    PROVE  IInv'
<1> DEFINE q == [Idle EXCEPT !.pc = "createChild", !.viewer = a, !.trainers = ts]
<1>1. ts \subseteq FamilyTrainers(a) /\ TablesOK /\ UNCHANGED <<profiles, links, assocs, contexts>>
    BY PartsOfIInv DEF StartCreateChild
<1>2. /\ q.pc = "createChild" /\ q.viewer = a /\ q.link = None /\ q.trainers = ts
      /\ q.fresh = FALSE
    BY DEF Idle
<1>3. q \in Request
    BY IdleRequest DEF Request, PCs, Nullable, Viewers
<1>4. reqs' = [reqs EXCEPT ![r] = q]
    BY DEF StartCreateChild, Begin
<1> HIDE DEF q
<1>5. ASSUME NEW t \in ts PROVE Founded(t, a)'
    <2>1. PICK x \in Owned(a) : <<t, x>> \in DOMAIN assocs
        BY <1>1 DEF FamilyTrainers
    <2>2. Founded(t, profiles[x].owner)
        BY <1>1, <2>1 DEF TablesOK, FamiliesOK
    <2>3. Founded(t, a)
        BY <2>1, <2>2 DEF Owned
    <2> QED
        BY <1>1, <2>3 DEF Founded, Owned
<1>6. reqs'[r] = q => LocalsOK(r)'
    BY <1>2, <1>5 DEF LocalsOK, Redeeming
<1> QED
    BY <1>1, <1>2, <1>3, <1>4, <1>6, QuietStep

LEMMA CreateChildStep ==
    ASSUME IInv, NEW r \in Requests, CreateChild(r)
    PROVE  IInv'
<1> DEFINE q == reqs[r]
<1>1. /\ q \in Request /\ q.pc = "createChild" /\ LocalsOK(r) /\ TablesOK
      /\ Finish(r) /\ UNCHANGED <<links, contexts>>
    BY PartsOfIInv DEF CreateChild, At
<1>2. CASE UNCHANGED <<profiles, assocs>>
    BY <1>1, <1>2, QuietFinish
<1>3. ASSUME NEW p \in ProfileIds \ DOMAIN profiles,
             profiles' = Insert(profiles, p, [owner |-> q.viewer, child |-> TRUE, via |-> None]),
             assocs' = [k \in DOMAIN assocs \cup {<<t, p>> : t \in q.trainers} |->
                          IF k \in {<<t, p>> : t \in q.trainers} THEN NewAssociation(None)
                          ELSE assocs[k]]
      PROVE  IInv'
    <2>1. /\ q.viewer \in Accounts /\ q.trainers \in SUBSET Trainers
          /\ \A t \in q.trainers : Founded(t, q.viewer)
        BY <1>1 DEF LocalsOK, Request
    <2>2. TablesOK' /\ Evolves /\ \A s \in Requests : Respects(s)
        BY <1>1, <1>3, <2>1, ChildWritten
    <2> QED
        BY <1>1, <2>2, FinishStep
<1> QED
    BY <1>2, <1>3 DEF CreateChild

LEMMA StartRemovalStep ==
    ASSUME IInv, NEW r \in Requests, NEW op, NEW pair \in Pairs,
           Begin(r, op, [Idle EXCEPT !.pc = "findRemoval", !.pair = pair]),
           UNCHANGED <<profiles, links, assocs, contexts>>
    PROVE  IInv'
<1> DEFINE q == [Idle EXCEPT !.pc = "findRemoval", !.pair = pair]
<1>1. q.pc = "findRemoval" /\ q.pair = pair /\ q.link = None /\ q.fresh = FALSE
    BY DEF Idle
<1>2. q \in Request
    BY IdleRequest DEF Request, PCs, Nullable
<1>3. reqs' = [reqs EXCEPT ![r] = q]
    BY DEF Begin
<1> HIDE DEF q
<1>4. pair # None
    BY NoneAssumption DEF Pairs
<1>5. reqs'[r] = q => LocalsOK(r)'
    BY <1>1, <1>4 DEF LocalsOK, Redeeming
<1> QED
    BY <1>1, <1>2, <1>3, <1>5, QuietStep

LEMMA FindRemovalStep ==
    ASSUME IInv, NEW r \in Requests, FindRemoval(r)
    PROVE  IInv'
<1> DEFINE pair == reqs[r].pair
<1>1. /\ reqs[r] \in Request /\ reqs[r].pc = "findRemoval" /\ LocalsOK(r) /\ TablesOK
      /\ UNCHANGED <<profiles, links, assocs, contexts>>
    BY PartsOfIInv DEF FindRemoval, At
<1>2. CASE Finish(r)
    BY <1>1, <1>2, QuietFinish
<1>3. ASSUME pair \in DOMAIN assocs,
             reqs' = [reqs EXCEPT ![r].pc = "deactivate",
                                  ![r].seen = Insert(Nothing, pair[2], assocs[pair])]
      PROVE  IInv'
    <2> DEFINE seen == Insert(Nothing, pair[2], assocs[pair])
    <2> DEFINE q == [reqs[r] EXCEPT !.pc = "deactivate", !.seen = seen]
    <2>1. /\ pair = <<pair[1], pair[2]>> /\ pair[2] \in ProfileIds
          /\ assocs[pair] \in Association /\ RowOK(pair[1], assocs[pair])
        BY <1>1, <1>3 DEF TablesOK, RowsOK
    <2>2. seen \in [{pair[2]} -> Association] /\ DOMAIN seen = {pair[2]} /\ seen[pair[2]] = assocs[pair]
        BY <2>1, NothingSeen DEF Insert
    <2>3. reqs' = [reqs EXCEPT ![r] = q]
        BY <1>1, <1>3
    <2> HIDE DEF seen
    <2>4. seen \in SeenRows
        <3>1. seen \in [{pair[2]} -> Nullable(Association)]
            BY <2>2 DEF Nullable
        <3> QED
            BY <2>1, <3>1, SeenRowsAre
    <2>5. /\ q \in Request /\ q.pc = "deactivate" /\ q.pair = pair /\ q.seen = seen
          /\ q.link = reqs[r].link /\ q.fresh = reqs[r].fresh
        BY <1>1, <2>4 DEF Request, PCs, SeenRows
    <2> HIDE DEF q
    <2>6. SeenOK(pair[1], seen)
        BY <1>3, <2>1, <2>2 DEF SeenOK
    <2>7. \A t, s : SeenOK(t, s) => SeenOK(t, s)'
        BY <1>1, TablesKept, LastingFacts
    <2>8. seen[pair[2]] # None
        BY <2>1, <2>2, RowAssumption
    <2>9. ~reqs[r].fresh
        BY <1>1 DEF LocalsOK
    <2>10. reqs'[r] = q => LocalsOK(r)'
        BY <1>1, <1>3, <2>2, <2>5, <2>6, <2>7, <2>8, <2>9 DEF LocalsOK, Redeeming
    <2> QED
        BY <1>1, <2>3, <2>5, <2>10, QuietStep DEF RedeemPCs
<1> QED
    BY <1>2, <1>3 DEF FindRemoval

LEMMA DeactivateStep ==
    ASSUME IInv, NEW r \in Requests, Deactivate(r)
    PROVE  IInv'
<1> DEFINE o == reqs[r]
<1> DEFINE pair == o.pair
<1> DEFINE row == [o.seen[pair[2]] EXCEPT !.active = FALSE]
<1> DEFINE q == [o EXCEPT !.pc = "clear"]
<1>1. /\ o \in Request /\ o.pc = "deactivate" /\ LocalsOK(r) /\ TablesOK
      /\ assocs' = [assocs EXCEPT ![pair] = row]
      /\ reqs' = [reqs EXCEPT ![r] = q]
      /\ UNCHANGED <<profiles, links, contexts>>
    BY PartsOfIInv DEF Deactivate, At, SetPc
<1>2. /\ pair \in DOMAIN assocs /\ DOMAIN o.seen = {pair[2]} /\ o.seen[pair[2]] # None
      /\ SeenOK(pair[1], o.seen) /\ ~o.fresh
    BY <1>1 DEF LocalsOK
<1>3. pair \in Pairs /\ pair = <<pair[1], pair[2]>>
    BY <1>1, <1>2 DEF TablesOK, Pairs
<1>4. o.seen[pair[2]] \in Association
    <2>1. o.seen \in SeenRows
        BY <1>1 DEF Request, SeenRows
    <2> QED
        BY <1>2, <2>1, SeenRowsHave DEF Nullable
<1>5. row \in Association /\ row.born = o.seen[pair[2]].born /\ row.link = o.seen[pair[2]].link
    BY <1>4 DEF Association
<1>6. /\ q \in Request /\ q.pc = "clear" /\ q.pair = pair /\ q.link = o.link /\ q.fresh = o.fresh
    BY <1>1 DEF Request, PCs
<1> HIDE DEF row
<1> HIDE DEF q
<1>7. row.born = assocs[pair].born /\ RowOK(pair[1], row)
    BY <1>2, <1>3, <1>5 DEF SeenOK, RowOK
<1>8. TablesOK' /\ Evolves /\ \A s \in Requests : Respects(s)
    BY <1>1, <1>2, <1>5, <1>7, RemovalWritten
<1>9. pair # None /\ reqs'[r] = q
    BY <1>1, <1>3, NoneAssumption, PartsOfIInv DEF Pairs
<1>10. LocalsOK(r)'
    BY <1>2, <1>6, <1>9 DEF LocalsOK, Redeeming
<1> QED
    BY <1>1, <1>6, <1>8, <1>10, StepOf DEF RedeemPCs

LEMMA ClearForAssociationStep ==
    ASSUME IInv, NEW r \in Requests, ClearForAssociation(r)
    PROVE  IInv'
<1>1. TablesOK /\ Finish(r) /\ UNCHANGED <<profiles, links, assocs>>
    BY PartsOfIInv DEF ClearForAssociation
<1>2. /\ contexts' \in [Viewers -> Nullable(Pairs)]
      /\ \A v \in Viewers : contexts'[v] \in {contexts[v], None}
    BY <1>1 DEF ClearForAssociation, TablesOK, Nullable
<1> QED
    BY <1>1, <1>2, ContextsWritten, FinishStep

LEMMA StartSwitchStep ==
    ASSUME IInv, NEW r \in Requests, NEW v \in Viewers, NEW pair \in DOMAIN assocs,
           StartSwitch(r, v, pair)
    PROVE  IInv'
<1> DEFINE q == [Idle EXCEPT !.pc = "switch", !.viewer = v, !.pair = pair]
<1>1. /\ pair[2] \in Switchable(v) /\ TablesOK /\ pair \in Pairs /\ v # None
      /\ UNCHANGED <<profiles, links, assocs, contexts>>
    BY PartsOfIInv, NoneAssumption DEF StartSwitch, TablesOK, Pairs, Viewers
<1>2. q.pc = "switch" /\ q.viewer = v /\ q.pair = pair /\ q.link = None /\ q.fresh = FALSE
    BY DEF Idle
<1>3. q \in Request
    BY <1>1, IdleRequest DEF Request, PCs, Nullable
<1>4. reqs' = [reqs EXCEPT ![r] = q]
    BY DEF StartSwitch, Begin
<1> HIDE DEF q
<1>5. MayLookThrough(v, pair)'
    BY <1>1 DEF MayLookThrough, Switchable, Owned
<1>6. reqs'[r] = q => LocalsOK(r)'
    BY <1>1, <1>2, <1>5 DEF LocalsOK, Redeeming
<1> QED
    BY <1>1, <1>2, <1>3, <1>4, <1>6, QuietStep

(* A context that was looked up is written into a session.                 *)
LEMMA ContextStep ==
    ASSUME IInv, NEW r \in Requests, NEW v \in Viewers, NEW c \in Nullable(Pairs),
           c # None => MayLookThrough(v, c),
           contexts' = [contexts EXCEPT ![v] = c], Finish(r), UNCHANGED <<profiles, links, assocs>>
    PROVE  IInv'
<1>1. TablesOK /\ contexts \in [Viewers -> Nullable(Pairs)]
    BY PartsOfIInv DEF TablesOK
<1>2. /\ contexts' \in [Viewers -> Nullable(Pairs)]
      /\ \A x \in Viewers : contexts'[x] = IF x = v THEN c ELSE contexts[x]
    BY <1>1
<1>3. \A x \in Viewers : contexts'[x] \in {contexts[x], None} \/ MayLookThrough(x, contexts'[x])
    BY <1>2
<1> QED
    BY <1>1, <1>2, <1>3, ContextsWritten, FinishStep

LEMMA SwitchStep ==
    ASSUME IInv, NEW r \in Requests, Switch(r)
    PROVE  IInv'
<1>1. reqs[r] \in Request /\ LocalsOK(r) /\ reqs[r].pc = "switch"
    BY PartsOfIInv DEF Switch, At
<1>2. /\ reqs[r].viewer \in Viewers /\ reqs[r].pair \in Nullable(Pairs)
      /\ MayLookThrough(reqs[r].viewer, reqs[r].pair)
    BY <1>1 DEF LocalsOK, Request, Nullable
<1> QED
    BY <1>2, ContextStep DEF Switch

LEMMA StartRefreshStep ==
    ASSUME IInv, NEW r \in Requests, NEW v \in Viewers, StartRefresh(r, v)
    PROVE  IInv'
<1> DEFINE q == [Idle EXCEPT !.pc = "saveSession", !.viewer = v, !.context = contexts[v]]
<1>1. /\ TablesOK /\ contexts[v] \in Nullable(Pairs) /\ v # None
      /\ UNCHANGED <<profiles, links, assocs, contexts>>
    BY PartsOfIInv, NoneAssumption DEF StartRefresh, TablesOK, Viewers
<1>2. /\ q.pc = "saveSession" /\ q.viewer = v /\ q.context = contexts[v]
      /\ q.link = None /\ q.fresh = FALSE
    BY DEF Idle
<1>3. q \in Request
    BY <1>1, IdleRequest DEF Request, PCs, Nullable
<1>4. reqs' = [reqs EXCEPT ![r] = q]
    BY DEF StartRefresh, Begin
<1> HIDE DEF q
<1>5. contexts[v] # None => MayLookThrough(v, contexts[v])
    BY <1>1 DEF TablesOK, ContextsWithinFamily, MayLookThrough
<1>6. \A x, pair : MayLookThrough(x, pair) => MayLookThrough(x, pair)'
    BY <1>1, TablesKept, LastingFacts
<1>7. reqs'[r] = q => LocalsOK(r)'
    BY <1>1, <1>2, <1>5, <1>6 DEF LocalsOK, Redeeming
<1> QED
    BY <1>1, <1>2, <1>3, <1>4, <1>7, QuietStep

LEMMA SaveSessionStep ==
    ASSUME IInv, NEW r \in Requests, SaveSession(r)
    PROVE  IInv'
<1>1. reqs[r] \in Request /\ LocalsOK(r) /\ reqs[r].pc = "saveSession"
    BY PartsOfIInv DEF SaveSession, At
<1>2. /\ reqs[r].viewer \in Viewers /\ reqs[r].context \in Nullable(Pairs)
      /\ reqs[r].context # None => MayLookThrough(reqs[r].viewer, reqs[r].context)
    BY <1>1 DEF LocalsOK, Request, Nullable
<1> QED
    BY <1>2, ContextStep DEF SaveSession

LEMMA UnchangedStep ==
    ASSUME IInv, UNCHANGED vars
    PROVE  IInv'
<1>1. TablesOK' /\ Evolves /\ \A s \in Requests : Respects(s)
    BY PartsOfIInv, TablesKept DEF vars
<1> QED
    BY <1>1, StepOfNone DEF vars

LEMMA StartRequestStep ==
    ASSUME IInv, NEW r \in Requests, StartRequest(r)
    PROVE  IInv'
<1>1. ASSUME NEW a \in Accounts, NEW l \in LinkIds, NEW ps \in SUBSET Owned(a),
             StartJoin(r, a, ps, l)
      PROVE  IInv'
    BY <1>1, RedeemStep DEF StartJoin
<1>2. ASSUME NEW a \in Accounts, NEW l \in LinkIds, NEW p \in Owned(a), StartAddByCode(r, a, p, l)
      PROVE  IInv'
    BY <1>2, RedeemStep DEF StartAddByCode
<1>3. ASSUME NEW p \in ProfileIds, NEW t \in Trainers,
             (\E a \in Accounts : StartRemove(r, a, p, t)) \/ StartRosterRemove(r, t, p)
      PROVE  IInv'
    <2>1. <<t, p>> \in Pairs /\ UNCHANGED <<profiles, links, assocs, contexts>>
        BY <1>3 DEF Pairs, StartRemove, StartRosterRemove
    <2>2. \E op : Begin(r, op, [Idle EXCEPT !.pc = "findRemoval", !.pair = <<t, p>>])
        BY <1>3 DEF StartRemove, StartRosterRemove
    <2> QED
        BY <2>1, <2>2, StartRemovalStep
<1> QED
    BY <1>1, <1>2, <1>3, StartJoinRegisterStep, StartAddExistingStep, StartCreateChildStep,
       StartSwitchStep, StartRefreshStep DEF StartRequest

(* The invariant is inductive. *)
LEMMA NextStep == IInv /\ [Next]_vars => IInv'
<1> SUFFICES ASSUME IInv, [Next]_vars PROVE IInv'
    OBVIOUS
<1>1. ASSUME NEW r \in Requests, Continue(r) PROVE IInv'
    BY <1>1, FindEmailStep, CreateAccountStep, RequireSelfProfileStep, FindStep, CommitStep,
       CreateChildStep, FindRemovalStep, DeactivateStep, ClearForAssociationStep, SwitchStep,
       SaveSessionStep DEF Continue
<1>2. ASSUME NEW r \in Requests, Fail(r) PROVE IInv'
    BY <1>2, QuietFinish DEF Fail
<1> QED
    BY <1>1, <1>2, StartRequestStep, CreateLinkStep, RegisterStep, ClearContextStep,
       UnchangedStep DEF Next

----------------------------------------------------------------------------
(* Tables and in-flight requests agree, whatever the other requests did    *)
(* since each read what it holds.                                          *)
THEOREM Invariance == Spec => []IInv
BY InitInvariant, NextStep, PTL DEF Spec

(* A family is connected only to trainers one of whose codes it redeemed.  *)
THEOREM FamiliesComeByCode == Spec => []FamilyJoinedByCode
<1>1. IInv => FamilyJoinedByCode
    <2> SUFFICES ASSUME IInv, NEW k \in DOMAIN assocs
                 PROVE  \E p \in DOMAIN profiles :
                          /\ profiles[p].owner = profiles[k[2]].owner
                          /\ <<k[1], p>> \in DOMAIN assocs
                          /\ PlayerLinkOf(k[1], assocs[<<k[1], p>>].link)
        BY DEF FamilyJoinedByCode
    <2>1. Founded(k[1], profiles[k[2]].owner)
        BY DEF IInv
    <2>2. PICK p \in Owned(profiles[k[2]].owner) :
            <<k[1], p>> \in DOMAIN assocs /\ assocs[<<k[1], p>>].born # None
        BY <2>1 DEF Founded
    <2>3. RowOK(k[1], assocs[<<k[1], p>>])
        BY <2>2 DEF IInv
    <2> QED
        BY <2>2, <2>3 DEF Owned, RowOK
<1> QED
    BY <1>1, Invariance, PTL

(* Any number of concurrent redemptions of one link make one self profile  *)
(* of an account.                                                          *)
THEOREM OneSelfProfilePerLink == Spec => []SelfProfilePerLink
<1>1. IInv => SelfProfilePerLink
    BY DEF IInv
<1> QED
    BY <1>1, Invariance, PTL

(* No session ever looks outside its family, or at a trainer never joined. *)
THEOREM ContextsStayInFamily == Spec => []ContextsWithinFamily
<1>1. IInv => ContextsWithinFamily
    BY DEF IInv
<1> QED
    BY <1>1, Invariance, PTL
=============================================================================
