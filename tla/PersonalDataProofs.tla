-------------------------- MODULE PersonalDataProofs --------------------------
(***************************************************************************)
(* Proofs about PersonalData, for any accounts, rows, files, forms and     *)
(* number of requests in flight.                                           *)
(*                                                                         *)
(* An erasure is for good and a file stays with the row it was uploaded    *)
(* for (Evolves), so what a request remembers stays true.  Only an erasure *)
(* makes a row Gone, and sweeps it in the same step; whoever is served for *)
(* a row shows that it is not Gone.  Every picture a row can get is its    *)
(* own upload or one a row or a request already knows; an upload on its    *)
(* way is known to nobody else, which is why discarding what was replaced  *)
(* never takes a file in use.                                              *)
(***************************************************************************)
EXTENDS PersonalData, TLAPS

TablesOK ==
    /\ accounts \in [Accounts -> {"none", "active", "deleted"}]
    /\ rows \in [Rows -> Row]
    /\ assets \in [Assets -> Asset]
    /\ DOMAIN forms \subseteq Forms
    /\ \A f \in DOMAIN forms : forms[f] \in CampSubmission
    /\ PhotosAreStored
    /\ ErasedIsBlank
    /\ PicturesOK

Evolves ==
    /\ Erased \subseteq Erased'
    /\ DOMAIN forms \subseteq DOMAIN forms'
    /\ \A n \in Assets : assets[n].state # "unused" =>
         assets'[n].state # "unused" /\ assets'[n].home = assets[n].home

LEMMA PartsOfIInv ==
    IInv <=> /\ TablesOK
             /\ reqs \in [Requests -> Request]
             /\ DiscardsOK
             /\ UploadsOK
             /\ \A r \in Requests : LocalsOK(r)
BY DEF IInv, TablesOK, TypeOK

LEMMA BlankRow ==
    /\ Blank \in Row
    /\ Blank.picture = None /\ ~Blank.text /\ Blank.skill = "unset" /\ ~Blank.late
BY DEF Blank, Row, Nullable

LEMMA IdleRequest ==
    /\ Idle \in Request
    /\ Idle.pc = "idle" /\ Idle.seen = Blank /\ Idle.doomed = {} /\ Idle.logins = {}
    /\ Idle.upload = None /\ ~Idle.admin /\ ~Idle.after
BY BlankRow DEF Idle, Request, PCs, Nullable

LEMMA InitInvariant == Init => IInv
<1> SUFFICES ASSUME Init PROVE IInv
    OBVIOUS
<1>1. \A x \in Rows : rows[x] \in Row /\ rows[x].picture = None
    BY BlankRow DEF Init, Row
<1>2. Erased = {} /\ \A x \in Rows : ~Gone(x)
    BY RowsAssumption DEF Init, Erased, Gone
<1>3. \A n \in Assets : assets[n] \in Asset
    BY DEF Init, Asset, Nullable
<1>4. TablesOK
    BY <1>1, <1>2, <1>3
       DEF Init, TablesOK, PhotosAreStored, ErasedIsBlank, Personal, PicturesOK
<1>5. \A r \in Requests : reqs[r] = Idle
    BY DEF Init
<1>6. reqs \in [Requests -> Request]
    BY IdleRequest DEF Init
<1>7. DiscardsOK /\ UploadsOK /\ \A r \in Requests : LocalsOK(r)
    BY <1>5, IdleRequest, BlankRow DEF DiscardsOK, UploadsOK, LocalsOK, At
<1> QED
    BY <1>4, <1>6, <1>7, PartsOfIInv

----------------------------------------------------------------------------
(* What outlasts a step. *)

LEMMA LocalsKept ==
    ASSUME TablesOK, Evolves, NEW s \in Requests, reqs[s] \in Request, LocalsOK(s),
           \A n \in reqs[s].doomed : assets[n].state # "unused", reqs'[s] = reqs[s]
    PROVE  LocalsOK(s)'
<1> DEFINE q == reqs[s]
<1>1. q.seen.picture \in Nullable(Assets) /\ q.doomed \subseteq Assets
    BY DEF Request, Row
<1>2. q.seen.picture # None =>
        /\ assets'[q.seen.picture].home = q.row
        /\ assets'[q.seen.picture].state # "unused"
    BY <1>1 DEF LocalsOK, Evolves, Nullable
<1>3. q.pc = "erase" =>
        \A n \in q.doomed : assets'[n].home \in Swept(q.target, {q.target})
    BY <1>1 DEF LocalsOK, Evolves
<1>4. q.pc \in {"register", "convert", "send"} =>
        /\ q.form \in DOMAIN forms'
        /\ q.after => Addressee[q.form] \in Erased'
    BY DEF LocalsOK, Evolves
<1> QED
    BY <1>2, <1>3, <1>4 DEF LocalsOK, IsChild, Swept

LEMMA StepOf ==
    ASSUME IInv, NEW r \in Requests, TablesOK', Evolves,
           NEW q \in Request, reqs' = [reqs EXCEPT ![r] = q], LocalsOK(r)',
           DiscardsOK', UploadsOK'
    PROVE  IInv'
<1>1. /\ TablesOK /\ reqs \in [Requests -> Request] /\ DiscardsOK
      /\ \A s \in Requests : LocalsOK(s)
    BY PartsOfIInv
<1>2. /\ reqs' \in [Requests -> Request]
      /\ \A s \in Requests \ {r} : reqs'[s] = reqs[s]
    BY <1>1
<1>3. ASSUME NEW s \in Requests PROVE LocalsOK(s)'
    <2>1. CASE s = r
        BY <2>1
    <2>2. CASE s # r
        <3>1. \A n \in reqs[s].doomed : assets[n].state # "unused"
            BY <1>1 DEF DiscardsOK
        <3> QED
            BY <2>2, <3>1, <1>1, <1>2, LocalsKept
    <2> QED
        BY <2>1, <2>2
<1> QED
    BY <1>2, <1>3 DEF IInv, TablesOK, TypeOK

(* The pictures r knows of: those of rows and of the row it read.          *)
Known(r) == {rows[x].picture : x \in Rows} \cup {reqs[r].seen.picture, None}

(* A step that touches no file, and after which no row and no local of r   *)
(* has a picture that neither a row nor r had before.                      *)
LEMMA QuietStep ==
    ASSUME IInv, NEW r \in Requests, TablesOK', Evolves, UNCHANGED assets,
           NEW q \in Request, reqs' = [reqs EXCEPT ![r] = q], LocalsOK(r)',
           \A x \in Rows : rows'[x].picture \in Known(r),
           \A x \in Rows : Kind[x] # "org" => rows'[x].picture \in {rows[x].picture, None},
           q.seen.picture \in Known(r),
           \A n \in q.doomed : assets[n].state # "unused" /\ n \in reqs[r].doomed \cup Known(r),
           q.pc = "persist" => q.upload = None,
           q.pc = "discard" => \A n \in q.doomed : \A x \in Rows :
             Kind[x] # "org" => rows'[x].picture # n
    PROVE  IInv'
<1>1. DiscardsOK /\ UploadsOK /\ reqs \in [Requests -> Request] /\ TablesOK
    BY PartsOfIInv
<1>2. reqs'[r] = q /\ \A s \in Requests \ {r} : reqs'[s] = reqs[s]
    BY <1>1
<1>3. DiscardsOK'
    <2> SUFFICES ASSUME NEW s \in Requests, NEW n \in reqs'[s].doomed
                 PROVE  /\ assets[n].state # "unused"
                        /\ reqs'[s].pc = "discard" =>
                             \A x \in Rows : Kind[x] # "org" => rows'[x].picture # n
        BY DEF DiscardsOK, At
    <2>1. CASE s = r
        BY <2>1, <1>2
    <2>2. CASE s # r
        <3>1. n \in Assets /\ n # None
            BY <2>2, <1>1, <1>2, NoneAssumption DEF Request
        <3> QED
            BY <2>2, <3>1, <1>1, <1>2 DEF DiscardsOK, At
    <2> QED
        BY <2>1, <2>2
<1>4. UploadsOK'
    <2> SUFFICES ASSUME NEW s \in Requests, reqs'[s].pc = "persist", reqs'[s].upload # None
                 PROVE  LET n == reqs'[s].upload IN
                        /\ assets[n] = [state |-> "stored", home |-> reqs'[s].row]
                        /\ \A x \in Rows : rows'[x].picture # n
                        /\ \A t \in Requests :
                             /\ n \notin reqs'[t].doomed
                             /\ reqs'[t].seen.picture # n
                             /\ t # s /\ reqs'[t].pc = "persist" => reqs'[t].upload # n
        BY DEF UploadsOK, At
    <2> DEFINE n == reqs[s].upload
    <2>1. s # r /\ reqs'[s] = reqs[s]
        BY <1>2
    <2>2. /\ assets[n] = [state |-> "stored", home |-> reqs[s].row]
          /\ \A x \in Rows : rows[x].picture # n
          /\ \A t \in Requests :
               /\ n \notin reqs[t].doomed
               /\ reqs[t].seen.picture # n
               /\ t # s /\ reqs[t].pc = "persist" => reqs[t].upload # n
        BY <2>1, <1>1 DEF UploadsOK, At
    <2>3. n # None /\ n \notin Known(r)
        BY <2>1, <2>2 DEF Known
    <2>4. ASSUME NEW t \in Requests
          PROVE  /\ n \notin reqs'[t].doomed
                 /\ reqs'[t].seen.picture # n
                 /\ t # s /\ reqs'[t].pc = "persist" => reqs'[t].upload # n
        <3>1. CASE t = r
            BY <3>1, <2>2, <2>3, <1>2
        <3>2. CASE t # r
            BY <3>2, <2>2, <1>2
        <3> QED
            BY <3>1, <3>2
    <2> QED
        BY <2>1, <2>2, <2>3, <2>4
<1> QED
    BY <1>3, <1>4, StepOf

LEMMA QuietFinish ==
    ASSUME IInv, NEW r \in Requests, TablesOK', Evolves, UNCHANGED assets, Finish(r),
           \A x \in Rows : rows'[x].picture \in Known(r),
           \A x \in Rows : Kind[x] # "org" => rows'[x].picture \in {rows[x].picture, None}
    PROVE  IInv'
<1>1. reqs' = [reqs EXCEPT ![r] = Idle] /\ reqs'[r] = Idle
    BY PartsOfIInv DEF Finish
<1>2. LocalsOK(r)'
    BY <1>1, IdleRequest, BlankRow DEF LocalsOK
<1>3. Idle.seen.picture \in Known(r)
    BY IdleRequest, BlankRow DEF Known
<1> QED
    BY <1>1, <1>2, <1>3, IdleRequest, QuietStep

(* Nothing is erased, and nothing comes back, while no account changes.    *)
LEMMA GoneKept ==
    ASSUME UNCHANGED accounts
    PROVE  Erased' = Erased /\ \A z \in Rows : Gone(z)' <=> Gone(z)
BY DEF Erased, Gone

(* Steps that leave the tables alone. *)
LEMMA TablesKept ==
    ASSUME TablesOK, UNCHANGED <<accounts, rows, assets, forms>>
    PROVE  /\ TablesOK' /\ Evolves
           /\ \A r \in Requests : \A x \in Rows : rows'[x].picture \in Known(r)
<1>1. Erased' = Erased /\ \A z \in Rows : Gone(z)' <=> Gone(z)
    BY GoneKept
<1>2. TablesOK'
    BY <1>1 DEF TablesOK, PhotosAreStored, ErasedIsBlank, Personal, PicturesOK
<1> QED
    BY <1>1, <1>2 DEF Evolves, Known

(* One row is written. *)
LEMMA RowWritten ==
    ASSUME TablesOK, NEW x \in Rows, NEW row \in Row, rows' = [rows EXCEPT ![x] = row],
           UNCHANGED <<accounts, assets, forms>>,
           row.picture # None =>
             /\ assets[row.picture].home = x
             /\ assets[row.picture].state # "unused"
             /\ Kind[x] # "self"
             /\ Kind[x] # "org" => assets[row.picture].state = "stored",
           Gone(x) => row.late
    PROVE  TablesOK' /\ Evolves
<1>1. Erased' = Erased /\ \A z \in Rows : Gone(z)' <=> Gone(z)
    BY GoneKept
<1>2. /\ rows' \in [Rows -> Row] /\ rows'[x] = row
      /\ \A y \in Rows \ {x} : rows'[y] = rows[y]
    BY DEF TablesOK
<1>3. PhotosAreStored' /\ PicturesOK'
    BY <1>2 DEF TablesOK, PhotosAreStored, PicturesOK
<1>4. ErasedIsBlank'
    BY <1>1, <1>2 DEF TablesOK, ErasedIsBlank, Personal
<1>5. TablesOK'
    BY <1>1, <1>2, <1>3, <1>4 DEF TablesOK
<1> QED
    BY <1>1, <1>5 DEF Evolves

(* One form is written, or a new one.                                      *)
LEMMA FormWritten ==
    ASSUME TablesOK, NEW f \in Forms, NEW form \in CampSubmission,
           DOMAIN forms' = DOMAIN forms \cup {f}, forms'[f] = form,
           \A g \in DOMAIN forms \ {f} : forms'[g] = forms[g],
           UNCHANGED <<accounts, rows, assets>>,
           Addressee[f] \in Erased /\ form.personal => form.late
    PROVE  TablesOK' /\ Evolves
<1>1. Erased' = Erased /\ \A z \in Rows : Gone(z)' <=> Gone(z)
    BY GoneKept
<1>2. ErasedIsBlank'
    BY <1>1 DEF TablesOK, ErasedIsBlank, Personal
<1>3. PhotosAreStored' /\ PicturesOK'
    BY DEF TablesOK, PhotosAreStored, PicturesOK
<1>4. DOMAIN forms' \subseteq Forms /\ \A g \in DOMAIN forms' : forms'[g] \in CampSubmission
    BY DEF TablesOK
<1>5. TablesOK'
    BY <1>1, <1>2, <1>3, <1>4 DEF TablesOK
<1> QED
    BY <1>1, <1>5 DEF Evolves

----------------------------------------------------------------------------
(* One lemma per action. *)

LEMMA RowRequest ==
    ASSUME NEW pc \in PCs, NEW x \in Rows, NEW admin \in BOOLEAN, NEW seen \in Row,
           NEW after \in BOOLEAN
    PROVE  [Idle EXCEPT !.pc = pc, !.row = x, !.admin = admin, !.seen = seen,
                        !.after = after] \in Request
BY IdleRequest DEF Request, Nullable

LEMMA ReadRowStep ==
    ASSUME IInv, NEW r \in Requests, NEW op, NEW pc \in {"edit", "color", "upload", "persist"},
           NEW x \in Rows, NEW admin \in BOOLEAN, ReadRow(r, op, pc, x, admin),
           admin \/ ~Gone(x),
           pc = "color" => Kind[x] = "org",
           pc \in {"upload", "persist"} => Kind[x] # "self"
    PROVE  IInv'
<1> DEFINE seen == IF pc = "edit" /\ UpdatedInPlace(x) THEN Blank ELSE Entity(x)
<1> DEFINE after == ~admin /\ Gone(x)
<1> DEFINE q == [Idle EXCEPT !.pc = pc, !.row = x, !.admin = admin, !.seen = seen,
                             !.after = after]
<1>1. TablesOK /\ reqs \in [Requests -> Request]
    BY PartsOfIInv
<1>2. reqs' = [reqs EXCEPT ![r] = q] /\ UNCHANGED <<accounts, rows, assets, forms>>
    BY DEF ReadRow, Begin
<1>3. rows[x] \in Row /\ rows[x].picture \in Nullable(Assets)
    BY <1>1 DEF TablesOK, Row
<1>4. seen \in Row /\ seen.picture \in {rows[x].picture, None}
    <2>1. [Blank EXCEPT !.picture = rows[x].picture] \in Row
        BY <1>3 DEF Blank, Row
    <2>2. [Blank EXCEPT !.picture = rows[x].picture].picture = rows[x].picture
        BY DEF Blank
    <2> QED
        BY <1>3, <2>1, <2>2, BlankRow DEF Entity
<1> HIDE DEF seen
<1>5. after \in BOOLEAN /\ ~after
    OBVIOUS
<1> HIDE DEF after
<1>6. /\ q.pc = pc /\ q.row = x /\ q.seen = seen /\ q.after = after
      /\ q.doomed = {} /\ q.upload = None /\ q.logins = {}
    BY DEF Idle
<1>7. q \in Request
    BY <1>4, <1>5, RowRequest DEF PCs
<1>8. reqs'[r] = q
    BY <1>1, <1>2
<1> HIDE DEF q
<1>9. seen.picture # None =>
        /\ assets[seen.picture].home = x
        /\ assets[seen.picture].state # "unused"
        /\ Kind[x] # "self"
    BY <1>1, <1>4 DEF TablesOK, PicturesOK
<1>10. x # None
    BY NoneAssumption
<1>11. LocalsOK(r)'
    BY <1>2, <1>6, <1>8, <1>9, <1>10, <1>5 DEF LocalsOK
<1>12. q.seen.picture \in Known(r)
    BY <1>4, <1>6 DEF Known
<1> QED
    BY <1>1, <1>2, <1>6, <1>7, <1>11, <1>12, TablesKept, QuietStep

(* What an account calls for is not gone while the account is active.      *)
LEMMA CallerKeeps ==
    ASSUME NEW a \in Accounts, NEW x \in Rows, Live(a), a = Owner[x] \/ a = Login[x]
    PROVE  ~Gone(x)
BY NoneAssumption DEF Live, Erased, Gone

LEMMA OwnPictures ==
    ASSUME NEW a \in Accounts, NEW x \in Rows,
           OwnPicture(a, x) \/ OwnedChild(a, x) \/ OwnOrg(a, x)
    PROVE  Kind[x] # "self" /\ (a = Owner[x] \/ a = Login[x])
BY NoneAssumption, RowsAssumption DEF OwnPicture, OwnedChild, OwnOrg

LEMMA EditStarts ==
    ASSUME IInv, NEW r \in Requests, NEW a \in Accounts, NEW x \in Rows,
           \/ UpdateCommon(r, a, x) \/ UpdatePlayer(r, a, x) \/ UpdateOwnChildProfile(r, a, x)
           \/ UpdateChild(r, a, x) \/ UpdateTrainer(r, a, x)
    PROVE  IInv'
<1>1. Live(a) /\ (a = Owner[x] \/ a = Login[x]) /\ ReadRow(r, "edit", "edit", x, FALSE)
    BY DEF UpdateCommon, UpdatePlayer, UpdateOwnChildProfile, UpdateChild, UpdateTrainer
<1>2. ~Gone(x)
    BY <1>1, CallerKeeps
<1> QED
    BY <1>1, <1>2, ReadRowStep

LEMMA PictureStarts ==
    ASSUME IInv, NEW r \in Requests, NEW a \in Accounts, NEW x \in Rows,
           \/ UploadPhoto(r, a, x) \/ UploadChildPhoto(r, a, x) \/ SetLogoFromUpload(r, a, x)
           \/ RemovePhoto(r, a, x) \/ RemoveChildPhoto(r, a, x) \/ RemoveLogo(r, a, x)
    PROVE  IInv'
<1>1. OwnPicture(a, x) \/ OwnedChild(a, x) \/ OwnOrg(a, x)
    BY DEF UploadPhoto, UploadChildPhoto, SetLogoFromUpload, RemovePhoto, RemoveChildPhoto, RemoveLogo
<1>2. \/ ReadRow(r, "picture", "upload", x, FALSE) /\ Live(a)
      \/ ReadRow(r, "remove", "persist", x, FALSE) /\ Live(a)
    BY DEF UploadPhoto, UploadChildPhoto, SetLogoFromUpload, RemovePhoto, RemoveChildPhoto,
           RemoveLogo, StartPicture, StartRemoval
<1>3. Kind[x] # "self" /\ ~Gone(x)
    BY <1>1, <1>2, OwnPictures, CallerKeeps
<1> QED
    BY <1>2, <1>3, ReadRowStep

LEMMA AdminStarts ==
    ASSUME IInv, NEW r \in Requests, NEW x \in Rows,
           UpdateUser(r, x) \/ UpdatePlayerProfile(r, x) \/ UpdateTrainerProfile(r, x)
    PROVE  IInv'
<1>1. ReadRow(r, "adminEdit", "edit", x, TRUE)
    BY DEF UpdateUser, UpdatePlayerProfile, UpdateTrainerProfile, AdminUpdate
<1> QED
    BY <1>1, ReadRowStep

LEMMA ColorStarts ==
    ASSUME IInv, NEW r \in Requests, NEW x \in Rows, StartSetPrimaryColor(r, x)
    PROVE  IInv'
<1>1. Kind[x] = "org" /\ Live(Owner[x]) /\ ReadRow(r, "color", "color", x, FALSE)
    BY DEF StartSetPrimaryColor
<1>2. ~Gone(x)
    BY <1>1, RowsAssumption, CallerKeeps
<1> QED
    BY <1>1, <1>2, ReadRowStep

(* What a request that is about to write its row knows of it.              *)
LEMMA SeenRow ==
    ASSUME IInv, NEW r \in Requests, reqs[r].pc \in {"edit", "color", "upload", "persist"}
    PROVE  /\ reqs[r] \in Request /\ reqs[r].row \in Rows /\ reqs[r].seen \in Row
           /\ rows[reqs[r].row] \in Row
           /\ ~reqs[r].after
           /\ reqs[r].seen.picture # None =>
                /\ assets[reqs[r].seen.picture].home = reqs[r].row
                /\ assets[reqs[r].seen.picture].state # "unused"
                /\ Kind[reqs[r].row] # "self"
<1>1. reqs[r] \in Request /\ LocalsOK(r) /\ TablesOK
    BY PartsOfIInv
<1>2. reqs[r].row \in Rows /\ reqs[r].seen \in Row
    BY <1>1 DEF LocalsOK, Request, Nullable
<1> QED
    BY <1>1, <1>2 DEF LocalsOK, TablesOK

(* A row written from the one in place or the one read, with the picture   *)
(* it has there.                                                           *)
LEMMA SeenWritten ==
    ASSUME IInv, NEW r \in Requests, reqs[r].pc \in {"edit", "color"}, NEW row \in Row,
           NEW now \in Row, rows' = [rows EXCEPT ![reqs[r].row] = Written(r, reqs[r].row, now, row)],
           \/ row.picture = rows[reqs[r].row].picture
           \/ row.picture = reqs[r].seen.picture /\ ~UpdatedInPlace(reqs[r].row),
           Finish(r), UNCHANGED <<accounts, assets, forms>>
    PROVE  IInv'
<1> DEFINE x == reqs[r].row
<1> DEFINE new == Written(r, x, now, row)
<1>1. TablesOK /\ x \in Rows /\ ~reqs[r].after /\ reqs \in [Requests -> Request]
    BY SeenRow, PartsOfIInv
<1>2. new \in Row /\ new.picture = row.picture /\ new.late = (now.late \/ Late(r, Gone(x)))
    BY DEF Written, Row, Late
<1>3. rows' = [rows EXCEPT ![x] = new]
    OBVIOUS
<1> HIDE DEF new
<1>4. rows[x].picture # None =>
        /\ assets[rows[x].picture].home = x
        /\ assets[rows[x].picture].state # "unused"
        /\ Kind[x] # "self"
        /\ Kind[x] # "org" => assets[rows[x].picture].state = "stored"
    BY <1>1 DEF TablesOK, PicturesOK, PhotosAreStored
<1>5. ~UpdatedInPlace(x) => Kind[x] \in {"self", "org"}
    BY <1>1, RowsAssumption DEF UpdatedInPlace
<1>6. /\ new.picture \in {rows[x].picture, reqs[r].seen.picture}
      /\ Kind[x] # "org" => new.picture \in {rows[x].picture, None}
    BY <1>2, <1>5, SeenRow
<1>7. new.picture # None =>
        /\ assets[new.picture].home = x
        /\ assets[new.picture].state # "unused"
        /\ Kind[x] # "self"
        /\ Kind[x] # "org" => assets[new.picture].state = "stored"
    BY <1>4, <1>6, SeenRow
<1>8. Gone(x) => new.late
    BY <1>1, <1>2 DEF Late
<1>9. TablesOK' /\ Evolves
    BY <1>1, <1>2, <1>3, <1>7, <1>8, RowWritten
<1>10. \A y \in Rows :
         /\ rows'[y].picture \in Known(r)
         /\ Kind[y] # "org" => rows'[y].picture \in {rows[y].picture, None}
    BY <1>1, <1>3, <1>6 DEF Known, TablesOK
<1> QED
    BY <1>9, <1>10, QuietFinish

LEMMA EditStep ==
    ASSUME IInv, NEW r \in Requests, Edit(r)
    PROVE  IInv'
<1> DEFINE x == reqs[r].row
<1> DEFINE now == IF UpdatedInPlace(x) THEN rows[x] ELSE reqs[r].seen
<1> DEFINE row == [now EXCEPT !.text = TRUE]
<1>1. reqs[r].pc = "edit"
    BY DEF Edit, At
<1>2. now \in Row
    BY <1>1, SeenRow
<1>3. row \in Row /\ row.picture = now.picture
    BY <1>2 DEF Row
<1>4. /\ rows' = [rows EXCEPT ![x] = Written(r, x, now, row)]
      /\ Finish(r) /\ UNCHANGED <<accounts, assets, forms>>
    BY DEF Edit
<1>5. \/ row.picture = rows[x].picture
      \/ row.picture = reqs[r].seen.picture /\ ~UpdatedInPlace(x)
    BY <1>3
<1> HIDE DEF row, now
<1> QED
    BY <1>1, <1>2, <1>3, <1>4, <1>5, SeenWritten

LEMMA SetPrimaryColorStep ==
    ASSUME IInv, NEW r \in Requests, SetPrimaryColor(r)
    PROVE  IInv'
<1>1. reqs[r].pc = "color"
    BY DEF SetPrimaryColor, At
<1>2. ~UpdatedInPlace(reqs[r].row)
    BY <1>1, PartsOfIInv DEF LocalsOK, UpdatedInPlace
<1>3. reqs[r].seen \in Row
    BY <1>1, SeenRow
<1> QED
    BY <1>1, <1>2, <1>3, SeenWritten DEF SetPrimaryColor

LEMMA SkillStarts ==
    ASSUME IInv, NEW r \in Requests, NEW a \in Accounts, NEW x \in Rows,
           StartSetSkillLevel(r, a, x)
    PROVE  IInv'
<1> DEFINE q == [Idle EXCEPT !.pc = "skill", !.row = x]
<1>1. TablesOK /\ reqs \in [Requests -> Request]
    BY PartsOfIInv
<1>2. reqs' = [reqs EXCEPT ![r] = q] /\ UNCHANGED <<accounts, rows, assets, forms>>
    BY DEF StartSetSkillLevel, Begin
<1>3. q \in Request
    BY IdleRequest DEF Request, PCs, Nullable
<1>4. q.pc = "skill" /\ q.row # None /\ q.seen.picture = None /\ q.doomed = {}
    BY BlankRow, NoneAssumption DEF Idle
<1> HIDE DEF q
<1>5. LocalsOK(r)'
    BY <1>1, <1>2, <1>4 DEF LocalsOK
<1>6. q.seen.picture \in Known(r)
    BY <1>4 DEF Known
<1> QED
    BY <1>1, <1>2, <1>3, <1>4, <1>5, <1>6, TablesKept, QuietStep

(* A level given to an erased account's player is one set since.           *)
LEMMA SetSkillLevelStep ==
    ASSUME IInv, NEW r \in Requests, SetSkillLevel(r)
    PROVE  IInv'
<1> DEFINE x == reqs[r].row
<1> DEFINE given == IF Gone(x) THEN "again" ELSE "set"
<1>1. TablesOK /\ reqs \in [Requests -> Request] /\ LocalsOK(r) /\ reqs[r].pc = "skill"
    BY PartsOfIInv DEF SetSkillLevel, At
<1>2. x \in Rows
    BY <1>1 DEF LocalsOK, Request, Nullable
<1>3. PICK level \in {given, "unset"} : rows' = [rows EXCEPT ![x].skill = level]
    BY DEF SetSkillLevel
<1> DEFINE new == [rows[x] EXCEPT !.skill = level]
<1>4. rows' = [rows EXCEPT ![x] = new] /\ rows[x] \in Row
    BY <1>1, <1>2, <1>3 DEF TablesOK
<1>5. level \in {"unset", "set", "again"} /\ (Gone(x) => level # "set")
    OBVIOUS
<1> HIDE DEF given
<1>6. /\ new \in Row /\ new.skill = level /\ new.text = rows[x].text
      /\ new.picture = rows[x].picture /\ new.late = rows[x].late
    BY <1>4, <1>5 DEF Row
<1> HIDE DEF new
<1>7. /\ rows' \in [Rows -> Row] /\ rows'[x] = new
      /\ \A y \in Rows \ {x} : rows'[y] = rows[y]
    BY <1>1, <1>2, <1>4, <1>6 DEF TablesOK
<1>8. \A y \in Rows : rows'[y].picture = rows[y].picture
    BY <1>6, <1>7
<1>9. /\ Finish(r) /\ UNCHANGED <<accounts, assets, forms>>
      /\ Erased' = Erased /\ \A y \in Rows : Gone(y)' <=> Gone(y)
    BY GoneKept DEF SetSkillLevel
<1>10. PhotosAreStored' /\ PicturesOK'
    BY <1>1, <1>8, <1>9 DEF TablesOK, PhotosAreStored, PicturesOK
<1>11. ErasedIsBlank'
    <2>1. ASSUME NEW y \in Rows, Gone(y), Personal(y)' PROVE rows'[y].late
        <3>1. CASE y = x
            BY <2>1, <3>1, <1>1, <1>5, <1>6, <1>7 DEF TablesOK, ErasedIsBlank, Personal
        <3>2. CASE y # x
            BY <2>1, <3>2, <1>1, <1>7 DEF TablesOK, ErasedIsBlank, Personal
        <3> QED
            BY <3>1, <3>2
    <2> QED
        BY <2>1, <1>1, <1>9 DEF TablesOK, ErasedIsBlank
<1>12. TablesOK' /\ Evolves
    BY <1>1, <1>7, <1>9, <1>10, <1>11 DEF TablesOK, Evolves
<1>13. \A y \in Rows : rows'[y].picture \in Known(r)
    BY <1>8 DEF Known
<1> QED
    BY <1>8, <1>9, <1>12, <1>13, QuietFinish

(* The new file was unused: no row and no local knows it.                  *)
LEMMA UploadStep ==
    ASSUME IInv, NEW r \in Requests, Upload(r)
    PROVE  IInv'
<1>1. /\ TablesOK /\ reqs \in [Requests -> Request] /\ DiscardsOK /\ UploadsOK
      /\ \A s \in Requests : LocalsOK(s)
      /\ reqs[r].pc = "upload"
    BY PartsOfIInv DEF Upload, At
<1> DEFINE x == reqs[r].row
<1>2. PICK n \in Assets :
        /\ assets[n].state = "unused"
        /\ assets' = [assets EXCEPT ![n] = [state |-> "stored", home |-> x]]
        /\ reqs' = [reqs EXCEPT ![r].pc = "persist", ![r].upload = n]
    BY DEF Upload
<1>3. UNCHANGED <<accounts, rows, forms>>
    BY DEF Upload
<1>4. /\ assets'[n] = [state |-> "stored", home |-> x]
      /\ \A k \in Assets \ {n} : assets'[k] = assets[k]
    BY <1>1, <1>2 DEF TablesOK
<1>5. reqs[r] \in Request /\ x \in Rows /\ n # None
    BY <1>1, <1>2, SeenRow, NoneAssumption
<1>6. \A y \in Rows : rows[y].picture # n /\ rows[y].picture \in Nullable(Assets)
    BY <1>2, <1>5, <1>1 DEF TablesOK, PicturesOK, Row
<1>7. Erased' = Erased /\ \A z \in Rows : Gone(z)' <=> Gone(z)
    BY <1>3, GoneKept
<1>8. assets' \in [Assets -> Asset]
    BY <1>1, <1>2, <1>5 DEF TablesOK, Asset, Nullable
<1>9. TablesOK' /\ Evolves
    <2>1. PhotosAreStored' /\ PicturesOK'
        BY <1>1, <1>3, <1>4, <1>6 DEF TablesOK, PhotosAreStored, PicturesOK, Nullable
    <2>2. ErasedIsBlank'
        BY <1>1, <1>3, <1>7 DEF TablesOK, ErasedIsBlank, Personal
    <2> QED
        BY <1>1, <1>2, <1>3, <1>4, <1>7, <1>8, <2>1, <2>2 DEF TablesOK, Evolves
<1> DEFINE q == [reqs[r] EXCEPT !.pc = "persist", !.upload = n]
<1>10. reqs' = [reqs EXCEPT ![r] = q]
    BY <1>2
<1>11. q \in Request
    BY <1>5 DEF Request, PCs, Nullable
<1>12. /\ q.pc = "persist" /\ q.upload = n /\ q.row = x /\ q.seen = reqs[r].seen
       /\ q.doomed = reqs[r].doomed /\ q.after = reqs[r].after
    BY <1>5 DEF Request
<1> HIDE DEF q
<1>13. reqs'[r] = q /\ \A s \in Requests \ {r} : reqs'[s] = reqs[s]
    BY <1>1, <1>10
<1>14. \A s \in Requests :
         /\ n \notin reqs[s].doomed
         /\ reqs[s].pc = "persist" => reqs[s].upload # n
         /\ reqs[s].seen.picture # n
         /\ reqs[s].doomed \subseteq Assets
    <2> SUFFICES ASSUME NEW s \in Requests
                 PROVE  /\ n \notin reqs[s].doomed
                        /\ reqs[s].pc = "persist" => reqs[s].upload # n
                        /\ reqs[s].seen.picture # n
                        /\ reqs[s].doomed \subseteq Assets
        OBVIOUS
    <2>1. n \notin reqs[s].doomed /\ reqs[s].doomed \subseteq Assets
        BY <1>1, <1>2 DEF DiscardsOK, Request
    <2>2. reqs[s].seen.picture # n
        BY <1>1, <1>2, <1>5 DEF LocalsOK
    <2>3. reqs[s].pc = "persist" => reqs[s].upload # n
        <3> SUFFICES ASSUME reqs[s].pc = "persist", reqs[s].upload = n PROVE FALSE
            OBVIOUS
        <3>1. assets[n] = [state |-> "stored", home |-> reqs[s].row]
            BY <1>1, <1>5 DEF UploadsOK, At
        <3> QED
            BY <3>1, <1>2
    <2> QED
        BY <2>1, <2>2, <2>3
<1>15. DiscardsOK'
    <2> SUFFICES ASSUME NEW s \in Requests, NEW k \in reqs'[s].doomed
                 PROVE  /\ assets'[k].state # "unused"
                        /\ reqs'[s].pc = "discard" =>
                             \A y \in Rows : Kind[y] # "org" => rows[y].picture # k
        BY <1>3 DEF DiscardsOK, At
    <2>1. k \in reqs[s].doomed /\ k # n /\ k \in Assets
        BY <1>12, <1>13, <1>14
    <2> QED
        BY <2>1, <1>1, <1>4, <1>12, <1>13 DEF DiscardsOK, At
<1>16. UploadsOK'
    <2> SUFFICES ASSUME NEW s \in Requests, reqs'[s].pc = "persist", reqs'[s].upload # None
                 PROVE  LET k == reqs'[s].upload IN
                        /\ assets'[k] = [state |-> "stored", home |-> reqs'[s].row]
                        /\ \A y \in Rows : rows[y].picture # k
                        /\ \A t \in Requests :
                             /\ k \notin reqs'[t].doomed
                             /\ reqs'[t].seen.picture # k
                             /\ t # s /\ reqs'[t].pc = "persist" => reqs'[t].upload # k
        BY <1>3 DEF UploadsOK, At
    <2>1. CASE s = r
        BY <2>1, <1>4, <1>6, <1>12, <1>13, <1>14
    <2>2. CASE s # r
        <3>1. reqs[s].upload \in Assets \ {n}
            BY <2>2, <1>1, <1>13, <1>14 DEF Request, Nullable
        <3>2. /\ assets[reqs[s].upload] = [state |-> "stored", home |-> reqs[s].row]
              /\ \A y \in Rows : rows[y].picture # reqs[s].upload
              /\ \A t \in Requests :
                   /\ reqs[s].upload \notin reqs[t].doomed
                   /\ reqs[t].seen.picture # reqs[s].upload
                   /\ t # s /\ reqs[t].pc = "persist" => reqs[t].upload # reqs[s].upload
            BY <2>2, <1>1, <1>13 DEF UploadsOK, At
        <3> QED
            BY <2>2, <3>1, <3>2, <1>4, <1>12, <1>13
    <2> QED
        BY <2>1, <2>2
<1>17. LocalsOK(r)'
    <2>1. reqs[r].seen.picture \in Nullable(Assets)
        BY <1>5 DEF Request, Row
    <2>2. reqs[r].seen.picture # None => assets'[reqs[r].seen.picture] = assets[reqs[r].seen.picture]
        BY <2>1, <1>4, <1>14 DEF Nullable
    <2>3. LocalsOK(r)
        BY <1>1
    <2> QED
        BY <2>2, <2>3, <1>1, <1>12, <1>13 DEF LocalsOK
<1> QED
    BY <1>9, <1>10, <1>11, <1>15, <1>16, <1>17, StepOf

(* The row leaves its old picture, which alone is discarded, for a file    *)
(* nobody else knows.                                                      *)
LEMMA PersistStep ==
    ASSUME IInv, NEW r \in Requests, Persist(r)
    PROVE  IInv'
<1> DEFINE x == reqs[r].row
<1> DEFINE up == reqs[r].upload
<1> DEFINE now == IF UpdatedInPlace(x) THEN rows[x] ELSE reqs[r].seen
<1> DEFINE new == Written(r, x, now, [now EXCEPT !.picture = up])
<1>1. /\ TablesOK /\ reqs \in [Requests -> Request] /\ DiscardsOK /\ UploadsOK
      /\ LocalsOK(r) /\ reqs[r].pc = "persist"
    BY PartsOfIInv DEF Persist, At
<1>2. /\ rows' = [rows EXCEPT ![x] = new]
      /\ reqs' = [reqs EXCEPT ![r].pc = "discard", ![r].doomed = {reqs[r].seen.picture} \ {None}]
      /\ UNCHANGED <<accounts, assets, forms>>
    BY DEF Persist
<1>3. /\ reqs[r] \in Request /\ x \in Rows /\ now \in Row /\ ~reqs[r].after
      /\ reqs[r].seen.picture \in Nullable(Assets) /\ up \in Nullable(Assets)
    BY <1>1, SeenRow DEF Request, Row
<1>4. new \in Row /\ new.picture = up /\ (Gone(x) => new.late)
    <2>1. [now EXCEPT !.picture = up] \in Row /\ [now EXCEPT !.picture = up].picture = up
        BY <1>3 DEF Row
    <2> QED
        BY <1>3, <2>1 DEF Written, Late, Row
<1> HIDE DEF new, now
<1>5. up # None => /\ assets[up] = [state |-> "stored", home |-> x]
                   /\ \A y \in Rows : rows[y].picture # up
                   /\ \A s \in Requests :
                        /\ up \notin reqs[s].doomed
                        /\ reqs[s].seen.picture # up
                        /\ s # r /\ reqs[s].pc = "persist" => reqs[s].upload # up
    BY <1>1 DEF UploadsOK, At
<1>6. TablesOK' /\ Evolves
    <2>1. new.picture # None =>
            /\ assets[new.picture].home = x
            /\ assets[new.picture].state = "stored"
            /\ Kind[x] # "self"
        BY <1>1, <1>4, <1>5 DEF LocalsOK
    <2> QED
        BY <2>1, <1>1, <1>2, <1>3, <1>4, RowWritten
<1> DEFINE old == {reqs[r].seen.picture} \ {None}
<1> DEFINE q == [reqs[r] EXCEPT !.pc = "discard", !.doomed = old]
<1>7. reqs' = [reqs EXCEPT ![r] = q]
    BY <1>2
<1>8. q \in Request
    BY <1>3 DEF Request, PCs, Nullable
<1>9. /\ q.pc = "discard" /\ q.row = x /\ q.seen = reqs[r].seen /\ q.doomed = old
    BY <1>3 DEF Request
<1> HIDE DEF q
<1>10. reqs'[r] = q /\ \A s \in Requests \ {r} : reqs'[s] = reqs[s]
    BY <1>1, <1>7
<1>11. rows'[x].picture = up /\ \A y \in Rows \ {x} : rows'[y] = rows[y]
    BY <1>1, <1>2, <1>3, <1>4 DEF TablesOK
<1>12. DiscardsOK'
    <2> SUFFICES ASSUME NEW s \in Requests, NEW n \in reqs'[s].doomed
                 PROVE  /\ assets[n].state # "unused"
                        /\ reqs'[s].pc = "discard" =>
                             \A y \in Rows : Kind[y] # "org" => rows'[y].picture # n
        BY <1>2 DEF DiscardsOK, At
    <2>1. CASE s = r
        <3>1. n = reqs[r].seen.picture /\ n # None
            BY <2>1, <1>9, <1>10
        <3>2. assets[n].home = x /\ assets[n].state # "unused" /\ up # n
            BY <3>1, <1>1, <1>5 DEF LocalsOK
        <3>3. \A y \in Rows \ {x} : rows[y].picture # n
            BY <3>1, <3>2, <1>1 DEF TablesOK, PicturesOK
        <3> QED
            BY <3>2, <3>3, <1>11
    <2>2. CASE s # r
        <3>1. n \in reqs[s].doomed /\ up # n
            BY <2>2, <1>1, <1>5, <1>10, NoneAssumption DEF Request
        <3> QED
            BY <2>2, <3>1, <1>1, <1>10, <1>11 DEF DiscardsOK, At
    <2> QED
        BY <2>1, <2>2
<1>13. UploadsOK'
    <2> SUFFICES ASSUME NEW s \in Requests, reqs'[s].pc = "persist", reqs'[s].upload # None
                 PROVE  LET n == reqs'[s].upload IN
                        /\ assets[n] = [state |-> "stored", home |-> reqs'[s].row]
                        /\ \A y \in Rows : rows'[y].picture # n
                        /\ \A t \in Requests :
                             /\ n \notin reqs'[t].doomed
                             /\ reqs'[t].seen.picture # n
                             /\ t # s /\ reqs'[t].pc = "persist" => reqs'[t].upload # n
        BY <1>2 DEF UploadsOK, At
    <2> DEFINE n == reqs[s].upload
    <2>1. s # r /\ reqs'[s] = reqs[s]
        BY <1>9, <1>10
    <2>2. /\ assets[n] = [state |-> "stored", home |-> reqs[s].row]
          /\ \A y \in Rows : rows[y].picture # n
          /\ \A t \in Requests :
               /\ n \notin reqs[t].doomed
               /\ reqs[t].seen.picture # n
               /\ t # s /\ reqs[t].pc = "persist" => reqs[t].upload # n
        BY <2>1, <1>1 DEF UploadsOK, At
    <2>3. up # n
        BY <2>1, <2>2, <1>1
    <2>4. n \notin old
        BY <2>2
    <2> HIDE DEF old
    <2> QED
        BY <2>1, <2>2, <2>3, <2>4, <1>9, <1>10, <1>11
<1>14. LocalsOK(r)'
    BY <1>1, <1>2, <1>9, <1>10 DEF LocalsOK
<1> QED
    BY <1>6, <1>7, <1>8, <1>12, <1>13, <1>14, StepOf

(* What is discarded is no photo and nobody's upload.                      *)
LEMMA DiscardAssetsStep ==
    ASSUME IInv, NEW r \in Requests, DiscardAssets(r)
    PROVE  IInv'
<1>1. /\ TablesOK /\ reqs \in [Requests -> Request] /\ DiscardsOK /\ UploadsOK
      /\ reqs[r].pc = "discard"
    BY PartsOfIInv DEF DiscardAssets, At
<1>2. PICK lost \in SUBSET reqs[r].doomed :
        assets' = [n \in Assets |-> IF n \in reqs[r].doomed \ lost
                                    THEN [assets[n] EXCEPT !.state = "gone"] ELSE assets[n]]
    BY DEF DiscardAssets
<1>3. Finish(r) /\ UNCHANGED <<accounts, rows, forms>>
    BY DEF DiscardAssets
<1>4. \A n \in Assets :
        /\ assets'[n] \in Asset
        /\ assets'[n].home = assets[n].home
        /\ assets[n].state # "unused" => assets'[n].state # "unused"
        /\ n \notin reqs[r].doomed => assets'[n] = assets[n]
    BY <1>1, <1>2 DEF TablesOK, Asset
<1>5. Erased' = Erased /\ \A z \in Rows : Gone(z)' <=> Gone(z)
    BY <1>3, GoneKept
<1>6. \A x \in Rows : rows[x].picture \in Nullable(Assets)
    BY <1>1 DEF TablesOK, Row
<1>7. PhotosAreStored' /\ PicturesOK'
    <2>1. \A x \in Rows : Kind[x] # "org" => rows[x].picture \notin reqs[r].doomed
        BY <1>1 DEF DiscardsOK, At
    <2>2. \A x \in Rows : Kind[x] # "org" /\ rows[x].picture # None =>
            assets'[rows[x].picture] = assets[rows[x].picture]
        BY <2>1, <1>4, <1>6 DEF Nullable
    <2>3. PhotosAreStored'
        BY <2>2, <1>1, <1>3 DEF TablesOK, PhotosAreStored
    <2>4. PicturesOK'
        BY <1>1, <1>3, <1>4, <1>6 DEF TablesOK, PicturesOK, Nullable
    <2> QED
        BY <2>3, <2>4
<1>8. ErasedIsBlank'
    BY <1>1, <1>3, <1>5 DEF TablesOK, ErasedIsBlank, Personal
<1>9. TablesOK' /\ Evolves
    <2>1. assets' \in [Assets -> Asset]
        BY <1>2, <1>4
    <2> QED
        BY <2>1, <1>1, <1>3, <1>4, <1>5, <1>7, <1>8 DEF TablesOK, Evolves
<1>10. /\ reqs' = [reqs EXCEPT ![r] = Idle] /\ reqs'[r] = Idle
       /\ \A s \in Requests \ {r} : reqs'[s] = reqs[s]
    BY <1>1, <1>3 DEF Finish
<1>11. DiscardsOK'
    <2> SUFFICES ASSUME NEW s \in Requests, NEW n \in reqs'[s].doomed
                 PROVE  /\ assets'[n].state # "unused"
                        /\ reqs'[s].pc = "discard" =>
                             \A x \in Rows : Kind[x] # "org" => rows[x].picture # n
        BY <1>3 DEF DiscardsOK, At
    <2>1. s # r /\ n \in reqs[s].doomed /\ n \in Assets
        BY <1>1, <1>10, IdleRequest DEF Request
    <2> QED
        BY <2>1, <1>1, <1>4, <1>10 DEF DiscardsOK, At
<1>12. UploadsOK'
    <2> SUFFICES ASSUME NEW s \in Requests, reqs'[s].pc = "persist", reqs'[s].upload # None
                 PROVE  LET n == reqs'[s].upload IN
                        /\ assets'[n] = [state |-> "stored", home |-> reqs'[s].row]
                        /\ \A y \in Rows : rows[y].picture # n
                        /\ \A t \in Requests :
                             /\ n \notin reqs'[t].doomed
                             /\ reqs'[t].seen.picture # n
                             /\ t # s /\ reqs'[t].pc = "persist" => reqs'[t].upload # n
        BY <1>3 DEF UploadsOK, At
    <2> DEFINE n == reqs[s].upload
    <2>1. s # r /\ reqs'[s] = reqs[s]
        BY <1>10, IdleRequest
    <2>2. n \in Assets
        BY <2>1, <1>1 DEF Request, Nullable
    <2>3. /\ assets[n] = [state |-> "stored", home |-> reqs[s].row]
          /\ \A y \in Rows : rows[y].picture # n
          /\ \A t \in Requests :
               /\ n \notin reqs[t].doomed
               /\ reqs[t].seen.picture # n
               /\ t # s /\ reqs[t].pc = "persist" => reqs[t].upload # n
        BY <2>1, <1>1 DEF UploadsOK, At
    <2>4. assets'[n] = assets[n]
        BY <2>2, <2>3, <1>4
    <2>5. ASSUME NEW t \in Requests
          PROVE  /\ n \notin reqs'[t].doomed
                 /\ reqs'[t].seen.picture # n
                 /\ t # s /\ reqs'[t].pc = "persist" => reqs'[t].upload # n
        <3>1. CASE t = r
            BY <3>1, <1>10, <2>1, IdleRequest, BlankRow
        <3>2. CASE t # r
            BY <3>2, <1>10, <2>3
        <3> QED
            BY <3>1, <3>2
    <2> QED
        BY <2>1, <2>3, <2>4, <2>5
<1>13. LocalsOK(r)'
    BY <1>10, IdleRequest, BlankRow DEF LocalsOK
<1> QED
    BY <1>9, <1>10, <1>11, <1>12, <1>13, IdleRequest, StepOf

LEMMA SubmitStep ==
    ASSUME IInv, NEW f \in Forms, Submit(f)
    PROVE  IInv'
<1> DEFINE form == [personal |-> TRUE, converted |-> None, late |-> FALSE]
<1>1. /\ TablesOK /\ reqs \in [Requests -> Request] /\ DiscardsOK /\ UploadsOK
      /\ \A s \in Requests : LocalsOK(s)
    BY PartsOfIInv
<1>2. /\ DOMAIN forms' = DOMAIN forms \cup {f} /\ forms'[f] = form
      /\ \A g \in DOMAIN forms \ {f} : forms'[g] = forms[g]
      /\ UNCHANGED <<accounts, rows, assets, reqs>>
      /\ Addressee[f] \notin Erased
    BY DEF Submit
<1>3. form \in CampSubmission
    BY DEF CampSubmission, Nullable
<1> HIDE DEF form
<1>4. TablesOK' /\ Evolves
    BY <1>1, <1>2, <1>3, FormWritten
<1>5. \A s \in Requests : LocalsOK(s)'
    <2> SUFFICES ASSUME NEW s \in Requests PROVE LocalsOK(s)'
        OBVIOUS
    <2>1. \A n \in reqs[s].doomed : assets[n].state # "unused"
        BY <1>1 DEF DiscardsOK
    <2> QED
        BY <2>1, <1>1, <1>2, <1>4, LocalsKept
<1>6. DiscardsOK' /\ UploadsOK'
    BY <1>1, <1>2 DEF DiscardsOK, UploadsOK, At
<1> QED
    BY <1>1, <1>2, <1>4, <1>5, <1>6 DEF IInv, TablesOK, TypeOK

LEMMA FormRequest ==
    ASSUME NEW pc \in PCs, NEW f \in Forms, NEW form \in CampSubmission, NEW after \in BOOLEAN
    PROVE  [Idle EXCEPT !.pc = pc, !.form = f, !.submission = form, !.after = after] \in Request
BY IdleRequest DEF Request, Nullable

LEMMA ReadFormStep ==
    ASSUME IInv, NEW r \in Requests, NEW op, NEW pc \in {"register", "send"},
           NEW f \in DOMAIN forms, ReadForm(r, op, pc, f)
    PROVE  IInv'
<1> DEFINE after == Addressee[f] \in Erased
<1> DEFINE q == [Idle EXCEPT !.pc = pc, !.form = f, !.submission = forms[f], !.after = after]
<1>1. TablesOK /\ reqs \in [Requests -> Request]
    BY PartsOfIInv
<1>2. reqs' = [reqs EXCEPT ![r] = q] /\ UNCHANGED <<accounts, rows, assets, forms>>
    BY DEF ReadForm, Begin
<1>3. f \in Forms /\ forms[f] \in CampSubmission
    BY <1>1 DEF TablesOK
<1>4. after \in BOOLEAN /\ (after => Addressee[f] \in Erased)
    OBVIOUS
<1>5. Addressee[f] \in Erased /\ forms[f].personal => forms[f].late
    BY <1>1 DEF TablesOK, ErasedIsBlank
<1> HIDE DEF after
<1>6. q \in Request
    BY <1>3, <1>4, FormRequest DEF PCs
<1>7. /\ q.pc = pc /\ q.form = f /\ q.submission = forms[f] /\ q.after = after
      /\ q.seen.picture = None /\ q.doomed = {}
    BY BlankRow DEF Idle
<1>8. reqs'[r] = q
    BY <1>1, <1>2
<1> HIDE DEF q
<1>9. Erased' = Erased /\ \A z \in Rows : Gone(z)' <=> Gone(z)
    BY <1>2, GoneKept
<1>10. LocalsOK(r)'
    BY <1>2, <1>3, <1>4, <1>5, <1>7, <1>8, <1>9 DEF LocalsOK
<1>11. q.seen.picture \in Known(r)
    BY <1>7 DEF Known
<1> QED
    BY <1>1, <1>2, <1>6, <1>7, <1>10, <1>11, TablesKept, QuietStep

LEMMA FormStarts ==
    ASSUME IInv, NEW r \in Requests, NEW f \in DOMAIN forms,
           StartConvert(r, f) \/ StartSendShareLink(r, f)
    PROVE  IInv'
BY ReadFormStep DEF StartConvert, StartSendShareLink

(* The form a request writes back was the address's own, and what it does  *)
(* not know of an erasure it marks as late.                                *)
LEMMA FormSaved ==
    ASSUME IInv, NEW r \in Requests, reqs[r].pc \in {"convert", "send"},
           NEW form \in CampSubmission, form.personal = reqs[r].submission.personal,
           form.late = reqs[r].submission.late,
           forms' = [forms EXCEPT ![reqs[r].form] = SavedForm(r, form)],
           Finish(r), UNCHANGED <<accounts, rows, assets>>
    PROVE  IInv'
<1> DEFINE f == reqs[r].form
<1> DEFINE new == SavedForm(r, form)
<1>1. TablesOK /\ LocalsOK(r)
    BY PartsOfIInv
<1>2. /\ f \in DOMAIN forms /\ f \in Forms
      /\ reqs[r].after => Addressee[f] \in Erased /\ (form.personal => form.late)
    BY <1>1 DEF LocalsOK, TablesOK
<1>3. /\ new \in CampSubmission /\ new.personal = form.personal
      /\ new.late = (form.late \/ Late(r, Addressee[f] \in Erased))
    BY DEF SavedForm, CampSubmission, Late
<1> HIDE DEF new
<1>4. Addressee[f] \in Erased /\ new.personal => new.late
    BY <1>2, <1>3 DEF Late
<1>5. TablesOK' /\ Evolves
    <2>1. /\ DOMAIN forms' = DOMAIN forms \cup {f} /\ forms'[f] = new
          /\ \A g \in DOMAIN forms \ {f} : forms'[g] = forms[g]
        BY <1>2 DEF new
    <2> QED
        BY <2>1, <1>1, <1>2, <1>3, <1>4, FormWritten
<1>6. \A x \in Rows : rows'[x].picture \in Known(r)
    BY DEF Known
<1> QED
    BY <1>5, <1>6, QuietFinish

LEMMA ConvertStep ==
    ASSUME IInv, NEW r \in Requests, Convert(r)
    PROVE  IInv'
<1> DEFINE a == Addressee[reqs[r].form]
<1> DEFINE form == [reqs[r].submission EXCEPT !.converted = IF Live(a) THEN a ELSE None]
<1>1. reqs[r].pc = "convert" /\ LocalsOK(r) /\ TablesOK
    BY PartsOfIInv DEF Convert, At
<1>2. reqs[r].submission \in CampSubmission /\ a \in Accounts
    BY <1>1, RowsAssumption DEF LocalsOK, TablesOK
<1>3. form \in CampSubmission
    BY <1>2 DEF CampSubmission, Nullable
<1>4. form.personal = reqs[r].submission.personal /\ form.late = reqs[r].submission.late
    BY <1>2 DEF CampSubmission
<1>5. /\ forms' = [forms EXCEPT ![reqs[r].form] = SavedForm(r, form)]
      /\ Finish(r) /\ UNCHANGED <<accounts, rows, assets>>
    BY DEF Convert
<1> HIDE DEF form
<1> QED
    BY <1>1, <1>3, <1>4, <1>5, FormSaved

LEMMA SendShareLinkStep ==
    ASSUME IInv, NEW r \in Requests, SendShareLink(r)
    PROVE  IInv'
<1>1. reqs[r].pc = "send" /\ reqs[r].submission \in CampSubmission
    BY PartsOfIInv DEF SendShareLink, At, LocalsOK
<1> QED
    BY <1>1, FormSaved DEF SendShareLink

LEMMA FailStep ==
    ASSUME IInv, NEW r \in Requests, Fail(r)
    PROVE  IInv'
BY PartsOfIInv, TablesKept, QuietFinish DEF Fail

(* An account is opened for an address that had none, and its rows get     *)
(* their text.                                                             *)
LEMMA AccountOpened ==
    ASSUME TablesOK, NEW a \in Accounts, accounts[a] = "none",
           NEW mine \in SUBSET {x \in Rows : Owner[x] = a},
           accounts' = [accounts EXCEPT ![a] = "active"],
           rows' = [x \in Rows |-> IF x \in mine THEN [rows[x] EXCEPT !.text = TRUE] ELSE rows[x]],
           UNCHANGED <<assets, forms>>
    PROVE  /\ TablesOK' /\ Evolves /\ Erased' = Erased
           /\ \A x \in Rows : rows'[x].picture = rows[x].picture
<1>1. /\ accounts' \in [Accounts -> {"none", "active", "deleted"}]
      /\ \A b \in Accounts \ {a} : accounts'[b] = accounts[b]
    BY DEF TablesOK
<1>2. Erased' = Erased /\ a \notin Erased
    BY <1>1 DEF TablesOK, Erased
<1>3. ASSUME NEW x \in Rows
      PROVE  /\ rows'[x] \in Row /\ rows'[x].picture = rows[x].picture
             /\ Gone(x)' => Gone(x) /\ rows'[x] = rows[x]
    <2>1. rows[x] \in Row
        BY DEF TablesOK
    <2>2. /\ [rows[x] EXCEPT !.text = TRUE] \in Row
          /\ [rows[x] EXCEPT !.text = TRUE].picture = rows[x].picture
        BY <2>1 DEF Row
    <2>3. rows'[x] = IF x \in mine THEN [rows[x] EXCEPT !.text = TRUE] ELSE rows[x]
        OBVIOUS
    <2>4. Gone(x)' => Gone(x) /\ Owner[x] # a
        BY <1>1, <1>2, RowsAssumption DEF Gone
    <2> QED
        BY <2>1, <2>2, <2>3, <2>4
<1>4. rows' \in [Rows -> Row]
    <2>1. rows' = [x \in Rows |-> rows'[x]]
        OBVIOUS
    <2> QED
        BY <2>1, <1>3
<1>5. PhotosAreStored' /\ PicturesOK'
    BY <1>3 DEF TablesOK, PhotosAreStored, PicturesOK
<1>6. ErasedIsBlank'
    BY <1>2, <1>3 DEF TablesOK, ErasedIsBlank, Personal
<1> QED
    BY <1>1, <1>2, <1>3, <1>4, <1>5, <1>6 DEF TablesOK, Evolves

LEMMA CreateLoginStarts ==
    ASSUME IInv, NEW r \in Requests, NEW x \in Rows, StartCreateLogin(r, x)
    PROVE  IInv'
<1> DEFINE q == [Idle EXCEPT !.pc = "createLogin", !.row = x]
<1>1. TablesOK /\ reqs \in [Requests -> Request]
    BY PartsOfIInv
<1>2. /\ reqs' = [reqs EXCEPT ![r] = q] /\ UNCHANGED <<accounts, rows, assets, forms>>
      /\ Login[x] # None
    BY DEF StartCreateLogin, Begin
<1>3. q \in Request
    BY IdleRequest DEF Request, PCs, Nullable
<1>4. /\ q.pc = "createLogin" /\ q.row = x /\ x # None
      /\ q.seen.picture = None /\ q.doomed = {}
    BY BlankRow, NoneAssumption DEF Idle
<1> HIDE DEF q
<1>5. LocalsOK(r)'
    BY <1>1, <1>2, <1>4 DEF LocalsOK
<1>6. q.seen.picture \in Known(r)
    BY <1>4 DEF Known
<1> QED
    BY <1>1, <1>2, <1>3, <1>4, <1>5, <1>6, TablesKept, QuietStep

LEMMA CreateLoginStep ==
    ASSUME IInv, NEW r \in Requests, CreateLogin(r)
    PROVE  IInv'
<1> DEFINE a == Login[reqs[r].row]
<1>1. /\ TablesOK /\ reqs \in [Requests -> Request] /\ LocalsOK(r)
      /\ reqs[r].pc = "createLogin"
    BY PartsOfIInv DEF CreateLogin, At
<1>2. a \in Accounts
    BY <1>1, RowsAssumption DEF LocalsOK, Request, Nullable
<1>3. Finish(r) /\ UNCHANGED <<assets, forms>>
    BY DEF CreateLogin
<1>4. CASE accounts[a] # "none"
    <2>1. UNCHANGED <<accounts, rows>>
        BY <1>4 DEF CreateLogin
    <2> QED
        BY <2>1, <1>1, <1>3, TablesKept, QuietFinish
<1>5. CASE accounts[a] = "none"
    <2> DEFINE mine == {x \in Rows : Owner[x] = a}
    <2>1. /\ accounts' = [accounts EXCEPT ![a] = "active"]
          /\ rows' = [x \in Rows |-> IF Owner[x] = a THEN [rows[x] EXCEPT !.text = TRUE]
                                     ELSE rows[x]]
        BY <1>5 DEF CreateLogin
    <2>2. rows' = [x \in Rows |-> IF x \in mine THEN [rows[x] EXCEPT !.text = TRUE] ELSE rows[x]]
        BY <2>1
    <2>3. mine \in SUBSET {x \in Rows : Owner[x] = a}
        OBVIOUS
    <2> HIDE DEF mine
    <2>4. TablesOK' /\ Evolves /\ \A x \in Rows : rows'[x].picture = rows[x].picture
        BY <1>1, <1>2, <1>3, <1>5, <2>1, <2>2, <2>3, AccountOpened
    <2>5. \A x \in Rows : rows'[x].picture \in Known(r)
        BY <2>4 DEF Known
    <2> QED
        BY <1>3, <2>4, <2>5, QuietFinish
<1> QED
    BY <1>4, <1>5

LEMMA RegisterFromFormStep ==
    ASSUME IInv, NEW r \in Requests, RegisterFromForm(r)
    PROVE  IInv'
<1> DEFINE a == Addressee[reqs[r].form]
<1>1. /\ TablesOK /\ reqs \in [Requests -> Request] /\ LocalsOK(r) /\ DiscardsOK
      /\ reqs[r].pc = "register" /\ reqs[r] \in Request
    BY PartsOfIInv DEF RegisterFromForm, At
<1>2. CASE accounts[a] # "none"
    <2>1. Finish(r) /\ UNCHANGED <<accounts, rows, assets, forms>>
        BY <1>2 DEF RegisterFromForm
    <2> QED
        BY <2>1, <1>1, TablesKept, QuietFinish
<1>3. CASE accounts[a] = "none"
    <2> DEFINE mine == {x \in Rows : Owner[x] = a /\ Kind[x] \in {"user", "self"}}
    <2> DEFINE q == [reqs[r] EXCEPT !.pc = "convert"]
    <2>1. /\ accounts' = [accounts EXCEPT ![a] = "active"]
          /\ rows' = [x \in Rows |-> IF Owner[x] = a /\ Kind[x] \in {"user", "self"}
                                     THEN [rows[x] EXCEPT !.text = TRUE] ELSE rows[x]]
          /\ reqs' = [reqs EXCEPT ![r] = q] /\ UNCHANGED <<assets, forms>>
        BY <1>3 DEF RegisterFromForm
    <2>2. a \in Accounts /\ reqs[r].form \in DOMAIN forms
        BY <1>1, RowsAssumption DEF LocalsOK, TablesOK
    <2>3. rows' = [x \in Rows |-> IF x \in mine THEN [rows[x] EXCEPT !.text = TRUE] ELSE rows[x]]
        BY <2>1
    <2>4. mine \in SUBSET {x \in Rows : Owner[x] = a}
        OBVIOUS
    <2> HIDE DEF mine
    <2>5. /\ TablesOK' /\ Evolves /\ Erased' = Erased
          /\ \A x \in Rows : rows'[x].picture = rows[x].picture
        BY <1>1, <1>3, <2>1, <2>2, <2>3, <2>4, AccountOpened
    <2>6. q \in Request
        BY <1>1 DEF Request, PCs
    <2>7. /\ q.pc = "convert" /\ q.form = reqs[r].form /\ q.submission = reqs[r].submission
          /\ q.after = reqs[r].after /\ q.seen = reqs[r].seen /\ q.row = reqs[r].row
          /\ q.doomed = reqs[r].doomed
        BY <1>1 DEF Request
    <2> HIDE DEF q
    <2>8. reqs'[r] = q
        BY <1>1, <2>1
    <2>9. LocalsOK(r)'
        BY <1>1, <2>1, <2>5, <2>7, <2>8 DEF LocalsOK
    <2>10. /\ \A x \in Rows : rows'[x].picture \in Known(r)
           /\ q.seen.picture \in Known(r)
        BY <2>5, <2>7 DEF Known
    <2>11. \A n \in q.doomed : assets[n].state # "unused"
        BY <1>1, <2>7 DEF DiscardsOK
    <2> QED
        BY <2>1, <2>5, <2>6, <2>7, <2>9, <2>10, <2>11, QuietStep
<1> QED
    BY <1>2, <1>3

LEMMA EraseRequest ==
    ASSUME NEW a \in Accounts, NEW doomed \in SUBSET Assets, NEW logins \in SUBSET Accounts
    PROVE  [Idle EXCEPT !.pc = "erase", !.target = a, !.doomed = doomed, !.logins = logins]
             \in Request
BY IdleRequest DEF Request, Nullable, PCs

LEMMA StartEraseStep ==
    ASSUME IInv, NEW r \in Requests, NEW a \in Accounts, StartErase(r, a)
    PROVE  IInv'
<1> DEFINE doomed == {rows[x].picture : x \in Swept(a, {a})} \ {None}
<1> DEFINE logins == ChildLogins(a) \ Erased
<1> DEFINE q == [Idle EXCEPT !.pc = "erase", !.target = a, !.doomed = doomed, !.logins = logins]
<1>1. TablesOK /\ reqs \in [Requests -> Request]
    BY PartsOfIInv
<1>2. reqs' = [reqs EXCEPT ![r] = q] /\ UNCHANGED <<accounts, rows, assets, forms>>
    BY DEF StartErase, Begin
<1>3. /\ doomed \in SUBSET Assets
      /\ \A n \in doomed : n \in Known(r) /\ assets[n].state # "unused"
      /\ \A n \in doomed : assets[n].home \in Swept(a, {a})
    BY <1>1 DEF TablesOK, PicturesOK, Swept, Known, Row, Nullable
<1>4. logins \in SUBSET Accounts /\ \A b \in logins : IsChild(b)
    BY DEF ChildLogins, IsChild
<1> HIDE DEF doomed, logins
<1>5. q \in Request
    BY <1>3, <1>4, EraseRequest
<1>6. /\ q.pc = "erase" /\ q.target = a /\ q.doomed = doomed /\ q.logins = logins
      /\ q.seen.picture = None
    BY BlankRow DEF Idle
<1> HIDE DEF q
<1>7. reqs'[r] = q /\ a # None
    BY <1>1, <1>2, NoneAssumption
<1>8. LocalsOK(r)'
    BY <1>2, <1>3, <1>4, <1>6, <1>7 DEF LocalsOK, IsChild, Swept
<1>9. q.seen.picture \in Known(r)
    BY <1>6 DEF Known
<1> QED
    BY <1>1, <1>2, <1>3, <1>5, <1>6, <1>8, <1>9, TablesKept, QuietStep

(* The rows swept are all that the accounts have, and no photo is left     *)
(* among the files to discard.                                             *)
LEMMA EraseStep ==
    ASSUME IInv, NEW r \in Requests, Erase(r)
    PROVE  IInv'
<1> DEFINE a == reqs[r].target
<1> DEFINE who == {a} \cup reqs[r].logins
<1>1. /\ TablesOK /\ reqs \in [Requests -> Request] /\ LocalsOK(r) /\ DiscardsOK
      /\ reqs[r].pc = "erase" /\ reqs[r] \in Request
    BY PartsOfIInv DEF Erase, At
<1>2. CASE who \cap Erased # {}
    <2>1. Finish(r) /\ UNCHANGED <<accounts, rows, assets, forms>>
        BY <1>2 DEF Erase
    <2> QED
        BY <2>1, <1>1, TablesKept, QuietFinish
<1>3. CASE who \cap Erased = {}
    <2> DEFINE q == [reqs[r] EXCEPT !.pc = "discard"]
    <2>1. /\ accounts' = [b \in Accounts |-> IF b \in who THEN "deleted" ELSE accounts[b]]
          /\ rows' = [x \in Rows |-> IF x \in Swept(a, who) THEN Blank ELSE rows[x]]
          /\ forms' = ScrubByEmail(who)
          /\ reqs' = [reqs EXCEPT ![r] = q] /\ UNCHANGED assets
        BY <1>3 DEF Erase
    <2>2. /\ a \in Accounts /\ who \subseteq Accounts
          /\ \A b \in reqs[r].logins : IsChild(b)
          /\ \A n \in reqs[r].doomed : assets[n].home \in Swept(a, {a})
        BY <1>1 DEF LocalsOK, Request, Nullable
    <2> HIDE DEF who, q
    <2>3. Erased' = Erased \cup who
        BY <1>1, <2>1, <2>2 DEF Erased, TablesOK
    <2>4. ASSUME NEW x \in Rows, Owner[x] \in who
          PROVE  x \in Swept(a, who)
        <3>1. CASE Owner[x] = a
            BY <3>1, <2>4 DEF Swept
        <3>2. CASE Owner[x] # a
            <4>1. IsChild(Owner[x])
                BY <2>2, <2>4, <3>2 DEF who
            <4>2. PICK y \in Rows : Login[y] = Owner[x]
                BY <4>1 DEF IsChild
            <4>3. Kind[x] = "user"
                BY <4>2, RowsAssumption
            <4> QED
                BY <4>3, <2>4 DEF Swept
        <3> QED
            BY <3>1, <3>2
    <2>5. \A x \in Rows : rows'[x] = IF x \in Swept(a, who) THEN Blank ELSE rows[x]
        BY <2>1
    <2>6. /\ DOMAIN forms' = DOMAIN forms
          /\ \A f \in DOMAIN forms :
               forms'[f] = IF Addressee[f] \in who
                           THEN [forms[f] EXCEPT !.personal = FALSE, !.late = FALSE]
                           ELSE forms[f]
        BY <2>1 DEF ScrubByEmail
    <2>7. \A f \in DOMAIN forms :
            /\ forms'[f] \in CampSubmission
            /\ Addressee[f] \in who => ~forms'[f].personal
        <3> SUFFICES ASSUME NEW f \in DOMAIN forms
                     PROVE  /\ forms'[f] \in CampSubmission
                            /\ Addressee[f] \in who => ~forms'[f].personal
            OBVIOUS
        <3>1. forms[f] \in CampSubmission
            BY <1>1 DEF TablesOK
        <3> DEFINE scrubbed == [forms[f] EXCEPT !.personal = FALSE, !.late = FALSE]
        <3>2. scrubbed \in CampSubmission /\ ~scrubbed.personal
            BY <3>1 DEF CampSubmission
        <3>3. forms'[f] = IF Addressee[f] \in who THEN scrubbed ELSE forms[f]
            BY <2>6
        <3> HIDE DEF scrubbed
        <3> QED
            BY <3>1, <3>2, <3>3
    <2>8. PhotosAreStored' /\ PicturesOK'
        BY <1>1, <2>1, <2>5, BlankRow DEF TablesOK, PhotosAreStored, PicturesOK
    <2>9. ErasedIsBlank'
        <3>1. ASSUME NEW x \in Rows, Gone(x)', Personal(x)' PROVE rows'[x].late
            <4>1. x \notin Swept(a, who) /\ rows'[x] = rows[x]
                BY <2>5, <3>1, BlankRow DEF Personal
            <4>2. Owner[x] \in Erased
                BY <2>3, <2>4, <3>1, <4>1 DEF Gone
            <4>3. Login[x] # None => Login[x] \notin who /\ Login[x] \in Accounts
                BY <4>1, RowsAssumption DEF Swept
            <4>4. Gone(x)
                BY <2>1, <3>1, <4>2, <4>3 DEF Gone
            <4> QED
                BY <1>1, <3>1, <4>1, <4>4 DEF TablesOK, ErasedIsBlank, Personal
        <3>2. \A f \in DOMAIN forms' : Addressee[f] \in Erased' /\ forms'[f].personal =>
                forms'[f].late
            BY <1>1, <2>3, <2>6, <2>7 DEF TablesOK, ErasedIsBlank
        <3> QED
            BY <3>1, <3>2 DEF ErasedIsBlank, Personal
    <2>10. rows' \in [Rows -> Row]
        BY <1>1, <2>1, BlankRow DEF TablesOK
    <2>11. accounts' \in [Accounts -> {"none", "active", "deleted"}]
        BY <1>1, <2>1 DEF TablesOK
    <2>12. TablesOK' /\ Evolves
        BY <1>1, <2>1, <2>3, <2>6, <2>7, <2>8, <2>9, <2>10, <2>11 DEF TablesOK, Evolves
    <2>13. q \in Request
        BY <1>1 DEF Request, PCs, q
    <2>14. /\ q.pc = "discard" /\ q.seen = reqs[r].seen /\ q.row = reqs[r].row
           /\ q.doomed = reqs[r].doomed
        BY <1>1 DEF Request, q
    <2>15. reqs'[r] = q
        BY <1>1, <2>1
    <2>16. LocalsOK(r)'
        BY <1>1, <2>1, <2>14, <2>15 DEF LocalsOK
    <2>17. /\ \A x \in Rows : rows'[x].picture \in Known(r)
           /\ \A x \in Rows : rows'[x].picture \in {rows[x].picture, None}
           /\ q.seen.picture \in Known(r)
        BY <2>5, <2>14, BlankRow DEF Known
    <2>18. \A n \in q.doomed :
             /\ assets[n].state # "unused" /\ n # None
             /\ \A x \in Rows : rows'[x].picture # n
        <3> SUFFICES ASSUME NEW n \in reqs[r].doomed
                     PROVE  /\ assets[n].state # "unused" /\ n # None
                            /\ \A x \in Rows : rows'[x].picture # n
            BY <2>14
        <3>1. n \in Assets /\ n # None /\ assets[n].state # "unused"
            BY <1>1, NoneAssumption DEF Request, DiscardsOK
        <3>2. a \in who
            BY DEF who
        <3>3. assets[n].home \in Swept(a, who)
            BY <2>2, <3>2 DEF Swept
        <3>4. \A x \in Rows : rows[x].picture = n => x = assets[n].home
            BY <1>1, <3>1 DEF TablesOK, PicturesOK
        <3> QED
            BY <2>5, <3>1, <3>3, <3>4, BlankRow
    <2> QED
        BY <2>1, <2>12, <2>13, <2>14, <2>16, <2>17, <2>18, QuietStep
<1> QED
    BY <1>2, <1>3

LEMMA NextStep ==
    ASSUME IInv, [Next]_vars
    PROVE  IInv'
<1>1. CASE UNCHANGED vars
    <2>1. TablesOK /\ reqs \in [Requests -> Request] /\ DiscardsOK /\ UploadsOK
        BY PartsOfIInv
    <2>2. TablesOK' /\ Evolves
        BY <1>1, <2>1, TablesKept DEF vars
    <2>3. ASSUME NEW s \in Requests PROVE LocalsOK(s)'
        <3>1. \A n \in reqs[s].doomed : assets[n].state # "unused"
            BY <2>1 DEF DiscardsOK
        <3> QED
            BY <1>1, <2>1, <2>2, <3>1, PartsOfIInv, LocalsKept DEF vars
    <2>4. DiscardsOK' /\ UploadsOK'
        BY <1>1, <2>1 DEF vars, DiscardsOK, UploadsOK, At
    <2> QED
        BY <1>1, <2>1, <2>2, <2>3, <2>4 DEF vars, IInv, TablesOK, TypeOK
<1>2. ASSUME NEW f \in Forms, Submit(f) PROVE IInv'
    BY <1>2, SubmitStep
<1>3. ASSUME NEW r \in Requests, StartRequest(r) PROVE IInv'
    <2>1. ASSUME NEW a \in Accounts, NEW x \in Rows,
                 \/ UpdateCommon(r, a, x) \/ UpdatePlayer(r, a, x)
                 \/ UpdateOwnChildProfile(r, a, x) \/ UpdateChild(r, a, x) \/ UpdateTrainer(r, a, x)
          PROVE  IInv'
        BY <2>1, EditStarts
    <2>2. ASSUME NEW a \in Accounts, NEW x \in Rows,
                 \/ UploadPhoto(r, a, x) \/ UploadChildPhoto(r, a, x) \/ SetLogoFromUpload(r, a, x)
                 \/ RemovePhoto(r, a, x) \/ RemoveChildPhoto(r, a, x) \/ RemoveLogo(r, a, x)
          PROVE  IInv'
        BY <2>2, PictureStarts
    <2>3. ASSUME NEW x \in Rows,
                 UpdateUser(r, x) \/ UpdatePlayerProfile(r, x) \/ UpdateTrainerProfile(r, x)
          PROVE  IInv'
        BY <2>3, AdminStarts
    <2>4. ASSUME NEW x \in Rows, StartSetPrimaryColor(r, x) PROVE IInv'
        BY <2>4, ColorStarts
    <2>5. ASSUME NEW f \in DOMAIN forms, StartConvert(r, f) \/ StartSendShareLink(r, f)
          PROVE  IInv'
        BY <2>5, FormStarts
    <2>6. ASSUME NEW a \in Accounts, StartErase(r, a) PROVE IInv'
        BY <2>6, StartEraseStep
    <2>7. ASSUME NEW a \in Accounts, NEW x \in Rows, StartSetSkillLevel(r, a, x) PROVE IInv'
        BY <2>7, SkillStarts
    <2>8. ASSUME NEW x \in Rows, StartCreateLogin(r, x) PROVE IInv'
        BY <2>8, CreateLoginStarts
    <2> QED
        BY <1>3, <2>1, <2>2, <2>3, <2>4, <2>5, <2>6, <2>7, <2>8 DEF StartRequest
<1>4. ASSUME NEW r \in Requests, Continue(r) PROVE IInv'
    BY <1>4, EditStep, SetSkillLevelStep, CreateLoginStep, SetPrimaryColorStep, UploadStep,
       PersistStep, DiscardAssetsStep, RegisterFromFormStep, ConvertStep, SendShareLinkStep,
       EraseStep DEF Continue
<1>5. ASSUME NEW r \in Requests, Fail(r) PROVE IInv'
    BY <1>5, FailStep
<1> QED
    BY <1>1, <1>2, <1>3, <1>4, <1>5 DEF Next

----------------------------------------------------------------------------
(* The inductive invariant: every file is pointed at by its own row only,  *)
(* and what a handler read before its awaits stays consistent with the     *)
(* tables.                                                                 *)
THEOREM Invariance == Spec => []IInv
BY InitInvariant, NextStep, PTL DEF Spec

(* No overlap of uploads, removals and erasures discards a file that the   *)
(* row of a user or a player points at.                                    *)
THEOREM PhotosStayStored == Spec => []PhotosAreStored
<1>1. IInv => PhotosAreStored
    BY DEF IInv
<1> QED
    BY <1>1, Invariance, PTL

(* After an erasure the rows and forms of the account hold nothing but     *)
(* what requests older than it, or administrators, wrote, and a skill      *)
(* level that a trainer has set since.                                     *)
THEOREM ErasureReachesAll == Spec => []ErasedIsBlank
<1>1. IInv => ErasedIsBlank
    BY DEF IInv
<1> QED
    BY <1>1, Invariance, PTL
=============================================================================
