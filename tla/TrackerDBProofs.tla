-------------------------- MODULE TrackerDBProofs --------------------------
(***************************************************************************)
(* What one request preserves, for every database and every request: the   *)
(* types (OutcomeType) and the invariant DBInv (OutcomeInv); and what it   *)
(* depends on: databases that differ in seeders alone answer alike         *)
(* (OutcomesSame, FailureSame, OneOutcome).  Trackers change their         *)
(* databases by requests only, so the theorems about one tracker and about *)
(* the network of trackers follow from these.                              *)
(***************************************************************************)
EXTENDS TrackerDB, TLAPS

(* The databases a request leads to keep their types: user requests. *)
LEMMA UserType ==
  ASSUME NEW d \in DB, NEW c \in Clients, NEW req \in UserRequest,
         NEW out \in UserOutcomes(d, c, req)
  PROVE  out.db \in DB
<1>1. CASE req.op = "create_user"
  <2>1. req.name \in Names \cup {Blank} /\ req.password \in Passwords \cup {Blank}
    BY <1>1 DEF UserRequest
  <2>. DEFINE n == req.name
              u == [name |-> n, password |-> req.password, oid |-> d.made]
  <2>2. out \in CreateUser(d, n, req.password)
    BY <1>1 DEF UserOutcomes
  <2>3. CASE out \in Failure(d)
    BY <2>3 DEF Failure
  <2>4. CASE out \notin Failure(d)
    <3>1. /\ n \in Names
          /\ req.password \in Passwords
          /\ out \in Success([users  |-> [d.users EXCEPT ![n] = u],
                              logged |-> d.logged,
                              groups |-> d.groups,
                              made   |-> d.made + 1])
      BY <2>1, <2>2, <2>4 DEF CreateUser
    <3>2. u \in User
      BY <3>1 DEF User, DB
    <3>3. QED
      BY <3>1, <3>2 DEF Success, DB
  <2>5. QED
    BY <2>3, <2>4
<1>2. CASE req.op = "delete_user"
  BY <1>2 DEF UserOutcomes, DeleteUser, UserExists, Success, Failure, DB, UserRequest
<1>3. CASE req.op = "login"
  BY <1>3 DEF UserOutcomes, Login, UserExists, Success, Failure, DB, UserRequest
<1>4. CASE req.op \notin {"create_user", "delete_user", "login"}
  BY <1>4 DEF UserOutcomes, Logout, Success, Failure, DB
<1>5. QED
  BY <1>1, <1>2, <1>3, <1>4

(* ... requests about groups, from a client logged in as u ... *)
LEMMA GroupType ==
  ASSUME NEW d \in DB, NEW u \in User, NEW req \in GroupRequest,
         NEW out \in GroupOutcomes(d, u, req)
  PROVE  out.db \in DB
<1>. DEFINE g == req.group
            grp == d.groups[g]
<1>1. g \in Groups
  BY DEF GroupRequest
<1>2. grp # None => grp \in Group
  BY <1>1 DEF DB
<1>3. ASSUME NEW new \in Group, out \in Success([d EXCEPT !.groups[g] = new])
      PROVE  out.db \in DB
  BY <1>1, <1>3 DEF Success, DB
<1>4. CASE out \in Failure(d)
  BY <1>4 DEF Failure
<1>5. CASE req.op = "create_group" /\ out \notin Failure(d)
  <2>1. [owner |-> u, users |-> {}, requests |-> {}, files |-> {}] \in Group
    BY DEF Group
  <2>2. QED
    BY <1>3, <1>5, <2>1 DEF GroupOutcomes, CreateGroup
<1>6. CASE req.op = "join_group" /\ out \notin Failure(d)
  <2>1. /\ grp # None
        /\ out \in Success([d EXCEPT !.groups[g].requests = @ \cup {u}])
    BY <1>6 DEF GroupOutcomes, JoinGroup
  <2>2. [grp EXCEPT !.requests = @ \cup {u}] \in Group
    BY <1>2, <2>1 DEF Group
  <2>3. QED
    BY <1>3, <2>1, <2>2
<1>7. CASE req.op = "leave_group" /\ out \notin Failure(d)
  <2>1. /\ grp # None
        /\ out \in Success([d EXCEPT !.groups[g].users = @ \ {u}])
    BY <1>7 DEF GroupOutcomes, LeaveGroup
  <2>2. [grp EXCEPT !.users = @ \ {u}] \in Group
    BY <1>2, <2>1 DEF Group
  <2>3. QED
    BY <1>3, <2>1, <2>2
<1>8. CASE /\ req.op \notin {"create_group", "join_group", "leave_group"}
           /\ out \notin Failure(d)
  <2>1. grp # None /\ \E r \in Named(grp, req.name) : out \in Success(Admit(d, g, r))
    BY <1>8 DEF GroupOutcomes, AcceptRequest
  <2>2. PICK r \in Named(grp, req.name) : out \in Success(Admit(d, g, r))
    BY <2>1
  <2>3. [grp EXCEPT !.users = @ \cup {r}, !.requests = @ \ {r}] \in Group
    BY <1>2, <2>1, <2>2 DEF Group, Named
  <2>4. Admit(d, g, r) =
          [d EXCEPT !.groups[g] = [grp EXCEPT !.users = @ \cup {r},
                                              !.requests = @ \ {r}]]
    BY <1>1, <1>2, <2>1 DEF Admit, DB, Group
  <2>5. QED
    BY <1>3, <2>2, <2>3, <2>4
<1>9. QED
  BY <1>4, <1>5, <1>6, <1>7, <1>8

(* ... and requests about files. *)
LEMMA FileType ==
  ASSUME NEW d \in DB, NEW u \in User, NEW req \in FileRequest,
         NEW out \in FileOutcomes(d, u, req)
  PROVE  out.db \in DB
<1>. DEFINE g == req.group
            grp == d.groups[g]
<1>1. g \in Groups
  BY DEF FileRequest
<1>2. grp # None => grp \in Group
  BY <1>1 DEF DB
<1>3. CASE out \in Failure(d) \cup Success(d)
  BY <1>3 DEF Failure, Success
<1>4. CASE out \notin Failure(d) \cup Success(d)
  <2>1. /\ req.op = "upload_file"
        /\ grp # None
        /\ out \in UploadFile(d, u, g, req.endpoint, req.file, req.hash)
    BY <1>4 DEF FileOutcomes, DownloadFile, UploadFile, MayUse
  <2>2. req.endpoint \in Clients /\ req.file \in FileNames /\ req.hash \in Hashes
    BY <2>1 DEF FileRequest
  <2>3. CASE SameFile(grp, req.hash) = {}
    <3>. DEFINE f == [name |-> req.file, hash |-> req.hash, seeders |-> {req.endpoint}]
    <3>1. out \in Success([d EXCEPT !.groups[g].files = @ \cup {f}])
      BY <1>4, <2>1, <2>3 DEF UploadFile
    <3>2. [grp EXCEPT !.files = @ \cup {f}] \in Group
      BY <1>2, <2>1, <2>2 DEF Group, File
    <3>3. QED
      BY <1>1, <3>1, <3>2 DEF Success, DB
  <2>4. CASE SameFile(grp, req.hash) # {}
    <3>1. PICK f \in SameFile(grp, req.hash) :
            out \in Failure(AddSeeder(d, g, f, req.endpoint))
      BY <1>4, <2>1, <2>4 DEF UploadFile
    <3>2. f \in File
      BY <1>2, <2>1 DEF SameFile, Group
    <3>. DEFINE f2 == [f EXCEPT !.seeders = @ \cup {req.endpoint}]
    <3>3. f2 \in File
      BY <3>2, <2>2 DEF File
    <3>4. [grp EXCEPT !.files = (@ \ {f}) \cup {f2}] \in Group
      BY <1>2, <2>1, <3>3 DEF Group
    <3>5. QED
      BY <1>1, <3>1, <3>4 DEF Failure, AddSeeder, DB
  <2>5. QED
    BY <2>3, <2>4
<1>5. QED
  BY <1>3, <1>4

(* Whatever the request and whoever sends it, the databases keep their types. *)
THEOREM OutcomeType ==
  ASSUME NEW d \in DB, NEW c \in Clients, NEW req \in Request,
         NEW out \in Outcomes(d, c, req)
  PROVE  out.db \in DB
<1>1. CASE req \in UserRequest
  BY <1>1, UserType DEF Outcomes
<1>2. CASE out \in Failure(d)
  BY <1>2 DEF Failure
<1>3. CASE req \notin UserRequest /\ out \notin Failure(d)
  <2>1. d.logged[c] # None /\ req \notin QueryRequest
    BY <1>3 DEF Outcomes
  <2>2. d.logged[c] \in User
    BY <2>1 DEF DB
  <2>3. CASE req \in GroupRequest
    BY <1>3, <2>1, <2>2, <2>3, GroupType DEF Outcomes
  <2>4. CASE req \in FileRequest /\ req \notin GroupRequest
    BY <1>3, <2>1, <2>2, <2>4, FileType DEF Outcomes
  <2>5. QED
    BY <1>3, <2>1, <2>3, <2>4 DEF Request
<1>4. QED
  BY <1>1, <1>2, <1>3

-----------------------------------------------------------------------------
(* The invariant.  A request changes one group, or the accounts and sessions;
   what it may put there are users the databases point to already, except for
   the one user that create_user makes. *)

(* A group that may replace d.groups[g] without breaking the invariant. *)
SoundGroup(d, grp) ==
  /\ grp \in Group
  /\ Party(grp) \subseteq Pointed(d)
  /\ \A u \in grp.requests : ~IsMember(grp, u)
  /\ \A f1, f2 \in grp.files : f1.hash = f2.hash => f1 = f2
  /\ \A f \in grp.files : f.seeders # {}

(* The groups of databases that satisfy the invariant are all sound. *)
LEMMA ExistingSound ==
  ASSUME NEW d \in DB, DBInv(d), NEW g \in Groups, d.groups[g] # None
  PROVE  SoundGroup(d, d.groups[g])
<1>1. g \in Existing(d)
  BY DEF Existing
<1>2. d.groups[g] \in Group
  BY DEF DB
<1>3. Party(d.groups[g]) \subseteq Pointed(d)
  BY <1>1 DEF Pointed
<1>4. QED
  BY <1>1, <1>2, <1>3 DEF SoundGroup, DBInv, NoMemberPending, FilesListedOnce

(* Addresses stay distinct when no user is pointed to that was not before. *)
LEMMA PointedShrinks ==
  ASSUME NEW d \in DB, NEW d2 \in DB, AddressesDistinct(d),
         Pointed(d2) \subseteq Pointed(d), d2.made = d.made
  PROVE  AddressesDistinct(d2)
BY DEF AddressesDistinct

(* Replacing one group by a sound one keeps the invariant. *)
LEMMA ReplaceGroup ==
  ASSUME NEW d \in DB, DBInv(d), NEW g \in Groups, NEW new, SoundGroup(d, new)
  PROVE  DBInv([d EXCEPT !.groups[g] = new])
<1>. DEFINE d2 == [d EXCEPT !.groups[g] = new]
<1>1. /\ new \in Group /\ d2 \in DB
      /\ d2.users = d.users /\ d2.logged = d.logged /\ d2.made = d.made
      /\ d2.groups = [d.groups EXCEPT ![g] = new]
  BY DEF DB, SoundGroup
<1>2. d2.groups[g] = new /\ \A h \in Groups \ {g} : d2.groups[h] = d.groups[h]
  BY <1>1 DEF DB
<1>3. ASSUME NEW h \in Existing(d2)
      PROVE  SoundGroup(d, d2.groups[h])
  <2>1. CASE h = g
    BY <1>2, <2>1
  <2>2. CASE h # g
    BY <1>2, <1>3, <2>2, ExistingSound DEF Existing
  <2>3. QED
    BY <2>1, <2>2
<1>4. Pointed(d2) \subseteq Pointed(d)
  <2>1. Accounts(d2) \cup Sessions(d2) \subseteq Pointed(d)
    BY <1>1 DEF Accounts, Sessions, Pointed
  <2>2. \A h \in Existing(d2) : Party(d2.groups[h]) \subseteq Pointed(d)
    BY <1>3 DEF SoundGroup
  <2>3. QED
    BY <2>1, <2>2 DEF Pointed
<1>5. NoMemberPending(d2)
  BY <1>3 DEF NoMemberPending, SoundGroup
<1>6. FilesListedOnce(d2)
  BY <1>3 DEF FilesListedOnce, SoundGroup
<1>7. AddressesDistinct(d2)
  BY <1>1, <1>4, PointedShrinks DEF DBInv
<1>8. QED
  BY <1>5, <1>6, <1>7 DEF DBInv

(* Changing accounts and sessions keeps the invariant when no user appears
   that was not pointed to before. *)
LEMMA ReplaceUsers ==
  ASSUME NEW d \in DB, DBInv(d), NEW d2 \in DB,
         d2.groups = d.groups, d2.made = d.made,
         Accounts(d2) \cup Sessions(d2) \subseteq Pointed(d)
  PROVE  DBInv(d2)
<1>1. Existing(d2) = Existing(d)
  BY DEF Existing
<1>2. Pointed(d2) \subseteq Pointed(d)
  BY <1>1 DEF Pointed
<1>3. AddressesDistinct(d2)
  BY <1>2, PointedShrinks DEF DBInv
<1>4. QED
  BY <1>1, <1>3 DEF DBInv, NoMemberPending, FilesListedOnce

(* User requests keep the invariant. *)
LEMMA UserInv ==
  ASSUME NEW d \in DB, DBInv(d), NEW c \in Clients, NEW req \in UserRequest,
         NEW out \in UserOutcomes(d, c, req)
  PROVE  DBInv(out.db)
<1>. DEFINE d2 == out.db
<1>1. d2 \in DB
  BY UserType
<1>2. CASE out \in Failure(d)
  BY <1>2 DEF Failure
<1>3. CASE req.op = "create_user" /\ out \notin Failure(d)
  <2>. DEFINE n == req.name
              u == [name |-> n, password |-> req.password, oid |-> d.made]
  <2>1. /\ d2 = [users  |-> [d.users EXCEPT ![n] = u],
                 logged |-> d.logged,
                 groups |-> d.groups,
                 made   |-> d.made + 1]
        /\ n \in Names \cup {Blank}
        /\ n # Blank
    BY <1>3 DEF UserOutcomes, CreateUser, Success, UserRequest
  <2>2. Accounts(d2) \subseteq Accounts(d) \cup {u}
    BY <2>1 DEF Accounts, DB
  <2>3. Existing(d2) = Existing(d) /\ Sessions(d2) = Sessions(d)
    BY <2>1 DEF Existing, Sessions
  <2>4. Pointed(d2) \subseteq Pointed(d) \cup {u}
    BY <2>1, <2>2, <2>3 DEF Pointed
  <2>5. d.made \in Nat /\ \A v \in Pointed(d) : v \in User
    <3>1. \A g \in Existing(d) : d.groups[g] \in Group
      BY DEF Existing, DB
    <3>2. \A g \in Existing(d) : Party(d.groups[g]) \subseteq User
      BY <3>1 DEF Party, Group
    <3>3. Accounts(d) \cup Sessions(d) \subseteq User
      BY DEF Accounts, Sessions, DB
    <3>4. QED
      BY <3>2, <3>3 DEF Pointed, DB
  <2>6. \A v \in Pointed(d) : v.oid \in Nat /\ v.oid < d.made
    BY <2>5 DEF DBInv, AddressesDistinct, User
  <2>7. \A v \in Pointed(d2) : v.oid < d2.made
    BY <2>1, <2>4, <2>5, <2>6
  <2>8. \A v, w \in Pointed(d2) : v.oid = w.oid => v = w
    <3>1. \A v, w \in Pointed(d) : v.oid = w.oid => v = w
      BY DEF DBInv, AddressesDistinct
    <3>2. \A v \in Pointed(d) : v.oid # u.oid
      BY <2>5, <2>6
    <3>3. QED
      BY <2>4, <3>1, <3>2
  <2>9. QED
    BY <2>1, <2>3, <2>7, <2>8
       DEF DBInv, AddressesDistinct, NoMemberPending, FilesListedOnce
<1>4. CASE req.op = "delete_user" /\ out \notin Failure(d)
  <2>1. d2 = [d EXCEPT !.users[req.name] = None]
    BY <1>4 DEF UserOutcomes, DeleteUser, Success
  <2>2. Accounts(d2) \subseteq Accounts(d)
    BY <2>1 DEF Accounts, DB
  <2>3. QED
    BY <1>1, <2>1, <2>2, ReplaceUsers DEF Pointed, Sessions, DB
<1>5. CASE req.op = "login" /\ out \notin Failure(d)
  <2>1. /\ d2 = [d EXCEPT !.logged[c] = d.users[req.name]]
        /\ d.users[req.name] # None
        /\ req.name \in Names
    BY <1>5 DEF UserOutcomes, Login, UserExists, Success, UserRequest
  <2>2. d.users[req.name] \in Accounts(d)
    BY <2>1 DEF Accounts
  <2>3. Sessions(d2) \subseteq Sessions(d) \cup Accounts(d)
    BY <2>1, <2>2 DEF Sessions, DB
  <2>4. QED
    BY <1>1, <2>1, <2>3, ReplaceUsers DEF Pointed, Accounts, DB
<1>6. CASE /\ req.op \notin {"create_user", "delete_user", "login"}
           /\ out \notin Failure(d)
  <2>1. d2 = [d EXCEPT !.logged[c] = None]
    BY <1>6 DEF UserOutcomes, Logout, Success
  <2>2. Sessions(d2) \subseteq Sessions(d)
    BY <2>1 DEF Sessions, DB
  <2>3. QED
    BY <1>1, <2>1, <2>2, ReplaceUsers DEF Pointed, Accounts, DB
<1>7. QED
  BY <1>2, <1>3, <1>4, <1>5, <1>6

(* Group requests of a client logged in as u keep the invariant. *)
LEMMA GroupInv ==
  ASSUME NEW d \in DB, DBInv(d), NEW u \in Sessions(d), NEW req \in GroupRequest,
         NEW out \in GroupOutcomes(d, u, req)
  PROVE  DBInv(out.db)
<1>. DEFINE g == req.group
            grp == d.groups[g]
<1>1. g \in Groups
  BY DEF GroupRequest
<1>2. u \in User /\ u \in Pointed(d)
  BY DEF Sessions, Pointed, DB
<1>3. grp # None => SoundGroup(d, grp) /\ grp \in Group
  BY <1>1, ExistingSound DEF SoundGroup
<1>4. ASSUME NEW new, SoundGroup(d, new), out \in Success([d EXCEPT !.groups[g] = new])
      PROVE  DBInv(out.db)
  BY <1>1, <1>4, ReplaceGroup DEF Success
<1>5. CASE out \in Failure(d)
  BY <1>5 DEF Failure
<1>6. CASE req.op = "create_group" /\ out \notin Failure(d)
  <2>. DEFINE new == [owner |-> u, users |-> {}, requests |-> {}, files |-> {}]
  <2>1. SoundGroup(d, new)
    BY <1>2 DEF SoundGroup, Group, Party
  <2>2. QED
    BY <1>4, <1>6, <2>1 DEF GroupOutcomes, CreateGroup
<1>7. CASE req.op = "join_group" /\ out \notin Failure(d)
  <2>. DEFINE new == [grp EXCEPT !.requests = @ \cup {u}]
  <2>1. /\ grp # None /\ ~IsMember(grp, u)
        /\ out \in Success([d EXCEPT !.groups[g].requests = @ \cup {u}])
    BY <1>7 DEF GroupOutcomes, JoinGroup
  <2>2. SoundGroup(d, new)
    BY <1>2, <1>3, <2>1 DEF SoundGroup, Group, Party, IsMember
  <2>3. QED
    BY <1>4, <2>1, <2>2
<1>8. CASE req.op = "leave_group" /\ out \notin Failure(d)
  <2>. DEFINE new == [grp EXCEPT !.users = @ \ {u}]
  <2>1. /\ grp # None
        /\ out \in Success([d EXCEPT !.groups[g].users = @ \ {u}])
    BY <1>8 DEF GroupOutcomes, LeaveGroup
  <2>2. SoundGroup(d, new)
    BY <1>3, <2>1 DEF SoundGroup, Group, Party, IsMember
  <2>3. QED
    BY <1>4, <2>1, <2>2
<1>9. CASE /\ req.op \notin {"create_group", "join_group", "leave_group"}
           /\ out \notin Failure(d)
  <2>1. grp # None /\ \E r \in Named(grp, req.name) : out \in Success(Admit(d, g, r))
    BY <1>9 DEF GroupOutcomes, AcceptRequest
  <2>2. PICK r \in Named(grp, req.name) : out \in Success(Admit(d, g, r))
    BY <2>1
  <2>. DEFINE new == [grp EXCEPT !.users = @ \cup {r}, !.requests = @ \ {r}]
  <2>3. SoundGroup(d, new)
    BY <1>3, <2>1, <2>2 DEF SoundGroup, Group, Party, IsMember, Named
  <2>4. Admit(d, g, r) = [d EXCEPT !.groups[g] = new]
    BY <1>1, <1>3, <2>1 DEF Admit, DB, Group
  <2>5. QED
    BY <1>4, <2>2, <2>3, <2>4
<1>10. QED
  BY <1>5, <1>6, <1>7, <1>8, <1>9

(* File requests of a client logged in keep the invariant. *)
LEMMA FileInv ==
  ASSUME NEW d \in DB, DBInv(d), NEW u \in Sessions(d), NEW req \in FileRequest,
         NEW out \in FileOutcomes(d, u, req)
  PROVE  DBInv(out.db)
<1>. DEFINE g == req.group
            grp == d.groups[g]
<1>1. g \in Groups
  BY DEF FileRequest
<1>2. grp # None => SoundGroup(d, grp) /\ grp \in Group
  BY <1>1, ExistingSound DEF SoundGroup
<1>3. CASE out \in Failure(d) \cup Success(d)
  BY <1>3 DEF Failure, Success
<1>4. CASE out \notin Failure(d) \cup Success(d)
  <2>1. /\ req.op = "upload_file"
        /\ grp # None
        /\ out \in UploadFile(d, u, g, req.endpoint, req.file, req.hash)
    BY <1>4 DEF FileOutcomes, DownloadFile, UploadFile, MayUse
  <2>2. req.endpoint \in Clients /\ req.file \in FileNames /\ req.hash \in Hashes
    BY <2>1 DEF FileRequest
  <2>3. CASE SameFile(grp, req.hash) = {}
    <3>. DEFINE f == [name |-> req.file, hash |-> req.hash, seeders |-> {req.endpoint}]
                new == [grp EXCEPT !.files = @ \cup {f}]
    <3>1. out \in Success([d EXCEPT !.groups[g] = new])
      BY <1>4, <2>1, <2>3 DEF UploadFile
    <3>2. new \in Group
      BY <1>2, <2>1, <2>2 DEF Group, File
    <3>3. SoundGroup(d, new)
      <4>1. new.files = grp.files \cup {f} /\ f.seeders # {}
        BY <1>2, <2>1 DEF Group
      <4>2. \A f3 \in grp.files : f3.hash # f.hash
        BY <2>3 DEF SameFile
      <4>3. new.owner = grp.owner /\ new.users = grp.users /\ new.requests = grp.requests
        BY <1>2, <2>1 DEF Group
      <4>4. /\ \A f3, f4 \in new.files : f3.hash = f4.hash => f3 = f4
            /\ \A f3 \in new.files : f3.seeders # {}
        BY <1>2, <2>1, <4>1, <4>2 DEF SoundGroup
      <4>5. QED
        BY <1>2, <2>1, <3>2, <4>3, <4>4 DEF SoundGroup, Party, IsMember
    <3>4. QED
      BY <1>1, <3>1, <3>3, ReplaceGroup DEF Success
  <2>4. CASE SameFile(grp, req.hash) # {}
    <3>1. PICK f \in SameFile(grp, req.hash) :
            out \in Failure(AddSeeder(d, g, f, req.endpoint))
      BY <1>4, <2>1, <2>4 DEF UploadFile
    <3>. DEFINE f2 == [f EXCEPT !.seeders = @ \cup {req.endpoint}]
                new == [grp EXCEPT !.files = (@ \ {f}) \cup {f2}]
    <3>2. f \in File /\ f \in grp.files
      BY <1>2, <2>1 DEF SameFile, Group
    <3>3. f2 \in File /\ f2.hash = f.hash /\ f2.seeders # {}
      BY <3>2, <2>2 DEF File
    <3>4. new \in Group
      BY <1>2, <2>1, <3>3 DEF Group
    <3>5. SoundGroup(d, new)
      <4>1. \A f3 \in grp.files : f3.hash = f.hash => f3 = f
        BY <1>2, <2>1, <3>2 DEF SoundGroup
      <4>2. new.files = (grp.files \ {f}) \cup {f2}
        BY <1>2, <2>1 DEF Group
      <4>3. new.owner = grp.owner /\ new.users = grp.users /\ new.requests = grp.requests
        BY <1>2, <2>1 DEF Group
      <4>4. /\ \A f3, f4 \in new.files : f3.hash = f4.hash => f3 = f4
            /\ \A f3 \in new.files : f3.seeders # {}
        BY <1>2, <2>1, <3>3, <4>1, <4>2 DEF SoundGroup
      <4>5. QED
        BY <1>2, <2>1, <3>4, <4>3, <4>4 DEF SoundGroup, Party, IsMember
    <3>6. QED
      BY <1>1, <3>1, <3>5, ReplaceGroup DEF Failure, AddSeeder
  <2>5. QED
    BY <2>3, <2>4
<1>5. QED
  BY <1>3, <1>4

(* Whatever the request and whoever sends it, the invariant is kept. *)
THEOREM OutcomeInv ==
  ASSUME NEW d \in DB, DBInv(d), NEW c \in Clients, NEW req \in Request,
         NEW out \in Outcomes(d, c, req)
  PROVE  DBInv(out.db)
<1>1. CASE req \in UserRequest
  BY <1>1, UserInv DEF Outcomes
<1>2. CASE out \in Failure(d)
  BY <1>2 DEF Failure
<1>3. CASE req \notin UserRequest /\ out \notin Failure(d)
  <2>1. d.logged[c] # None /\ req \notin QueryRequest
    BY <1>3 DEF Outcomes
  <2>2. d.logged[c] \in Sessions(d)
    BY <2>1 DEF Sessions
  <2>3. CASE req \in GroupRequest
    BY <1>3, <2>1, <2>2, <2>3, GroupInv DEF Outcomes
  <2>4. CASE req \in FileRequest /\ req \notin GroupRequest
    BY <1>3, <2>1, <2>2, <2>4, FileInv DEF Outcomes
  <2>5. QED
    BY <1>3, <2>1, <2>3, <2>4 DEF Request
<1>4. QED
  BY <1>1, <1>2, <1>3

(* A tracker starts with sound databases. *)
LEMMA EmptySound == EmptyDB \in DB /\ DBInv(EmptyDB)
<1>1. EmptyDB \in DB
  BY DEF EmptyDB, DB
<1>2. Existing(EmptyDB) = {} /\ Pointed(EmptyDB) = {}
  BY DEF EmptyDB, Existing, Pointed, Accounts, Sessions
<1>3. QED
  BY <1>1, <1>2 DEF DBInv, NoMemberPending, AddressesDistinct, FilesListedOnce

-----------------------------------------------------------------------------
(* What a request may change of the groups there are, and of the accounts. *)

(* Request req of user u admits v to group g. *)
Accepts(u, req, g, grp, v) ==
  /\ u = grp.owner
  /\ req.op = "accept_request" /\ req.group = g /\ req.name = v.name

(* Nobody enters but on the owner's word, and the request is used up. *)
Admission(u, req, g, old, new) ==
  \A v \in new.users \ old.users :
    v \in old.requests \ new.requests /\ Accepts(u, req, g, old, v)

(* Owner, files and seeders are still there. *)
KeepsFiles(old, new) ==
  /\ new.owner = old.owner
  /\ \A f \in old.files : \E f2 \in new.files :
       f2.hash = f.hash /\ f2.name = f.name /\ f.seeders \subseteq f2.seeders

(* What request req of user u may make of group g. *)
Develops(u, req, g, old, new) ==
  new # None /\ Admission(u, req, g, old, new) /\ KeepsFiles(old, new)

(* Leaving a group alone is allowed. *)
LEMMA Undisturbed ==
  ASSUME NEW u, NEW req, NEW g, NEW grp, grp # None
  PROVE  Develops(u, req, g, grp, grp)
BY DEF Develops, Admission, KeepsFiles

(* One group is replaced by one it may develop into. *)
LEMMA OneDevelops ==
  ASSUME NEW d \in DB, NEW u, NEW req, NEW g \in Groups, NEW new \in Group,
         d.groups[g] # None => Develops(u, req, g, d.groups[g], new),
         NEW d2, d2 = [d EXCEPT !.groups[g] = new]
  PROVE  /\ d2.users = d.users
         /\ \A h \in Existing(d) : Develops(u, req, h, d.groups[h], d2.groups[h])
<1>1. /\ d2.users = d.users /\ d2.groups[g] = new
      /\ \A h \in Groups \ {g} : d2.groups[h] = d.groups[h]
  BY DEF DB
<1>2. QED
  BY <1>1, Undisturbed DEF Existing

(* Requests about groups are. *)
LEMMA GroupDevelops ==
  ASSUME NEW d \in DB, NEW u \in User, NEW req \in GroupRequest,
         NEW out \in GroupOutcomes(d, u, req)
  PROVE  /\ out.db.users = d.users
         /\ \A h \in Existing(d) : Develops(u, req, h, d.groups[h], out.db.groups[h])
<1>. DEFINE g == req.group
            grp == d.groups[g]
<1>1. g \in Groups
  BY DEF GroupRequest
<1>2. grp # None => grp \in Group
  BY <1>1 DEF DB
<1>3. \A h \in Group : h # None
  BY NoneAssumption
<1>4. ASSUME NEW new \in Group, out \in Success([d EXCEPT !.groups[g] = new]),
             grp # None => Develops(u, req, g, grp, new)
      PROVE  /\ out.db.users = d.users
             /\ \A h \in Existing(d) : Develops(u, req, h, d.groups[h], out.db.groups[h])
  <2>1. out.db = [d EXCEPT !.groups[g] = new]
    BY <1>4 DEF Success
  <2>2. QED
    BY <1>1, <1>4, <2>1, OneDevelops
<1>5. CASE out \in Failure(d)
  BY <1>5, Undisturbed DEF Failure, Existing
<1>6. CASE req.op = "create_group" /\ out \notin Failure(d)
  <2>. DEFINE new == [owner |-> u, users |-> {}, requests |-> {}, files |-> {}]
  <2>1. new \in Group /\ grp = None /\ out \in Success([d EXCEPT !.groups[g] = new])
    BY <1>6 DEF GroupOutcomes, CreateGroup, Group
  <2>2. QED
    BY <1>4, <2>1
<1>7. CASE req.op = "join_group" /\ out \notin Failure(d)
  <2>. DEFINE new == [grp EXCEPT !.requests = @ \cup {u}]
  <2>1. grp # None /\ out \in Success([d EXCEPT !.groups[g].requests = @ \cup {u}])
    BY <1>7 DEF GroupOutcomes, JoinGroup
  <2>2. new \in Group /\ Develops(u, req, g, grp, new)
    BY <1>2, <1>3, <2>1 DEF Group, Develops, Admission, KeepsFiles
  <2>3. QED
    BY <1>4, <2>1, <2>2
<1>8. CASE req.op = "leave_group" /\ out \notin Failure(d)
  <2>. DEFINE new == [grp EXCEPT !.users = @ \ {u}]
  <2>1. grp # None /\ out \in Success([d EXCEPT !.groups[g].users = @ \ {u}])
    BY <1>8 DEF GroupOutcomes, LeaveGroup
  <2>2. new \in Group /\ Develops(u, req, g, grp, new)
    BY <1>2, <1>3, <2>1 DEF Group, Develops, Admission, KeepsFiles
  <2>3. QED
    BY <1>4, <2>1, <2>2
<1>9. CASE /\ req.op \notin {"create_group", "join_group", "leave_group"}
           /\ out \notin Failure(d)
  <2>1. /\ grp # None /\ grp.owner = u
        /\ \E r \in Named(grp, req.name) : out \in Success(Admit(d, g, r))
    BY <1>9 DEF GroupOutcomes, AcceptRequest
  <2>2. PICK r \in Named(grp, req.name) : out \in Success(Admit(d, g, r))
    BY <2>1
  <2>. DEFINE new == [grp EXCEPT !.users = @ \cup {r}, !.requests = @ \ {r}]
  <2>3. req.op = "accept_request"
    BY <1>9 DEF GroupRequest
  <2>4. new \in Group /\ new.owner = grp.owner /\ new.files = grp.files
    BY <1>2, <2>1, <2>2 DEF Group, Named
  <2>5. \A v \in new.users \ grp.users :
          v \in grp.requests \ new.requests /\ v.name = req.name
    BY <1>2, <2>1, <2>2 DEF Group, Named
  <2>6. Develops(u, req, g, grp, new)
    BY <1>3, <2>1, <2>3, <2>4, <2>5 DEF Develops, Admission, Accepts, KeepsFiles
  <2>7. Admit(d, g, r) = [d EXCEPT !.groups[g] = new]
    BY <1>1, <1>2, <2>1 DEF Admit, DB, Group
  <2>8. QED
    BY <1>4, <2>2, <2>4, <2>6, <2>7
<1>10. QED
  BY <1>5, <1>6, <1>7, <1>8, <1>9

(* And requests about files. *)
LEMMA FileDevelops ==
  ASSUME NEW d \in DB, NEW u \in User, NEW req \in FileRequest,
         NEW out \in FileOutcomes(d, u, req)
  PROVE  /\ out.db.users = d.users
         /\ \A h \in Existing(d) : Develops(u, req, h, d.groups[h], out.db.groups[h])
<1>. DEFINE g == req.group
            grp == d.groups[g]
<1>1. g \in Groups
  BY DEF FileRequest
<1>2. grp # None => grp \in Group
  BY <1>1 DEF DB
<1>3. \A h \in Group : h # None
  BY NoneAssumption
<1>4. CASE out \in Failure(d) \cup Success(d)
  BY <1>4, Undisturbed DEF Failure, Success, Existing
<1>5. CASE out \notin Failure(d) \cup Success(d)
  <2>1. /\ req.op = "upload_file"
        /\ grp # None
        /\ out \in UploadFile(d, u, g, req.endpoint, req.file, req.hash)
    BY <1>5 DEF FileOutcomes, DownloadFile, UploadFile, MayUse
  <2>2. req.endpoint \in Clients /\ req.file \in FileNames /\ req.hash \in Hashes
    BY <2>1 DEF FileRequest
  <2>3. CASE SameFile(grp, req.hash) = {}
    <3>. DEFINE f == [name |-> req.file, hash |-> req.hash, seeders |-> {req.endpoint}]
                new == [grp EXCEPT !.files = @ \cup {f}]
    <3>1. out \in Success([d EXCEPT !.groups[g] = new])
      BY <1>5, <2>1, <2>3 DEF UploadFile
    <3>2. new \in Group
      BY <1>2, <2>1, <2>2 DEF Group, File
    <3>3. /\ new.owner = grp.owner /\ new.users = grp.users
          /\ grp.files \subseteq new.files
      BY <1>2, <2>1 DEF Group
    <3>4. Develops(u, req, g, grp, new)
      BY <1>3, <3>2, <3>3 DEF Develops, Admission, KeepsFiles
    <3>5. out.db = [d EXCEPT !.groups[g] = new]
      BY <3>1 DEF Success
    <3>6. QED
      BY <1>1, <3>2, <3>4, <3>5, OneDevelops
  <2>4. CASE SameFile(grp, req.hash) # {}
    <3>1. PICK f \in SameFile(grp, req.hash) :
            out \in Failure(AddSeeder(d, g, f, req.endpoint))
      BY <1>5, <2>1, <2>4 DEF UploadFile
    <3>. DEFINE f2 == [f EXCEPT !.seeders = @ \cup {req.endpoint}]
                new == [grp EXCEPT !.files = (@ \ {f}) \cup {f2}]
    <3>2. f \in File
      BY <1>2, <2>1 DEF SameFile, Group
    <3>3. /\ f2 \in File /\ f2.hash = f.hash /\ f2.name = f.name
          /\ f.seeders \subseteq f2.seeders
      BY <3>2, <2>2 DEF File
    <3>4. /\ new \in Group /\ new.owner = grp.owner /\ new.users = grp.users
          /\ new.files = (grp.files \ {f}) \cup {f2}
      BY <1>2, <2>1, <3>3 DEF Group
    <3>5. Develops(u, req, g, grp, new)
      BY <1>3, <3>3, <3>4 DEF Develops, Admission, KeepsFiles
    <3>6. out.db = [d EXCEPT !.groups[g] = new]
      BY <3>1 DEF Failure, AddSeeder
    <3>7. new \in Group
      BY <3>4
    <3>. HIDE DEF new, f2
    <3>8. QED
      BY <1>1, <3>5, <3>6, <3>7, OneDevelops
  <2>5. QED
    BY <2>3, <2>4
<1>6. QED
  BY <1>4, <1>5

(* An account appears only with a user that nothing pointed to. *)
LEMMA UserAppears ==
  ASSUME NEW d \in DB, DBInv(d), NEW c \in Clients, NEW req \in UserRequest,
         NEW out \in UserOutcomes(d, c, req), NEW n \in Names,
         out.db.users[n] # None, out.db.users[n] # d.users[n]
  PROVE  out.db.users[n] \notin Pointed(d)
<1>1. CASE req.op = "create_user" /\ out \notin Failure(d)
  <2>. DEFINE u == [name |-> req.name, password |-> req.password, oid |-> d.made]
  <2>1. out.db.users = [d.users EXCEPT ![req.name] = u]
    BY <1>1 DEF UserOutcomes, CreateUser, Success
  <2>2. out.db.users[n] = u
    BY <2>1 DEF DB
  <2>3. u.oid = d.made /\ d.made \in Nat
    BY DEF DB
  <2>4. \A v \in Pointed(d) : v.oid < d.made
    BY DEF DBInv, AddressesDistinct
  <2>5. QED
    BY <2>2, <2>3, <2>4
<1>2. CASE out \in Failure(d)
  BY <1>2 DEF Failure
<1>3. CASE req.op = "delete_user" /\ out \notin Failure(d)
  <2>1. out.db.users = [d.users EXCEPT ![req.name] = None]
    BY <1>3 DEF UserOutcomes, DeleteUser, Success, DB
  <2>2. QED
    BY <2>1 DEF DB
<1>4. CASE req.op \notin {"create_user", "delete_user"} /\ out \notin Failure(d)
  <2>1. out.db.users = d.users
    BY <1>4 DEF UserOutcomes, Login, Logout, Success, DB
  <2>2. QED
    BY <2>1
<1>5. QED
  BY <1>1, <1>2, <1>3, <1>4

(* What one request of a client changes, whatever it is. *)
THEOREM OutcomeChanges ==
  ASSUME NEW d \in DB, DBInv(d), NEW c \in Clients, NEW req \in Request,
         NEW out \in Outcomes(d, c, req)
  PROVE  /\ \A g \in Existing(d) :
              Develops(d.logged[c], req, g, d.groups[g], out.db.groups[g])
         /\ \A n \in Names : out.db.users[n] # None /\ out.db.users[n] # d.users[n] =>
              out.db.users[n] \notin Pointed(d)
<1>1. CASE req \in UserRequest
  <2>1. out \in UserOutcomes(d, c, req)
    BY <1>1 DEF Outcomes
  <2>2. out.db.groups = d.groups
    <3>1. CASE out \in CreateUser(d, req.name, req.password)
      BY <3>1 DEF CreateUser, Success, Failure
    <3>2. CASE out \in DeleteUser(d, req.name)
      BY <3>2 DEF DeleteUser, Success, Failure, DB
    <3>3. CASE out \in Login(d, c, req.name, req.password) \cup Logout(d, c)
      BY <3>3 DEF Login, Logout, Success, Failure, DB
    <3>4. QED
      BY <2>1, <3>1, <3>2, <3>3 DEF UserOutcomes
  <2>3. QED
    BY <1>1, <2>1, <2>2, Undisturbed, UserAppears DEF Existing
<1>2. CASE out \in Failure(d)
  BY <1>2, Undisturbed DEF Failure, Existing
<1>3. CASE req \notin UserRequest /\ out \notin Failure(d)
  <2>1. d.logged[c] # None /\ req \notin QueryRequest
    BY <1>3 DEF Outcomes
  <2>2. d.logged[c] \in User
    BY <2>1 DEF DB
  <2>3. CASE req \in GroupRequest
    BY <1>3, <2>1, <2>2, <2>3, GroupDevelops DEF Outcomes
  <2>4. CASE req \in FileRequest /\ req \notin GroupRequest
    BY <1>3, <2>1, <2>2, <2>4, FileDevelops DEF Outcomes
  <2>5. QED
    BY <1>3, <2>1, <2>3, <2>4 DEF Request
<1>4. QED
  BY <1>1, <1>2, <1>3

-----------------------------------------------------------------------------
(* What the answer to a request depends on. *)

(* The files of a group but for who seeds them. *)
Listed(grp) == {<<f.name, f.hash>> : f \in grp.files}

(* Groups that differ in the seeders of files alone ... *)
SameGroup(grp, grp2) ==
  \/ grp = None /\ grp2 = None
  \/ /\ grp # None /\ grp2 # None
     /\ grp.owner = grp2.owner /\ grp.users = grp2.users /\ grp.requests = grp2.requests
     /\ Listed(grp) = Listed(grp2)

(* ... and such databases. *)
Same(d, d2) ==
  /\ d.users = d2.users /\ d.logged = d2.logged /\ d.made = d2.made
  /\ \A g \in Groups : SameGroup(d.groups[g], d2.groups[g])

(* Being the same but for seeders is an equivalence. *)
LEMMA SameReflexive == ASSUME NEW d PROVE Same(d, d)
BY DEF Same, SameGroup

(* The second part. *)
LEMMA SameSymmetric == ASSUME NEW d, NEW d2, Same(d, d2) PROVE Same(d2, d)
BY DEF Same, SameGroup

(* The third part. *)
LEMMA SameTransitive ==
  ASSUME NEW d, NEW d2, NEW d3, Same(d, d2), Same(d2, d3)
  PROVE  Same(d, d3)
BY DEF Same, SameGroup

(* Replacing a group by one that is the same but for seeders, on both sides. *)
LEMMA SameReplaced ==
  ASSUME NEW d \in DB, NEW d2 \in DB, Same(d, d2), NEW g \in Groups,
         NEW new, NEW new2, SameGroup(new, new2)
  PROVE  Same([d EXCEPT !.groups[g] = new], [d2 EXCEPT !.groups[g] = new2])
<1>. DEFINE e == [d EXCEPT !.groups[g] = new]
            e2 == [d2 EXCEPT !.groups[g] = new2]
<1>1. /\ e.users = d.users /\ e.logged = d.logged /\ e.made = d.made
      /\ e.groups[g] = new /\ \A h \in Groups \ {g} : e.groups[h] = d.groups[h]
  BY DEF DB
<1>2. /\ e2.users = d2.users /\ e2.logged = d2.logged /\ e2.made = d2.made
      /\ e2.groups[g] = new2 /\ \A h \in Groups \ {g} : e2.groups[h] = d2.groups[h]
  BY DEF DB
<1>. HIDE DEF e, e2
<1>3. QED
  BY <1>1, <1>2 DEF Same, e, e2

(* The same file is listed on both sides. *)
LEMMA ListedIn ==
  ASSUME NEW grp, NEW grp2, Listed(grp) = Listed(grp2)
  PROVE  /\ \A f \in grp.files : \E f2 \in grp2.files : f2.name = f.name /\ f2.hash = f.hash
         /\ \A f \in grp2.files : \E f2 \in grp.files : f2.name = f.name /\ f2.hash = f.hash
<1>1. \A f \in grp.files : <<f.name, f.hash>> \in Listed(grp2)
  BY DEF Listed
<1>2. \A f \in grp2.files : <<f.name, f.hash>> \in Listed(grp)
  BY DEF Listed
<1>3. QED
  BY <1>1, <1>2 DEF Listed

(* One more seeder changes nothing else. *)
LEMMA SeederSame ==
  ASSUME NEW d \in DB, NEW g \in Groups, d.groups[g] \in Group,
         NEW f \in d.groups[g].files, NEW e \in Clients
  PROVE  Same(AddSeeder(d, g, f, e), d)
<1>. DEFINE grp == d.groups[g]
            f2 == [f EXCEPT !.seeders = @ \cup {e}]
            new == [grp EXCEPT !.files = (@ \ {f}) \cup {f2}]
<1>1. f \in File
  BY DEF Group
<1>2. f2 \in File /\ f2.name = f.name /\ f2.hash = f.hash
  BY <1>1 DEF File
<1>3. /\ new.owner = grp.owner /\ new.users = grp.users /\ new.requests = grp.requests
      /\ new.files = (grp.files \ {f}) \cup {f2}
  BY DEF Group
<1>4. new \in Group /\ new # None /\ grp # None
  <2>1. (grp.files \ {f}) \cup {f2} \in SUBSET File
    BY <1>2 DEF Group
  <2>2. new \in Group
    BY <2>1 DEF Group
  <2>3. QED
    BY <2>2, NoneAssumption
<1>5. AddSeeder(d, g, f, e) = [d EXCEPT !.groups[g] = new]
  BY DEF AddSeeder
<1>6. [d EXCEPT !.groups[g] = grp] = d
  BY DEF DB
<1>. HIDE DEF f2, new
<1>7. Listed(new) = Listed(grp)
  BY <1>2, <1>3 DEF Listed
<1>8. SameGroup(new, grp)
  BY <1>3, <1>4, <1>7 DEF SameGroup
<1>9. Same([d EXCEPT !.groups[g] = new], [d EXCEPT !.groups[g] = grp])
  BY <1>8, SameReflexive, SameReplaced
<1>10. QED
  BY <1>5, <1>6, <1>9

(* The answer to a request of similar databases: it succeeds on one side as on
   the other and leaves them similar. *)
Answers(out, outs) ==
  \E out2 \in outs : out2.success = out.success /\ Same(out2.db, out.db)

(* Requests about users have the same answers there. *)
LEMMA UserSame ==
  ASSUME NEW d \in DB, NEW d2 \in DB, Same(d2, d), NEW c \in Clients,
         NEW req \in UserRequest, NEW out \in UserOutcomes(d, c, req)
  PROVE  Answers(out, UserOutcomes(d2, c, req))
<1>0. d2.users = d.users /\ d2.logged = d.logged /\ d2.made = d.made
  BY DEF Same
<1>1. CASE req.op = "create_user"
  <2>. DEFINE u == [name |-> req.name, password |-> req.password, oid |-> d.made]
              Made(x) == [users  |-> [x.users EXCEPT ![req.name] = u],
                          logged |-> x.logged, groups |-> x.groups, made |-> x.made + 1]
              turned(x) == req.name = Blank \/ req.password = Blank \/ UserExists(x, req.name)
  <2>0. turned(d2) = turned(d)
    BY <1>0 DEF UserExists
  <2>1. CASE turned(d)
    <3>1. out = [db |-> d, success |-> FALSE]
      BY <1>1, <2>1 DEF UserOutcomes, CreateUser, Failure
    <3>2. [db |-> d2, success |-> FALSE] \in UserOutcomes(d2, c, req)
      BY <1>1, <2>0, <2>1 DEF UserOutcomes, CreateUser, Failure
    <3>3. QED
      BY <3>1, <3>2 DEF Answers
  <2>2. CASE ~turned(d)
    <3>1. out = [db |-> Made(d), success |-> TRUE]
      BY <1>1, <2>2 DEF UserOutcomes, CreateUser, Success
    <3>2. [db |-> Made(d2), success |-> TRUE] \in UserOutcomes(d2, c, req)
      BY <1>0, <1>1, <2>0, <2>2 DEF UserOutcomes, CreateUser, Success
    <3>3. Same(Made(d2), Made(d))
      BY <1>0 DEF Same
    <3>. HIDE DEF Made, turned
    <3>4. QED
      BY <3>1, <3>2, <3>3 DEF Answers
  <2>3. QED
    BY <2>1, <2>2
<1>2. CASE req.op = "delete_user"
  <2>1. CASE UserExists(d, req.name)
    <3>1. out = [db |-> [d EXCEPT !.users[req.name] = None], success |-> TRUE]
      BY <1>2, <2>1 DEF UserOutcomes, DeleteUser, Success
    <3>2. [db |-> [d2 EXCEPT !.users[req.name] = None], success |-> TRUE]
            \in UserOutcomes(d2, c, req)
      BY <1>0, <1>2, <2>1 DEF UserOutcomes, DeleteUser, Success, UserExists
    <3>3. Same([d2 EXCEPT !.users[req.name] = None], [d EXCEPT !.users[req.name] = None])
      BY <1>0 DEF Same, DB
    <3>4. QED
      BY <3>1, <3>2, <3>3 DEF Answers
  <2>2. CASE ~UserExists(d, req.name)
    <3>1. out = [db |-> d, success |-> FALSE]
      BY <1>2, <2>2 DEF UserOutcomes, DeleteUser, Failure
    <3>2. [db |-> d2, success |-> FALSE] \in UserOutcomes(d2, c, req)
      BY <1>0, <1>2, <2>2 DEF UserOutcomes, DeleteUser, Failure, UserExists
    <3>3. QED
      BY <3>1, <3>2 DEF Answers
  <2>3. QED
    BY <2>1, <2>2
<1>3. CASE req.op = "login"
  <2>. DEFINE ok(x) == /\ req.name # Blank /\ req.password # Blank
                       /\ x.logged[c] = None
                       /\ UserExists(x, req.name)
                       /\ x.users[req.name].password = req.password
              In1(x) == [x EXCEPT !.logged[c] = x.users[req.name]]
  <2>0. ok(d2) = ok(d)
    BY <1>0 DEF UserExists
  <2>1. CASE ok(d)
    <3>1. out = [db |-> In1(d), success |-> TRUE]
      BY <1>3, <2>1 DEF UserOutcomes, Login, Success
    <3>2. [db |-> In1(d2), success |-> TRUE] \in UserOutcomes(d2, c, req)
      BY <1>0, <1>3, <2>0, <2>1 DEF UserOutcomes, Login, Success
    <3>3. Same(In1(d2), In1(d))
      BY <1>0 DEF Same, DB
    <3>. HIDE DEF In1, ok
    <3>4. QED
      BY <3>1, <3>2, <3>3 DEF Answers
  <2>2. CASE ~ok(d)
    <3>1. out = [db |-> d, success |-> FALSE]
      BY <1>3, <2>2 DEF UserOutcomes, Login, Failure
    <3>2. [db |-> d2, success |-> FALSE] \in UserOutcomes(d2, c, req)
      BY <1>3, <2>0, <2>2 DEF UserOutcomes, Login, Failure
    <3>3. QED
      BY <3>1, <3>2 DEF Answers
  <2>3. QED
    BY <2>1, <2>2
<1>4. CASE req.op \notin {"create_user", "delete_user", "login"}
  <2>1. CASE d.logged[c] # None
    <3>1. out = [db |-> [d EXCEPT !.logged[c] = None], success |-> TRUE]
      BY <1>4, <2>1 DEF UserOutcomes, Logout, Success
    <3>2. [db |-> [d2 EXCEPT !.logged[c] = None], success |-> TRUE]
            \in UserOutcomes(d2, c, req)
      BY <1>0, <1>4, <2>1 DEF UserOutcomes, Logout, Success
    <3>3. Same([d2 EXCEPT !.logged[c] = None], [d EXCEPT !.logged[c] = None])
      BY <1>0 DEF Same, DB
    <3>4. QED
      BY <3>1, <3>2, <3>3 DEF Answers
  <2>2. CASE d.logged[c] = None
    <3>1. out = [db |-> d, success |-> FALSE]
      BY <1>4, <2>2 DEF UserOutcomes, Logout, Failure
    <3>2. [db |-> d2, success |-> FALSE] \in UserOutcomes(d2, c, req)
      BY <1>0, <1>4, <2>2 DEF UserOutcomes, Logout, Failure
    <3>3. QED
      BY <3>1, <3>2 DEF Answers
  <2>3. QED
    BY <2>1, <2>2
<1>5. QED
  BY <1>1, <1>2, <1>3, <1>4

(* Requests about groups as well. *)
LEMMA GroupSame ==
  ASSUME NEW d \in DB, NEW d2 \in DB, Same(d2, d), NEW u \in User,
         NEW req \in GroupRequest, NEW out \in GroupOutcomes(d, u, req)
  PROVE  Answers(out, GroupOutcomes(d2, u, req))
<1>. DEFINE g == req.group
            grp == d.groups[g]
            grp2 == d2.groups[g]
<1>1. g \in Groups
  BY DEF GroupRequest
<1>2. SameGroup(grp2, grp)
  BY <1>1 DEF Same
<1>3. /\ grp # None => grp \in Group
      /\ grp2 # None => grp2 \in Group
  BY <1>1 DEF DB
<1>4. ASSUME [db |-> d2, success |-> FALSE] \in GroupOutcomes(d2, u, req),
             out = [db |-> d, success |-> FALSE]
      PROVE  Answers(out, GroupOutcomes(d2, u, req))
  BY <1>4 DEF Answers
<1>5. ASSUME NEW new \in Group, NEW new2 \in Group, SameGroup(new2, new),
             out = [db |-> [d EXCEPT !.groups[g] = new], success |-> TRUE],
             [db |-> [d2 EXCEPT !.groups[g] = new2], success |-> TRUE]
               \in GroupOutcomes(d2, u, req)
      PROVE  Answers(out, GroupOutcomes(d2, u, req))
  <2>1. Same([d2 EXCEPT !.groups[g] = new2], [d EXCEPT !.groups[g] = new])
    BY <1>1, <1>5, SameReplaced
  <2>2. QED
    BY <1>5, <2>1 DEF Answers
<1>6. CASE req.op = "create_group"
  <2>. DEFINE new == [owner |-> u, users |-> {}, requests |-> {}, files |-> {}]
  <2>1. CASE grp = None
    <3>1. out = [db |-> [d EXCEPT !.groups[g] = new], success |-> TRUE]
      BY <1>6, <2>1 DEF GroupOutcomes, CreateGroup, Success
    <3>2. [db |-> [d2 EXCEPT !.groups[g] = new], success |-> TRUE]
            \in GroupOutcomes(d2, u, req)
      BY <1>2, <1>6, <2>1 DEF GroupOutcomes, CreateGroup, Success, SameGroup
    <3>3. new \in Group
      BY DEF Group
    <3>4. SameGroup(new, new)
      BY DEF SameGroup
    <3>. HIDE DEF new
    <3>5. QED
      BY <1>5, <3>1, <3>2, <3>3, <3>4
  <2>2. CASE grp # None
    BY <1>2, <1>4, <1>6, <2>2 DEF GroupOutcomes, CreateGroup, Failure, SameGroup
  <2>3. QED
    BY <2>1, <2>2
<1>7. CASE req.op = "join_group"
  <2>. DEFINE new == [grp EXCEPT !.requests = @ \cup {u}]
              new2 == [grp2 EXCEPT !.requests = @ \cup {u}]
  <2>1. CASE grp # None /\ ~IsMember(grp, u)
    <3>1. out = [db |-> [d EXCEPT !.groups[g] = new], success |-> TRUE]
      BY <1>7, <2>1 DEF GroupOutcomes, JoinGroup, Success
    <3>2. [db |-> [d2 EXCEPT !.groups[g] = new2], success |-> TRUE]
            \in GroupOutcomes(d2, u, req)
      BY <1>2, <1>7, <2>1 DEF GroupOutcomes, JoinGroup, Success, SameGroup, IsMember
    <3>3. new \in Group /\ new2 \in Group
      BY <1>2, <1>3, <2>1 DEF SameGroup, Group
    <3>4. SameGroup(new2, new)
      BY <1>2, <1>3, <2>1, <3>3, NoneAssumption DEF SameGroup, Group, Listed
    <3>. HIDE DEF new, new2
    <3>5. QED
      BY <1>5, <3>1, <3>2, <3>3, <3>4
  <2>2. CASE ~(grp # None /\ ~IsMember(grp, u))
    BY <1>2, <1>4, <1>7, <2>2 DEF GroupOutcomes, JoinGroup, Failure, SameGroup, IsMember
  <2>3. QED
    BY <2>1, <2>2
<1>8. CASE req.op = "leave_group"
  <2>. DEFINE new == [grp EXCEPT !.users = @ \ {u}]
              new2 == [grp2 EXCEPT !.users = @ \ {u}]
  <2>1. CASE grp # None /\ u \in grp.users
    <3>1. out = [db |-> [d EXCEPT !.groups[g] = new], success |-> TRUE]
      BY <1>8, <2>1 DEF GroupOutcomes, LeaveGroup, Success
    <3>2. [db |-> [d2 EXCEPT !.groups[g] = new2], success |-> TRUE]
            \in GroupOutcomes(d2, u, req)
      BY <1>2, <1>8, <2>1 DEF GroupOutcomes, LeaveGroup, Success, SameGroup
    <3>3. new \in Group /\ new2 \in Group
      BY <1>2, <1>3, <2>1 DEF SameGroup, Group
    <3>4. SameGroup(new2, new)
      BY <1>2, <1>3, <2>1, <3>3, NoneAssumption DEF SameGroup, Group, Listed
    <3>. HIDE DEF new, new2
    <3>5. QED
      BY <1>5, <3>1, <3>2, <3>3, <3>4
  <2>2. CASE ~(grp # None /\ u \in grp.users)
    BY <1>2, <1>4, <1>8, <2>2 DEF GroupOutcomes, LeaveGroup, Failure, SameGroup
  <2>3. QED
    BY <2>1, <2>2
<1>9. CASE req.op \notin {"create_group", "join_group", "leave_group"}
  <2>. DEFINE ok == grp # None /\ grp.owner = u /\ Named(grp, req.name) # {}
  <2>1. CASE ok
    <3>1. PICK r \in Named(grp, req.name) : out \in Success(Admit(d, g, r))
      BY <1>9, <2>1 DEF GroupOutcomes, AcceptRequest
    <3>2. r \in Named(grp2, req.name) /\ grp2 # None /\ grp2.owner = u
      BY <1>2, <2>1, <3>1 DEF SameGroup, Named
    <3>. DEFINE new == [grp EXCEPT !.users = @ \cup {r}, !.requests = @ \ {r}]
                new2 == [grp2 EXCEPT !.users = @ \cup {r}, !.requests = @ \ {r}]
    <3>3. Admit(d, g, r) = [d EXCEPT !.groups[g] = new]
      BY <1>1, <1>3, <2>1 DEF Admit, DB, Group
    <3>4. Admit(d2, g, r) = [d2 EXCEPT !.groups[g] = new2]
      BY <1>1, <1>3, <3>2 DEF Admit, DB, Group
    <3>5. out = [db |-> [d EXCEPT !.groups[g] = new], success |-> TRUE]
      BY <3>1, <3>3 DEF Success
    <3>6. [db |-> Admit(d2, g, r), success |-> TRUE] \in GroupOutcomes(d2, u, req)
      BY <1>9, <3>2 DEF GroupOutcomes, AcceptRequest, Success
    <3>7. new \in Group /\ new2 \in Group
      BY <1>2, <1>3, <2>1, <3>1, <3>2 DEF SameGroup, Group, Named
    <3>8. SameGroup(new2, new)
      BY <1>2, <1>3, <2>1, <3>2, <3>7, NoneAssumption DEF SameGroup, Group, Listed
    <3>. HIDE DEF new, new2
    <3>9. QED
      BY <1>5, <3>4, <3>5, <3>6, <3>7, <3>8
  <2>2. CASE ~ok
    BY <1>2, <1>4, <1>9, <2>2 DEF GroupOutcomes, AcceptRequest, Failure, SameGroup, Named
  <2>3. QED
    BY <2>1, <2>2
<1>10. QED
  BY <1>6, <1>7, <1>8, <1>9

(* Requests about files as well, and one that fails changes seeders at most: the
   second uploader of a file is counted as a failure. *)
LEMMA FileSame ==
  ASSUME NEW d \in DB, NEW d2 \in DB, Same(d2, d), NEW u \in User,
         NEW req \in FileRequest, NEW out \in FileOutcomes(d, u, req)
  PROVE  /\ Answers(out, FileOutcomes(d2, u, req))
         /\ ~out.success => Same(out.db, d)
<1>. DEFINE g == req.group
            grp == d.groups[g]
            grp2 == d2.groups[g]
<1>1. g \in Groups
  BY DEF FileRequest
<1>2. SameGroup(grp2, grp)
  BY <1>1 DEF Same
<1>3. /\ grp # None => grp \in Group
      /\ grp2 # None => grp2 \in Group
  BY <1>1 DEF DB
<1>4. MayUse(d2, u, g) = MayUse(d, u, g)
  BY <1>2 DEF MayUse, SameGroup, IsMember
<1>5. ASSUME NEW b \in BOOLEAN, [db |-> d2, success |-> b] \in FileOutcomes(d2, u, req),
             out = [db |-> d, success |-> b]
      PROVE  Answers(out, FileOutcomes(d2, u, req)) /\ Same(out.db, d)
  BY <1>5, SameReflexive DEF Answers
<1>6. CASE ~MayUse(d, u, g)
  <2>1. out = [db |-> d, success |-> FALSE]
    BY <1>6 DEF FileOutcomes, UploadFile, DownloadFile, Failure
  <2>2. [db |-> d2, success |-> FALSE] \in FileOutcomes(d2, u, req)
    BY <1>4, <1>6 DEF FileOutcomes, UploadFile, DownloadFile, Failure
  <2>3. QED
    BY <1>5, <2>1, <2>2
<1>7. CASE MayUse(d, u, g) /\ req.op # "upload_file"
  <2>. DEFINE has(x) == \E f \in x.files : f.name = req.file
  <2>1. has(grp2) = has(grp)
    <3>1. Listed(grp2) = Listed(grp)
      BY <1>2, <1>7 DEF SameGroup, MayUse
    <3>2. /\ \A f \in grp2.files : \E f2 \in grp.files : f2.name = f.name /\ f2.hash = f.hash
          /\ \A f \in grp.files : \E f2 \in grp2.files : f2.name = f.name /\ f2.hash = f.hash
      BY <3>1, ListedIn
    <3>3. QED
      BY <3>2
  <2>2. FileOutcomes(d, u, req) = {[db |-> d, success |-> has(grp)]}
    BY <1>7 DEF FileOutcomes, DownloadFile, Success, Failure
  <2>3. FileOutcomes(d2, u, req) = {[db |-> d2, success |-> has(grp2)]}
    BY <1>4, <1>7 DEF FileOutcomes, DownloadFile, Success, Failure
  <2>4. QED
    BY <1>5, <2>1, <2>2, <2>3
<1>8. CASE MayUse(d, u, g) /\ req.op = "upload_file"
  <2>. DEFINE h == req.hash
              e == req.endpoint
              f0 == [name |-> req.file, hash |-> h, seeders |-> {e}]
              new == [grp EXCEPT !.files = @ \cup {f0}]
              new2 == [grp2 EXCEPT !.files = @ \cup {f0}]
  <2>1. e \in Clients /\ h \in Hashes /\ req.file \in FileNames
    BY <1>8 DEF FileRequest
  <2>2. /\ grp # None /\ grp2 # None /\ grp \in Group /\ grp2 \in Group
        /\ grp2.owner = grp.owner /\ grp2.users = grp.users
        /\ grp2.requests = grp.requests /\ Listed(grp2) = Listed(grp)
    BY <1>2, <1>3, <1>8 DEF MayUse, SameGroup
  <2>3. (SameFile(grp2, h) = {}) = (SameFile(grp, h) = {})
    <3>1. /\ \A f \in grp2.files : \E f2 \in grp.files : f2.name = f.name /\ f2.hash = f.hash
          /\ \A f \in grp.files : \E f2 \in grp2.files : f2.name = f.name /\ f2.hash = f.hash
      BY <2>2, ListedIn
    <3>2. QED
      BY <3>1 DEF SameFile
  <2>4. CASE SameFile(grp, h) = {}
    <3>1. out = [db |-> [d EXCEPT !.groups[g] = new], success |-> TRUE]
      BY <1>8, <2>4 DEF FileOutcomes, UploadFile, Success
    <3>2. [db |-> [d2 EXCEPT !.groups[g] = new2], success |-> TRUE]
            \in FileOutcomes(d2, u, req)
      BY <1>4, <1>8, <2>3, <2>4 DEF FileOutcomes, UploadFile, Success
    <3>3. new \in Group /\ new2 \in Group
      BY <2>1, <2>2 DEF Group, File
    <3>4. /\ new.files = grp.files \cup {f0} /\ new2.files = grp2.files \cup {f0}
          /\ f0.name = req.file /\ f0.hash = h
      BY <2>2 DEF Group
    <3>5. Listed(new2) = Listed(new)
      <4>. HIDE DEF new, new2, f0
      <4>1. Listed(new) = Listed(grp) \cup {<<req.file, h>>}
        BY <3>4 DEF Listed
      <4>2. Listed(new2) = Listed(grp2) \cup {<<req.file, h>>}
        BY <3>4 DEF Listed
      <4>3. QED
        BY <2>2, <4>1, <4>2
    <3>6. SameGroup(new2, new)
      <4>1. new2.owner = grp2.owner /\ new2.users = grp2.users /\ new2.requests = grp2.requests
        BY <2>2 DEF Group
      <4>2. new.owner = grp.owner /\ new.users = grp.users /\ new.requests = grp.requests
        BY <2>2 DEF Group
      <4>3. new2 # None /\ new # None
        BY <3>3, NoneAssumption
      <4>. HIDE DEF new, new2
      <4>4. QED
        BY <2>2, <3>5, <4>1, <4>2, <4>3 DEF SameGroup
    <3>. HIDE DEF new, new2
    <3>7. Same([d2 EXCEPT !.groups[g] = new2], [d EXCEPT !.groups[g] = new])
      BY <1>1, <3>6, SameReplaced
    <3>8. QED
      BY <3>1, <3>2, <3>7 DEF Answers
  <2>5. CASE SameFile(grp, h) # {}
    <3>1. PICK f \in SameFile(grp, h) : out \in Failure(AddSeeder(d, g, f, e))
      BY <1>8, <2>5 DEF FileOutcomes, UploadFile
    <3>2. PICK f2 \in SameFile(grp2, h) : TRUE
      BY <2>3, <2>5
    <3>3. f \in grp.files /\ f2 \in grp2.files
      BY <3>1, <3>2 DEF SameFile
    <3>4. [db |-> AddSeeder(d2, g, f2, e), success |-> FALSE] \in FileOutcomes(d2, u, req)
      BY <1>4, <1>8, <2>3, <2>5, <3>2 DEF FileOutcomes, UploadFile, Failure
    <3>5. Same(AddSeeder(d, g, f, e), d)
      BY <1>1, <2>1, <2>2, <3>3, SeederSame
    <3>6. Same(AddSeeder(d2, g, f2, e), d2)
      BY <1>1, <2>1, <2>2, <3>3, SeederSame
    <3>7. out = [db |-> AddSeeder(d, g, f, e), success |-> FALSE]
      BY <3>1 DEF Failure
    <3>8. Same(AddSeeder(d2, g, f2, e), AddSeeder(d, g, f, e))
      BY <3>5, <3>6, SameSymmetric, SameTransitive
    <3>9. QED
      BY <3>4, <3>5, <3>7, <3>8 DEF Answers
  <2>6. QED
    BY <2>4, <2>5
<1>9. QED
  BY <1>6, <1>7, <1>8

(* Requests do not look at seeders: similar databases answer a request alike. *)
THEOREM OutcomesSame ==
  ASSUME NEW d \in DB, NEW d2 \in DB, Same(d2, d), NEW c \in Clients,
         NEW req \in Request, NEW out \in Outcomes(d, c, req)
  PROVE  Answers(out, Outcomes(d2, c, req))
<1>0. d2.logged = d.logged
  BY DEF Same
<1>1. CASE req \in UserRequest
  BY <1>1, UserSame DEF Outcomes
<1>2. CASE req \notin UserRequest /\ (req \in QueryRequest \/ d.logged[c] = None)
  <2>1. out = [db |-> d, success |-> FALSE]
    BY <1>2 DEF Outcomes, Failure
  <2>2. [db |-> d2, success |-> FALSE] \in Outcomes(d2, c, req)
    BY <1>0, <1>2 DEF Outcomes, Failure
  <2>3. QED
    BY <2>1, <2>2 DEF Answers
<1>3. CASE req \notin UserRequest /\ ~(req \in QueryRequest \/ d.logged[c] = None)
  <2>1. d.logged[c] \in User
    BY <1>3 DEF DB
  <2>2. CASE req \in GroupRequest
    <3>1. out \in GroupOutcomes(d, d.logged[c], req)
      BY <1>3, <2>2 DEF Outcomes
    <3>2. Outcomes(d2, c, req) = GroupOutcomes(d2, d.logged[c], req)
      BY <1>0, <1>3, <2>2 DEF Outcomes
    <3>3. QED
      BY <2>1, <2>2, <3>1, <3>2, GroupSame
  <2>3. CASE req \notin GroupRequest
    <3>1. out \in FileOutcomes(d, d.logged[c], req) /\ req \in FileRequest
      BY <1>3, <2>3 DEF Outcomes, Request
    <3>2. Outcomes(d2, c, req) = FileOutcomes(d2, d.logged[c], req)
      BY <1>0, <1>3, <2>3 DEF Outcomes
    <3>3. QED
      BY <2>1, <3>1, <3>2, FileSame
  <2>4. QED
    BY <2>2, <2>3
<1>4. QED
  BY <1>1, <1>2, <1>3

(* A request that fails changes nothing but the seeders of a file. *)
THEOREM FailureSame ==
  ASSUME NEW d \in DB, NEW c \in Clients, NEW req \in Request,
         NEW out \in Outcomes(d, c, req), ~out.success
  PROVE  Same(out.db, d)
<1>1. CASE out \in Failure(d)
  BY <1>1, SameReflexive DEF Failure
<1>2. CASE req \in UserRequest
  <2>1. out \in UserOutcomes(d, c, req)
    BY <1>2 DEF Outcomes
  <2>2. out \in Failure(d)
    BY <2>1 DEF UserOutcomes, CreateUser, DeleteUser, Login, Logout, Success, Failure
  <2>3. QED
    BY <1>1, <2>2
<1>3. CASE req \notin UserRequest /\ out \notin Failure(d)
  <2>1. d.logged[c] \in User /\ req \notin QueryRequest /\ d.logged[c] # None
    BY <1>3 DEF Outcomes, DB
  <2>2. CASE req \in GroupRequest
    <3>1. out \in GroupOutcomes(d, d.logged[c], req)
      BY <1>3, <2>1, <2>2 DEF Outcomes
    <3>2. out \in Failure(d)
      BY <3>1 DEF GroupOutcomes, CreateGroup, JoinGroup, LeaveGroup, AcceptRequest,
                  Success, Failure
    <3>3. QED
      BY <1>3, <3>2
  <2>3. CASE req \notin GroupRequest
    <3>1. out \in FileOutcomes(d, d.logged[c], req) /\ req \in FileRequest
      BY <1>3, <2>1, <2>3 DEF Outcomes, Request
    <3>2. QED
      BY <2>1, <3>1, SameReflexive, FileSame
  <2>4. QED
    BY <2>2, <2>3
<1>4. QED
  BY <1>1, <1>2, <1>3

-----------------------------------------------------------------------------
(* When a request has one answer. *)

(* Every user that something points to is the account of that name.  It is what
   makes a name stand for one requester; deleting users is what breaks it. *)
Current(d) == \A u \in Pointed(d) : d.users[u.name] = u

(* There is one way to succeed or to fail with given databases. *)
LEMMA OneResult ==
  ASSUME NEW d
  PROVE  /\ \A x, y \in Success(d) : x = y
         /\ \A x, y \in Failure(d) : x = y
BY DEF Success, Failure

(* The outcomes of a request differ in the seeders of a file alone, unless it
   accepts one of several requesters of the same name. *)
THEOREM OneOutcome ==
  ASSUME NEW d \in DB, NEW c \in Clients, NEW req \in Request,
         req.op = "accept_request" => Current(d),
         NEW out1 \in Outcomes(d, c, req), NEW out2 \in Outcomes(d, c, req)
  PROVE  out1.success = out2.success /\ Same(out1.db, out2.db)
<1>1. ASSUME out1 = out2 PROVE out1.success = out2.success /\ Same(out1.db, out2.db)
  BY <1>1, SameReflexive
<1>2. CASE req \in UserRequest
  <2>1. out1 \in UserOutcomes(d, c, req) /\ out2 \in UserOutcomes(d, c, req)
    BY <1>2 DEF Outcomes
  <2>2. out1 = out2
    <3>1. CASE req.op = "create_user"
      BY <2>1, <3>1, OneResult DEF UserOutcomes, CreateUser
    <3>2. CASE req.op = "delete_user"
      BY <2>1, <3>2, OneResult DEF UserOutcomes, DeleteUser
    <3>3. CASE req.op = "login"
      BY <2>1, <3>3, OneResult DEF UserOutcomes, Login
    <3>4. CASE req.op \notin {"create_user", "delete_user", "login"}
      BY <2>1, <3>4, OneResult DEF UserOutcomes, Logout
    <3>5. QED
      BY <3>1, <3>2, <3>3, <3>4
  <2>3. QED
    BY <1>1, <2>2
<1>3. CASE req \notin UserRequest /\ (req \in QueryRequest \/ d.logged[c] = None)
  <2>1. out1 = out2
    BY <1>3 DEF Outcomes, Failure
  <2>2. QED
    BY <1>1, <2>1
<1>4. CASE req \notin UserRequest /\ ~(req \in QueryRequest \/ d.logged[c] = None)
  <2>. DEFINE u == d.logged[c]
              g == req.group
              grp == d.groups[g]
  <2>1. CASE req \in GroupRequest
    <3>1. out1 \in GroupOutcomes(d, u, req) /\ out2 \in GroupOutcomes(d, u, req)
      BY <1>4, <2>1 DEF Outcomes
    <3>2. CASE req.op # "accept_request"
      <4>1. req.op \in {"create_group", "join_group", "leave_group"}
        BY <2>1, <3>2 DEF GroupRequest
      <4>2. out1 = out2
        <5>1. CASE req.op = "create_group"
          BY <3>1, <5>1, OneResult DEF GroupOutcomes, CreateGroup
        <5>2. CASE req.op = "join_group"
          BY <3>1, <5>2, OneResult DEF GroupOutcomes, JoinGroup
        <5>3. CASE req.op = "leave_group"
          BY <3>1, <5>3, OneResult DEF GroupOutcomes, LeaveGroup
        <5>4. QED
          BY <4>1, <5>1, <5>2, <5>3
      <4>3. QED
        BY <1>1, <4>2
    <3>3. CASE req.op = "accept_request"
      <4>1. out1 \in AcceptRequest(d, u, g, req.name) /\ out2 \in AcceptRequest(d, u, g, req.name)
        BY <3>1, <3>3 DEF GroupOutcomes
      <4>2. ASSUME grp # None, NEW r1 \in Named(grp, req.name), NEW r2 \in Named(grp, req.name)
            PROVE  r1 = r2
        <5>1. g \in Existing(d)
          BY <2>1, <4>2 DEF Existing, GroupRequest
        <5>2. r1 \in Pointed(d) /\ r2 \in Pointed(d)
          BY <5>1 DEF Named, Party, Pointed
        <5>3. QED
          BY <3>3, <5>2 DEF Named, Current
      <4>3. out1 = out2
        <5>. DEFINE ok == grp # None /\ grp.owner = u /\ Named(grp, req.name) # {}
        <5>1. CASE ~ok
          BY <4>1, <5>1, OneResult DEF AcceptRequest
        <5>2. CASE ok
          <6>1. PICK r \in Named(grp, req.name) : out1 \in Success(Admit(d, g, r))
            BY <4>1, <5>2 DEF AcceptRequest
          <6>2. PICK r2 \in Named(grp, req.name) : out2 \in Success(Admit(d, g, r2))
            BY <4>1, <5>2 DEF AcceptRequest
          <6>3. r2 = r
            BY <4>2, <5>2
          <6>4. QED
            BY <6>1, <6>2, <6>3 DEF Success
        <5>3. QED
          BY <5>1, <5>2
      <4>4. QED
        BY <1>1, <4>3
    <3>4. QED
      BY <3>2, <3>3
  <2>2. CASE req \notin GroupRequest
    <3>1. out1 \in FileOutcomes(d, u, req) /\ out2 \in FileOutcomes(d, u, req)
      BY <1>4, <2>2 DEF Outcomes
    <3>. DEFINE found == SameFile(grp, req.hash)
    <3>2. CASE req.op = "upload_file" /\ MayUse(d, u, g) /\ found # {}
      <4>1. PICK f1 \in found : out1 \in Failure(AddSeeder(d, g, f1, req.endpoint))
        BY <3>1, <3>2 DEF FileOutcomes, UploadFile
      <4>2. PICK f2 \in found : out2 \in Failure(AddSeeder(d, g, f2, req.endpoint))
        BY <3>1, <3>2 DEF FileOutcomes, UploadFile
      <4>3. out1.success = FALSE /\ out2.success = FALSE
        BY <4>1, <4>2 DEF Failure
      <4>4. Same(out1.db, d) /\ Same(out2.db, d)
        BY <4>3, FailureSame
      <4>5. QED
        BY <4>3, <4>4, SameSymmetric, SameTransitive
    <3>3. CASE req.op = "upload_file" /\ ~(MayUse(d, u, g) /\ found # {})
      <4>1. out1 = out2
        BY <3>1, <3>3, OneResult DEF FileOutcomes, UploadFile
      <4>2. QED
        BY <1>1, <4>1
    <3>4. CASE req.op # "upload_file"
      <4>1. out1 = out2
        BY <3>1, <3>4, OneResult DEF FileOutcomes, DownloadFile
      <4>2. QED
        BY <1>1, <4>1
    <3>5. QED
      BY <3>2, <3>3, <3>4
  <2>3. QED
    BY <2>1, <2>2
<1>5. QED
  BY <1>2, <1>3, <1>4

(* Whatever points to a user points to a user. *)
LEMMA PointedUsers == ASSUME NEW d \in DB PROVE Pointed(d) \subseteq User
<1>1. Accounts(d) \cup Sessions(d) \subseteq User
  BY DEF Accounts, Sessions, DB
<1>2. \A g \in Existing(d) : d.groups[g] \in Group
  BY DEF Existing, DB
<1>3. \A g \in Existing(d) : Party(d.groups[g]) \subseteq User
  BY <1>2 DEF Party, Group
<1>4. QED
  BY <1>1, <1>3 DEF Pointed

(* Whom the databases a group request leads to point to. *)
LEMMA GroupPoints ==
  ASSUME NEW d \in DB, NEW g \in Groups, NEW new, Party(new) \subseteq Pointed(d),
         NEW d2, d2 = [d EXCEPT !.groups[g] = new]
  PROVE  Pointed(d2) \subseteq Pointed(d) /\ d2.users = d.users
<1>1. /\ d2.users = d.users /\ d2.logged = d.logged /\ d2.groups[g] = new
      /\ \A h \in Groups \ {g} : d2.groups[h] = d.groups[h]
  BY DEF DB
<1>2. Accounts(d2) \cup Sessions(d2) \subseteq Pointed(d)
  BY <1>1 DEF Accounts, Sessions, Pointed
<1>3. ASSUME NEW h \in Existing(d2) PROVE Party(d2.groups[h]) \subseteq Pointed(d)
  <2>1. CASE h = g
    BY <1>1, <2>1
  <2>2. CASE h # g
    BY <1>1, <1>3, <2>2 DEF Existing, Pointed
  <2>3. QED
    BY <2>1, <2>2
<1>4. QED
  BY <1>1, <1>2, <1>3 DEF Pointed

(* Names keep standing for one user as long as no account is deleted. *)
LEMMA CurrentKept ==
  ASSUME NEW d \in DB, Current(d), NEW c \in Clients, NEW req \in Request,
         req.op # "delete_user", NEW out \in Outcomes(d, c, req)
  PROVE  Current(out.db)
<1>. DEFINE d2 == out.db
<1>1. ASSUME Pointed(d2) \subseteq Pointed(d), d2.users = d.users PROVE Current(d2)
  BY <1>1 DEF Current
<1>2. CASE out \in Failure(d) \cup Success(d)
  BY <1>2 DEF Failure, Success
<1>3. CASE out \notin Failure(d) \cup Success(d) /\ req \in UserRequest
  <2>1. out \in UserOutcomes(d, c, req)
    BY <1>3 DEF Outcomes
  <2>2. CASE req.op = "create_user"
    <3>. DEFINE n == req.name
                u == [name |-> n, password |-> req.password, oid |-> d.made]
    <3>1. n # Blank /\ req.password # Blank /\ ~UserExists(d, n)
      BY <1>3, <2>1, <2>2 DEF UserOutcomes, CreateUser
    <3>2. /\ d2.users = [d.users EXCEPT ![n] = u]
          /\ d2.logged = d.logged /\ d2.groups = d.groups
      BY <2>1, <2>2, <3>1 DEF UserOutcomes, CreateUser, Success
    <3>3. n \in Names /\ d.users[n] = None
      BY <1>3, <2>2, <3>1 DEF UserRequest, UserExists
    <3>4. /\ d2.users[n] = u /\ u.name = n
          /\ \A m \in Names \ {n} : d2.users[m] = d.users[m]
      BY <3>2, <3>3 DEF DB
    <3>. HIDE DEF u
    <3>5. Pointed(d2) \subseteq Pointed(d) \cup {u}
      <4>1. Accounts(d2) \subseteq Accounts(d) \cup {u}
        BY <3>4 DEF Accounts
      <4>2. Existing(d2) = Existing(d) /\ Sessions(d2) = Sessions(d)
        BY <3>2 DEF Existing, Sessions
      <4>3. QED
        BY <3>2, <4>1, <4>2 DEF Pointed
    <3>6. ASSUME NEW v \in Pointed(d) PROVE d2.users[v.name] = v
      <4>1. v \in User
        BY PointedUsers
      <4>2. v.name # n /\ d.users[v.name] = v
        BY <3>3, <4>1, NoneAssumption DEF Current
      <4>3. QED
        BY <3>4, <4>1, <4>2 DEF User
    <3>7. QED
      BY <3>4, <3>5, <3>6 DEF Current
  <2>3. CASE req.op = "login"
    <3>1. out = [db |-> [d EXCEPT !.logged[c] = d.users[req.name]], success |-> TRUE]
      BY <1>3, <2>1, <2>3 DEF UserOutcomes, Login, Success
    <3>2. req.name \in Names
      <4>1. req.name # Blank
        BY <1>3, <2>1, <2>3 DEF UserOutcomes, Login
      <4>2. QED
        BY <1>3, <2>3, <4>1 DEF UserRequest
    <3>3. /\ d2.users = d.users /\ d2.groups = d.groups
          /\ \A b \in Clients : d2.logged[b] = d.logged[b] \/ d2.logged[b] = d.users[req.name]
      BY <3>1 DEF DB
    <3>4. Accounts(d2) = Accounts(d) /\ Existing(d2) = Existing(d)
      BY <3>3 DEF Accounts, Existing
    <3>5. Sessions(d2) \subseteq Sessions(d) \cup Accounts(d)
      BY <3>2, <3>3 DEF Sessions, Accounts
    <3>6. QED
      BY <1>1, <3>3, <3>4, <3>5 DEF Pointed
  <2>4. CASE req.op \notin {"create_user", "login"}
    <3>1. out = [db |-> [d EXCEPT !.logged[c] = None], success |-> TRUE]
      BY <1>3, <2>1, <2>4 DEF UserOutcomes, Logout, Success
    <3>2. /\ d2.users = d.users /\ d2.groups = d.groups
          /\ \A b \in Clients : d2.logged[b] = d.logged[b] \/ d2.logged[b] = None
      BY <3>1 DEF DB
    <3>3. Accounts(d2) = Accounts(d) /\ Existing(d2) = Existing(d)
      BY <3>2 DEF Accounts, Existing
    <3>4. Sessions(d2) \subseteq Sessions(d)
      BY <3>2 DEF Sessions
    <3>5. QED
      BY <1>1, <3>2, <3>3, <3>4 DEF Pointed
  <2>5. QED
    BY <2>2, <2>3, <2>4
<1>4. CASE out \notin Failure(d) \cup Success(d) /\ req \notin UserRequest
  <2>. DEFINE u == d.logged[c]
              g == req.group
              grp == d.groups[g]
  <2>1. u # None /\ req \notin QueryRequest
    BY <1>4 DEF Outcomes
  <2>2. u \in Pointed(d)
    BY <2>1 DEF Sessions, Pointed
  <2>3. g \in Groups
    BY <1>4, <2>1 DEF Request, GroupRequest, FileRequest
  <2>4. grp # None => grp \in Group /\ Party(grp) \subseteq Pointed(d)
    BY <2>3 DEF DB, Existing, Pointed
  <2>5. ASSUME NEW new, Party(new) \subseteq Pointed(d), d2 = [d EXCEPT !.groups[g] = new]
        PROVE  Current(d2)
    BY <1>1, <2>3, <2>5, GroupPoints
  <2>6. CASE req \in GroupRequest
    <3>1. out \in GroupOutcomes(d, u, req)
      BY <1>4, <2>1, <2>6 DEF Outcomes
    <3>2. CASE req.op = "create_group"
      <4>. DEFINE new == [owner |-> u, users |-> {}, requests |-> {}, files |-> {}]
      <4>1. d2 = [d EXCEPT !.groups[g] = new]
        BY <1>4, <3>1, <3>2 DEF GroupOutcomes, CreateGroup, Success
      <4>2. Party(new) \subseteq Pointed(d)
        BY <2>2 DEF Party
      <4>. HIDE DEF new
      <4>3. QED
        BY <2>5, <4>1, <4>2
    <3>3. CASE req.op = "join_group"
      <4>. DEFINE new == [grp EXCEPT !.requests = @ \cup {u}]
      <4>1. grp # None /\ d2 = [d EXCEPT !.groups[g] = new]
        BY <1>4, <3>1, <3>3 DEF GroupOutcomes, JoinGroup, Success
      <4>2. Party(new) \subseteq Pointed(d)
        BY <2>2, <2>4, <4>1 DEF Party, Group
      <4>. HIDE DEF new
      <4>3. QED
        BY <2>5, <4>1, <4>2
    <3>4. CASE req.op = "leave_group"
      <4>. DEFINE new == [grp EXCEPT !.users = @ \ {u}]
      <4>1. grp # None /\ d2 = [d EXCEPT !.groups[g] = new]
        BY <1>4, <3>1, <3>4 DEF GroupOutcomes, LeaveGroup, Success
      <4>2. Party(new) \subseteq Pointed(d)
        BY <2>4, <4>1 DEF Party, Group
      <4>. HIDE DEF new
      <4>3. QED
        BY <2>5, <4>1, <4>2
    <3>5. CASE req.op \notin {"create_group", "join_group", "leave_group"}
      <4>1. grp # None /\ \E r \in Named(grp, req.name) : out \in Success(Admit(d, g, r))
        BY <1>4, <3>1, <3>5 DEF GroupOutcomes, AcceptRequest
      <4>2. PICK r \in Named(grp, req.name) : out \in Success(Admit(d, g, r))
        BY <4>1
      <4>. DEFINE new == [grp EXCEPT !.users = @ \cup {r}, !.requests = @ \ {r}]
      <4>3. Admit(d, g, r) = [d EXCEPT !.groups[g] = new]
        BY <2>3, <2>4, <4>1 DEF Admit, DB, Group
      <4>4. Party(new) \subseteq Pointed(d)
        BY <2>4, <4>1, <4>2 DEF Party, Group, Named
      <4>. HIDE DEF new
      <4>5. QED
        BY <2>5, <4>2, <4>3, <4>4 DEF Success
    <3>6. QED
      BY <3>2, <3>3, <3>4, <3>5
  <2>7. CASE req \notin GroupRequest
    <3>1. /\ grp # None
          /\ out \in UploadFile(d, u, g, req.endpoint, req.file, req.hash)
      BY <1>4, <2>1, <2>7 DEF Outcomes, FileOutcomes, DownloadFile, UploadFile, MayUse
    <3>2. \E files : d2 = [d EXCEPT !.groups[g] = [grp EXCEPT !.files = files]]
      <4>1. CASE SameFile(grp, req.hash) = {}
        <5>1. out.db = [d EXCEPT !.groups[g].files = @ \cup
                {[name |-> req.file, hash |-> req.hash, seeders |-> {req.endpoint}]}]
          BY <1>4, <3>1, <4>1 DEF UploadFile, Success
        <5>2. QED
          BY <5>1
      <4>2. CASE SameFile(grp, req.hash) # {}
        <5>1. PICK f \in SameFile(grp, req.hash) :
                out \in Failure(AddSeeder(d, g, f, req.endpoint))
          BY <1>4, <3>1, <4>2 DEF UploadFile
        <5>. DEFINE files == (grp.files \ {f}) \cup
                                {[f EXCEPT !.seeders = @ \cup {req.endpoint}]}
        <5>2. d2 = AddSeeder(d, g, f, req.endpoint)
          BY <5>1 DEF Failure
        <5>3. d2 = [d EXCEPT !.groups[g] = [grp EXCEPT !.files = files]]
          BY <5>2 DEF AddSeeder
        <5>. HIDE DEF files
        <5>4. QED
          BY <5>3
      <4>3. QED
        BY <4>1, <4>2
    <3>3. PICK files : d2 = [d EXCEPT !.groups[g] = [grp EXCEPT !.files = files]]
      BY <3>2
    <3>4. Party([grp EXCEPT !.files = files]) \subseteq Pointed(d)
      BY <2>4, <3>1 DEF Party, Group
    <3>5. QED
      BY <2>5, <3>3, <3>4
  <2>8. QED
    BY <2>6, <2>7
<1>5. QED
  BY <1>2, <1>3, <1>4

-----------------------------------------------------------------------------
(* When seeders cannot differ, and how many users a request makes. *)

(* Every file is seeded by the clients in E, neither more nor fewer. *)
SeededBy(d, E) ==
  \A g \in Existing(d) : \A f \in d.groups[g].files : f.seeders = E

(* Then databases that differ in seeders alone do not differ. *)
LEMMA SameAlike ==
  ASSUME NEW d \in DB, NEW d2 \in DB, Same(d, d2), NEW E, SeededBy(d, E), SeededBy(d2, E)
  PROVE  d = d2
<1>1. ASSUME NEW x \in DB, NEW y \in DB, Same(x, y), SeededBy(x, E), SeededBy(y, E),
             NEW g \in Groups, x.groups[g] # None, NEW f \in x.groups[g].files
      PROVE  f \in y.groups[g].files
  <2>1. x.groups[g] \in Group /\ y.groups[g] \in Group /\ y.groups[g] # None
    BY <1>1 DEF Same, SameGroup, DB
  <2>2. PICK f2 \in y.groups[g].files : f2.name = f.name /\ f2.hash = f.hash
    <3>1. Listed(x.groups[g]) = Listed(y.groups[g])
      BY <1>1 DEF Same, SameGroup
    <3>2. \A f1 \in x.groups[g].files : \E f2 \in y.groups[g].files :
            f2.name = f1.name /\ f2.hash = f1.hash
      BY <3>1, ListedIn
    <3>3. QED
      BY <1>1, <3>2
  <2>3. f.seeders = E /\ f2.seeders = E
    BY <1>1, <2>1, <2>2 DEF SeededBy, Existing
  <2>4. f \in File /\ f2 \in File
    BY <1>1, <2>1, <2>2 DEF Group
  <2>5. f = f2
    <3>1. \A x1 \in File : x1 = [name |-> x1.name, hash |-> x1.hash, seeders |-> x1.seeders]
      BY DEF File
    <3>2. QED
      BY <2>2, <2>3, <2>4, <3>1
  <2>6. QED
    BY <2>2, <2>5
<1>2. ASSUME NEW g \in Groups PROVE d.groups[g] = d2.groups[g]
  <2>1. CASE d.groups[g] = None
    BY <2>1 DEF Same, SameGroup
  <2>2. CASE d.groups[g] # None
    <3>1. d.groups[g] \in Group /\ d2.groups[g] \in Group /\ d2.groups[g] # None
      BY <2>2 DEF Same, SameGroup, DB
    <3>2. Same(d2, d)
      BY SameSymmetric
    <3>3. d.groups[g].files = d2.groups[g].files
      BY <1>1, <2>2, <3>1, <3>2
    <3>4. /\ d.groups[g].owner = d2.groups[g].owner
          /\ d.groups[g].users = d2.groups[g].users
          /\ d.groups[g].requests = d2.groups[g].requests
      BY <2>2 DEF Same, SameGroup
    <3>5. QED
      BY <3>1, <3>3, <3>4 DEF Group
  <2>3. QED
    BY <2>1, <2>2
<1>3. d.groups = d2.groups
  BY <1>2 DEF DB
<1>4. d.users = d2.users /\ d.logged = d2.logged /\ d.made = d2.made
  BY DEF Same
<1>5. QED
  BY <1>3, <1>4 DEF DB

(* A request about users leaves the groups, and makes one object at most. *)
LEMMA UserRequestKeeps ==
  ASSUME NEW d \in DB, NEW c \in Clients, NEW req \in UserRequest,
         NEW out \in UserOutcomes(d, c, req)
  PROVE  out.db.groups = d.groups /\ out.db.made \in {d.made, d.made + 1}
<1>1. ASSUME NEW x, NEW e, x \in Success(e) \/ x \in Failure(e) PROVE x.db = e
  BY <1>1 DEF Success, Failure
<1>2. CASE req.op = "create_user"
  <2>. DEFINE users == [d.users EXCEPT ![req.name] =
                          [name |-> req.name, password |-> req.password, oid |-> d.made]]
              e == [users |-> users, logged |-> d.logged,
                    groups |-> d.groups, made |-> d.made + 1]
  <2>1. out \in Failure(d) \/ out \in Success(e)
    BY <1>2 DEF UserOutcomes, CreateUser
  <2>2. e.groups = d.groups /\ e.made = d.made + 1
    OBVIOUS
  <2>. HIDE DEF e
  <2>3. QED
    BY <1>1, <2>1, <2>2
<1>3. CASE req.op = "delete_user"
  <2>. DEFINE e == [d EXCEPT !.users[req.name] = None]
  <2>1. out \in Failure(d) \/ out \in Success(e)
    BY <1>3 DEF UserOutcomes, DeleteUser
  <2>2. e.groups = d.groups /\ e.made = d.made
    BY DEF DB
  <2>. HIDE DEF e
  <2>3. QED
    BY <1>1, <2>1, <2>2
<1>4. CASE req.op = "login"
  <2>. DEFINE e == [d EXCEPT !.logged[c] = d.users[req.name]]
  <2>1. out \in Failure(d) \/ out \in Success(e)
    BY <1>4 DEF UserOutcomes, Login
  <2>2. e.groups = d.groups /\ e.made = d.made
    BY DEF DB
  <2>. HIDE DEF e
  <2>3. QED
    BY <1>1, <2>1, <2>2
<1>5. CASE req.op \notin {"create_user", "delete_user", "login"}
  <2>. DEFINE e == [d EXCEPT !.logged[c] = None]
  <2>1. out \in Failure(d) \/ out \in Success(e)
    BY <1>5 DEF UserOutcomes, Logout
  <2>2. e.groups = d.groups /\ e.made = d.made
    BY DEF DB
  <2>. HIDE DEF e
  <2>3. QED
    BY <1>1, <2>1, <2>2
<1>6. QED
  BY <1>2, <1>3, <1>4, <1>5

(* Requests of clients in E, when there is one, keep it so. *)
LEMMA SeededByKept ==
  ASSUME NEW d \in DB, NEW E, SeededBy(d, E), NEW c \in Clients, NEW req \in Request,
         req.op = "upload_file" => E = {req.endpoint}, NEW out \in Outcomes(d, c, req)
  PROVE  SeededBy(out.db, E)
<1>. DEFINE d2 == out.db
<1>1. ASSUME d2.groups = d.groups PROVE SeededBy(d2, E)
  BY <1>1 DEF SeededBy, Existing
<1>2. ASSUME NEW g \in Groups, NEW new, d2 = [d EXCEPT !.groups[g] = new],
             \A f \in new.files : f.seeders = E
      PROVE  SeededBy(d2, E)
  <2>1. d2.groups[g] = new /\ \A h \in Groups \ {g} : d2.groups[h] = d.groups[h]
    BY <1>2 DEF DB
  <2>2. QED
    BY <1>2, <2>1 DEF SeededBy, Existing
<1>3. CASE out \in Failure(d) \cup Success(d)
  BY <1>1, <1>3 DEF Failure, Success
<1>4. CASE out \notin Failure(d) \cup Success(d) /\ req \in UserRequest
  <2>1. out \in UserOutcomes(d, c, req)
    BY <1>4 DEF Outcomes
  <2>2. d2.groups = d.groups
    BY <1>4, <2>1, UserRequestKeeps
  <2>3. QED
    BY <1>1, <2>2
<1>5. CASE out \notin Failure(d) \cup Success(d) /\ req \notin UserRequest
  <2>. DEFINE u == d.logged[c]
              g == req.group
              grp == d.groups[g]
  <2>1. u # None /\ req \notin QueryRequest
    BY <1>5 DEF Outcomes
  <2>2. g \in Groups
    BY <1>5, <2>1 DEF Request, GroupRequest, FileRequest
  <2>3. grp # None => grp \in Group /\ \A f \in grp.files : f.seeders = E
    BY <2>2 DEF DB, Existing, SeededBy
  <2>4. CASE req \in GroupRequest
    <3>1. out \in GroupOutcomes(d, u, req)
      BY <1>5, <2>1, <2>4 DEF Outcomes
    <3>2. CASE req.op = "create_group"
      <4>. DEFINE new == [owner |-> u, users |-> {}, requests |-> {}, files |-> {}]
      <4>1. d2 = [d EXCEPT !.groups[g] = new] /\ new.files = {}
        BY <1>5, <3>1, <3>2 DEF GroupOutcomes, CreateGroup, Success
      <4>. HIDE DEF new
      <4>2. QED
        BY <1>2, <2>2, <4>1
    <3>3. CASE req.op = "join_group"
      <4>. DEFINE new == [grp EXCEPT !.requests = @ \cup {u}]
      <4>1. grp # None /\ d2 = [d EXCEPT !.groups[g] = new]
        BY <1>5, <3>1, <3>3 DEF GroupOutcomes, JoinGroup, Success
      <4>2. new.files = grp.files
        BY <2>3, <4>1 DEF Group
      <4>. HIDE DEF new
      <4>3. QED
        BY <1>2, <2>2, <2>3, <4>1, <4>2
    <3>4. CASE req.op = "leave_group"
      <4>. DEFINE new == [grp EXCEPT !.users = @ \ {u}]
      <4>1. grp # None /\ d2 = [d EXCEPT !.groups[g] = new]
        BY <1>5, <3>1, <3>4 DEF GroupOutcomes, LeaveGroup, Success
      <4>2. new.files = grp.files
        BY <2>3, <4>1 DEF Group
      <4>. HIDE DEF new
      <4>3. QED
        BY <1>2, <2>2, <2>3, <4>1, <4>2
    <3>5. CASE req.op \notin {"create_group", "join_group", "leave_group"}
      <4>1. grp # None /\ \E r \in Named(grp, req.name) : out \in Success(Admit(d, g, r))
        BY <1>5, <3>1, <3>5 DEF GroupOutcomes, AcceptRequest
      <4>2. PICK r \in Named(grp, req.name) : out \in Success(Admit(d, g, r))
        BY <4>1
      <4>. DEFINE new == [grp EXCEPT !.users = @ \cup {r}, !.requests = @ \ {r}]
      <4>3. Admit(d, g, r) = [d EXCEPT !.groups[g] = new]
        BY <2>2, <2>3, <4>1 DEF Admit, DB, Group
      <4>4. new.files = grp.files
        BY <2>3, <4>1 DEF Group
      <4>. HIDE DEF new
      <4>5. QED
        BY <1>2, <2>2, <2>3, <4>1, <4>2, <4>3, <4>4 DEF Success
    <3>6. QED
      BY <3>2, <3>3, <3>4, <3>5
  <2>5. CASE req \notin GroupRequest
    <3>1. /\ grp # None /\ req.op = "upload_file"
          /\ out \in UploadFile(d, u, g, req.endpoint, req.file, req.hash)
      BY <1>5, <2>1, <2>5 DEF Outcomes, FileOutcomes, DownloadFile, UploadFile, MayUse
    <3>2. CASE SameFile(grp, req.hash) = {}
      <4>. DEFINE f == [name |-> req.file, hash |-> req.hash, seeders |-> {req.endpoint}]
                  new == [grp EXCEPT !.files = @ \cup {f}]
      <4>1. d2 = [d EXCEPT !.groups[g] = new]
        BY <1>5, <3>1, <3>2 DEF UploadFile, Success
      <4>2. new.files = grp.files \cup {f} /\ f.seeders = E
        BY <2>3, <3>1 DEF Group
      <4>. HIDE DEF new, f
      <4>3. QED
        BY <1>2, <2>2, <2>3, <3>1, <4>1, <4>2
    <3>3. CASE SameFile(grp, req.hash) # {}
      <4>1. PICK f \in SameFile(grp, req.hash) :
              out \in Failure(AddSeeder(d, g, f, req.endpoint))
        BY <1>5, <3>1, <3>3 DEF UploadFile
      <4>. DEFINE f2 == [f EXCEPT !.seeders = @ \cup {req.endpoint}]
                  new == [grp EXCEPT !.files = (@ \ {f}) \cup {f2}]
      <4>2. d2 = [d EXCEPT !.groups[g] = new]
        BY <4>1 DEF Failure, AddSeeder
      <4>3. f \in File /\ f.seeders = E
        BY <2>3, <3>1, <4>1 DEF SameFile, Group
      <4>4. f2.seeders = E
        BY <3>1, <4>3 DEF File
      <4>5. new.files = (grp.files \ {f}) \cup {f2}
        BY <2>3, <3>1 DEF Group
      <4>. HIDE DEF new, f2
      <4>6. QED
        BY <1>2, <2>2, <2>3, <3>1, <4>2, <4>4, <4>5
    <3>4. QED
      BY <3>2, <3>3
  <2>6. QED
    BY <2>4, <2>5
<1>6. QED
  BY <1>3, <1>4, <1>5

(* No other request makes an object. *)
LEMMA MadeOne ==
  ASSUME NEW d \in DB, NEW c \in Clients, NEW req \in Request, NEW out \in Outcomes(d, c, req)
  PROVE  out.db.made \in {d.made, d.made + 1}
<1>1. CASE req \in UserRequest
  BY <1>1, UserRequestKeeps DEF Outcomes
<1>2. CASE req \notin UserRequest
  <2>. DEFINE u == d.logged[c]
              g == req.group
  <2>1. ASSUME NEW e, e.made = d.made, out \in Success(e) \/ out \in Failure(e)
        PROVE  out.db.made = d.made
    BY <2>1 DEF Success, Failure
  <2>2. ASSUME NEW new, out \in Success([d EXCEPT !.groups[g] = new])
                          \/ out \in Failure([d EXCEPT !.groups[g] = new])
        PROVE  out.db.made = d.made
    <3>1. [d EXCEPT !.groups[g] = new].made = d.made
      BY DEF DB
    <3>2. QED
      BY <2>1, <2>2, <3>1
  <2>3. CASE out \in Failure(d) \cup Success(d)
    BY <2>1, <2>3
  <2>4. CASE out \notin Failure(d) \cup Success(d) /\ req \in GroupRequest
    <3>1. out \in GroupOutcomes(d, u, req)
      BY <1>2, <2>4 DEF Outcomes
    <3>2. CASE req.op = "create_group"
      BY <2>2, <2>4, <3>1, <3>2 DEF GroupOutcomes, CreateGroup
    <3>3. CASE req.op = "join_group"
      BY <2>2, <2>4, <3>1, <3>3 DEF GroupOutcomes, JoinGroup
    <3>4. CASE req.op = "leave_group"
      BY <2>2, <2>4, <3>1, <3>4 DEF GroupOutcomes, LeaveGroup
    <3>5. CASE req.op \notin {"create_group", "join_group", "leave_group"}
      <4>1. \E r \in Named(d.groups[g], req.name) : out \in Success(Admit(d, g, r))
        BY <2>4, <3>1, <3>5 DEF GroupOutcomes, AcceptRequest
      <4>2. PICK r : out \in Success(Admit(d, g, r))
        BY <4>1
      <4>3. Admit(d, g, r).made = d.made
        BY DEF Admit, DB
      <4>4. QED
        BY <2>1, <4>2, <4>3
    <3>6. QED
      BY <3>2, <3>3, <3>4, <3>5
  <2>5. CASE out \notin Failure(d) \cup Success(d) /\ req \notin GroupRequest
    <3>1. out \in UploadFile(d, u, g, req.endpoint, req.file, req.hash)
      BY <1>2, <2>5 DEF Outcomes, FileOutcomes, DownloadFile
    <3>2. CASE SameFile(d.groups[g], req.hash) = {}
      BY <2>2, <2>5, <3>1, <3>2 DEF UploadFile
    <3>3. CASE SameFile(d.groups[g], req.hash) # {}
      <4>1. PICK f : out \in Failure(AddSeeder(d, g, f, req.endpoint))
        BY <2>5, <3>1, <3>3 DEF UploadFile
      <4>2. QED
        BY <2>2, <4>1 DEF AddSeeder
    <3>4. QED
      BY <3>2, <3>3
  <2>6. QED
    BY <2>3, <2>4, <2>5
<1>3. QED
  BY <1>1, <1>2
=============================================================================
