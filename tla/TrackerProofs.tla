--------------------------- MODULE TrackerProofs ---------------------------
(***************************************************************************)
(* Theorems about one tracker, for every set of clients, names, groups and *)
(* files.  The inductive invariant is the type of the databases together   *)
(* with DBInv; that every request keeps both is proved in TrackerDBProofs. *)
(***************************************************************************)
EXTENDS Tracker, TrackerDBProofs

IInv == TypeOK /\ DBInv(db)

(* Every step of the tracker runs one request to one of its outcomes. *)
LEMMA StepIsRequest ==
  ASSUME Next
  PROVE  \E c \in Clients, req \in Request : Handle(c, req)
<1>1. PICK c \in Clients :
        \/ DoCreateUser(c) \/ DoDeleteUser(c) \/ DoLogin(c) \/ DoLogout(c)
        \/ DoCreateGroup(c) \/ DoJoinGroup(c) \/ DoLeaveGroup(c)
        \/ DoAcceptRequest(c) \/ DoUploadFile(c) \/ DoDownloadFile(c) \/ DoQuery(c)
  BY DEF Next
<1>2. CASE DoCreateUser(c) \/ DoDeleteUser(c) \/ DoLogin(c) \/ DoLogout(c)
  <2>1. \E req \in UserRequest : Handle(c, req)
    BY <1>2 DEF DoCreateUser, DoDeleteUser, DoLogin, DoLogout, UserRequest
  <2>2. QED
    BY <2>1 DEF Request
<1>3. CASE \/ DoCreateGroup(c) \/ DoJoinGroup(c) \/ DoLeaveGroup(c)
           \/ DoAcceptRequest(c)
  <2>1. \E req \in GroupRequest : Handle(c, req)
    BY <1>3 DEF DoCreateGroup, DoJoinGroup, DoLeaveGroup, DoAcceptRequest, GroupRequest
  <2>2. QED
    BY <2>1 DEF Request
<1>4. CASE DoUploadFile(c) \/ DoDownloadFile(c)
  <2>1. \E req \in FileRequest : Handle(c, req)
    BY <1>4 DEF DoUploadFile, DoDownloadFile, FileRequest
  <2>2. QED
    BY <2>1 DEF Request
<1>5. CASE DoQuery(c)
  BY <1>5 DEF DoQuery, Request
<1>6. QED
  BY <1>1, <1>2, <1>3, <1>4, <1>5

(* The databases have their types and DBInv holds at every tracker state. *)
THEOREM TrackerInvariant == Spec => []IInv
<1>1. Init => IInv
  BY EmptySound DEF Init, IInv, TypeOK
<1>2. IInv /\ [Next]_vars => IInv'
  <2>. SUFFICES ASSUME IInv, [Next]_vars PROVE IInv'
    OBVIOUS
  <2>1. CASE Next
    <3>1. PICK c \in Clients, req \in Request : Handle(c, req)
      BY <2>1, StepIsRequest
    <3>2. PICK out \in Outcomes(db, c, req) : db' = out.db
      BY <3>1 DEF Handle
    <3>3. db \in DB /\ DBInv(db)
      BY DEF IInv, TypeOK
    <3>4. out.db \in DB /\ DBInv(out.db)
      BY <3>3, OutcomeType, OutcomeInv
    <3>5. QED
      BY <3>2, <3>4 DEF IInv, TypeOK
  <2>2. CASE UNCHANGED vars
    BY <2>2 DEF vars, IInv, TypeOK
  <2>3. QED
    BY <2>1, <2>2
<1>3. QED
  BY <1>1, <1>2, PTL DEF Spec

(* The databases keep the types of their maps. *)
THEOREM TypeCorrect == Spec => []TypeOK
<1>1. IInv => TypeOK
  BY DEF IInv
<1>2. QED
  BY <1>1, TrackerInvariant, PTL

(* No member of a group waits for admission to it. *)
THEOREM PendingCorrect == Spec => []PendingNotMember
<1>1. IInv => PendingNotMember
  BY DEF IInv, DBInv, PendingNotMember
<1>2. QED
  BY <1>1, TrackerInvariant, PTL

(* A group lists a file once, with a seeder. *)
THEOREM FilesCorrect == Spec => []OneEntryPerFile
<1>1. IInv => OneEntryPerFile
  BY DEF IInv, DBInv, OneEntryPerFile
<1>2. QED
  BY <1>1, TrackerInvariant, PTL

-----------------------------------------------------------------------------
(* What a step may not do. *)

(* What a step that runs request req of client c changes. *)
LEMMA RequestChanges ==
  ASSUME IInv, NEW c \in Clients, NEW req \in Request, Handle(c, req)
  PROVE  /\ \A g \in Existing(db) :
              Develops(db.logged[c], req, g, db.groups[g], db'.groups[g])
         /\ \A n \in Names : db'.users[n] # None /\ db'.users[n] # db.users[n] =>
              db'.users[n] \notin Pointed(db)
<1>1. PICK out \in Outcomes(db, c, req) : db' = out.db
  BY DEF Handle
<1>2. db \in DB /\ DBInv(db)
  BY DEF IInv, TypeOK
<1>3. QED
  BY <1>1, <1>2, OutcomeChanges

(* Every step is a request that is run, or changes nothing. *)
LEMMA StepChanges ==
  ASSUME IInv, [Next]_vars
  PROVE  /\ \A g \in Existing(db) :
              /\ db'.groups[g] # None
              /\ KeepsFiles(db.groups[g], db'.groups[g])
         /\ \A n \in Names : db'.users[n] # None /\ db'.users[n] # db.users[n] =>
              db'.users[n] \notin Pointed(db)
<1>1. CASE Next
  <2>1. PICK c \in Clients, req \in Request : Handle(c, req)
    BY <1>1, StepIsRequest
  <2>2. QED
    BY <2>1, RequestChanges DEF Develops
<1>2. CASE UNCHANGED vars
  BY <1>2 DEF vars, KeepsFiles, Existing
<1>3. QED
  BY <1>1, <1>2

(* Whoever enters a group made a request to, and the owner's accept_request for that
   name lets him in and uses it up: users deleted and created again, and sessions
   that outlive their accounts, make no exception. *)
THEOREM AdmissionCorrect == Spec => AdmittedByOwner
<1>1. ASSUME IInv, NEW c \in Clients, NEW req \in Request, Handle(c, req),
             NEW g \in Existing(db), NEW u \in db'.groups[g].users \ db.groups[g].users
      PROVE  /\ req.op = "accept_request" /\ req.group = g /\ req.name = u.name
             /\ db.logged[c] = db.groups[g].owner
             /\ u \in db.groups[g].requests \ db'.groups[g].requests
  BY <1>1, RequestChanges DEF Develops, Admission, Accepts
<1>2. ASSUME IInv, [Next]_vars, NEW g \in Existing(db),
             NEW u \in db'.groups[g].users \ db.groups[g].users
      PROVE  u \in db.groups[g].requests \ db'.groups[g].requests
  <2>1. Next
    BY <1>2 DEF vars
  <2>2. QED
    BY <1>1, <1>2, <2>1, StepIsRequest
<1>3. IInv /\ [Next]_vars =>
        [\A g \in Existing(db) :
           \A u \in db'.groups[g].users \ db.groups[g].users :
             /\ u \in db.groups[g].requests \ db'.groups[g].requests
             /\ \A c \in Clients, req \in Request : Handle(c, req) =>
                  /\ req.op = "accept_request" /\ req.group = g /\ req.name = u.name
                  /\ db.logged[c] = db.groups[g].owner]_vars
  BY <1>1, <1>2
<1>4. QED
  BY <1>3, TrackerInvariant, PTL DEF Spec, AdmittedByOwner

(* A user created under an old name is an object nothing pointed to, so it has
   none of the rights of the old one. *)
THEOREM StrangerCorrect == Spec => RecreatedIsStranger
<1>1. IInv /\ [Next]_vars =>
        [\A n \in Names :
           (db'.users[n] # None /\ db'.users[n] # db.users[n])
             => db'.users[n] \notin Pointed(db)]_vars
  BY StepChanges
<1>2. QED
  BY <1>1, TrackerInvariant, PTL DEF Spec, RecreatedIsStranger

(* Groups stay with their owners, and their files with all seeders, whatever
   users do. *)
THEOREM FilesKept == Spec => GroupsKeepTheirFiles
<1>1. ASSUME IInv, [Next]_vars, NEW g \in Existing(db)
      PROVE  /\ db'.groups[g] # None
             /\ db'.groups[g].owner = db.groups[g].owner
             /\ \A f \in db.groups[g].files : \E f2 \in db'.groups[g].files :
                  /\ f2.hash = f.hash /\ f2.name = f.name
                  /\ f.seeders \subseteq f2.seeders
  BY <1>1, StepChanges DEF KeepsFiles, Existing
<1>2. IInv /\ [Next]_vars =>
        [\A g \in Existing(db) :
           /\ db'.groups[g] # None
           /\ db'.groups[g].owner = db.groups[g].owner
           /\ \A f \in db.groups[g].files : \E f2 \in db'.groups[g].files :
                /\ f2.hash = f.hash /\ f2.name = f.name
                /\ f.seeders \subseteq f2.seeders]_vars
  BY <1>1
<1>3. QED
  BY <1>2, TrackerInvariant, PTL DEF Spec, GroupsKeepTheirFiles
=============================================================================
