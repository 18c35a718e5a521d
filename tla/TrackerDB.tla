----------------------------- MODULE TrackerDB -----------------------------
(***************************************************************************)
(* The databases of one tracker and what one request does to them.         *)
(*                                                                         *)
(* A tracker keeps three maps: the users (UserDB), the users logged in at  *)
(* each endpoint, and the groups (GroupDB).  process_request() in          *)
(* tracker/process_request.cpp runs one parsed request to its end on the   *)
(* single service thread, so a request is a function of the databases.     *)
(* It is written here as the SET of outcomes it may have: iterating an     *)
(* unordered_set of pointers visits them in an order the program does not  *)
(* determine, so accept_request may pick either of two requesters of the   *)
(* same name.                                                              *)
(*                                                                         *)
(* A User is a heap object.  Sessions, owners, members and join requests   *)
(* hold shared_ptrs to it and compare them by address, so a user deleted   *)
(* and created again under the same name is another user: oid stands for   *)
(* the address.                                                            *)
(***************************************************************************)
EXTENDS Naturals

CONSTANTS
  Clients,     \* the EndpointIDs of the clients, which are also their endpoints
  Names,       \* usernames
  Passwords,
  Groups,      \* group ids
  FileNames,
  Hashes,      \* hashes of whole files (the concatenation of their pieces)
  Blank,       \* the empty string a missing argument is read as
  None         \* what a failed lookup returns (nullptr, or end())

(* A user object; File and Group objects are told apart by hash and by id. *)
User == [name : Names, password : Passwords, oid : Nat]
File == [name : FileNames, hash : Hashes, seeders : SUBSET Clients]
Group == [owner : User, users : SUBSET User, requests : SUBSET User,
          files : SUBSET File]

ASSUME BlankAssumption == Blank \notin Names \cup Passwords
ASSUME NoneAssumption  == None \notin User /\ None \notin Group

DB == [users  : [Names -> User \cup {None}],
       logged : [Clients -> User \cup {None}],
       groups : [Groups -> Group \cup {None}],
       made   : Nat]

EmptyDB == [users  |-> [n \in Names |-> None],
            logged |-> [c \in Clients |-> None],
            groups |-> [g \in Groups |-> None],
            made   |-> 0]

-----------------------------------------------------------------------------
(* Parsed requests: parse_request() keeps the request's kind and its text,
   from which process_request() reads the arguments. *)

UserRequest ==
  [op : {"create_user", "login"}, name : Names \cup {Blank},
   password : Passwords \cup {Blank}]
    \cup [op : {"delete_user"}, name : Names \cup {Blank}]
    \cup [op : {"logout"}]

GroupRequest ==
  [op : {"create_group", "join_group", "leave_group"}, group : Groups]
    \cup [op : {"accept_request"}, group : Groups, name : Names]

FileRequest ==
  [op : {"upload_file"}, group : Groups, endpoint : Clients,
   file : FileNames, hash : Hashes]
    \cup [op : {"download_file"}, group : Groups, file : FileNames]

(* list_users, list_groups, list_requests and list_files only read. *)
QueryRequest == [op : {"list_users", "list_groups"}]
                  \cup [op : {"list_requests", "list_files"}, group : Groups]

Request == UserRequest \cup GroupRequest \cup FileRequest \cup QueryRequest

-----------------------------------------------------------------------------
(* Outcomes: the databases afterwards and Result.success. *)

Success(d) == {[db |-> d, success |-> TRUE]}
Failure(d) == {[db |-> d, success |-> FALSE]}

UserExists(d, n) == n # Blank /\ d.users[n] # None

(* Faulty variant: an object still held by a session is used again. *)
CreateUserReviving(d, n, p) ==
  LET held == {d.logged[c] : c \in Clients} \ {None}
      old == {u \in held : u.name = n /\ u.password = p}
  IN IF n = Blank \/ p = Blank \/ UserExists(d, n) THEN Failure(d)
     ELSE IF old # {} THEN UNION {Success([d EXCEPT !.users[n] = u]) : u \in old}
     ELSE Success([users  |-> [d.users EXCEPT ![n] =
                                 [name |-> n, password |-> p, oid |-> d.made]],
                   logged |-> d.logged,
                   groups |-> d.groups,
                   made   |-> d.made + 1])

CreateUser(d, n, p) ==
  IF n = Blank \/ p = Blank \/ UserExists(d, n)
  THEN Failure(d)
  ELSE Success([users  |-> [d.users EXCEPT ![n] =
                              [name |-> n, password |-> p, oid |-> d.made]],
                logged |-> d.logged,
                groups |-> d.groups,
                made   |-> d.made + 1])

(* Sessions, memberships and ownerships of the deleted object stay. *)
DeleteUser(d, n) ==
  IF UserExists(d, n)
  THEN Success([d EXCEPT !.users[n] = None])
  ELSE Failure(d)

Login(d, c, n, p) ==
  IF /\ n # Blank /\ p # Blank
     /\ d.logged[c] = None
     /\ UserExists(d, n)
     /\ d.users[n].password = p
  THEN Success([d EXCEPT !.logged[c] = d.users[n]])
  ELSE Failure(d)

Logout(d, c) ==
  IF d.logged[c] # None
  THEN Success([d EXCEPT !.logged[c] = None])
  ELSE Failure(d)

-----------------------------------------------------------------------------
(* Group requests, by a client logged in as u. *)

IsMember(grp, u) == u = grp.owner \/ u \in grp.users

CreateGroup(d, u, g) ==
  IF d.groups[g] = None
  THEN Success([d EXCEPT !.groups[g] =
         [owner |-> u, users |-> {}, requests |-> {}, files |-> {}]])
  ELSE Failure(d)

(* Faulty variant: has_member() is not asked. *)
JoinGroupUnchecked(d, u, g) ==
  IF d.groups[g] # None
  THEN Success([d EXCEPT !.groups[g].requests = @ \cup {u}])
  ELSE Failure(d)

JoinGroup(d, u, g) ==
  IF d.groups[g] # None /\ ~IsMember(d.groups[g], u)
  THEN Success([d EXCEPT !.groups[g].requests = @ \cup {u}])
  ELSE Failure(d)

(* The owner is not among the users, so the owner cannot leave. *)
LeaveGroup(d, u, g) ==
  IF d.groups[g] # None /\ u \in d.groups[g].users
  THEN Success([d EXCEPT !.groups[g].users = @ \ {u}])
  ELSE Failure(d)

Admit(d, g, r) == [d EXCEPT !.groups[g].users = @ \cup {r},
                            !.groups[g].requests = @ \ {r}]

Named(grp, n) == {r \in grp.requests : r.name = n}

(* Faulty variant: the owner is not compared with the sender. *)
AcceptRequestByAnyone(d, u, g, n) ==
  IF d.groups[g] # None /\ Named(d.groups[g], n) # {}
  THEN UNION {Success(Admit(d, g, r)) : r \in Named(d.groups[g], n)}
  ELSE Failure(d)

AcceptRequest(d, u, g, n) ==
  IF /\ d.groups[g] # None
     /\ d.groups[g].owner = u
     /\ Named(d.groups[g], n) # {}
  THEN UNION {Success(Admit(d, g, r)) : r \in Named(d.groups[g], n)}
  ELSE Failure(d)

-----------------------------------------------------------------------------
(* File requests, by a client logged in as u. *)

MayUse(d, u, g) == d.groups[g] # None /\ IsMember(d.groups[g], u)

SameFile(grp, h) == {f \in grp.files : f.hash = h}

(* Faulty variant: the new endpoint replaces the seeders. *)
AddSeederReplacing(d, g, f, e) ==
  [d EXCEPT !.groups[g].files = (@ \ {f}) \cup {[f EXCEPT !.seeders = {e}]}]

(* The sender of a file the group already has becomes one more seeder, and
   the result is nevertheless not a success.  The code inserts a fresh pointer
   each time; a repeated endpoint is one seeder here. *)
AddSeeder(d, g, f, e) ==
  [d EXCEPT !.groups[g].files = (@ \ {f})
     \cup {[f EXCEPT !.seeders = @ \cup {e}]}]

(* Faulty variant: files are compared by name instead of by hash. *)
UploadFileByName(d, u, g, e, n, h) ==
  IF ~MayUse(d, u, g)
  THEN Failure(d)
  ELSE LET same == {f \in d.groups[g].files : f.name = n} IN
       IF same = {}
       THEN Success([d EXCEPT !.groups[g].files = @ \cup
              {[name |-> n, hash |-> h, seeders |-> {e}]}])
       ELSE UNION {Failure(AddSeeder(d, g, f, e)) : f \in same}

UploadFile(d, u, g, e, n, h) ==
  IF ~MayUse(d, u, g)
  THEN Failure(d)
  ELSE IF SameFile(d.groups[g], h) = {}
       THEN Success([d EXCEPT !.groups[g].files = @ \cup
              {[name |-> n, hash |-> h, seeders |-> {e}]}])
       ELSE UNION {Failure(AddSeeder(d, g, f, e)) : f \in SameFile(d.groups[g], h)}

DownloadFile(d, u, g, n) ==
  IF MayUse(d, u, g) /\ \E f \in d.groups[g].files : f.name = n
  THEN Success(d)
  ELSE Failure(d)

-----------------------------------------------------------------------------
(* process_user_request, process_group_request, process_file_request and the
   dispatch of process_request.  logged_in_users.at(c) throws for a client that
   is not logged in, which the group and file requests turn into a failure. *)

UserOutcomes(d, c, req) ==
  CASE req.op = "create_user" -> CreateUser(d, req.name, req.password)
    [] req.op = "delete_user" -> DeleteUser(d, req.name)
    [] req.op = "login"       -> Login(d, c, req.name, req.password)
    [] OTHER                  -> Logout(d, c)

GroupOutcomes(d, u, req) ==
  CASE req.op = "create_group" -> CreateGroup(d, u, req.group)
    [] req.op = "join_group"   -> JoinGroup(d, u, req.group)
    [] req.op = "leave_group"  -> LeaveGroup(d, u, req.group)
    [] OTHER                   -> AcceptRequest(d, u, req.group, req.name)

FileOutcomes(d, u, req) ==
  CASE req.op = "upload_file" ->
         UploadFile(d, u, req.group, req.endpoint, req.file, req.hash)
    [] OTHER -> DownloadFile(d, u, req.group, req.file)

(* Faulty variant: requests that need a login are run without one. *)
OutcomesWithoutLogin(d, c, req) ==
  IF req \in UserRequest THEN UserOutcomes(d, c, req)
  ELSE IF req \in QueryRequest THEN Failure(d)
  ELSE IF req \in GroupRequest THEN GroupOutcomes(d, d.logged[c], req)
  ELSE FileOutcomes(d, d.logged[c], req)

Outcomes(d, c, req) ==
  IF req \in UserRequest THEN UserOutcomes(d, c, req)
  ELSE IF req \in QueryRequest \/ d.logged[c] = None THEN Failure(d)
  ELSE IF req \in GroupRequest THEN GroupOutcomes(d, d.logged[c], req)
  ELSE FileOutcomes(d, d.logged[c], req)

-----------------------------------------------------------------------------
(* What the databases of every tracker satisfy, whichever requests it runs. *)

Existing(d) == {g \in Groups : d.groups[g] # None}

(* Every User object that some database of d points to. *)
Accounts(d) == {d.users[n] : n \in Names} \ {None}
Sessions(d) == {d.logged[c] : c \in Clients} \ {None}
Party(grp) == {grp.owner} \cup grp.users \cup grp.requests
Pointed(d) == Accounts(d) \cup Sessions(d)
                 \cup UNION {Party(d.groups[g]) : g \in Existing(d)}

NoMemberPending(d) ==
  \A g \in Existing(d) :
    \A u \in d.groups[g].requests : ~IsMember(d.groups[g], u)

AddressesDistinct(d) ==
  /\ \A u \in Pointed(d) : u.oid < d.made
  /\ \A u, v \in Pointed(d) : u.oid = v.oid => u = v

FilesListedOnce(d) ==
  \A g \in Existing(d) :
    /\ \A f1, f2 \in d.groups[g].files : f1.hash = f2.hash => f1 = f2
    /\ \A f \in d.groups[g].files : f.seeders # {}

DBInv(d) == NoMemberPending(d) /\ AddressesDistinct(d) /\ FilesListedOnce(d)
=============================================================================
