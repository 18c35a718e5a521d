------------------------------ MODULE Tracker ------------------------------
(***************************************************************************)
(* One tracker answering the requests of its clients.  The service thread  *)
(* of TCPServer runs onData() for one request at a time, so every handler  *)
(* of process_request() is one action.  The record of transactions, the    *)
(* mirroring and the synchronisation of trackers are in TrackerNetwork.    *)
(***************************************************************************)
EXTENDS TrackerDB

CONSTANT MaxMade   \* bound: how many User objects are ever created

VARIABLE db

vars == <<db>>

Init == db = EmptyDB

Handle(c, req) == \E out \in Outcomes(db, c, req) : db' = out.db

DoCreateUser(c) ==
  /\ db.made < MaxMade
  /\ \E n \in Names \cup {Blank}, p \in Passwords \cup {Blank} :
       Handle(c, [op |-> "create_user", name |-> n, password |-> p])

DoDeleteUser(c) ==
  \E n \in Names \cup {Blank} : Handle(c, [op |-> "delete_user", name |-> n])

DoLogin(c) ==
  \E n \in Names \cup {Blank}, p \in Passwords \cup {Blank} :
    Handle(c, [op |-> "login", name |-> n, password |-> p])

DoLogout(c) == Handle(c, [op |-> "logout"])

DoCreateGroup(c) ==
  \E g \in Groups : Handle(c, [op |-> "create_group", group |-> g])

DoJoinGroup(c) ==
  \E g \in Groups : Handle(c, [op |-> "join_group", group |-> g])

DoLeaveGroup(c) ==
  \E g \in Groups : Handle(c, [op |-> "leave_group", group |-> g])

DoAcceptRequest(c) ==
  \E g \in Groups, n \in Names :
    Handle(c, [op |-> "accept_request", group |-> g, name |-> n])

(* The client sends its own endpoint with the file. *)
DoUploadFile(c) ==
  \E g \in Groups, f \in FileNames, h \in Hashes :
    Handle(c, [op |-> "upload_file", group |-> g, endpoint |-> c,
               file |-> f, hash |-> h])

DoDownloadFile(c) ==
  \E g \in Groups, f \in FileNames :
    Handle(c, [op |-> "download_file", group |-> g, file |-> f])

DoQuery(c) == \E req \in QueryRequest : Handle(c, req)

Next ==
  \E c \in Clients :
    \/ DoCreateUser(c)
    \/ DoDeleteUser(c)
    \/ DoLogin(c)
    \/ DoLogout(c)
    \/ DoCreateGroup(c)
    \/ DoJoinGroup(c)
    \/ DoLeaveGroup(c)
    \/ DoAcceptRequest(c)
    \/ DoUploadFile(c)
    \/ DoDownloadFile(c)
    \/ DoQuery(c)

Spec == Init /\ [][Next]_vars

-----------------------------------------------------------------------------
(* Type invariant: the databases of the tracker have the types of their maps. *)
TypeOK == db \in DB

(* Nobody waits for admission to a group he already belongs to: join_group
   turns members away and accept_request takes the request off the list in the
   step that admits.  Otherwise a member who leaves could be let in again by a
   request he made long ago. *)
PendingNotMember == NoMemberPending(db)

(* A group lists a file once, whoever uploads it under whatever name
   (File::operator== compares hashes), and every listed file has a seeder, so a
   download that finds a file has a peer to ask. *)
OneEntryPerFile == FilesListedOnce(db)

(* A user enters a group by one request only: accept_request for that group and
   the user's name, from a client logged in as the group's owner, the very object
   that created it.  The user made a request earlier that is still on the list,
   and it is used up.  Of two requesters of one name either may be meant. *)
AdmittedByOwner ==
  [][\A g \in Existing(db) :
       \A u \in db'.groups[g].users \ db.groups[g].users :
         /\ u \in db.groups[g].requests \ db'.groups[g].requests
         /\ \A c \in Clients, req \in Request : Handle(c, req) =>
              /\ req.op = "accept_request" /\ req.group = g /\ req.name = u.name
              /\ db.logged[c] = db.groups[g].owner]_vars

(* Creating a user under the name of a deleted one gives nobody the old
   user's sessions, memberships, requests or groups. *)
RecreatedIsStranger ==
  [][\A n \in Names :
       (db'.users[n] # None /\ db'.users[n] # db.users[n])
         => db'.users[n] \notin Pointed(db)]_vars

(* No request, leaving and deleting users included, takes a file or a seeder
   out of a group, changes the group's owner or removes the group. *)
GroupsKeepTheirFiles ==
  [][\A g \in Existing(db) :
       /\ db'.groups[g] # None
       /\ db'.groups[g].owner = db.groups[g].owner
       /\ \A f \in db.groups[g].files : \E f2 \in db'.groups[g].files :
            /\ f2.hash = f.hash /\ f2.name = f.name
            /\ f.seeders \subseteq f2.seeders]_vars
=============================================================================
