-------------------------- MODULE MCTrackerNetwork --------------------------
(* Instances of TrackerNetwork for TLC: the requests its clients send. *)
EXTENDS TrackerNetwork, TLC

(* The client that uploads: clients are told apart by it, names are not. *)
Uploader == CHOOSE c \in Clients : TRUE

Symmetry == Permutations(Names)

(* One account, its deletion included, and what depends on it. *)
AccountRequests ==
  [op : {"create_user", "login"}, name : Names, password : Passwords]
    \cup [op : {"delete_user"}, name : Names]
    \cup [op : {"logout"}]
    \cup [op : {"create_group"}, group : Groups]

(* Accounts, a membership from the request to join to leaving, and a file. *)
CommonRequests ==
  [op : {"create_user", "login"}, name : Names, password : Passwords]
    \cup [op : {"create_group", "join_group", "leave_group"}, group : Groups]
    \cup [op : {"accept_request"}, group : Groups, name : Names]
    \cup [op : {"upload_file"}, group : Groups, endpoint : {Uploader},
          file : FileNames, hash : Hashes]

(* Joining a group and sharing a file in it. *)
SharingRequests ==
  [op : {"create_user", "login"}, name : Names, password : Passwords]
    \cup [op : {"create_group", "join_group"}, group : Groups]
    \cup [op : {"accept_request"}, group : Groups, name : Names]
    \cup [op : {"upload_file"}, group : Groups, endpoint : Clients,
          file : FileNames, hash : Hashes]

(* Requests that conflict or depend on each other, few of them. *)
FewRequests ==
  [op : {"create_user", "login"}, name : Names, password : Passwords]
=============================================================================
