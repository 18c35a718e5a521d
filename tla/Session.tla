------------------------------ MODULE Session ------------------------------
(***************************************************************************)
(* Clients and trackers at the level of connections: finding a tracker,    *)
(* waiting in its backlog, being turned away, sending a command, waiting   *)
(* for the reply, losing the connection and finding a tracker again; and   *)
(* trackers that mirror on the thread that serves, so that both may wait   *)
(* to be accepted by the other.                                            *)
(*                                                                         *)
(* What a request does is in TrackerDB, what is mirrored and how a tracker *)
(* starts in TrackerNetwork, the rounds of the service thread in           *)
(* TCPServer: here it takes whatever is readable, in any order.            *)
(***************************************************************************)
EXTENDS Naturals, Sequences, FiniteSets

CONSTANTS
  Clients,
  Trackers,        \* in the order of the tracker list
  MaxConnections,  \* TCPServer server(2)
  Backlog,         \* listen_backlog
  InitiallyUp,
  MaxTyped,        \* bound: commands each user types
  MaxStarts,       \* bound: starts of trackers
  None,
  Mirror           \* a mirroring connection, in a backlog

ASSUME TrackersAssumption ==
  /\ Trackers \subseteq Nat /\ InitiallyUp \subseteq Trackers
  /\ None \notin Trackers /\ Mirror \notin Clients
ASSUME BoundsAssumption ==
  MaxConnections \in Nat /\ Backlog \in Nat /\ MaxTyped \in Nat /\ MaxStarts \in Nat

VARIABLES
  up,       \* the trackers that listen
  backlog,  \* connections each tracker has not accepted yet
  todo,     \* trackers each tracker has still to mirror a transaction to
  unread,   \* mirroring connections accepted by each tracker, message waiting
  read,     \* ... and message read, end not noticed yet
  phase,    \* what each client's main thread is doing
  at,       \* the tracker each client's connection goes to
  link,     \* that connection, as the tracker's system has it
  request,  \* a request waits at the tracker's end
  reply,    \* the command whose reply waits at the client's end, or 0
  typed,    \* commands typed so far
  answered, \* the last command whose reply was read
  ran,      \* history: the commands run for each client, in order
  starts    \* starts so far

tracker == <<up, backlog, todo, unread, read>>
client == <<phase, typed, answered>>
connection == <<at, link, request, reply>>
vars == <<tracker, client, connection, ran, starts>>

Init ==
  /\ up = InitiallyUp
  /\ backlog = [t \in Trackers |-> <<>>]
  /\ todo = [t \in Trackers |-> {}]
  /\ unread = [t \in Trackers |-> 0] /\ read = [t \in Trackers |-> 0]
  /\ phase = [c \in Clients |-> "connecting"]
  /\ at = [c \in Clients |-> None]
  /\ link = [c \in Clients |-> "none"]
  /\ request = [c \in Clients |-> FALSE]
  /\ reply = [c \in Clients |-> 0]
  /\ typed = [c \in Clients |-> 0] /\ answered = [c \in Clients |-> 0]
  /\ ran = [c \in Clients |-> <<>>]
  /\ starts = 0

(* The first of a set of trackers, if there is one. *)
First(S) == {t \in S : \A u \in S : t <= u}

Others(t) == Trackers \ {t}
HasPlace(t) == Len(backlog[t]) <= Backlog
Accepted(t) ==
  Cardinality({c \in Clients : at[c] = t /\ link[c] = "open"}) + unread[t] + read[t]
HasRoom(t) == Accepted(t) < MaxConnections
Serving(t) == t \in up /\ todo[t] = {}

-----------------------------------------------------------------------------
(* Clients. *)

(* connect_to_tracker(): the first tracker that does not refuse.  The socket is
   a new one, so nothing of an old connection is left. *)
Connect(c) ==
  /\ phase[c] = "connecting"
  /\ \E t \in First(up) :
       /\ HasPlace(t)
       /\ backlog' = [backlog EXCEPT ![t] = Append(@, c)]
       /\ at' = [at EXCEPT ![c] = t]
  /\ link' = [link EXCEPT ![c] = "pending"]
  /\ reply' = [reply EXCEPT ![c] = 0]
  /\ phase' = [phase EXCEPT ![c] = "idle"]
  /\ UNCHANGED <<up, todo, unread, read, typed, answered, request, ran, starts>>

(* All refuse, and the client ends; or the one that should accept has no place
   in its backlog until the attempt times out, which nobody catches. *)
GiveUp(c) ==
  /\ phase[c] = "connecting"
  /\ ~\E t \in First(up) : HasPlace(t)
  /\ phase' = [phase EXCEPT ![c] = "exited"]
  /\ UNCHANGED <<tracker, connection, typed, answered, ran, starts>>

(* process_input() sends the command and waits.  A connection that the tracker
   has closed takes the data and does nothing with it. *)
Type(c) ==
  /\ phase[c] = "idle" /\ typed[c] < MaxTyped
  /\ typed' = [typed EXCEPT ![c] = @ + 1]
  /\ request' = [request EXCEPT ![c] = link[c] # "closed"]
  /\ phase' = [phase EXCEPT ![c] = "waiting"]
  /\ UNCHANGED <<tracker, answered, at, link, reply, ran, starts>>

ReadReply(c) ==
  /\ phase[c] = "waiting" /\ reply[c] # 0
  /\ answered' = [answered EXCEPT ![c] = reply[c]]
  /\ reply' = [reply EXCEPT ![c] = 0]
  /\ phase' = [phase EXCEPT ![c] = "idle"]
  /\ UNCHANGED <<tracker, typed, at, link, request, ran, starts>>

(* Faulty variant: the command is repeated on the new connection. *)
NoticeRetrying(c) ==
  /\ phase[c] = "waiting" /\ reply[c] = 0 /\ link[c] = "closed"
  /\ \E t \in First(up) :
       /\ HasPlace(t)
       /\ backlog' = [backlog EXCEPT ![t] = Append(@, c)]
       /\ at' = [at EXCEPT ![c] = t]
  /\ link' = [link EXCEPT ![c] = "pending"]
  /\ request' = [request EXCEPT ![c] = TRUE]
  /\ UNCHANGED <<up, todo, unread, read, client, reply, ran, starts>>

(* The connection is closed: ConnectionClosedError, and the loop connects again
   without the command; or a reset, which ends the client. *)
Notice(c) ==
  /\ phase[c] = "waiting" /\ reply[c] = 0 /\ link[c] = "closed"
  /\ \E next \in {"connecting", "exited"} : phase' = [phase EXCEPT ![c] = next]
  /\ link' = [link EXCEPT ![c] = "none"]
  /\ at' = [at EXCEPT ![c] = None]
  /\ UNCHANGED <<tracker, typed, answered, request, reply, ran, starts>>

Quit(c) ==
  /\ phase[c] = "idle"
  /\ phase' = [phase EXCEPT ![c] = "exited"]
  /\ UNCHANGED <<tracker, connection, typed, answered, ran, starts>>

-----------------------------------------------------------------------------
(* The service thread of a tracker. *)

(* The oldest connection of the backlog is accepted, and over the limit closed
   with whatever was sent on it. *)
AcceptClient(t, c) ==
  /\ Serving(t) /\ backlog[t] # <<>> /\ Head(backlog[t]) = c
  /\ backlog' = [backlog EXCEPT ![t] = Tail(@)]
  /\ IF HasRoom(t)
     THEN link' = [link EXCEPT ![c] = "open"] /\ UNCHANGED request
     ELSE /\ link' = [link EXCEPT ![c] = "closed"]
          /\ request' = [request EXCEPT ![c] = FALSE]
  /\ UNCHANGED <<up, todo, unread, read, client, at, reply, ran, starts>>

AcceptMirror(t) ==
  /\ Serving(t) /\ backlog[t] # <<>> /\ Head(backlog[t]) = Mirror
  /\ backlog' = [backlog EXCEPT ![t] = Tail(@)]
  /\ unread' = [unread EXCEPT ![t] = IF HasRoom(t) THEN @ + 1 ELSE @]
  /\ UNCHANGED <<up, todo, read, client, connection, ran, starts>>

(* Faulty variant: a request that needs no mirroring is not answered. *)
ServeSilently(t, c) ==
  /\ Serving(t) /\ at[c] = t /\ link[c] = "open" /\ request[c]
  /\ request' = [request EXCEPT ![c] = FALSE]
  /\ ran' = [ran EXCEPT ![c] = Append(@, typed[c])]
  /\ \E mirrored \in {{}, Others(t)} :
       /\ todo' = [todo EXCEPT ![t] = mirrored]
       /\ reply' = [reply EXCEPT ![c] = IF mirrored = {} THEN 0 ELSE typed[c]]
  /\ UNCHANGED <<up, backlog, unread, read, client, at, link, starts>>

(* Faulty variant: the reply goes out before the request is run. *)
ServeLater(t, c) ==
  /\ Serving(t) /\ at[c] = t /\ link[c] = "open" /\ request[c]
  /\ request' = [request EXCEPT ![c] = FALSE]
  /\ reply' = [reply EXCEPT ![c] = typed[c]]
  /\ \E done \in {<<>>, <<typed[c]>>} : ran' = [ran EXCEPT ![c] = @ \o done]
  /\ UNCHANGED <<tracker, client, at, link, starts>>

(* A request is run and answered; if it succeeded it is then mirrored. *)
Serve(t, c) ==
  /\ Serving(t) /\ at[c] = t /\ link[c] = "open" /\ request[c]
  /\ request' = [request EXCEPT ![c] = FALSE]
  /\ ran' = [ran EXCEPT ![c] = Append(@, typed[c])]
  /\ reply' = [reply EXCEPT ![c] = typed[c]]
  /\ \E mirrored \in {{}, Others(t)} : todo' = [todo EXCEPT ![t] = mirrored]
  /\ UNCHANGED <<up, backlog, unread, read, client, at, link, starts>>

(* The end of a client is noticed when it has no more to say. *)
Drop(t, c) ==
  /\ Serving(t) /\ at[c] = t /\ link[c] = "open" /\ ~request[c]
  /\ phase[c] = "exited"
  /\ link' = [link EXCEPT ![c] = "closed"]
  /\ UNCHANGED <<tracker, client, at, request, reply, ran, starts>>

RunMirrored(t) ==
  /\ Serving(t) /\ unread[t] > 0
  /\ unread' = [unread EXCEPT ![t] = @ - 1]
  /\ read' = [read EXCEPT ![t] = @ + 1]
  /\ UNCHANGED <<up, backlog, todo, client, connection, ran, starts>>

(* Faulty variant: a connection may be closed before its message is read. *)
CloseMirrorEarly(t) ==
  /\ Serving(t) /\ unread[t] + read[t] > 0
  /\ read' = [read EXCEPT ![t] = @ - 1]
  /\ UNCHANGED <<up, backlog, todo, unread, client, connection, ran, starts>>

CloseMirror(t) ==
  /\ Serving(t) /\ read[t] > 0
  /\ read' = [read EXCEPT ![t] = @ - 1]
  /\ UNCHANGED <<up, backlog, todo, unread, client, connection, ran, starts>>

(* mirror(): each tracker in turn, which refuses, or has a place in its backlog. *)
SendMirror(t) ==
  /\ t \in up
  /\ \E u \in First(todo[t]) :
       /\ u \notin up \/ HasPlace(u)
       /\ backlog' = IF u \in up THEN [backlog EXCEPT ![u] = Append(@, Mirror)] ELSE backlog
       /\ todo' = [todo EXCEPT ![t] = @ \ {u}]
  /\ UNCHANGED <<up, unread, read, client, connection, ran, starts>>

(* Faulty variant: the attempt is repeated when it times out. *)
MirrorRetries(t) ==
  /\ t \in up
  /\ \E u \in First(todo[t]) : u \in up /\ ~HasPlace(u)
  /\ UNCHANGED vars

(* ... or has none, until the attempt times out and the transaction is not
   mirrored there. *)
MirrorTimeout(t) ==
  /\ t \in up
  /\ \E u \in First(todo[t]) :
       /\ u \in up /\ ~HasPlace(u)
       /\ todo' = [todo EXCEPT ![t] = @ \ {u}]
  /\ UNCHANGED <<up, backlog, unread, read, client, connection, ran, starts>>

-----------------------------------------------------------------------------
(* Trackers start and stop. *)

Start(t) ==
  /\ t \notin up /\ starts < MaxStarts
  /\ up' = up \cup {t}
  /\ starts' = starts + 1
  /\ UNCHANGED <<backlog, todo, unread, read, client, connection, ran>>

(* Faulty variant: connections that were not accepted are left open. *)
StopHalf(t) ==
  /\ t \in up
  /\ up' = up \ {t}
  /\ backlog' = [backlog EXCEPT ![t] = <<>>]
  /\ todo' = [todo EXCEPT ![t] = {}]
  /\ unread' = [unread EXCEPT ![t] = 0] /\ read' = [read EXCEPT ![t] = 0]
  /\ link' = [c \in Clients |-> IF at[c] = t /\ link[c] = "open" THEN "closed" ELSE link[c]]
  /\ request' = [c \in Clients |-> request[c] /\ at[c] # t]
  /\ \E lost \in BOOLEAN :
       reply' = [c \in Clients |-> IF at[c] = t /\ lost THEN 0 ELSE reply[c]]
  /\ UNCHANGED <<client, at, ran, starts>>

(* Every connection of the process is closed, accepted or not.  A reply that was
   sent is still delivered; but the process may also be killed between the run of
   a request and its reply, which is then lost. *)
Stop(t) ==
  /\ t \in up
  /\ up' = up \ {t}
  /\ backlog' = [backlog EXCEPT ![t] = <<>>]
  /\ todo' = [todo EXCEPT ![t] = {}]
  /\ unread' = [unread EXCEPT ![t] = 0] /\ read' = [read EXCEPT ![t] = 0]
  /\ link' = [c \in Clients |-> IF at[c] = t THEN "closed" ELSE link[c]]
  /\ request' = [c \in Clients |-> request[c] /\ at[c] # t]
  /\ \E lost \in BOOLEAN :
       reply' = [c \in Clients |-> IF at[c] = t /\ lost THEN 0 ELSE reply[c]]
  /\ UNCHANGED <<client, at, ran, starts>>

-----------------------------------------------------------------------------

ClientStep(c) == Connect(c) \/ GiveUp(c) \/ ReadReply(c) \/ Notice(c)

ServiceStep(t) ==
  \/ \E c \in Clients : AcceptClient(t, c) \/ Serve(t, c) \/ Drop(t, c)
  \/ AcceptMirror(t) \/ RunMirrored(t) \/ CloseMirror(t)
  \/ SendMirror(t) \/ MirrorTimeout(t)

Next ==
  \/ \E c \in Clients : ClientStep(c) \/ Type(c) \/ Quit(c)
  \/ \E t \in Trackers : ServiceStep(t) \/ Start(t) \/ Stop(t)

Spec == Init /\ [][Next]_vars

(* Threads that can go on do, and an attempt to connect does not last for ever:
   the system gives it up.  Users need not type, nor trackers start or stop. *)
FairSpec ==
  /\ Spec
  /\ \A c \in Clients : WF_vars(ClientStep(c))
  /\ \A t \in Trackers : WF_vars(ServiceStep(t))

-----------------------------------------------------------------------------
TypeOK ==
  /\ up \subseteq Trackers
  /\ backlog \in [Trackers -> Seq(Clients \cup {Mirror})]
  /\ todo \in [Trackers -> SUBSET Trackers]
  /\ unread \in [Trackers -> Nat] /\ read \in [Trackers -> Nat]
  /\ phase \in [Clients -> {"connecting", "idle", "waiting", "exited"}]
  /\ at \in [Clients -> Trackers \cup {None}]
  /\ link \in [Clients -> {"none", "pending", "open", "closed"}]
  /\ request \in [Clients -> BOOLEAN]
  /\ reply \in [Clients -> 0..MaxTyped] /\ typed \in [Clients -> 0..MaxTyped]
  /\ answered \in [Clients -> 0..MaxTyped]
  /\ ran \in [Clients -> Seq(1..MaxTyped)]
  /\ starts \in 0..MaxStarts

(* A client that is connected is known where it believes to be: a connection
   that waits is in the backlog of its tracker, once, and no backlog holds one
   that does not wait; no connection is open to a tracker that stopped. *)
Places(t, c) == {i \in DOMAIN backlog[t] : backlog[t][i] = c}

LinksMatch ==
  \A c \in Clients :
    /\ \A t \in Trackers :
         Cardinality(Places(t, c)) = IF at[c] = t /\ link[c] = "pending" THEN 1 ELSE 0
    /\ link[c] \in {"pending", "open"} => at[c] \in up

(* A command is run once at most, however often connections are lost between the
   command, its run and its reply: the client connects again, perhaps to the
   other tracker, and does not repeat what it does not know the outcome of. *)
RunOnce ==
  \A c \in Clients : \A i, k \in DOMAIN ran[c] : i < k => ran[c][i] < ran[c][k]

(* The reply a user sees is that of the command last typed, and that command has
   been run: a reply never goes to a later command, over lost connections. *)
ReplyMatches ==
  \A c \in Clients :
    /\ reply[c] # 0 /\ phase[c] = "waiting" => reply[c] = typed[c]
    /\ answered[c] # 0 => \E i \in DOMAIN ran[c] : ran[c][i] = answered[c]

(* A command ends: with its reply, with a new connection, or with the client.
   Trackers may mirror to each other, be full, stop or start meanwhile. *)
CommandEnds ==
  \A c \in Clients : phase[c] = "waiting" ~> phase[c] # "waiting"

(* Two trackers that mirror to each other, each waiting for a place in the
   backlog of the other, both serve their clients again. *)
MirrorEnds == \A t \in Trackers : todo[t] # {} ~> todo[t] = {}
=============================================================================
