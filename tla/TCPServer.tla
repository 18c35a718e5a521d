----------------------------- MODULE TCPServer -----------------------------
(***************************************************************************)
(* The server both programs listen with: one service thread in a loop of   *)
(* select(), rounds over the descriptors that are readable, and a handler  *)
(* for what arrives; the main thread, which stops it; and the peers.       *)
(*                                                                         *)
(* A connection is identified by a number of its own, never by its         *)
(* descriptor: descriptors are taken from the free ones, lowest first, and *)
(* used again, though not in the round they are closed in: the listening   *)
(* descriptor is the lowest, so a round accepts before it closes.  What    *)
(* the handler does with a message is left to it: it returns, ends the     *)
(* connection, throws, or (SYNC) waits for the peer.                       *)
(***************************************************************************)
EXTENDS Integers, Sequences, FiniteSets

CONSTANTS
  MaxConnections,  \* of the constructor, under its own limit
  Backlog,         \* listen_backlog, 1
  MaxFD,           \* descriptors the process has for the server's connections
  MaxConns,        \* bound: connections the peers make
  MaxData,         \* bound: messages waiting on a connection
  Hazards          \* what may go wrong, see HazardKinds

(* abort: a connection is reset before it is accepted, and accept() fails
   fault: a handler throws something that is no NetworkError
   sync:  a handler waits for its peer (SYNC, on a blocking connection)
   stop:  the user quits *)
HazardKinds == {"abort", "fault", "sync", "stop"}

ASSUME LimitsAssumption ==
  /\ MaxConnections \in Nat /\ Backlog \in Nat /\ MaxFD \in Nat
  /\ MaxConns \in Nat /\ MaxData \in Nat
ASSUME HazardsAssumption == Hazards \subseteq HazardKinds

VARIABLES
  status,   \* "up", "stopped" by stop(), or how the process died
  running,  \* what stop() clears and the loop tests
  pc,       \* where the service thread is
  ready,    \* read_fd_set: what is left of this round
  turn,     \* the connection whose handler runs, or None
  clients,  \* the list of clients
  fdOf,     \* socket_fd of each connection
  active,   \* active_fd_set
  leaked,   \* descriptors that are open and that no object holds
  backlog,  \* connections that wait to be accepted
  data,     \* messages waiting on each connection
  gone,     \* the peer closed its end
  made,     \* connections made so far
  told      \* history: the callbacks made for each connection

vars == <<status, running, pc, ready, turn, clients, fdOf, active, leaked,
          backlog, data, gone, made, told>>

Conns == 1..MaxConns
FDs == 1..MaxFD
Listener == 0
None == -1

May(h) == h \in Hazards
Up == status = "up"

Init ==
  /\ status = "up" /\ running = TRUE
  /\ pc = "test" /\ ready = {} /\ turn = None
  /\ clients = {} /\ fdOf = [c \in Conns |-> None]
  /\ active = {Listener} /\ leaked = {}
  /\ backlog = <<>>
  /\ data = [c \in Conns |-> 0] /\ gone = {}
  /\ made = 0
  /\ told = [c \in Conns |-> "nothing"]

Free == FDs \ (leaked \cup {fdOf[c] : c \in clients})
Lowest(S) == {f \in S : \A g \in S : f <= g}

Readable(fd) ==
  \/ fd = Listener /\ backlog # <<>>
  \/ \E c \in clients : fdOf[c] = fd /\ (data[c] > 0 \/ c \in gone)

server == <<pc, ready, turn, clients, fdOf, active, leaked, told>>
peers == <<backlog, data, gone, made>>

-----------------------------------------------------------------------------
(* Peers.  The system completes a connection as long as the backlog has room,
   whatever the service thread is doing, and the peer may write at once. *)

PeerConnect ==
  /\ Up /\ made < MaxConns
  /\ Len(backlog) <= Backlog
  /\ made' = made + 1
  /\ backlog' = Append(backlog, made + 1)
  /\ UNCHANGED <<status, running, server, data, gone>>

Linked(c) == c \in clients \/ \E i \in DOMAIN backlog : backlog[i] = c

PeerSend(c) ==
  /\ Up /\ Linked(c) /\ c \notin gone
  /\ data[c] < MaxData
  /\ data' = [data EXCEPT ![c] = @ + 1]
  /\ UNCHANGED <<status, running, server, backlog, gone, made>>

PeerClose(c) ==
  /\ Up /\ Linked(c) /\ c \notin gone
  /\ gone' = gone \cup {c}
  /\ UNCHANGED <<status, running, server, backlog, data, made>>

-----------------------------------------------------------------------------
(* The service thread. *)

Test ==
  /\ Up /\ pc = "test"
  /\ pc' = IF running THEN "select" ELSE "ended"
  /\ UNCHANGED <<status, running, ready, turn, clients, fdOf, active, leaked, told, peers>>

(* select(): what is readable, or nothing after the timeout. *)
Select ==
  /\ Up /\ pc = "select"
  /\ ready' = {fd \in active : Readable(fd)}
  /\ pc' = "round"
  /\ UNCHANGED <<status, running, turn, clients, fdOf, active, leaked, told, peers>>

EndRound ==
  /\ Up /\ pc = "round" /\ ready = {}
  /\ pc' = "test"
  /\ UNCHANGED <<status, running, ready, turn, clients, fdOf, active, leaked, told, peers>>

(* An exception that leaves the thread's function ends the process. *)
Die(how) ==
  /\ status' = how
  /\ UNCHANGED <<running, server, peers>>

(* The callbacks of c after one more. *)
TellConnect(c) ==
  [told EXCEPT ![c] = IF @ = "nothing" THEN "connected" ELSE "wrong"]
TellDisconnect(c) ==
  [told EXCEPT ![c] = IF @ = "connected" THEN "disconnected" ELSE "wrong"]

(* TCPSocket::accept() makes a socket of its own in the constructor, whose
   descriptor it then overwrites: two descriptors are taken, one is lost. *)
AcceptFails ==
  /\ Up /\ pc = "round" /\ Listener \in ready
  /\ \/ Cardinality(Free) < 2 /\ Die("exhausted")
     \/ May("abort") /\ Head(backlog) \in gone /\ Die("aborted")

(* Faulty variant: the new connection is not watched. *)
AcceptUnwatched ==
  LET c == Head(backlog) IN
  /\ Up /\ pc = "round" /\ Listener \in ready
  /\ Cardinality(clients) < MaxConnections
  /\ \E lost \in Lowest(Free) : \E fd \in Lowest(Free \ {lost}) :
       /\ leaked' = leaked \cup {lost}
       /\ fdOf' = [fdOf EXCEPT ![c] = fd]
  /\ clients' = clients \cup {c}
  /\ told' = TellConnect(c)
  /\ backlog' = Tail(backlog)
  /\ ready' = ready \ {Listener}
  /\ UNCHANGED <<status, running, pc, turn, active, data, gone, made>>

Accept ==
  LET c == Head(backlog) IN
  /\ Up /\ pc = "round" /\ Listener \in ready
  /\ Cardinality(clients) < MaxConnections
  /\ \E lost \in Lowest(Free) : \E fd \in Lowest(Free \ {lost}) :
       /\ leaked' = leaked \cup {lost}
       /\ fdOf' = [fdOf EXCEPT ![c] = fd]
       /\ active' = active \cup {fd}
  /\ clients' = clients \cup {c}
  /\ told' = TellConnect(c)
  /\ backlog' = Tail(backlog)
  /\ ready' = ready \ {Listener}
  /\ UNCHANGED <<status, running, pc, turn, data, gone, made>>

(* Faulty variant: a connection that is turned away is not closed. *)
TurnAwayOpen ==
  /\ Up /\ pc = "round" /\ Listener \in ready
  /\ Cardinality(clients) >= MaxConnections
  /\ \E lost \in Lowest(Free) : \E fd \in Lowest(Free \ {lost}) :
       leaked' = leaked \cup {lost, fd}
  /\ data' = [data EXCEPT ![Head(backlog)] = 0]
  /\ backlog' = Tail(backlog)
  /\ ready' = ready \ {Listener}
  /\ UNCHANGED <<status, running, pc, turn, clients, fdOf, active, gone, made, told>>

(* Over the limit: accepted and closed at once, without a callback. *)
TurnAway ==
  /\ Up /\ pc = "round" /\ Listener \in ready
  /\ Cardinality(clients) >= MaxConnections
  /\ \E lost \in Lowest(Free) : Free # {lost} /\ leaked' = leaked \cup {lost}
  /\ data' = [data EXCEPT ![Head(backlog)] = 0]
  /\ backlog' = Tail(backlog)
  /\ ready' = ready \ {Listener}
  /\ UNCHANGED <<status, running, pc, turn, clients, fdOf, active, gone, made, told>>

(* The client with the lowest descriptor left in the round. *)
IsNext(c) == c \in clients /\ fdOf[c] \in Lowest(ready)

(* receive_data(): some of what is waiting, perhaps several messages as one. *)
Receive(c) ==
  /\ Up /\ pc = "round" /\ IsNext(c)
  /\ data[c] > 0
  /\ \E n \in 0..(data[c] - 1) : data' = [data EXCEPT ![c] = n]
  /\ ready' = ready \ {fdOf[c]}
  /\ turn' = c
  /\ pc' = "handler"
  /\ UNCHANGED <<status, running, clients, fdOf, active, leaked, told, backlog, gone, made>>

(* FD_CLR, erase, disconnect and onDisconnect, in the order of the branch. *)
Forget(c) ==
  /\ active' = active \ {fdOf[c]}
  /\ clients' = clients \ {c}
  /\ fdOf' = [fdOf EXCEPT ![c] = None]
  /\ told' = TellDisconnect(c)
  /\ data' = [data EXCEPT ![c] = 0]

(* receive_data() throws: the peer closed its end and everything was read, or it
   reset the connection, whatever was read. *)
Notice(c) ==
  /\ Up /\ pc = "round" /\ IsNext(c)
  /\ c \in gone
  /\ Forget(c)
  /\ ready' = ready \ {fdOf[c]}
  /\ UNCHANGED <<status, running, pc, turn, leaked, backlog, gone, made>>

(* onData() returns, or throws WouldBlockError, which is ignored. *)
HandlerReturns ==
  /\ Up /\ pc = "handler"
  /\ pc' = "round" /\ turn' = None
  /\ UNCHANGED <<status, running, ready, clients, fdOf, active, leaked, told, peers>>

(* Faulty variant: the descriptor of a connection that the handler ended stays
   in active_fd_set. *)
HandlerEndsUncleared ==
  /\ Up /\ pc = "handler"
  /\ clients' = clients \ {turn}
  /\ fdOf' = [fdOf EXCEPT ![turn] = None]
  /\ told' = TellDisconnect(turn)
  /\ data' = [data EXCEPT ![turn] = 0]
  /\ pc' = "round" /\ turn' = None
  /\ UNCHANGED <<status, running, ready, active, leaked, backlog, gone, made>>

(* Faulty variant: the connection is told to have ended and stays in the list. *)
HandlerEndsKept ==
  /\ Up /\ pc = "handler"
  /\ told' = TellDisconnect(turn)
  /\ pc' = "round" /\ turn' = None
  /\ UNCHANGED <<status, running, ready, clients, fdOf, active, leaked, peers>>

(* onData() called client->disconnect(), or threw another NetworkError. *)
HandlerEnds ==
  /\ Up /\ pc = "handler"
  /\ Forget(turn)
  /\ pc' = "round" /\ turn' = None
  /\ UNCHANGED <<status, running, ready, leaked, backlog, gone, made>>

HandlerFaults == Up /\ pc = "handler" /\ May("fault") /\ Die("faulted")

(* SYNC has sent a transaction and waits for "next". *)
HandlerWaits ==
  /\ Up /\ pc = "handler" /\ May("sync")
  /\ pc' = "waiting"
  /\ UNCHANGED <<status, running, ready, turn, clients, fdOf, active, leaked, told, peers>>

(* Faulty variant: the end of the connection does not reach the handler. *)
HandlerResumesUnnoticed ==
  /\ Up /\ pc = "waiting"
  /\ data[turn] > 0
  /\ data' = [data EXCEPT ![turn] = 0]
  /\ pc' = "handler"
  /\ UNCHANGED <<status, running, ready, turn, clients, fdOf, active, leaked, told,
                 backlog, gone, made>>

(* Faulty variant: an answer is taken where there is only the end. *)
HandlerResumesBlindly ==
  /\ Up /\ pc = "waiting"
  /\ data[turn] > 0 \/ turn \in gone
  /\ data' = [data EXCEPT ![turn] = @ - 1]
  /\ pc' = "handler"
  /\ UNCHANGED <<status, running, ready, turn, clients, fdOf, active, leaked, told,
                 backlog, gone, made>>

(* The answer, or the end of the connection, reaches the handler. *)
HandlerResumes ==
  /\ Up /\ pc = "waiting"
  /\ data[turn] > 0 \/ turn \in gone
  /\ \E n \in 0..data[turn] :
       /\ data[turn] > 0 => n < data[turn]
       /\ data' = [data EXCEPT ![turn] = n]
  /\ pc' = "handler"
  /\ UNCHANGED <<status, running, ready, turn, clients, fdOf, active, leaked, told,
                 backlog, gone, made>>

-----------------------------------------------------------------------------
(* The main thread. *)

Stop ==
  /\ Up /\ running /\ May("stop")
  /\ running' = FALSE
  /\ UNCHANGED <<status, server, peers>>

(* stop() goes on after join(): every descriptor it knows of is closed, and
   the clients, still in the list, are not reported. *)
Joined ==
  /\ Up /\ ~running /\ pc = "ended"
  /\ status' = "stopped"
  /\ fdOf' = [c \in Conns |-> None]
  /\ UNCHANGED <<running, pc, ready, turn, clients, active, leaked, told, peers>>

-----------------------------------------------------------------------------

ServiceStep ==
  \/ Test \/ Select \/ EndRound
  \/ AcceptFails \/ Accept \/ TurnAway
  \/ \E c \in Conns : Receive(c) \/ Notice(c)
  \/ HandlerReturns \/ HandlerEnds \/ HandlerFaults
  \/ HandlerWaits \/ HandlerResumes

PeerStep == PeerConnect \/ \E c \in Conns : PeerSend(c) \/ PeerClose(c)

Next == ServiceStep \/ PeerStep \/ Stop \/ Joined

Spec == Init /\ [][Next]_vars

Conclude == HandlerReturns \/ HandlerEnds

(* Both threads keep running while they can, and no handler waits for its peer
   again and again without end: SYNC does as often as there are transactions.
   Nothing is assumed of the peers, who may also stay silent. *)
FairSpec == Spec /\ WF_vars(ServiceStep) /\ WF_vars(Joined) /\ SF_vars(Conclude)

-----------------------------------------------------------------------------
TypeOK ==
  /\ status \in {"up", "stopped", "exhausted", "aborted", "faulted"}
  /\ running \in BOOLEAN
  /\ pc \in {"test", "select", "round", "handler", "waiting", "ended"}
  /\ ready \subseteq FDs \cup {Listener}
  /\ turn \in Conns \cup {None}
  /\ clients \subseteq Conns
  /\ fdOf \in [Conns -> FDs \cup {None}]
  /\ active \subseteq FDs \cup {Listener}
  /\ leaked \subseteq FDs
  /\ backlog \in Seq(Conns)
  /\ data \in [Conns -> Nat]
  /\ gone \subseteq Conns
  /\ made \in 0..MaxConns
  /\ told \in [Conns -> {"nothing", "connected", "disconnected", "wrong"}]

(* Between two steps of the loop the watched descriptors are the listening one
   and those of the clients in the list, each open and of one client only: so
   select() never meets a closed descriptor, whose error would end the process,
   what is readable is served to the connection it came on although numbers are
   used again in later rounds, and no client is left unwatched. *)
DescriptorsMatch ==
  Up => /\ active = {Listener} \cup {fdOf[c] : c \in clients}
        /\ \A c \in Conns : c \in clients <=> fdOf[c] # None
        /\ \A c \in clients : fdOf[c] \in FDs \ leaked
        /\ \A c, d \in clients : fdOf[c] = fdOf[d] => c = d

(* onConnect is called once for each connection that enters the list, and
   onDisconnect once for each that leaves it, whichever branch it leaves by. *)
NotifiedInPairs ==
  \A c \in Conns :
    /\ told[c] # "wrong"
    /\ c \in clients <=> told[c] = "connected"

(* Of every connection accepted, and whichever way it ends, exactly one
   descriptor is lost, so a process dies for want of one as soon as it has
   accepted as many connections as there are descriptors, less those its
   clients hold and one more. *)
Accepted == made - Len(backlog)

DescriptorsAccounted ==
  /\ Up => Cardinality(Free) + Cardinality(clients) + Accepted = MaxFD
  /\ status = "exhausted" => Accepted + Cardinality(clients) + 1 >= MaxFD

(* A handler waits for its peer, which neither answers nor leaves. *)
Silent == pc = "waiting" /\ data[turn] = 0 /\ turn \notin gone

(* What a client sent is read by the server, round after round, however much the
   clients before it in the order send, and while others are turned away or their
   handlers wait: only a handler whose peer stays silent for good is in the way. *)
Served ==
  \A c \in Conns :
    [](c \in clients /\ data[c] > 0
         => <>(turn = c \/ c \notin clients \/ ~Up \/ []Silent))

(* stop() returns: the loop ends within a round, whatever the peers send, unless a
   handler waits for good for a peer that stays silent. *)
StopEndsUnlessSilent == [](~running => <>(~Up \/ []Silent))

(* The same without the exception ("When running is set to false, this function
   exits after wait_time seconds", tcp_server.hpp). *)
StopEnds == ~running ~> ~Up
=============================================================================
