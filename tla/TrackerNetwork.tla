--------------------------- MODULE TrackerNetwork ---------------------------
(***************************************************************************)
(* The trackers together: each runs the requests of its own clients, keeps *)
(* the record of the successful ones, mirrors them to the other trackers   *)
(* over a connection of their own, and on starting replays the record of   *)
(* another tracker before it listens.                                      *)
(*                                                                         *)
(* One service thread per tracker does everything but the start, so while  *)
(* it mirrors or serves a sync it answers nobody (svc).  A request's       *)
(* execution, its reply and the entry in the record are one step: nothing  *)
(* but a crash comes between them, and a crash loses all three.            *)
(***************************************************************************)
EXTENDS TrackerDB, Sequences, FiniteSets

CONSTANTS
  Trackers,        \* numbered as on the command line: 1 or 2
  MaxConnections,  \* TCPServer server(2)
  Requests,        \* the requests the clients send
  InitiallyUp,     \* trackers that were started before anybody used them
  Hazards,         \* what the environment may do, see HazardKinds
  MaxTx,           \* bound: transactions the clients complete
  MaxStarts        \* bound: starts of trackers after the initial ones

(* crash:     a tracker may stop at any time
   reply:     sending a reply may fail, because the client is gone or reads nothing
   crowd:     clients may take all the connections of a tracker
   burst:     requests come while earlier ones are still being mirrored
   busy_join: requests come while a tracker is starting
   reorder:   of two mirroring connections the later may deliver first *)
HazardKinds == {"crash", "reply", "crowd", "burst", "busy_join", "reorder"}

ASSUME TrackersAssumption ==
  Trackers \subseteq 1..2 /\ InitiallyUp \subseteq Trackers /\ None \notin Trackers
ASSUME RequestsAssumption == Requests \subseteq Request
ASSUME HazardsAssumption  == Hazards \subseteq HazardKinds
ASSUME BoundsAssumption   == MaxTx \in Nat /\ MaxStarts \in Nat /\ MaxConnections \in Nat

VARIABLES
  status,   \* of each tracker's process
  source,   \* the tracker a starting tracker is reading the record of
  db,       \* the databases of each tracker
  record,   \* successful_transactions of each tracker
  svc,      \* what each service thread is in the middle of
  inbox,    \* mirroring connections made to each tracker, oldest first
  conn,     \* the tracker each client is connected to
  sent,     \* transactions completed for clients so far
  starts,   \* starts so far
  base,     \* history: the databases each tracker began to listen with
  done      \* history: the transactions each tracker ran since it started

vars == <<status, source, db, record, svc, inbox, conn, sent, starts, base, done>>

Tx == [id : 1..MaxTx, origin : Clients, req : Request]

(* A mirroring connection waits in the backlog, is accepted, and is still in
   the list of clients after its message was read, until its end is noticed. *)
Mail == [tx : Tx, stage : {"queued", "accepted", "read"}]

Idle == [kind |-> "idle"]
Mirroring(tx) == [kind |-> "mirror", tx |-> tx]
Serving(j, n) == [kind |-> "sync", to |-> j, next |-> n]

Service == {Idle} \cup [kind : {"mirror"}, tx : Tx]
             \cup [kind : {"sync"}, to : Trackers, next : Nat \ {0}]

May(h) == h \in Hazards

Init ==
  /\ status = [t \in Trackers |-> IF t \in InitiallyUp THEN "up" ELSE "down"]
  /\ source = [t \in Trackers |-> None]
  /\ db = [t \in Trackers |-> EmptyDB]
  /\ record = [t \in Trackers |-> <<>>]
  /\ svc = [t \in Trackers |-> Idle]
  /\ inbox = [t \in Trackers |-> <<>>]
  /\ conn = [c \in Clients |-> None]
  /\ sent = 0
  /\ starts = 0
  /\ base = [t \in Trackers |-> EmptyDB]
  /\ done = [t \in Trackers |-> <<>>]

Others(t) == Trackers \ {t}
Ready(t) == status[t] = "up" /\ svc[t] = Idle
Joining(t) == status[t] \in {"syncing", "starting"}
First(S) == CHOOSE t \in S : \A u \in S : t <= u
Without(s, i) == SubSeq(s, 1, i - 1) \o SubSeq(s, i + 1, Len(s))

(* The list of clients of TCPServer, and its limit. *)
Accepted(t) == Cardinality({c \in Clients : conn[c] = t})
                 + Cardinality({i \in DOMAIN inbox[t] : inbox[t][i].stage # "queued"})
(* Faulty variant: one connection short of the limit. *)
HasRoomShort(t) == Accepted(t) + 1 < MaxConnections

HasRoom(t) == Accepted(t) < MaxConnections

Mirrored == \A t \in Trackers : inbox[t] = <<>> /\ svc[t] = Idle

-----------------------------------------------------------------------------
(* Clients. *)

(* connect_to_tracker() takes the first tracker of the list that accepts; one
   that is full accepts and hangs up, which brings the client back here. *)
Connect(c) ==
  LET up == {t \in Trackers : status[t] = "up"} IN
  /\ conn[c] = None
  /\ up # {} /\ HasRoom(First(up))
  /\ May("crowd") \/ Accepted(First(up)) + 1 < MaxConnections
  /\ conn' = [conn EXCEPT ![c] = First(up)]
  /\ UNCHANGED <<status, source, db, record, svc, inbox, sent, starts, base, done>>

(* A client names itself as the seeder of what it uploads. *)
Own(c, req) == req.op = "upload_file" => req.endpoint = c

(* A client's request.  The reply is sent before the transaction is recorded
   and mirrored, and a failing send throws past both; the connection is kept when
   it failed because it would have blocked. *)
Serve(t, c, req) ==
  /\ Ready(t) /\ conn[c] = t /\ sent < MaxTx /\ Own(c, req)
  /\ May("busy_join") \/ \A u \in Trackers : ~Joining(u)
  /\ May("burst") \/ Mirrored
  /\ \E out \in Outcomes(db[t], c, req), replied \in {TRUE, ~May("reply")} :
       LET tx == [id |-> sent + 1, origin |-> c, req |-> req]
           kept == out.success /\ replied
       IN
       /\ db' = [db EXCEPT ![t] = out.db]
       /\ sent' = IF out.success THEN sent + 1 ELSE sent
       /\ done' = IF out.success THEN [done EXCEPT ![t] = Append(@, tx.id)] ELSE done
       /\ record' = IF kept THEN [record EXCEPT ![t] = Append(@, tx)] ELSE record
       /\ svc' = IF kept THEN [svc EXCEPT ![t] = Mirroring(tx)] ELSE svc
       /\ conn' \in IF replied THEN {conn} ELSE {conn, [conn EXCEPT ![c] = None]}
  /\ UNCHANGED <<status, source, inbox, starts, base>>

-----------------------------------------------------------------------------
(* Mirroring. *)

(* mirror(): a connection, one message, and no waiting for an answer.  A
   tracker that does not listen refuses, and is not told again. *)
Mirror(t) ==
  /\ svc[t].kind = "mirror"
  /\ inbox' = [u \in Trackers |->
       IF u # t /\ status[u] = "up"
       THEN Append(inbox[u], [tx |-> svc[t].tx, stage |-> "queued"])
       ELSE inbox[u]]
  /\ svc' = [svc EXCEPT ![t] = Idle]
  /\ UNCHANGED <<status, source, db, record, conn, sent, starts, base, done>>

(* The inbox of t with its connection i in another stage. *)
Staged(t, i, stage) ==
  [inbox EXCEPT ![t] = [@ EXCEPT ![i] = [tx |-> inbox[t][i].tx, stage |-> stage]]]

InStage(t, stage) == {i \in DOMAIN inbox[t] : inbox[t][i].stage = stage}

(* The oldest connection of the backlog becomes a client, or is closed, message
   and all, when the list of clients is full. *)
AcceptMirror(t) ==
  /\ Ready(t)
  /\ \E i \in InStage(t, "queued") :
       /\ i = First(InStage(t, "queued"))
       /\ inbox' = IF HasRoom(t) THEN Staged(t, i, "accepted")
                   ELSE [inbox EXCEPT ![t] = Without(@, i)]
  /\ UNCHANGED <<status, source, db, record, svc, conn, sent, starts, base, done>>

(* Faulty variant: the transaction is mirrored again. *)
RunMirroredEchoing(t) ==
  /\ Ready(t)
  /\ \E i \in InStage(t, "accepted") :
       LET tx == inbox[t][i].tx IN
       /\ May("reorder") \/ i = First(InStage(t, "accepted"))
       /\ \E out \in Outcomes(db[t], tx.origin, tx.req) :
            /\ db' = [db EXCEPT ![t] = out.db]
            /\ record' = [record EXCEPT ![t] = Append(@, tx)]
       /\ svc' = [svc EXCEPT ![t] = Mirroring(tx)]
       /\ done' = [done EXCEPT ![t] = Append(@, tx.id)]
       /\ inbox' = Staged(t, i, "read")
  /\ UNCHANGED <<status, source, conn, sent, starts, base>>

(* Faulty variant: what was mirrored here is not recorded here. *)
RunMirroredUnrecorded(t) ==
  /\ Ready(t)
  /\ \E i \in InStage(t, "accepted") :
       LET tx == inbox[t][i].tx IN
       /\ May("reorder") \/ i = First(InStage(t, "accepted"))
       /\ \E out \in Outcomes(db[t], tx.origin, tx.req) : db' = [db EXCEPT ![t] = out.db]
       /\ done' = [done EXCEPT ![t] = Append(@, tx.id)]
       /\ inbox' = Staged(t, i, "read")
  /\ UNCHANGED <<status, source, record, svc, conn, sent, starts, base>>

(* The flag "0" of a mirrored request: run and recorded, not answered and not
   mirrored again. *)
RunMirrored(t) ==
  /\ Ready(t)
  /\ \E i \in InStage(t, "accepted") :
       LET tx == inbox[t][i].tx IN
       /\ May("reorder") \/ i = First(InStage(t, "accepted"))
       /\ \E out \in Outcomes(db[t], tx.origin, tx.req) :
            /\ db' = [db EXCEPT ![t] = out.db]
            /\ record' = IF out.success THEN [record EXCEPT ![t] = Append(@, tx)]
                         ELSE record
       /\ done' = [done EXCEPT ![t] = Append(@, tx.id)]
       /\ inbox' = Staged(t, i, "read")
  /\ UNCHANGED <<status, source, svc, conn, sent, starts, base>>

CloseMirror(t) ==
  /\ Ready(t)
  /\ \E i \in InStage(t, "read") : inbox' = [inbox EXCEPT ![t] = Without(@, i)]
  /\ UNCHANGED <<status, source, db, record, svc, conn, sent, starts, base, done>>

-----------------------------------------------------------------------------
(* Starting, synchronising, stopping. *)

(* main() asks the first tracker that listens for its record, and goes on
   without one when nobody listens. *)
Start(j) ==
  LET up == {t \in Others(j) : status[t] = "up"} IN
  /\ status[j] = "down" /\ starts < MaxStarts
  /\ starts' = starts + 1
  /\ IF up = {}
     THEN /\ status' = [status EXCEPT ![j] = "starting"]
          /\ UNCHANGED source
     ELSE /\ status' = [status EXCEPT ![j] = "syncing"]
          /\ source' = [source EXCEPT ![j] = First(up)]
  /\ UNCHANGED <<db, record, svc, inbox, conn, sent, base, done>>

(* The sync request reaches onData(). *)
ServeSync(s, j) ==
  /\ Ready(s) /\ HasRoom(s)
  /\ status[j] = "syncing" /\ source[j] = s
  /\ svc' = [svc EXCEPT ![s] = Serving(j, 1)]
  /\ UNCHANGED <<status, source, db, record, inbox, conn, sent, starts, base, done>>

(* A source with all its connections taken hangs up: the starting tracker goes
   on without the record, or dies of the reset connection. *)
RefuseSync(s, j) ==
  /\ Ready(s) /\ ~HasRoom(s)
  /\ status[j] = "syncing" /\ source[j] = s
  /\ \E st \in {"starting", "down"} : status' = [status EXCEPT ![j] = st]
  /\ source' = [source EXCEPT ![j] = None]
  /\ UNCHANGED <<db, record, svc, inbox, conn, sent, starts, base, done>>

(* One transaction of the record is sent, run and acknowledged.  The starting
   tracker does not put it in a record of its own. *)
SyncOne(s) ==
  LET j == svc[s].to
      tx == record[s][svc[s].next]
  IN
  /\ svc[s].kind = "sync"
  /\ svc[s].next <= Len(record[s])
  /\ \E out \in Outcomes(db[j], tx.origin, tx.req) : db' = [db EXCEPT ![j] = out.db]
  /\ done' = [done EXCEPT ![j] = Append(@, tx.id)]
  /\ svc' = [svc EXCEPT ![s].next = @ + 1]
  /\ UNCHANGED <<status, source, record, inbox, conn, sent, starts, base>>

(* Faulty variant: the last transaction of the record is not sent. *)
SyncDoneEarly(s) ==
  LET j == svc[s].to IN
  /\ svc[s].kind = "sync"
  /\ svc[s].next >= Len(record[s])
  /\ svc' = [svc EXCEPT ![s] = Idle]
  /\ status' = [status EXCEPT ![j] = "starting"]
  /\ source' = [source EXCEPT ![j] = None]
  /\ UNCHANGED <<db, record, inbox, conn, sent, starts, base, done>>

SyncDone(s) ==
  LET j == svc[s].to IN
  /\ svc[s].kind = "sync"
  /\ svc[s].next > Len(record[s])
  /\ svc' = [svc EXCEPT ![s] = Idle]
  /\ status' = [status EXCEPT ![j] = "starting"]
  /\ source' = [source EXCEPT ![j] = None]
  /\ UNCHANGED <<db, record, inbox, conn, sent, starts, base, done>>

(* server.start() in loop(). *)
Listen(j) ==
  /\ status[j] = "starting"
  /\ status' = [status EXCEPT ![j] = "up"]
  /\ base' = [base EXCEPT ![j] = db[j]]
  /\ UNCHANGED <<source, db, record, svc, inbox, conn, sent, starts, done>>

(* Faulty variant: a tracker reading the record does not notice the end. *)
StopUnnoticed(t) ==
  /\ May("crash")
  /\ status[t] # "down"
  /\ status' = [status EXCEPT ![t] = "down"]
  /\ source' = [source EXCEPT ![t] = None]
  /\ svc' = [u \in Trackers |->
       IF u = t \/ (svc[u].kind = "sync" /\ svc[u].to = t) THEN Idle ELSE svc[u]]
  /\ db' = [db EXCEPT ![t] = EmptyDB]
  /\ base' = [base EXCEPT ![t] = EmptyDB]
  /\ record' = [record EXCEPT ![t] = <<>>]
  /\ done' = [done EXCEPT ![t] = <<>>]
  /\ inbox' = [inbox EXCEPT ![t] = <<>>]
  /\ conn' = [c \in Clients |-> IF conn[c] = t THEN None ELSE conn[c]]
  /\ UNCHANGED <<sent, starts>>

(* The process ends, by quit or by a crash: everything was in its memory, and
   every connection is closed.  A tracker it was reading the record of goes
   back to its clients; one that was reading its record goes on with what it
   has read so far (when it dies of the reset connection instead, that is a
   Stop of its own). *)
Stop(t) ==
  /\ May("crash")
  /\ status[t] # "down"
  /\ status' = [u \in Trackers |->
       IF u = t THEN "down" ELSE IF source[u] = t THEN "starting" ELSE status[u]]
  /\ source' = [u \in Trackers |->
       IF u = t \/ source[u] = t THEN None ELSE source[u]]
  /\ svc' = [u \in Trackers |->
       IF u = t \/ (svc[u].kind = "sync" /\ svc[u].to = t) THEN Idle ELSE svc[u]]
  /\ db' = [db EXCEPT ![t] = EmptyDB]
  /\ base' = [base EXCEPT ![t] = EmptyDB]
  /\ record' = [record EXCEPT ![t] = <<>>]
  /\ done' = [done EXCEPT ![t] = <<>>]
  /\ inbox' = [inbox EXCEPT ![t] = <<>>]
  /\ conn' = [c \in Clients |-> IF conn[c] = t THEN None ELSE conn[c]]
  /\ UNCHANGED <<sent, starts>>

-----------------------------------------------------------------------------

ServiceStep(t) ==
  \/ Mirror(t)
  \/ AcceptMirror(t)
  \/ RunMirrored(t)
  \/ CloseMirror(t)
  \/ \E j \in Others(t) : ServeSync(t, j)
  \/ \E j \in Others(t) : RefuseSync(t, j)
  \/ SyncOne(t)
  \/ SyncDone(t)

Next ==
  \/ \E c \in Clients : Connect(c)
  \/ \E t \in Trackers, c \in Clients, req \in Requests : Serve(t, c, req)
  \/ \E t \in Trackers : ServiceStep(t)
  \/ \E t \in Trackers : Start(t)
  \/ \E t \in Trackers : Listen(t)
  \/ \E t \in Trackers : Stop(t)

Spec == Init /\ [][Next]_vars

(* The service threads and the main threads of trackers that run keep running;
   nobody has to start a tracker or send a request. *)
Fairness == \A t \in Trackers : WF_vars(ServiceStep(t)) /\ WF_vars(Listen(t))

FairSpec == Spec /\ Fairness

-----------------------------------------------------------------------------
(* Type invariant: among others, the databases of every tracker are sound. *)
TypeOK ==
  /\ status \in [Trackers -> {"down", "syncing", "starting", "up"}]
  /\ source \in [Trackers -> Trackers \cup {None}]
  /\ db \in [Trackers -> DB] /\ base \in [Trackers -> DB]
  /\ record \in [Trackers -> Seq(Tx)]
  /\ svc \in [Trackers -> Service]
  /\ inbox \in [Trackers -> Seq(Mail)]
  /\ conn \in [Clients -> Trackers \cup {None}]
  /\ sent \in 0..MaxTx /\ starts \in 0..MaxStarts
  /\ done \in [Trackers -> Seq(1..MaxTx)]

(* However requests, mirrored requests and replayed records mix, every tracker
   keeps the invariant of its databases. *)
EveryTrackerSound == \A t \in Trackers : DBInv(db[t])

In(log, id) == \E i \in DOMAIN log : log[i] = id

(* A transaction is run at most once by a tracker process: mirroring does not
   echo, and what was mirrored is not replayed by a sync as well, whatever
   crashes, restarts, delays and losses there are. *)
RunAtMostOnce ==
  \A t \in Trackers :
    \A i, k \in DOMAIN done[t] : done[t][i] = done[t][k] => i = k

(* What the databases say apart from who seeds a file. *)
Unseeded(grp) == [owner |-> grp.owner, users |-> grp.users, requests |-> grp.requests,
                  files |-> {<<f.name, f.hash>> : f \in grp.files}]
Summary(d) == [users |-> d.users, logged |-> d.logged,
               groups |-> {<<g, Unseeded(d.groups[g])>> : g \in Existing(d)}]

(* The databases a record may lead to from d. *)
Replays(d, rec) ==
  LET after[n \in 0..Len(rec)] ==
        IF n = 0 THEN {d}
        ELSE UNION {{out.db : out \in Outcomes(e, rec[n].origin, rec[n].req)} :
                    e \in after[n - 1]}
  IN after[Len(rec)]

(* Replaying the record of a tracker from the databases it began with leads to
   the databases it has, seeders aside: no request that changes anything else is
   missing from the record, and none is in it that failed.  It is what makes a
   sync bring a tracker up to date. *)
RecordComplete ==
  \A t \in Trackers : status[t] = "up" =>
    \E d \in Replays(base[t], record[t]) : Summary(d) = Summary(db[t])

(* The record is what a tracker that starts now and reads it would know. *)
RecordTellsAll ==
  \A t \in Trackers : status[t] = "up" =>
    \E d \in Replays(EmptyDB, record[t]) : Summary(d) = Summary(db[t])

(* Once everything is mirrored and no tracker is starting, the trackers that
   run agree on users, sessions, groups, memberships and files. *)
Agreement ==
  Mirrored => \A t, u \in Trackers :
    status[t] = "up" /\ status[u] = "up" => Summary(db[t]) = Summary(db[u])

(* ... and on the seeders of every file. *)
SeederAgreement ==
  Mirrored => \A t, u \in Trackers :
    status[t] = "up" /\ status[u] = "up" => db[t].groups = db[u].groups

(* A tracker that starts gets to serve, or dies: two trackers never wait for
   each other, and the end of the tracker it reads from does not leave it
   waiting. *)
StartCompletes ==
  \A t \in Trackers : Joining(t) ~> status[t] \in {"up", "down"}

(* Tracker t is in the midst of bringing transaction id to u: it is about to mirror
   it while u runs, or it sends u its record, with the transaction in it. *)
Owed(t, u, id) ==
  /\ status[t] = "up" /\ t # u
  /\ \/ svc[t].kind = "mirror" /\ svc[t].tx.id = id /\ status[u] = "up"
     \/ svc[t].kind = "sync" /\ svc[t].to = u /\ \E i \in DOMAIN record[t] : record[t][i].id = id

(* It gets there, whatever the two were started from and restarted after: u runs the
   transaction in the end, unless one of the two stops. *)
EventuallyEverywhere ==
  \A t, u \in Trackers, id \in 1..MaxTx :
    Owed(t, u, id) ~> (In(done[u], id) \/ status[t] # "up" \/ status[u] = "down")

(* What the trackers promise together: to be one tracker.  The databases of the
   running tracker that has run most change as those of a single Tracker do, so
   a client cannot tell which tracker it talks to, or that another one joined. *)
Newest ==
  CHOOSE t \in Trackers : \A u \in Trackers :
    status[u] = "up" => status[t] = "up" /\ Len(done[t]) >= Len(done[u])

OneTracker == INSTANCE Tracker WITH db <- db[Newest], MaxMade <- MaxTx

BehavesAsOneTracker == OneTracker!Spec
=============================================================================
