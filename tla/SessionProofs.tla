---------------------------- MODULE SessionProofs ----------------------------
(***************************************************************************)
(* Commands are run once at most and replies belong to their commands, and *)
(* connections are where clients believe them to be: for any number of     *)
(* clients and trackers, any limits, and trackers that stop at any moment. *)
(***************************************************************************)
EXTENDS Session, FiniteSetTheorems, TLAPS

(* The inductive invariant.  Queued: a backlog holds the connections that wait
   there, each once.  Linked: what a client does tells whether it has a connection,
   and only a live connection carries a request.  Commands: a request that waits is
   the last command, which was not run; a reply that waits is to the last command,
   which was. *)
Ran(c, n) == \E i \in DOMAIN ran[c] : ran[c][i] = n

Queued ==
  \A t \in Trackers :
    /\ \A i \in DOMAIN backlog[t] : backlog[t][i] # Mirror =>
         at[backlog[t][i]] = t /\ link[backlog[t][i]] = "pending"
    /\ \A i, k \in DOMAIN backlog[t] :
         backlog[t][i] = backlog[t][k] /\ backlog[t][i] # Mirror => i = k

Waits ==
  \A c \in Clients : link[c] = "pending" =>
    \E i \in DOMAIN backlog[at[c]] : backlog[at[c]][i] = c

Linked ==
  \A c \in Clients :
    /\ link[c] = "none" <=> at[c] = None
    /\ link[c] \in {"pending", "open"} => at[c] \in up
    /\ phase[c] = "connecting" => link[c] = "none"
    /\ phase[c] \in {"idle", "waiting"} => link[c] # "none"
    /\ request[c] => link[c] \in {"pending", "open"}

Commands ==
  \A c \in Clients :
    /\ request[c] => phase[c] = "waiting" /\ reply[c] = 0 /\ typed[c] > 0
    /\ \A i \in DOMAIN ran[c] :
         ran[c][i] <= typed[c] /\ (request[c] => ran[c][i] < typed[c])
    /\ reply[c] # 0 => phase[c] = "waiting" /\ reply[c] = typed[c] /\ Ran(c, reply[c])
    /\ answered[c] # 0 => Ran(c, answered[c])

IInv == TypeOK /\ Queued /\ Waits /\ Linked /\ Commands /\ RunOnce

-----------------------------------------------------------------------------
(* What the invariant says. *)

LEMMA PlacesOne ==
  ASSUME IInv, NEW t \in Trackers, NEW c \in Clients
  PROVE  Cardinality(Places(t, c)) = IF at[c] = t /\ link[c] = "pending" THEN 1 ELSE 0
<1>1. c # Mirror
  BY TrackersAssumption
<1>2. CASE at[c] = t /\ link[c] = "pending"
  <2>1. PICK i \in DOMAIN backlog[t] : backlog[t][i] = c
    BY <1>2 DEF IInv, Waits
  <2>2. Places(t, c) = {i}
    BY <1>1, <2>1 DEF Places, IInv, Queued
  <2>3. QED
    BY <1>2, <2>2, FS_Singleton
<1>3. CASE ~(at[c] = t /\ link[c] = "pending")
  <2>1. Places(t, c) = {}
    BY <1>1, <1>3 DEF Places, IInv, Queued
  <2>2. QED
    BY <1>3, <2>1, FS_EmptySet
<1>4. QED
  BY <1>2, <1>3

LEMMA InvariantMeans == ASSUME IInv PROVE LinksMatch /\ ReplyMatches
<1>1. LinksMatch
  BY PlacesOne DEF LinksMatch, IInv, Linked
<1>2. ReplyMatches
  BY DEF ReplyMatches, IInv, Commands, Ran
<1>3. QED
  BY <1>1, <1>2

-----------------------------------------------------------------------------
(* Backlogs that grow at one end and shrink at the other. *)

LEMMA Elements ==
  ASSUME NEW S, NEW q \in Seq(S)
  PROVE  \A i \in DOMAIN q : q[i] \in S
<1>1. DOMAIN q = 1..Len(q)
  OBVIOUS
<1>2. QED
  BY <1>1

LEMMA HeadAndTail ==
  ASSUME NEW S, NEW q \in Seq(S), q # <<>>
  PROVE  /\ Tail(q) \in Seq(S) /\ Head(q) \in S /\ 1 \in DOMAIN q /\ q[1] = Head(q)
         /\ \A i \in DOMAIN Tail(q) : i + 1 \in DOMAIN q /\ Tail(q)[i] = q[i + 1]
         /\ \A i \in DOMAIN q : i # 1 => i - 1 \in DOMAIN Tail(q) /\ Tail(q)[i - 1] = q[i]
OBVIOUS

LEMMA Grown ==
  ASSUME NEW S, NEW q \in Seq(S), NEW x \in S
  PROVE  /\ Append(q, x) \in Seq(S)
         /\ \A i \in DOMAIN q : i \in DOMAIN Append(q, x) /\ Append(q, x)[i] = q[i]
         /\ \E i \in DOMAIN Append(q, x) : Append(q, x)[i] = x
         /\ \A i, k \in DOMAIN Append(q, x) :
              \/ i \in DOMAIN q
              \/ Append(q, x)[i] = x /\ (k \in DOMAIN q \/ i = k)
<1>1. Len(q) \in Nat /\ DOMAIN q = 1..Len(q)
  OBVIOUS
<1>2. DOMAIN Append(q, x) = 1..(Len(q) + 1) /\ Append(q, x)[Len(q) + 1] = x
  OBVIOUS
<1>3. \A i \in 1..Len(q) : Append(q, x)[i] = q[i]
  OBVIOUS
<1>4. QED
  BY <1>1, <1>2, <1>3

(* A mirroring connection comes into a backlog, or leaves it. *)
LEMMA MirrorComes ==
  ASSUME IInv, NEW u \in Trackers,
         backlog' = [backlog EXCEPT ![u] = Append(@, Mirror)],
         UNCHANGED <<client, connection>>
  PROVE  Queued' /\ Waits' /\ backlog' \in [Trackers -> Seq(Clients \cup {Mirror})]
<1> DEFINE S == Clients \cup {Mirror}
<1>1. backlog \in [Trackers -> Seq(S)]
  BY DEF IInv, TypeOK
<1>2. /\ backlog'[u] = Append(backlog[u], Mirror)
      /\ \A t \in Trackers : t # u => backlog'[t] = backlog[t]
  BY <1>1
<1>3. /\ backlog'[u] \in Seq(S)
      /\ \A i \in DOMAIN backlog[u] : i \in DOMAIN backlog'[u] /\ backlog'[u][i] = backlog[u][i]
      /\ \A i \in DOMAIN backlog'[u] : i \in DOMAIN backlog[u] \/ backlog'[u][i] = Mirror
  BY <1>1, <1>2, Grown
<1>4. UNCHANGED <<at, link>>
  BY DEF connection
<1>5. Queued'
  BY <1>2, <1>3, <1>4 DEF IInv, Queued
<1>6. Waits'
  BY <1>2, <1>3, <1>4 DEF IInv, Waits, Linked, TypeOK
<1>7. backlog' \in [Trackers -> Seq(S)]
  BY <1>1, <1>2, <1>3
<1>8. QED
  BY <1>5, <1>6, <1>7

LEMMA MirrorGoes ==
  ASSUME IInv, NEW u \in Trackers, backlog[u] # <<>>, Head(backlog[u]) = Mirror,
         backlog' = [backlog EXCEPT ![u] = Tail(@)],
         UNCHANGED <<client, connection>>
  PROVE  Queued' /\ Waits' /\ backlog' \in [Trackers -> Seq(Clients \cup {Mirror})]
<1> DEFINE S == Clients \cup {Mirror}
<1>1. backlog \in [Trackers -> Seq(S)]
  BY DEF IInv, TypeOK
<1>2. /\ backlog'[u] = Tail(backlog[u])
      /\ \A t \in Trackers : t # u => backlog'[t] = backlog[t]
  BY <1>1
<1>3. /\ backlog'[u] \in Seq(S) /\ backlog[u][1] = Mirror
      /\ \A i \in DOMAIN backlog'[u] :
           i + 1 \in DOMAIN backlog[u] /\ backlog'[u][i] = backlog[u][i + 1]
      /\ \A i \in DOMAIN backlog[u] : i # 1 =>
           i - 1 \in DOMAIN backlog'[u] /\ backlog'[u][i - 1] = backlog[u][i]
  BY <1>1, <1>2, HeadAndTail
<1>4. UNCHANGED <<at, link>>
  BY DEF connection
<1>5. DOMAIN backlog'[u] \subseteq Nat
  BY <1>3
<1>6. Queued'
  BY <1>2, <1>3, <1>4, <1>5 DEF IInv, Queued
<1>7. Waits'
  <2> SUFFICES ASSUME NEW c \in Clients, link[c] = "pending"
               PROVE  \E i \in DOMAIN backlog'[at[c]] : backlog'[at[c]][i] = c
    BY <1>4 DEF Waits
  <2>1. PICK i \in DOMAIN backlog[at[c]] : backlog[at[c]][i] = c
    BY DEF IInv, Waits
  <2>2. at[c] \in Trackers
    BY DEF IInv, Linked, TypeOK
  <2>3. c # Mirror
    BY TrackersAssumption
  <2>4. CASE at[c] = u
    <3>1. i \in DOMAIN backlog[u] /\ backlog[u][i] = c /\ i # 1
      BY <1>3, <2>1, <2>3, <2>4
    <3>2. i - 1 \in DOMAIN backlog'[u] /\ backlog'[u][i - 1] = c
      BY <1>3, <3>1
    <3>3. QED
      BY <2>4, <3>2
  <2>5. CASE at[c] # u
    BY <1>2, <2>1, <2>2, <2>5
  <2>6. QED
    BY <2>4, <2>5
<1>8. backlog' \in [Trackers -> Seq(S)]
  BY <1>1, <1>2, <1>3
<1>9. QED
  BY <1>6, <1>7, <1>8

(* What leaves the backlogs, or the commands run, alone. *)
LEMMA QuietQueues ==
  ASSUME IInv, UNCHANGED <<backlog, at, link>>
  PROVE  Queued' /\ Waits'
BY DEF IInv, Queued, Waits

LEMMA QuietRuns == ASSUME IInv, UNCHANGED ran PROVE RunOnce'
BY DEF IInv, RunOnce

-----------------------------------------------------------------------------
(* The first states. *)

LEMMA InitInv == Init => IInv
<1> SUFFICES ASSUME Init PROVE IInv
  OBVIOUS
<1>1. TypeOK
  BY TrackersAssumption, BoundsAssumption DEF Init, TypeOK
<1>2. Queued
  BY DEF Init, Queued
<1>3. Waits /\ RunOnce
  BY DEF Init, Waits, RunOnce
<1>4. Linked
  BY DEF Init, Linked
<1>5. Commands
  BY DEF Init, Commands, Ran
<1>6. QED
  BY <1>1, <1>2, <1>3, <1>4, <1>5 DEF IInv

-----------------------------------------------------------------------------
(* Clients. *)

LEMMA ConnectInv == ASSUME IInv, NEW c \in Clients, Connect(c) PROVE IInv'
<1> DEFINE S == Clients \cup {Mirror}
<1>1. TypeOK /\ Linked /\ Commands /\ phase[c] = "connecting"
  BY DEF IInv, Connect
<1>2. PICK u \in First(up) :
        /\ backlog' = [backlog EXCEPT ![u] = Append(@, c)]
        /\ at' = [at EXCEPT ![c] = u]
  BY DEF Connect
<1>3. /\ link' = [link EXCEPT ![c] = "pending"]
      /\ reply' = [reply EXCEPT ![c] = 0]
      /\ phase' = [phase EXCEPT ![c] = "idle"]
      /\ UNCHANGED <<up, todo, unread, read, typed, answered, request, ran, starts>>
  BY DEF Connect
<1>4. u \in Trackers /\ u \in up
  BY <1>1, <1>2 DEF First, TypeOK
<1>5. /\ backlog \in [Trackers -> Seq(S)] /\ at \in [Clients -> Trackers \cup {None}]
      /\ link \in [Clients -> {"none", "pending", "open", "closed"}]
  BY <1>1 DEF TypeOK
<1>6. /\ backlog'[u] = Append(backlog[u], c)
      /\ \A t \in Trackers : t # u => backlog'[t] = backlog[t]
  BY <1>2, <1>4, <1>5
<1>7. /\ backlog'[u] \in Seq(S)
      /\ \A i \in DOMAIN backlog[u] : i \in DOMAIN backlog'[u] /\ backlog'[u][i] = backlog[u][i]
      /\ \E i \in DOMAIN backlog'[u] : backlog'[u][i] = c
      /\ \A i, k \in DOMAIN backlog'[u] :
           \/ i \in DOMAIN backlog[u]
           \/ backlog'[u][i] = c /\ (k \in DOMAIN backlog[u] \/ i = k)
  <2>1. backlog[u] \in Seq(S) /\ c \in S
    BY <1>4, <1>5
  <2>2. QED
    BY <1>6, <2>1, Grown
<1>8. /\ at'[c] = u /\ link'[c] = "pending"
      /\ \A d \in Clients : d # c => at'[d] = at[d] /\ link'[d] = link[d]
  BY <1>2, <1>3, <1>5
<1>9. link[c] = "none"
  BY <1>1 DEF Linked
<1>10. \A t \in Trackers : \A i \in DOMAIN backlog[t] :
         backlog[t][i] # c /\ backlog[t][i] \in S
  <2> SUFFICES ASSUME NEW t \in Trackers, NEW i \in DOMAIN backlog[t]
               PROVE  backlog[t][i] # c /\ backlog[t][i] \in S
    OBVIOUS
  <2>1. backlog[t][i] \in S
    BY <1>5
  <2>2. backlog[t][i] # Mirror => link[backlog[t][i]] = "pending"
    BY DEF IInv, Queued
  <2>3. QED
    BY <1>9, <2>1, <2>2, TrackersAssumption
<1>11. Queued'
  <2>1. \A t \in Trackers : \A i \in DOMAIN backlog'[t] : backlog'[t][i] # Mirror =>
          at'[backlog'[t][i]] = t /\ link'[backlog'[t][i]] = "pending"
    <3> SUFFICES ASSUME NEW t \in Trackers, NEW i \in DOMAIN backlog'[t],
                        backlog'[t][i] # Mirror
                 PROVE  at'[backlog'[t][i]] = t /\ link'[backlog'[t][i]] = "pending"
      OBVIOUS
    <3>1. CASE i \in DOMAIN backlog[t] /\ backlog'[t][i] = backlog[t][i]
      <4>1. /\ at[backlog[t][i]] = t /\ link[backlog[t][i]] = "pending"
            /\ backlog[t][i] \in Clients /\ backlog[t][i] # c
        BY <1>10, <3>1 DEF IInv, Queued
      <4>2. QED
        BY <1>8, <3>1, <4>1
    <3>2. CASE t = u /\ backlog'[t][i] = c
      BY <1>8, <3>2
    <3>3. QED
      BY <1>6, <1>7, <3>1, <3>2
  <2>2. \A t \in Trackers : \A i, k \in DOMAIN backlog'[t] :
          backlog'[t][i] = backlog'[t][k] /\ backlog'[t][i] # Mirror => i = k
    <3> SUFFICES ASSUME NEW t \in Trackers, NEW i \in DOMAIN backlog'[t],
                        NEW k \in DOMAIN backlog'[t],
                        backlog'[t][i] = backlog'[t][k], backlog'[t][i] # Mirror
                 PROVE  i = k
      OBVIOUS
    <3>1. CASE t # u
      BY <1>6, <3>1 DEF IInv, Queued
    <3>2. CASE t = u /\ i \in DOMAIN backlog[u] /\ k \in DOMAIN backlog[u]
      BY <1>4, <1>7, <3>2 DEF IInv, Queued
    <3>3. CASE t = u /\ ~(i \in DOMAIN backlog[u] /\ k \in DOMAIN backlog[u])
      BY <1>4, <1>7, <1>10, <3>3
    <3>4. QED
      BY <3>1, <3>2, <3>3
  <2>3. QED
    BY <2>1, <2>2 DEF Queued
<1>12. Waits'
  <2> SUFFICES ASSUME NEW d \in Clients, link'[d] = "pending"
               PROVE  \E i \in DOMAIN backlog'[at'[d]] : backlog'[at'[d]][i] = d
    BY DEF Waits
  <2>1. CASE d = c
    BY <1>7, <1>8, <2>1
  <2>2. CASE d # c
    <3>1. at'[d] = at[d] /\ link[d] = "pending" /\ at[d] \in Trackers
      BY <1>1, <1>5, <1>8, <2>2 DEF Linked, TypeOK
    <3>2. PICK i \in DOMAIN backlog[at[d]] : backlog[at[d]][i] = d
      BY <3>1 DEF IInv, Waits
    <3>3. QED
      BY <1>6, <1>7, <3>1, <3>2
  <2>3. QED
    BY <2>1, <2>2
<1>13. TypeOK'
  <2>1. backlog' \in [Trackers -> Seq(S)]
    BY <1>2, <1>4, <1>5, <1>7
  <2>2. reply' \in [Clients -> 0..MaxTyped]
    BY <1>1, <1>3, BoundsAssumption DEF TypeOK
  <2>3. QED
    BY <1>1, <1>2, <1>3, <1>4, <2>1, <2>2 DEF TypeOK
<1>14. Linked'
  BY <1>1, <1>3, <1>4, <1>8, TrackersAssumption DEF Linked, TypeOK
<1>15. Commands'
  BY <1>1, <1>3, <1>9 DEF Commands, Linked, TypeOK, Ran
<1>16. RunOnce'
  BY <1>3, QuietRuns
<1>17. QED
  BY <1>11, <1>12, <1>13, <1>14, <1>15, <1>16 DEF IInv

LEMMA GiveUpInv == ASSUME IInv, NEW c \in Clients, GiveUp(c) PROVE IInv'
<1>1. TypeOK /\ Linked /\ Commands
  BY DEF IInv
<1>2. UNCHANGED <<backlog, at, link, ran>>
  BY DEF GiveUp, tracker, connection
<1>3. Queued' /\ Waits' /\ RunOnce'
  BY <1>2, QuietQueues, QuietRuns
<1>4. TypeOK'
  BY <1>1 DEF TypeOK, GiveUp, tracker, connection
<1>5. Linked'
  BY <1>1 DEF Linked, TypeOK, GiveUp, tracker, connection
<1>6. Commands'
  BY <1>1 DEF Commands, Linked, TypeOK, Ran, GiveUp, tracker, connection
<1>7. QED
  BY <1>3, <1>4, <1>5, <1>6 DEF IInv

LEMMA TypeInv == ASSUME IInv, NEW c \in Clients, Type(c) PROVE IInv'
<1>1. TypeOK /\ Linked /\ Commands
  BY DEF IInv
<1>2. UNCHANGED <<backlog, at, link, ran>>
  BY DEF Type, tracker, connection
<1>3. Queued' /\ Waits' /\ RunOnce'
  BY <1>2, QuietQueues, QuietRuns
<1>4. TypeOK'
  <2>1. request' \in [Clients -> BOOLEAN]
    <3>1. (link[c] # "closed") \in BOOLEAN
      OBVIOUS
    <3>2. request \in [Clients -> BOOLEAN] /\ request' = [request EXCEPT ![c] = link[c] # "closed"]
      BY <1>1 DEF TypeOK, Type
    <3>3. QED
      BY <3>1, <3>2, Zenon
  <2>2. typed' \in [Clients -> 0..MaxTyped]
    BY <1>1, BoundsAssumption DEF TypeOK, Type
  <2>3. /\ UNCHANGED <<up, backlog, todo, unread, read, answered, at, link, reply, ran, starts>>
        /\ phase' = [phase EXCEPT ![c] = "waiting"]
    BY DEF Type, tracker
  <2>4. phase' \in [Clients -> {"connecting", "idle", "waiting", "exited"}]
    BY <1>1, <2>3 DEF TypeOK
  <2>5. QED
    BY <1>1, <2>1, <2>2, <2>3, <2>4, Zenon DEF TypeOK
<1>5. Linked'
  BY <1>1 DEF Linked, TypeOK, Type, tracker, connection
<1>6. Commands'
  <2>1. /\ typed' = [typed EXCEPT ![c] = @ + 1] /\ phase' = [phase EXCEPT ![c] = "waiting"]
        /\ UNCHANGED <<reply, ran, answered>>
    BY DEF Type
  <2>2. \A d \in Clients : d # c => request'[d] = request[d]
    BY <1>1 DEF Type, TypeOK
  <2>3. \A d \in Clients : d # c => typed'[d] = typed[d] /\ phase'[d] = phase[d]
    BY <1>1, <2>1 DEF TypeOK
  <2>4. typed[c] \in Nat /\ typed'[c] = typed[c] + 1 /\ phase'[c] = "waiting" /\ reply[c] = 0
    BY <1>1, <2>1, BoundsAssumption DEF TypeOK, Type, Commands
  <2>5. \A i \in DOMAIN ran[c] : ran[c][i] \in Nat /\ ran[c][i] <= typed[c]
    <3>1. ran[c] \in Seq(1..MaxTyped)
      BY <1>1 DEF TypeOK
    <3>2. \A i \in DOMAIN ran[c] : ran[c][i] \in 1..MaxTyped
      BY <3>1, Elements
    <3>3. QED
      BY <1>1, <3>2, BoundsAssumption DEF Commands
  <2>6. \A i \in DOMAIN ran[c] : ran[c][i] <= typed'[c] /\ ran[c][i] < typed'[c]
    BY <2>4, <2>5
  <2>7. QED
    BY <1>1, <2>1, <2>2, <2>3, <2>4, <2>6 DEF Commands, Ran
<1>7. QED
  BY <1>3, <1>4, <1>5, <1>6 DEF IInv

LEMMA ReadReplyInv == ASSUME IInv, NEW c \in Clients, ReadReply(c) PROVE IInv'
<1>1. TypeOK /\ Linked /\ Commands
  BY DEF IInv
<1>2. UNCHANGED <<backlog, at, link, ran>>
  BY DEF ReadReply, tracker, connection
<1>3. Queued' /\ Waits' /\ RunOnce'
  BY <1>2, QuietQueues, QuietRuns
<1>4. TypeOK'
  BY <1>1, BoundsAssumption DEF TypeOK, ReadReply, tracker, connection
<1>5. Linked'
  BY <1>1 DEF Linked, TypeOK, ReadReply, tracker, connection
<1>6. Commands'
  BY <1>1 DEF Commands, Linked, TypeOK, Ran, ReadReply, tracker, connection
<1>7. QED
  BY <1>3, <1>4, <1>5, <1>6 DEF IInv

LEMMA QuitInv == ASSUME IInv, NEW c \in Clients, Quit(c) PROVE IInv'
<1>1. TypeOK /\ Linked /\ Commands
  BY DEF IInv
<1>2. UNCHANGED <<backlog, at, link, ran>>
  BY DEF Quit, tracker, connection
<1>3. Queued' /\ Waits' /\ RunOnce'
  BY <1>2, QuietQueues, QuietRuns
<1>4. TypeOK'
  BY <1>1 DEF TypeOK, Quit, tracker, connection
<1>5. Linked'
  BY <1>1 DEF Linked, TypeOK, Quit, tracker, connection
<1>6. Commands'
  BY <1>1 DEF Commands, Linked, TypeOK, Ran, Quit, tracker, connection
<1>7. QED
  BY <1>3, <1>4, <1>5, <1>6 DEF IInv

LEMMA NoticeInv == ASSUME IInv, NEW c \in Clients, Notice(c) PROVE IInv'
<1>1. /\ TypeOK /\ Linked /\ Commands
      /\ phase[c] = "waiting" /\ reply[c] = 0 /\ link[c] = "closed"
  BY DEF IInv, Notice
<1>2. /\ link' = [link EXCEPT ![c] = "none"]
      /\ at' = [at EXCEPT ![c] = None]
      /\ UNCHANGED <<backlog, up, todo, unread, read, typed, answered, request, reply,
                     ran, starts>>
      /\ \E next \in {"connecting", "exited"} : phase' = [phase EXCEPT ![c] = next]
  BY DEF Notice, tracker
<1>3. /\ at'[c] = None /\ link'[c] = "none"
      /\ \A d \in Clients : d # c => at'[d] = at[d] /\ link'[d] = link[d]
  BY <1>1, <1>2 DEF TypeOK
<1>4. Queued'
  <2>1. \A t \in Trackers : \A i \in DOMAIN backlog[t] : backlog[t][i] # Mirror =>
          /\ at[backlog[t][i]] = t /\ link[backlog[t][i]] = "pending"
          /\ backlog[t][i] \in Clients /\ backlog[t][i] # c
    BY <1>1 DEF IInv, Queued, TypeOK
  <2>2. \A t \in Trackers : \A i, k \in DOMAIN backlog[t] :
          backlog[t][i] = backlog[t][k] /\ backlog[t][i] # Mirror => i = k
    BY DEF IInv, Queued
  <2>3. QED
    BY <1>2, <1>3, <2>1, <2>2 DEF Queued
<1>5. Waits'
  BY <1>2, <1>3 DEF IInv, Waits
<1>6. TypeOK'
  BY <1>1, <1>2 DEF TypeOK
<1>7. Linked'
  BY <1>1, <1>2, <1>3 DEF Linked, TypeOK
<1>8. Commands'
  BY <1>1, <1>2 DEF Commands, Linked, TypeOK, Ran
<1>9. RunOnce'
  BY <1>2, QuietRuns
<1>10. QED
  BY <1>4, <1>5, <1>6, <1>7, <1>8, <1>9 DEF IInv

-----------------------------------------------------------------------------
(* The service thread of a tracker. *)

(* What no client sees. *)
LEMMA Unseen ==
  ASSUME IInv, UNCHANGED <<client, connection, ran, starts>>, up' = up,
         Queued', Waits', backlog' \in [Trackers -> Seq(Clients \cup {Mirror})],
         todo' \in [Trackers -> SUBSET Trackers],
         unread' \in [Trackers -> Nat], read' \in [Trackers -> Nat]
  PROVE  IInv'
<1>1. UNCHANGED <<phase, typed, answered, at, link, request, reply, ran, starts>>
  BY DEF client, connection
<1>2. TypeOK'
  BY <1>1 DEF IInv, TypeOK
<1>3. Linked'
  BY <1>1 DEF IInv, Linked
<1>4. Commands'
  BY <1>1 DEF IInv, Commands, Ran
<1>5. QED
  BY <1>1, <1>2, <1>3, <1>4, QuietRuns DEF IInv

LEMMA MirroringInv ==
  ASSUME IInv, NEW t \in Trackers,
         AcceptMirror(t) \/ RunMirrored(t) \/ CloseMirror(t) \/ SendMirror(t) \/ MirrorTimeout(t)
  PROVE  IInv'
<1>1. /\ backlog \in [Trackers -> Seq(Clients \cup {Mirror})]
      /\ todo \in [Trackers -> SUBSET Trackers]
      /\ unread \in [Trackers -> Nat] /\ read \in [Trackers -> Nat] /\ up \subseteq Trackers
  BY DEF IInv, TypeOK
<1>2. CASE AcceptMirror(t)
  <2>1. /\ backlog[t] # <<>> /\ Head(backlog[t]) = Mirror
        /\ backlog' = [backlog EXCEPT ![t] = Tail(@)]
        /\ UNCHANGED <<up, todo, read, client, connection, ran, starts>>
    BY <1>2 DEF AcceptMirror
  <2>2. unread' \in [Trackers -> Nat]
    BY <1>1, <1>2 DEF AcceptMirror
  <2>3. Queued' /\ Waits' /\ backlog' \in [Trackers -> Seq(Clients \cup {Mirror})]
    BY <2>1, MirrorGoes
  <2>4. QED
    BY <1>1, <2>1, <2>2, <2>3, Unseen
<1>3. CASE RunMirrored(t)
  <2>1. UNCHANGED <<up, backlog, todo, client, connection, ran, starts>>
    BY <1>3 DEF RunMirrored
  <2>2. unread' \in [Trackers -> Nat] /\ read' \in [Trackers -> Nat]
    BY <1>1, <1>3 DEF RunMirrored
  <2>3. Queued' /\ Waits'
    BY <2>1, QuietQueues DEF connection
  <2>4. QED
    BY <1>1, <2>1, <2>2, <2>3, Unseen
<1>4. CASE CloseMirror(t)
  <2>1. UNCHANGED <<up, backlog, todo, unread, client, connection, ran, starts>>
    BY <1>4 DEF CloseMirror
  <2>2. read' \in [Trackers -> Nat]
    BY <1>1, <1>4 DEF CloseMirror
  <2>3. Queued' /\ Waits'
    BY <2>1, QuietQueues DEF connection
  <2>4. QED
    BY <1>1, <2>1, <2>2, <2>3, Unseen
<1>5. CASE SendMirror(t)
  <2>1. PICK u \in First(todo[t]) :
          /\ backlog' = IF u \in up THEN [backlog EXCEPT ![u] = Append(@, Mirror)] ELSE backlog
          /\ todo' = [todo EXCEPT ![t] = @ \ {u}]
    BY <1>5 DEF SendMirror
  <2>2. UNCHANGED <<up, unread, read, client, connection, ran, starts>>
    BY <1>5 DEF SendMirror
  <2>3. u \in Trackers
    BY <1>1 DEF First
  <2>4. Queued' /\ Waits' /\ backlog' \in [Trackers -> Seq(Clients \cup {Mirror})]
    <3>1. CASE u \in up
      BY <2>1, <2>2, <2>3, <3>1, MirrorComes
    <3>2. CASE u \notin up
      BY <1>1, <2>1, <2>2, <3>2, QuietQueues DEF connection
    <3>3. QED
      BY <3>1, <3>2
  <2>5. todo' \in [Trackers -> SUBSET Trackers]
    BY <1>1, <2>1
  <2>6. QED
    BY <1>1, <2>2, <2>4, <2>5, Unseen
<1>6. CASE MirrorTimeout(t)
  <2>1. UNCHANGED <<up, backlog, unread, read, client, connection, ran, starts>>
    BY <1>6 DEF MirrorTimeout
  <2>2. todo' \in [Trackers -> SUBSET Trackers]
    BY <1>1, <1>6 DEF MirrorTimeout
  <2>3. Queued' /\ Waits'
    BY <2>1, QuietQueues DEF connection
  <2>4. QED
    BY <1>1, <2>1, <2>2, <2>3, Unseen
<1>7. QED
  BY <1>2, <1>3, <1>4, <1>5, <1>6

LEMMA StartInv == ASSUME IInv, NEW t \in Trackers, Start(t) PROVE IInv'
<1>1. /\ up' = up \cup {t} /\ starts' = starts + 1 /\ starts < MaxStarts
      /\ UNCHANGED <<backlog, todo, unread, read, phase, typed, answered, at, link, request,
                     reply, ran>>
  BY DEF Start, client, connection
<1>2. TypeOK'
  BY <1>1, BoundsAssumption DEF IInv, TypeOK
<1>3. Linked'
  BY <1>1 DEF IInv, Linked
<1>4. Commands'
  BY <1>1 DEF IInv, Commands, Ran
<1>5. QED
  BY <1>1, <1>2, <1>3, <1>4, QuietQueues, QuietRuns DEF IInv

(* The oldest connection leaves the backlog, and only it changes. *)
LEMMA AcceptClientInv ==
  ASSUME IInv, NEW t \in Trackers, NEW c \in Clients, AcceptClient(t, c) PROVE IInv'
<1> DEFINE S == Clients \cup {Mirror}
<1>1. /\ TypeOK /\ Linked /\ Commands /\ Queued /\ Waits
      /\ backlog[t] # <<>> /\ Head(backlog[t]) = c
  BY DEF IInv, AcceptClient
<1>2. /\ backlog' = [backlog EXCEPT ![t] = Tail(@)]
      /\ UNCHANGED <<up, todo, unread, read, phase, typed, answered, at, reply, ran, starts>>
      /\ \/ link' = [link EXCEPT ![c] = "open"] /\ request' = request
         \/ /\ link' = [link EXCEPT ![c] = "closed"]
            /\ request' = [request EXCEPT ![c] = FALSE]
  BY DEF AcceptClient, client
<1>3. /\ backlog \in [Trackers -> Seq(S)] /\ at \in [Clients -> Trackers \cup {None}]
      /\ link \in [Clients -> {"none", "pending", "open", "closed"}]
      /\ request \in [Clients -> BOOLEAN]
  BY <1>1 DEF TypeOK
<1>4. /\ backlog'[t] = Tail(backlog[t])
      /\ \A u \in Trackers : u # t => backlog'[u] = backlog[u]
  BY <1>2, <1>3
<1>5. /\ backlog'[t] \in Seq(S) /\ 1 \in DOMAIN backlog[t] /\ backlog[t][1] = c
      /\ \A i \in DOMAIN backlog'[t] :
           i + 1 \in DOMAIN backlog[t] /\ backlog'[t][i] = backlog[t][i + 1]
      /\ \A i \in DOMAIN backlog[t] : i # 1 =>
           i - 1 \in DOMAIN backlog'[t] /\ backlog'[t][i - 1] = backlog[t][i]
  BY <1>1, <1>3, <1>4, HeadAndTail
<1>6. DOMAIN backlog'[t] = 1..Len(backlog'[t]) /\ Len(backlog'[t]) \in Nat
  BY <1>5
<1>7. c # Mirror /\ at[c] = t /\ link[c] = "pending"
  BY <1>1, <1>5, TrackersAssumption DEF Queued
<1>8. \A d \in Clients : d # c => link'[d] = link[d] /\ request'[d] = request[d]
  BY <1>2, <1>3
<1>9. link'[c] \in {"open", "closed"} /\ (request'[c] => request[c] /\ link'[c] = "open")
  BY <1>2, <1>3
<1>10. Queued'
  <2>1. \A u \in Trackers : \A i \in DOMAIN backlog'[u] :
          backlog'[u][i] # c /\ \E k \in DOMAIN backlog[u] : backlog[u][k] = backlog'[u][i]
    <3> SUFFICES ASSUME NEW u \in Trackers, NEW i \in DOMAIN backlog'[u]
                 PROVE  /\ backlog'[u][i] # c
                        /\ \E k \in DOMAIN backlog[u] : backlog[u][k] = backlog'[u][i]
      OBVIOUS
    <3>1. CASE u = t
      <4>1. i \in DOMAIN backlog'[t]
        BY <3>1
      <4>2. i \in Nat /\ i # 0
        BY <1>6, <4>1
      <4>3. /\ i + 1 \in DOMAIN backlog[t] /\ backlog'[t][i] = backlog[t][i + 1]
            /\ i + 1 # 1
        BY <1>5, <4>1, <4>2
      <4>4. backlog[t][i + 1] # c
        BY <1>1, <1>5, <1>7, <4>3 DEF Queued
      <4>5. QED
        BY <3>1, <4>3, <4>4
    <3>2. CASE u # t
      BY <1>1, <1>4, <1>7, <3>2 DEF Queued
    <3>3. QED
      BY <3>1, <3>2
  <2>2. \A u \in Trackers : \A i \in DOMAIN backlog'[u] : backlog'[u][i] # Mirror =>
          at'[backlog'[u][i]] = u /\ link'[backlog'[u][i]] = "pending"
    <3> SUFFICES ASSUME NEW u \in Trackers, NEW i \in DOMAIN backlog'[u],
                        backlog'[u][i] # Mirror
                 PROVE  at'[backlog'[u][i]] = u /\ link'[backlog'[u][i]] = "pending"
      OBVIOUS
    <3>1. PICK k \in DOMAIN backlog[u] : backlog[u][k] = backlog'[u][i]
      BY <2>1
    <3>2. backlog[u] \in Seq(S)
      BY <1>3
    <3>3. backlog[u][k] \in Clients /\ backlog[u][k] # c
      BY <2>1, <3>1, <3>2, Elements
    <3>4. at[backlog[u][k]] = u /\ link[backlog[u][k]] = "pending"
      BY <1>1, <3>1 DEF Queued
    <3>5. QED
      BY <1>2, <1>8, <3>1, <3>3, <3>4
  <2>3. \A u \in Trackers : \A i, k \in DOMAIN backlog'[u] :
          backlog'[u][i] = backlog'[u][k] /\ backlog'[u][i] # Mirror => i = k
    <3> SUFFICES ASSUME NEW u \in Trackers, NEW i \in DOMAIN backlog'[u],
                        NEW k \in DOMAIN backlog'[u],
                        backlog'[u][i] = backlog'[u][k], backlog'[u][i] # Mirror
                 PROVE  i = k
      OBVIOUS
    <3>1. CASE u = t
      <4>1. i + 1 = k + 1
        BY <1>1, <1>5, <3>1 DEF Queued
      <4>2. QED
        BY <1>6, <3>1, <4>1
    <3>2. CASE u # t
      BY <1>1, <1>4, <3>2 DEF Queued
    <3>3. QED
      BY <3>1, <3>2
  <2>4. QED
    BY <2>2, <2>3 DEF Queued
<1>11. Waits'
  <2> SUFFICES ASSUME NEW d \in Clients, link'[d] = "pending"
               PROVE  \E i \in DOMAIN backlog'[at[d]] : backlog'[at[d]][i] = d
    BY <1>2 DEF Waits
  <2>1. d # c /\ link[d] = "pending"
    BY <1>8, <1>9
  <2>2. PICK i \in DOMAIN backlog[at[d]] : backlog[at[d]][i] = d
    BY <1>1, <2>1 DEF Waits
  <2>3. at[d] \in Trackers
    BY <1>1, <2>1 DEF Linked, TypeOK
  <2>4. CASE at[d] = t
    <3>1. i \in DOMAIN backlog[t] /\ backlog[t][i] = d /\ i # 1
      BY <1>5, <2>1, <2>2, <2>4
    <3>2. i - 1 \in DOMAIN backlog'[t] /\ backlog'[t][i - 1] = d
      BY <1>5, <3>1
    <3>3. QED
      BY <2>4, <3>2
  <2>5. CASE at[d] # t
    BY <1>4, <2>2, <2>3, <2>5
  <2>6. QED
    BY <2>4, <2>5
<1>12. TypeOK'
  <2>1. backlog' \in [Trackers -> Seq(S)]
    BY <1>2, <1>3, <1>5
  <2>2. /\ link' \in [Clients -> {"none", "pending", "open", "closed"}]
        /\ request' \in [Clients -> BOOLEAN]
    BY <1>2, <1>3
  <2>3. QED
    BY <1>1, <1>2, <2>1, <2>2 DEF TypeOK
<1>13. Linked'
  <2> SUFFICES ASSUME NEW d \in Clients
               PROVE  /\ link'[d] = "none" <=> at[d] = None
                      /\ link'[d] \in {"pending", "open"} => at[d] \in up
                      /\ phase[d] = "connecting" => link'[d] = "none"
                      /\ phase[d] \in {"idle", "waiting"} => link'[d] # "none"
                      /\ request'[d] => link'[d] \in {"pending", "open"}
    BY <1>2 DEF Linked
  <2>1. CASE d = c
    BY <1>1, <1>7, <1>9, <2>1, TrackersAssumption DEF Linked
  <2>2. CASE d # c
    BY <1>1, <1>8, <2>2 DEF Linked
  <2>3. QED
    BY <2>1, <2>2
<1>14. \A d \in Clients : request'[d] => request[d]
  BY <1>8, <1>9
<1>15. Commands'
  BY <1>1, <1>2, <1>14 DEF Commands, Ran
<1>16. RunOnce'
  BY <1>2, QuietRuns
<1>17. QED
  BY <1>10, <1>11, <1>12, <1>13, <1>15, <1>16 DEF IInv

(* The request is the last command, and was not run before. *)
LEMMA ServeInv ==
  ASSUME IInv, NEW t \in Trackers, NEW c \in Clients, Serve(t, c) PROVE IInv'
<1>1. TypeOK /\ Linked /\ Commands /\ RunOnce /\ request[c]
  BY DEF IInv, Serve
<1>2. /\ request' = [request EXCEPT ![c] = FALSE]
      /\ ran' = [ran EXCEPT ![c] = Append(@, typed[c])]
      /\ reply' = [reply EXCEPT ![c] = typed[c]]
      /\ UNCHANGED <<up, backlog, unread, read, phase, typed, answered, at, link, starts>>
  BY DEF Serve, client
<1>3. /\ request \in [Clients -> BOOLEAN] /\ ran \in [Clients -> Seq(1..MaxTyped)]
      /\ reply \in [Clients -> 0..MaxTyped] /\ typed[c] \in 1..MaxTyped
  BY <1>1, BoundsAssumption DEF TypeOK, Commands
<1>4. /\ ran'[c] = Append(ran[c], typed[c]) /\ reply'[c] = typed[c] /\ request'[c] = FALSE
      /\ \A d \in Clients : d # c =>
           ran'[d] = ran[d] /\ reply'[d] = reply[d] /\ request'[d] = request[d]
  BY <1>2, <1>3
<1>5. \A i \in DOMAIN ran[c] : ran[c][i] \in Nat /\ ran[c][i] < typed[c]
  <2>1. ran[c] \in Seq(1..MaxTyped)
    BY <1>3
  <2>2. \A i \in DOMAIN ran[c] : ran[c][i] \in 1..MaxTyped
    BY <2>1, Elements
  <2>3. QED
    BY <1>1, <2>2, BoundsAssumption DEF Commands
<1>6. DOMAIN ran[c] = 1..Len(ran[c]) /\ Len(ran[c]) \in Nat
  <2>1. ran[c] \in Seq(1..MaxTyped)
    BY <1>3
  <2>2. QED
    BY <2>1
<1>7. /\ DOMAIN ran'[c] = 1..(Len(ran[c]) + 1) /\ ran'[c][Len(ran[c]) + 1] = typed[c]
      /\ \A i \in 1..Len(ran[c]) : ran'[c][i] = ran[c][i]
      /\ ran'[c] \in Seq(1..MaxTyped)
  <2>1. ran[c] \in Seq(1..MaxTyped)
    BY <1>3
  <2>2. QED
    BY <1>3, <1>4, <2>1
<1>8. RunOnce'
  <2> SUFFICES ASSUME NEW d \in Clients, NEW i \in DOMAIN ran'[d], NEW k \in DOMAIN ran'[d],
                      i < k
               PROVE  ran'[d][i] < ran'[d][k]
    BY DEF RunOnce
  <2>1. CASE d # c
    BY <1>1, <1>4, <2>1 DEF RunOnce
  <2>2. CASE d = c /\ k = Len(ran[c]) + 1
    <3>1. i \in 1..Len(ran[c])
      BY <1>6, <1>7, <2>2
    <3>2. QED
      BY <1>5, <1>6, <1>7, <2>2, <3>1
  <2>3. CASE d = c /\ k # Len(ran[c]) + 1
    <3>1. i \in 1..Len(ran[c]) /\ k \in 1..Len(ran[c])
      BY <1>6, <1>7, <2>3
    <3>2. QED
      BY <1>1, <1>6, <1>7, <2>3, <3>1 DEF RunOnce
  <2>4. QED
    BY <2>1, <2>2, <2>3
<1>9. Commands'
  <2> SUFFICES ASSUME NEW d \in Clients
               PROVE  /\ request'[d] => phase[d] = "waiting" /\ reply'[d] = 0 /\ typed[d] > 0
                      /\ \A i \in DOMAIN ran'[d] :
                           ran'[d][i] <= typed[d] /\ (request'[d] => ran'[d][i] < typed[d])
                      /\ reply'[d] # 0 => /\ phase[d] = "waiting" /\ reply'[d] = typed[d]
                                          /\ \E i \in DOMAIN ran'[d] : ran'[d][i] = reply'[d]
                      /\ answered[d] # 0 => \E i \in DOMAIN ran'[d] : ran'[d][i] = answered[d]
    BY <1>2 DEF Commands, Ran
  <2>1. CASE d # c
    BY <1>1, <1>4, <2>1 DEF Commands, Ran
  <2>2. CASE d = c
    <3>1. \A i \in DOMAIN ran'[c] : ran'[c][i] <= typed[c]
      <4> SUFFICES ASSUME NEW i \in DOMAIN ran'[c] PROVE ran'[c][i] <= typed[c]
        OBVIOUS
      <4>1. CASE i \in 1..Len(ran[c])
        BY <1>3, <1>5, <1>6, <1>7, <4>1
      <4>2. CASE i = Len(ran[c]) + 1
        BY <1>3, <1>7, <4>2
      <4>3. QED
        BY <1>6, <1>7, <4>1, <4>2
    <3>2. \E i \in DOMAIN ran'[c] : ran'[c][i] = typed[c]
      <4>1. Len(ran[c]) + 1 \in DOMAIN ran'[c]
        BY <1>6, <1>7
      <4>2. QED
        BY <1>7, <4>1
    <3>3. answered[c] # 0 => \E i \in DOMAIN ran'[c] : ran'[c][i] = answered[c]
      <4> SUFFICES ASSUME answered[c] # 0
                   PROVE  \E i \in DOMAIN ran'[c] : ran'[c][i] = answered[c]
        OBVIOUS
      <4>1. PICK i \in DOMAIN ran[c] : ran[c][i] = answered[c]
        BY <1>1 DEF Commands, Ran
      <4>2. i \in DOMAIN ran'[c] /\ ran'[c][i] = ran[c][i]
        BY <1>6, <1>7
      <4>3. QED
        BY <4>1, <4>2
    <3>4. phase[c] = "waiting"
      BY <1>1 DEF Commands
    <3>5. QED
      BY <1>4, <2>2, <3>1, <3>2, <3>3, <3>4
  <2>3. QED
    BY <2>1, <2>2
<1>10. TypeOK'
  <2>1. ran' \in [Clients -> Seq(1..MaxTyped)]
    BY <1>2, <1>3, <1>4, <1>7
  <2>2. request' \in [Clients -> BOOLEAN] /\ reply' \in [Clients -> 0..MaxTyped]
    BY <1>2, <1>3
  <2>3. todo' \in [Trackers -> SUBSET Trackers]
    BY <1>1 DEF Serve, Others, TypeOK
  <2>4. QED
    BY <1>1, <1>2, <2>1, <2>2, <2>3 DEF TypeOK
<1>11. Linked'
  BY <1>1, <1>2, <1>4 DEF Linked
<1>12. Queued' /\ Waits'
  BY <1>2, QuietQueues
<1>13. QED
  BY <1>8, <1>9, <1>10, <1>11, <1>12 DEF IInv

LEMMA DropInv ==
  ASSUME IInv, NEW t \in Trackers, NEW c \in Clients, Drop(t, c) PROVE IInv'
<1>1. /\ TypeOK /\ Linked /\ Commands /\ Queued /\ Waits
      /\ link[c] = "open" /\ at[c] = t /\ ~request[c] /\ phase[c] = "exited"
  BY DEF IInv, Drop
<1>2. /\ link' = [link EXCEPT ![c] = "closed"]
      /\ UNCHANGED <<up, backlog, todo, unread, read, phase, typed, answered, at, request,
                     reply, ran, starts>>
  BY DEF Drop, tracker, client
<1>3. link'[c] = "closed" /\ \A d \in Clients : d # c => link'[d] = link[d]
  BY <1>1, <1>2 DEF TypeOK
<1>4. Queued'
  <2>1. \A u \in Trackers : \A i \in DOMAIN backlog[u] : backlog[u][i] # Mirror =>
          /\ at[backlog[u][i]] = u /\ link[backlog[u][i]] = "pending"
          /\ backlog[u][i] \in Clients /\ backlog[u][i] # c
    BY <1>1 DEF Queued, TypeOK
  <2>2. \A u \in Trackers : \A i, k \in DOMAIN backlog[u] :
          backlog[u][i] = backlog[u][k] /\ backlog[u][i] # Mirror => i = k
    BY <1>1 DEF Queued
  <2>3. QED
    BY <1>2, <1>3, <2>1, <2>2 DEF Queued
<1>5. Waits'
  BY <1>1, <1>2, <1>3 DEF Waits
<1>6. TypeOK'
  BY <1>1, <1>2 DEF TypeOK
<1>7. Linked'
  BY <1>1, <1>2, <1>3, TrackersAssumption DEF Linked
<1>8. Commands'
  BY <1>1, <1>2 DEF Commands, Ran
<1>9. RunOnce'
  BY <1>2, QuietRuns
<1>10. QED
  BY <1>4, <1>5, <1>6, <1>7, <1>8, <1>9 DEF IInv

(* Whatever a stopped tracker held is gone at both ends. *)
LEMMA StopInv == ASSUME IInv, NEW t \in Trackers, Stop(t) PROVE IInv'
<1> DEFINE S == Clients \cup {Mirror}
<1>1. TypeOK /\ Linked /\ Commands /\ Queued /\ Waits
  BY DEF IInv
<1>2. /\ up' = up \ {t}
      /\ backlog' = [backlog EXCEPT ![t] = <<>>]
      /\ todo' = [todo EXCEPT ![t] = {}]
      /\ unread' = [unread EXCEPT ![t] = 0] /\ read' = [read EXCEPT ![t] = 0]
      /\ link' = [c \in Clients |-> IF at[c] = t THEN "closed" ELSE link[c]]
      /\ request' = [c \in Clients |-> request[c] /\ at[c] # t]
      /\ UNCHANGED <<phase, typed, answered, at, ran, starts>>
  BY DEF Stop, client
<1>3. PICK lost \in BOOLEAN :
        reply' = [c \in Clients |-> IF at[c] = t /\ lost THEN 0 ELSE reply[c]]
  BY DEF Stop
<1>4. backlog \in [Trackers -> Seq(S)] /\ reply \in [Clients -> 0..MaxTyped]
  BY <1>1 DEF TypeOK
<1>5. backlog'[t] = <<>> /\ \A u \in Trackers : u # t => backlog'[u] = backlog[u]
  BY <1>2, <1>4
<1>6. \A c \in Clients : link'[c] = IF at[c] = t THEN "closed" ELSE link[c]
  BY <1>2
<1>7. \A c \in Clients : request'[c] => request[c] /\ at[c] # t
  BY <1>2, Zenon
<1>8. \A c \in Clients : reply'[c] = 0 \/ reply'[c] = reply[c]
  BY <1>3
<1>9. Queued'
  <2>1. \A u \in Trackers : \A i \in DOMAIN backlog[u] : backlog[u][i] # Mirror =>
          /\ at[backlog[u][i]] = u /\ link[backlog[u][i]] = "pending"
          /\ backlog[u][i] \in Clients
    BY <1>1, <1>4 DEF Queued
  <2>2. \A u \in Trackers : \A i, k \in DOMAIN backlog[u] :
          backlog[u][i] = backlog[u][k] /\ backlog[u][i] # Mirror => i = k
    BY <1>1 DEF Queued
  <2>3. DOMAIN backlog'[t] = {}
    BY <1>5
  <2>4. at' = at
    BY <1>2
  <2>5. QED
    BY <1>5, <1>6, <2>1, <2>2, <2>3, <2>4 DEF Queued
<1>10. Waits'
  <2> SUFFICES ASSUME NEW c \in Clients, link'[c] = "pending"
               PROVE  \E i \in DOMAIN backlog'[at[c]] : backlog'[at[c]][i] = c
    BY <1>2 DEF Waits
  <2>1. at[c] # t /\ link[c] = "pending"
    BY <1>6
  <2>2. at[c] \in Trackers
    BY <1>1, <2>1 DEF Linked, TypeOK
  <2>3. QED
    BY <1>1, <1>5, <2>1, <2>2 DEF Waits
<1>11. TypeOK'
  <2>1. backlog' \in [Trackers -> Seq(S)]
    <3>1. <<>> \in Seq(S)
      OBVIOUS
    <3>2. QED
      BY <1>2, <1>4, <3>1
  <2>2. /\ todo' \in [Trackers -> SUBSET Trackers] /\ up' \subseteq Trackers
        /\ unread' \in [Trackers -> Nat] /\ read' \in [Trackers -> Nat]
    BY <1>1, <1>2 DEF TypeOK
  <2>3. link' \in [Clients -> {"none", "pending", "open", "closed"}]
    BY <1>1, <1>2 DEF TypeOK
  <2>4. request' \in [Clients -> BOOLEAN]
    <3>1. \A c \in Clients : (request[c] /\ at[c] # t) \in BOOLEAN
      OBVIOUS
    <3>2. QED
      BY <1>2, <3>1, Zenon
  <2>5. reply' \in [Clients -> 0..MaxTyped]
    BY <1>3, <1>4, BoundsAssumption
  <2>6. QED
    BY <1>1, <1>2, <2>1, <2>2, <2>3, <2>4, <2>5, Zenon DEF TypeOK
<1>12. Linked'
  <2> SUFFICES ASSUME NEW c \in Clients
               PROVE  /\ link'[c] = "none" <=> at[c] = None
                      /\ link'[c] \in {"pending", "open"} => at[c] \in up'
                      /\ phase[c] = "connecting" => link'[c] = "none"
                      /\ phase[c] \in {"idle", "waiting"} => link'[c] # "none"
                      /\ request'[c] => link'[c] \in {"pending", "open"}
    BY <1>2 DEF Linked
  <2>1. /\ link[c] = "none" <=> at[c] = None
        /\ link[c] \in {"pending", "open"} => at[c] \in up
        /\ phase[c] = "connecting" => link[c] = "none"
        /\ phase[c] \in {"idle", "waiting"} => link[c] # "none"
        /\ request[c] => link[c] \in {"pending", "open"}
    BY <1>1 DEF Linked
  <2>2. CASE at[c] = t
    <3>1. t # None /\ link'[c] = "closed" /\ ~request'[c]
      BY <1>6, <1>7, <2>2, TrackersAssumption
    <3>2. QED
      BY <2>1, <2>2, <3>1
  <2>3. CASE at[c] # t
    <3>1. link'[c] = link[c] /\ (request'[c] => request[c])
      BY <1>6, <1>7, <2>3
    <3>2. at[c] \in up => at[c] \in up'
      BY <1>2, <2>3
    <3>3. QED
      BY <2>1, <3>1, <3>2
  <2>4. QED
    BY <2>2, <2>3
<1>13. Commands'
  <2>1. \A c \in Clients : request'[c] => request[c]
    BY <1>7
  <2>2. UNCHANGED <<phase, typed, answered, ran>>
    BY <1>2
  <2>3. QED
    BY <1>1, <1>8, <2>1, <2>2 DEF Commands, Ran
<1>14. RunOnce'
  BY <1>2, QuietRuns
<1>15. QED
  BY <1>9, <1>10, <1>11, <1>12, <1>13, <1>14 DEF IInv

-----------------------------------------------------------------------------
(* Every step. *)

LEMMA StepInv == ASSUME IInv, [Next]_vars PROVE IInv'
<1>1. CASE UNCHANGED vars
  <2>1. UNCHANGED <<client, connection, ran, starts, up, backlog, todo, unread, read>>
    BY <1>1 DEF vars, tracker
  <2>2. Queued' /\ Waits'
    BY <2>1, QuietQueues DEF connection
  <2>3. /\ backlog' \in [Trackers -> Seq(Clients \cup {Mirror})]
        /\ todo' \in [Trackers -> SUBSET Trackers]
        /\ unread' \in [Trackers -> Nat] /\ read' \in [Trackers -> Nat]
    BY <2>1 DEF IInv, TypeOK
  <2>4. QED
    BY <2>1, <2>2, <2>3, Unseen
<1>2. ASSUME NEW c \in Clients, ClientStep(c) \/ Type(c) \/ Quit(c) PROVE IInv'
  BY <1>2, ConnectInv, GiveUpInv, ReadReplyInv, NoticeInv, TypeInv, QuitInv DEF ClientStep
<1>3. ASSUME NEW t \in Trackers, ServiceStep(t) PROVE IInv'
  BY <1>3, AcceptClientInv, ServeInv, DropInv, MirroringInv DEF ServiceStep
<1>4. ASSUME NEW t \in Trackers, Start(t) \/ Stop(t) PROVE IInv'
  BY <1>4, StartInv, StopInv
<1>5. QED
  BY <1>1, <1>2, <1>3, <1>4 DEF Next

(* The inductive invariant holds of every behaviour: whatever the users type, and
   whenever trackers start, stop, mirror or turn clients away. *)
THEOREM SessionInvariant == Spec => []IInv
<1>1. Init => IInv
  BY InitInv
<1>2. IInv /\ [Next]_vars => IInv'
  BY StepInv
<1>3. QED
  BY <1>1, <1>2, PTL DEF Spec

(* The variables keep their types. *)
THEOREM TypeCorrect == Spec => []TypeOK
<1>1. IInv => TypeOK
  BY DEF IInv
<1>2. QED
  BY <1>1, SessionInvariant, PTL

(* A connection that waits is in the backlog of the tracker its client believes to
   be connected to, once; no connection to a tracker that stopped is open. *)
THEOREM LinksCorrect == Spec => []LinksMatch
<1>1. IInv => LinksMatch
  BY InvariantMeans
<1>2. QED
  BY <1>1, SessionInvariant, PTL

(* No command is run twice, over lost connections, replies and trackers. *)
THEOREM RunOnceCorrect == Spec => []RunOnce
<1>1. IInv => RunOnce
  BY DEF IInv
<1>2. QED
  BY <1>1, SessionInvariant, PTL

(* A reply is read for the command it answers, which was run. *)
THEOREM RepliesCorrect == Spec => []ReplyMatches
<1>1. IInv => ReplyMatches
  BY InvariantMeans
<1>2. QED
  BY <1>1, SessionInvariant, PTL
=============================================================================
