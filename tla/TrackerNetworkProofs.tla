------------------------ MODULE TrackerNetworkProofs ------------------------
(***************************************************************************)
(* Theorems about any number of trackers the code admits, whatever the     *)
(* environment does (Hazards): the types of the state, the soundness of    *)
(* the databases of every tracker, and that no tracker process runs a      *)
(* transaction twice.                                                      *)
(***************************************************************************)
EXTENDS TrackerNetwork, TrackerDBProofs, SequenceTheorems

-----------------------------------------------------------------------------
(* What removing one element leaves of a sequence. *)
LEMMA WithoutProperties ==
  ASSUME NEW S, NEW s \in Seq(S), NEW i \in DOMAIN s
  PROVE  /\ Without(s, i) \in Seq(S)
         /\ Len(Without(s, i)) = Len(s) - 1
         /\ \A k \in 1..(Len(s) - 1) :
              Without(s, i)[k] = s[IF k < i THEN k ELSE k + 1]
<1>. DEFINE front == SubSeq(s, 1, i - 1)
            back == SubSeq(s, i + 1, Len(s))
<1>1. Len(s) \in Nat /\ i \in 1..Len(s) /\ \A k \in 1..Len(s) : s[k] \in S
  BY LenProperties, ElementOfSeq
<1>2. /\ front \in Seq(S)
      /\ Len(front) = i - 1
      /\ \A k \in 1..(i - 1) : front[k] = s[k]
  BY <1>1, SubSeqProperties, \A k \in 1..(i - 1) : s[k] \in S
<1>3. /\ back \in Seq(S)
      /\ Len(back) = Len(s) - i
      /\ \A k \in 1..(Len(s) - i) : back[k] = s[i + k]
  <2>1. \A k \in (i + 1)..Len(s) : s[k] \in S
    BY <1>1
  <2>2. /\ back \in Seq(S)
        /\ Len(back) = IF i + 1 <= Len(s) THEN Len(s) - (i + 1) + 1 ELSE 0
        /\ \A k \in 1..(Len(s) - (i + 1) + 1) : back[k] = s[(i + 1) + k - 1]
    BY <1>1, <2>1, SubSeqProperties
  <2>3. QED
    BY <1>1, <2>2
<1>. HIDE DEF front, back
<1>4. /\ front \o back \in Seq(S)
      /\ Len(front \o back) = Len(s) - 1
      /\ \A k \in 1..(Len(s) - 1) :
           (front \o back)[k] = IF k <= i - 1 THEN front[k] ELSE back[k - (i - 1)]
  <2>1. /\ front \o back \in Seq(S)
        /\ Len(front \o back) = Len(front) + Len(back)
        /\ \A k \in 1..(Len(front) + Len(back)) :
             (front \o back)[k] = IF k <= Len(front) THEN front[k]
                                  ELSE back[k - Len(front)]
    BY <1>2, <1>3, ConcatProperties
  <2>2. Len(front) + Len(back) = Len(s) - 1
    BY <1>1, <1>2, <1>3
  <2>3. QED
    BY <1>2, <2>1, <2>2
<1>5. ASSUME NEW k \in 1..(Len(s) - 1)
      PROVE  (front \o back)[k] = s[IF k < i THEN k ELSE k + 1]
  <2>1. CASE k < i
    BY <1>1, <1>2, <1>4, <2>1
  <2>2. CASE ~(k < i)
    <3>1. k - (i - 1) \in 1..(Len(s) - i) /\ i + (k - (i - 1)) = k + 1
      BY <1>1, <2>2
    <3>2. back[k - (i - 1)] = s[k + 1]
      BY <1>3, <3>1
    <3>3. QED
      BY <1>1, <1>4, <2>2, <3>2
  <2>3. QED
    BY <2>1, <2>2
<1>6. QED
  BY <1>4, <1>5 DEF Without, front, back

(* The first of a set of trackers is one of them. *)
LEMMA FirstIsOne ==
  ASSUME NEW S \in SUBSET Trackers, S # {}
  PROVE  First(S) \in S
<1>1. \A u \in S : u = 1 \/ u = 2
  BY TrackersAssumption
<1>2. \E t \in S : \A u \in S : t <= u
  <2>1. CASE 1 \in S
    <3>1. \A u \in S : 1 <= u
      BY <1>1
    <3>2. QED
      BY <2>1, <3>1
  <2>2. CASE 1 \notin S
    <3>1. 2 \in S /\ \A u \in S : 2 <= u
      BY <1>1, <2>2
    <3>2. QED
      BY <3>1
  <2>3. QED
    BY <2>1, <2>2
<1>3. QED
  BY <1>2 DEF First

(* The two ways in which the mail of one tracker changes. *)
LEMMA MailType ==
  ASSUME inbox \in [Trackers -> Seq(Mail)], NEW t \in Trackers,
         NEW i \in DOMAIN inbox[t]
  PROVE  /\ inbox[t][i] \in Mail
         /\ \A stage \in {"queued", "accepted", "read"} :
              Staged(t, i, stage) \in [Trackers -> Seq(Mail)]
         /\ [inbox EXCEPT ![t] = Without(@, i)] \in [Trackers -> Seq(Mail)]
<1>1. inbox[t] \in Seq(Mail) /\ i \in 1..Len(inbox[t])
  BY LenProperties
<1>2. inbox[t][i] \in Mail
  BY <1>1, ElementOfSeq
<1>3. ASSUME NEW stage \in {"queued", "accepted", "read"}
      PROVE  Staged(t, i, stage) \in [Trackers -> Seq(Mail)]
  <2>. DEFINE new == [tx |-> inbox[t][i].tx, stage |-> stage]
  <2>1. new \in Mail
    BY <1>2 DEF Mail
  <2>2. [inbox[t] EXCEPT ![i] = new] \in Seq(Mail)
    BY <1>1, <2>1, ExceptSeq
  <2>3. QED
    BY <2>2 DEF Staged
<1>4. Without(inbox[t], i) \in Seq(Mail)
  BY <1>1, WithoutProperties
<1>5. QED
  BY <1>2, <1>3, <1>4

(* What a service thread holds. *)
LEMMA ServiceParts ==
  ASSUME NEW x \in Service
  PROVE  /\ x.kind = "mirror" => x.tx \in Tx
         /\ x.kind = "sync" => /\ x.to \in Trackers
                               /\ x.next \in Nat \ {0}
                               /\ [x EXCEPT !.next = @ + 1] \in Service
                               /\ [x EXCEPT !.next = @ + 1].to = x.to
                               /\ [x EXCEPT !.next = @ + 1].next = x.next + 1
                               /\ [x EXCEPT !.next = @ + 1].kind = "sync"
BY DEF Service, Idle

(* Running a request at one tracker keeps the databases of all sound. *)
LEMMA RunSound ==
  ASSUME db \in [Trackers -> DB], EveryTrackerSound,
         NEW t \in Trackers, NEW c \in Clients, NEW req \in Request,
         NEW out \in Outcomes(db[t], c, req)
  PROVE  /\ [db EXCEPT ![t] = out.db] \in [Trackers -> DB]
         /\ \A u \in Trackers : DBInv([db EXCEPT ![t] = out.db][u])
<1>1. db[t] \in DB /\ DBInv(db[t])
  BY DEF EveryTrackerSound
<1>2. out.db \in DB /\ DBInv(out.db)
  BY <1>1, OutcomeType, OutcomeInv
<1>3. QED
  BY <1>2 DEF EveryTrackerSound

(* A transaction holds a request of a client. *)
LEMMA TxParts ==
  ASSUME NEW tx \in Tx
  PROVE  tx.id \in 1..MaxTx /\ tx.origin \in Clients /\ tx.req \in Request
BY DEF Tx

(* The types and the soundness are proved together. *)
TypeSound == TypeOK /\ EveryTrackerSound

(* Every action of a tracker or a client keeps the types and the soundness. *)
LEMMA TypeSoundStep == TypeSound /\ [Next]_vars => TypeSound'
<1>. SUFFICES ASSUME TypeSound, [Next]_vars PROVE TypeSound'
  OBVIOUS
<1>. USE DEF TypeSound, TypeOK
<1>1. ASSUME NEW c \in Clients, Connect(c) PROVE TypeSound'
  <2>. DEFINE up == {t \in Trackers : status[t] = "up"}
  <2>1. up \in SUBSET Trackers
    OBVIOUS
  <2>2. up # {} /\ conn' = [conn EXCEPT ![c] = First(up)]
    BY <1>1 DEF Connect
  <2>3. First(up) \in up
    BY <2>1, <2>2, FirstIsOne
  <2>4. QED
    BY <1>1, <2>1, <2>2, <2>3 DEF Connect, EveryTrackerSound
<1>2. ASSUME NEW t \in Trackers, NEW c \in Clients, NEW req \in Requests,
             Serve(t, c, req)
      PROVE  TypeSound'
  <2>1. PICK out \in Outcomes(db[t], c, req), replied \in {TRUE, ~May("reply")} :
          LET tx == [id |-> sent + 1, origin |-> c, req |-> req]
              kept == out.success /\ replied
          IN
          /\ db' = [db EXCEPT ![t] = out.db]
          /\ sent' = IF out.success THEN sent + 1 ELSE sent
          /\ done' = IF out.success THEN [done EXCEPT ![t] = Append(@, tx.id)] ELSE done
          /\ record' = IF kept THEN [record EXCEPT ![t] = Append(@, tx)] ELSE record
          /\ svc' = IF kept THEN [svc EXCEPT ![t] = Mirroring(tx)] ELSE svc
          /\ conn' \in IF replied THEN {conn} ELSE {conn, [conn EXCEPT ![c] = None]}
    BY <1>2 DEF Serve
  <2>. DEFINE tx == [id |-> sent + 1, origin |-> c, req |-> req]
  <2>2. req \in Request /\ sent < MaxTx /\ MaxTx \in Nat
    BY <1>2, RequestsAssumption, BoundsAssumption DEF Serve
  <2>3. tx \in Tx /\ tx.id \in 1..MaxTx /\ sent + 1 \in 0..MaxTx
    BY <2>2 DEF Tx
  <2>4. Append(record[t], tx) \in Seq(Tx) /\ Append(done[t], tx.id) \in Seq(1..MaxTx)
    BY <2>3, AppendProperties
  <2>5. Mirroring(tx) \in Service
    BY <2>3 DEF Mirroring, Service
  <2>6. db' \in [Trackers -> DB] /\ EveryTrackerSound'
    BY <2>1, <2>2, RunSound DEF EveryTrackerSound
  <2>7. UNCHANGED <<status, source, inbox, starts, base>>
    BY <1>2 DEF Serve
  <2>8. QED
    BY <2>1, <2>3, <2>4, <2>5, <2>6, <2>7
<1>3. ASSUME NEW t \in Trackers, Mirror(t) PROVE TypeSound'
  <2>. DEFINE m == [tx |-> svc[t].tx, stage |-> "queued"]
  <2>1. m \in Mail
    BY <1>3, ServiceParts DEF Mirror, Mail
  <2>2. \A u \in Trackers : Append(inbox[u], m) \in Seq(Mail)
    BY <2>1, AppendProperties
  <2>3. inbox' \in [Trackers -> Seq(Mail)]
    BY <1>3, <2>2 DEF Mirror
  <2>4. svc' \in [Trackers -> Service]
    BY <1>3 DEF Mirror, Service
  <2>5. QED
    BY <1>3, <2>3, <2>4 DEF Mirror, EveryTrackerSound
<1>4. ASSUME NEW t \in Trackers, AcceptMirror(t) PROVE TypeSound'
  <2>1. PICK i \in DOMAIN inbox[t] :
          \/ inbox' = Staged(t, i, "accepted")
          \/ inbox' = [inbox EXCEPT ![t] = Without(@, i)]
    BY <1>4 DEF AcceptMirror, InStage
  <2>2. /\ Staged(t, i, "accepted") \in [Trackers -> Seq(Mail)]
        /\ [inbox EXCEPT ![t] = Without(@, i)] \in [Trackers -> Seq(Mail)]
    BY MailType
  <2>3. QED
    BY <1>4, <2>1, <2>2 DEF AcceptMirror, EveryTrackerSound
<1>5. ASSUME NEW t \in Trackers, RunMirrored(t) PROVE TypeSound'
  <2>1. PICK i \in InStage(t, "accepted") :
          LET tx == inbox[t][i].tx IN
          /\ \E out \in Outcomes(db[t], tx.origin, tx.req) :
               /\ db' = [db EXCEPT ![t] = out.db]
               /\ record' = IF out.success THEN [record EXCEPT ![t] = Append(@, tx)]
                            ELSE record
          /\ done' = [done EXCEPT ![t] = Append(@, tx.id)]
          /\ inbox' = Staged(t, i, "read")
    BY <1>5 DEF RunMirrored
  <2>. DEFINE tx == inbox[t][i].tx
  <2>2. i \in DOMAIN inbox[t]
    BY DEF InStage
  <2>3. inbox[t][i] \in Mail /\ inbox' \in [Trackers -> Seq(Mail)]
    BY <2>1, <2>2, MailType
  <2>4. tx \in Tx
    BY <2>3 DEF Mail
  <2>5. tx.id \in 1..MaxTx /\ tx.origin \in Clients /\ tx.req \in Request
    BY <2>4, TxParts
  <2>6. Append(record[t], tx) \in Seq(Tx) /\ Append(done[t], tx.id) \in Seq(1..MaxTx)
    BY <2>4, <2>5, AppendProperties
  <2>7. db' \in [Trackers -> DB] /\ EveryTrackerSound'
    BY <2>1, <2>5, RunSound DEF EveryTrackerSound
  <2>8. record' \in [Trackers -> Seq(Tx)] /\ done' \in [Trackers -> Seq(1..MaxTx)]
    BY <2>1, <2>6
  <2>9. UNCHANGED <<status, source, svc, conn, sent, starts, base>>
    BY <1>5 DEF RunMirrored
  <2>10. QED
    BY <2>3, <2>7, <2>8, <2>9
<1>6. ASSUME NEW t \in Trackers, CloseMirror(t) PROVE TypeSound'
  <2>1. inbox' \in [Trackers -> Seq(Mail)]
    BY <1>6, MailType DEF CloseMirror, InStage
  <2>2. QED
    BY <1>6, <2>1 DEF CloseMirror, EveryTrackerSound
<1>7. ASSUME NEW t \in Trackers, NEW j \in Others(t), ServeSync(t, j) PROVE TypeSound'
  <2>1. Serving(j, 1) \in Service
    BY DEF Serving, Service, Others
  <2>2. QED
    BY <1>7, <2>1 DEF ServeSync, EveryTrackerSound
<1>8. ASSUME NEW t \in Trackers, NEW j \in Others(t), RefuseSync(t, j) PROVE TypeSound'
  BY <1>8 DEF RefuseSync, EveryTrackerSound
<1>9. ASSUME NEW t \in Trackers, SyncOne(t) PROVE TypeSound'
  <2>. DEFINE j == svc[t].to
              tx == record[t][svc[t].next]
  <2>1. /\ j \in Trackers /\ svc[t].next \in Nat \ {0}
        /\ [svc[t] EXCEPT !.next = @ + 1] \in Service
    BY <1>9, ServiceParts DEF SyncOne
  <2>2. svc[t].next \in 1..Len(record[t])
    BY <1>9, <2>1, LenProperties DEF SyncOne
  <2>3. tx \in Tx
    BY <2>2, ElementOfSeq
  <2>4. tx.id \in 1..MaxTx /\ tx.origin \in Clients /\ tx.req \in Request
    BY <2>3, TxParts
  <2>5. PICK out \in Outcomes(db[j], tx.origin, tx.req) : db' = [db EXCEPT ![j] = out.db]
    BY <1>9 DEF SyncOne
  <2>6. db' \in [Trackers -> DB] /\ EveryTrackerSound'
    BY <2>1, <2>4, <2>5, RunSound DEF EveryTrackerSound
  <2>7. done' \in [Trackers -> Seq(1..MaxTx)]
    BY <1>9, <2>1, <2>4, AppendProperties DEF SyncOne
  <2>8. svc' \in [Trackers -> Service]
    BY <1>9, <2>1 DEF SyncOne
  <2>9. UNCHANGED <<status, source, record, inbox, conn, sent, starts, base>>
    BY <1>9 DEF SyncOne
  <2>10. QED
    BY <2>6, <2>7, <2>8, <2>9
<1>10. ASSUME NEW t \in Trackers, SyncDone(t) PROVE TypeSound'
  <2>1. Idle \in Service
    BY DEF Service
  <2>2. QED
    BY <1>10, <2>1 DEF SyncDone, EveryTrackerSound
<1>11. ASSUME NEW t \in Trackers, Start(t) PROVE TypeSound'
  <2>. DEFINE up == {u \in Others(t) : status[u] = "up"}
  <2>1. up # {} => First(up) \in Trackers
    <3>1. up \in SUBSET Trackers
      BY DEF Others
    <3>2. QED
      BY <3>1, FirstIsOne
  <2>2. starts' \in 0..MaxStarts
    BY <1>11, BoundsAssumption DEF Start
  <2>3. QED
    BY <1>11, <2>1, <2>2 DEF Start, EveryTrackerSound
<1>12. ASSUME NEW t \in Trackers, Listen(t) PROVE TypeSound'
  BY <1>12 DEF Listen, EveryTrackerSound
<1>13. ASSUME NEW t \in Trackers, Stop(t) PROVE TypeSound'
  <2>1. EmptyDB \in DB /\ DBInv(EmptyDB) /\ Idle \in Service
    BY EmptySound DEF Service
  <2>2. <<>> \in Seq(Tx) /\ <<>> \in Seq(Mail) /\ <<>> \in Seq(1..MaxTx)
    BY EmptySeq
  <2>3. /\ status' \in [Trackers -> {"down", "syncing", "starting", "up"}]
        /\ source' \in [Trackers -> Trackers \cup {None}]
        /\ svc' \in [Trackers -> Service]
        /\ conn' \in [Clients -> Trackers \cup {None}]
    BY <1>13, <2>1 DEF Stop
  <2>4. QED
    BY <1>13, <2>1, <2>2, <2>3 DEF Stop, EveryTrackerSound
<1>14. CASE UNCHANGED vars
  BY <1>14 DEF vars, EveryTrackerSound
<1>15. QED
  BY <1>1, <1>2, <1>3, <1>4, <1>5, <1>6, <1>7, <1>8, <1>9, <1>10, <1>11, <1>12,
     <1>13, <1>14 DEF Next, ServiceStep

(* The network's state keeps its types and every tracker's databases DBInv. *)
THEOREM NetworkInvariant == Spec => []TypeSound
<1>1. Init => TypeSound
  <2>. SUFFICES ASSUME Init PROVE TypeSound
    OBVIOUS
  <2>1. EmptyDB \in DB /\ DBInv(EmptyDB) /\ Idle \in Service
    BY EmptySound DEF Service
  <2>2. <<>> \in Seq(Tx) /\ <<>> \in Seq(Mail) /\ <<>> \in Seq(1..MaxTx)
    BY EmptySeq
  <2>3. 0 \in 0..MaxTx /\ 0 \in 0..MaxStarts
    BY BoundsAssumption
  <2>4. QED
    BY <2>1, <2>2, <2>3 DEF Init, TypeSound, TypeOK, EveryTrackerSound
<1>2. QED
  BY <1>1, TypeSoundStep, PTL DEF Spec

(* The types of the network's state are right. *)
THEOREM NetworkTypeCorrect == Spec => []TypeOK
<1>1. TypeSound => TypeOK
  BY DEF TypeSound
<1>2. QED
  BY <1>1, NetworkInvariant, PTL

(* Every tracker's databases are sound, whatever mixture of requests, mirrored
   requests and replayed records made them. *)
THEOREM NetworkSoundCorrect == Spec => []EveryTrackerSound
<1>1. TypeSound => EveryTrackerSound
  BY DEF TypeSound
<1>2. QED
  BY <1>1, NetworkInvariant, PTL

-----------------------------------------------------------------------------
(* The inductive invariant of RunAtMostOnce.  A transaction on its way to a
   tracker, in the hands of the thread that will mirror it or unread in a
   connection, has not been run there and is on its way there only once; a record
   holds what its tracker ran; a tracker that synchronises has run what its source
   has sent so far and nothing else, and gets no mail. *)

(* A connection carries the transaction. *)
Carries(box, id) == \E i \in DOMAIN box : box[i].tx.id = id

(* Transactions are numbered as they are completed. *)
Numbered ==
  \A t \in Trackers :
    /\ \A i \in DOMAIN done[t] : done[t][i] <= sent
    /\ \A i \in DOMAIN inbox[t] : inbox[t][i].tx.id <= sent
    /\ svc[t].kind = "mirror" => svc[t].tx.id <= sent

(* A transaction that is to be read is news, and comes once. *)
MailIsNew ==
  \A t \in Trackers :
    /\ \A i \in DOMAIN inbox[t] :
         inbox[t][i].stage # "read" => ~In(done[t], inbox[t][i].tx.id)
    /\ \A i, k \in DOMAIN inbox[t] :
         inbox[t][i].tx.id = inbox[t][k].tx.id => i = k

(* So is one that is to be mirrored. *)
MirroredIsNew ==
  \A t \in Trackers : svc[t].kind = "mirror" =>
    \A u \in Others(t) :
      /\ ~In(done[u], svc[t].tx.id)
      /\ ~Carries(inbox[u], svc[t].tx.id)
      /\ svc[u].kind = "mirror" => svc[u].tx.id # svc[t].tx.id

(* What is recorded was run. *)
RecordsRun ==
  \A t \in Trackers :
    /\ \A i \in DOMAIN record[t] : In(done[t], record[t][i].id)
    /\ \A i, k \in DOMAIN record[t] : record[t][i].id = record[t][k].id => i = k

(* What a tracker that does not listen cannot have. *)
Phases ==
  \A t \in Trackers :
    /\ status[t] # "up" => inbox[t] = <<>> /\ svc[t] = Idle /\ record[t] = <<>>
    /\ status[t] = "down" => done[t] = <<>>
    /\ IF status[t] = "syncing" THEN source[t] \in Others(t) ELSE source[t] = None

(* The thread of s is sending its record to j. *)
ServedBy(s, j) == svc[s].kind = "sync" /\ svc[s].to = j

(* The tracker that starts has run what was sent of the record. *)
Syncing ==
  /\ \A s, j \in Trackers : ServedBy(s, j) =>
       /\ source[j] = s
       /\ Len(done[j]) = svc[s].next - 1
       /\ Len(done[j]) <= Len(record[s])
       /\ \A i \in DOMAIN done[j] : done[j][i] = record[s][i].id
  /\ \A s, j \in Trackers : source[j] = s /\ ~ServedBy(s, j) => done[j] = <<>>

(* The inductive invariant. *)
OnceInv == /\ RunAtMostOnce /\ Numbered /\ MailIsNew /\ MirroredIsNew
           /\ RecordsRun /\ Phases /\ Syncing

-----------------------------------------------------------------------------
(* Running one more transaction at t. *)
LEMMA RunOne ==
  ASSUME TypeOK, RunAtMostOnce, NEW t \in Trackers, NEW id \in 1..MaxTx,
         ~In(done[t], id), done' = [done EXCEPT ![t] = Append(@, id)]
  PROVE  /\ RunAtMostOnce'
         /\ \A u \in Trackers : \A x : In(done'[u], x) <=> In(done[u], x) \/ (u = t /\ x = id)
         /\ DOMAIN done[t] = 1..Len(done[t]) /\ Len(done[t]) \in Nat
         /\ DOMAIN done'[t] = 1..(Len(done[t]) + 1)
         /\ Len(done'[t]) = Len(done[t]) + 1
         /\ \A k \in DOMAIN done[t] : done'[t][k] = done[t][k]
         /\ done'[t][Len(done[t]) + 1] = id
         /\ \A u \in Trackers \ {t} : done'[u] = done[u]
<1>1. done[t] \in Seq(1..MaxTx) /\ done'[t] = Append(done[t], id)
  BY DEF TypeOK
<1>2. /\ DOMAIN done[t] = 1..Len(done[t]) /\ Len(done[t]) \in Nat
      /\ done'[t] \in Seq(1..MaxTx)
      /\ Len(done'[t]) = Len(done[t]) + 1
      /\ \A k \in 1..Len(done[t]) : done'[t][k] = done[t][k]
      /\ done'[t][Len(done[t]) + 1] = id
  <2>. DEFINE new == Append(done[t], id)
  <2>1. DOMAIN done[t] = 1..Len(done[t]) /\ Len(done[t]) \in Nat
    BY <1>1, LenProperties
  <2>2. /\ new \in Seq(1..MaxTx) /\ Len(new) = Len(done[t]) + 1
        /\ \A k \in 1..Len(done[t]) : new[k] = done[t][k]
        /\ new[Len(done[t]) + 1] = id
    BY <1>1, AppendProperties
  <2>3. QED
    BY <1>1, <2>1, <2>2
<1>3. DOMAIN done'[t] = 1..(Len(done[t]) + 1)
  BY <1>2, LenProperties
<1>4. \A u \in Trackers \ {t} : done'[u] = done[u]
  BY DEF TypeOK
<1>5. \A k \in DOMAIN done[t] : done[t][k] # id
  BY DEF In
<1>6. ASSUME NEW u \in Trackers, NEW i \in DOMAIN done'[u], NEW k \in DOMAIN done'[u],
             done'[u][i] = done'[u][k]
      PROVE  i = k
  <2>1. CASE u # t
    BY <1>4, <1>6, <2>1 DEF RunAtMostOnce
  <2>2. CASE u = t /\ i \in 1..Len(done[t]) /\ k \in 1..Len(done[t])
    BY <1>2, <1>6, <2>2 DEF RunAtMostOnce
  <2>3. CASE u = t /\ (i = Len(done[t]) + 1 \/ k = Len(done[t]) + 1)
    BY <1>2, <1>3, <1>5, <1>6, <2>3
  <2>4. QED
    BY <1>2, <1>3, <2>1, <2>2, <2>3
<1>7. ASSUME NEW u \in Trackers, NEW x
      PROVE  In(done'[u], x) <=> In(done[u], x) \/ (u = t /\ x = id)
  <2>1. CASE u # t
    BY <1>4, <2>1 DEF In
  <2>2. CASE u = t
    <3>1. In(done'[t], x) => In(done[t], x) \/ x = id
      BY <1>2, <1>3 DEF In
    <3>2. In(done[t], x) => In(done'[t], x)
      BY <1>2, <1>3 DEF In
    <3>3. In(done'[t], id)
      BY <1>2, <1>3 DEF In
    <3>4. QED
      BY <2>2, <3>1, <3>2, <3>3
  <2>3. QED
    BY <2>1, <2>2
<1>8. QED
  BY <1>2, <1>3, <1>4, <1>6, <1>7 DEF RunAtMostOnce

(* Recording what has just been run for the first time. *)
LEMMA RecordOne ==
  ASSUME TypeOK, RecordsRun, NEW t \in Trackers, NEW tx \in Tx,
         ~In(done[t], tx.id), In(done'[t], tx.id),
         \A u \in Trackers : \A x : In(done[u], x) => In(done'[u], x),
         record' = [record EXCEPT ![t] = Append(@, tx)]
  PROVE  RecordsRun'
<1>1. /\ DOMAIN record[t] = 1..Len(record[t]) /\ Len(record[t]) \in Nat
      /\ record'[t] \in Seq(Tx)
      /\ Len(record'[t]) = Len(record[t]) + 1
      /\ \A k \in 1..Len(record[t]) : record'[t][k] = record[t][k]
      /\ record'[t][Len(record[t]) + 1] = tx
  BY AppendProperties, LenProperties DEF TypeOK
<1>2. DOMAIN record'[t] = 1..(Len(record[t]) + 1)
  BY <1>1, LenProperties
<1>3. \A u \in Trackers \ {t} : record'[u] = record[u]
  BY DEF TypeOK
<1>4. \A k \in DOMAIN record[t] : record[t][k].id # tx.id
  BY DEF RecordsRun
<1>5. ASSUME NEW u \in Trackers
      PROVE  /\ \A i \in DOMAIN record'[u] : In(done'[u], record'[u][i].id)
             /\ \A i, k \in DOMAIN record'[u] :
                  record'[u][i].id = record'[u][k].id => i = k
  <2>1. CASE u # t
    <3>1. record'[u] = record[u]
      BY <1>3, <2>1
    <3>2. \A i \in DOMAIN record[u] : In(done[u], record[u][i].id)
      BY DEF RecordsRun
    <3>3. \A i, k \in DOMAIN record[u] : record[u][i].id = record[u][k].id => i = k
      BY DEF RecordsRun
    <3>4. QED
      BY <3>1, <3>2, <3>3
  <2>2. CASE u = t
    <3>1. ASSUME NEW i \in DOMAIN record'[t] PROVE In(done'[t], record'[t][i].id)
      <4>1. CASE i \in 1..Len(record[t])
        BY <1>1, <4>1 DEF RecordsRun
      <4>2. CASE i = Len(record[t]) + 1
        BY <1>1, <4>2
      <4>3. QED
        BY <1>1, <1>2, <4>1, <4>2
    <3>2. ASSUME NEW i \in DOMAIN record'[t], NEW k \in DOMAIN record'[t],
                 record'[t][i].id = record'[t][k].id
          PROVE  i = k
      <4>1. CASE i \in 1..Len(record[t]) /\ k \in 1..Len(record[t])
        BY <1>1, <3>2, <4>1 DEF RecordsRun
      <4>2. CASE i = Len(record[t]) + 1 \/ k = Len(record[t]) + 1
        BY <1>1, <1>2, <1>4, <3>2, <4>2
      <4>3. QED
        BY <1>1, <1>2, <4>1, <4>2
    <3>3. QED
      BY <2>2, <3>1, <3>2
  <2>3. QED
    BY <2>1, <2>2
<1>6. QED
  BY <1>5 DEF RecordsRun

-----------------------------------------------------------------------------
(* OnceInv and its parts are conjunctions; these are its parts but for the ones
   about who is in which phase. *)
LogInv == RunAtMostOnce /\ Numbered /\ MailIsNew /\ MirroredIsNew /\ RecordsRun

(* A step that touches neither logs nor mail and starts no mirroring. *)
LEMMA ControlStep ==
  ASSUME OnceInv, UNCHANGED <<done, inbox, record, sent>>,
         \A t \in Trackers : svc'[t].kind = "mirror" => svc'[t] = svc[t]
  PROVE  LogInv'
<1>1. RunAtMostOnce' /\ RecordsRun' /\ MailIsNew'
  BY DEF OnceInv, RunAtMostOnce, RecordsRun, MailIsNew
<1>2. Numbered'
  BY DEF OnceInv, Numbered
<1>3. MirroredIsNew'
  <2>. SUFFICES ASSUME NEW t \in Trackers, svc'[t].kind = "mirror", NEW u \in Others(t)
                PROVE  /\ ~In(done[u], svc'[t].tx.id)
                       /\ ~Carries(inbox[u], svc'[t].tx.id)
                       /\ svc'[u].kind = "mirror" => svc'[u].tx.id # svc'[t].tx.id
    BY DEF MirroredIsNew
  <2>1. svc'[t] = svc[t] /\ u \in Trackers
    BY DEF Others
  <2>2. svc'[u].kind = "mirror" => svc'[u] = svc[u]
    BY <2>1
  <2>3. QED
    BY <2>1, <2>2 DEF OnceInv, MirroredIsNew
<1>4. QED
  BY <1>1, <1>2, <1>3 DEF LogInv

(* A tracker that is up synchronises with nobody, nor anybody with it. *)
LEMMA UpIsFree ==
  ASSUME OnceInv, NEW t \in Trackers, status[t] = "up"
  PROVE  \A s \in Trackers : source[t] # s /\ ~ServedBy(s, t)
BY TrackersAssumption DEF OnceInv, Phases, Syncing

(* The mail of t shrinks, and nothing else changes. *)
LEMMA MailShrinks ==
  ASSUME OnceInv, NEW t \in Trackers, status[t] = "up",
         UNCHANGED <<status, source, svc, record, done, sent>>,
         \A u \in Trackers \ {t} : inbox'[u] = inbox[u],
         NEW pos \in [DOMAIN inbox'[t] -> DOMAIN inbox[t]],
         \A i, k \in DOMAIN inbox'[t] : pos[i] = pos[k] => i = k,
         \A k \in DOMAIN inbox'[t] :
           /\ inbox'[t][k].tx = inbox[t][pos[k]].tx
           /\ inbox'[t][k].stage # "read" => inbox[t][pos[k]].stage # "read"
  PROVE  OnceInv'
<1>1. RunAtMostOnce' /\ RecordsRun'
  BY DEF OnceInv, RunAtMostOnce, RecordsRun
<1>2. Numbered'
  <2>. SUFFICES ASSUME NEW u \in Trackers, NEW i \in DOMAIN inbox'[u]
                PROVE  inbox'[u][i].tx.id <= sent
    BY DEF OnceInv, Numbered
  <2>1. QED
    BY DEF OnceInv, Numbered
<1>3. MailIsNew'
  <2>1. ASSUME NEW u \in Trackers, NEW i \in DOMAIN inbox'[u],
               inbox'[u][i].stage # "read"
        PROVE  ~In(done[u], inbox'[u][i].tx.id)
    BY <2>1 DEF OnceInv, MailIsNew
  <2>2. ASSUME NEW u \in Trackers, NEW i \in DOMAIN inbox'[u], NEW k \in DOMAIN inbox'[u],
               inbox'[u][i].tx.id = inbox'[u][k].tx.id
        PROVE  i = k
    BY <2>2 DEF OnceInv, MailIsNew
  <2>3. QED
    BY <2>1, <2>2 DEF MailIsNew
<1>4. MirroredIsNew'
  <2>1. ASSUME NEW u \in Trackers, NEW id, Carries(inbox'[u], id)
        PROVE  Carries(inbox[u], id)
    BY <2>1 DEF Carries
  <2>2. QED
    BY <2>1 DEF OnceInv, MirroredIsNew, Others
<1>5. Phases' /\ Syncing'
  BY DEF OnceInv, Phases, Syncing, ServedBy
<1>6. QED
  BY <1>1, <1>2, <1>3, <1>4, <1>5 DEF OnceInv

(* Changing the stage of one connection keeps the others and all messages. *)
LEMMA StagedElements ==
  ASSUME TypeOK, NEW t \in Trackers, NEW i \in DOMAIN inbox[t], NEW stage,
         inbox' = Staged(t, i, stage)
  PROVE  /\ \A u \in Trackers \ {t} : inbox'[u] = inbox[u]
         /\ DOMAIN inbox'[t] = DOMAIN inbox[t]
         /\ \A k \in DOMAIN inbox[t] : /\ inbox'[t][k].tx = inbox[t][k].tx
                                       /\ k # i => inbox'[t][k] = inbox[t][k]
         /\ inbox'[t][i].stage = stage
<1>. DEFINE new == [tx |-> inbox[t][i].tx, stage |-> stage]
<1>1. inbox'[t] = [inbox[t] EXCEPT ![i] = new]
  BY DEF Staged, TypeOK
<1>2. \A u \in Trackers \ {t} : inbox'[u] = inbox[u]
  BY DEF Staged, TypeOK
<1>3. QED
  BY <1>1, <1>2

(* Closing a connection of t, whatever has become of its message. *)
LEMMA WithoutShrinks ==
  ASSUME TypeOK, OnceInv, NEW t \in Trackers, status[t] = "up",
         UNCHANGED <<status, source, svc, record, done, sent>>,
         NEW i \in DOMAIN inbox[t], inbox' = [inbox EXCEPT ![t] = Without(@, i)]
  PROVE  OnceInv'
<1>. DEFINE n == Len(inbox[t])
            pos == [k \in 1..(n - 1) |-> IF k < i THEN k ELSE k + 1]
<1>1. /\ inbox[t] \in Seq(Mail) /\ n \in Nat
      /\ DOMAIN inbox[t] = 1..n /\ i \in 1..n
  BY LenProperties DEF TypeOK
<1>2. inbox'[t] = Without(inbox[t], i) /\ \A u \in Trackers \ {t} : inbox'[u] = inbox[u]
  BY DEF TypeOK
<1>3. /\ inbox'[t] \in Seq(Mail)
      /\ Len(inbox'[t]) = n - 1
      /\ \A k \in 1..(n - 1) : inbox'[t][k] = inbox[t][IF k < i THEN k ELSE k + 1]
  <2>1. /\ Without(inbox[t], i) \in Seq(Mail)
        /\ Len(Without(inbox[t], i)) = n - 1
        /\ \A k \in 1..(n - 1) :
             Without(inbox[t], i)[k] = inbox[t][IF k < i THEN k ELSE k + 1]
    BY <1>1, WithoutProperties
  <2>2. QED
    BY <1>2, <2>1
<1>4. DOMAIN inbox'[t] = 1..(n - 1)
  BY <1>3, LenProperties
<1>5. pos \in [DOMAIN inbox'[t] -> DOMAIN inbox[t]]
  BY <1>1, <1>4
<1>6. \A m, k \in DOMAIN inbox'[t] : pos[m] = pos[k] => m = k
  BY <1>1, <1>4
<1>7. \A k \in DOMAIN inbox'[t] :
        /\ inbox'[t][k].tx = inbox[t][pos[k]].tx
        /\ inbox'[t][k].stage # "read" => inbox[t][pos[k]].stage # "read"
  BY <1>3, <1>4
<1>. HIDE DEF pos
<1>8. QED
  BY <1>2, <1>5, <1>6, <1>7, MailShrinks

(* Accepting a mirroring connection, or closing it for want of room. *)
LEMMA AcceptMirrorOnce ==
  ASSUME TypeOK, OnceInv, NEW t \in Trackers, AcceptMirror(t)
  PROVE  OnceInv'
<1>1. status[t] = "up" /\ UNCHANGED <<status, source, svc, record, done, sent>>
  BY DEF AcceptMirror, Ready
<1>2. PICK i \in InStage(t, "queued") :
        \/ inbox' = Staged(t, i, "accepted")
        \/ inbox' = [inbox EXCEPT ![t] = Without(@, i)]
  BY DEF AcceptMirror
<1>3. i \in DOMAIN inbox[t] /\ inbox[t][i].stage = "queued"
  BY DEF InStage
<1>4. CASE inbox' = Staged(t, i, "accepted")
  <2>. DEFINE pos == [k \in DOMAIN inbox'[t] |-> k]
  <2>1. /\ \A u \in Trackers \ {t} : inbox'[u] = inbox[u]
        /\ DOMAIN inbox'[t] = DOMAIN inbox[t]
        /\ \A k \in DOMAIN inbox[t] : /\ inbox'[t][k].tx = inbox[t][k].tx
                                      /\ k # i => inbox'[t][k] = inbox[t][k]
    BY <1>3, <1>4, StagedElements
  <2>2. pos \in [DOMAIN inbox'[t] -> DOMAIN inbox[t]]
    BY <2>1
  <2>3. \A k \in DOMAIN inbox'[t] :
          /\ inbox'[t][k].tx = inbox[t][pos[k]].tx
          /\ inbox'[t][k].stage # "read" => inbox[t][pos[k]].stage # "read"
    BY <1>3, <2>1
  <2>4. \A m, k \in DOMAIN inbox'[t] : pos[m] = pos[k] => m = k
    OBVIOUS
  <2>. HIDE DEF pos
  <2>5. QED
    BY <1>1, <2>1, <2>2, <2>3, <2>4, MailShrinks
<1>5. CASE inbox' = [inbox EXCEPT ![t] = Without(@, i)]
  BY <1>1, <1>3, <1>5, WithoutShrinks
<1>6. QED
  BY <1>2, <1>4, <1>5

(* Noticing the end of a mirroring connection. *)
LEMMA CloseMirrorOnce ==
  ASSUME TypeOK, OnceInv, NEW t \in Trackers, CloseMirror(t)
  PROVE  OnceInv'
<1>1. status[t] = "up" /\ UNCHANGED <<status, source, svc, record, done, sent>>
  BY DEF CloseMirror, Ready
<1>2. PICK i \in DOMAIN inbox[t] : inbox' = [inbox EXCEPT ![t] = Without(@, i)]
  BY DEF CloseMirror, InStage
<1>3. QED
  BY <1>1, <1>2, WithoutShrinks

(* A running tracker that serves no sync before or after the step runs one more
   transaction: syncing trackers are not concerned. *)
LEMMA SyncingFrame ==
  ASSUME OnceInv, NEW t \in Trackers, status[t] = "up",
         svc[t].kind # "sync", svc'[t].kind # "sync",
         UNCHANGED source,
         \A u \in Trackers \ {t} : /\ svc'[u] = svc[u] /\ done'[u] = done[u]
                                   /\ record'[u] = record[u]
  PROVE  Syncing'
<1>1. \A s \in Trackers : source[t] # s /\ ~ServedBy(s, t)
  BY UpIsFree
<1>2. \A s, j \in Trackers : ServedBy(s, j)' <=> ServedBy(s, j)
  BY DEF ServedBy
<1>3. ASSUME NEW s \in Trackers, NEW j \in Trackers, ServedBy(s, j)'
      PROVE  /\ source[j] = s
             /\ Len(done'[j]) = svc'[s].next - 1
             /\ Len(done'[j]) <= Len(record'[s])
             /\ \A i \in DOMAIN done'[j] : done'[j][i] = record'[s][i].id
  <2>1. ServedBy(s, j) /\ s # t /\ j # t
    BY <1>1, <1>2, <1>3 DEF ServedBy
  <2>2. done'[j] = done[j] /\ svc'[s] = svc[s] /\ record'[s] = record[s]
    BY <2>1
  <2>3. QED
    BY <2>1, <2>2 DEF OnceInv, Syncing
<1>4. ASSUME NEW s \in Trackers, NEW j \in Trackers, source[j] = s, ~ServedBy(s, j)'
      PROVE  done'[j] = <<>>
  <2>1. j # t /\ ~ServedBy(s, j)
    BY <1>1, <1>2, <1>4
  <2>2. QED
    BY <1>4, <2>1 DEF OnceInv, Syncing
<1>5. QED
  BY <1>3, <1>4 DEF Syncing

(* A request of a client, executed or not, recorded or not. *)
LEMMA ServeOnce ==
  ASSUME TypeOK, OnceInv, NEW t \in Trackers, NEW c \in Clients,
         NEW req \in Requests, Serve(t, c, req)
  PROVE  OnceInv'
<1>. DEFINE tx == [id |-> sent + 1, origin |-> c, req |-> req]
<1>1. PICK out \in Outcomes(db[t], c, req), replied \in {TRUE, ~May("reply")} :
        LET kept == out.success /\ replied IN
        /\ sent' = IF out.success THEN sent + 1 ELSE sent
        /\ done' = IF out.success THEN [done EXCEPT ![t] = Append(@, tx.id)] ELSE done
        /\ record' = IF kept THEN [record EXCEPT ![t] = Append(@, tx)] ELSE record
        /\ svc' = IF kept THEN [svc EXCEPT ![t] = Mirroring(tx)] ELSE svc
  BY DEF Serve
<1>2. /\ status[t] = "up" /\ svc[t] = Idle /\ sent < MaxTx
      /\ UNCHANGED <<status, source, inbox>>
  BY DEF Serve, Ready
<1>3. CASE ~out.success
  <2>1. UNCHANGED <<done, inbox, record, sent, svc, status, source>>
    BY <1>1, <1>2, <1>3
  <2>2. LogInv'
    BY <2>1, ControlStep
  <2>3. Phases' /\ Syncing'
    BY <2>1 DEF OnceInv, Phases, Syncing, ServedBy
  <2>4. QED
    BY <2>2, <2>3 DEF OnceInv, LogInv
<1>4. CASE out.success
  <2>1. sent' = sent + 1 /\ done' = [done EXCEPT ![t] = Append(@, tx.id)]
    BY <1>1, <1>4
  <2>2. \/ UNCHANGED <<record, svc>>
        \/ /\ record' = [record EXCEPT ![t] = Append(@, tx)]
           /\ svc' = [svc EXCEPT ![t] = Mirroring(tx)]
    BY <1>1, <1>4
  <2>3. sent \in Nat /\ tx.id = sent + 1 /\ tx \in Tx /\ tx.id \in 1..MaxTx
    BY <1>2, RequestsAssumption, BoundsAssumption DEF TypeOK, Tx
  <2>4. \A u \in Trackers : /\ \A x : In(done[u], x) => x <= sent
                            /\ \A x : Carries(inbox[u], x) => x <= sent
                            /\ svc[u].kind = "mirror" => svc[u].tx.id <= sent
    BY DEF OnceInv, Numbered, In, Carries
  <2>5. \A u \in Trackers : ~In(done[u], tx.id) /\ ~Carries(inbox[u], tx.id)
    BY <2>3, <2>4
  <2>6. /\ RunAtMostOnce'
        /\ \A u \in Trackers : \A x : In(done'[u], x) <=> In(done[u], x) \/ (u = t /\ x = tx.id)
        /\ \A u \in Trackers \ {t} : done'[u] = done[u]
    BY <2>1, <2>3, <2>5, RunOne DEF OnceInv
  <2>7. \A u \in Trackers \ {t} : svc'[u] = svc[u] /\ record'[u] = record[u]
    BY <2>2 DEF TypeOK
  <2>8. /\ svc'[t].kind = "mirror" => svc'[t].tx = tx
        /\ svc'[t].kind # "sync" /\ svc[t].kind # "mirror" /\ svc[t].kind # "sync"
    BY <1>2, <2>2 DEF Mirroring, Idle, TypeOK
  <2>9. Numbered'
    <3>1. ASSUME NEW u \in Trackers, NEW i \in DOMAIN done'[u]
          PROVE  done'[u][i] <= sent'
      <4>1. In(done'[u], done'[u][i])
        BY DEF In
      <4>2. In(done[u], done'[u][i]) \/ done'[u][i] = sent + 1
        BY <2>3, <2>6, <4>1
      <4>3. CASE done'[u][i] = sent + 1
        BY <2>1, <2>3, <4>3
      <4>4. CASE In(done[u], done'[u][i])
        <5>1. PICK k \in DOMAIN done[u] : done[u][k] = done'[u][i]
          BY <4>4 DEF In
        <5>2. done[u][k] \in Nat /\ done[u][k] <= sent
          BY ElementOfSeq, LenProperties, BoundsAssumption DEF TypeOK, OnceInv, Numbered
        <5>3. QED
          BY <2>1, <2>3, <5>1, <5>2
      <4>5. QED
        BY <4>2, <4>3, <4>4
    <3>2. ASSUME NEW u \in Trackers, NEW i \in DOMAIN inbox[u]
          PROVE  inbox[u][i].tx.id <= sent'
      <4>1. inbox[u][i].tx.id \in Nat
        <5>1. inbox[u][i] \in Mail
          BY MailType DEF TypeOK
        <5>2. inbox[u][i].tx \in Tx
          BY <5>1 DEF Mail
        <5>3. inbox[u][i].tx.id \in 1..MaxTx
          BY <5>2, TxParts
        <5>4. QED
          BY <5>3, BoundsAssumption
      <4>2. QED
        BY <2>1, <2>3, <4>1 DEF OnceInv, Numbered
    <3>3. ASSUME NEW u \in Trackers, svc'[u].kind = "mirror"
          PROVE  svc'[u].tx.id <= sent'
      <4>1. CASE u = t
        BY <2>1, <2>3, <2>8, <3>3, <4>1
      <4>2. CASE u # t
        <5>1. svc'[u] = svc[u] /\ svc[u] \in Service
          BY <2>7, <4>2 DEF TypeOK
        <5>2. svc[u].tx.id \in Nat
          <6>1. svc[u].tx \in Tx
            BY <3>3, <5>1, ServiceParts
          <6>2. svc[u].tx.id \in 1..MaxTx
            BY <6>1, TxParts
          <6>3. QED
            BY <6>2, BoundsAssumption
        <5>3. QED
          BY <2>1, <2>3, <2>4, <3>3, <5>1, <5>2
      <4>3. QED
        BY <4>1, <4>2
    <3>4. QED
      BY <1>2, <3>1, <3>2, <3>3 DEF Numbered
  <2>10. MailIsNew'
    <3>1. ASSUME NEW u \in Trackers, NEW i \in DOMAIN inbox[u], inbox[u][i].stage # "read"
          PROVE  ~In(done'[u], inbox[u][i].tx.id)
      <4>1. ~In(done[u], inbox[u][i].tx.id)
        BY <3>1 DEF OnceInv, MailIsNew
      <4>2. inbox[u][i].tx.id # tx.id
        BY <2>5 DEF Carries
      <4>3. QED
        BY <2>6, <4>1, <4>2
    <3>2. QED
      BY <1>2, <3>1 DEF OnceInv, MailIsNew
  <2>11. MirroredIsNew'
    <3>. SUFFICES ASSUME NEW v \in Trackers, svc'[v].kind = "mirror", NEW u \in Others(v)
                  PROVE  /\ ~In(done'[u], svc'[v].tx.id)
                         /\ ~Carries(inbox[u], svc'[v].tx.id)
                         /\ svc'[u].kind = "mirror" => svc'[u].tx.id # svc'[v].tx.id
      BY <1>2 DEF MirroredIsNew
    <3>1. u \in Trackers /\ u # v
      BY DEF Others
    <3>2. \A w \in Trackers \ {t} : svc[w].kind = "mirror" => svc[w].tx.id # sent + 1
      BY <2>3, <2>4
    <3>3. CASE v = t
      <4>1. svc'[v].tx.id = sent + 1 /\ svc'[u] = svc[u] /\ done'[u] = done[u]
        BY <2>3, <2>6, <2>7, <2>8, <3>1, <3>3
      <4>2. QED
        BY <2>3, <2>5, <3>1, <3>2, <3>3, <4>1
    <3>4. CASE v # t
      <4>1. svc'[v] = svc[v] /\ svc[v].kind = "mirror" /\ svc[v].tx.id # sent + 1
        BY <2>7, <3>2, <3>4
      <4>2. ~In(done[u], svc[v].tx.id) /\ ~Carries(inbox[u], svc[v].tx.id)
        BY <4>1 DEF OnceInv, MirroredIsNew
      <4>3. ~In(done'[u], svc[v].tx.id)
        BY <2>3, <2>6, <3>1, <4>1, <4>2
      <4>4. ASSUME svc'[u].kind = "mirror" PROVE svc'[u].tx.id # svc[v].tx.id
        <5>1. CASE u = t
          BY <2>3, <2>8, <4>1, <4>4, <5>1
        <5>2. CASE u # t
          <6>1. svc'[u] = svc[u]
            BY <2>7, <3>1, <5>2
          <6>2. QED
            BY <4>1, <4>4, <6>1 DEF OnceInv, MirroredIsNew
        <5>3. QED
          BY <5>1, <5>2
      <4>5. QED
        BY <4>1, <4>2, <4>3, <4>4
    <3>5. QED
      BY <3>3, <3>4
  <2>12. RecordsRun'
    <3>1. \A u \in Trackers : \A x : In(done[u], x) => In(done'[u], x)
      BY <2>6
    <3>2. CASE UNCHANGED <<record, svc>>
      BY <3>1, <3>2 DEF OnceInv, RecordsRun
    <3>3. CASE record' = [record EXCEPT ![t] = Append(@, tx)]
      <4>1. ~In(done[t], tx.id) /\ In(done'[t], tx.id)
        BY <2>5, <2>6
      <4>2. QED
        BY <2>3, <3>1, <3>3, <4>1, RecordOne DEF OnceInv
    <3>4. QED
      BY <2>2, <3>2, <3>3
  <2>13. Phases'
    BY <1>2, <2>6, <2>7 DEF OnceInv, Phases
  <2>14. Syncing'
    BY <1>2, <2>6, <2>7, <2>8, SyncingFrame
  <2>15. QED
    BY <2>6, <2>9, <2>10, <2>11, <2>12, <2>13, <2>14 DEF OnceInv
<1>5. QED
  BY <1>3, <1>4

(* Handing a transaction to every other tracker that listens. *)
LEMMA MirrorOnce ==
  ASSUME TypeOK, OnceInv, NEW t \in Trackers, Mirror(t)
  PROVE  OnceInv'
<1>. DEFINE m == [tx |-> svc[t].tx, stage |-> "queued"]
            told(u) == u # t /\ status[u] = "up"
<1>1. /\ svc[t].kind = "mirror"
      /\ inbox' = [u \in Trackers |-> IF told(u) THEN Append(inbox[u], m) ELSE inbox[u]]
      /\ svc' = [svc EXCEPT ![t] = Idle]
      /\ UNCHANGED <<status, source, record, done, sent>>
  BY DEF Mirror
<1>2. /\ svc'[t] = Idle /\ \A u \in Trackers \ {t} : svc'[u] = svc[u]
      /\ Idle.kind # "mirror" /\ Idle.kind # "sync"
  BY <1>1 DEF TypeOK, Idle
<1>3. /\ \A u \in Trackers : ~told(u) => inbox'[u] = inbox[u]
      /\ \A u \in Trackers : told(u) => inbox'[u] = Append(inbox[u], m)
  BY <1>1
<1>4. m \in Mail
  BY <1>1, ServiceParts DEF Mail, TypeOK
<1>5. ASSUME NEW u \in Trackers, told(u)
      PROVE  /\ DOMAIN inbox[u] = 1..Len(inbox[u]) /\ Len(inbox[u]) \in Nat
             /\ DOMAIN inbox'[u] = 1..(Len(inbox[u]) + 1)
             /\ \A k \in DOMAIN inbox[u] : inbox'[u][k] = inbox[u][k]
             /\ inbox'[u][Len(inbox[u]) + 1] = m
  <2>1. inbox[u] \in Seq(Mail) /\ inbox'[u] = Append(inbox[u], m)
    BY <1>3, <1>5 DEF TypeOK
  <2>. DEFINE new == Append(inbox[u], m)
  <2>2. DOMAIN inbox[u] = 1..Len(inbox[u]) /\ Len(inbox[u]) \in Nat
    BY <2>1, LenProperties
  <2>3. /\ new \in Seq(Mail) /\ Len(new) = Len(inbox[u]) + 1
        /\ \A k \in 1..Len(inbox[u]) : new[k] = inbox[u][k]
        /\ new[Len(inbox[u]) + 1] = m
    BY <1>4, <2>1, AppendProperties
  <2>4. DOMAIN new = 1..(Len(inbox[u]) + 1)
    BY <2>3, LenProperties
  <2>5. QED
    BY <2>1, <2>2, <2>3, <2>4
<1>6. ASSUME NEW u \in Trackers, NEW i \in DOMAIN inbox'[u]
      PROVE  \/ i \in DOMAIN inbox[u] /\ inbox'[u][i] = inbox[u][i]
             \/ told(u) /\ i = Len(inbox[u]) + 1 /\ inbox'[u][i].tx = svc[t].tx
  <2>1. CASE told(u)
    BY <1>5, <2>1
  <2>2. CASE ~told(u)
    BY <1>3, <2>2
  <2>3. QED
    BY <2>1, <2>2
<1>7. \A u \in Trackers : told(u) =>
        ~In(done[u], svc[t].tx.id) /\ ~Carries(inbox[u], svc[t].tx.id)
  BY <1>1 DEF OnceInv, MirroredIsNew, Others
<1>8. RunAtMostOnce' /\ RecordsRun'
  BY <1>1 DEF OnceInv, RunAtMostOnce, RecordsRun
<1>9. Numbered'
  <2>1. ASSUME NEW u \in Trackers, NEW i \in DOMAIN inbox'[u]
        PROVE  inbox'[u][i].tx.id <= sent
    BY <1>1, <1>6 DEF OnceInv, Numbered
  <2>2. ASSUME NEW u \in Trackers, svc'[u].kind = "mirror"
        PROVE  svc'[u].tx.id <= sent
    BY <1>2, <2>2 DEF OnceInv, Numbered
  <2>3. QED
    BY <1>1, <2>1, <2>2 DEF OnceInv, Numbered
<1>10. MailIsNew'
  <2>1. ASSUME NEW u \in Trackers, NEW i \in DOMAIN inbox'[u], inbox'[u][i].stage # "read"
        PROVE  ~In(done[u], inbox'[u][i].tx.id)
    BY <1>6, <1>7, <2>1 DEF OnceInv, MailIsNew
  <2>2. ASSUME NEW u \in Trackers, NEW i \in DOMAIN inbox'[u], NEW k \in DOMAIN inbox'[u],
               inbox'[u][i].tx.id = inbox'[u][k].tx.id
        PROVE  i = k
    <3>1. CASE i \in DOMAIN inbox[u] /\ k \in DOMAIN inbox[u]
      <4>1. inbox'[u][i] = inbox[u][i] /\ inbox'[u][k] = inbox[u][k]
        BY <1>3, <1>5, <3>1
      <4>2. QED
        BY <2>2, <3>1, <4>1 DEF OnceInv, MailIsNew
    <3>2. CASE i \in DOMAIN inbox[u] /\ k \notin DOMAIN inbox[u]
      <4>1. told(u) /\ inbox[u][i].tx.id = svc[t].tx.id
        BY <1>3, <1>5, <1>6, <2>2, <3>2
      <4>2. QED
        BY <1>7, <3>2, <4>1 DEF Carries
    <3>3. CASE i \notin DOMAIN inbox[u] /\ k \in DOMAIN inbox[u]
      <4>1. told(u) /\ inbox[u][k].tx.id = svc[t].tx.id
        BY <1>3, <1>5, <1>6, <2>2, <3>3
      <4>2. QED
        BY <1>7, <3>3, <4>1 DEF Carries
    <3>4. CASE i \notin DOMAIN inbox[u] /\ k \notin DOMAIN inbox[u]
      BY <1>6, <3>4
    <3>5. QED
      BY <3>1, <3>2, <3>3, <3>4
  <2>3. QED
    BY <1>1, <2>1, <2>2 DEF MailIsNew
<1>11. MirroredIsNew'
  <2>. SUFFICES ASSUME NEW v \in Trackers, svc'[v].kind = "mirror", NEW u \in Others(v)
                PROVE  /\ ~In(done[u], svc'[v].tx.id)
                       /\ ~Carries(inbox'[u], svc'[v].tx.id)
                       /\ svc'[u].kind = "mirror" => svc'[u].tx.id # svc'[v].tx.id
    BY <1>1 DEF MirroredIsNew
  <2>1. u \in Trackers /\ v # t /\ svc'[v] = svc[v]
    BY <1>2 DEF Others
  <2>2. /\ ~In(done[u], svc[v].tx.id) /\ ~Carries(inbox[u], svc[v].tx.id)
        /\ svc[u].kind = "mirror" => svc[u].tx.id # svc[v].tx.id
    BY <2>1 DEF OnceInv, MirroredIsNew
  <2>3. svc[v].tx.id # svc[t].tx.id
    BY <1>1, <2>1 DEF OnceInv, MirroredIsNew, Others
  <2>4. ~Carries(inbox'[u], svc[v].tx.id)
    BY <1>6, <2>1, <2>2, <2>3 DEF Carries
  <2>5. QED
    BY <1>2, <2>1, <2>2, <2>4
<1>12. Phases'
  <2>1. ASSUME NEW u \in Trackers, status[u] # "up"
        PROVE  inbox'[u] = inbox[u] /\ (svc[u] = Idle => svc'[u] = Idle)
    BY <1>2, <1>3, <2>1
  <2>2. QED
    BY <1>1, <2>1 DEF OnceInv, Phases
<1>13. Syncing'
  <2>1. \A s, j \in Trackers : ServedBy(s, j)' <=> ServedBy(s, j)
    BY <1>1, <1>2 DEF ServedBy
  <2>2. \A s, j \in Trackers : ServedBy(s, j) => svc'[s] = svc[s]
    BY <1>1, <1>2 DEF ServedBy
  <2>3. QED
    BY <1>1, <2>1, <2>2 DEF OnceInv, Syncing
<1>14. QED
  BY <1>8, <1>9, <1>10, <1>11, <1>12, <1>13 DEF OnceInv

(* A mirrored request is run, and recorded when it succeeds. *)
LEMMA RunMirroredOnce ==
  ASSUME TypeOK, OnceInv, NEW t \in Trackers, RunMirrored(t)
  PROVE  OnceInv'
<1>1. PICK i \in InStage(t, "accepted") :
        LET tx == inbox[t][i].tx IN
        /\ \E out \in Outcomes(db[t], tx.origin, tx.req) :
             record' = IF out.success THEN [record EXCEPT ![t] = Append(@, tx)] ELSE record
        /\ done' = [done EXCEPT ![t] = Append(@, tx.id)]
        /\ inbox' = Staged(t, i, "read")
  BY DEF RunMirrored
<1>. DEFINE tx == inbox[t][i].tx
<1>2. /\ status[t] = "up" /\ svc[t] = Idle
      /\ UNCHANGED <<status, source, svc, sent>>
  BY DEF RunMirrored, Ready
<1>3. i \in DOMAIN inbox[t] /\ inbox[t][i].stage # "read"
  BY DEF InStage
<1>4. tx \in Tx /\ tx.id \in 1..MaxTx
  <2>1. inbox[t][i] \in Mail
    BY <1>3, MailType DEF TypeOK
  <2>2. tx \in Tx
    BY <2>1 DEF Mail
  <2>3. QED
    BY <2>2, TxParts
<1>5. ~In(done[t], tx.id)
  BY <1>3 DEF OnceInv, MailIsNew
<1>6. /\ RunAtMostOnce'
      /\ \A u \in Trackers : \A x : In(done'[u], x) <=> In(done[u], x) \/ (u = t /\ x = tx.id)
      /\ \A u \in Trackers \ {t} : done'[u] = done[u]
      /\ DOMAIN done[t] = 1..Len(done[t]) /\ Len(done[t]) \in Nat
      /\ DOMAIN done'[t] = 1..(Len(done[t]) + 1)
      /\ \A k \in DOMAIN done[t] : done'[t][k] = done[t][k]
      /\ done'[t][Len(done[t]) + 1] = tx.id
  <2>1. done' = [done EXCEPT ![t] = Append(@, tx.id)]
    BY <1>1
  <2>. HIDE DEF tx
  <2>2. QED
    BY <1>4, <1>5, <2>1, RunOne DEF OnceInv
<1>7. /\ \A u \in Trackers \ {t} : inbox'[u] = inbox[u]
      /\ DOMAIN inbox'[t] = DOMAIN inbox[t]
      /\ \A k \in DOMAIN inbox[t] : /\ inbox'[t][k].tx = inbox[t][k].tx
                                    /\ k # i => inbox'[t][k] = inbox[t][k]
      /\ inbox'[t][i].stage = "read"
  BY <1>1, <1>3, StagedElements
<1>8. \A u \in Trackers : /\ DOMAIN inbox'[u] = DOMAIN inbox[u]
                          /\ \A k \in DOMAIN inbox[u] : inbox'[u][k].tx = inbox[u][k].tx
  BY <1>7
<1>9. \A u \in Trackers \ {t} : record'[u] = record[u]
  BY <1>1 DEF TypeOK
<1>10. Numbered'
  <2>1. tx.id <= sent
    BY <1>3 DEF OnceInv, Numbered
  <2>2. ASSUME NEW u \in Trackers, NEW k \in DOMAIN done'[u] PROVE done'[u][k] <= sent
    <3>1. CASE u # t
      BY <1>6, <3>1 DEF OnceInv, Numbered
    <3>2. CASE u = t
      BY <1>6, <2>1, <3>2 DEF OnceInv, Numbered
    <3>3. QED
      BY <3>1, <3>2
  <2>3. QED
    BY <1>2, <1>8, <2>2 DEF OnceInv, Numbered
<1>11. MailIsNew'
  <2>1. ASSUME NEW u \in Trackers, NEW k \in DOMAIN inbox'[u], inbox'[u][k].stage # "read"
        PROVE  ~In(done'[u], inbox'[u][k].tx.id)
    <3>1. CASE u # t
      BY <1>6, <1>7, <2>1, <3>1 DEF OnceInv, MailIsNew
    <3>2. CASE u = t
      <4>1. k # i /\ k \in DOMAIN inbox[t] /\ inbox'[t][k] = inbox[t][k]
        BY <1>7, <2>1, <3>2
      <4>2. ~In(done[t], inbox[t][k].tx.id) /\ inbox[t][k].tx.id # tx.id
        BY <1>3, <2>1, <3>2, <4>1 DEF OnceInv, MailIsNew
      <4>3. QED
        BY <1>6, <3>2, <4>1, <4>2
    <3>3. QED
      BY <3>1, <3>2
  <2>2. ASSUME NEW u \in Trackers, NEW m \in DOMAIN inbox'[u], NEW k \in DOMAIN inbox'[u],
               inbox'[u][m].tx.id = inbox'[u][k].tx.id
        PROVE  m = k
    BY <1>8, <2>2 DEF OnceInv, MailIsNew
  <2>3. QED
    BY <2>1, <2>2 DEF MailIsNew
<1>12. MirroredIsNew'
  <2>. SUFFICES ASSUME NEW v \in Trackers, svc[v].kind = "mirror", NEW u \in Others(v)
                PROVE  /\ ~In(done'[u], svc[v].tx.id)
                       /\ ~Carries(inbox'[u], svc[v].tx.id)
                       /\ svc[u].kind = "mirror" => svc[u].tx.id # svc[v].tx.id
    BY <1>2 DEF MirroredIsNew
  <2>1. /\ ~In(done[u], svc[v].tx.id) /\ ~Carries(inbox[u], svc[v].tx.id)
        /\ svc[u].kind = "mirror" => svc[u].tx.id # svc[v].tx.id
    BY DEF OnceInv, MirroredIsNew
  <2>2. u \in Trackers /\ ~Carries(inbox'[u], svc[v].tx.id)
    BY <1>8, <2>1 DEF Carries, Others
  <2>3. ~(u = t /\ svc[v].tx.id = tx.id)
    BY <1>3, <2>1 DEF Carries
  <2>4. QED
    BY <1>6, <2>1, <2>2, <2>3
<1>13. RecordsRun'
  <2>1. \A u \in Trackers : \A x : In(done[u], x) => In(done'[u], x)
    BY <1>6
  <2>2. CASE record' = record
    BY <2>1, <2>2 DEF OnceInv, RecordsRun
  <2>3. CASE record' = [record EXCEPT ![t] = Append(@, tx)]
    <3>1. In(done'[t], tx.id)
      BY <1>6
    <3>2. QED
      BY <1>4, <1>5, <2>1, <2>3, <3>1, RecordOne DEF OnceInv
  <2>4. QED
    BY <1>1, <2>2, <2>3
<1>14. Phases'
  BY <1>2, <1>6, <1>7, <1>9 DEF OnceInv, Phases
<1>15. Syncing'
  <2>1. svc[t].kind # "sync" /\ svc'[t].kind # "sync"
    BY <1>2 DEF Idle
  <2>2. QED
    BY <1>2, <1>6, <1>9, <2>1, SyncingFrame
<1>16. QED
  BY <1>6, <1>10, <1>11, <1>12, <1>13, <1>14, <1>15 DEF OnceInv

(* One transaction of a record is replayed by the tracker that starts. *)
LEMMA SyncOneOnce ==
  ASSUME TypeOK, OnceInv, NEW s \in Trackers, SyncOne(s)
  PROVE  OnceInv'
<1>. DEFINE j == svc[s].to
            n == svc[s].next
            tx == record[s][n]
<1>1. /\ svc[s].kind = "sync" /\ n <= Len(record[s])
      /\ done' = [done EXCEPT ![j] = Append(@, tx.id)]
      /\ svc' = [svc EXCEPT ![s].next = @ + 1]
      /\ UNCHANGED <<status, source, record, inbox, sent>>
  BY DEF SyncOne
<1>2. j \in Trackers /\ n \in Nat \ {0} /\ ServedBy(s, j)
  BY <1>1, ServiceParts DEF TypeOK, ServedBy
<1>3. /\ source[j] = s /\ Len(done[j]) = n - 1
      /\ \A i \in DOMAIN done[j] : done[j][i] = record[s][i].id
  BY <1>2 DEF OnceInv, Syncing
<1>4. status[j] = "syncing" /\ j # s /\ inbox[j] = <<>> /\ svc[j] = Idle
  BY <1>2, <1>3, TrackersAssumption DEF OnceInv, Phases, Others
<1>5. DOMAIN record[s] = 1..Len(record[s]) /\ n \in DOMAIN record[s]
  BY <1>1, <1>2, LenProperties DEF TypeOK
<1>6. tx \in Tx
  BY <1>5, ElementOfSeq DEF TypeOK
<1>7. tx.id \in 1..MaxTx /\ In(done[s], tx.id)
  BY <1>5, <1>6, TxParts DEF OnceInv, RecordsRun
<1>8. ~In(done[j], tx.id)
  <2>. SUFFICES ASSUME NEW i \in DOMAIN done[j], done[j][i] = tx.id PROVE FALSE
    BY DEF In
  <2>1. DOMAIN done[j] = 1..Len(done[j])
    BY <1>2, LenProperties DEF TypeOK
  <2>2. i \in DOMAIN record[s] /\ i # n
    BY <1>2, <1>3, <1>5, <2>1
  <2>3. record[s][i].id = record[s][n].id
    BY <1>3
  <2>4. QED
    BY <1>5, <2>2, <2>3 DEF OnceInv, RecordsRun
<1>9. /\ RunAtMostOnce'
      /\ \A u \in Trackers : \A x : In(done'[u], x) <=> In(done[u], x) \/ (u = j /\ x = tx.id)
      /\ \A u \in Trackers \ {j} : done'[u] = done[u]
      /\ DOMAIN done[j] = 1..Len(done[j]) /\ Len(done[j]) \in Nat
      /\ DOMAIN done'[j] = 1..(Len(done[j]) + 1)
      /\ Len(done'[j]) = Len(done[j]) + 1
      /\ \A k \in DOMAIN done[j] : done'[j][k] = done[j][k]
      /\ done'[j][Len(done[j]) + 1] = tx.id
  <2>1. done' = [done EXCEPT ![j] = Append(@, tx.id)]
    BY <1>1
  <2>. HIDE DEF tx, j
  <2>2. QED
    BY <1>2, <1>7, <1>8, <2>1, RunOne DEF OnceInv
<1>10. /\ \A u \in Trackers \ {s} : svc'[u] = svc[u]
       /\ svc'[s].kind = "sync" /\ svc'[s].to = j /\ svc'[s].next = n + 1
  <2>1. svc[s] \in Service /\ svc'[s] = [svc[s] EXCEPT !.next = @ + 1]
    BY <1>1 DEF TypeOK
  <2>2. \A u \in Trackers \ {s} : svc'[u] = svc[u]
    BY <1>1 DEF TypeOK
  <2>3. QED
    BY <1>1, <2>1, <2>2, ServiceParts
<1>11. Numbered'
  <2>1. tx.id <= sent
    BY <1>7 DEF OnceInv, Numbered, In
  <2>2. ASSUME NEW u \in Trackers, NEW k \in DOMAIN done'[u] PROVE done'[u][k] <= sent
    <3>1. CASE u # j
      BY <1>9, <3>1 DEF OnceInv, Numbered
    <3>2. CASE u = j
      <4>1. CASE k = Len(done[j]) + 1
        BY <1>9, <2>1, <3>2, <4>1
      <4>2. CASE k \in DOMAIN done[j]
        BY <1>2, <1>9, <3>2, <4>2 DEF OnceInv, Numbered
      <4>3. QED
        BY <1>9, <3>2, <4>1, <4>2
    <3>3. QED
      BY <3>1, <3>2
  <2>3. ASSUME NEW u \in Trackers, svc'[u].kind = "mirror" PROVE svc'[u].tx.id <= sent
    BY <1>10, <2>3 DEF OnceInv, Numbered
  <2>4. QED
    BY <1>1, <2>2, <2>3 DEF OnceInv, Numbered
<1>12. MailIsNew'
  <2>1. ASSUME NEW u \in Trackers, NEW k \in DOMAIN inbox[u], inbox[u][k].stage # "read"
        PROVE  ~In(done'[u], inbox[u][k].tx.id)
    BY <1>4, <1>9, <2>1 DEF OnceInv, MailIsNew
  <2>2. QED
    BY <1>1, <2>1 DEF OnceInv, MailIsNew
<1>13. MirroredIsNew'
  <2>. SUFFICES ASSUME NEW v \in Trackers, svc'[v].kind = "mirror", NEW u \in Others(v)
                PROVE  /\ ~In(done'[u], svc'[v].tx.id)
                       /\ ~Carries(inbox[u], svc'[v].tx.id)
                       /\ svc'[u].kind = "mirror" => svc'[u].tx.id # svc'[v].tx.id
    BY <1>1 DEF MirroredIsNew
  <2>1. u \in Trackers /\ v # s /\ svc'[v] = svc[v]
    BY <1>10 DEF Others
  <2>2. /\ ~In(done[u], svc[v].tx.id) /\ ~Carries(inbox[u], svc[v].tx.id)
        /\ svc[u].kind = "mirror" => svc[u].tx.id # svc[v].tx.id
        /\ ~In(done[s], svc[v].tx.id)
    BY <2>1 DEF OnceInv, MirroredIsNew, Others
  <2>3. svc'[u].kind = "mirror" => svc'[u] = svc[u]
    BY <1>10, <2>1
  <2>4. ~In(done'[u], svc[v].tx.id)
    BY <1>7, <1>9, <2>1, <2>2
  <2>5. QED
    BY <2>1, <2>2, <2>3, <2>4
<1>14. RecordsRun'
  BY <1>1, <1>9 DEF OnceInv, RecordsRun
<1>15. Phases'
  <2>1. status[s] = "up"
    BY <1>1 DEF OnceInv, Phases, Idle
  <2>2. QED
    BY <1>1, <1>4, <1>9, <1>10, <2>1 DEF OnceInv, Phases
<1>16. Syncing'
  <2>1. \A p, q \in Trackers : ServedBy(p, q)' <=> ServedBy(p, q)
    BY <1>1, <1>10 DEF ServedBy
  <2>2. ASSUME NEW p \in Trackers, NEW q \in Trackers, ServedBy(p, q)
        PROVE  /\ source[q] = p
               /\ Len(done'[q]) = svc'[p].next - 1
               /\ Len(done'[q]) <= Len(record[p])
               /\ \A i \in DOMAIN done'[q] : done'[q][i] = record[p][i].id
    <3>1. CASE p = s
      <4>1. q = j
        BY <2>2, <3>1 DEF ServedBy
      <4>2. \A i \in DOMAIN done'[j] : done'[j][i] = record[s][i].id
        BY <1>2, <1>3, <1>9
      <4>3. Len(done'[j]) = svc'[s].next - 1 /\ Len(done'[j]) <= Len(record[s])
        BY <1>1, <1>2, <1>3, <1>9, <1>10
      <4>4. QED
        BY <1>3, <3>1, <4>1, <4>2, <4>3
    <3>2. CASE p # s
      <4>1. source[q] = p /\ q # j
        BY <1>3, <2>2, <3>2 DEF OnceInv, Syncing
      <4>2. done'[q] = done[q] /\ svc'[p] = svc[p]
        BY <1>9, <1>10, <3>2, <4>1
      <4>3. QED
        BY <2>2, <4>2 DEF OnceInv, Syncing
    <3>3. QED
      BY <3>1, <3>2
  <2>3. ASSUME NEW p \in Trackers, NEW q \in Trackers, source[q] = p, ~ServedBy(p, q)
        PROVE  done'[q] = <<>>
    <3>1. q # j
      BY <1>2, <1>3, <2>3
    <3>2. QED
      BY <1>9, <2>3, <3>1 DEF OnceInv, Syncing
  <2>4. QED
    BY <1>1, <2>1, <2>2, <2>3 DEF Syncing
<1>17. QED
  BY <1>9, <1>11, <1>12, <1>13, <1>14, <1>15, <1>16 DEF OnceInv

(* A sync request is taken up by its source. *)
LEMMA ServeSyncOnce ==
  ASSUME TypeOK, OnceInv, NEW s \in Trackers, NEW j \in Others(s), ServeSync(s, j)
  PROVE  OnceInv'
<1>1. /\ status[s] = "up" /\ svc[s] = Idle /\ source[j] = s
      /\ svc' = [svc EXCEPT ![s] = Serving(j, 1)]
      /\ UNCHANGED <<status, source, record, inbox, sent, done>>
  BY DEF ServeSync, Ready
<1>2. /\ \A u \in Trackers \ {s} : svc'[u] = svc[u]
      /\ svc'[s].kind = "sync" /\ svc'[s].to = j /\ svc'[s].next = 1
  BY <1>1 DEF TypeOK, Serving
<1>3. j \in Trackers /\ done[j] = <<>>
  BY <1>1 DEF OnceInv, Syncing, ServedBy, Idle, Others
<1>4. LogInv'
  BY <1>1, <1>2, ControlStep
<1>5. Phases'
  BY <1>1, <1>2 DEF OnceInv, Phases
<1>6. Syncing'
  <2>1. ASSUME NEW p \in Trackers, NEW q \in Trackers, ServedBy(p, q)'
        PROVE  /\ source[q] = p
               /\ Len(done[q]) = svc'[p].next - 1
               /\ Len(done[q]) <= Len(record[p])
               /\ \A i \in DOMAIN done[q] : done[q][i] = record[p][i].id
    <3>1. CASE p = s
      <4>1. q = j
        BY <1>2, <2>1, <3>1 DEF ServedBy
      <4>2. Len(done[q]) = 0 /\ DOMAIN done[q] = {}
        BY <1>3, <4>1
      <4>3. Len(record[s]) \in Nat
        BY LenProperties DEF TypeOK
      <4>4. QED
        BY <1>1, <1>2, <3>1, <4>1, <4>2, <4>3
    <3>2. CASE p # s
      BY <1>2, <2>1, <3>2 DEF OnceInv, Syncing, ServedBy
    <3>3. QED
      BY <3>1, <3>2
  <2>2. ASSUME NEW p \in Trackers, NEW q \in Trackers, source[q] = p, ~ServedBy(p, q)'
        PROVE  done[q] = <<>>
    <3>1. ~ServedBy(p, q)
      BY <1>1, <1>2, <2>2 DEF ServedBy, Idle
    <3>2. QED
      BY <2>2, <3>1 DEF OnceInv, Syncing
  <2>3. QED
    BY <1>1, <2>1, <2>2 DEF Syncing
<1>7. QED
  BY <1>4, <1>5, <1>6 DEF OnceInv, LogInv

(* A sync request that finds no room. *)
LEMMA RefuseSyncOnce ==
  ASSUME TypeOK, OnceInv, NEW s \in Trackers, NEW j \in Others(s), RefuseSync(s, j)
  PROVE  OnceInv'
<1>1. /\ svc[s] = Idle /\ status[j] = "syncing" /\ source[j] = s /\ j \in Trackers
      /\ UNCHANGED <<record, svc, inbox, sent, done>>
  BY DEF RefuseSync, Ready, Others
<1>2. /\ status'[j] \in {"starting", "down"} /\ source'[j] = None
      /\ \A u \in Trackers \ {j} : status'[u] = status[u] /\ source'[u] = source[u]
  BY <1>1 DEF RefuseSync, TypeOK
<1>3. done[j] = <<>>
  BY <1>1 DEF OnceInv, Syncing, ServedBy, Idle
<1>4. LogInv'
  BY <1>1, ControlStep
<1>5. Phases'
  <2>1. inbox[j] = <<>> /\ svc[j] = Idle /\ record[j] = <<>>
    BY <1>1 DEF OnceInv, Phases
  <2>2. QED
    BY <1>1, <1>2, <1>3, <2>1 DEF OnceInv, Phases
<1>6. Syncing'
  <2>1. ASSUME NEW p \in Trackers, NEW q \in Trackers, ServedBy(p, q)
        PROVE  source'[q] = source[q]
    BY <1>1, <1>2, <2>1 DEF OnceInv, Syncing, ServedBy, Idle
  <2>2. ASSUME NEW p \in Trackers, NEW q \in Trackers, source'[q] = p
        PROVE  source[q] = p
    BY <1>2, <2>2, TrackersAssumption
  <2>3. QED
    BY <1>1, <2>1, <2>2 DEF OnceInv, Syncing, ServedBy
<1>7. QED
  BY <1>4, <1>5, <1>6 DEF OnceInv, LogInv

(* The end of the record. *)
LEMMA SyncDoneOnce ==
  ASSUME TypeOK, OnceInv, NEW s \in Trackers, SyncDone(s)
  PROVE  OnceInv'
<1>. DEFINE j == svc[s].to
<1>1. /\ svc[s].kind = "sync"
      /\ UNCHANGED <<record, inbox, sent, done>>
  BY DEF SyncDone
<1>2. j \in Trackers /\ ServedBy(s, j)
  BY <1>1, ServiceParts DEF TypeOK, ServedBy
<1>3. /\ svc'[s] = Idle /\ \A u \in Trackers \ {s} : svc'[u] = svc[u]
      /\ status'[j] = "starting" /\ source'[j] = None
      /\ \A u \in Trackers \ {j} : status'[u] = status[u] /\ source'[u] = source[u]
  BY <1>2 DEF SyncDone, TypeOK
<1>4. source[j] = s
  BY <1>2 DEF OnceInv, Syncing
<1>5. status[j] = "syncing" /\ j # s
  BY <1>2, <1>4, TrackersAssumption DEF OnceInv, Phases, Others
<1>6. LogInv'
  BY <1>1, <1>3, ControlStep DEF Idle
<1>7. Phases'
  <2>1. inbox[j] = <<>> /\ svc[j] = Idle /\ record[j] = <<>>
    BY <1>2, <1>5 DEF OnceInv, Phases
  <2>2. svc'[j] = Idle
    BY <1>2, <1>3, <1>5, <2>1
  <2>3. QED
    BY <1>1, <1>2, <1>3, <2>1, <2>2 DEF OnceInv, Phases
<1>8. Syncing'
  <2>1. ASSUME NEW p \in Trackers, NEW q \in Trackers, ServedBy(p, q)'
        PROVE  /\ ServedBy(p, q) /\ svc'[p] = svc[p] /\ source'[q] = p
    <3>1. p # s
      BY <1>3, <2>1 DEF ServedBy, Idle
    <3>2. ServedBy(p, q) /\ svc'[p] = svc[p]
      BY <1>3, <2>1, <3>1 DEF ServedBy
    <3>3. source[q] = p
      BY <3>2 DEF OnceInv, Syncing
    <3>4. QED
      BY <1>3, <1>4, <3>1, <3>2, <3>3
  <2>2. ASSUME NEW p \in Trackers, NEW q \in Trackers, source'[q] = p, ~ServedBy(p, q)'
        PROVE  done[q] = <<>>
    <3>1. q # j /\ source[q] = p
      BY <1>3, <2>2, TrackersAssumption
    <3>2. ~ServedBy(p, q)
      BY <1>3, <2>2, <3>1 DEF ServedBy
    <3>3. QED
      BY <3>1, <3>2 DEF OnceInv, Syncing
  <2>3. QED
    BY <1>1, <2>1, <2>2 DEF OnceInv, Syncing
<1>9. QED
  BY <1>6, <1>7, <1>8 DEF OnceInv, LogInv

(* A tracker starts. *)
LEMMA StartOnce ==
  ASSUME TypeOK, OnceInv, NEW j \in Trackers, Start(j)
  PROVE  OnceInv'
<1>. DEFINE up == {t \in Others(j) : status[t] = "up"}
<1>1. /\ status[j] = "down"
      /\ UNCHANGED <<record, svc, inbox, sent, done>>
  BY DEF Start
<1>2. /\ \/ status'[j] = "starting" /\ source'[j] = source[j]
         \/ status'[j] = "syncing" /\ source'[j] \in Others(j)
      /\ \A u \in Trackers \ {j} : status'[u] = status[u] /\ source'[u] = source[u]
  <2>1. CASE up = {}
    BY <2>1 DEF Start, TypeOK
  <2>2. CASE up # {}
    <3>1. up \in SUBSET Trackers /\ up \subseteq Others(j)
      BY DEF Others
    <3>. HIDE DEF up
    <3>2. First(up) \in Others(j)
      BY <2>2, <3>1, FirstIsOne
    <3>. USE DEF up
    <3>3. /\ status' = [status EXCEPT ![j] = "syncing"]
          /\ source' = [source EXCEPT ![j] = First(up)]
      BY <2>2 DEF Start
    <3>4. QED
      BY <3>2, <3>3 DEF TypeOK
  <2>3. QED
    BY <2>1, <2>2
<1>3. source[j] = None /\ done[j] = <<>> /\ inbox[j] = <<>> /\ svc[j] = Idle /\ record[j] = <<>>
  BY <1>1 DEF OnceInv, Phases
<1>4. LogInv'
  BY <1>1, ControlStep
<1>5. Phases'
  BY <1>1, <1>2, <1>3 DEF OnceInv, Phases
<1>6. Syncing'
  <2>1. ASSUME NEW p \in Trackers, NEW q \in Trackers, ServedBy(p, q)
        PROVE  source'[q] = p
    <3>1. source[q] = p
      BY <2>1 DEF OnceInv, Syncing
    <3>2. q # j
      BY <1>3, <3>1, TrackersAssumption
    <3>3. QED
      BY <1>2, <3>1, <3>2
  <2>2. ASSUME NEW p \in Trackers, NEW q \in Trackers, source'[q] = p, ~ServedBy(p, q)
        PROVE  done[q] = <<>>
    BY <1>2, <1>3, <2>2 DEF OnceInv, Syncing
  <2>3. QED
    BY <1>1, <2>1, <2>2 DEF OnceInv, Syncing, ServedBy
<1>7. QED
  BY <1>4, <1>5, <1>6 DEF OnceInv, LogInv

(* A tracker begins to listen. *)
LEMMA ListenOnce ==
  ASSUME TypeOK, OnceInv, NEW j \in Trackers, Listen(j)
  PROVE  OnceInv'
<1>1. /\ status[j] = "starting" /\ status'[j] = "up"
      /\ \A u \in Trackers \ {j} : status'[u] = status[u]
      /\ UNCHANGED <<source, record, svc, inbox, sent, done>>
  BY DEF Listen, TypeOK
<1>2. LogInv'
  BY <1>1, ControlStep
<1>3. Phases'
  BY <1>1 DEF OnceInv, Phases
<1>4. Syncing'
  BY <1>1 DEF OnceInv, Syncing, ServedBy
<1>5. QED
  BY <1>2, <1>3, <1>4 DEF OnceInv, LogInv

(* A tracker ends, and with it everything it knew. *)
LEMMA StopOnce ==
  ASSUME TypeOK, OnceInv, NEW t \in Trackers, Stop(t)
  PROVE  OnceInv'
<1>1. /\ done'[t] = <<>> /\ record'[t] = <<>> /\ inbox'[t] = <<>>
      /\ status'[t] = "down" /\ source'[t] = None /\ svc'[t] = Idle
      /\ sent' = sent
  BY DEF Stop, TypeOK
<1>2. \A u \in Trackers \ {t} :
        /\ done'[u] = done[u] /\ record'[u] = record[u] /\ inbox'[u] = inbox[u]
        /\ status'[u] = IF source[u] = t THEN "starting" ELSE status[u]
        /\ source'[u] = IF source[u] = t THEN None ELSE source[u]
        /\ svc'[u] = IF ServedBy(u, t) THEN Idle ELSE svc[u]
  BY DEF Stop, TypeOK, ServedBy
<1>3. DOMAIN done'[t] = {} /\ DOMAIN record'[t] = {} /\ DOMAIN inbox'[t] = {}
  BY <1>1
<1>4. Idle.kind # "mirror" /\ Idle.kind # "sync"
  BY DEF Idle
<1>5. \A u \in Trackers : svc'[u].kind # "idle" => u # t /\ svc'[u] = svc[u]
  BY <1>1, <1>2 DEF Idle
<1>6. RunAtMostOnce'
  BY <1>2, <1>3 DEF OnceInv, RunAtMostOnce
<1>7. RecordsRun'
  BY <1>2, <1>3 DEF OnceInv, RecordsRun
<1>8. MailIsNew'
  BY <1>2, <1>3 DEF OnceInv, MailIsNew
<1>9. Numbered'
  <2>1. ASSUME NEW u \in Trackers, NEW i \in DOMAIN done'[u] PROVE done'[u][i] <= sent
    BY <1>2, <1>3 DEF OnceInv, Numbered
  <2>2. ASSUME NEW u \in Trackers, NEW i \in DOMAIN inbox'[u]
        PROVE  inbox'[u][i].tx.id <= sent
    BY <1>2, <1>3 DEF OnceInv, Numbered
  <2>3. ASSUME NEW u \in Trackers, svc'[u].kind = "mirror" PROVE svc'[u].tx.id <= sent
    BY <1>5, <2>3 DEF OnceInv, Numbered
  <2>4. QED
    BY <1>1, <2>1, <2>2, <2>3 DEF Numbered
<1>10. MirroredIsNew'
  <2>. SUFFICES ASSUME NEW v \in Trackers, svc'[v].kind = "mirror", NEW u \in Others(v)
                PROVE  /\ ~In(done'[u], svc'[v].tx.id)
                       /\ ~Carries(inbox'[u], svc'[v].tx.id)
                       /\ svc'[u].kind = "mirror" => svc'[u].tx.id # svc'[v].tx.id
    BY DEF MirroredIsNew
  <2>1. u \in Trackers /\ v # t /\ svc'[v] = svc[v]
    BY <1>5 DEF Others
  <2>2. /\ ~In(done[u], svc[v].tx.id) /\ ~Carries(inbox[u], svc[v].tx.id)
        /\ svc[u].kind = "mirror" => svc[u].tx.id # svc[v].tx.id
    BY <2>1 DEF OnceInv, MirroredIsNew
  <2>3. ~In(done'[u], svc[v].tx.id) /\ ~Carries(inbox'[u], svc[v].tx.id)
    <3>1. CASE u = t
      BY <1>3, <3>1 DEF In, Carries
    <3>2. CASE u # t
      <4>1. done'[u] = done[u] /\ inbox'[u] = inbox[u]
        BY <1>2, <2>1, <3>2
      <4>2. QED
        BY <2>2, <4>1
    <3>3. QED
      BY <3>1, <3>2
  <2>4. svc'[u].kind = "mirror" => svc'[u] = svc[u]
    BY <1>5, <2>1
  <2>5. QED
    BY <2>1, <2>2, <2>3, <2>4
<1>11. Phases'
  <2>. SUFFICES ASSUME NEW u \in Trackers
                PROVE  /\ status'[u] # "up" =>
                            inbox'[u] = <<>> /\ svc'[u] = Idle /\ record'[u] = <<>>
                       /\ status'[u] = "down" => done'[u] = <<>>
                       /\ IF status'[u] = "syncing" THEN source'[u] \in Others(u)
                          ELSE source'[u] = None
    BY DEF Phases
  <2>1. CASE u = t
    BY <1>1, <2>1
  <2>2. CASE u # t /\ source[u] = t
    <3>1. status[u] = "syncing"
      BY <2>2, TrackersAssumption DEF OnceInv, Phases
    <3>2. inbox[u] = <<>> /\ svc[u] = Idle /\ record[u] = <<>>
      BY <3>1 DEF OnceInv, Phases
    <3>3. QED
      BY <1>2, <2>2, <3>2
  <2>3. CASE u # t /\ source[u] # t
    <3>1. /\ status'[u] = status[u] /\ source'[u] = source[u]
          /\ svc[u] = Idle => svc'[u] = Idle
      BY <1>2, <2>3
    <3>2. inbox'[u] = inbox[u] /\ record'[u] = record[u] /\ done'[u] = done[u]
      BY <1>2, <2>3
    <3>3. QED
      BY <3>1, <3>2 DEF OnceInv, Phases
  <2>4. QED
    BY <2>1, <2>2, <2>3
<1>12. Syncing'
  <2>1. ASSUME NEW p \in Trackers, NEW q \in Trackers, ServedBy(p, q)'
        PROVE  p # t /\ q # t /\ ServedBy(p, q) /\ source[q] = p /\ source'[q] = p
               /\ svc'[p] = svc[p]
    <3>1. p # t /\ svc'[p] = svc[p] /\ ServedBy(p, q)
      BY <1>5, <2>1 DEF ServedBy
    <3>2. q # t
      BY <1>2, <1>4, <2>1, <3>1 DEF ServedBy
    <3>3. source[q] = p
      BY <3>1 DEF OnceInv, Syncing
    <3>4. QED
      BY <1>2, <3>1, <3>2, <3>3
  <2>2. ASSUME NEW p \in Trackers, NEW q \in Trackers, source'[q] = p, ~ServedBy(p, q)'
        PROVE  done'[q] = <<>>
    <3>1. q # t /\ source[q] = p /\ p # t
      BY <1>1, <1>2, <2>2, TrackersAssumption
    <3>2. ~ServedBy(p, q)
      BY <1>2, <2>2, <3>1 DEF ServedBy
    <3>3. QED
      BY <1>2, <3>1, <3>2 DEF OnceInv, Syncing
  <2>3. ASSUME NEW p \in Trackers, NEW q \in Trackers, ServedBy(p, q)'
        PROVE  /\ Len(done'[q]) = svc'[p].next - 1
               /\ Len(done'[q]) <= Len(record'[p])
               /\ \A i \in DOMAIN done'[q] : done'[q][i] = record'[p][i].id
    <3>1. done'[q] = done[q] /\ record'[p] = record[p] /\ svc'[p] = svc[p] /\ ServedBy(p, q)
      BY <1>2, <2>1, <2>3
    <3>2. QED
      BY <3>1 DEF OnceInv, Syncing
  <2>4. QED
    BY <2>1, <2>2, <2>3 DEF Syncing
<1>13. QED
  BY <1>6, <1>7, <1>8, <1>9, <1>10, <1>11, <1>12 DEF OnceInv

(* A client that connects concerns no log. *)
LEMMA ConnectOnce ==
  ASSUME OnceInv, UNCHANGED <<status, source, record, svc, inbox, sent, done>>
  PROVE  OnceInv'
<1>1. LogInv'
  BY ControlStep
<1>2. Phases' /\ Syncing'
  BY DEF OnceInv, Phases, Syncing, ServedBy
<1>3. QED
  BY <1>1, <1>2 DEF OnceInv, LogInv

-----------------------------------------------------------------------------
(* Every step keeps the invariant. *)
LEMMA OnceStep == TypeOK /\ OnceInv /\ [Next]_vars => OnceInv'
<1>. SUFFICES ASSUME TypeOK, OnceInv, [Next]_vars PROVE OnceInv'
  OBVIOUS
<1>1. ASSUME NEW c \in Clients, Connect(c) PROVE OnceInv'
  BY <1>1, ConnectOnce DEF Connect
<1>2. ASSUME NEW t \in Trackers, NEW c \in Clients, NEW req \in Requests, Serve(t, c, req)
      PROVE  OnceInv'
  BY <1>2, ServeOnce
<1>3. ASSUME NEW t \in Trackers, ServiceStep(t) PROVE OnceInv'
  <2>1. CASE Mirror(t)
    BY <2>1, MirrorOnce
  <2>2. CASE AcceptMirror(t)
    BY <2>2, AcceptMirrorOnce
  <2>3. CASE RunMirrored(t)
    BY <2>3, RunMirroredOnce
  <2>4. CASE CloseMirror(t)
    BY <2>4, CloseMirrorOnce
  <2>5. ASSUME NEW j \in Others(t), ServeSync(t, j) PROVE OnceInv'
    BY <2>5, ServeSyncOnce
  <2>6. ASSUME NEW j \in Others(t), RefuseSync(t, j) PROVE OnceInv'
    BY <2>6, RefuseSyncOnce
  <2>7. CASE SyncOne(t)
    BY <2>7, SyncOneOnce
  <2>8. CASE SyncDone(t)
    BY <2>8, SyncDoneOnce
  <2>9. QED
    BY <1>3, <2>1, <2>2, <2>3, <2>4, <2>5, <2>6, <2>7, <2>8 DEF ServiceStep
<1>4. ASSUME NEW t \in Trackers, Start(t) PROVE OnceInv'
  BY <1>4, StartOnce
<1>5. ASSUME NEW t \in Trackers, Listen(t) PROVE OnceInv'
  BY <1>5, ListenOnce
<1>6. ASSUME NEW t \in Trackers, Stop(t) PROVE OnceInv'
  BY <1>6, StopOnce
<1>7. CASE UNCHANGED vars
  BY <1>7, ConnectOnce DEF vars
<1>8. QED
  BY <1>1, <1>2, <1>3, <1>4, <1>5, <1>6, <1>7 DEF Next

(* The strengthened invariant holds from the start on. *)
LEMMA RunOnceInvariant == Spec => [](TypeOK /\ OnceInv)
<1>1. Init => OnceInv
  <2>. SUFFICES ASSUME Init PROVE OnceInv
    OBVIOUS
  <2>1. \A t \in Trackers : /\ done[t] = <<>> /\ inbox[t] = <<>> /\ record[t] = <<>>
                            /\ svc[t] = Idle /\ source[t] = None
                            /\ status[t] \in {"up", "down"}
    BY DEF Init
  <2>2. Idle.kind # "mirror" /\ Idle.kind # "sync"
    BY DEF Idle
  <2>3. RunAtMostOnce /\ RecordsRun /\ MailIsNew
    BY <2>1 DEF RunAtMostOnce, RecordsRun, MailIsNew
  <2>4. Numbered /\ MirroredIsNew
    BY <2>1, <2>2 DEF Numbered, MirroredIsNew
  <2>5. Phases /\ Syncing
    BY <2>1, <2>2, TrackersAssumption DEF Phases, Syncing, ServedBy
  <2>6. QED
    BY <2>3, <2>4, <2>5 DEF OnceInv
<1>2. QED
  BY <1>1, OnceStep, NetworkTypeCorrect, PTL DEF Spec

(* No tracker process runs a transaction twice: not by an echo of its own
   mirroring, not by a sync that repeats what was mirrored, and not by a message
   delivered late or to a restarted tracker. *)
THEOREM RunOnceCorrect == Spec => []RunAtMostOnce
<1>1. OnceInv => RunAtMostOnce
  BY DEF OnceInv
<1>2. QED
  BY <1>1, RunOnceInvariant, PTL

=============================================================================
