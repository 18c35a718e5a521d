-------------------------- MODULE AgreementProofs --------------------------
(***************************************************************************)
(* What trackers know of each other: their records are complete while no   *)
(* reply fails (RecordCorrect), they agree when requests are paced         *)
(* (AgreementCorrect), and then are one tracker to their clients           *)
(* (ImplementsOneTracker), for any number of clients, users, groups, files *)
(* and requests.                                                           *)
(***************************************************************************)
EXTENDS TrackerNetworkProofs, FiniteSetTheorems

-----------------------------------------------------------------------------
(* Replaying records. *)

(* Replaying a record: f[n] are the databases its first n transactions may lead
   to from d. *)
IsReplay(f, d, rec) ==
  f = [n \in 0..Len(rec) |->
         IF n = 0 THEN {d}
         ELSE UNION {{out.db : out \in Outcomes(e, rec[n].origin, rec[n].req)} :
                     e \in f[n - 1]}]

(* What a transaction leads to from any of some databases. *)
Then(S, tx) == UNION {{out.db : out \in Outcomes(e, tx.origin, tx.req)} : e \in S}

(* A replay of a longer record is a replay of the shorter one, and one step. *)
LEMMA ReplayShorter ==
  ASSUME NEW rec \in Seq(Tx), NEW tx \in Tx, NEW d, NEW g,
         IsReplay(g, d, Append(rec, tx))
  PROVE  /\ IsReplay([n \in 0..Len(rec) |-> g[n]], d, rec)
         /\ g[Len(rec) + 1] = Then(g[Len(rec)], tx)
<1>. DEFINE rec2 == Append(rec, tx)
            f == [n \in 0..Len(rec) |-> g[n]]
<1>1. /\ Len(rec) \in Nat /\ Len(rec2) = Len(rec) + 1
      /\ \A n \in 1..Len(rec) : rec2[n] = rec[n]
      /\ rec2[Len(rec) + 1] = tx
  BY LenProperties, AppendProperties
<1>. HIDE DEF rec2
<1>2. \A n \in 0..(Len(rec) + 1) :
        g[n] = IF n = 0 THEN {d} ELSE Then(g[n - 1], rec2[n])
  BY <1>1 DEF IsReplay, Then, rec2
<1>3. \A n \in 0..Len(rec) : f[n] = IF n = 0 THEN {d} ELSE Then(f[n - 1], rec[n])
  <2>1. \A n \in 0..Len(rec) : f[n] = g[n]
    OBVIOUS
  <2>2. \A n \in 1..Len(rec) : n - 1 \in 0..Len(rec) /\ n \in 0..(Len(rec) + 1)
    BY <1>1
  <2>. HIDE DEF f
  <2>3. ASSUME NEW n \in 0..Len(rec), n # 0 PROVE f[n] = Then(f[n - 1], rec[n])
    <3>1. n \in 1..Len(rec)
      BY <1>1, <2>3
    <3>2. g[n] = Then(g[n - 1], rec2[n]) /\ rec2[n] = rec[n]
      BY <1>1, <1>2, <2>2, <3>1
    <3>3. f[n] = g[n] /\ f[n - 1] = g[n - 1]
      BY <2>1, <2>2, <3>1
    <3>4. QED
      BY <3>2, <3>3
  <2>4. f[0] = {d}
    BY <1>1, <1>2, <2>1
  <2>5. QED
    BY <2>3, <2>4
<1>4. f = [n \in 0..Len(rec) |-> IF n = 0 THEN {d} ELSE Then(f[n - 1], rec[n])]
  <2>1. f = [n \in 0..Len(rec) |-> f[n]]
    OBVIOUS
  <2>. HIDE DEF f
  <2>2. QED
    BY <1>3, <2>1
<1>5. g[Len(rec) + 1] = Then(g[Len(rec)], tx)
  BY <1>1, <1>2
<1>6. QED
  BY <1>4, <1>5 DEF IsReplay, Then

(* A record that grew has a replay when the shorter one had. *)
LEMMA ReplayLonger ==
  ASSUME NEW rec \in Seq(Tx), NEW tx \in Tx, NEW d, NEW f, IsReplay(f, d, rec)
  PROVE  \E g : IsReplay(g, d, Append(rec, tx))
<1>. DEFINE rec2 == Append(rec, tx)
            g == [n \in 0..(Len(rec) + 1) |->
                    IF n <= Len(rec) THEN f[n] ELSE Then(f[Len(rec)], tx)]
<1>1. /\ Len(rec) \in Nat /\ Len(rec2) = Len(rec) + 1
      /\ \A n \in 1..Len(rec) : rec2[n] = rec[n]
      /\ rec2[Len(rec) + 1] = tx
  BY LenProperties, AppendProperties
<1>. HIDE DEF rec2
<1>2. \A n \in 0..Len(rec) : f[n] = IF n = 0 THEN {d} ELSE Then(f[n - 1], rec[n])
  BY DEF IsReplay, Then
<1>3. /\ \A n \in 0..Len(rec) : g[n] = f[n]
      /\ g[Len(rec) + 1] = Then(f[Len(rec)], tx)
      /\ g = [n \in 0..(Len(rec) + 1) |-> g[n]]
  BY <1>1
<1>. HIDE DEF g
<1>4. ASSUME NEW n \in 0..(Len(rec) + 1)
      PROVE  g[n] = IF n = 0 THEN {d} ELSE Then(g[n - 1], rec2[n])
  <2>1. CASE n = 0
    <3>1. 0 \in 0..Len(rec)
      BY <1>1
    <3>2. g[0] = f[0] /\ f[0] = {d}
      BY <1>2, <1>3, <3>1
    <3>3. QED
      BY <2>1, <3>2
  <2>2. CASE n \in 1..Len(rec)
    <3>1. n \in 0..Len(rec) /\ n - 1 \in 0..Len(rec) /\ n # 0
      BY <1>1, <2>2
    <3>2. QED
      BY <1>1, <1>2, <1>3, <2>2, <3>1
  <2>3. CASE n = Len(rec) + 1
    <3>1. n - 1 = Len(rec) /\ n # 0 /\ Len(rec) \in 0..Len(rec)
      BY <1>1, <2>3
    <3>2. QED
      BY <1>1, <1>3, <2>3, <3>1
  <2>4. QED
    BY <1>1, <2>1, <2>2, <2>3
<1>5. g = [n \in 0..Len(rec2) |-> IF n = 0 THEN {d} ELSE Then(g[n - 1], rec2[n])]
  BY <1>1, <1>3, <1>4
<1>6. QED
  BY <1>5 DEF IsReplay, Then, rec2

(* The replay of an empty record. *)
LEMMA ReplayNothing ==
  ASSUME NEW d
  PROVE  /\ \E f : IsReplay(f, d, <<>>)
         /\ \A f : IsReplay(f, d, <<>>) => f[Len(<<>>)] = {d}
<1>1. Len(<<>>) = 0 /\ 0 \in 0..0
  OBVIOUS
<1>. DEFINE f0 == [n \in 0..0 |-> {d}]
<1>2. IsReplay(f0, d, <<>>)
  BY <1>1 DEF IsReplay
<1>3. ASSUME NEW f, IsReplay(f, d, <<>>) PROVE f[0] = {d}
  BY <1>1, <1>3 DEF IsReplay
<1>4. QED
  BY <1>1, <1>2, <1>3

-----------------------------------------------------------------------------
(* The record leads from d to databases like e. *)
LeadsTo(d, rec, e) ==
  /\ \E f : IsReplay(f, d, rec)
  /\ \A f : IsReplay(f, d, rec) => \E x \in f[Len(rec)] : x \in DB /\ Same(x, e)

(* An empty record leads nowhere else. *)
LEMMA NothingLeads == ASSUME NEW d \in DB PROVE LeadsTo(d, <<>>, d)
BY ReplayNothing, SameReflexive DEF LeadsTo

(* Where a record leads is up to seeders. *)
LEMMA LeadsToSame ==
  ASSUME NEW rec, NEW d, NEW e, LeadsTo(d, rec, e), NEW e2, Same(e2, e)
  PROVE  LeadsTo(d, rec, e2)
<1>1. Same(e, e2)
  BY SameSymmetric
<1>2. \A x : Same(x, e) => Same(x, e2)
  BY <1>1, SameTransitive
<1>3. QED
  BY <1>2 DEF LeadsTo

(* Running a transaction and recording it go together. *)
LEMMA LeadsOn ==
  ASSUME NEW rec \in Seq(Tx), NEW tx \in Tx, NEW d, NEW e \in DB, LeadsTo(d, rec, e),
         NEW out \in Outcomes(e, tx.origin, tx.req)
  PROVE  LeadsTo(d, Append(rec, tx), out.db)
<1>1. Len(rec) \in Nat /\ Len(Append(rec, tx)) = Len(rec) + 1
  BY LenProperties, AppendProperties
<1>2. tx.origin \in Clients /\ tx.req \in Request
  BY DEF Tx
<1>3. \E g : IsReplay(g, d, Append(rec, tx))
  BY ReplayLonger DEF LeadsTo
<1>4. ASSUME NEW g, IsReplay(g, d, Append(rec, tx))
      PROVE  \E x \in g[Len(rec) + 1] : x \in DB /\ Same(x, out.db)
  <2>. DEFINE f == [n \in 0..Len(rec) |-> g[n]]
  <2>1. IsReplay(f, d, rec) /\ g[Len(rec) + 1] = Then(g[Len(rec)], tx)
    BY <1>4, ReplayShorter
  <2>2. f[Len(rec)] = g[Len(rec)]
    BY <1>1
  <2>. HIDE DEF f
  <2>3. PICK x \in g[Len(rec)] : x \in DB /\ Same(x, e)
    BY <2>1, <2>2 DEF LeadsTo
  <2>4. PICK out2 \in Outcomes(x, tx.origin, tx.req) : Same(out2.db, out.db)
    <3>1. Answers(out, Outcomes(x, tx.origin, tx.req))
      BY <1>2, <2>3, OutcomesSame
    <3>2. QED
      BY <3>1 DEF Answers
  <2>5. out2.db \in DB
    BY <1>2, <2>3, <2>4, OutcomeType
  <2>6. out2.db \in Then(g[Len(rec)], tx)
    BY <2>3, <2>4 DEF Then
  <2>7. QED
    BY <2>1, <2>4, <2>5, <2>6
<1>5. QED
  BY <1>1, <1>3, <1>4 DEF LeadsTo

(* The inductive invariant of RecordComplete.  It speaks of every replay instead
   of the recursive Replays: a step extends each by one transaction. *)
Recorded ==
  \A t \in Trackers : status[t] = "up" => LeadsTo(base[t], record[t], db[t])

(* A step that leaves every tracker its databases and its record. *)
LEMMA RecordedUntouched ==
  ASSUME Recorded, UNCHANGED <<db, record, base>>,
         \A t \in Trackers : status'[t] = "up" => status[t] = "up"
  PROVE  Recorded'
BY DEF Recorded

(* What a tracker in the middle of a start is not. *)
LEMMA SyncedIsNotUp ==
  ASSUME TypeOK, Phases, Syncing, NEW s \in Trackers, svc[s].kind = "sync"
  PROVE  svc[s].to \in Trackers /\ status[svc[s].to] = "syncing" /\ source[svc[s].to] = s
<1>1. svc[s] \in Service
  BY DEF TypeOK
<1>2. svc[s].to \in Trackers
  BY <1>1, ServiceParts
<1>3. source[svc[s].to] = s
  BY <1>2 DEF Syncing, ServedBy
<1>4. QED
  BY <1>2, <1>3, TrackersAssumption DEF Phases

(* A request of a client is recorded when it changes more than a seeder. *)
LEMMA ServeRecorded ==
  ASSUME TypeOK, Recorded, ~May("reply"), NEW t \in Trackers, NEW c \in Clients,
         NEW req \in Requests, Serve(t, c, req)
  PROVE  Recorded'
<1>1. PICK out \in Outcomes(db[t], c, req), replied \in {TRUE, ~May("reply")} :
        LET tx == [id |-> sent + 1, origin |-> c, req |-> req]
            kept == out.success /\ replied
        IN  /\ db' = [db EXCEPT ![t] = out.db]
            /\ record' = IF kept THEN [record EXCEPT ![t] = Append(@, tx)] ELSE record
  BY Zenon DEF Serve
<1>. DEFINE tx == [id |-> sent + 1, origin |-> c, req |-> req]
<1>2. req \in Request /\ tx \in Tx
  BY RequestsAssumption, BoundsAssumption DEF Serve, TypeOK, Tx
<1>3. tx.origin = c /\ tx.req = req
  OBVIOUS
<1>4. status' = status /\ base' = base
  BY DEF Serve
<1>5. db[t] \in DB /\ base[t] \in DB /\ record[t] \in Seq(Tx)
  BY DEF TypeOK
<1>6. db' = [db EXCEPT ![t] = out.db]
  BY <1>1
<1>7. record' = IF out.success THEN [record EXCEPT ![t] = Append(@, tx)] ELSE record
  BY <1>1
<1>. HIDE DEF tx
<1>8. db'[t] = out.db /\ \A u \in Trackers \ {t} : db'[u] = db[u] /\ record'[u] = record[u]
  BY <1>6, <1>7 DEF TypeOK
<1>9. status[t] = "up" => LeadsTo(base[t], record'[t], db'[t])
  <2>. SUFFICES ASSUME status[t] = "up" PROVE LeadsTo(base[t], record'[t], db'[t])
    OBVIOUS
  <2>1. LeadsTo(base[t], record[t], db[t])
    BY DEF Recorded
  <2>2. CASE out.success
    <3>1. record'[t] = Append(record[t], tx)
      BY <1>7, <2>2 DEF TypeOK
    <3>2. LeadsTo(base[t], Append(record[t], tx), out.db)
      BY <1>2, <1>3, <1>5, <2>1, LeadsOn
    <3>3. QED
      BY <1>8, <3>1, <3>2
  <2>3. CASE ~out.success
    <3>1. record'[t] = record[t]
      BY <1>7, <2>3
    <3>2. Same(out.db, db[t])
      BY <1>2, <1>5, <2>3, FailureSame
    <3>3. QED
      BY <1>8, <2>1, <3>1, <3>2, LeadsToSame
  <2>4. QED
    BY <2>2, <2>3
<1>10. QED
  BY <1>4, <1>8, <1>9 DEF Recorded

(* So is a mirrored request. *)
LEMMA RunMirroredRecorded ==
  ASSUME TypeOK, Recorded, NEW t \in Trackers, RunMirrored(t)
  PROVE  Recorded'
<1>1. PICK i \in InStage(t, "accepted") :
        LET tx == inbox[t][i].tx
        IN  \E out \in Outcomes(db[t], tx.origin, tx.req) :
              /\ db' = [db EXCEPT ![t] = out.db]
              /\ record' = IF out.success THEN [record EXCEPT ![t] = Append(@, tx)]
                           ELSE record
  BY DEF RunMirrored
<1>. DEFINE tx == inbox[t][i].tx
<1>2. PICK out \in Outcomes(db[t], tx.origin, tx.req) :
        /\ db' = [db EXCEPT ![t] = out.db]
        /\ record' = IF out.success THEN [record EXCEPT ![t] = Append(@, tx)] ELSE record
  BY <1>1
<1>3. inbox[t][i] \in Mail
  BY <1>1, MailType DEF TypeOK, InStage
<1>4. tx \in Tx /\ tx.origin \in Clients /\ tx.req \in Request
  BY <1>3 DEF Mail, Tx
<1>5. status' = status /\ base' = base
  BY DEF RunMirrored
<1>6. db[t] \in DB /\ base[t] \in DB /\ record[t] \in Seq(Tx)
  BY DEF TypeOK
<1>. HIDE DEF tx
<1>7. db'[t] = out.db /\ \A u \in Trackers \ {t} : db'[u] = db[u] /\ record'[u] = record[u]
  BY <1>2 DEF TypeOK
<1>8. status[t] = "up" => LeadsTo(base[t], record'[t], db'[t])
  <2>. SUFFICES ASSUME status[t] = "up" PROVE LeadsTo(base[t], record'[t], db'[t])
    OBVIOUS
  <2>1. LeadsTo(base[t], record[t], db[t])
    BY DEF Recorded
  <2>2. CASE out.success
    <3>1. record'[t] = Append(record[t], tx)
      BY <1>2, <2>2 DEF TypeOK
    <3>2. LeadsTo(base[t], Append(record[t], tx), out.db)
      BY <1>4, <1>6, <2>1, LeadsOn
    <3>3. QED
      BY <1>7, <3>1, <3>2
  <2>3. CASE ~out.success
    <3>1. record'[t] = record[t]
      BY <1>2, <2>3
    <3>2. Same(out.db, db[t])
      BY <1>4, <1>6, <2>3, FailureSame
    <3>3. QED
      BY <1>7, <2>1, <3>1, <3>2, LeadsToSame
  <2>4. QED
    BY <2>2, <2>3
<1>9. QED
  BY <1>5, <1>7, <1>8 DEF Recorded

(* A synchronisation changes a tracker that has no record yet ... *)
LEMMA SyncOneRecorded ==
  ASSUME TypeOK, Phases, Syncing, Recorded, NEW s \in Trackers, SyncOne(s)
  PROVE  Recorded'
<1>. DEFINE j == svc[s].to
<1>1. j \in Trackers /\ status[j] = "syncing"
  BY SyncedIsNotUp DEF SyncOne
<1>2. \E d : db' = [db EXCEPT ![j] = d]
  BY DEF SyncOne
<1>3. \A t \in Trackers \ {j} : db'[t] = db[t]
  BY <1>2 DEF TypeOK
<1>4. UNCHANGED <<status, record, base>>
  BY DEF SyncOne
<1>5. QED
  BY <1>1, <1>3, <1>4 DEF Recorded

(* ... and one that begins to listen begins a record. *)
LEMMA ListenRecorded ==
  ASSUME TypeOK, Phases, Recorded, NEW j \in Trackers, Listen(j)
  PROVE  Recorded'
<1>1. /\ status[j] = "starting" /\ UNCHANGED <<db, record>>
      /\ \A t \in Trackers \ {j} : status'[t] = status[t] /\ base'[t] = base[t]
      /\ base'[j] = db[j]
  BY DEF Listen, TypeOK
<1>2. record[j] = <<>> /\ db[j] \in DB
  BY <1>1 DEF Phases, TypeOK
<1>3. LeadsTo(base'[j], record'[j], db'[j])
  BY <1>1, <1>2, NothingLeads
<1>4. QED
  BY <1>1, <1>3 DEF Recorded

(* The end of a tracker does not concern the others. *)
LEMMA StopRecorded ==
  ASSUME TypeOK, Phases, Recorded, NEW t \in Trackers, Stop(t)
  PROVE  Recorded'
<1>1. \A u \in Trackers : status'[u] = "up" => u # t /\ status[u] = "up"
  BY DEF Stop, TypeOK
<1>2. \A u \in Trackers \ {t} : db'[u] = db[u] /\ base'[u] = base[u] /\ record'[u] = record[u]
  BY DEF Stop, TypeOK
<1>3. QED
  BY <1>1, <1>2 DEF Recorded

(* Every step keeps the records complete. *)
LEMMA StepRecorded ==
  ASSUME TypeOK, Phases, Syncing, Recorded, ~May("reply"), [Next]_vars
  PROVE  Recorded'
<1>1. ASSUME NEW c \in Clients, Connect(c) PROVE Recorded'
  BY <1>1, RecordedUntouched DEF Connect
<1>2. ASSUME NEW t \in Trackers, NEW c \in Clients, NEW req \in Requests, Serve(t, c, req)
      PROVE  Recorded'
  BY <1>2, ServeRecorded
<1>3. ASSUME NEW t \in Trackers, ServiceStep(t) PROVE Recorded'
  <2>1. CASE Mirror(t)
    BY <2>1, RecordedUntouched DEF Mirror
  <2>2. CASE AcceptMirror(t)
    BY <2>2, RecordedUntouched DEF AcceptMirror
  <2>3. CASE RunMirrored(t)
    BY <2>3, RunMirroredRecorded
  <2>4. CASE CloseMirror(t)
    BY <2>4, RecordedUntouched DEF CloseMirror
  <2>5. ASSUME NEW j \in Others(t), ServeSync(t, j) PROVE Recorded'
    BY <2>5, RecordedUntouched DEF ServeSync
  <2>6. ASSUME NEW j \in Others(t), RefuseSync(t, j) PROVE Recorded'
    <3>1. \A u \in Trackers : status'[u] = "up" => status[u] = "up"
      BY <2>6 DEF RefuseSync, TypeOK
    <3>2. QED
      BY <2>6, <3>1, RecordedUntouched DEF RefuseSync
  <2>7. CASE SyncOne(t)
    BY <2>7, SyncOneRecorded
  <2>8. CASE SyncDone(t)
    <3>1. \A u \in Trackers : status'[u] = "up" => status[u] = "up"
      BY <2>8 DEF SyncDone, TypeOK
    <3>2. QED
      BY <2>8, <3>1, RecordedUntouched DEF SyncDone
  <2>9. QED
    BY <1>3, <2>1, <2>2, <2>3, <2>4, <2>5, <2>6, <2>7, <2>8 DEF ServiceStep
<1>4. ASSUME NEW t \in Trackers, Start(t) PROVE Recorded'
  <2>1. \A u \in Trackers : status'[u] = "up" => status[u] = "up"
    BY <1>4 DEF Start, TypeOK
  <2>2. QED
    BY <1>4, <2>1, RecordedUntouched DEF Start
<1>5. ASSUME NEW t \in Trackers, Listen(t) PROVE Recorded'
  BY <1>5, ListenRecorded
<1>6. ASSUME NEW t \in Trackers, Stop(t) PROVE Recorded'
  BY <1>6, StopRecorded
<1>7. CASE UNCHANGED vars
  BY <1>7, RecordedUntouched DEF vars
<1>8. QED
  BY <1>1, <1>2, <1>3, <1>4, <1>5, <1>6, <1>7 DEF Next

(* Databases that differ in seeders have the same summary. *)
LEMMA SameSummary ==
  ASSUME NEW d, NEW e, Same(d, e)
  PROVE  Summary(d) = Summary(e)
<1>1. Existing(d) = Existing(e)
  BY DEF Same, SameGroup, Existing
<1>2. ASSUME NEW g \in Existing(d) PROVE Unseeded(d.groups[g]) = Unseeded(e.groups[g])
  <2>1. /\ d.groups[g].owner = e.groups[g].owner /\ d.groups[g].users = e.groups[g].users
        /\ d.groups[g].requests = e.groups[g].requests
        /\ Listed(d.groups[g]) = Listed(e.groups[g])
    BY <1>2 DEF Existing, Same, SameGroup
  <2>2. QED
    BY <2>1 DEF Unseeded, Listed
<1>3. {<<g, Unseeded(d.groups[g])>> : g \in Existing(d)}
        = {<<g, Unseeded(e.groups[g])>> : g \in Existing(e)}
  BY <1>1, <1>2
<1>4. d.users = e.users /\ d.logged = e.logged
  BY DEF Same
<1>5. QED
  BY <1>3, <1>4 DEF Summary

(* A record that leads somewhere is one whose replays TLC can list. *)
LEMMA LeadsToReplays ==
  ASSUME NEW d, NEW rec, NEW e, LeadsTo(d, rec, e)
  PROVE  \E x \in Replays(d, rec) : Summary(x) = Summary(e)
<1>. DEFINE after == CHOOSE f : IsReplay(f, d, rec)
<1>1. IsReplay(after, d, rec)
  BY DEF LeadsTo
<1>2. Replays(d, rec) = after[Len(rec)]
  BY DEF Replays, IsReplay
<1>. HIDE DEF after
<1>3. PICK x \in after[Len(rec)] : Same(x, e)
  BY <1>1 DEF LeadsTo
<1>4. QED
  BY <1>2, <1>3, SameSummary

(* Nothing has happened, and nothing is recorded. *)
LEMMA InitRecorded == ASSUME Init PROVE Recorded
<1>1. \A t \in Trackers : base[t] = EmptyDB /\ record[t] = <<>> /\ db[t] = EmptyDB
  BY DEF Init
<1>2. QED
  BY <1>1, EmptySound, NothingLeads DEF Recorded

(* While no reply fails, the record of every tracker that listens says how its
   databases came about from those it began with, whatever else goes wrong. *)
THEOREM RecordCorrect == ASSUME ~May("reply") PROVE Spec => []RecordComplete
<1>1. Init => Recorded
  BY InitRecorded
<1>2. TypeOK /\ OnceInv /\ Recorded /\ [Next]_vars => Recorded'
  BY StepRecorded DEF OnceInv
<1>3. Recorded => RecordComplete
  BY LeadsToReplays DEF Recorded, RecordComplete
<1>4. QED
  BY <1>1, <1>2, <1>3, RunOnceInvariant, PTL DEF Spec

-----------------------------------------------------------------------------
(* Agreement. *)

(* Requests come one at a time, none while a tracker starts, trackers do not stop,
   and clients leave a connection free. *)
Paced == Hazards \subseteq {"reorder"} /\ MaxConnections > 0

(* A name on a list of requests to join stands for one requester: no user of the
   same name takes the place of one who was deleted while waiting.  Otherwise two
   may wait under one name, and which of them accept_request admits depends on
   the order of an unordered set of pointers, at each tracker on its own. *)
OneRequester ==
  \A r1, r2 \in Requests : ~(r1.op = "delete_user" /\ r2.op = "accept_request")

(* What is recorded or on its way was asked by a client. *)
Asked ==
  \A t \in Trackers :
    /\ \A i \in DOMAIN record[t] : record[t][i].req \in Requests
    /\ \A i \in DOMAIN inbox[t] : inbox[t][i].tx.req \in Requests
    /\ svc[t].kind = "mirror" => svc[t].tx.req \in Requests

(* Without deletions, nothing points to a user who is not the account of his name. *)
NamesCurrent ==
  (\A r \in Requests : r.op # "delete_user") => \A t \in Trackers : Current(db[t])

(* One transaction is on its way at a time, and only while all others rest. *)
OneAtATime ==
  /\ \A t \in Trackers : svc[t].kind = "mirror" =>
       \A u \in Trackers : inbox[u] = <<>> /\ (u # t => svc[u] = Idle)
  /\ \A t \in Trackers : inbox[t] # <<>> =>
       /\ Len(inbox[t]) = 1
       /\ \A u \in Trackers :
            svc[u] = Idle /\ status[u] = "up" /\ (u # t => inbox[u] = <<>>)

(* The clients of a tracker, which leave a connection free. *)
Links(t) == {c \in Clients : conn[c] = t}

(* A mirroring connection and a sync find room. *)
RoomLeft ==
  \A t \in Trackers : IsFiniteSet(Links(t)) /\ Cardinality(Links(t)) < MaxConnections

(* What j has read of the record of s so far led to what j has. *)
Synced(s, j) ==
  \A f : IsReplay(f, EmptyDB, record[s]) =>
    \A x \in f[svc[s].next - 1] : x \in DB /\ Same(x, db[j])

(* Trackers on the way up: while one is missing, the others began with nothing;
   while none is up, none has anything; and one that reads a record has what it
   has read. *)
Joins ==
  /\ (\E t \in Trackers : status[t] # "up") => \A u \in Trackers : base[u] = EmptyDB
  /\ (\A t \in Trackers : status[t] # "up") => \A u \in Trackers : db[u] = EmptyDB
  /\ \A t \in Trackers : status[t] = "down" => db[t] = EmptyDB
  /\ \A t \in Trackers : status[t] = "starting" => \A u \in Trackers : svc[u] = Idle
  /\ \A s, j \in Trackers : source[j] = s =>
       IF ServedBy(s, j) THEN Synced(s, j) ELSE db[j] = EmptyDB

(* Trackers that are up or about to be know what the others know ... *)
Running(t) == status[t] \in {"starting", "up"}

(* ... but for a transaction that t has run and u has yet to run, *)
Ahead(t, u, tx) ==
  \/ svc[t].kind = "mirror" /\ svc[t].tx = tx
  \/ \E i \in DOMAIN inbox[u] : inbox[u][i].stage # "read" /\ inbox[u][i].tx = tx

(* which leads to what t has, whatever way it turns out at u. *)
CatchesUp(u, t, tx) ==
  \A out \in Outcomes(db[u], tx.origin, tx.req) : Same(out.db, db[t])

(* The heart of the invariant: one behind by a transaction, or in agreement. *)
InStep ==
  \A t, u \in Trackers : t # u /\ Running(t) /\ Running(u) =>
    /\ \A tx : Ahead(t, u, tx) => CatchesUp(u, t, tx) /\ Len(done[t]) = Len(done[u]) + 1
    /\ (\A tx : ~Ahead(t, u, tx) /\ ~Ahead(u, t, tx)) =>
         Same(db[t], db[u]) /\ Len(done[t]) = Len(done[u])

(* While a tracker is missing, the record of the other has all it ran; there is
   nothing to run before one listens, and no mail without another tracker. *)
Counted ==
  /\ \A t, u \in Trackers : status[t] # "up" /\ status[u] = "up" =>
       Len(record[u]) = Len(done[u])
  /\ (\A t \in Trackers : status[t] # "up") => \A u \in Trackers : done[u] = <<>>
  /\ \A t \in Trackers : inbox[t] # <<>> => \E u \in Trackers : u # t

(* The inductive invariant of Agreement. *)
Joint == /\ Asked /\ NamesCurrent /\ OneAtATime /\ RoomLeft
         /\ Joins /\ Counted /\ InStep

-----------------------------------------------------------------------------
(* There are two trackers at most. *)
LEMMA TheTwo ==
  ASSUME NEW t \in Trackers, NEW u \in Trackers, t # u
  PROVE  \A v \in Trackers : v = t \/ v = u
BY TrackersAssumption

(* What does not happen when requests are paced. *)
LEMMA NoHazard ==
  ASSUME Paced
  PROVE  /\ ~May("crash") /\ ~May("reply") /\ ~May("crowd") /\ ~May("burst")
         /\ ~May("busy_join") /\ MaxConnections > 0
BY DEF Paced, May

(* What one request leads to where the databases are similar. *)
LEMMA Determined ==
  ASSUME TypeOK, NamesCurrent, OneRequester, NEW t \in Trackers, NEW c \in Clients,
         NEW req \in Requests, NEW out \in Outcomes(db[t], c, req),
         NEW d \in DB, Same(d, db[t]), NEW out2 \in Outcomes(d, c, req)
  PROVE  out2.success = out.success /\ Same(out2.db, out.db)
<1>1. db[t] \in DB /\ req \in Request
  BY RequestsAssumption DEF TypeOK
<1>2. Same(db[t], d)
  BY SameSymmetric
<1>3. PICK out3 \in Outcomes(db[t], c, req) :
        out3.success = out2.success /\ Same(out3.db, out2.db)
  <2>1. Answers(out2, Outcomes(db[t], c, req))
    BY <1>1, <1>2, OutcomesSame
  <2>2. QED
    BY <2>1 DEF Answers
<1>4. req.op = "accept_request" => Current(db[t])
  BY DEF NamesCurrent, OneRequester
<1>5. out3.success = out.success /\ Same(out3.db, out.db)
  BY <1>1, <1>4, OneOutcome
<1>6. QED
  BY <1>3, <1>5, SameSymmetric, SameTransitive

(* A queue of length one, and of length zero. *)
LEMMA BoxParts ==
  ASSUME TypeOK, NEW t \in Trackers
  PROVE  /\ inbox[t] \in Seq(Mail) /\ Len(inbox[t]) \in Nat
         /\ DOMAIN inbox[t] = 1..Len(inbox[t])
         /\ inbox[t] = <<>> <=> DOMAIN inbox[t] = {}
         /\ \A i \in DOMAIN inbox[t] : inbox[t][i] \in Mail
<1>1. inbox[t] \in Seq(Mail)
  BY DEF TypeOK
<1>2. Len(inbox[t]) \in Nat /\ DOMAIN inbox[t] = 1..Len(inbox[t])
  BY <1>1, LenProperties
<1>3. inbox[t] = <<>> <=> Len(inbox[t]) = 0
  BY <1>1, EmptySeq
<1>4. QED
  BY <1>1, <1>2, <1>3, ElementOfSeq

(* A tracker that nobody sent a transaction has room. *)
LEMMA RoomForOne ==
  ASSUME TypeOK, RoomLeft, NEW t \in Trackers,
         \A i \in DOMAIN inbox[t] : inbox[t][i].stage = "queued"
  PROVE  HasRoom(t)
<1>1. {i \in DOMAIN inbox[t] : inbox[t][i].stage # "queued"} = {}
  OBVIOUS
<1>2. Accepted(t) = Cardinality(Links(t))
  <2>1. Cardinality(Links(t)) \in Nat
    BY FS_CardinalityType DEF RoomLeft
  <2>2. Accepted(t) = Cardinality(Links(t)) + 0
    BY <1>1, FS_EmptySet DEF Accepted, Links
  <2>3. QED
    BY <2>1, <2>2
<1>3. QED
  BY <1>2 DEF HasRoom, RoomLeft

(* A client that connects leaves a connection free. *)
LEMMA ConnectRoom ==
  ASSUME TypeOK, RoomLeft, Paced, NEW c \in Clients, Connect(c)
  PROVE  RoomLeft'
<1>1. First({t \in Trackers : status[t] = "up"}) \in Trackers
  BY FirstIsOne DEF Connect
<1>2. PICK s \in Trackers :
        Accepted(s) + 1 < MaxConnections /\ conn[c] = None /\ conn' = [conn EXCEPT ![c] = s]
  BY <1>1, NoHazard DEF Connect
<1>. DEFINE held == {i \in DOMAIN inbox[s] : inbox[s][i].stage # "queued"}
<1>3. /\ IsFiniteSet(Links(s)) /\ Cardinality(Links(s)) \in Nat
      /\ Accepted(s) = Cardinality(Links(s)) + Cardinality(held)
  BY <1>1, FS_CardinalityType DEF RoomLeft, Accepted, Links
<1>4. Cardinality(held) \in Nat
  <2>1. DOMAIN inbox[s] = 1..Len(inbox[s]) /\ Len(inbox[s]) \in Nat
    BY <1>1, BoxParts
  <2>2. IsFiniteSet(1..Len(inbox[s]))
    BY <2>1, FS_Interval
  <2>3. IsFiniteSet(held)
    BY <2>1, <2>2, FS_Subset
  <2>4. QED
    BY <2>3, FS_CardinalityType
<1>5. Cardinality(Links(s)) + 1 < MaxConnections
  BY <1>2, <1>3, <1>4, BoundsAssumption
<1>9. \A b \in Clients : conn'[b] = IF b = c THEN s ELSE conn[b]
  BY <1>2 DEF TypeOK
<1>6. Links(s)' = Links(s) \cup {c} /\ c \notin Links(s)
  <2>1. c \notin Links(s)
    BY <1>1, <1>2, TrackersAssumption DEF Links
  <2>2. {b \in Clients : conn'[b] = s} = {b \in Clients : conn[b] = s} \cup {c}
    BY <1>9
  <2>3. QED
    BY <2>1, <2>2 DEF Links
<1>7. IsFiniteSet(Links(s)') /\ Cardinality(Links(s)') = Cardinality(Links(s)) + 1
  BY <1>3, <1>6, FS_AddElement
<1>8. \A t \in Trackers \ {s} : Links(t)' = Links(t)
  <2>. SUFFICES ASSUME NEW t \in Trackers \ {s} PROVE Links(t)' = Links(t)
    OBVIOUS
  <2>1. {b \in Clients : conn'[b] = t} = {b \in Clients : conn[b] = t}
    BY <1>2, <1>9, TrackersAssumption
  <2>2. QED
    BY <2>1 DEF Links
<1>10. QED
  BY <1>5, <1>7, <1>8 DEF RoomLeft

(* Databases, phases and what is on its way as they were. *)
LEMMA InStepFrame ==
  ASSUME InStep, UNCHANGED <<db, done>>,
         \A v \in Trackers : Running(v)' => Running(v),
         \A u, v \in Trackers : u # v /\ Running(u)' /\ Running(v)' =>
           \A x : Ahead(u, v, x)' <=> Ahead(u, v, x)
  PROVE  InStep'
<1>. SUFFICES ASSUME NEW t \in Trackers, NEW u \in Trackers, t # u, Running(t)', Running(u)'
              PROVE  /\ \A tx : Ahead(t, u, tx)' =>
                          CatchesUp(u, t, tx)' /\ Len(done'[t]) = Len(done'[u]) + 1
                     /\ (\A tx : ~Ahead(t, u, tx)' /\ ~Ahead(u, t, tx)') =>
                          Same(db'[t], db'[u]) /\ Len(done'[t]) = Len(done'[u])
  BY DEF InStep
<1>1. Running(t) /\ Running(u)
  OBVIOUS
<1>2. \A x : (Ahead(t, u, x)' <=> Ahead(t, u, x)) /\ (Ahead(u, t, x)' <=> Ahead(u, t, x))
  OBVIOUS
<1>3. \A x : CatchesUp(u, t, x)' <=> CatchesUp(u, t, x)
  BY DEF CatchesUp
<1>4. QED
  BY <1>1, <1>2, <1>3 DEF InStep

(* Otherwise it changes nothing. *)
LEMMA ConnectJoint ==
  ASSUME TypeOK, Joint, Paced, NEW c \in Clients, Connect(c)
  PROVE  Joint'
<1>1. RoomLeft'
  BY ConnectRoom DEF Joint
<1>2. UNCHANGED <<status, source, db, record, svc, inbox, base, done>>
  BY DEF Connect
<1>3. Asked' /\ NamesCurrent' /\ OneAtATime'
  BY <1>2 DEF Joint, Asked, NamesCurrent, OneAtATime
<1>4. Joins'
  BY <1>2 DEF Joint, Joins, Synced, ServedBy
<1>7. Counted'
  BY <1>2 DEF Joint, Counted
<1>5. InStep'
  BY <1>2, InStepFrame DEF Joint, Running, Ahead
<1>6. QED
  BY <1>1, <1>3, <1>4, <1>5, <1>7 DEF Joint

(* What a thread is in the middle of. *)
LEMMA ServiceKinds ==
  /\ Idle.kind = "idle" /\ \A tx : Mirroring(tx).kind = "mirror" /\ Mirroring(tx).tx = tx
  /\ \A j, n : Serving(j, n).kind = "sync" /\ Serving(j, n).to = j /\ Serving(j, n).next = n
BY DEF Idle, Mirroring, Serving

(* Nothing is on its way when every thread is idle and no mail is left. *)
LEMMA NothingAhead ==
  ASSUME \A v \in Trackers : svc[v] = Idle /\ inbox[v] = <<>>,
         NEW t \in Trackers, NEW u \in Trackers
  PROVE  \A tx : ~Ahead(t, u, tx)
BY ServiceKinds DEF Ahead

(* The requests of a record that grew by one. *)
LEMMA AskedGrows ==
  ASSUME NEW rec \in Seq(Tx), \A i \in DOMAIN rec : rec[i].req \in Requests,
         NEW tx \in Tx, tx.req \in Requests
  PROVE  \A i \in DOMAIN Append(rec, tx) : Append(rec, tx)[i].req \in Requests
<1>1. /\ Len(rec) \in Nat /\ DOMAIN rec = 1..Len(rec)
      /\ Append(rec, tx) \in Seq(Tx) /\ Len(Append(rec, tx)) = Len(rec) + 1
      /\ \A n \in 1..Len(rec) : Append(rec, tx)[n] = rec[n]
      /\ Append(rec, tx)[Len(rec) + 1] = tx
  BY LenProperties, AppendProperties
<1>2. DOMAIN Append(rec, tx) = 1..(Len(rec) + 1)
  BY <1>1, LenProperties
<1>3. \A i \in 1..(Len(rec) + 1) : i \in 1..Len(rec) \/ i = Len(rec) + 1
  BY <1>1
<1>4. QED
  BY <1>1, <1>2, <1>3

(* Running a transaction keeps the names current. *)
LEMMA RunCurrent ==
  ASSUME TypeOK, NamesCurrent, NEW t \in Trackers, NEW c \in Clients, NEW req \in Requests,
         NEW out \in Outcomes(db[t], c, req), db' = [db EXCEPT ![t] = out.db]
  PROVE  NamesCurrent'
<1>. SUFFICES ASSUME \A r \in Requests : r.op # "delete_user", NEW u \in Trackers
              PROVE  Current(db'[u])
  BY DEF NamesCurrent
<1>1. db[t] \in DB /\ req \in Request /\ Current(db[t]) /\ Current(db[u])
  BY RequestsAssumption DEF TypeOK, NamesCurrent
<1>2. Current(out.db)
  BY <1>1, CurrentKept
<1>3. db'[u] = IF u = t THEN out.db ELSE db[u]
  BY DEF TypeOK
<1>4. QED
  BY <1>1, <1>2, <1>3

(* A request puts its tracker one transaction ahead, or changes a seeder at most. *)
LEMMA ServeJoint ==
  ASSUME TypeOK, Phases, Joint, Paced, OneRequester, NEW t \in Trackers, NEW c \in Clients,
         NEW req \in Requests, Serve(t, c, req)
  PROVE  Joint'
<1>1. PICK out \in Outcomes(db[t], c, req), replied \in {TRUE, ~May("reply")} :
        LET tx == [id |-> sent + 1, origin |-> c, req |-> req]
            kept == out.success /\ replied
        IN  /\ db' = [db EXCEPT ![t] = out.db]
            /\ record' = IF kept THEN [record EXCEPT ![t] = Append(@, tx)] ELSE record
            /\ svc' = IF kept THEN [svc EXCEPT ![t] = Mirroring(tx)] ELSE svc
            /\ done' = IF out.success THEN [done EXCEPT ![t] = Append(@, tx.id)] ELSE done
            /\ conn' \in IF replied THEN {conn} ELSE {conn, [conn EXCEPT ![c] = None]}
  BY Zenon DEF Serve
<1>0. PICK tx : tx = [id |-> sent + 1, origin |-> c, req |-> req]
  OBVIOUS
<1>2. /\ db' = [db EXCEPT ![t] = out.db]
      /\ record' = IF out.success THEN [record EXCEPT ![t] = Append(@, tx)] ELSE record
      /\ svc' = IF out.success THEN [svc EXCEPT ![t] = Mirroring(tx)] ELSE svc
      /\ done' = IF out.success THEN [done EXCEPT ![t] = Append(@, tx.id)] ELSE done
      /\ conn' = conn
  <2>1. replied = TRUE
    BY <1>1, NoHazard
  <2>2. QED
    BY <1>0, <1>1, <2>1
<1>3. /\ UNCHANGED <<status, source, inbox, base>> /\ status[t] = "up"
      /\ \A u \in Trackers : svc[u] = Idle /\ inbox[u] = <<>> /\ ~Joining(u)
  BY NoHazard DEF Serve, Mirrored, Ready
<1>4. req \in Request /\ tx \in Tx /\ tx.req = req /\ tx.origin = c
  BY <1>0, RequestsAssumption, BoundsAssumption DEF Serve, TypeOK, Tx
<1>5. db[t] \in DB /\ record[t] \in Seq(Tx)
  BY DEF TypeOK
<1>6. /\ db'[t] = out.db
      /\ record'[t] = IF out.success THEN Append(record[t], tx) ELSE record[t]
      /\ svc'[t] = IF out.success THEN Mirroring(tx) ELSE Idle
      /\ \A u \in Trackers \ {t} : db'[u] = db[u] /\ record'[u] = record[u] /\ svc'[u] = Idle
  BY <1>2, <1>3 DEF TypeOK
<1>15. /\ \A u \in Trackers \ {t} : done'[u] = done[u]
       /\ \A u \in Trackers : Len(done[u]) \in Nat
       /\ Len(done'[t]) = IF out.success THEN Len(done[t]) + 1 ELSE Len(done[t])
       /\ Len(record'[t]) = IF out.success THEN Len(record[t]) + 1 ELSE Len(record[t])
  <2>1. \A u \in Trackers : done[u] \in Seq(1..MaxTx) /\ Len(done[u]) \in Nat
    BY LenProperties DEF TypeOK
  <2>2. done'[t] = IF out.success THEN Append(done[t], tx.id) ELSE done[t]
    BY <1>2 DEF TypeOK
  <2>3. tx.id \in 1..MaxTx
    BY <1>4, TxParts
  <2>4. Len(Append(done[t], tx.id)) = Len(done[t]) + 1
    BY <2>1, <2>3, AppendProperties
  <2>5. Len(Append(record[t], tx)) = Len(record[t]) + 1
    BY <1>4, <1>5, AppendProperties
  <2>6. QED
    BY <1>2, <1>6, <2>1, <2>2, <2>4, <2>5 DEF TypeOK
<1>7. Asked'
  <2>1. \A i \in DOMAIN record'[t] : record'[t][i].req \in Requests
    BY <1>4, <1>5, <1>6, AskedGrows DEF Joint, Asked
  <2>2. \A u \in Trackers : svc'[u].kind = "mirror" => svc'[u].tx.req \in Requests
    BY <1>4, <1>6, ServiceKinds
  <2>3. QED
    BY <1>3, <1>6, <2>1, <2>2 DEF Joint, Asked
<1>8. NamesCurrent'
  BY <1>2, RunCurrent DEF Joint
<1>9. OneAtATime'
  BY <1>3, <1>6, ServiceKinds DEF OneAtATime
<1>10. RoomLeft'
  BY <1>2 DEF Joint, RoomLeft, Links
<1>11. Joins'
  <2>1. \A u \in Trackers : status[u] # "syncing" /\ status[u] # "starting"
    BY <1>3 DEF Joining
  <2>2. \A s, j \in Trackers : source[j] # s
    BY <2>1, TrackersAssumption DEF Phases
  <2>3. \A u \in Trackers : status[u] = "down" => db'[u] = EmptyDB
    BY <1>3, <1>6 DEF Joint, Joins
  <2>4. QED
    BY <1>3, <2>1, <2>2, <2>3 DEF Joint, Joins
<1>12. ASSUME NEW u \in Trackers, NEW v \in Trackers, u # v, Running(u), Running(v)
       PROVE  Same(db[u], db[v]) /\ Len(done[u]) = Len(done[v])
  <2>1. \A x : ~Ahead(u, v, x) /\ ~Ahead(v, u, x)
    BY <1>3, NothingAhead
  <2>2. QED
    BY <1>12, <2>1 DEF Joint, InStep
<1>13. InStep'
  <2>. SUFFICES ASSUME NEW u \in Trackers, NEW v \in Trackers, u # v, Running(u)', Running(v)'
                PROVE  /\ \A x : Ahead(u, v, x)' =>
                            CatchesUp(v, u, x)' /\ Len(done'[u]) = Len(done'[v]) + 1
                       /\ (\A x : ~Ahead(u, v, x)' /\ ~Ahead(v, u, x)') =>
                            Same(db'[u], db'[v]) /\ Len(done'[u]) = Len(done'[v])
    BY DEF InStep
  <2>1. Running(u) /\ Running(v) /\ (u = t \/ v = t)
    BY <1>3, TheTwo DEF Running
  <2>2. \A a, b \in Trackers : \A x : Ahead(a, b, x)' <=> (out.success /\ a = t /\ x = tx)
    BY <1>3, <1>6, ServiceKinds DEF Ahead
  <2>3. CASE out.success
    <3>1. Ahead(u, v, tx)' \/ Ahead(v, u, tx)'
      BY <2>1, <2>2, <2>3
    <3>2. ASSUME NEW x, Ahead(u, v, x)'
          PROVE  CatchesUp(v, u, x)' /\ Len(done'[u]) = Len(done'[v]) + 1
      <4>1. u = t /\ x = tx /\ v # t
        BY <2>2, <3>2
      <4>2. Same(db[v], db[t]) /\ db[v] \in DB
        BY <1>12, <2>1, <4>1, SameSymmetric DEF TypeOK
      <4>3. ASSUME NEW out2 \in Outcomes(db[v], c, req) PROVE Same(out2.db, out.db)
        BY <4>2, <4>3, Determined DEF Joint
      <4>4. CatchesUp(v, t, tx)'
        BY <1>4, <1>6, <4>1, <4>3 DEF CatchesUp
      <4>5. Len(done'[t]) = Len(done'[v]) + 1
        BY <1>12, <1>15, <2>1, <2>3, <4>1
      <4>6. QED
        BY <4>1, <4>4, <4>5
    <3>3. QED
      BY <3>1, <3>2
  <2>4. CASE ~out.success
    <3>1. Same(out.db, db[t])
      BY <1>4, <1>5, <2>4, FailureSame
    <3>2. Same(db'[u], db[u]) /\ Same(db'[v], db[v])
      BY <1>6, <2>1, <3>1, SameReflexive
    <3>3. Same(db'[u], db'[v])
      BY <1>12, <2>1, <3>2, SameSymmetric, SameTransitive
    <3>4. Len(done'[u]) = Len(done'[v])
      BY <1>12, <1>15, <2>1, <2>4
    <3>5. QED
      BY <2>2, <2>4, <3>3, <3>4
  <2>5. QED
    BY <2>3, <2>4
<1>16. Counted'
  <2>1. \A u \in Trackers \ {t} : record'[u] = record[u] /\ done'[u] = done[u]
    BY <1>6, <1>15
  <2>2. (\E u \in Trackers : status[u] # "up") => Len(record'[t]) = Len(done'[t])
    BY <1>3, <1>15 DEF Joint, Counted
  <2>3. QED
    BY <1>3, <2>1, <2>2 DEF Joint, Counted
<1>14. QED
  BY <1>7, <1>8, <1>9, <1>10, <1>11, <1>13, <1>16 DEF Joint

(* A thread does something else, but it neither served a start nor does now. *)
LEMMA JoinsFrame ==
  ASSUME Joins, UNCHANGED <<status, source, db, record, base>>,
         \A v \in Trackers : svc[v].kind = "sync" \/ svc'[v].kind = "sync" => svc'[v] = svc[v],
         \A v \in Trackers : svc[v] = Idle => svc'[v] = Idle
  PROVE  Joins'
<1>1. ASSUME NEW s \in Trackers, NEW j \in Trackers, source[j] = s
      PROVE  IF ServedBy(s, j)' THEN Synced(s, j)' ELSE db[j] = EmptyDB
  <2>1. ServedBy(s, j)' <=> ServedBy(s, j)
    BY DEF ServedBy
  <2>2. ServedBy(s, j) => svc'[s] = svc[s]
    BY DEF ServedBy
  <2>3. ServedBy(s, j) => (Synced(s, j) <=> Synced(s, j)')
    BY <2>2 DEF Synced
  <2>4. QED
    BY <1>1, <2>1, <2>3 DEF Joins
<1>2. QED
  BY <1>1 DEF Joins

(* A tracker with mail: all others are up, idle and without. *)
LEMMA MailAlone ==
  ASSUME TypeOK, Phases, OneAtATime, NEW t \in Trackers, NEW i \in DOMAIN inbox[t]
  PROVE  /\ i = 1 /\ DOMAIN inbox[t] = {1} /\ Len(inbox[t]) = 1
         /\ \A u \in Trackers :
              /\ svc[u] = Idle /\ status[u] = "up" /\ source[u] = None
              /\ u # t => inbox[u] = <<>>
<1>1. inbox[t] # <<>> /\ DOMAIN inbox[t] = 1..Len(inbox[t])
  BY BoxParts
<1>2. /\ Len(inbox[t]) = 1
      /\ \A u \in Trackers : svc[u] = Idle /\ status[u] = "up" /\ (u # t => inbox[u] = <<>>)
  BY <1>1 DEF OneAtATime
<1>3. \A u \in Trackers : source[u] = None
  BY <1>2 DEF Phases
<1>4. QED
  BY <1>1, <1>2, <1>3

(* While a tracker is not up there is no mail. *)
LEMMA NoMail ==
  ASSUME OneAtATime, NEW j \in Trackers, status[j] # "up"
  PROVE  \A u \in Trackers : inbox[u] = <<>>
BY DEF OneAtATime

(* The transaction passes from the thread to a connection. *)
LEMMA MirrorJoint ==
  ASSUME TypeOK, Phases, Joint, NEW t \in Trackers, Mirror(t)
  PROVE  Joint'
<1>1. PICK m : m = [tx |-> svc[t].tx, stage |-> "queued"]
  OBVIOUS
<1>2. /\ svc[t].kind = "mirror" /\ status[t] = "up"
      /\ UNCHANGED <<status, source, db, record, conn, base, done>>
  BY ServiceKinds DEF Mirror, Phases
<1>3. \A u \in Trackers : inbox[u] = <<>> /\ (u # t => svc[u] = Idle)
  BY <1>2 DEF Joint, OneAtATime
<1>4. /\ \A u \in Trackers : svc'[u] = Idle
      /\ \A u \in Trackers : inbox'[u] = IF u # t /\ status[u] = "up" THEN <<m>> ELSE <<>>
  <2>1. svc' = [svc EXCEPT ![t] = Idle]
    BY DEF Mirror
  <2>2. inbox' = [u \in Trackers |->
                    IF u # t /\ status[u] = "up" THEN Append(inbox[u], m) ELSE inbox[u]]
    BY <1>1 DEF Mirror
  <2>3. Append(<<>>, m) = <<m>>
    OBVIOUS
  <2>4. QED
    BY <1>3, <2>1, <2>2, <2>3 DEF TypeOK
<1>5. Asked'
  <2>1. m.tx.req \in Requests /\ \A i \in DOMAIN <<m>> : <<m>>[i] = m
    BY <1>1, <1>2 DEF Joint, Asked
  <2>2. \A u \in Trackers : \A i \in DOMAIN inbox'[u] : inbox'[u][i].tx.req \in Requests
    BY <1>4, <2>1
  <2>3. QED
    BY <1>2, <1>4, <2>2, ServiceKinds DEF Joint, Asked
<1>6. NamesCurrent' /\ RoomLeft'
  BY <1>2 DEF Joint, NamesCurrent, RoomLeft, Links
<1>7. OneAtATime'
  <2>1. ASSUME NEW u \in Trackers, inbox'[u] # <<>>
        PROVE  /\ Len(inbox'[u]) = 1
               /\ \A v \in Trackers : svc'[v] = Idle /\ status'[v] = "up" /\ (v # u => inbox'[v] = <<>>)
    <3>1. u # t /\ status[u] = "up" /\ inbox'[u] = <<m>>
      BY <1>4, <2>1
    <3>2. QED
      BY <1>2, <1>4, <3>1, TheTwo
  <2>2. QED
    BY <1>4, <2>1, ServiceKinds DEF OneAtATime
<1>8. Joins'
  BY <1>2, <1>3, <1>4, ServiceKinds, JoinsFrame DEF Joint
<1>9. ASSUME NEW u \in Trackers, NEW v \in Trackers, u # v, Running(u), Running(v), NEW x
      PROVE  Ahead(u, v, x)' <=> Ahead(u, v, x)
  <2>1. status[u] = "up" /\ status[v] = "up"
    BY <1>2, <1>9, ServiceKinds DEF Joint, Joins, Running
  <2>2. Ahead(u, v, x) <=> u = t /\ x = svc[t].tx
    BY <1>2, <1>3, ServiceKinds DEF Ahead
  <2>3. Ahead(u, v, x)' <=> \E i \in DOMAIN inbox'[v] :
                              inbox'[v][i].stage # "read" /\ inbox'[v][i].tx = x
    BY <1>4, ServiceKinds DEF Ahead
  <2>4. CASE v = t
    BY <1>4, <1>9, <2>2, <2>3, <2>4
  <2>5. CASE v # t
    <3>1. u = t
      BY <1>9, <2>5, TheTwo
    <3>2. inbox'[v] = <<m>> /\ m.tx = svc[t].tx /\ m.stage = "queued"
      BY <1>1, <1>4, <2>1, <2>5
    <3>3. Ahead(u, v, x)' <=> m.tx = x
      BY <2>3, <3>2
    <3>4. QED
      BY <2>2, <3>1, <3>2, <3>3
  <2>6. QED
    BY <2>4, <2>5
<1>10. InStep'
  BY <1>2, <1>9, InStepFrame DEF Joint, Running
<1>11. Counted'
  <2>1. \A u \in Trackers : inbox'[u] # <<>> => \E v \in Trackers : v # u
    BY <1>4
  <2>2. QED
    BY <1>2, <2>1 DEF Joint, Counted
<1>12. QED
  BY <1>5, <1>6, <1>7, <1>8, <1>10, <1>11 DEF Joint

(* Numbers one to n, and n is one. *)
LEMMA LengthOne == ASSUME NEW n \in Nat, 1..n = {1} PROVE n = 1
<1>1. n = 0 => 1 \notin 1..n
  OBVIOUS
<1>2. n # 0 => n \in 1..n
  OBVIOUS
<1>3. QED
  BY <1>1, <1>2

(* The connection is accepted: there is room for it. *)
LEMMA AcceptMirrorJoint ==
  ASSUME TypeOK, Phases, Joint, NEW t \in Trackers, AcceptMirror(t), TypeOK'
  PROVE  Joint'
<1>1. PICK i \in DOMAIN inbox[t] :
        /\ inbox[t][i].stage = "queued"
        /\ inbox' = IF HasRoom(t) THEN Staged(t, i, "accepted")
                    ELSE [inbox EXCEPT ![t] = Without(@, i)]
  BY DEF AcceptMirror, InStage
<1>2. /\ i = 1 /\ DOMAIN inbox[t] = {1} /\ Len(inbox[t]) = 1
      /\ \A u \in Trackers : /\ svc[u] = Idle /\ status[u] = "up" /\ source[u] = None
                             /\ u # t => inbox[u] = <<>>
  BY MailAlone DEF Joint
<1>3. UNCHANGED <<status, source, db, record, svc, conn, base, done>>
  BY DEF AcceptMirror
<1>4. HasRoom(t)
  BY <1>1, <1>2, RoomForOne DEF Joint
<1>5. /\ \A u \in Trackers \ {t} : inbox'[u] = inbox[u]
      /\ DOMAIN inbox'[t] = DOMAIN inbox[t]
      /\ inbox'[t][1].tx = inbox[t][1].tx
      /\ inbox'[t][1].stage = "accepted"
  BY <1>1, <1>2, <1>4, StagedElements
<1>6. Len(inbox'[t]) = 1
  <2>1. Len(inbox'[t]) \in Nat /\ DOMAIN inbox'[t] = 1..Len(inbox'[t])
    BY LenProperties DEF TypeOK
  <2>2. QED
    BY <1>2, <1>5, <2>1, LengthOne
<1>7. Asked'
  BY <1>2, <1>3, <1>5 DEF Joint, Asked
<1>8. NamesCurrent' /\ RoomLeft'
  BY <1>3 DEF Joint, NamesCurrent, RoomLeft, Links
<1>9. OneAtATime'
  BY <1>2, <1>3, <1>5, <1>6, ServiceKinds DEF OneAtATime
<1>10. Joins'
  BY <1>3, JoinsFrame DEF Joint
<1>11. ASSUME NEW u \in Trackers, NEW v \in Trackers, NEW x
       PROVE  Ahead(u, v, x)' <=> Ahead(u, v, x)
  BY <1>1, <1>2, <1>3, <1>5 DEF Ahead
<1>12. InStep'
  BY <1>3, <1>11, InStepFrame DEF Joint, Running
<1>13. Counted'
  BY <1>2, <1>3, <1>5 DEF Joint, Counted
<1>14. QED
  BY <1>7, <1>8, <1>9, <1>10, <1>12, <1>13 DEF Joint

(* A connection whose message was read is closed. *)
LEMMA CloseMirrorJoint ==
  ASSUME TypeOK, Phases, Joint, NEW t \in Trackers, CloseMirror(t)
  PROVE  Joint'
<1>1. PICK i \in DOMAIN inbox[t] :
        /\ inbox[t][i].stage = "read"
        /\ inbox' = [inbox EXCEPT ![t] = Without(@, i)]
  BY DEF CloseMirror, InStage
<1>2. /\ i = 1 /\ DOMAIN inbox[t] = {1} /\ Len(inbox[t]) = 1
      /\ \A u \in Trackers : /\ svc[u] = Idle /\ status[u] = "up" /\ source[u] = None
                             /\ u # t => inbox[u] = <<>>
  BY MailAlone DEF Joint
<1>3. UNCHANGED <<status, source, db, record, svc, conn, base, done>>
  BY DEF CloseMirror
<1>4. \A u \in Trackers : inbox'[u] = <<>>
  <2>1. inbox[t] \in Seq(Mail)
    BY DEF TypeOK
  <2>2. Without(inbox[t], i) \in Seq(Mail) /\ Len(Without(inbox[t], i)) = 0
    BY <1>2, <2>1, WithoutProperties
  <2>3. Without(inbox[t], i) = <<>>
    BY <2>2, EmptySeq
  <2>4. QED
    BY <1>1, <1>2, <2>3 DEF TypeOK
<1>5. Asked'
  BY <1>3, <1>4 DEF Joint, Asked
<1>6. NamesCurrent' /\ RoomLeft'
  BY <1>3 DEF Joint, NamesCurrent, RoomLeft, Links
<1>7. OneAtATime'
  BY <1>2, <1>3, <1>4, ServiceKinds DEF OneAtATime
<1>8. Joins'
  BY <1>3, JoinsFrame DEF Joint
<1>9. ASSUME NEW u \in Trackers, NEW v \in Trackers, NEW x
      PROVE  Ahead(u, v, x)' <=> Ahead(u, v, x)
  <2>1. ~Ahead(u, v, x)'
    BY <1>2, <1>3, <1>4, ServiceKinds DEF Ahead
  <2>2. ~Ahead(u, v, x)
    BY <1>1, <1>2, ServiceKinds DEF Ahead
  <2>3. QED
    BY <2>1, <2>2
<1>10. InStep'
  BY <1>3, <1>9, InStepFrame DEF Joint, Running
<1>11. Counted'
  BY <1>3, <1>4 DEF Joint, Counted
<1>12. QED
  BY <1>5, <1>6, <1>7, <1>8, <1>10, <1>11 DEF Joint

(* The other tracker catches up. *)
LEMMA RunMirroredJoint ==
  ASSUME TypeOK, Phases, Joint, NEW t \in Trackers, RunMirrored(t), TypeOK'
  PROVE  Joint'
<1>1. PICK i \in DOMAIN inbox[t] :
        /\ inbox[t][i].stage = "accepted"
        /\ \E out \in Outcomes(db[t], inbox[t][i].tx.origin, inbox[t][i].tx.req) :
             /\ db' = [db EXCEPT ![t] = out.db]
             /\ record' = IF out.success THEN [record EXCEPT ![t] = Append(@, inbox[t][i].tx)]
                          ELSE record
        /\ inbox' = Staged(t, i, "read")
        /\ done' = [done EXCEPT ![t] = Append(@, inbox[t][i].tx.id)]
  BY DEF RunMirrored, InStage
<1>2. PICK tx : tx = inbox[t][i].tx
  OBVIOUS
<1>3. PICK out \in Outcomes(db[t], tx.origin, tx.req) :
        /\ db' = [db EXCEPT ![t] = out.db]
        /\ record' = IF out.success THEN [record EXCEPT ![t] = Append(@, tx)] ELSE record
  BY <1>1, <1>2
<1>4. /\ i = 1 /\ DOMAIN inbox[t] = {1} /\ Len(inbox[t]) = 1
      /\ \A u \in Trackers : /\ svc[u] = Idle /\ status[u] = "up" /\ source[u] = None
                             /\ u # t => inbox[u] = <<>>
  BY MailAlone DEF Joint
<1>5. UNCHANGED <<status, source, svc, conn, base>>
  BY DEF RunMirrored
<1>6. tx \in Tx /\ tx.origin \in Clients /\ tx.req \in Requests
  <2>1. inbox[t][i] \in Mail
    BY BoxParts
  <2>2. tx.req \in Requests
    BY <1>2 DEF Joint, Asked
  <2>3. QED
    BY <1>2, <2>1, <2>2, TxParts DEF Mail
<1>7. /\ \A u \in Trackers \ {t} : inbox'[u] = inbox[u]
      /\ DOMAIN inbox'[t] = {1}
      /\ inbox'[t][1].tx = tx
      /\ inbox'[t][1].stage = "read"
  BY <1>1, <1>2, <1>4, StagedElements
<1>8. Len(inbox'[t]) = 1
  <2>1. Len(inbox'[t]) \in Nat /\ DOMAIN inbox'[t] = 1..Len(inbox'[t])
    BY LenProperties DEF TypeOK
  <2>2. QED
    BY <1>7, <2>1, LengthOne
<1>9. /\ db'[t] = out.db /\ record'[t] = IF out.success THEN Append(record[t], tx) ELSE record[t]
      /\ \A u \in Trackers \ {t} : db'[u] = db[u] /\ record'[u] = record[u]
  BY <1>3 DEF TypeOK
<1>10. Asked'
  <2>1. record[t] \in Seq(Tx)
    BY DEF TypeOK
  <2>2. \A k \in DOMAIN record'[t] : record'[t][k].req \in Requests
    BY <1>6, <1>9, <2>1, AskedGrows DEF Joint, Asked
  <2>3. \A u \in Trackers : \A k \in DOMAIN record'[u] : record'[u][k].req \in Requests
    BY <1>9, <2>2 DEF Joint, Asked
  <2>4. \A u \in Trackers : \A k \in DOMAIN inbox'[u] : inbox'[u][k].tx.req \in Requests
    BY <1>6, <1>7 DEF Joint, Asked
  <2>5. QED
    BY <1>4, <1>5, <2>3, <2>4, ServiceKinds DEF Asked
<1>11. NamesCurrent' /\ RoomLeft'
  <2>1. NamesCurrent'
    BY <1>3, <1>6, RunCurrent DEF Joint
  <2>2. RoomLeft'
    BY <1>5 DEF Joint, RoomLeft, Links
  <2>3. QED
    BY <2>1, <2>2
<1>12. OneAtATime'
  BY <1>4, <1>5, <1>7, <1>8, ServiceKinds DEF OneAtATime
<1>13. Joins'
  BY <1>4, <1>5, TrackersAssumption DEF Joins
<1>17. /\ \A u \in Trackers \ {t} : done'[u] = done[u]
       /\ Len(done'[t]) = Len(done[t]) + 1
  <2>1. done[t] \in Seq(1..MaxTx) /\ tx.id \in 1..MaxTx
    BY <1>6, TxParts DEF TypeOK
  <2>2. done' = [done EXCEPT ![t] = Append(@, tx.id)]
    BY <1>1, <1>2
  <2>3. Len(Append(done[t], tx.id)) = Len(done[t]) + 1
    BY <2>1, AppendProperties
  <2>4. QED
    BY <2>2, <2>3 DEF TypeOK
<1>18. Counted'
  <2>1. inbox[t] # <<>>
    BY <1>4, BoxParts
  <2>2. \A u \in Trackers : inbox'[u] # <<>> => u = t
    BY <1>4, <1>7
  <2>3. QED
    BY <1>4, <1>5, <2>1, <2>2 DEF Joint, Counted
<1>14. ASSUME NEW u \in Trackers, u # t
       PROVE  Same(db'[t], db'[u]) /\ Len(done'[t]) = Len(done'[u])
  <2>1. Running(t) /\ Running(u)
    BY <1>4 DEF Running
  <2>2. Ahead(u, t, tx)
    BY <1>1, <1>2 DEF Ahead
  <2>3. CatchesUp(t, u, tx) /\ Len(done[u]) = Len(done[t]) + 1
    BY <1>14, <2>1, <2>2 DEF Joint, InStep
  <2>4. QED
    BY <1>9, <1>14, <1>17, <2>3 DEF CatchesUp
<1>15. InStep'
  <2>1. \A u, v \in Trackers : \A x : ~Ahead(u, v, x)'
    BY <1>4, <1>5, <1>7, ServiceKinds DEF Ahead
  <2>2. ASSUME NEW u \in Trackers, NEW v \in Trackers, u # v
        PROVE  Same(db'[u], db'[v]) /\ Len(done'[u]) = Len(done'[v])
    <3>1. CASE u = t
      BY <1>14, <2>2, <3>1
    <3>2. CASE v = t
      BY <1>14, <2>2, <3>2, SameSymmetric
    <3>3. QED
      BY <2>2, <3>1, <3>2, TheTwo
  <2>3. QED
    BY <2>1, <2>2 DEF InStep
<1>16. QED
  BY <1>10, <1>11, <1>12, <1>13, <1>15, <1>18 DEF Joint

(* A tracker starts: with the others empty, or one of them to read from. *)
LEMMA StartJoint ==
  ASSUME TypeOK, Phases, Syncing, Joint, NEW j \in Trackers, Start(j)
  PROVE  Joint'
<1>. DEFINE up == {t \in Others(j) : status[t] = "up"}
<1>1. /\ status[j] = "down" /\ UNCHANGED <<db, record, svc, inbox, conn, base, done>>
      /\ IF up = {}
         THEN status' = [status EXCEPT ![j] = "starting"] /\ source' = source
         ELSE /\ status' = [status EXCEPT ![j] = "syncing"]
              /\ source' = [source EXCEPT ![j] = First(up)]
  BY DEF Start
<1>2. /\ \A u \in Trackers \ {j} : status'[u] = status[u] /\ source'[u] = source[u]
      /\ up = {} => status'[j] = "starting" /\ source'[j] = source[j]
      /\ up # {} => status'[j] = "syncing"
  BY <1>1 DEF TypeOK
<1>3. source[j] = None /\ svc[j] = Idle /\ db[j] = EmptyDB
  BY <1>1 DEF Phases, Joint, Joins
<1>4. \A s \in Trackers : source[j] # s /\ ~ServedBy(s, j)
  BY <1>3, TrackersAssumption DEF Syncing
<1>5. up = {} => \A u \in Trackers : /\ status[u] # "up" /\ svc[u] = Idle
                                    /\ db[u] = EmptyDB /\ done[u] = <<>>
  <2>. HAVE up = {}
  <2>1. \A u \in Trackers : status[u] # "up"
    BY <1>1 DEF Others
  <2>2. QED
    BY <2>1 DEF Phases, Joint, Joins, Counted
<1>6. \A u \in Trackers : inbox[u] = <<>>
  BY <1>1, NoMail DEF Joint
<1>7. Asked' /\ NamesCurrent' /\ RoomLeft'
  BY <1>1 DEF Joint, Asked, NamesCurrent, RoomLeft, Links
<1>8. OneAtATime'
  BY <1>1, <1>6 DEF Joint, OneAtATime
<1>9. Joins'
  <2>1. \A u \in Trackers : base'[u] = EmptyDB
    BY <1>1 DEF Joint, Joins
  <2>2. (\A u \in Trackers : status'[u] # "up") => \A u \in Trackers : db'[u] = EmptyDB
    BY <1>1, <1>2 DEF Joint, Joins
  <2>3. \A u \in Trackers : status'[u] = "down" => db'[u] = EmptyDB
    BY <1>1, <1>2 DEF Joint, Joins
  <2>4. \A u \in Trackers : status'[u] = "starting" => \A v \in Trackers : svc'[v] = Idle
    BY <1>1, <1>2, <1>5 DEF Joint, Joins
  <2>5. ASSUME NEW s \in Trackers, NEW q \in Trackers, source'[q] = s
        PROVE  IF ServedBy(s, q)' THEN Synced(s, q)' ELSE db'[q] = EmptyDB
    <3>1. CASE q = j
      BY <1>1, <1>3, <1>4, <3>1 DEF ServedBy
    <3>2. CASE q # j
      <4>1. source[q] = s
        BY <1>2, <2>5, <3>2
      <4>2. IF ServedBy(s, q) THEN Synced(s, q) ELSE db[q] = EmptyDB
        BY <4>1 DEF Joint, Joins
      <4>3. QED
        BY <1>1, <4>2 DEF ServedBy, Synced
    <3>3. QED
      BY <3>1, <3>2
  <2>6. QED
    BY <2>1, <2>2, <2>3, <2>4, <2>5 DEF Joins
<1>10. InStep'
  <2>1. CASE up = {}
    <3>1. \A u, v \in Trackers : \A x : ~Ahead(u, v, x)'
      BY <1>1, <1>5, <1>6, <2>1, ServiceKinds DEF Ahead
    <3>2. \A u, v \in Trackers : Same(db'[u], db'[v]) /\ done'[u] = done'[v]
      BY <1>1, <1>5, <2>1, SameReflexive
    <3>3. QED
      BY <3>1, <3>2 DEF InStep
  <2>2. CASE up # {}
    <3>1. \A u \in Trackers : Running(u)' => Running(u)
      BY <1>2, <2>2 DEF Running
    <3>2. \A u, v \in Trackers : \A x : Ahead(u, v, x)' <=> Ahead(u, v, x)
      BY <1>1 DEF Ahead
    <3>3. QED
      BY <1>1, <3>1, <3>2, InStepFrame DEF Joint
  <2>3. QED
    BY <2>1, <2>2
<1>11. Counted'
  <2>1. \A u \in Trackers : status'[u] = "up" <=> status[u] = "up"
    BY <1>1, <1>2
  <2>2. QED
    BY <1>1, <2>1 DEF Joint, Counted
<1>12. QED
  BY <1>7, <1>8, <1>9, <1>10, <1>11 DEF Joint

(* Two trackers, one up and the other reading or about to read its record. *)
LEMMA JoiningPair ==
  ASSUME TypeOK, Phases, OneAtATime, NEW s \in Trackers, NEW j \in Trackers,
         status[s] = "up", status[j] = "syncing"
  PROVE  /\ s # j /\ svc[j] = Idle /\ source[s] = None
         /\ \A u \in Trackers : u = s \/ u = j
         /\ \A u \in Trackers : inbox[u] = <<>>
<1>1. s # j
  OBVIOUS
<1>2. \A u \in Trackers : inbox[u] = <<>>
  BY NoMail
<1>3. QED
  BY <1>1, <1>2, TheTwo DEF Phases

(* The source begins to send its record. *)
LEMMA ServeSyncJoint ==
  ASSUME TypeOK, Phases, Joint, NEW s \in Trackers, NEW j \in Trackers, ServeSync(s, j)
  PROVE  Joint'
<1>1. /\ status[s] = "up" /\ svc[s] = Idle /\ status[j] = "syncing" /\ source[j] = s
      /\ svc' = [svc EXCEPT ![s] = Serving(j, 1)]
      /\ UNCHANGED <<status, source, db, record, inbox, conn, base, done>>
  BY DEF ServeSync, Ready
<1>2. /\ s # j /\ svc[j] = Idle /\ source[s] = None
      /\ \A u \in Trackers : u = s \/ u = j
      /\ \A u \in Trackers : inbox[u] = <<>>
  BY <1>1, JoiningPair DEF Joint
<1>3. svc'[s] = Serving(j, 1) /\ svc'[j] = Idle
  BY <1>1, <1>2 DEF TypeOK
<1>4. db[j] = EmptyDB
  BY <1>1, ServiceKinds DEF Joint, Joins, ServedBy
<1>5. Asked'
  BY <1>1, <1>2, <1>3, ServiceKinds DEF Joint, Asked
<1>6. NamesCurrent' /\ RoomLeft'
  BY <1>1 DEF Joint, NamesCurrent, RoomLeft, Links
<1>7. OneAtATime'
  BY <1>1, <1>2, <1>3, ServiceKinds DEF OneAtATime
<1>8. Joins'
  <2>1. Synced(s, j)'
    <3>1. ASSUME NEW f, IsReplay(f, EmptyDB, record[s]) PROVE f[0] = {EmptyDB}
      <4>1. Len(record[s]) \in Nat
        BY LenProperties DEF TypeOK
      <4>2. 0 \in 0..Len(record[s])
        BY <4>1
      <4>3. QED
        BY <3>1, <4>2 DEF IsReplay
    <3>2. svc'[s].next - 1 = 0
      BY <1>3, ServiceKinds
    <3>3. EmptyDB \in DB /\ Same(EmptyDB, db'[j])
      BY <1>1, <1>4, EmptySound, SameReflexive
    <3>4. QED
      BY <1>1, <3>1, <3>2, <3>3 DEF Synced
  <2>2. ServedBy(s, j)'
    BY <1>3, ServiceKinds DEF ServedBy
  <2>3. \A p, q \in Trackers : source'[q] = p => p = s /\ q = j
    BY <1>1, <1>2, TrackersAssumption
  <2>4. QED
    BY <1>1, <1>2, <2>1, <2>2, <2>3 DEF Joint, Joins
<1>9. \A u, v \in Trackers : \A x : Ahead(u, v, x)' <=> Ahead(u, v, x)
  BY <1>1, <1>2, <1>3, ServiceKinds DEF Ahead
<1>10. InStep'
  BY <1>1, <1>9, InStepFrame DEF Joint, Running
<1>11. Counted'
  BY <1>1 DEF Joint, Counted
<1>12. QED
  BY <1>5, <1>6, <1>7, <1>8, <1>10, <1>11 DEF Joint

(* Nobody is refused for want of room. *)
LEMMA RefuseSyncNever ==
  ASSUME TypeOK, Phases, Joint, NEW s \in Trackers, NEW j \in Trackers, RefuseSync(s, j)
  PROVE  FALSE
<1>1. status[s] = "up" /\ status[j] = "syncing" /\ ~HasRoom(s)
  BY DEF RefuseSync, Ready
<1>2. inbox[s] = <<>>
  BY <1>1, JoiningPair DEF Joint
<1>3. \A i \in DOMAIN inbox[s] : FALSE
  BY <1>2, BoxParts
<1>4. QED
  BY <1>1, <1>3, RoomForOne DEF Joint

(* One more transaction of the record is replayed. *)
LEMMA SyncOneJoint ==
  ASSUME TypeOK, Phases, Syncing, Joint, OneRequester, NEW s \in Trackers, SyncOne(s)
  PROVE  Joint'
<1>1. PICK j \in Trackers : j = svc[s].to /\ status[j] = "syncing" /\ source[j] = s
  BY SyncedIsNotUp DEF SyncOne
<1>2. PICK n : n = svc[s].next
  OBVIOUS
<1>3. PICK tx : tx = record[s][n]
  OBVIOUS
<1>4. /\ svc[s].kind = "sync" /\ n <= Len(record[s])
      /\ svc' = [svc EXCEPT ![s].next = @ + 1]
      /\ UNCHANGED <<status, source, record, inbox, conn, base>>
  BY <1>2 DEF SyncOne
<1>19. \A u \in Trackers \ {j} : done'[u] = done[u]
  BY <1>1 DEF SyncOne, TypeOK
<1>5. PICK out \in Outcomes(db[j], tx.origin, tx.req) : db' = [db EXCEPT ![j] = out.db]
  BY <1>1, <1>2, <1>3, Zenon DEF SyncOne
<1>6. status[s] = "up"
  BY <1>4, ServiceKinds DEF Phases
<1>7. /\ s # j /\ svc[j] = Idle /\ source[s] = None
      /\ \A u \in Trackers : u = s \/ u = j
      /\ \A u \in Trackers : inbox[u] = <<>>
  BY <1>1, <1>6, JoiningPair DEF Joint
<1>8. /\ n \in Nat \ {0} /\ svc'[s].kind = "sync" /\ svc'[s].to = j /\ svc'[s].next = n + 1
      /\ svc'[j] = Idle
  <2>1. svc[s] \in Service
    BY DEF TypeOK
  <2>2. svc'[s] = [svc[s] EXCEPT !.next = @ + 1] /\ svc'[j] = svc[j]
    BY <1>4, <1>7 DEF TypeOK
  <2>3. svc'[s].kind = svc[s].kind
    BY <2>1, <2>2 DEF Service, Idle
  <2>4. QED
    BY <1>1, <1>2, <1>4, <1>7, <2>1, <2>2, <2>3, ServiceParts
<1>9. /\ record[s] \in Seq(Tx) /\ Len(record[s]) \in Nat /\ n \in 1..Len(record[s])
      /\ DOMAIN record[s] = 1..Len(record[s])
  BY <1>4, <1>8, LenProperties DEF TypeOK
<1>10. tx \in Tx /\ tx.origin \in Clients /\ tx.req \in Requests
  BY <1>3, <1>9, ElementOfSeq, TxParts DEF Joint, Asked
<1>11. db'[j] = out.db /\ db'[s] = db[s] /\ db[j] \in DB
  BY <1>5, <1>7 DEF TypeOK
<1>12. Asked'
  BY <1>4, <1>7, <1>8, ServiceKinds DEF Joint, Asked
<1>13. NamesCurrent' /\ RoomLeft'
  <2>1. NamesCurrent'
    BY <1>5, <1>10, RunCurrent DEF Joint
  <2>2. RoomLeft'
    BY <1>4 DEF Joint, RoomLeft, Links
  <2>3. QED
    BY <2>1, <2>2
<1>14. OneAtATime'
  BY <1>4, <1>7, <1>8, ServiceKinds DEF OneAtATime
<1>15. Synced(s, j)'
  <2>1. Synced(s, j)
    BY <1>1, <1>4 DEF Joint, Joins, ServedBy
  <2>2. ASSUME NEW f, IsReplay(f, EmptyDB, record[s]), NEW x \in f[n]
        PROVE  x \in DB /\ Same(x, db'[j])
    <3>1. f[n] = Then(f[n - 1], tx)
      <4>1. \A k \in 0..Len(record[s]) :
              f[k] = IF k = 0 THEN {EmptyDB} ELSE Then(f[k - 1], record[s][k])
        BY <2>2 DEF IsReplay, Then
      <4>2. n \in 0..Len(record[s]) /\ n # 0
        BY <1>9
      <4>3. QED
        BY <1>3, <4>1, <4>2
    <3>2. PICK e \in f[n - 1] : \E o \in Outcomes(e, tx.origin, tx.req) : x = o.db
      BY <2>2, <3>1 DEF Then
    <3>3. PICK o \in Outcomes(e, tx.origin, tx.req) : x = o.db
      BY <3>2
    <3>4. e \in DB /\ Same(e, db[j])
      BY <1>2, <2>1, <2>2, <3>2 DEF Synced
    <3>5. Same(o.db, out.db)
      BY <1>10, <3>4, Determined DEF Joint
    <3>6. o.db \in DB
      BY <1>10, <3>4, OutcomeType, RequestsAssumption
    <3>7. QED
      BY <1>11, <3>3, <3>5, <3>6
  <2>3. svc'[s].next - 1 = n
    BY <1>8
  <2>4. QED
    BY <1>4, <2>2, <2>3 DEF Synced
<1>16. Joins'
  <2>1. ServedBy(s, j)'
    BY <1>8 DEF ServedBy
  <2>2. \A p, q \in Trackers : source'[q] = p => p = s /\ q = j
    BY <1>1, <1>4, <1>7, TrackersAssumption
  <2>3. \A u \in Trackers : base'[u] = EmptyDB
    BY <1>1, <1>4 DEF Joint, Joins
  <2>4. \A u \in Trackers : status'[u] # "down" /\ status'[u] # "starting"
    BY <1>1, <1>4, <1>6, <1>7
  <2>5. QED
    BY <1>4, <1>6, <1>15, <2>1, <2>2, <2>3, <2>4 DEF Joins
<1>17. InStep'
  BY <1>1, <1>4, <1>7 DEF InStep, Running
<1>18. Counted'
  <2>1. \A u \in Trackers : status[u] = "up" => u = s
    BY <1>1, <1>7
  <2>2. done'[s] = done[s]
    BY <1>7, <1>19
  <2>3. QED
    BY <1>4, <1>6, <1>7, <2>1, <2>2 DEF Joint, Counted
<1>20. QED
  BY <1>12, <1>13, <1>14, <1>16, <1>17, <1>18 DEF Joint

(* All was replayed: what the record leads to is what its tracker has. *)
LEMMA SyncDoneJoint ==
  ASSUME TypeOK, Phases, Syncing, Recorded, Joint, NEW s \in Trackers, SyncDone(s)
  PROVE  Joint'
<1>1. PICK j \in Trackers : j = svc[s].to /\ status[j] = "syncing" /\ source[j] = s
  BY SyncedIsNotUp DEF SyncDone
<1>2. /\ svc[s].kind = "sync" /\ svc[s].next > Len(record[s])
      /\ svc' = [svc EXCEPT ![s] = Idle]
      /\ status' = [status EXCEPT ![j] = "starting"]
      /\ source' = [source EXCEPT ![j] = None]
      /\ UNCHANGED <<db, record, inbox, conn, base, done>>
  BY <1>1 DEF SyncDone
<1>3. status[s] = "up" /\ ServedBy(s, j)
  BY <1>1, <1>2, ServiceKinds DEF Phases, ServedBy
<1>4. /\ s # j /\ svc[j] = Idle /\ source[s] = None
      /\ \A u \in Trackers : u = s \/ u = j
      /\ \A u \in Trackers : inbox[u] = <<>>
  BY <1>1, <1>3, JoiningPair DEF Joint
<1>5. /\ \A u \in Trackers : svc'[u] = Idle
      /\ status'[s] = "up" /\ status'[j] = "starting"
      /\ source'[s] = None /\ source'[j] = None
  BY <1>2, <1>3, <1>4 DEF TypeOK
<1>6. Asked' /\ NamesCurrent' /\ RoomLeft'
  BY <1>2, <1>5, ServiceKinds DEF Joint, Asked, NamesCurrent, RoomLeft, Links
<1>7. OneAtATime'
  BY <1>2, <1>4, <1>5, ServiceKinds DEF OneAtATime
<1>8. Joins'
  <2>1. \A u \in Trackers : base'[u] = EmptyDB
    BY <1>1, <1>2 DEF Joint, Joins
  <2>2. \A p, q \in Trackers : source'[q] # p
    BY <1>4, <1>5, TrackersAssumption
  <2>3. \A u \in Trackers : status'[u] # "down"
    BY <1>4, <1>5
  <2>4. QED
    BY <1>5, <2>1, <2>2, <2>3 DEF Joins
<1>9. Same(db[j], db[s]) /\ Len(done[j]) = Len(done[s])
  <2>1. svc[s].next - 1 = Len(record[s]) /\ Len(done[j]) = Len(record[s])
    <3>1. Len(done[j]) = svc[s].next - 1 /\ Len(done[j]) <= Len(record[s])
      BY <1>3 DEF Syncing
    <3>2. Len(record[s]) \in Nat /\ svc[s].next \in Nat
      BY <1>2, ServiceParts, LenProperties DEF TypeOK
    <3>3. QED
      BY <1>2, <3>1, <3>2
  <2>2. LeadsTo(EmptyDB, record[s], db[s])
    BY <1>1, <1>3 DEF Joint, Joins, Recorded
  <2>3. Synced(s, j)
    BY <1>1, <1>3 DEF Joint, Joins
  <2>4. PICK f : IsReplay(f, EmptyDB, record[s])
    BY <2>2 DEF LeadsTo
  <2>5. PICK x \in f[Len(record[s])] : Same(x, db[s])
    BY <2>2, <2>4 DEF LeadsTo
  <2>6. Same(x, db[j])
    BY <2>1, <2>3, <2>4, <2>5 DEF Synced
  <2>7. Len(record[s]) = Len(done[s])
    BY <1>1, <1>3 DEF Joint, Counted
  <2>8. QED
    BY <2>1, <2>5, <2>6, <2>7, SameSymmetric, SameTransitive
<1>10. InStep'
  <2>1. \A u, v \in Trackers : \A x : ~Ahead(u, v, x)'
    BY <1>2, <1>4, <1>5, ServiceKinds DEF Ahead
  <2>2. Same(db'[j], db'[s]) /\ Same(db'[s], db'[j])
    BY <1>2, <1>9, SameSymmetric
  <2>3. \A u, v \in Trackers : Len(done'[u]) = Len(done'[v])
    BY <1>2, <1>4, <1>9
  <2>4. QED
    BY <1>4, <2>1, <2>2, <2>3 DEF InStep
<1>11. Counted'
  <2>1. \A u \in Trackers : status'[u] = "up" <=> status[u] = "up"
    BY <1>1, <1>3, <1>4, <1>5
  <2>2. QED
    BY <1>2, <2>1 DEF Joint, Counted
<1>12. QED
  BY <1>6, <1>7, <1>8, <1>10, <1>11 DEF Joint

(* The tracker listens, as up to date as those that do. *)
LEMMA ListenJoint ==
  ASSUME TypeOK, Phases, Joint, NEW j \in Trackers, Listen(j)
  PROVE  Joint'
<1>1. /\ status[j] = "starting" /\ UNCHANGED <<source, db, record, svc, inbox, conn, done>>
      /\ \A u \in Trackers \ {j} : status'[u] = status[u] /\ base'[u] = base[u]
      /\ status'[j] = "up" /\ base'[j] = db[j]
  BY DEF Listen, TypeOK
<1>2. \A u \in Trackers : inbox[u] = <<>> /\ svc[u] = Idle
  BY <1>1, NoMail DEF Joint, Joins
<1>3. Asked' /\ NamesCurrent' /\ RoomLeft'
  BY <1>1 DEF Joint, Asked, NamesCurrent, RoomLeft, Links
<1>4. OneAtATime'
  BY <1>1, <1>2, ServiceKinds DEF OneAtATime
<1>5. Joins'
  <2>1. ASSUME NEW u \in Trackers, status'[u] # "up" PROVE \A v \in Trackers : base'[v] = EmptyDB
    <3>1. u # j /\ status[u] # "up"
      BY <1>1, <2>1
    <3>2. \A v \in Trackers : v = u \/ v = j
      BY <3>1, TheTwo
    <3>3. db[j] = EmptyDB /\ base[u] = EmptyDB
      BY <1>1, <3>1, <3>2 DEF Joint, Joins
    <3>4. QED
      BY <1>1, <3>1, <3>2, <3>3
  <2>2. \A s, q \in Trackers : ServedBy(s, q)' <=> ServedBy(s, q)
    BY <1>1 DEF ServedBy
  <2>3. \A s, q \in Trackers : source'[q] = s =>
          IF ServedBy(s, q)' THEN Synced(s, q)' ELSE db'[q] = EmptyDB
    BY <1>1, <2>2 DEF Joint, Joins, Synced
  <2>4. \A u \in Trackers : status'[u] = "down" => db'[u] = EmptyDB
    BY <1>1 DEF Joint, Joins
  <2>5. \A u \in Trackers : svc'[u] = Idle
    BY <1>1, <1>2
  <2>6. QED
    BY <1>1, <2>1, <2>3, <2>4, <2>5 DEF Joins
<1>6. \A u \in Trackers : Running(u)' <=> Running(u)
  BY <1>1 DEF Running
<1>7. \A u, v \in Trackers : \A x : Ahead(u, v, x)' <=> Ahead(u, v, x)
  BY <1>1 DEF Ahead
<1>8. InStep'
  BY <1>1, <1>6, <1>7, InStepFrame DEF Joint
<1>9. Counted'
  <2>1. ASSUME NEW u \in Trackers, NEW v \in Trackers, status'[u] # "up", status'[v] = "up"
        PROVE  Len(record'[v]) = Len(done'[v])
    <3>1. status[u] # "up" /\ status[j] # "up" /\ \A w \in Trackers : w = u \/ w = j
      BY <1>1, <2>1, TheTwo
    <3>2. v = j
      BY <2>1, <3>1
    <3>3. record[j] = <<>> /\ done[j] = <<>>
      BY <3>1 DEF Phases, Joint, Counted
    <3>4. QED
      BY <1>1, <3>2, <3>3
  <2>2. QED
    BY <1>1, <2>1 DEF Joint, Counted
<1>10. QED
  BY <1>3, <1>4, <1>5, <1>8, <1>9 DEF Joint

(* Every step keeps the trackers in step. *)
LEMMA StepJoint ==
  ASSUME TypeOK, Phases, Syncing, Recorded, Joint, Paced, OneRequester, [Next]_vars, TypeOK'
  PROVE  Joint'
<1>1. ASSUME NEW c \in Clients, Connect(c) PROVE Joint'
  BY <1>1, ConnectJoint
<1>2. ASSUME NEW t \in Trackers, NEW c \in Clients, NEW req \in Requests, Serve(t, c, req)
      PROVE  Joint'
  BY <1>2, ServeJoint
<1>3. ASSUME NEW t \in Trackers, ServiceStep(t) PROVE Joint'
  <2>1. CASE Mirror(t)
    BY <2>1, MirrorJoint
  <2>2. CASE AcceptMirror(t)
    BY <2>2, AcceptMirrorJoint
  <2>3. CASE RunMirrored(t)
    BY <2>3, RunMirroredJoint
  <2>4. CASE CloseMirror(t)
    BY <2>4, CloseMirrorJoint
  <2>5. ASSUME NEW j \in Others(t), ServeSync(t, j) PROVE Joint'
    BY <2>5, ServeSyncJoint DEF Others
  <2>6. ASSUME NEW j \in Others(t), RefuseSync(t, j) PROVE Joint'
    BY <2>6, RefuseSyncNever DEF Others
  <2>7. CASE SyncOne(t)
    BY <2>7, SyncOneJoint
  <2>8. CASE SyncDone(t)
    BY <2>8, SyncDoneJoint
  <2>9. QED
    BY <1>3, <2>1, <2>2, <2>3, <2>4, <2>5, <2>6, <2>7, <2>8 DEF ServiceStep
<1>4. ASSUME NEW t \in Trackers, Start(t) PROVE Joint'
  BY <1>4, StartJoint
<1>5. ASSUME NEW t \in Trackers, Listen(t) PROVE Joint'
  BY <1>5, ListenJoint
<1>6. ASSUME NEW t \in Trackers, Stop(t) PROVE Joint'
  BY <1>6, NoHazard DEF Stop
<1>7. CASE UNCHANGED vars
  <2>1. Asked' /\ NamesCurrent' /\ OneAtATime' /\ RoomLeft'
    BY <1>7 DEF vars, Joint, Asked, NamesCurrent, OneAtATime, RoomLeft, Links
  <2>2. Joins'
    BY <1>7, JoinsFrame DEF vars, Joint
  <2>3. InStep'
    BY <1>7, InStepFrame DEF vars, Joint, Running, Ahead
  <2>4. Counted'
    BY <1>7 DEF vars, Joint, Counted
  <2>5. QED
    BY <2>1, <2>2, <2>3, <2>4 DEF Joint
<1>8. QED
  BY <1>1, <1>2, <1>3, <1>4, <1>5, <1>6, <1>7 DEF Next

(* Trackers that know nothing agree. *)
LEMMA InitJoint ==
  ASSUME Init, Paced PROVE Joint
<1>1. /\ \A t \in Trackers : /\ status[t] \in {"up", "down"} /\ source[t] = None
                             /\ db[t] = EmptyDB /\ base[t] = EmptyDB
                             /\ record[t] = <<>> /\ done[t] = <<>> /\ svc[t] = Idle /\ inbox[t] = <<>>
      /\ \A c \in Clients : conn[c] = None
  BY DEF Init
<1>2. Asked /\ OneAtATime
  BY <1>1, ServiceKinds DEF Asked, OneAtATime
<1>3. NamesCurrent
  <2>1. Pointed(EmptyDB) = {}
    BY DEF Pointed, Accounts, Sessions, Existing, EmptyDB
  <2>2. QED
    BY <1>1, <2>1 DEF NamesCurrent, Current
<1>4. RoomLeft
  <2>1. \A t \in Trackers : Links(t) = {}
    BY <1>1, TrackersAssumption DEF Links
  <2>2. 0 < MaxConnections
    BY NoHazard, BoundsAssumption
  <2>3. QED
    BY <2>1, <2>2, FS_EmptySet DEF RoomLeft
<1>5. Joins
  <2>1. \A s, j \in Trackers : source[j] # s
    BY <1>1, TrackersAssumption
  <2>2. QED
    BY <1>1, <2>1 DEF Joins
<1>6. InStep
  BY <1>1, SameReflexive, ServiceKinds DEF InStep, Ahead
<1>7. Counted
  BY <1>1 DEF Counted
<1>8. QED
  BY <1>2, <1>3, <1>4, <1>5, <1>6, <1>7 DEF Joint

(* When nothing is on its way, trackers in step agree. *)
LEMMA JointAgrees ==
  ASSUME Joint PROVE Agreement
<1>. SUFFICES ASSUME Mirrored, NEW t \in Trackers, NEW u \in Trackers,
                     status[t] = "up", status[u] = "up"
              PROVE  Summary(db[t]) = Summary(db[u])
  BY DEF Agreement
<1>1. CASE t = u
  BY <1>1
<1>2. CASE t # u
  <2>1. \A tx : ~Ahead(t, u, tx) /\ ~Ahead(u, t, tx)
    BY NothingAhead DEF Mirrored
  <2>2. Same(db[t], db[u])
    BY <1>2, <2>1 DEF Joint, InStep, Running
  <2>3. QED
    BY <2>2, SameSummary
<1>3. QED
  BY <1>1, <1>2

(* When requests are paced and a name stands for one requester, trackers agree
   whenever everything is mirrored: through the start of the second one, its
   synchronisation, and everything that clients ask of either. *)
THEOREM AgreementCorrect ==
  ASSUME Paced, OneRequester PROVE Spec => []Agreement
<1>1. ~May("reply")
  BY NoHazard
<1>2. Init => Recorded /\ Joint
  BY InitRecorded, InitJoint
<1>3. TypeOK /\ OnceInv /\ Recorded /\ Joint /\ [Next]_vars /\ TypeOK' => Recorded' /\ Joint'
  BY <1>1, StepRecorded, StepJoint DEF OnceInv
<1>4. Joint => Agreement
  BY JointAgrees
<1>5. QED
  BY <1>2, <1>3, <1>4, RunOnceInvariant, PTL DEF Spec

-----------------------------------------------------------------------------
(* One tracker. *)

(* One client does the uploading.  A second one would become one more seeder of a
   file the group has, which counts as a failure and is not mirrored. *)
OneUploader ==
  \A r1, r2 \in Requests :
    r1.op = "upload_file" /\ r2.op = "upload_file" => r1.endpoint = r2.endpoint

(* That client, if there are uploads. *)
Uploaders == {r.endpoint : r \in {x \in Requests : x.op = "upload_file"}}

(* It seeds every file of every tracker, and nobody else does. *)
Sole == \A t \in Trackers : SeededBy(db[t], Uploaders)

(* A tracker that has run no less than those that are up. *)
Foremost(t) ==
  \A u \in Trackers : status[u] = "up" => status[t] = "up" /\ Len(done[t]) >= Len(done[u])

(* It does not matter which of them one looks at. *)
Front == \A t \in Trackers : Foremost(t) => db[t] = db[Newest]

(* A user is made by a transaction. *)
FewMade == db[Newest].made <= sent

-----------------------------------------------------------------------------
(* Running what was asked keeps the seeder. *)
LEMMA RunSole ==
  ASSUME TypeOK, Sole, OneUploader, NEW t \in Trackers, NEW c \in Clients,
         NEW req \in Requests, NEW out \in Outcomes(db[t], c, req),
         db' = [db EXCEPT ![t] = out.db]
  PROVE  Sole'
<1>1. db[t] \in DB /\ req \in Request /\ SeededBy(db[t], Uploaders)
  BY RequestsAssumption DEF TypeOK, Sole
<1>2. req.op = "upload_file" => Uploaders = {req.endpoint}
  BY DEF OneUploader, Uploaders
<1>3. SeededBy(out.db, Uploaders)
  BY <1>1, <1>2, SeededByKept
<1>4. \A u \in Trackers : db'[u] = IF u = t THEN out.db ELSE db[u]
  BY DEF TypeOK
<1>5. QED
  BY <1>3, <1>4 DEF Sole

(* And so does every step. *)
LEMMA StepSole ==
  ASSUME TypeOK, Phases, Syncing, Asked, Sole, Paced, OneUploader, [Next]_vars
  PROVE  Sole'
<1>1. CASE UNCHANGED db
  BY <1>1 DEF Sole
<1>2. ASSUME NEW t \in Trackers, NEW c \in Clients, NEW req \in Requests, Serve(t, c, req)
      PROVE  Sole'
  <2>1. \E out \in Outcomes(db[t], c, req) : db' = [db EXCEPT ![t] = out.db]
    BY <1>2 DEF Serve
  <2>2. QED
    BY <2>1, RunSole
<1>3. ASSUME NEW t \in Trackers, RunMirrored(t) PROVE Sole'
  <2>1. PICK i \in DOMAIN inbox[t] :
          \E out \in Outcomes(db[t], inbox[t][i].tx.origin, inbox[t][i].tx.req) :
            db' = [db EXCEPT ![t] = out.db]
    BY <1>3 DEF RunMirrored, InStage
  <2>2. inbox[t][i].tx.origin \in Clients /\ inbox[t][i].tx.req \in Requests
    BY BoxParts, TxParts DEF Mail, Asked
  <2>3. QED
    BY <2>1, <2>2, RunSole
<1>4. ASSUME NEW s \in Trackers, SyncOne(s) PROVE Sole'
  <2>1. PICK j \in Trackers : j = svc[s].to
    BY <1>4, SyncedIsNotUp DEF SyncOne
  <2>2. PICK tx : tx = record[s][svc[s].next]
    OBVIOUS
  <2>3. \E out \in Outcomes(db[j], tx.origin, tx.req) : db' = [db EXCEPT ![j] = out.db]
    BY <1>4, <2>1, <2>2, Zenon DEF SyncOne
  <2>4. svc[s].next \in 1..Len(record[s]) /\ DOMAIN record[s] = 1..Len(record[s])
    <3>1. svc[s].next \in Nat \ {0} /\ svc[s].next <= Len(record[s])
      BY <1>4, ServiceParts DEF SyncOne, TypeOK
    <3>2. Len(record[s]) \in Nat /\ DOMAIN record[s] = 1..Len(record[s])
      BY LenProperties DEF TypeOK
    <3>3. QED
      BY <3>1, <3>2
  <2>5. tx.origin \in Clients /\ tx.req \in Requests
    <3>1. tx \in Tx
      BY <2>2, <2>4, ElementOfSeq DEF TypeOK
    <3>2. QED
      BY <2>2, <2>4, <3>1, TxParts DEF Asked
  <2>6. QED
    BY <2>3, <2>5, RunSole
<1>5. ASSUME NEW t \in Trackers, ServiceStep(t) PROVE Sole'
  BY <1>1, <1>3, <1>4, <1>5
     DEF ServiceStep, Mirror, AcceptMirror, CloseMirror, ServeSync, RefuseSync, SyncDone
<1>6. ASSUME NEW t \in Trackers, Stop(t) PROVE Sole'
  BY <1>6, NoHazard DEF Stop
<1>7. QED
  BY <1>1, <1>2, <1>5, <1>6 DEF Next, vars, Connect, Start, Listen

(* There are no files. *)
LEMMA InitSole == ASSUME Init PROVE Sole
<1>1. Existing(EmptyDB) = {}
  BY DEF Existing, EmptyDB
<1>2. QED
  BY <1>1 DEF Init, Sole, SeededBy

-----------------------------------------------------------------------------
(* A number of transactions. *)
LEMMA DoneParts ==
  ASSUME TypeOK, NEW t \in Trackers
  PROVE  Len(done[t]) \in Nat
BY LenProperties DEF TypeOK

(* Of two trackers one has run no less than the other. *)
LEMMA SomeForemost ==
  ASSUME TypeOK, Trackers # {}
  PROVE  \E t \in Trackers : Foremost(t)
<1>1. PICK t \in Trackers : TRUE
  OBVIOUS
<1>2. CASE \A u \in Trackers : u = t
  BY <1>2, DoneParts DEF Foremost
<1>3. ASSUME NEW u \in Trackers, u # t PROVE Foremost(t) \/ Foremost(u)
  <2>1. Len(done[t]) \in Nat /\ Len(done[u]) \in Nat
    BY DoneParts
  <2>2. \A v \in Trackers : v = t \/ v = u
    BY <1>3, TheTwo
  <2>3. QED
    BY <2>1, <2>2 DEF Foremost
<1>4. QED
  BY <1>2, <1>3

(* The choice of Newest is one of these. *)
LEMMA NewestForemost ==
  ASSUME TypeOK, Trackers # {}
  PROVE  Newest \in Trackers /\ Foremost(Newest)
BY SomeForemost DEF Newest, Foremost

(* Two that are up and have run as much are in step. *)
LEMMA JointFront ==
  ASSUME TypeOK, Joint, Sole, Trackers # {}
  PROVE  Front
<1>. SUFFICES ASSUME NEW t \in Trackers, Foremost(t) PROVE db[t] = db[Newest]
  BY DEF Front
<1>1. PICK v \in Trackers : v = Newest /\ Foremost(v)
  BY NewestForemost
<1>2. CASE \A u \in Trackers : status[u] # "up"
  BY <1>1, <1>2 DEF Joint, Joins
<1>3. CASE t # v /\ status[t] = "up" /\ status[v] = "up"
  <2>1. Len(done[t]) \in Nat /\ Len(done[v]) \in Nat
    BY DoneParts
  <2>2. Len(done[t]) = Len(done[v])
    BY <1>1, <1>3, <2>1 DEF Foremost
  <2>3. Running(t) /\ Running(v)
    BY <1>3 DEF Running
  <2>4. \A tx : ~Ahead(t, v, tx) /\ ~Ahead(v, t, tx)
    BY <1>3, <2>1, <2>2, <2>3 DEF Joint, InStep
  <2>5. Same(db[t], db[v])
    BY <1>3, <2>3, <2>4 DEF Joint, InStep
  <2>6. QED
    BY <1>1, <2>5, SameAlike DEF TypeOK, Sole
<1>4. QED
  BY <1>1, <1>2, <1>3 DEF Foremost

(* A step that leaves one of them in front and its databases alone hides. *)
LEMMA FrontStays ==
  ASSUME Front, Front', NEW w \in Trackers, Foremost(w), Foremost(w)', db'[w] = db[w]
  PROVE  UNCHANGED db[Newest]
BY DEF Front

(* So does one that runs nothing and lets nobody in or out. *)
LEMMA FrontUntouched ==
  ASSUME TypeOK, Trackers # {}, Front, Front', UNCHANGED <<db, done>>,
         \A u \in Trackers : status'[u] = "up" <=> status[u] = "up"
  PROVE  UNCHANGED db[Newest]
<1>1. PICK w \in Trackers : Foremost(w)
  BY SomeForemost
<1>2. Foremost(w)'
  BY <1>1 DEF Foremost
<1>3. QED
  BY <1>1, <1>2, FrontStays

(* The single tracker answers as these do. *)
LEMMA SameOutcomes ==
  ASSUME NEW d, NEW c, NEW req
  PROVE  OneTracker!Outcomes(d, c, req) = Outcomes(d, c, req)
<1>1. OneTracker!UserOutcomes(d, c, req) = UserOutcomes(d, c, req)
  BY DEF OneTracker!UserOutcomes, OneTracker!CreateUser, OneTracker!DeleteUser,
         OneTracker!Login, OneTracker!Logout, OneTracker!Success, OneTracker!Failure,
         OneTracker!UserExists, UserOutcomes, CreateUser, DeleteUser, Login, Logout,
         Success, Failure, UserExists
<1>2. ASSUME NEW u
      PROVE  OneTracker!GroupOutcomes(d, u, req) = GroupOutcomes(d, u, req)
  BY DEF OneTracker!GroupOutcomes, OneTracker!CreateGroup, OneTracker!JoinGroup,
         OneTracker!LeaveGroup, OneTracker!AcceptRequest, OneTracker!Success,
         OneTracker!Failure, OneTracker!IsMember, OneTracker!Admit, OneTracker!Named,
         GroupOutcomes, CreateGroup, JoinGroup, LeaveGroup, AcceptRequest,
         Success, Failure, IsMember, Admit, Named
<1>3. ASSUME NEW u
      PROVE  OneTracker!FileOutcomes(d, u, req) = FileOutcomes(d, u, req)
  BY DEF OneTracker!FileOutcomes, OneTracker!UploadFile, OneTracker!DownloadFile,
         OneTracker!Success, OneTracker!Failure, OneTracker!IsMember, OneTracker!MayUse,
         OneTracker!SameFile, OneTracker!AddSeeder, FileOutcomes, UploadFile, DownloadFile,
         Success, Failure, IsMember, MayUse, SameFile, AddSeeder
<1>4. /\ OneTracker!UserRequest = UserRequest /\ OneTracker!GroupRequest = GroupRequest
      /\ OneTracker!QueryRequest = QueryRequest
  BY DEF OneTracker!UserRequest, OneTracker!GroupRequest, OneTracker!QueryRequest,
         UserRequest, GroupRequest, QueryRequest
<1>5. QED
  BY <1>1, <1>2, <1>3, <1>4 DEF OneTracker!Outcomes, Outcomes, OneTracker!Failure, Failure

(* Every request is one of the single tracker, which makes as many users. *)
LEMMA RequestIsStep ==
  ASSUME NEW c \in Clients, NEW req \in Request, Own(c, req), db[Newest].made < MaxTx,
         OneTracker!Handle(c, req)
  PROVE  OneTracker!Next
<1>1. CASE req \in UserRequest
  <2>1. CASE req.op = "create_user"
    <3>1. /\ req.name \in Names \cup {Blank} /\ req.password \in Passwords \cup {Blank}
          /\ req = [op |-> "create_user", name |-> req.name, password |-> req.password]
      BY <1>1, <2>1 DEF UserRequest
    <3>2. QED
      BY <3>1 DEF OneTracker!Next, OneTracker!DoCreateUser
  <2>2. CASE req.op = "login"
    <3>1. /\ req.name \in Names \cup {Blank} /\ req.password \in Passwords \cup {Blank}
          /\ req = [op |-> "login", name |-> req.name, password |-> req.password]
      BY <1>1, <2>2 DEF UserRequest
    <3>2. QED
      BY <3>1 DEF OneTracker!Next, OneTracker!DoLogin
  <2>3. CASE req.op = "delete_user"
    <3>1. /\ req.name \in Names \cup {Blank}
          /\ req = [op |-> "delete_user", name |-> req.name]
      BY <1>1, <2>3 DEF UserRequest
    <3>2. QED
      BY <3>1 DEF OneTracker!Next, OneTracker!DoDeleteUser
  <2>4. CASE req.op = "logout"
    <3>1. req = [op |-> "logout"]
      BY <1>1, <2>4 DEF UserRequest
    <3>2. QED
      BY <3>1 DEF OneTracker!Next, OneTracker!DoLogout
  <2>5. QED
    BY <1>1, <2>1, <2>2, <2>3, <2>4 DEF UserRequest
<1>2. CASE req \in GroupRequest
  <2>1. CASE req.op = "accept_request"
    <3>1. /\ req.group \in Groups /\ req.name \in Names
          /\ req = [op |-> "accept_request", group |-> req.group, name |-> req.name]
      BY <1>2, <2>1 DEF GroupRequest
    <3>2. QED
      BY <3>1 DEF OneTracker!Next, OneTracker!DoAcceptRequest
  <2>2. CASE req.op # "accept_request"
    <3>1. /\ req.group \in Groups /\ req.op \in {"create_group", "join_group", "leave_group"}
          /\ req = [op |-> req.op, group |-> req.group]
      BY <1>2, <2>2 DEF GroupRequest
    <3>2. QED
      BY <3>1 DEF OneTracker!Next, OneTracker!DoCreateGroup, OneTracker!DoJoinGroup,
                  OneTracker!DoLeaveGroup
  <2>3. QED
    BY <2>1, <2>2
<1>3. CASE req \in FileRequest
  <2>1. CASE req.op = "upload_file"
    <3>1. /\ req.group \in Groups /\ req.file \in FileNames /\ req.hash \in Hashes
          /\ req = [op |-> "upload_file", group |-> req.group, endpoint |-> c,
                    file |-> req.file, hash |-> req.hash]
      BY <1>3, <2>1 DEF FileRequest, Own
    <3>2. QED
      BY <3>1 DEF OneTracker!Next, OneTracker!DoUploadFile
  <2>2. CASE req.op # "upload_file"
    <3>1. /\ req.group \in Groups /\ req.file \in FileNames
          /\ req = [op |-> "download_file", group |-> req.group, file |-> req.file]
      BY <1>3, <2>2 DEF FileRequest
    <3>2. QED
      BY <3>1 DEF OneTracker!Next, OneTracker!DoDownloadFile
  <2>3. QED
    BY <2>1, <2>2
<1>4. CASE req \in QueryRequest
  BY <1>4 DEF OneTracker!Next, OneTracker!DoQuery, OneTracker!QueryRequest, QueryRequest
<1>5. QED
  BY <1>1, <1>2, <1>3, <1>4 DEF Request

(* A request of a client is one to the single tracker: nobody is ahead of the
   tracker that serves it, neither before nor after. *)
LEMMA ServeSimulates ==
  ASSUME TypeOK, Joint, Paced, Front, Front', FewMade, NEW t \in Trackers, NEW c \in Clients,
         NEW req \in Requests, Serve(t, c, req)
  PROVE  OneTracker!Next /\ FewMade'
<1>1. PICK out \in Outcomes(db[t], c, req) :
        /\ db' = [db EXCEPT ![t] = out.db]
        /\ sent' = IF out.success THEN sent + 1 ELSE sent
        /\ done' = IF out.success THEN [done EXCEPT ![t] = Append(@, sent + 1)] ELSE done
  BY DEF Serve
<1>2. /\ status[t] = "up" /\ UNCHANGED status /\ sent < MaxTx /\ Own(c, req)
      /\ \A u \in Trackers : svc[u] = Idle /\ inbox[u] = <<>>
  BY NoHazard DEF Serve, Mirrored, Ready
<1>3. \A u \in Trackers : Len(done[u]) \in Nat
  BY DoneParts
<1>4. \A u \in Trackers : status[u] = "up" => Len(done[u]) = Len(done[t])
  <2>. SUFFICES ASSUME NEW u \in Trackers, status[u] = "up", u # t
                PROVE  Len(done[u]) = Len(done[t])
    OBVIOUS
  <2>1. \A x : ~Ahead(u, t, x) /\ ~Ahead(t, u, x)
    BY <1>2, NothingAhead
  <2>2. QED
    BY <1>2, <2>1 DEF Joint, InStep, Running
<1>5. Foremost(t)
  BY <1>2, <1>3, <1>4 DEF Foremost
<1>6. Foremost(t)'
  <2>1. Len(done'[t]) \in Nat /\ Len(done'[t]) >= Len(done[t])
    <3>1. done[t] \in Seq(1..MaxTx) /\ sent + 1 \in 1..MaxTx
      BY <1>2, BoundsAssumption DEF TypeOK
    <3>2. Len(Append(done[t], sent + 1)) = Len(done[t]) + 1
      BY <3>1, AppendProperties
    <3>3. Len(done'[t]) \in {Len(done[t]), Len(done[t]) + 1}
      BY <1>1, <3>2 DEF TypeOK
    <3>4. QED
      BY <1>3, <3>3
  <2>2. \A u \in Trackers \ {t} : done'[u] = done[u]
    BY <1>1 DEF TypeOK
  <2>3. QED
    BY <1>2, <1>3, <1>4, <2>1, <2>2 DEF Foremost
<1>7. db[Newest] = db[t] /\ (db[Newest])' = out.db
  BY <1>1, <1>5, <1>6 DEF Front, TypeOK
<1>8. db[t] \in DB /\ req \in Request /\ db[t].made \in Nat /\ sent \in Nat
  BY RequestsAssumption DEF TypeOK, DB
<1>9. OneTracker!Next
  <2>1. OneTracker!Handle(c, req)
    BY <1>7, SameOutcomes DEF OneTracker!Handle
  <2>2. db[Newest].made < MaxTx
    BY <1>2, <1>7, <1>8, BoundsAssumption DEF FewMade
  <2>3. QED
    BY <1>2, <1>8, <2>1, <2>2, RequestIsStep
<1>10. FewMade'
  <2>1. out.db.made \in {db[t].made, db[t].made + 1}
    BY <1>8, MadeOne
  <2>2. ~out.success => out.db.made = db[t].made
    BY <1>8, FailureSame DEF Same
  <2>3. out.db.made <= sent'
    BY <1>1, <1>7, <1>8, <2>1, <2>2 DEF FewMade
  <2>4. QED
    BY <1>7, <2>3 DEF FewMade
<1>11. QED
  BY <1>9, <1>10

(* The other tracker is the one ahead of a tracker with mail. *)
LEMMA RunMirroredHides ==
  ASSUME TypeOK, Phases, Joint, Front, Front', NEW t \in Trackers, RunMirrored(t)
  PROVE  UNCHANGED db[Newest]
<1>1. PICK i \in DOMAIN inbox[t] :
        /\ inbox[t][i].stage = "accepted"
        /\ \E out : db' = [db EXCEPT ![t] = out.db]
        /\ done' = [done EXCEPT ![t] = Append(@, inbox[t][i].tx.id)]
  BY DEF RunMirrored, InStage
<1>2. \A u \in Trackers : status[u] = "up"
  BY MailAlone DEF Joint
<1>3. PICK u \in Trackers : u # t
  <2>1. inbox[t] # <<>>
    BY BoxParts
  <2>2. QED
    BY <2>1 DEF Joint, Counted
<1>4. Len(done[u]) = Len(done[t]) + 1
  <2>1. Ahead(u, t, inbox[t][i].tx)
    BY <1>1 DEF Ahead
  <2>2. QED
    BY <1>2, <1>3, <2>1 DEF Joint, InStep, Running
<1>5. Len(done[t]) \in Nat /\ Len(done'[t]) = Len(done[t]) + 1
  <2>1. done[t] \in Seq(1..MaxTx) /\ inbox[t][i].tx.id \in 1..MaxTx
    BY BoxParts, TxParts DEF Mail, TypeOK
  <2>2. Len(Append(done[t], inbox[t][i].tx.id)) = Len(done[t]) + 1
    BY <2>1, AppendProperties
  <2>3. QED
    BY <1>1, <2>2, DoneParts DEF TypeOK
<1>6. db'[u] = db[u] /\ done'[u] = done[u] /\ UNCHANGED status
  BY <1>1, <1>3 DEF RunMirrored, TypeOK
<1>7. \A v \in Trackers : v = u \/ v = t
  BY <1>3, TheTwo
<1>8. Foremost(u)
  BY <1>2, <1>4, <1>5, <1>7 DEF Foremost
<1>9. Foremost(u)'
  BY <1>2, <1>4, <1>5, <1>6, <1>7 DEF Foremost
<1>10. QED
  BY <1>6, <1>8, <1>9, FrontStays

(* The tracker that sends its record is the one that is up. *)
LEMMA SyncOneHides ==
  ASSUME TypeOK, Phases, Syncing, Joint, Front, Front', NEW s \in Trackers, SyncOne(s)
  PROVE  UNCHANGED db[Newest]
<1>1. PICK j \in Trackers : j = svc[s].to /\ status[j] = "syncing"
  BY SyncedIsNotUp DEF SyncOne
<1>2. status[s] = "up"
  BY ServiceKinds DEF SyncOne, Phases
<1>3. s # j /\ \A u \in Trackers : u = s \/ u = j
  BY <1>1, <1>2, TheTwo
<1>4. UNCHANGED status /\ db'[s] = db[s] /\ done'[s] = done[s]
  BY <1>1, <1>3 DEF SyncOne, TypeOK
<1>5. Len(done[s]) \in Nat
  BY DoneParts
<1>6. Foremost(s) /\ Foremost(s)'
  BY <1>1, <1>2, <1>3, <1>4, <1>5 DEF Foremost
<1>7. QED
  BY <1>4, <1>6, FrontStays

(* A tracker that begins to listen is the first, or in step with the other. *)
LEMMA ListenHides ==
  ASSUME TypeOK, Joint, Front, Front', NEW j \in Trackers, Listen(j)
  PROVE  UNCHANGED db[Newest]
<1>1. /\ status[j] = "starting" /\ UNCHANGED <<db, done>>
      /\ status'[j] = "up" /\ \A u \in Trackers \ {j} : status'[u] = status[u]
  BY DEF Listen, TypeOK
<1>2. \A u \in Trackers : Len(done[u]) \in Nat
  BY DoneParts
<1>3. ASSUME NEW w \in Trackers, status[w] = "up" PROVE Foremost(w) /\ Foremost(w)'
  <2>1. w # j /\ \A u \in Trackers : u = w \/ u = j
    BY <1>1, <1>3, TheTwo
  <2>2. \A x : ~Ahead(w, j, x) /\ ~Ahead(j, w, x)
    <3>1. \A u \in Trackers : svc[u] = Idle /\ inbox[u] = <<>>
      BY <1>1, NoMail DEF Joint, Joins
    <3>2. QED
      BY <3>1, NothingAhead
  <2>3. Len(done[w]) = Len(done[j])
    BY <1>1, <1>3, <2>1, <2>2 DEF Joint, InStep, Running
  <2>4. QED
    BY <1>1, <1>2, <1>3, <2>1, <2>3 DEF Foremost
<1>4. CASE \A u \in Trackers : status[u] # "up"
  <2>1. Foremost(j) /\ Foremost(j)'
    BY <1>1, <1>2, <1>4 DEF Foremost
  <2>2. QED
    BY <1>1, <2>1, FrontStays
<1>5. QED
  BY <1>1, <1>3, <1>4, FrontStays

(* What a step is to the single tracker: nothing, or a request. *)
Hidden == UNCHANGED db[Newest] /\ UNCHANGED sent
(* The second case. *)
Shown == OneTracker!Next /\ FewMade'

(* Every step is a request or is hidden. *)
LEMMA StepSimulates ==
  ASSUME TypeOK, Phases, Syncing, Joint, Front, Front', FewMade, Paced, Trackers # {},
         [Next]_vars
  PROVE  /\ [OneTracker!Next]_(OneTracker!vars)
         /\ FewMade'
<1>1. ASSUME UNCHANGED <<db, done>>, UNCHANGED sent,
             \A u \in Trackers : status'[u] = "up" <=> status[u] = "up"
      PROVE  Hidden
  BY <1>1, FrontUntouched DEF Hidden
<1>2. ASSUME NEW t \in Trackers, NEW c \in Clients, NEW req \in Requests, Serve(t, c, req)
      PROVE  Shown
  BY <1>2, ServeSimulates DEF Shown
<1>3. ASSUME NEW t \in Trackers, ServiceStep(t)
      PROVE  Hidden
  <2>1. CASE Mirror(t) \/ AcceptMirror(t) \/ CloseMirror(t)
    BY <1>1, <2>1 DEF Mirror, AcceptMirror, CloseMirror
  <2>2. CASE RunMirrored(t)
    BY <2>2, RunMirroredHides DEF RunMirrored, Hidden
  <2>3. ASSUME NEW j \in Others(t), ServeSync(t, j)
        PROVE  Hidden
    BY <1>1, <2>3 DEF ServeSync
  <2>4. ASSUME NEW j \in Others(t), RefuseSync(t, j) PROVE FALSE
    BY <2>4, RefuseSyncNever DEF Others
  <2>5. CASE SyncOne(t)
    BY <2>5, SyncOneHides DEF SyncOne, Hidden
  <2>6. CASE SyncDone(t)
    <3>1. PICK j \in Trackers : j = svc[t].to /\ status[j] = "syncing"
      BY <2>6, SyncedIsNotUp DEF SyncDone
    <3>2. UNCHANGED <<db, done, sent>> /\ status' = [status EXCEPT ![j] = "starting"]
      BY <2>6, <3>1 DEF SyncDone
    <3>3. \A u \in Trackers : status'[u] = "up" <=> status[u] = "up"
      BY <3>1, <3>2 DEF TypeOK
    <3>4. QED
      BY <1>1, <3>2, <3>3
  <2>7. QED
    BY <1>3, <2>1, <2>2, <2>3, <2>4, <2>5, <2>6 DEF ServiceStep
<1>4. ASSUME NEW j \in Trackers, Start(j)
      PROVE  Hidden
  <2>1. UNCHANGED <<db, done, sent>> /\ status[j] = "down"
    BY <1>4 DEF Start
  <2>2. \E st \in {"starting", "syncing"} : status' = [status EXCEPT ![j] = st]
    BY <1>4 DEF Start
  <2>3. \A u \in Trackers : status'[u] = "up" <=> status[u] = "up"
    BY <2>1, <2>2 DEF TypeOK
  <2>4. QED
    BY <1>1, <2>1, <2>3
<1>5. ASSUME NEW j \in Trackers, Listen(j)
      PROVE  Hidden
  BY <1>5, ListenHides DEF Listen, Hidden
<1>6. ASSUME NEW t \in Trackers, Stop(t) PROVE FALSE
  BY <1>6, NoHazard DEF Stop
<1>7. ASSUME NEW c \in Clients, Connect(c)
      PROVE  Hidden
  BY <1>1, <1>7 DEF Connect
<1>8. ASSUME UNCHANGED vars PROVE Hidden
  BY <1>1, <1>8 DEF vars
<1>9. Hidden \/ Shown
  <2>1. CASE Next
    BY <1>2, <1>3, <1>4, <1>5, <1>6, <1>7, <2>1 DEF Next
  <2>2. QED
    BY <1>8, <2>1
<1>10. Hidden => [OneTracker!Next]_(OneTracker!vars) /\ FewMade'
  BY DEF Hidden, OneTracker!vars, FewMade
<1>11. Shown => [OneTracker!Next]_(OneTracker!vars) /\ FewMade'
  BY DEF Shown
<1>12. QED
  BY <1>9, <1>10, <1>11

(* All begin with nothing. *)
LEMMA InitSimulates ==
  ASSUME Init, TypeOK, Trackers # {} PROVE OneTracker!Init /\ FewMade
<1>1. db[Newest] = EmptyDB /\ sent = 0
  BY NewestForemost DEF Init
<1>2. EmptyDB.made = 0 /\ OneTracker!EmptyDB = EmptyDB
  BY DEF EmptyDB, OneTracker!EmptyDB
<1>3. QED
  BY <1>1, <1>2 DEF OneTracker!Init, FewMade

(* All of it together. *)
LEMMA SoleInvariant ==
  ASSUME Paced, OneRequester, OneUploader
  PROVE  Spec => [](TypeOK /\ OnceInv /\ Joint /\ Sole)
<1>1. ~May("reply")
  BY NoHazard
<1>2. Init => Recorded /\ Joint /\ Sole
  BY InitRecorded, InitJoint, InitSole
<1>3. TypeOK /\ OnceInv /\ Recorded /\ Joint /\ Sole /\ [Next]_vars /\ TypeOK'
        => Recorded' /\ Joint' /\ Sole'
  BY <1>1, StepRecorded, StepJoint, StepSole DEF OnceInv, Joint
<1>4. QED
  BY <1>2, <1>3, RunOnceInvariant, PTL DEF Spec

(* When in addition one client does the uploading, the trackers are one tracker:
   the databases of the one that has run most begin empty and change by requests
   that a single Tracker would have answered as it did; mirroring, the start of
   the second tracker and its synchronisation do not show. *)
THEOREM ImplementsOneTracker ==
  ASSUME Paced, OneRequester, OneUploader, Trackers # {} PROVE Spec => BehavesAsOneTracker
<1>1. TypeOK /\ Joint /\ Sole => Front
  BY JointFront
<1>2. Init /\ TypeOK => OneTracker!Init /\ FewMade
  BY InitSimulates
<1>3. TypeOK /\ OnceInv /\ Joint /\ Front /\ Front' /\ FewMade /\ [Next]_vars
        => [OneTracker!Next]_(OneTracker!vars) /\ FewMade'
  BY StepSimulates DEF OnceInv
<1>4. Spec => OneTracker!Init /\ [][OneTracker!Next]_(OneTracker!vars)
  BY <1>1, <1>2, <1>3, SoleInvariant, PTL DEF Spec
<1>5. QED
  BY <1>4 DEF BehavesAsOneTracker, OneTracker!Spec

(* ... and then they agree on the seeders of every file too. *)
THEOREM SeedersAgree ==
  ASSUME Paced, OneRequester, OneUploader PROVE Spec => []SeederAgreement
<1>1. ASSUME TypeOK, Joint, Sole, Mirrored, NEW t \in Trackers, NEW u \in Trackers,
             status[t] = "up", status[u] = "up", t # u
      PROVE  db[t].groups = db[u].groups
  <2>1. \A tx : ~Ahead(t, u, tx) /\ ~Ahead(u, t, tx)
    BY <1>1, NothingAhead DEF Mirrored
  <2>2. Same(db[t], db[u])
    BY <1>1, <2>1 DEF Joint, InStep, Running
  <2>3. QED
    BY <1>1, <2>2, SameAlike DEF TypeOK, Sole
<1>2. TypeOK /\ Joint /\ Sole => SeederAgreement
  BY <1>1 DEF SeederAgreement
<1>3. QED
  BY <1>2, SoleInvariant, PTL
=============================================================================
