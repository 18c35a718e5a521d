--------------------------- MODULE TCPServerProofs ---------------------------
(***************************************************************************)
(* The invariants of TCPServer, for any limits, any number of connections  *)
(* and any hazards.  The inductive invariant adds to them what a step of   *)
(* the loop relies on: the connections of the backlog are new, those that  *)
(* were not made yet have had no callback, a round that holds the          *)
(* listening descriptor has a connection to accept, and the connection     *)
(* whose handler runs is in the list.                                      *)
(***************************************************************************)
EXTENDS TCPServer, SequenceTheorems, FiniteSetTheorems, TLAPS

Fresh ==
  /\ \A c \in Conns : c > made => told[c] = "nothing"
  /\ \A i \in DOMAIN backlog : told[backlog[i]] = "nothing" /\ backlog[i] <= made
  /\ \A i, j \in DOMAIN backlog : backlog[i] = backlog[j] => i = j

Round ==
  /\ Listener \in ready => backlog # <<>>
  /\ Up /\ pc \in {"handler", "waiting"} => turn \in clients

IInv == TypeOK /\ DescriptorsMatch /\ NotifiedInPairs /\ Fresh /\ Round

(* The first connection of a backlog that is not empty, and the rest. *)
LEMMA BacklogParts ==
  ASSUME TypeOK, backlog # <<>>
  PROVE  /\ Len(backlog) \in Nat \ {0} /\ 1 \in DOMAIN backlog
         /\ DOMAIN backlog = 1..Len(backlog)
         /\ Head(backlog) = backlog[1] /\ Head(backlog) \in Conns
         /\ Tail(backlog) \in Seq(Conns) /\ Len(Tail(backlog)) = Len(backlog) - 1
         /\ \A i \in DOMAIN Tail(backlog) :
              i + 1 \in DOMAIN backlog /\ i \in Nat \ {0} /\ Tail(backlog)[i] = backlog[i + 1]
<1>1. backlog \in Seq(Conns)
  BY DEF TypeOK
<1>2. Len(backlog) \in Nat /\ DOMAIN backlog = 1..Len(backlog)
  BY <1>1, LenProperties
<1>3. Len(backlog) # 0
  BY <1>1, EmptySeq
<1>4. 1 \in DOMAIN backlog
  BY <1>2, <1>3
<1>5. Head(backlog) = backlog[1] /\ Head(backlog) \in Conns
  BY <1>1, <1>4, ElementOfSeq, <1>2, <1>3 DEF Head
<1>6. /\ Tail(backlog) \in Seq(Conns) /\ Len(Tail(backlog)) = Len(backlog) - 1
      /\ \A i \in 1..Len(Tail(backlog)) : Tail(backlog)[i] = backlog[i + 1]
  BY <1>1, HeadTailProperties
<1>7. DOMAIN Tail(backlog) = 1..Len(Tail(backlog))
  BY <1>6, LenProperties
<1> QED
  BY <1>2, <1>3, <1>4, <1>5, <1>6, <1>7

(* The backlog after a connection was made: the new one is at its end. *)
LEMMA BacklogGrows ==
  ASSUME TypeOK, NEW c \in Conns
  PROVE  /\ Append(backlog, c) \in Seq(Conns)
         /\ Len(Append(backlog, c)) = Len(backlog) + 1
         /\ DOMAIN Append(backlog, c) = 1..(Len(backlog) + 1)
         /\ DOMAIN backlog = 1..Len(backlog) /\ Len(backlog) \in Nat
         /\ \A i \in DOMAIN Append(backlog, c) :
              Append(backlog, c)[i] = IF i = Len(backlog) + 1 THEN c ELSE backlog[i]
<1>1. backlog \in Seq(Conns)
  BY DEF TypeOK
<1>2. Len(backlog) \in Nat /\ DOMAIN backlog = 1..Len(backlog)
  BY <1>1, LenProperties
<1>3. /\ Append(backlog, c) \in Seq(Conns)
      /\ Len(Append(backlog, c)) = Len(backlog) + 1
      /\ Append(backlog, c)[Len(backlog) + 1] = c
      /\ \A i \in 1..Len(backlog) : Append(backlog, c)[i] = backlog[i]
  BY <1>1, AppendProperties
<1>4. DOMAIN Append(backlog, c) = 1..(Len(backlog) + 1)
  BY <1>3, LenProperties
<1> QED
  BY <1>2, <1>3, <1>4

LEMMA InitIInv == Init => IInv
<1> SUFFICES ASSUME Init PROVE IInv
  OBVIOUS
<1> USE DEF Init, Conns, FDs, Listener, None, Up
<1>0. MaxConns \in Nat /\ MaxFD \in Nat
  BY LimitsAssumption
<1>1. backlog \in Seq(Conns) /\ DOMAIN backlog = {}
  OBVIOUS
<1>2. TypeOK
  BY <1>0, <1>1 DEF TypeOK
<1>3. DescriptorsMatch
  BY DEF DescriptorsMatch
<1>4. NotifiedInPairs
  BY DEF NotifiedInPairs
<1>5. Fresh
  BY <1>1 DEF Fresh
<1>6. Round
  BY DEF Round
<1> QED
  BY <1>2, <1>3, <1>4, <1>5, <1>6 DEF IInv

(* A connection that leaves the list, in whichever branch. *)
LEMMA ForgetKeeps ==
  ASSUME IInv, Up, NEW c \in clients, Forget(c),
         UNCHANGED <<status, running, leaked, backlog, gone, made>>,
         turn' \in Conns \cup {None},
         pc' \in {"test", "select", "round", "ended"},
         ready' \subseteq ready
  PROVE  IInv'
<1> USE DEF Conns, FDs, Listener, None
<1>0. MaxConns \in Nat /\ MaxFD \in Nat /\ c \in Conns
  BY LimitsAssumption DEF IInv, TypeOK
<1>1. TypeOK'
  BY <1>0 DEF IInv, TypeOK, Forget, TellDisconnect
<1>2. DescriptorsMatch'
  <2>1. Up' /\ Up
    BY DEF Up
  <2>2. \A d \in Conns : fdOf'[d] = IF d = c THEN None ELSE fdOf[d]
    BY <1>0 DEF IInv, TypeOK, Forget
  <2>3. clients' = clients \ {c} /\ active' = active \ {fdOf[c]}
    BY DEF Forget
  <2>4. clients \subseteq Conns
    BY DEF IInv, TypeOK
  <2>5. fdOf[c] # Listener /\ \A d \in clients : d # c => fdOf[d] # fdOf[c]
    BY <2>1 DEF IInv, DescriptorsMatch
  <2>6. active' = {Listener} \cup {fdOf'[d] : d \in clients'}
    BY <2>1, <2>2, <2>3, <2>4, <2>5 DEF IInv, DescriptorsMatch
  <2>7. \A d \in Conns : d \in clients' <=> fdOf'[d] # None
    BY <2>1, <2>2, <2>3 DEF IInv, DescriptorsMatch
  <2>8. \A d \in clients' : fdOf'[d] \in FDs \ leaked'
    BY <2>1, <2>2, <2>3, <2>4 DEF IInv, DescriptorsMatch
  <2>9. \A d, e \in clients' : fdOf'[d] = fdOf'[e] => d = e
    BY <2>1, <2>2, <2>3, <2>4 DEF IInv, DescriptorsMatch
  <2> QED
    BY <2>6, <2>7, <2>8, <2>9 DEF DescriptorsMatch
<1>3. told[c] = "connected" /\ told'[c] = "disconnected"
      /\ \A d \in Conns : d # c => told'[d] = told[d]
  BY <1>0 DEF IInv, TypeOK, NotifiedInPairs, Forget, TellDisconnect
<1>4. NotifiedInPairs'
  BY <1>0, <1>3 DEF IInv, NotifiedInPairs, Forget
<1>5. Fresh'
  <2>1. \A i \in DOMAIN backlog : backlog[i] \in Conns
    BY ElementOfSeq, LenProperties DEF IInv, TypeOK
  <2> QED
    BY <1>0, <1>3, <2>1 DEF IInv, Fresh
<1>6. Round'
  BY DEF IInv, Round
<1> QED
  BY <1>1, <1>2, <1>4, <1>5, <1>6 DEF IInv

(* A step that changes neither the list, the descriptors, the callbacks nor the
   backlog: the message counts, the place of the thread, the end of a peer. *)
LEMMA QuietKeeps ==
  ASSUME IInv, TypeOK',
         UNCHANGED <<clients, fdOf, active, leaked, told, backlog, made>>,
         status' = "up" => status = "up",
         Listener \in ready' => backlog # <<>>,
         Up' /\ pc' \in {"handler", "waiting"} => turn' \in clients
  PROVE  IInv'
<1>1. DescriptorsMatch'
  BY DEF IInv, DescriptorsMatch, Up
<1>2. NotifiedInPairs'
  BY DEF IInv, NotifiedInPairs
<1>3. Fresh'
  BY DEF IInv, Fresh
<1>4. Round'
  BY DEF IInv, Round, Up
<1> QED
  BY <1>1, <1>2, <1>3, <1>4 DEF IInv

LEMMA PeerConnectKeeps == ASSUME IInv, PeerConnect PROVE IInv'
<1> DEFINE c == made + 1
<1>0. MaxConns \in Nat /\ made \in Nat /\ c \in Conns /\ c > made
  BY LimitsAssumption DEF IInv, TypeOK, PeerConnect, Conns
<1>g. /\ Append(backlog, c) \in Seq(Conns)
      /\ Len(Append(backlog, c)) = Len(backlog) + 1
      /\ DOMAIN Append(backlog, c) = 1..(Len(backlog) + 1)
      /\ DOMAIN backlog = 1..Len(backlog) /\ Len(backlog) \in Nat
      /\ \A i \in DOMAIN Append(backlog, c) :
           Append(backlog, c)[i] = IF i = Len(backlog) + 1 THEN c ELSE backlog[i]
  <2> HIDE DEF c
  <2> QED
    BY <1>0, BacklogGrows DEF IInv
<1>1. backlog' = Append(backlog, c) /\ made' = c
  BY DEF PeerConnect
<1>2. TypeOK'
  <2>1. c \in 0..MaxConns
    BY <1>0 DEF PeerConnect
  <2> HIDE DEF c
  <2> QED
    BY <1>1, <1>g, <2>1 DEF IInv, TypeOK, PeerConnect, server
<1>3. DescriptorsMatch'
  BY DEF IInv, DescriptorsMatch, PeerConnect, Up, server
<1>4. NotifiedInPairs'
  BY DEF IInv, NotifiedInPairs, PeerConnect, server
<1>5. Fresh'
  <2>1. told' = told /\ \A d \in Conns : d > made => told[d] = "nothing"
    BY DEF IInv, Fresh, PeerConnect, server
  <2>2. \A i \in DOMAIN backlog : backlog[i] \in Conns /\ backlog[i] <= made
                                  /\ told[backlog[i]] = "nothing"
    BY <1>g, ElementOfSeq DEF IInv, Fresh, TypeOK
  <2>3. \A i, j \in DOMAIN backlog : backlog[i] = backlog[j] => i = j
    BY DEF IInv, Fresh
  <2>4. \A d \in Conns : d \in Nat
    BY <1>0 DEF Conns
  <2>5. \A d \in Conns : d > made' => told'[d] = "nothing"
    BY <1>0, <1>1, <2>1, <2>4
  <2>6. \A i \in DOMAIN backlog' : told'[backlog'[i]] = "nothing" /\ backlog'[i] <= made'
    <3> SUFFICES ASSUME NEW i \in DOMAIN backlog'
                 PROVE  told'[backlog'[i]] = "nothing" /\ backlog'[i] <= made'
      OBVIOUS
    <3>1. CASE i = Len(backlog) + 1
      BY <3>1, <1>0, <1>1, <1>g, <2>1
    <3>2. CASE i # Len(backlog) + 1
      <4>1. i \in DOMAIN backlog /\ backlog'[i] = backlog[i]
        BY <3>2, <1>1, <1>g
      <4> QED
        BY <4>1, <1>0, <1>1, <2>1, <2>2, <2>4
    <3> QED
      BY <3>1, <3>2
  <2>7. \A i, j \in DOMAIN backlog' : backlog'[i] = backlog'[j] => i = j
    <3> SUFFICES ASSUME NEW i \in DOMAIN backlog', NEW j \in DOMAIN backlog',
                        backlog'[i] = backlog'[j]
                 PROVE  i = j
      OBVIOUS
    <3> HIDE DEF c
    <3>1. \A k \in DOMAIN backlog' :
            \/ k = Len(backlog) + 1 /\ backlog'[k] = c
            \/ k \in DOMAIN backlog /\ backlog'[k] = backlog[k] /\ backlog[k] # c
      BY <1>0, <1>1, <1>g, <2>2, <2>4
    <3> QED
      BY <3>1, <2>3
  <2> QED
    BY <2>5, <2>6, <2>7 DEF Fresh
<1>6. Round'
  <2>1. backlog' # <<>>
    BY <1>1, <1>g, EmptySeq
  <2> QED
    BY <2>1 DEF IInv, Round, PeerConnect, Up, server
<1> QED
  BY <1>2, <1>3, <1>4, <1>5, <1>6 DEF IInv

(* What is left of the backlog when its first connection was accepted. *)
LEMMA BacklogShrinks ==
  ASSUME IInv, backlog # <<>>
  PROVE  /\ \A i \in DOMAIN Tail(backlog) :
              /\ told[Tail(backlog)[i]] = "nothing" /\ Tail(backlog)[i] <= made
              /\ Tail(backlog)[i] # Head(backlog)
         /\ \A i, j \in DOMAIN Tail(backlog) : Tail(backlog)[i] = Tail(backlog)[j] => i = j
         /\ told[Head(backlog)] = "nothing" /\ Head(backlog) <= made
         /\ Head(backlog) \notin clients
<1>1. /\ Len(backlog) \in Nat \ {0} /\ 1 \in DOMAIN backlog
      /\ Head(backlog) = backlog[1] /\ Head(backlog) \in Conns
      /\ \A i \in DOMAIN Tail(backlog) :
           i + 1 \in DOMAIN backlog /\ i \in Nat \ {0} /\ Tail(backlog)[i] = backlog[i + 1]
  BY BacklogParts DEF IInv
<1>2. /\ \A i \in DOMAIN backlog : told[backlog[i]] = "nothing" /\ backlog[i] <= made
      /\ \A i, j \in DOMAIN backlog : backlog[i] = backlog[j] => i = j
  BY DEF IInv, Fresh
<1>3. told[Head(backlog)] = "nothing" /\ Head(backlog) <= made
  BY <1>1, <1>2
<1>4. Head(backlog) \notin clients
  BY <1>1, <1>3 DEF IInv, NotifiedInPairs
<1>5. ASSUME NEW i \in DOMAIN Tail(backlog)
      PROVE  /\ told[Tail(backlog)[i]] = "nothing" /\ Tail(backlog)[i] <= made
             /\ Tail(backlog)[i] # Head(backlog)
  <2>1. i + 1 \in DOMAIN backlog /\ i + 1 # 1 /\ Tail(backlog)[i] = backlog[i + 1]
    BY <1>1, <1>5
  <2> QED
    BY <2>1, <1>1, <1>2
<1>6. ASSUME NEW i \in DOMAIN Tail(backlog), NEW j \in DOMAIN Tail(backlog),
             Tail(backlog)[i] = Tail(backlog)[j]
      PROVE  i = j
  <2>1. i + 1 = j + 1
    BY <1>1, <1>2, <1>6
  <2> QED
    BY <2>1, <1>1
<1> QED
  BY <1>3, <1>4, <1>5, <1>6

LEMMA AcceptKeeps == ASSUME IInv, Accept PROVE IInv'
<1> USE DEF Conns, FDs, Listener, None
<1>0. MaxConns \in Nat /\ MaxFD \in Nat
  BY LimitsAssumption
<1> DEFINE c == Head(backlog)
<1>1. backlog # <<>> /\ Up
  BY DEF IInv, Round, Accept
<1>2. /\ c \in Conns /\ c \notin clients /\ told[c] = "nothing"
      /\ Tail(backlog) \in Seq(Conns)
  BY <1>1, BacklogParts, BacklogShrinks DEF IInv
<1>3. PICK lost \in Lowest(Free) : \E fd \in Lowest(Free \ {lost}) :
        /\ leaked' = leaked \cup {lost}
        /\ fdOf' = [fdOf EXCEPT ![c] = fd]
        /\ active' = active \cup {fd}
  BY DEF Accept
<1>4. PICK fd \in Lowest(Free \ {lost}) :
        /\ leaked' = leaked \cup {lost}
        /\ fdOf' = [fdOf EXCEPT ![c] = fd]
        /\ active' = active \cup {fd}
  BY <1>3
<1>5. /\ lost \in Free /\ fd \in Free /\ fd # lost
      /\ lost \in FDs /\ fd \in FDs /\ fd \notin leaked
      /\ \A d \in clients : fdOf[d] # fd /\ fdOf[d] # lost
  BY DEF Lowest, Free
<1>6. clients' = clients \cup {c} /\ told' = TellConnect(c) /\ backlog' = Tail(backlog)
      /\ ready' = ready \ {Listener}
      /\ UNCHANGED <<status, running, pc, turn, data, gone, made>>
  BY DEF Accept
<1> HIDE DEF c
<1>7. told' = [told EXCEPT ![c] = "connected"]
  BY <1>2, <1>6 DEF IInv, TypeOK, TellConnect
<1>8. TypeOK'
  BY <1>0, <1>2, <1>4, <1>5, <1>6, <1>7 DEF IInv, TypeOK
<1>9. DescriptorsMatch'
  <2>1. \A d \in Conns : fdOf'[d] = IF d = c THEN fd ELSE fdOf[d]
    BY <1>2, <1>4 DEF IInv, TypeOK
  <2>2. clients \subseteq Conns
    BY DEF IInv, TypeOK
  <2>3. active' = {Listener} \cup {fdOf'[d] : d \in clients'}
    <3>1. {fdOf'[d] : d \in clients'} = {fdOf[d] : d \in clients} \cup {fd}
      <4>1. \A d \in clients : fdOf'[d] = fdOf[d]
        BY <1>2, <2>1, <2>2
      <4>2. fdOf'[c] = fd /\ clients' = clients \cup {c}
        BY <1>2, <1>6, <2>1
      <4> QED
        BY <4>1, <4>2
    <3>2. active = {Listener} \cup {fdOf[d] : d \in clients}
      BY <1>1 DEF IInv, DescriptorsMatch
    <3>3. active' = active \cup {fd}
      BY <1>4
    <3> DEFINE old == {fdOf[d] : d \in clients}
               new == {fdOf'[d] : d \in clients'}
    <3>4. new = old \cup {fd} /\ active = {Listener} \cup old
      BY <3>1, <3>2
    <3>5. active' = {Listener} \cup new
      <4> HIDE DEF old, new
      <4> QED
        BY <3>3, <3>4
    <3> QED
      BY <3>5
  <2>4. \A d \in Conns : d \in clients' <=> fdOf'[d] # None
    <3>1. fd # None
      BY <1>0, <1>5
    <3>2. \A d \in Conns : d \in clients <=> fdOf[d] # None
      BY <1>1 DEF IInv, DescriptorsMatch
    <3> QED
      BY <1>6, <2>1, <3>1, <3>2
  <2>5. \A d \in clients' : fdOf'[d] \in FDs \ leaked'
    BY <1>1, <1>2, <1>4, <1>5, <1>6, <2>1, <2>2 DEF IInv, DescriptorsMatch
  <2>6. \A d, e \in clients' : fdOf'[d] = fdOf'[e] => d = e
    BY <1>1, <1>2, <1>5, <1>6, <2>1, <2>2 DEF IInv, DescriptorsMatch
  <2> QED
    BY <2>3, <2>4, <2>5, <2>6 DEF DescriptorsMatch
<1>10. \A d \in Conns : told'[d] = IF d = c THEN "connected" ELSE told[d]
  BY <1>7, <1>2 DEF IInv, TypeOK
<1>11. NotifiedInPairs'
  BY <1>2, <1>6, <1>10 DEF IInv, NotifiedInPairs
<1>12. Fresh'
  <2>1. /\ \A i \in DOMAIN backlog' :
              /\ told[backlog'[i]] = "nothing" /\ backlog'[i] <= made /\ backlog'[i] # c
        /\ \A i, j \in DOMAIN backlog' : backlog'[i] = backlog'[j] => i = j
        /\ c <= made
    BY <1>1, <1>6, BacklogShrinks DEF c
  <2>2. \A i \in DOMAIN backlog' : backlog'[i] \in Conns
    BY <1>2, <1>6, ElementOfSeq, LenProperties
  <2>3. \A d \in Conns : d > made => told[d] = "nothing" /\ d # c
    BY <1>0, <1>2, <2>1 DEF IInv, Fresh, TypeOK
  <2> QED
    BY <1>6, <1>10, <2>1, <2>2, <2>3 DEF Fresh
<1>13. Round'
  BY <1>6 DEF IInv, Round, Up
<1> QED
  BY <1>8, <1>9, <1>11, <1>12, <1>13 DEF IInv

LEMMA TurnAwayKeeps == ASSUME IInv, TurnAway PROVE IInv'
<1> USE DEF Conns, FDs, Listener, None
<1>0. MaxConns \in Nat /\ MaxFD \in Nat
  BY LimitsAssumption
<1>1. backlog # <<>> /\ Up
  BY DEF IInv, Round, TurnAway
<1>2. Head(backlog) \in Conns /\ Tail(backlog) \in Seq(Conns)
  BY <1>1, BacklogParts DEF IInv
<1>3. PICK lost \in Free : leaked' = leaked \cup {lost}
  BY DEF TurnAway, Lowest
<1>4. lost \in FDs /\ \A d \in clients : fdOf[d] # lost
  BY DEF Free
<1>5. backlog' = Tail(backlog) /\ ready' = ready \ {Listener}
      /\ data' = [data EXCEPT ![Head(backlog)] = 0]
      /\ UNCHANGED <<status, running, pc, turn, clients, fdOf, active, gone, made, told>>
  BY DEF TurnAway
<1>6. TypeOK'
  BY <1>2, <1>3, <1>4, <1>5 DEF IInv, TypeOK
<1>7. DescriptorsMatch'
  BY <1>1, <1>3, <1>4, <1>5 DEF IInv, DescriptorsMatch
<1>8. NotifiedInPairs'
  BY <1>5 DEF IInv, NotifiedInPairs
<1>9. Fresh'
  BY <1>1, <1>5, BacklogShrinks DEF IInv, Fresh
<1>10. Round'
  BY <1>5 DEF IInv, Round, Up
<1> QED
  BY <1>6, <1>7, <1>8, <1>9, <1>10 DEF IInv

LEMMA StepKeeps == IInv /\ [Next]_vars => IInv'
<1> SUFFICES ASSUME IInv, [Next]_vars PROVE IInv'
  OBVIOUS
<1> USE DEF Up
<1>0. TypeOK /\ \A c \in Conns : c # None
  <2>1. MaxConns \in Nat
    BY LimitsAssumption
  <2> QED
    BY <2>1 DEF IInv, Conns, None
<1>1. CASE Test \/ EndRound
  <2>1. TypeOK'
    BY <1>0, <1>1 DEF Test, EndRound, TypeOK, peers
  <2> QED
    BY <2>1, <1>1, QuietKeeps DEF Test, EndRound, peers, IInv, Round
<1>2. CASE Select
  <2>1. ready' \subseteq active /\ (Listener \in ready' => backlog # <<>>)
    <3>1. ready' = {fd \in active : Readable(fd)}
      BY <1>2 DEF Select
    <3>2. \A c \in clients : fdOf[c] # Listener
      BY <1>2 DEF Select, IInv, DescriptorsMatch, FDs, Listener
    <3> QED
      BY <3>1, <3>2 DEF Readable
  <2>2. TypeOK'
    BY <1>0, <1>2, <2>1 DEF Select, TypeOK, peers
  <2> QED
    BY <2>1, <2>2, <1>2, QuietKeeps DEF Select, peers
<1>3. CASE AcceptFails
  <2>1. /\ status' \in {"exhausted", "aborted"} /\ UNCHANGED <<running, server, peers>>
    BY <1>3 DEF AcceptFails, Die
  <2>2. TypeOK'
    BY <1>0, <2>1 DEF TypeOK, server, peers
  <2> QED
    BY <2>1, <2>2, QuietKeeps DEF server, peers, IInv, Round
<1>4. CASE Accept
  BY <1>4, AcceptKeeps
<1>5. CASE TurnAway
  BY <1>5, TurnAwayKeeps
<1>6. ASSUME NEW c \in Conns, Receive(c) PROVE IInv'
  <2>1. PICK n \in 0..(data[c] - 1) : data' = [data EXCEPT ![c] = n]
    BY <1>6 DEF Receive
  <2>2. TypeOK'
    BY <1>0, <1>6, <2>1 DEF Receive, TypeOK
  <2> QED
    BY <1>6, <2>2, QuietKeeps DEF Receive, IsNext, IInv, Round
<1>7. ASSUME NEW c \in Conns, Notice(c) PROVE IInv'
  <2>1. /\ c \in clients /\ Forget(c) /\ ready' \subseteq ready /\ pc' = "round"
        /\ UNCHANGED <<status, running, turn, leaked, backlog, gone, made>>
    BY <1>7 DEF Notice, IsNext
  <2> QED
    BY <1>0, <2>1, <1>7, ForgetKeeps DEF Notice, TypeOK
<1>8. CASE HandlerReturns
  <2>1. TypeOK'
    BY <1>0, <1>8 DEF HandlerReturns, TypeOK, peers
  <2> QED
    BY <2>1, <1>8, QuietKeeps DEF HandlerReturns, peers, IInv, Round
<1>9. CASE HandlerEnds
  <2>1. turn \in clients
    BY <1>9 DEF HandlerEnds, IInv, Round
  <2> QED
    BY <2>1, <1>9, ForgetKeeps DEF HandlerEnds
<1>10. CASE HandlerFaults
  <2>1. status' = "faulted" /\ UNCHANGED <<running, server, peers>>
    BY <1>10 DEF HandlerFaults, Die
  <2>2. TypeOK'
    BY <1>0, <2>1 DEF TypeOK, server, peers
  <2> QED
    BY <2>1, <2>2, QuietKeeps DEF server, peers, IInv, Round
<1>11. CASE HandlerWaits
  <2>1. TypeOK'
    BY <1>0, <1>11 DEF HandlerWaits, TypeOK, peers
  <2> QED
    BY <2>1, <1>11, QuietKeeps DEF HandlerWaits, peers, IInv, Round
<1>12. CASE HandlerResumes
  <2>1. PICK n \in 0..data[turn] : data' = [data EXCEPT ![turn] = n]
    BY <1>12 DEF HandlerResumes
  <2>2. turn \in clients
    BY <1>12 DEF HandlerResumes, IInv, Round
  <2>3. TypeOK'
    BY <1>0, <1>12, <2>1, <2>2 DEF HandlerResumes, TypeOK
  <2> QED
    BY <2>2, <2>3, <1>12, QuietKeeps DEF HandlerResumes, IInv, Round
<1>13. CASE PeerConnect
  BY <1>13, PeerConnectKeeps
<1>14. ASSUME NEW c \in Conns, PeerSend(c) \/ PeerClose(c) PROVE IInv'
  <2>1. TypeOK'
    BY <1>0, <1>14 DEF PeerSend, PeerClose, TypeOK, server
  <2> QED
    BY <2>1, <1>14, QuietKeeps DEF PeerSend, PeerClose, server, IInv, Round
<1>15. CASE Stop
  <2>1. TypeOK'
    BY <1>0, <1>15 DEF Stop, TypeOK, server, peers
  <2> QED
    BY <2>1, <1>15, QuietKeeps DEF Stop, server, peers, IInv, Round
<1>16. CASE Joined
  <2>1. TypeOK'
    BY <1>0, <1>16 DEF Joined, TypeOK, peers
  <2>2. DescriptorsMatch' /\ NotifiedInPairs' /\ Fresh' /\ Round'
    BY <1>16 DEF Joined, peers, IInv, DescriptorsMatch, NotifiedInPairs, Fresh, Round
  <2> QED
    BY <2>1, <2>2 DEF IInv
<1>17. CASE UNCHANGED vars
  <2>1. TypeOK'
    BY <1>0, <1>17 DEF vars, TypeOK
  <2> QED
    BY <2>1, <1>17, QuietKeeps DEF vars, IInv, Round
<1> QED
  BY <1>1, <1>2, <1>3, <1>4, <1>5, <1>6, <1>7, <1>8, <1>9, <1>10, <1>11, <1>12,
     <1>13, <1>14, <1>15, <1>16, <1>17 DEF Next, ServiceStep, PeerStep

LEMMA Invariance == Spec => []IInv
BY InitIInv, StepKeeps, PTL DEF Spec

(* The state of the server and of its peers keeps its types. *)
THEOREM TypeCorrect == Spec => []TypeOK
<1>1. IInv => TypeOK
  BY DEF IInv
<1> QED
  BY <1>1, Invariance, PTL

(* The watched descriptors are those of the listening socket and of the clients
   in the list, for any limits and any numbers of connections: select() never
   meets a closed one, and no event reaches another connection than its own. *)
THEOREM WatchedAreClients == Spec => []DescriptorsMatch
<1>1. IInv => DescriptorsMatch
  BY DEF IInv
<1> QED
  BY <1>1, Invariance, PTL

(* Every connection that enters the list is reported once, and once more when
   it leaves it. *)
THEOREM CallbacksPaired == Spec => []NotifiedInPairs
<1>1. IInv => NotifiedInPairs
  BY DEF IInv
<1> QED
  BY <1>1, Invariance, PTL

-----------------------------------------------------------------------------
(* The descriptors that are free, counted. *)

LEMMA Counts ==
  ASSUME IInv
  PROVE  /\ IsFiniteSet(Free) /\ Cardinality(Free) \in Nat
         /\ IsFiniteSet(clients) /\ Cardinality(clients) \in Nat
         /\ Len(backlog) \in Nat /\ made \in Nat /\ MaxFD \in Nat
<1>1. MaxFD \in Nat /\ MaxConns \in Nat /\ made \in Nat
  BY LimitsAssumption DEF IInv, TypeOK
<1>2. IsFiniteSet(FDs) /\ IsFiniteSet(Conns)
  BY <1>1, FS_Interval DEF FDs, Conns
<1>3. Free \subseteq FDs /\ clients \subseteq Conns
  BY DEF Free, IInv, TypeOK
<1>4. IsFiniteSet(Free) /\ IsFiniteSet(clients)
  BY <1>2, <1>3, FS_Subset
<1>5. Cardinality(Free) \in Nat /\ Cardinality(clients) \in Nat
  BY <1>4, FS_CardinalityType
<1>6. Len(backlog) \in Nat
  BY LenProperties DEF IInv, TypeOK
<1> QED
  BY <1>1, <1>4, <1>5, <1>6

(* A client that leaves the list gives its descriptor back. *)
LEMMA ForgetFrees ==
  ASSUME IInv, Up, NEW c \in clients, Forget(c), UNCHANGED leaked
  PROVE  /\ Cardinality(Free') = Cardinality(Free) + 1
         /\ Cardinality(clients') = Cardinality(clients) - 1
<1>1. /\ \A d \in clients : fdOf[d] \in FDs \ leaked
      /\ \A d, e \in clients : fdOf[d] = fdOf[e] => d = e
      /\ clients \subseteq Conns
  BY DEF IInv, DescriptorsMatch, TypeOK
<1>2. \A d \in clients : d # c => fdOf'[d] = fdOf[d]
  BY <1>1 DEF Forget, IInv, TypeOK
<1>3. clients' = clients \ {c}
  BY DEF Forget
<1>4. {fdOf'[d] : d \in clients'} = {fdOf[d] : d \in clients} \ {fdOf[c]}
  BY <1>1, <1>2, <1>3
<1>5. Free' = Free \cup {fdOf[c]} /\ fdOf[c] \notin Free
  BY <1>1, <1>4 DEF Free
<1>6. Cardinality(Free') = Cardinality(Free) + 1
  BY <1>5, Counts, FS_AddElement
<1>7. Cardinality(clients') = Cardinality(clients) - 1
  BY <1>3, Counts, FS_RemoveElement
<1> QED
  BY <1>6, <1>7

LEMMA AcceptTakes ==
  ASSUME IInv, Accept
  PROVE  /\ Cardinality(Free') = Cardinality(Free) - 2
         /\ Cardinality(clients') = Cardinality(clients) + 1
         /\ Accepted' = Accepted + 1
<1> DEFINE c == Head(backlog)
<1>1. backlog # <<>> /\ Up
  BY DEF IInv, Round, Accept
<1>2. /\ c \in Conns /\ c \notin clients /\ Len(Tail(backlog)) = Len(backlog) - 1
  BY <1>1, BacklogParts, BacklogShrinks DEF IInv
<1>3. PICK lost \in Lowest(Free) : \E fd \in Lowest(Free \ {lost}) :
        leaked' = leaked \cup {lost} /\ fdOf' = [fdOf EXCEPT ![c] = fd]
  BY DEF Accept
<1>4. PICK fd \in Lowest(Free \ {lost}) :
        leaked' = leaked \cup {lost} /\ fdOf' = [fdOf EXCEPT ![c] = fd]
  BY <1>3
<1>5. lost \in Free /\ fd \in Free \ {lost}
  BY DEF Lowest
<1>6. clients' = clients \cup {c} /\ backlog' = Tail(backlog) /\ made' = made
  BY DEF Accept
<1> HIDE DEF c
<1>7. {fdOf'[d] : d \in clients'} = {fdOf[d] : d \in clients} \cup {fd}
  BY <1>2, <1>4, <1>6 DEF IInv, TypeOK
<1>8. Free' = (Free \ {lost}) \ {fd}
  BY <1>4, <1>7 DEF Free
<1>9. IsFiniteSet(Free \ {lost}) /\ Cardinality(Free \ {lost}) = Cardinality(Free) - 1
  BY <1>5, Counts, FS_RemoveElement
<1>10. Cardinality(Free') = Cardinality(Free) - 1 - 1
  BY <1>5, <1>8, <1>9, FS_RemoveElement
<1>11. Cardinality(clients') = Cardinality(clients) + 1
  BY <1>2, <1>6, Counts, FS_AddElement
<1>12. Accepted' = Accepted + 1
  <2>1. Len(backlog') = Len(backlog) - 1
    BY <1>2, <1>6
  <2>2. Len(backlog) \in Nat /\ made \in Nat /\ made' = made
    BY <1>6, Counts
  <2> QED
    BY <2>1, <2>2 DEF Accepted
<1> QED
  BY <1>10, <1>11, <1>12, Counts

LEMMA AccountedKept ==
  IInv /\ IInv' /\ DescriptorsAccounted /\ [Next]_vars => DescriptorsAccounted'
<1> SUFFICES ASSUME IInv, IInv', DescriptorsAccounted, [Next]_vars
             PROVE  DescriptorsAccounted'
  OBVIOUS
<1> USE DEF DescriptorsAccounted, Up
<1>0. /\ Cardinality(Free) \in Nat /\ Cardinality(clients) \in Nat
      /\ Len(backlog) \in Nat /\ made \in Nat /\ MaxFD \in Nat
      /\ Accepted \in Int
  BY Counts DEF Accepted
<1>1. ASSUME UNCHANGED <<status, leaked, fdOf, clients, Accepted>> PROVE DescriptorsAccounted'
  BY <1>1 DEF Free
<1>2. ASSUME Up, NEW c \in clients, Forget(c), UNCHANGED <<status, leaked, backlog, made>>
      PROVE  DescriptorsAccounted'
  BY <1>0, <1>2, ForgetFrees DEF Accepted
<1>3. CASE Accept
  <2>1. Up /\ status' = status
    BY <1>3 DEF Accept
  <2> QED
    BY <1>0, <1>3, <2>1, AcceptTakes
<1>4. CASE TurnAway
  <2>1. /\ Up /\ backlog # <<>> /\ backlog' = Tail(backlog)
        /\ UNCHANGED <<status, clients, fdOf, made>>
    BY <1>4 DEF TurnAway, IInv, Round
  <2>2. PICK lost \in Free : leaked' = leaked \cup {lost}
    BY <1>4 DEF TurnAway, Lowest
  <2>3. Free' = Free \ {lost}
    BY <2>1, <2>2 DEF Free
  <2>4. Cardinality(Free') = Cardinality(Free) - 1
    BY <2>3, Counts, FS_RemoveElement
  <2>5. Len(backlog') = Len(backlog) - 1
    BY <2>1, BacklogParts DEF IInv
  <2> QED
    BY <1>0, <2>1, <2>4, <2>5 DEF Accepted
<1>5. CASE AcceptFails
  <2>1. /\ Up /\ UNCHANGED <<leaked, fdOf, clients, backlog, made>>
        /\ \/ status' = "exhausted" /\ Cardinality(Free) < 2
           \/ status' = "aborted"
    BY <1>5 DEF AcceptFails, Die, server, peers
  <2>2. Accepted' = Accepted
    BY <2>1 DEF Accepted
  <2> QED
    BY <1>0, <2>1, <2>2
<1>6. CASE PeerConnect
  <2>1. made' = made + 1 /\ backlog' = Append(backlog, made + 1)
        /\ UNCHANGED <<status, leaked, fdOf, clients>>
    BY <1>6 DEF PeerConnect, server
  <2>2. made + 1 \in Conns
    BY <1>0, <1>6, LimitsAssumption DEF PeerConnect, Conns
  <2>3. Len(backlog') = Len(backlog) + 1
    BY <2>1, <2>2, BacklogGrows DEF IInv
  <2>4. Accepted' = Accepted
    BY <1>0, <2>1, <2>3 DEF Accepted
  <2> QED
    BY <1>1, <2>1, <2>4
<1>7. ASSUME NEW c \in Conns, Receive(c) \/ PeerSend(c) \/ PeerClose(c)
      PROVE  DescriptorsAccounted'
  BY <1>1, <1>7 DEF Receive, PeerSend, PeerClose, server, Accepted
<1>8. ASSUME NEW c \in Conns, Notice(c) PROVE DescriptorsAccounted'
  BY <1>2, <1>8 DEF Notice, IsNext
<1>9. CASE HandlerEnds
  <2>1. turn \in clients
    BY <1>9 DEF HandlerEnds, IInv, Round
  <2> QED
    BY <1>2, <1>9, <2>1 DEF HandlerEnds
<1>10. CASE HandlerFaults \/ Joined
  <2>1. status' \in {"faulted", "stopped"}
    BY <1>10 DEF HandlerFaults, Joined, Die
  <2> QED
    BY <2>1
<1>11. CASE Test \/ Select \/ EndRound \/ HandlerReturns \/ HandlerWaits
  BY <1>1, <1>11 DEF Test, Select, EndRound, HandlerReturns, HandlerWaits, peers, Accepted
<1>12. CASE HandlerResumes \/ Stop
  BY <1>1, <1>12 DEF HandlerResumes, Stop, server, peers, Accepted
<1>13. CASE UNCHANGED vars
  BY <1>1, <1>13 DEF vars, Accepted
<1> QED
  BY <1>3, <1>4, <1>5, <1>6, <1>7, <1>8, <1>9, <1>10, <1>11, <1>12, <1>13
     DEF Next, ServiceStep, PeerStep

(* However connections come and go, each one accepted costs one descriptor for
   good: the process ends for want of one after as many connections as it had
   descriptors, less those its clients hold and one more. *)
THEOREM OneLostPerConnection == Spec => []DescriptorsAccounted
<1>1. Init => DescriptorsAccounted
  <2> SUFFICES ASSUME Init PROVE DescriptorsAccounted
    OBVIOUS
  <2>1. MaxFD \in Nat
    BY LimitsAssumption
  <2>2. Free = 1..MaxFD /\ clients = {} /\ made = 0 /\ backlog = <<>>
    BY DEF Init, Free, FDs
  <2>3. Cardinality(Free) = MaxFD
    BY <2>1, <2>2, FS_Interval
  <2>4. Cardinality(clients) = 0 /\ Len(backlog) = 0
    BY <2>2, FS_EmptySet
  <2>5. status = "up"
    BY DEF Init
  <2> QED
    BY <2>1, <2>2, <2>3, <2>4, <2>5 DEF DescriptorsAccounted, Accepted
<1>2. Init => IInv
  BY InitIInv
<1>3. IInv /\ [Next]_vars => IInv'
  BY StepKeeps
<1> QED
  BY <1>1, <1>2, <1>3, AccountedKept, PTL DEF Spec
=============================================================================
