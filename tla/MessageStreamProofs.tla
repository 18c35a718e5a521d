------------------------- MODULE MessageStreamProofs -------------------------
(***************************************************************************)
(* The invariants of MessageStream and its safety as a Channel, for any    *)
(* length of the buffer and any lengths of messages.                       *)
(*                                                                         *)
(* Between two reads a call has read a whole number of buffers (InLoop);   *)
(* while the rules are kept, at most one message is on its way, all of it  *)
(* has arrived or nothing has (OneAtATime).  The message's length is no    *)
(* multiple of the buffer's, so bytes of it are left whenever the loop     *)
(* peeks: the peek never throws.                                           *)
(***************************************************************************)
EXTENDS MessageStream, SequenceTheorems, TLAPS

InLoop ==
  /\ pc \in {"recv", "peek"} => Multiple(pos - from)
  /\ pc = "peek" => from < pos
  /\ pc = "recv" /\ from < pos => pos < arrived
  /\ pc = "ended" => peer # "open"

Last == msgs[Len(msgs)]

OneAtATime ==
  calm =>
    /\ peer # "reset"
    /\ \A i \in DOMAIN log : Got[i] = msgs[i]
    /\ \/ /\ Len(msgs) = Len(log)
          /\ sent = pos /\ (pc \in {"recv", "peek"} => from = pos)
       \/ /\ Len(msgs) = Len(log) + 1
          /\ Last.to = sent /\ Last.from < sent /\ Good(sent - Last.from)
          /\ arrived \in {Last.from, sent}
          /\ \/ pc \in {"recv", "peek"} /\ from = Last.from
             \/ pc = "idle" /\ pos = Last.from

IInv == TypeOK /\ InOrder /\ LossesFillBuffers /\ InLoop /\ OneAtATime

(* Whole numbers of buffers: none, and one more. *)
LEMMA MultipleZero == Multiple(0)
<1>1. 0 \in 0..0 /\ 0 = 0 * Buffer
  BY BufferAssumption
<1> QED
  BY <1>1 DEF Multiple

LEMMA MultipleNext ==
  ASSUME NEW n \in Nat, Multiple(n)
  PROVE  Multiple(n + Buffer)
<1>1. PICK k \in 0..n : n = k * Buffer
  BY DEF Multiple
<1>2. Buffer \in Nat /\ Buffer >= 1
  BY BufferAssumption
<1>3. (k + 1) * Buffer = k * Buffer + Buffer
  BY <1>2
<1>4. k + 1 \in 0..(n + Buffer)
  BY <1>1, <1>2
<1> QED
  BY <1>1, <1>3, <1>4 DEF Multiple

(* The log after one more entry. *)
LEMMA LogGrows ==
  ASSUME TypeOK, NEW e \in Outcome
  PROVE  /\ Append(log, e) \in Seq(Outcome)
         /\ Len(log) \in Nat /\ DOMAIN log = 1..Len(log)
         /\ Len(Append(log, e)) = Len(log) + 1
         /\ DOMAIN Append(log, e) = 1..(Len(log) + 1)
         /\ Append(log, e)[Len(log) + 1] = e
         /\ \A i \in DOMAIN log : Append(log, e)[i] = log[i]
         /\ Append(log, e) # <<>>
<1>1. log \in Seq(Outcome)
  BY DEF TypeOK
<1>2. Len(log) \in Nat /\ DOMAIN log = 1..Len(log)
  BY <1>1, LenProperties
<1>3. /\ Append(log, e) \in Seq(Outcome)
      /\ Len(Append(log, e)) = Len(log) + 1
      /\ Append(log, e)[Len(log) + 1] = e
      /\ \A i \in 1..Len(log) : Append(log, e)[i] = log[i]
  BY <1>1, AppendProperties
<1>4. DOMAIN Append(log, e) = 1..(Len(log) + 1)
  BY <1>3, LenProperties
<1>5. Append(log, e) # <<>>
  BY <1>2, <1>3, EmptySeq
<1> QED
  BY <1>2, <1>3, <1>4, <1>5

(* An entry that ends where the call has got to keeps the log in order, as long
   as the call has read anything. *)
LEMMA EntryInOrder ==
  ASSUME IInv, NEW e \in Outcome, e.from = from, e.to = pos', from < pos',
         pc \in {"recv", "peek"}, log' = Append(log, e),
         pc' \in {"idle", "ended"},
         e.fate = "lost" => Multiple(e.to - e.from)
  PROVE  InOrder' /\ LossesFillBuffers'
<1> DEFINE last == IF log = <<>> THEN 0 ELSE log[Len(log)].to
<1>1. /\ Len(log) \in Nat /\ DOMAIN log = 1..Len(log)
      /\ DOMAIN log' = 1..(Len(log) + 1) /\ Len(log') = Len(log) + 1
      /\ log'[Len(log) + 1] = e /\ log' # <<>>
      /\ \A i \in DOMAIN log : log'[i] = log[i]
  BY LogGrows DEF IInv
<1>2. from = last
  BY DEF IInv, InOrder
<1>3. log = <<>> <=> Len(log) = 0
  BY EmptySeq DEF IInv, TypeOK
<1>4. \A i \in DOMAIN log' :
        /\ log'[i].from < log'[i].to
        /\ log'[i].from = IF i = 1 THEN 0 ELSE log'[i - 1].to
  <2> SUFFICES ASSUME NEW i \in DOMAIN log'
               PROVE  /\ log'[i].from < log'[i].to
                      /\ log'[i].from = IF i = 1 THEN 0 ELSE log'[i - 1].to
    OBVIOUS
  <2>1. CASE i \in DOMAIN log
    <3>1. i = 1 \/ i - 1 \in DOMAIN log
      BY <1>1, <2>1
    <3> QED
      BY <1>1, <2>1, <3>1 DEF IInv, InOrder
  <2>2. CASE i \notin DOMAIN log
    <3>1. i = Len(log) + 1 /\ log'[i] = e
      BY <1>1, <2>2
    <3>2. CASE Len(log) = 0
      BY <1>2, <1>3, <3>1, <3>2
    <3>3. CASE Len(log) # 0
      <4>1. i # 1 /\ i - 1 = Len(log) /\ Len(log) \in DOMAIN log
        BY <1>1, <3>1, <3>3
      <4>2. log'[i - 1] = log[Len(log)]
        BY <1>1, <4>1
      <4> QED
        BY <1>2, <1>3, <3>1, <3>3, <4>1, <4>2
    <3> QED
      BY <3>2, <3>3
  <2> QED
    BY <2>1, <2>2
<1>5. log'[Len(log')].to = pos'
  BY <1>1
<1>6. InOrder'
  BY <1>1, <1>4, <1>5 DEF InOrder
<1>7. LossesFillBuffers'
  <2>1. \A i \in DOMAIN log' : i \in DOMAIN log \/ log'[i] = e
    BY <1>1
  <2> QED
    BY <1>1, <2>1 DEF IInv, LossesFillBuffers
<1> QED
  BY <1>6, <1>7

(* Nothing is in a log, and no call has got anywhere. *)
LEMMA InitIInv == Init => IInv
<1> SUFFICES ASSUME Init PROVE IInv
  OBVIOUS
<1>1. log \in Seq(Outcome) /\ msgs \in Seq(Interval) /\ DOMAIN log = {}
      /\ Len(log) = 0 /\ Len(msgs) = 0
  BY DEF Init
<1>2. TypeOK
  BY <1>1 DEF Init, TypeOK
<1>3. InOrder /\ LossesFillBuffers
  BY <1>1 DEF Init, InOrder, LossesFillBuffers
<1>4. InLoop /\ OneAtATime
  BY <1>1 DEF Init, InLoop, OneAtATime
<1> QED
  BY <1>2, <1>3, <1>4 DEF IInv

(* The numbers the steps compare. *)
LEMMA Numbers ==
  ASSUME TypeOK
  PROVE  /\ sent \in Nat /\ arrived \in Nat /\ pos \in Nat /\ from \in Nat
         /\ from <= pos /\ pos <= arrived /\ arrived <= sent
         /\ Buffer \in Nat /\ Buffer >= 1
         /\ Len(msgs) \in Nat /\ DOMAIN msgs = 1..Len(msgs)
         /\ Len(log) \in Nat /\ DOMAIN log = 1..Len(log)
         /\ DOMAIN Got = DOMAIN log
<1>1. /\ Len(msgs) \in Nat /\ DOMAIN msgs = 1..Len(msgs)
      /\ Len(log) \in Nat /\ DOMAIN log = 1..Len(log)
  BY LenProperties DEF TypeOK
<1>2. Buffer \in Nat /\ Buffer >= 1
  BY BufferAssumption
<1> QED
  BY <1>1, <1>2 DEF TypeOK, Got

LEMMA SendKeeps ==
  ASSUME IInv, NEW n \in Lengths, Send(n)
  PROVE  IInv'
<1>0. Len(log) \in Nat
  BY Numbers DEF IInv
<1>n. n \in Nat /\ n >= 1
  BY LengthsAssumption
<1> DEFINE m == [from |-> sent, to |-> sent + n]
<1>m. m \in Interval
  BY <1>n, Numbers DEF IInv, Interval
<1>1. PICK taken \in 1..n :
        /\ sent' = sent + taken
        /\ calm' = (calm /\ Len(log) = Len(msgs) /\ Good(n) /\ taken = n)
  BY DEF Send
<1>2. msgs' = Append(msgs, m) /\ UNCHANGED <<arrived, peer, blocking, pc, from, pos, log>>
      /\ peer = "open"
  BY DEF Send, receiver
<1>3. /\ msgs' \in Seq(Interval) /\ Len(msgs') = Len(msgs) + 1
      /\ msgs'[Len(msgs) + 1] = m
      /\ \A i \in 1..Len(msgs) : msgs'[i] = msgs[i]
  <2>1. msgs \in Seq(Interval)
    BY DEF IInv, TypeOK
  <2> HIDE DEF m
  <2> QED
    BY <1>m, <1>2, <2>1, AppendProperties
<1>4. TypeOK'
  <2>1. calm' \in BOOLEAN
    BY <1>1
  <2>2. sent' \in Nat /\ arrived \in 0..sent'
    <3>1. taken \in Nat /\ sent' = sent + taken
      BY <1>n, <1>1
    <3>2. sent \in Nat /\ arrived \in 0..sent
      BY DEF IInv, TypeOK
    <3> QED
      BY <3>1, <3>2
  <2> QED
    BY <1>2, <1>3, <2>1, <2>2 DEF IInv, TypeOK
<1>5. InOrder' /\ LossesFillBuffers' /\ InLoop'
  BY <1>2 DEF IInv, InOrder, LossesFillBuffers, InLoop, Multiple
<1>6. OneAtATime'
  <2> SUFFICES ASSUME calm' PROVE OneAtATime'
    BY DEF OneAtATime
  <2>1. calm /\ Len(log) = Len(msgs) /\ Good(n) /\ sent' = sent + n
    BY <1>1
  <2>2. /\ \A i \in DOMAIN log : Got[i] = msgs[i]
        /\ sent = pos /\ (pc \in {"recv", "peek"} => from = pos)
    <3>1. Len(log) # Len(log) + 1
      BY <1>0
    <3>2. OneAtATime
      BY DEF IInv
    <3> QED
      BY <2>1, <3>1, <3>2 DEF OneAtATime
  <2>3. Got' = Got
    BY <1>2 DEF Got
  <2>4. \A i \in DOMAIN log' : Got'[i] = msgs'[i]
    BY <1>2, <1>3, <2>1, <2>2, <2>3, Numbers DEF IInv
  <2>5. Last' = m /\ m.from = sent /\ m.to = sent'
    BY <1>3, <2>1, Numbers DEF Last, IInv
  <2>6. Good(sent' - m.from)
    <3>1. sent' - m.from = n
      BY <1>n, <2>1, <2>5, Numbers DEF IInv
    <3> QED
      BY <2>1, <3>1
  <2>7. arrived' = sent /\ sent < sent'
    BY <1>n, <1>2, <2>1, <2>2, Numbers DEF IInv
  <2>8. pc # "peek" /\ pc # "ended"
    <3>1. pc # "peek"
      BY <2>2 DEF IInv, InLoop, TypeOK
    <3>2. pc # "ended"
      BY <1>2 DEF IInv, InLoop
    <3> QED
      BY <3>1, <3>2
  <2> QED
    BY <1>2, <1>3, <2>1, <2>2, <2>4, <2>5, <2>6, <2>7, <2>8, Numbers
       DEF IInv, OneAtATime, TypeOK
<1> QED
  BY <1>4, <1>5, <1>6 DEF IInv

LEMMA ArriveKeeps == ASSUME IInv, Arrive PROVE IInv'
<1>1. PICK n \in (arrived + 1)..sent : arrived' = n /\ calm' = (calm /\ n = sent)
  BY DEF Arrive
<1>2. UNCHANGED <<msgs, sent, peer, blocking, pc, from, pos, log>> /\ arrived < sent
  BY DEF Arrive, receiver
<1>3. arrived' \in Nat /\ arrived < arrived' /\ arrived' <= sent
  BY <1>1, Numbers DEF IInv
<1>4. TypeOK'
  <2>1. calm' \in BOOLEAN
    BY <1>1
  <2>2. arrived' \in 0..sent /\ pos \in 0..arrived'
    BY <1>3, Numbers DEF IInv
  <2> QED
    BY <1>2, <2>1, <2>2 DEF IInv, TypeOK
<1>5. InOrder' /\ LossesFillBuffers'
  BY <1>2 DEF IInv, InOrder, LossesFillBuffers, Multiple
<1>6. InLoop'
  BY <1>2, <1>3, Numbers DEF IInv, InLoop, Multiple
<1>7. OneAtATime'
  <2> SUFFICES ASSUME calm' PROVE OneAtATime'
    BY DEF OneAtATime
  <2>1. calm /\ arrived' = sent
    BY <1>1
  <2>2. Got' = Got /\ Last' = Last
    BY <1>2 DEF Got, Last
  <2> QED
    BY <1>2, <2>1, <2>2 DEF IInv, OneAtATime
<1> QED
  BY <1>4, <1>5, <1>6, <1>7 DEF IInv

LEMMA CloseKeeps == ASSUME IInv, Close \/ Reset PROVE IInv'
<1>1. /\ UNCHANGED <<msgs, arrived, blocking, pc, from, pos, log>>
      /\ \/ peer' = "closed" /\ calm' = calm /\ sent' = sent
         \/ peer' = "reset" /\ calm' = FALSE /\ sent' \in arrived..sent
  BY DEF Close, Reset, receiver
<1>2. sent' \in Nat /\ arrived \in 0..sent'
  BY <1>1, Numbers DEF IInv
<1>3. TypeOK'
  BY <1>1, <1>2 DEF IInv, TypeOK
<1>4. InOrder' /\ LossesFillBuffers' /\ InLoop'
  BY <1>1 DEF IInv, InOrder, LossesFillBuffers, InLoop, Multiple
<1>5. Got' = Got /\ Last' = Last
  BY <1>1 DEF Got, Last
<1>6. CASE peer' = "closed" /\ calm' = calm /\ sent' = sent
  <2>1. OneAtATime'
    BY <1>1, <1>5, <1>6 DEF IInv, OneAtATime
  <2> QED
    BY <1>3, <1>4, <2>1 DEF IInv
<1>7. CASE calm' = FALSE
  <2>1. OneAtATime'
    BY <1>7 DEF OneAtATime
  <2> QED
    BY <1>3, <1>4, <2>1 DEF IInv
<1> QED
  BY <1>1, <1>6, <1>7

(* Beginning a call, and the peek that finds more. *)
LEMMA QuietKeeps == ASSUME IInv, Call \/ SetMode \/ Peek PROVE IInv'
<1>1. /\ UNCHANGED <<msgs, sent, arrived, peer, pos, log, calm>>
      /\ \/ pc = "idle" /\ pc' = "recv" /\ from' = pos /\ blocking' = blocking
         \/ pc = "idle" /\ pc' = pc /\ from' = from /\ blocking' \in BOOLEAN
         \/ /\ pc = "peek" /\ pc' = "recv" /\ from' = from /\ blocking' = blocking
            /\ Waiting > 0
  BY DEF Call, SetMode, Peek, environment, IInv, TypeOK
<1>2. TypeOK'
  BY <1>1, Numbers DEF IInv, TypeOK
<1>3. InOrder' /\ LossesFillBuffers'
  BY <1>1 DEF IInv, InOrder, LossesFillBuffers, Multiple
<1>4. InLoop'
  <2>1. pos - pos = 0
    BY Numbers DEF IInv
  <2>2. CASE pc = "idle" /\ pc' = "recv"
    <3>1. Multiple(pos' - from')
      BY <1>1, <2>1, <2>2, MultipleZero
    <3>2. ~(from' < pos')
      BY <1>1, <2>2, Numbers DEF IInv
    <3> QED
      BY <2>2, <3>1, <3>2 DEF InLoop
  <2>3. CASE pc = "idle" /\ pc' = pc
    BY <2>3 DEF InLoop
  <2>4. CASE pc = "peek"
    <3>1. Multiple(pos' - from') /\ pc' = "recv"
      BY <1>1, <2>4 DEF IInv, InLoop
    <3>2. pos' < arrived'
      BY <1>1, <2>4, Numbers DEF IInv, Waiting
    <3> QED
      BY <3>1, <3>2 DEF InLoop
  <2> QED
    BY <1>1, <2>2, <2>3, <2>4
<1>5. Got' = Got /\ Last' = Last
  BY <1>1 DEF Got, Last
<1>6. OneAtATime'
  BY <1>1, <1>5 DEF IInv, OneAtATime
<1> QED
  BY <1>2, <1>3, <1>4, <1>6 DEF IInv

(* A call that returns while the rules are kept returns the message. *)
LEMMA ReturnIsGet ==
  ASSUME IInv, calm, pc \in {"recv", "peek"}, from < pos',
         UNCHANGED <<msgs, sent, peer, arrived, from, calm>>,
         pos' = sent, log' = Append(log, [from |-> from, to |-> pos', fate |-> "returned"]),
         pc' = "idle"
  PROVE  OneAtATime' /\ Messages!Get
<1> DEFINE e == [from |-> from, to |-> pos', fate |-> "returned"]
<1>e. e \in Outcome
  BY Numbers DEF IInv, Outcome, Fates
<1>1. Len(msgs) = Len(log) + 1 /\ Last.to = sent /\ from = Last.from
  <2>1. from # sent
    BY Numbers DEF IInv
  <2>2. OneAtATime
    BY DEF IInv
  <2> QED
    BY <2>1, <2>2 DEF OneAtATime
<1>2. /\ Len(log) \in Nat /\ DOMAIN log = 1..Len(log)
      /\ DOMAIN log' = 1..(Len(log) + 1) /\ Len(log') = Len(log) + 1
      /\ log'[Len(log) + 1] = e
      /\ \A i \in DOMAIN log : log'[i] = log[i]
  <2> HIDE DEF e
  <2> QED
    BY <1>e, LogGrows DEF IInv, e
<1>3. msgs \in Seq(Interval) /\ Len(log) + 1 \in DOMAIN msgs /\ Last \in Interval
      /\ Last = msgs[Len(log) + 1]
  BY <1>1, <1>2, Numbers, ElementOfSeq DEF IInv, TypeOK, Last
<1>4. Last = [from |-> from, to |-> pos']
  BY <1>1, <1>3 DEF Interval
<1>5. /\ DOMAIN Got = 1..Len(log) /\ DOMAIN Got' = 1..(Len(log) + 1)
      /\ Got'[Len(log) + 1] = Last
      /\ \A i \in 1..Len(log) : Got'[i] = Got[i]
  BY <1>2, <1>4 DEF Got
<1>6. OneAtATime'
  <2>1. \A i \in DOMAIN log' : Got'[i] = msgs'[i]
    <3>1. \A i \in 1..Len(log) : Got[i] = msgs[i]
      BY <1>2 DEF IInv, OneAtATime
    <3>2. \A i \in DOMAIN log' : i \in 1..Len(log) \/ i = Len(log) + 1
      BY <1>2
    <3> QED
      BY <1>3, <1>5, <3>1, <3>2
  <2>2. peer # "reset"
    BY DEF IInv, OneAtATime
  <2> QED
    BY <1>1, <1>2, <2>1, <2>2 DEF OneAtATime
<1>7. Got \in Seq(Interval) /\ Len(Got) = Len(log)
  <2>1. \A i \in 1..Len(log) : log[i] \in Outcome
    BY <1>2, ElementOfSeq DEF IInv, TypeOK
  <2>2. Got \in [1..Len(log) -> Interval]
    BY <1>2, <2>1 DEF Got, Outcome, Interval
  <2> QED
    BY <1>2, <2>2, SeqDef, LenProperties
<1>8. Got' = Append(Got, Last)
  <2>1. /\ Append(Got, Last) \in Seq(Interval) /\ Len(Append(Got, Last)) = Len(log) + 1
        /\ Append(Got, Last)[Len(log) + 1] = Last
        /\ \A i \in 1..Len(log) : Append(Got, Last)[i] = Got[i]
    BY <1>3, <1>7, AppendProperties
  <2>2. Append(Got, Last) = [i \in 1..(Len(log) + 1) |-> Append(Got, Last)[i]]
    BY <2>1, LenProperties
  <2>3. Got' = [i \in 1..(Len(log) + 1) |-> Got'[i]]
    BY <1>5 DEF Got
  <2>4. \A i \in 1..(Len(log) + 1) : Append(Got, Last)[i] = Got'[i]
    BY <1>2, <1>5, <2>1
  <2> QED
    BY <2>2, <2>3, <2>4
<1>9. Messages!Get
  BY <1>1, <1>2, <1>3, <1>7, <1>8 DEF Messages!Get
<1> QED
  BY <1>6, <1>9

(* In the loop, while the rules are kept and there is a message on its way that
   has been read in part, all of it has arrived. *)
LEMMA Underway ==
  ASSUME IInv, calm, pc \in {"recv", "peek"}, from < arrived
  PROVE  /\ Len(msgs) = Len(log) + 1 /\ from = Last.from /\ arrived = sent
         /\ Last.from < sent /\ Good(sent - Last.from)
<1>1. from \in Nat /\ pos \in Nat /\ arrived \in Nat /\ sent \in Nat /\ arrived <= sent
      /\ pos <= arrived
  BY Numbers DEF IInv
<1>2. OneAtATime
  BY DEF IInv
<1>3. ~(sent = pos /\ from = pos)
  BY <1>1
<1> QED
  BY <1>1, <1>2, <1>3 DEF OneAtATime

(* While the rules are kept, a peek that finds nothing does not happen. *)
LEMMA PeekFinds ==
  ASSUME IInv, pc = "peek", Waiting = 0
  PROVE  ~calm
<1> SUFFICES ASSUME calm PROVE FALSE
  OBVIOUS
<1>1. from < pos /\ Multiple(pos - from) /\ arrived = pos
  BY Numbers DEF IInv, InLoop, Waiting
<1>2. from = Last.from /\ arrived = sent /\ Good(sent - Last.from)
  BY <1>1, Underway
<1> QED
  BY <1>1, <1>2 DEF Good

(* The loop never finds the stream empty after it has read: the peek came
   first.  So the branch that returns what was read is never taken. *)
LEMMA NothingReadYet ==
  ASSUME IInv, pc = "recv", Waiting = 0
  PROVE  pos = from
BY Numbers DEF IInv, InLoop, Waiting

LEMMA RecvKeeps ==
  ASSUME IInv, Recv
  PROVE  IInv' /\ [Messages!Next]_(Messages!vars)
<1> DEFINE n == Least(Buffer, Waiting)
<1>1. /\ pc = "recv" /\ Waiting > 0 /\ pos' = pos + n
      /\ UNCHANGED <<msgs, sent, arrived, peer, blocking, from, calm>>
  BY DEF Recv, environment
<1>2. /\ n \in Nat /\ n >= 1 /\ pos' \in Nat /\ pos' <= arrived /\ from < pos' /\ pos < pos'
      /\ n < Buffer => pos' = arrived
      /\ n = Buffer \/ n < Buffer
  BY <1>1, Numbers DEF IInv, Waiting, Least
<1>3. from < arrived /\ pos < arrived
  BY <1>2, Numbers DEF IInv
<1>4. CASE n < Buffer
  <2> DEFINE e == [from |-> from, to |-> pos', fate |-> "returned"]
  <2>1. log' = Append(log, e) /\ pc' = "idle"
    BY <1>1, <1>4 DEF Recv, Return
  <2>2. e \in Outcome
    BY <1>2, Numbers DEF IInv, Outcome, Fates
  <2>3. TypeOK'
    <3>1. log' \in Seq(Outcome)
      BY <2>1, <2>2 DEF IInv, TypeOK
    <3>2. pos' \in 0..arrived' /\ from' \in 0..pos'
      BY <1>1, <1>2, Numbers DEF IInv
    <3> QED
      BY <1>1, <2>1, <3>1, <3>2 DEF IInv, TypeOK
  <2>4. InOrder' /\ LossesFillBuffers'
    <3>1. e.from = from /\ e.to = pos' /\ e.fate # "lost"
      OBVIOUS
    <3> HIDE DEF e
    <3> QED
      BY <1>1, <1>2, <2>1, <2>2, <3>1, EntryInOrder
  <2>5. InLoop'
    BY <2>1 DEF InLoop
  <2>6. ASSUME calm PROVE OneAtATime' /\ Messages!Get
    <3>1. pos' = sent
      BY <1>1, <1>2, <1>3, <1>4, <2>6, Underway
    <3> QED
      BY <1>1, <1>2, <2>1, <2>6, <3>1, ReturnIsGet
  <2>7. OneAtATime'
    BY <1>1, <2>6 DEF OneAtATime
  <2>8. Messages!Next
    BY <1>1, <2>6 DEF Messages!Next, Messages!Break, IInv, TypeOK
  <2> QED
    BY <2>3, <2>4, <2>5, <2>7, <2>8 DEF IInv
<1>5. CASE n = Buffer
  <2>1. log' = log /\ pc' = "peek"
    BY <1>1, <1>5, Numbers DEF Recv, IInv
  <2>2. TypeOK'
    <3>1. pos' \in 0..arrived' /\ from' \in 0..pos'
      BY <1>1, <1>2, Numbers DEF IInv
    <3> QED
      BY <1>1, <2>1, <3>1 DEF IInv, TypeOK
  <2>3. InOrder' /\ LossesFillBuffers'
    BY <1>1, <2>1 DEF IInv, InOrder, LossesFillBuffers, Multiple
  <2>4. InLoop'
    <3>1. Multiple(pos - from) /\ pos - from \in Nat
      BY <1>1, Numbers DEF IInv, InLoop
    <3>2. Multiple((pos - from) + Buffer)
      BY <3>1, MultipleNext
    <3>3. (pos - from) + Buffer = pos' - from'
      BY <1>1, <1>5, Numbers DEF IInv
    <3>4. Multiple(pos' - from')
      BY <3>2, <3>3
    <3>5. from' < pos'
      BY <1>1, <1>2
    <3> QED
      BY <2>1, <3>4, <3>5 DEF InLoop
  <2>5. Got' = Got /\ Last' = Last
    BY <1>1, <2>1 DEF Got, Last
  <2>6. OneAtATime'
    <3> SUFFICES ASSUME calm PROVE OneAtATime'
      BY <1>1 DEF OneAtATime
    <3>1. /\ Len(msgs) = Len(log) + 1 /\ from = Last.from /\ arrived = sent
          /\ Last.from < sent /\ Good(sent - Last.from)
      BY <1>1, <1>3, Underway
    <3>2. peer # "reset" /\ \A i \in DOMAIN log : Got[i] = msgs[i]
      BY DEF IInv, OneAtATime
    <3>3. Last.to = sent
      <4>0. Len(log) \in Nat
        BY Numbers DEF IInv
      <4>1. Len(msgs) # Len(log)
        BY <3>1, <4>0
      <4> QED
        BY <4>1 DEF IInv, OneAtATime
    <3>4. Good(sent' - Last'.from)
      BY <1>1, <2>5, <3>1
    <3> QED
      BY <1>1, <2>1, <2>5, <3>1, <3>2, <3>3, <3>4 DEF OneAtATime
  <2>7. UNCHANGED Messages!vars
    BY <1>1, <2>1, <2>5 DEF Messages!vars
  <2> QED
    BY <2>2, <2>3, <2>4, <2>6, <2>7 DEF IInv
<1> QED
  BY <1>2, <1>4, <1>5

(* An exception, from the peek or before anything was read. *)
LEMMA ThrowKeeps ==
  ASSUME IInv, pc \in {"recv", "peek"}, Waiting = 0, NEW place \in {"idle", "ended"},
         Throw(place), pc = "recv" => pos = from, place = "ended" => Over
  PROVE  IInv' /\ [Messages!Next]_(Messages!vars)
<1>1. /\ pc' = place
      /\ UNCHANGED <<msgs, sent, arrived, peer, blocking, from, pos, calm>>
  BY DEF Throw, environment
<1>2. InLoop'
  BY <1>1 DEF InLoop, Over
<1>3. CASE pos = from
  <2>1. log' = log
    BY <1>3 DEF Throw
  <2>2. TypeOK'
    BY <1>1, <2>1 DEF IInv, TypeOK
  <2>3. InOrder' /\ LossesFillBuffers'
    BY <1>1, <1>3, <2>1 DEF IInv, InOrder, LossesFillBuffers, Multiple
  <2>4. Got' = Got /\ Last' = Last
    BY <1>1, <2>1 DEF Got, Last
  <2>5. OneAtATime'
    <3> SUFFICES ASSUME calm PROVE OneAtATime'
      BY <1>1 DEF OneAtATime
    <3>1. /\ arrived = pos /\ pos \in Nat /\ sent \in Nat /\ arrived <= sent
          /\ place = "ended" => sent = pos
      BY Numbers DEF IInv, Over, Waiting
    <3>2. peer # "reset" /\ \A i \in DOMAIN log : Got[i] = msgs[i]
      BY DEF IInv, OneAtATime
    <3>3. CASE Len(msgs) = Len(log) /\ sent = pos
      BY <1>1, <1>3, <2>1, <2>4, <3>2, <3>3 DEF OneAtATime
    <3>4. CASE /\ Len(msgs) = Len(log) + 1
               /\ Last.to = sent /\ Last.from < sent /\ Good(sent - Last.from)
               /\ arrived \in {Last.from, sent} /\ from = Last.from
      <4>1. place = "idle"
        BY <1>3, <3>1, <3>4
      <4>2. Good(sent' - Last'.from)
        BY <1>1, <2>4, <3>4
      <4> QED
        BY <1>1, <1>3, <2>1, <2>4, <3>2, <3>4, <4>1, <4>2 DEF OneAtATime
    <3> QED
      BY <3>3, <3>4 DEF IInv, OneAtATime
  <2>6. UNCHANGED Messages!vars
    BY <1>1, <2>1, <2>4 DEF Messages!vars
  <2> QED
    BY <1>2, <2>2, <2>3, <2>5, <2>6 DEF IInv
<1>4. CASE pos # from
  <2> DEFINE e == [from |-> from, to |-> pos, fate |-> "lost"]
  <2>1. log' = Append(log, e) /\ pc = "peek"
    BY <1>4 DEF Throw
  <2>2. ~calm /\ ~calm'
    BY <1>1, <2>1, PeekFinds
  <2>3. from < pos /\ Multiple(pos - from)
    BY <2>1 DEF IInv, InLoop
  <2>4. e \in Outcome
    BY Numbers DEF IInv, Outcome, Fates
  <2>5. TypeOK'
    <3>1. log' \in Seq(Outcome)
      BY <2>1, <2>4 DEF IInv, TypeOK
    <3> QED
      BY <1>1, <3>1 DEF IInv, TypeOK
  <2>6. InOrder' /\ LossesFillBuffers'
    <3>1. e.from = from /\ e.to = pos' /\ Multiple(e.to - e.from)
      BY <1>1, <2>3
    <3>2. from < pos' /\ pc' \in {"idle", "ended"}
      BY <1>1, <2>3
    <3> HIDE DEF e
    <3> QED
      BY <2>1, <2>4, <3>1, <3>2, EntryInOrder
  <2>7. OneAtATime'
    BY <2>2 DEF OneAtATime
  <2>8. Messages!Next
    BY <1>1, <2>2 DEF Messages!Next, Messages!Break, IInv, TypeOK
  <2> QED
    BY <1>2, <2>5, <2>6, <2>7, <2>8 DEF IInv
<1> QED
  BY <1>3, <1>4

LEMMA EnvironmentMaps ==
  ASSUME IInv, IInv', (\E n \in Lengths : Send(n)) \/ Arrive \/ Close \/ Reset
  PROVE  [Messages!Next]_(Messages!vars)
<1>1. CASE ~calm'
  <2>1. calm' = FALSE
    BY <1>1 DEF IInv, TypeOK
  <2> QED
    BY <2>1 DEF Messages!Next, Messages!Break
<1>2. ASSUME calm', NEW n \in Lengths, Send(n) PROVE Messages!Put
  <2>1. PICK taken \in 1..n :
          /\ sent' = sent + taken
          /\ calm' = (calm /\ Len(log) = Len(msgs) /\ Good(n) /\ taken = n)
    BY <1>2 DEF Send
  <2>2. calm /\ Len(log) = Len(msgs)
    BY <1>2, <2>1
  <2> DEFINE m == [from |-> sent, to |-> sent + n]
  <2>3. m \in Interval /\ msgs \in Seq(Interval)
    BY LengthsAssumption, Numbers DEF IInv, Interval, TypeOK
  <2>4. msgs' = Append(msgs, m) /\ log' = log
    BY <1>2 DEF Send, receiver
  <2> HIDE DEF m
  <2>5. /\ Len(msgs') = Len(msgs) + 1 /\ msgs'[Len(msgs) + 1] = m /\ msgs' # <<>>
        /\ msgs' \in Seq(Interval) /\ Len(msgs) \in Nat
    BY <2>3, <2>4, AppendProperties, EmptySeq, LenProperties
  <2>6. Got' = Got
    BY <2>4 DEF Got
  <2>7. Len(Got) = Len(log)
    <3>1. Len(log) \in Nat /\ DOMAIN log = 1..Len(log)
          /\ \A i \in 1..Len(log) : log[i] \in Outcome
      BY Numbers, ElementOfSeq DEF IInv, TypeOK
    <3>2. Got \in [1..Len(log) -> Interval]
      BY <3>1 DEF Got, Outcome, Interval
    <3> QED
      BY <3>1, <3>2, SeqDef, LenProperties
  <2>8. calm = TRUE /\ calm' = TRUE
    BY <1>2, <2>2 DEF IInv, TypeOK
  <2> QED
    BY <2>2, <2>3, <2>4, <2>5, <2>6, <2>7, <2>8 DEF Messages!Put
<1>3. CASE calm' /\ (Arrive \/ Close \/ Reset)
  <2>1. msgs' = msgs /\ log' = log /\ calm
    BY <1>3 DEF Arrive, Close, Reset, receiver
  <2>2. calm' = calm
    BY <1>3, <2>1 DEF IInv, TypeOK
  <2> QED
    BY <2>1, <2>2 DEF Messages!vars, Got
<1> QED
  BY <1>1, <1>2, <1>3 DEF Messages!Next

LEMMA StepKeeps == IInv /\ [Next]_vars => IInv' /\ [Messages!Next]_(Messages!vars)
<1> SUFFICES ASSUME IInv, [Next]_vars
             PROVE  IInv' /\ [Messages!Next]_(Messages!vars)
  OBVIOUS
<1>1. CASE (\E n \in Lengths : Send(n)) \/ Arrive \/ Close \/ Reset
  <2>1. IInv'
    BY <1>1, SendKeeps, ArriveKeeps, CloseKeeps
  <2> QED
    BY <1>1, <2>1, EnvironmentMaps
<1>2. CASE Call \/ SetMode \/ Peek
  <2>1. UNCHANGED <<msgs, log, calm>>
    BY <1>2 DEF Call, SetMode, Peek, environment
  <2>2. UNCHANGED Messages!vars
    BY <2>1 DEF Messages!vars, Got
  <2> QED
    BY <1>2, <2>2, QuietKeeps
<1>3. CASE Recv
  BY <1>3, RecvKeeps
<1>4. CASE RecvWouldBlock
  <2>1. pos = from
    BY <1>4, NothingReadYet DEF RecvWouldBlock
  <2>2. Throw("idle")
    BY <1>4, <2>1, Numbers DEF RecvWouldBlock, IInv
  <2> QED
    BY <1>4, <2>1, <2>2, ThrowKeeps DEF RecvWouldBlock
<1>5. CASE PeekWouldBlock
  BY <1>5, ThrowKeeps DEF PeekWouldBlock
<1>6. CASE RecvEnd
  <2>1. pos = from
    BY <1>6, NothingReadYet DEF RecvEnd
  <2>2. Throw("ended")
    BY <1>6, <2>1, Numbers DEF RecvEnd, IInv
  <2> QED
    BY <1>6, <2>1, <2>2, ThrowKeeps DEF RecvEnd
<1>7. CASE PeekEnd
  BY <1>7, ThrowKeeps DEF PeekEnd
<1>8. CASE UNCHANGED vars
  <2>1. IInv'
    BY <1>8 DEF vars, IInv, TypeOK, InOrder, LossesFillBuffers, InLoop, OneAtATime,
                Multiple, Last, Got, Good
  <2>2. UNCHANGED Messages!vars
    BY <1>8 DEF vars, Messages!vars, Got
  <2> QED
    BY <2>1, <2>2
<1> QED
  BY <1>1, <1>2, <1>3, <1>4, <1>5, <1>6, <1>7, <1>8 DEF Next, Receive

LEMMA Invariance == Spec => []IInv
<1>1. IInv /\ [Next]_vars => IInv'
  BY StepKeeps
<1> QED
  BY <1>1, InitIInv, PTL DEF Spec

(* The positions of a stream, its messages and what was received of it. *)
THEOREM TypeCorrect == Spec => []TypeOK
<1>1. IInv => TypeOK
  BY DEF IInv
<1> QED
  BY <1>1, Invariance, PTL

(* For any buffer and any lengths, cut and joined in any way, the calls of
   receive_data() take the stream in order, without gap and without repetition. *)
THEOREM StreamInOrder == Spec => []InOrder
<1>1. IInv => InOrder
  BY DEF IInv
<1> QED
  BY <1>1, Invariance, PTL

(* What an exception drops was a whole number of full buffers. *)
THEOREM OnlyFullBuffersLost == Spec => []LossesFillBuffers
<1>1. IInv => LossesFillBuffers
  BY DEF IInv
<1> QED
  BY <1>1, Invariance, PTL

(* A connection is a channel of whole messages as long as its users send one at
   a time, of no multiple of the buffer's length, and TCP delivers it in one
   piece: every step is one of the channel or none. *)
THEOREM ImplementsChannel == Spec => Messages!Spec
<1>1. Init => Messages!Init
  BY DEF Init, Messages!Init, Got
<1>2. IInv /\ [Next]_vars => [Messages!Next]_(Messages!vars)
  BY StepKeeps
<1> QED
  BY <1>1, <1>2, Invariance, PTL DEF Spec, Messages!Spec
=============================================================================
